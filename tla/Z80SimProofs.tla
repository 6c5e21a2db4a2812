----------------------------- MODULE Z80SimProofs -----------------------------
(***************************************************************************)
(* Theorems about sim(), for every width of the registers and every        *)
(* program whose handler ends in EI and a return.                          *)
(***************************************************************************)
EXTENDS Z80Sim, TLAPS

\* Where the program is tells what is on the stack, and why nothing is accepted
\* in the handler: the interrupts are disabled up to EI, and the return is in
\* the delay of EI.
HandlerIsClosed ==
  /\ pc_ <= Main => stack = << >>
  /\ pc_ > Main => \E l \in 1..Main : stack = <<l>>
  /\ pc_ > Main => ~(iff1 = 1 /\ iff2 = 1)
  /\ pc_ > Main /\ pc_ < Len(code) => iff1 = 0

IInv == TypeOK /\ HandlerIsClosed

-------------------------------------------------------------------------------
LEMMA ProgramFacts ==
  ASSUME TypeOK
  PROVE  /\ Main \in Nat \ {0} /\ Len(code) \in Nat /\ Len(code) > Main + 1
         /\ code[Len(code)] \in Returns /\ code[Len(code) - 1] = "EI"
         /\ \A l \in 1..Len(code) :
              /\ code[l] \in Returns <=> l = Len(code)
              /\ l > Main => (code[l] = "EI" <=> l = Len(code) - 1)
<1>1. code \in Programs /\ code \in Seq(Instr)
  BY Z80SimAssumption DEF TypeOK
<1>2. /\ Main \in Nat \ {0} /\ Len(code) \in Nat /\ Len(code) > Main + 1
      /\ code[Len(code)] \in Returns /\ code[Len(code) - 1] = "EI"
      /\ \A l \in 1..(Len(code) - 2) :
           code[l] \notin Returns /\ (l > Main => code[l] # "EI")
  BY <1>1, Z80SimAssumption, HandlerAssumption
<1>3. "EI" \notin Returns
  BY DEF Returns
<1>4. ASSUME NEW l \in 1..Len(code)
      PROVE  l = Len(code) \/ l = Len(code) - 1 \/ l \in 1..(Len(code) - 2)
  BY <1>2
<1>5. QED BY <1>2, <1>3, <1>4

\* A register holds a number modulo its width, which the solver knows for a number that
\* is given only.
LEMMA CutIsAValue == ASSUME NEW c \in Nat PROVE c % Word \in Value
<1>1. Word \in Nat \ {0}
  BY Z80SimAssumption
<1>2. ASSUME NEW S \in Nat \ {0} PROVE c % S \in 0..(S - 1)
  OBVIOUS
<1>3. QED BY <1>1, <1>2 DEF Value

LEMMA Less1IsAValue == ASSUME NEW n \in Value PROVE Less1(n) \in Value
<1>1. Word \in Nat \ {0} /\ n + Word - 1 \in Nat
  BY Z80SimAssumption DEF Value
<1>2. QED BY <1>1, CutIsAValue DEF Less1

LEMMA SteppedIsAValue == ASSUME NEW n \in Value, NEW op PROVE Stepped(op, n) \in Value
<1>1. Word \in Nat \ {0} /\ n + 1 \in Nat
  BY Z80SimAssumption DEF Value
<1>2. (n + 1) % Word \in Value
  BY <1>1, CutIsAValue
<1>3. QED BY <1>2, Less1IsAValue DEF Stepped

\* An instruction that is no return goes to another location of the program, and
\* stays in the handler if it is there.
LEMMA FollowingStays ==
  ASSUME TypeOK, code[pc_] \notin Returns
  PROVE  /\ Following(pc_) \in 1..Len(code)
         /\ pc_ <= Main => Following(pc_) <= Main
         /\ pc_ > Main => Following(pc_) = pc_ + 1 /\ pc_ < Len(code)
<1>1. pc_ \in 1..Len(code) /\ pc_ # Len(code)
  BY ProgramFacts DEF TypeOK
<1>2. QED BY <1>1, ProgramFacts DEF Following

LEMMA SettledIsAFlip == ASSUME TypeOK PROVE Settled \in {0, 1} /\ (iff1 = 0 => Settled = iff2)
BY DEF TypeOK, Settled

LEMMA KindIsAKind == ASSUME NEW i PROVE Kind(i) \in Kinds
BY DEF Kind, Kinds

-------------------------------------------------------------------------------
(* The inductive invariant. *)

\* An instruction that goes on to the next one, with flip-flops that EI alone may
\* set in the handler, keeps the handler closed.
LEMMA GoingOn ==
  ASSUME IInv, NEW flip1 \in {0, 1}, NEW flip2 \in {0, 1},
         code[pc_] \notin Returns, Goes(flip1, flip2), UNCHANGED <<code, stack>>,
         code[pc_] = "EI" => flip1 = 1 /\ flip2 = 0,
         code[pc_] # "EI" /\ iff1 = 0 => flip1 = 0
  PROVE  /\ HandlerIsClosed'
         /\ pc_' \in 1..Len(code') /\ stack' \in Seq(1..Len(code'))
         /\ iff1' \in {0, 1} /\ iff2' \in {0, 1} /\ code' \in Programs
         /\ latest' \in Kinds
<1>1. TypeOK /\ HandlerIsClosed
  BY DEF IInv
<1>0. latest' \in Kinds
  BY KindIsAKind DEF Goes
<1>2. /\ pc_' \in 1..Len(code) /\ pc_ \in 1..Len(code) /\ iff1' = flip1 /\ iff2' = flip2
      /\ pc_ <= Main => pc_' <= Main
      /\ pc_ > Main => pc_' = pc_ + 1 /\ pc_ < Len(code)
      /\ code' = code /\ stack' = stack
  BY <1>1, FollowingStays DEF Goes, TypeOK
<1>3. CASE pc_ <= Main
  <2>1. pc_' <= Main /\ ~(pc_' > Main) /\ stack' = << >>
    BY <1>1, <1>2, <1>3, ProgramFacts DEF HandlerIsClosed
  <2>2. HandlerIsClosed'
    BY <2>1 DEF HandlerIsClosed
  <2>3. QED BY <1>0, <1>1, <1>2, <2>2 DEF TypeOK
<1>4. CASE pc_ > Main
  <2>1. /\ pc_' > Main /\ ~(pc_' <= Main) /\ iff1 = 0
        /\ \E l \in 1..Main : stack' = <<l>>
    BY <1>1, <1>2, <1>4, ProgramFacts DEF HandlerIsClosed
  <2>2. CASE code[pc_] = "EI"
    <3>1. pc_' = Len(code') /\ iff1' = 1 /\ iff2' = 0
      BY <1>1, <1>2, <1>4, <2>2, ProgramFacts
    <3>2. HandlerIsClosed'
      BY <1>1, <1>2, <2>1, <3>1, ProgramFacts DEF HandlerIsClosed
    <3>3. QED BY <1>0, <1>1, <1>2, <3>2 DEF TypeOK
  <2>3. CASE code[pc_] # "EI"
    <3>1. iff1' = 0
      BY <1>2, <2>1, <2>3
    <3>2. HandlerIsClosed'
      BY <2>1, <3>1 DEF HandlerIsClosed
    <3>3. QED BY <1>0, <1>1, <1>2, <3>2 DEF TypeOK
  <2>4. QED BY <2>2, <2>3
<1>5. QED BY <1>0, <1>1, <1>2, <1>3, <1>4, ProgramFacts

LEMMA InitEstablishes == Init => IInv
<1> SUFFICES ASSUME Init PROVE IInv
  OBVIOUS
<1>1. Word \in Nat /\ Word > 1 /\ Main \in Nat \ {0} /\ code \in Seq(Instr)
      /\ Len(code) > Main + 1
  BY Z80SimAssumption, HandlerAssumption DEF Init
<1>2. 0 \in Value /\ mem \in [Value -> Value]
  BY <1>1 DEF Init, Value
<1>3. << >> \in Seq(1..Len(code)) /\ 1 \in 1..Len(code)
  BY <1>1
<1>4. TypeOK
  BY <1>2, <1>3 DEF Init, TypeOK, Kinds
<1>5. HandlerIsClosed
  BY <1>1 DEF Init, HandlerIsClosed
<1>6. QED BY <1>4, <1>5 DEF IInv

LEMMA RoundKeepsTypes ==
  ASSUME IInv, NEW op \in Blocks, Round(op)
  PROVE  /\ bc' \in Value /\ hl' \in Value /\ de' \in Value
         /\ mem' \in [Value -> Value]
         /\ z' \in {0, 1} /\ p' \in {0, 1}
         /\ begun' \in Begun \cup {NotBegun} /\ rounds' \in Nat
<1>1. TypeOK
  BY DEF IInv
<1>2. /\ bc \in Value /\ hl \in Value /\ de \in Value /\ mem \in [Value -> Value]
      /\ z \in {0, 1} /\ rounds \in Nat /\ begun \in Begun \cup {NotBegun}
      /\ pc_ \in Nat
  BY <1>1, ProgramFacts DEF TypeOK
<1>3. Less1(bc) \in Value /\ Stepped(op, hl) \in Value /\ Stepped(op, de) \in Value
  BY <1>2, Less1IsAValue, SteppedIsAValue
<1>4. bc' \in Value /\ hl' \in Value /\ p' \in {0, 1}
  BY <1>3 DEF Round
<1>5. de' \in Value /\ z' \in {0, 1} /\ mem' \in [Value -> Value]
  BY <1>2, <1>3 DEF Round
<1>6. rounds' \in Nat
  BY <1>2 DEF Round
<1> DEFINE start == [op |-> op, at |-> pc_, de |-> de, hl |-> hl, bc |-> bc, mem |-> mem]
           last == IF begun # NotBegun /\ begun.at = pc_ THEN begun ELSE start
           there == IF Repeats(op) THEN pc_ ELSE 0
<1>7. start \in Begun
  BY <1>2 DEF Begun
<1>8. last \in Begun
  BY <1>2, <1>7
<1>9. there \in Nat
  BY <1>2
<1>10. begun' = [last EXCEPT !.at = there]
  BY DEF Round
<1> HIDE DEF last, there
<1>11. begun' \in Begun
  BY <1>8, <1>9, <1>10 DEF Begun
<1>12. QED BY <1>4, <1>5, <1>6, <1>11

\* The registers, the memory and the history have their types after a step that
\* leaves them alone.
LEMMA DataKept ==
  ASSUME TypeOK, UNCHANGED data
  PROVE  /\ a' \in Value /\ bc' \in Value /\ de' \in Value /\ hl' \in Value
         /\ mem' \in [Value -> Value] /\ z' \in {0, 1} /\ p' \in {0, 1}
         /\ begun' \in Begun \cup {NotBegun} /\ rounds' \in Nat
BY DEF TypeOK, data

LEMMA StepKeeps == IInv /\ [Next]_vars => IInv'
<1> SUFFICES ASSUME IInv, [Next]_vars PROVE IInv'
  OBVIOUS
<1>0. /\ TypeOK /\ HandlerIsClosed /\ Settled \in {0, 1} /\ (iff1 = 0 => Settled = iff2)
      /\ iff1 \in {0, 1} /\ iff2 \in {0, 1} /\ irq \in {0, 1} /\ im \in {0, 1, 2}
      /\ a \in Value
  BY SettledIsAFlip DEF IInv, TypeOK
<1>1. CASE Raise
  <2>1. TypeOK'
    BY <1>0, <1>1, DataKept DEF Raise, TypeOK
  <2>2. HandlerIsClosed'
    BY <1>0, <1>1 DEF HandlerIsClosed, Raise
  <2>3. QED BY <2>1, <2>2 DEF IInv
<1>2. CASE Accept
  <2>1. pc_ \in 1..Len(code) /\ pc_ <= Main /\ stack = << >> /\ pc_ \in 1..Main
    BY <1>0, <1>2, ProgramFacts DEF Accept, Accepting, HandlerIsClosed, TypeOK
  <2>2. CASE im = 1
    <3>1. pc_' = Main + 1 /\ stack' = <<pc_>> /\ iff1' = 0 /\ iff2' = 0 /\ code' = code
      BY <1>2, <2>1, <2>2 DEF Accept, Vector
    <3>2. pc_' \in 1..Len(code) /\ stack' \in Seq(1..Len(code))
      BY <1>0, <2>1, <3>1, ProgramFacts
    <3>3. TypeOK'
      BY <1>0, <1>2, <3>1, <3>2, DataKept DEF Accept, TypeOK, Kinds
    <3>4. HandlerIsClosed'
      BY <1>0, <2>1, <3>1, ProgramFacts DEF HandlerIsClosed
    <3>5. QED BY <3>3, <3>4 DEF IInv
  <2>3. CASE im # 1
    <3>1. pc_' = pc_ /\ stack' = stack /\ iff1' = 0 /\ iff2' = 0 /\ code' = code
      BY <1>2, <2>3 DEF Accept
    <3>2. TypeOK'
      BY <1>0, <1>2, <3>1, DataKept DEF Accept, TypeOK, Kinds
    <3>3. HandlerIsClosed'
      BY <1>0, <2>1, <3>1, ProgramFacts DEF HandlerIsClosed
    <3>4. QED BY <3>2, <3>3 DEF IInv
  <2>4. QED BY <2>2, <2>3
<1>3. CASE EI
  <2>1. code[pc_] = "EI" /\ Goes(1, 0) /\ UNCHANGED <<code, stack, im, irq, data>>
    BY <1>3 DEF EI, At
  <2>2. QED BY <1>0, <2>1, GoingOn, DataKept DEF IInv, TypeOK, Returns
<1>4. CASE DI
  <2>1. code[pc_] = "DI" /\ Goes(0, 0) /\ UNCHANGED <<code, stack, im, irq, data>>
    BY <1>4 DEF DI, At
  <2>2. QED BY <1>0, <2>1, GoingOn, DataKept DEF IInv, TypeOK, Returns
<1>5. CASE \E n \in {1, 2} : IM(n)
  <2>1. PICK n \in {1, 2} : IM(n)
    BY <1>5
  <2>2. /\ code[pc_] \in {"IM 1", "IM 2"} /\ Goes(iff1, Settled) /\ im' \in {0, 1, 2}
        /\ UNCHANGED <<code, stack, irq, data>>
    BY <2>1 DEF IM, At
  <2>3. QED BY <1>0, <2>2, GoingOn, DataKept DEF IInv, TypeOK, Returns
<1>6. CASE LD_A_I
  <2>1. /\ code[pc_] = "LD A,I" /\ Goes(iff1, Settled)
        /\ a' = 1 /\ z' = 0 /\ p' = Settled /\ begun' = NotBegun /\ rounds' = 0
        /\ UNCHANGED <<code, stack, im, irq, bc, de, hl, mem>>
    BY <1>6 DEF LD_A_I, At
  <2>2. 1 \in Value
    BY Z80SimAssumption DEF Value
  <2>3. QED BY <1>0, <2>1, <2>2, GoingOn DEF IInv, TypeOK, Returns
<1>7. CASE NOP
  <2>1. code[pc_] = "NOP" /\ Goes(iff1, Settled) /\ UNCHANGED <<code, stack, im, irq, data>>
    BY <1>7 DEF NOP, At
  <2>2. QED BY <1>0, <2>1, GoingOn, DataKept DEF IInv, TypeOK, Returns
<1>8. CASE IndataConsole
  <2>1. /\ code[pc_] = "IN" /\ Goes(iff1, Settled) /\ irq' = 0
        /\ UNCHANGED <<code, stack, im, data>>
    BY <1>8 DEF IndataConsole, At
  <2>2. QED BY <1>0, <2>1, GoingOn, DataKept DEF IInv, TypeOK, Returns
<1>9. CASE Return
  <2>1. pc_ = Len(code) /\ pc_ > Main
    BY <1>0, <1>9, ProgramFacts DEF Return, At, TypeOK
  <2>2. PICK l \in 1..Main : stack = <<l>>
    BY <1>0, <2>1 DEF HandlerIsClosed
  <2>3. /\ pc_' = l /\ stack' = << >> /\ iff1' \in {0, 1} /\ iff2' \in {0, 1}
        /\ latest' \in Kinds /\ UNCHANGED <<code, im, irq, data>>
    BY <1>0, <1>9, <2>2, KindIsAKind DEF Return
  <2>4. pc_' \in 1..Len(code) /\ stack' \in Seq(1..Len(code)) /\ pc_' <= Main
    BY <1>0, <2>3, ProgramFacts
  <2>5. TypeOK'
    BY <1>0, <2>3, <2>4, DataKept DEF TypeOK
  <2>6. HandlerIsClosed'
    BY <1>0, <2>3, <2>4, ProgramFacts DEF HandlerIsClosed
  <2>7. QED BY <2>5, <2>6 DEF IInv
<1>10. CASE \E op \in Blocks : Round(op)
  <2>1. PICK op \in Blocks : Round(op)
    BY <1>10
  <2>2. /\ code[pc_] = op /\ code[pc_] \notin Returns /\ code[pc_] # "EI"
        /\ iff1' = iff1 /\ iff2' = Settled
        /\ pc_' \in {pc_, Following(pc_)} /\ latest' = Kind(code[pc_]) /\ latest' \in Kinds
        /\ UNCHANGED <<code, stack, im, irq, a>>
    BY <2>1, KindIsAKind DEF Round, At, Blocks, Moves, Searches, Returns
  <2>3. /\ HandlerIsClosed'
        /\ pc_' \in 1..Len(code') /\ stack' \in Seq(1..Len(code'))
        /\ iff1' \in {0, 1} /\ iff2' \in {0, 1} /\ code' \in Programs
    <3>1. CASE pc_' = Following(pc_)
      BY <1>0, <2>2, <3>1, GoingOn DEF Goes
    <3>2. CASE pc_' = pc_
      <4>1. pc_ > Main => pc_ < Len(code) /\ iff1' = 0
        BY <1>0, <2>2, FollowingStays DEF HandlerIsClosed
      <4>2. QED BY <1>0, <2>2, <3>2, <4>1 DEF HandlerIsClosed, TypeOK
    <3>3. QED BY <2>2, <3>1, <3>2
  <2>4. QED BY <1>0, <2>1, <2>2, <2>3, RoundKeepsTypes DEF IInv, TypeOK
<1>11. CASE UNCHANGED vars
  <2>1. UNCHANGED <<code, pc_, stack, iff1, iff2, im, irq, latest, data>>
    BY <1>11 DEF vars, cpu
  <2>2. QED BY <1>0, <2>1, DataKept DEF IInv, TypeOK, HandlerIsClosed
<1>12. QED BY <1>1, <1>2, <1>3, <1>4, <1>5, <1>6, <1>7, <1>8, <1>9, <1>10, <1>11 DEF Next, sim

\* The invariant holds in every state of every run.
THEOREM ControlInvariant == Spec => []IInv
BY InitEstablishes, StepKeeps, PTL DEF Spec

\* sim() keeps its types: every register a word, every location one of the program.
THEOREM TypeCorrect == Spec => []TypeOK
<1>1. IInv => TypeOK
  BY DEF IInv
<1>2. QED BY <1>1, ControlInvariant, PTL

\* However long the request is held, and whatever the loop does, the handler is
\* never entered again before it has returned.
THEOREM HandlersDoNotNest == Spec => []NoNesting
<1>1. ASSUME IInv PROVE NoNesting
  <2>1. CASE pc_ <= Main
    BY <1>1, <2>1 DEF IInv, HandlerIsClosed, NoNesting
  <2>2. CASE pc_ > Main
    BY <1>1, <2>2 DEF IInv, HandlerIsClosed, NoNesting
  <2>3. QED BY <1>1, <2>1, <2>2, ProgramFacts DEF IInv, TypeOK
<1>2. QED BY <1>1, ControlInvariant, PTL

-------------------------------------------------------------------------------
(* The flip-flops. *)

LEMMA InitMaps == Init => FF!Init
BY DEF Init, Settled, FF!Init

\* An instruction begins only when the Z80 has no request to accept.
LEMMA NotDue == ASSUME IInv, ~Accepting PROVE ~FF!Due
BY DEF IInv, TypeOK, Accepting, Settled, FF!Due

\* An instruction that lets EI's delay end, and neither sets nor clears a flip-flop.
LEMMA OtherMaps ==
  ASSUME IInv, ~Accepting, iff1' = iff1, iff2' = Settled, irq' \in {0, irq}, p' \in {0, 1},
         latest' = "other"
  PROVE  FF!Other
<1>1. ~FF!Due
  BY NotDue
<1>2. /\ iff1 \in {0, 1} /\ iff2 \in {0, 1}
  BY DEF IInv, TypeOK
<1>3. Settled' = Settled /\ (IF iff1' = 1 /\ iff2' = 0 THEN 1 ELSE 0) = 0
  BY <1>2 DEF Settled
<1>4. QED BY <1>1, <1>3 DEF FF!Other

LEMMA StepMaps == IInv /\ [Next]_vars => [FF!Next]_(FF!vars)
<1> SUFFICES ASSUME IInv, [Next]_vars PROVE FF!Next \/ UNCHANGED FF!vars
  BY DEF FF!vars
<1>0. iff1 \in {0, 1} /\ iff2 \in {0, 1} /\ irq \in {0, 1} /\ p \in {0, 1}
  BY DEF IInv, TypeOK
<1>1. CASE Raise
  <2>1. FF!Request
    BY <1>1 DEF Raise, FF!Request, Settled, data
  <2>2. QED BY <2>1 DEF FF!Next
<1>2. CASE Accept
  <2>1. FF!Accept
    BY <1>0, <1>2 DEF Accept, Accepting, Settled, FF!Accept, FF!Due, data
  <2>2. QED BY <2>1 DEF FF!Next
<1>3. CASE EI
  <2>1. FF!EI
    BY <1>0, <1>3, NotDue DEF EI, At, Goes, Kind, Settled, FF!EI, data
  <2>2. QED BY <2>1 DEF FF!Next
<1>4. CASE DI
  <2>1. FF!DI
    BY <1>0, <1>4, NotDue DEF DI, At, Goes, Kind, Settled, FF!DI, data
  <2>2. QED BY <2>1 DEF FF!Next
<1>5. CASE \E n \in {1, 2} : IM(n)
  <2>1. FF!Other
    BY <1>0, <1>5, OtherMaps DEF IM, At, Goes, Kind, data
  <2>2. QED BY <2>1 DEF FF!Next
<1>6. CASE LD_A_I
  <2>1. FF!LD_A_I
    BY <1>0, <1>6, NotDue DEF LD_A_I, At, Goes, Kind, Settled, FF!LD_A_I
  <2>2. QED BY <2>1 DEF FF!Next
<1>7. CASE NOP
  <2>1. FF!Other
    BY <1>0, <1>7, OtherMaps DEF NOP, At, Goes, Kind, data
  <2>2. QED BY <2>1 DEF FF!Next
<1>8. CASE IndataConsole
  <2>1. FF!Other
    BY <1>0, <1>8, OtherMaps DEF IndataConsole, At, Goes, Kind, data
  <2>2. QED BY <2>1 DEF FF!Next
<1>9. CASE Return
  <2>1. CASE code[pc_] = "RETN"
    <3>1. FF!RETN
      BY <1>0, <1>9, <2>1, NotDue DEF Return, At, Kind, Settled, FF!RETN, data
    <3>2. QED BY <3>1 DEF FF!Next
  <2>2. CASE code[pc_] # "RETN"
    <3>1. FF!Other
      BY <1>0, <1>9, <2>2, OtherMaps DEF Return, Returns, At, Kind, data
    <3>2. QED BY <3>1 DEF FF!Next
  <2>3. QED BY <2>1, <2>2
<1>10. CASE \E op \in Blocks : Round(op)
  <2>1. FF!Other
    BY <1>0, <1>10, OtherMaps DEF Round, At, Kind, Blocks, Moves, Searches
  <2>2. QED BY <2>1 DEF FF!Next
<1>11. CASE UNCHANGED vars
  BY <1>11 DEF vars, cpu, data, FF!vars, Settled
<1>12. QED BY <1>1, <1>2, <1>3, <1>4, <1>5, <1>6, <1>7, <1>8, <1>9, <1>10, <1>11 DEF Next, sim

\* The flip-flops of sim(), EI's trick included, are those of a Z80.
THEOREM SimImplementsFlipFlops == Spec => FlipFlopsImplemented
BY InitMaps, StepMaps, ControlInvariant, PTL DEF Spec, FlipFlopsImplemented, FF!Spec

-------------------------------------------------------------------------------
(* Cells, counted from one of them in the direction of an instruction and around the *)
(* end of the memory.                                                                 *)

\* A multiple of S less than another is less by S at least.
LEMMA MultiplesApart ==
  ASSUME NEW S \in Nat \ {0}, NEW x \in Nat, NEW y \in Nat, x < y
  PROVE  S * y >= S * x + S
<1>1. y - x - 1 \in Nat
  OBVIOUS
<1>2. ASSUME NEW k \in Nat PROVE S * (x + 1 + k) = S * x + S + S * k /\ S * k >= 0
  OBVIOUS
<1>3. S * (x + 1 + (y - x - 1)) >= S * x + S
  BY <1>1, <1>2
<1>4. x + 1 + (y - x - 1) = y
  OBVIOUS
<1>5. QED BY <1>3, <1>4

\* A remainder, by the quotient.
LEMMA RemainderIs ==
  ASSUME NEW S \in Nat \ {0}, NEW c \in Nat, NEW q \in Nat, NEW r \in 0..(S - 1),
         c = S * q + r
  PROVE  c % S = r
<1> DEFINE u == c % S
           v == c \div S
<1>1. u \in 0..(S - 1) /\ v \in Nat /\ c = S * v + u
  OBVIOUS
<1> HIDE DEF u, v
<1>2. ~(q < v)
  BY <1>1, MultiplesApart
<1>3. ~(v < q)
  BY <1>1, MultiplesApart
<1>4. q = v
  BY <1>1, <1>2, <1>3
<1>5. QED BY <1>1, <1>4 DEF u

\* Less than twice the divisor: one subtraction at most.
LEMMA CutOnce ==
  ASSUME NEW S \in Nat \ {0}, NEW x \in 0..(2 * S - 1)
  PROVE  x % S = IF x < S THEN x ELSE x - S
<1>1. CASE x < S
  <2>1. x = S * 0 + x /\ x \in 0..(S - 1)
    BY <1>1
  <2>2. QED BY <1>1, <2>1, RemainderIs
<1>2. CASE x >= S
  <2>1. x = S * 1 + (x - S) /\ x - S \in 0..(S - 1)
    BY <1>2
  <2>2. x % S = x - S
    BY <2>1, RemainderIs
  <2>3. QED BY <1>2, <2>2
<1>3. QED BY <1>1, <1>2

LEMMA WordIsPositive == Word \in Nat \ {0} /\ Value = 0..(Word - 1)
BY Z80SimAssumption DEF Value

Rising == {"LDIR", "CPIR"}

LEMMA CellIs ==
  ASSUME NEW op, NEW c \in Value, NEW n \in 0..Word
  PROVE  /\ Cell(op, c, n) \in Value
         /\ op \in Rising => Cell(op, c, n) = IF c + n < Word THEN c + n ELSE c + n - Word
         /\ op \notin Rising => Cell(op, c, n) = IF n <= c THEN c - n ELSE c + Word - n
<1>0. \A x \in 0..(2 * Word - 1) : x % Word = IF x < Word THEN x ELSE x - Word
  BY WordIsPositive, CutOnce
<1>1. CASE op \in Rising
  <2> DEFINE x == c + n
  <2>1. x \in 0..(2 * Word - 1)
    BY WordIsPositive
  <2>2. Cell(op, c, n) = x % Word
    BY <1>1 DEF Cell, Rising
  <2> HIDE DEF x
  <2>3. Cell(op, c, n) = IF x < Word THEN x ELSE x - Word
    BY <1>0, <2>1, <2>2
  <2>4. QED BY <1>1, <2>3, WordIsPositive DEF x
<1>2. CASE op \notin Rising
  <2> DEFINE x == c + Word - n
  <2>1. x \in 0..(2 * Word - 1)
    BY WordIsPositive
  <2>2. Cell(op, c, n) = x % Word
    BY <1>2 DEF Cell, Rising
  <2> HIDE DEF x
  <2>3. Cell(op, c, n) = IF x < Word THEN x ELSE x - Word
    BY <1>0, <2>1, <2>2
  <2>4. QED BY <1>2, <2>3, WordIsPositive DEF x
<1>3. QED BY <1>1, <1>2

LEMMA CellAtNone == ASSUME NEW op, NEW c \in Value PROVE Cell(op, c, 0) = c
<1>1. 0 \in 0..Word /\ c \in Nat /\ c < Word
  BY WordIsPositive
<1>2. /\ op \in Rising => Cell(op, c, 0) = IF c + 0 < Word THEN c + 0 ELSE c + 0 - Word
      /\ op \notin Rising => Cell(op, c, 0) = IF 0 <= c THEN c - 0 ELSE c + Word - 0
  BY <1>1, CellIs
<1>3. QED BY <1>1, <1>2

\* Steps add up, and after Word of them the count begins again.
LEMMA CellsAdd ==
  ASSUME NEW op, NEW c \in Value, NEW m \in 0..Word, NEW n \in 0..Word
  PROVE  /\ m + n <= Word => Cell(op, Cell(op, c, m), n) = Cell(op, c, m + n)
         /\ m + n >= Word => Cell(op, Cell(op, c, m), n) = Cell(op, c, m + n - Word)
<1> DEFINE b == Cell(op, c, m)
<1>1. Word \in Nat \ {0} /\ c \in 0..(Word - 1)
  BY WordIsPositive
<1>2. /\ b \in Value /\ b \in 0..(Word - 1)
      /\ op \in Rising => b = IF c + m < Word THEN c + m ELSE c + m - Word
      /\ op \notin Rising => b = IF m <= c THEN c - m ELSE c + Word - m
  BY CellIs, WordIsPositive
<1> HIDE DEF b
<1>3. /\ op \in Rising => Cell(op, b, n) = IF b + n < Word THEN b + n ELSE b + n - Word
      /\ op \notin Rising => Cell(op, b, n) = IF n <= b THEN b - n ELSE b + Word - n
  BY <1>2, CellIs
<1>4. ASSUME m + n <= Word PROVE Cell(op, b, n) = Cell(op, c, m + n)
  <2> DEFINE k == m + n
  <2>1. k \in 0..Word
    BY <1>1, <1>4
  <2> HIDE DEF k
  <2>2. /\ op \in Rising => Cell(op, c, k) = IF c + k < Word THEN c + k ELSE c + k - Word
        /\ op \notin Rising => Cell(op, c, k) = IF k <= c THEN c - k ELSE c + Word - k
    BY <2>1, CellIs
  <2>3. QED BY <1>1, <1>2, <1>3, <1>4, <2>1, <2>2 DEF k
<1>5. ASSUME m + n >= Word PROVE Cell(op, b, n) = Cell(op, c, m + n - Word)
  <2> DEFINE k == m + n - Word
  <2>1. k \in 0..Word
    BY <1>1, <1>5
  <2> HIDE DEF k
  <2>2. /\ op \in Rising => Cell(op, c, k) = IF c + k < Word THEN c + k ELSE c + k - Word
        /\ op \notin Rising => Cell(op, c, k) = IF k <= c THEN c - k ELSE c + Word - k
    BY <2>1, CellIs
  <2>3. QED BY <1>1, <1>2, <1>3, <1>5, <2>1, <2>2 DEF k
<1>6. QED BY <1>4, <1>5 DEF b

\* A further round is a further cell.
LEMMA SteppedIsNext ==
  ASSUME NEW op \in Blocks, NEW c \in Value, NEW n \in 0..(Word - 1)
  PROVE  Stepped(op, Cell(op, c, n)) = Cell(op, c, n + 1)
<1> DEFINE b == Cell(op, c, n)
<1>1. n \in 0..Word /\ 1 \in 0..Word /\ n + 1 <= Word /\ Word \in Nat
  BY WordIsPositive
<1>2. b \in Value
  BY <1>1, CellIs
<1> HIDE DEF b
<1>3. b \in Nat
  BY <1>1, <1>2, WordIsPositive
<1>4. Cell(op, b, 1) = Cell(op, c, n + 1)
  BY <1>1, CellsAdd DEF b
<1>5. Stepped(op, b) = Cell(op, b, 1)
  BY <1>1, <1>3 DEF Stepped, Less1, Cell
<1>6. QED BY <1>4, <1>5 DEF b

\* Every cell has one place in the count.
Place(op, c, x) == CHOOSE k \in Value : Cell(op, c, k) = x

LEMMA PlaceIs ==
  ASSUME NEW op, NEW c \in Value, NEW x \in Value
  PROVE  /\ Place(op, c, x) \in Value /\ Cell(op, c, Place(op, c, x)) = x
         /\ \A k \in Value : Cell(op, c, k) = x => k = Place(op, c, x)
<1>1. Word \in Nat \ {0} /\ c \in 0..(Word - 1) /\ x \in 0..(Word - 1)
  BY WordIsPositive
<1> DEFINE i == IF op \in Rising THEN (IF c <= x THEN x - c ELSE x + Word - c)
                ELSE (IF x <= c THEN c - x ELSE c + Word - x)
<1>2. i \in 0..(Word - 1)
  BY <1>1
<1>3. Cell(op, c, i) = x
  <2>1. i \in 0..Word
    BY <1>1, <1>2
  <2> HIDE DEF i
  <2>2. /\ op \in Rising => Cell(op, c, i) = IF c + i < Word THEN c + i ELSE c + i - Word
        /\ op \notin Rising => Cell(op, c, i) = IF i <= c THEN c - i ELSE c + Word - i
    BY <2>1, CellIs
  <2>3. QED BY <1>1, <1>2, <2>2 DEF i
<1>4. ASSUME NEW j \in Value, NEW k \in Value, Cell(op, c, j) = Cell(op, c, k)
      PROVE  j = k
  <2>1. j \in 0..(Word - 1) /\ k \in 0..(Word - 1) /\ j \in 0..Word /\ k \in 0..Word
    BY WordIsPositive
  <2>2. /\ op \in Rising => Cell(op, c, j) = IF c + j < Word THEN c + j ELSE c + j - Word
        /\ op \notin Rising => Cell(op, c, j) = IF j <= c THEN c - j ELSE c + Word - j
    BY <2>1, CellIs
  <2>3. /\ op \in Rising => Cell(op, c, k) = IF c + k < Word THEN c + k ELSE c + k - Word
        /\ op \notin Rising => Cell(op, c, k) = IF k <= c THEN c - k ELSE c + Word - k
    BY <2>1, CellIs
  <2>4. QED BY <1>1, <1>4, <2>1, <2>2, <2>3
<1>5. i \in Value
  BY <1>2, WordIsPositive
<1> HIDE DEF i
<1>6. Place(op, c, x) \in Value /\ Cell(op, c, Place(op, c, x)) = x
  BY <1>3, <1>5 DEF Place
<1>7. QED BY <1>4, <1>6

LEMMA OnePartMore ==
  ASSUME NEW S \in Nat \ {0}, NEW n \in Nat, n >= S
  PROVE  (n - S) % S = n % S
<1> DEFINE u == (n - S) % S
           v == (n - S) \div S
<1>1. u \in 0..(S - 1) /\ v \in Nat /\ n - S = S * v + u
  OBVIOUS
<1> HIDE DEF u, v
<1>2. S * (v + 1) = S * v + S /\ v + 1 \in Nat
  BY <1>1
<1>3. n = S * (v + 1) + u
  BY <1>1, <1>2
<1>4. n % S = u
  BY <1>1, <1>2, <1>3, RemainderIs
<1>5. QED BY <1>4 DEF u

-------------------------------------------------------------------------------
(* What a move leaves in the memory. *)

\* A block as it began, with registers and memory of their types.
IsABlock(b) ==
  /\ b.op \in Blocks /\ b.de \in Value /\ b.hl \in Value /\ b.bc \in Value
  /\ b.mem \in [Value -> Value]

LEMMA PlaceInReach ==
  ASSUME NEW op, NEW c \in Value, NEW x \in Value
  PROVE  Place(op, c, x) \in Value /\ Place(op, c, x) \in Nat
<1>1. Place(op, c, x) \in Value
  BY PlaceIs
<1>2. QED BY <1>1, WordIsPositive

LEMMA MovedAt ==
  ASSUME NEW b, NEW n, NEW c \in Value
  PROVE  Moved(b, n)[c] =
           IF Place(b.op, b.de, c) >= n \/ Place(b.op, b.hl, b.de) = 0 THEN b.mem[c]
           ELSE b.mem[Cell(b.op, b.hl, Place(b.op, b.de, c) % Place(b.op, b.hl, b.de))]
BY DEF Moved, Place

LEMMA MovedIsMemory == ASSUME NEW b, NEW n, IsABlock(b)
                       PROVE  Moved(b, n) \in [Value -> Value]
<1> DEFINE apart == Place(b.op, b.hl, b.de)
           of(c) == IF Place(b.op, b.de, c) >= n \/ apart = 0 THEN b.mem[c]
                    ELSE b.mem[Cell(b.op, b.hl, Place(b.op, b.de, c) % apart)]
<1>1. apart \in Value /\ apart \in Nat
  BY PlaceInReach DEF IsABlock
<1>2. ASSUME NEW c \in Value PROVE of(c) \in Value
  <2> DEFINE i == Place(b.op, b.de, c)
  <2>1. i \in Nat
    BY PlaceInReach DEF IsABlock
  <2> HIDE DEF i, apart
  <2>2. CASE apart = 0
    BY <2>2 DEF i, IsABlock
  <2>3. CASE apart # 0
    <3> DEFINE r == i % apart
    <3>1. r \in 0..(apart - 1)
      BY <1>1, <2>1, <2>3
    <3> HIDE DEF r
    <3>2. r \in 0..Word
      BY <1>1, <3>1, WordIsPositive
    <3>3. Cell(b.op, b.hl, r) \in Value
      BY <3>2, CellIs DEF IsABlock
    <3>4. QED BY <3>3 DEF i, r, IsABlock
  <2>4. QED BY <2>2, <2>3
<1>3. Moved(b, n) = [c \in Value |-> of(c)]
  BY DEF Moved, Place
<1> HIDE DEF of
<1>4. QED BY <1>2, <1>3

\* Before the first round.
LEMMA MovedNone == ASSUME NEW b, IsABlock(b) PROVE Moved(b, 0) = b.mem
<1>1. Moved(b, 0) \in [Value -> Value] /\ b.mem \in [Value -> Value]
  BY MovedIsMemory DEF IsABlock
<1>2. ASSUME NEW c \in Value PROVE Moved(b, 0)[c] = b.mem[c]
  <2>1. Place(b.op, b.de, c) \in Nat
    BY PlaceInReach DEF IsABlock
  <2>2. QED BY <2>1, MovedAt
<1>3. QED BY <1>1, <1>2

\* The cell that a round reads, counted from the destination: it was written apart
\* rounds ago, or not yet.
LEMMA SourcePlace ==
  ASSUME NEW b, IsABlock(b), NEW n \in Value, NEW d \in Value,
         Cell(b.op, b.hl, d) = b.de
  PROVE  Place(b.op, b.de, Cell(b.op, b.hl, n)) = IF n >= d THEN n - d ELSE n + Word - d
<1> DEFINE j == IF n >= d THEN n - d ELSE n + Word - d
           s == Cell(b.op, b.hl, n)
<1>1. Word \in Nat \ {0} /\ n \in 0..(Word - 1) /\ d \in 0..(Word - 1)
  BY WordIsPositive
<1>2. j \in Value /\ j \in 0..Word /\ d \in 0..Word /\ n \in 0..Word
  BY <1>1, WordIsPositive
<1>3. (n >= d => d + j = n) /\ (~(n >= d) => d + j >= Word /\ d + j - Word = n)
  BY <1>1
<1>4. (n >= d => d + j <= Word)
  BY <1>1
<1> HIDE DEF j
<1>5. Cell(b.op, b.de, j) = s
  <2> DEFINE op == b.op
             c == b.hl
  <2>1. c \in Value
    BY DEF IsABlock
  <2>2. b.de = Cell(op, c, d)
    OBVIOUS
  <2> HIDE DEF op, c
  <2>3. Cell(op, Cell(op, c, d), j) = Cell(op, c, n)
    BY <1>2, <1>3, <1>4, <2>1, CellsAdd
  <2>4. QED BY <2>2, <2>3 DEF op, c, s
<1>6. s \in Value
  BY <1>2, CellIs DEF IsABlock
<1> HIDE DEF s
<1>7. j = Place(b.op, b.de, s)
  <2> DEFINE op == b.op
             c == b.de
  <2>1. c \in Value /\ Cell(op, c, j) = s
    BY <1>5 DEF IsABlock
  <2> HIDE DEF op, c
  <2>2. j = Place(op, c, s)
    BY <1>2, <1>6, <2>1, PlaceIs
  <2>3. QED BY <2>2 DEF op, c
<1>8. QED BY <1>7 DEF j, s

\* One round more.
LEMMA MovedOne ==
  ASSUME NEW b, IsABlock(b), NEW n \in Value
  PROVE  [Moved(b, n) EXCEPT ![Cell(b.op, b.de, n)] = Moved(b, n)[Cell(b.op, b.hl, n)]]
           = Moved(b, n + 1)
<1> DEFINE t == Cell(b.op, b.de, n)
           s == Cell(b.op, b.hl, n)
           d == Place(b.op, b.hl, b.de)
           old == Moved(b, n)
           new == Moved(b, n + 1)
<1>1. Word \in Nat \ {0} /\ n \in 0..(Word - 1) /\ n \in 0..Word
  BY WordIsPositive
<1>2. t \in Value /\ s \in Value /\ d \in Value /\ Cell(b.op, b.hl, d) = b.de
  BY <1>1, CellIs, PlaceIs DEF IsABlock
<1>3. old \in [Value -> Value] /\ new \in [Value -> Value]
  BY MovedIsMemory
<1>4. Place(b.op, b.de, t) = n
  BY <1>2, PlaceIs DEF IsABlock
<1>5. ASSUME NEW c \in Value, c # t PROVE new[c] = old[c]
  <2> DEFINE i == Place(b.op, b.de, c)
  <2>1. i \in 0..(Word - 1) /\ i # n
    BY <1>5, PlaceIs, WordIsPositive DEF IsABlock
  <2>2. i >= n <=> i >= n + 1
    BY <1>1, <2>1
  <2>3. QED BY <2>2, MovedAt
<1>6. new[t] = old[s]
  <2>1. d \in 0..(Word - 1)
    BY <1>2, WordIsPositive
  <2>2. Place(b.op, b.de, s) = IF n >= d THEN n - d ELSE n + Word - d
    BY <1>2, SourcePlace
  <2>3. ~(n >= n + 1)
    BY <1>1
  <2>4. new[t] = IF d = 0 THEN b.mem[t] ELSE b.mem[Cell(b.op, b.hl, n % d)]
    BY <1>2, <1>4, <2>3, MovedAt
  <2>5. old[s] = IF Place(b.op, b.de, s) >= n \/ d = 0 THEN b.mem[s]
                 ELSE b.mem[Cell(b.op, b.hl, Place(b.op, b.de, s) % d)]
    BY <1>2, MovedAt
  <2> DEFINE j == Place(b.op, b.de, s)
  <2>6. CASE d = 0
    <3>1. b.de = b.hl
      BY <1>2, <2>6, CellAtNone DEF IsABlock
    <3>2. QED BY <2>4, <2>5, <2>6, <3>1
  <2>7. CASE d # 0 /\ n >= d
    <3>1. j = n - d
      BY <2>2, <2>7
    <3>2. ~(j >= n)
      BY <1>1, <2>1, <2>7, <3>1
    <3>3. j % d = n % d
      <4>1. d \in Nat \ {0} /\ n \in Nat
        BY <1>1, <2>1, <2>7
      <4> HIDE DEF d
      <4>2. (n - d) % d = n % d
        BY <2>7, <4>1, OnePartMore
      <4>3. QED BY <3>1, <4>2
    <3>4. QED BY <2>4, <2>5, <2>7, <3>2, <3>3, Zenon
  <2>8. CASE d # 0 /\ ~(n >= d)
    <3>1. j = n + Word - d
      BY <2>2, <2>8
    <3>2. j >= n
      BY <1>1, <2>1, <3>1
    <3>3. n % d = n
      <4>1. d \in Nat \ {0} /\ n \in 0..(d - 1) /\ n = d * 0 + n
        BY <1>1, <2>1, <2>8
      <4> HIDE DEF d
      <4>2. QED BY <4>1, RemainderIs
    <3>4. QED BY <2>4, <2>5, <2>8, <3>2, <3>3, Zenon
  <2>9. QED BY <2>6, <2>7, <2>8
<1> HIDE DEF t, s, old, new
<1>7. \A c \in Value : [old EXCEPT ![t] = old[s]][c] = new[c]
  BY <1>2, <1>3, <1>5, <1>6
<1>8. [old EXCEPT ![t] = old[s]] \in [Value -> Value]
  BY <1>2, <1>3
<1>9. [old EXCEPT ![t] = old[s]] = new
  BY <1>3, <1>7, <1>8
<1>10. QED BY <1>9 DEF t, s, old, new

-------------------------------------------------------------------------------
(* A repeated instruction is where its rounds have taken it. *)

Count(b) == IF b.bc = 0 THEN Word ELSE b.bc

Match(b, n) == b.mem[Cell(b.op, b.hl, n)] = a

\* The registers and the memory after r rounds of b, with more to come.
Going(b, r) ==
  /\ r \in 0..(Count(b) - 1)
  /\ bc = (IF r = 0 THEN b.bc ELSE Count(b) - r)
  /\ hl = Cell(b.op, b.hl, r)
  /\ b.op \in Moves => mem = Moved(b, r) /\ de = Cell(b.op, b.de, r)
  /\ b.op \in Searches => mem = b.mem /\ \A n \in Value : n < r => ~Match(b, n)

\* After the last round of b, which was the r-th.
Ended(b, r) ==
  /\ r \in 1..Count(b)
  /\ hl = Cell(b.op, b.hl, r)
  /\ b.op \in Moves =>
       mem = Moved(b, r) /\ de = Cell(b.op, b.de, r) /\ r = Count(b) /\ p = 0
  /\ b.op \in Searches =>
       /\ \A n \in Value : n + 1 < r => ~Match(b, n)
       /\ z = (IF Match(b, r - 1) THEN 1 ELSE 0)
       /\ p = (IF r = Count(b) THEN 0 ELSE 1)
       /\ z = 1 \/ r = Count(b)

\* A handler may have run since: what the registers and the memory are still depends
\* on nothing but where the instruction began and how many rounds it has made.
BlockInv ==
  begun # NotBegun =>
    /\ rounds # 0
    /\ begun.at # 0 =>
         begun.at \in 1..Len(code) /\ code[begun.at] = begun.op /\ Going(begun, rounds)
    /\ begun.at = 0 => Ended(begun, rounds)

\* The same block, wherever it is taken up again.
SameBlock(b, c) ==
  b.op = c.op /\ b.de = c.de /\ b.hl = c.hl /\ b.bc = c.bc /\ b.mem = c.mem

LEMMA SameBlockIsSame ==
  ASSUME NEW b, NEW c, SameBlock(b, c), NEW n
  PROVE  Moved(b, n) = Moved(c, n) /\ Count(b) = Count(c)
BY DEF SameBlock, Moved, Count

LEMMA CountIs == ASSUME NEW b, IsABlock(b)
                 PROVE  Count(b) \in 1..Word /\ (b.bc # 0 => Count(b) = b.bc)
                        /\ (b.bc = 0 => Count(b) = Word) /\ b.bc \in 0..(Word - 1)
<1> DEFINE n == b.bc
<1>1. n \in 0..(Word - 1) /\ Word \in Nat \ {0}
  BY WordIsPositive DEF IsABlock
<1>2. Count(b) = IF n = 0 THEN Word ELSE n
  BY DEF Count
<1> HIDE DEF n
<1>3. Count(b) \in 1..Word
  BY <1>1, <1>2
<1>4. QED BY <1>1, <1>2, <1>3 DEF n

LEMMA Less1Is == ASSUME NEW n \in Value
                 PROVE  Less1(n) = IF n = 0 THEN Word - 1 ELSE n - 1
<1> DEFINE x == n + Word - 1
<1>1. x \in 0..(2 * Word - 1) /\ Word \in Nat \ {0} /\ n \in 0..(Word - 1)
  BY WordIsPositive
<1>2. Less1(n) = x % Word
  BY DEF Less1
<1> HIDE DEF x
<1>3. x % Word = IF x < Word THEN x ELSE x - Word
  BY <1>1, CutOnce
<1>4. QED BY <1>1, <1>2, <1>3 DEF x

\* What is left of the count after one round more.
LEMMA LeftAfter ==
  ASSUME NEW b, IsABlock(b), NEW r, Going(b, r), bc \in Value
  PROVE  /\ r \in Value /\ r + 1 \in 1..Count(b) /\ r \in Nat
         /\ Less1(bc) = Count(b) - (r + 1)
         /\ Less1(bc) # 0 <=> r + 1 # Count(b)
<1>1. /\ Count(b) \in 1..Word /\ (b.bc # 0 => Count(b) = b.bc)
      /\ (b.bc = 0 => Count(b) = Word) /\ b.bc \in 0..(Word - 1)
      /\ Word \in Nat \ {0} /\ bc \in 0..(Word - 1)
  BY CountIs, WordIsPositive
<1>2. r \in 0..(Count(b) - 1) /\ bc = (IF r = 0 THEN b.bc ELSE Count(b) - r)
  BY DEF Going
<1>3. Less1(bc) = IF bc = 0 THEN Word - 1 ELSE bc - 1
  BY Less1Is
<1> DEFINE k == Count(b)
           l == Less1(bc)
<1> HIDE DEF k, l
<1>4. /\ k \in 1..Word /\ (b.bc # 0 => k = b.bc) /\ (b.bc = 0 => k = Word)
      /\ r \in 0..(k - 1) /\ bc = (IF r = 0 THEN b.bc ELSE k - r)
      /\ l = IF bc = 0 THEN Word - 1 ELSE bc - 1
  BY <1>1, <1>2, <1>3 DEF k, l
<1>5. r \in 0..(Word - 1) /\ r \in Nat /\ r + 1 \in 1..k /\ l = k - (r + 1)
      /\ (l # 0 <=> r + 1 # k)
  BY <1>1, <1>4
<1>6. QED BY <1>5, WordIsPositive DEF k, l

\* A round takes a block one round on, or ends it.
LEMMA RoundGoesOn ==
  ASSUME TypeOK, NEW op \in Blocks, Round(op),
         NEW b, IsABlock(b), b.op = op, NEW r, Going(b, r)
  PROVE  /\ Repeats(op) => Going(b, r + 1)'
         /\ ~Repeats(op) => Ended(b, r + 1)'
<1>1. bc \in Value /\ hl \in Value /\ de \in Value /\ mem \in [Value -> Value]
  BY DEF TypeOK
<1>2. /\ r \in Value /\ r + 1 \in 1..Count(b) /\ r \in Nat /\ r \in 0..(Word - 1)
      /\ Less1(bc) = Count(b) - (r + 1)
      /\ Less1(bc) # 0 <=> r + 1 # Count(b)
      /\ Count(b) \in 1..Word
  BY <1>1, LeftAfter, CountIs, WordIsPositive
<1>3. /\ hl = Cell(op, b.hl, r) /\ b.hl \in Value /\ b.de \in Value
      /\ op \in Moves => mem = Moved(b, r) /\ de = Cell(op, b.de, r)
      /\ op \in Searches => mem = b.mem /\ \A n \in Value : n < r => ~Match(b, n)
  BY DEF Going, IsABlock
<1>4. hl' = Cell(op, b.hl, r + 1)
  <2>1. Stepped(op, Cell(op, b.hl, r)) = Cell(op, b.hl, r + 1)
    BY <1>2, <1>3, SteppedIsNext
  <2>2. QED BY <1>3, <2>1 DEF Round
<1>5. bc' = Count(b) - (r + 1) /\ p' = IF r + 1 # Count(b) THEN 1 ELSE 0
  BY <1>2 DEF Round
<1>6. a' = a
  BY DEF Round
<1>7. ASSUME op \in Moves
      PROVE  /\ mem' = Moved(b, r + 1) /\ de' = Cell(op, b.de, r + 1)
             /\ op \notin Searches /\ (Repeats(op) <=> r + 1 # Count(b))
  <2>1. mem' = [mem EXCEPT ![de] = mem[hl]] /\ de' = Stepped(op, de)
    BY <1>7 DEF Round
  <2>2. Stepped(op, Cell(op, b.de, r)) = Cell(op, b.de, r + 1)
    BY <1>2, <1>3, SteppedIsNext
  <2>3. [Moved(b, r) EXCEPT ![Cell(op, b.de, r)] = Moved(b, r)[Cell(op, b.hl, r)]]
          = Moved(b, r + 1)
    BY <1>2, MovedOne
  <2>4. op \notin Searches
    BY <1>7 DEF Moves, Searches
  <2>5. QED BY <1>2, <1>3, <1>7, <2>1, <2>2, <2>3, <2>4 DEF Repeats
<1>8. ASSUME op \in Searches
      PROVE  /\ mem' = b.mem /\ op \notin Moves
             /\ z' = IF Match(b, r) THEN 1 ELSE 0
             /\ Repeats(op) <=> r + 1 # Count(b) /\ ~Match(b, r)
  <2>1. op \notin Moves
    BY <1>8 DEF Moves, Searches
  <2>2. (mem[hl] = a) <=> Match(b, r)
    BY <1>3, <1>8 DEF Match
  <2>3. mem' = mem /\ z' = IF mem[hl] = a THEN 1 ELSE 0
    BY <2>1 DEF Round
  <2>4. QED BY <1>2, <1>3, <1>8, <2>1, <2>2, <2>3 DEF Repeats
<1>9. \A n : Match(b, n)' <=> Match(b, n)
  BY <1>6 DEF Match
<1>10. CASE op \in Moves
  <2>1. Repeats(op) => Going(b, r + 1)'
    BY <1>2, <1>4, <1>5, <1>7, <1>10 DEF Going, Count
  <2>2. ~Repeats(op) => Ended(b, r + 1)'
    BY <1>2, <1>4, <1>5, <1>7, <1>10 DEF Ended, Count
  <2>3. QED BY <2>1, <2>2
<1>11. CASE op \in Searches
  <2>1. ASSUME Repeats(op) PROVE Going(b, r + 1)'
    <3>1. \A n \in Value : n < r + 1 => ~Match(b, n)
      BY <1>2, <1>3, <1>8, <1>11, <2>1, WordIsPositive
    <3>2. r + 1 \in 0..(Count(b) - 1) /\ r + 1 # 0
      BY <1>2, <1>8, <1>11, <2>1
    <3>3. QED BY <1>4, <1>5, <1>8, <1>9, <1>11, <3>1, <3>2 DEF Going, Count
  <2>2. ASSUME ~Repeats(op) PROVE Ended(b, r + 1)'
    <3>1. \A n \in Value : n + 1 < r + 1 => ~Match(b, n)
      BY <1>2, <1>3, <1>11, WordIsPositive
    <3>2. r + 1 - 1 = r
      BY <1>2
    <3>3. Match(b, r) \/ r + 1 = Count(b)
      BY <1>8, <1>11, <2>2
    <3>4. QED BY <1>2, <1>4, <1>5, <1>8, <1>9, <1>11, <3>1, <3>2, <3>3 DEF Ended, Count
  <2>3. QED BY <2>1, <2>2
<1>12. QED BY <1>10, <1>11 DEF Blocks

LEMMA BlocksGoOn == IInv /\ BlockInv /\ [Next]_vars => BlockInv'
<1> SUFFICES ASSUME IInv, BlockInv, [Next]_vars PROVE BlockInv'
  OBVIOUS
<1>0. TypeOK
  BY DEF IInv
<1>1. CASE UNCHANGED <<code, data>>
  <2>1. UNCHANGED <<code, a, z, p, bc, de, hl, mem, begun, rounds>>
    BY <1>1 DEF data
  <2>2. \A n : Match(begun, n)' <=> Match(begun, n)
    BY <2>1 DEF Match
  <2>3. Going(begun, rounds)' <=> Going(begun, rounds)
    BY <2>1, <2>2 DEF Going
  <2>4. Ended(begun, rounds)' <=> Ended(begun, rounds)
    BY <2>1, <2>2 DEF Ended
  <2>5. QED BY <2>1, <2>3, <2>4 DEF BlockInv
<1>2. CASE LD_A_I
  BY <1>2 DEF LD_A_I, BlockInv
<1>3. CASE \E op \in Blocks : Round(op)
  <2>1. PICK op \in Blocks : Round(op)
    BY <1>3
  <2>2. /\ pc_ \in 1..Len(code) /\ code[pc_] = op /\ code' = code /\ pc_ # 0
        /\ bc \in Value /\ hl \in Value /\ de \in Value /\ mem \in [Value -> Value]
        /\ begun \in Begun \cup {NotBegun} /\ rounds \in Nat /\ pc_ \in Nat
    BY <1>0, <2>1, ProgramFacts DEF TypeOK, Round, At
  <2> DEFINE start == [op |-> op, at |-> pc_, de |-> de, hl |-> hl, bc |-> bc, mem |-> mem]
             again == begun # NotBegun /\ begun.at = pc_
             there == IF Repeats(op) THEN pc_ ELSE 0
  <2>3. PICK b : b = IF again THEN begun ELSE start
    OBVIOUS
  <2>4. PICK r : r = IF again THEN rounds ELSE 0
    OBVIOUS
  <2>5. b \in Begun /\ IsABlock(b) /\ b.op = op /\ Going(b, r) /\ r \in Nat
    <3>1. CASE again
      <4>1. b = begun /\ r = rounds /\ begun \in Begun
        BY <2>2, <2>3, <2>4, <3>1
      <4>2. Going(b, r) /\ code[begun.at] = begun.op /\ begun.at = pc_
        BY <2>2, <3>1, <4>1 DEF BlockInv
      <4>3. QED BY <2>2, <4>1, <4>2 DEF Begun, IsABlock
    <3>2. CASE ~again
      <4>1. b = start /\ r = 0
        BY <2>3, <2>4, <3>2
      <4>2. start \in Begun
        BY <2>2 DEF Begun
      <4>3. b \in Begun /\ IsABlock(b) /\ b.op = op
        BY <4>1, <4>2 DEF Begun, IsABlock
      <4>4. Cell(op, hl, 0) = hl /\ Cell(op, de, 0) = de /\ Moved(b, 0) = b.mem
        BY <2>2, <4>3, CellAtNone, MovedNone
      <4>5. b.hl = hl /\ b.de = de /\ b.bc = bc /\ b.mem = mem
        BY <4>1
      <4>6. 0 \in 0..(Count(b) - 1)
        BY <4>3, CountIs, WordIsPositive
      <4>7. \A n \in Value : ~(n < 0)
        BY WordIsPositive
      <4>8. Going(b, 0)
        BY <4>3, <4>4, <4>5, <4>6, <4>7 DEF Going
      <4>9. QED BY <4>1, <4>3, <4>8
    <3>3. QED BY <3>1, <3>2
  <2>6. begun' = [b EXCEPT !.at = there] /\ rounds' = r + 1
    <3>1. begun' = [(IF again THEN begun ELSE start) EXCEPT !.at = there]
      BY <2>1 DEF Round
    <3>2. rounds' = IF again THEN rounds + 1 ELSE 1
      BY <2>1 DEF Round
    <3>3. QED BY <2>3, <2>4, <3>1, <3>2
  <2>7. PICK n : n = begun'
    OBVIOUS
  <2>8. SameBlock(n, b) /\ n.at = (IF Repeats(op) THEN pc_ ELSE 0)
    BY <2>5, <2>6, <2>7 DEF Begun, SameBlock
  <2>9. /\ Repeats(op) => Going(b, r + 1)'
        /\ ~Repeats(op) => Ended(b, r + 1)'
    BY <1>0, <2>1, <2>5, RoundGoesOn
  <2>10. /\ Moved(n, r + 1) = Moved(b, r + 1) /\ Count(n) = Count(b)
         /\ n.op = b.op /\ n.hl = b.hl /\ n.de = b.de /\ n.mem = b.mem /\ n.bc = b.bc
    BY <2>8, SameBlockIsSame DEF SameBlock
  <2>11. \A k : Match(n, k)' <=> Match(b, k)'
    BY <2>10 DEF Match
  <2>12. Going(b, r + 1)' => Going(n, r + 1)'
    BY <2>10, <2>11 DEF Going
  <2>13. Ended(b, r + 1)' => Ended(n, r + 1)'
    BY <2>10, <2>11 DEF Ended
  <2>14. (Going(n, r + 1)' => Going(begun, rounds)') /\ (Ended(n, r + 1)' => Ended(begun, rounds)')
    BY <2>6, <2>7 DEF Going, Ended, Match
  <2>15. rounds' # 0
    BY <2>5, <2>6
  <2>16. Repeats(op) => begun'.at = pc_ /\ code'[pc_] = begun'.op
    BY <2>2, <2>5, <2>7, <2>8, <2>10
  <2>17. ~Repeats(op) => begun'.at = 0
    BY <2>7, <2>8
  <2>18. QED BY <2>2, <2>9, <2>12, <2>13, <2>14, <2>15, <2>16, <2>17 DEF BlockInv
<1>4. QED
  BY <1>1, <1>2, <1>3 DEF Next, sim, Raise, Accept, EI, DI, IM, NOP, IndataConsole, Return,
                          vars

LEMMA InitHasNoBlock == Init => BlockInv
BY DEF Init, BlockInv

LEMMA BlocksWhole == IInv /\ BlockInv => BlocksAreWhole
<1> SUFFICES ASSUME IInv, BlockInv PROVE BlocksAreWhole
  OBVIOUS
<1>1. begun \in Begun \cup {NotBegun} /\ rounds \in Nat
  BY DEF IInv, TypeOK
<1>2. CASE begun = NotBegun
  BY <1>2 DEF BlocksAreWhole, MoveIsWhole, SearchIsWhole, NotBegun, Moves, Searches
<1>3. CASE begun # NotBegun
  <2>1. IsABlock(begun)
    BY <1>1, <1>3 DEF Begun, IsABlock
  <2>2. Total = Count(begun) /\ Count(begun) \in 1..Word /\ Word \in Nat \ {0}
    BY <2>1, CountIs, WordIsPositive DEF Total, Count
  <2>3. MoveIsWhole
    <3>1. CASE begun.at = 0
      BY <1>3, <2>2, <3>1 DEF MoveIsWhole, BlockInv, Ended
    <3>2. CASE begun.at # 0
      BY <1>1, <1>3, <2>2, <3>2 DEF MoveIsWhole, BlockInv, Going
    <3>3. QED BY <3>1, <3>2
  <2>4. SearchIsWhole
    <3>1. CASE begun.at = 0
      BY <1>3, <2>2, <3>1 DEF SearchIsWhole, BlockInv, Ended, Match
    <3>2. CASE begun.at # 0 /\ begun.op \in Searches
      <4>1. /\ rounds \in 0..(Count(begun) - 1) /\ rounds # 0
            /\ \A n \in Value : n < rounds => ~Match(begun, n)
        BY <1>3, <3>2 DEF BlockInv, Going
      <4>2. rounds < Total /\ rounds - 1 \in Value /\ rounds - 1 < rounds
        BY <2>2, <4>1, WordIsPositive
      <4>3. ~Match(begun, rounds - 1)
        BY <4>1, <4>2
      <4>4. \A n \in Value : n + 1 < rounds => n < rounds
        BY <1>1, WordIsPositive
      <4>5. QED BY <3>2, <4>1, <4>2, <4>3, <4>4 DEF SearchIsWhole, Match
    <3>3. CASE begun.op \notin Searches
      BY <3>3 DEF SearchIsWhole
    <3>4. QED BY <3>1, <3>2, <3>3
  <2>5. QED BY <2>3, <2>4 DEF BlocksAreWhole
<1>4. QED BY <1>2, <1>3

\* LDIR, LDDR, CPIR and CPDR move or search what they should, however often they are
\* interrupted between two rounds and taken up again.
THEOREM RepeatedInstructionsAreWhole == Spec => []BlocksAreWhole
<1>1. Init => IInv /\ BlockInv
  BY InitEstablishes, InitHasNoBlock
<1>2. (IInv /\ BlockInv) /\ [Next]_vars => (IInv /\ BlockInv)'
  BY StepKeeps, BlocksGoOn
<1>3. QED BY <1>1, <1>2, BlocksWhole, PTL DEF Spec
===============================================================================
