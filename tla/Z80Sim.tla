-------------------------------- MODULE Z80Sim --------------------------------
(***************************************************************************)
(* Z80CPU::sim() as the program sees it: the interrupt request tested      *)
(* before every instruction, the flip-flops with the trick that delays EI, *)
(* and the repeated instructions, which are interrupted between two rounds *)
(* and taken up again by the return.                                       *)
(*                                                                         *)
(* A step is one call of sim().  The program is any of the Programs: from  *)
(* location 1 a loop of Main instructions, from Main + 1 on the handler at *)
(* 0x0038.  A location is an instruction, so the pc_ -= 2 that takes a     *)
(* repeated instruction back to its own two bytes leaves pc_ where it is.  *)
(* trigNMI() has no caller, so nmi stays 0 and is not part of the state.   *)
(***************************************************************************)
EXTENDS Naturals, Sequences

CONSTANTS
  Word,       \* how many values a 16-bit register has
  Main,       \* how many instructions the program's loop has
  Programs    \* the programs: sequences of instructions

Instr == {"NOP", "EI", "DI", "IM 1", "IM 2", "LD A,I", "IN", "RETI", "RETN",
          "LDIR", "LDDR", "CPIR", "CPDR"}

Returns == {"RETI", "RETN"}

ASSUME Z80SimAssumption ==
  /\ Word \in Nat /\ Word > 1
  /\ Main \in Nat \ {0}
  /\ Programs \subseteq Seq(Instr)

\* The handler ends in EI and a return and has neither before; the loop has no return.
ASSUME HandlerAssumption ==
  \A q \in Programs :
    /\ Len(q) > Main + 1
    /\ q[Len(q)] \in Returns /\ q[Len(q) - 1] = "EI"
    /\ \A l \in 1..(Len(q) - 2) : q[l] \notin Returns /\ (l > Main => q[l] # "EI")

Value == 0..(Word - 1)
Vector == Main + 1

VARIABLES
  code,              \* the program (never changes)
  pc_, stack,        \* where it is, and the return addresses it has pushed
  iff1, iff2, im,    \* the flip-flops and the interrupt mode
  irq,               \* the request, from loop()'s poll until the port is read
  a, z, p,           \* the accumulator, and the flags Z and P/V
  bc, de, hl, mem,   \* the registers of the repeated instructions, and the memory
  latest,            \* history: the kind of instruction executed last, or "INT"
  begun,             \* history: registers and memory when the last one began, until
                     \* another instruction overwrites its flags
  rounds             \* history: how many rounds of it were made

cpu == <<iff1, iff2, im, irq>>
data == <<a, z, p, bc, de, hl, mem, begun, rounds>>
vars == <<code, pc_, stack, cpu, latest, data>>

\* What distinguishes instructions for the flip-flops.
Kind(i) == IF i \in {"EI", "DI", "LD A,I", "RETN"} THEN i ELSE "other"
Kinds == {"RESET", "INT", "EI", "DI", "LD A,I", "RETN", "other"}

Moves == {"LDIR", "LDDR"}
Searches == {"CPIR", "CPDR"}
Blocks == Moves \cup Searches
Begun == [op : Blocks, at : Nat, de : Value, hl : Value, bc : Value, mem : [Value -> Value]]
NotBegun == [op |-> "NOP"]

TypeOK ==
  /\ code \in Programs
  /\ pc_ \in 1..Len(code) /\ stack \in Seq(1..Len(code))
  /\ iff1 \in {0, 1} /\ iff2 \in {0, 1} /\ irq \in {0, 1}
  /\ im \in {0, 1, 2} /\ latest \in Kinds
  /\ z \in {0, 1} /\ p \in {0, 1}
  /\ a \in Value /\ bc \in Value /\ de \in Value /\ hl \in Value
  /\ mem \in [Value -> Value]
  /\ begun \in Begun \cup {NotBegun}
  /\ rounds \in Nat

\* reset(); the registers and the memory are what the loaded program made of them.
Init ==
  /\ code \in Programs
  /\ pc_ = 1 /\ stack = << >>
  /\ iff1 = 0 /\ iff2 = 0 /\ im = 0 /\ irq = 0 /\ latest = "RESET"
  /\ a = 0 /\ z = 1 /\ p = 1
  /\ bc \in Value /\ de \in Value /\ hl \in Value
  /\ mem = [c \in Value |-> c]
  /\ begun = NotBegun /\ rounds = 0

-------------------------------------------------------------------------------
(* The interrupt request. *)

\* loop() found a key and the program had asked for interrupts: trigIRQ( 1 ).
Raise ==
  /\ irq' = 1
  /\ UNCHANGED <<code, pc_, stack, iff1, iff2, im, latest, data>>

Accepting == iff1 = 1 /\ iff2 = 1 /\ irq = 1

\* Only mode 1 goes to a handler.  In the others simStop() is an empty macro: the
\* interrupts are disabled, and the program goes on as if there had been none.
Accept ==
  /\ Accepting
  /\ iff1' = 0 /\ iff2' = 0 /\ latest' = "INT"
  /\ stack' = IF im = 1 THEN <<pc_>> \o stack ELSE stack
  /\ pc_' = IF im = 1 THEN Vector ELSE pc_
  /\ UNCHANGED <<code, im, irq, data>>

-------------------------------------------------------------------------------
(* One instruction, when no request is to be accepted. *)

At(instrs) == ~Accepting /\ code[pc_] \in instrs

Following(l) == IF l = Main THEN 1 ELSE l + 1

\* Mutant of Settled: EI's delay never ends.
NeverSettled == iff2

\* else iff2 |= iff1: EI's delay ends before the instruction after it.
Settled == IF iff1 = 1 THEN 1 ELSE iff2

Goes(flip1, flip2) ==
  /\ iff1' = flip1 /\ iff2' = flip2
  /\ pc_' = Following(pc_) /\ latest' = Kind(code[pc_])

\* Mutant of EI: both flip-flops at once, without the trick.
EIAtOnce ==
  /\ At({"EI"})
  /\ Goes(1, 1)
  /\ UNCHANGED <<code, stack, im, irq, data>>

EI ==
  /\ At({"EI"})
  /\ Goes(1, 0)
  /\ UNCHANGED <<code, stack, im, irq, data>>

DI ==
  /\ At({"DI"})
  /\ Goes(0, 0)
  /\ UNCHANGED <<code, stack, im, irq, data>>

IM(n) ==
  /\ At({IF n = 1 THEN "IM 1" ELSE "IM 2"})
  /\ Goes(iff1, Settled)
  /\ im' = n
  /\ UNCHANGED <<code, stack, irq, data>>

\* Mutant of LD_A_I: the flag shows iff2 before EI's delay has ended.
LD_A_IUnsettled ==
  /\ At({"LD A,I"})
  /\ Goes(iff1, Settled)
  /\ a' = 1 /\ z' = 0 /\ p' = iff2
  /\ begun' = NotBegun /\ rounds' = 0
  /\ UNCHANGED <<code, stack, im, irq, bc, de, hl, mem>>

\* The register I is 1 here.
LD_A_I ==
  /\ At({"LD A,I"})
  /\ Goes(iff1, Settled)
  /\ a' = 1 /\ z' = 0 /\ p' = Settled
  /\ begun' = NotBegun /\ rounds' = 0
  /\ UNCHANGED <<code, stack, im, irq, bc, de, hl, mem>>

NOP ==
  /\ At({"NOP"})
  /\ Goes(iff1, Settled)
  /\ UNCHANGED <<code, stack, im, irq, data>>

\* The console's data port: the read takes the request back.  In a handler, with
\* the accumulator saved around it.
IndataConsole ==
  /\ At({"IN"})
  /\ Goes(iff1, Settled)
  /\ irq' = 0
  /\ UNCHANGED <<code, stack, im, data>>

\* RETI, and RETN with iff1 = iff2.
Return ==
  /\ At(Returns) /\ stack # << >>
  /\ pc_' = Head(stack) /\ stack' = Tail(stack)
  /\ iff1' = IF code[pc_] = "RETN" THEN Settled ELSE iff1
  /\ iff2' = Settled /\ latest' = Kind(code[pc_])
  /\ UNCHANGED <<code, im, irq, data>>

-------------------------------------------------------------------------------
(* The repeated instructions: one round of LDIR, LDDR, CPIR or CPDR. *)

\* Mutant of Less1: an int where the code has an unsigned short.
Less1Unbounded(n) == n - 1

Less1(n) == (n + Word - 1) % Word
Stepped(op, n) == IF op \in {"LDIR", "CPIR"} THEN (n + 1) % Word ELSE Less1(n)

\* Mutant of Repeats: the count is tested before it is lowered.
RepeatsOnceMore(op) == bc # 0 /\ (op \in Searches => mem[hl] # a)

\* Mutant of Repeats: the search goes on after a match.
RepeatsToTheEnd(op) == Less1(bc) # 0

\* --bc, or --bc && y: whether there is another round.
Repeats(op) == Less1(bc) # 0 /\ (op \in Searches => mem[hl] # a)

Round(op) ==
  /\ At({op})
  /\ bc' = Less1(bc)
  /\ hl' = Stepped(op, hl)
  /\ p' = IF Less1(bc) # 0 THEN 1 ELSE 0
  /\ IF op \in Moves
     THEN mem' = [mem EXCEPT ![de] = mem[hl]] /\ de' = Stepped(op, de) /\ z' = z
     ELSE z' = (IF mem[hl] = a THEN 1 ELSE 0) /\ UNCHANGED <<de, mem>>
  /\ pc_' = IF Repeats(op) THEN pc_ ELSE Following(pc_)
  /\ iff1' = iff1 /\ iff2' = Settled /\ latest' = Kind(code[pc_])
  /\ LET again == begun # NotBegun /\ begun.at = pc_
     IN  /\ begun' = [(IF again THEN begun
                       ELSE [op |-> op, at |-> pc_, de |-> de, hl |-> hl, bc |-> bc, mem |-> mem])
                      EXCEPT !.at = IF Repeats(op) THEN pc_ ELSE 0]
         /\ rounds' = IF again THEN rounds + 1 ELSE 1
  /\ UNCHANGED <<code, stack, im, irq, a>>

-------------------------------------------------------------------------------
sim == Accept \/ EI \/ DI \/ LD_A_I \/ NOP \/ IndataConsole \/ Return
         \/ (\E n \in {1, 2} : IM(n)) \/ (\E op \in Blocks : Round(op))

Next == Raise \/ sim

Spec == Init /\ [][Next]_vars

\* The emulator task calls sim() for ever while no debugger stops it.
FairSpec == Spec /\ WF_vars(sim)

-------------------------------------------------------------------------------
(* Correctness. *)

FF == INSTANCE FlipFlops WITH
        IFF1 <- iff1, IFF2 <- Settled,
        shadow <- IF iff1 = 1 /\ iff2 = 0 THEN 1 ELSE 0

\* The trick with iff2 is invisible: the flip-flops behave as a Z80's, EI holds
\* interrupts off for exactly one instruction, a round of a repeated one being
\* one, and LD A,I reports IFF2 at that moment too.
FlipFlopsImplemented == FF!Spec

\* A handler that ends in EI, RETI or EI, RETN is never entered again before it
\* has returned, however long the request is held: EI's delay covers the return.
NoNesting == Len(stack) <= 1

\* How many rounds the last repeated instruction makes if nothing is found.
Total == IF begun.bc = 0 THEN Word ELSE begun.bc

\* The n-th cell from c in the direction of op.
Cell(op, c, n) == IF op \in {"LDIR", "CPIR"} THEN (c + n) % Word ELSE (c + Word - n) % Word

\* The memory after n rounds of the move b: destination number i received the
\* source number i, itself a copy of an earlier one when the areas overlap.
Moved(b, n) ==
  LET apart == CHOOSE d \in Value : Cell(b.op, b.hl, d) = b.de
  IN  [c \in Value |->
        LET i == CHOOSE k \in Value : Cell(b.op, b.de, k) = c
        IN  IF i >= n \/ apart = 0 THEN b.mem[c] ELSE b.mem[Cell(b.op, b.hl, i % apart)]]

\* LDIR and LDDR move what they should, fills by overlapping areas included, in
\* bc rounds (Word of them if it is 0), as if the handlers had not been.
MoveIsWhole ==
  begun.op \in Moves =>
    /\ mem = Moved(begun, rounds)
    /\ hl = Cell(begun.op, begun.hl, rounds) /\ de = Cell(begun.op, begun.de, rounds)
    /\ IF begun.at = 0 THEN rounds = Total /\ p = 0 ELSE rounds < Total

\* CPIR and CPDR stop at the first match and nowhere before, and Z and P/V tell
\* whether it was found and whether cells are left.
SearchIsWhole ==
  begun.op \in Searches =>
    LET Match(n) == begun.mem[Cell(begun.op, begun.hl, n)] = a
    IN  /\ \A n \in Value : n + 1 < rounds => ~Match(n)
        /\ IF begun.at = 0
           THEN /\ z = (IF Match(rounds - 1) THEN 1 ELSE 0)
                /\ p = (IF rounds = Total THEN 0 ELSE 1)
                /\ z = 1 \/ rounds = Total
           ELSE rounds < Total /\ ~Match(rounds - 1)

\* A block instruction interrupted any number of times moves or searches what an
\* uninterrupted one would: no round is lost or made twice.
BlocksAreWhole == MoveIsWhole /\ SearchIsWhole

\* A request is served, withdrawn or disabled, even in the middle of a repeated
\* instruction; only a program that does nothing but EI puts it off for ever.
RequestIsMet ==
  irq = 1 /\ iff1 = 1 ~>
    irq = 0 \/ iff1 = 0 \/ \A l \in 1..Main : code[l] = "EI"
===============================================================================
