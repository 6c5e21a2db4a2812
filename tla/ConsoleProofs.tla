---------------------------- MODULE ConsoleProofs -----------------------------
(***************************************************************************)
(* Theorems about the console, for any number of keys, NULs among them or  *)
(* not, and every reload of the two countdowns.                            *)
(***************************************************************************)
EXTENDS Console, TLAPS

\* A key waits behind those that were read, the one in the stream behind the one
\* that the console keeps.
KeysQueue ==
  /\ mailbox # None => mailbox = pumped
  /\ ch_ <= pumped
  /\ mailbox # None => ch_ < mailbox
  /\ \A j \in DOMAIN taken : /\ taken[j] <= pumped
                             /\ ch_ # None => taken[j] < ch_
                             /\ mailbox # None => taken[j] < mailbox

IInv == TypeOK /\ KeysQueue /\ KeysAreReadInOrder

\* The inputs after a look of the program or the poll that found c in the stream.
LEMMA LookIs ==
  ASSUME IInv, NEW c \in Key \cup {None}, TermKbhit(c)
  PROVE  /\ typed' = typed /\ pumped' = pumped /\ timer' \in 0..(Reload - 1)
         /\ mailbox' \in {mailbox, None}
         /\ c # None => c = mailbox /\ mailbox' = None
<1>1. Reload \in Nat \ {0} /\ timer \in 0..(Reload - 1)
  BY ConsoleAssumption DEF IInv, TypeOK
<1>2. timer' \in 0..(Reload - 1)
  BY <1>1 DEF TermKbhit
<1>3. QED BY <1>2 DEF TermKbhit, Char

\* What the console answers is behind all that was read, and what stays in the stream
\* behind that.
LEMMA AnswerIs ==
  ASSUME IInv, NEW k \in Key \cup {None}, Kbhit(k)
  PROVE  /\ typed' = typed /\ pumped' = pumped /\ timer' \in 0..(Reload - 1)
         /\ mailbox' \in Key \cup {None} /\ mailbox' \in {mailbox, None}
         /\ k <= pumped
         /\ mailbox' # None => k < mailbox'
         /\ k # None => \A j \in DOMAIN taken : taken[j] < k
<1>1. PICK c \in Key \cup {None} : TermKbhit(c) /\ k = IF c = None THEN ch_ ELSE c
  BY DEF Kbhit
<1>2. /\ pumped \in Nat /\ mailbox \in Key \cup {None} /\ ch_ \in Key \cup {None}
      /\ KeysQueue /\ Key \subseteq Nat \ {0} /\ None = 0
  BY ConsoleAssumption DEF IInv, TypeOK, Key, None
<1>3. CASE c = None
  BY <1>1, <1>2, <1>3, LookIs DEF KeysQueue
<1>4. CASE c # None
  <2>1. k = mailbox /\ mailbox' = None
    BY <1>1, <1>4, LookIs
  <2>2. QED BY <1>1, <1>2, <1>4, <2>1, LookIs DEF KeysQueue
<1>5. QED BY <1>3, <1>4

\* A key behind those that were read is read in its order.
LEMMA TakenIs ==
  ASSUME IInv, NEW k \in Key \cup {None}, Take(k),
         k # None => \A j \in DOMAIN taken : taken[j] < k
  PROVE  /\ taken' \in Seq(Key) /\ KeysAreReadInOrder'
         /\ \A j \in DOMAIN taken' : \/ j \in DOMAIN taken /\ taken'[j] = taken[j]
                                     \/ taken'[j] = k
<1>1. taken \in Seq(Key) /\ KeysAreReadInOrder
  BY DEF IInv, TypeOK
<1>2. CASE k = None
  BY <1>1, <1>2 DEF Take, KeysAreReadInOrder
<1>3. CASE k # None
  <2>1. taken' = Append(taken, k) /\ k \in Key
    BY <1>3 DEF Take
  <2>2. /\ taken' \in Seq(Key) /\ DOMAIN taken = 1..Len(taken) /\ Len(taken) \in Nat
        /\ DOMAIN taken' = 1..(Len(taken) + 1) /\ taken'[Len(taken) + 1] = k
        /\ \A j \in 1..Len(taken) : taken'[j] = taken[j]
    BY <1>1, <2>1
  <2>3. ASSUME NEW i \in DOMAIN taken', NEW j \in DOMAIN taken', i < j
        PROVE  taken'[i] < taken'[j]
    <3>1. i \in DOMAIN taken
      BY <2>2, <2>3
    <3>2. CASE j \in DOMAIN taken
      BY <1>1, <2>2, <2>3, <3>1, <3>2 DEF KeysAreReadInOrder
    <3>3. CASE j = Len(taken) + 1
      BY <1>3, <2>2, <3>1, <3>3
    <3>4. QED BY <2>2, <3>2, <3>3
  <2>4. KeysAreReadInOrder'
    BY <2>3 DEF KeysAreReadInOrder
  <2>5. QED BY <2>2, <2>4
<1>4. QED BY <1>2, <1>3

\* A turn that executes an instruction keeps the countdown of the poll in range.
LEMMA ExecutesIs ==
  ASSUME TypeOK, Executes PROVE ttyTimer' \in 0..PollGap /\ mode' \in {"run", "stop", "step"}
BY ConsoleAssumption DEF TypeOK, Executes

\* The console is asked and keeps its answer.
LEMMA KeepsAnswer ==
  ASSUME IInv, NEW k \in Key \cup {None}, Kbhit(k), ch_' = k, taken' = taken
  PROVE  KeysQueue' /\ KeysAreReadInOrder'
<1>1. /\ pumped \in Nat /\ \A j \in DOMAIN taken : taken[j] \in Nat
      /\ Key \subseteq Nat \ {0} /\ None = 0
  BY ConsoleAssumption DEF IInv, TypeOK, Key, None
<1>2. QED BY <1>1, AnswerIs DEF IInv, KeysQueue, KeysAreReadInOrder

\* A key is read and the console keeps none.
LEMMA ReadsKey ==
  ASSUME IInv, NEW k \in Key \cup {None}, Take(k), ch_' = None,
         mailbox' \in {mailbox, None}, pumped' = pumped, k <= pumped,
         mailbox' # None => k < mailbox',
         k # None => \A j \in DOMAIN taken : taken[j] < k
  PROVE  taken' \in Seq(Key) /\ KeysQueue' /\ KeysAreReadInOrder'
<1>1. /\ pumped \in Nat /\ \A j \in DOMAIN taken : taken[j] \in Nat
      /\ Key \subseteq Nat \ {0} /\ None = 0
  BY ConsoleAssumption DEF IInv, TypeOK, Key, None
<1>2. QED BY <1>1, TakenIs DEF IInv, KeysQueue

LEMMA Initially == Init => IInv
<1> SUFFICES ASSUME Init PROVE IInv
  OBVIOUS
<1>1. /\ taken = << >> /\ DOMAIN taken = {} /\ taken \in Seq(Key)
      /\ typed = 0 /\ pumped = 0 /\ mailbox = None /\ ch_ = None
  BY DEF Init
<1>2. told \in BOOLEAN /\ driven \in BOOLEAN
  BY Zenon DEF Init
<1>3. Z80IntEnFlag \in {0, 1}
  BY DEF Init
<1>4. /\ timer \in 0..(Reload - 1) /\ ttyTimer \in 0..PollGap
      /\ mode \in {"run", "stop", "step"} /\ irq \in {0, 1} /\ LastRxIsEmpty \in {0, 1}
  BY ConsoleAssumption DEF Init
<1>5. TypeOK
  BY <1>1, <1>2, <1>3, <1>4, ConsoleAssumption DEF TypeOK
<1>6. KeysQueue /\ KeysAreReadInOrder
  BY <1>1 DEF KeysQueue, KeysAreReadInOrder, None
<1>7. QED BY <1>5, <1>6 DEF IInv

LEMMA MainTaskStep == ASSUME IInv, Press \/ Pump PROVE IInv'
<1>1. /\ typed \in Nat /\ pumped \in 0..typed /\ \A j \in DOMAIN taken : taken[j] \in Nat
      /\ Key = 1..MaxTyped /\ MaxTyped \in Nat /\ None = 0 /\ typed <= MaxTyped
      /\ ch_ \in Nat
  BY ConsoleAssumption DEF IInv, TypeOK, Key, None
<1>2. CASE Press
  BY <1>1, <1>2 DEF IInv, TypeOK, KeysQueue, KeysAreReadInOrder, Press, cpuVars
<1>3. CASE Pump
  <2>1. TypeOK'
    BY <1>1, <1>3 DEF IInv, TypeOK, Pump, cpuVars
  <2>2. KeysQueue'
    BY <1>1, <1>3 DEF IInv, KeysQueue, Pump, cpuVars
  <2>3. QED BY <1>3, <2>1, <2>2 DEF IInv, KeysAreReadInOrder, Pump, cpuVars
<1>4. QED BY <1>2, <1>3

LEMMA PollStep == ASSUME IInv, Poll PROVE IInv'
<1>1. PICK k \in Key \cup {None} :
        /\ Kbhit(k) /\ ch_' = k
        /\ irq' = IF k # None /\ Z80IntEnFlag = 1 THEN 1 ELSE irq
  BY DEF Poll
<1>2. /\ ttyTimer' = PollGap
      /\ UNCHANGED <<mode, Z80IntEnFlag, LastRxIsEmpty, told, taken, driven>>
  BY DEF Poll
<1>3. TypeOK'
  BY <1>1, <1>2, AnswerIs, ConsoleAssumption DEF IInv, TypeOK
<1>4. QED BY <1>1, <1>2, <1>3, KeepsAnswer DEF IInv

LEMMA InstructionStep == ASSUME IInv, Instruction PROVE IInv'
<1>1. ttyTimer' \in 0..PollGap /\ mode' \in {"run", "stop", "step"}
  BY ExecutesIs DEF IInv, Instruction, ReadConsole, ReadSysFlags, SetIntEnable, OtherInstruction
<1>2. CASE ReadConsole
  <2>1. PICK k \in Key \cup {None} :
          Kbhit(k) /\ Take(k) /\ LastRxIsEmpty' = IF k = None THEN 1 ELSE 0
    BY <1>2 DEF ReadConsole
  <2>2. /\ ch_' = None /\ irq' = 0 /\ told' = FALSE
        /\ UNCHANGED <<Z80IntEnFlag, driven>>
    BY <1>2 DEF ReadConsole
  <2>3. taken' \in Seq(Key) /\ KeysQueue' /\ KeysAreReadInOrder'
    BY <2>1, <2>2, AnswerIs, ReadsKey
  <2>4. told' \in BOOLEAN
    BY <2>2, Zenon
  <2>5. TypeOK'
    BY <1>1, <2>1, <2>2, <2>3, <2>4, AnswerIs DEF IInv, TypeOK
  <2>6. QED BY <2>3, <2>5 DEF IInv
<1>3. CASE ReadSysFlags
  <2>1. PICK k \in Key \cup {None} : Kbhit(k) /\ ch_' = k /\ told' = (k # None)
    BY <1>3 DEF ReadSysFlags
  <2>2. UNCHANGED <<irq, Z80IntEnFlag, LastRxIsEmpty, taken, driven>>
    BY <1>3 DEF ReadSysFlags
  <2>3. told' \in BOOLEAN
    BY <2>1, Zenon
  <2>4. TypeOK'
    BY <1>1, <2>1, <2>2, <2>3, AnswerIs DEF IInv, TypeOK
  <2>5. QED BY <2>1, <2>2, <2>4, KeepsAnswer DEF IInv
<1>4. CASE SetIntEnable \/ OtherInstruction
  <2>1. /\ UNCHANGED <<inputVars, irq, LastRxIsEmpty, told, taken, driven>>
        /\ Z80IntEnFlag' \in {0, 1}
    BY <1>4 DEF SetIntEnable, OtherInstruction, IInv, TypeOK
  <2>2. QED BY <1>1, <2>1 DEF IInv, TypeOK, KeysQueue, KeysAreReadInOrder, inputVars
<1>5. QED BY <1>2, <1>3, <1>4 DEF Instruction

LEMMA DebuggerStep == ASSUME IInv, Debugger PROVE IInv'
<1>1. /\ pumped \in Nat /\ Key \subseteq Nat \ {0} /\ None = 0 /\ Reload \in Nat \ {0}
      /\ mailbox \in Key \cup {None} /\ ch_ \in Key \cup {None}
  BY ConsoleAssumption DEF IInv, TypeOK, Key, None
<1>2. PICK k \in Key \cup {None} :
        /\ Take(k) /\ ch_' = None /\ mailbox' \in {mailbox, None} /\ pumped' = pumped
        /\ k <= pumped /\ (mailbox' # None => k < mailbox')
        /\ (k # None => \A j \in DOMAIN taken : taken[j] < k)
  <2>1. CASE DebuggerTakesKept
    BY <1>1, <2>1 DEF DebuggerTakesKept, IInv, KeysQueue
  <2>2. CASE DebuggerTakesKey
    <3> DEFINE k == Char(mailbox)
    <3>1. k \in {mailbox, None}
      BY DEF Char
    <3>2. Take(k) /\ ch_' = None /\ mailbox' = None /\ pumped' = pumped /\ mailbox # None
      BY <2>2 DEF DebuggerTakesKey
    <3> HIDE DEF k
    <3>3. QED BY <1>1, <3>1, <3>2 DEF IInv, KeysQueue
  <2>3. QED BY <2>1, <2>2 DEF Debugger
<1>3. taken' \in Seq(Key) /\ KeysQueue' /\ KeysAreReadInOrder'
  BY <1>2, ReadsKey
<1>4. /\ UNCHANGED <<typed, pumped, ttyTimer, irq, Z80IntEnFlag, LastRxIsEmpty, told, driven>>
      /\ timer' \in {timer, 0} /\ mode' \in {"run", "stop", "step"}
  BY DEF Debugger, DebuggerTakesKept, DebuggerTakesKey, Obey
<1>5. TypeOK'
  BY <1>1, <1>2, <1>3, <1>4 DEF IInv, TypeOK
<1>6. QED BY <1>3, <1>5 DEF IInv

LEMMA Step == IInv /\ [Next]_vars => IInv'
<1> SUFFICES ASSUME IInv, [Next]_vars PROVE IInv'
  OBVIOUS
<1>1. CASE UNCHANGED vars
  BY <1>1 DEF vars, inputVars, cpuVars, IInv, TypeOK, KeysQueue, KeysAreReadInOrder
<1>2. QED BY <1>1, MainTaskStep, PollStep, InstructionStep, DebuggerStep DEF Next

LEMMA Always == Spec => []IInv
BY Initially, Step, PTL DEF Spec

\* Every variable of the console keeps its type.
THEOREM ConsoleTypeCorrect == Spec => []TypeOK
<1>1. IInv => TypeOK
  BY DEF IInv
<1>2. QED BY <1>1, Always, PTL

\* However many keys are typed, and whoever reads them: each is read at most once, and
\* after those that were typed before it.
THEOREM KeysAreReadInOrderHolds == Spec => []KeysAreReadInOrder
<1>1. IInv => KeysAreReadInOrder
  BY DEF IInv
<1>2. QED BY <1>1, Always, PTL

LEMMA PromiseStep ==
  ASSUME IInv, [Next]_vars, PromiseKept, mode # "stop" PROVE PromiseKept'
<1>1. /\ irq \in {0, 1} /\ told \in BOOLEAN
  BY DEF IInv, TypeOK
<1>2. CASE UNCHANGED <<ch_, irq, told>>
  BY <1>2 DEF PromiseKept
\* A character that is kept stays kept, or gives way to a newer one.
<1>3. ASSUME NEW k \in Key \cup {None}, Kbhit(k), ch_ # None PROVE k # None
  BY <1>3 DEF Kbhit
<1>4. CASE Poll
  BY <1>1, <1>3, <1>4 DEF Poll, PromiseKept
<1>5. CASE Instruction
  <2>1. CASE ReadConsole
    BY <2>1 DEF ReadConsole, PromiseKept
  <2>2. CASE ReadSysFlags
    BY <1>1, <1>3, <2>2 DEF ReadSysFlags, PromiseKept
  <2>3. QED BY <1>2, <1>5, <2>1, <2>2
        DEF Instruction, SetIntEnable, OtherInstruction, inputVars
<1>6. CASE Press \/ Pump \/ UNCHANGED vars
  BY <1>2, <1>6 DEF Press, Pump, vars, inputVars, cpuVars
<1>7. ~Debugger
  BY DEF Debugger, DebuggerTakesKept, DebuggerTakesKey
<1>8. QED BY <1>4, <1>5, <1>6, <1>7 DEF Next

\* Whatever the poll and the program ask the console, an interrupt that was raised and
\* a character that SYSFLAGS has shown still have a character behind them when the
\* program comes to read it, unless the debugger has eaten it.
THEOREM PromisesHold == Spec => PromisesOutliveEverythingButTheDebugger
<1>1. IInv /\ [Next]_vars => [PromiseKept /\ mode # "stop" => PromiseKept']_vars
  BY PromiseStep
<1>2. QED BY <1>1, Always, PTL DEF Spec, PromisesOutliveEverythingButTheDebugger

===============================================================================
