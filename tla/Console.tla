-------------------------------- MODULE Console --------------------------------
(***************************************************************************)
(* How a key reaches the emulated program: from the main task's streams    *)
(* through the stream between the tasks (XStreams, here one atomic place)  *)
(* to SerialTerm, SystemConsole and at last the console port of            *)
(* Z80_MBC2IO; with the poll that loop() makes every eleven instructions,  *)
(* the interrupt it raises, and the debugger, which reads the same console.*)
(*                                                                         *)
(* A key is its place in the order of typing; the keys in Nul produce the  *)
(* character 0, which this path cannot tell from no character.  bufch of   *)
(* SerialTerm is 0 between two operations, for SystemConsole::kbhit()      *)
(* takes at once what it finds there, so it is not part of the state.      *)
(***************************************************************************)
EXTENDS Naturals, Sequences

CONSTANTS
  MaxTyped,   \* how many keys are typed in the model
  Nul,        \* the keys that produce the character 0
  Reload,     \* reload of SerialTerm.cpp: the calls of kbhit() that skip the stream
  PollGap     \* instructions between two polls

ASSUME ConsoleAssumption ==
  /\ MaxTyped \in Nat /\ Nul \subseteq 1..MaxTyped
  /\ Reload \in Nat \ {0} /\ PollGap \in Nat \ {0}

Key == 1..MaxTyped
None == 0

VARIABLES
  typed,          \* the keys typed so far
  pumped,         \* how many of them the main task moved on
  mailbox,        \* the key in the stream between the tasks, or None
  timer,          \* of SerialTerm: the calls of kbhit() until it looks again
  ch_,            \* of SystemConsole: the character it keeps, or None
  ttyTimer,       \* of loop(): the instructions until the next poll
  mode,           \* "run", "stop" in the debugger, "step" for one instruction
  irq,            \* the interrupt line of the CPU
  Z80IntEnFlag,   \* whether the program asked for an interrupt per character
  LastRxIsEmpty,  \* whether its last read of the console found nothing
  told,           \* history: SYSFLAGS showed a character that was not read since
  taken,          \* history: the keys read, by the program or the debugger
  driven          \* whether the program reads only when interrupted (never changes)

inputVars == <<typed, pumped, mailbox, timer, ch_>>
cpuVars == <<ttyTimer, mode, irq, Z80IntEnFlag, LastRxIsEmpty, told, taken, driven>>
vars == <<inputVars, cpuVars>>

TypeOK ==
  /\ typed \in 0..MaxTyped /\ pumped \in 0..typed
  /\ {mailbox, ch_} \subseteq Key \cup {None}
  /\ timer \in 0..(Reload - 1)
  /\ ttyTimer \in 0..PollGap
  /\ mode \in {"run", "stop", "step"}
  /\ irq \in {0, 1} /\ Z80IntEnFlag \in {0, 1} /\ LastRxIsEmpty \in {0, 1}
  /\ taken \in Seq(Key)
  /\ told \in BOOLEAN /\ driven \in BOOLEAN

\* Zsetup() sets the flag for the programs it boots; debugMode starts stopped.
Init ==
  /\ typed = 0 /\ pumped = 0 /\ mailbox = None
  /\ timer = 0 /\ ch_ = None /\ ttyTimer = 0
  /\ mode \in {"run", "stop"}
  /\ irq = 0 /\ LastRxIsEmpty = 0
  /\ driven \in BOOLEAN
  /\ Z80IntEnFlag \in IF driven THEN {1} ELSE {0, 1}
  /\ told = FALSE /\ taken = << >>

-------------------------------------------------------------------------------
(* The main task. *)

Press ==
  /\ typed < MaxTyped
  /\ typed' = typed + 1
  /\ UNCHANGED <<pumped, mailbox, timer, ch_, cpuVars>>

\* loop() of the sketch writes a waiting key to the other task when there is room.
Pump ==
  /\ pumped < typed /\ mailbox = None
  /\ pumped' = pumped + 1
  /\ mailbox' = pumped + 1
  /\ UNCHANGED <<typed, timer, ch_, cpuVars>>

-------------------------------------------------------------------------------
(* The console's layers. *)

Char(k) == IF k \in Nul THEN None ELSE k

\* Mutant of TermKbhit: the timer is reloaded after it was counted down.
TermKbhitReloadsLate(c) ==
  /\ c = IF timer = 0 THEN Char(mailbox) ELSE None
  /\ mailbox' = IF timer = 0 THEN None ELSE mailbox
  /\ timer' = IF timer > 0 THEN timer - 1 ELSE IF mailbox = None THEN Reload ELSE 0
  /\ UNCHANGED <<typed, pumped>>

\* Mutant of TermKbhit: a NUL is looked at and left in the stream.
TermKbhitLeavesNul(c) ==
  /\ c = IF timer = 0 THEN Char(mailbox) ELSE None
  /\ mailbox' = IF timer = 0 /\ c # None THEN None ELSE mailbox
  /\ timer' = IF timer > 0 THEN timer - 1 ELSE IF mailbox = None THEN Reload - 1 ELSE 0
  /\ UNCHANGED <<typed, pumped>>

\* SerialTerm::kbhit() finds c: it looks into the stream only when its timer has
\* run out, and again at once after a character, a NUL included.
TermKbhit(c) ==
  /\ c = IF timer = 0 THEN Char(mailbox) ELSE None
  /\ mailbox' = IF timer = 0 THEN None ELSE mailbox
  /\ timer' = IF timer > 0 THEN timer - 1
              ELSE IF mailbox = None THEN Reload - 1 ELSE 0
  /\ UNCHANGED <<typed, pumped>>

\* SystemConsole::kbhit() answers k, its ch_ from now on: a character from the
\* terminal replaces the one kept so far.
Kbhit(k) == \E c \in Key \cup {None} :
  /\ TermKbhit(c)
  /\ k = IF c = None THEN ch_ ELSE c

\* The key k, if there was one, has been read.
Take(k) == taken' = IF k = None THEN taken ELSE Append(taken, k)

-------------------------------------------------------------------------------
(* One turn of loop(): the poll that is due, then an instruction. *)

\* Mutant of Poll: the character is taken and not put back.
PollWithoutUngetch ==
  /\ mode = "run" /\ ttyTimer = 0
  /\ \E k \in Key \cup {None} :
       /\ Kbhit(k)
       /\ irq' = IF k # None /\ Z80IntEnFlag = 1 THEN 1 ELSE irq
  /\ ch_' = None
  /\ ttyTimer' = PollGap
  /\ UNCHANGED <<mode, Z80IntEnFlag, LastRxIsEmpty, told, taken, driven>>

\* Mutant of Poll: only a character new to the console raises the interrupt.
PollForNewOnly ==
  /\ mode = "run" /\ ttyTimer = 0
  /\ \E k \in Key \cup {None} :
       /\ Kbhit(k)
       /\ ch_' = k
       /\ irq' = IF k # ch_ /\ Z80IntEnFlag = 1 THEN 1 ELSE irq
  /\ ttyTimer' = PollGap
  /\ UNCHANGED <<mode, Z80IntEnFlag, LastRxIsEmpty, told, taken, driven>>

\* The poll raises the interrupt and leaves the character where it was (getch,
\* ungetch).
Poll ==
  /\ mode = "run" /\ ttyTimer = 0
  /\ \E k \in Key \cup {None} :
       /\ Kbhit(k)
       /\ ch_' = k
       /\ irq' = IF k # None /\ Z80IntEnFlag = 1 THEN 1 ELSE irq
  /\ ttyTimer' = PollGap
  /\ UNCHANGED <<mode, Z80IntEnFlag, LastRxIsEmpty, told, taken, driven>>

\* An instruction may stop the machine: a breakpoint, HALT, ED F5, the button.
\* Stepping stops after it in any case, and counts for no poll.
Executes ==
  \/ /\ mode = "run" /\ ttyTimer > 0
     /\ ttyTimer' = ttyTimer - 1
     /\ mode' \in {"run", "stop"}
  \/ /\ mode = "step" /\ mode' = "stop"
     /\ UNCHANGED ttyTimer

\* Mutant of ReadConsole: the character stays in the console.
ReadConsoleKeeps ==
  /\ Executes
  /\ driven => irq = 1
  /\ \E k \in Key \cup {None} :
       /\ Kbhit(k)
       /\ Take(k)
       /\ LastRxIsEmpty' = IF k = None THEN 1 ELSE 0
       /\ ch_' = k
  /\ irq' = 0
  /\ told' = FALSE
  /\ UNCHANGED <<Z80IntEnFlag, driven>>

\* Z80_MBC2IO::in() of the odd port.
ReadConsole ==
  /\ Executes
  /\ driven => irq = 1
  /\ \E k \in Key \cup {None} :
       /\ Kbhit(k)
       /\ Take(k)
       /\ LastRxIsEmpty' = IF k = None THEN 1 ELSE 0
  /\ ch_' = None
  /\ irq' = 0
  /\ told' = FALSE
  /\ UNCHANGED <<Z80IntEnFlag, driven>>

\* SYSFLAGS: to report whether a character is there, the console is asked for it.
ReadSysFlags ==
  /\ Executes
  /\ \E k \in Key \cup {None} :
       /\ Kbhit(k)
       /\ ch_' = k
       /\ told' = (k # None)
  /\ UNCHANGED <<irq, Z80IntEnFlag, LastRxIsEmpty, taken, driven>>

\* SETINTENABLE: switching the flag off leaves a raised interrupt raised.
SetIntEnable ==
  /\ Executes
  /\ ~driven
  /\ Z80IntEnFlag' \in {0, 1}
  /\ UNCHANGED <<inputVars, irq, LastRxIsEmpty, told, taken, driven>>

OtherInstruction ==
  /\ Executes
  /\ UNCHANGED <<inputVars, irq, Z80IntEnFlag, LastRxIsEmpty, told, taken, driven>>

-------------------------------------------------------------------------------
(* The debugger's getch(): the character kept for the program is its command; *)
(* failing that it waits for a key.  A command may leave it stopped, resume   *)
(* or step.                                                                   *)

Obey == mode' \in {"run", "stop", "step"}

DebuggerTakesKept ==
  /\ mode = "stop" /\ ch_ # None
  /\ Take(ch_)
  /\ ch_' = None
  /\ Obey
  /\ UNCHANGED <<typed, pumped, mailbox, timer, ttyTimer, irq, Z80IntEnFlag,
                 LastRxIsEmpty, told, driven>>

DebuggerTakesKey ==
  /\ mode = "stop" /\ ch_ = None /\ mailbox # None
  /\ mailbox' = None
  /\ timer' = 0
  /\ Take(Char(mailbox))
  /\ IF mailbox \in Nul THEN UNCHANGED mode ELSE Obey
  /\ UNCHANGED <<typed, pumped, ch_, ttyTimer, irq, Z80IntEnFlag,
                 LastRxIsEmpty, told, driven>>

Debugger == DebuggerTakesKept \/ DebuggerTakesKey

-------------------------------------------------------------------------------
Instruction == ReadConsole \/ ReadSysFlags \/ SetIntEnable \/ OtherInstruction

Next == Press \/ Pump \/ Poll \/ Instruction \/ Debugger

Spec == Init /\ [][Next]_vars

\* Both tasks run for ever, and a program that wants input reads the console
\* again and again, or whenever it is interrupted.
Fairness ==
  /\ WF_vars(Pump) /\ WF_vars(Poll) /\ WF_vars(Instruction) /\ WF_vars(Debugger)
  /\ SF_vars(ReadConsole)

FairSpec == Spec /\ Fairness

-------------------------------------------------------------------------------
(* Correctness. *)

\* Keys are read in the order they were typed and none is read twice, although a
\* key is taken out of the console and put back at every poll.
KeysAreReadInOrder ==
  \A i, j \in DOMAIN taken : i < j => taken[i] < taken[j]

\* Whoever was promised a character finds one: an interrupt is never raised, and
\* SYSFLAGS never shows a character, without one to read.
PromiseKept == (irq = 1 \/ told) => ch_ # None

\* Only the debugger, which eats the program's character as a command, can take
\* back what was promised.
PromisesOutliveEverythingButTheDebugger ==
  [][PromiseKept /\ mode # "stop" => PromiseKept']_vars

\* A key that is not a NUL is read, or overtaken by a later one that is: none
\* stays in the console for good, whether the program polls or is interrupted.
EveryKeyIsReadOrOvertaken ==
  \A k \in Key \ Nul : typed >= k ~> \E j \in DOMAIN taken : taken[j] >= k

\* A kept character leads to an interrupt if the program wants one, also when the
\* console took it for SYSFLAGS and not for the poll.
KeptCharactersInterrupt ==
  ch_ # None /\ Z80IntEnFlag = 1 ~> irq = 1 \/ ch_ = None \/ Z80IntEnFlag = 0

\* What the poll's comment on escape sequences takes for granted: no character of
\* a sequence is dropped on its way to the reader.  (Without NULs.)
NothingIsOvertaken == \A j \in DOMAIN taken : taken[j] = j

===============================================================================
