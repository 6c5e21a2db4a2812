------------------------------- MODULE Debugger -------------------------------
(***************************************************************************)
(* Z80_MBC2System::loop(): one round of it is either a command of the      *)
(* debugger, while the machine is stopped, or one instruction and what     *)
(* decides whether the machine stops after it.  The processor is Z80Core,  *)
(* the listing that the debugger steps by is Disassembler.                 *)
(*                                                                         *)
(* Left out: what is printed (the registers, the dumps and their pointer   *)
(* hexptr), and whether a character waits at the console, which is the     *)
(* business of Console: here one may turn up at any instruction.           *)
(***************************************************************************)
EXTENDS Z80Core, Disassembler, FiniteSets

CONSTANTS
  Starts,       \* what the boot may leave: a processor and its memory, with the flags
                \* Z80IntEnFlag and debugMode
  Typed,        \* the numbers the user enters as breakpoints
  InByte,       \* the bytes that ports answer
  MaxKeys       \* bound: how many characters turn up while the machine runs

ASSUME DebuggerAssumption ==
  /\ \A s \in Starts : IsProcessor(s.cpu)
  /\ Typed \subseteq Word /\ InByte \subseteq Byte /\ MaxKeys \in Nat

NoBreakpoint == 65535

VARIABLES
  z80,               \* the processor, its memory, and the mode
  Z80IntEnFlag,      \* a character requests an interrupt
  debugMode,         \* the button stops the machine
  bkpt, lastbkpt,    \* the breakpoint, and the one the user entered last
  retsp,             \* the stack pointer when X was pressed
  breakon,           \* whether $BREAK would stop
  keys,              \* history: how many characters have turned up
  frames,            \* history: the calls that have not returned, the latest first
  goal,              \* history: frames when X was pressed
  stepping,          \* history: whether C lets a call run
  over, calledAt,    \* history: frames then, and where it was pressed
  armed              \* history: whether bkpt is one that the user or C has set

machine == <<Z80IntEnFlag, debugMode>>
commands == <<bkpt, lastbkpt, retsp, breakon>>
history == <<goal, stepping, over, calledAt, armed>>
vars == <<z80, machine, commands, keys, frames, history>>

Stopped == z80.mode = "STOP"

\* setup(): reset(), and the mode that the setting asks for.
Init ==
  /\ \E s \in Starts :
       /\ Z80IntEnFlag = s.interrupts /\ debugMode = s.debug
       /\ z80 = [s.cpu EXCEPT !.mode = IF s.debug THEN "STOP" ELSE "RUN"]
  /\ bkpt = NoBreakpoint /\ lastbkpt = NoBreakpoint /\ retsp = 0 /\ breakon = TRUE
  /\ keys = 0 /\ frames = << >> /\ goal = << >> /\ over = << >> /\ calledAt = 0
  /\ stepping = FALSE /\ armed = FALSE

-------------------------------------------------------------------------------
(* History: calls and returns, told by what the instruction did to the stack. *)

Decoded == Decode(z80.mem, z80.pc)

\* How many calls are open no longer once the stack pointer is at sp: the latest ones,
\* for an earlier one has its return address above that of a later one.
Left(sp) == Cardinality({i \in DOMAIN frames : frames[i].sp < sp})

\* The calls still open once an instruction has made z of the processor before: those
\* whose return address is still on the stack, and the one just made.
Frames(before, z) ==
  LET open == SubSeq(frames, Left(z.sp) + 1, Len(frames))
      calls == \/ Accepts(before) /\ before.im = 1
               \/ ~Accepts(before) /\ Decoded.ins.op \in Calls /\ z.sp # z80.sp
  IN  IF calls THEN <<[ret |-> Top(z), sp |-> z.sp]>> \o open ELSE open

-------------------------------------------------------------------------------
(* The machine is stopped: a key.  Bound: the user does not go on when the program *)
(* has left what was loaded or written.                                            *)

AtCode == Stopped /\ z80.pc \in DOMAIN z80.mem

\* Every key sets breakon, G excepted.
Runs(mode, on) == z80' = [z80 EXCEPT !.mode = mode] /\ breakon' = on

\* Bound: an instruction has MaxPrefixes prefixes at most.
Bounded(z) == Accepts(z) \/ FewPrefixes(z.mem, z.pc)

Executes(any) ==
  /\ Bounded(z80)
  /\ z80' = sim(z80, any)
  /\ frames' = Frames(z80, z80')
  /\ breakon' = TRUE

\* G and E.
Go(on) ==
  /\ AtCode
  /\ Runs("RUN", on)
  /\ UNCHANGED <<machine, bkpt, lastbkpt, retsp, keys, frames, history>>

\* B and a number.
Breakpoint(a) ==
  /\ AtCode
  /\ bkpt' = a /\ lastbkpt' = a /\ armed' = TRUE
  /\ Runs("RUN", TRUE)
  /\ UNCHANGED <<machine, retsp, keys, frames, goal, stepping, over, calledAt>>

\* B and nothing: the number entered last.
BreakpointAgain ==
  /\ AtCode
  /\ bkpt' = lastbkpt /\ armed' = (lastbkpt # NoBreakpoint \/ armed)
  /\ Runs("RUN", TRUE)
  /\ UNCHANGED <<machine, lastbkpt, retsp, keys, frames, goal, stepping, over, calledAt>>

\* B and no number: sscanf() leaves the breakpoint as it is.
BreakpointUnread ==
  /\ AtCode
  /\ lastbkpt' = bkpt
  /\ Runs("RUN", TRUE)
  /\ UNCHANGED <<machine, bkpt, retsp, keys, frames, history>>

\* Mutant of IsCall: RST is stepped into.
IsCallNoRST(mem, pc) ==
  LET x == read(mem, pc)
      x1 == read(mem, pc + 1)
  IN  \/ x = 205
      \/ x > 192 /\ x % 8 = 4
      \/ x = 237 /\ (x1 \div 16) = 11 /\ Bit(x1, 4) = 0

\* C: what it takes for an instruction that comes back.
IsCall(mem, pc) ==
  LET x == read(mem, pc)
      x1 == read(mem, pc + 1)
  IN  \/ x = 205
      \/ x > 192 /\ x % 8 \in {4, 7}
      \/ x = 237 /\ (x1 \div 16) = 11 /\ Bit(x1, 4) = 0

CallStep(any) ==
  /\ AtCode
  /\ IF IsCall(z80.mem, z80.pc)
     THEN /\ bkpt' = source(z80.mem, z80.pc) /\ armed' = TRUE
          /\ Runs("RUN", TRUE) /\ frames' = frames
          /\ stepping' = TRUE /\ over' = frames /\ calledAt' = z80.pc
     ELSE /\ Executes(any)
          /\ UNCHANGED <<bkpt, armed, stepping, over, calledAt>>
  /\ UNCHANGED <<machine, lastbkpt, retsp, keys, goal>>

\* X.
UntilRet ==
  /\ AtCode
  /\ retsp' = z80.sp /\ goal' = frames
  /\ Runs("RET", TRUE)
  /\ UNCHANGED <<machine, bkpt, lastbkpt, keys, frames, stepping, over, calledAt, armed>>

\* I and the space bar.
InstructionStep(any) ==
  /\ AtCode
  /\ Executes(any)
  /\ UNCHANGED <<machine, bkpt, lastbkpt, retsp, keys, history>>

\* The other keys, and ESC for a breakpoint, show something at most.
Show ==
  /\ Stopped
  /\ breakon' = TRUE
  /\ UNCHANGED <<z80, machine, bkpt, lastbkpt, retsp, keys, frames, history>>

Key ==
  \/ \E on \in BOOLEAN : Go(on)
  \/ \E a \in Typed : Breakpoint(a)
  \/ BreakpointAgain
  \/ BreakpointUnread
  \/ \E any \in InByte : CallStep(any) \/ InstructionStep(any)
  \/ UntilRet
  \/ Show

-------------------------------------------------------------------------------
(* The machine runs: one instruction. *)

\* The poll of the console: a character counts only if the program has asked to be
\* told of it.
Poll(z, typed) == IF typed THEN [z EXCEPT !.irq = 1] ELSE z

\* $BREAK, ED F5: the code that would go on after it.
GoesOn(z, at) ==
  ~breakon /\ z.mode = "STOP" /\ read(z.mem, at) = 237 /\ read(z.mem, at + 1) = 245

\* Mutant of ReturnedAbove: a routine called from here returns as well.
ReturnedAnywhere(z, at) ==
  LET x == read(z.mem, at)
  IN  (x = 201 \/ (x >= 192 /\ x % 8 = 0)) /\ z.pc # at + 1 /\ z.sp < retsp + 32

\* RET or a conditional one, executed at at.
ReturnedAbove(z, at) ==
  LET x == read(z.mem, at)
  IN  /\ x = 201 \/ (x >= 192 /\ x % 8 = 0)
      /\ z.pc # at + 1
      /\ z.sp > retsp /\ z.sp < retsp + 32

LoadedSP(z, at) ==
  LET x == read(z.mem, at)
  IN  x \in {49, 249} \/ (x = 237 /\ read(z.mem, at + 1) = 123)

\* The mode after the instruction at at has made z of the processor.
ModeAfter(z, at, pressed) ==
  LET resumed == IF GoesOn(z, at) THEN "RUN" ELSE z.mode
      mode == IF debugMode /\ pressed THEN "STOP" ELSE resumed
  IN  IF z.pc = bkpt THEN "STOP"
      ELSE IF mode = "RET" /\ (ReturnedAbove(z, at) \/ LoadedSP(z, at)) THEN "STOP"
      ELSE mode

\* Mutant of AfterHit: the breakpoint stays.
AfterHitKept(pc) == bkpt

\* Mutant of AfterHit: the assignment has left the braces.
AfterHitAlways(pc) == 0

\* A breakpoint that was hit becomes address 0.
AfterHit(pc) == IF pc = bkpt THEN 0 ELSE bkpt

Run(typed, pressed, any) ==
  /\ ~Stopped
  /\ typed => Z80IntEnFlag /\ keys < MaxKeys
  /\ Bounded(Poll(z80, typed))
  /\ keys' = keys + Yes(typed)
  /\ LET z == sim(Poll(z80, typed), any)
     IN  /\ z80' = [z EXCEPT !.mode = ModeAfter(z, z80.pc, pressed)]
         /\ bkpt' = AfterHit(z.pc)
         /\ armed' = (armed /\ z.pc # bkpt)
  /\ frames' = Frames(Poll(z80, typed), z80')
  /\ IF z80'.mode = "STOP"
     THEN stepping' = FALSE /\ over' = << >> /\ calledAt' = 0
     ELSE UNCHANGED <<stepping, over, calledAt>>
  /\ UNCHANGED <<machine, lastbkpt, retsp, breakon, goal>>

loop == \E typed, pressed \in BOOLEAN, any \in InByte : Run(typed, pressed, any)

Next == Key \/ loop

\* The emulator's task has a core of its own and calls loop() for ever, and nothing
\* makes the user press a key: weak fairness of loop, written with what enables it.
LoopGoesOn == []<>Stopped \/ []<><<loop>>_vars

Spec == Init /\ [][Next]_vars /\ LoopGoesOn

-------------------------------------------------------------------------------
(* Correctness. *)

\* What source() returns: an instruction that begins at the last address may go on
\* beyond it.
Listed == {n \in Nat : n <= 65535 + 5}

\* Every register keeps its width through every instruction: no unsigned char or short
\* of Z80CPU.h is ever taken for a wider number.
TypeOK ==
  /\ IsProcessor(z80)
  /\ bkpt \in Listed /\ lastbkpt \in Listed
  /\ retsp \in Word /\ breakon \in BOOLEAN
  /\ keys \in 0..MaxKeys /\ armed \in BOOLEAN /\ stepping \in BOOLEAN

Op == Decoded.ins.op
IndexBytes == {221, 253}
Indexed == read(z80.mem, z80.pc) \in IndexBytes

\* What the listing and the processor make of one instruction differs: EX (SP),IX is
\* listed with a byte too many, for (SP) counts as an operand with an offset, and a
\* prefix before another prefix or before ED is not followed.
ListedOtherwise == Indexed /\ read(z80.mem, z80.pc + 1) \in IndexBytes \cup {227, 237}

\* The listing's table and the processor's three, each written out by hand, agree: an
\* instruction goes by as many bytes as are listed, leaves the address after them on
\* the stack if it is a call, and takes a jump's target from the last of them.  The
\* processor begins again at 0 after the last address.
ListingIsWhatRuns ==
  AtCode /\ Bounded(z80) /\ ~Accepts(z80) /\ ~ListedOtherwise =>
    \A any \in InByte :
      LET z == sim(z80, any)
          end == source(z80.mem, z80.pc)
          next == end % 65536
          offset == Signed(read(z80.mem, end - 1))
      IN  CASE Op \in Calls /\ z.sp # z80.sp -> Top(z) = next
            [] Op \in {"JR", "DJNZ"} -> z.pc \in {next, (end + offset) % 65536}
            [] Op = "JP" -> z.pc \in {next, readWord(z80.mem, end - 2)}
            [] Op \in Returns \cup {"JP_ATRX"} -> z.pc \in {next, Top(z80), Pair16(z80, Decoded.named)}
            [] Op \in Repeating -> z.pc \in {next, z80.pc}
            [] OTHER -> z.pc = next

\* An instruction on IX or IY has nothing to do with HL, however its family finds the
\* register (by the flags, by the pointers, by name): it comes out the same whatever
\* HL holds, and leaves it alone.  Only LD between (IX+d) and H or L means them, EXX
\* swaps them, and what follows ED does not go by the prefix.
IndexedLeavesHL ==
  LET d == Decoded
      opcode == read(z80.mem, z80.pc + Prefixes(z80.mem, z80.pc))
      meant == d.ins.op \in {"LD_R_ATRX", "LD_ATRX_R"} /\ {d.ins.x, d.ins.y} \cap {"H", "L"} # {}
      same == 257 * z80.r["A"]
      after == sim(z80, 0)
  IN  AtCode /\ Bounded(z80) /\ ~Accepts(z80) /\ Indexed
      /\ opcode # 237 /\ ~meant /\ d.ins.op # "EXX" =>
        sim(Set16(z80, "HL", same), 0) = Set16(after, "HL", same)
        /\ Pair16(after, "HL") = Pair16(z80, "HL")

\* C on an instruction that the processor is going to execute, without a prefix that
\* would hide it.
CallStepped == \E any \in InByte : ~Accepts(z80) /\ ~Indexed /\ CallStep(any)

\* C never leaves the user inside the routine: whatever the processor takes for a call
\* is let run, and the machine stops after it with the calls open that were open
\* before.  The exceptions are a routine that comes to the same place again before it
\* has returned, and a handler that comes there before the call was made.
CallStepComesBack ==
  [][ /\ CallStepped => Len(frames') <= Len(frames)
      /\ stepping /\ z80'.mode = "STOP" /\ z80'.pc = bkpt =>
           \/ Len(frames') <= Len(over)
           \/ \E k \in 1..(Len(frames') - Len(over)) : frames'[k].ret \in {bkpt, calledAt}
    ]_vars

\* Once C has let a routine run that returns, the machine stops.
CallStepEnds == stepping ~> Stopped

\* The machine has run an instruction, and the button has not stopped it.
Ran == \E typed \in BOOLEAN, any \in InByte : Run(typed, FALSE, any)

\* It was a return, without a prefix, that was taken and ended a call.
Returned ==
  /\ Op = "RET" /\ ~Indexed
  /\ z80'.sp = (z80.sp + 2) % 65536 /\ Len(frames') < Len(frames)

\* X stops at the return of the routine it was pressed in, or of an outer one if that
\* one ended otherwise, though all it compares is stack pointers: unless 32 bytes or
\* more have gone off the stack by then, or the return goes to the next address, as a
\* conditional one does that is not taken.  A routine called since then returns without
\* a stop, unless there was less on the stack at its call than when X was pressed.
UntilRetStopsThere ==
  [][ Ran /\ z80.mode = "RET" /\ Returned /\ z80'.pc # bkpt =>
        IF \E i \in DOMAIN goal : goal[i] = Head(frames)
        THEN z80'.mode = "STOP" \/ z80'.sp >= retsp + 32 \/ z80'.pc = z80.pc + 1
        ELSE z80'.mode = "STOP" => Head(frames).sp > retsp - 2 ]_vars

\* The instruction has changed its own opcode, which loop() looks at only afterwards.
Overwritten ==
  \E i \in 0..1 : read(z80'.mem, z80.pc + i) # read(z80.mem, z80.pc + i)

\* A machine that runs stops for a reason that the user knows: HALT, the return or the
\* change of stack that X waits for, a breakpoint set and not yet hit.  The exceptions
\* are 0, where a breakpoint goes that was hit, and FFFF, where it is at first.
\* $BREAK, which the help of the debugger promises for E, stops nothing.
NoStopUnasked ==
  [][ Ran /\ z80'.mode = "STOP" =>
        \/ Op = "HALT"
        \/ z80'.pc = bkpt /\ (armed \/ bkpt \in {0, NoBreakpoint})
        \/ z80.mode = "RET" /\ (Op \in Returns \/ LoadedSP(z80, z80.pc))
        \/ z80.mode = "RET" /\ Overwritten
    ]_vars
===============================================================================
