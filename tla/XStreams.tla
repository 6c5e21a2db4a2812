------------------------------- MODULE XStreams -------------------------------
(***************************************************************************)
(* The streams of XStream.h between the main task, which owns the serial   *)
(* port and the terminal, and the emulator task on the other core.  Each   *)
(* direction is a Buffer: a character x and a flag i, both volatile, shared*)
(* without a lock.  The two tasks run on two cores, so a step below is one *)
(* access to x or i, and the accesses of the two tasks interleave freely.  *)
(*                                                                         *)
(* The main task runs loop() of the sketch; the emulator task calls kbhit()*)
(* and putch() of SerialTerm.cpp whenever the emulated machine wants to.   *)
(***************************************************************************)
EXTENDS Naturals, Sequences

CONSTANTS
  Char,      \* the characters exchanged
  NoChar,    \* what is in x before the first write, and in a call not made
  MaxSent    \* how many characters a direction carries in the model

ASSUME XStreamsAssumption == NoChar \notin Char /\ MaxSent \in Nat

Thread == {"main", "emu"}
Buffer == {"buffer1", "buffer2"}

\* stream1 (main) reads buffer1 and writes buffer2, stream2 (emu) the reverse.
Rx(t) == IF t = "main" THEN "buffer1" ELSE "buffer2"
Tx(t) == IF t = "main" THEN "buffer2" ELSE "buffer1"

VARIABLES
  x, i,         \* of each buffer: the character, and the flag that it is there
  pc,           \* what each task is about to do
  c,            \* the argument of the write() a task is in
  ret,          \* the value the read() a task is in will return
  sent, rcvd    \* history: what was handed to write(), what read() returned

vars == <<x, i, pc, c, ret, sent, rcvd>>

MainPc == {"checkRx", "checkTx"}
CallPc == {"spinRead", "takeRead", "clearRead", "spinWrite", "putWrite", "flagWrite"}

TypeOK ==
  /\ x \in [Buffer -> Char \cup {NoChar}]
  /\ i \in [Buffer -> {0, 1}]
  /\ pc \in [Thread -> MainPc \cup {"run"} \cup CallPc]
  /\ pc["main"] # "run" /\ pc["emu"] \notin MainPc
  /\ c \in [Thread -> Char \cup {NoChar}]
  /\ ret \in [Thread -> Char \cup {NoChar}]
  /\ sent \in [Buffer -> Seq(Char)]
  /\ rcvd \in [Buffer -> Seq(Char)]

Init ==
  /\ x = [b \in Buffer |-> NoChar]
  /\ i = [b \in Buffer |-> 0]
  /\ pc = [t \in Thread |-> IF t = "main" THEN "checkRx" ELSE "run"]
  /\ c = [t \in Thread |-> NoChar]
  /\ ret = [t \in Thread |-> NoChar]
  /\ sent = [b \in Buffer |-> << >>]
  /\ rcvd = [b \in Buffer |-> << >>]

-------------------------------------------------------------------------------
(* Buffer::read() and Buffer::write(). *)

Goto(t, l) == pc' = [pc EXCEPT ![t] = l]

\* while ( !i ) {}
SpinRead(t) ==
  /\ pc[t] = "spinRead" /\ i[Rx(t)] = 1
  /\ Goto(t, "takeRead")
  /\ UNCHANGED <<x, i, c, ret, sent, rcvd>>

\* Mutant of TakeRead: the buffer is free before the call is over.
TakeReadFrees(t) ==
  /\ pc[t] = "takeRead"
  /\ ret' = [ret EXCEPT ![t] = x[Rx(t)]]
  /\ i' = [i EXCEPT ![Rx(t)] = 0]
  /\ Goto(t, "clearRead")
  /\ UNCHANGED <<x, c, sent, rcvd>>

\* int ret = x;
TakeRead(t) ==
  /\ pc[t] = "takeRead"
  /\ ret' = [ret EXCEPT ![t] = x[Rx(t)]]
  /\ Goto(t, "clearRead")
  /\ UNCHANGED <<x, i, c, sent, rcvd>>

\* i = 0; return ret;
ClearRead(t) ==
  /\ pc[t] = "clearRead"
  /\ i' = [i EXCEPT ![Rx(t)] = 0]
  /\ rcvd' = [rcvd EXCEPT ![Rx(t)] = Append(@, ret[t])]
  /\ ret' = [ret EXCEPT ![t] = NoChar]
  /\ Goto(t, IF t = "main" THEN "checkTx" ELSE "run")
  /\ UNCHANGED <<x, c, sent>>

\* while ( i ) {}
SpinWrite(t) ==
  /\ pc[t] = "spinWrite" /\ i[Tx(t)] = 0
  /\ Goto(t, "putWrite")
  /\ UNCHANGED <<x, i, c, ret, sent, rcvd>>

\* Mutant of PutWrite: the flag will be raised before the character is there.
PutWriteLate(t) ==
  /\ pc[t] = "putWrite"
  /\ Goto(t, "flagWrite")
  /\ UNCHANGED <<x, i, c, ret, sent, rcvd>>

\* x = c;
PutWrite(t) ==
  /\ pc[t] = "putWrite"
  /\ x' = [x EXCEPT ![Tx(t)] = c[t]]
  /\ Goto(t, "flagWrite")
  /\ UNCHANGED <<i, c, ret, sent, rcvd>>

\* i = 1; return 1;
FlagWrite(t) ==
  /\ pc[t] = "flagWrite"
  /\ i' = [i EXCEPT ![Tx(t)] = 1]
  /\ sent' = [sent EXCEPT ![Tx(t)] = Append(@, c[t])]
  /\ c' = [c EXCEPT ![t] = NoChar]
  /\ Goto(t, IF t = "main" THEN "checkRx" ELSE "run")
  /\ UNCHANGED <<x, ret, rcvd>>

Call(t) == SpinRead(t) \/ TakeRead(t) \/ ClearRead(t)
             \/ SpinWrite(t) \/ PutWrite(t) \/ FlagWrite(t)

-------------------------------------------------------------------------------
(* loop(), in the main task. *)

\* Mutant of MainChecksRx: output waits until the last key has been taken.
MainChecksRxWhenIdle ==
  /\ pc["main"] = "checkRx"
  /\ Goto("main", IF i[Rx("main")] = 1 /\ i[Tx("main")] = 0 THEN "spinRead" ELSE "checkTx")
  /\ UNCHANGED <<x, i, c, ret, sent, rcvd>>

\* if ( xStream1.available() ) mainStream.write( xStream1.read() );
MainChecksRx ==
  /\ pc["main"] = "checkRx"
  /\ Goto("main", IF i[Rx("main")] = 1 THEN "spinRead" ELSE "checkTx")
  /\ UNCHANGED <<x, i, c, ret, sent, rcvd>>

\* Mutant of MainHasKey: it is written without asking whether there is room.
MainHasKeyUnasked(k) ==
  /\ pc["main"] = "checkTx"
  /\ Len(sent[Tx("main")]) < MaxSent
  /\ c' = [c EXCEPT !["main"] = k]
  /\ Goto("main", "spinWrite")
  /\ UNCHANGED <<x, i, ret, sent, rcvd>>

\* if ( mainStream.available() && xStream1.availableForWrite() ): a key k was
\* pressed and there is room for it ...
MainHasKey(k) ==
  /\ pc["main"] = "checkTx"
  /\ i[Tx("main")] = 0
  /\ Len(sent[Tx("main")]) < MaxSent
  /\ c' = [c EXCEPT !["main"] = k]
  /\ Goto("main", "spinWrite")
  /\ UNCHANGED <<x, i, ret, sent, rcvd>>

\* ... or not: a key waits in mainStream until a later turn of the loop.
MainHasNone ==
  /\ pc["main"] = "checkTx"
  /\ Goto("main", "checkRx")
  /\ UNCHANGED <<x, i, c, ret, sent, rcvd>>

(* kbhit() and putch(), in the emulator task. *)

\* if ( subStream.available() ) c = subStream.read();
EmuKbhit ==
  /\ pc["emu"] = "run" /\ i[Rx("emu")] = 1
  /\ Goto("emu", "spinRead")
  /\ UNCHANGED <<x, i, c, ret, sent, rcvd>>

\* subStream.print( (char)ch ), without asking whether there is room.
EmuPutch(ch) ==
  /\ pc["emu"] = "run"
  /\ Len(sent[Tx("emu")]) < MaxSent
  /\ c' = [c EXCEPT !["emu"] = ch]
  /\ Goto("emu", "spinWrite")
  /\ UNCHANGED <<x, i, ret, sent, rcvd>>

-------------------------------------------------------------------------------
Main == MainChecksRx \/ (\E k \in Char : MainHasKey(k)) \/ MainHasNone \/ Call("main")

Emu == EmuKbhit \/ (\E ch \in Char : EmuPutch(ch)) \/ Call("emu")

Next == Main \/ Emu

Spec == Init /\ [][Next]_vars

\* Both tasks run for ever, each on its core.  The emulator polls the keyboard
\* every eleven instructions, so it cannot print for ever between two polls.
Fairness == WF_vars(Main) /\ WF_vars(Call("emu")) /\ SF_vars(EmuKbhit)

FairSpec == Spec /\ Fairness

-------------------------------------------------------------------------------
(* Correctness. *)

\* The streams implement the two channels: nothing is lost, duplicated or
\* overtaken although flag and character are written separately, and a
\* character is only read once it is complete.
Ch == INSTANCE Channel

ChannelsKept == Ch!Spec

\* Every character sent is received at last.
ChannelsServed == Ch!FairSpec

\* A task that asked first never waits in read() or write(): what it saw cannot
\* have been taken back by the other task in the meantime.
GuardedCallsDoNotWait ==
  /\ \A t \in Thread : pc[t] = "spinRead" => i[Rx(t)] = 1
  /\ pc["main"] = "spinWrite" => i[Tx("main")] = 0

\* putch() comes back although it spins without a timeout, for the main task never
\* waits for the emulator in turn.
PutchReturns == pc["emu"] = "spinWrite" ~> pc["emu"] = "run"

\* The inductive invariant: what the flag, the character and the two tasks'
\* positions tell about what was sent and received.
FlagTellsTheDifference ==
  \A b \in Buffer :
    /\ i[b] = 0 => sent[b] = rcvd[b]
    /\ i[b] = 1 => x[b] \in Char /\ sent[b] = Append(rcvd[b], x[b])

ReaderHolds ==
  \A t \in Thread :
    /\ pc[t] \in {"takeRead", "clearRead"} => i[Rx(t)] = 1
    /\ pc[t] = "clearRead" => ret[t] = x[Rx(t)]

WriterHolds ==
  \A t \in Thread :
    /\ pc[t] \in {"spinWrite", "putWrite", "flagWrite"} => c[t] \in Char
    /\ pc[t] \in {"putWrite", "flagWrite"} => i[Tx(t)] = 0
    /\ pc[t] = "flagWrite" => x[Tx(t)] = c[t]

IInv == TypeOK /\ FlagTellsTheDifference /\ ReaderHolds /\ WriterHolds /\ GuardedCallsDoNotWait

===============================================================================
