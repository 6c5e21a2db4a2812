---------------------------- MODULE XStreamsProofs ----------------------------
(***************************************************************************)
(* The streams between the two tasks implement two channels, for every set *)
(* of characters and every length of the exchange.                         *)
(***************************************************************************)
EXTENDS XStreams, SequenceTheorems, TLAPS

\* A task reads one buffer and writes the other, and the tasks are crossed.
LEMMA Wiring ==
  /\ \A t \in Thread : Rx(t) \in Buffer /\ Tx(t) \in Buffer /\ Rx(t) # Tx(t)
  /\ \A t, u \in Thread : t # u => Rx(t) = Tx(u) /\ Tx(t) = Rx(u)
  /\ \A b \in Buffer : \E t \in Thread : b = Rx(t)
BY DEF Thread, Buffer, Rx, Tx

\* Appending makes a different sequence.
LEMMA AppendDiffers ==
  ASSUME NEW S, NEW s \in Seq(S), NEW e \in S PROVE Append(s, e) # s
OBVIOUS

LEMMA InitEstablishes == Init => IInv
<1> SUFFICES ASSUME Init PROVE IInv
  OBVIOUS
<1>1. TypeOK
  BY DEF Init, TypeOK, Thread, Buffer, MainPc, CallPc
<1>2. FlagTellsTheDifference
  BY DEF Init, FlagTellsTheDifference
<1>3. ReaderHolds /\ WriterHolds /\ GuardedCallsDoNotWait
  BY DEF Init, ReaderHolds, WriterHolds, GuardedCallsDoNotWait, Thread
<1>4. QED BY <1>1, <1>2, <1>3 DEF IInv

\* What the invariant says of one task.
LEMMA AtTask ==
  ASSUME IInv, NEW t \in Thread
  PROVE  /\ pc[t] \in {"spinRead", "takeRead", "clearRead"} => i[Rx(t)] = 1
         /\ pc[t] = "clearRead" => ret[t] = x[Rx(t)]
         /\ pc[t] \in {"spinWrite", "putWrite", "flagWrite"} => c[t] \in Char
         /\ pc[t] \in {"putWrite", "flagWrite"} => i[Tx(t)] = 0
         /\ pc[t] = "flagWrite" => x[Tx(t)] = c[t]
         /\ i[Rx(t)] = 1 => x[Rx(t)] \in Char /\ sent[Rx(t)] = Append(rcvd[Rx(t)], x[Rx(t)])
         /\ i[Tx(t)] = 0 => sent[Tx(t)] = rcvd[Tx(t)]
         /\ i[Rx(t)] = 0 => sent[Rx(t)] = rcvd[Rx(t)]
BY Wiring DEF IInv, FlagTellsTheDifference, ReaderHolds, WriterHolds, GuardedCallsDoNotWait

\* A step of a task that touches neither x, i nor the history.
LEMMA LocalStep ==
  ASSUME IInv, NEW t \in Thread, NEW l, TypeOK',
         UNCHANGED <<x, i, sent, rcvd>>, pc' = [pc EXCEPT ![t] = l],
         \A u \in Thread \ {t} : c'[u] = c[u] /\ ret'[u] = ret[u],
         l = "spinRead" => i[Rx(t)] = 1,
         l = "takeRead" => i[Rx(t)] = 1,
         l = "clearRead" => i[Rx(t)] = 1 /\ ret'[t] = x[Rx(t)],
         l = "spinWrite" => c'[t] \in Char /\ (t = "main" => i[Tx(t)] = 0),
         l = "putWrite" => c'[t] \in Char /\ i[Tx(t)] = 0,
         l # "flagWrite"
  PROVE  IInv'
<1>1. pc \in [Thread -> MainPc \cup {"run"} \cup CallPc]
  BY DEF IInv, TypeOK
<1>2. FlagTellsTheDifference'
  BY DEF IInv, FlagTellsTheDifference
<1>3. pc'[t] = l /\ \A u \in Thread \ {t} : pc'[u] = pc[u]
  BY <1>1
<1>4. ReaderHolds'
  BY <1>3 DEF IInv, ReaderHolds
<1>5. WriterHolds'
  BY <1>3 DEF IInv, WriterHolds
<1>6. GuardedCallsDoNotWait'
  BY <1>3 DEF IInv, GuardedCallsDoNotWait, Thread
<1>7. QED BY <1>2, <1>4, <1>5, <1>6 DEF IInv


\* The types, one by one.
LEMMA TypeFacts ==
  ASSUME TypeOK
  PROVE  /\ x \in [Buffer -> Char \cup {NoChar}] /\ i \in [Buffer -> {0, 1}]
         /\ pc \in [Thread -> MainPc \cup {"run"} \cup CallPc]
         /\ c \in [Thread -> Char \cup {NoChar}] /\ ret \in [Thread -> Char \cup {NoChar}]
         /\ sent \in [Buffer -> Seq(Char)] /\ rcvd \in [Buffer -> Seq(Char)]
         /\ pc["main"] # "run" /\ pc["emu"] \notin MainPc
BY DEF TypeOK

\* Where a task may go next without leaving its own program.
LEMMA PcTyped ==
  ASSUME TypeOK, NEW t \in Thread, NEW l, pc' = [pc EXCEPT ![t] = l],
         l \in CallPc \/ (IF t = "main" THEN l \in MainPc ELSE l = "run")
  PROVE  /\ pc' \in [Thread -> MainPc \cup {"run"} \cup CallPc]
         /\ pc'["main"] # "run" /\ pc'["emu"] \notin MainPc
BY TypeFacts DEF Thread, MainPc, CallPc

LEMMA LocalSteps ==
  ASSUME IInv, NEW t \in Thread,
         SpinRead(t) \/ TakeRead(t) \/ SpinWrite(t)
  PROVE  IInv' /\ UNCHANGED <<sent, rcvd>>
<1>1. TypeOK
  BY DEF IInv
<1>2. CASE SpinRead(t)
  <2>1. /\ pc' = [pc EXCEPT ![t] = "takeRead"] /\ i[Rx(t)] = 1
        /\ UNCHANGED <<x, i, c, ret, sent, rcvd>>
    BY <1>2 DEF SpinRead, Goto
  <2>2. TypeOK'
    BY <1>1, <2>1, PcTyped DEF TypeOK, CallPc
  <2>3. QED BY <2>1, <2>2, LocalStep
<1>3. CASE TakeRead(t)
  <2>1. /\ pc' = [pc EXCEPT ![t] = "clearRead"] /\ pc[t] = "takeRead"
        /\ ret' = [ret EXCEPT ![t] = x[Rx(t)]] /\ UNCHANGED <<x, i, c, sent, rcvd>>
    BY <1>3 DEF TakeRead, Goto
  <2>2. i[Rx(t)] = 1
    BY <2>1, AtTask
  <2>3. ret' \in [Thread -> Char \cup {NoChar}] /\ ret'[t] = x[Rx(t)]
        /\ \A u \in Thread \ {t} : ret'[u] = ret[u]
    BY <1>1, <2>1, TypeFacts, Wiring
  <2>4. TypeOK'
    BY <1>1, <2>1, <2>3, PcTyped DEF TypeOK, CallPc
  <2>5. QED BY <2>1, <2>2, <2>3, <2>4, LocalStep
<1>4. CASE SpinWrite(t)
  <2>1. /\ pc' = [pc EXCEPT ![t] = "putWrite"] /\ i[Tx(t)] = 0 /\ pc[t] = "spinWrite"
        /\ UNCHANGED <<x, i, c, ret, sent, rcvd>>
    BY <1>4 DEF SpinWrite, Goto
  <2>2. TypeOK'
    BY <1>1, <2>1, PcTyped DEF TypeOK, CallPc
  <2>3. c[t] \in Char
    BY <2>1, AtTask
  <2>4. QED BY <2>1, <2>2, <2>3, LocalStep
<1>5. QED BY <1>2, <1>3, <1>4

\* x = c touches a buffer nobody reads, for its flag is down.
LEMMA PutWriteStep ==
  ASSUME IInv, NEW t \in Thread, PutWrite(t)
  PROVE  IInv' /\ UNCHANGED <<sent, rcvd>>
<1>1. /\ pc' = [pc EXCEPT ![t] = "flagWrite"] /\ pc[t] = "putWrite"
      /\ x' = [x EXCEPT ![Tx(t)] = c[t]] /\ UNCHANGED <<i, c, ret, sent, rcvd>>
  BY DEF PutWrite, Goto
<1>2. TypeOK
  BY DEF IInv
<1>3. c[t] \in Char /\ i[Tx(t)] = 0
  BY <1>1, AtTask
<1>4. /\ x' \in [Buffer -> Char \cup {NoChar}] /\ x'[Tx(t)] = c[t]
      /\ \A b \in Buffer \ {Tx(t)} : x'[b] = x[b]
  BY <1>1, <1>2, <1>3, TypeFacts, Wiring
<1>5. pc'[t] = "flagWrite" /\ \A u \in Thread \ {t} : pc'[u] = pc[u]
  BY <1>1, <1>2, TypeFacts
<1>6. TypeOK'
  BY <1>1, <1>2, <1>4, PcTyped DEF TypeOK, CallPc
<1>7. FlagTellsTheDifference'
  BY <1>1, <1>3, <1>4 DEF IInv, FlagTellsTheDifference
<1>8. ReaderHolds'
  <2>1. SUFFICES ASSUME NEW u \in Thread, u # t
                 PROVE  /\ pc[u] \in {"takeRead", "clearRead"} => i[Rx(u)] = 1
                        /\ pc[u] = "clearRead" => ret[u] = x'[Rx(u)]
    BY <1>1, <1>5 DEF ReaderHolds
  <2>2. Rx(u) = Tx(t)
    BY <2>1, Wiring
  <2>3. QED BY <1>3, <2>2, AtTask
<1>9. WriterHolds'
  <2>1. \A u \in Thread \ {t} : Tx(u) # Tx(t) /\ Tx(u) \in Buffer
    BY Wiring
  <2>2. QED BY <1>1, <1>3, <1>4, <1>5, <2>1 DEF IInv, WriterHolds
<1>10. GuardedCallsDoNotWait'
  BY <1>1, <1>5 DEF IInv, GuardedCallsDoNotWait, Thread
<1>11. QED BY <1>1, <1>6, <1>7, <1>8, <1>9, <1>10 DEF IInv

\* i = 1 hands the character over.
LEMMA FlagWriteStep ==
  ASSUME IInv, NEW t \in Thread, FlagWrite(t)
  PROVE  IInv' /\ Ch!Send(Tx(t), c[t]) /\ c[t] \in Char
<1>1. /\ pc' = [pc EXCEPT ![t] = IF t = "main" THEN "checkRx" ELSE "run"]
      /\ pc[t] = "flagWrite" /\ i' = [i EXCEPT ![Tx(t)] = 1]
      /\ sent' = [sent EXCEPT ![Tx(t)] = Append(@, c[t])]
      /\ c' = [c EXCEPT ![t] = NoChar] /\ UNCHANGED <<x, ret, rcvd>>
  BY DEF FlagWrite, Goto
<1>2. TypeOK
  BY DEF IInv
<1>3. /\ c[t] \in Char /\ i[Tx(t)] = 0 /\ x[Tx(t)] = c[t]
      /\ sent[Tx(t)] = rcvd[Tx(t)] /\ Tx(t) \in Buffer
  BY <1>1, AtTask, Wiring
<1>4. sent' \in [Buffer -> Seq(Char)]
  <2>1. Append(sent[Tx(t)], c[t]) \in Seq(Char)
    BY <1>2, <1>3, TypeFacts
  <2>2. QED BY <1>1, <1>2, <1>3, <2>1, TypeFacts
<1>5. /\ sent'[Tx(t)] = Append(rcvd[Tx(t)], x[Tx(t)])
      /\ i'[Tx(t)] = 1
      /\ \A b \in Buffer \ {Tx(t)} : sent'[b] = sent[b] /\ i'[b] = i[b]
  BY <1>1, <1>2, <1>3, TypeFacts
<1>6. \A u \in Thread \ {t} : pc'[u] = pc[u] /\ c'[u] = c[u]
  BY <1>1, <1>2, TypeFacts
<1>7. pc'[t] \notin CallPc
  BY <1>1, <1>2, TypeFacts DEF CallPc
<1>8. TypeOK'
  <2>1. i' \in [Buffer -> {0, 1}]
    BY <1>1, <1>2, TypeFacts
  <2>2. c' \in [Thread -> Char \cup {NoChar}]
    BY <1>1, <1>2, TypeFacts
  <2>3. QED BY <1>1, <1>2, <1>4, <2>1, <2>2, PcTyped DEF TypeOK, MainPc
<1>9. FlagTellsTheDifference'
  BY <1>1, <1>3, <1>5 DEF IInv, FlagTellsTheDifference
<1>10. ReaderHolds' /\ GuardedCallsDoNotWait'
  <2>1. \A u \in Thread \ {t} : Rx(u) = Tx(t) /\ Tx(u) # Tx(t) /\ Tx(u) \in Buffer
    BY Wiring
  <2>2. \A u \in Thread : pc'[u] \in CallPc => u # t
    BY <1>7
  <2>3. ReaderHolds'
    BY <1>1, <1>5, <1>6, <2>1, <2>2 DEF IInv, ReaderHolds, CallPc
  <2>4. \A u \in Thread : pc'[u] = "spinRead" => i'[Rx(u)] = 1
    BY <1>5, <2>1, <2>2 DEF CallPc
  <2>5. pc'["main"] = "spinWrite" => i'[Tx("main")] = 0
    <3>1. SUFFICES ASSUME pc'["main"] = "spinWrite" PROVE i'[Tx("main")] = 0
      OBVIOUS
    <3>2. "main" \in Thread \ {t}
      BY <2>2, <3>1 DEF CallPc, Thread
    <3>3. pc["main"] = "spinWrite"
      BY <1>6, <3>1, <3>2
    <3>4. i[Tx("main")] = 0
      BY <3>3 DEF IInv, GuardedCallsDoNotWait
    <3>5. QED BY <1>5, <2>1, <3>2, <3>4
  <2>6. QED BY <2>3, <2>4, <2>5 DEF GuardedCallsDoNotWait
<1>11. WriterHolds'
  <2>1. \A u \in Thread \ {t} : Tx(u) # Tx(t) /\ Tx(u) \in Buffer
    BY Wiring
  <2>2. \A u \in Thread : pc'[u] \in CallPc => u # t
    BY <1>7
  <2>3. QED BY <1>1, <1>5, <1>6, <2>1, <2>2 DEF IInv, WriterHolds, CallPc
<1>12. Ch!Send(Tx(t), c[t])
  BY <1>1, <1>3 DEF Ch!Send
<1>13. QED BY <1>3, <1>8, <1>9, <1>10, <1>11, <1>12 DEF IInv

\* i = 0 gives the buffer back: the character just taken has been received.
LEMMA ClearReadStep ==
  ASSUME IInv, NEW t \in Thread, ClearRead(t)
  PROVE  IInv' /\ Ch!Receive(Rx(t))
<1>1. /\ pc' = [pc EXCEPT ![t] = IF t = "main" THEN "checkTx" ELSE "run"]
      /\ pc[t] = "clearRead" /\ i' = [i EXCEPT ![Rx(t)] = 0]
      /\ rcvd' = [rcvd EXCEPT ![Rx(t)] = Append(@, ret[t])]
      /\ ret' = [ret EXCEPT ![t] = NoChar] /\ UNCHANGED <<x, c, sent>>
  BY DEF ClearRead, Goto
<1>2. TypeOK
  BY DEF IInv
<1>3. /\ i[Rx(t)] = 1 /\ ret[t] = x[Rx(t)] /\ x[Rx(t)] \in Char /\ Rx(t) \in Buffer
      /\ sent[Rx(t)] = Append(rcvd[Rx(t)], x[Rx(t)])
  BY <1>1, AtTask, Wiring
<1>4. rcvd' \in [Buffer -> Seq(Char)] /\ rcvd' = [rcvd EXCEPT ![Rx(t)] = sent[Rx(t)]]
  BY <1>1, <1>2, <1>3, TypeFacts
<1>5. /\ rcvd'[Rx(t)] = sent[Rx(t)] /\ i'[Rx(t)] = 0
      /\ \A b \in Buffer \ {Rx(t)} : rcvd'[b] = rcvd[b] /\ i'[b] = i[b]
  BY <1>1, <1>2, <1>3, <1>4, TypeFacts
<1>6. \A u \in Thread \ {t} : pc'[u] = pc[u] /\ ret'[u] = ret[u]
  BY <1>1, <1>2, TypeFacts
<1>7. pc'[t] \notin CallPc
  BY <1>1, <1>2, TypeFacts DEF CallPc
<1>8. TypeOK'
  <2>1. i' \in [Buffer -> {0, 1}]
    BY <1>1, <1>2, TypeFacts
  <2>2. ret' \in [Thread -> Char \cup {NoChar}]
    BY <1>1, <1>2, TypeFacts
  <2>3. QED BY <1>1, <1>2, <1>4, <2>1, <2>2, PcTyped DEF TypeOK, MainPc
<1>9. FlagTellsTheDifference'
  <2>1. SUFFICES ASSUME NEW b \in Buffer
                 PROVE  /\ i'[b] = 0 => sent[b] = rcvd'[b]
                        /\ i'[b] = 1 => x[b] \in Char /\ sent[b] = Append(rcvd'[b], x[b])
    BY <1>1 DEF FlagTellsTheDifference
  <2>2. CASE b = Rx(t)
    BY <1>5, <2>2
  <2>3. CASE b # Rx(t)
    BY <1>5, <2>3 DEF IInv, FlagTellsTheDifference
  <2>4. QED BY <2>2, <2>3
<1>10. \A u \in Thread : pc'[u] \in CallPc => u # t
  BY <1>7
<1>11. \A u \in Thread \ {t} : Rx(u) # Rx(t) /\ Rx(u) \in Buffer /\ Tx(u) = Rx(t)
  BY Wiring
<1>12. ReaderHolds'
  BY <1>1, <1>5, <1>6, <1>10, <1>11 DEF IInv, ReaderHolds, CallPc
<1>13. WriterHolds'
  BY <1>1, <1>5, <1>6, <1>10, <1>11 DEF IInv, WriterHolds, CallPc
<1>14. GuardedCallsDoNotWait'
  <2>1. \A u \in Thread : pc'[u] = "spinRead" => i'[Rx(u)] = 1
    BY <1>5, <1>6, <1>10, <1>11 DEF IInv, GuardedCallsDoNotWait, CallPc
  <2>2. ASSUME pc'["main"] = "spinWrite" PROVE i'[Tx("main")] = 0
    <3>1. "main" \in Thread \ {t}
      BY <1>10, <2>2 DEF CallPc, Thread
    <3>2. QED BY <1>5, <1>11, <3>1
  <2>3. QED BY <2>1, <2>2 DEF GuardedCallsDoNotWait
<1>15. Ch!Receive(Rx(t))
  <2>1. sent[Rx(t)] # rcvd[Rx(t)]
    <3>1. rcvd[Rx(t)] \in Seq(Char)
      BY <1>2, <1>3, TypeFacts
    <3>2. QED BY <1>3, <3>1, AppendDiffers
  <2>2. QED BY <1>1, <1>4, <2>1 DEF Ch!Receive
<1>16. QED BY <1>8, <1>9, <1>12, <1>13, <1>14, <1>15 DEF IInv

\* The decisions of the two tasks.
LEMMA DecisionSteps ==
  ASSUME IInv,
         \/ MainChecksRx \/ MainHasNone \/ EmuKbhit
         \/ \E k \in Char : MainHasKey(k) \/ EmuPutch(k)
  PROVE  IInv' /\ UNCHANGED <<sent, rcvd>>
<1>1. TypeOK /\ "main" \in Thread /\ "emu" \in Thread
  BY DEF IInv, Thread
<1>2. CASE MainChecksRx
  <2> DEFINE l == IF i[Rx("main")] = 1 THEN "spinRead" ELSE "checkTx"
  <2>1. pc' = [pc EXCEPT !["main"] = l] /\ UNCHANGED <<x, i, c, ret, sent, rcvd>>
    BY <1>2 DEF MainChecksRx, Goto
  <2>2. l \in CallPc \cup MainPc /\ (l = "spinRead" => i[Rx("main")] = 1)
        /\ l \in {"spinRead", "checkTx"}
    BY DEF CallPc, MainPc
  <2> HIDE DEF l
  <2>3. TypeOK'
    BY <1>1, <2>1, <2>2, PcTyped DEF TypeOK
  <2>4. QED BY <1>1, <2>1, <2>2, <2>3, LocalStep
<1>3. CASE MainHasNone
  <2>1. pc' = [pc EXCEPT !["main"] = "checkRx"] /\ UNCHANGED <<x, i, c, ret, sent, rcvd>>
    BY <1>3 DEF MainHasNone, Goto
  <2>2. TypeOK'
    BY <1>1, <2>1, PcTyped DEF TypeOK, MainPc
  <2>3. QED BY <1>1, <2>1, <2>2, LocalStep
<1>4. CASE EmuKbhit
  <2>1. /\ pc' = [pc EXCEPT !["emu"] = "spinRead"] /\ i[Rx("emu")] = 1
        /\ UNCHANGED <<x, i, c, ret, sent, rcvd>>
    BY <1>4 DEF EmuKbhit, Goto
  <2>2. TypeOK'
    BY <1>1, <2>1, PcTyped DEF TypeOK, CallPc
  <2>3. QED BY <1>1, <2>1, <2>2, LocalStep
<1>5. ASSUME NEW k \in Char, MainHasKey(k) PROVE IInv' /\ UNCHANGED <<sent, rcvd>>
  <2>1. /\ pc' = [pc EXCEPT !["main"] = "spinWrite"] /\ i[Tx("main")] = 0
        /\ c' = [c EXCEPT !["main"] = k] /\ UNCHANGED <<x, i, ret, sent, rcvd>>
    BY <1>5 DEF MainHasKey, Goto
  <2>2. /\ c' \in [Thread -> Char \cup {NoChar}] /\ c'["main"] \in Char
        /\ \A u \in Thread \ {"main"} : c'[u] = c[u]
    BY <1>1, <2>1, TypeFacts
  <2>3. TypeOK'
    BY <1>1, <2>1, <2>2, PcTyped DEF TypeOK, CallPc
  <2>4. QED BY <1>1, <2>1, <2>2, <2>3, LocalStep
<1>6. ASSUME NEW k \in Char, EmuPutch(k) PROVE IInv' /\ UNCHANGED <<sent, rcvd>>
  <2>1. /\ pc' = [pc EXCEPT !["emu"] = "spinWrite"]
        /\ c' = [c EXCEPT !["emu"] = k] /\ UNCHANGED <<x, i, ret, sent, rcvd>>
    BY <1>6 DEF EmuPutch, Goto
  <2>2. /\ c' \in [Thread -> Char \cup {NoChar}] /\ c'["emu"] \in Char
        /\ \A u \in Thread \ {"emu"} : c'[u] = c[u]
    BY <1>1, <2>1, TypeFacts
  <2>3. TypeOK'
    BY <1>1, <2>1, <2>2, PcTyped DEF TypeOK, CallPc
  <2>4. QED BY <1>1, <2>1, <2>2, <2>3, LocalStep
<1>7. QED BY <1>2, <1>3, <1>4, <1>5, <1>6

\* Every step keeps the invariant and is a step of the channels, or none of theirs.
LEMMA NextKeeps == IInv /\ [Next]_vars => IInv' /\ [Ch!Next]_(Ch!vars)
<1> SUFFICES ASSUME IInv, [Next]_vars PROVE IInv' /\ [Ch!Next]_(Ch!vars)
  OBVIOUS
<1>1. ASSUME NEW t \in Thread, Call(t) PROVE IInv' /\ [Ch!Next]_(Ch!vars)
  <2>1. CASE SpinRead(t) \/ TakeRead(t) \/ SpinWrite(t)
    BY <2>1, LocalSteps DEF Ch!vars
  <2>2. CASE PutWrite(t)
    BY <2>2, PutWriteStep DEF Ch!vars
  <2>3. CASE FlagWrite(t)
    BY <2>3, FlagWriteStep, Wiring DEF Ch!Next
  <2>4. CASE ClearRead(t)
    BY <2>4, ClearReadStep, Wiring DEF Ch!Next
  <2>5. QED BY <1>1, <2>1, <2>2, <2>3, <2>4 DEF Call
<1>2. CASE \/ MainChecksRx \/ MainHasNone \/ EmuKbhit
           \/ \E k \in Char : MainHasKey(k) \/ EmuPutch(k)
  BY <1>2, DecisionSteps DEF Ch!vars
<1>3. CASE UNCHANGED vars
  <2>1. UNCHANGED <<x, i, pc, c, ret, sent, rcvd>>
    BY <1>3 DEF vars
  <2>2. IInv'
    BY <2>1 DEF IInv, TypeOK, FlagTellsTheDifference, ReaderHolds, WriterHolds,
                GuardedCallsDoNotWait
  <2>3. QED BY <2>1, <2>2 DEF Ch!vars
<1>4. "main" \in Thread /\ "emu" \in Thread
  BY DEF Thread
<1>5. QED BY <1>1, <1>2, <1>3, <1>4 DEF Next, Main, Emu

\* The inductive invariant holds.
THEOREM InvariantHolds == Spec => []IInv
BY InitEstablishes, NextKeeps, PTL DEF Spec

\* The streams implement the two channels: no interleaving of the two cores loses,
\* duplicates or reorders a character, or lets one be read before it is complete.
THEOREM ChannelsKeptHolds == Spec => ChannelsKept
<1>1. Init => Ch!Init
  BY DEF Init, Ch!Init
<1>2. QED BY <1>1, InvariantHolds, NextKeeps, PTL DEF Spec, ChannelsKept, Ch!Spec

\* A task that has asked first finds what it saw: its call never waits.
THEOREM GuardedCallsDoNotWaitHolds == Spec => []GuardedCallsDoNotWait
<1>1. IInv => GuardedCallsDoNotWait
  BY DEF IInv
<1>2. QED BY <1>1, InvariantHolds, PTL

===============================================================================
