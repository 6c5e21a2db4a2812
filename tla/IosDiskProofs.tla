---------------------------- MODULE IosDiskProofs -----------------------------
(***************************************************************************)
(* Theorems about the disk engine, for every card, every geometry and      *)
(* every program: see the README for the argument.                         *)
(***************************************************************************)
EXTENDS IosDisk, TLAPS

-------------------------------------------------------------------------------
(* % and \div by an arbitrary positive number, which the SMT solver has for   *)
(* literal divisors only.                                                     *)

\* A number has one quotient and one remainder.
LEMMA DivisionIsUnique ==
  ASSUME NEW S \in Nat \ {0}, NEW a \in Nat, NEW b \in Nat,
         NEW r \in 0..(S - 1), NEW s \in 0..(S - 1), S * a + r = S * b + s
  PROVE  a = b /\ r = s
<1>1. ASSUME NEW x \in Nat, NEW y \in Nat, NEW u \in 0..(S - 1), NEW v \in 0..(S - 1),
             S * x + u = S * y + v, x < y
      PROVE  FALSE
  <2>1. PICK d \in Nat : y = x + 1 + d
    <3>1. y - x - 1 \in Nat /\ y = x + 1 + (y - x - 1)
      BY <1>1
    <3>2. QED BY <3>1
  <2>2. S * y = S * x + S + S * d
    BY <2>1
  <2>3. S * d >= 0 /\ S * d \in Int /\ S * x \in Int
    OBVIOUS
  <2>4. QED BY <1>1, <2>2, <2>3
<1>2. ~(a < b) /\ ~(b < a)
  BY <1>1
<1>3. a = b
  BY <1>2
<1>4. QED BY <1>3

\* What % and \div mean.
LEMMA DivisionHolds ==
  ASSUME NEW S \in Nat \ {0}, NEW c \in Nat
  PROVE  c % S \in 0..(S - 1) /\ c \div S \in Nat /\ c = S * (c \div S) + (c % S)
OBVIOUS

\* How to compute a remainder: exhibit the quotient.
LEMMA RemainderIs ==
  ASSUME NEW S \in Nat \ {0}, NEW c \in Nat, NEW q \in Nat, NEW r \in 0..(S - 1),
         c = S * q + r
  PROVE  c % S = r
<1> DEFINE a == c \div S
           u == c % S
<1>1. u \in 0..(S - 1) /\ a \in Nat /\ c = S * a + u
  BY DivisionHolds
<1>2. S * a + u = S * q + r
  BY <1>1
<1> HIDE DEF a, u
<1>3. u = r
  BY <1>1, <1>2, DivisionIsUnique
<1>4. QED BY <1>3 DEF u

\* The place in the segment moves up by one, and wraps at the segment's end.
LEMMA NextInSegment ==
  ASSUME NEW S \in Nat \ {0}, NEW c \in Nat
  PROVE  (c + 1) % S = IF c % S = S - 1 THEN 0 ELSE (c % S) + 1
<1>1. c % S \in 0..(S - 1) /\ c \div S \in Nat /\ c = S * (c \div S) + (c % S)
  BY DivisionHolds
<1>2. c + 1 \in Nat
  OBVIOUS
<1>3. CASE c % S = S - 1
  <2>1. c + 1 = S * ((c \div S) + 1) + 0
    BY <1>1, <1>3
  <2>2. 0 \in 0..(S - 1) /\ (c \div S) + 1 \in Nat
    BY <1>1
  <2>3. (c + 1) % S = 0
    BY <1>2, <2>1, <2>2, RemainderIs
  <2>4. QED BY <1>3, <2>3
<1>4. CASE c % S # S - 1
  <2>1. c + 1 = S * (c \div S) + ((c % S) + 1)
    BY <1>1
  <2>2. (c % S) + 1 \in 0..(S - 1)
    BY <1>1, <1>4
  <2>3. (c + 1) % S = (c % S) + 1
    BY <1>1, <1>2, <2>1, <2>2, RemainderIs
  <2>4. QED BY <1>4, <2>3
<1>5. QED BY <1>3, <1>4

-------------------------------------------------------------------------------
(* Counting bytes: ioByteCnt % SegLen as ioByteCnt goes up. *)

\* A sector ends where its last segment does.
LEMMA SectorEndsASegment == (SectLen - 1) % SegLen = SegLen - 1
<1>0. /\ SegLen \in Nat \ {0} /\ SectLen \in Nat \ {0} /\ SectLen % SegLen = 0
  BY SdFileAssumption, IosDiskAssumption
<1>1. SectLen = SegLen * (SectLen \div SegLen) + 0 /\ SectLen \div SegLen \in Nat
  BY <1>0, DivisionHolds
<1>2. SectLen \div SegLen # 0
  BY <1>0, <1>1
<1> DEFINE c == SectLen - 1
<1>3. c \in Nat /\ c + 1 = SectLen
  BY <1>0
<1>4. c % SegLen \in 0..(SegLen - 1)
  BY <1>0, <1>3, DivisionHolds
<1>5. (c + 1) % SegLen = IF c % SegLen = SegLen - 1 THEN 0 ELSE (c % SegLen) + 1
  BY <1>0, <1>3, NextInSegment
<1>6. QED BY <1>0, <1>3, <1>4, <1>5

-------------------------------------------------------------------------------
(* What the pieces of a step preserve. *)

\* The types a step reads, each as a fact of its own.
LEMMA TypeFacts ==
  ASSUME TypeOK
  PROVE  /\ SegLen \in Nat \ {0} /\ SegLen > 1 /\ SegLen < 255 /\ Capacity \in Nat
         /\ SectLen \in Nat \ {0} /\ CountBound \in Nat /\ SectLen <= CountBound
         /\ GuestByte \subseteq Byte /\ Payload \subseteq Byte /\ GuestOpcode \subseteq Byte
         /\ ioByteCnt \in Nat /\ ioByteCnt <= CountBound
         /\ files \in [Slot -> Image \cup {NoFile}]
         /\ stream \in [Slot -> Stream]
         /\ fhandle \in Slot \cup {NoHandle}
         /\ size \in [Image -> 0..Capacity]
         /\ data \in [Image -> Bytes]
         /\ saved \in [Image -> [len : 0..Capacity, bytes : Bytes]]
         /\ bufferSD \in [0..(SegLen - 1) -> Byte]
<1>1. SegLen \in Nat \ {0} /\ SegLen > 1 /\ SegLen < 255 /\ Capacity \in Nat
  BY SdFileAssumption
<1>2. /\ SectLen \in Nat \ {0} /\ CountBound \in Nat /\ SectLen <= CountBound
      /\ GuestByte \subseteq Byte /\ Payload \subseteq Byte /\ GuestOpcode \subseteq Byte
  BY IosDiskAssumption
<1>3. ioByteCnt \in 0..CountBound
  BY DEF TypeOK
<1>4. ioByteCnt \in Nat /\ ioByteCnt <= CountBound
  BY <1>2, <1>3
<1>5. SdTypeOK
  BY DEF TypeOK
<1>6. /\ files \in [Slot -> Image \cup {NoFile}]
      /\ fhandle \in Slot \cup {NoHandle}
  BY <1>5 DEF SdTypeOK
<1>7. stream \in [Slot -> Stream]
  BY <1>5 DEF SdTypeOK
<1>8. size \in [Image -> 0..Capacity]
  BY <1>5 DEF SdTypeOK
<1>9. /\ data \in [Image -> Bytes]
      /\ saved \in [Image -> [len : 0..Capacity, bytes : Bytes]]
  BY <1>5 DEF SdTypeOK
<1>10. bufferSD \in [0..(SegLen - 1) -> Byte]
  BY <1>5 DEF SdTypeOK
<1>11. QED BY <1>1, <1>2, <1>4, <1>6, <1>7, <1>8, <1>9, <1>10

LEMMA OpenFacts ==
  ASSUME TypeOK, IsOpen
  PROVE  fhandle \in Slot /\ Current \in Image /\ stream[fhandle] \in Stream
<1>1. fhandle \in Slot /\ Current \in Image
  BY TypeFacts DEF IsOpen, Current
<1>2. QED BY <1>1, TypeFacts

LEMMA SectStartIsNat == ASSUME TypeOK PROVE SectStart \in Nat
<1>1. trackSel \in Nat /\ sectSel \in Nat /\ MaxSect \in Nat /\ SectLen \in Nat
  BY IosDiskAssumption DEF TypeOK, Byte, Word
<1>2. trackSel * MaxSect \in Nat
  BY <1>1
<1>3. (trackSel * MaxSect + sectSel) * SectLen \in Nat
  BY <1>1, <1>2
<1>4. QED BY <1>3 DEF SectStart

\* The sector's offset depends on the selection only.
LEMMA SectStartIsKept ==
  ASSUME UNCHANGED <<trackSel, sectSel>>
  PROVE  SectStart' = SectStart /\ AddressValid' = AddressValid
BY DEF SectStart, AddressValid

LEMMA BumpIsACount ==
  ASSUME TypeOK
  PROVE  /\ Bump \in 0..CountBound
         /\ ioByteCnt < SectLen => Bump = ioByteCnt + 1
BY IosDiskAssumption DEF TypeOK, Bump

LEMMA InSegRange == ASSUME TypeOK PROVE InSeg \in 0..(SegLen - 1)
<1>1. SegLen \in Nat \ {0} /\ ioByteCnt \in Nat
  BY TypeFacts
<1>2. QED BY <1>1, DivisionHolds DEF InSeg

\* What writing a stream out, whole or in part, makes of the images.
LEMMA WriteOutKeeps ==
  ASSUME SdTypeOK, IsOpen, NEW end \in Nat, WriteOut(end)
  PROVE  /\ size' \in [Image -> 0..Capacity]
         /\ data' \in [Image -> Bytes]
         /\ saved' \in [Image -> [len : 0..Capacity, bytes : Bytes]]
         /\ \A f \in Image : \A i \in 0..(Capacity - 1) :
              data'[f][i] # data[f][i] =>
                f = Current /\ i \in end..(stream[fhandle].pos - 1)
                  /\ data'[f][i] = saved[f].bytes[i]
         /\ \A f \in Image :
              /\ size'[f] = size[f] \/ size'[f] >= saved[f].len
              /\ saved'[f].len \in {saved[f].len, size'[f]}
         /\ end = stream[fhandle].pos => UNCHANGED <<size, data>>
<1>1. fhandle \in Slot /\ Current \in Image /\ stream[fhandle].pos \in Nat /\ Capacity \in Nat
  BY SdFileAssumption DEF SdTypeOK, IsOpen, Current, Stream
<1> DEFINE lost  == end..(stream[fhandle].pos - 1)
           cut   == IF end < size[Current] THEN end ELSE size[Current]
           was   == saved[Current]
           bytes == [i \in 0..(Capacity - 1) |-> IF i \in lost THEN was.bytes[i]
                                                ELSE data[Current][i]]
           len   == IF lost = {} THEN size[Current] ELSE IF cut > was.len THEN cut ELSE was.len
<1>2. /\ data' = [data EXCEPT ![Current] = bytes]
      /\ size' = [size EXCEPT ![Current] = len]
      /\ saved' = [saved EXCEPT ![Current] = [len |-> size'[Current], bytes |-> data'[Current]]]
  BY DEF WriteOut
<1>3. /\ data \in [Image -> Bytes] /\ size \in [Image -> 0..Capacity]
      /\ saved \in [Image -> [len : 0..Capacity, bytes : Bytes]]
      /\ was.bytes \in Bytes /\ was.len \in 0..Capacity /\ data[Current] \in Bytes
      /\ size[Current] \in 0..Capacity
  BY <1>1 DEF SdTypeOK
<1>4. bytes \in Bytes
  BY <1>3 DEF Bytes
<1>5. len \in 0..Capacity /\ (len = size[Current] \/ len >= was.len)
  BY <1>1, <1>3
<1>6. \A i \in 0..(Capacity - 1) :
        bytes[i] # data[Current][i] => i \in lost /\ bytes[i] = was.bytes[i]
  OBVIOUS
<1>7. end = stream[fhandle].pos => bytes = data[Current] /\ len = size[Current]
  <2>1. SUFFICES ASSUME end = stream[fhandle].pos PROVE bytes = data[Current] /\ lost = {}
    OBVIOUS
  <2>2. lost = {}
    BY <1>1, <2>1
  <2>3. data[Current] = [i \in 0..(Capacity - 1) |-> data[Current][i]]
    BY <1>3 DEF Bytes
  <2>4. bytes = [i \in 0..(Capacity - 1) |-> data[Current][i]]
    BY <2>2
  <2>5. QED BY <2>2, <2>3, <2>4
<1> HIDE DEF bytes, len
<1>8. /\ data' \in [Image -> Bytes] /\ data'[Current] = bytes
      /\ \A f \in Image : f # Current => data'[f] = data[f]
  BY <1>1, <1>2, <1>3, <1>4
<1>9. /\ size' \in [Image -> 0..Capacity] /\ size'[Current] = len
      /\ \A f \in Image : f # Current => size'[f] = size[f]
  BY <1>1, <1>2, <1>3, <1>5
<1>10. /\ saved' \in [Image -> [len : 0..Capacity, bytes : Bytes]]
       /\ saved'[Current] = [len |-> len, bytes |-> bytes]
       /\ \A f \in Image : f # Current => saved'[f] = saved[f]
  BY <1>1, <1>2, <1>3, <1>4, <1>5, <1>8, <1>9
<1>11. end = stream[fhandle].pos => UNCHANGED <<size, data>>
  BY <1>2, <1>3, <1>7
<1>12. \A f \in Image : \A i \in 0..(Capacity - 1) :
         data'[f][i] # data[f][i] =>
           f = Current /\ i \in lost /\ data'[f][i] = saved[f].bytes[i]
  BY <1>6, <1>8
<1>13. \A f \in Image : /\ size'[f] = size[f] \/ size'[f] >= saved[f].len
                       /\ saved'[f].len \in {saved[f].len, size'[f]}
  BY <1>5, <1>9, <1>10
<1>14. QED BY <1>8, <1>9, <1>10, <1>11, <1>12, <1>13

\* A stream reaches the card up to a position of it.
LEMMA ReachedAreOffsets ==
  ASSUME SdTypeOK, IsOpen, NEW end \in Reached
  PROVE  /\ end \in Nat /\ stream[fhandle].pos \in Nat /\ stream[fhandle].from \in Nat
         /\ end # stream[fhandle].pos => MediaFaults
         /\ end..(stream[fhandle].pos - 1) \subseteq Unsaved
<1>1. stream[fhandle].pos \in Nat /\ stream[fhandle].from \in Nat
  BY DEF SdTypeOK, IsOpen, Stream
<1>2. QED BY <1>1 DEF Reached, Unsaved

\* The streams a transfer byte may find, once the seek, if there is one, is over.
LEMMA StreamBeforeIsAStream ==
  ASSUME TypeOK, IsOpen, NEW st \in StreamBefore
  PROVE  /\ st \in Stream
         /\ ~Seeks => st = stream[fhandle]
         /\ Seeks => \/ st = At(SectStart)
                     \/ /\ st.astray /\ MediaFaults /\ st.pos \in Reached
                        /\ st.io = stream[fhandle].io /\ st.from = st.pos
<1>1. At(SectStart) \in Stream
  BY SectStartIsNat DEF At, Stream, Direction
<1>2. stream[fhandle] \in Stream /\ SdTypeOK
  BY OpenFacts DEF TypeOK
<1>3. CASE ~Seeks
  BY <1>2, <1>3 DEF StreamBefore
<1>4. CASE Seeks /\ st = At(SectStart)
  BY <1>1, <1>4
<1>5. CASE Seeks /\ st # At(SectStart)
  <2>1. MediaFaults /\ \E end \in Reached :
          st = [stream[fhandle] EXCEPT !.pos = end, !.from = end, !.astray = TRUE]
    BY <1>5 DEF StreamBefore, SeekSD
  <2>2. PICK end \in Reached :
          st = [stream[fhandle] EXCEPT !.pos = end, !.from = end, !.astray = TRUE]
    BY <2>1
  <2>3. end \in Nat
    BY <1>2, ReachedAreOffsets
  <2>4. st \in Stream /\ st.astray /\ st.pos = end /\ st.from = end
        /\ st.io = stream[fhandle].io
    BY <1>2, <2>1, <2>2, <2>3 DEF Stream
  <2>5. QED BY <1>5, <2>1, <2>4
<1>6. QED BY <1>3, <1>4, <1>5

\* What the seek, if there is one, makes of the images.
LEMMA ImagesBeforeKeeps ==
  ASSUME TypeOK, IsOpen, NEW st \in StreamBefore, ImagesBefore(st)
  PROVE  /\ size' \in [Image -> 0..Capacity]
         /\ data' \in [Image -> Bytes]
         /\ saved' \in [Image -> [len : 0..Capacity, bytes : Bytes]]
         /\ ~Seeks \/ ~st.astray => UNCHANGED <<size, data>>
         /\ \A f \in Image : \A i \in 0..(Capacity - 1) :
              data'[f][i] # data[f][i] =>
                /\ MediaFaults /\ Seeks /\ f = Current /\ i \in Unsaved
                /\ data'[f][i] = saved[f].bytes[i]
         /\ \A f \in Image :
              /\ size'[f] = size[f] \/ size'[f] >= saved[f].len
              /\ saved'[f].len \in {saved[f].len, size'[f]}
<1>0. SdTypeOK
  BY DEF TypeOK
<1>1. CASE ~Seeks
  <2>1. UNCHANGED <<size, data, saved>>
    BY <1>1 DEF ImagesBefore, imageVars
  <2>2. QED BY <1>1, <2>1, TypeFacts
<1>2. CASE Seeks /\ ~st.astray
  <2>1. WriteOut(stream[fhandle].pos)
    BY <1>2 DEF ImagesBefore, SoughtSD
  <2>2. stream[fhandle].pos \in Nat
    BY OpenFacts DEF Stream
  <2>3. QED BY <1>0, <1>2, <2>1, <2>2, WriteOutKeeps
<1>3. CASE Seeks /\ st.astray
  <2>1. WriteOut(st.pos)
    BY <1>3 DEF ImagesBefore, SoughtSD
  <2>2. st.pos \in Reached /\ MediaFaults
    BY <1>3, StreamBeforeIsAStream DEF At
  <2>3. st.pos \in Nat /\ st.pos..(stream[fhandle].pos - 1) \subseteq Unsaved
    BY <1>0, <2>2, ReachedAreOffsets
  <2>4. QED BY <1>0, <1>3, <2>1, <2>2, <2>3, WriteOutKeeps
<1>4. QED BY <1>1, <1>2, <1>3

\* openSD leaves at most one slot in use, the one of the handle it returns.
LEMMA OpenSDKeeps ==
  ASSUME SdTypeOK, OneFileOpen, NEW f, NEW err \in {0, NOT_OPEN}, OpenSD(f, err)
  PROVE  /\ SdTypeOK'
         /\ OneFileOpen'
         /\ err = 0 => IsOpen'
         /\ \A g \in Image : \A i \in 0..(Capacity - 1) :
              data'[g][i] # data[g][i] =>
                /\ MediaFaults /\ IsOpen /\ g = Current /\ i \in Unsaved
                /\ data'[g][i] = saved[g].bytes[i]
         /\ \A g \in Image :
              /\ size'[g] = size[g] \/ size'[g] >= saved[g].len
              /\ saved'[g].len \in {saved[g].len, size'[g]}
<1>1. NoFile \notin Image /\ 0 \in Slot /\ NoHandle \notin Slot /\ Slot \subseteq Int
  BY SdFileAssumption DEF Slot, NoHandle
<1>2. AfterClose = [s \in Slot |-> NoFile]
  BY <1>1 DEF SdTypeOK, OneFileOpen, AfterClose, IsOpen
<1>3. FreeSlots(AfterClose) = Slot
  BY <1>2 DEF FreeSlots
<1>4. Lowest(Slot) \in Slot
  <2>1. \E s \in Slot : \A t \in Slot : s <= t
    <3>1. \A t \in Slot : 0 <= t
      BY DEF Slot
    <3>2. QED BY <1>1, <3>1
  <2>2. QED BY <2>1 DEF Lowest
<1> DEFINE Images ==
             /\ size' \in [Image -> 0..Capacity]
             /\ data' \in [Image -> Bytes]
             /\ saved' \in [Image -> [len : 0..Capacity, bytes : Bytes]]
           Lost ==
             /\ \A g \in Image : \A i \in 0..(Capacity - 1) :
                  data'[g][i] # data[g][i] =>
                    /\ MediaFaults /\ IsOpen /\ g = Current /\ i \in Unsaved
                    /\ data'[g][i] = saved[g].bytes[i]
             /\ \A g \in Image :
                  /\ size'[g] = size[g] \/ size'[g] >= saved[g].len
                  /\ saved'[g].len \in {saved[g].len, size'[g]}
<1>8. Images /\ Lost
  <2>1. CASE ~IsOpen
    <3>1. UNCHANGED <<size, data, saved>>
      BY <2>1 DEF OpenSD, CloseSD, imageVars
    <3>2. QED BY <3>1 DEF SdTypeOK
  <2>2. CASE IsOpen
    <3>1. PICK end \in Reached : WriteOut(end)
      BY <2>2 DEF OpenSD, CloseSD
    <3>2. /\ end \in Nat /\ (end # stream[fhandle].pos => MediaFaults)
          /\ end..(stream[fhandle].pos - 1) \subseteq Unsaved
      BY <2>2, ReachedAreOffsets
    <3>3. Images
      BY <2>2, <3>1, <3>2, WriteOutKeeps
    <3>4. ASSUME NEW g \in Image, NEW i \in 0..(Capacity - 1), data'[g][i] # data[g][i]
          PROVE  /\ MediaFaults /\ IsOpen /\ g = Current /\ i \in Unsaved
                 /\ data'[g][i] = saved[g].bytes[i]
      BY <2>2, <3>1, <3>2, <3>4, WriteOutKeeps
    <3>5. \A g \in Image : /\ size'[g] = size[g] \/ size'[g] >= saved[g].len
                          /\ saved'[g].len \in {saved[g].len, size'[g]}
      BY <2>2, <3>1, <3>2, WriteOutKeeps
    <3>6. QED BY <3>3, <3>4, <3>5
  <2>3. QED BY <2>1, <2>2
<1>9. UNCHANGED bufferSD
  BY DEF OpenSD
<1> HIDE DEF Images, Lost
<1>5. CASE f \in Image /\ err = 0 /\ files' = [AfterClose EXCEPT ![Lowest(Slot)] = f]
           /\ stream' = [stream EXCEPT ![Lowest(Slot)] = At(0)] /\ fhandle' = Lowest(Slot)
  <2> DEFINE s == Lowest(Slot)
  <2>1. s \in Slot /\ fhandle' = s /\ f # NoFile
    BY <1>1, <1>4, <1>5
  <2>2. files' = [t \in Slot |-> IF t = s THEN f ELSE NoFile]
    BY <1>2, <1>5
  <2>3. stream' \in [Slot -> Stream]
    BY <1>5 DEF SdTypeOK, At, Stream, Direction
  <2> HIDE DEF s
  <2>4. {t \in Slot : files'[t] # NoFile} = {s}
    BY <2>1, <2>2
  <2>5. IsOpen' /\ fhandle' # NoHandle
    BY <1>1, <2>1, <2>2 DEF IsOpen
  <2>6. files' \in [Slot -> Image \cup {NoFile}]
    BY <2>2, <1>5
  <2>7. SdTypeOK'
    BY <1>8, <1>9, <2>1, <2>3, <2>6 DEF SdTypeOK, Images
  <2>8. QED BY <1>8, <2>1, <2>4, <2>5, <2>7 DEF OneFileOpen, Lost
<1>6. CASE err = NOT_OPEN /\ files' = AfterClose /\ fhandle' = NoHandle /\ UNCHANGED stream
  <2>1. OneFileOpen'
    BY <1>2, <1>6 DEF OneFileOpen
  <2>2. files' \in [Slot -> Image \cup {NoFile}] /\ err # 0
    BY <1>2, <1>6 DEF NOT_OPEN
  <2>3. SdTypeOK'
    BY <1>6, <1>8, <1>9, <2>2 DEF SdTypeOK, Images
  <2>4. QED BY <1>8, <2>1, <2>2, <2>3 DEF Lost
<1>10. QED BY <1>3, <1>5, <1>6 DEF OpenSD

\* A count readSD or writeSD returns for an open file.
LEMMA MovedIsACount ==
  ASSUME NEW limit \in Nat, NEW at \in Nat, NEW n \in Moved(Left(limit, at))
  PROVE  n \in 0..SegLen /\ (n > 0 => at + n <= limit)
BY SdFileAssumption DEF Moved, Left

\* A stream moved on by n bytes.
LEMMA AdvanceKeeps ==
  ASSUME NEW st \in Stream, NEW n \in Nat,
         NEW io \in {"read", "write"}, NEW other \in {"read", "write"}, io # other
  PROVE  LET next == Advance(st, n, io, other)
         IN  /\ next \in Stream /\ next.pos = st.pos + n /\ next.astray = st.astray
             /\ st.io \in {"none", io} => next.io = io
             /\ io = "write" => next.from = st.from
             /\ io = "read" /\ st.from = st.pos => next.from = next.pos
             /\ next.from \in {st.from, next.pos}
<1> DEFINE next == Advance(st, n, io, other)
<1>1. st.pos \in Nat /\ st.from \in Nat /\ st.io \in Direction /\ st.astray \in {FALSE, MediaFaults}
  BY DEF Stream
<1>2. st.pos + n \in Nat
  BY <1>1
<1>3. next = [pos |-> st.pos + n,
              from |-> IF io = "read" /\ st.from = st.pos THEN st.pos + n ELSE st.from,
              io |-> IF st.io \in {other, "undefined"} THEN "undefined" ELSE io,
              astray |-> st.astray]
  BY DEF Advance
<1> HIDE DEF next
<1>4. next \in Stream
  <2>1. (IF io = "read" /\ st.from = st.pos THEN st.pos + n ELSE st.from) \in Nat
    BY <1>1, <1>2
  <2>2. (IF st.io \in {other, "undefined"} THEN "undefined" ELSE io) \in Direction
    BY DEF Direction
  <2>3. QED BY <1>1, <1>2, <1>3, <2>1, <2>2 DEF Stream
<1>5. /\ next.pos = st.pos + n /\ next.astray = st.astray
      /\ st.io \in {"none", io} => next.io = io
  BY <1>3
<1>6. /\ io = "write" => next.from = st.from
      /\ io = "read" /\ st.from = st.pos => next.from = next.pos
      /\ next.from \in {st.from, next.pos}
  BY <1>3
<1>7. QED BY <1>4, <1>5, <1>6 DEF next

\* readSD on an open file: where the stream and the buffer are left.
LEMMA ReadSDKeeps ==
  ASSUME SdTypeOK, IsOpen, NEW st \in Stream, NEW n, ReadSD(st, n),
         size' \in [Image -> 0..Capacity], data' \in [Image -> Bytes],
         saved' \in [Image -> [len : 0..Capacity, bytes : Bytes]]
  PROVE  /\ SdTypeOK'
         /\ n \in 0..SegLen
         /\ n > 0 => st.pos + n <= size'[Current]
         /\ UNCHANGED <<files, fhandle>>
         /\ stream' = [stream EXCEPT ![fhandle] = Advance(st, n, "read", "write")]
         /\ stream'[fhandle] = Advance(st, n, "read", "write")
         /\ \A i \in 0..(SegLen - 1) : i < n => bufferSD'[i] = data'[Current][st.pos + i]
<1>1. fhandle \in Slot /\ Current \in Image /\ st.pos \in Nat
  BY DEF SdTypeOK, IsOpen, Current, Stream
<1>2. size'[Current] \in Nat /\ size'[Current] <= Capacity /\ Capacity \in Nat /\ SegLen \in Nat
  BY <1>1, SdFileAssumption
<1>3. n \in 0..SegLen /\ (n > 0 => st.pos + n <= size'[Current])
  <2>1. n \in Moved(Left(size'[Current], st.pos))
    BY DEF ReadSD
  <2>2. QED BY <1>1, <1>2, <2>1, MovedIsACount
<1>4. stream' = [stream EXCEPT ![fhandle] = Advance(st, n, "read", "write")]
  BY DEF ReadSD
<1>5. Advance(st, n, "read", "write") \in Stream
  BY <1>2, <1>3, AdvanceKeeps
<1>6. /\ stream' \in [Slot -> Stream] /\ stream'[fhandle] = Advance(st, n, "read", "write")
  <2>2. stream \in [Slot -> Stream]
    BY DEF SdTypeOK
  <2>3. QED BY <1>1, <1>4, <1>5, <2>2
<1>7. bufferSD' = [i \in 0..(SegLen - 1) |->
                     IF i < n THEN data'[Current][st.pos + i] ELSE bufferSD[i]]
  BY DEF ReadSD
<1>8. bufferSD' \in [0..(SegLen - 1) -> Byte]
  <2>1. ASSUME NEW i \in 0..(SegLen - 1), i < n
        PROVE  data'[Current][st.pos + i] \in Byte
    <3>1. st.pos + i \in 0..(Capacity - 1)
      BY <1>1, <1>2, <1>3, <2>1
    <3>2. data'[Current] \in Bytes
      BY <1>1
    <3>3. QED BY <3>1, <3>2 DEF Bytes
  <2>2. QED BY <1>7, <2>1 DEF SdTypeOK
<1>9. UNCHANGED <<files, fhandle>>
  BY DEF ReadSD
<1>10. SdTypeOK'
  BY <1>6, <1>8, <1>9 DEF SdTypeOK
<1>11. QED BY <1>3, <1>4, <1>6, <1>7, <1>9, <1>10

\* writeSD on an open file.
LEMMA WriteSDKeeps ==
  ASSUME SdTypeOK, IsOpen, NEW seg \in [0..(SegLen - 1) -> Byte], NEW n, WriteSD(seg, n)
  PROVE  /\ SdTypeOK'
         /\ n \in 0..SegLen
         /\ UNCHANGED <<files, fhandle>>
         /\ stream' = [stream EXCEPT ![fhandle] = Advance(stream[fhandle], n, "write", "read")]
         /\ stream'[fhandle] = Advance(stream[fhandle], n, "write", "read")
<1> DEFINE st == stream[fhandle]
<1>1. fhandle \in Slot /\ Current \in Image /\ st \in Stream /\ st.pos \in Nat
  BY DEF SdTypeOK, IsOpen, Current, Stream
<1>2. Capacity \in Nat /\ SegLen \in Nat
  BY SdFileAssumption
<1>3. n \in 0..SegLen /\ (n > 0 => st.pos + n <= Capacity)
  BY <1>1, <1>2, MovedIsACount DEF WriteSD
<1>4. stream' = [stream EXCEPT ![fhandle] = Advance(st, n, "write", "read")]
  BY DEF WriteSD
<1>5. Advance(st, n, "write", "read") \in Stream
  BY <1>1, <1>2, <1>3, AdvanceKeeps
<1>6. stream' \in [Slot -> Stream] /\ stream'[fhandle] = Advance(st, n, "write", "read")
  <2>2. stream \in [Slot -> Stream]
    BY DEF SdTypeOK
  <2>3. QED BY <1>1, <1>4, <1>5, <2>2
<1>7. Patched(data[Current], st.pos, seg, n) \in Bytes
  <2>1. data[Current] \in Bytes
    BY <1>1 DEF SdTypeOK
  <2>2. ASSUME NEW i \in 0..(Capacity - 1), i \in st.pos..(st.pos + n - 1)
        PROVE  seg[i - st.pos] \in Byte
    BY <1>1, <1>2, <1>3, <2>2
  <2>3. QED BY <2>1, <2>2 DEF Patched, Bytes
<1>8. data' \in [Image -> Bytes]
  BY <1>1, <1>7 DEF SdTypeOK, WriteSD
<1>9. size' \in [Image -> 0..Capacity]
  <2>1. size' = [size EXCEPT ![Current] =
                   IF n > 0 /\ st.pos + n > @ THEN st.pos + n ELSE @]
    BY DEF WriteSD
  <2>2. QED BY <1>1, <1>2, <1>3, <2>1 DEF SdTypeOK
<1>10. bufferSD' = seg /\ UNCHANGED <<files, fhandle, saved>>
  BY DEF WriteSD
<1>11. SdTypeOK'
  BY <1>6, <1>8, <1>9, <1>10 DEF SdTypeOK
<1>12. QED BY <1>3, <1>4, <1>6, <1>10, <1>11

\* A transfer came back with no error only if it moved a whole segment.
LEMMA NoErrorMovedAll ==
  ASSUME NEW n \in 0..SegLen, TransferErr(n) = 0 PROVE n = SegLen
BY SdFileAssumption DEF TransferErr

LEMMA TransferErrRange ==
  ASSUME NEW n PROVE TransferErr(n) \in {0, 19, 127}
BY DEF TransferErr, NOT_OPEN

-------------------------------------------------------------------------------
(* A step of the transfers that work on the stream. *)

\* Where a stream that is on its course stands.
InPlace(st) ==
  /\ st.pos = SectStart + StreamOffset
  /\ st.io \in {"none", IF ioOpcode = WRITESECT THEN "write" ELSE "read"}
  /\ st.from = IF ioOpcode = WRITESECT THEN SectStart ELSE st.pos

\* Whatever the program did before, a transfer byte that finds no error works on
\* an open image, and on the stream position its count calls for.
LEMMA TransferReady ==
  ASSUME IInv, ioOpcode \in {READSECT, WRITESECT}, ErrBefore = 0
  PROVE  /\ IsOpen
         /\ diskErr = 0
         /\ ioByteCnt < SectLen
         /\ Bump = ioByteCnt + 1
         /\ \A st \in StreamBefore :
              st \in Stream /\ (AddressValid /\ ~st.astray => InPlace(st))
         /\ ~Seeks => stream[fhandle] \in StreamBefore
<1>1. diskErr = 0 /\ (Seeks => IsOpen)
  BY DEF ErrBefore, Seeks, SeekErr
<1>2. ioByteCnt \in Nat /\ SectLen \in Nat /\ SegLen \in Nat \ {0}
  BY SdFileAssumption, IosDiskAssumption DEF IInv, TypeOK
<1>3. IsOpen
  <2>1. CASE ~AddressValid
    BY <1>1, <2>1 DEF IInv, ClosedImageIsNoticed
  <2>2. CASE AddressValid /\ ioByteCnt > 0
    BY <1>1, <2>2 DEF IInv, StreamFollowsTransfer, Transferring, OnCourse, Astray
  <2>3. CASE AddressValid /\ ioByteCnt = 0
    BY <1>1, <2>3 DEF Seeks
  <2>4. QED BY <1>2, <2>1, <2>2, <2>3
<1>4. ioByteCnt < SectLen
  BY <1>1 DEF IInv, CountInsideSector
<1>5. Bump = ioByteCnt + 1
  BY <1>4, BumpIsACount DEF IInv
<1>6. ASSUME NEW st \in StreamBefore
      PROVE  st \in Stream /\ (AddressValid /\ ~st.astray => InPlace(st))
  <2>1. TypeOK
    BY DEF IInv
  <2>2. /\ st \in Stream
        /\ ~Seeks => st = stream[fhandle]
        /\ Seeks /\ ~st.astray => st = At(SectStart)
    BY <1>3, <2>1, StreamBeforeIsAStream
  <2>3. SUFFICES ASSUME AddressValid, ~st.astray PROVE InPlace(st)
    BY <2>2
  <2>4. CASE ioByteCnt = 0
    <3>1. st = At(SectStart)
      BY <1>1, <2>2, <2>3, <2>4 DEF Seeks
    <3>2. InSeg = 0
      BY <1>2, <2>4 DEF InSeg
    <3>3. StreamOffset = 0
      BY <2>4, <3>2 DEF StreamOffset
    <3>4. SectStart \in Nat
      BY <2>1, SectStartIsNat
    <3>5. QED BY <3>1, <3>3, <3>4 DEF At, InPlace
  <2>5. CASE ioByteCnt # 0
    <3>1. st = stream[fhandle]
      BY <2>2, <2>5 DEF Seeks
    <3>2. Transferring /\ OnCourse
      BY <1>1, <1>2, <2>3, <2>5, <3>1 DEF Transferring, OnCourse, Astray
    <3>3. StreamFollowsTransfer /\ DirectionFollowsTransfer
      BY DEF IInv
    <3>4. QED BY <3>1, <3>2, <3>3 DEF StreamFollowsTransfer, DirectionFollowsTransfer, InPlace
  <2>6. QED BY <2>4, <2>5
<1>7. ~Seeks => stream[fhandle] \in StreamBefore
  BY DEF StreamBefore
<1>8. QED BY <1>1, <1>3, <1>4, <1>5, <1>6, <1>7

\* The byte that fills a segment never seeks: a segment is more than one byte.
LEMMA FlushingDoesNotSeek == ASSUME TypeOK, LastOfSeg PROVE ~Seeks
<1>1. SegLen \in Nat /\ SegLen > 1
  BY TypeFacts
<1>2. 0 % SegLen = 0
  BY <1>1
<1>3. QED BY <1>1, <1>2 DEF LastOfSeg, InSeg, Seeks

\* The next place in the segment; the last place of a sector is one of a segment.
LEMMA InSegMoves ==
  ASSUME TypeOK, ioByteCnt' = ioByteCnt + 1
  PROVE  /\ InSeg' = IF LastOfSeg THEN 0 ELSE InSeg + 1
         /\ ioByteCnt = SectLen - 1 => LastOfSeg
<1>1. SegLen \in Nat \ {0} /\ ioByteCnt \in Nat
  BY SdFileAssumption, IosDiskAssumption DEF TypeOK
<1>2. QED BY <1>1, NextInSegment, SectorEndsASegment DEF InSeg, LastOfSeg


\* The parts of the invariant that no transfer step touches.
LEMMA RestFacts ==
  ASSUME IInv
  PROVE  /\ TypeOK /\ SdTypeOK /\ OneFileOpen
         /\ ioOpcode \in Byte /\ ioData \in Byte /\ trackSel \in Word
         /\ sectSel \in Byte /\ diskSet \in Byte
<1>1. TypeOK /\ OneFileOpen
  BY DEF IInv
<1>3. /\ SdTypeOK /\ ioOpcode \in Byte /\ ioData \in Byte /\ trackSel \in Word
      /\ sectSel \in Byte /\ diskSet \in Byte
  BY <1>1 DEF TypeOK
<1>4. QED BY <1>1, <1>3

LEMMA OpcodesAreBytes ==
  0 \in Byte /\ NOP \in Byte /\ READSECT \in Byte /\ WRITESECT \in Byte
BY DEF Byte, NOP, READSECT, WRITESECT

\* A WRITESECT byte put into the buffer.
LEMMA WriteStoredKeeps ==
  ASSUME IInv, NEW b \in Byte, WriteSectStored(b) PROVE IInv'
<1>1. ioOpcode = WRITESECT /\ ErrBefore = 0 /\ ~LastOfSeg
  BY DEF WriteSectStored
<1>2. /\ ioOpcode' = WRITESECT /\ ioByteCnt' = Bump /\ ioData' = b /\ diskErr' = 0
      /\ UNCHANGED <<trackSel, sectSel, diskSet, files, fhandle>>
  BY <1>1 DEF WriteSectStored, selectVars
<1> TypeOK
  BY RestFacts
<1>3. /\ IsOpen /\ ioByteCnt < SectLen /\ ioByteCnt' = ioByteCnt + 1
      /\ \A st \in StreamBefore :
           st \in Stream /\ (AddressValid /\ ~st.astray => InPlace(st))
      /\ ~Seeks => stream[fhandle] \in StreamBefore
  BY <1>1, <1>2, TransferReady
<1>4. InSeg' = InSeg + 1 /\ ioByteCnt # SectLen - 1
  BY <1>1, <1>3, InSegMoves
<1>5. ioByteCnt' < SectLen
  BY <1>3, <1>4, TypeFacts
<1>6. PICK st \in StreamBefore :
        /\ ImagesBefore(st)
        /\ stream' = [stream EXCEPT ![fhandle] = st] \/ (st = stream[fhandle] /\ stream' = stream)
  <2>1. CASE Seeks
    BY <2>1 DEF WriteSectStored
  <2>2. CASE ~Seeks
    BY <1>3, <2>2 DEF WriteSectStored, ImagesBefore
  <2>3. QED BY <2>1, <2>2
<1>7. stream' \in [Slot -> Stream] /\ stream'[fhandle] = st
  <2>1. st \in Stream /\ fhandle \in Slot /\ stream \in [Slot -> Stream]
    BY <1>3, OpenFacts, TypeFacts
  <2>2. QED BY <1>6, <2>1
<1>8. TypeOK'
  <2>1. files' \in [Slot -> Image \cup {NoFile}] /\ fhandle' \in Slot \cup {NoHandle}
    BY <1>2, TypeFacts
  <2>2. /\ size' \in [Image -> 0..Capacity] /\ data' \in [Image -> Bytes]
        /\ saved' \in [Image -> [len : 0..Capacity, bytes : Bytes]]
    BY <1>3, <1>6, ImagesBeforeKeeps
  <2>3. bufferSD' \in [0..(SegLen - 1) -> Byte]
    <3>1. bufferSD' = [bufferSD EXCEPT ![InSeg] = b]
      BY DEF WriteSectStored
    <3>2. QED BY <3>1, TypeFacts
  <2>4. SdTypeOK'
    BY <1>7, <2>1, <2>2, <2>3 DEF SdTypeOK
  <2>5. ioByteCnt' \in 0..CountBound
    BY <1>2, BumpIsACount
  <2>6. ioOpcode' \in Byte /\ ioData' \in Byte
    BY <1>2, TypeFacts, OpcodesAreBytes
  <2>7. trackSel' \in Word /\ sectSel' \in Byte /\ diskSet' \in Byte
    BY <1>2, RestFacts
  <2>8. QED BY <1>2, <2>4, <2>5, <2>6, <2>7 DEF TypeOK
<1>9. SectStart' = SectStart /\ AddressValid' = AddressValid /\ IsOpen'
  BY <1>2, <1>3, SectStartIsKept DEF IsOpen
<1>10. StreamOffset' = StreamOffset
  <2>1. ioByteCnt \in Nat /\ InSeg \in Int
    BY InSegRange, TypeFacts
  <2>2. QED BY <1>1, <1>2, <1>3, <1>4, <2>1 DEF StreamOffset
<1>11. OnCourse' => AddressValid /\ ~st.astray
  BY <1>2, <1>7, <1>9 DEF OnCourse, Astray
<1>12. StreamFollowsTransfer' /\ DirectionFollowsTransfer'
  BY <1>1, <1>2, <1>3, <1>7, <1>9, <1>10, <1>11
  DEF StreamFollowsTransfer, DirectionFollowsTransfer, InPlace
<1>13. OneFileOpen'
  <2>1. OneFileOpen
    BY RestFacts
  <2>2. QED BY <1>2, <2>1 DEF OneFileOpen
<1>14. CountInsideSector' /\ ClosedImageIsNoticed' /\ BufferFollowsRead'
  BY <1>2, <1>5, <1>9
  DEF CountInsideSector, ClosedImageIsNoticed, BufferFollowsRead, WRITESECT, READSECT
<1>15. QED BY <1>8, <1>12, <1>13, <1>14 DEF IInv


\* A WRITESECT byte that sends the buffer to the file.
LEMMA WriteFlushedKeeps ==
  ASSUME IInv, NEW b \in Byte, WriteSectFlushed(b) PROVE IInv'
<1>1. ioOpcode = WRITESECT /\ ErrBefore = 0 /\ LastOfSeg
  BY DEF WriteSectFlushed
<1>2. /\ ioOpcode' = (IF LastOfSect THEN NOP ELSE WRITESECT)
      /\ ioByteCnt' = Bump /\ ioData' = b
      /\ UNCHANGED <<trackSel, sectSel, diskSet>>
  BY DEF WriteSectFlushed, selectVars
<1> TypeOK
  BY RestFacts
<1> DEFINE st == stream[fhandle]
<1>3. /\ IsOpen /\ ioByteCnt < SectLen /\ ioByteCnt' = ioByteCnt + 1
      /\ st \in Stream /\ (AddressValid /\ ~st.astray => InPlace(st))
  BY <1>1, <1>2, TransferReady, FlushingDoesNotSeek
<1>4. InSeg' = 0 /\ InSeg = SegLen - 1
  BY <1>1, <1>3, InSegMoves DEF LastOfSeg
<1> DEFINE seg == [bufferSD EXCEPT ![InSeg] = b]
<1>5. PICK n \in Count : WriteSD(seg, n) /\ diskErr' = TransferErr(n)
  BY DEF WriteSectFlushed
<1>6. seg \in [0..(SegLen - 1) -> Byte]
  BY TypeFacts
<1> HIDE DEF seg
<1>7. /\ SdTypeOK' /\ n \in 0..SegLen /\ UNCHANGED <<files, fhandle>>
      /\ stream'[fhandle] = Advance(st, n, "write", "read")
  BY <1>3, <1>5, <1>6, RestFacts, WriteSDKeeps
<1> DEFINE next == stream'[fhandle]
<1> HIDE DEF st
<1>8. /\ next.pos = st.pos + n /\ next.astray = st.astray /\ next.from = st.from
      /\ st.io \in {"none", "write"} => next.io = "write"
  <2>1. n \in Nat /\ st \in Stream
    BY <1>3, <1>7
  <2>2. LET moved == Advance(st, n, "write", "read")
        IN  /\ moved.pos = st.pos + n /\ moved.astray = st.astray /\ moved.from = st.from
            /\ st.io \in {"none", "write"} => moved.io = "write"
    BY <2>1, AdvanceKeeps
  <2>3. QED BY <1>7, <2>2
<1>9. ioOpcode' = WRITESECT => ioByteCnt' < SectLen
  <2>1. LastOfSect => ioOpcode' # WRITESECT
    BY <1>2 DEF NOP, WRITESECT
  <2>2. QED BY <1>3, <2>1, TypeFacts DEF LastOfSect
<1>10. ioOpcode' # READSECT
  BY <1>2 DEF NOP, READSECT, WRITESECT
<1>11. TypeOK'
  <2>1. diskErr' \in {0, 16, 17, 18, 19, 127, 255}
    BY <1>5, TransferErrRange
  <2>2. ioByteCnt' \in 0..CountBound
    BY <1>2, BumpIsACount
  <2>3. ioOpcode' \in Byte /\ ioData' \in Byte
    BY <1>2, TypeFacts, OpcodesAreBytes
  <2>4. trackSel' \in Word /\ sectSel' \in Byte /\ diskSet' \in Byte
    BY <1>2, RestFacts
  <2>5. QED BY <1>7, <2>1, <2>2, <2>3, <2>4 DEF TypeOK
<1>12. SectStart' = SectStart /\ AddressValid' = AddressValid /\ IsOpen'
  BY <1>2, <1>3, <1>7, SectStartIsKept DEF IsOpen
<1>13. OnCourse' => diskErr' = 0 /\ AddressValid /\ ~st.astray /\ InPlace(st)
  BY <1>3, <1>7, <1>8, <1>12 DEF OnCourse, Astray
<1>14. StreamFollowsTransfer'
  <2>1. SUFFICES ASSUME ioOpcode' = WRITESECT, OnCourse'
                 PROVE  stream'[fhandle'].pos = SectStart' + StreamOffset'
    BY <1>10, <1>12 DEF StreamFollowsTransfer, Transferring
  <2>2. n = SegLen
    BY <1>5, <1>7, <1>13, <2>1, NoErrorMovedAll
  <2>3. StreamOffset' = ioByteCnt + 1
    BY <1>3, <1>4, <2>1, TypeFacts DEF StreamOffset
  <2>4. StreamOffset = ioByteCnt - InSeg
    BY <1>1 DEF StreamOffset
  <2>5. SectStart \in Nat /\ SegLen \in Nat /\ ioByteCnt \in Nat
    BY SectStartIsNat, TypeFacts
  <2>6. st.pos = SectStart + StreamOffset
    BY <1>13, <2>1 DEF InPlace
  <2>7. QED BY <1>4, <1>7, <1>8, <1>12, <2>2, <2>3, <2>4, <2>5, <2>6
<1>15. OneFileOpen'
  <2>1. OneFileOpen
    BY RestFacts
  <2>2. QED BY <1>7, <2>1 DEF OneFileOpen
<1>16. CountInsideSector' /\ ClosedImageIsNoticed' /\ BufferFollowsRead'
  BY <1>9, <1>10, <1>12 DEF CountInsideSector, ClosedImageIsNoticed, BufferFollowsRead
<1>17. DirectionFollowsTransfer'
  <2>1. SUFFICES ASSUME ioOpcode' = WRITESECT, OnCourse'
                 PROVE  next.io \in {"none", "write"} /\ next.from = SectStart
    BY <1>7, <1>10, <1>12 DEF DirectionFollowsTransfer, Transferring
  <2>2. QED BY <1>1, <1>8, <1>13, <2>1 DEF InPlace
<1>18. QED BY <1>11, <1>14, <1>15, <1>16, <1>17 DEF IInv

\* Where a READSECT byte leaves the count and the opcode.
LEMMA ReadEndFacts ==
  ASSUME TypeOK, ioOpcode = READSECT, ioByteCnt < SectLen, ReadSectEnd
  PROVE  /\ ioByteCnt' = ioByteCnt + 1 /\ ioByteCnt' \in 0..CountBound
         /\ ioOpcode' \in Byte /\ ioOpcode' # WRITESECT
         /\ ioOpcode' = READSECT => ioByteCnt' < SectLen
         /\ UNCHANGED <<trackSel, sectSel, diskSet>>
<1>1. /\ ioByteCnt' = Bump /\ ioOpcode' = (IF LastOfSect THEN NOP ELSE READSECT)
      /\ UNCHANGED <<trackSel, sectSel, diskSet>>
  BY DEF ReadSectEnd, selectVars
<1>2. ioByteCnt' = ioByteCnt + 1 /\ ioByteCnt' \in 0..CountBound
  BY <1>1, BumpIsACount
<1>3. ioOpcode' \in Byte
  BY <1>1, OpcodesAreBytes
<1>4. ioOpcode' # WRITESECT /\ (LastOfSect => ioOpcode' # READSECT)
  BY <1>1 DEF NOP, READSECT, WRITESECT
<1>5. ioOpcode' = READSECT => ioByteCnt' < SectLen
  BY <1>2, <1>4, TypeFacts DEF LastOfSect
<1>6. QED BY <1>1, <1>2, <1>3, <1>4, <1>5

\* A READSECT byte that fetches a segment from the file.
LEMMA ReadFetchedKeeps ==
  ASSUME IInv, ReadSectFetched PROVE IInv'
<1>1. ioOpcode = READSECT /\ ErrBefore = 0 /\ InSeg = 0 /\ ReadSectEnd
  BY DEF ReadSectFetched
<1> TypeOK
  BY RestFacts
<1>2. /\ IsOpen /\ ioByteCnt < SectLen
      /\ \A st \in StreamBefore :
           st \in Stream /\ (AddressValid /\ ~st.astray => InPlace(st))
  BY <1>1, TransferReady
<1>3. /\ ioByteCnt' = ioByteCnt + 1 /\ ioByteCnt' \in 0..CountBound
      /\ ioOpcode' \in Byte /\ ioOpcode' # WRITESECT
      /\ ioOpcode' = READSECT => ioByteCnt' < SectLen
      /\ UNCHANGED <<trackSel, sectSel, diskSet>>
  BY <1>1, <1>2, ReadEndFacts
<1>4. InSeg' = IF LastOfSeg THEN 0 ELSE InSeg + 1
  BY <1>3, InSegMoves
<1>5. PICK st \in StreamBefore, n \in Count :
        ImagesBefore(st) /\ ReadSD(st, n) /\ diskErr' = TransferErr(n)
  BY DEF ReadSectFetched
<1>6. st \in Stream /\ (AddressValid /\ ~st.astray => InPlace(st))
  BY <1>2
<1>7. /\ SdTypeOK' /\ n \in 0..SegLen
      /\ n > 0 => st.pos + n <= size'[Current]
      /\ UNCHANGED <<files, fhandle>>
      /\ stream'[fhandle] = Advance(st, n, "read", "write")
      /\ \A i \in 0..(SegLen - 1) : i < n => bufferSD'[i] = data'[Current][st.pos + i]
  <2>1. /\ size' \in [Image -> 0..Capacity] /\ data' \in [Image -> Bytes]
        /\ saved' \in [Image -> [len : 0..Capacity, bytes : Bytes]]
    BY <1>2, <1>5, ImagesBeforeKeeps
  <2>2. SdTypeOK
    BY RestFacts
  <2>3. QED BY <1>2, <1>5, <1>6, <2>1, <2>2, ReadSDKeeps
<1> DEFINE next == stream'[fhandle]
<1>19. /\ next.pos = st.pos + n /\ next.astray = st.astray
       /\ st.io \in {"none", "read"} => next.io = "read"
       /\ st.from = st.pos => next.from = next.pos
  BY <1>6, <1>7, TypeFacts, AdvanceKeeps
<1>8. SectStart' = SectStart /\ AddressValid' = AddressValid /\ IsOpen'
      /\ Current' = Current
  BY <1>2, <1>3, <1>7, SectStartIsKept DEF IsOpen, Current
<1>9. TypeOK'
  <2>1. diskErr' \in {0, 16, 17, 18, 19, 127, 255}
    BY <1>5, TransferErrRange
  <2>2. ioData' \in Byte
    <3>1. bufferSD' \in [0..(SegLen - 1) -> Byte]
      BY <1>7 DEF SdTypeOK
    <3>2. 0 \in 0..(SegLen - 1)
      BY TypeFacts
    <3>3. bufferSD'[0] \in Byte
      BY <3>1, <3>2
    <3>4. ioData' = bufferSD'[0] \/ ioData' = ioData
      BY DEF ReadSectFetched
    <3>5. QED BY <3>3, <3>4, RestFacts
  <2>3. trackSel' \in Word /\ sectSel' \in Byte /\ diskSet' \in Byte
    BY <1>3, RestFacts
  <2>4. QED BY <1>3, <1>7, <2>1, <2>2, <2>3 DEF TypeOK
<1>10. SectStart \in Nat /\ SegLen \in Nat \ {0} /\ ioByteCnt \in Nat
  BY SectStartIsNat, TypeFacts
<1>11. StreamOffset = ioByteCnt
  BY <1>1, <1>10 DEF StreamOffset, READSECT, WRITESECT
<1>12. ASSUME OnCourse'
       PROVE  n = SegLen /\ InPlace(st) /\ st.pos = SectStart + ioByteCnt
  <2>1. diskErr' = 0 /\ AddressValid /\ ~st.astray
    BY <1>7, <1>8, <1>12, <1>19 DEF OnCourse, Astray
  <2>2. n = SegLen
    BY <1>5, <1>7, <2>1, NoErrorMovedAll
  <2>3. QED BY <1>6, <1>11, <2>1, <2>2 DEF InPlace
<1>13. StreamFollowsTransfer'
  <2>1. SUFFICES ASSUME OnCourse'
                 PROVE  stream'[fhandle'].pos = SectStart' + StreamOffset'
    BY <1>8 DEF StreamFollowsTransfer
  <2>2. stream'[fhandle].pos = SectStart + ioByteCnt + SegLen
    BY <1>12, <1>19, <2>1
  <2>3. StreamOffset' = ioByteCnt + SegLen
    BY <1>1, <1>3, <1>4, <1>10 DEF StreamOffset, LastOfSeg
  <2>4. QED BY <1>7, <1>8, <1>10, <2>2, <2>3
<1>14. BufferFollowsRead'
  <2>1. SUFFICES ASSUME InSeg' # 0, OnCourse'
                 PROVE  /\ SectStart + ioByteCnt' - InSeg' + SegLen <= size'[Current]
                        /\ \A i \in 0..(SegLen - 1) :
                             bufferSD'[i] = data'[Current][SectStart + ioByteCnt' - InSeg' + i]
    BY <1>8 DEF BufferFollowsRead
  <2>2. SectStart + ioByteCnt' - InSeg' = st.pos
    BY <1>1, <1>3, <1>4, <1>10, <1>12, <2>1
  <2>3. n = SegLen /\ n > 0
    BY <1>10, <1>12, <2>1
  <2>4. QED BY <1>7, <1>10, <2>2, <2>3
<1>15. OneFileOpen'
  <2>1. OneFileOpen
    BY RestFacts
  <2>2. QED BY <1>7, <2>1 DEF OneFileOpen
<1>16. CountInsideSector' /\ ClosedImageIsNoticed'
  BY <1>3, <1>8 DEF CountInsideSector, ClosedImageIsNoticed
<1>17. DirectionFollowsTransfer'
  <2>1. SUFFICES ASSUME OnCourse' PROVE next.io \in {"none", "read"} /\ next.from = next.pos
    BY <1>3, <1>7 DEF DirectionFollowsTransfer
  <2>2. InPlace(st)
    BY <1>12, <2>1
  <2>3. QED BY <1>1, <1>19, <2>2 DEF InPlace, READSECT, WRITESECT
<1>18. QED BY <1>9, <1>13, <1>14, <1>15, <1>16, <1>17 DEF IInv

\* A READSECT byte handed out of the buffer.
LEMMA ReadBufferedKeeps ==
  ASSUME IInv, ReadSectBuffered PROVE IInv'
<1>1. ioOpcode = READSECT /\ ErrBefore = 0 /\ InSeg # 0 /\ ReadSectEnd
  BY DEF ReadSectBuffered
<1>2. /\ ioData' = bufferSD[InSeg] /\ diskErr' = 0
      /\ UNCHANGED <<files, stream, fhandle, size, data, saved, bufferSD>>
  BY DEF ReadSectBuffered, fileVars, imageVars
<1> TypeOK
  BY RestFacts
<1>3. IsOpen /\ ioByteCnt < SectLen /\ diskErr = 0
  BY <1>1, TransferReady
<1>4. /\ ioByteCnt' = ioByteCnt + 1 /\ ioByteCnt' \in 0..CountBound
      /\ ioOpcode' \in Byte /\ ioOpcode' # WRITESECT
      /\ ioOpcode' = READSECT => ioByteCnt' < SectLen
      /\ UNCHANGED <<trackSel, sectSel, diskSet>>
  BY <1>1, <1>3, ReadEndFacts
<1>5. InSeg' = IF LastOfSeg THEN 0 ELSE InSeg + 1
  BY <1>4, InSegMoves
<1>6. SectStart' = SectStart /\ AddressValid' = AddressValid /\ IsOpen'
      /\ Current' = Current
  BY <1>2, <1>3, <1>4, SectStartIsKept DEF IsOpen, Current
<1>7. TypeOK'
  <2>1. SdTypeOK'
    <3>1. SdTypeOK
      BY RestFacts
    <3>2. QED BY <1>2, <3>1 DEF SdTypeOK
  <2>2. ioData' \in Byte
    BY <1>2, InSegRange, TypeFacts
  <2>3. trackSel' \in Word /\ sectSel' \in Byte /\ diskSet' \in Byte
    BY <1>4, RestFacts
  <2>4. diskErr' \in {0, 16, 17, 18, 19, 127, 255}
    BY <1>2
  <2>5. QED BY <1>4, <2>1, <2>2, <2>3, <2>4 DEF TypeOK
<1>8. /\ SectStart \in Nat /\ SegLen \in Nat \ {0} /\ ioByteCnt \in Nat
      /\ InSeg \in 0..(SegLen - 1) /\ ioByteCnt # 0
  <2>1. SectStart \in Nat /\ SegLen \in Nat \ {0} /\ ioByteCnt \in Nat
    BY SectStartIsNat, TypeFacts
  <2>2. InSeg \in 0..(SegLen - 1)
    BY InSegRange
  <2>3. ioByteCnt # 0
    BY <1>1, <2>1 DEF InSeg
  <2>4. QED BY <2>1, <2>2, <2>3
<1>15. OnCourse' => OnCourse
  BY <1>2, <1>3, <1>6 DEF OnCourse, Astray
<1>9. StreamFollowsTransfer'
  <2>1. SUFFICES ASSUME OnCourse
                 PROVE  stream'[fhandle'].pos = SectStart' + StreamOffset'
    BY <1>6, <1>15 DEF StreamFollowsTransfer
  <2>2. stream[fhandle].pos = SectStart + StreamOffset
    BY <1>1, <1>3, <1>8, <2>1 DEF IInv, StreamFollowsTransfer, Transferring
  <2>3. StreamOffset' = StreamOffset
    BY <1>1, <1>4, <1>5, <1>8 DEF StreamOffset, LastOfSeg, READSECT, WRITESECT
  <2>4. QED BY <1>2, <1>6, <2>2, <2>3
<1>10. BufferFollowsRead'
  <2>1. SUFFICES ASSUME InSeg' # 0, OnCourse
                 PROVE  /\ SectStart + ioByteCnt' - InSeg' + SegLen <= size[Current]
                        /\ \A i \in 0..(SegLen - 1) :
                             bufferSD[i] = data[Current][SectStart + ioByteCnt' - InSeg' + i]
    BY <1>2, <1>6, <1>15 DEF BufferFollowsRead
  <2>2. SectStart + ioByteCnt' - InSeg' = SectStart + ioByteCnt - InSeg
    BY <1>4, <1>5, <1>8, <2>1
  <2>3. BufferFollowsRead
    BY DEF IInv
  <2>4. QED BY <1>1, <1>3, <2>1, <2>2, <2>3 DEF BufferFollowsRead
<1>11. OneFileOpen'
  <2>1. OneFileOpen
    BY RestFacts
  <2>2. QED BY <1>2, <2>1 DEF OneFileOpen
<1>12. CountInsideSector' /\ ClosedImageIsNoticed'
  BY <1>4, <1>6 DEF CountInsideSector, ClosedImageIsNoticed
<1>13. DirectionFollowsTransfer'
  <2>1. Transferring
    BY <1>1, <1>8 DEF Transferring
  <2>2. DirectionFollowsTransfer
    BY DEF IInv
  <2>3. QED BY <1>1, <1>2, <1>4, <1>15, <2>1, <2>2
        DEF DirectionFollowsTransfer, READSECT, WRITESECT
<1>14. QED BY <1>7, <1>9, <1>10, <1>11, <1>12, <1>13 DEF IInv


-------------------------------------------------------------------------------
(* The other steps: they leave no transfer in progress, or leave one alone.   *)

\* What is left to show once a step has ended the operation or begun a new one.
LEMMA NoTransferLeft ==
  ASSUME TypeOK', OneFileOpen', ClosedImageIsNoticed',
         ioOpcode' \notin {READSECT, WRITESECT} \/ ioByteCnt' = 0
  PROVE  IInv'
<1>1. ioByteCnt' = 0 => InSeg' = 0
  <2>1. SegLen \in Nat \ {0}
    BY SdFileAssumption
  <2>2. QED BY <2>1 DEF InSeg
<1>2. StreamFollowsTransfer' /\ DirectionFollowsTransfer'
  BY DEF StreamFollowsTransfer, DirectionFollowsTransfer, Transferring
<1>3. BufferFollowsRead'
  BY <1>1 DEF BufferFollowsRead
<1>4. CountInsideSector'
  <2>1. 0 < SectLen
    BY IosDiskAssumption
  <2>2. QED BY <2>1 DEF CountInsideSector
<1>5. QED BY <1>2, <1>3, <1>4 DEF IInv

\* The file variables as a step that leaves them alone leaves them.
LEMMA FilesKept ==
  ASSUME IInv, UNCHANGED fileVars
  PROVE  SdTypeOK' /\ OneFileOpen' /\ IsOpen' = IsOpen
<1>1. SdTypeOK /\ OneFileOpen
  BY RestFacts
<1>2. UNCHANGED <<files, stream, fhandle, size, data, saved, bufferSD>>
  BY DEF fileVars, imageVars
<1>3. SdTypeOK'
  BY <1>1, <1>2 DEF SdTypeOK
<1>4. OneFileOpen' /\ IsOpen' = IsOpen
  BY <1>1, <1>2 DEF OneFileOpen, IsOpen
<1>5. QED BY <1>3, <1>4

\* The engine registers as most steps leave them.
LEMMA RegistersTyped ==
  ASSUME IInv
  PROVE  /\ ioOpcode \in Byte /\ ioByteCnt \in 0..CountBound /\ Bump \in 0..CountBound
         /\ diskErr \in {0, 16, 17, 18, 19, 127, 255}
         /\ ClosedImageIsNoticed
<1>1. TypeOK /\ ClosedImageIsNoticed
  BY DEF IInv
<1>2. ioOpcode \in Byte /\ ioByteCnt \in 0..CountBound
  BY <1>1 DEF TypeOK
<1>3. Bump \in 0..CountBound
  BY <1>1, BumpIsACount
<1>4. diskErr \in {0, 16, 17, 18, 19, 127, 255}
  BY <1>1 DEF TypeOK
<1>5. QED BY <1>1, <1>2, <1>3, <1>4

LEMMA StoreOpcodeKeeps ==
  ASSUME IInv, NEW op \in Byte, StoreOpcode(op) PROVE IInv'
<1>1. /\ ioOpcode' = op /\ ioData' = op /\ ioByteCnt' = 0
      /\ UNCHANGED <<diskErr, trackSel, sectSel, diskSet>> /\ UNCHANGED fileVars
  BY DEF StoreOpcode, selectVars
<1>2. SdTypeOK' /\ OneFileOpen' /\ IsOpen' = IsOpen
  BY <1>1, FilesKept
<1>3. 0 \in 0..CountBound
  BY IosDiskAssumption
<1>4. TypeOK'
  BY <1>1, <1>2, <1>3, RegistersTyped, RestFacts DEF TypeOK
<1>5. ClosedImageIsNoticed'
  BY <1>1, <1>2, RegistersTyped, SectStartIsKept DEF ClosedImageIsNoticed
<1>6. QED BY <1>1, <1>2, <1>4, <1>5, NoTransferLeft

\* A step that only ends or continues an operation that is no transfer.
LEMMA ServiceKeeps ==
  ASSUME IInv, ioOpcode' \in Byte, ioOpcode' \notin {READSECT, WRITESECT},
         ioData' \in Byte, ioByteCnt' \in 0..CountBound,
         UNCHANGED <<diskErr, trackSel, sectSel>>, diskSet' \in Byte, UNCHANGED fileVars
  PROVE  IInv'
<1>1. SdTypeOK' /\ OneFileOpen' /\ IsOpen' = IsOpen
  BY FilesKept
<1>2. TypeOK'
  BY <1>1, RegistersTyped, RestFacts DEF TypeOK
<1>3. ClosedImageIsNoticed'
  BY <1>1, RegistersTyped, SectStartIsKept DEF ClosedImageIsNoticed
<1>4. QED BY <1>1, <1>2, <1>3, NoTransferLeft

LEMMA SerialRxKeeps ==
  ASSUME IInv, NEW b \in Byte, SerialRx(b) PROVE IInv'
<1>1. /\ ioData' = b /\ UNCHANGED <<ioOpcode, ioByteCnt, diskErr, trackSel, sectSel, diskSet>>
      /\ UNCHANGED <<files, stream, fhandle, size, data, saved, bufferSD>>
  BY DEF SerialRx, selectVars, fileVars, imageVars
<1>2. SdTypeOK' /\ OneFileOpen' /\ IsOpen' = IsOpen
  BY <1>1, FilesKept DEF fileVars, imageVars
<1>4. TypeOK'
  BY <1>1, <1>2, RegistersTyped, RestFacts DEF TypeOK
<1>5. SectStart' = SectStart /\ AddressValid' = AddressValid
  BY <1>1, SectStartIsKept
<1>6. InSeg' = InSeg /\ Current' = Current /\ OnCourse' = OnCourse
  BY <1>1, <1>2, <1>5 DEF InSeg, Current, OnCourse, Astray
<1>7. ClosedImageIsNoticed' /\ CountInsideSector'
  BY <1>1, <1>2, <1>5 DEF IInv, ClosedImageIsNoticed, CountInsideSector
<1>8. StreamFollowsTransfer' /\ DirectionFollowsTransfer'
  BY <1>1, <1>2, <1>5, <1>6
  DEF IInv, StreamFollowsTransfer, DirectionFollowsTransfer, Transferring, StreamOffset
<1>9. BufferFollowsRead'
  BY <1>1, <1>5, <1>6 DEF IInv, BufferFollowsRead
<1>10. QED BY <1>2, <1>4, <1>7, <1>8, <1>9 DEF IInv

LEMMA SelDiskKeeps ==
  ASSUME IInv, NEW b \in Byte, SelDisk(b) PROVE IInv'
<1>1. /\ ioOpcode' = NOP /\ ioData' = b /\ UNCHANGED <<ioByteCnt, trackSel, sectSel, diskSet>>
      /\ \/ \E err \in {0, NOT_OPEN} : OpenSD(<<diskSet, b>>, err) /\ diskErr' = err
         \/ diskErr' = 16 /\ UNCHANGED fileVars
  BY DEF SelDisk, selectVars
<1>2. /\ SdTypeOK' /\ OneFileOpen' /\ diskErr' \in {0, 16, 17, 18, 19, 127, 255}
      /\ diskErr' = 0 => IsOpen'
  <2>1. CASE \E err \in {0, NOT_OPEN} : OpenSD(<<diskSet, b>>, err) /\ diskErr' = err
    <3>1. PICK err \in {0, NOT_OPEN} : OpenSD(<<diskSet, b>>, err) /\ diskErr' = err
      BY <2>1
    <3>2. SdTypeOK' /\ OneFileOpen' /\ (err = 0 => IsOpen')
      BY <3>1, OpenSDKeeps, RestFacts
    <3>3. QED BY <3>1, <3>2 DEF NOT_OPEN
  <2>2. CASE diskErr' = 16 /\ UNCHANGED fileVars
    BY <2>2, FilesKept
  <2>3. QED BY <1>1, <2>1, <2>2
<1>4. TypeOK'
  BY <1>1, <1>2, RegistersTyped, RestFacts, OpcodesAreBytes DEF TypeOK
<1>5. ClosedImageIsNoticed'
  BY <1>2 DEF ClosedImageIsNoticed
<1>6. ioOpcode' \notin {READSECT, WRITESECT}
  BY <1>1 DEF NOP, READSECT, WRITESECT
<1>7. QED BY <1>2, <1>4, <1>5, <1>6, NoTransferLeft

\* A step that only moves the address, and says whether the new one is valid.
LEMMA SelectKeeps ==
  ASSUME IInv, ioOpcode' \in Byte, ioOpcode' \notin {READSECT, WRITESECT},
         ioData' \in Byte, ioByteCnt' \in 0..CountBound, trackSel' \in Word,
         sectSel' \in Byte, diskErr' = AddressErr(trackSel', sectSel'),
         UNCHANGED diskSet, UNCHANGED fileVars
  PROVE  IInv'
<1>1. SdTypeOK' /\ OneFileOpen' /\ IsOpen' = IsOpen
  BY FilesKept
<1>2. /\ diskErr' \in {0, 16, 17, 18, 19, 127, 255}
      /\ diskErr' = 0 => AddressValid'
  BY DEF AddressErr, AddressValid
<1>3. TypeOK'
  BY <1>1, <1>2, RestFacts DEF TypeOK
<1>4. ClosedImageIsNoticed'
  BY <1>2 DEF ClosedImageIsNoticed
<1>5. QED BY <1>1, <1>3, <1>4, NoTransferLeft

LEMMA SelTrackLowKeeps ==
  ASSUME IInv, NEW b \in Byte, b < MaxTrack, SelTrackLow(b) PROVE IInv'
<1>1. /\ ioOpcode = SELTRACK /\ UNCHANGED <<ioOpcode, diskErr, sectSel, diskSet>>
      /\ trackSel' = b /\ ioData' = b /\ ioByteCnt' = Bump /\ UNCHANGED fileVars
  BY DEF SelTrackLow
<1>3. trackSel' \in Word
  BY <1>1 DEF Byte, Word
<1>4. SdTypeOK' /\ OneFileOpen' /\ IsOpen' = IsOpen
  BY <1>1, FilesKept
<1>5. TypeOK'
  BY <1>1, <1>3, <1>4, RegistersTyped, RestFacts DEF TypeOK
<1>6. ClosedImageIsNoticed'
  BY <1>1, <1>4, RegistersTyped DEF ClosedImageIsNoticed, AddressValid
<1>7. ioOpcode' \notin {READSECT, WRITESECT}
  BY <1>1 DEF SELTRACK, READSECT, WRITESECT
<1>8. QED BY <1>4, <1>5, <1>6, <1>7, NoTransferLeft

LEMMA SelTrackHighKeeps ==
  ASSUME IInv, NEW b \in Byte, SelTrackHigh(b) PROVE IInv'
<1>1. /\ ioOpcode' = NOP /\ ioData' = b /\ ioByteCnt' = Bump
      /\ trackSel' = b * 256 + (trackSel % 256) /\ diskErr' = AddressErr(trackSel', sectSel)
      /\ UNCHANGED <<sectSel, diskSet>> /\ UNCHANGED fileVars
  BY DEF SelTrackHigh
<1>3. trackSel' \in Word
  <2>1. trackSel \in Word
    BY RestFacts
  <2>2. trackSel % 256 \in 0..255
    BY <2>1 DEF Word
  <2>3. PICK low \in 0..255 : low = trackSel % 256
    BY <2>2
  <2>4. trackSel' = b * 256 + low
    BY <1>1, <2>3
  <2>5. b \in 0..255
    BY DEF Byte
  <2>6. QED BY <2>4, <2>5 DEF Word
<1>4. ioOpcode' \in Byte /\ ioOpcode' \notin {READSECT, WRITESECT}
  BY <1>1 DEF NOP, READSECT, WRITESECT, Byte
<1>5. sectSel' \in Byte /\ ioByteCnt' \in 0..CountBound
  BY <1>1, RestFacts, RegistersTyped
<1>6. QED BY <1>1, <1>3, <1>4, <1>5, SelectKeeps

LEMMA SelSectKeeps ==
  ASSUME IInv, NEW b \in Byte, SelSect(b) PROVE IInv'
<1>1. /\ ioOpcode' = NOP /\ ioData' = b /\ sectSel' = b
      /\ diskErr' = AddressErr(trackSel, b)
      /\ UNCHANGED <<ioByteCnt, trackSel, diskSet>> /\ UNCHANGED fileVars
  BY DEF SelSect
<1>3. ioOpcode' \in Byte /\ ioOpcode' \notin {READSECT, WRITESECT}
  BY <1>1 DEF NOP, READSECT, WRITESECT, Byte
<1>4. trackSel' \in Word /\ ioByteCnt' \in 0..CountBound
  BY <1>1, RestFacts, RegistersTyped
<1>5. QED BY <1>1, <1>3, <1>4, SelectKeeps

\* A transfer byte that found an error: the error stays, the count goes on.
LEMMA FailedKeeps ==
  ASSUME IInv, ErrBefore # 0, diskErr' = ErrBefore,
         ioOpcode' \in Byte, ioData' \in Byte, ioByteCnt' \in 0..CountBound,
         ioOpcode' = READSECT => ioByteCnt' < SectLen,
         UNCHANGED <<trackSel, sectSel, diskSet>>, UNCHANGED fileVars
  PROVE  IInv'
<1>1. SdTypeOK' /\ OneFileOpen'
  BY FilesKept
<1>2. diskErr' \in {0, 16, 17, 18, 19, 127, 255}
  BY RegistersTyped DEF ErrBefore, SeekErr
<1>3. TypeOK'
  BY <1>1, <1>2, RestFacts DEF TypeOK
<1>4. /\ StreamFollowsTransfer' /\ DirectionFollowsTransfer' /\ BufferFollowsRead'
      /\ CountInsideSector' /\ ClosedImageIsNoticed'
  BY DEF StreamFollowsTransfer, DirectionFollowsTransfer, BufferFollowsRead,
         OnCourse, CountInsideSector, ClosedImageIsNoticed
<1>5. QED BY <1>1, <1>3, <1>4 DEF IInv

LEMMA WriteIgnoredKeeps ==
  ASSUME IInv, NEW b \in Byte, WriteSectIgnored(b) PROVE IInv'
<1>1. /\ ioOpcode = WRITESECT /\ ErrBefore # 0 /\ diskErr' = ErrBefore /\ ioData' = b
      /\ ioByteCnt' = Bump /\ UNCHANGED <<ioOpcode, trackSel, sectSel, diskSet>>
      /\ UNCHANGED fileVars
  BY DEF WriteSectIgnored, selectVars
<1>3. ioOpcode' # READSECT
  BY <1>1 DEF READSECT, WRITESECT
<1>4. ioOpcode' \in Byte /\ ioByteCnt' \in 0..CountBound
  BY <1>1, RegistersTyped
<1>5. QED BY <1>1, <1>3, <1>4, FailedKeeps

LEMMA ReadFailedKeeps ==
  ASSUME IInv, ReadSectFailed PROVE IInv'
<1>1. /\ ioOpcode = READSECT /\ ErrBefore # 0 /\ diskErr' = ErrBefore /\ ReadSectEnd
      /\ UNCHANGED ioData /\ UNCHANGED fileVars
  BY DEF ReadSectFailed
<1>2. TypeOK /\ ioByteCnt < SectLen
  BY <1>1 DEF IInv, CountInsideSector
<1>3. /\ ioByteCnt' \in 0..CountBound /\ ioOpcode' \in Byte
      /\ ioOpcode' = READSECT => ioByteCnt' < SectLen
      /\ UNCHANGED <<trackSel, sectSel, diskSet>>
  BY <1>1, <1>2, ReadEndFacts
<1>4. ioData' \in Byte
  BY <1>1, RestFacts
<1>5. QED BY <1>1, <1>3, <1>4, FailedKeeps


-------------------------------------------------------------------------------
(* The invariant. *)

LEMMA InitEstablishes == Init => IInv
<1> SUFFICES ASSUME Init PROVE IInv
  OBVIOUS
<1>1. /\ ioOpcode = NOP /\ ioByteCnt = 0 /\ ioData = 0 /\ diskErr = 19
      /\ trackSel = 0 /\ sectSel = 0 /\ diskSet = InitDiskSet
      /\ size = InitSize /\ data = InitData /\ bufferSD = InitBuffer
      /\ fhandle = (IF BootImage = NoFile THEN NoHandle ELSE 0)
      /\ files = [s \in Slot |-> IF s = 0 THEN BootImage ELSE NoFile]
  BY DEF Init
<1>2. /\ InitSize \in [Image -> 0..Capacity] /\ InitData \in [Image -> Bytes]
      /\ InitBuffer \in [0..(SegLen - 1) -> Byte]
      /\ InitDiskSet \in Byte /\ BootImage \in Image \cup {NoFile}
  BY IosDiskAssumption DEF Bytes
<1>3. 0 \in Slot /\ NoHandle \notin Slot
  BY SdFileAssumption DEF Slot, NoHandle
<1>4. stream \in [Slot -> Stream]
  <2>1. At(0) \in Stream
    BY DEF At, Stream, Direction
  <2>2. fhandle \in Slot => [At(size[BootImage]) EXCEPT !.io = "read"] \in Stream
    <3>1. SUFFICES ASSUME fhandle \in Slot PROVE size[BootImage] \in Nat
      BY DEF At, Stream, Direction
    <3>2. BootImage \in Image
      BY <1>1, <1>2, <1>3, <3>1
    <3>3. Capacity \in Nat
      BY SdFileAssumption
    <3>4. QED BY <1>1, <1>2, <3>2, <3>3
  <2>3. stream = [s \in Slot |-> IF s = fhandle
                                 THEN [At(size[BootImage]) EXCEPT !.io = "read"] ELSE At(0)]
    BY DEF Init
  <2>4. QED BY <2>1, <2>2, <2>3
<1>12. saved \in [Image -> [len : 0..Capacity, bytes : Bytes]]
  <2>1. saved = [f \in Image |-> [len |-> size[f], bytes |-> data[f]]]
    BY DEF Init
  <2>2. QED BY <1>1, <1>2, <2>1
<1>5. SdTypeOK
  <2>1. files \in [Slot -> Image \cup {NoFile}] /\ fhandle \in Slot \cup {NoHandle}
    BY <1>1, <1>2, <1>3
  <2>2. QED BY <1>1, <1>2, <1>4, <1>12, <2>1 DEF SdTypeOK
<1>6. OneFileOpen
  <2>1. CASE BootImage = NoFile
    BY <1>1, <2>1 DEF OneFileOpen
  <2>2. CASE BootImage # NoFile
    <3>1. fhandle = 0 /\ fhandle # NoHandle
      BY <1>1, <1>3, <2>2
    <3>2. {s \in Slot : files[s] # NoFile} = {0}
      BY <1>1, <1>3, <2>2
    <3>3. QED BY <3>1, <3>2 DEF OneFileOpen
  <2>3. QED BY <2>1, <2>2
<1>7. ioOpcode \in Byte /\ ioOpcode \notin {READSECT, WRITESECT}
  BY <1>1 DEF NOP, READSECT, WRITESECT, Byte
<1>8. TypeOK
  <2>1. 0 \in Byte /\ 0 \in Word /\ 0 \in 0..CountBound
    BY IosDiskAssumption DEF Byte, Word
  <2>2. ioByteCnt \in 0..CountBound
    BY <1>1, <2>1
  <2>3. ioData \in Byte /\ trackSel \in Word /\ sectSel \in Byte /\ diskSet \in Byte
    BY <1>1, <1>2, <2>1
  <2>4. diskErr \in {0, 16, 17, 18, 19, 127, 255}
    BY <1>1
  <2>5. QED BY <1>5, <1>7, <2>2, <2>3, <2>4 DEF TypeOK
<1>9. CountInsideSector /\ ClosedImageIsNoticed
  BY <1>1, <1>7 DEF CountInsideSector, ClosedImageIsNoticed
<1>10. StreamFollowsTransfer /\ DirectionFollowsTransfer /\ BufferFollowsRead
  BY <1>7 DEF StreamFollowsTransfer, DirectionFollowsTransfer, Transferring, BufferFollowsRead
<1>11. QED BY <1>6, <1>8, <1>9, <1>10 DEF IInv

LEMMA StutterKeeps == ASSUME IInv, UNCHANGED vars PROVE IInv'
<1>1. UNCHANGED <<ioOpcode, ioByteCnt, ioData, diskErr, trackSel, sectSel, diskSet>>
  BY DEF vars, engineVars, selectVars
<1>2. UNCHANGED <<files, stream, fhandle, size, data, saved, bufferSD>>
  BY DEF vars, fileVars, imageVars
<1>3. SdTypeOK' /\ OneFileOpen' /\ IsOpen' = IsOpen
  BY <1>2, FilesKept DEF fileVars, imageVars
<1>4. TypeOK'
  BY <1>1, <1>3, RegistersTyped, RestFacts DEF TypeOK
<1>5. SectStart' = SectStart /\ AddressValid' = AddressValid
  BY <1>1, SectStartIsKept
<1>6. InSeg' = InSeg /\ Current' = Current /\ OnCourse' = OnCourse
  BY <1>1, <1>2, <1>3, <1>5 DEF InSeg, Current, OnCourse, Astray
<1>7. ClosedImageIsNoticed' /\ CountInsideSector'
  BY <1>1, <1>3, <1>5 DEF IInv, ClosedImageIsNoticed, CountInsideSector
<1>8. StreamFollowsTransfer' /\ DirectionFollowsTransfer'
  BY <1>1, <1>2, <1>3, <1>5, <1>6
  DEF IInv, StreamFollowsTransfer, DirectionFollowsTransfer, Transferring, StreamOffset
<1>9. BufferFollowsRead'
  BY <1>1, <1>2, <1>5, <1>6 DEF IInv, BufferFollowsRead
<1>10. QED BY <1>3, <1>4, <1>7, <1>8, <1>9 DEF IInv

LEMMA NextKeeps == IInv /\ [Next]_vars => IInv'
<1> SUFFICES ASSUME IInv, [Next]_vars PROVE IInv'
  OBVIOUS
<1>0. /\ GuestByte \subseteq Byte /\ Payload \subseteq Byte /\ GuestOpcode \subseteq Byte
      /\ \A b \in GuestByte : b < MaxTrack
  BY IosDiskAssumption
<1>1. ASSUME NEW op \in GuestOpcode, StoreOpcode(op) PROVE IInv'
  BY <1>0, <1>1, StoreOpcodeKeeps
<1>2. ASSUME NEW b \in GuestByte, SelDisk(b) PROVE IInv'
  BY <1>0, <1>2, SelDiskKeeps
<1>3. ASSUME NEW b \in GuestByte, SelTrackLow(b) PROVE IInv'
  BY <1>0, <1>3, SelTrackLowKeeps
<1>4. ASSUME NEW b \in GuestByte, SelTrackHigh(b) PROVE IInv'
  BY <1>0, <1>4, SelTrackHighKeeps
<1>5. ASSUME NEW b \in GuestByte, SelSect(b) PROVE IInv'
  BY <1>0, <1>5, SelSectKeeps
<1>6. ASSUME NEW b \in GuestByte, SelDiskSet(b) PROVE IInv'
  <2>1. /\ ioOpcode' = NOP /\ ioData' = b /\ diskSet' = b
        /\ UNCHANGED <<ioByteCnt, diskErr, trackSel, sectSel>> /\ UNCHANGED fileVars
    BY <1>6 DEF SelDiskSet
  <2>2. ioOpcode' \in Byte /\ ioOpcode' \notin {READSECT, WRITESECT}
    BY <2>1 DEF NOP, READSECT, WRITESECT, Byte
  <2>3. b \in Byte /\ ioByteCnt' \in 0..CountBound
    BY <1>0, <2>1, RegistersTyped
  <2>4. QED BY <2>1, <2>2, <2>3, ServiceKeeps
<1>7. ASSUME NEW b \in Payload, WriteSectIgnored(b) PROVE IInv'
  BY <1>0, <1>7, WriteIgnoredKeeps
<1>8. ASSUME NEW b \in Payload, WriteSectStored(b) PROVE IInv'
  BY <1>0, <1>8, WriteStoredKeeps
<1>9. ASSUME NEW b \in Payload, WriteSectFlushed(b) PROVE IInv'
  BY <1>0, <1>9, WriteFlushedKeeps
<1>10. CASE ReadSectFailed
  BY <1>10, ReadFailedKeeps
<1>11. CASE ReadSectFetched
  BY <1>11, ReadFetchedKeeps
<1>12. CASE ReadSectBuffered
  BY <1>12, ReadBufferedKeeps
<1>13. ASSUME NEW b \in Byte, Answer(b) PROVE IInv'
  <2>1. /\ ioOpcode' = NOP /\ ioData' = b
        /\ UNCHANGED <<ioByteCnt, diskErr, trackSel, sectSel, diskSet>> /\ UNCHANGED fileVars
    BY <1>13 DEF Answer, selectVars
  <2>2. ioOpcode' \in Byte /\ ioOpcode' \notin {READSECT, WRITESECT}
    BY <2>1 DEF NOP, READSECT, WRITESECT, Byte
  <2>3. ioByteCnt' \in 0..CountBound /\ diskSet' \in Byte
    BY <2>1, RegistersTyped, RestFacts
  <2>4. QED BY <2>1, <2>2, <2>3, ServiceKeeps
<1>14. CASE ErrDisk \/ SdMount \/ GetDiskSet
  <2>1. diskErr \in Byte /\ 0 \in Byte /\ diskSet \in Byte
    BY RegistersTyped, RestFacts DEF Byte
  <2>2. QED BY <1>13, <1>14, <2>1 DEF ErrDisk, SdMount, GetDiskSet
<1>15. ASSUME NEW b \in GuestByte, OtherWrite(b) PROVE IInv'
  <2>1. /\ ioOpcode' = (IF ioOpcode = RDWREEPROM THEN RDWREEPROM ELSE NOP) /\ ioData' = b
        /\ UNCHANGED <<ioByteCnt, diskErr, trackSel, sectSel, diskSet>> /\ UNCHANGED fileVars
    BY <1>15 DEF OtherWrite, selectVars
  <2>2. ioOpcode' \in Byte /\ ioOpcode' \notin {READSECT, WRITESECT}
    BY <2>1 DEF NOP, RDWREEPROM, READSECT, WRITESECT, Byte
  <2>3. b \in Byte /\ ioByteCnt' \in 0..CountBound /\ diskSet' \in Byte
    BY <1>0, <2>1, RegistersTyped, RestFacts
  <2>4. QED BY <2>1, <2>2, <2>3, ServiceKeeps
<1>16. ASSUME NEW b \in GuestByte \cup {ioData}, OtherRead(b) PROVE IInv'
  <2>1. /\ ioData' = b /\ UNCHANGED <<diskErr, trackSel, sectSel, diskSet>> /\ UNCHANGED fileVars
        /\ \/ ioOpcode' = NOP /\ ioByteCnt' = ioByteCnt
           \/ ioOpcode' \in {DATETIME, RDWREEPROM} /\ ioByteCnt' = Bump
    BY <1>16 DEF OtherRead, selectVars
  <2>2. ioOpcode' \in Byte /\ ioOpcode' \notin {READSECT, WRITESECT}
    BY <2>1 DEF NOP, RDWREEPROM, DATETIME, READSECT, WRITESECT, Byte
  <2>3. ioByteCnt' \in 0..CountBound
    BY <2>1, RegistersTyped
  <2>4. b \in Byte /\ diskSet' \in Byte
    BY <1>0, <2>1, RestFacts
  <2>5. QED BY <2>1, <2>2, <2>3, <2>4, ServiceKeeps
<1>17. ASSUME NEW b \in GuestByte, SerialRx(b) PROVE IInv'
  BY <1>0, <1>17, SerialRxKeeps
<1>18. CASE UNCHANGED vars
  BY <1>18, StutterKeeps
<1>19. QED
  BY <1>1, <1>2, <1>3, <1>4, <1>5, <1>6, <1>7, <1>8, <1>9, <1>10, <1>11, <1>12,
     <1>14, <1>15, <1>16, <1>17, <1>18 DEF Next

\* The inductive invariant holds of every program, card and geometry.
THEOREM InvariantHolds == Spec => []IInv
BY InitEstablishes, NextKeeps, PTL DEF Spec

\* Every variable keeps its type: the count stays within its bound, the streams
\* stay at positions of the card, the error code is one of seven.
THEOREM TypesHold == Spec => []TypeOK
<1>1. IInv => TypeOK
  BY DEF IInv
<1>2. QED BY <1>1, InvariantHolds, PTL

\* At most one slot of the file table is ever in use, the current handle's: the
\* table never fills up, whatever sequence of disks a program selects.
THEOREM OneFileOpenHolds == Spec => []OneFileOpen
<1>1. IInv => OneFileOpen
  BY DEF IInv
<1>2. QED BY <1>1, InvariantHolds, PTL

\* The stream stands where the exchanged bytes have brought it in the sector.
THEOREM StreamFollowsTransferHolds == Spec => []StreamFollowsTransfer
<1>1. IInv => StreamFollowsTransfer
  BY DEF IInv
<1>2. QED BY <1>1, InvariantHolds, PTL


-------------------------------------------------------------------------------
(* What a step may never do. *)

\* Only four steps move a stream, write to its file or read from it.
LEMMA QuietSteps ==
  ASSUME NEW b \in Byte, NEW op \in Byte,
         \/ StoreOpcode(op) \/ SelTrackLow(b) \/ SelTrackHigh(b) \/ SelSect(b)
         \/ SelDiskSet(b) \/ WriteSectIgnored(b) \/ ReadSectFailed \/ ReadSectBuffered
         \/ ErrDisk \/ SdMount \/ GetDiskSet \/ OtherWrite(b) \/ OtherRead(b) \/ SerialRx(b)
         \/ UNCHANGED vars
  PROVE  UNCHANGED <<stream, data>>
<1>1. CASE StoreOpcode(op) \/ SelTrackLow(b) \/ SelTrackHigh(b) \/ SelSect(b)
           \/ SelDiskSet(b)
  BY <1>1 DEF StoreOpcode, SelTrackLow, SelTrackHigh, SelSect, SelDiskSet, fileVars, imageVars
<1>2. CASE WriteSectIgnored(b) \/ ReadSectFailed \/ ReadSectBuffered
  BY <1>2 DEF WriteSectIgnored, ReadSectFailed, ReadSectBuffered, fileVars, imageVars
<1>3. CASE ErrDisk \/ SdMount \/ GetDiskSet
  BY <1>3 DEF ErrDisk, SdMount, GetDiskSet, Answer, fileVars, imageVars
<1>4. CASE OtherWrite(b) \/ OtherRead(b) \/ SerialRx(b)
  BY <1>4 DEF OtherWrite, OtherRead, SerialRx, fileVars, imageVars
<1>5. CASE UNCHANGED vars
  BY <1>5 DEF vars, fileVars, imageVars
<1>6. QED BY <1>1, <1>2, <1>3, <1>4, <1>5

LEMMA StepsThatMoveData ==
  ASSUME IInv, [Next]_vars
  PROVE  \/ UNCHANGED <<stream, data>>
         \/ \E b \in GuestByte : SelDisk(b)
         \/ \E b \in Payload : WriteSectStored(b) \/ WriteSectFlushed(b)
         \/ ReadSectFetched
<1>1. /\ GuestByte \subseteq Byte /\ GuestOpcode \subseteq Byte /\ Payload \subseteq Byte
      /\ ioData \in Byte /\ 0 \in Byte
  BY TypeFacts, RestFacts, OpcodesAreBytes
<1>2. QED BY <1>1, QuietSteps DEF Next

\* What a flushed segment changes.
LEMMA FlushIsInPlace ==
  ASSUME IInv, NEW b \in Byte, WriteSectFlushed(b) PROVE WritesInPlace
<1>1. ioOpcode = WRITESECT /\ ErrBefore = 0 /\ LastOfSeg
  BY DEF WriteSectFlushed
<1> TypeOK
  BY RestFacts
<1> DEFINE seg == [bufferSD EXCEPT ![InSeg] = b]
           st  == stream[fhandle]
<1>2. IsOpen /\ st \in Stream /\ (AddressValid /\ ~st.astray => InPlace(st))
  BY <1>1, TransferReady, FlushingDoesNotSeek
<1>3. PICK n \in Count : WriteSD(seg, n)
  BY DEF WriteSectFlushed
<1>4. st.pos \in Nat
  BY <1>2 DEF Stream
<1>5. Current \in Image
  BY <1>2, OpenFacts
<1>6. n \in 0..SegLen
  <2>1. Capacity \in Nat
    BY SdFileAssumption
  <2>2. n \in Moved(Left(Capacity, st.pos))
    BY <1>2, <1>3 DEF WriteSD
  <2>3. QED BY <1>4, <2>1, <2>2, MovedIsACount
<1>7. data' = [data EXCEPT ![Current] = Patched(data[Current], st.pos, seg, n)]
  BY <1>2, <1>3 DEF WriteSD
<1> HIDE DEF seg, st
<1>8. ASSUME NEW f \in Image, NEW i \in 0..(Capacity - 1), data'[f][i] # data[f][i]
      PROVE  f = Current /\ i \in st.pos..(st.pos + n - 1)
  <2>1. f = Current
    BY <1>5, <1>7, <1>8, TypeFacts
  <2>2. data'[f] = Patched(data[f], st.pos, seg, n)
    BY <1>5, <1>7, <2>1, TypeFacts
  <2>3. QED BY <1>8, <2>1, <2>2 DEF Patched
<1>10. SectStart \in Nat /\ ioByteCnt \in Nat /\ SegLen \in Nat
  BY SectStartIsNat, TypeFacts
<1>9. ASSUME AddressValid, ~st.astray
      PROVE  st.pos = SectStart + ioByteCnt + 1 - SegLen
  <2>1. st.pos = SectStart + StreamOffset
    BY <1>2, <1>9 DEF InPlace
  <2>2. StreamOffset = ioByteCnt - (SegLen - 1)
    BY <1>1 DEF StreamOffset, LastOfSeg
  <2>3. QED BY <1>10, <2>1, <2>2
<1>11. ASSUME AddressValid, ~st.astray, NEW i \in st.pos..(st.pos + n - 1)
       PROVE  i \in (SectStart + ioByteCnt + 1 - SegLen)..(SectStart + ioByteCnt)
  BY <1>4, <1>6, <1>9, <1>10, <1>11
<1>12. ~Astray <=> ~st.astray
  BY <1>2 DEF Astray, st
<1>13. QED BY <1>1, <1>2, <1>8, <1>11, <1>12 DEF WritesInPlace

LEMMA WritesStepInPlace == ASSUME IInv, [Next]_vars PROVE WritesInPlace
<1> TypeOK
  BY RestFacts
<1> DEFINE Loses ==
             \A f \in Image : \A i \in 0..(Capacity - 1) :
               data'[f][i] # data[f][i] =>
                 /\ IsOpen /\ f = Current
                 /\ MediaFaults /\ (Seeks \/ ioOpcode = SELDISK)
                 /\ i \in Unsaved /\ data'[f][i] = saved[f].bytes[i]
<1>1. CASE \E b \in Payload : WriteSectFlushed(b)
  BY <1>1, FlushIsInPlace, TypeFacts, RestFacts
<1>2. CASE UNCHANGED data
  BY <1>2 DEF WritesInPlace
<1>3. ASSUME NEW b \in GuestByte, SelDisk(b) PROVE Loses
  <2>1. ioOpcode = SELDISK
    BY <1>3 DEF SelDisk
  <2>2. CASE UNCHANGED fileVars
    BY <2>2 DEF fileVars, imageVars
  <2>3. CASE \E err \in {0, NOT_OPEN} : OpenSD(<<diskSet, b>>, err)
    <3>1. PICK err \in {0, NOT_OPEN} : OpenSD(<<diskSet, b>>, err)
      BY <2>3
    <3>2. SdTypeOK /\ OneFileOpen
      BY RestFacts
    <3>3. QED BY <2>1, <3>1, <3>2, OpenSDKeeps
  <2>4. QED BY <1>3, <2>2, <2>3 DEF SelDisk
<1>4. ASSUME NEW b \in Payload, WriteSectStored(b) PROVE Loses
  <2>1. ErrBefore = 0 /\ ioOpcode = WRITESECT
    BY <1>4 DEF WriteSectStored
  <2>2. IsOpen
    BY <2>1, TransferReady
  <2>3. CASE ~Seeks
    BY <1>4, <2>3 DEF WriteSectStored, imageVars
  <2>4. CASE Seeks
    <3>1. PICK st \in StreamBefore : ImagesBefore(st)
      BY <1>4, <2>4 DEF WriteSectStored
    <3>2. QED BY <2>2, <3>1, ImagesBeforeKeeps
  <2>5. QED BY <2>3, <2>4
<1>5. ASSUME ReadSectFetched PROVE Loses
  <2>1. ErrBefore = 0 /\ ioOpcode = READSECT
    BY <1>5 DEF ReadSectFetched
  <2>2. IsOpen
    BY <2>1, TransferReady
  <2>3. PICK st \in StreamBefore : ImagesBefore(st)
    BY <1>5 DEF ReadSectFetched
  <2>4. QED BY <2>2, <2>3, ImagesBeforeKeeps
<1>6. Loses => WritesInPlace
  BY DEF WritesInPlace
<1> HIDE DEF Loses
<1>7. QED BY <1>1, <1>2, <1>3, <1>4, <1>5, <1>6, StepsThatMoveData

\* A WRITESECT changes no byte outside the segment it has just received, and
\* nothing else changes any byte, unless the card fails: then a byte that was
\* written but not saved may be lost.
THEOREM WritesLandWhereAddressedHolds == Spec => WritesLandWhereAddressed
<1>1. IInv /\ [Next]_vars => [WritesInPlace]_vars
  BY WritesStepInPlace
<1>2. QED BY <1>1, InvariantHolds, PTL DEF Spec, WritesLandWhereAddressed

LEMMA ExchangesOfARead ==
  ASSUME IInv, [Next]_vars, ioOpcode = READSECT, ByteExchanged, diskErr' = 0
  PROVE  ReadSectFetched \/ ReadSectBuffered
<1>0. ioByteCnt' # ioByteCnt /\ ioByteCnt' # 0
  <2>1. ioByteCnt \in Nat
    BY TypeFacts, RestFacts
  <2>2. QED BY <2>1 DEF ByteExchanged
<1> USE <1>0 DEF READSECT
<1>1. \A op \in GuestOpcode : ~StoreOpcode(op)
  BY DEF StoreOpcode
<1>2. \A b \in GuestByte : ~SelDisk(b) /\ ~SelTrackLow(b) /\ ~SelTrackHigh(b)
                           /\ ~SelSect(b) /\ ~SelDiskSet(b)
  BY DEF SelDisk, SelTrackLow, SelTrackHigh, SelSect, SelDiskSet,
         SELDISK, SELTRACK, SELSECT, SELDISKSET
<1>3. \A b \in Payload : ~WriteSectIgnored(b) /\ ~WriteSectStored(b) /\ ~WriteSectFlushed(b)
  BY DEF WriteSectIgnored, WriteSectStored, WriteSectFlushed, WRITESECT
<1>4. ~ReadSectFailed
  BY DEF ReadSectFailed
<1>5. ~ErrDisk /\ ~SdMount /\ ~GetDiskSet
  BY DEF ErrDisk, SdMount, GetDiskSet, Answer
<1>6. \A b \in GuestByte : ~OtherWrite(b) /\ ~SerialRx(b)
  BY DEF OtherWrite, SerialRx
<1>7. \A b \in GuestByte \cup {ioData} : ~OtherRead(b)
  BY DEF OtherRead, DiskReadOps
<1>8. ~UNCHANGED vars
  BY DEF vars, engineVars
<1>9. QED BY <1>1, <1>2, <1>3, <1>4, <1>5, <1>6, <1>7, <1>8 DEF Next

\* The byte that a transfer hands out.
LEMMA ReadIsInPlace ==
  ASSUME IInv, ReadSectFetched \/ ReadSectBuffered, ioOpcode = READSECT, diskErr' = 0,
         AddressValid, ~Astray'
  PROVE  /\ IsOpen
         /\ SectStart + ioByteCnt < size[Current]
         /\ ioData' = data[Current][SectStart + ioByteCnt]
<1> TypeOK
  BY RestFacts
<1>0. SectStart \in Nat /\ ioByteCnt \in Nat /\ SegLen \in Nat \ {0}
  BY SectStartIsNat, TypeFacts
<1>1. CASE ReadSectFetched
  <2>1. ErrBefore = 0 /\ InSeg = 0 /\ ioData' = bufferSD'[0]
    BY <1>1 DEF ReadSectFetched
  <2>2. PICK st \in StreamBefore, n \in Count :
          ImagesBefore(st) /\ ReadSD(st, n) /\ diskErr' = TransferErr(n)
    BY <1>1 DEF ReadSectFetched
  <2>3. IsOpen /\ st \in Stream /\ (~st.astray => InPlace(st))
    BY <2>1, TransferReady
  <2>4. /\ size' \in [Image -> 0..Capacity] /\ data' \in [Image -> Bytes]
        /\ saved' \in [Image -> [len : 0..Capacity, bytes : Bytes]]
        /\ ~st.astray => UNCHANGED <<size, data>>
    BY <2>2, <2>3, ImagesBeforeKeeps
  <2>5. /\ n \in 0..SegLen /\ (n > 0 => st.pos + n <= size'[Current])
        /\ UNCHANGED <<files, fhandle>>
        /\ stream'[fhandle] = Advance(st, n, "read", "write")
        /\ \A i \in 0..(SegLen - 1) : i < n => bufferSD'[i] = data'[Current][st.pos + i]
    BY <2>2, <2>3, <2>4, RestFacts, ReadSDKeeps
  <2>6. n = SegLen
    BY <2>2, <2>5, NoErrorMovedAll
  <2>13. ~st.astray
    BY <2>3, <2>5 DEF Astray, IsOpen, Advance
  <2>7. st.pos = SectStart + ioByteCnt
    BY <1>0, <2>1, <2>3, <2>13 DEF InPlace, StreamOffset, READSECT, WRITESECT
  <2>8. size[Current] \in Nat
    <3>1. Current \in Image
      BY <2>3, OpenFacts
    <3>2. size[Current] \in 0..Capacity /\ Capacity \in Nat
      BY <3>1, TypeFacts
    <3>3. QED BY <3>2
  <2>14. UNCHANGED <<size, data>>
    BY <2>4, <2>13
  <2>9. SectStart + ioByteCnt + SegLen <= size[Current]
    BY <1>0, <2>5, <2>6, <2>7, <2>14
  <2>10. bufferSD'[0] = data[Current][SectStart + ioByteCnt + 0]
    BY <1>0, <2>5, <2>6, <2>7, <2>14
  <2>11. SectStart + ioByteCnt + 0 = SectStart + ioByteCnt
    BY <1>0
  <2>12. QED BY <1>0, <2>1, <2>3, <2>8, <2>9, <2>10, <2>11
<1>2. CASE ReadSectBuffered
  <2>1. ErrBefore = 0 /\ InSeg # 0 /\ ioData' = bufferSD[InSeg]
    BY <1>2 DEF ReadSectBuffered
  <2>2. IsOpen /\ diskErr = 0
    BY <2>1, TransferReady
  <2>10. OnCourse
    BY <1>2, <2>2 DEF ReadSectBuffered, OnCourse, Astray, IsOpen, fileVars
  <2> DEFINE from == SectStart + ioByteCnt - InSeg
  <2>3. /\ from + SegLen <= size[Current]
        /\ \A i \in 0..(SegLen - 1) : bufferSD[i] = data[Current][from + i]
    BY <2>1, <2>10 DEF IInv, BufferFollowsRead
  <2>4. InSeg \in 0..(SegLen - 1)
    BY InSegRange
  <2>5. size[Current] \in Nat
    <3>1. Current \in Image
      BY <2>2, OpenFacts
    <3>2. size[Current] \in 0..Capacity /\ Capacity \in Nat
      BY <3>1, TypeFacts
    <3>3. QED BY <3>2
  <2>6. from + InSeg = SectStart + ioByteCnt
    BY <1>0, <2>4
  <2>7. bufferSD[InSeg] = data[Current][from + InSeg]
    BY <2>3, <2>4
  <2>8. SectStart + ioByteCnt < size[Current]
    BY <1>0, <2>3, <2>4, <2>5
  <2>9. QED BY <2>1, <2>2, <2>6, <2>7, <2>8
<1>3. QED BY <1>1, <1>2

LEMMA ReadsStepInPlace == ASSUME IInv, [Next]_vars PROVE ReadsInPlace
BY ExchangesOfARead, ReadIsInPlace DEF ReadsInPlace

\* A READSECT byte without an error is the byte of the image at that place.
THEOREM ReadsAnswerTheAddressedByteHolds == Spec => ReadsAnswerTheAddressedByte
<1>1. IInv /\ [Next]_vars => [ReadsInPlace]_vars
  BY ReadsStepInPlace
<1>2. QED BY <1>1, InvariantHolds, PTL DEF Spec, ReadsAnswerTheAddressedByte

\* What the step of a transfer leaves of a stream that got where it should.
LEMMA DirectionStaysDefined ==
  ASSUME IInv, ioOpcode \in {READSECT, WRITESECT}, ErrBefore = 0, AddressValid,
         NEW st \in StreamBefore, ~st.astray, NEW n
  PROVE  /\ st.io # "undefined"
         /\ ioOpcode = WRITESECT => Advance(st, n, "write", "read").io # "undefined"
         /\ ioOpcode = READSECT => Advance(st, n, "read", "write").io # "undefined"
<1>1. InPlace(st)
  BY TransferReady
<1>2. QED BY <1>1 DEF InPlace, Advance, READSECT, WRITESECT

LEMMA StreamsStepDefined == ASSUME IInv, [Next]_vars PROVE StreamsStayDefined
<1> SUFFICES ASSUME AddressValid, ~Astray', NEW s \in Slot,
                    stream'[s].io = "undefined", stream[s].io # "undefined"
             PROVE  FALSE
  BY DEF StreamsStayDefined
<1> TypeOK
  BY RestFacts
<1>1. CASE UNCHANGED stream
  BY <1>1
<1>2. ASSUME NEW b \in GuestByte, SelDisk(b) PROVE FALSE
  <2>1. UNCHANGED stream \/ \E t : stream' = [stream EXCEPT ![t] = At(0)]
    BY <1>2 DEF SelDisk, OpenSD, fileVars
  <2>2. PICK t : stream' = [stream EXCEPT ![t] = At(0)]
    BY <1>1, <2>1
  <2>3. stream'[s] = stream[s] \/ stream'[s] = At(0)
    BY <2>2, TypeFacts
  <2>4. QED BY <2>3 DEF At
<1>7. ASSUME IsOpen, UNCHANGED <<files, fhandle>>, NEW st, st.astray = FALSE => st.io # "undefined",
             st.astray \in BOOLEAN, stream' = [stream EXCEPT ![fhandle] = st]
      PROVE  FALSE
  <2>1. fhandle \in Slot /\ stream'[fhandle] = st
    BY <1>7, OpenFacts, TypeFacts
  <2>2. st.astray = FALSE
    BY <1>7, <2>1 DEF Astray, IsOpen
  <2>3. stream'[s] = stream[s] \/ stream'[s] = st
    BY <1>7, TypeFacts
  <2>4. QED BY <1>7, <2>2, <2>3
<1>3. ASSUME NEW b \in Payload, WriteSectStored(b) PROVE FALSE
  <2>1. ioOpcode = WRITESECT /\ ErrBefore = 0 /\ UNCHANGED <<files, fhandle>>
    BY <1>3 DEF WriteSectStored
  <2>2. PICK st \in StreamBefore : stream' = [stream EXCEPT ![fhandle] = st]
    BY <1>1, <1>3 DEF WriteSectStored
  <2>3. IsOpen /\ st \in Stream
    BY <2>1, TransferReady
  <2>4. st.astray \in BOOLEAN
    BY <2>3, TypeFacts, SdFileAssumption DEF Stream
  <2>5. st.astray = FALSE => st.io # "undefined"
    BY <2>1, DirectionStaysDefined
  <2>6. QED BY <1>7, <2>1, <2>2, <2>3, <2>4, <2>5
<1>4. ASSUME NEW b \in Payload, WriteSectFlushed(b) PROVE FALSE
  <2>1. ioOpcode = WRITESECT /\ ErrBefore = 0 /\ LastOfSeg
    BY <1>4 DEF WriteSectFlushed
  <2>2. IsOpen /\ stream[fhandle] \in StreamBefore /\ stream[fhandle] \in Stream
    BY <2>1, TransferReady, FlushingDoesNotSeek
  <2> DEFINE st == stream[fhandle]
  <2>3. PICK n \in Count : /\ stream' = [stream EXCEPT ![fhandle] = Advance(st, n, "write", "read")]
                           /\ UNCHANGED <<files, fhandle>>
    BY <1>4, <2>2 DEF WriteSectFlushed, WriteSD
  <2> DEFINE next == Advance(st, n, "write", "read")
  <2>4. next.astray = st.astray /\ st.astray \in BOOLEAN
    BY <2>2, SdFileAssumption DEF Advance, Stream
  <2>5. st.astray = FALSE => next.io # "undefined"
    BY <2>1, <2>2, DirectionStaysDefined
  <2> HIDE DEF next
  <2>6. stream' = [stream EXCEPT ![fhandle] = next] /\ UNCHANGED <<files, fhandle>>
    BY <2>3 DEF next
  <2> HIDE DEF st
  <2>7. QED BY <1>7, <2>2, <2>4, <2>5, <2>6
<1>5. ASSUME ReadSectFetched PROVE FALSE
  <2>1. ioOpcode = READSECT /\ ErrBefore = 0
    BY <1>5 DEF ReadSectFetched
  <2>2. PICK st \in StreamBefore, n \in Count : ReadSD(st, n)
    BY <1>5 DEF ReadSectFetched
  <2>3. IsOpen /\ st \in Stream
    BY <2>1, TransferReady
  <2> DEFINE next == Advance(st, n, "read", "write")
  <2>4. next.astray = st.astray /\ st.astray \in BOOLEAN
    BY <2>3, SdFileAssumption DEF Advance, Stream
  <2>5. st.astray = FALSE => next.io # "undefined"
    BY <2>1, DirectionStaysDefined
  <2> HIDE DEF next
  <2>6. stream' = [stream EXCEPT ![fhandle] = next] /\ UNCHANGED <<files, fhandle>>
    BY <2>2, <2>3 DEF next, ReadSD
  <2>7. QED BY <1>7, <2>3, <2>4, <2>5, <2>6
<1>6. QED BY <1>1, <1>2, <1>3, <1>4, <1>5, StepsThatMoveData

\* The engine never uses one stream of C both ways without a seek in between.
THEOREM StreamsUsedAsCAllowsHolds == Spec => StreamsUsedAsCAllows
<1>1. IInv /\ [Next]_vars => [StreamsStayDefined]_vars
  BY StreamsStepDefined
<1>2. QED BY <1>1, InvariantHolds, PTL DEF Spec, StreamsUsedAsCAllows

===============================================================================
