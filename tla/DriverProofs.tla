----------------------------- MODULE DriverProofs -----------------------------
(***************************************************************************)
(* Theorems about a program that uses the disk engine as documented, for   *)
(* every geometry, every card and every set of sectors: on a card that     *)
(* works it gets a block device, and on one that fails a block device with *)
(* the two failures nobody is told of, a request misled by a seek and a    *)
(* block lost that was written last.  See the README for the argument.     *)
(***************************************************************************)
EXTENDS DiskDriver, IosDiskProofs

-------------------------------------------------------------------------------
(* The inductive invariant. *)

Place == {"idle", "SELDISK", "disk", "SELTRACK", "low", "high", "SELSECT", "sector",
          "transfer", "byte", "ERRDISK", "error"}

\* How far a request has come.
Opened    == at \notin {"idle", "SELDISK", "disk"}
TrackSet  == at \in {"SELSECT", "sector", "transfer", "byte", "ERRDISK", "error"}
Moving    == at \in {"byte", "ERRDISK", "error"}
Addressed == at = "transfer" \/ Moving

\* What the program keeps.
ProgramOK ==
  /\ at \in Place
  /\ IF at = "idle" THEN req = NoReq ELSE req \in Request /\ reply = NoReply
  /\ got \in [0..(SectLen - 1) -> Byte]
  /\ faulted \in BOOLEAN
  /\ k \in Nat
  /\ IF at = "byte" THEN k < SectLen ELSE k = IF Moving THEN SectLen ELSE 0

\* The engine's selections are those of the request as far as it has come, and what
\* the program leaves out is as it remembers.
Selected ==
  /\ diskSet = InitDiskSet
  /\ Opened /\ IsOpen => Current = <<diskSet, disk>>
  /\ at = "idle" /\ known # Unknown =>
       IsOpen /\ Current = <<diskSet, known[1]>> /\ trackSel = known[2]
  /\ at = "low" => ioByteCnt = 0
  /\ at = "high" => ioByteCnt = 1 /\ trackSel = track % 256
  /\ TrackSet => trackSel = track
  /\ Addressed => sectSel = sector
  /\ at = "transfer" => diskErr = 0

\* Files do not shrink, not even by what was never saved.
FilesStay == \A f \in Image : size[f] >= InitSize[f] /\ saved[f].len >= InitSize[f]

\* Without a failure of the card, nothing has gone wrong.
NothingWrong ==
  /\ faulted => MediaFaults
  /\ Moving /\ k > 0 /\ Astray => faulted
  /\ Opened /\ ~faulted => IsOpen
  /\ Addressed /\ ~faulted => diskErr = 0
  /\ reply = Failure => faulted
  /\ Moving /\ k > 0 /\ diskErr = 0 => IsOpen

Base == Offset(req.block[2])
Whole == k - (k % SegLen)    \* the bytes of the segments that are complete

\* The bytes read are those of the block, and those written are in the block or,
\* for the segment being filled, in the buffer.
BytesMoved ==
  Moving /\ diskErr = 0 /\ ~Astray =>
    IF req.op = "read"
    THEN \A j \in 0..(SectLen - 1) : j < k => got[j] = data[<<diskSet, disk>>][Base + j]
    ELSE /\ \A j \in 0..(SectLen - 1) :
              j < Whole => data[<<diskSet, disk>>][Base + j] = req.value[j]
         /\ \A i \in 0..(SegLen - 1) : i < k % SegLen => bufferSD[i] = req.value[Whole + i]

\* What is still to be written out belongs to the block being written.
OwnUnsaved ==
  Moving /\ k > 0 /\ diskErr = 0 /\ ~Astray =>
    LET st == stream[fhandle]
    IN  IF req.op = "read" THEN st.from = st.pos
        ELSE st.from = Base /\ st.pos <= Base + SectLen

DInv ==
  /\ IInv
  /\ ProgramOK
  /\ Selected
  /\ CountsAgree
  /\ FilesStay
  /\ NothingWrong
  /\ BytesMoved
  /\ OwnUnsaved

-------------------------------------------------------------------------------
(* Requests and the sectors they name. *)

LEMMA RequestFacts ==
  ASSUME req \in Request
  PROVE  /\ req.block \in Block /\ req.op \in {"read", "write"}
         /\ disk \in Byte /\ disk <= maxDiskNum
         /\ track \in Nat /\ track < MaxTrack /\ track < 65536
         /\ sector \in Byte /\ sector < MaxSect
         /\ req.op = "write" => req.block \in Writable /\ req.value = BlockValue
         /\ req.op = "write" => req.value \in [0..(SectLen - 1) -> Byte]
<1>1. /\ MaxTrack \in Nat /\ MaxSect \in Nat /\ maxDiskNum \in 0..255
      /\ MaxTrack <= 65536 /\ MaxSect <= 256
  BY IosDiskAssumption, DriverAssumption DEF Byte
<1>2. /\ Block \subseteq (0..maxDiskNum) \X ((0..(MaxTrack - 1)) \X (0..(MaxSect - 1)))
      /\ Writable \subseteq Block /\ BlockValue \in [0..(SectLen - 1) -> Byte]
  BY DriverAssumption
<1>3. /\ req.block \in Block /\ req.op \in {"read", "write"}
      /\ req.op = "write" => req.block \in Writable /\ req.value = BlockValue
  BY <1>2 DEF Request
<1>4. disk \in 0..maxDiskNum /\ track \in 0..(MaxTrack - 1) /\ sector \in 0..(MaxSect - 1)
  BY <1>2, <1>3 DEF disk, track, sector
<1>5. disk \in Byte /\ disk <= maxDiskNum
  BY <1>1, <1>4 DEF Byte
<1>6. track \in Nat /\ track < MaxTrack /\ track < 65536
  BY <1>1, <1>4
<1>7. sector \in Byte /\ sector < MaxSect
  BY <1>1, <1>4 DEF Byte
<1>8. QED BY <1>2, <1>3, <1>5, <1>6, <1>7

\* A block the program uses lies inside its file, as the file was at the start.
LEMMA BlocksLieInFiles ==
  ASSUME NEW b \in Block
  PROVE  /\ <<InitDiskSet, b[1]>> \in Image
         /\ Offset(b[2]) \in Nat /\ SectLen \in Nat \ {0} /\ Capacity \in Nat
         /\ InitSize[<<InitDiskSet, b[1]>>] \in Nat
         /\ Offset(b[2]) + SectLen <= InitSize[<<InitDiskSet, b[1]>>]
         /\ Offset(b[2]) + SectLen <= Capacity
<1>1. /\ MaxTrack \in Nat /\ MaxSect \in Nat /\ SectLen \in Nat \ {0} /\ Capacity \in Nat
      /\ b \in (0..maxDiskNum) \X ((0..(MaxTrack - 1)) \X (0..(MaxSect - 1)))
      /\ <<InitDiskSet, b[1]>> \in Image
      /\ Offset(b[2]) + SectLen <= InitSize[<<InitDiskSet, b[1]>>]
      /\ InitSize \in [Image -> 0..Capacity]
  BY SdFileAssumption, IosDiskAssumption, DriverAssumption
<1>2. InitSize[<<InitDiskSet, b[1]>>] \in Nat /\ InitSize[<<InitDiskSet, b[1]>>] <= Capacity
  BY <1>1
<1>3. b[2][1] \in Nat /\ b[2][2] \in Nat
  BY <1>1
<1>4. b[2][1] * MaxSect \in Nat
  BY <1>1, <1>3
<1>5. (b[2][1] * MaxSect + b[2][2]) * SectLen \in Nat
  BY <1>1, <1>3, <1>4
<1>6. Offset(b[2]) \in Nat
  BY <1>5 DEF Offset
<1>7. QED BY <1>1, <1>2, <1>6

\* Different sectors of an image share no byte.
LEMMA SectorsAreDisjoint ==
  ASSUME NEW b \in Block, NEW c \in Block, NEW i \in 0..(SectLen - 1),
         NEW j \in 0..(SectLen - 1), Offset(b[2]) + i = Offset(c[2]) + j
  PROVE  b[2] = c[2]
<1>1. /\ MaxTrack \in Nat /\ MaxSect \in Nat \ {0} /\ SectLen \in Nat \ {0}
      /\ Block \subseteq (0..maxDiskNum) \X ((0..(MaxTrack - 1)) \X (0..(MaxSect - 1)))
  BY IosDiskAssumption, DriverAssumption
<1>2. PICK t \in Nat, s \in 0..(MaxSect - 1) : b[2] = <<t, s>>
  BY <1>1
<1>3. PICK u \in Nat, v \in 0..(MaxSect - 1) : c[2] = <<u, v>>
  BY <1>1
<1> DEFINE x == t * MaxSect + s
           y == u * MaxSect + v
<1>4. x \in Nat /\ y \in Nat
  BY <1>1
<1>5. Offset(b[2]) = x * SectLen /\ Offset(c[2]) = y * SectLen
  BY <1>2, <1>3 DEF Offset
<1>6. x = y
  <2> HIDE DEF x, y
  <2>1. SectLen * x + i = SectLen * y + j
    BY <1>1, <1>4, <1>5
  <2>2. QED BY <1>1, <1>4, <2>1, DivisionIsUnique
<1>7. MaxSect * t + s = MaxSect * u + v
  BY <1>1, <1>6
<1>8. t = u /\ s = v
  BY <1>1, <1>7, DivisionIsUnique
<1>9. QED BY <1>2, <1>3, <1>8

\* The segment a byte of a sector lies in does not reach beyond the sector.
LEMMA SegmentFits ==
  ASSUME NEW c \in Nat, c < SectLen
  PROVE  /\ c % SegLen \in 0..(SegLen - 1) /\ c - (c % SegLen) \in Nat
         /\ c - (c % SegLen) + SegLen <= SectLen
<1>1. /\ SegLen \in Nat \ {0} /\ SectLen \in Nat /\ SectLen % SegLen = 0
  BY SdFileAssumption, IosDiskAssumption
<1>2. PICK q \in Nat : SectLen = SegLen * q
  <2>1. SectLen \div SegLen \in Nat /\ SectLen = SegLen * (SectLen \div SegLen) + 0
    BY <1>1, DivisionHolds
  <2>2. QED BY <1>1, <2>1
<1>3. PICK a \in Nat : c = SegLen * a + (c % SegLen)
  BY <1>1, DivisionHolds
<1>4. c % SegLen \in 0..(SegLen - 1)
  BY <1>1, DivisionHolds
<1>5. a < q
  <2>1. SUFFICES ASSUME a >= q PROVE FALSE
    OBVIOUS
  <2>2. PICK d \in Nat : a = q + d
    <3>1. a - q \in Nat /\ a = q + (a - q)
      BY <2>1
    <3>2. QED BY <3>1
  <2>3. SegLen * a = SegLen * q + SegLen * d /\ SegLen * d \in Nat
    BY <1>1, <2>2
  <2>4. QED BY <1>2, <1>3, <1>4, <2>3
<1>6. PICK d \in Nat : q = a + 1 + d
  <2>1. q - a - 1 \in Nat /\ q = a + 1 + (q - a - 1)
    BY <1>5
  <2>2. QED BY <2>1
<1>7. SegLen * q = SegLen * a + SegLen + SegLen * d /\ SegLen * d \in Nat /\ SegLen * a \in Nat
  BY <1>1, <1>6
<1>8. QED BY <1>1, <1>2, <1>3, <1>4, <1>7

\* A flushed segment that came back without an error is in the image.
LEMMA FlushStores ==
  ASSUME IInv, NEW b \in Byte, WriteSectFlushed(b), diskErr' = 0, AddressValid, ~Astray,
         NEW i \in 0..(SegLen - 1)
  PROVE  data'[Current][SectStart + (ioByteCnt - InSeg) + i]
           = [bufferSD EXCEPT ![InSeg] = b][i]
<1>1. ioOpcode = WRITESECT /\ ErrBefore = 0 /\ LastOfSeg
  BY DEF WriteSectFlushed
<1>3. TypeOK /\ SdTypeOK
  BY RestFacts
<1> DEFINE seg == [bufferSD EXCEPT ![InSeg] = b]
           from == stream[fhandle].pos
<1>2. IsOpen /\ stream[fhandle] \in Stream /\ from = SectStart + (ioByteCnt - InSeg)
  <2>1. IsOpen /\ stream[fhandle] \in StreamBefore
    BY <1>1, <1>3, TransferReady, FlushingDoesNotSeek
  <2>2. ~stream[fhandle].astray
    BY <2>1 DEF Astray
  <2>3. stream[fhandle] \in Stream /\ InPlace(stream[fhandle])
    BY <1>1, <2>1, <2>2, TransferReady
  <2>4. QED BY <1>1, <2>1, <2>3 DEF InPlace, StreamOffset
<1>4. PICK n \in Count : WriteSD(seg, n) /\ diskErr' = TransferErr(n)
  BY DEF WriteSectFlushed
<1>5. from \in Nat
  BY <1>2 DEF Stream
<1>6. /\ n \in Moved(Left(Capacity, from))
      /\ data' = [data EXCEPT ![Current] = Patched(@, from, seg, n)]
  BY <1>2, <1>4 DEF WriteSD
<1>7. Capacity \in Nat /\ SegLen \in Nat \ {0}
  BY SdFileAssumption
<1>8. n = SegLen /\ from + SegLen <= Capacity
  <2>1. n \in 0..SegLen /\ (n > 0 => from + n <= Capacity)
    BY <1>5, <1>6, <1>7, MovedIsACount
  <2>2. n = SegLen
    BY <1>4, <2>1, NoErrorMovedAll
  <2>3. QED BY <1>7, <2>1, <2>2
<1>9. Current \in Image /\ data \in [Image -> Bytes]
  BY <1>2, <1>3, OpenFacts, TypeFacts
<1> HIDE DEF seg, from
<1>10. data'[Current] = Patched(data[Current], from, seg, SegLen)
  BY <1>6, <1>8, <1>9
<1>11. from + i \in 0..(Capacity - 1) /\ from + i \in from..(from + SegLen - 1)
       /\ (from + i) - from = i
  BY <1>5, <1>7, <1>8
<1>12. data'[Current][from + i] = seg[i]
  BY <1>10, <1>11 DEF Patched
<1>13. QED BY <1>2, <1>12 DEF seg

-------------------------------------------------------------------------------
(* Every access keeps the invariant. *)

LEMMA InvFacts ==
  ASSUME DInv
  PROVE  /\ IInv /\ ProgramOK /\ Selected /\ CountsAgree /\ FilesStay /\ NothingWrong
         /\ BytesMoved /\ OwnUnsaved /\ TypeOK /\ SdTypeOK /\ OneFileOpen
         /\ SectLen \in Nat \ {0} /\ SegLen \in Nat \ {0}
<1>1. /\ IInv /\ ProgramOK /\ Selected /\ CountsAgree /\ FilesStay /\ NothingWrong
      /\ BytesMoved /\ OwnUnsaved
  BY DEF DInv
<1>2. QED BY <1>1, RestFacts, TypeFacts

\* An access that leaves the files alone, and is no byte of a sector.
LEMMA AccessKeeps ==
  ASSUME DInv, NEW here \in Place \ {"idle", "disk", "byte", "error"},
         NEW next \in Place \ {"idle", "ERRDISK"},
         next = "byte" <=> here = "transfer", next = "error" <=> here = "ERRDISK",
         Goes(here, next), UNCHANGED diskSet, UNCHANGED fileVars, RecordsFaults
  PROVE  /\ at = here /\ at' = next
         /\ req \in Request /\ UNCHANGED <<req, k, got, reply>> /\ faulted' = faulted
         /\ disk' = disk /\ track' = track /\ sector' = sector
         /\ IsOpen' = IsOpen /\ Current' = Current /\ Astray' = Astray
         /\ UNCHANGED <<stream, fhandle>>
         /\ ProgramOK' /\ FilesStay'
<1>1. /\ at = here /\ at' = next /\ UNCHANGED <<req, k, got, reply>>
  BY DEF Goes
<1>2. ProgramOK /\ FilesStay
  BY InvFacts
<1>3. req \in Request /\ reply = NoReply
  BY <1>1, <1>2 DEF ProgramOK
<1>4. ~Faults
  BY <1>1 DEF Faults, OpenFault, SeekFault, MoveFault
<1>5. faulted' = faulted
  BY <1>1, <1>2, <1>4 DEF RecordsFaults, ProgramOK
<1>6. disk' = disk /\ track' = track /\ sector' = sector
  BY <1>1 DEF disk, track, sector
<1>7. IsOpen' = IsOpen /\ Current' = Current /\ Astray' = Astray /\ UNCHANGED <<stream, fhandle>>
  BY DEF fileVars, IsOpen, Current, Astray
<1>8. FilesStay'
  BY <1>2 DEF FilesStay, fileVars, imageVars
<1>9. ProgramOK'
  <2>1. SectLen \in Nat \ {0}
    BY InvFacts
  <2>2. k = IF Moving THEN SectLen ELSE 0
    BY <1>1, <1>2 DEF ProgramOK
  <2>3. IF at' = "byte" THEN k < SectLen ELSE k = IF Moving' THEN SectLen ELSE 0
    BY <1>1, <2>1, <2>2 DEF Moving
  <2>4. QED BY <1>1, <1>2, <1>3, <1>5, <2>3 DEF ProgramOK
<1>10. QED BY <1>1, <1>3, <1>5, <1>6, <1>7, <1>8, <1>9

\* What an opcode's access leaves alone.
LEMMA OpcodeFacts ==
  ASSUME DInv, NEW here \in Place \ {"idle", "disk", "byte", "error"},
         NEW next \in Place \ {"idle", "ERRDISK"},
         next = "byte" <=> here = "transfer", next = "error" <=> here = "ERRDISK",
         NEW op \in Byte, Opcode(here, op, next), RecordsFaults
  PROVE  /\ Goes(here, next) /\ IInv' /\ ioByteCnt' = 0 /\ ioOpcode' = op
         /\ UNCHANGED <<diskErr, trackSel, sectSel, diskSet, fhandle, files, data, bufferSD>>
         /\ UNCHANGED fileVars
<1>1. Goes(here, next) /\ StoreOpcode(op)
  BY DEF Opcode
<1>2. IInv'
  BY <1>1, StoreOpcodeKeeps, InvFacts
<1>3. QED BY <1>1, <1>2 DEF StoreOpcode, selectVars, fileVars, imageVars

LEMMA DiskOpcodesAreBytes ==
  /\ SELDISK \in Byte /\ SELTRACK \in Byte /\ SELSECT \in Byte /\ ERRDISK \in Byte
  /\ READSECT \in Byte /\ WRITESECT \in Byte
BY DEF SELDISK, SELTRACK, SELSECT, ERRDISK, READSECT, WRITESECT, Byte

\* The opcodes of the selections.
LEMMA SelectOpcodeKeeps ==
  ASSUME DInv, RecordsFaults, NEW op \in Byte,
         NEW here \in {"SELDISK", "SELTRACK", "SELSECT"}, NEW next \in {"disk", "low", "sector"},
         next = "disk" <=> here = "SELDISK", next = "sector" <=> here = "SELSECT",
         Opcode(here, op, next)
  PROVE  DInv' /\ UNCHANGED <<req, reply, k, diskSet>> /\ UNCHANGED fileVars
<1>2. here \in Place \ {"idle", "disk", "byte", "error"} /\ next \in Place \ {"idle", "ERRDISK"}
  BY DEF Place
<1>3. (next = "byte" <=> here = "transfer") /\ (next = "error" <=> here = "ERRDISK")
  OBVIOUS
<1>4. /\ Goes(here, next) /\ IInv' /\ ioByteCnt' = 0
      /\ UNCHANGED <<diskErr, trackSel, sectSel, diskSet, fhandle, files, data, bufferSD>>
      /\ UNCHANGED fileVars
  BY <1>2, <1>3, OpcodeFacts
<1>5. /\ at = here /\ at' = next /\ UNCHANGED <<req, k, got, reply>> /\ faulted' = faulted
      /\ disk' = disk /\ track' = track /\ sector' = sector
      /\ IsOpen' = IsOpen /\ Current' = Current /\ ProgramOK' /\ FilesStay'
      /\ Astray' = Astray /\ UNCHANGED <<stream, fhandle>>
  BY <1>2, <1>3, <1>4, AccessKeeps
<1>6. /\ ~Moving' /\ ~Addressed' /\ at' \notin {"idle", "high", "transfer", "byte"}
      /\ (Opened' => Opened) /\ (TrackSet' => TrackSet)
  BY <1>5 DEF Moving, Addressed, Opened, TrackSet
<1>7. Selected' /\ NothingWrong' /\ CountsAgree' /\ BytesMoved' /\ OwnUnsaved'
  <2>1. Selected /\ NothingWrong
    BY InvFacts
  <2>2. Selected'
    BY <1>4, <1>5, <1>6, <2>1 DEF Selected
  <2>3. NothingWrong'
    BY <1>4, <1>5, <1>6, <2>1 DEF NothingWrong
  <2>4. QED BY <1>6, <2>2, <2>3 DEF CountsAgree, BytesMoved, OwnUnsaved
<1>8. QED BY <1>4, <1>5, <1>7 DEF DInv

\* READSECT or WRITESECT is stored: the transfer starts at the first byte.
LEMMA StartTransferKeeps ==
  ASSUME DInv, RecordsFaults, StartTransfer
  PROVE  DInv' /\ UNCHANGED <<req, reply, k, diskSet>> /\ UNCHANGED fileVars
<1> DEFINE op == IF req.op = "read" THEN READSECT ELSE WRITESECT
<1>1. Opcode("transfer", op, "byte")
  BY DEF StartTransfer
<1>2. op \in Byte
  BY DiskOpcodesAreBytes
<1> HIDE DEF op
<1>3. /\ Goes("transfer", "byte") /\ IInv' /\ ioByteCnt' = 0 /\ ioOpcode' = op
      /\ UNCHANGED <<diskErr, trackSel, sectSel, diskSet, fhandle, files, data, bufferSD>>
      /\ UNCHANGED fileVars
  BY <1>1, <1>2, OpcodeFacts DEF Place
<1>4. /\ at = "transfer" /\ at' = "byte" /\ UNCHANGED <<req, k, got, reply>>
      /\ faulted' = faulted /\ disk' = disk /\ track' = track /\ sector' = sector
      /\ IsOpen' = IsOpen /\ Current' = Current /\ ProgramOK' /\ FilesStay'
      /\ Astray' = Astray /\ UNCHANGED <<stream, fhandle>>
  BY <1>3, AccessKeeps DEF Place
<1>5. k = 0 /\ k' = 0
  BY <1>4, InvFacts DEF ProgramOK, Moving
<1>6. Selected'
  BY <1>3, <1>4, InvFacts DEF Selected, Opened, TrackSet, Addressed, Moving
<1>7. NothingWrong'
  BY <1>3, <1>4, <1>5, InvFacts DEF NothingWrong, Opened, Addressed, Moving
<1>8. CountsAgree'
  BY <1>3, <1>4, <1>5 DEF CountsAgree, op
<1>9. BytesMoved'
  <2>1. SegLen \in Nat \ {0}
    BY InvFacts
  <2>2. k' % SegLen = 0 /\ Whole' = 0
    BY <1>5, <2>1 DEF Whole
  <2>3. QED BY <1>5, <2>1, <2>2 DEF BytesMoved
<1>11. OwnUnsaved'
  BY <1>5 DEF OwnUnsaved
<1>10. QED BY <1>3, <1>4, <1>6, <1>7, <1>8, <1>9, <1>11 DEF DInv

\* ERRDISK is stored.
LEMMA AskErrorKeeps ==
  ASSUME DInv, RecordsFaults, AskError
  PROVE  DInv' /\ UNCHANGED <<req, reply, k, diskSet>> /\ UNCHANGED fileVars
<1>1. Opcode("ERRDISK", ERRDISK, "error") /\ ERRDISK \in Byte
  BY DiskOpcodesAreBytes DEF AskError
<1>2. /\ Goes("ERRDISK", "error") /\ IInv' /\ ioByteCnt' = 0 /\ ioOpcode' = ERRDISK
      /\ UNCHANGED <<diskErr, trackSel, sectSel, diskSet, fhandle, files, data, bufferSD>>
      /\ UNCHANGED fileVars
  BY <1>1, OpcodeFacts DEF Place
<1>3. /\ at = "ERRDISK" /\ at' = "error" /\ UNCHANGED <<req, k, got, reply>>
      /\ faulted' = faulted /\ disk' = disk /\ track' = track /\ sector' = sector
      /\ IsOpen' = IsOpen /\ Current' = Current /\ ProgramOK' /\ FilesStay'
      /\ Astray' = Astray /\ UNCHANGED <<stream, fhandle>>
  BY <1>2, AccessKeeps DEF Place
<1>4. Selected'
  BY <1>2, <1>3, InvFacts DEF Selected, Opened, TrackSet, Addressed, Moving
<1>5. NothingWrong'
  BY <1>2, <1>3, InvFacts DEF NothingWrong, Opened, Addressed, Moving
<1>6. CountsAgree'
  BY <1>3 DEF CountsAgree
<1>7. BytesMoved'
  <2>1. Moving /\ Moving' /\ diskErr' = diskErr /\ Base' = Base /\ Whole' = Whole
    BY <1>2, <1>3 DEF Moving, Base, Whole
  <2>2. BytesMoved
    BY InvFacts
  <2>3. QED BY <1>2, <1>3, <2>1, <2>2 DEF BytesMoved
<1>9. OwnUnsaved'
  <2>1. Moving /\ Base' = Base
    BY <1>3 DEF Moving, Base
  <2>2. QED BY <1>2, <1>3, <2>1, InvFacts DEF OwnUnsaved
<1>8. QED BY <1>2, <1>3, <1>4, <1>5, <1>6, <1>7, <1>9 DEF DInv

\* The track, low byte first.
LEMMA TrackLowKeeps ==
  ASSUME DInv, RecordsFaults, Goes("low", "high"), SelTrackLow(track % 256)
  PROVE  DInv' /\ UNCHANGED <<req, reply, k, diskSet>> /\ UNCHANGED fileVars
<1>1. /\ trackSel' = track % 256 /\ ioByteCnt' = Bump /\ ioByteCnt = 0
      /\ UNCHANGED <<diskErr, sectSel, diskSet>> /\ UNCHANGED fileVars
  BY DEF SelTrackLow
<1>2. /\ at = "low" /\ at' = "high" /\ req \in Request /\ UNCHANGED <<req, k, got, reply>>
      /\ faulted' = faulted /\ disk' = disk /\ track' = track /\ sector' = sector
      /\ IsOpen' = IsOpen /\ Current' = Current /\ ProgramOK' /\ FilesStay'
      /\ Astray' = Astray /\ UNCHANGED <<stream, fhandle>>
  BY <1>1, AccessKeeps DEF Place
<1>3. IInv'
  <2>1. track \in Nat /\ track < MaxTrack
    BY <1>2, RequestFacts
  <2>2. MaxTrack \in Nat
    BY IosDiskAssumption
  <2>3. track % 256 \in 0..255 /\ track % 256 <= track
    BY <2>1
  <2>4. track % 256 \in Byte /\ track % 256 < MaxTrack
    BY <2>1, <2>2, <2>3 DEF Byte
  <2>5. QED BY <2>4, SelTrackLowKeeps, InvFacts
<1>4. ioByteCnt' = 1
  BY <1>1, InvFacts, BumpIsACount
<1>5. Selected'
  BY <1>1, <1>2, <1>4, InvFacts DEF Selected, Opened, TrackSet, Addressed, Moving
<1>6. NothingWrong'
  BY <1>1, <1>2, InvFacts DEF NothingWrong, Opened, Addressed, Moving
<1>7. CountsAgree' /\ BytesMoved' /\ OwnUnsaved'
  BY <1>2 DEF CountsAgree, BytesMoved, OwnUnsaved, Moving
<1>8. QED BY <1>1, <1>2, <1>3, <1>5, <1>6, <1>7 DEF DInv

\* The track, high byte: the selected track is the request's.
LEMMA TrackHighKeeps ==
  ASSUME DInv, RecordsFaults, Goes("high", "SELSECT"), SelTrackHigh(track \div 256)
  PROVE  DInv' /\ UNCHANGED <<req, reply, k, diskSet>> /\ UNCHANGED fileVars
<1>1. /\ trackSel' = (track \div 256) * 256 + (trackSel % 256)
      /\ UNCHANGED <<sectSel, diskSet>> /\ UNCHANGED fileVars
  BY DEF SelTrackHigh
<1>2. /\ at = "high" /\ at' = "SELSECT" /\ req \in Request /\ UNCHANGED <<req, k, got, reply>>
      /\ faulted' = faulted /\ disk' = disk /\ track' = track /\ sector' = sector
      /\ IsOpen' = IsOpen /\ Current' = Current /\ ProgramOK' /\ FilesStay'
      /\ Astray' = Astray /\ UNCHANGED <<stream, fhandle>>
  BY <1>1, AccessKeeps DEF Place
<1>3. track \in Nat /\ track < 65536
  BY <1>2, RequestFacts
<1>4. IInv'
  <2>1. track \div 256 \in Byte
    BY <1>3 DEF Byte
  <2>2. QED BY <2>1, SelTrackHighKeeps, InvFacts
<1>5. trackSel' = track
  <2>1. trackSel = track % 256
    BY <1>2, InvFacts DEF Selected
  <2>2. (track % 256) % 256 = track % 256 /\ (track \div 256) * 256 + (track % 256) = track
    BY <1>3
  <2>3. QED BY <1>1, <2>1, <2>2
<1>6. Selected'
  BY <1>1, <1>2, <1>5, InvFacts DEF Selected, Opened, TrackSet, Addressed, Moving
<1>7. NothingWrong'
  BY <1>1, <1>2, InvFacts DEF NothingWrong, Opened, Addressed, Moving
<1>8. CountsAgree' /\ BytesMoved' /\ OwnUnsaved'
  BY <1>2 DEF CountsAgree, BytesMoved, OwnUnsaved, Moving
<1>9. QED BY <1>1, <1>2, <1>4, <1>6, <1>7, <1>8 DEF DInv

\* The sector: the address is complete and valid, so no error is left from before.
LEMMA SectorKeeps ==
  ASSUME DInv, RecordsFaults, Goes("sector", "transfer"), SelSect(sector)
  PROVE  DInv' /\ UNCHANGED <<req, reply, k, diskSet>> /\ UNCHANGED fileVars
<1>1. /\ sectSel' = sector /\ diskErr' = AddressErr(trackSel, sector)
      /\ UNCHANGED <<trackSel, diskSet>> /\ UNCHANGED fileVars
  BY DEF SelSect
<1>2. /\ at = "sector" /\ at' = "transfer" /\ req \in Request
      /\ UNCHANGED <<req, k, got, reply>>
      /\ faulted' = faulted /\ disk' = disk /\ track' = track /\ sector' = sector
      /\ IsOpen' = IsOpen /\ Current' = Current /\ ProgramOK' /\ FilesStay'
      /\ Astray' = Astray /\ UNCHANGED <<stream, fhandle>>
  BY <1>1, AccessKeeps DEF Place
<1>3. track < MaxTrack /\ sector \in Byte /\ sector < MaxSect
  BY <1>2, RequestFacts
<1>4. IInv'
  BY <1>3, SelSectKeeps, InvFacts
<1>5. trackSel = track /\ Selected
  BY <1>2, InvFacts DEF Selected, TrackSet
<1>6. diskErr' = 0
  BY <1>1, <1>3, <1>5 DEF AddressErr
<1>7. Selected'
  BY <1>1, <1>2, <1>5, <1>6 DEF Selected, Opened, TrackSet, Addressed, Moving
<1>8. NothingWrong'
  BY <1>1, <1>2, <1>6, InvFacts DEF NothingWrong, Opened, Addressed, Moving
<1>9. CountsAgree' /\ BytesMoved' /\ OwnUnsaved'
  BY <1>2 DEF CountsAgree, BytesMoved, OwnUnsaved, Moving
<1>10. QED BY <1>1, <1>2, <1>4, <1>7, <1>8, <1>9 DEF DInv

\* What a step may lose of what was written: bytes not yet saved, if the card fails.
LosesUnsaved ==
  \A f \in Image : \A i \in 0..(Capacity - 1) :
    data'[f][i] # data[f][i] => MediaFaults /\ IsOpen /\ f = Current /\ i \in Unsaved

LEMMA LengthsAreNumbers ==
  ASSUME IInv, IInv', NEW f \in Image
  PROVE  /\ size[f] \in Nat /\ size'[f] \in Nat /\ saved[f].len \in Nat /\ saved'[f].len \in Nat
         /\ InitSize[f] \in Nat
<1>1. Capacity \in Nat /\ InitSize \in [Image -> 0..Capacity]
  BY SdFileAssumption, IosDiskAssumption
<1>2. /\ size \in [Image -> 0..Capacity]
      /\ saved \in [Image -> [len : 0..Capacity, bytes : Bytes]]
  BY DEF IInv, TypeOK, SdTypeOK
<1>3. /\ size' \in [Image -> 0..Capacity]
      /\ saved' \in [Image -> [len : 0..Capacity, bytes : Bytes]]
  BY DEF IInv, TypeOK, SdTypeOK
<1>4. saved[f] \in [len : 0..Capacity, bytes : Bytes] /\ saved'[f] \in [len : 0..Capacity, bytes : Bytes]
  BY <1>2, <1>3
<1>5. saved[f].len \in 0..Capacity /\ saved'[f].len \in 0..Capacity
  BY <1>4
<1>6. size[f] \in 0..Capacity /\ size'[f] \in 0..Capacity /\ InitSize[f] \in 0..Capacity
  BY <1>1, <1>2, <1>3
<1>7. QED BY <1>1, <1>5, <1>6

\* Unless the card fails, the disk file is open after its number was sent.
LEMMA DiskKeeps ==
  ASSUME DInv, RecordsFaults, Goes("disk", "SELTRACK"), SelDisk(disk)
  PROVE  /\ DInv' /\ UNCHANGED <<req, reply, k, diskSet>> /\ k = 0 /\ req \in Request
         /\ LosesUnsaved /\ UnsavedBlocks' = {}
<1>1. /\ at = "disk" /\ at' = "SELTRACK" /\ UNCHANGED <<req, k, got, reply>>
      /\ disk' = disk /\ track' = track /\ sector' = sector
  BY DEF Goes, disk, track, sector
<1>2. ProgramOK /\ Selected /\ NothingWrong /\ FilesStay
  BY InvFacts
<1>3. req \in Request /\ reply = NoReply /\ k = 0 /\ diskSet = InitDiskSet
  BY <1>1, <1>2 DEF ProgramOK, Moving, Selected
<1>4. disk \in Byte /\ disk <= maxDiskNum /\ <<diskSet, disk>> \in Image
  BY <1>3, RequestFacts, BlocksLieInFiles DEF disk
<1>5. IInv'
  BY <1>4, SelDiskKeeps, InvFacts
<1>6. PICK err \in {0, NOT_OPEN} : OpenSD(<<diskSet, disk>>, err) /\ diskErr' = err
  BY <1>4 DEF SelDisk
<1>7. UNCHANGED <<trackSel, sectSel, diskSet, bufferSD>>
  BY <1>6 DEF SelDisk, selectVars, OpenSD
<1>8. AfterClose = [s \in Slot |-> NoFile] /\ FreeSlots(AfterClose) = Slot /\ 0 \in Slot
  <2>1. 0 \in Slot /\ NoHandle \notin Slot
    BY SdFileAssumption DEF Slot, NoHandle
  <2>2. AfterClose = [s \in Slot |-> NoFile]
    BY <2>1, InvFacts DEF SdTypeOK, OneFileOpen, AfterClose, IsOpen
  <2>3. QED BY <2>1, <2>2 DEF FreeSlots
<1>9. Lowest(Slot) \in Slot
  <2>1. \E s \in Slot : \A t \in Slot : s <= t
    <3>1. \A t \in Slot : 0 <= t
      BY DEF Slot
    <3>2. QED BY <1>8, <3>1
  <2>2. QED BY <2>1 DEF Lowest
<1>18. IsOpen' => stream'[fhandle'] = At(0)
  <2>1. CASE fhandle' = NoHandle
    BY <2>1 DEF IsOpen, NoHandle, Slot
  <2>2. CASE fhandle' # NoHandle
    <3>1. fhandle' = Lowest(Slot) /\ stream' = [stream EXCEPT ![Lowest(Slot)] = At(0)]
      BY <1>6, <1>8, <2>2 DEF OpenSD
    <3>2. QED BY <1>9, <3>1, InvFacts DEF SdTypeOK
  <2>3. QED BY <2>1, <2>2
<1>10. IsOpen' => Current' = <<diskSet, disk>>
  <2>1. CASE fhandle' = NoHandle
    BY <2>1 DEF IsOpen, NoHandle, Slot
  <2>2. CASE fhandle' # NoHandle
    <3>1. fhandle' = Lowest(Slot)
          /\ files' = [AfterClose EXCEPT ![Lowest(Slot)] = <<diskSet, disk>>]
      BY <1>6, <1>8, <2>2 DEF OpenSD
    <3>2. QED BY <1>8, <1>9, <3>1 DEF Current
  <2>3. QED BY <2>1, <2>2
<1>11. /\ faulted' \in BOOLEAN
       /\ ~faulted' => IsOpen'
       /\ faulted' => MediaFaults
  <2>1. faulted' = (faulted \/ OpenFault)
    BY <1>1 DEF RecordsFaults, Faults, SeekFault, MoveFault
  <2>2. ~faulted' => fhandle' # NoHandle
    BY <1>1, <1>4, <1>8, <2>1 DEF OpenFault
  <2>6. OpenFault => MediaFaults
    <3>1. SUFFICES ASSUME fhandle' = NoHandle PROVE MediaFaults
      BY DEF OpenFault
    <3>2. Lowest(Slot) # NoHandle
      BY <1>9 DEF NoHandle, Slot
    <3>3. QED BY <1>4, <1>6, <1>8, <3>1, <3>2 DEF OpenSD
  <2>3. fhandle' # NoHandle => err = 0
    BY <1>6 DEF OpenSD
  <2>4. err = 0 => IsOpen'
    BY <1>6, InvFacts, OpenSDKeeps
  <2>7. faulted \in BOOLEAN /\ (faulted => MediaFaults)
    BY <1>2 DEF ProgramOK, NothingWrong
  <2>5. QED BY <2>1, <2>2, <2>3, <2>4, <2>6, <2>7
<1>12. ProgramOK'
  <2>1. at' \in Place /\ ~Moving'
    BY <1>1 DEF Place, Moving
  <2>2. QED BY <1>1, <1>2, <1>3, <1>11, <2>1 DEF ProgramOK
<1>13. Selected'
  BY <1>1, <1>2, <1>7, <1>10 DEF Selected, Opened, TrackSet, Addressed, Moving
<1>19. /\ LosesUnsaved
       /\ \A g \in Image : /\ size'[g] = size[g] \/ size'[g] >= saved[g].len
                           /\ saved'[g].len \in {saved[g].len, size'[g]}
  BY <1>6, InvFacts, OpenSDKeeps DEF LosesUnsaved
<1>14. FilesStay'
  <2>1. ASSUME NEW g \in Image PROVE size'[g] >= InitSize[g] /\ saved'[g].len >= InitSize[g]
    <3>1. size'[g] \in Nat /\ saved[g].len \in Nat /\ InitSize[g] \in Nat
      BY <1>5, InvFacts, LengthsAreNumbers
    <3>2. size[g] >= InitSize[g] /\ saved[g].len >= InitSize[g]
      BY <1>2 DEF FilesStay
    <3>3. QED BY <1>19, <3>1, <3>2
  <2>2. QED BY <2>1 DEF FilesStay
<1>20. UnsavedBlocks' = {}
  <2>1. SUFFICES ASSUME IsOpen', NEW x \in Unsaved' PROVE FALSE
    BY DEF UnsavedBlocks
  <2>2. stream'[fhandle'].from = 0 /\ stream'[fhandle'].pos = 0
    BY <1>18, <2>1 DEF At
  <2>3. QED BY <2>1, <2>2 DEF Unsaved
<1>15. NothingWrong'
  BY <1>1, <1>3, <1>11, DriverAssumption DEF NothingWrong, Opened, Addressed, Moving
<1>16. CountsAgree' /\ BytesMoved' /\ OwnUnsaved'
  BY <1>1 DEF CountsAgree, BytesMoved, OwnUnsaved, Moving
<1>21. DInv'
  BY <1>5, <1>12, <1>13, <1>14, <1>15, <1>16 DEF DInv
<1>17. QED BY <1>1, <1>3, <1>7, <1>19, <1>20, <1>21

\* A request comes in: what the program leaves out is already so.
LEMMA SubmitKeeps ==
  ASSUME DInv, RecordsFaults, NEW r \in Request, Submit(r)
  PROVE  /\ DInv' /\ at = "idle" /\ req = NoReq /\ req' = r /\ reply' = NoReply
         /\ k = 0 /\ k' = 0 /\ UNCHANGED diskSet /\ UNCHANGED fileVars
<1>1. /\ at = "idle" /\ req' = r /\ reply' = NoReply /\ k' = 0 /\ got' = NothingRead
      /\ at' = FirstAccess(r.block[1], r.block[2][1])
      /\ UNCHANGED vars
  BY DEF Submit
<1>2. /\ UNCHANGED <<ioOpcode, ioByteCnt, diskErr, trackSel, sectSel, diskSet>>
      /\ UNCHANGED <<files, stream, fhandle, size, data, saved, bufferSD>>
      /\ UNCHANGED fileVars
  BY <1>1 DEF vars, engineVars, selectVars, fileVars, imageVars
<1>3. IInv' /\ IsOpen' = IsOpen /\ Current' = Current
  BY <1>1, <1>2, StutterKeeps, InvFacts DEF IsOpen, Current
<1>4. ProgramOK /\ Selected /\ FilesStay
  BY InvFacts
<1>5. at' \in {"SELDISK", "SELTRACK", "SELSECT"} /\ faulted' = FALSE
  BY <1>1 DEF FirstAccess, RecordsFaults
<1>6. at' # "SELDISK" =>
        /\ known # Unknown /\ known[1] = disk' /\ disk' = r.block[1]
        /\ at' = "SELSECT" => known[2] = track'
  BY <1>1 DEF FirstAccess, disk, track
<1>7. at' # "SELDISK" => IsOpen' /\ Current' = <<diskSet', disk'>>
  BY <1>1, <1>2, <1>3, <1>4, <1>6 DEF Selected
<1>8. at' = "SELSECT" => trackSel' = track'
  BY <1>1, <1>2, <1>4, <1>6 DEF Selected
<1>9. NothingRead \in [0..(SectLen - 1) -> Byte]
  BY DEF NothingRead, Byte
<1>10. ProgramOK'
  BY <1>1, <1>5, <1>9 DEF ProgramOK, Place, Moving
<1>11. Selected'
  BY <1>2, <1>4, <1>5, <1>7, <1>8 DEF Selected, Opened, TrackSet, Addressed, Moving
<1>12. FilesStay'
  BY <1>2, <1>4 DEF FilesStay
<1>13. NothingWrong'
  BY <1>1, <1>5, <1>7, DriverAssumption DEF NothingWrong, Opened, Addressed, Moving
<1>14. CountsAgree' /\ BytesMoved' /\ OwnUnsaved'
  BY <1>5 DEF CountsAgree, BytesMoved, OwnUnsaved, Moving
<1>15. req = NoReq /\ k = 0
  BY <1>1, <1>4 DEF ProgramOK, Moving
<1>16. QED BY <1>1, <1>2, <1>3, <1>10, <1>11, <1>12, <1>13, <1>14, <1>15 DEF DInv

\* The program is restarted: it knows nothing, and relies on nothing.
LEMMA RestartKeeps ==
  ASSUME DInv, RecordsFaults, Restart
  PROVE  /\ DInv' /\ req \in Request /\ req' = NoReq /\ reply' = NoReply
         /\ k' = 0 /\ UNCHANGED diskSet /\ UNCHANGED fileVars
<1>1. /\ at # "idle" /\ at' = "idle" /\ req' = NoReq /\ reply' = NoReply
      /\ known' = Unknown /\ got' = NothingRead /\ k' = 0 /\ UNCHANGED vars
  BY DEF Restart
<1>2. /\ UNCHANGED <<ioOpcode, ioByteCnt, diskErr, trackSel, sectSel, diskSet>>
      /\ UNCHANGED <<files, stream, fhandle, size, data, saved, bufferSD>>
      /\ UNCHANGED fileVars
  BY <1>1 DEF vars, engineVars, selectVars, fileVars, imageVars
<1>3. IInv'
  BY <1>1, StutterKeeps, InvFacts
<1>4. ProgramOK /\ Selected /\ FilesStay
  BY InvFacts
<1>5. faulted' = faulted /\ faulted \in BOOLEAN /\ req \in Request
  BY <1>1, <1>4 DEF RecordsFaults, Faults, ProgramOK
<1>6. NothingRead \in [0..(SectLen - 1) -> Byte]
  BY DEF NothingRead, Byte
<1>7. ProgramOK'
  BY <1>1, <1>5, <1>6 DEF ProgramOK, Place, Moving
<1>8. Selected'
  BY <1>1, <1>2, <1>4 DEF Selected, Opened, TrackSet, Addressed, Moving
<1>9. FilesStay'
  BY <1>2, <1>4 DEF FilesStay
<1>10. NothingWrong'
  BY <1>1, <1>5, DriverAssumption, InvFacts DEF NothingWrong, Opened, Addressed, Moving
<1>11. CountsAgree' /\ BytesMoved' /\ OwnUnsaved'
  BY <1>1 DEF CountsAgree, BytesMoved, OwnUnsaved, Moving
<1>12. QED BY <1>1, <1>2, <1>3, <1>5, <1>7, <1>8, <1>9, <1>10, <1>11 DEF DInv

\* What the bytes of a sector amount to when all are moved.
LEMMA SectorIsMoved ==
  ASSUME DInv, Moving, k = SectLen, diskErr = 0, ~Astray
  PROVE  /\ req.op = "read" => got = Content(req.block)
         /\ req.op = "write" => Content(req.block) = req.value
<1>1. BytesMoved /\ ProgramOK /\ SectLen \in Nat \ {0} /\ SegLen \in Nat \ {0}
  BY InvFacts
<1>2. got \in [0..(SectLen - 1) -> Byte] /\ req \in Request
  BY <1>1 DEF ProgramOK, Moving
<1>3. k % SegLen = 0 /\ Whole = SectLen
  BY <1>1, IosDiskAssumption DEF Whole
<1>4. Content(req.block) = [j \in 0..(SectLen - 1) |-> data[<<diskSet, disk>>][Base + j]]
  BY DEF Content, Base, disk
<1>5. ASSUME req.op = "read" PROVE got = Content(req.block)
  <2>1. \A j \in 0..(SectLen - 1) : got[j] = data[<<diskSet, disk>>][Base + j]
    BY <1>1, <1>5 DEF BytesMoved
  <2>2. QED BY <1>2, <1>4, <2>1
<1>6. ASSUME req.op = "write" PROVE Content(req.block) = req.value
  <2>1. \A j \in 0..(SectLen - 1) : data[<<diskSet, disk>>][Base + j] = req.value[j]
    BY <1>1, <1>3, <1>6 DEF BytesMoved
  <2>2. req.value \in [0..(SectLen - 1) -> Byte]
    BY <1>2, <1>6, RequestFacts
  <2>3. QED BY <1>4, <2>1, <2>2
<1>7. QED BY <1>5, <1>6

\* A byte of the open image that lies in the sector of the request is one of its block.
LEMMA ByteTellsBlock ==
  ASSUME DInv, Moving, req \in Request, IsOpen, NEW b \in Block, NEW j \in 0..(SectLen - 1),
         Current = <<diskSet, b[1]>>, Offset(b[2]) + j \in Base..(Base + SectLen - 1)
  PROVE  b = req.block
<1>1. Selected /\ SectLen \in Nat \ {0} /\ req.block \in Block
  BY InvFacts, RequestFacts
<1>2. Base \in Nat /\ Base = Offset(req.block[2]) /\ Offset(b[2]) \in Nat
  BY <1>1, BlocksLieInFiles DEF Base
<1> DEFINE i == (Offset(b[2]) + j) - Base
<1>3. i \in 0..(SectLen - 1) /\ Offset(b[2]) + j = Base + i
  BY <1>1, <1>2
<1> HIDE DEF i
<1>4. b[2] = req.block[2]
  BY <1>1, <1>2, <1>3, SectorsAreDisjoint
<1>5. b[1] = req.block[1]
  BY <1>1 DEF Selected, Opened, Moving, disk
<1>6. Block \subseteq (0..maxDiskNum) \X ((0..(MaxTrack - 1)) \X (0..(MaxSect - 1)))
  BY DriverAssumption
<1>7. b = <<b[1], b[2]>> /\ req.block = <<req.block[1], req.block[2]>>
  BY <1>1, <1>6
<1>8. QED BY <1>4, <1>5, <1>7

\* The blocks a request leaves unsettled.
LEMMA UnsavedIsOwn ==
  ASSUME DInv, Moving, k > 0, diskErr = 0, ~Astray, req \in Request
  PROVE  IF req.op = "read" THEN UnsavedBlocks = {} ELSE UnsavedBlocks \subseteq {req.block}
<1>1. /\ Selected /\ OwnUnsaved /\ SdTypeOK /\ SectLen \in Nat \ {0}
      /\ req.block \in Block
  BY InvFacts, RequestFacts
<1>2. SUFFICES ASSUME NEW b \in UnsavedBlocks
               PROVE  req.op # "read" /\ b = req.block
  OBVIOUS
<1>3. PICK j \in 0..(SectLen - 1) : Offset(b[2]) + j \in Unsaved
  BY DEF UnsavedBlocks
<1>4. b \in Block /\ IsOpen /\ Current = <<diskSet, b[1]>>
  BY DEF UnsavedBlocks
<1> DEFINE st == stream[fhandle]
<1>5. st.pos \in Nat /\ st.from \in Nat
  BY <1>1, <1>4 DEF SdTypeOK, IsOpen, Stream
<1>6. Offset(b[2]) + j \in st.from..(st.pos - 1) /\ Offset(b[2]) \in Nat
  BY <1>3, <1>4, BlocksLieInFiles DEF Unsaved
<1>7. IF req.op = "read" THEN st.from = st.pos
      ELSE st.from = Base /\ st.pos <= Base + SectLen
  BY <1>1 DEF OwnUnsaved
<1> HIDE DEF st
<1>8. req.op # "read"
  BY <1>5, <1>6, <1>7
<1>9. Base \in Nat
  BY <1>1, BlocksLieInFiles DEF Base
<1>10. Offset(b[2]) + j \in Base..(Base + SectLen - 1)
  BY <1>1, <1>5, <1>6, <1>7, <1>8, <1>9
<1>11. b = req.block
  BY <1>3, <1>4, <1>10, ByteTellsBlock
<1>16. QED BY <1>8, <1>11

\* ERRDISK answers: without an error, all that was asked was done.
LEMMA FinishKeeps ==
  ASSUME DInv, RecordsFaults, Finish
  PROVE  /\ DInv' /\ req \in Request /\ req' = NoReq /\ k > 0 /\ k' = 0
         /\ UNCHANGED diskSet /\ UNCHANGED fileVars
         /\ \/ reply' = Failure /\ MediaFaults
            \/ Astray /\ (req.op = "write" => reply' = req.value)
            \/ /\ ~Astray /\ req.op = "read" /\ reply' = Content(req.block)
               /\ UnsavedBlocks = {}
            \/ /\ ~Astray /\ req.op = "write" /\ Content(req.block) = req.value
               /\ reply' = req.value /\ UnsavedBlocks \subseteq {req.block}
<1>1. /\ at = "error" /\ ErrDisk /\ ioData' = diskErr
      /\ reply' = (IF ioData' # 0 THEN Failure ELSE IF req.op = "read" THEN got ELSE req.value)
      /\ known' = (IF ioData' # 0 THEN Unknown ELSE <<disk, track>>)
      /\ at' = "idle" /\ req' = NoReq /\ got' = NothingRead /\ k' = 0
      /\ UNCHANGED <<ioByteCnt, diskErr, trackSel, sectSel, diskSet>> /\ UNCHANGED fileVars
      /\ ioOpcode' = NOP
  BY DEF Finish, ErrDisk, Answer, selectVars
<1>2. UNCHANGED <<files, stream, fhandle, size, data, saved, bufferSD>>
  BY <1>1 DEF fileVars, imageVars
<1>3. IInv'
  <2>1. ioData' \in Byte
    BY <1>1, InvFacts DEF TypeOK, Byte
  <2>2. ioOpcode' \in Byte /\ ioOpcode' \notin {READSECT, WRITESECT}
    BY <1>1 DEF NOP, READSECT, WRITESECT, Byte
  <2>3. ioByteCnt' \in 0..CountBound /\ diskSet' \in Byte
    BY <1>1, InvFacts DEF TypeOK
  <2>4. QED BY <1>1, <2>1, <2>2, <2>3, ServiceKeeps, InvFacts
<1>4. /\ ProgramOK /\ Selected /\ FilesStay /\ NothingWrong
      /\ IsOpen' = IsOpen /\ Current' = Current
  BY <1>2, InvFacts DEF IsOpen, Current
<1>5. req \in Request /\ k = SectLen /\ Moving /\ Opened /\ TrackSet /\ Addressed
  BY <1>1, <1>4 DEF ProgramOK, Moving, Opened, TrackSet, Addressed
<1>6. faulted' = faulted /\ faulted \in BOOLEAN
  BY <1>1, <1>4 DEF RecordsFaults, Faults, OpenFault, SeekFault, MoveFault, ProgramOK
<1>7. req.op \in {"read", "write"}
  BY <1>5, RequestFacts
<1>8. NothingRead \in [0..(SectLen - 1) -> Byte]
  BY DEF NothingRead, Byte
<1>9. ProgramOK'
  BY <1>1, <1>6, <1>8 DEF ProgramOK, Place, Moving
<1>10. diskErr = 0 => IsOpen /\ Current = <<diskSet, disk>> /\ trackSel = track
  <2>1. k > 0
    BY <1>5, InvFacts
  <2>2. QED BY <1>4, <1>5, <2>1 DEF NothingWrong, Selected
<1>11. Selected'
  <2>1. ASSUME known' # Unknown'
        PROVE  IsOpen' /\ Current' = <<diskSet', known'[1]>> /\ trackSel' = known'[2]
    <3>1. ioData' = 0 /\ known' = <<disk, track>>
      BY <1>1, <2>1
    <3>2. QED BY <1>1, <1>4, <1>10, <3>1
  <2>2. QED BY <1>1, <1>4, <2>1 DEF Selected, Opened, TrackSet, Addressed, Moving
<1>12. FilesStay'
  BY <1>2, <1>4 DEF FilesStay
<1>13. diskErr # 0 => faulted'
  BY <1>4, <1>5, <1>6 DEF NothingWrong
<1>14. NothingWrong'
  <2>1. reply' = Failure => diskErr # 0
    <3>1. got # Failure
      BY <1>4, DriverAssumption DEF ProgramOK
    <3>2. req.op = "write" => req.value # Failure
      BY <1>5, RequestFacts, DriverAssumption
    <3>3. QED BY <1>1, <1>7, <3>1, <3>2
  <2>2. QED BY <1>1, <1>4, <1>6, <1>13, <2>1 DEF NothingWrong, Opened, Addressed, Moving
<1>15. CountsAgree' /\ BytesMoved' /\ OwnUnsaved'
  BY <1>1 DEF CountsAgree, BytesMoved, OwnUnsaved, Moving
<1>19. k > 0
  BY <1>5, InvFacts
<1>20. reply' = Failure => MediaFaults
  BY <1>6, <1>14 DEF NothingWrong
<1>16. \/ reply' = Failure
       \/ Astray /\ (req.op = "write" => reply' = req.value)
       \/ /\ ~Astray /\ req.op = "read" /\ reply' = Content(req.block)
          /\ UnsavedBlocks = {}
       \/ /\ ~Astray /\ req.op = "write" /\ Content(req.block) = req.value
          /\ reply' = req.value /\ UnsavedBlocks \subseteq {req.block}
  <2>1. CASE diskErr # 0
    BY <1>1, <2>1
  <2>2. CASE diskErr = 0 /\ Astray
    BY <1>1, <1>7, <2>2
  <2>3. CASE diskErr = 0 /\ ~Astray
    BY <1>1, <1>5, <1>7, <1>19, <2>3, SectorIsMoved, UnsavedIsOwn
  <2>4. QED BY <2>1, <2>2, <2>3
<1>17. DInv'
  BY <1>3, <1>9, <1>11, <1>12, <1>14, <1>15 DEF DInv
<1>18. QED BY <1>1, <1>5, <1>16, <1>17, <1>19, <1>20

-------------------------------------------------------------------------------
(* The bytes of a sector. *)

\* A byte the engine takes or gives.
ReadsByte == ReadSectFailed \/ ReadSectFetched \/ ReadSectBuffered
WritesByte(b) == WriteSectIgnored(b) \/ WriteSectStored(b) \/ WriteSectFlushed(b)

\* Where the program and the engine stand before the byte.
LEMMA ExchangeStarts ==
  ASSUME DInv, Exchange
  PROVE  /\ at = "byte" /\ req \in Request /\ k \in Nat /\ k < SectLen /\ ioByteCnt = k
         /\ ioOpcode = (IF req.op = "read" THEN READSECT ELSE WRITESECT)
         /\ trackSel = track /\ sectSel = sector /\ diskSet = InitDiskSet
         /\ AddressValid /\ SectStart = Base /\ Base \in Nat
         /\ IsOpen => Current = <<diskSet, disk>>
         /\ <<diskSet, disk>> \in Image /\ Base + SectLen <= InitSize[<<diskSet, disk>>]
         /\ InitSize[<<diskSet, disk>>] \in Nat
         /\ k % SegLen = InSeg /\ InSeg \in 0..(SegLen - 1) /\ Whole \in Nat
         /\ Whole = k - InSeg /\ Whole + SegLen <= SectLen
<1>1. at = "byte"
  BY DEF Exchange
<1>2. ProgramOK /\ Selected /\ CountsAgree /\ TypeOK
  BY InvFacts
<1>3. /\ req \in Request /\ k \in Nat /\ k < SectLen /\ ioByteCnt = k
      /\ ioOpcode = (IF req.op = "read" THEN READSECT ELSE WRITESECT)
  BY <1>1, <1>2 DEF ProgramOK, CountsAgree
<1>4. /\ trackSel = track /\ sectSel = sector /\ diskSet = InitDiskSet
      /\ IsOpen => Current = <<diskSet, disk>>
  BY <1>1, <1>2 DEF Selected, TrackSet, Addressed, Moving, Opened
<1>5. /\ req.block \in Block /\ track < MaxTrack /\ sector < MaxSect
  BY <1>3, RequestFacts
<1>6. AddressValid
  BY <1>4, <1>5 DEF AddressValid
<1>7. SectStart = Base
  BY <1>4 DEF SectStart, Base, Offset, track, sector
<1>8. /\ <<diskSet, disk>> \in Image /\ Base + SectLen <= InitSize[<<diskSet, disk>>]
      /\ InitSize[<<diskSet, disk>>] \in Nat /\ Base \in Nat
  BY <1>4, <1>5, BlocksLieInFiles DEF disk, Base
<1>9. k % SegLen = InSeg /\ Whole = k - InSeg
  BY <1>3 DEF InSeg, Whole
<1>10. /\ InSeg \in 0..(SegLen - 1) /\ Whole \in Nat /\ Whole + SegLen <= SectLen
  BY <1>3, <1>9, SegmentFits
<1>11. QED BY <1>1, <1>3, <1>4, <1>6, <1>7, <1>8, <1>9, <1>10

\* What becomes of the program and the engine's registers, whatever the outcome.
LEMMA ExchangeMoves ==
  ASSUME DInv, Exchange
  PROVE  /\ IInv' /\ UNCHANGED <<req, reply, known, trackSel, sectSel, diskSet, files, fhandle>>
         /\ k' = k + 1 /\ at' = (IF k' = SectLen THEN "ERRDISK" ELSE "byte")
         /\ IF req.op = "read"
            THEN ReadsByte /\ got' = [got EXCEPT ![k] = ioData']
            ELSE WritesByte(req.value[k]) /\ UNCHANGED got /\ req.value[k] \in Byte
         /\ ioByteCnt' = ioByteCnt + 1
         /\ k' < SectLen => ioOpcode' = ioOpcode
<1>1. /\ k \in Nat /\ k < SectLen /\ ioByteCnt = k /\ req \in Request
      /\ ioOpcode = (IF req.op = "read" THEN READSECT ELSE WRITESECT)
  BY ExchangeStarts
<1>2. /\ k' = k + 1 /\ at' = (IF k' = SectLen THEN "ERRDISK" ELSE "byte")
      /\ UNCHANGED <<req, reply, known>>
      /\ IF req.op = "read"
         THEN ReadsByte /\ got' = [got EXCEPT ![k] = ioData']
         ELSE WritesByte(req.value[k]) /\ UNCHANGED got
  BY DEF Exchange, ReadsByte, WritesByte
<1>3. IInv /\ TypeOK /\ SectLen \in Nat \ {0}
  BY InvFacts
<1>4. Bump = ioByteCnt + 1
  BY <1>1, <1>3, BumpIsACount
<1>7. CASE req.op = "read"
  <2>1. ReadsByte
    BY <1>2, <1>7
  <2>2. IInv'
    BY <1>3, <2>1, ReadFailedKeeps, ReadFetchedKeeps, ReadBufferedKeeps DEF ReadsByte
  <2>3. ReadSectEnd
    BY <2>1 DEF ReadsByte, ReadSectFailed, ReadSectFetched, ReadSectBuffered
  <2>4. UNCHANGED <<files, fhandle>>
    BY <2>1 DEF ReadsByte, ReadSectFailed, ReadSectFetched, ReadSectBuffered, ReadSD, fileVars
  <2>5. /\ ioByteCnt' = ioByteCnt + 1 /\ UNCHANGED <<trackSel, sectSel, diskSet>>
        /\ k' < SectLen => ioOpcode' = ioOpcode
    BY <1>1, <1>2, <1>3, <1>4, <1>7, <2>3 DEF ReadSectEnd, LastOfSect, selectVars
  <2>7. QED BY <1>2, <1>7, <2>1, <2>2, <2>4, <2>5
<1>8. CASE req.op # "read"
  <2> DEFINE b == req.value[k]
  <2>1. WritesByte(b) /\ UNCHANGED got
    BY <1>2, <1>8
  <2>2. b \in Byte
    BY <1>1, <1>3, <1>8, RequestFacts
  <2> HIDE DEF b
  <2>3. IInv'
    BY <1>3, <2>1, <2>2, WriteIgnoredKeeps, WriteStoredKeeps, WriteFlushedKeeps DEF WritesByte
  <2>4. UNCHANGED <<files, fhandle>>
    BY <2>1 DEF WritesByte, WriteSectIgnored, WriteSectStored, WriteSectFlushed, WriteSD, fileVars
  <2>5. /\ ioByteCnt' = ioByteCnt + 1 /\ UNCHANGED <<trackSel, sectSel, diskSet>>
        /\ k' < SectLen => ioOpcode' = ioOpcode
    BY <1>1, <1>2, <1>3, <1>4, <1>8, <2>1
      DEF WritesByte, WriteSectIgnored, WriteSectStored, WriteSectFlushed, LastOfSect, selectVars
  <2>8. QED BY <1>2, <1>8, <2>1, <2>2, <2>3, <2>4, <2>5 DEF b
<1>9. QED BY <1>7, <1>8

\* A byte exchanged without an error found none before, and an open image.
LEMMA ErrorFreeByte ==
  ASSUME DInv, Exchange, diskErr' = 0
  PROVE  /\ ErrBefore = 0 /\ diskErr = 0 /\ IsOpen
         /\ IF req.op = "read" THEN ReadSectFetched \/ ReadSectBuffered
            ELSE WriteSectStored(req.value[k]) \/ WriteSectFlushed(req.value[k])
<1>1. /\ ioOpcode = (IF req.op = "read" THEN READSECT ELSE WRITESECT)
      /\ IF req.op = "read" THEN ReadsByte ELSE WritesByte(req.value[k])
  BY ExchangeStarts, ExchangeMoves
<1>2. /\ ErrBefore = 0
      /\ IF req.op = "read" THEN ReadSectFetched \/ ReadSectBuffered
         ELSE WriteSectStored(req.value[k]) \/ WriteSectFlushed(req.value[k])
  BY <1>1 DEF ReadsByte, WritesByte, ReadSectFailed, ReadSectFetched, ReadSectBuffered,
              WriteSectIgnored, WriteSectStored, WriteSectFlushed
<1>3. IsOpen /\ diskErr = 0
  BY <1>1, <1>2, TransferReady, InvFacts
<1>4. QED BY <1>2, <1>3

\* The stream that the step works on: a request seeks with its first byte and no other.
LEMMA StreamFound ==
  ASSUME DInv, Exchange, ErrBefore = 0, NEW st \in StreamBefore
  PROVE  /\ IsOpen /\ diskErr = 0 /\ TypeOK
         /\ Seeks <=> k = 0
         /\ ~Seeks => st = stream[fhandle]
         /\ st \in Stream /\ st.pos \in Nat /\ st.from \in Nat /\ st.astray \in {FALSE, MediaFaults}
         /\ ~st.astray =>
              /\ st.pos = Base + StreamOffset
              /\ st.pos = IF Seeks THEN SectStart ELSE stream[fhandle].pos
              /\ st.io \in {"none", req.op}
              /\ st.from = IF req.op = "read" THEN st.pos ELSE Base
<1>1. /\ k \in Nat /\ ioByteCnt = k /\ AddressValid /\ SectStart = Base /\ req \in Request
      /\ ioOpcode = (IF req.op = "read" THEN READSECT ELSE WRITESECT)
  BY ExchangeStarts
<1>2. /\ IsOpen /\ diskErr = 0 /\ st \in Stream
      /\ ~st.astray => InPlace(st)
  BY <1>1, TransferReady, InvFacts
<1>3. Seeks <=> k = 0
  BY <1>1, <1>2 DEF Seeks
<1>4. TypeOK
  BY InvFacts
<1>5. ~Seeks => st = stream[fhandle]
  BY <1>2, <1>4, StreamBeforeIsAStream
<1>6. st.pos \in Nat /\ st.from \in Nat /\ st.astray \in {FALSE, MediaFaults}
  BY <1>2 DEF Stream
<1>7. ASSUME ~st.astray
      PROVE  /\ st.pos = Base + StreamOffset
             /\ st.pos = IF Seeks THEN SectStart ELSE stream[fhandle].pos
             /\ st.io \in {"none", req.op}
             /\ st.from = IF req.op = "read" THEN st.pos ELSE Base
  <2>1. InPlace(st)
    BY <1>2, <1>7
  <2>2. Seeks => st = At(SectStart)
    BY <1>2, <1>4, <1>7, StreamBeforeIsAStream
  <2>3. st.pos = IF Seeks THEN SectStart ELSE stream[fhandle].pos
    BY <1>5, <2>2 DEF At
  <2>4. req.op = "read" \/ req.op = "write"
    BY <1>1, RequestFacts
  <2>5. QED BY <1>1, <2>1, <2>3, <2>4 DEF InPlace, READSECT, WRITESECT
<1>8. QED BY <1>2, <1>3, <1>4, <1>5, <1>6, <1>7

\* Where the segment being moved begins.
LEMMA OffsetFacts ==
  ASSUME DInv, Exchange
  PROVE  /\ InSeg = 0 /\ req.op = "read" => StreamOffset = Whole
         /\ req.op # "read" => StreamOffset = Whole
         /\ Base \in Nat /\ Whole \in Nat /\ SegLen \in Nat /\ SegLen > 0 /\ SectLen \in Nat
         /\ Base + Whole + SegLen <= Base + SectLen
<1>1. /\ Base \in Nat /\ Whole \in Nat /\ Whole = k - InSeg /\ Whole + SegLen <= SectLen
      /\ ioByteCnt = k /\ k \in Nat /\ InSeg \in 0..(SegLen - 1)
      /\ ioOpcode = (IF req.op = "read" THEN READSECT ELSE WRITESECT)
  BY ExchangeStarts
<1>2. SectLen \in Nat \ {0} /\ SegLen \in Nat \ {0}
  BY InvFacts
<1>3. QED BY <1>1, <1>2 DEF StreamOffset, READSECT, WRITESECT

\* A byte fetched from the file.
LEMMA FetchedByte ==
  ASSUME DInv, Exchange, ReadSectFetched, req.op = "read"
  PROVE  \E st \in StreamBefore, n \in 0..SegLen :
           /\ ErrBefore = 0 /\ ImagesBefore(st) /\ ReadSD(st, n) /\ diskErr' = TransferErr(n)
           /\ stream'[fhandle] = Advance(st, n, "read", "write")
           /\ Astray' = st.astray
           /\ stream'[fhandle].pos = st.pos + n
           /\ ~st.astray => stream'[fhandle].from = stream'[fhandle].pos
<1>1. ErrBefore = 0
  BY DEF ReadSectFetched
<1>2. PICK st \in StreamBefore, n \in Count :
        ImagesBefore(st) /\ ReadSD(st, n) /\ diskErr' = TransferErr(n)
  BY DEF ReadSectFetched
<1>3. /\ IsOpen /\ st \in Stream /\ TypeOK /\ SdTypeOK /\ st.astray \in {FALSE, MediaFaults}
      /\ ~st.astray => st.from = st.pos
  BY <1>1, StreamFound, InvFacts
<1>4. /\ size' \in [Image -> 0..Capacity] /\ data' \in [Image -> Bytes]
      /\ saved' \in [Image -> [len : 0..Capacity, bytes : Bytes]]
  BY <1>2, <1>3, ImagesBeforeKeeps
<1>5. /\ n \in 0..SegLen /\ UNCHANGED <<files, fhandle>>
      /\ stream'[fhandle] = Advance(st, n, "read", "write")
  BY <1>2, <1>3, <1>4, ReadSDKeeps
<1>6. /\ stream'[fhandle].astray = st.astray /\ stream'[fhandle].pos = st.pos + n
      /\ st.from = st.pos => stream'[fhandle].from = stream'[fhandle].pos
  BY <1>5 DEF Advance
<1>7. Astray' = st.astray
  BY <1>3, <1>5, <1>6, SdFileAssumption DEF Astray, IsOpen
<1>8. QED BY <1>1, <1>2, <1>3, <1>5, <1>6, <1>7

\* A byte that sends a segment to the file.
LEMMA FlushedByte ==
  ASSUME DInv, Exchange, req.op # "read", WriteSectFlushed(req.value[k])
  PROVE  \E n \in 0..SegLen :
           /\ ErrBefore = 0 /\ LastOfSeg /\ stream[fhandle] \in StreamBefore
           /\ k > 0 /\ UNCHANGED saved
           /\ WriteSD([bufferSD EXCEPT ![InSeg] = req.value[k]], n) /\ diskErr' = TransferErr(n)
           /\ Astray' = Astray
           /\ stream'[fhandle].pos = stream[fhandle].pos + n
           /\ stream'[fhandle].from = stream[fhandle].from
<1>1. ErrBefore = 0 /\ LastOfSeg
  BY DEF WriteSectFlushed
<1>2. /\ req.value[k] \in Byte /\ k \in Nat /\ TypeOK /\ SdTypeOK /\ InSeg \in 0..(SegLen - 1)
      /\ ioOpcode = WRITESECT /\ IInv
  BY ExchangeMoves, ExchangeStarts, InvFacts
<1>3. ~Seeks /\ stream[fhandle] \in StreamBefore
  BY <1>1, <1>2, FlushingDoesNotSeek, TransferReady
<1>4. k > 0 /\ IsOpen
  <2>1. IsOpen /\ (Seeks <=> k = 0)
    BY <1>1, <1>3, StreamFound
  <2>2. QED BY <1>2, <1>3, <2>1
<1> DEFINE seg == [bufferSD EXCEPT ![InSeg] = req.value[k]]
<1>5. seg \in [0..(SegLen - 1) -> Byte]
  BY <1>2, TypeFacts
<1>6. PICK n \in Count : WriteSD(seg, n) /\ diskErr' = TransferErr(n)
  BY DEF WriteSectFlushed
<1> HIDE DEF seg
<1>7. /\ n \in 0..SegLen /\ UNCHANGED <<files, fhandle>>
      /\ stream'[fhandle] = Advance(stream[fhandle], n, "write", "read")
  BY <1>2, <1>4, <1>5, <1>6, WriteSDKeeps
<1>8. /\ stream'[fhandle].astray = stream[fhandle].astray
      /\ stream'[fhandle].pos = stream[fhandle].pos + n
      /\ stream'[fhandle].from = stream[fhandle].from
  BY <1>7 DEF Advance
<1>9. Astray' = Astray /\ UNCHANGED saved
  BY <1>4, <1>6, <1>7, <1>8 DEF Astray, IsOpen, WriteSD
<1>10. QED BY <1>1, <1>3, <1>4, <1>6, <1>7, <1>8, <1>9 DEF seg

\* A byte put into the buffer.
LEMMA StoredByte ==
  ASSUME DInv, Exchange, req.op # "read", WriteSectStored(req.value[k])
  PROVE  /\ ErrBefore = 0
         /\ \/ /\ k > 0
               /\ UNCHANGED <<stream, size, data, saved>> /\ Astray' = Astray
            \/ \E st \in StreamBefore :
                 /\ k = 0 /\ ImagesBefore(st) /\ stream'[fhandle] = st /\ Astray' = st.astray
<1>1. ErrBefore = 0 /\ UNCHANGED <<files, fhandle>>
  BY DEF WriteSectStored
<1>2. k \in Nat /\ IsOpen /\ SdTypeOK /\ (Seeks <=> k = 0)
  <2>1. ioOpcode = WRITESECT /\ IInv /\ k \in Nat /\ SdTypeOK
    BY ExchangeStarts, InvFacts
  <2>2. IsOpen /\ diskErr = 0
    BY <1>1, <2>1, TransferReady
  <2>3. QED BY <2>1, <2>2, ExchangeStarts DEF Seeks
<1>3. CASE ~Seeks
  BY <1>1, <1>2, <1>3 DEF WriteSectStored, imageVars, Astray, IsOpen
<1>4. CASE Seeks
  <2>1. PICK st \in StreamBefore : ImagesBefore(st) /\ stream' = [stream EXCEPT ![fhandle] = st]
    BY <1>4 DEF WriteSectStored
  <2>2. stream'[fhandle] = st /\ st.astray \in BOOLEAN
    BY <1>1, <1>2, <2>1, StreamFound, SdFileAssumption DEF SdTypeOK, IsOpen
  <2>3. Astray' = st.astray
    BY <1>1, <1>2, <2>2 DEF Astray, IsOpen
  <2>4. QED BY <1>1, <1>2, <1>4, <2>1, <2>2, <2>3
<1>5. QED BY <1>3, <1>4

\* The other bytes leave the files alone.
LEMMA QuietByte ==
  ASSUME DInv, Exchange,
         IF req.op = "read" THEN ~ReadSectFetched
         ELSE ~WriteSectStored(req.value[k]) /\ ~WriteSectFlushed(req.value[k])
  PROVE  /\ UNCHANGED <<stream, size, data, saved>> /\ Astray' = Astray
         /\ diskErr' = 0 => k > 0
<1>1. IF req.op = "read" THEN ReadSectFailed \/ ReadSectBuffered
      ELSE WriteSectIgnored(req.value[k])
  BY ExchangeMoves DEF ReadsByte, WritesByte
<1>2. UNCHANGED <<stream, size, data, saved, files, fhandle>>
  BY <1>1 DEF ReadSectFailed, ReadSectBuffered, WriteSectIgnored, fileVars, imageVars
<1>3. Astray' = Astray
  BY <1>2 DEF Astray, IsOpen
<1>4. ASSUME diskErr' = 0 PROVE k > 0
  <2>1. InSeg # 0
    BY <1>1, <1>4 DEF ReadSectFailed, ReadSectBuffered, WriteSectIgnored
  <2>2. k \in Nat /\ InSeg = k % SegLen /\ SegLen \in Nat \ {0}
    BY ExchangeStarts, InvFacts
  <2>3. QED BY <2>1, <2>2
<1>5. QED BY <1>2, <1>3, <1>4

\* Only the first byte moves the stream, and only then it may go astray.
LEMMA AstrayStays ==
  ASSUME DInv, Exchange
  PROVE  /\ k > 0 => Astray' = Astray
         /\ Astray' => MediaFaults
<1>1. ASSUME k > 0 PROVE Astray' = Astray
  <2>1. CASE req.op = "read" /\ ReadSectFetched
    <3>1. PICK st \in StreamBefore : ErrBefore = 0 /\ Astray' = st.astray
      BY <2>1, FetchedByte
    <3>2. st = stream[fhandle] /\ IsOpen
      <4>1. IsOpen /\ (Seeks <=> k = 0) /\ (~Seeks => st = stream[fhandle])
        BY <3>1, StreamFound
      <4>2. QED BY <1>1, <4>1
    <3>3. st.astray \in BOOLEAN
      BY <3>1, StreamFound, SdFileAssumption
    <3>4. QED BY <3>1, <3>2, <3>3 DEF Astray
  <2>2. CASE req.op # "read" /\ WriteSectFlushed(req.value[k])
    BY <2>2, FlushedByte
  <2>3. CASE req.op # "read" /\ WriteSectStored(req.value[k])
    BY <1>1, <2>3, StoredByte, ExchangeStarts
  <2>4. QED BY <2>1, <2>2, <2>3, QuietByte
<1>2. Astray' => MediaFaults
  <2>1. SdTypeOK'
    BY ExchangeMoves DEF IInv, TypeOK
  <2>2. QED BY <2>1 DEF SdTypeOK, Astray, IsOpen, Stream
<1>3. QED BY <1>1, <1>2

\* A transfer a sound card makes whole.
LEMMA SoundTransfer ==
  ASSUME ~MediaFaults, NEW limit \in Nat, NEW from \in Nat, from + SegLen <= limit,
         NEW n \in Moved(Left(limit, from))
  PROVE  n = SegLen
BY SdFileAssumption DEF Moved, Left

\* The file has the segment that a read wants, or the room that a write needs.
LEMMA SegmentIsThere ==
  ASSUME DInv, Exchange, IsOpen, NEW from, from = Base + Whole
  PROVE  /\ from \in Nat /\ Capacity \in Nat /\ from + SegLen <= Capacity
         /\ size[Current] \in Nat /\ from + SegLen <= size[Current]
<1>1. /\ Current = <<diskSet, disk>> /\ Current \in Image /\ FilesStay
      /\ Base + SectLen <= InitSize[Current]
  BY ExchangeStarts, InvFacts
<1>2. Capacity \in Nat /\ InitSize \in [Image -> 0..Capacity]
  BY SdFileAssumption, IosDiskAssumption
<1>3. size \in [Image -> 0..Capacity]
  BY InvFacts DEF SdTypeOK
<1>4. /\ size[Current] \in 0..Capacity /\ InitSize[Current] \in 0..Capacity
      /\ size[Current] >= InitSize[Current]
  BY <1>1, <1>2, <1>3 DEF FilesStay
<1>5. QED BY <1>1, <1>2, <1>4, OffsetFacts

\* Where a transfer of a sound stream starts and, unless the card fails it, ends.
LEMMA MoveStarts ==
  ASSUME DInv, Exchange, ErrBefore = 0, NEW st \in StreamBefore, ~st.astray,
         IF req.op = "read" THEN InSeg = 0 ELSE LastOfSeg
  PROVE  /\ IsOpen
         /\ st.pos = IF Seeks THEN SectStart ELSE stream[fhandle].pos
         /\ st.pos = Base + Whole
BY StreamFound, OffsetFacts

\* On a byte without a fault, the stream is where it should be.
LEMMA NotAstrayWithoutFault ==
  ASSUME DInv, Exchange, ~faulted, ~SeekFault
  PROVE  Astray' => ~(ErrBefore = 0)
<1> SUFFICES ASSUME ErrBefore = 0, Astray' PROVE FALSE
  OBVIOUS
<1>1. at = "byte" /\ NothingWrong /\ Moving /\ k \in Nat /\ req \in Request
  BY ExchangeStarts, InvFacts DEF Moving
<1>2. ~Seeks
  BY <1>1 DEF SeekFault
<1>3. \E st : st \in StreamBefore
  <2>1. CASE Seeks
    BY <2>1 DEF StreamBefore, SeekSD
  <2>2. CASE ~Seeks
    BY <2>2 DEF StreamBefore
  <2>3. QED BY <2>1, <2>2
<1>4. k > 0
  <2>1. Seeks <=> k = 0
    BY <1>3, StreamFound
  <2>2. QED BY <1>1, <1>2, <2>1
<1>5. ~Astray
  BY <1>1, <1>4 DEF NothingWrong
<1>6. k > 0 => Astray' = Astray
  BY AstrayStays
<1>7. QED BY <1>4, <1>5, <1>6

\* A byte exchanged while the card works meets no error.
LEMMA SoundCardNoError ==
  ASSUME DInv, Exchange, ~faulted, ~Faults
  PROVE  diskErr' = 0
<1>1. /\ at = "byte" /\ NothingWrong /\ at' # "idle"
      /\ ioOpcode = (IF req.op = "read" THEN READSECT ELSE WRITESECT)
      /\ IF req.op = "read" THEN ReadsByte ELSE WritesByte(req.value[k])
  BY ExchangeStarts, ExchangeMoves, InvFacts
<1>2. IsOpen /\ diskErr = 0
  BY <1>1 DEF NothingWrong, Opened, Addressed, Moving
<1>3. ErrBefore = 0
  BY <1>2 DEF ErrBefore, SeekErr
<1>4. ~SeekFault /\ ~MoveFault
  BY <1>1 DEF Faults
<1>5. ~Astray'
  BY <1>3, <1>4, NotAstrayWithoutFault
<1>6. TransferErr(SegLen) = 0 /\ SegLen \in Nat
  BY <1>2, SdFileAssumption DEF TransferErr
<1>9. CASE req.op = "read"
  <2>1. CASE ReadSectBuffered
    BY <2>1 DEF ReadSectBuffered
  <2>2. CASE ReadSectFetched
    <3>1. PICK st \in StreamBefore, n \in 0..SegLen :
            /\ ImagesBefore(st) /\ diskErr' = TransferErr(n) /\ Astray' = st.astray
            /\ stream'[fhandle].pos = st.pos + n
      BY <1>9, <2>2, FetchedByte
    <3>2. InSeg = 0
      BY <2>2 DEF ReadSectFetched
    <3>3. /\ st.pos = IF Seeks THEN SectStart ELSE stream[fhandle].pos
          /\ st.pos = Base + Whole
      BY <1>3, <1>5, <1>9, <3>1, <3>2, MoveStarts
    <3>4. st.pos \in Nat /\ st.pos + SegLen <= size[Current]
      BY <1>2, <3>3, SegmentIsThere
    <3>5. size' = size
      BY <1>2, <1>5, <3>1, InvFacts, ImagesBeforeKeeps
    <3>6. ~(stream'[fhandle].pos < st.pos + SegLen)
      BY <1>1, <1>2, <1>3, <1>4, <1>9, <3>2, <3>3, <3>4, <3>5 DEF MoveFault
    <3>7. n = SegLen
      BY <1>6, <3>1, <3>4, <3>6
    <3>8. QED BY <1>6, <3>1, <3>7
  <2>3. QED BY <1>1, <1>3, <1>9, <2>1, <2>2 DEF ReadsByte, ReadSectFailed
<1>10. CASE req.op # "read"
  <2> DEFINE b == req.value[k]
  <2>1. CASE WriteSectStored(b)
    BY <2>1 DEF WriteSectStored
  <2>2. CASE WriteSectFlushed(b)
    <3>1. PICK n \in 0..SegLen :
            /\ LastOfSeg /\ stream[fhandle] \in StreamBefore /\ diskErr' = TransferErr(n)
            /\ Astray' = Astray /\ stream'[fhandle].pos = stream[fhandle].pos + n
      BY <1>10, <2>2, FlushedByte
    <3>2. ~stream[fhandle].astray
      BY <1>2, <1>5, <3>1 DEF Astray
    <3>3. /\ stream[fhandle].pos = IF Seeks THEN SectStart ELSE stream[fhandle].pos
          /\ stream[fhandle].pos = Base + Whole
      BY <1>3, <1>10, <3>1, <3>2, MoveStarts
    <3>4. stream[fhandle].pos \in Nat /\ stream[fhandle].pos + SegLen <= Capacity
      BY <1>2, <3>3, SegmentIsThere
    <3>6. ~(stream'[fhandle].pos < stream[fhandle].pos + SegLen)
      BY <1>1, <1>2, <1>3, <1>4, <1>10, <3>1, <3>3, <3>4 DEF MoveFault
    <3>7. n = SegLen
      BY <1>6, <3>1, <3>4, <3>6
    <3>8. QED BY <1>6, <3>1, <3>7
  <2>3. QED BY <1>1, <1>3, <1>10, <2>1, <2>2 DEF WritesByte, WriteSectIgnored
<1>11. QED BY <1>9, <1>10

\* A sound card shows no fault.
LEMMA FaultsNeedMedia ==
  ASSUME DInv, Exchange, Faults
  PROVE  MediaFaults
<1> SUFFICES ASSUME ~MediaFaults PROVE FALSE
  OBVIOUS
<1>1. /\ at = "byte"
      /\ IF req.op = "read" THEN ReadsByte ELSE WritesByte(req.value[k])
  BY ExchangeStarts, ExchangeMoves
<1>2. ~OpenFault
  BY <1>1 DEF OpenFault
<1>3. ~Astray'
  <2>1. SdTypeOK'
    BY ExchangeMoves DEF IInv, TypeOK
  <2>2. QED BY <2>1 DEF SdTypeOK, Astray, IsOpen, Stream
<1>4. MoveFault
  BY <1>2, <1>3 DEF Faults, SeekFault
<1>5. /\ ErrBefore = 0 /\ IsOpen
      /\ IF req.op = "read" THEN InSeg = 0 ELSE LastOfSeg
  BY <1>4 DEF MoveFault
<1>6. CASE req.op = "read"
  <2>1. ReadSectFetched
    BY <1>1, <1>5, <1>6 DEF ReadsByte, ReadSectFailed, ReadSectBuffered
  <2>2. PICK st \in StreamBefore, n \in 0..SegLen :
          /\ ImagesBefore(st) /\ ReadSD(st, n) /\ Astray' = st.astray
          /\ stream'[fhandle].pos = st.pos + n
    BY <1>6, <2>1, FetchedByte
  <2>3. st.pos = IF Seeks THEN SectStart ELSE stream[fhandle].pos
    BY <1>3, <1>5, <1>6, <2>2, MoveStarts
  <2>4. st.pos + SegLen <= size'[Current] /\ stream'[fhandle].pos < st.pos + SegLen
    BY <1>4, <1>6, <2>3 DEF MoveFault
  <2>5. n \in Moved(Left(size'[Current], st.pos)) /\ st.pos \in Nat
    BY <1>5, <2>2, StreamFound DEF ReadSD
  <2>6. size'[Current] \in Nat
    <3>1. size' \in [Image -> 0..Capacity] /\ Current \in Image
      BY <1>5, <2>2, InvFacts, ImagesBeforeKeeps, OpenFacts
    <3>2. QED BY <3>1, SdFileAssumption
  <2>7. n = SegLen
    BY <2>4, <2>5, <2>6, SoundTransfer
  <2>8. QED BY <2>2, <2>4, <2>5, <2>7, SdFileAssumption
<1>7. CASE req.op # "read"
  <2>1. WriteSectFlushed(req.value[k])
    BY <1>1, <1>5, <1>7 DEF WritesByte, WriteSectIgnored, WriteSectStored
  <2>2. PICK n \in 0..SegLen :
          /\ WriteSD([bufferSD EXCEPT ![InSeg] = req.value[k]], n)
          /\ stream[fhandle] \in StreamBefore /\ Astray' = Astray
          /\ stream'[fhandle].pos = stream[fhandle].pos + n
    BY <1>7, <2>1, FlushedByte
  <2>9. ~stream[fhandle].astray
    BY <1>3, <1>5, <2>2 DEF Astray
  <2>3. stream[fhandle].pos = IF Seeks THEN SectStart ELSE stream[fhandle].pos
    BY <1>5, <1>7, <2>2, <2>9, MoveStarts
  <2>4. /\ stream[fhandle].pos + SegLen <= Capacity
        /\ stream'[fhandle].pos < stream[fhandle].pos + SegLen
    BY <1>4, <1>7, <2>3 DEF MoveFault
  <2>5. n \in Moved(Left(Capacity, stream[fhandle].pos)) /\ stream[fhandle].pos \in Nat
    BY <1>5, <2>2, StreamFound DEF WriteSD
  <2>7. n = SegLen
    BY <2>4, <2>5, SoundTransfer, SdFileAssumption
  <2>8. QED BY <2>2, <2>4, <2>5, <2>7, SdFileAssumption
<1>8. QED BY <1>6, <1>7

\* What a byte does to the images.
LEMMA ExchangeImages ==
  ASSUME DInv, Exchange
  PROVE  /\ FilesStay'
         /\ \A f \in Image : \A i \in 0..(Capacity - 1) :
              data'[f][i] # data[f][i] =>
                /\ IsOpen /\ f = Current
                /\ \/ MediaFaults /\ i \in Unsaved
                   \/ req.op # "read" /\ (Astray' \/ i \in Base..(Base + SectLen - 1))
         /\ ~Astray' /\ (req.op = "read" \/ ~WriteSectFlushed(req.value[k])) =>
              UNCHANGED <<size, data>>
<1> DEFINE Lost ==
             \A f \in Image : \A i \in 0..(Capacity - 1) :
               data'[f][i] # data[f][i] =>
                 IsOpen /\ f = Current /\ MediaFaults /\ i \in Unsaved
           Lengths ==
             \A f \in Image : /\ size'[f] = size[f] \/ size'[f] >= saved[f].len
                             /\ saved'[f].len \in {saved[f].len, size'[f]}
<1>1. IInv /\ IInv' /\ TypeOK /\ FilesStay
  BY ExchangeMoves, InvFacts
<1>2. ASSUME ErrBefore = 0, NEW st \in StreamBefore, ImagesBefore(st), Astray' = st.astray
      PROVE  Lost /\ Lengths /\ (~Astray' => UNCHANGED <<size, data>>)
  <2>1. IsOpen
    BY <1>2, StreamFound
  <2>2. QED BY <1>1, <1>2, <2>1, ImagesBeforeKeeps
<1>3. ASSUME UNCHANGED <<size, data, saved>> PROVE Lost /\ Lengths
  BY <1>3
<1>4. Lengths => FilesStay'
  <2>1. SUFFICES ASSUME Lengths, NEW f \in Image
                 PROVE  size'[f] >= InitSize[f] /\ saved'[f].len >= InitSize[f]
    BY DEF FilesStay
  <2>2. size[f] >= InitSize[f] /\ saved[f].len >= InitSize[f]
    BY <1>1 DEF FilesStay
  <2>3. QED BY <1>1, <2>1, <2>2, LengthsAreNumbers
<1>5. CASE req.op = "read" /\ ReadSectFetched
  <2>1. PICK st \in StreamBefore : ErrBefore = 0 /\ ImagesBefore(st) /\ Astray' = st.astray
    BY <1>5, FetchedByte
  <2>2. Lost /\ Lengths /\ (~Astray' => UNCHANGED <<size, data>>)
    BY <1>2, <2>1
  <2>3. QED BY <1>4, <2>2
<1>6. CASE req.op # "read" /\ WriteSectStored(req.value[k])
  <2>1. Lost /\ Lengths /\ (~Astray' => UNCHANGED <<size, data>>)
    BY <1>2, <1>3, <1>6, StoredByte
  <2>2. QED BY <1>4, <2>1
<1>7. CASE req.op # "read" /\ WriteSectFlushed(req.value[k])
  <2>1. PICK n \in 0..SegLen :
          /\ ErrBefore = 0 /\ LastOfSeg /\ stream[fhandle] \in StreamBefore /\ UNCHANGED saved
          /\ WriteSD([bufferSD EXCEPT ![InSeg] = req.value[k]], n) /\ Astray' = Astray
    BY <1>7, FlushedByte
  <2>2. IsOpen /\ stream[fhandle].pos \in Nat /\ n \in Nat
    <3>1. n \in Nat
      BY <2>1, SdFileAssumption
    <3>2. IsOpen /\ stream[fhandle].pos \in Nat
      BY <2>1, StreamFound
    <3>3. QED BY <3>1, <3>2
  <2> DEFINE at0 == stream[fhandle].pos
  <2>3. size' = [size EXCEPT ![Current] = IF n > 0 /\ at0 + n > @ THEN at0 + n ELSE @]
    BY <2>1, <2>2 DEF WriteSD
  <2>4. ASSUME NEW f \in Image PROVE size'[f] >= size[f]
    <3>1. size[f] \in Nat
      BY <1>1, LengthsAreNumbers
    <3>2. size \in [Image -> 0..Capacity]
      BY <1>1, TypeFacts
    <3>3. QED BY <2>2, <2>3, <3>1, <3>2
  <2>5. FilesStay'
    <3>1. SUFFICES ASSUME NEW f \in Image
                   PROVE  size'[f] >= InitSize[f] /\ saved'[f].len >= InitSize[f]
      BY DEF FilesStay
    <3>2. size[f] >= InitSize[f] /\ saved[f].len >= InitSize[f] /\ size'[f] >= size[f]
      BY <1>1, <2>4 DEF FilesStay
    <3>3. QED BY <1>1, <2>1, <3>2, LengthsAreNumbers
  <2>6. WritesInPlace
    <3>1. req.value[k] \in Byte
      BY <1>7, ExchangeMoves
    <3>2. QED BY <1>1, <1>7, <3>1, FlushIsInPlace
  <2>7. ~Seeks /\ ioOpcode # SELDISK
    <3>1. ioOpcode = WRITESECT
      BY <1>7, ExchangeStarts
    <3>2. QED BY <1>1, <2>1, <3>1, FlushingDoesNotSeek DEF SELDISK, WRITESECT
  <2>8. /\ SectStart = Base /\ AddressValid /\ ioByteCnt = Whole + InSeg /\ InSeg = SegLen - 1
    <3>1. SectStart = Base /\ AddressValid /\ Whole = k - InSeg /\ ioByteCnt = k /\ k \in Nat
          /\ InSeg \in 0..(SegLen - 1)
      BY ExchangeStarts
    <3>2. QED BY <2>1, <3>1, OffsetFacts DEF LastOfSeg
  <2>9. ASSUME NEW f \in Image, NEW i \in 0..(Capacity - 1), data'[f][i] # data[f][i]
        PROVE  IsOpen /\ f = Current /\ (Astray' \/ i \in Base..(Base + SectLen - 1))
    <3>1. /\ IsOpen /\ f = Current
          /\ ~Astray => i \in (SectStart + ioByteCnt + 1 - SegLen)..(SectStart + ioByteCnt)
      BY <2>6, <2>7, <2>8, <2>9 DEF WritesInPlace
    <3>2. QED BY <2>1, <2>8, <3>1, OffsetFacts
  <2>10. QED BY <1>7, <2>5, <2>9
<1>8. QED
  <2>1. CASE UNCHANGED <<size, data, saved>>
    BY <1>3, <1>4, <2>1
  <2>2. QED BY <1>5, <1>6, <1>7, <2>1, QuietByte

\* Where a byte leaves the stream.
LEMMA ExchangeStream ==
  ASSUME DInv, Exchange, ~Astray'
  PROVE  \/ UNCHANGED stream /\ (diskErr' = 0 => k > 0)
         \/ IF req.op = "read" THEN stream'[fhandle].from = stream'[fhandle].pos
            ELSE stream'[fhandle].from = Base /\ stream'[fhandle].pos <= Base + SectLen
<1>1. CASE req.op = "read" /\ ReadSectFetched
  BY <1>1, FetchedByte
<1>2. CASE req.op # "read" /\ WriteSectStored(req.value[k])
  <2>1. CASE UNCHANGED stream /\ k > 0
    BY <2>1
  <2>2. ASSUME NEW st \in StreamBefore, ErrBefore = 0, stream'[fhandle] = st, Astray' = st.astray
        PROVE  stream'[fhandle].from = Base /\ stream'[fhandle].pos <= Base + SectLen
    <3>1. st.from = Base /\ st.pos = Base + StreamOffset
      BY <1>2, <2>2, StreamFound
    <3>2. QED BY <1>2, <2>2, <3>1, OffsetFacts
  <2>3. QED BY <1>2, <2>1, <2>2, StoredByte
<1>3. CASE req.op # "read" /\ WriteSectFlushed(req.value[k])
  <2>1. PICK n \in 0..SegLen :
          /\ ErrBefore = 0 /\ stream[fhandle] \in StreamBefore /\ Astray' = Astray
          /\ stream'[fhandle].pos = stream[fhandle].pos + n
          /\ stream'[fhandle].from = stream[fhandle].from
    BY <1>3, FlushedByte
  <2>2. ~stream[fhandle].astray
    BY <2>1, StreamFound DEF Astray
  <2>3. stream[fhandle].from = Base /\ stream[fhandle].pos = Base + StreamOffset
    BY <1>3, <2>1, <2>2, StreamFound
  <2>4. StreamOffset = Whole
    BY <1>3, OffsetFacts
  <2>5. QED BY <1>3, <2>1, <2>3, <2>4, OffsetFacts
<1>4. QED BY <1>1, <1>2, <1>3, QuietByte

\* A byte read is the block's; a byte written waits in the buffer, or completes the
\* segment that is then in the block.
LEMMA ExchangeBytes == ASSUME DInv, Exchange PROVE BytesMoved'
<1>1. SUFFICES ASSUME diskErr' = 0, ~Astray'
               PROVE  IF req.op = "read"
                      THEN \A j \in 0..(SectLen - 1) :
                             j < k + 1 => got'[j] = data'[<<diskSet, disk>>][Base + j]
                      ELSE /\ \A j \in 0..(SectLen - 1) :
                                j < Whole' => data'[<<diskSet, disk>>][Base + j] = req.value[j]
                           /\ \A i \in 0..(SegLen - 1) :
                                i < (k + 1) % SegLen => bufferSD'[i] = req.value[Whole' + i]
  <2>1. /\ req' = req /\ k' = k + 1 /\ diskSet' = diskSet
    BY ExchangeMoves
  <2>2. disk' = disk /\ Base' = Base
    BY <2>1 DEF disk, Base
  <2>3. QED BY <2>1, <2>2 DEF BytesMoved
<1>2. /\ IInv /\ BytesMoved /\ ProgramOK /\ SectLen \in Nat \ {0} /\ SegLen \in Nat \ {0}
      /\ TypeOK
  BY InvFacts
<1>3. diskErr = 0 /\ IsOpen /\ Moving /\ Current = <<diskSet, disk>>
  BY <1>1, ErrorFreeByte, ExchangeStarts DEF Moving
<1>4. /\ k \in Nat /\ k < SectLen /\ ioByteCnt = k /\ SectStart = Base /\ AddressValid
      /\ k % SegLen = InSeg /\ InSeg \in 0..(SegLen - 1) /\ Whole \in Nat /\ Whole = k - InSeg
      /\ ioOpcode = (IF req.op = "read" THEN READSECT ELSE WRITESECT) /\ Base \in Nat
      /\ Base + SectLen <= InitSize[<<diskSet, disk>>] /\ <<diskSet, disk>> \in Image
      /\ Whole + SegLen <= SectLen
  BY ExchangeStarts
<1>5. (k + 1) % SegLen = (IF InSeg = SegLen - 1 THEN 0 ELSE InSeg + 1)
  BY <1>2, <1>4, NextInSegment
<1>6. Whole' = (k + 1) - ((k + 1) % SegLen)
  BY ExchangeMoves DEF Whole
<1>10. k > 0 => ~Astray
  BY <1>1, AstrayStays
<1>11. k = 0 => Whole = 0 /\ InSeg = 0
  BY <1>2, <1>4
<1>7. CASE req.op = "read"
  <2>1. /\ ReadSectFetched \/ ReadSectBuffered
        /\ got' = [got EXCEPT ![k] = ioData'] /\ data' = data
        /\ got \in [0..(SectLen - 1) -> Byte]
    BY <1>1, <1>2, <1>7, ErrorFreeByte, ExchangeMoves, ExchangeImages DEF ProgramOK
  <2>2. ioData' = data[<<diskSet, disk>>][Base + k]
    BY <1>1, <1>2, <1>3, <1>4, <1>7, <2>1, ReadIsInPlace
  <2>3. ASSUME NEW j \in 0..(SectLen - 1), j < k
        PROVE  got[j] = data[<<diskSet, disk>>][Base + j]
    <3>1. ~Astray
      BY <1>4, <1>10, <2>3
    <3>2. QED BY <1>2, <1>3, <1>7, <2>3, <3>1 DEF BytesMoved
  <2>4. ASSUME NEW j \in 0..(SectLen - 1), j < k + 1
        PROVE  got'[j] = data'[<<diskSet, disk>>][Base + j]
    <3>1. j = k \/ j < k
      BY <1>4, <2>4
    <3>2. QED BY <1>4, <2>1, <2>2, <2>3, <3>1
  <2>5. QED BY <1>7, <2>4
<1>8. CASE req.op # "read"
  <2> DEFINE b == req.value[k]
  <2>1. /\ WriteSectStored(b) \/ WriteSectFlushed(b)
        /\ b \in Byte
    BY <1>1, <1>8, ErrorFreeByte, ExchangeMoves
  <2>2. bufferSD \in [0..(SegLen - 1) -> Byte]
    BY <1>2, TypeFacts
  <2>3. /\ \A j \in 0..(SectLen - 1) :
              j < Whole => data[<<diskSet, disk>>][Base + j] = req.value[j]
        /\ \A i \in 0..(SegLen - 1) : i < InSeg => bufferSD[i] = req.value[Whole + i]
    <3>1. CASE k > 0
      BY <1>2, <1>3, <1>4, <1>8, <1>10, <3>1 DEF BytesMoved
    <3>2. CASE ~(k > 0)
      <4>1. k = 0
        BY <1>4, <3>2
      <4>2. QED BY <1>11, <4>1
    <3>3. QED BY <3>1, <3>2
  <2> DEFINE seg == [bufferSD EXCEPT ![InSeg] = b]
  <2>4. \A i \in 0..(SegLen - 1) : i < InSeg + 1 => seg[i] = req.value[Whole + i]
    BY <1>4, <2>2, <2>3
  <2>5. CASE WriteSectStored(b)
    <3>1. ~LastOfSeg /\ bufferSD' = seg
      BY <2>5 DEF WriteSectStored
    <3>4. data' = data
      <4>1. ~WriteSectFlushed(b)
        BY <3>1 DEF WriteSectFlushed
      <4>2. QED BY <1>1, <4>1, ExchangeImages
    <3>2. (k + 1) % SegLen = InSeg + 1 /\ Whole' = Whole
      BY <1>4, <1>5, <1>6, <3>1 DEF LastOfSeg
    <3>3. QED BY <1>8, <2>3, <2>4, <3>1, <3>2, <3>4
  <2>6. CASE WriteSectFlushed(b)
    <3>1. LastOfSeg
      BY <2>6 DEF WriteSectFlushed
    <3>2. InSeg = SegLen - 1 /\ (k + 1) % SegLen = 0 /\ Whole' = Whole + SegLen
      BY <1>2, <1>4, <1>5, <1>6, <3>1 DEF LastOfSeg
    <3>3. WritesInPlace
      BY <1>2, <2>1, <2>6, FlushIsInPlace
    <3>6. ~Astray /\ ~Seeks /\ ioOpcode # SELDISK
      <4>1. ~Seeks
        BY <1>2, <3>1, FlushingDoesNotSeek
      <4>2. k > 0
        BY <1>3, <1>4, <4>1 DEF Seeks
      <4>3. ioOpcode # SELDISK
        BY <1>4, <1>8 DEF SELDISK, WRITESECT
      <4>4. QED BY <1>10, <4>1, <4>2, <4>3
    <3>4. ASSUME NEW j \in 0..(SectLen - 1), j < Whole + SegLen
          PROVE  data'[<<diskSet, disk>>][Base + j] = req.value[j]
      <4>1. CASE j < Whole
        <5>1. Base + j \in 0..(Capacity - 1)
          <6>1. /\ InitSize[<<diskSet, disk>>] \in 0..Capacity /\ Capacity \in Nat
            BY <1>4, SdFileAssumption, IosDiskAssumption
          <6>2. QED BY <1>2, <1>4, <6>1
        <5>2. Base + j \notin (SectStart + ioByteCnt + 1 - SegLen)..(SectStart + ioByteCnt)
          BY <1>2, <1>4, <3>2, <4>1
        <5>3. data'[<<diskSet, disk>>][Base + j] = data[<<diskSet, disk>>][Base + j]
          BY <1>4, <3>3, <3>6, <5>1, <5>2 DEF WritesInPlace
        <5>4. QED BY <2>3, <4>1, <5>3
      <4>2. CASE ~(j < Whole)
        <5> DEFINE i == j - Whole
        <5>1. i \in 0..(SegLen - 1) /\ Base + Whole + i = Base + j /\ Whole + i = j
          BY <1>2, <1>4, <3>4, <4>2
        <5>2. data'[Current][SectStart + (ioByteCnt - InSeg) + i] = seg[i]
          BY <1>1, <1>2, <1>4, <2>1, <2>6, <3>6, <5>1, FlushStores
        <5>3. seg[i] = req.value[Whole + i]
          BY <2>4, <3>2, <5>1
        <5>4. QED BY <1>3, <1>4, <5>1, <5>2, <5>3
      <4>3. QED BY <4>1, <4>2
    <3>5. QED BY <1>8, <3>2, <3>4
  <2>7. QED BY <2>1, <2>5, <2>6
<1>9. QED BY <1>7, <1>8

\* What a byte does to the blocks: a block changes if it is the one being written, if the
\* stream is astray on its disk, or if it loses what was not saved.
LEMMA ExchangeWorks ==
  ASSUME DInv, Exchange, NEW b \in Block
  PROVE  LET own == (req.op # "read" /\ b = req.block) \/ (Astray' /\ b[1] = req.block[1])
         IN  /\ Content(b)' # Content(b) => own \/ (MediaFaults /\ b \in UnsavedBlocks)
             /\ b \in UnsavedBlocks' \ UnsavedBlocks => own
<1> DEFINE own == (req.op # "read" /\ b = req.block) \/ (Astray' /\ b[1] = req.block[1])
<1>1. /\ req \in Request /\ Moving /\ at = "byte"
      /\ IsOpen => Current = <<diskSet, disk>>
      /\ diskSet = InitDiskSet
  BY ExchangeStarts DEF Moving
<1>2. UNCHANGED <<diskSet, files, fhandle>>
  BY ExchangeMoves
<1>3. IsOpen' = IsOpen /\ Current' = Current
  BY <1>2 DEF IsOpen, Current
<1>4. /\ Offset(b[2]) \in Nat /\ Offset(b[2]) + SectLen <= Capacity /\ Capacity \in Nat
      /\ <<diskSet, b[1]>> \in Image /\ SectLen \in Nat
  BY <1>1, BlocksLieInFiles
<1>5. ASSUME IsOpen, Current = <<diskSet, b[1]>> PROVE b[1] = req.block[1]
  BY <1>1, <1>5 DEF disk
<1>6. ASSUME Content(b)' # Content(b) PROVE own \/ (MediaFaults /\ b \in UnsavedBlocks)
  <2>1. PICK j \in 0..(SectLen - 1) :
          data'[<<diskSet, b[1]>>][Offset(b[2]) + j] # data[<<diskSet, b[1]>>][Offset(b[2]) + j]
    BY <1>2, <1>6 DEF Content
  <2> DEFINE i == Offset(b[2]) + j
  <2>2. i \in 0..(Capacity - 1)
    BY <1>4
  <2>3. /\ IsOpen /\ <<diskSet, b[1]>> = Current
        /\ \/ MediaFaults /\ i \in Unsaved
           \/ req.op # "read" /\ (Astray' \/ i \in Base..(Base + SectLen - 1))
    BY <1>4, <2>1, <2>2, ExchangeImages
  <2>4. CASE i \in Unsaved /\ MediaFaults
    BY <2>3, <2>4 DEF UnsavedBlocks
  <2>5. CASE Astray'
    BY <1>5, <2>3, <2>5
  <2>6. CASE req.op # "read" /\ i \in Base..(Base + SectLen - 1)
    BY <1>1, <2>3, <2>6, ByteTellsBlock
  <2>7. QED BY <2>3, <2>4, <2>5, <2>6
<1>7. ASSUME b \in UnsavedBlocks', b \notin UnsavedBlocks PROVE own
  <2>1. PICK j \in 0..(SectLen - 1) : Offset(b[2]) + j \in Unsaved'
    BY <1>7 DEF UnsavedBlocks
  <2>2. IsOpen' /\ Current' = <<diskSet', b[1]>>
    BY <1>7 DEF UnsavedBlocks
  <2>3. IsOpen /\ Current = <<diskSet, b[1]>>
    BY <1>2, <1>3, <2>2
  <2>4. CASE Astray'
    BY <1>5, <2>3, <2>4
  <2>5. CASE ~Astray'
    <3> DEFINE st == stream'[fhandle]
    <3>1. CASE UNCHANGED stream
      BY <1>2, <1>7, <2>1, <2>3, <3>1 DEF UnsavedBlocks, Unsaved
    <3>2. CASE IF req.op = "read" THEN st.from = st.pos
               ELSE st.from = Base /\ st.pos <= Base + SectLen
      <4>1. st.pos \in Nat /\ st.from \in Nat
        <5>1. SdTypeOK'
          BY ExchangeMoves DEF IInv, TypeOK
        <5>2. QED BY <1>2, <2>3, <5>1 DEF SdTypeOK, IsOpen, Stream
      <4>2. Offset(b[2]) + j \in st.from..(st.pos - 1)
        BY <1>2, <2>1 DEF Unsaved
      <4> HIDE DEF st
      <4>3. req.op # "read" /\ Offset(b[2]) + j \in Base..(Base + SectLen - 1)
        BY <1>4, <3>2, <4>1, <4>2, ExchangeStarts
      <4>4. QED BY <1>1, <2>3, <4>3, ByteTellsBlock
    <3>3. QED BY <2>5, <3>1, <3>2, ExchangeStream
  <2>6. QED BY <2>4, <2>5
<1>8. QED BY <1>6, <1>7

LEMMA ExchangeKeeps ==
  ASSUME DInv, RecordsFaults, Exchange
  PROVE  /\ DInv' /\ req \in Request /\ UNCHANGED <<req, reply, diskSet>>
         /\ k' = k + 1 /\ k \in Nat
<1>1. /\ at = "byte" /\ k \in Nat /\ k < SectLen /\ ioByteCnt = k /\ req \in Request
      /\ ioOpcode = (IF req.op = "read" THEN READSECT ELSE WRITESECT)
  BY ExchangeStarts
<1>2. /\ IInv' /\ UNCHANGED <<req, reply, known, trackSel, sectSel, diskSet, files, fhandle>>
      /\ k' = k + 1 /\ at' = (IF k' = SectLen THEN "ERRDISK" ELSE "byte")
      /\ req.op = "read" => got' = [got EXCEPT ![k] = ioData']
      /\ req.op # "read" => UNCHANGED got
      /\ ioByteCnt' = ioByteCnt + 1
      /\ k' < SectLen => ioOpcode' = ioOpcode
      /\ FilesStay'
  BY ExchangeMoves, ExchangeImages
<1>3. /\ ProgramOK /\ Selected /\ NothingWrong /\ SectLen \in Nat \ {0}
  BY InvFacts
<1>4. /\ faulted' = (faulted \/ Faults) /\ faulted' \in BOOLEAN
      /\ faulted' => MediaFaults
  <2>1. faulted' = (faulted \/ Faults) /\ (faulted => MediaFaults) /\ faulted \in BOOLEAN
    BY <1>1, InvFacts DEF RecordsFaults, NothingWrong, ProgramOK
  <2>2. QED BY <2>1, FaultsNeedMedia
<1>5. disk' = disk /\ track' = track /\ sector' = sector
  BY <1>2 DEF disk, track, sector
<1>6. IsOpen' = IsOpen /\ Current' = Current
  BY <1>2 DEF IsOpen, Current
<1>7. at' \in {"byte", "ERRDISK"} /\ Moving /\ Moving'
  BY <1>1, <1>2 DEF Moving
<1>8. ProgramOK'
  <2>1. got' \in [0..(SectLen - 1) -> Byte]
    <3>1. ioData' \in Byte
      BY <1>2, RestFacts DEF IInv, TypeOK
    <3>2. got \in [0..(SectLen - 1) -> Byte]
      BY <1>3 DEF ProgramOK
    <3>3. QED BY <1>2, <3>1, <3>2
  <2>2. reply' = NoReply /\ req' \in Request
    BY <1>1, <1>2, <1>3 DEF ProgramOK
  <2>3. k' \in Nat /\ (IF at' = "byte" THEN k' < SectLen ELSE k' = SectLen)
    BY <1>1, <1>2, <1>3
  <2>4. QED BY <1>4, <1>7, <2>1, <2>2, <2>3 DEF ProgramOK, Place
<1>9. Selected'
  BY <1>1, <1>2, <1>3, <1>5, <1>6, <1>7 DEF Selected, Opened, TrackSet, Addressed, Moving
<1>10. CountsAgree'
  BY <1>1, <1>2, <1>3 DEF CountsAgree
<1>11. NothingWrong'
  <2>1. ~faulted' => diskErr' = 0
    BY <1>4, SoundCardNoError
  <2>2. ~faulted' => IsOpen'
    BY <1>1, <1>3, <1>4, <1>6 DEF NothingWrong, Opened
  <2>3. diskErr' = 0 => IsOpen'
    BY <1>6, ErrorFreeByte
  <2>4. reply' # Failure
    BY <1>1, <1>2, <1>3, DriverAssumption DEF ProgramOK
  <2>6. Astray' => faulted'
    <3>1. CASE k > 0
      BY <1>3, <1>4, <1>7, <3>1, AstrayStays DEF NothingWrong
    <3>2. CASE ~(k > 0)
      <4>1. SUFFICES ASSUME ~faulted', Astray' PROVE FALSE
        OBVIOUS
      <4>2. ErrBefore = 0
        <5>1. diskErr' = 0
          BY <2>1, <4>1
        <5>2. QED BY <5>1, ErrorFreeByte
      <4>3. ~SeekFault
        <5>1. at' # "idle"
          BY <1>7
        <5>2. QED BY <1>4, <4>1, <5>1 DEF Faults
      <4>4. QED BY <1>4, <4>1, <4>2, <4>3, NotAstrayWithoutFault
    <3>3. QED BY <3>1, <3>2
  <2>5. QED BY <1>4, <2>1, <2>2, <2>3, <2>4, <2>6 DEF NothingWrong
<1>12. BytesMoved'
  BY ExchangeBytes
<1>14. OwnUnsaved'
  <2>1. SUFFICES ASSUME diskErr' = 0, ~Astray'
                 PROVE  LET st == stream'[fhandle']
                        IN  IF req.op = "read" THEN st.from = st.pos
                            ELSE st.from = Base /\ st.pos <= Base + SectLen
    <3>1. Base' = Base /\ req' = req
      BY <1>2 DEF Base
    <3>2. QED BY <3>1 DEF OwnUnsaved
  <2>2. CASE UNCHANGED stream /\ k > 0
    <3>1. diskErr = 0 /\ ~Astray
      BY <2>1, <2>2, ErrorFreeByte, AstrayStays
    <3>2. QED BY <1>2, <1>7, <2>2, <3>1, InvFacts DEF OwnUnsaved
  <2>3. QED BY <1>2, <2>1, <2>2, ExchangeStream
<1>13. QED BY <1>1, <1>2, <1>8, <1>9, <1>10, <1>11, <1>12, <1>14 DEF DInv

-------------------------------------------------------------------------------
(* The invariant holds. *)

LEMMA DriverInitEstablishes == DriverInit => DInv
<1> SUFFICES ASSUME DriverInit PROVE DInv
  OBVIOUS
<1>1. /\ Init /\ at = "idle" /\ req = NoReq /\ reply = NoReply /\ known = Unknown /\ k = 0
      /\ got = NothingRead /\ faulted = FALSE
  BY DEF DriverInit
<1>2. IInv
  BY <1>1, InitEstablishes
<1>3. ProgramOK
  <2>1. NothingRead \in [0..(SectLen - 1) -> Byte]
    BY DEF NothingRead, Byte
  <2>2. QED BY <1>1, <2>1 DEF ProgramOK, Place, Moving
<1>4. Selected
  BY <1>1 DEF Selected, Init, Opened, TrackSet, Addressed, Moving
<1>5. FilesStay
  <2>1. InitSize \in [Image -> 0..Capacity] /\ size = InitSize /\ Capacity \in Nat
    BY <1>1, SdFileAssumption, IosDiskAssumption DEF Init
  <2>2. ASSUME NEW f \in Image PROVE saved[f].len = InitSize[f]
    BY <1>1, <2>2 DEF Init
  <2>3. ASSUME NEW f \in Image PROVE InitSize[f] >= InitSize[f]
    BY <2>1, <2>3
  <2>4. QED BY <2>1, <2>2, <2>3 DEF FilesStay
<1>6. NothingWrong
  BY <1>1, DriverAssumption DEF NothingWrong, Opened, Addressed, Moving
<1>7. CountsAgree /\ BytesMoved /\ OwnUnsaved
  BY <1>1 DEF CountsAgree, BytesMoved, OwnUnsaved, Moving
<1>8. QED BY <1>2, <1>3, <1>4, <1>5, <1>6, <1>7 DEF DInv

LEMMA DriverStutterKeeps == ASSUME DInv, UNCHANGED allVars PROVE DInv'
<1>1. UNCHANGED vars /\ UNCHANGED <<at, req, got, k, reply, known, faulted>>
  BY DEF allVars, driverVars
<1>2. /\ UNCHANGED <<ioOpcode, ioByteCnt, diskErr, trackSel, sectSel, diskSet>>
      /\ UNCHANGED <<files, stream, fhandle, size, data, saved, bufferSD>>
  BY <1>1 DEF vars, engineVars, selectVars, fileVars, imageVars
<1>3. IInv'
  BY <1>1, StutterKeeps, InvFacts
<1>4. IsOpen' = IsOpen /\ Current' = Current /\ disk' = disk /\ track' = track
      /\ sector' = sector /\ Base' = Base /\ Whole' = Whole /\ Astray' = Astray
  BY <1>1, <1>2 DEF IsOpen, Current, Astray, disk, track, sector, Base, Whole
<1>5. ProgramOK'
  BY <1>1, InvFacts DEF ProgramOK, Moving
<1>6. Selected'
  BY <1>1, <1>2, <1>4, InvFacts DEF Selected, Opened, TrackSet, Addressed, Moving
<1>7. CountsAgree' /\ FilesStay'
  BY <1>1, <1>2, InvFacts DEF CountsAgree, FilesStay
<1>8. NothingWrong'
  BY <1>1, <1>2, <1>4, InvFacts DEF NothingWrong, Opened, Addressed, Moving
<1>9. BytesMoved'
  BY <1>1, <1>2, <1>4, InvFacts DEF BytesMoved, Moving
<1>11. OwnUnsaved'
  BY <1>1, <1>2, <1>4, InvFacts DEF OwnUnsaved, Moving
<1>10. QED BY <1>3, <1>5, <1>6, <1>7, <1>8, <1>9, <1>11 DEF DInv

\* The selections, one by one.
LEMMA SelectsKeep ==
  ASSUME DInv, RecordsFaults, Selects
  PROVE  /\ DInv' /\ UNCHANGED <<req, reply, k, diskSet>>
         /\ \/ UNCHANGED fileVars
            \/ k = 0 /\ req \in Request /\ LosesUnsaved /\ UnsavedBlocks' = {}
<1>1. CASE Opcode("SELDISK", SELDISK, "disk")
  BY <1>1, SelectOpcodeKeeps, DiskOpcodesAreBytes
<1>2. CASE Goes("disk", "SELTRACK") /\ SelDisk(disk)
  BY <1>2, DiskKeeps
<1>3. CASE Opcode("SELTRACK", SELTRACK, "low")
  BY <1>3, SelectOpcodeKeeps, DiskOpcodesAreBytes
<1>4. CASE Goes("low", "high") /\ SelTrackLow(track % 256)
  BY <1>4, TrackLowKeeps
<1>5. CASE Goes("high", "SELSECT") /\ SelTrackHigh(track \div 256)
  BY <1>5, TrackHighKeeps
<1>6. CASE Opcode("SELSECT", SELSECT, "sector")
  BY <1>6, SelectOpcodeKeeps, DiskOpcodesAreBytes
<1>7. CASE Goes("sector", "transfer") /\ SelSect(sector)
  BY <1>7, SectorKeeps
<1>8. QED BY <1>1, <1>2, <1>3, <1>4, <1>5, <1>6, <1>7 DEF Selects

LEMMA DriverNextKeeps == DInv /\ [DriverNext]_allVars => DInv'
<1> SUFFICES ASSUME DInv, [DriverNext]_allVars PROVE DInv'
  OBVIOUS
<1>1. CASE UNCHANGED allVars
  BY <1>1, DriverStutterKeeps
<1>2. CASE DriverNext
  <2>1. RecordsFaults /\ DriverStep
    BY <1>2 DEF DriverNext
  <2>2. CASE \E r \in Request : Submit(r)
    BY <2>1, <2>2, SubmitKeeps
  <2>3. CASE Selects
    BY <2>1, <2>3, SelectsKeep
  <2>4. CASE StartTransfer
    BY <2>1, <2>4, StartTransferKeeps
  <2>5. CASE Exchange
    BY <2>1, <2>5, ExchangeKeeps
  <2>6. CASE AskError
    BY <2>1, <2>6, AskErrorKeeps
  <2>7. CASE Finish
    BY <2>1, <2>7, FinishKeeps
  <2>8. CASE Restart
    BY <2>1, <2>8, RestartKeeps
  <2>9. QED BY <2>1, <2>2, <2>3, <2>4, <2>5, <2>6, <2>7, <2>8 DEF DriverStep
<1>3. QED BY <1>1, <1>2

\* The inductive invariant holds in every reachable state: engine and program agree
\* on every selection, on the count and on the bytes moved so far.
THEOREM DriverInvariantHolds == DriverSpec => []DInv
BY DriverInitEstablishes, DriverNextKeeps, PTL DEF DriverSpec

\* The engine counts the bytes of the sector as the program does, and still holds
\* the operation the program has started, through errors and restarts.
THEOREM CountsAgreeHolds == DriverSpec => []CountsAgree
<1>1. DInv => CountsAgree
  BY DEF DInv
<1>2. QED BY <1>1, DriverInvariantHolds, PTL

\* A request fails only if the card failed since it was submitted, whatever requests
\* failed or were given up before it.
THEOREM NoFaultNoFailureHolds == DriverSpec => []NoFaultNoFailure
<1>1. DInv => NoFaultNoFailure
  BY DEF DInv, NothingWrong, NoFaultNoFailure
<1>2. QED BY <1>1, DriverInvariantHolds, PTL

-------------------------------------------------------------------------------
(* The refinement: every step is one of a block device, or changes none of it. *)

LEMMA DeviceInit == DriverInit => Dev!Init
<1>1. SUFFICES ASSUME DriverInit PROVE Dev!Init
  OBVIOUS
<1>2. IInv /\ req = NoReq /\ reply = NoReply /\ k = 0
  BY <1>1, DriverInitEstablishes DEF DriverInit, DInv
<1>3. UnsavedBlocks = {}
  <2>1. SUFFICES ASSUME IsOpen, NEW x \in Unsaved PROVE FALSE
    BY DEF UnsavedBlocks
  <2>2. stream[fhandle].from = stream[fhandle].pos /\ stream[fhandle].pos \in Nat
    <3>1. fhandle \in Slot /\ stream[fhandle] \in Stream
      BY <1>2, <2>1 DEF IsOpen, IInv, TypeOK, SdTypeOK
    <3>2. stream[fhandle] = [At(size[BootImage]) EXCEPT !.io = "read"]
      BY <1>1, <3>1 DEF DriverInit, Init
    <3>3. QED BY <3>1, <3>2 DEF At, Stream
  <2>3. QED BY <2>1, <2>2 DEF Unsaved
<1>4. QED BY <1>2, <1>3 DEF Dev!Init

\* With no file touched and no byte counted, the device is as it was.
LEMMA DeviceStays ==
  ASSUME UNCHANGED diskSet, UNCHANGED fileVars
  PROVE  /\ UNCHANGED [b \in Block |-> Content(b)]
         /\ UnsavedBlocks' = UnsavedBlocks /\ Astray' = Astray
<1>1. UNCHANGED <<files, stream, fhandle, data>>
  BY DEF fileVars, imageVars
<1>2. IsOpen' = IsOpen /\ Current' = Current /\ Unsaved' = Unsaved
  BY <1>1 DEF IsOpen, Current, Unsaved
<1>3. UnsavedBlocks' = UnsavedBlocks
  BY <1>2 DEF UnsavedBlocks
<1>4. UNCHANGED [b \in Block |-> Content(b)] /\ Astray' = Astray
  BY <1>1, <1>2 DEF Content, Astray
<1>5. QED BY <1>3, <1>4

\* A block that loses bytes is one with bytes that were not saved.
LEMMA LossIsUnsettled ==
  ASSUME UNCHANGED diskSet, diskSet = InitDiskSet, LosesUnsaved, NEW b \in Block,
         Content(b)' # Content(b)
  PROVE  MediaFaults /\ b \in UnsavedBlocks
<1>1. /\ Offset(b[2]) \in Nat /\ Offset(b[2]) + SectLen <= Capacity /\ Capacity \in Nat
      /\ <<diskSet, b[1]>> \in Image /\ SectLen \in Nat
  BY BlocksLieInFiles
<1>2. PICK j \in 0..(SectLen - 1) :
        data'[<<diskSet, b[1]>>][Offset(b[2]) + j] # data[<<diskSet, b[1]>>][Offset(b[2]) + j]
  BY DEF Content
<1>3. Offset(b[2]) + j \in 0..(Capacity - 1)
  BY <1>1
<1>4. /\ MediaFaults /\ IsOpen /\ <<diskSet, b[1]>> = Current
      /\ Offset(b[2]) + j \in Unsaved
  BY <1>1, <1>2, <1>3 DEF LosesUnsaved
<1>5. QED BY <1>4 DEF UnsavedBlocks

\* The step of the device that a byte of a transfer, or a SELDISK, makes.
LEMMA DeviceWorks ==
  ASSUME req \in Request, NoReq \notin Request, UNCHANGED <<req, reply>>,
         (k' > 0 /\ Astray') \in {k > 0 /\ Astray, MediaFaults},
         \A b \in Block :
           LET own == \/ req.op # "read" /\ b = req.block
                      \/ k' > 0 /\ Astray' /\ b[1] = req.block[1]
           IN  /\ Content(b)' # Content(b) => own \/ (MediaFaults /\ b \in UnsavedBlocks)
               /\ b \in UnsavedBlocks' \ UnsavedBlocks => own
  PROVE  Dev!Work
<1>1. req.op # "read" => req \in Dev!Writes
  BY DriverAssumption DEF Request, Dev!Writes
<1>2. req # NoReq /\ req.block \in Block
  BY RequestFacts
<1>3. ASSUME NEW b \in Block
      PROVE  LET own == \/ req \in Dev!Writes /\ b = req.block
                        \/ (k' > 0 /\ Astray') /\ [c \in Block |-> c[1]][b] = [c \in Block |-> c[1]][req.block]
             IN  /\ [c \in Block |-> Content(c)]'[b] # [c \in Block |-> Content(c)][b]
                      => own \/ (MediaFaults /\ b \in UnsavedBlocks)
                 /\ b \in UnsavedBlocks' \ UnsavedBlocks => own
  BY <1>1, <1>2
<1>4. QED BY <1>2, <1>3 DEF Dev!Work

LEMMA DeviceStep ==
  ASSUME DInv, [DriverNext]_allVars
  PROVE  [Dev!Next]_(Dev!vars)
<1>1. Request \subseteq Dev!Reads \cup Dev!Writes /\ NoReq \notin Request
  BY DriverAssumption DEF Request, Dev!Reads, Dev!Writes
<1>3. ASSUME UNCHANGED <<req, reply, k, diskSet>>, UNCHANGED fileVars PROVE UNCHANGED Dev!vars
  BY <1>3, DeviceStays DEF Dev!vars
<1>4. CASE UNCHANGED allVars
  <2>1. UNCHANGED <<req, reply, k, diskSet>> /\ UNCHANGED fileVars
    BY <1>4 DEF allVars, driverVars, vars, selectVars
  <2>2. QED BY <1>3, <2>1
<1>5. CASE DriverNext
  <2>1. RecordsFaults /\ DriverStep
    BY <1>5 DEF DriverNext
  <2>2. CASE \E r \in Request : Submit(r)
    <3>1. PICK r \in Request : Submit(r)
      BY <2>2
    <3>2. /\ req = NoReq /\ req' = r /\ reply' = NoReply /\ k = 0 /\ k' = 0
          /\ UNCHANGED diskSet /\ UNCHANGED fileVars
      BY <2>1, <3>1, SubmitKeeps
    <3>3. Dev!Submit(r)
      BY <3>2, DeviceStays DEF Dev!Submit
    <3>4. QED BY <1>1, <3>3 DEF Dev!Next
  <2>3. CASE Selects
    <3>1. /\ UNCHANGED <<req, reply, k, diskSet>>
          /\ \/ UNCHANGED fileVars
             \/ k = 0 /\ req \in Request /\ LosesUnsaved /\ UnsavedBlocks' = {}
      BY <2>1, <2>3, SelectsKeep
    <3>2. CASE UNCHANGED fileVars
      BY <1>3, <3>1, <3>2
    <3>3. CASE k = 0 /\ req \in Request /\ LosesUnsaved /\ UnsavedBlocks' = {}
      <4>1. ASSUME NEW b \in Block, Content(b)' # Content(b)
            PROVE  MediaFaults /\ b \in UnsavedBlocks
        BY <3>1, <3>3, <4>1, LossIsUnsettled, InvFacts DEF Selected
      <4>2. (k' > 0 /\ Astray') = (k > 0 /\ Astray)
        BY <3>1, <3>3
      <4>3. Dev!Work
        BY <1>1, <3>1, <3>3, <4>1, <4>2, DeviceWorks
      <4>4. QED BY <4>3 DEF Dev!Next
    <3>4. QED BY <3>1, <3>2, <3>3
  <2>4. CASE StartTransfer
    BY <1>3, <2>1, <2>4, StartTransferKeeps
  <2>5. CASE Exchange
    <3>1. req \in Request /\ UNCHANGED <<req, reply, diskSet>> /\ k' = k + 1 /\ k \in Nat
      BY <2>1, <2>5, ExchangeKeeps
    <3>2. (k' > 0 /\ Astray') \in {k > 0 /\ Astray, MediaFaults}
      <4>1. /\ k > 0 => Astray' = Astray
            /\ Astray' => MediaFaults
            /\ MediaFaults \in BOOLEAN
        BY <2>5, AstrayStays, SdFileAssumption
      <4>2. CASE k > 0
        BY <3>1, <4>1, <4>2
      <4>3. CASE ~(k > 0) /\ Astray'
        BY <3>1, <4>1, <4>3
      <4>4. CASE ~(k > 0) /\ ~Astray'
        BY <3>1, <4>1, <4>4
      <4>5. QED BY <4>2, <4>3, <4>4
    <3>3. k' > 0
      BY <3>1
    <3>4. Dev!Work
      BY <1>1, <2>5, <3>1, <3>2, <3>3, ExchangeWorks, DeviceWorks
    <3>5. QED BY <3>4 DEF Dev!Next
  <2>6. CASE AskError
    BY <1>3, <2>1, <2>6, AskErrorKeeps
  <2>7. CASE Finish
    <3>1. /\ req \in Request /\ req' = NoReq /\ k > 0 /\ k' = 0
          /\ UNCHANGED diskSet /\ UNCHANGED fileVars
          /\ \/ reply' = Failure /\ MediaFaults
             \/ Astray /\ (req.op = "write" => reply' = req.value)
             \/ /\ ~Astray /\ req.op = "read" /\ reply' = Content(req.block)
                /\ UnsavedBlocks = {}
             \/ /\ ~Astray /\ req.op = "write" /\ Content(req.block) = req.value
                /\ reply' = req.value /\ UnsavedBlocks \subseteq {req.block}
      BY <2>1, <2>7, FinishKeeps
    <3>2. Dev!Over(reply')
      BY <1>1, <3>1, DeviceStays DEF Dev!Over
    <3>3. CASE reply' = Failure /\ MediaFaults
      BY <3>2, <3>3 DEF Dev!Fail, Dev!Next
    <3>4. /\ req.block \in Block
          /\ req.op = "read" => req \in Dev!Reads
          /\ req.op = "write" => req \in Dev!Writes
          /\ req \in Dev!Writes => req.op = "write"
      BY <1>1, <3>1, RequestFacts DEF Dev!Reads, Dev!Writes
    <3>5. CASE Astray /\ (req.op = "write" => reply' = req.value)
      BY <3>1, <3>2, <3>4, <3>5 DEF Dev!Complete, Dev!Next
    <3>6. CASE /\ ~Astray /\ req.op = "read" /\ reply' = Content(req.block)
               /\ UnsavedBlocks = {}
      BY <3>2, <3>4, <3>6 DEF Dev!Complete, Dev!Next
    <3>7. CASE /\ ~Astray /\ req.op = "write" /\ Content(req.block) = req.value
               /\ reply' = req.value /\ UnsavedBlocks \subseteq {req.block}
      BY <3>2, <3>4, <3>7 DEF Dev!Complete, Dev!Next
    <3>8. QED BY <3>1, <3>3, <3>5, <3>6, <3>7
  <2>8. CASE Restart
    <3>1. /\ req \in Request /\ req' = NoReq /\ reply' = NoReply /\ k' = 0
          /\ UNCHANGED diskSet /\ UNCHANGED fileVars
      BY <2>1, <2>8, RestartKeeps
    <3>2. Dev!Over(NoReply)
      BY <1>1, <3>1, DeviceStays DEF Dev!Over
    <3>3. QED BY <3>2 DEF Dev!GiveUp, Dev!Next
  <2>9. QED BY <2>1, <2>2, <2>3, <2>4, <2>5, <2>6, <2>7, <2>8 DEF DriverStep
<1>6. QED BY <1>4, <1>5

\* For every geometry, every card and every course of requests, failures and restarts,
\* the engine used as documented is a block device, one that may fail if the card may:
\* then a request without an error may have been misled, since lseek() drops what fseek
\* returns, and the block last written may be lost until the next seek or close, since
\* writes are buffered and close() drops what fclose returns; and nothing else.
THEOREM DriverIsABlockDevice == DriverSpec => DriverGetsABlockDevice
<1>1. DInv /\ [DriverNext]_allVars => [Dev!Next]_(Dev!vars)
  BY DeviceStep
<1>2. QED BY <1>1, DeviceInit, DriverInvariantHolds, PTL
        DEF DriverSpec, DriverGetsABlockDevice, Dev!Spec

\* What a step does to the blocks and to the program on a card that works.
SoundStep ==
  /\ \A b \in Block : Content(b)' # Content(b) => req \in Dev!Writes /\ b = req.block
  /\ \/ reply' \in {reply, NoReply}
     \/ req \in Dev!Reads /\ reply' = Content(req.block)
     \/ req \in Dev!Writes /\ reply' = req.value /\ Content(req.block) = req.value

LEMMA SoundCardStep ==
  ASSUME ~MediaFaults, DInv, DInv', [Dev!Next]_(Dev!vars)
  PROVE  SoundStep
<1>1. ~Astray /\ ~Astray'
  <2>1. stream \in [Slot -> Stream] /\ stream' \in [Slot -> Stream]
    BY DEF DInv, IInv, TypeOK, SdTypeOK
  <2>2. MediaFaults = FALSE
    BY SdFileAssumption
  <2>3. \A st \in Stream : st.astray = FALSE
    BY <2>2 DEF Stream
  <2>4. QED BY <2>1, <2>3 DEF Astray, IsOpen
<1>2. req \in Dev!Reads \cup Dev!Writes => req.block \in Block
  BY DriverAssumption DEF Dev!Reads, Dev!Writes
<1>3. ASSUME UNCHANGED [b \in Block |-> Content(b)]
      PROVE  \A b \in Block : Content(b)' = Content(b)
  <2>1. ASSUME NEW b \in Block PROVE Content(b)' = Content(b)
    <3>1. [c \in Block |-> Content(c)']= [c \in Block |-> Content(c)]
      BY <1>3
    <3>2. [c \in Block |-> Content(c)'][b] = [c \in Block |-> Content(c)][b]
      BY <3>1
    <3>3. QED BY <3>2
  <2>2. QED BY <2>1
<1>4. CASE UNCHANGED Dev!vars
  BY <1>3, <1>4 DEF Dev!vars, SoundStep
<1>5. CASE \E r \in Dev!Reads \cup Dev!Writes : Dev!Submit(r)
  BY <1>3, <1>5 DEF Dev!Submit, SoundStep
<1>6. CASE Dev!Work
  <2>1. ASSUME NEW b \in Block, Content(b)' # Content(b)
        PROVE  req \in Dev!Writes /\ b = req.block
    <3>1. [c \in Block |-> Content(c)]'[b] # [c \in Block |-> Content(c)][b]
      BY <2>1
    <3>2. QED BY <1>1, <1>6, <3>1 DEF Dev!Work
  <2>2. reply' = reply
    BY <1>6 DEF Dev!Work
  <2>3. QED BY <2>1, <2>2 DEF SoundStep
<1>7. CASE Dev!Complete
  <2>1. \A b \in Block : Content(b)' = Content(b)
    BY <1>3, <1>7 DEF Dev!Complete, Dev!Over
  <2>2. \/ req \in Dev!Reads /\ reply' = [b \in Block |-> Content(b)][req.block]
        \/ /\ req \in Dev!Writes /\ reply' = req.value
           /\ [b \in Block |-> Content(b)][req.block] = req.value
    BY <1>1, <1>7 DEF Dev!Complete, Dev!Over
  <2>3. QED BY <1>2, <2>1, <2>2 DEF SoundStep
<1>8. CASE Dev!Fail \/ Dev!GiveUp
  BY <1>3, <1>8 DEF Dev!Fail, Dev!GiveUp, Dev!Over, SoundStep
<1>9. QED BY <1>4, <1>5, <1>6, <1>7, <1>8 DEF Dev!Next

\* On a card that works a block changes only while a request is writing it, a read
\* answers what its block holds, a write what its block now holds, and no request
\* fails, whatever requests were given up before.
THEOREM SoundCardIsSound == DriverSpec => [][~MediaFaults => SoundStep]_allVars
<1>1. DInv /\ DInv' /\ [DriverNext]_allVars => (~MediaFaults => SoundStep)
  BY DeviceStep, SoundCardStep
<1>2. QED BY <1>1, DriverInvariantHolds, PTL DEF DriverSpec

===============================================================================
