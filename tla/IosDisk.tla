------------------------------- MODULE IosDisk --------------------------------
(***************************************************************************)
(* The virtual I/O engine of Z80_MBC2System.cpp as the disk emulation sees *)
(* it.  A Z80 program talks to the engine through two ports: an OUT to an  *)
(* odd address stores an opcode, an OUT or IN at an even address exchanges *)
(* one data byte of the stored opcode.  Nothing orders these accesses but  *)
(* the program, so every access is enabled in every state.                 *)
(*                                                                         *)
(* The disk opcodes are modelled in full.  The other services share only   *)
(* the engine's three registers with them: OtherWrite and OtherRead say    *)
(* what a service may do to those.                                         *)
(***************************************************************************)
EXTENDS SdFile

CONSTANTS
  SectLen,       \* bytes of a sector (512)
  MaxTrack,      \* tracks SELTRACK accepts (1024 with GME_EXT)
  MaxSect,       \* sectors of a track (32)
  maxDiskNum,    \* the highest disk number SELDISK accepts (99)
  CountBound,    \* where the model stops counting exchanged bytes
  GuestOpcode,   \* the opcodes the Z80 program stores
  GuestByte,     \* the bytes it sends as disk, track, sector and set numbers
  Payload,       \* the bytes it sends as sector data
  InitSize, InitData, InitBuffer, InitDiskSet,   \* what Zsetup leaves behind
  BootImage      \* the file it left open, read to its end, or NoFile

SELDISK    == 9      \* 0x09
SELTRACK   == 10     \* 0x0A
SELSECT    == 11     \* 0x0B
WRITESECT  == 12     \* 0x0C
SELDISKSET == 97     \* 0x61
RDWREEPROM == 100    \* 0x64
DATETIME   == 132    \* 0x84
ERRDISK    == 133    \* 0x85
READSECT   == 134    \* 0x86
SDMOUNT    == 135    \* 0x87
GETDISKSET == 225    \* 0xE1
NOP        == 255    \* 0xFF, "No operation"

DiskWriteOps == {SELDISK, SELTRACK, SELSECT, WRITESECT, SELDISKSET}
DiskReadOps  == {ERRDISK, READSECT, SDMOUNT, GETDISKSET}

ASSUME IosDiskAssumption ==
  /\ SectLen \in Nat \ {0}
  /\ SectLen % SegLen = 0
  /\ CountBound \in Nat /\ CountBound >= SectLen
  /\ MaxTrack \in Nat \ {0} /\ MaxSect \in Nat \ {0} /\ maxDiskNum \in Byte
  /\ GuestOpcode \subseteq Byte /\ GuestByte \subseteq Byte /\ Payload \subseteq Byte
  /\ \A b \in GuestByte : b < MaxTrack     \* 1024 tracks: a low byte alone is valid
  /\ InitSize \in [Image -> 0..Capacity]
  /\ InitData \in [Image -> [0..(Capacity - 1) -> Byte]]
  /\ InitBuffer \in [0..(SegLen - 1) -> Byte]
  /\ InitDiskSet \in Byte
  /\ BootImage \in Image \cup {NoFile}

VARIABLES
  ioOpcode,    \* the stored opcode, or NOP
  ioByteCnt,   \* bytes exchanged since it was stored
  ioData,      \* the last byte on the engine's data bus, in either direction
  diskErr,     \* what ERRDISK answers
  trackSel,    \* the selected track: a 16-bit number, checked only when used
  sectSel,     \* the selected sector, likewise
  diskSet      \* the current disk set

engineVars == <<ioOpcode, ioByteCnt, ioData>>
selectVars == <<trackSel, sectSel, diskSet>>
vars == <<engineVars, diskErr, selectVars, fileVars>>

TypeOK ==
  /\ SdTypeOK
  /\ ioOpcode \in Byte
  /\ ioByteCnt \in 0..CountBound
  /\ ioData \in Byte
  /\ diskErr \in {0, 16, 17, 18, 19, 127, 255}
  /\ trackSel \in Word
  /\ sectSel \in Byte
  /\ diskSet \in Byte

-------------------------------------------------------------------------------
(* Where Zsetup leaves the engine: no operation pending, diskErr 19, and the  *)
(* handle still open on the boot image it loaded, or on the file with the     *)
(* name of the operating system if it booted from flash.                      *)

Init ==
  /\ ioOpcode = NOP /\ ioByteCnt = 0 /\ ioData = 0
  /\ diskErr = 19
  /\ trackSel = 0 /\ sectSel = 0 /\ diskSet = InitDiskSet
  /\ size = InitSize /\ data = InitData /\ bufferSD = InitBuffer
  /\ saved = [f \in Image |-> [len |-> size[f], bytes |-> data[f]]]
  /\ fhandle = IF BootImage = NoFile THEN NoHandle ELSE 0
  /\ files = [s \in Slot |-> IF s = 0 THEN BootImage ELSE NoFile]
  /\ stream = [s \in Slot |-> IF s = fhandle
                              THEN [At(size[BootImage]) EXCEPT !.io = "read"] ELSE At(0)]

-------------------------------------------------------------------------------
(* Addressing. *)

AddressValid == trackSel < MaxTrack /\ sectSel < MaxSect

\* The code SELTRACK and SELSECT leave for the track t and the sector s.
AddressErr(t, s) ==
  IF t < MaxTrack /\ s < MaxSect THEN 0 ELSE IF s < MaxSect THEN 17 ELSE 18

\* The offset of the addressed sector in a disk image: (track << 5 | sector) << 9.
SectStart == (trackSel * MaxSect + sectSel) * SectLen

Bump == IF ioByteCnt < CountBound THEN ioByteCnt + 1 ELSE ioByteCnt

InSeg == ioByteCnt % SegLen
LastOfSeg == InSeg = SegLen - 1
LastOfSect == ioByteCnt >= SectLen - 1

-------------------------------------------------------------------------------
(* An OUT to an odd address. *)

\* Mutant of StoreOpcode: the count of the operation before is not cleared.
StoreOpcodeKeepsCount(op) ==
  /\ ioOpcode' = op /\ ioData' = op
  /\ UNCHANGED <<ioByteCnt, diskErr, selectVars, fileVars>>

StoreOpcode(op) ==
  /\ ioOpcode' = op /\ ioData' = op /\ ioByteCnt' = 0
  /\ UNCHANGED <<diskErr, selectVars, fileVars>>

(* An OUT to an even address: SELDISK, SELTRACK, SELSECT, SELDISKSET. *)

SelDisk(n) ==
  /\ ioOpcode = SELDISK
  /\ IF n <= maxDiskNum
     THEN \E err \in {0, NOT_OPEN} : OpenSD(<<diskSet, n>>, err) /\ diskErr' = err
     ELSE diskErr' = 16 /\ UNCHANGED fileVars
  /\ ioData' = n /\ ioOpcode' = NOP
  /\ UNCHANGED <<ioByteCnt, selectVars>>

SelTrackLow(b) ==
  /\ ioOpcode = SELTRACK /\ ioByteCnt = 0
  /\ trackSel' = b
  /\ ioData' = b /\ ioByteCnt' = Bump
  /\ UNCHANGED <<ioOpcode, diskErr, sectSel, diskSet, fileVars>>

SelTrackHigh(b) ==
  /\ ioOpcode = SELTRACK /\ ioByteCnt # 0
  /\ trackSel' = b * 256 + (trackSel % 256)
  /\ diskErr' = AddressErr(trackSel', sectSel)
  /\ ioData' = b /\ ioByteCnt' = Bump /\ ioOpcode' = NOP
  /\ UNCHANGED <<sectSel, diskSet, fileVars>>

SelSect(b) ==
  /\ ioOpcode = SELSECT
  /\ sectSel' = b
  /\ diskErr' = AddressErr(trackSel, b)
  /\ ioData' = b /\ ioOpcode' = NOP
  /\ UNCHANGED <<ioByteCnt, trackSel, diskSet, fileVars>>

SelDiskSet(b) ==
  /\ ioOpcode = SELDISKSET
  /\ diskSet' = b
  /\ ioData' = b /\ ioOpcode' = NOP
  /\ UNCHANGED <<ioByteCnt, diskErr, trackSel, sectSel, fileVars>>

-------------------------------------------------------------------------------
(* The first byte of a sector transfer has the stream moved to the addressed  *)
(* sector, unless an error is pending or the address is invalid.  ErrBefore   *)
(* and StreamBefore are the error code and the stream the rest of the step    *)
(* works on, ImagesBefore what the seek does to the image.                    *)

\* Mutant of Seeks: a stream that already stands at the sector is left alone.
SeeksUnlessThere ==
  ioByteCnt = 0 /\ AddressValid /\ diskErr = 0 /\ (IsOpen => stream[fhandle].pos # SectStart)

Seeks == ioByteCnt = 0 /\ AddressValid /\ diskErr = 0

ErrBefore == IF Seeks THEN SeekErr ELSE diskErr

\* Mutant of StreamBefore: the seek has no effect.
StreamBeforeUnmoved == {stream[fhandle]}

\* The streams the step may find, more than one if the seek may fail.
StreamBefore == IF Seeks THEN SeekSD(SectStart) ELSE {stream[fhandle]}

ImagesBefore(st) == IF Seeks THEN SoughtSD(st) ELSE UNCHANGED imageVars

(* WRITESECT. *)

\* A pending error: the byte is dropped, and the opcode stays stored for ever.
WriteSectIgnored(b) ==
  /\ ioOpcode = WRITESECT /\ ErrBefore # 0
  /\ diskErr' = ErrBefore
  /\ ioData' = b /\ ioByteCnt' = Bump
  /\ UNCHANGED <<ioOpcode, selectVars, fileVars>>

WriteSectStored(b) ==
  /\ ioOpcode = WRITESECT /\ ErrBefore = 0 /\ ~LastOfSeg
  /\ bufferSD' = [bufferSD EXCEPT ![InSeg] = b]
  /\ IF Seeks
     THEN \E st \in StreamBefore :
            ImagesBefore(st) /\ stream' = [stream EXCEPT ![fhandle] = st]
     ELSE UNCHANGED <<stream, imageVars>>
  /\ diskErr' = 0
  /\ ioData' = b /\ ioByteCnt' = Bump
  /\ UNCHANGED <<ioOpcode, selectVars, files, fhandle>>

\* The byte that fills the buffer sends it to the file; the last one of the
\* sector also ends the operation, whatever the outcome.
WriteSectFlushed(b) ==
  /\ ioOpcode = WRITESECT /\ ErrBefore = 0 /\ LastOfSeg
  /\ \E n \in Count :
       /\ WriteSD([bufferSD EXCEPT ![InSeg] = b], n)
       /\ diskErr' = TransferErr(n)
  /\ ioData' = b /\ ioByteCnt' = Bump
  /\ ioOpcode' = IF LastOfSect THEN NOP ELSE WRITESECT
  /\ UNCHANGED selectVars

(* READSECT. *)

ReadSectEnd ==
  /\ ioByteCnt' = Bump
  /\ ioOpcode' = IF LastOfSect THEN NOP ELSE READSECT
  /\ UNCHANGED selectVars

\* A pending error: the data bus keeps whatever byte was last on it.
ReadSectFailed ==
  /\ ioOpcode = READSECT /\ ErrBefore # 0
  /\ diskErr' = ErrBefore
  /\ ReadSectEnd
  /\ UNCHANGED <<ioData, fileVars>>

ReadSectFetched ==
  /\ ioOpcode = READSECT /\ ErrBefore = 0 /\ InSeg = 0
  /\ \E st \in StreamBefore, n \in Count :
       /\ ImagesBefore(st) /\ ReadSD(st, n)
       /\ diskErr' = TransferErr(n)
  /\ ioData' = IF diskErr' = 0 THEN bufferSD'[0] ELSE ioData
  /\ ReadSectEnd

\* Mutant of ReadSectBuffered: the byte before the one that is due.
ReadSectBufferedLate ==
  /\ ioOpcode = READSECT /\ ErrBefore = 0 /\ InSeg # 0
  /\ ioData' = bufferSD[InSeg - 1]
  /\ diskErr' = 0
  /\ ReadSectEnd
  /\ UNCHANGED fileVars

ReadSectBuffered ==
  /\ ioOpcode = READSECT /\ ErrBefore = 0 /\ InSeg # 0
  /\ ioData' = bufferSD[InSeg]
  /\ diskErr' = 0
  /\ ReadSectEnd
  /\ UNCHANGED fileVars

-------------------------------------------------------------------------------
(* The one-byte read opcodes, and everything else. *)

\* A step that only answers the byte b and ends the operation.
Answer(b) ==
  /\ ioData' = b /\ ioOpcode' = NOP
  /\ UNCHANGED <<ioByteCnt, diskErr, selectVars, fileVars>>

ErrDisk == ioOpcode = ERRDISK /\ Answer(diskErr)

SdMount == ioOpcode = SDMOUNT /\ Answer(0)

GetDiskSet == ioOpcode = GETDISKSET /\ Answer(diskSet)

\* An OUT for an opcode that is no disk write: another service, a read opcode
\* used the wrong way round, an unknown opcode, or none at all.
OtherWrite(b) ==
  /\ ioOpcode \notin DiskWriteOps
  /\ ioData' = b
  /\ ioOpcode' = IF ioOpcode = RDWREEPROM THEN RDWREEPROM ELSE NOP
  /\ UNCHANGED <<ioByteCnt, diskErr, selectVars, fileVars>>

\* An IN for an opcode that is no disk read, which may answer any byte.
OtherRead(b) ==
  /\ ioOpcode \notin DiskReadOps
  /\ ioData' = b
  /\ \/ ioOpcode # RDWREEPROM /\ ioOpcode' = NOP /\ ioByteCnt' = ioByteCnt
     \/ ioOpcode \in {DATETIME, RDWREEPROM} /\ ioOpcode' = ioOpcode /\ ioByteCnt' = Bump
  /\ UNCHANGED <<diskErr, selectVars, fileVars>>

\* An IN at an odd address receives a console character.
SerialRx(b) ==
  /\ ioData' = b
  /\ UNCHANGED <<ioOpcode, ioByteCnt, diskErr, selectVars, fileVars>>

Next ==
  \/ \E op \in GuestOpcode : StoreOpcode(op)
  \/ \E b \in GuestByte : SelDisk(b)
  \/ \E b \in GuestByte : SelTrackLow(b)
  \/ \E b \in GuestByte : SelTrackHigh(b)
  \/ \E b \in GuestByte : SelSect(b)
  \/ \E b \in GuestByte : SelDiskSet(b)
  \/ \E b \in Payload : WriteSectIgnored(b)
  \/ \E b \in Payload : WriteSectStored(b)
  \/ \E b \in Payload : WriteSectFlushed(b)
  \/ ReadSectFailed
  \/ ReadSectFetched
  \/ ReadSectBuffered
  \/ ErrDisk
  \/ SdMount
  \/ GetDiskSet
  \/ \E b \in GuestByte : OtherWrite(b)
  \/ \E b \in GuestByte \cup {ioData} : OtherRead(b)
  \/ \E b \in GuestByte : SerialRx(b)

Spec == Init /\ [][Next]_vars

-------------------------------------------------------------------------------
(* Safety. *)

Transferring == ioOpcode \in {READSECT, WRITESECT} /\ ioByteCnt > 0

\* Where the stream stands in the sector: a write leaves it at the start of the
\* segment being filled, a read at the end of the segment being handed out.
StreamOffset ==
  IF ioOpcode = WRITESECT THEN ioByteCnt - InSeg
  ELSE IF InSeg = 0 THEN ioByteCnt ELSE ioByteCnt - InSeg + SegLen

\* The last fseek of the current stream failed, and nobody was told.
Astray == IsOpen /\ stream[fhandle].astray

\* A transfer that has met no error, to a valid address, on a stream that got there.
OnCourse == diskErr = 0 /\ AddressValid /\ ~Astray

\* As long as a transfer to a valid address has met no error, the stream of the
\* open image stands exactly where the exchanged bytes have brought it in the
\* addressed sector, whatever the program did before the transfer: the position
\* kept by the file layer and the counter kept by the engine never drift apart,
\* unless the card failed the seek.
StreamFollowsTransfer ==
  Transferring /\ OnCourse => IsOpen /\ stream[fhandle].pos = SectStart + StreamOffset

\* openSD closes before it opens: at most one slot of the table is in use, and
\* it is the one the handle names, so SELDISK never runs out of slots however
\* often, and with whatever outcome, it is executed.
OneFileOpen ==
  {s \in Slot : files[s] # NoFile} = IF fhandle = NoHandle THEN {} ELSE {fhandle}

\* A transfer that has met no error is still inside its sector.
CountInsideSector ==
  /\ ioOpcode = READSECT => ioByteCnt < SectLen
  /\ ioOpcode = WRITESECT /\ diskErr = 0 => ioByteCnt < SectLen

\* With no image open, the error code is clear only for a valid address, so the
\* first byte of a transfer seeks and finds out.
ClosedImageIsNoticed == diskErr = 0 /\ ~IsOpen => AddressValid

\* In the middle of a segment being read, the buffer still holds that segment.
BufferFollowsRead ==
  ioOpcode = READSECT /\ InSeg # 0 /\ OnCourse =>
    LET from == SectStart + ioByteCnt - InSeg
    IN  /\ from + SegLen <= size[Current]
        /\ \A i \in 0..(SegLen - 1) : bufferSD[i] = data[Current][from + i]

\* Since its first byte, a transfer to a valid address has used the stream in one
\* direction only, and what it has written is all that is still to be written out.
DirectionFollowsTransfer ==
  Transferring /\ OnCourse =>
    /\ stream[fhandle].io \in {"none", IF ioOpcode = WRITESECT THEN "write" ELSE "read"}
    /\ stream[fhandle].from = IF ioOpcode = WRITESECT THEN SectStart ELSE stream[fhandle].pos

\* The inductive invariant behind the theorems of IosDiskProofs: the last three
\* conjuncts need the others to be preserved, and none of them follows from the
\* rest.
IInv ==
  /\ TypeOK
  /\ OneFileOpen
  /\ CountInsideSector
  /\ ClosedImageIsNoticed
  /\ StreamFollowsTransfer
  /\ DirectionFollowsTransfer
  /\ BufferFollowsRead

\* The bytes written through the current stream that are still to be written out.
Unsaved == stream[fhandle].from..(stream[fhandle].pos - 1)

WritesInPlace ==
  \A f \in Image : \A i \in 0..(Capacity - 1) :
    data'[f][i] # data[f][i] =>
      /\ IsOpen /\ f = Current
      /\ \/ /\ ioOpcode = WRITESECT
            /\ AddressValid /\ ~Astray =>
                 i \in (SectStart + ioByteCnt + 1 - SegLen)..(SectStart + ioByteCnt)
         \/ /\ MediaFaults /\ (Seeks \/ ioOpcode = SELDISK)
            /\ i \in Unsaved /\ data'[f][i] = saved[f].bytes[i]

\* A byte of an image changes only by a WRITESECT on the image last opened and,
\* for a valid address, only inside the segment of the addressed sector that the
\* byte just received completes.  If the card fails, a seek that fails may take the
\* transfer elsewhere, and a byte still unsaved when the stream is moved or closed
\* may become what it was before it was written.
WritesLandWhereAddressed == [][WritesInPlace]_vars

ByteExchanged == ioByteCnt' > ioByteCnt

ReadsInPlace ==
  ioOpcode = READSECT /\ ByteExchanged /\ diskErr' = 0 /\ AddressValid /\ ~Astray' =>
    LET at == SectStart + ioByteCnt
    IN  IsOpen /\ at < size[Current] /\ ioData' = data[Current][at]

\* A READSECT byte exchanged without an error is the byte the open image holds
\* at that place of the addressed sector, inside the file, although the program
\* may have used the shared segment buffer for anything in between; unless the card
\* failed the seek.
ReadsAnswerTheAddressedByte == [][ReadsInPlace]_vars

StreamsStayDefined ==
  \A s \in Slot :
    stream'[s].io = "undefined" /\ stream[s].io # "undefined" => ~AddressValid \/ Astray'

\* No read follows a write, nor a write a read, on one stream without an fseek in
\* between, which C leaves undefined: every transfer to a valid address seeks
\* first, even one that cuts another short.  (A seek the card fails does not count.)
StreamsUsedAsCAllows == [][StreamsStayDefined]_vars

-------------------------------------------------------------------------------
(* What the comments of the engine say, and the code does not do. *)

\* "A control is performed on both current sector and track number for valid
\* values" (lines 393 and 443): no image changes while the address is invalid.
InvalidAddressMovesNothing == [][~AddressValid => data' = data]_vars

\* "If an error occurs during the READSECT operation, all subsequent read data
\* will be = 0" (line 841).
FailedReadAnswersZero ==
  [][ioOpcode = READSECT /\ ByteExchanged /\ diskErr' # 0 => ioData' = 0]_vars

===============================================================================
