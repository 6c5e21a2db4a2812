------------------------------ MODULE DiskDriver ------------------------------
(***************************************************************************)
(* A program on the Z80 that uses the disk emulation the way the comments  *)
(* of Z80_MBC2System.cpp prescribe (lines 343, 396, 448, 493 to 496 and    *)
(* 845 to 846), composed with the engine of IosDisk.  For each request it  *)
(* opens the disk file with SELDISK unless it is the one it used last,     *)
(* sends SELTRACK unless the track is the one it used last, always sends   *)
(* SELSECT, exchanges the bytes of the sector in sequence, and only then   *)
(* asks ERRDISK whether anything went wrong on the way.                    *)
(*                                                                         *)
(* The program may be restarted between any two accesses: it forgets its   *)
(* request, and the engine stays as it is.                                 *)
(***************************************************************************)
EXTENDS IosDisk

CONSTANTS
  Block,         \* the sectors it uses: a disk number and a pair of track and sector
  Writable,      \* those it writes to as well
  BlockValue,    \* what it writes: a function from 0..(SectLen - 1) to bytes
  NoReq, NoReply, Failure, Unknown

Request == [op : {"read"}, block : Block]
             \cup [op : {"write"}, block : Writable, value : {BlockValue}]

\* The byte a sector starts at in its image.
Offset(s) == (s[1] * MaxSect + s[2]) * SectLen

\* The program uses sectors with a valid address, in files that are there and
\* hold them, and the tokens of this module are no bytes of a sector and no request.
ASSUME DriverAssumption ==
  /\ MaxTrack <= 65536 /\ MaxSect <= 256
  /\ Block \subseteq (0..maxDiskNum) \X ((0..(MaxTrack - 1)) \X (0..(MaxSect - 1)))
  /\ \A b \in Block : /\ <<InitDiskSet, b[1]>> \in Image
                      /\ Offset(b[2]) + SectLen <= InitSize[<<InitDiskSet, b[1]>>]
  /\ Writable \subseteq Block
  /\ BlockValue \in [0..(SectLen - 1) -> Byte]
  /\ NoReq \notin Request
  /\ Failure # NoReply /\ Failure \notin [0..(SectLen - 1) -> Byte]

VARIABLES
  at,        \* the access the program makes next
  req,       \* the request it is working on, or NoReq
  got,       \* the bytes it has read
  k,         \* how many bytes of the sector it has exchanged
  reply,     \* the outcome of the last request
  known,     \* the disk and track of the last request that succeeded, or Unknown
  faulted    \* history: the card failed since the last request was submitted

driverVars == <<at, req, got, k, reply, known, faulted>>
allVars == <<vars, driverVars>>

NothingRead == [j \in 0..(SectLen - 1) |-> 0]

DriverInit ==
  /\ Init
  /\ at = "idle" /\ req = NoReq /\ reply = NoReply /\ known = Unknown
  /\ k = 0 /\ got = NothingRead
  /\ faulted = FALSE

-------------------------------------------------------------------------------
disk   == req.block[1]
track  == req.block[2][1]
sector == req.block[2][2]

\* What the program can leave out: the disk it last used is open, the track set.
FirstAccess(d, t) ==
  IF known = Unknown THEN "SELDISK"
  ELSE IF known[1] # d THEN "SELDISK" ELSE IF known[2] # t THEN "SELTRACK" ELSE "SELSECT"

Submit(r) ==
  /\ at = "idle"
  /\ req' = r /\ reply' = NoReply /\ k' = 0 /\ got' = NothingRead
  /\ at' = FirstAccess(r.block[1], r.block[2][1])
  /\ UNCHANGED <<vars, known>>

\* The program goes on to its next access.
Goes(here, next) ==
  /\ at = here /\ at' = next
  /\ UNCHANGED <<req, got, k, reply, known>>

Opcode(here, op, next) == Goes(here, next) /\ StoreOpcode(op)

Selects ==
  \/ Opcode("SELDISK", SELDISK, "disk")
  \/ Goes("disk", "SELTRACK") /\ SelDisk(disk)
  \/ Opcode("SELTRACK", SELTRACK, "low")
  \/ Goes("low", "high") /\ SelTrackLow(track % 256)
  \/ Goes("high", "SELSECT") /\ SelTrackHigh(track \div 256)
  \/ Opcode("SELSECT", SELSECT, "sector")
  \/ Goes("sector", "transfer") /\ SelSect(sector)

StartTransfer ==
  \/ at = "transfer" /\ req.op = "read" /\ Opcode("transfer", READSECT, "byte")
  \/ at = "transfer" /\ req.op = "write" /\ Opcode("transfer", WRITESECT, "byte")

\* One byte of the sector, whatever the engine makes of it.
Exchange ==
  /\ at = "byte"
  /\ IF req.op = "read"
     THEN /\ ReadSectFailed \/ ReadSectFetched \/ ReadSectBuffered
          /\ got' = [got EXCEPT ![k] = ioData']
     ELSE LET b == req.value[k]
          IN  /\ WriteSectIgnored(b) \/ WriteSectStored(b) \/ WriteSectFlushed(b)
              /\ UNCHANGED got
  /\ k' = k + 1
  /\ at' = IF k' = SectLen THEN "ERRDISK" ELSE "byte"
  /\ UNCHANGED <<req, reply, known>>

AskError == Opcode("ERRDISK", ERRDISK, "error")

Finish ==
  /\ at = "error" /\ ErrDisk
  /\ reply' = IF ioData' # 0 THEN Failure ELSE IF req.op = "read" THEN got ELSE req.value
  /\ known' = IF ioData' # 0 THEN Unknown ELSE <<disk, track>>
  /\ at' = "idle" /\ req' = NoReq /\ got' = NothingRead /\ k' = 0

Restart ==
  /\ at # "idle"
  /\ at' = "idle" /\ req' = NoReq /\ reply' = NoReply /\ known' = Unknown
  /\ got' = NothingRead /\ k' = 0
  /\ UNCHANGED vars

DriverStep ==
  \/ \E r \in Request : Submit(r)
  \/ Selects \/ StartTransfer \/ Exchange \/ AskError \/ Finish
  \/ Restart

\* The step shows the card failing: a file that is there does not open although a
\* slot is free, the stream is not moved, or a segment the file holds, or has room
\* for, is not exchanged whole.
OpenFault ==
  /\ at = "disk" /\ <<diskSet, disk>> \in Image /\ FreeSlots(AfterClose) # {}
  /\ fhandle' = NoHandle

SeekFault == at = "byte" /\ Seeks /\ Astray'

MoveFault ==
  /\ at = "byte" /\ ErrBefore = 0 /\ IsOpen
  /\ IF req.op = "read" THEN InSeg = 0 ELSE LastOfSeg
  /\ LET start == IF Seeks THEN SectStart ELSE stream[fhandle].pos
     IN  /\ start + SegLen <= (IF req.op = "read" THEN size'[Current] ELSE Capacity)
         /\ stream'[fhandle].pos < start + SegLen

\* A restart shows nothing.
Faults == at' # "idle" /\ (OpenFault \/ SeekFault \/ MoveFault)

RecordsFaults == faulted' = (at # "idle" /\ (faulted \/ Faults))

DriverNext == DriverStep /\ RecordsFaults

DriverSpec == DriverInit /\ [][DriverNext]_allVars

-------------------------------------------------------------------------------
(* Refinement: the bytes of an image are the blocks of a disk. *)

Content(b) ==
  [j \in 0..(SectLen - 1) |-> data[<<diskSet, b[1]>>][Offset(b[2]) + j]]

\* The blocks with bytes in them that are still to be written out.
UnsavedBlocks ==
  {b \in Block : /\ IsOpen /\ Current = <<diskSet, b[1]>>
                 /\ \E j \in 0..(SectLen - 1) : Offset(b[2]) + j \in Unsaved}

Dev == INSTANCE BlockDevice WITH
         DiskOf <- [b \in Block |-> b[1]], Value <- {BlockValue}, Fails <- MediaFaults,
         store <- [b \in Block |-> Content(b)],
         misled <- k > 0 /\ Astray, unsettled <- UnsavedBlocks

\* On a card that does not fail, the engine used as documented is a block device: no
\* request fails, a read returns what the block holds, a write has replaced it and
\* nothing else, and requests given up anywhere leave nothing behind that could
\* confuse later ones.  On a card that may fail, the results of fseek and fclose that
\* the file system drops (lines 220 and 174 of FileSystem_FabGL.cpp) are all that
\* comes in between: without an error, a request may be served elsewhere on its disk
\* after a seek that failed, and the block last written may be lost until the next
\* seek or close, but no other.
DriverGetsABlockDevice == Dev!Spec

\* A request fails only if the card failed while it was worked on: no sequence of
\* requests, failed or given up, leaves the engine in a state where a correct one
\* is refused.
NoFaultNoFailure == reply = Failure => faulted

\* The engine and the program agree on the operation under way and on how far it is,
\* without exchanging anything but the bytes, errors or not.
CountsAgree ==
  at = "byte" =>
    /\ ioByteCnt = k
    /\ ioOpcode = IF req.op = "read" THEN READSECT ELSE WRITESECT

===============================================================================
