-------------------------------- MODULE SdFile --------------------------------
(***************************************************************************)
(* The file layer under the disk emulation: the four SD routines of        *)
(* SimZ80_MBC2.cpp (openSD, readSD, writeSD, seekSD), the slot table of    *)
(* FileSystem_FabGL.cpp they call, and the stdio streams behind it.  The   *)
(* C library is external: a stream has a position and a buffer, a read     *)
(* returns as many bytes as the file still holds, a write past the end     *)
(* extends the file, and fseek and fclose write the buffer out.  A media   *)
(* fault makes an open fail, cuts a read or a write short, or makes fseek  *)
(* or fclose fail: the file system does not look at the result of these    *)
(* two, the stream stays where it is, and a part of what was written       *)
(* through it never reaches the card.                                      *)
(*                                                                         *)
(* Each operator is the part of a handler's step that one SD routine       *)
(* performs; it says what becomes of the file variables and relates them   *)
(* to the value the routine returns.                                       *)
(***************************************************************************)
EXTENDS Integers

CONSTANTS
  NumFiles,      \* NUM_FILES, the slots of the table `files`
  Image,         \* the files on the card
  NoFile,        \* an empty slot (a null FILE pointer)
  Capacity,      \* bytes the card lets one file grow to
  SegLen,        \* bytes of a segment (32): what one readSD or writeSD moves
  MediaFaults    \* whether the card may fail: an open, a read, a write, a seek, a close

Byte == 0..255
Word == {n \in Nat : n < 65536}
Slot == 0..(NumFiles - 1)
NoHandle == -1
NOT_OPEN == 127   \* the one errno this file system ever reports

ASSUME SdFileAssumption ==
  /\ NumFiles \in Nat \ {0}
  /\ SegLen \in Nat /\ SegLen > 1
  /\ SegLen < 255                 \* the counts of readSD and writeSD are bytes
  /\ Capacity \in Nat
  /\ NoFile \notin Image
  /\ MediaFaults \in BOOLEAN

VARIABLES
  files,      \* the slot table: the image each slot has open, or NoFile
  stream,     \* of each slot: see Stream
  fhandle,    \* the handle of the current file, or NoHandle
  size,       \* the length of each image, bytes still in a stream's buffer included
  data,       \* the bytes of each image, likewise; those at size[f] and after do not count
  saved,      \* of each image: length and bytes when its stream was last written out
  bufferSD    \* the segment buffer shared by reads and writes

imageVars == <<size, data, saved>>
fileVars == <<files, stream, fhandle, imageVars, bufferSD>>

\* The direction of a stream's last transfer since fopen or fseek.  A read right
\* after a write, or a write right after a read, is undefined on a C stream.
Direction == {"none", "read", "write", "undefined"}

\* The position in bytes; where the bytes begin that went to the buffer since it was
\* last written out; the direction; and, as history, whether the last fseek failed.
Stream == [pos : Nat, from : Nat, io : Direction, astray : {FALSE, MediaFaults}]

Bytes == [0..(Capacity - 1) -> Byte]

SdTypeOK ==
  /\ files \in [Slot -> Image \cup {NoFile}]
  /\ stream \in [Slot -> Stream]
  /\ fhandle \in Slot \cup {NoHandle}
  /\ size \in [Image -> 0..Capacity]
  /\ data \in [Image -> Bytes]
  /\ saved \in [Image -> [len : 0..Capacity, bytes : Bytes]]
  /\ bufferSD \in [0..(SegLen - 1) -> Byte]

-------------------------------------------------------------------------------
(* The slot table. *)

IsOpen == fhandle \in Slot /\ files[fhandle] # NoFile

Current == files[fhandle]

FreeSlots(table) == {s \in Slot : table[s] = NoFile}

Lowest(S) == CHOOSE s \in S : \A t \in S : s <= t

\* A stream just opened, or moved by fseek.
At(offset) == [pos |-> offset, from |-> offset, io |-> "none", astray |-> FALSE]

\* Where the bytes of the current stream that do reach the card may end: at the
\* position it stands at, unless the card fails.
Reached ==
  LET st == stream[fhandle] IN IF MediaFaults THEN st.from..st.pos ELSE {st.pos}

\* The stream's buffer is written out, up to the offset `end`: what was written after
\* that is lost, and the card holds there what it held before.
WriteOut(end) ==
  LET lost == end..(stream[fhandle].pos - 1)
      cut  == IF end < size[Current] THEN end ELSE size[Current]
      was  == saved[Current]
  IN  /\ data' = [data EXCEPT ![Current] =
                     [i \in 0..(Capacity - 1) |-> IF i \in lost THEN was.bytes[i] ELSE @[i]]]
      /\ size' = [size EXCEPT ![Current] =
                     IF lost = {} THEN @ ELSE IF cut > was.len THEN cut ELSE was.len]
      /\ saved' = [saved EXCEPT ![Current] = [len |-> size'[Current], bytes |-> data'[Current]]]

\* Mutant of AfterClose: the file opened last is never closed.
AfterCloseForgotten == files

\* close() of the handle openSD still holds frees the slot, whatever becomes of
\* the buffer: fclose's result is dropped.
AfterClose == IF IsOpen THEN [files EXCEPT ![fhandle] = NoFile] ELSE files

CloseSD == IF IsOpen THEN \E end \in Reached : WriteOut(end) ELSE UNCHANGED imageVars

\* openSD: open() takes the first free slot; every failure gives the handle -1.
OpenSD(f, err) ==
  LET free == FreeSlots(AfterClose)
      s    == Lowest(free)
  IN  /\ CloseSD
      /\ \/ /\ f \in Image /\ free # {}
            /\ err = 0
            /\ files' = [AfterClose EXCEPT ![s] = f]
            /\ stream' = [stream EXCEPT ![s] = At(0)]
            /\ fhandle' = s
         \/ /\ f \notin Image \/ free = {} \/ MediaFaults
            /\ err = NOT_OPEN
            /\ files' = AfterClose
            /\ fhandle' = NoHandle
            /\ UNCHANGED stream
      /\ UNCHANGED bufferSD

\* Mutant of SeekErr: the result is not narrowed to a byte.
SeekErrUncast == IF IsOpen THEN 0 ELSE -1

\* seekSD: lseek() drops fseek's own result, and its -1 for an invalid handle
\* is returned as a byte.
SeekErr == IF IsOpen THEN 0 ELSE 255

\* Where fseek may leave the current stream, if it is to go to `offset`: there, with
\* the buffer written out, or where the buffer's last byte to reach the card ended.
SeekSD(offset) ==
  {At(offset)} \cup
    IF MediaFaults THEN {[stream[fhandle] EXCEPT !.pos = end, !.from = end, !.astray = TRUE] :
                           end \in Reached}
    ELSE {}

\* What becomes of the image when fseek leaves the stream as st.
SoughtSD(st) == WriteOut(IF st.astray THEN st.pos ELSE stream[fhandle].pos)

-------------------------------------------------------------------------------
(* Transfers of one segment, on the stream st: the current one as it is or,   *)
(* when the handler seeks first, as the seek leaves it.                        *)

\* The counts a transfer may come back with when `room` bytes are left.
Moved(room) == LET full == IF room < SegLen THEN room ELSE SegLen
               IN  IF MediaFaults THEN 0..full ELSE {full}

Left(limit, at) == IF at < limit THEN limit - at ELSE 0

\* A read leaves nothing to be written out, unless something was left before it.
Advance(st, n, io, other) ==
  [pos    |-> st.pos + n,
   from   |-> IF io = "read" /\ st.from = st.pos THEN st.pos + n ELSE st.from,
   io     |-> IF st.io \in {other, "undefined"} THEN "undefined" ELSE io,
   astray |-> st.astray]

\* readSD, of the image as the seek has left it: buffer bytes past the count stay as
\* they were.  An invalid handle gives the count -1, which a byte keeps as 255.
ReadSD(st, n) ==
  IF IsOpen
  THEN /\ n \in Moved(Left(size'[Current], st.pos))
       /\ bufferSD' = [i \in 0..(SegLen - 1) |->
                         IF i < n THEN data'[Current][st.pos + i] ELSE bufferSD[i]]
       /\ stream' = [stream EXCEPT ![fhandle] = Advance(st, n, "read", "write")]
       /\ UNCHANGED <<files, fhandle>>
  ELSE n = 255 /\ UNCHANGED <<files, stream, fhandle, bufferSD>>

\* The bytes of an image after n bytes of seg were written at offset at.
Patched(bytes, at, seg, n) ==
  [i \in 0..(Capacity - 1) |-> IF i \in at..(at + n - 1) THEN seg[i - at] ELSE bytes[i]]

\* writeSD of the segment seg, the buffer's new content, on the current stream.  The
\* count is of the bytes the stream has taken: they are saved only when the stream is
\* written out, by the next seek or close.  Bytes the write itself fails to write out
\* are among those that may be lost then, and the last call of the handlers,
\* writeSD(NULL), does nothing.
WriteSD(seg, n) ==
  LET st == stream[fhandle]
  IN  /\ bufferSD' = seg
      /\ IF IsOpen
         THEN /\ n \in Moved(Left(Capacity, st.pos))
              /\ data' = [data EXCEPT ![Current] = Patched(@, st.pos, seg, n)]
              /\ size' = [size EXCEPT ![Current] =
                            IF n > 0 /\ st.pos + n > @ THEN st.pos + n ELSE @]
              /\ stream' = [stream EXCEPT ![fhandle] = Advance(st, n, "write", "read")]
              /\ UNCHANGED <<files, fhandle, saved>>
         ELSE n = 255 /\ UNCHANGED <<imageVars, stream, files, fhandle>>

\* The counts the two routines can return.
Count == 0..SegLen \cup {255}

\* The error code the handlers keep after a transfer that returned n.
TransferErr(n) == IF n < SegLen THEN 19 ELSE IF IsOpen THEN 0 ELSE NOT_OPEN

===============================================================================
