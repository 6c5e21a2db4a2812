------------------------------ MODULE MCIosDisk -------------------------------
(***************************************************************************)
(* Small instances of IosDisk: sectors of two segments of two bytes, a     *)
(* card with the boot image and one disk image, whose bytes are all        *)
(* different so that a byte tells where it comes from.                     *)
(***************************************************************************)
EXTENDS IosDisk

CONSTANT noFile

Disk == <<0, 0>>

MCImage == {Disk}

\* Every disk opcode, and DATETIME for the services that share the engine.
MCOpcode == DiskWriteOps \cup DiskReadOps \cup {DATETIME}

\* The disk image holds sector 0 only: the second valid address is past its end.
MCSize == [f \in MCImage |-> 4]

MCData == [f \in MCImage |-> [i \in 0..(Capacity - 1) |-> 200 + i]]

MCBuffer == [i \in 0..(SegLen - 1) |-> 100 + i]

===============================================================================
