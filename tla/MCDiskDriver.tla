---------------------------- MODULE MCDiskDriver ------------------------------
(***************************************************************************)
(* Two full disks of two sectors, each of two segments of two bytes, of    *)
(* which the program uses three.  All initial bytes differ, and differ     *)
(* from what is written, so that a byte tells where it comes from.         *)
(***************************************************************************)
EXTENDS DiskDriver

CONSTANTS noFile, noReq, noReply, failure, unknown

MCImage == {<<0, 0>>, <<0, 1>>}

MCBlock == {<<0, <<0, 0>>>>, <<0, <<1, 0>>>>, <<1, <<0, 0>>>>}

\* One sector is written to, the others are only read.
MCWritable == {<<0, <<0, 0>>>>}

MCSize == [f \in MCImage |-> Capacity]

MCData == [f \in MCImage |-> [j \in 0..(Capacity - 1) |-> 100 + 50 * f[2] + j]]

MCBuffer == [j \in 0..(SegLen - 1) |-> 90 + j]

MCValue == [j \in 0..(SectLen - 1) |-> 70 + j]

\* The image Zsetup loaded the operating system from is still open.
MCBoot == <<0, 1>>

\* A bound of the model: once a transfer that went astray has put a byte where it does
\* not belong, the run is not followed any further.
MCFollowed ==
  \A b \in MCBlock : \A j \in 0..(SectLen - 1) :
    \/ Content(b)[j] = MCData[<<0, b[1]>>][Offset(b[2]) + j]
    \/ b \in MCWritable /\ Content(b)[j] = MCValue[j]

===============================================================================
