----------------------------- MODULE MCXStreams -------------------------------
(***************************************************************************)
(* Two characters, three of them in each direction: enough for a mix-up of *)
(* consecutive characters, and for a third one to meet what the first two  *)
(* left behind.                                                            *)
(***************************************************************************)
EXTENDS XStreams

CONSTANTS a, b, noChar

MCChar == {a, b}

===============================================================================
