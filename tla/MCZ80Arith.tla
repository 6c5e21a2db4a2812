------------------------------ MODULE MCZ80Arith ------------------------------
(* Bytes at the borders of the digits, of the signs and of the byte, for TLC. *)
EXTENDS Z80Arith

MCOperand == {0, 1, 9, 15, 16, 85, 127, 128, 170, 240, 254, 255}

MCDecimal == {16 * t + u : t \in {0, 5, 9}, u \in {0, 5, 9}}
==============================================================================
