------------------------------- MODULE Z80Arith -------------------------------
(***************************************************************************)
(* What programs use the arithmetic of Z80Alu for: numbers of several      *)
(* bytes, binary or decimal, added, subtracted, doubled or halved one byte *)
(* after the other, the carry and the half carry going from one            *)
(* instruction to the next.  A step is one instruction that touches the    *)
(* flags, with the loads around it, which do not.                          *)
(***************************************************************************)
EXTENDS Z80Alu

CONSTANTS
  Operand,     \* the bytes of the binary numbers, and of those shifted
  Decimal,     \* the bytes of the decimal numbers: two digits each
  Length       \* how many bytes a number has

IsDecimal(b) == b \div 16 <= 9 /\ b % 16 <= 9

ASSUME Z80ArithAssumption ==
  /\ Operand \subseteq Byte
  /\ Decimal \subseteq {b \in Byte : IsDecimal(b)}
  /\ Length \in Nat \ {0}

Kind == {"add", "sub", "left", "right"}

VARIABLES
  a, f,          \* the accumulator and the flags
  kind, base,    \* what is computed, and 256, or 100 for decimal numbers
  phase,         \* "start", "next" byte, or "adjust" it
  n, weight,     \* history: how many bytes are done, and base ^ n
  carry,         \* history: the carry it began with
  x, y,          \* history: the operands' bytes that are in work
  xs, ys, rs     \* history: the operands and the result so far

registers == <<a, f>>
job == <<kind, base, carry>>
numbers == <<n, weight, xs, ys, rs>>
vars == <<registers, job, phase, x, y, numbers>>

TypeOK ==
  /\ a \in Byte /\ f \in Flags
  /\ kind \in Kind /\ base \in {100, 256}
  /\ phase \in {"start", "next", "adjust"}
  /\ n \in Nat /\ n <= Length /\ weight \in Nat \ {0}
  /\ carry \in Flag
  /\ x \in Byte /\ y \in Byte
  /\ xs \in Nat /\ ys \in Nat /\ rs \in Nat

Init ==
  /\ a \in Operand
  /\ f = [s |-> 0, z |-> 0, h |-> 0, p |-> 0, n |-> 0, c |-> 0]
  /\ kind \in Kind
  /\ base \in IF kind \in {"add", "sub"} THEN {100, 256} ELSE {256}
  /\ phase = "start"
  /\ n = 0 /\ weight = 1 /\ carry = 0
  /\ x = 0 /\ y = 0 /\ xs = 0 /\ ys = 0 /\ rs = 0

-------------------------------------------------------------------------------
\* OR A, or SCF, or SCF and CCF: the carry the number begins with.
Begin(c) ==
  /\ phase = "start"
  /\ phase' = "next"
  /\ f' = IF c = 1 THEN SCF(f) ELSE OR(a, a).f
  /\ carry' = c
  /\ UNCHANGED <<a, kind, base, x, y, numbers>>

BeginComplemented ==
  /\ phase = "start"
  /\ phase' = "next"
  /\ f' = CCF(SCF(f)) /\ carry' = 0
  /\ UNCHANGED <<a, kind, base, x, y, numbers>>

\* The number a byte stands for, in base 256 or 100.
Digits(b) == IF base = 256 THEN b ELSE 10 * (b \div 16) + (b % 16)

\* The result r of the byte is stored; numbers are built from their low bytes, but
\* from the high ones when they are halved.
Stored(r, u, v) ==
  /\ n' = n + 1 /\ weight' = weight * base
  /\ IF kind = "right"
     THEN xs' = xs * 256 + u /\ rs' = rs * 256 + r /\ ys' = ys
     ELSE /\ xs' = xs + Digits(u) * weight
          /\ ys' = ys + Digits(v) * weight
          /\ rs' = rs + Digits(r) * weight

\* The instruction: without a carry at first, when there is none.
Computed(u, v) ==
  CASE kind = "add" -> IF n = 0 /\ f.c = 0 THEN ADD(u, v) ELSE ADC(u, v, f)
    [] kind = "sub" -> IF n = 0 /\ f.c = 0 THEN SUB(u, v) ELSE SBC(u, v, f)
    [] kind = "left" -> IF n = 0 /\ f.c = 0 THEN SLA(u) ELSE RL(u, f)
    [] kind = "right" -> IF n = 0 /\ f.c = 0 THEN SRL(u) ELSE RR(u, f)

Compute(u, v) ==
  /\ phase = "next" /\ n < Length
  /\ LET res == Computed(u, v)
     IN  a' = res.r /\ f' = res.f /\ (base = 256 => Stored(res.r, u, v))
  /\ phase' = IF base = 256 THEN "next" ELSE "adjust"
  /\ x' = u /\ y' = v
  /\ base = 100 => UNCHANGED numbers
  /\ UNCHANGED job

Adjust ==
  /\ phase = "adjust"
  /\ LET res == DAA(a, f) IN a' = res.r /\ f' = res.f /\ Stored(res.r, x, y)
  /\ phase' = "next"
  /\ UNCHANGED <<job, x, y>>

Byte1 == IF base = 256 THEN Operand ELSE Decimal
Byte2 == IF kind \in {"add", "sub"} THEN Byte1 ELSE {0}

Next ==
  \/ \E c \in Flag : Begin(c)
  \/ BeginComplemented
  \/ \E u \in Byte1, v \in Byte2 : Compute(u, v)
  \/ Adjust

Spec == Init /\ [][Next]_vars

-------------------------------------------------------------------------------
(* Correctness. *)

\* What has been done adds up, with the carry c left over.
Balance(c) ==
  /\ kind = "add" => rs + c * weight = xs + ys + carry
  /\ kind = "sub" => rs + ys + carry = xs + c * weight
  /\ kind = "left" => rs + c * weight = 2 * xs + carry
  /\ kind = "right" => 2 * rs + c = xs + carry * weight

\* Numbers of several bytes come out exactly, whatever their carries: the carry
\* left over is what the result lacks.
Exact == phase = "next" => Balance(f.c)

\* Decimal numbers stay decimal.
StaysDecimal == base = 100 /\ phase = "next" /\ n > 0 => IsDecimal(a)

Signed(v) == IF 2 * v >= weight THEN v - weight ELSE v

\* After the last byte P/V tells that the signed result does not fit, and S, with
\* P/V, whether the first number is less than the second.
SignedOrder ==
  phase = "next" /\ base = 256 /\ n > 0 /\ kind \in {"add", "sub"} =>
    LET exact == IF kind = "add" THEN Signed(xs) + Signed(ys) + carry
                                 ELSE Signed(xs) - Signed(ys) - carry
    IN  /\ f.p = 1 <=> 2 * exact < -weight \/ 2 * exact >= weight
        /\ f.s # f.p <=> exact < 0

\* ADC HL,rr and SBC HL,rr do in one step what ADC and SBC do in two, Z apart:
\* it is set for the result 0 unless there was a carry out of it.
WideAgrees ==
  phase = "next" /\ base = 256 /\ n = 2 /\ kind \in {"add", "sub"} =>
    LET before == [f EXCEPT !.c = carry]
        wide == IF kind = "add" THEN ADC16(xs, ys, before) ELSE SBC16(xs, ys, before)
        plain == ADD16(xs, ys, before)
    IN  /\ wide.r = rs
        /\ wide.f = [f EXCEPT !.z = Yes(rs = 0 /\ f.c = 0)]
        /\ kind = "add" /\ carry = 0 =>
             plain = [r |-> rs, f |-> [before EXCEPT !.h = f.h, !.n = 0, !.c = f.c]]

\* What the code computes in two ways agrees: INC, DEC and CP with ADD and SUB,
\* SLA and RL with ADD and ADC of the same byte, SLL and SRA with RL and RR of the
\* bit they bring in; and a rotation is undone by the one to the other side.
TwinsAgree ==
  /\ INC(a, f) = [ADD(a, 1) EXCEPT !.f.c = f.c]
  /\ DEC(a, f) = [SUB(a, 1) EXCEPT !.f.c = f.c]
  /\ NEG(CPL(a, f).r).r = INC(a, f).r
  /\ \A u \in Operand : (CP(a, u).f.z = 1) = (XOR(a, u).r = 0)
  /\ \A u \in Operand : OR(a, u).r = CPL(AND(255 - a, 255 - u).r, f).r
  /\ LET Same(q, r) == q.r = r.r /\ q.f.s = r.f.s /\ q.f.z = r.f.z /\ q.f.c = r.f.c
     IN  Same(SLA(a), ADD(a, a)) /\ Same(RL(a, f), ADC(a, a, f))
  /\ SLL(a) = RL(a, SCF(f))
  /\ SRA(a) = RR(a, [f EXCEPT !.c = Bit(a, 128)])
  /\ RRC(RLC(a).r).r = a
  /\ LET d == RL(a, f) IN RR(d.r, d.f).r = a /\ RR(d.r, d.f).f.c = f.c
  /\ \A m \in Operand : LET d == RLD(a, m, f) IN
       /\ RRD(d.r, d.m, d.f).r = a /\ RRD(d.r, d.m, d.f).m = m
       /\ 256 * (d.r % 16) + d.m = 16 * m + (a % 16)
===============================================================================
