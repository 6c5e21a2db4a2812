---------------------------- MODULE Z80ArithProofs ----------------------------
(***************************************************************************)
(* Theorems about the arithmetic: what one instruction computes for every  *)
(* byte, that numbers of any length come out exactly and are compared with *)
(* their signs, and that what the code computes in two ways agrees.        *)
(***************************************************************************)
EXTENDS Z80Arith, TLAPS

-------------------------------------------------------------------------------
(* Bits and carries. *)

LEMMA BitIsAFlag ==
  ASSUME NEW m \in Nat
  PROVE  /\ Bit(m, 1) \in Flag /\ Bit(m, 2) \in Flag /\ Bit(m, 4) \in Flag
         /\ Bit(m, 8) \in Flag /\ Bit(m, 16) \in Flag /\ Bit(m, 32) \in Flag
         /\ Bit(m, 64) \in Flag /\ Bit(m, 128) \in Flag /\ Bit(m, 256) \in Flag
BY DEF Bit, Flag

LEMMA ParityIsAFlag == ASSUME NEW m \in Nat PROVE parity(m) \in Flag
<1>1. /\ Bit(m, 1) \in Nat /\ Bit(m, 2) \in Nat /\ Bit(m, 4) \in Nat
      /\ Bit(m, 8) \in Nat /\ Bit(m, 16) \in Nat /\ Bit(m, 32) \in Nat
      /\ Bit(m, 64) \in Nat /\ Bit(m, 128) \in Nat
  BY BitIsAFlag DEF Flag
<1> DEFINE k == 1 + Bit(m, 1) + Bit(m, 2) + Bit(m, 4) + Bit(m, 8)
                  + Bit(m, 16) + Bit(m, 32) + Bit(m, 64) + Bit(m, 128)
<1>2. k \in Nat
  BY <1>1
<1>3. k % 2 \in {0, 1}
  <2> HIDE DEF k
  <2>1. QED BY <1>2
<1>4. QED BY <1>3 DEF parity, Flag

LEMMA YesIsAFlag == ASSUME NEW b PROVE Yes(b) \in Flag /\ (Yes(b) = 1 <=> b)
BY DEF Yes, Flag

\* The carries that the exclusive or of a sum and its operands shows.
LEMMA CarriesOfSum ==
  ASSUME NEW z \in Byte, NEW u \in Byte, NEW c \in Flag
  PROVE  /\ CarryInto(256, z + u + c, z, u) = (z + u + c) \div 256
         /\ CarryInto(16, z + u + c, z, u) = ((z % 16) + (u % 16) + c) \div 16
         /\ CarryInto(128, z + u + c, z, u) \in Flag
         /\ CarryInto(256, z + u + c, z, u) \in Flag
         /\ CarryInto(16, z + u + c, z, u) \in Flag
<1>1. CarryInto(256, z + u + c, z, u) = (z + u + c) \div 256
  BY DEF CarryInto, Bit, Byte, Flag
<1>2. CarryInto(16, z + u + c, z, u) = ((z % 16) + (u % 16) + c) \div 16
  BY DEF CarryInto, Bit, Byte, Flag
<1>3. CarryInto(128, z + u + c, z, u) \in Flag
  BY DEF CarryInto, Bit, Byte, Flag
<1>4. QED BY <1>1, <1>2, <1>3 DEF Byte, Flag

\* The same for a difference.
LEMMA CarriesOfDifference ==
  ASSUME NEW z \in Byte, NEW u \in Byte, NEW c \in Flag,
         NEW v, v = (z - u - c) % 65536
  PROVE  /\ v \in Nat
         /\ CarryInto(256, v, z, u) = (IF z < u + c THEN 1 ELSE 0)
         /\ (v % 256) + u + c = z + 256 * (IF z < u + c THEN 1 ELSE 0)
         /\ CarryInto(16, v, z, u) = (IF z % 16 < (u % 16) + c THEN 1 ELSE 0)
         /\ CarryInto(128, v, z, u) \in Flag
<1>1. v = (IF z < u + c THEN z - u - c + 65536 ELSE z - u - c) /\ v \in Nat
  BY DEF Byte, Flag
<1>2. CarryInto(256, v, z, u) = (IF z < u + c THEN 1 ELSE 0)
  BY <1>1 DEF CarryInto, Bit, Byte, Flag
<1>3. (v % 256) + u + c = z + 256 * (IF z < u + c THEN 1 ELSE 0)
  BY <1>1 DEF Byte, Flag
<1>4. CarryInto(16, v, z, u) = (IF z % 16 < (u % 16) + c THEN 1 ELSE 0)
  BY <1>1 DEF CarryInto, Bit, Byte, Flag
<1>5. CarryInto(128, v, z, u) \in Flag
  BY <1>1 DEF CarryInto, Bit, Byte, Flag
<1>6. QED BY <1>1, <1>2, <1>3, <1>4, <1>5

-------------------------------------------------------------------------------
(* One instruction. *)

\* ADD and ADC: the result and the carry are the sum; H is the low digits' carry.
THEOREM SumIsExact ==
  ASSUME NEW z \in Byte, NEW u \in Byte, NEW c \in Flag
  PROVE  LET d == Sum(z, u, c)
         IN  /\ d.r \in Byte /\ d.f \in Flags /\ d.f.n = 0
             /\ d.r + 256 * d.f.c = z + u + c
             /\ d.f.h = ((z % 16) + (u % 16) + c) \div 16
<1> DEFINE v == z + u + c
           k == CarryInto(128, v, z, u)
           l == CarryInto(256, v, z, u)
<1>1. v \in Nat /\ v % 256 \in Byte /\ (v % 256) + 256 * (v \div 256) = v
  BY DEF Byte, Flag
<1>2. l = v \div 256 /\ k \in Flag /\ l \in Flag /\ (k + l) % 2 \in Flag
  BY CarriesOfSum DEF Flag
<1>3. /\ Bit(v, 128) \in Flag /\ Yes(v % 256 = 0) \in Flag
      /\ CarryInto(16, v, z, u) \in Flag
      /\ CarryInto(16, v, z, u) = ((z % 16) + (u % 16) + c) \div 16
  BY <1>1, BitIsAFlag, YesIsAFlag, CarriesOfSum
<1>4. 0 \in Flag
  BY DEF Flag
<1> DEFINE g == [s |-> Bit(v, 128), z |-> Yes(v % 256 = 0), h |-> CarryInto(16, v, z, u),
                 p |-> (k + l) % 2, n |-> 0, c |-> l]
<1>5. Sum(z, u, c) = [r |-> v % 256, f |-> g]
  BY DEF Sum, resADD_byte
<1>6. g \in Flags
  BY <1>2, <1>3, <1>4 DEF Flags
<1>7. g.n = 0 /\ g.c = v \div 256 /\ g.h = ((z % 16) + (u % 16) + c) \div 16
  BY <1>2, <1>3
<1> HIDE DEF g
<1>8. QED BY <1>1, <1>5, <1>6, <1>7

\* SUB, SBC, CP and NEG: the carry is the borrow, H that of the low digits.
THEOREM DifferenceIsExact ==
  ASSUME NEW z \in Byte, NEW u \in Byte, NEW c \in Flag
  PROVE  LET d == Difference(z, u, c)
         IN  /\ d.r \in Byte /\ d.f \in Flags /\ d.f.n = 1
             /\ d.r + u + c = z + 256 * d.f.c
             /\ d.f.h = (IF z % 16 < (u % 16) + c THEN 1 ELSE 0)
<1> DEFINE v == (z - u - c) % 65536
           k == CarryInto(128, v, z, u)
           l == CarryInto(256, v, z, u)
           half == CarryInto(16, v, z, u)
           less == IF z < u + c THEN 1 ELSE 0
           lessLow == IF z % 16 < (u % 16) + c THEN 1 ELSE 0
<1>1. /\ v \in Nat /\ l = less /\ (v % 256) + u + c = z + 256 * less
      /\ half = lessLow /\ k \in Flag
  <2> HIDE DEF v
  <2>1. v = (z - u - c) % 65536
    BY DEF v
  <2>2. QED BY <2>1, CarriesOfDifference
<1>2. less \in Flag /\ lessLow \in Flag
  BY DEF Flag
<1> HIDE DEF v
<1>3. v % 256 \in Byte
  BY <1>1 DEF Byte
<1>4. l \in Flag /\ half \in Flag /\ (k + l) % 2 \in Flag
  BY <1>1, <1>2 DEF Flag
<1>5. Bit(v, 128) \in Flag /\ Yes(v % 256 = 0) \in Flag /\ 1 \in Flag
  BY <1>1, BitIsAFlag, YesIsAFlag DEF Flag
<1> DEFINE g == [s |-> Bit(v, 128), z |-> Yes(v % 256 = 0), h |-> half,
                 p |-> (k + l) % 2, n |-> 1, c |-> l]
<1>6. Difference(z, u, c) = [r |-> v % 256, f |-> g]
  BY DEF Difference, resSUB_byte, resADD_byte, v
<1>7. g \in Flags
  BY <1>4, <1>5 DEF Flags
<1>8. g.n = 1 /\ g.c = less /\ g.h = lessLow
  BY <1>1
<1> HIDE DEF g
<1>9. QED BY <1>1, <1>3, <1>6, <1>7, <1>8

\* Shifts and rotations to the left and to the right, with the carry that comes in.
LEMMA ShiftsAreExact ==
  ASSUME NEW u \in Byte, NEW c \in Flag
  PROVE  /\ LET d == resROT_byte(2 * u + c, Bit(u, 128))
             IN  d.r \in Byte /\ d.f \in Flags /\ d.r + 256 * d.f.c = 2 * u + c
         /\ LET d == resROT_byte((u \div 2) + 128 * c, Bit(u, 1))
             IN  d.r \in Byte /\ d.f \in Flags /\ 2 * d.r + d.f.c = u + 256 * c
<1>1. ASSUME NEW v \in Nat, NEW out \in Flag
      PROVE  LET d == resROT_byte(v, out)
             IN  d.r = v % 256 /\ d.r \in Byte /\ d.f \in Flags /\ d.f.c = out
  <2>1. /\ v % 256 \in Byte /\ Bit(v, 128) \in Flag /\ parity(v) \in Flag
        /\ Yes(v % 256 = 0) \in Flag /\ 0 \in Flag
    BY BitIsAFlag, ParityIsAFlag, YesIsAFlag DEF Byte, Flag
  <2>2. QED BY <2>1 DEF resROT_byte, Flags
<1>2. /\ 2 * u + c \in Nat /\ (u \div 2) + 128 * c \in Nat /\ u \in Nat
      /\ Bit(u, 128) \in Flag /\ Bit(u, 1) \in Flag
  BY BitIsAFlag DEF Byte, Flag
<1>3. ((2 * u + c) % 256) + 256 * Bit(u, 128) = 2 * u + c
  BY DEF Bit, Byte, Flag
<1>4. 2 * (((u \div 2) + 128 * c) % 256) + Bit(u, 1) = u + 256 * c
  BY DEF Bit, Byte, Flag
<1>5. QED BY <1>1, <1>2, <1>3, <1>4

DecimalByte == {b \in Byte : IsDecimal(b)}
Value(b) == 10 * (b \div 16) + (b % 16)

LEMMA DecimalByteIs ==
  ASSUME NEW u \in DecimalByte
  PROVE  /\ u \in Byte /\ u = 16 * (u \div 16) + (u % 16)
         /\ u \div 16 \in Nat /\ u \div 16 <= 9 /\ u % 16 \in Nat /\ u % 16 <= 9
BY DEF DecimalByte, IsDecimal, Byte

\* The flags DAA makes are flags, and its result is a byte.
LEMMA DAATypes ==
  ASSUME NEW b \in Byte, NEW g \in Flags
  PROVE  LET d == DAA(b, g) IN d.r \in Byte /\ d.f \in Flags /\ d.f.n = g.n
<1> DEFINE hi == b \div 16
           lo == b % 16
           diff == DAADiff(hi, lo, g)
           w == (IF g.n = 1 THEN b - diff ELSE b + diff) % 256
<1>1. b \in Int /\ diff \in Int
  BY DEF DAADiff, Byte
<1>2. w \in Byte /\ w \in Nat
  <2> HIDE DEF diff
  <2>1. QED BY <1>1 DEF Byte
<1> HIDE DEF w
<1>3. Bit(w, 128) \in Flag /\ parity(w) \in Flag /\ g.n \in Flag
  BY <1>2, BitIsAFlag, ParityIsAFlag DEF Flags
<1> DEFINE h == Yes(IF g.n = 1 THEN g.h = 1 /\ lo <= 5 ELSE lo >= 10)
           c == Yes(g.c = 1 \/ hi >= (IF lo <= 9 THEN 10 ELSE 9))
           e == [s |-> Bit(w, 128), z |-> Yes(w = 0), h |-> h,
                 p |-> parity(w), n |-> g.n, c |-> c]
<1>4. h \in Flag /\ c \in Flag /\ Yes(w = 0) \in Flag
  BY YesIsAFlag
<1>5. DAA(b, g) = [r |-> w, f |-> e]
  BY DEF DAA, w
<1> HIDE DEF h, c
<1>6. e \in Flags /\ e.n = g.n
  BY <1>3, <1>4 DEF Flags
<1>7. QED BY <1>2, <1>5, <1>6

LEMMA DecimalDigits ==
  ASSUME NEW u \in DecimalByte
  PROVE  \E t, d \in {m \in Nat : m <= 9} :
           u = 16 * t + d /\ u \div 16 = t /\ u % 16 = d /\ Value(u) = 10 * t + d
BY DecimalByteIs DEF Value

\* A byte is decimal when its digits are, and stands for them.
LEMMA DigitsMakeDecimal ==
  ASSUME NEW t \in Nat, NEW d \in Nat, t <= 9, d <= 9
  PROVE  16 * t + d \in DecimalByte /\ Value(16 * t + d) = 10 * t + d
<1>1. (16 * t + d) \div 16 = t /\ (16 * t + d) % 16 = d /\ 16 * t + d \in Byte
  BY DEF Byte
<1>2. QED BY <1>1 DEF DecimalByte, IsDecimal, Value

\* DAA on a sum whose digits add up to hi and lo.
LEMMA AdjustsSum ==
  ASSUME NEW hi \in Nat, hi <= 18, NEW lo \in Nat, lo <= 19,
         NEW b \in Byte, NEW g \in Flags, g.n = 0,
         b + 256 * g.c = 16 * hi + lo, g.h = lo \div 16
  PROVE  /\ DAA(b, g).r \in DecimalByte
         /\ Value(DAA(b, g).r) + 100 * DAA(b, g).f.c = 10 * hi + lo
<1> DEFINE t == IF lo >= 16 THEN 1 ELSE 0
           k == IF hi + t >= 16 THEN 1 ELSE 0
           up == IF lo >= 10 THEN 1 ELSE 0
           out == IF hi + up >= 10 THEN 1 ELSE 0
           hib == b \div 16
           lob == b % 16
<1>1. g.c \in {0, 1} /\ g.h = t
  BY DEF Flags, Flag
<1>2. g.c = k
  BY <1>1 DEF Byte
<1>3. b = 16 * (hi + t - 16 * k) + (lo - 16 * t)
  BY <1>1, <1>2 DEF Byte
<1>4. hib = hi + t - 16 * k /\ lob = lo - 16 * t
  BY <1>1, <1>2, <1>3 DEF Byte
<1> HIDE DEF hib, lob
<1>5. DAADiff(hib, lob, g) = 6 * up + 96 * out
  <2>1. CASE g.c = 1
    BY <1>1, <1>2, <1>4, <2>1 DEF DAADiff
  <2>2. CASE g.c = 0 /\ lob >= 10
    BY <1>1, <1>2, <1>4, <2>2 DEF DAADiff
  <2>3. CASE g.c = 0 /\ ~(lob >= 10)
    BY <1>1, <1>2, <1>4, <2>3 DEF DAADiff
  <2>4. QED BY <1>1, <2>1, <2>2, <2>3
<1>6. (b + 6 * up + 96 * out) % 256 = 16 * (hi + up - 10 * out) + (lo - 10 * up)
  BY <1>1, <1>2, <1>3
<1>7. DAA(b, g).r = 16 * (hi + up - 10 * out) + (lo - 10 * up)
  BY <1>5, <1>6 DEF DAA, hib, lob, Byte
<1>8. DAA(b, g).f.c = out
  <2>1. DAA(b, g).f.c = Yes(g.c = 1 \/ hib >= (IF lob <= 9 THEN 10 ELSE 9))
    BY DEF DAA, hib, lob
  <2>2. (g.c = 1 \/ hib >= (IF lob <= 9 THEN 10 ELSE 9)) <=> out = 1
    BY <1>1, <1>2, <1>4
  <2>3. QED BY <2>1, <2>2 DEF Yes
<1> DEFINE T == hi + up - 10 * out
           D == lo - 10 * up
<1>9. T \in Nat /\ T <= 9 /\ D \in Nat /\ D <= 9 /\ 10 * T + D + 100 * out = 10 * hi + lo
  OBVIOUS
<1>10. DAA(b, g).r = 16 * T + D
  BY <1>7
<1> HIDE DEF T, D
<1>11. 16 * T + D \in DecimalByte /\ Value(16 * T + D) = 10 * T + D
  BY <1>9, DigitsMakeDecimal
<1>12. QED BY <1>8, <1>9, <1>10, <1>11

\* DAA on a difference whose digits' differences are hi and lo.
LEMMA AdjustsDifference ==
  ASSUME NEW hi \in Int, hi <= 9, hi >= -9, NEW lo \in Int, lo <= 9, lo >= -10,
         NEW b \in Byte, NEW g \in Flags, g.n = 1,
         b = 16 * hi + lo + 256 * g.c, g.h = (IF lo < 0 THEN 1 ELSE 0)
  PROVE  /\ DAA(b, g).r \in DecimalByte
         /\ Value(DAA(b, g).r) = 10 * hi + lo + 100 * DAA(b, g).f.c
<1> DEFINE t == IF lo < 0 THEN 1 ELSE 0
           out == IF hi - t < 0 THEN 1 ELSE 0
           hib == b \div 16
           lob == b % 16
<1>1. g.c \in {0, 1} /\ g.h = t
  BY DEF Flags, Flag
<1>2. g.c = out
  BY <1>1 DEF Byte
<1>3. b = 16 * (hi - t + 16 * out) + (lo + 16 * t)
  BY <1>1, <1>2
<1>4. hib = hi - t + 16 * out /\ lob = lo + 16 * t
  BY <1>1, <1>2, <1>3 DEF Byte
<1> HIDE DEF hib, lob
<1>5. DAADiff(hib, lob, g) = 6 * t + 96 * out
  <2>1. CASE g.c = 1
    BY <1>1, <1>2, <1>4, <2>1 DEF DAADiff
  <2>2. CASE g.c = 0
    BY <1>1, <1>2, <1>4, <2>2 DEF DAADiff
  <2>3. QED BY <1>1, <2>1, <2>2
<1>6. (b - (6 * t + 96 * out)) % 256 = 16 * (hi - t + 10 * out) + (lo + 10 * t)
  BY <1>1, <1>2, <1>3
<1>7. DAA(b, g).r = 16 * (hi - t + 10 * out) + (lo + 10 * t)
  BY <1>5, <1>6 DEF DAA, hib, lob, Byte
<1>8. DAA(b, g).f.c = out
  <2>1. DAA(b, g).f.c = Yes(g.c = 1 \/ hib >= (IF lob <= 9 THEN 10 ELSE 9))
    BY DEF DAA, hib, lob
  <2>2. (g.c = 1 \/ hib >= (IF lob <= 9 THEN 10 ELSE 9)) <=> out = 1
    BY <1>1, <1>2, <1>4
  <2>3. QED BY <2>1, <2>2 DEF Yes
<1> DEFINE T == hi - t + 10 * out
           D == lo + 10 * t
<1>9. T \in Nat /\ T <= 9 /\ D \in Nat /\ D <= 9 /\ 10 * T + D = 10 * hi + lo + 100 * out
  OBVIOUS
<1>10. DAA(b, g).r = 16 * T + D
  BY <1>7
<1> HIDE DEF T, D
<1>11. 16 * T + D \in DecimalByte /\ Value(16 * T + D) = 10 * T + D
  BY <1>9, DigitsMakeDecimal
<1>12. QED BY <1>8, <1>9, <1>10, <1>11

\* After ADD or ADC of two decimal bytes DAA makes the decimal sum and its carry.
THEOREM DAAAfterSum ==
  ASSUME NEW u \in DecimalByte, NEW v \in DecimalByte, NEW c \in Flag
  PROVE  LET d == Sum(u, v, c)
             e == DAA(d.r, d.f)
         IN  /\ e.r \in DecimalByte
             /\ Value(e.r) + 100 * e.f.c = Value(u) + Value(v) + c
<1> DEFINE d == Sum(u, v, c)
           e == DAA(d.r, d.f)
<1>1. /\ d.r \in Byte /\ d.f.n = 0 /\ d.f \in Flags /\ d.r + 256 * d.f.c = u + v + c
      /\ d.f.h = ((u % 16) + (v % 16) + c) \div 16
  BY SumIsExact, DecimalByteIs
<1>2. PICK u1, u0 \in {m \in Nat : m <= 9} :
        u = 16 * u1 + u0 /\ u % 16 = u0 /\ Value(u) = 10 * u1 + u0
  BY DecimalDigits
<1>3. PICK v1, v0 \in {m \in Nat : m <= 9} :
        v = 16 * v1 + v0 /\ v % 16 = v0 /\ Value(v) = 10 * v1 + v0
  BY DecimalDigits
<1> DEFINE lo == u0 + v0 + c
           hi == u1 + v1
<1>4. /\ lo \in Nat /\ lo <= 19 /\ hi \in Nat /\ hi <= 18
      /\ d.r + 256 * d.f.c = 16 * hi + lo /\ d.f.h = lo \div 16
      /\ Value(u) + Value(v) + c = 10 * hi + lo
  BY <1>1, <1>2, <1>3 DEF Flag
<1> HIDE DEF lo, hi, d
<1>5. e.r \in DecimalByte /\ Value(e.r) + 100 * e.f.c = 10 * hi + lo
  <2> DEFINE b == d.r
             g == d.f
  <2>1. /\ b \in Byte /\ g \in Flags /\ g.n = 0 /\ b + 256 * g.c = 16 * hi + lo
        /\ g.h = lo \div 16
    BY <1>1, <1>4
  <2> HIDE DEF b, g
  <2>2. /\ DAA(b, g).r \in DecimalByte
        /\ Value(DAA(b, g).r) + 100 * DAA(b, g).f.c = 10 * hi + lo
    BY <1>4, <2>1, AdjustsSum
  <2>3. QED BY <2>2 DEF b, g
<1>6. QED BY <1>4, <1>5 DEF d

\* After SUB or SBC it makes the decimal difference and its borrow.
THEOREM DAAAfterDifference ==
  ASSUME NEW u \in DecimalByte, NEW v \in DecimalByte, NEW c \in Flag
  PROVE  LET d == Difference(u, v, c)
             e == DAA(d.r, d.f)
         IN  /\ e.r \in DecimalByte
             /\ Value(e.r) + Value(v) + c = Value(u) + 100 * e.f.c
<1> DEFINE d == Difference(u, v, c)
           e == DAA(d.r, d.f)
<1>1. /\ d.r \in Byte /\ d.f.n = 1 /\ d.f \in Flags /\ d.r + v + c = u + 256 * d.f.c
      /\ d.f.h = (IF u % 16 < (v % 16) + c THEN 1 ELSE 0) /\ d.f.c \in {0, 1}
  BY DifferenceIsExact, DecimalByteIs DEF Flags, Flag
<1>2. PICK u1, u0 \in {m \in Nat : m <= 9} :
        u = 16 * u1 + u0 /\ u % 16 = u0 /\ Value(u) = 10 * u1 + u0
  BY DecimalDigits
<1>3. PICK v1, v0 \in {m \in Nat : m <= 9} :
        v = 16 * v1 + v0 /\ v % 16 = v0 /\ Value(v) = 10 * v1 + v0
  BY DecimalDigits
<1> DEFINE lo == u0 - v0 - c
           hi == u1 - v1
<1>4. /\ lo \in Int /\ lo <= 9 /\ lo >= -10 /\ hi \in Int /\ hi <= 9 /\ hi >= -9
      /\ d.r = 16 * hi + lo + 256 * d.f.c /\ d.f.h = (IF lo < 0 THEN 1 ELSE 0)
      /\ Value(v) + c \in Int /\ Value(u) = 10 * hi + lo + Value(v) + c
  BY <1>1, <1>2, <1>3 DEF Flag, Byte
<1> HIDE DEF lo, hi, d
<1>5. e.r \in DecimalByte /\ Value(e.r) = 10 * hi + lo + 100 * e.f.c
  <2> DEFINE b == d.r
             g == d.f
  <2>1. /\ b \in Byte /\ g \in Flags /\ g.n = 1 /\ b = 16 * hi + lo + 256 * g.c
        /\ g.h = (IF lo < 0 THEN 1 ELSE 0)
    BY <1>1, <1>4
  <2> HIDE DEF b, g
  <2>2. /\ DAA(b, g).r \in DecimalByte
        /\ Value(DAA(b, g).r) = 10 * hi + lo + 100 * DAA(b, g).f.c
    BY <1>4, <2>1, AdjustsDifference
  <2>3. QED BY <2>2 DEF b, g
<1>6. e.f.c \in Int /\ Value(e.r) \in Int
  BY <1>1, <1>5, DAATypes, DecimalByteIs DEF Flags, Flag, Value
<1>7. Value(v) \in Int /\ c \in Int
  BY <1>3 DEF Flag
<1>8. QED BY <1>4, <1>5, <1>6, <1>7 DEF d

-------------------------------------------------------------------------------
(* Numbers of several bytes. *)

\* Between an addition or subtraction of decimal bytes and its adjustment the
\* accumulator and the flags are what the instruction made of them.
AdjustPending ==
  /\ base = 100 /\ n < Length
  /\ x \in DecimalByte /\ y \in DecimalByte
  /\ \E c \in Flag :
       /\ Balance(c)
       /\ kind = "add" => a = Sum(x, y, c).r /\ f = Sum(x, y, c).f
       /\ kind = "sub" => a = Difference(x, y, c).r /\ f = Difference(x, y, c).f

IInv ==
  /\ TypeOK
  /\ base = 100 => kind \in {"add", "sub"}
  /\ phase = "start" => weight = 1 /\ n = 0 /\ xs = 0 /\ ys = 0 /\ rs = 0
  /\ Exact
  /\ StaysDecimal
  /\ phase = "adjust" => AdjustPending

\* The number a byte stands for is a natural number in either base.
LEMMA DigitsAreNat ==
  ASSUME NEW b \in Byte, base \in {100, 256}
  PROVE  /\ Digits(b) \in Nat
         /\ base = 256 => Digits(b) = b
         /\ base = 100 => Digits(b) = Value(b)
BY DEF Digits, Value, Byte

LEMMA Distributes ==
  ASSUME NEW w \in Nat, NEW q \in Nat, NEW r \in Nat, NEW s \in Nat,
         NEW B \in Nat, NEW c \in Flag, NEW d \in Flag
  PROVE  /\ q + B * d = r + s + c => q * w + d * (w * B) = r * w + s * w + c * w
         /\ q + s + c = r + B * d => q * w + s * w + c * w = r * w + d * (w * B)
         /\ q + B * d = 2 * r + c => q * w + d * (w * B) = 2 * (r * w) + c * w
<1>1. c \in Int /\ d \in Int /\ (d = 0 \/ d = 1)
  BY DEF Flag
<1>2. /\ (q + B * d) * w = q * w + d * (w * B)
      /\ (r + B * d) * w = r * w + d * (w * B)
  <2>1. CASE d = 0
    BY <2>1
  <2>2. CASE d = 1
    <3>1. (q + B) * w = q * w + w * B /\ (r + B) * w = r * w + w * B
      OBVIOUS
    <3>2. QED BY <2>2, <3>1
  <2>3. QED BY <1>1, <2>1, <2>2
<1>3. /\ (r + s + c) * w = r * w + s * w + c * w
      /\ (q + s + c) * w = q * w + s * w + c * w
      /\ (2 * r + c) * w = 2 * (r * w) + c * w
  BY <1>1
<1>4. QED BY <1>2, <1>3

\* Storing a byte keeps the balance, if the byte's own digits balance.
LEMMA StoredBalances ==
  ASSUME TypeOK, NEW c \in Flag, NEW d \in Flag, Balance(c),
         NEW r \in Byte, NEW u \in Byte, NEW v \in Byte, n < Length,
         Stored(r, u, v), UNCHANGED job,
         kind = "add" => Digits(r) + base * d = Digits(u) + Digits(v) + c,
         kind = "sub" => Digits(r) + Digits(v) + c = Digits(u) + base * d,
         kind = "left" => Digits(r) + base * d = 2 * Digits(u) + c,
         kind = "right" => base = 256 /\ 2 * r + d = u + 256 * c
  PROVE  /\ kind' = "add" => rs' + d * weight' = xs' + ys' + carry'
         /\ kind' = "sub" => rs' + ys' + carry' = xs' + d * weight'
         /\ kind' = "left" => rs' + d * weight' = 2 * xs' + carry'
         /\ kind' = "right" => 2 * rs' + d = xs' + carry' * weight'
         /\ n' \in Nat /\ n' <= Length /\ n' > 0 /\ weight' \in Nat \ {0}
         /\ xs' \in Nat /\ ys' \in Nat /\ rs' \in Nat
<1>1. /\ base \in {100, 256} /\ base \in Nat \ {0} /\ weight \in Nat \ {0} /\ n \in Nat
      /\ xs \in Nat /\ ys \in Nat /\ rs \in Nat /\ carry \in {0, 1} /\ kind \in Kind
      /\ c \in {0, 1} /\ d \in {0, 1} /\ Length \in Nat
  BY Z80ArithAssumption DEF TypeOK, Flag
<1>2. kind' = kind /\ base' = base /\ carry' = carry
  BY DEF job
<1>3. n' = n + 1 /\ weight' = weight * base
  BY DEF Stored
<1>4. weight * base \in Nat \ {0}
  BY <1>1
<1>5. CASE kind = "right"
  <2>1. xs' = xs * 256 + u /\ rs' = rs * 256 + r /\ ys' = ys /\ base = 256
    BY <1>5 DEF Stored
  <2>2. u \in Nat /\ r \in Nat
    BY DEF Byte
  <2>3. 2 * rs + c = xs + carry * weight
    BY <1>5 DEF Balance
  <2>4. carry * (weight * 256) = 256 * (carry * weight) /\ carry * weight \in Nat
    BY <1>1
  <2>5. 2 * rs' + d = xs' + carry * weight'
    BY <1>1, <1>3, <2>1, <2>2, <2>3, <2>4, <1>5
  <2>6. QED BY <1>1, <1>2, <1>3, <1>4, <1>5, <2>1, <2>2, <2>5
<1>6. CASE kind # "right"
  <2> DEFINE U == Digits(u)
             V == Digits(v)
             R == Digits(r)
  <2>1. /\ xs' = xs + U * weight /\ ys' = ys + V * weight /\ rs' = rs + R * weight
    BY <1>6 DEF Stored
  <2>2. U \in Nat /\ V \in Nat /\ R \in Nat
    BY <1>1, DigitsAreNat
  <2> HIDE DEF U, V, R
  <2>3. U * weight \in Nat /\ V * weight \in Nat /\ R * weight \in Nat
        /\ c * weight \in Nat /\ d * (weight * base) \in Nat
    BY <1>1, <2>2
  <2>4. CASE kind = "add"
    <3>0. R + base * d = U + V + c
      BY <2>4 DEF U, V, R
    <3>1. R * weight + d * (weight * base) = U * weight + V * weight + c * weight
      BY <1>1, <2>2, <3>0, Distributes
    <3>2. rs + c * weight = xs + ys + carry
      BY <2>4 DEF Balance
    <3>3. rs' + d * weight' = xs' + ys' + carry'
      BY <1>1, <1>2, <1>3, <2>1, <2>3, <3>1, <3>2
    <3>4. QED BY <1>1, <1>2, <1>3, <1>4, <2>4, <2>1, <2>3, <3>3
  <2>5. CASE kind = "sub"
    <3>1. R * weight + V * weight + c * weight = U * weight + d * (weight * base)
      BY <1>1, <2>2, <2>5, Distributes DEF U, V, R
    <3>2. rs + ys + carry = xs + c * weight
      BY <2>5 DEF Balance
    <3>3. rs' + ys' + carry' = xs' + d * weight'
      BY <1>1, <1>2, <1>3, <2>1, <2>3, <3>1, <3>2
    <3>4. QED BY <1>1, <1>2, <1>3, <1>4, <2>5, <2>1, <2>3, <3>3
  <2>6. CASE kind = "left"
    <3>1. R * weight + d * (weight * base) = 2 * (U * weight) + c * weight
      BY <1>1, <2>2, <2>6, Distributes DEF U, V, R
    <3>2. rs + c * weight = 2 * xs + carry
      BY <2>6 DEF Balance
    <3>3. rs' + d * weight' = 2 * xs' + carry'
      BY <1>1, <1>2, <1>3, <2>1, <2>3, <3>1, <3>2
    <3>4. QED BY <1>1, <1>2, <1>3, <1>4, <2>6, <2>1, <2>3, <3>3
  <2>7. QED BY <1>1, <1>6, <2>4, <2>5, <2>6 DEF Kind
<1>7. QED BY <1>5, <1>6

LEMMA ByteFacts ==
  ASSUME TypeOK, NEW u \in Byte1, NEW v \in Byte2
  PROVE  /\ u \in Byte /\ v \in Byte
         /\ base = 100 => u \in DecimalByte /\ (kind \in {"add", "sub"} => v \in DecimalByte)
BY Z80ArithAssumption DEF Byte1, Byte2, DecimalByte, Byte, TypeOK

\* The instruction chosen computes with the carry that is there.
LEMMA ComputedIs ==
  ASSUME TypeOK, NEW u \in Byte, NEW v \in Byte
  PROVE  /\ kind = "add" => Computed(u, v) = Sum(u, v, f.c)
         /\ kind = "sub" => Computed(u, v) = Difference(u, v, f.c)
         /\ kind = "left" => Computed(u, v) = resROT_byte(2 * u + f.c, Bit(u, 128))
         /\ kind = "right" =>
              Computed(u, v) = resROT_byte((u \div 2) + 128 * f.c, Bit(u, 1))
<1>1. f.c \in {0, 1}
  BY DEF TypeOK, Flags, Flag
<1>2. 2 * u + 0 = 2 * u /\ (u \div 2) + 128 * 0 = u \div 2
  BY DEF Byte
<1>3. CASE n = 0 /\ f.c = 0
  BY <1>2, <1>3 DEF Computed, ADD, SUB, SLA, SRL
<1>4. CASE ~(n = 0 /\ f.c = 0)
  BY <1>4 DEF Computed, ADC, SBC, RL, RR
<1>5. QED BY <1>3, <1>4

\* What the instruction makes of one byte, whatever is computed.
LEMMA ComputedBalances ==
  ASSUME TypeOK, NEW u \in Byte, NEW v \in Byte
  PROVE  LET res == Computed(u, v)
         IN  /\ res.r \in Byte /\ res.f \in Flags /\ res.f.c \in Flag /\ f.c \in Flag
             /\ kind = "add" => res.r + 256 * res.f.c = u + v + f.c
             /\ kind = "sub" => res.r + v + f.c = u + 256 * res.f.c
             /\ kind = "left" => res.r + 256 * res.f.c = 2 * u + f.c
             /\ kind = "right" => 2 * res.r + res.f.c = u + 256 * f.c
<1>1. f.c \in Flag /\ kind \in Kind
  BY DEF TypeOK, Flags
<1>2. CASE kind = "add"
  BY <1>1, <1>2, ComputedIs, SumIsExact DEF Flags
<1>3. CASE kind = "sub"
  BY <1>1, <1>3, ComputedIs, DifferenceIsExact DEF Flags
<1>4. CASE kind = "left"
  BY <1>1, <1>4, ComputedIs, ShiftsAreExact DEF Flags
<1>5. CASE kind = "right"
  BY <1>1, <1>5, ComputedIs, ShiftsAreExact DEF Flags
<1>6. QED BY <1>1, <1>2, <1>3, <1>4, <1>5 DEF Kind

LEMMA BothIsLess == ASSUME NEW u \in Byte PROVE Both(u, u) \in Nat /\ Both(u, u) <= u
<1>1. u = Bit(u, 1) + 2 * Bit(u, 2) + 4 * Bit(u, 4) + 8 * Bit(u, 8) + 16 * Bit(u, 16)
            + 32 * Bit(u, 32) + 64 * Bit(u, 64) + 128 * Bit(u, 128)
  BY DEF Bit, Byte
<1>2. /\ Bit(u, 1) \in Flag /\ Bit(u, 2) \in Flag /\ Bit(u, 4) \in Flag
      /\ Bit(u, 8) \in Flag /\ Bit(u, 16) \in Flag /\ Bit(u, 32) \in Flag
      /\ Bit(u, 64) \in Flag /\ Bit(u, 128) \in Flag
  BY BitIsAFlag DEF Byte
<1>3. QED BY <1>1, <1>2 DEF Both, Flag

LEMMA LogicTypes ==
  ASSUME NEW u \in Byte PROVE OR(u, u).f \in Flags /\ OR(u, u).f.c = 0
<1> DEFINE w == u + u - Both(u, u)
<1>1. w \in Nat
  BY BothIsLess DEF Byte
<1>2. Bit(w, 128) \in Flag /\ parity(w) \in Flag /\ Yes(w = 0) \in Flag /\ 0 \in Flag
  BY <1>1, BitIsAFlag, ParityIsAFlag, YesIsAFlag DEF Flag
<1>3. OR(u, u).f = [s |-> Bit(w, 128), z |-> Yes(w = 0), h |-> 0, p |-> parity(w),
                    n |-> 0, c |-> 0]
  BY DEF OR, resLogic
<1> HIDE DEF w
<1>4. QED BY <1>2, <1>3 DEF Flags

LEMMA CarryTypes ==
  ASSUME NEW g \in Flags
  PROVE  /\ SCF(g) \in Flags /\ SCF(g).c = 1
         /\ CCF(SCF(g)) \in Flags /\ CCF(SCF(g)).c = 0
<1>1. SCF(g) \in Flags /\ SCF(g).c = 1
  BY DEF SCF, Flags, Flag
<1> DEFINE k == SCF(g)
<1>2. k \in Flags /\ k.c = 1
  BY <1>1
<1> HIDE DEF k
<1>3. 1 - 1 = 0
  OBVIOUS
<1>4. CCF(k) = [k EXCEPT !.h = 1, !.n = 0, !.c = 0]
  BY <1>2, <1>3, Zenon DEF CCF
<1> DEFINE m == [k EXCEPT !.h = 1, !.n = 0, !.c = 0]
<1>6. m \in Flags /\ m.c = 0
  BY <1>2 DEF Flags, Flag
<1>7. QED BY <1>1, <1>4, <1>6 DEF k

LEMMA InitEstablishes == Init => IInv
<1> SUFFICES ASSUME Init PROVE IInv
  OBVIOUS
<1>1. a \in Byte /\ Length \in Nat \ {0}
  BY Z80ArithAssumption DEF Init
<1>2. f \in Flags
  BY DEF Init, Flags, Flag
<1>3. TypeOK
  BY <1>1, <1>2 DEF Init, TypeOK, Byte, Flag, Kind
<1>4. QED BY <1>3 DEF Init, IInv, Exact, StaysDecimal

\* A number begins with the carry its first instruction finds.
LEMMA BeginKeeps ==
  ASSUME IInv, NEW c \in Flag, phase = "start", phase' = "next", f' \in Flags, f'.c = c,
         carry' = c, UNCHANGED <<a, kind, base, x, y, numbers>>
  PROVE  IInv'
<1>1. /\ kind' = kind /\ base' = base /\ n' = 0 /\ weight' = 1
      /\ xs' = 0 /\ ys' = 0 /\ rs' = 0 /\ a' = a /\ x' = x /\ y' = y
  BY DEF IInv, numbers
<1>2. TypeOK'
  BY <1>1 DEF IInv, TypeOK, Z80ArithAssumption
<1>3. Balance(f.c)'
  BY <1>1 DEF Balance, Flag
<1>4. QED BY <1>1, <1>2, <1>3 DEF IInv, Exact, StaysDecimal

LEMMA ComputeKeeps ==
  ASSUME IInv, NEW u \in Byte1, NEW v \in Byte2, Compute(u, v)
  PROVE  IInv'
<1> DEFINE res == Computed(u, v)
<1>0. /\ TypeOK /\ base \in {100, 256} /\ kind \in Kind /\ Length \in Nat \ {0}
      /\ phase = "next" /\ n < Length /\ Balance(f.c)
      /\ base = 100 => kind \in {"add", "sub"}
      /\ UNCHANGED job /\ kind' = kind /\ base' = base /\ carry' = carry
      /\ x' = u /\ y' = v /\ a' = res.r /\ f' = res.f
  BY Z80ArithAssumption DEF IInv, Compute, Exact, TypeOK, job
<1>1. /\ u \in Byte /\ v \in Byte
      /\ base = 100 => u \in DecimalByte /\ v \in DecimalByte
  BY <1>0, ByteFacts
<1>2. /\ res.r \in Byte /\ res.f \in Flags /\ res.f.c \in Flag /\ f.c \in Flag
      /\ kind = "add" => res.r + 256 * res.f.c = u + v + f.c
      /\ kind = "sub" => res.r + v + f.c = u + 256 * res.f.c
      /\ kind = "left" => res.r + 256 * res.f.c = 2 * u + f.c
      /\ kind = "right" => 2 * res.r + res.f.c = u + 256 * f.c
  BY <1>0, <1>1, ComputedBalances
<1> HIDE DEF res
<1>3. CASE base = 256
  <2>1. Stored(res.r, u, v) /\ phase' = "next"
    BY <1>3 DEF Compute, res
  <2>2. Digits(res.r) = res.r /\ Digits(u) = u /\ Digits(v) = v
    BY <1>1, <1>2, <1>3 DEF Digits
  <2> DEFINE c == f.c
             d == res.f.c
             r == res.r
  <2>3. c \in Flag /\ d \in Flag /\ r \in Byte /\ Balance(c) /\ f'.c = d
    BY <1>0, <1>2
  <2>4. /\ kind = "add" => Digits(r) + base * d = Digits(u) + Digits(v) + c
        /\ kind = "sub" => Digits(r) + Digits(v) + c = Digits(u) + base * d
        /\ kind = "left" => Digits(r) + base * d = 2 * Digits(u) + c
        /\ kind = "right" => base = 256 /\ 2 * r + d = u + 256 * c
    BY <1>2, <1>3, <2>2
  <2>5. Stored(r, u, v)
    BY <2>1
  <2> HIDE DEF c, d, r
  <2>6. /\ kind' = "add" => rs' + d * weight' = xs' + ys' + carry'
        /\ kind' = "sub" => rs' + ys' + carry' = xs' + d * weight'
        /\ kind' = "left" => rs' + d * weight' = 2 * xs' + carry'
        /\ kind' = "right" => 2 * rs' + d = xs' + carry' * weight'
        /\ n' \in Nat /\ n' <= Length /\ n' > 0 /\ weight' \in Nat \ {0}
        /\ xs' \in Nat /\ ys' \in Nat /\ rs' \in Nat
    BY <1>0, <1>1, <2>3, <2>4, <2>5, StoredBalances
  <2>7. Balance(f.c)'
    BY <2>3, <2>6 DEF Balance
  <2>8. TypeOK'
    BY <1>0, <1>1, <1>2, <2>1, <2>6 DEF TypeOK
  <2>9. QED BY <1>0, <1>3, <2>1, <2>7, <2>8 DEF IInv, Exact, StaysDecimal
<1>4. CASE base = 100
  <2>1. phase' = "adjust" /\ n' = n /\ weight' = weight /\ xs' = xs /\ ys' = ys /\ rs' = rs
    BY <1>4 DEF Compute, numbers
  <2>2. /\ kind = "add" => res = Sum(u, v, f.c)
        /\ kind = "sub" => res = Difference(u, v, f.c)
    BY <1>0, <1>1, ComputedIs DEF res
  <2>3. TypeOK'
    BY <1>0, <1>1, <1>2, <2>1 DEF TypeOK
  <2> DEFINE c == f.c
  <2>4. Balance(c) /\ c \in Flag
    BY <1>0, <1>2
  <2>5. /\ kind = "add" => a' = Sum(u, v, c).r /\ f' = Sum(u, v, c).f
        /\ kind = "sub" => a' = Difference(u, v, c).r /\ f' = Difference(u, v, c).f
    BY <1>0, <2>2
  <2> HIDE DEF c
  <2>6. AdjustPending'
    <3>1. /\ kind' = "add" => rs' + c * weight' = xs' + ys' + carry'
          /\ kind' = "sub" => rs' + ys' + carry' = xs' + c * weight'
          /\ kind' = "left" => rs' + c * weight' = 2 * xs' + carry'
          /\ kind' = "right" => 2 * rs' + c = xs' + carry' * weight'
      BY <1>0, <2>1, <2>4 DEF Balance
    <3>2. /\ kind' = "add" => a' = Sum(x', y', c).r /\ f' = Sum(x', y', c).f
          /\ kind' = "sub" => a' = Difference(x', y', c).r /\ f' = Difference(x', y', c).f
      BY <1>0, <2>5
    <3>3. /\ base' = 100 /\ n' < Length /\ x' \in DecimalByte /\ y' \in DecimalByte
      BY <1>0, <1>1, <1>4, <2>1
    <3>4. QED BY <2>4, <3>1, <3>2, <3>3 DEF AdjustPending, Balance
  <2>7. QED BY <1>0, <1>4, <2>1, <2>3, <2>6 DEF IInv, Exact, StaysDecimal
<1>5. QED BY <1>0, <1>3, <1>4

\* The adjustment balances the decimal byte, with the carry it leaves.
LEMMA AdjustKeeps ==
  ASSUME IInv, Adjust
  PROVE  IInv'
<1> DEFINE res == DAA(a, f)
<1>0. /\ TypeOK /\ base = 100 /\ kind \in {"add", "sub"} /\ Length \in Nat \ {0}
      /\ n < Length /\ phase' = "next"
      /\ UNCHANGED job /\ kind' = kind /\ base' = base /\ carry' = carry
      /\ x' = x /\ y' = y /\ a' = res.r /\ f' = res.f
      /\ x \in DecimalByte /\ y \in DecimalByte
  BY Z80ArithAssumption DEF IInv, AdjustPending, Adjust, TypeOK, job
<1>1. PICK c \in Flag :
        /\ Balance(c)
        /\ kind = "add" => a = Sum(x, y, c).r /\ f = Sum(x, y, c).f
        /\ kind = "sub" => a = Difference(x, y, c).r /\ f = Difference(x, y, c).f
  BY DEF IInv, AdjustPending, Adjust
<1>2. res.r \in Byte /\ res.f \in Flags /\ x \in Byte /\ y \in Byte
  BY <1>0, DAATypes, DecimalByteIs DEF TypeOK
<1>3. res.f.c \in Flag
  BY <1>2 DEF Flags
<1>4. /\ res.r \in DecimalByte
      /\ kind = "add" => Value(res.r) + 100 * res.f.c = Value(x) + Value(y) + c
      /\ kind = "sub" => Value(res.r) + Value(y) + c = Value(x) + 100 * res.f.c
  <2>1. CASE kind = "add"
    BY <1>0, <1>1, <2>1, DAAAfterSum
  <2>2. CASE kind = "sub"
    BY <1>0, <1>1, <2>2, DAAAfterDifference
  <2>3. QED BY <1>0, <2>1, <2>2
<1>5. Stored(res.r, x, y)
  BY DEF Adjust
<1> DEFINE r == res.r
           d == res.f.c
<1>6. r \in Byte /\ d \in Flag /\ f'.c = d /\ r \in DecimalByte /\ a' = r
  BY <1>0, <1>2, <1>3, <1>4
<1>7. /\ Digits(r) = Value(r) /\ Digits(x) = Value(x) /\ Digits(y) = Value(y)
  BY <1>0, <1>2, DigitsAreNat
<1>8. /\ kind = "add" => Digits(r) + base * d = Digits(x) + Digits(y) + c
      /\ kind = "sub" => Digits(r) + Digits(y) + c = Digits(x) + base * d
      /\ kind # "left" /\ kind # "right"
  BY <1>0, <1>4, <1>7
<1>9. Stored(r, x, y)
  BY <1>5
<1>10. TypeOK' <=> /\ n' \in Nat /\ n' <= Length /\ weight' \in Nat \ {0}
                   /\ xs' \in Nat /\ ys' \in Nat /\ rs' \in Nat
  BY <1>0, <1>2 DEF TypeOK
<1> HIDE DEF res, r, d
<1>11. /\ kind' = "add" => rs' + d * weight' = xs' + ys' + carry'
       /\ kind' = "sub" => rs' + ys' + carry' = xs' + d * weight'
       /\ kind' = "left" => rs' + d * weight' = 2 * xs' + carry'
       /\ kind' = "right" => 2 * rs' + d = xs' + carry' * weight'
       /\ n' \in Nat /\ n' <= Length /\ n' > 0 /\ weight' \in Nat \ {0}
       /\ xs' \in Nat /\ ys' \in Nat /\ rs' \in Nat
  BY <1>0, <1>1, <1>2, <1>6, <1>8, <1>9, StoredBalances
<1>12. Balance(f.c)'
  BY <1>6, <1>11 DEF Balance
<1>13. IsDecimal(a)'
  BY <1>6 DEF DecimalByte
<1>14. QED BY <1>0, <1>10, <1>11, <1>12, <1>13 DEF IInv, Exact, StaysDecimal

LEMMA StepKeeps == IInv /\ [Next]_vars => IInv'
<1> SUFFICES ASSUME IInv, [Next]_vars PROVE IInv'
  OBVIOUS
<1>1. ASSUME NEW c \in Flag, Begin(c) PROVE IInv'
  <2>1. f' = (IF c = 1 THEN SCF(f) ELSE OR(a, a).f) /\ f \in Flags /\ a \in Byte
    BY <1>1 DEF Begin, IInv, TypeOK
  <2>2. f' \in Flags /\ f'.c = c
    BY <2>1, LogicTypes, CarryTypes DEF Flag
  <2>3. QED BY <1>1, <2>2, BeginKeeps DEF Begin
<1>2. ASSUME BeginComplemented PROVE IInv'
  <2>1. f' = CCF(SCF(f)) /\ f \in Flags
    BY <1>2 DEF BeginComplemented, IInv, TypeOK
  <2>2. f' \in Flags /\ f'.c = 0 /\ 0 \in Flag
    BY <2>1, CarryTypes DEF Flag
  <2>3. QED BY <1>2, <2>2, BeginKeeps DEF BeginComplemented
<1>3. ASSUME NEW u \in Byte1, NEW v \in Byte2, Compute(u, v) PROVE IInv'
  BY <1>3, ComputeKeeps
<1>4. CASE Adjust
  BY <1>4, AdjustKeeps
<1>5. CASE UNCHANGED vars
  <2>1. UNCHANGED <<a, f, kind, base, carry, phase, x, y, n, weight, xs, ys, rs>>
    BY <1>5 DEF vars, registers, job, numbers
  <2>2. TypeOK' /\ Exact' /\ StaysDecimal'
    BY <2>1 DEF IInv, TypeOK, Exact, StaysDecimal, Balance
  <2>3. AdjustPending' = AdjustPending
    BY <2>1 DEF AdjustPending, Balance
  <2>4. QED BY <2>1, <2>2, <2>3 DEF IInv
<1>6. QED BY <1>1, <1>2, <1>3, <1>4, <1>5 DEF Next

THEOREM SpecInvariant == Spec => []IInv
BY InitEstablishes, StepKeeps, PTL DEF Spec

\* The accumulator, the flags and the numbers keep their ranges.
THEOREM ArithTypeCorrect == Spec => []TypeOK
<1>1. IInv => TypeOK
  BY DEF IInv
<1>2. QED BY <1>1, SpecInvariant, PTL

\* Numbers of any length, of any bytes, binary or decimal, are added, subtracted,
\* doubled and halved exactly: what ADC, SBC, RL, RR and DAA leave in the carry is
\* what the next byte needs.
THEOREM ArithIsExact == Spec => []Exact
<1>1. IInv => Exact
  BY DEF IInv
<1>2. QED BY <1>1, SpecInvariant, PTL

\* Sums and differences of decimal numbers are decimal in every byte.
THEOREM DecimalStaysDecimal == Spec => []StaysDecimal
<1>1. IInv => StaysDecimal
  BY DEF IInv
<1>2. QED BY <1>1, SpecInvariant, PTL

-------------------------------------------------------------------------------
(* Signed numbers. *)

\* The number a byte stands for in two's complement.
SignedByte(b) == IF b >= 128 THEN b - 256 ELSE b

\* The bits of a sum that S and P/V are made of, by the sign bits h of the operands and
\* the rest l of them.
LEMMA SignBitsOfSum ==
  ASSUME NEW g \in Flag, NEW h \in Flag, NEW k \in Nat, k < 128, NEW l \in Nat, l < 128,
         NEW c \in Flag, NEW z, z = 128 * g + k, NEW u, u = 128 * h + l,
         NEW raw, raw = z + u + c
  PROVE  LET t == IF k + l + c >= 128 THEN 1 ELSE 0
         IN  /\ Bit(raw, 128) = (g + h + t) % 2
             /\ CarryInto(128, raw, z, u) = t
             /\ CarryInto(256, raw, z, u) = IF g + h + t >= 2 THEN 1 ELSE 0
<1> DEFINE t == IF k + l + c >= 128 THEN 1 ELSE 0
<1>1. g \in {0, 1} /\ h \in {0, 1} /\ c \in {0, 1}
  BY DEF Flag
<1>2. Bit(z, 128) = g /\ Bit(u, 128) = h /\ Bit(z, 256) = 0 /\ Bit(u, 256) = 0
  BY <1>1 DEF Bit
<1>3. Bit(raw, 128) = (g + h + t) % 2
  BY <1>1 DEF Bit
<1>4. Bit(raw, 256) = IF g + h + t >= 2 THEN 1 ELSE 0
  BY <1>1 DEF Bit
<1>5. QED BY <1>1, <1>2, <1>3, <1>4 DEF CarryInto

LEMMA SignBitsOfDifference ==
  ASSUME NEW g \in Flag, NEW h \in Flag, NEW k \in Nat, k < 128, NEW l \in Nat, l < 128,
         NEW c \in Flag, NEW z, z = 128 * g + k, NEW u, u = 128 * h + l,
         NEW raw, raw = (z - u - c) % 65536
  PROVE  LET t == IF k < l + c THEN 1 ELSE 0
         IN  /\ Bit(raw, 128) = (g + h + t) % 2
             /\ CarryInto(128, raw, z, u) = t
             /\ CarryInto(256, raw, z, u) = IF g < h + t THEN 1 ELSE 0
<1> DEFINE t == IF k < l + c THEN 1 ELSE 0
           b == IF g < h + t THEN 1 ELSE 0
<1>1. g \in {0, 1} /\ h \in {0, 1} /\ c \in {0, 1}
  BY DEF Flag
<1>2. Bit(z, 128) = g /\ Bit(u, 128) = h /\ Bit(z, 256) = 0 /\ Bit(u, 256) = 0
  BY <1>1 DEF Bit
<1>3. raw = 65536 * b + 128 * (g - h - t) + (k - l - c + 128 * t)
  BY <1>1
<1>4. k - l - c + 128 * t \in 0..127
  BY <1>1
<1>5. raw \div 128 = 512 * b + g - h - t
  BY <1>1, <1>3, <1>4
<1>6. Bit(raw, 128) = (g + h + t) % 2
  BY <1>1, <1>5 DEF Bit
<1>7. raw \div 256 = (512 * b + g - h - t) \div 2
  BY <1>1, <1>3, <1>4
<1>8. Bit(raw, 256) = b
  BY <1>1, <1>7 DEF Bit
<1>9. QED BY <1>1, <1>2, <1>6, <1>8 DEF CarryInto

LEMMA ByteHalves ==
  ASSUME NEW u \in Byte
  PROVE  \E h \in Flag : \E l \in Nat : l < 128 /\ u = 128 * h + l /\ SignedByte(u) = l - 128 * h
<1>1. u \div 128 \in Flag /\ u % 128 \in Nat /\ u % 128 < 128 /\ u = 128 * (u \div 128) + (u % 128)
  BY DEF Byte, Flag
<1>2. SignedByte(u) = (u % 128) - 128 * (u \div 128)
  BY DEF Byte, SignedByte
<1>3. QED BY <1>1, <1>2

\* One byte: P/V tells that the signed result does not fit a byte, S with it its sign.
LEMMA SignedSum ==
  ASSUME NEW z \in Byte, NEW u \in Byte, NEW c \in Flag
  PROVE  LET d == Sum(z, u, c).f
             e == SignedByte(z) + SignedByte(u) + c
         IN  /\ e \in Int
             /\ d.p = 1 <=> e < -128 \/ e >= 128
             /\ d.s # d.p <=> e < 0
<1>1. PICK g \in Flag, k \in Nat : k < 128 /\ z = 128 * g + k /\ SignedByte(z) = k - 128 * g
  BY ByteHalves
<1>2. PICK h \in Flag, l \in Nat : l < 128 /\ u = 128 * h + l /\ SignedByte(u) = l - 128 * h
  BY ByteHalves
<1> DEFINE raw == z + u + c
           t == IF k + l + c >= 128 THEN 1 ELSE 0
           o == IF g + h + t >= 2 THEN 1 ELSE 0
<1>3. Bit(raw, 128) = (g + h + t) % 2 /\ CarryInto(128, raw, z, u) = t /\ CarryInto(256, raw, z, u) = o
  BY <1>1, <1>2, SignBitsOfSum
<1>4. Sum(z, u, c).f.s = (g + h + t) % 2 /\ Sum(z, u, c).f.p = (t + o) % 2
  BY <1>3 DEF Sum, resADD_byte
<1>5. g \in {0, 1} /\ h \in {0, 1} /\ c \in {0, 1}
  BY DEF Flag
<1>6. QED BY <1>1, <1>2, <1>4, <1>5

LEMMA SignedDifference ==
  ASSUME NEW z \in Byte, NEW u \in Byte, NEW c \in Flag
  PROVE  LET d == Difference(z, u, c).f
             e == SignedByte(z) - SignedByte(u) - c
         IN  /\ e \in Int
             /\ d.p = 1 <=> e < -128 \/ e >= 128
             /\ d.s # d.p <=> e < 0
<1>1. PICK g \in Flag, k \in Nat : k < 128 /\ z = 128 * g + k /\ SignedByte(z) = k - 128 * g
  BY ByteHalves
<1>2. PICK h \in Flag, l \in Nat : l < 128 /\ u = 128 * h + l /\ SignedByte(u) = l - 128 * h
  BY ByteHalves
<1> DEFINE raw == (z - u - c) % 65536
           t == IF k < l + c THEN 1 ELSE 0
           o == IF g < h + t THEN 1 ELSE 0
<1>3. Bit(raw, 128) = (g + h + t) % 2 /\ CarryInto(128, raw, z, u) = t /\ CarryInto(256, raw, z, u) = o
  BY <1>1, <1>2, SignBitsOfDifference
<1>4. Difference(z, u, c).f.s = (g + h + t) % 2 /\ Difference(z, u, c).f.p = (t + o) % 2
  BY <1>3 DEF Difference, resSUB_byte, resADD_byte
<1>5. g \in {0, 1} /\ h \in {0, 1} /\ c \in {0, 1}
  BY DEF Flag
<1>6. QED BY <1>1, <1>2, <1>4, <1>5

\* A number of bytes below w and e times w: its sign and size are those of e.
LEMMA TopByteDecides ==
  ASSUME NEW w \in Nat \ {0}, NEW r \in Nat, r < w, NEW e \in Int
  PROVE  /\ r + e * w < 0 <=> e < 0
         /\ 2 * (r + e * w) < -(w * 256) <=> e < -128
         /\ 2 * (r + e * w) >= w * 256 <=> e >= 128
<1>1. ASSUME NEW i \in Int, NEW j \in Int, i <= j PROVE i * w <= j * w
  <2>1. (j - i) * w >= 0
    BY <1>1
  <2>2. (j - i) * w = j * w - i * w
    OBVIOUS
  <2>3. QED BY <2>1, <2>2
<1>2. e * w \in Int /\ w \in Int /\ w * 256 = 256 * w
  OBVIOUS
<1>3. e < 0 => e * w <= (-1) * w
  BY <1>1
<1>4. ~(e < 0) => e * w >= 0 * w
  BY <1>1
<1>5. e < -128 => e * w <= (-129) * w
  BY <1>1
<1>6. ~(e < -128) => e * w >= (-128) * w
  BY <1>1
<1>7. e >= 128 => e * w >= 128 * w
  BY <1>1
<1>8. ~(e >= 128) => e * w <= 127 * w
  BY <1>1
<1>9. r + e * w < 0 <=> e < 0
  BY <1>2, <1>3, <1>4
<1>10. 2 * (r + e * w) < -(w * 256) <=> e < -128
  BY <1>2, <1>5, <1>6
<1>11. 2 * (r + e * w) >= w * 256 <=> e >= 128
  BY <1>2, <1>7, <1>8
<1>12. QED BY <1>9, <1>10, <1>11

\* The sign of a number is that of its highest byte.
LEMMA TopByteSigns ==
  ASSUME NEW w \in Nat \ {0}, NEW v \in Nat, v < w, NEW u \in Byte,
         NEW m, m = v + u * w, NEW k, k = w * 256
  PROVE  /\ (IF 2 * m >= k THEN m - k ELSE m) = v + SignedByte(u) * w
         /\ m < k
<1>1. u \in Int /\ 0 <= u /\ u < 256
  BY DEF Byte
<1>2. 2 * m >= k <=> u >= 128
  BY <1>1, TopByteDecides
<1>3. (u - 256) * w = u * w - k /\ u * w \in Int
  BY <1>1
<1>4. u * w <= 255 * w
  <2>1. (255 - u) * w >= 0 /\ (255 - u) * w = 255 * w - u * w
    BY <1>1
  <2>2. QED BY <2>1, <1>1
<1>5. m < k
  BY <1>1, <1>3, <1>4
<1>6. QED BY <1>1, <1>2, <1>3, <1>5 DEF SignedByte

\* Each number fits its bytes; after the first byte the numbers are that byte.
Fitting ==
  base = 256 /\ kind \in {"add", "sub"} /\ phase = "next" =>
    /\ xs < weight /\ ys < weight /\ rs < weight
    /\ n = 0 => weight = 1
    /\ n = 1 => weight = 256 /\ xs = x /\ ys = y /\ rs = a

LEMMA StoredBinary ==
  ASSUME IInv, NEW u \in Byte1, NEW v \in Byte2, Compute(u, v), base = 256,
         kind \in {"add", "sub"}
  PROVE  LET r == Computed(u, v).r
         IN  /\ u \in Byte /\ v \in Byte /\ r \in Byte /\ f.c \in Flag
             /\ xs' = xs + u * weight /\ ys' = ys + v * weight /\ rs' = rs + r * weight
             /\ weight' = weight * 256 /\ n' = n + 1
             /\ x' = u /\ y' = v /\ a' = r /\ f' = Computed(u, v).f
             /\ kind' = kind /\ base' = base /\ carry' = carry
<1>1. TypeOK /\ u \in Byte /\ v \in Byte
  BY ByteFacts DEF IInv
<1>2. Computed(u, v).r \in Byte /\ f.c \in Flag
  BY <1>1, ComputedBalances
<1>3. Stored(Computed(u, v).r, u, v)
  BY DEF Compute
<1>4. QED BY <1>1, <1>2, <1>3 DEF Stored, Digits, Compute, job

LEMMA FittingKept ==
  ASSUME IInv, Fitting, NEW u \in Byte1, NEW v \in Byte2, Compute(u, v), base = 256,
         kind \in {"add", "sub"}
  PROVE  Fitting'
<1> DEFINE r == Computed(u, v).r
<1>1. /\ u \in Byte /\ v \in Byte /\ r \in Byte
      /\ xs' = xs + u * weight /\ ys' = ys + v * weight /\ rs' = rs + r * weight
      /\ weight' = weight * 256 /\ n' = n + 1 /\ x' = u /\ y' = v /\ a' = r
  BY StoredBinary
<1>2. /\ xs \in Nat /\ ys \in Nat /\ rs \in Nat /\ weight \in Nat \ {0} /\ n \in Nat
      /\ xs < weight /\ ys < weight /\ rs < weight /\ (n = 0 => weight = 1)
  BY DEF IInv, TypeOK, Fitting, Compute
<1> HIDE DEF r
<1>3. xs' < weight' /\ ys' < weight' /\ rs' < weight'
  BY <1>1, <1>2, TopByteSigns
<1>4. ASSUME n' = 1 PROVE weight' = 256 /\ xs' = x' /\ ys' = y' /\ rs' = a'
  <2>1. n = 0 /\ weight = 1 /\ xs = 0 /\ ys = 0 /\ rs = 0
    BY <1>1, <1>2, <1>4
  <2>2. QED BY <1>1, <2>1 DEF Byte
<1>5. n' # 0
  BY <1>1, <1>2
<1>6. QED BY <1>3, <1>4, <1>5 DEF Fitting

LEMMA SignedOrderKept ==
  ASSUME IInv, Fitting, NEW u \in Byte1, NEW v \in Byte2, Compute(u, v), base = 256,
         kind \in {"add", "sub"}
  PROVE  SignedOrder'
<1> DEFINE r == Computed(u, v).r
           e == IF kind = "add" THEN SignedByte(u) + SignedByte(v) + f.c
                                ELSE SignedByte(u) - SignedByte(v) - f.c
           exact == IF kind = "add" THEN Signed(xs)' + Signed(ys)' + carry
                                    ELSE Signed(xs)' - Signed(ys)' - carry
<1>1. /\ u \in Byte /\ v \in Byte /\ f.c \in Flag
      /\ xs' = xs + u * weight /\ ys' = ys + v * weight
      /\ weight' = weight * 256 /\ f' = Computed(u, v).f /\ kind' = kind /\ carry' = carry
  BY StoredBinary
<1>2. /\ xs \in Nat /\ ys \in Nat /\ rs \in Nat /\ weight \in Nat \ {0} /\ carry \in {0, 1}
      /\ xs < weight /\ ys < weight /\ rs < weight /\ TypeOK /\ Balance(f.c)
  BY DEF IInv, TypeOK, Fitting, Compute, Exact, Flag
<1>3. e \in Int /\ (f'.p = 1 <=> e < -128 \/ e >= 128) /\ (f'.s # f'.p <=> e < 0)
  <2>1. CASE kind = "add"
    BY <1>1, <1>2, <2>1, ComputedIs, SignedSum
  <2>2. CASE kind = "sub"
    BY <1>1, <1>2, <2>2, ComputedIs, SignedDifference
  <2>3. QED BY <2>1, <2>2
<1>4. /\ Signed(xs)' = xs + SignedByte(u) * weight
      /\ Signed(ys)' = ys + SignedByte(v) * weight
  <2>1. (IF 2 * xs' >= weight' THEN xs' - weight' ELSE xs') = xs + SignedByte(u) * weight
    BY <1>1, <1>2, TopByteSigns
  <2>2. (IF 2 * ys' >= weight' THEN ys' - weight' ELSE ys') = ys + SignedByte(v) * weight
    BY <1>1, <1>2, TopByteSigns
  <2>3. QED BY <2>1, <2>2 DEF Signed
<1>5. SignedByte(u) \in Int /\ SignedByte(v) \in Int /\ f.c \in {0, 1}
  BY <1>1 DEF SignedByte, Byte, Flag
<1>6. exact = rs + e * weight
  <2> DEFINE U == SignedByte(u)
             V == SignedByte(v)
             c == f.c
  <2>1. U \in Int /\ V \in Int /\ c \in {0, 1}
    BY <1>5
  <2>2. CASE kind = "add"
    <3>1. rs + c * weight = xs + ys + carry
      BY <1>2, <2>2 DEF Balance
    <3>2. exact = xs + U * weight + ys + V * weight + carry
      BY <1>2, <1>4, <2>1, <2>2
    <3>3. e = U + V + c
      BY <2>2
    <3> HIDE DEF U, V, c, e, exact
    <3>4. (U + V + c) * weight = U * weight + V * weight + c * weight
      BY <1>2, <2>1
    <3>5. U * weight \in Int /\ V * weight \in Int /\ c * weight \in Int
      BY <1>2, <2>1
    <3>6. QED BY <1>2, <3>1, <3>2, <3>3, <3>4, <3>5
  <2>3. CASE kind = "sub"
    <3>1. rs + ys + carry = xs + c * weight
      BY <1>2, <2>3 DEF Balance
    <3>2. exact = xs + U * weight - (ys + V * weight) - carry
      BY <1>2, <1>4, <2>1, <2>3
    <3>3. e = U - V - c
      BY <2>3
    <3> HIDE DEF U, V, c, e, exact
    <3>4. (U - V - c) * weight = U * weight - V * weight - c * weight
      BY <1>2, <2>1
    <3>5. U * weight \in Int /\ V * weight \in Int /\ c * weight \in Int
      BY <1>2, <2>1
    <3>6. e * weight = U * weight - V * weight - c * weight
      BY <3>3, <3>4
    <3> DEFINE p == U * weight
               q == V * weight
               k == c * weight
    <3>7. /\ p \in Int /\ q \in Int /\ k \in Int /\ e * weight = p - q - k
          /\ rs + ys + carry = xs + k /\ exact = xs + p - (ys + q) - carry
      BY <3>1, <3>2, <3>5, <3>6
    <3> HIDE DEF p, q, k
    <3>8. QED BY <1>2, <3>7
  <2>4. QED BY <2>2, <2>3
<1>7. /\ exact < 0 <=> e < 0
      /\ 2 * exact < -weight' <=> e < -128
      /\ 2 * exact >= weight' <=> e >= 128
  <2> HIDE DEF e, exact
  <2>1. QED BY <1>1, <1>2, <1>3, <1>6, TopByteDecides
<1>8. QED BY <1>1, <1>3, <1>7 DEF SignedOrder

-------------------------------------------------------------------------------
(* Two bytes at once. *)

\* The carries into the high byte of numbers of 16 bits are those into the byte.
LEMMA HighByteBits ==
  ASSUME NEW k \in Nat
  PROVE  /\ k \div 256 \in Nat
         /\ Bit(k, 4096) = Bit(k \div 256, 16) /\ Bit(k, 32768) = Bit(k \div 256, 128)
         /\ Bit(k, 65536) = Bit(k \div 256, 256)
<1>1. /\ k \div 4096 = (k \div 256) \div 16 /\ k \div 32768 = (k \div 256) \div 128
      /\ k \div 65536 = (k \div 256) \div 256
  OBVIOUS
<1>2. QED BY <1>1 DEF Bit

LEMMA HighByteCarries ==
  ASSUME NEW k \in Nat, NEW l \in Nat, NEW m \in Nat
  PROVE  /\ CarryInto(4096, k, l, m) = CarryInto(16, k \div 256, l \div 256, m \div 256)
         /\ CarryInto(32768, k, l, m) = CarryInto(128, k \div 256, l \div 256, m \div 256)
         /\ CarryInto(65536, k, l, m) = CarryInto(256, k \div 256, l \div 256, m \div 256)
BY HighByteBits DEF CarryInto

\* A difference of bytes has the same low bits in 16 bits and in 9.
LEMMA NarrowDifference ==
  ASSUME NEW z \in Byte, NEW u \in Byte, NEW c \in Flag,
         NEW raw, raw = (z - u - c) % 65536, NEW w, w = (z - u - c) % 512
  PROVE  /\ raw \in Nat /\ w \in Nat
         /\ Bit(w, 16) = Bit(raw, 16) /\ Bit(w, 128) = Bit(raw, 128) /\ Bit(w, 256) = Bit(raw, 256)
<1>1. /\ raw = (IF z < u + c THEN z - u - c + 65536 ELSE z - u - c)
      /\ w = (IF z < u + c THEN z - u - c + 512 ELSE z - u - c)
  BY DEF Byte, Flag
<1>2. raw \in Nat /\ w \in Nat
  BY <1>1 DEF Byte, Flag
<1>3. Bit(w, 16) = Bit(raw, 16)
  BY <1>1 DEF Byte, Flag, Bit
<1>4. Bit(w, 128) = Bit(raw, 128)
  BY <1>1 DEF Byte, Flag, Bit
<1>5. Bit(w, 256) = Bit(raw, 256)
  BY <1>1 DEF Byte, Flag, Bit
<1>6. QED BY <1>2, <1>3, <1>4, <1>5

Word == {i \in Nat : i < 65536}

LEMMA WordBytes ==
  ASSUME NEW X \in Word
  PROVE  /\ X \in Nat /\ X % 256 \in Byte /\ X \div 256 \in Byte
         /\ X = 256 * (X \div 256) + (X % 256)
BY DEF Word, Byte

\* ADC HL,rr is ADC of the low bytes and then of the high ones.
THEOREM WideSum ==
  ASSUME NEW X \in Word, NEW Y \in Word, NEW g \in Flags
  PROVE  LET low == Sum(X % 256, Y % 256, g.c)
             high == Sum(X \div 256, Y \div 256, low.f.c)
             R == low.r + 256 * high.r
         IN  /\ ADC16(X, Y, g).r = R
             /\ ADC16(X, Y, g).f = [high.f EXCEPT !.z = Yes(R = 0 /\ high.f.c = 0)]
<1> DEFINE lx == X % 256
           ly == Y % 256
           b == g.c
           low == Sum(lx, ly, b)
           u == X \div 256
           v == Y \div 256
           c == low.f.c
           high == Sum(u, v, c)
           i == low.r
           j == high.r
           d == high.f.c
           R == i + 256 * j
           z == X + Y + b
           w == u + v + c
           S == Bit(w, 128)
           H == CarryInto(16, w, u, v)
           P == (CarryInto(128, w, u, v) + CarryInto(256, w, u, v)) % 2
           C == CarryInto(256, w, u, v)
<1>1. /\ X \in Nat /\ Y \in Nat /\ X = 256 * u + lx /\ Y = 256 * v + ly
      /\ lx \in Byte /\ ly \in Byte /\ u \in Byte /\ v \in Byte
  BY WordBytes
<1>2. b \in Flag
  BY DEF Flags
<1>3. ADC16(X, Y, g).r = z % 65536
  BY DEF ADC16, res16
<1>4. ADC16(X, Y, g).f =
        [s |-> Bit(z, 32768), z |-> Yes(z = 0), h |-> CarryInto(4096, z, X, Y),
         p |-> (CarryInto(32768, z, X, Y) + CarryInto(65536, z, X, Y)) % 2,
         n |-> 0, c |-> CarryInto(65536, z, X, Y)]
  BY DEF ADC16, res16
<1>5. high.f = [s |-> S, z |-> Yes(w % 256 = 0), h |-> H, p |-> P, n |-> 0, c |-> C]
  BY DEF Sum, resADD_byte
<1>6. z = X + Y + b /\ w = u + v + c /\ R = i + 256 * j
  OBVIOUS
<1> HIDE DEF lx, ly, b, u, v, z, w, R
<1>7. low.r \in Byte /\ low.f \in Flags /\ i + 256 * c = lx + ly + b
  BY <1>1, <1>2, SumIsExact
<1> HIDE DEF low
<1>8. c \in Flag
  BY <1>7 DEF Flags
<1> HIDE DEF c
<1>9. high.r \in Byte /\ high.f \in Flags /\ j + 256 * d = u + v + c
  BY <1>1, <1>8, SumIsExact
<1> HIDE DEF high
<1>10. i \in Byte /\ j \in Byte /\ d \in Flag
  BY <1>7, <1>9 DEF Flags
<1> HIDE DEF i, j, d
<1>11. z = i + 256 * w /\ w \in Nat /\ z \in Nat
  BY <1>1, <1>2, <1>6, <1>7, <1>8, <1>10 DEF Byte, Flag
<1>12. z \div 256 = w
  BY <1>10, <1>11 DEF Byte
<1>13. z = R + 65536 * d /\ R < 65536 /\ R \in Nat
  BY <1>6, <1>9, <1>10, <1>11 DEF Byte, Flag
<1>14. z % 65536 = R /\ (z = 0 <=> R = 0 /\ d = 0)
  BY <1>10, <1>13 DEF Flag
<1>15. X \div 256 = u /\ Y \div 256 = v
  BY DEF u, v
<1>16. /\ Bit(z, 32768) = S /\ CarryInto(4096, z, X, Y) = H
       /\ CarryInto(65536, z, X, Y) = C
       /\ (CarryInto(32768, z, X, Y) + CarryInto(65536, z, X, Y)) % 2 = P
  BY <1>1, <1>11, <1>12, <1>15, HighByteBits, HighByteCarries
<1>17. Yes(z = 0) = Yes(R = 0 /\ d = 0)
  BY <1>14 DEF Yes
<1> DEFINE k == Yes(R = 0 /\ d = 0)
<1>18. ADC16(X, Y, g).f = [s |-> S, z |-> k, h |-> H, p |-> P, n |-> 0, c |-> C]
  BY <1>4, <1>16, <1>17
<1> HIDE DEF S, H, P, C, k
<1>19. ADC16(X, Y, g).f = [high.f EXCEPT !.z = k]
  BY <1>5, <1>18
<1>20. /\ ADC16(X, Y, g).r = R
       /\ ADC16(X, Y, g).f = [high.f EXCEPT !.z = Yes(R = 0 /\ d = 0)]
  BY <1>3, <1>14, <1>19 DEF k
<1>21. QED BY <1>20 DEF R, d, z, i, j, high, low, c, b, u, v, lx, ly

\* SBC HL,rr is SBC of the low bytes and then of the high ones.
THEOREM WideDifference ==
  ASSUME NEW X \in Word, NEW Y \in Word, NEW g \in Flags
  PROVE  LET low == Difference(X % 256, Y % 256, g.c)
             high == Difference(X \div 256, Y \div 256, low.f.c)
             R == low.r + 256 * high.r
         IN  /\ SBC16(X, Y, g).r = R
             /\ SBC16(X, Y, g).f = [high.f EXCEPT !.z = Yes(R = 0 /\ high.f.c = 0)]
<1> DEFINE lx == X % 256
           ly == Y % 256
           b == g.c
           low == Difference(lx, ly, b)
           u == X \div 256
           v == Y \div 256
           c == low.f.c
           high == Difference(u, v, c)
           i == low.r
           j == high.r
           d == high.f.c
           R == i + 256 * j
           z == (X - Y - b) % 131072
           e == u - v - c
           raw == (u - v - c) % 65536
           w == (u - v - c) % 512
           S == Bit(raw, 128)
           H == CarryInto(16, raw, u, v)
           P == (CarryInto(128, raw, u, v) + CarryInto(256, raw, u, v)) % 2
           C == CarryInto(256, raw, u, v)
<1>1. /\ X \in Nat /\ Y \in Nat /\ X = 256 * u + lx /\ Y = 256 * v + ly
      /\ lx \in Byte /\ ly \in Byte /\ u \in Byte /\ v \in Byte
  BY WordBytes
<1>2. b \in Flag
  BY DEF Flags
<1>3. SBC16(X, Y, g).r = z % 65536
  BY DEF SBC16, res16
<1>4. SBC16(X, Y, g).f =
        [s |-> Bit(z, 32768), z |-> Yes(z = 0), h |-> CarryInto(4096, z, X, Y),
         p |-> (CarryInto(32768, z, X, Y) + CarryInto(65536, z, X, Y)) % 2,
         n |-> 1, c |-> CarryInto(65536, z, X, Y)]
  BY DEF SBC16, res16
<1>5. high.f = [s |-> S, z |-> Yes(raw % 256 = 0), h |-> H, p |-> P, n |-> 1, c |-> C]
  BY DEF Difference, resSUB_byte, resADD_byte
<1>6. /\ z = (X - Y - b) % 131072 /\ e = u - v - c /\ R = i + 256 * j
      /\ raw = (u - v - c) % 65536 /\ w = (u - v - c) % 512 /\ w = e % 512
  OBVIOUS
<1> HIDE DEF lx, ly, b, u, v, z, w, raw, e, R
<1>7. low.r \in Byte /\ low.f \in Flags /\ i + ly + b = lx + 256 * c
  BY <1>1, <1>2, DifferenceIsExact
<1> HIDE DEF low
<1>8. c \in Flag
  BY <1>7 DEF Flags
<1> HIDE DEF c
<1>9. high.r \in Byte /\ high.f \in Flags /\ j + v + c = u + 256 * d
  BY <1>1, <1>8, DifferenceIsExact
<1> HIDE DEF high
<1>10. i \in Byte /\ j \in Byte /\ d \in Flag
  BY <1>7, <1>9 DEF Flags
<1> HIDE DEF i, j, d
<1>11. e \in Int /\ e >= -256 /\ e < 256 /\ e = j - 256 * d
  BY <1>1, <1>6, <1>8, <1>9, <1>10 DEF Byte, Flag
<1>12. X - Y - b = i + 256 * e
  BY <1>1, <1>2, <1>6, <1>7, <1>8, <1>10 DEF Byte, Flag
<1>13. w = (IF e < 0 THEN e + 512 ELSE e) /\ w \in Nat
  BY <1>6, <1>11
<1>14. z = i + 256 * w /\ z \in Nat
  <2>1. z = (i + 256 * e) % 131072
    BY <1>6, <1>12
  <2>2. QED BY <1>10, <1>11, <1>13, <2>1 DEF Byte
<1>15. z \div 256 = w
  <2>1. i \in Nat /\ i < 256 /\ w \in Nat /\ z = i + 256 * w
    BY <1>10, <1>13, <1>14 DEF Byte
  <2>2. QED BY <2>1
<1>16. z = (IF d = 1 THEN R + 65536 ELSE R) /\ R < 65536 /\ R \in Nat
  BY <1>6, <1>10, <1>11, <1>13, <1>14 DEF Byte, Flag
<1>17. z % 65536 = R /\ (z = 0 <=> R = 0 /\ d = 0)
  BY <1>10, <1>16 DEF Flag
<1>18. X \div 256 = u /\ Y \div 256 = v
  BY DEF u, v
<1>19. /\ raw \in Nat
       /\ Bit(w, 16) = Bit(raw, 16) /\ Bit(w, 128) = Bit(raw, 128) /\ Bit(w, 256) = Bit(raw, 256)
  BY <1>1, <1>6, <1>8, NarrowDifference
<1>20. /\ Bit(z, 32768) = Bit(w, 128) /\ CarryInto(4096, z, X, Y) = CarryInto(16, w, u, v)
       /\ CarryInto(65536, z, X, Y) = CarryInto(256, w, u, v)
       /\ CarryInto(32768, z, X, Y) = CarryInto(128, w, u, v)
  BY <1>1, <1>14, <1>15, <1>18, HighByteBits, HighByteCarries
<1>21. /\ CarryInto(16, w, u, v) = CarryInto(16, raw, u, v)
       /\ CarryInto(128, w, u, v) = CarryInto(128, raw, u, v)
       /\ CarryInto(256, w, u, v) = CarryInto(256, raw, u, v)
  BY <1>19 DEF CarryInto
<1>22. /\ Bit(z, 32768) = S /\ CarryInto(4096, z, X, Y) = H
       /\ CarryInto(65536, z, X, Y) = C
       /\ (CarryInto(32768, z, X, Y) + CarryInto(65536, z, X, Y)) % 2 = P
  BY <1>19, <1>20, <1>21
<1>23. Yes(z = 0) = Yes(R = 0 /\ d = 0)
  BY <1>17 DEF Yes
<1> DEFINE k == Yes(R = 0 /\ d = 0)
<1>24. SBC16(X, Y, g).f = [s |-> S, z |-> k, h |-> H, p |-> P, n |-> 1, c |-> C]
  BY <1>4, <1>22, <1>23
<1> HIDE DEF S, H, P, C, k
<1>25. SBC16(X, Y, g).f = [high.f EXCEPT !.z = k]
  BY <1>5, <1>24
<1>26. /\ SBC16(X, Y, g).r = R
       /\ SBC16(X, Y, g).f = [high.f EXCEPT !.z = Yes(R = 0 /\ d = 0)]
  BY <1>3, <1>17, <1>25 DEF k
<1>27. QED BY <1>26, Zenon DEF R, d, i, j, high, low, c, b, u, v, lx, ly

LEMMA WordOfBytes ==
  ASSUME NEW b \in Byte, NEW h \in Byte, NEW X, X = b + h * 256
  PROVE  X \in Word /\ X % 256 = b /\ X \div 256 = h
BY DEF Word, Byte

LEMMA WideAgreesKept ==
  ASSUME IInv, Fitting, NEW u \in Byte1, NEW v \in Byte2, Compute(u, v), base = 256,
         kind \in {"add", "sub"}
  PROVE  WideAgrees'
<1> SUFFICES ASSUME n' = 2 PROVE WideAgrees'
  BY DEF WideAgrees
<1> DEFINE d == Computed(u, v)
           g == [f' EXCEPT !.c = carry]
<1>1. /\ u \in Byte /\ v \in Byte /\ d.r \in Byte /\ f.c \in Flag
      /\ f' = d.f /\ kind' = kind /\ carry' = carry
      /\ xs' = xs + u * weight /\ ys' = ys + v * weight /\ rs' = rs + d.r * weight
      /\ n' = n + 1
  BY StoredBinary
<1>2. n = 1
  BY <1>1 DEF IInv, TypeOK
<1>3. /\ weight = 256 /\ xs = x /\ ys = y /\ rs = a /\ x \in Byte /\ y \in Byte /\ a \in Byte
      /\ carry \in Flag /\ Balance(f.c) /\ TypeOK
  BY <1>2 DEF IInv, TypeOK, Fitting, Compute, Exact
<1>4. f' \in Flags
  BY <1>1, <1>3, ComputedBalances
<1>5. g \in Flags /\ g.c = carry
  BY <1>3, <1>4 DEF Flags
<1>6. /\ xs' = x + u * 256 /\ ys' = y + v * 256 /\ rs' = a + d.r * 256
  BY <1>1, <1>3
<1>7. /\ xs' \in Word /\ xs' % 256 = x /\ xs' \div 256 = u
      /\ ys' \in Word /\ ys' % 256 = y /\ ys' \div 256 = v
  BY <1>1, <1>3, <1>6, WordOfBytes
<1>8. CASE kind = "add"
  <2> DEFINE low == Sum(x, y, carry)
             high == Sum(u, v, low.f.c)
             R == low.r + 256 * high.r
  <2>1. d = Sum(u, v, f.c) /\ a + f.c * 256 = x + y + carry
    BY <1>1, <1>3, <1>8, ComputedIs DEF Balance
  <2>2. low.r \in Byte /\ low.f \in Flags /\ low.r + 256 * low.f.c = x + y + carry
    BY <1>3, SumIsExact
  <2>3. low.r = a /\ low.f.c = f.c
    <3> DEFINE i == low.r
               k == low.f.c
               c == f.c
    <3>1. i \in Byte /\ k \in Flag /\ i + 256 * k = a + c * 256 /\ c \in Flag
      BY <1>1, <2>1, <2>2 DEF Flags
    <3> HIDE DEF i, k, c
    <3>2. i = a /\ k = c
      BY <1>3, <3>1 DEF Byte, Flag
    <3>3. QED BY <3>2 DEF i, k, c
  <2>4. high = d /\ R = rs'
    <3>1. high = d
      BY <2>1, <2>3
    <3>2. QED BY <1>1, <1>3, <1>6, <2>3, <3>1 DEF Byte
  <2>5. /\ ADC16(xs', ys', g).r = R
        /\ ADC16(xs', ys', g).f = [high.f EXCEPT !.z = Yes(R = 0 /\ high.f.c = 0)]
    <3> HIDE DEF g
    <3>1. LET l == Sum(xs' % 256, ys' % 256, g.c)
              h == Sum(xs' \div 256, ys' \div 256, l.f.c)
              q == l.r + 256 * h.r
          IN  /\ ADC16(xs', ys', g).r = q
              /\ ADC16(xs', ys', g).f = [h.f EXCEPT !.z = Yes(q = 0 /\ h.f.c = 0)]
      BY <1>5, <1>7, WideSum
    <3>2. QED BY <1>5, <1>7, <3>1
  <2> HIDE DEF high, R, low, d
  <2>6. /\ ADC16(xs', ys', g).r = rs'
        /\ ADC16(xs', ys', g).f = [f' EXCEPT !.z = Yes(rs' = 0 /\ f'.c = 0)]
    BY <1>1, <2>4, <2>5
  <2>7. ASSUME carry = 0
        PROVE  ADD16(xs', ys', g) = [r |-> rs', f |-> [g EXCEPT !.h = f'.h, !.n = 0, !.c = f'.c]]
    <3> DEFINE z == xs' + ys'
               h == CarryInto(4096, z, xs', ys')
               c == CarryInto(65536, z, xs', ys')
    <3>1. ADD16(xs', ys', g) = [r |-> z % 65536, f |-> [g EXCEPT !.h = h, !.n = 0, !.c = c]]
      BY DEF ADD16
    <3>2. z + g.c = z
      BY <1>5, <1>7, <2>7 DEF Word
    <3>3. /\ ADC16(xs', ys', g).r = z % 65536
          /\ ADC16(xs', ys', g).f.h = h /\ ADC16(xs', ys', g).f.c = c
      BY <3>2 DEF ADC16, res16
    <3>4. h = f'.h /\ c = f'.c
      BY <1>4, <2>6, <3>3 DEF Flags
    <3>5. z % 65536 = rs'
      BY <2>6, <3>3
    <3> DEFINE i == f'.h
               k == f'.c
               m == z % 65536
    <3>6. h = i /\ c = k /\ m = rs'
      BY <3>4, <3>5
    <3> HIDE DEF h, c, i, k, m
    <3>7. ADD16(xs', ys', g) = [r |-> rs', f |-> [g EXCEPT !.h = i, !.n = 0, !.c = k]]
      BY <3>1, <3>6 DEF m
    <3>8. QED BY <3>7 DEF i, k
  <2>8. QED BY <1>1, <1>8, <2>6, <2>7 DEF WideAgrees
<1>9. CASE kind = "sub"
  <2> DEFINE low == Difference(x, y, carry)
             high == Difference(u, v, low.f.c)
             R == low.r + 256 * high.r
  <2>1. d = Difference(u, v, f.c) /\ a + y + carry = x + f.c * 256
    BY <1>1, <1>3, <1>9, ComputedIs DEF Balance
  <2>2. low.r \in Byte /\ low.f \in Flags /\ low.r + y + carry = x + 256 * low.f.c
    BY <1>3, DifferenceIsExact
  <2>3. low.r = a /\ low.f.c = f.c
    <3> DEFINE i == low.r
               k == low.f.c
               c == f.c
    <3>1. /\ i \in Byte /\ k \in Flag /\ i + y + carry = x + 256 * k /\ c \in Flag
          /\ a + y + carry = x + c * 256
      BY <1>1, <2>1, <2>2 DEF Flags
    <3> HIDE DEF i, k, c
    <3>2. i = a /\ k = c
      BY <1>3, <3>1 DEF Byte, Flag
    <3>3. QED BY <3>2 DEF i, k, c
  <2>4. high = d /\ R = rs'
    <3>1. high = d
      BY <2>1, <2>3
    <3>2. QED BY <1>1, <1>3, <1>6, <2>3, <3>1 DEF Byte
  <2>5. /\ SBC16(xs', ys', g).r = R
        /\ SBC16(xs', ys', g).f = [high.f EXCEPT !.z = Yes(R = 0 /\ high.f.c = 0)]
    <3> HIDE DEF g
    <3>1. LET l == Difference(xs' % 256, ys' % 256, g.c)
              h == Difference(xs' \div 256, ys' \div 256, l.f.c)
              q == l.r + 256 * h.r
          IN  /\ SBC16(xs', ys', g).r = q
              /\ SBC16(xs', ys', g).f = [h.f EXCEPT !.z = Yes(q = 0 /\ h.f.c = 0)]
      BY <1>5, <1>7, WideDifference
    <3>2. QED BY <1>5, <1>7, <3>1
  <2> HIDE DEF high, R, low, d
  <2>6. /\ SBC16(xs', ys', g).r = rs'
        /\ SBC16(xs', ys', g).f = [f' EXCEPT !.z = Yes(rs' = 0 /\ f'.c = 0)]
    BY <1>1, <2>4, <2>5
  <2>7. QED BY <1>1, <1>9, <2>6 DEF WideAgrees
<1>10. QED BY <1>8, <1>9

-------------------------------------------------------------------------------
(* What the code computes in two ways. *)

LEMMA IncIsAdd ==
  ASSUME NEW u \in Byte, NEW g \in Flags
  PROVE  INC(u, g) = [ADD(u, 1) EXCEPT !.f.c = g.c]
<1> DEFINE raw == u + 1
           r == raw % 256
           S == Bit(raw, 128)
           H == CarryInto(16, raw, u, 1)
           P == (CarryInto(128, raw, u, 1) + CarryInto(256, raw, u, 1)) % 2
<1>1. ADD(u, 1) = [r |-> r, f |-> [s |-> S, z |-> Yes(r = 0), h |-> H, p |-> P, n |-> 0,
                                   c |-> CarryInto(256, raw, u, 1)]]
  BY DEF ADD, Sum, resADD_byte, Byte
<1>2. INC(u, g) = [r |-> r, f |-> [s |-> Bit(r, 128), z |-> Yes(r = 0), h |-> Yes(r % 16 = 0),
                                   p |-> Yes(r = 128), n |-> 0, c |-> g.c]]
  BY DEF INC
<1>3. 1 \in Byte /\ 0 \in Flag /\ u \in Nat /\ u < 256 /\ u + 1 + 0 = raw
  BY DEF Byte, Flag
<1>4. Bit(r, 128) = S
  BY <1>3 DEF Bit
<1>5. H = Yes(r % 16 = 0)
  <2>1. H = (IF u % 16 = 15 THEN 1 ELSE 0)
    BY <1>3 DEF CarryInto, Bit
  <2>2. r % 16 = 0 <=> u % 16 = 15
    BY <1>3
  <2>3. QED BY <2>1, <2>2 DEF Yes
<1>6. P = Yes(r = 128)
  <2>1. PICK h \in Flag, l \in Nat : l < 128 /\ u = 128 * h + l
    BY ByteHalves
  <2> DEFINE t == IF l + 1 + 0 >= 128 THEN 1 ELSE 0
             c == IF h + 0 + t >= 2 THEN 1 ELSE 0
  <2>2. 0 \in Flag /\ 1 \in Nat /\ 1 < 128 /\ 1 = 128 * 0 + 1 /\ raw = u + 1 + 0
    BY <1>3 DEF Flag
  <2>3. CarryInto(128, raw, u, 1) = t /\ CarryInto(256, raw, u, 1) = c
    BY <2>1, <2>2, SignBitsOfSum
  <2>4. (t + c) % 2 = Yes((u + 1) % 256 = 128)
    BY <2>1 DEF Yes, Flag
  <2>5. QED BY <2>3, <2>4
<1> HIDE DEF r, S, H, P
<1>7. QED BY <1>1, <1>2, <1>4, <1>5, <1>6

LEMMA DecIsSub ==
  ASSUME NEW u \in Byte, NEW g \in Flags
  PROVE  DEC(u, g) = [SUB(u, 1) EXCEPT !.f.c = g.c]
<1> DEFINE raw == (u - 1 - 0) % 65536
           r == raw % 256
           q == (u + 255) % 256
           S == Bit(raw, 128)
           H == CarryInto(16, raw, u, 1)
           P == (CarryInto(128, raw, u, 1) + CarryInto(256, raw, u, 1)) % 2
<1>1. SUB(u, 1) = [r |-> r, f |-> [s |-> S, z |-> Yes(r = 0), h |-> H, p |-> P, n |-> 1,
                                   c |-> CarryInto(256, raw, u, 1)]]
  BY DEF SUB, Difference, resSUB_byte, resADD_byte
<1>2. DEC(u, g) = [r |-> q, f |-> [s |-> Bit(q, 128), z |-> Yes(q = 0), h |-> Yes(q % 16 = 15),
                                   p |-> Yes(q = 127), n |-> 1, c |-> g.c]]
  BY DEF DEC
<1>3. 1 \in Byte /\ 0 \in Flag /\ u \in Nat /\ u < 256
  BY DEF Byte, Flag
<1>4. raw = IF u = 0 THEN 65535 ELSE u - 1
  BY <1>3
<1>5. q = IF u = 0 THEN 255 ELSE u - 1
  BY <1>3
<1>6. r = q
  BY <1>3, <1>4, <1>5
<1>7. Bit(q, 128) = S
  BY <1>3, <1>4, <1>5 DEF Bit
<1>8. H = Yes(q % 16 = 15)
  <2>1. Bit(raw, 16) = (IF u = 0 THEN 1 ELSE ((u - 1) \div 16) % 2)
    BY <1>3, <1>4 DEF Bit
  <2>2. H = (IF u % 16 = 0 THEN 1 ELSE 0)
    BY <1>3, <2>1 DEF CarryInto, Bit
  <2>3. q % 16 = 15 <=> u % 16 = 0
    BY <1>3, <1>5
  <2>4. QED BY <2>2, <2>3 DEF Yes
<1>9. P = Yes(q = 127)
  <2>1. PICK h \in Flag, l \in Nat : l < 128 /\ u = 128 * h + l
    BY ByteHalves
  <2> DEFINE t == IF l < 1 + 0 THEN 1 ELSE 0
             c == IF h < 0 + t THEN 1 ELSE 0
  <2>2. 0 \in Flag /\ 1 \in Nat /\ 1 < 128 /\ 1 = 128 * 0 + 1 /\ raw = (u - 1 - 0) % 65536
    BY <1>3 DEF Flag
  <2> HIDE DEF raw
  <2>3. CarryInto(128, raw, u, 1) = t /\ CarryInto(256, raw, u, 1) = c
    BY <2>1, <2>2, SignBitsOfDifference
  <2>4. (t + c) % 2 = Yes(q = 127)
    BY <1>5, <2>1 DEF Yes, Flag
  <2>5. QED BY <2>3, <2>4
<1> HIDE DEF r, q, S, H, P
<1>10. QED BY <1>1, <1>2, <1>6, <1>7, <1>8, <1>9

LEMMA NegIsCplAndInc ==
  ASSUME NEW u \in Byte, NEW g \in Flags PROVE NEG(CPL(u, g).r).r = INC(u, g).r
<1>1. NEG(CPL(u, g).r).r = ((0 - (255 - u) - 0) % 65536) % 256
  BY DEF NEG, CPL, Difference
<1>2. INC(u, g).r = (u + 1) % 256
  BY DEF INC
<1>3. ((0 - (255 - u) - 0) % 65536) % 256 = (u + 1) % 256
  BY DEF Byte
<1>4. QED BY <1>1, <1>2, <1>3

\* A byte is the sum of its bits.
LEMMA ByteIsItsBits ==
  ASSUME NEW u \in Byte
  PROVE  /\ u = Bit(u, 1) + 2 * Bit(u, 2) + 4 * Bit(u, 4) + 8 * Bit(u, 8) + 16 * Bit(u, 16)
                  + 32 * Bit(u, 32) + 64 * Bit(u, 64) + 128 * Bit(u, 128)
         /\ Bit(u, 1) \in {0, 1} /\ Bit(u, 2) \in {0, 1} /\ Bit(u, 4) \in {0, 1}
         /\ Bit(u, 8) \in {0, 1} /\ Bit(u, 16) \in {0, 1} /\ Bit(u, 32) \in {0, 1}
         /\ Bit(u, 64) \in {0, 1} /\ Bit(u, 128) \in {0, 1}
<1>1. u = Bit(u, 1) + 2 * Bit(u, 2) + 4 * Bit(u, 4) + 8 * Bit(u, 8) + 16 * Bit(u, 16)
            + 32 * Bit(u, 32) + 64 * Bit(u, 64) + 128 * Bit(u, 128)
  BY DEF Bit, Byte
<1>2. QED BY <1>1, BitIsAFlag DEF Byte, Flag

\* The bits of the complement.
LEMMA ComplementBits ==
  ASSUME NEW u \in Byte
  PROVE  /\ 255 - u \in Byte
         /\ Bit(255 - u, 1) = 1 - Bit(u, 1) /\ Bit(255 - u, 2) = 1 - Bit(u, 2)
         /\ Bit(255 - u, 4) = 1 - Bit(u, 4) /\ Bit(255 - u, 8) = 1 - Bit(u, 8)
         /\ Bit(255 - u, 16) = 1 - Bit(u, 16) /\ Bit(255 - u, 32) = 1 - Bit(u, 32)
         /\ Bit(255 - u, 64) = 1 - Bit(u, 64) /\ Bit(255 - u, 128) = 1 - Bit(u, 128)
<1>1. u \in Int /\ 0 <= u /\ u < 256
  BY DEF Byte
<1>2. Bit(255 - u, 1) = 1 - Bit(u, 1) /\ Bit(255 - u, 2) = 1 - Bit(u, 2)
  BY <1>1 DEF Bit
<1>3. Bit(255 - u, 4) = 1 - Bit(u, 4) /\ Bit(255 - u, 8) = 1 - Bit(u, 8)
  BY <1>1 DEF Bit
<1>4. Bit(255 - u, 16) = 1 - Bit(u, 16) /\ Bit(255 - u, 32) = 1 - Bit(u, 32)
  BY <1>1 DEF Bit
<1>5. Bit(255 - u, 64) = 1 - Bit(u, 64) /\ Bit(255 - u, 128) = 1 - Bit(u, 128)
  BY <1>1 DEF Bit
<1>6. QED BY <1>1, <1>2, <1>3, <1>4, <1>5 DEF Byte

LEMMA BothOfABit ==
  ASSUME NEW w \in Nat, NEW i \in {0, 1}, NEW j \in {0, 1}, NEW k, k = 1 - i, NEW l, l = 1 - j
  PROVE  LET B(p, q) == IF p = 1 /\ q = 1 THEN w ELSE 0
         IN  /\ B(i, j) \in Nat /\ B(i, j) <= w * i /\ B(i, j) <= w * j
             /\ B(i, i) = w * i
             /\ w * i + w * j - B(i, j) = w - B(k, l)
<1>1. CASE i = 0
  BY <1>1
<1>2. CASE i = 1
  BY <1>2
<1>3. QED BY <1>1, <1>2

\* The bits both bytes have are at most either, and all of a byte and itself; those
\* that one of them has are those that not both complements have.
LEMMA BothFacts ==
  ASSUME NEW u \in Byte, NEW v \in Byte
  PROVE  /\ Both(u, v) \in Nat /\ Both(u, v) <= u /\ Both(u, v) <= v
         /\ Both(u, u) = u
         /\ u + v - Both(u, v) = 255 - Both(255 - u, 255 - v)
<1> DEFINE B(w) == IF Bit(u, w) = 1 /\ Bit(v, w) = 1 THEN w ELSE 0
           E(w) == IF Bit(u, w) = 1 /\ Bit(u, w) = 1 THEN w ELSE 0
           N(w) == IF Bit(255 - u, w) = 1 /\ Bit(255 - v, w) = 1 THEN w ELSE 0
           W == {1, 2, 4, 8, 16, 32, 64, 128}
<1>1. /\ Both(u, v) = B(1) + B(2) + B(4) + B(8) + B(16) + B(32) + B(64) + B(128)
      /\ Both(u, u) = E(1) + E(2) + E(4) + E(8) + E(16) + E(32) + E(64) + E(128)
      /\ Both(255 - u, 255 - v) = N(1) + N(2) + N(4) + N(8) + N(16) + N(32) + N(64) + N(128)
  BY DEF Both
<1>2. ASSUME NEW w \in W
      PROVE  /\ Bit(u, w) \in {0, 1} /\ Bit(v, w) \in {0, 1}
             /\ Bit(255 - u, w) = 1 - Bit(u, w) /\ Bit(255 - v, w) = 1 - Bit(v, w)
  BY ByteIsItsBits, ComplementBits
<1>3. ASSUME NEW w \in W
      PROVE  /\ B(w) \in Nat /\ B(w) <= w * Bit(u, w) /\ B(w) <= w * Bit(v, w)
             /\ E(w) = w * Bit(u, w)
             /\ w * Bit(u, w) + w * Bit(v, w) - B(w) = w - N(w)
             /\ N(w) \in Nat
  BY <1>2, BothOfABit
<1> HIDE DEF B, E, N
<1>4. /\ B(1) \in Nat /\ B(2) \in Nat /\ B(4) \in Nat /\ B(8) \in Nat
      /\ B(16) \in Nat /\ B(32) \in Nat /\ B(64) \in Nat /\ B(128) \in Nat
      /\ N(1) \in Nat /\ N(2) \in Nat /\ N(4) \in Nat /\ N(8) \in Nat
      /\ N(16) \in Nat /\ N(32) \in Nat /\ N(64) \in Nat /\ N(128) \in Nat
  BY <1>3
<1>5. /\ B(1) <= Bit(u, 1) /\ B(2) <= 2 * Bit(u, 2) /\ B(4) <= 4 * Bit(u, 4)
      /\ B(8) <= 8 * Bit(u, 8) /\ B(16) <= 16 * Bit(u, 16) /\ B(32) <= 32 * Bit(u, 32)
      /\ B(64) <= 64 * Bit(u, 64) /\ B(128) <= 128 * Bit(u, 128)
  BY <1>2, <1>3
<1>6. /\ B(1) <= Bit(v, 1) /\ B(2) <= 2 * Bit(v, 2) /\ B(4) <= 4 * Bit(v, 4)
      /\ B(8) <= 8 * Bit(v, 8) /\ B(16) <= 16 * Bit(v, 16) /\ B(32) <= 32 * Bit(v, 32)
      /\ B(64) <= 64 * Bit(v, 64) /\ B(128) <= 128 * Bit(v, 128)
  BY <1>2, <1>3
<1>7. /\ E(1) = Bit(u, 1) /\ E(2) = 2 * Bit(u, 2) /\ E(4) = 4 * Bit(u, 4)
      /\ E(8) = 8 * Bit(u, 8) /\ E(16) = 16 * Bit(u, 16) /\ E(32) = 32 * Bit(u, 32)
      /\ E(64) = 64 * Bit(u, 64) /\ E(128) = 128 * Bit(u, 128)
  BY <1>2, <1>3
<1>8. /\ Bit(u, 1) + Bit(v, 1) - B(1) = 1 - N(1)
      /\ 2 * Bit(u, 2) + 2 * Bit(v, 2) - B(2) = 2 - N(2)
      /\ 4 * Bit(u, 4) + 4 * Bit(v, 4) - B(4) = 4 - N(4)
      /\ 8 * Bit(u, 8) + 8 * Bit(v, 8) - B(8) = 8 - N(8)
      /\ 16 * Bit(u, 16) + 16 * Bit(v, 16) - B(16) = 16 - N(16)
      /\ 32 * Bit(u, 32) + 32 * Bit(v, 32) - B(32) = 32 - N(32)
      /\ 64 * Bit(u, 64) + 64 * Bit(v, 64) - B(64) = 64 - N(64)
      /\ 128 * Bit(u, 128) + 128 * Bit(v, 128) - B(128) = 128 - N(128)
  BY <1>2, <1>3
<1>9. Both(u, v) \in Nat /\ Both(u, v) <= u
  BY <1>1, <1>4, <1>5, ByteIsItsBits
<1>10. Both(u, v) <= v
  BY <1>1, <1>4, <1>6, ByteIsItsBits
<1>11. Both(u, u) = u
  BY <1>1, <1>7, ByteIsItsBits
<1>12. u + v - Both(u, v) = 255 - Both(255 - u, 255 - v)
  <2>1. u = Bit(u, 1) + 2 * Bit(u, 2) + 4 * Bit(u, 4) + 8 * Bit(u, 8) + 16 * Bit(u, 16)
              + 32 * Bit(u, 32) + 64 * Bit(u, 64) + 128 * Bit(u, 128)
    BY ByteIsItsBits
  <2>2. v = Bit(v, 1) + 2 * Bit(v, 2) + 4 * Bit(v, 4) + 8 * Bit(v, 8) + 16 * Bit(v, 16)
              + 32 * Bit(v, 32) + 64 * Bit(v, 64) + 128 * Bit(v, 128)
    BY ByteIsItsBits
  <2>3. /\ Bit(u, 1) \in Int /\ Bit(u, 2) \in Int /\ Bit(u, 4) \in Int /\ Bit(u, 8) \in Int
        /\ Bit(u, 16) \in Int /\ Bit(u, 32) \in Int /\ Bit(u, 64) \in Int
        /\ Bit(u, 128) \in Int
        /\ Bit(v, 1) \in Int /\ Bit(v, 2) \in Int /\ Bit(v, 4) \in Int /\ Bit(v, 8) \in Int
        /\ Bit(v, 16) \in Int /\ Bit(v, 32) \in Int /\ Bit(v, 64) \in Int
        /\ Bit(v, 128) \in Int
    BY <1>2
  <2> DEFINE i == Bit(u, 1) + 2 * Bit(u, 2) + 4 * Bit(u, 4) + 8 * Bit(u, 8)
             j == 16 * Bit(u, 16) + 32 * Bit(u, 32) + 64 * Bit(u, 64) + 128 * Bit(u, 128)
             k == Bit(v, 1) + 2 * Bit(v, 2) + 4 * Bit(v, 4) + 8 * Bit(v, 8)
             l == 16 * Bit(v, 16) + 32 * Bit(v, 32) + 64 * Bit(v, 64) + 128 * Bit(v, 128)
             p == B(1) + B(2) + B(4) + B(8)
             q == B(16) + B(32) + B(64) + B(128)
             r == N(1) + N(2) + N(4) + N(8)
             s == N(16) + N(32) + N(64) + N(128)
  <2>4. u = i + j /\ i \in Int /\ j \in Int
    BY <2>1, <2>3
  <2>5. v = k + l /\ k \in Int /\ l \in Int
    BY <2>2, <2>3
  <2>6. Both(u, v) = p + q /\ p \in Int /\ q \in Int
    BY <1>1, <1>4
  <2>7. Both(255 - u, 255 - v) = r + s /\ r \in Int /\ s \in Int
    BY <1>1, <1>4
  <2>8. i + k - p = 15 - r
    BY <1>4, <1>8, <2>3
  <2>9. j + l - q = 240 - s
    BY <1>4, <1>8, <2>3
  <2> HIDE DEF i, j, k, l, p, q, r, s
  <2>10. QED BY <2>4, <2>5, <2>6, <2>7, <2>8, <2>9
<1>13. QED BY <1>9, <1>10, <1>11, <1>12

LEMMA CompareIsXor ==
  ASSUME NEW u \in Byte, NEW v \in Byte
  PROVE  (CP(u, v).f.z = 1) = (XOR(u, v).r = 0)
<1>1. CP(u, v).f.z = Yes(((u - v - 0) % 65536) % 256 = 0)
  BY DEF CP, SUB, Difference, resSUB_byte, resADD_byte
<1>2. ((u - v - 0) % 65536) % 256 = 0 <=> u = v
  BY DEF Byte
<1>3. XOR(u, v).r = u + v - 2 * Both(u, v)
  BY DEF XOR, resLogic
<1>4. u + v - 2 * Both(u, v) = 0 <=> u = v
  <2>1. /\ Both(u, v) \in Nat /\ Both(u, v) <= u /\ Both(u, v) <= v /\ Both(u, u) = u
        /\ u \in Nat /\ v \in Nat
    BY BothFacts DEF Byte
  <2>2. QED BY <2>1
<1>5. (CP(u, v).f.z = 1) <=> (XOR(u, v).r = 0)
  BY <1>1, <1>2, <1>3, <1>4 DEF Yes
<1>6. QED BY <1>5

LEMMA OrByComplements ==
  ASSUME NEW u \in Byte, NEW v \in Byte, NEW g \in Flags
  PROVE  OR(u, v).r = CPL(AND(255 - u, 255 - v).r, g).r
<1>1. OR(u, v).r = u + v - Both(u, v)
  BY DEF OR, resLogic
<1>2. CPL(AND(255 - u, 255 - v).r, g).r = 255 - Both(255 - u, 255 - v)
  BY DEF CPL, AND, resLogic
<1>3. QED BY <1>1, <1>2, BothFacts

\* Shifting to the left is doubling, with the carry that comes in.
LEMMA ShiftIsSum ==
  ASSUME NEW u \in Byte, NEW c \in Flag
  PROVE  LET q == resROT_byte(2 * u + c, Bit(u, 128))
             r == Sum(u, u, c)
         IN  q.r = r.r /\ q.f.s = r.f.s /\ q.f.z = r.f.z /\ q.f.c = r.f.c
<1> DEFINE raw == u + u + c
<1>1. 2 * u + c = raw
  BY DEF Byte, Flag
<1>2. CarryInto(256, raw, u, u) = Bit(u, 128)
  <2>1. CarryInto(256, raw, u, u) = raw \div 256
    BY CarriesOfSum
  <2>2. QED BY <2>1 DEF Bit, Byte, Flag
<1>3. /\ Sum(u, u, c).r = raw % 256 /\ Sum(u, u, c).f.s = Bit(raw, 128)
      /\ Sum(u, u, c).f.z = Yes(raw % 256 = 0) /\ Sum(u, u, c).f.c = CarryInto(256, raw, u, u)
  BY DEF Sum, resADD_byte
<1> DEFINE q == resROT_byte(raw, Bit(u, 128))
<1>4. /\ q.r = raw % 256 /\ q.f.s = Bit(raw, 128) /\ q.f.z = Yes(raw % 256 = 0)
      /\ q.f.c = Bit(u, 128)
  BY DEF resROT_byte
<1> HIDE DEF raw, q
<1>5. resROT_byte(2 * u + c, Bit(u, 128)) = q
  BY <1>1 DEF q, raw
<1>6. QED BY <1>2, <1>3, <1>4, <1>5 DEF raw

\* A rotation is undone by the one to the other side.
LEMMA RotationsUndone ==
  ASSUME NEW u \in Byte, NEW g \in Flags
  PROVE  /\ RRC(RLC(u).r).r = u
         /\ LET d == RL(u, g) IN RR(d.r, d.f).r = u /\ RR(d.r, d.f).f.c = g.c
<1>1. u \in Int /\ 0 <= u /\ u < 256 /\ g.c \in {0, 1}
  BY DEF Byte, Flags, Flag
<1> DEFINE p == (2 * u + Bit(u, 128)) % 256
           q == (2 * u + g.c) % 256
<1>2. RLC(u).r = p /\ RL(u, g).r = q /\ RL(u, g).f.c = Bit(u, 128)
  BY DEF RLC, RL, resROT_byte
<1>3. RRC(p).r = ((p \div 2) + 128 * Bit(p, 1)) % 256
  BY DEF RRC, resROT_byte
<1>4. ((p \div 2) + 128 * Bit(p, 1)) % 256 = u
  <2>1. Bit(u, 128) = IF u >= 128 THEN 1 ELSE 0
    BY <1>1 DEF Bit
  <2>2. p = IF u >= 128 THEN 2 * u - 255 ELSE 2 * u
    BY <1>1, <2>1
  <2> HIDE DEF p
  <2>3. p \div 2 = (IF u >= 128 THEN u - 128 ELSE u) /\ Bit(p, 1) = IF u >= 128 THEN 1 ELSE 0
    BY <1>1, <2>2 DEF Bit
  <2>4. QED BY <1>1, <2>3
<1> DEFINE d == RL(u, g)
<1>5. RR(d.r, d.f).r = ((q \div 2) + 128 * Bit(u, 128)) % 256 /\ RR(d.r, d.f).f.c = Bit(q, 1)
  BY <1>2 DEF RR, resROT_byte
<1>6. ((q \div 2) + 128 * Bit(u, 128)) % 256 = u /\ Bit(q, 1) = g.c
  <2> DEFINE c == g.c
  <2>1. c \in {0, 1} /\ q = (2 * u + c) % 256
    BY <1>1
  <2>2. Bit(u, 128) = IF u >= 128 THEN 1 ELSE 0
    BY <1>1 DEF Bit
  <2> HIDE DEF c, q
  <2>3. q = IF u >= 128 THEN 2 * u + c - 256 ELSE 2 * u + c
    BY <1>1, <2>1
  <2>4. q \div 2 = (IF u >= 128 THEN u - 128 ELSE u) /\ Bit(q, 1) = c
    BY <1>1, <2>1, <2>3 DEF Bit
  <2>5. QED BY <1>1, <2>2, <2>4 DEF c
<1>7. QED BY <1>2, <1>3, <1>4, <1>5, <1>6

\* The digits that RLD moves are moved back by RRD.
LEMMA DigitsMoved ==
  ASSUME NEW u \in Byte, NEW m \in Byte, NEW g \in Flags
  PROVE  LET d == RLD(u, m, g)
         IN  /\ RRD(d.r, d.m, d.f).r = u /\ RRD(d.r, d.m, d.f).m = m
             /\ 256 * (d.r % 16) + d.m = 16 * m + (u % 16)
<1>1. u \in Int /\ 0 <= u /\ u < 256 /\ m \in Int /\ 0 <= m /\ m < 256
  BY DEF Byte
<1> DEFINE p == 16 * (u \div 16) + (m \div 16)
           q == 16 * (m % 16) + (u % 16)
           d == RLD(u, m, g)
<1>2. d.r = p /\ d.m = q
  BY DEF RLD, resROTD_byte
<1>3. /\ RRD(d.r, d.m, d.f).r = 16 * (p \div 16) + (q % 16)
      /\ RRD(d.r, d.m, d.f).m = 16 * (p % 16) + (q \div 16)
  BY <1>2 DEF RRD, resROTD_byte
<1> HIDE DEF d
<1> DEFINE t == u \div 16
           i == u % 16
           k == m \div 16
           l == m % 16
<1>4. /\ t \in Nat /\ i \in Nat /\ k \in Nat /\ l \in Nat /\ t < 16 /\ i < 16 /\ k < 16 /\ l < 16
      /\ u = 16 * t + i /\ m = 16 * k + l /\ p = 16 * t + k /\ q = 16 * l + i
  BY <1>1
<1> HIDE DEF t, i, k, l, p, q
<1>5. p \div 16 = t /\ p % 16 = k /\ q \div 16 = l /\ q % 16 = i
  BY <1>4
<1>6. QED BY <1>2, <1>3, <1>4, <1>5 DEF d, i

LEMMA TwinsAreTwins == TypeOK => TwinsAgree
<1> SUFFICES ASSUME TypeOK PROVE TwinsAgree
  OBVIOUS
<1>1. a \in Byte /\ f \in Flags /\ f.c \in Flag /\ 0 \in Flag /\ Operand \subseteq Byte
  BY Z80ArithAssumption DEF TypeOK, Flags, Flag
<1>2. INC(a, f) = [ADD(a, 1) EXCEPT !.f.c = f.c] /\ DEC(a, f) = [SUB(a, 1) EXCEPT !.f.c = f.c]
  BY <1>1, IncIsAdd, DecIsSub
<1>3. NEG(CPL(a, f).r).r = INC(a, f).r
  BY <1>1, NegIsCplAndInc
<1>4. \A u \in Operand : (CP(a, u).f.z = 1) = (XOR(a, u).r = 0)
  BY <1>1, CompareIsXor
<1>5. \A u \in Operand : OR(a, u).r = CPL(AND(255 - a, 255 - u).r, f).r
  <2>1. TAKE u \in Operand
  <2>2. u \in Byte
    BY <1>1
  <2>3. QED BY <1>1, <2>2, OrByComplements
<1>6. LET Same(q, r) == q.r = r.r /\ q.f.s = r.f.s /\ q.f.z = r.f.z /\ q.f.c = r.f.c
      IN  Same(SLA(a), ADD(a, a)) /\ Same(RL(a, f), ADC(a, a, f))
  <2>1. SLA(a) = resROT_byte(2 * a + 0, Bit(a, 128)) /\ ADD(a, a) = Sum(a, a, 0)
    BY <1>1 DEF SLA, ADD, Byte
  <2>2. RL(a, f) = resROT_byte(2 * a + f.c, Bit(a, 128)) /\ ADC(a, a, f) = Sum(a, a, f.c)
    BY DEF RL, ADC
  <2>3. QED BY <1>1, <2>1, <2>2, ShiftIsSum
<1>7. SLL(a) = RL(a, SCF(f))
  BY <1>1, CarryTypes DEF SLL, RL
<1>8. SRA(a) = RR(a, [f EXCEPT !.c = Bit(a, 128)])
  <2>1. [f EXCEPT !.c = Bit(a, 128)].c = Bit(a, 128)
    BY <1>1 DEF Flags
  <2>2. QED BY <2>1, Zenon DEF SRA, RR
<1>9. /\ RRC(RLC(a).r).r = a
      /\ LET d == RL(a, f) IN RR(d.r, d.f).r = a /\ RR(d.r, d.f).f.c = f.c
  BY <1>1, RotationsUndone
<1>10. \A m \in Operand : LET d == RLD(a, m, f) IN
         /\ RRD(d.r, d.m, d.f).r = a /\ RRD(d.r, d.m, d.f).m = m
         /\ 256 * (d.r % 16) + d.m = 16 * m + (a % 16)
  BY <1>1, DigitsMoved
<1>11. QED BY <1>2, <1>3, <1>4, <1>5, <1>6, <1>7, <1>8, <1>9, <1>10, Zenon DEF TwinsAgree

-------------------------------------------------------------------------------
SignedInvariant == IInv /\ Fitting /\ SignedOrder /\ WideAgrees

LEMMA SignedInvariantKept == SignedInvariant /\ [Next]_vars => SignedInvariant'
<1> SUFFICES ASSUME SignedInvariant, [Next]_vars PROVE SignedInvariant'
  OBVIOUS
<1>0. IInv /\ Fitting /\ SignedOrder /\ WideAgrees /\ IInv'
  BY StepKeeps DEF SignedInvariant
<1>1. ASSUME phase = "start", phase' = "next", UNCHANGED <<a, kind, base, x, y, numbers>>
      PROVE  Fitting' /\ SignedOrder' /\ WideAgrees'
  BY <1>0, <1>1 DEF IInv, Fitting, SignedOrder, WideAgrees, numbers
<1>2. ASSUME NEW c \in Flag, Begin(c) PROVE Fitting' /\ SignedOrder' /\ WideAgrees'
  BY <1>1, <1>2 DEF Begin
<1>3. ASSUME BeginComplemented PROVE Fitting' /\ SignedOrder' /\ WideAgrees'
  <2>1. phase = "start" /\ phase' = "next" /\ UNCHANGED <<a, kind, base, x, y, numbers>>
    BY <1>3 DEF BeginComplemented
  <2>2. QED BY <1>1, <2>1
<1>4. ASSUME NEW u \in Byte1, NEW v \in Byte2, Compute(u, v) PROVE Fitting' /\ SignedOrder' /\ WideAgrees'
  <2>1. CASE base = 256 /\ kind \in {"add", "sub"}
    BY <1>0, <1>4, <2>1, FittingKept, SignedOrderKept, WideAgreesKept
  <2>2. CASE ~(base = 256 /\ kind \in {"add", "sub"})
    BY <1>4, <2>2 DEF Compute, job, Fitting, SignedOrder, WideAgrees
  <2>3. QED BY <2>1, <2>2
<1>5. ASSUME Adjust PROVE Fitting' /\ SignedOrder' /\ WideAgrees'
  <2>1. base = 100 /\ base' = base
    BY <1>0, <1>5 DEF IInv, AdjustPending, Adjust, job
  <2>2. QED BY <2>1 DEF Fitting, SignedOrder, WideAgrees
<1>6. ASSUME UNCHANGED vars PROVE Fitting' /\ SignedOrder' /\ WideAgrees'
  <2>1. UNCHANGED <<a, f, kind, base, carry, phase, x, y, n, weight, xs, ys, rs>>
    BY <1>6 DEF vars, registers, job, numbers
  <2>2. Fitting'
    BY <1>0, <2>1 DEF Fitting
  <2>3. SignedOrder'
    BY <1>0, <2>1 DEF SignedOrder, Signed
  <2>4. WideAgrees'
    BY <1>0, <2>1 DEF WideAgrees
  <2>5. QED BY <2>2, <2>3, <2>4
<1>7. QED BY <1>0, <1>2, <1>3, <1>4, <1>5, <1>6 DEF Next, SignedInvariant

LEMMA SignedInvariantHolds == Spec => []SignedInvariant
<1>1. Init => Fitting /\ SignedOrder /\ WideAgrees
  BY DEF Init, Fitting, SignedOrder, WideAgrees
<1>2. Init => SignedInvariant
  BY <1>1, InitEstablishes DEF SignedInvariant
<1>3. QED BY <1>2, SignedInvariantKept, PTL DEF Spec

\* After the last byte of a sum or difference P/V tells that the signed result does not
\* fit, and S with it which number is less, however many bytes the numbers have.
THEOREM SignedOrderHolds == Spec => []SignedOrder
<1>1. SignedInvariant => SignedOrder
  BY DEF SignedInvariant
<1>2. QED BY <1>1, SignedInvariantHolds, PTL

\* ADC HL,rr and SBC HL,rr leave what two 8-bit instructions do, Z apart.
THEOREM WideAgreesHolds == Spec => []WideAgrees
<1>1. SignedInvariant => WideAgrees
  BY DEF SignedInvariant
<1>2. QED BY <1>1, SignedInvariantHolds, PTL

\* What the code computes in two ways agrees, for every byte and flags.
THEOREM TwinsAgreeHolds == Spec => []TwinsAgree
<1>1. QED BY TwinsAreTwins, ArithTypeCorrect, PTL
===============================================================================
