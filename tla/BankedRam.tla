------------------------------ MODULE BankedRam -------------------------------
(***************************************************************************)
(* The 128 KB of memory behind the 64 KB the Z80 addresses: the pins BANK0 *)
(* and BANK1 of Z80_MBC2System.cpp, the offset they select for the lower   *)
(* half of the addresses, and the accessors of Z80_MBC2RAM.                *)
(***************************************************************************)
EXTENDS Integers

CONSTANTS
  Half,      \* half of the address space (0x8000)
  Content    \* what a byte of memory can hold

ASSUME BankedRamAssumption == Half \in Nat \ {0}

Addr == 0..(2 * Half - 1)
Phys == 0..(4 * Half - 1)

HIGH == 1
LOW  == 0

VARIABLES
  io_BANK0, io_BANK1,   \* the pins
  bankoff,              \* the offset of the lower half
  ram                   \* the memory

bankVars == <<io_BANK0, io_BANK1, bankoff>>

RamTypeOK ==
  /\ io_BANK0 \in {LOW, HIGH} /\ io_BANK1 \in {LOW, HIGH}
  /\ bankoff \in {0, Half, 2 * Half, 3 * Half}
  /\ ram \in [Phys -> Content]

\* The offset ZdigitalWrite computes.  Both pins low select the common bank.
Offset(b0, b1) == (IF b0 = HIGH THEN 0 ELSE Half) + (IF b1 = HIGH THEN 2 * Half ELSE 0)

\* Two calls of ZdigitalWrite, one for each pin.
SetPins(b0, b1) ==
  /\ io_BANK0' = b0 /\ io_BANK1' = b1
  /\ bankoff' = Offset(b0, b1)

\* Where a Z80 address is in the memory.
PhysAddr(a) == IF a >= Half THEN a ELSE a + bankoff

\* Z80_MBC2RAM::read() and write()
RamRead(a) == ram[PhysAddr(a)]

RamWrite(a, v) == ram' = [ram EXCEPT ![PhysAddr(a)] = v]

\* Mutant of SetBank: the number of the logical bank is one more.
SetBankNext(n) ==
  CASE n = 0 -> SetPins(HIGH, LOW)
    [] n = 1 -> SetPins(LOW, HIGH)
    [] n = 2 -> SetPins(HIGH, HIGH)
    [] OTHER -> UNCHANGED bankVars

\* SETBANK: a number above 2 selects nothing.
SetBank(n) ==
  CASE n = 0 -> SetPins(HIGH, LOW)
    [] n = 1 -> SetPins(HIGH, HIGH)
    [] n = 2 -> SetPins(LOW, HIGH)
    [] OTHER -> UNCHANGED bankVars

===============================================================================
