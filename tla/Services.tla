------------------------------- MODULE Services -------------------------------
(***************************************************************************)
(* The services of the virtual I/O engine (Z80_MBC2System.cpp) that touch  *)
(* the settings, the memory banks and the clock, as a running Z80 program  *)
(* uses them: an OUT to an odd port stores an opcode, an OUT or IN at an   *)
(* even port exchanges one byte of it.  The program also reads and writes  *)
(* its memory.  The disk opcodes are in IosDisk, the console's in Console; *)
(* the opcodes that only set or answer one variable are left out.          *)
(***************************************************************************)
EXTENDS Settings, BankedRam

CONSTANTS
  GuestOpcode,    \* the opcodes the program stores
  GuestBank,      \* the bytes it sends with SETBANK
  GuestByte,      \* and with the other opcodes
  GuestAddr,      \* the addresses it writes to
  GuestContent,   \* what it writes there
  Moment,         \* the readings of the clock, numbered from 0
  foundRTC        \* whether setup() found a clock; autoSetRTC() of this port always does

SETBANK    == 13      \* 0x0D
RDWREEPROM == 100    \* 0x64
DATETIME   == 132    \* 0x84
NOP        == 255    \* 0xFF

WriteOps == {SETBANK, RDWREEPROM, NOP}
ReadOps  == {DATETIME, RDWREEPROM}

ASSUME ServicesAssumption ==
  /\ GuestOpcode \subseteq Byte /\ GuestBank \subseteq Byte /\ GuestByte \subseteq Byte
  /\ GuestAddr \subseteq Addr
  /\ GuestContent \subseteq Content
  /\ Moment \subseteq 0..15 /\ 0 \in Moment
  /\ foundRTC \in BOOLEAN

VARIABLES
  ioOpcode,       \* the stored opcode, or NOP
  ioByteCnt,      \* bytes counted since it was stored
  ioData,         \* the last byte on the data bus
  eepromOffset,   \* the cell the EEPROM opcode is about
  reading,        \* the reading of the clock DATETIME hands out; 0 when none is used
  addressed,      \* history: the stored EEPROM opcode has been sent its address
  osBank          \* history: the bank SETBANK was last asked for

history == <<addressed, osBank>>
serviceVars == <<ioOpcode, ioByteCnt, ioData, eepromOffset, reading, history>>
engine == <<ioOpcode, ioByteCnt, ioData>>
memory == <<bankVars, ram>>

\* Seven bytes of DATETIME; beyond, and beyond the two of the EEPROM, the count
\* makes no difference.
CountBound == 7
Bump == IF ioByteCnt < CountBound THEN ioByteCnt + 1 ELSE ioByteCnt

ServicesTypeOK ==
  /\ ioOpcode \in Byte /\ ioByteCnt \in 0..CountBound /\ ioData \in Byte
  /\ eepromOffset \in Byte
  /\ reading \in Moment
  /\ addressed \in BOOLEAN /\ osBank \in 0..2

ServicesInit ==
  /\ ioOpcode = NOP /\ ioByteCnt = 0 /\ ioData = 0
  /\ eepromOffset = 0 /\ reading = 0
  /\ addressed = FALSE /\ osBank = 0

ServicesCleared ==
  /\ ioOpcode' = NOP /\ ioByteCnt' = 0 /\ ioData' = 0
  /\ eepromOffset' = 0 /\ reading' = 0
  /\ addressed' = FALSE /\ osBank' = 0

-------------------------------------------------------------------------------
(* An OUT to an odd port. *)

StoreOpcode(op) ==
  /\ ioOpcode' = op /\ ioData' = op /\ ioByteCnt' = 0
  /\ reading' = 0 /\ addressed' = FALSE
  /\ UNCHANGED <<settingVars, memory, eepromOffset, osBank>>

(* An OUT to an even port: the byte ends the operation, except the EEPROM's. *)

Sent(op, b) ==
  /\ ioOpcode = op
  /\ ioData' = b /\ ioOpcode' = NOP
  /\ UNCHANGED <<ioByteCnt, eepromOffset, reading, addressed>>

SetBankOp(b) ==
  /\ Sent(SETBANK, b) /\ SetBank(b)
  /\ osBank' = IF b \in 0..2 THEN b ELSE osBank
  /\ UNCHANGED <<settingVars, ram>>

Ignored(b) == Sent(NOP, b) /\ UNCHANGED <<settingVars, memory, osBank>>

\* The EEPROM's OUT: the count, which no OUT advances, tells an address from data.
EepromAddress(b) ==
  /\ ioOpcode = RDWREEPROM /\ ioByteCnt = 0
  /\ eepromOffset' = b /\ ioData' = b
  /\ addressed' = TRUE
  /\ UNCHANGED <<settingVars, memory, ioOpcode, ioByteCnt, reading, osBank>>

\* Mutant of EepromWrite: the array is not saved.
EepromWriteUnsaved(b, S) ==
  /\ ioOpcode = RDWREEPROM /\ ioByteCnt = 1 /\ eepromOffset \in Cell
  /\ Update(eepromOffset, b)
  /\ ioData' = b
  /\ UNCHANGED <<stored, globals, Z80IntEnFlag, faulted, memory, ioOpcode, ioByteCnt, eepromOffset, reading, history>>

\* update() and save() of the cells S.
EepromWrite(b, S) ==
  /\ ioOpcode = RDWREEPROM /\ ioByteCnt = 1 /\ eepromOffset \in Cell
  /\ Update(eepromOffset, b)
  /\ stored' = Written(eeprom', S)
  /\ faulted' = (faulted \/ S # Cell)
  /\ ioData' = b
  /\ UNCHANGED <<globals, Z80IntEnFlag, memory, ioOpcode, ioByteCnt, eepromOffset, reading,
                 history>>

\* A byte nothing is done with: after the data, or for a cell the model leaves out.
EepromDropped(b) ==
  /\ ioOpcode = RDWREEPROM
  /\ ioByteCnt > 1 \/ (ioByteCnt = 1 /\ eepromOffset \notin Cell)
  /\ ioData' = b
  /\ UNCHANGED <<settingVars, memory, ioOpcode, ioByteCnt, eepromOffset, reading, history>>

-------------------------------------------------------------------------------
(* An IN at an even port. *)

Answered(b) ==
  /\ ioData' = b /\ ioOpcode' = NOP /\ reading' = 0
  /\ UNCHANGED <<settingVars, memory, ioByteCnt, eepromOffset, history>>

\* An IN with no read opcode stored answers the byte last on the bus.
NothingToRead == ioOpcode \notin ReadOps /\ Answered(ioData)

EepromRead ==
  /\ ioOpcode = RDWREEPROM
  /\ ioData' = IF ioByteCnt = 1 /\ eepromOffset \in Cell THEN eeprom[eepromOffset] ELSE ioData
  /\ ioByteCnt' = Bump
  /\ UNCHANGED <<settingVars, memory, ioOpcode, eepromOffset, reading, history>>

\* The byte f of the reading m: all of them different.
Field(m, f) == 16 * m + f

\* Mutant of DateTime: the clock is read for every byte.
DateTimeRereads ==
  /\ ioOpcode = DATETIME /\ foundRTC /\ ioByteCnt < 7
  /\ reading' \in Moment
  /\ ioData' = Field(reading', ioByteCnt)
  /\ ioByteCnt' = Bump
  /\ UNCHANGED <<settingVars, memory, ioOpcode, eepromOffset, history>>

\* The clock, which may have gone on since it was last read, is read for the first
\* byte.
DateTime ==
  /\ ioOpcode = DATETIME /\ foundRTC /\ ioByteCnt < 7
  /\ IF ioByteCnt = 0 THEN reading' \in Moment ELSE UNCHANGED reading
  /\ ioData' = Field(reading', ioByteCnt)
  /\ ioByteCnt' = Bump
  /\ UNCHANGED <<settingVars, memory, ioOpcode, eepromOffset, history>>

\* There is no eighth byte, and none at all without a clock: the bus keeps what it has.
DateTimeOver == ioOpcode = DATETIME /\ (foundRTC => ioByteCnt >= 7) /\ Answered(ioData)

(* Memory. *)

WriteMemory(a, v) == RamWrite(a, v) /\ UNCHANGED <<settingVars, bankVars, serviceVars>>

\* What a running program does that leaves it running.
ServiceStep ==
  \/ \E op \in GuestOpcode : StoreOpcode(op)
  \/ \E b \in GuestBank : SetBankOp(b)
  \/ \E b \in GuestByte : Ignored(b)
  \/ \E b \in GuestByte : EepromAddress(b)
  \/ \E b \in GuestByte : EepromDropped(b)
  \/ \E b \in GuestByte, S \in Moves : (MediaFaults \/ S = Cell) /\ EepromWrite(b, S)
  \/ NothingToRead \/ EepromRead \/ DateTime \/ DateTimeOver
  \/ \E a \in GuestAddr, v \in GuestContent : WriteMemory(a, v)

\* An OUT no write service knows stops the machine.
Unknown(b) ==
  /\ ioOpcode \notin WriteOps
  /\ ioData' = b /\ ioOpcode' = NOP
  /\ UNCHANGED <<settingVars, memory, ioByteCnt, eepromOffset, reading, history>>

===============================================================================
