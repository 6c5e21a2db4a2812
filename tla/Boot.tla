--------------------------------- MODULE Boot ---------------------------------
(***************************************************************************)
(* Zsetup() of SimZ80_MBC2.cpp, from power-up to the first instruction of  *)
(* the Z80: loading and validating the settings, the boot menu, loading    *)
(* the chosen program, saving the settings.  The power may go at any time, *)
(* and the card may fail an open or cut a transfer short.                  *)
(*                                                                         *)
(* A byte of memory is known by where it comes from: <<f, i>> is the byte  *)
(* i of the program f.  The menu shows the names of the disk sets, whose   *)
(* files openSD closes again when it opens the program; mountSD does       *)
(* nothing and always succeeds.                                            *)
(***************************************************************************)
EXTENDS Settings, BankedRam

CONSTANTS
  StrAddr,    \* of each program: the address it is loaded to and started at
  Length,     \* of each program: its bytes
  SegLen,     \* bytes of a segment (32)
  Key         \* the characters typed, as the numbers of their codes

OsName == <<"CPM22", "QPMLDR", "CPMLDR", "UCSDLDR", "COS">>
OsNames == {OsName[i] : i \in 1..5}
Program == OsNames \cup {"BASIC47", "FORTH13", "AUTOBOOT", "iLoad"}

ASSUME BootAssumption ==
  /\ StrAddr \in [Program -> Addr] /\ Length \in [Program -> Nat]
  /\ \A p \in Program : StrAddr[p] + Length[p] <= 2 * Half
  /\ \A p \in Program : StrAddr[p] = 0 \/ StrAddr[p] >= 3
  /\ SegLen \in Nat \ {0}
  /\ Key \subseteq 1..254     \* the menu waits for a character other than 0 and 255

VARIABLES
  bpc,             \* where Zsetup is, or "off" or "run"
  bootSelection,   \* whether to show the menu
  minBootChar,     \* the lowest character the menu takes
  iCount,          \* the disk set the menu offers
  hl,              \* Z80hl, where the next byte is loaded
  at,              \* the position in the file being loaded
  mode             \* whether the Z80 runs or the debugger has stopped it

bootVars == <<bpc, bootSelection, minBootChar, iCount, hl, at, mode>>
vars0 == <<settingVars, bankVars, ram, bootVars>>

Digit(n) == 48 + n
CR  == 13
ESC == 27

Unwritten == <<"nothing", 0>>
JP        == <<"JP", 0>>

ASSUME ContentAssumption ==
  /\ Unwritten \in Content /\ JP \in Content
  /\ \A p \in Program :
       /\ <<"low", StrAddr[p] % 256>> \in Content /\ <<"high", StrAddr[p] \div 256>> \in Content
       /\ \A i \in 0..(Length[p] - 1) : <<p, i>> \in Content

BootPc == {"off", "validate", "menu", "key", "disk", "load", "open", "waitKey", "read", "save",
           "run"}

BootTypeOK ==
  /\ SettingsTypeOK /\ RamTypeOK
  /\ bpc \in BootPc
  /\ bootSelection \in {0, 1} /\ minBootChar \in {Digit(0), Digit(1)}
  /\ iCount \in Byte /\ hl \in Nat /\ at \in Nat
  /\ mode \in {"RUN", "STOP"}

Goto(l) == bpc' = l

\* What the power takes with it: everything but the file.
Cleared ==
  /\ eeprom' = Blank
  /\ clockMode' = 0 /\ autoBootMode' = 0 /\ debugMode' = 0 /\ diskSet' = 0
  /\ autoexecFlag' = 0 /\ bootMode' = 0 /\ Z80IntEnFlag' = 0
  /\ faulted' = FALSE
  /\ io_BANK0' = HIGH /\ io_BANK1' = LOW /\ bankoff' = 0
  /\ ram' = [p \in Phys |-> Unwritten]
  /\ bootSelection' = 0 /\ minBootChar' = Digit(1) /\ iCount' = 0
  /\ hl' = 0 /\ at' = 0 /\ mode' = "RUN"

BootInit ==
  /\ eeprom = Blank
  /\ clockMode = 0 /\ autoBootMode = 0 /\ debugMode = 0 /\ diskSet = 0
  /\ autoexecFlag = 0 /\ bootMode = 0 /\ Z80IntEnFlag = 0
  /\ faulted = FALSE
  /\ io_BANK0 = HIGH /\ io_BANK1 = LOW /\ bankoff = 0
  /\ ram = [p \in Phys |-> Unwritten]
  /\ bpc = "off" /\ bootSelection = 0 /\ minBootChar = Digit(1) /\ iCount = 0
  /\ hl = 0 /\ at = 0 /\ mode = "RUN"

-------------------------------------------------------------------------------
(* Settings. *)

\* setup(), EEPROM.load() of the cells S, the user button (down or up), the banks.
PowerOn(S, pressed) ==
  /\ bpc = "off"
  /\ eeprom' = Loaded(S)
  /\ faulted' = (S # Cell)
  /\ bootSelection' = IF LoadError \/ pressed THEN 1 ELSE 0
  /\ SetPins(HIGH, LOW)
  /\ Goto("validate")
  /\ UNCHANGED <<stored, globals, Z80IntEnFlag, ram, minBootChar, iCount, hl, at, mode>>

\* Mutant of Valid: the number of disk sets is taken for a disk set.
ValidOffByOne(c, b) ==
  CASE c = clockModeAddr -> IF b > 1 THEN 1 ELSE b
    [] c = diskSetAddr   -> IF b > maxDiskSet THEN 0 ELSE b
    [] c = bootModeAddr  -> b
    [] OTHER             -> IF b > 1 THEN 0 ELSE b

\* What each cell is set to when it holds b.  The boot mode is left as it is.
Valid(c, b) ==
  CASE c = clockModeAddr -> IF b > 1 THEN 1 ELSE b
    [] c = diskSetAddr   -> IF b >= maxDiskSet THEN 0 ELSE b
    [] c = bootModeAddr  -> b
    [] OTHER             -> IF b > 1 THEN 0 ELSE b

Validate ==
  /\ bpc = "validate"
  /\ eeprom' = [c \in Cell |-> Valid(c, eeprom[c])]
  /\ clockMode' = eeprom'[clockModeAddr]
  /\ autoBootMode' = eeprom'[autoBootModeAddr]
  /\ debugMode' = eeprom'[debugModeAddr]
  /\ diskSet' = eeprom'[diskSetAddr]
  /\ autoexecFlag' = eeprom'[autoexecFlagAddr]
  /\ bootMode' = eeprom'[bootModeAddr]
  /\ bootSelection' = IF autoBootMode' = 0 THEN 1 ELSE bootSelection
  /\ Goto("menu")
  /\ UNCHANGED <<stored, Z80IntEnFlag, faulted, bankVars, ram, minBootChar, iCount, hl, at, mode>>

-------------------------------------------------------------------------------
(* The menu. *)

\* Mutant of MenuWanted: the last program of the menu counts as none.
MenuWantedForLast == bootSelection = 1 \/ bootMode >= maxBootMode

MenuWanted == bootSelection = 1 \/ bootMode > maxBootMode

\* '0', no change, is offered once the boot mode is valid, and from then on.
ShowMenu ==
  /\ bpc = "menu" /\ MenuWanted
  /\ bootSelection' = 0
  /\ minBootChar' = IF bootMode <= maxBootMode THEN Digit(0) ELSE minBootChar
  /\ Goto("key")
  /\ UNCHANGED <<settingVars, bankVars, ram, iCount, hl, at, mode>>

LeaveMenu ==
  /\ bpc = "menu" /\ ~MenuWanted
  /\ Goto("load")
  /\ UNCHANGED <<settingVars, bankVars, ram, bootSelection, minBootChar, iCount, hl, at, mode>>

Takes(ch) == minBootChar <= ch /\ ch <= Digit(9)

KeyRefused(ch) ==
  /\ bpc = "key" /\ ~Takes(ch)
  /\ bootSelection' = 1
  /\ Goto("menu")
  /\ UNCHANGED <<settingVars, bankVars, ram, minBootChar, iCount, hl, at, mode>>

\* Mutant of Chosen: '0' makes -1.
ChosenSigned(ch, ee) ==
  LET m == ch - Digit(1)
  IN  /\ IF m <= maxBootMode
         THEN /\ bootMode' = m /\ eeprom' = [ee EXCEPT ![bootModeAddr] = m]
              /\ UNCHANGED bootSelection
         ELSE /\ bootMode' = ee[bootModeAddr] /\ eeprom' = ee
              /\ bootSelection' = IF m < 128 THEN 1 ELSE bootSelection
      /\ Goto("menu")
      /\ UNCHANGED <<stored, clockMode, Z80IntEnFlag, faulted, bankVars, ram, minBootChar, hl, at,
                     mode>>

\* bootMode = inChar - '1', where '0' makes 255, on the array as the key left it.
Chosen(ch, ee) ==
  LET m == (ch - Digit(1)) % 256
  IN  /\ IF m <= maxBootMode
         THEN /\ bootMode' = m /\ eeprom' = [ee EXCEPT ![bootModeAddr] = m]
              /\ UNCHANGED bootSelection
         ELSE /\ bootMode' = ee[bootModeAddr] /\ eeprom' = ee
              /\ bootSelection' = IF m < 128 THEN 1 ELSE bootSelection
      /\ Goto("menu")
      /\ UNCHANGED <<stored, clockMode, Z80IntEnFlag, faulted, bankVars, ram, minBootChar, hl, at,
                     mode>>

KeyProgram(ch) ==
  /\ bpc = "key" /\ Takes(ch) /\ ch < Digit(6)
  /\ Chosen(ch, eeprom)
  /\ UNCHANGED <<autoBootMode, debugMode, diskSet, autoexecFlag, iCount>>

Toggles == [ch \in {Digit(6), Digit(7), Digit(9)} |->
              CASE ch = Digit(6) -> debugModeAddr
                [] ch = Digit(7) -> autoexecFlagAddr
                [] ch = Digit(9) -> autoBootModeAddr]

\* A flag changes in its variable and, from there, in the array.
KeyToggle(ch) ==
  /\ bpc = "key" /\ ch \in DOMAIN Toggles
  /\ debugMode' = IF ch = Digit(6) THEN 1 - debugMode ELSE debugMode
  /\ autoexecFlag' = IF ch = Digit(7) THEN 1 - autoexecFlag ELSE autoexecFlag
  /\ autoBootMode' = IF ch = Digit(9) THEN 1 - autoBootMode ELSE autoBootMode
  /\ Chosen(ch, [eeprom EXCEPT ![Toggles[ch]] =
                   CASE ch = Digit(6) -> debugMode'
                     [] ch = Digit(7) -> autoexecFlag'
                     [] ch = Digit(9) -> autoBootMode'])
  /\ UNCHANGED <<diskSet, iCount>>

NextSet(s) == (s + 1) % maxDiskSet

\* Change the disk set: the next one is offered until CR or ESC.
KeyDiskSet ==
  /\ bpc = "key" /\ Digit(8) \in Key
  /\ iCount' = NextSet(diskSet)
  /\ Goto("disk")
  /\ UNCHANGED <<settingVars, bankVars, ram, bootSelection, minBootChar, hl, at, mode>>

DiskOther(ch) ==
  /\ bpc = "disk" /\ ch \notin {CR, ESC}
  /\ iCount' = NextSet(iCount)
  /\ UNCHANGED <<settingVars, bankVars, ram, bpc, bootSelection, minBootChar, hl, at, mode>>

DiskAccept ==
  /\ bpc = "disk" /\ CR \in Key
  /\ diskSet' = iCount
  /\ Chosen(Digit(8), [eeprom EXCEPT ![diskSetAddr] = iCount])
  /\ UNCHANGED <<autoBootMode, debugMode, autoexecFlag, iCount>>

DiskEscape ==
  /\ bpc = "disk" /\ ESC \in Key
  /\ Chosen(Digit(8), eeprom)
  /\ UNCHANGED <<autoBootMode, debugMode, diskSet, autoexecFlag, iCount>>

MenuKey ==
  \/ \E ch \in Key : KeyRefused(ch)
  \/ \E ch \in Key : KeyProgram(ch)
  \/ \E ch \in Key : KeyToggle(ch)
  \/ KeyDiskSet
  \/ \E ch \in Key : DiskOther(ch)
  \/ DiskAccept \/ DiskEscape

-------------------------------------------------------------------------------
(* Loading the program. *)

\* The program a boot mode and a disk set stand for.
ProgramOf(m, s) ==
  CASE m = 0 -> "BASIC47"
    [] m = 1 -> "FORTH13"
    [] m = 2 -> OsName[s + 1]
    [] m = 3 -> "AUTOBOOT"
    [] m = 4 -> "iLoad"

prog == ProgramOf(bootMode, diskSet)

\* ram[hl..] with the n bytes of the program from its byte i on.
WithBytes(mem, a, i, n) ==
  [p \in Phys |-> IF a <= p /\ p < a + n THEN <<prog, i + p - a>> ELSE mem[p]]

\* JP nn at address 0, if the program does not start there.
WithJump(mem, a) ==
  IF a = 0 THEN mem
  ELSE [mem EXCEPT ![0] = JP, ![1] = <<"low", a % 256>>, ![2] = <<"high", a \div 256>>]

\* Mutant of LoadStart: Z80hl stays behind the jump.
LoadStartNoHL ==
  /\ bpc = "load"
  /\ Z80IntEnFlag' = IF bootMode = 0 THEN 1 ELSE Z80IntEnFlag
  /\ hl' = IF StrAddr[prog] = 0 THEN 0 ELSE 3
  /\ at' = 0
  /\ IF bootMode < maxBootMode
     THEN ram' = WithJump(ram, StrAddr[prog]) /\ Goto("open")
     ELSE /\ ram' = WithBytes(WithJump(ram, StrAddr[prog]), hl', 0, Length[prog])
          /\ Goto("save")
  /\ UNCHANGED <<eeprom, stored, globals, faulted, bankVars, bootSelection, minBootChar, iCount,
                 mode>>

\* The jump, loadHL(BootStrAddr), and a program from flash as a whole.
LoadStart ==
  /\ bpc = "load"
  /\ Z80IntEnFlag' = IF bootMode = 0 THEN 1 ELSE Z80IntEnFlag
  /\ hl' = StrAddr[prog] /\ at' = 0
  /\ IF bootMode < maxBootMode
     THEN ram' = WithJump(ram, StrAddr[prog]) /\ Goto("open")
     ELSE /\ ram' = WithBytes(WithJump(ram, StrAddr[prog]), hl', 0, Length[prog])
          /\ Goto("save")
  /\ UNCHANGED <<eeprom, stored, globals, faulted, bankVars, bootSelection, minBootChar, iCount,
                 mode>>

\* openSD(); a repetition opens twice, and only the second result counts.
Open ==
  /\ bpc = "open"
  /\ Goto("read") \/ Goto("waitKey")
  /\ UNCHANGED <<settingVars, bankVars, ram, bootSelection, minBootChar, iCount, hl, at, mode>>

\* waitKey()
RetryKey ==
  /\ bpc = "waitKey" /\ Key # {}
  /\ Goto("open")
  /\ UNCHANGED <<settingVars, bankVars, ram, bootSelection, minBootChar, iCount, hl, at, mode>>

Smaller(a, b) == IF a < b THEN a ELSE b

\* One segment of n bytes.  readSD returns an error only for a handle that is not
\* open, so the loop that repeats "until error disappears" never does; a segment
\* cut short ends the program.
ReadSegment(n) ==
  LET whole == Smaller(SegLen, Length[prog] - at)
  IN  /\ bpc = "read"
      /\ n = whole \/ (MediaFaults /\ n < whole)
      /\ ram' = WithBytes(ram, hl, at, n)
      /\ hl' = hl + n /\ at' = at + n
      /\ faulted' = (faulted \/ n # whole)
      /\ Goto(IF n = SegLen THEN "read" ELSE "save")
      /\ UNCHANGED <<eeprom, stored, globals, Z80IntEnFlag, bankVars, bootSelection, minBootChar,
                     iCount, mode>>

\* stop() in debug mode, EEPROM.save() of the cells S; the Z80 runs from now.
Start(S) ==
  /\ bpc = "save"
  /\ mode' = IF debugMode # 0 THEN "STOP" ELSE "RUN"
  /\ stored' = Written(eeprom, S)
  /\ faulted' = (faulted \/ S # Cell)
  /\ Goto("run")
  /\ UNCHANGED <<eeprom, globals, Z80IntEnFlag, bankVars, ram, bootSelection, minBootChar, iCount,
                 hl, at>>

-------------------------------------------------------------------------------
\* The power goes.
PowerOff == bpc # "off" /\ Goto("off") /\ Cleared /\ UNCHANGED stored

\* It goes while EEPROM.save() is writing.
PowerOffInSave(S) == bpc = "save" /\ Goto("off") /\ Cleared /\ stored' = Written(eeprom, S)

\* What Zsetup does without waiting for anybody.
BootStep ==
  \/ Validate \/ ShowMenu \/ LeaveMenu \/ LoadStart \/ Open
  \/ \E n \in 0..SegLen : ReadSegment(n)
  \/ \E S \in Moves : (MediaFaults \/ S = Cell) /\ Start(S)

===============================================================================
