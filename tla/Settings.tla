------------------------------- MODULE Settings -------------------------------
(***************************************************************************)
(* The settings of the emulated board: the array of struct Eeprom          *)
(* (Z80_MBC2System.h), the file EEPROM.DAT that outlives the power, and    *)
(* the global variables of SimZ80_MBC2.cpp the settings are copied to.     *)
(* The boot menu and the Z80 program share all of them.                    *)
(*                                                                         *)
(* Of the 256 cells the model keeps the six the emulator reads.  One fread *)
(* or fwrite moves the whole array; cut short by the end of the file, the  *)
(* card or the power, it moves the cells below some address.               *)
(***************************************************************************)
EXTENDS Integers

CONSTANTS
  maxDiskSet,    \* number of configured disk sets (5)
  Absent,        \* a cell past the end of EEPROM.DAT
  NoDat,         \* there is no file EEPROM.DAT on the card
  CutAt,         \* the addresses a transfer of the array may end at (256: it is whole)
  MediaFaults    \* whether the card may cut a transfer short

bootModeAddr     == 10
autoexecFlagAddr == 12
clockModeAddr    == 13
diskSetAddr      == 14
debugModeAddr    == 15
autoBootModeAddr == 16

Cell == {bootModeAddr, autoexecFlagAddr, clockModeAddr, diskSetAddr, debugModeAddr,
         autoBootModeAddr}

Byte == 0..255
maxBootMode == 4

ASSUME SettingsAssumption ==
  /\ maxDiskSet \in 1..5
  /\ Absent \notin Byte
  /\ NoDat \notin [Cell -> Byte \cup {Absent}]
  /\ CutAt \subseteq 0..256 /\ 256 \in CutAt
  /\ MediaFaults \in BOOLEAN

VARIABLES
  eeprom,         \* EEPROM.eeprom
  stored,         \* the bytes of EEPROM.DAT, or NoDat
  clockMode, autoBootMode, debugMode, diskSet, autoexecFlag, bootMode,
  Z80IntEnFlag,   \* whether a received character interrupts the Z80
  faulted         \* history: the card has cut a transfer short since power-up

globals == <<clockMode, autoBootMode, debugMode, diskSet, autoexecFlag, bootMode>>
settingVars == <<eeprom, stored, globals, Z80IntEnFlag, faulted>>

\* Eeprom::Eeprom()
Blank == [c \in Cell |-> 255]

SettingsTypeOK ==
  /\ eeprom \in [Cell -> Byte]
  /\ stored \in [Cell -> Byte \cup {Absent}] \cup {NoDat}
  /\ clockMode \in Byte /\ autoBootMode \in Byte /\ debugMode \in Byte
  /\ diskSet \in Byte /\ autoexecFlag \in Byte /\ bootMode \in Byte
  /\ Z80IntEnFlag \in {0, 1}
  /\ faulted \in BOOLEAN

\* The cells a transfer cut short may have moved.
Below(a) == {c \in Cell : c < a}
Moves == {Below(a) : a \in CutAt}

\* Eeprom::update()
Update(c, b) == eeprom' = [eeprom EXCEPT ![c] = b]

\* What Eeprom::load() leaves in the array when the cells S are moved.  The array
\* was blank, and stays blank where the file has nothing.
Loaded(S) ==
  [c \in Cell |-> IF stored # NoDat /\ c \in S
                  THEN IF stored[c] = Absent THEN eeprom[c] ELSE stored[c]
                  ELSE eeprom[c]]

\* What load() returns: an error for a file that cannot be opened, and for nothing
\* else.
LoadError == stored = NoDat

\* What EEPROM.DAT holds when the cells S of the array ee have been written to it.
\* In spite of O_CREAT, open() opens only a file that is there.
Written(ee, S) == IF stored = NoDat THEN NoDat
                  ELSE [c \in Cell |-> IF c \in S THEN ee[c] ELSE stored[c]]

===============================================================================
