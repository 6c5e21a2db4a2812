------------------------------- MODULE Machine --------------------------------
(***************************************************************************)
(* The board from power-up to power-off, again and again: Zsetup (Boot),   *)
(* then a Z80 program that uses the services of the I/O engine (Services), *)
(* on the same settings, memory and card.  The debugger appears only as    *)
(* the key that lets a stopped machine go on.                              *)
(***************************************************************************)
EXTENDS Boot, Services

CONSTANT InitStored    \* what EEPROM.DAT may hold at first

ASSUME MachineAssumption ==
  InitStored \subseteq [Cell -> Byte \cup {Absent}] \cup {NoDat}

vars == <<settingVars, bankVars, ram, bootVars, serviceVars>>

MachineTypeOK == BootTypeOK /\ ServicesTypeOK

Init == BootInit /\ ServicesInit /\ stored \in InitStored

Setup ==
  /\ \/ BootStep
     \/ \E S \in Moves, pressed \in BOOLEAN : (MediaFaults \/ S = Cell) /\ PowerOn(S, pressed)
  /\ UNCHANGED serviceVars

Typed == (MenuKey \/ RetryKey) /\ UNCHANGED serviceVars

PowerFails ==
  /\ PowerOff \/ \E S \in Moves : PowerOffInSave(S)
  /\ ServicesCleared

\* A bound of the model: a program is followed until the card fails.
Runs == bpc = "run" /\ mode = "RUN" /\ ~faulted

Guest == Runs /\ ServiceStep /\ UNCHANGED bootVars

Stops ==
  /\ Runs
  /\ \E b \in GuestByte : Unknown(b)
  /\ mode' = "STOP"
  /\ UNCHANGED <<bpc, bootSelection, minBootChar, iCount, hl, at>>

\* The debugger's G.
Go ==
  /\ bpc = "run" /\ mode = "STOP"
  /\ mode' = "RUN"
  /\ UNCHANGED <<settingVars, bankVars, ram, bpc, bootSelection, minBootChar, iCount, hl, at,
                 serviceVars>>

Next == Setup \/ Typed \/ PowerFails \/ Guest \/ Stops \/ Go

\* Zsetup goes on by itself: the main task does nothing else until it is over.
Spec == Init /\ [][Next]_vars /\ WF_vars(BootStep /\ UNCHANGED serviceVars)

-------------------------------------------------------------------------------
(* Safety. *)

\* Of each setting: what is valid, and the variable it is copied to.
InForce ==
  /\ clockMode = eeprom[clockModeAddr] /\ clockMode \in {0, 1}
  /\ autoBootMode = eeprom[autoBootModeAddr] /\ autoBootMode \in {0, 1}
  /\ debugMode = eeprom[debugModeAddr] /\ debugMode \in {0, 1}
  /\ autoexecFlag = eeprom[autoexecFlagAddr] /\ autoexecFlag \in {0, 1}
  /\ diskSet = eeprom[diskSetAddr] /\ diskSet < maxDiskSet
  /\ bootMode = eeprom[bootModeAddr]

\* From its validation to the start of the Z80, and through every dialogue of the
\* menu, each setting is valid and has one value, in the array that will be saved
\* and in the variable that is used, whatever EEPROM.DAT held.
SettingsInForce ==
  /\ bpc \in BootPc \ {"off", "validate", "run"} => InForce
  /\ bpc \in {"load", "open", "waitKey", "read", "save"} => bootMode <= maxBootMode

\* Where the Z80 comes to after the first instruction, if that is the jump.
Entry == IF RamRead(0) = JP THEN RamRead(1)[2] + 256 * RamRead(2)[2] ELSE 0

\* Unless the card failed, the Z80 starts on the program the settings name: as the
\* selected bank shows it to the Z80, all of it is where it belongs, and execution
\* reaches its first byte.
StartsWhatWasChosen ==
  bpc = "save" /\ ~faulted =>
    LET p == ProgramOf(eeprom[bootModeAddr], eeprom[diskSetAddr])
    IN  /\ \A i \in 0..(Length[p] - 1) : RamRead(StrAddr[p] + i) = <<p, i>>
        /\ Entry = StrAddr[p]

\* Nobody has to be there: settings that are valid, auto boot on and the button up.
Unattended ==
  bpc = "validate" /\ bootSelection = 0
    /\ eeprom[autoBootModeAddr] = 1 /\ eeprom[bootModeAddr] <= maxBootMode

\* With auto boot on the machine starts without a key, unless the power goes or the
\* card does not open the program.
StartsUnattended == Unattended ~> bpc \in {"run", "off", "waitKey"}

\* The bytes of one DATETIME are the fields, in their order, of one reading of the
\* clock, however often the clock ticks between them.
DateTimeIsOneMoment ==
  [][ioOpcode = DATETIME /\ ioOpcode' = DATETIME /\ 0 < ioByteCnt /\ ioByteCnt < ioByteCnt'
       => ioData' = ioData + 1]_vars

-------------------------------------------------------------------------------
(* Refinement: the promises made of the settings and of the memory. *)

Effective(c, b) == IF c = bootModeAddr THEN IF b > maxBootMode THEN 255 ELSE b ELSE Valid(c, b)

\* What a file says of a cell it does not have, or without a file, is what a blank
\* array says.
EffectiveDat ==
  [c \in Cell |-> Effective(c, IF stored = NoDat THEN 255
                               ELSE IF stored[c] = Absent THEN 255 ELSE stored[c])]

Choice == [c \in Cell |-> CASE c = bootModeAddr -> 0..maxBootMode
                             [] c = diskSetAddr  -> 0..(maxDiskSet - 1)
                             [] OTHER            -> {0, 1}]

Store == INSTANCE SettingsStore WITH
           Setting <- Cell, Default <- [c \in Cell |-> Effective(c, 255)],
           committed <- EffectiveDat,
           working <- IF bpc = "off" THEN EffectiveDat ELSE [c \in Cell |-> Effective(c, eeprom[c])],
           running <- bpc = "run",
           durable <- stored # NoDat

\* The settings are a store: chosen one at a time, permanent once the Z80 runs, found
\* again at the next power-up, repaired without anybody noticing, and never changed
\* by loading, by the dialogues or by the power going at any moment.
SettingsAreKept == Store!Spec

\* The memory as banks, each where the table before SETBANK (lines 563 to 580) has
\* it, but the one the program asked for as the Z80 sees it.
Base == <<0, 2 * Half, 3 * Half>>

Banks == INSTANCE BankedMemory WITH
           Content <- GuestContent,
           common <- [a \in Half..(2 * Half - 1) |-> RamRead(a)],
           low <- [b \in 0..2 |-> [a \in 0..(Half - 1) |->
                     IF b = osBank THEN RamRead(a) ELSE ram[Base[b + 1] + a]]],
           bank <- osBank, running <- bpc = "run"

\* The Z80 has an upper half that is always there and three lower halves, selected by
\* the number SETBANK is sent; no write is seen in another bank, a number out of range
\* selects nothing, and the bank selected at first is the one the boot loads.
BanksAreSeparate == Banks!Spec

-------------------------------------------------------------------------------
(* What the comments of the engine say, and the code does not do. *)

\* "I/O DATA 0: EPROM address (output)", "I/O DATA 1: EPROM data (input/output)",
\* "Reads/Writes 1 bytes into the EEPROM" (lines 658 to 666): the byte sent after
\* the address is in the EEPROM.
EepromWrittenAsDocumented ==
  [][ioOpcode = RDWREEPROM /\ ioOpcode' = RDWREEPROM /\ addressed /\ addressed'
       /\ ioByteCnt = ioByteCnt' /\ ioData' # ioData /\ eepromOffset \in Cell
       => eeprom'[eepromOffset] = ioData']_vars

===============================================================================
