---------------------------- MODULE MachineProofs -----------------------------
(***************************************************************************)
(* Theorems about the board, for every size of its memory, every set of    *)
(* programs that fit into it, whatever EEPROM.DAT holds, whatever is typed *)
(* and whatever the Z80 program does.                                      *)
(***************************************************************************)
EXTENDS Machine, TLAPS

-------------------------------------------------------------------------------
(* The settings: types and validity. *)

Stored == [Cell -> Byte \cup {Absent}] \cup {NoDat}
MenuPc == BootPc \ {"off", "validate", "run"}
LoadPc == {"load", "open", "waitKey", "read", "save"}
EmptyPc == {"off", "validate", "menu", "key", "disk", "load"}

\* The disk set that the menu offers exists.
OfferedExists == bpc = "disk" => iCount < maxDiskSet

SettingsInv ==
  /\ SettingsTypeOK /\ SettingsInForce /\ OfferedExists
  /\ bpc \in BootPc /\ iCount \in Byte /\ minBootChar \in {Digit(0), Digit(1)}

LEMMA CellFacts ==
  /\ bootModeAddr \in Cell /\ autoexecFlagAddr \in Cell /\ clockModeAddr \in Cell
  /\ diskSetAddr \in Cell /\ debugModeAddr \in Cell /\ autoBootModeAddr \in Cell
  /\ bootModeAddr # autoexecFlagAddr /\ bootModeAddr # clockModeAddr
  /\ bootModeAddr # diskSetAddr /\ bootModeAddr # debugModeAddr
  /\ bootModeAddr # autoBootModeAddr /\ autoexecFlagAddr # clockModeAddr
  /\ autoexecFlagAddr # diskSetAddr /\ autoexecFlagAddr # debugModeAddr
  /\ autoexecFlagAddr # autoBootModeAddr /\ clockModeAddr # diskSetAddr
  /\ clockModeAddr # debugModeAddr /\ clockModeAddr # autoBootModeAddr
  /\ diskSetAddr # debugModeAddr /\ diskSetAddr # autoBootModeAddr
  /\ debugModeAddr # autoBootModeAddr
BY DEF Cell, bootModeAddr, autoexecFlagAddr, clockModeAddr, diskSetAddr, debugModeAddr,
       autoBootModeAddr

\* What is left of the settings when their array is all right.
LEMMA LoadedIsTyped ==
  ASSUME SettingsTypeOK, NEW S PROVE Loaded(S) \in [Cell -> Byte]
<1>1. eeprom \in [Cell -> Byte] /\ stored \in Stored
  BY DEF SettingsTypeOK, Stored
<1>2. ASSUME NEW c \in Cell, stored # NoDat, stored[c] # Absent PROVE stored[c] \in Byte
  BY <1>1, <1>2 DEF Stored
<1>3. ASSUME NEW c \in Cell
      PROVE (IF stored # NoDat /\ c \in S
             THEN IF stored[c] = Absent THEN eeprom[c] ELSE stored[c]
             ELSE eeprom[c]) \in Byte
  BY <1>1, <1>2
<1>4. QED BY <1>3 DEF Loaded

LEMMA WrittenIsTyped ==
  ASSUME NEW ee \in [Cell -> Byte], NEW S, stored \in Stored
  PROVE  Written(ee, S) \in Stored
<1>1. CASE stored = NoDat
  BY <1>1 DEF Written, Stored
<1>2. CASE stored # NoDat
  <2>1. stored \in [Cell -> Byte \cup {Absent}]
    BY <1>2 DEF Stored
  <2>2. \A c \in Cell : (IF c \in S THEN ee[c] ELSE stored[c]) \in Byte \cup {Absent}
    BY <2>1
  <2>3. [c \in Cell |-> IF c \in S THEN ee[c] ELSE stored[c]] \in [Cell -> Byte \cup {Absent}]
    BY <2>2
  <2>4. QED BY <1>2, <2>3 DEF Written, Stored
<1>3. QED BY <1>1, <1>2

LEMMA ValidIsValid ==
  ASSUME NEW c \in Cell, NEW b \in Byte
  PROVE  /\ Valid(c, b) \in Byte
         /\ c = diskSetAddr => Valid(c, b) < maxDiskSet
         /\ c \notin {diskSetAddr, bootModeAddr} => Valid(c, b) \in {0, 1}
<1>1. maxDiskSet \in 1..5
  BY SettingsAssumption
<1>2. CASE c = clockModeAddr
  BY <1>2 DEF Valid, Byte, clockModeAddr, diskSetAddr, bootModeAddr
<1>3. CASE c = diskSetAddr
  BY <1>1, <1>3 DEF Valid, Byte, clockModeAddr, diskSetAddr, bootModeAddr
<1>4. CASE c = bootModeAddr
  BY <1>4 DEF Valid, Byte, clockModeAddr, diskSetAddr, bootModeAddr
<1>5. CASE c \notin {clockModeAddr, diskSetAddr, bootModeAddr}
  BY <1>5 DEF Valid, Byte, clockModeAddr, diskSetAddr, bootModeAddr
<1>6. QED BY <1>2, <1>3, <1>4, <1>5

-------------------------------------------------------------------------------
(* The settings: the invariant, action by action. *)

\* A choice of the menu, on an array in which all settings but the boot mode are in
\* force already.
LEMMA ChosenKeeps ==
  ASSUME SettingsTypeOK, NEW ch \in 48..57, NEW ee \in [Cell -> Byte], Chosen(ch, ee),
         clockMode = ee[clockModeAddr], clockMode \in {0, 1},
         autoBootMode' = ee[autoBootModeAddr], autoBootMode' \in {0, 1},
         debugMode' = ee[debugModeAddr], debugMode' \in {0, 1},
         autoexecFlag' = ee[autoexecFlagAddr], autoexecFlag' \in {0, 1},
         diskSet' = ee[diskSetAddr], diskSet' \in Byte, diskSet' < maxDiskSet
  PROVE  SettingsTypeOK' /\ InForce' /\ bpc' = "menu"
<1> DEFINE m == (ch - Digit(1)) % 256
<1>1. m \in Byte
  BY DEF Byte, Digit
<1>2. /\ bpc' = "menu" /\ clockMode' = clockMode
      /\ stored' = stored /\ Z80IntEnFlag' = Z80IntEnFlag /\ faulted' = faulted
  BY DEF Chosen, Goto
<1>3. /\ eeprom' \in [Cell -> Byte] /\ bootMode' \in Byte /\ bootMode' = eeprom'[bootModeAddr]
      /\ \A c \in Cell : c # bootModeAddr => eeprom'[c] = ee[c]
  <2>1. CASE m <= maxBootMode
    <3>1. bootMode' = m /\ eeprom' = [ee EXCEPT ![bootModeAddr] = m]
      BY <2>1 DEF Chosen
    <3>2. QED BY <1>1, <3>1, CellFacts
  <2>2. CASE ~(m <= maxBootMode)
    <3>1. bootMode' = ee[bootModeAddr] /\ eeprom' = ee
      BY <2>2 DEF Chosen
    <3>2. QED BY <3>1, CellFacts
  <2>3. QED BY <2>1, <2>2
<1> HIDE DEF m
<1>4. InForce'
  BY <1>2, <1>3, CellFacts DEF InForce
<1>5. SettingsTypeOK'
  <2>1. 0 \in Byte /\ 1 \in Byte
    BY DEF Byte
  <2>2. QED BY <1>2, <1>3, <2>1 DEF SettingsTypeOK
<1>6. QED BY <1>2, <1>4, <1>5

\* While the menu is shown the settings are in force.
LEMMA MenuInForce ==
  ASSUME SettingsInv, bpc \in MenuPc
  PROVE  /\ InForce /\ SettingsTypeOK /\ maxDiskSet \in 1..5
         /\ eeprom \in [Cell -> Byte] /\ diskSet \in Byte
BY SettingsAssumption DEF SettingsInv, SettingsInForce, SettingsTypeOK, MenuPc

LEMMA NextSetIsASet == ASSUME NEW n \in Nat PROVE NextSet(n) \in Byte /\ NextSet(n) < maxDiskSet
<1>1. maxDiskSet \in 1..5
  BY SettingsAssumption
<1>2. (n + 1) % maxDiskSet \in 0..(maxDiskSet - 1)
  BY <1>1
<1>3. QED BY <1>1, <1>2 DEF NextSet, Byte

LEMMA KeyProgramKeeps ==
  ASSUME SettingsInv, NEW ch \in Key, KeyProgram(ch) PROVE SettingsInv'
<1>1. ch \in 48..57
  BY BootAssumption DEF KeyProgram, Takes, SettingsInv, Digit
<1>2. bpc \in MenuPc
  BY DEF KeyProgram, MenuPc, BootPc
<1>3. /\ Chosen(ch, eeprom) /\ iCount' = iCount /\ minBootChar' = minBootChar
      /\ autoBootMode' = autoBootMode /\ debugMode' = debugMode
      /\ diskSet' = diskSet /\ autoexecFlag' = autoexecFlag
  BY DEF KeyProgram, Chosen
<1>4. SettingsTypeOK' /\ InForce' /\ bpc' = "menu"
  BY <1>1, <1>2, <1>3, MenuInForce, ChosenKeeps DEF InForce
<1>5. QED BY <1>3, <1>4 DEF SettingsInv, SettingsInForce, OfferedExists, BootPc

LEMMA KeyToggleKeeps ==
  ASSUME SettingsInv, NEW ch \in Key, KeyToggle(ch) PROVE SettingsInv'
<1> DEFINE ee == [eeprom EXCEPT ![Toggles[ch]] = CASE ch = Digit(6) -> debugMode'
                                                   [] ch = Digit(7) -> autoexecFlag'
                                                   [] ch = Digit(9) -> autoBootMode']
<1>1. ch \in {54, 55, 57} /\ bpc \in MenuPc
  BY DEF KeyToggle, MenuPc, BootPc, Toggles, Digit
<1>2. /\ debugMode' = IF ch = 54 THEN 1 - debugMode ELSE debugMode
      /\ autoexecFlag' = IF ch = 55 THEN 1 - autoexecFlag ELSE autoexecFlag
      /\ autoBootMode' = IF ch = 57 THEN 1 - autoBootMode ELSE autoBootMode
      /\ diskSet' = diskSet /\ iCount' = iCount
  BY DEF KeyToggle, Digit
<1>3. Chosen(ch, ee)
  BY DEF KeyToggle
<1>4. minBootChar' = minBootChar
  BY <1>3 DEF Chosen
<1> HIDE DEF ee
<1>5. InForce /\ eeprom \in [Cell -> Byte] /\ diskSet \in Byte /\ SettingsTypeOK
  BY <1>1, MenuInForce
<1>6. /\ debugMode' \in {0, 1} /\ autoexecFlag' \in {0, 1} /\ autoBootMode' \in {0, 1}
  BY <1>2, <1>5 DEF InForce
<1>7. /\ ee \in [Cell -> Byte]
      /\ autoBootMode' = ee[autoBootModeAddr] /\ debugMode' = ee[debugModeAddr]
      /\ autoexecFlag' = ee[autoexecFlagAddr]
      /\ clockMode = ee[clockModeAddr] /\ diskSet' = ee[diskSetAddr]
  <2>1. CASE ch = 54
    <3>1. ee = [eeprom EXCEPT ![debugModeAddr] = debugMode']
      BY <2>1 DEF ee, Toggles, Digit
    <3>2. /\ ee \in [Cell -> Byte] /\ ee[debugModeAddr] = debugMode'
          /\ \A c \in Cell : c # debugModeAddr => ee[c] = eeprom[c]
      BY <1>5, <1>6, <3>1, CellFacts DEF Byte
    <3>3. QED BY <1>2, <1>5, <2>1, <3>2, CellFacts DEF InForce
  <2>2. CASE ch = 55
    <3>1. ee = [eeprom EXCEPT ![autoexecFlagAddr] = autoexecFlag']
      BY <2>2 DEF ee, Toggles, Digit
    <3>2. /\ ee \in [Cell -> Byte] /\ ee[autoexecFlagAddr] = autoexecFlag'
          /\ \A c \in Cell : c # autoexecFlagAddr => ee[c] = eeprom[c]
      BY <1>5, <1>6, <3>1, CellFacts DEF Byte
    <3>3. QED BY <1>2, <1>5, <2>2, <3>2, CellFacts DEF InForce
  <2>3. CASE ch = 57
    <3>1. ee = [eeprom EXCEPT ![autoBootModeAddr] = autoBootMode']
      BY <2>3 DEF ee, Toggles, Digit
    <3>2. /\ ee \in [Cell -> Byte] /\ ee[autoBootModeAddr] = autoBootMode'
          /\ \A c \in Cell : c # autoBootModeAddr => ee[c] = eeprom[c]
      BY <1>5, <1>6, <3>1, CellFacts DEF Byte
    <3>3. QED BY <1>2, <1>5, <2>3, <3>2, CellFacts DEF InForce
  <2>4. QED BY <1>1, <2>1, <2>2, <2>3
<1>8. ch \in 48..57 /\ diskSet' \in Byte /\ diskSet' < maxDiskSet /\ clockMode \in {0, 1}
  BY <1>1, <1>2, <1>5 DEF InForce
<1>9. SettingsTypeOK' /\ InForce' /\ bpc' = "menu"
  BY <1>5, <1>6, <1>7, <1>8, <1>3, ChosenKeeps
<1>10. QED BY <1>2, <1>9, <1>4 DEF SettingsInv, SettingsInForce, OfferedExists, BootPc

LEMMA DiskKeysKeep ==
  ASSUME SettingsInv, DiskAccept \/ DiskEscape PROVE SettingsInv'
<1>1. bpc = "disk" /\ bpc \in MenuPc
  BY DEF DiskAccept, DiskEscape, MenuPc, BootPc
<1>2. InForce /\ eeprom \in [Cell -> Byte] /\ diskSet \in Byte /\ SettingsTypeOK
      /\ iCount \in Byte /\ iCount < maxDiskSet
  BY <1>1, MenuInForce DEF SettingsInv, OfferedExists
<1>3. /\ iCount' = iCount /\ minBootChar' = minBootChar
      /\ autoBootMode' = autoBootMode /\ debugMode' = debugMode /\ autoexecFlag' = autoexecFlag
  BY DEF DiskAccept, DiskEscape, Chosen
<1>4. \E e \in [Cell -> Byte] :
        /\ Chosen(56, e)
        /\ clockMode = e[clockModeAddr] /\ autoBootMode' = e[autoBootModeAddr]
        /\ debugMode' = e[debugModeAddr] /\ autoexecFlag' = e[autoexecFlagAddr]
        /\ diskSet' = e[diskSetAddr] /\ diskSet' \in Byte /\ diskSet' < maxDiskSet
  <2>1. CASE DiskAccept
    <3> DEFINE e == [eeprom EXCEPT ![diskSetAddr] = iCount]
    <3>1. Chosen(56, e) /\ diskSet' = iCount
      BY <2>1 DEF DiskAccept, Digit
    <3>2. /\ e \in [Cell -> Byte] /\ e[diskSetAddr] = iCount
          /\ \A c \in Cell : c # diskSetAddr => e[c] = eeprom[c]
      BY <1>2, CellFacts
    <3> HIDE DEF e
    <3>3. QED BY <1>2, <1>3, <3>1, <3>2, CellFacts DEF InForce
  <2>2. CASE DiskEscape
    <3>1. Chosen(56, eeprom) /\ diskSet' = diskSet
      BY <2>2 DEF DiskEscape, Digit
    <3>2. QED BY <1>2, <1>3, <3>1 DEF InForce
  <2>3. QED BY <2>1, <2>2
<1>5. /\ clockMode \in {0, 1} /\ autoBootMode' \in {0, 1}
      /\ debugMode' \in {0, 1} /\ autoexecFlag' \in {0, 1}
  BY <1>2, <1>3 DEF InForce
<1>6. SettingsTypeOK' /\ InForce' /\ bpc' = "menu"
  BY <1>2, <1>4, <1>5, ChosenKeeps
<1>7. QED BY <1>3, <1>6 DEF SettingsInv, SettingsInForce, OfferedExists, BootPc

\* The other keys, and what is done without one, leave the settings alone.
LEMMA DialogueKeeps ==
  ASSUME SettingsInv,
         ShowMenu \/ LeaveMenu \/ KeyDiskSet \/ (\E ch \in Key : KeyRefused(ch) \/ DiskOther(ch))
           \/ Open \/ RetryKey
  PROVE  SettingsInv'
<1>1. /\ UNCHANGED settingVars /\ bpc \in MenuPc /\ bpc' \in MenuPc
      /\ minBootChar' \in {Digit(0), Digit(1)}
      /\ bpc' \in LoadPc => bpc \in LoadPc \/ bootMode <= maxBootMode
      /\ iCount' \in Byte /\ (bpc' = "disk" => iCount' < maxDiskSet)
  <2>1. CASE ShowMenu
    BY <2>1 DEF SettingsInv, ShowMenu, Goto, MenuPc, BootPc, LoadPc
  <2>2. CASE LeaveMenu
    BY <2>2 DEF SettingsInv, LeaveMenu, MenuWanted, Goto, MenuPc, BootPc, LoadPc, SettingsTypeOK,
                Byte, maxBootMode
  <2>3. CASE KeyDiskSet
    <3>1. diskSet \in Nat
      BY DEF SettingsInv, SettingsTypeOK, Byte
    <3>2. QED BY <2>3, <3>1, NextSetIsASet DEF SettingsInv, KeyDiskSet, Goto, MenuPc, BootPc, LoadPc
  <2>4. CASE \E ch \in Key : KeyRefused(ch)
    BY <2>4 DEF SettingsInv, KeyRefused, Goto, MenuPc, BootPc, LoadPc
  <2>5. CASE \E ch \in Key : DiskOther(ch)
    <3>1. iCount \in Nat
      BY DEF SettingsInv, Byte
    <3>2. QED BY <2>5, <3>1, NextSetIsASet DEF SettingsInv, DiskOther, Goto, MenuPc, BootPc, LoadPc
  <2>6. CASE Open \/ RetryKey
    BY <2>6 DEF SettingsInv, Open, RetryKey, Goto, MenuPc, BootPc, LoadPc
  <2>7. QED BY <2>1, <2>2, <2>3, <2>4, <2>5, <2>6
<1>2. SettingsTypeOK'
  BY <1>1 DEF SettingsInv, SettingsTypeOK, settingVars, globals
<1>3. InForce'
  <2>1. InForce
    BY <1>1, MenuInForce
  <2>2. QED BY <1>1, <2>1 DEF InForce, settingVars, globals
<1>4. SettingsInForce'
  BY <1>1, <1>3 DEF SettingsInv, SettingsInForce, LoadPc, settingVars, globals
<1>5. QED BY <1>1, <1>2, <1>4 DEF SettingsInv, OfferedExists, MenuPc

LEMMA LoadKeeps ==
  ASSUME SettingsInv, LoadStart \/ (\E n \in 0..SegLen : ReadSegment(n))
  PROVE  SettingsInv'
<1>1. /\ UNCHANGED <<eeprom, stored, globals, iCount, minBootChar>>
      /\ bpc \in LoadPc /\ bpc' \in {"open", "read", "save"}
      /\ Z80IntEnFlag' \in {0, 1} /\ faulted' \in BOOLEAN
  <2>1. CASE LoadStart
    BY <2>1 DEF SettingsInv, SettingsTypeOK, LoadStart, Goto, LoadPc
  <2>2. CASE \E n \in 0..SegLen : ReadSegment(n)
    BY <2>2 DEF SettingsInv, SettingsTypeOK, ReadSegment, Goto, LoadPc
  <2>3. QED BY <2>1, <2>2
<1>2. SettingsTypeOK'
  BY <1>1 DEF SettingsInv, SettingsTypeOK, globals
<1>3. bpc \in MenuPc /\ bpc' \in MenuPc /\ bpc' # "disk"
  BY <1>1 DEF LoadPc, MenuPc, BootPc
<1>4. InForce'
  <2>1. InForce
    BY <1>3, MenuInForce
  <2>2. QED BY <1>1, <2>1 DEF InForce, globals
<1>5. SettingsInForce'
  BY <1>1, <1>3, <1>4 DEF SettingsInv, SettingsInForce, LoadPc, globals
<1>6. QED BY <1>1, <1>2, <1>3, <1>5 DEF SettingsInv, OfferedExists, MenuPc

LEMMA ValidateKeeps == ASSUME SettingsInv, Validate PROVE SettingsInv'
<1>1. /\ eeprom' = [c \in Cell |-> Valid(c, eeprom[c])]
      /\ clockMode' = eeprom'[clockModeAddr] /\ autoBootMode' = eeprom'[autoBootModeAddr]
      /\ debugMode' = eeprom'[debugModeAddr] /\ diskSet' = eeprom'[diskSetAddr]
      /\ autoexecFlag' = eeprom'[autoexecFlagAddr] /\ bootMode' = eeprom'[bootModeAddr]
      /\ bpc' = "menu" /\ UNCHANGED <<stored, Z80IntEnFlag, faulted, minBootChar, iCount>>
  BY DEF Validate, Goto
<1>2. \A c \in Cell : eeprom[c] \in Byte
  BY DEF SettingsInv, SettingsTypeOK
<1>3. /\ \A c \in Cell : eeprom'[c] \in Byte
      /\ eeprom'[diskSetAddr] < maxDiskSet
      /\ \A c \in Cell : c \notin {diskSetAddr, bootModeAddr} => eeprom'[c] \in {0, 1}
  BY <1>1, <1>2, ValidIsValid, CellFacts
<1>4. eeprom' \in [Cell -> Byte]
  BY <1>1, <1>3
<1>5. InForce'
  BY <1>1, <1>3, CellFacts DEF InForce
<1>6. SettingsTypeOK'
  BY <1>1, <1>3, <1>4, CellFacts DEF SettingsInv, SettingsTypeOK
<1>7. QED BY <1>1, <1>5, <1>6 DEF SettingsInv, SettingsInForce, OfferedExists, BootPc

LEMMA PowerOnKeeps ==
  ASSUME SettingsInv, NEW S, NEW pressed, PowerOn(S, pressed) PROVE SettingsInv'
<1>1. /\ eeprom' = Loaded(S) /\ faulted' \in BOOLEAN /\ bpc' = "validate"
      /\ UNCHANGED <<stored, globals, Z80IntEnFlag, minBootChar, iCount>>
  BY DEF PowerOn, Goto
<1>2. eeprom' \in [Cell -> Byte]
  BY <1>1, LoadedIsTyped DEF SettingsInv
<1>3. SettingsTypeOK'
  BY <1>1, <1>2 DEF SettingsInv, SettingsTypeOK, globals
<1>4. QED BY <1>1, <1>3 DEF SettingsInv, SettingsInForce, OfferedExists, BootPc

LEMMA StartKeeps == ASSUME SettingsInv, NEW S, Start(S) PROVE SettingsInv'
<1>1. /\ stored' = Written(eeprom, S) /\ faulted' \in BOOLEAN /\ bpc' = "run"
      /\ UNCHANGED <<eeprom, globals, Z80IntEnFlag, minBootChar, iCount>>
  BY DEF Start, Goto, SettingsInv, SettingsTypeOK
<1>2. stored' \in Stored
  BY <1>1, WrittenIsTyped DEF SettingsInv, SettingsTypeOK, Stored
<1>3. SettingsTypeOK'
  BY <1>1, <1>2 DEF SettingsInv, SettingsTypeOK, globals, Stored
<1>4. QED BY <1>1, <1>3 DEF SettingsInv, SettingsInForce, OfferedExists, BootPc

LEMMA PowerFailsKeeps == ASSUME SettingsInv, PowerFails PROVE SettingsInv'
<1>1. Cleared /\ bpc' = "off"
  BY DEF PowerFails, PowerOff, PowerOffInSave, Goto
<1>2. stored' \in Stored
  <2>1. CASE PowerOff
    BY <2>1 DEF PowerOff, SettingsInv, SettingsTypeOK, Stored
  <2>2. CASE \E S \in Moves : PowerOffInSave(S)
    BY <2>2, WrittenIsTyped DEF PowerOffInSave, SettingsInv, SettingsTypeOK, Stored
  <2>3. QED BY <2>1, <2>2 DEF PowerFails
<1>3. eeprom' \in [Cell -> Byte]
  BY <1>1 DEF Cleared, Blank, Byte
<1>4. /\ clockMode' = 0 /\ autoBootMode' = 0 /\ debugMode' = 0 /\ diskSet' = 0
      /\ autoexecFlag' = 0 /\ bootMode' = 0 /\ Z80IntEnFlag' = 0 /\ faulted' = FALSE
      /\ iCount' = 0 /\ minBootChar' = Digit(1)
  BY <1>1 DEF Cleared
<1>5. 0 \in Byte
  BY DEF Byte
<1>6. SettingsTypeOK'
  BY <1>2, <1>3, <1>4, <1>5 DEF SettingsTypeOK, Stored
<1>7. QED BY <1>1, <1>4, <1>5, <1>6 DEF SettingsInv, SettingsInForce, OfferedExists, BootPc

\* The program changes the array by EEPROM's service only, and no variable.
LEMMA GuestKeeps ==
  ASSUME SettingsInv, bpc = "run", UNCHANGED <<globals, Z80IntEnFlag, bpc, iCount, minBootChar>>,
         eeprom' \in [Cell -> Byte], stored' \in Stored, faulted' \in BOOLEAN
  PROVE  SettingsInv'
<1>1. SettingsTypeOK'
  BY DEF SettingsInv, SettingsTypeOK, globals, Stored
<1>2. QED BY <1>1 DEF SettingsInv, SettingsInForce, OfferedExists, BootPc

LEMMA ServiceKeeps == ASSUME SettingsInv, Guest PROVE SettingsInv'
<1>1. bpc = "run" /\ UNCHANGED <<bpc, iCount, minBootChar>> /\ ServiceStep
  BY DEF Guest, Runs, bootVars
<1>2. eeprom \in [Cell -> Byte] /\ stored \in Stored /\ faulted \in BOOLEAN
  BY DEF SettingsInv, SettingsTypeOK, Stored
<1>3. CASE UNCHANGED settingVars
  BY <1>1, <1>2, <1>3, GuestKeeps DEF settingVars
<1>4. CASE \E b \in GuestByte, S \in Moves : EepromWrite(b, S)
  <2>1. PICK b \in GuestByte, S \in Moves : EepromWrite(b, S)
    BY <1>4
  <2>2. /\ eeprom' = [eeprom EXCEPT ![eepromOffset] = b] /\ stored' = Written(eeprom', S)
        /\ faulted' \in BOOLEAN /\ UNCHANGED <<globals, Z80IntEnFlag>>
    BY <1>2, <2>1 DEF EepromWrite, Update
  <2>3. b \in Byte
    BY ServicesAssumption
  <2>4. eeprom' \in [Cell -> Byte]
    BY <1>2, <2>2, <2>3
  <2>5. stored' \in Stored
    BY <1>2, <2>2, <2>4, WrittenIsTyped
  <2>6. QED BY <1>1, <2>2, <2>4, <2>5, GuestKeeps
<1>5. QED
  <2>1. ASSUME NEW op, StoreOpcode(op) PROVE UNCHANGED settingVars
    BY <2>1 DEF StoreOpcode
  <2>2. ASSUME NEW b, SetBankOp(b) \/ Ignored(b) \/ EepromAddress(b) \/ EepromDropped(b)
        PROVE  UNCHANGED settingVars
    BY <2>2 DEF SetBankOp, Ignored, EepromAddress, EepromDropped
  <2>3. ASSUME NothingToRead \/ EepromRead \/ DateTime \/ DateTimeOver
        PROVE  UNCHANGED settingVars
    BY <2>3 DEF NothingToRead, EepromRead, DateTime, DateTimeOver, Answered
  <2>4. ASSUME NEW a, NEW v, WriteMemory(a, v) PROVE UNCHANGED settingVars
    BY <2>4 DEF WriteMemory
  <2>5. QED BY <1>1, <1>3, <1>4, <2>1, <2>2, <2>3, <2>4 DEF ServiceStep

LEMMA SettingsInitially == Init => SettingsInv
<1> SUFFICES ASSUME Init PROVE SettingsInv
  OBVIOUS
<1>1. stored \in Stored
  BY MachineAssumption DEF Init, Stored
<1>2. BootInit
  BY DEF Init
<1>3. eeprom \in [Cell -> Byte]
  BY <1>2 DEF BootInit, Blank, Byte
<1>4. /\ clockMode = 0 /\ autoBootMode = 0 /\ debugMode = 0 /\ diskSet = 0
      /\ autoexecFlag = 0 /\ bootMode = 0 /\ Z80IntEnFlag = 0 /\ faulted = FALSE
      /\ iCount = 0 /\ minBootChar = Digit(1) /\ bpc = "off"
  BY <1>2 DEF BootInit
<1>5. 0 \in Byte
  BY DEF Byte
<1>6. SettingsTypeOK
  BY <1>1, <1>3, <1>4, <1>5 DEF SettingsTypeOK, Stored
<1>7. QED BY <1>4, <1>5, <1>6 DEF SettingsInv, SettingsInForce, OfferedExists, BootPc

LEMMA SettingsStep == SettingsInv /\ [Next]_vars => SettingsInv'
<1> SUFFICES ASSUME SettingsInv, [Next]_vars PROVE SettingsInv'
  OBVIOUS
<1>1. CASE Setup
  <2>1. ASSUME BootStep PROVE SettingsInv'
    BY <2>1, ValidateKeeps, DialogueKeeps, LoadKeeps, StartKeeps DEF BootStep
  <2>2. ASSUME NEW S \in Moves, NEW pressed \in BOOLEAN, PowerOn(S, pressed) PROVE SettingsInv'
    BY <2>2, PowerOnKeeps
  <2>3. QED BY <1>1, <2>1, <2>2 DEF Setup
<1>2. CASE Typed
  <2>1. ASSUME NEW ch \in Key, KeyProgram(ch) \/ KeyToggle(ch) PROVE SettingsInv'
    BY <2>1, KeyProgramKeeps, KeyToggleKeeps
  <2>2. QED BY <1>2, <2>1, DialogueKeeps, DiskKeysKeep DEF Typed, MenuKey
<1>3. CASE PowerFails
  BY <1>3, PowerFailsKeeps
<1>4. CASE Guest
  BY <1>4, ServiceKeeps
<1>5. CASE Stops \/ Go
  <2>1. bpc = "run" /\ UNCHANGED <<settingVars, bpc, iCount, minBootChar>>
    BY <1>5 DEF Stops, Go, Runs, Unknown
  <2>2. QED BY <2>1, GuestKeeps DEF settingVars, SettingsInv, SettingsTypeOK, Stored
<1>6. CASE UNCHANGED vars
  BY <1>6 DEF vars, settingVars, globals, bootVars, SettingsInv, SettingsTypeOK, SettingsInForce,
              InForce, OfferedExists
<1>7. QED BY <1>1, <1>2, <1>3, <1>4, <1>5, <1>6 DEF Next

\* From the validation of what EEPROM.DAT held to the start of the Z80, and through
\* every dialogue of the menu, the settings are valid and the same in the array that
\* will be saved and in the variables that are used.
THEOREM SettingsInForceHolds == Spec => []SettingsInForce
<1>1. Spec => []SettingsInv
  BY SettingsInitially, SettingsStep, PTL DEF Spec
<1>2. SettingsInv => SettingsInForce
  BY DEF SettingsInv
<1>3. QED BY <1>1, <1>2, PTL

-------------------------------------------------------------------------------
(* The program in memory. *)

ByteOf(p, i) == <<p, i>>

\* The first n bytes of a program are at its address.
Holds(mem, p, n) == \A i \in 0..(n - 1) : mem[StrAddr[p] + i] = ByteOf(p, i)

\* The first instruction leads there.
JumpsTo(mem, p) ==
  IF StrAddr[p] = 0 THEN mem[0] # JP
  ELSE /\ mem[0] = JP
       /\ mem[1] = <<"low", StrAddr[p] % 256>> /\ mem[2] = <<"high", StrAddr[p] \div 256>>

\* Memory is empty until a program is loaded; then its first bytes are there, as many
\* as the file has been read, and where the next goes is the place of the next.
LoadFollows ==
  /\ bpc \in EmptyPc => ram = [p \in Phys |-> Unwritten]
  /\ bpc \in {"open", "waitKey", "read"} =>
       /\ bootMode < maxBootMode /\ at \in 0..Length[prog] /\ hl = StrAddr[prog] + at
       /\ JumpsTo(ram, prog) /\ Holds(ram, prog, at)
  /\ bpc \in {"open", "waitKey"} => at = 0
  /\ bpc = "save" /\ ~faulted => JumpsTo(ram, prog) /\ Holds(ram, prog, Length[prog])

LoadInv == ram \in [Phys -> Content] /\ LoadFollows

LEMMA ProgIsAProgram == ASSUME SettingsInv, bpc \in LoadPc PROVE prog \in Program
<1>1. InForce /\ maxDiskSet \in 1..5
  BY MenuInForce DEF LoadPc, MenuPc, BootPc
<1>2. diskSet \in 0..4 /\ bootMode \in 0..4
  BY <1>1 DEF InForce, SettingsInv, SettingsInForce, SettingsTypeOK, Byte, LoadPc, maxBootMode
<1>3. OsName[diskSet + 1] \in OsNames
  BY <1>2 DEF OsNames
<1>4. QED BY <1>2, <1>3 DEF prog, ProgramOf, Program

LEMMA ProgramFits ==
  ASSUME NEW p \in Program
  PROVE  /\ StrAddr[p] \in Nat /\ Length[p] \in Nat /\ Half \in Nat \ {0}
         /\ StrAddr[p] < 2 * Half /\ StrAddr[p] + Length[p] <= 2 * Half
         /\ StrAddr[p] = 0 \/ StrAddr[p] >= 3
BY BootAssumption, BankedRamAssumption DEF Addr

\* The jump is in the memory the Z80 has at first, in the first three bytes.
LEMMA WithJumpIs ==
  ASSUME NEW p \in Program, NEW mem \in [Phys -> Content], mem[0] # JP
  PROVE  /\ WithJump(mem, StrAddr[p]) \in [Phys -> Content]
         /\ \A x \in Phys : x >= 3 => WithJump(mem, StrAddr[p])[x] = mem[x]
         /\ JumpsTo(WithJump(mem, StrAddr[p]), p)
<1> DEFINE lo == <<"low", StrAddr[p] % 256>>
           hi == <<"high", StrAddr[p] \div 256>>
<1>1. lo \in Content /\ hi \in Content /\ JP \in Content
  BY ContentAssumption
<1>2. CASE StrAddr[p] = 0
  BY <1>2 DEF WithJump, JumpsTo
<1>3. CASE StrAddr[p] # 0
  <2>1. StrAddr[p] >= 3 /\ Half \in Nat /\ StrAddr[p] < 2 * Half
    BY <1>3, ProgramFits
  <2>2. 0 \in Phys /\ 1 \in Phys /\ 2 \in Phys
    BY <2>1, ProgramFits DEF Phys
  <2>3. WithJump(mem, StrAddr[p]) = [mem EXCEPT ![0] = JP, ![1] = lo, ![2] = hi]
    BY <1>3 DEF WithJump
  <2> HIDE DEF lo, hi
  <2>4. /\ [mem EXCEPT ![0] = JP, ![1] = lo, ![2] = hi] \in [Phys -> Content]
        /\ [mem EXCEPT ![0] = JP, ![1] = lo, ![2] = hi][0] = JP
        /\ [mem EXCEPT ![0] = JP, ![1] = lo, ![2] = hi][1] = lo
        /\ [mem EXCEPT ![0] = JP, ![1] = lo, ![2] = hi][2] = hi
        /\ \A x \in Phys : x >= 3 => [mem EXCEPT ![0] = JP, ![1] = lo, ![2] = hi][x] = mem[x]
    BY <1>1, <2>2 DEF Phys
  <2> DEFINE m == WithJump(mem, StrAddr[p])
  <2>5. /\ m \in [Phys -> Content] /\ m[0] = JP /\ m[1] = lo /\ m[2] = hi
        /\ \A x \in Phys : x >= 3 => m[x] = mem[x]
    BY <2>3, <2>4, Zenon
  <2>6. QED BY <1>3, <2>5, Zenon DEF lo, hi, JumpsTo
<1>4. QED BY <1>2, <1>3

\* n bytes of the program, from its byte i on, at the place that is theirs.
LEMMA WithBytesIs ==
  ASSUME SettingsInv, bpc \in LoadPc, NEW mem \in [Phys -> Content],
         NEW i \in Nat, NEW n \in Nat, i + n <= Length[prog],
         NEW m, m = WithBytes(mem, StrAddr[prog] + i, i, n)
  PROVE  /\ m \in [Phys -> Content]
         /\ \A x \in Phys : x < StrAddr[prog] + i \/ x >= StrAddr[prog] + i + n => m[x] = mem[x]
         /\ \A j \in i..(i + n - 1) : m[StrAddr[prog] + j] = ByteOf(prog, j)
<1> DEFINE a == StrAddr[prog]
           p == prog
<1>1. p \in Program
  BY ProgIsAProgram
<1>2. a \in Nat /\ Length[p] \in Nat /\ Half \in Nat \ {0} /\ a + Length[p] <= 2 * Half
  BY <1>1, ProgramFits
<1>3. m = [x \in Phys |-> IF a + i <= x /\ x < a + i + n THEN ByteOf(p, i + x - (a + i))
                           ELSE mem[x]]
  BY DEF WithBytes, ByteOf
<1>4. \A j \in 0..(Length[p] - 1) : ByteOf(p, j) \in Content
  BY <1>1, ContentAssumption DEF ByteOf
<1>5. i + n <= Length[p]
  OBVIOUS
<1> HIDE DEF a, p
<1>6. ASSUME NEW x \in Phys
      PROVE  /\ m[x] \in Content
             /\ x < a + i \/ x >= a + i + n => m[x] = mem[x]
             /\ a + i <= x /\ x < a + i + n => m[x] = ByteOf(p, x - a)
  <2>1. x \in Nat
    BY <1>2 DEF Phys
  <2>2. CASE a + i <= x /\ x < a + i + n
    <3>1. i + x - (a + i) = x - a /\ x - a \in 0..(Length[p] - 1)
      BY <1>2, <1>5, <2>1, <2>2
    <3>2. m[x] = ByteOf(p, x - a)
      BY <1>3, <2>2, <3>1
    <3>3. m[x] \in Content
      BY <1>4, <3>1, <3>2
    <3>4. ~(x < a + i \/ x >= a + i + n)
      BY <1>2, <2>1, <2>2
    <3>5. QED BY <3>2, <3>3, <3>4
  <2>3. CASE ~(a + i <= x /\ x < a + i + n)
    <3>1. m[x] = mem[x]
      BY <1>3, <2>3
    <3>2. QED BY <2>3, <3>1
  <2>4. QED BY <2>2, <2>3
<1>7. m \in [Phys -> Content]
  BY <1>3, <1>6
<1>8. ASSUME NEW j \in i..(i + n - 1) PROVE m[a + j] = ByteOf(p, j)
  <2>1. j \in Int /\ a + j \in Phys /\ a + i <= a + j /\ a + j < a + i + n /\ (a + j) - a = j
    BY <1>2, <1>5 DEF Phys
  <2>2. QED BY <1>6, <2>1
<1>9. QED BY <1>6, <1>7, <1>8 DEF a, p


\* The jump survives the loading of the program it leads to, which starts behind it or
\* where it would be.
LEMMA JumpSurvives ==
  ASSUME NEW p \in Program, NEW mem, NEW m, JumpsTo(mem, p),
         \A x \in Phys : x < StrAddr[p] \/ x >= StrAddr[p] + Length[p] => m[x] = mem[x],
         StrAddr[p] = 0 /\ Length[p] > 0 => m[0] = mem[0] \/ m[0] = ByteOf(p, 0)
  PROVE  JumpsTo(m, p)
<1>1. /\ StrAddr[p] \in Nat /\ Length[p] \in Nat /\ Half \in Nat \ {0} /\ StrAddr[p] < 2 * Half
      /\ StrAddr[p] = 0 \/ StrAddr[p] >= 3
  BY ProgramFits
<1>2. CASE StrAddr[p] = 0
  <2>1. 0 \in Phys
    BY <1>1 DEF Phys
  <2>2. Length[p] > 0 \/ m[0] = mem[0]
    BY <1>1, <1>2, <2>1
  <2>3. ByteOf(p, 0) # JP
    BY DEF ByteOf, JP, Program, OsNames, OsName
  <2>4. QED BY <1>2, <2>2, <2>3 DEF JumpsTo
<1>3. CASE StrAddr[p] # 0
  <2>1. 0 \in Phys /\ 1 \in Phys /\ 2 \in Phys /\ StrAddr[p] > 2
    BY <1>1, <1>3 DEF Phys
  <2>2. m[0] = mem[0] /\ m[1] = mem[1] /\ m[2] = mem[2]
    BY <1>1, <2>1
  <2>3. QED BY <1>3, <2>2 DEF JumpsTo
<1>4. QED BY <1>2, <1>3

LEMMA LoadStartFollows == ASSUME SettingsInv, LoadInv, LoadStart PROVE LoadInv'
<1> DEFINE p == prog
           a == StrAddr[p]
           mem == WithJump(ram, a)
<1>1. /\ bpc = "load" /\ hl' = a /\ at' = 0
      /\ UNCHANGED <<globals, faulted>>
      /\ IF bootMode < maxBootMode THEN ram' = mem /\ bpc' = "open"
         ELSE ram' = WithBytes(mem, a, 0, Length[p]) /\ bpc' = "save"
  BY DEF LoadStart, Goto
<1>2. bpc \in LoadPc /\ p \in Program
  BY <1>1, ProgIsAProgram DEF LoadPc
<1>3. /\ a \in Nat /\ Length[p] \in Nat /\ Half \in Nat \ {0} /\ a < 2 * Half
      /\ a + Length[p] <= 2 * Half /\ (a = 0 \/ a >= 3)
  BY <1>2, ProgramFits
<1>4. ram \in [Phys -> Content] /\ ram[0] # JP
  <2>1. ram = [x \in Phys |-> Unwritten]
    BY <1>1 DEF LoadInv, LoadFollows, EmptyPc
  <2>2. 0 \in Phys
    BY <1>3 DEF Phys
  <2>3. ram[0] = Unwritten
    BY <2>1, <2>2
  <2>4. QED BY <2>3 DEF LoadInv, Unwritten, JP
<1>5. mem \in [Phys -> Content] /\ JumpsTo(mem, p)
  BY <1>2, <1>4, WithJumpIs, Zenon
<1>6. prog' = p
  BY <1>1 DEF prog, globals
<1>7. CASE bootMode < maxBootMode
  <2>1. ram' = mem /\ bpc' = "open"
    BY <1>1, <1>7
  <2>2. Holds(mem, p, 0)
    BY DEF Holds
  <2> HIDE DEF mem, a, p
  <2>3. hl' = a + 0 /\ at' \in 0..Length[p] /\ bootMode' = bootMode
    BY <1>1, <1>3 DEF globals
  <2>4. QED BY <1>1, <1>5, <1>6, <1>7, <2>1, <2>2, <2>3
         DEF LoadInv, LoadFollows, EmptyPc, a
<1>8. CASE ~(bootMode < maxBootMode)
  <2> DEFINE m == WithBytes(mem, a, 0, Length[p])
  <2>1. ram' = m /\ bpc' = "save"
    BY <1>1, <1>8
  <2>2. a + 0 = a /\ 0 + Length[p] = Length[p] /\ a + 0 + Length[p] = a + Length[p]
    BY <1>3
  <2>3. m = WithBytes(mem, StrAddr[prog] + 0, 0, Length[p])
    BY <2>2
  <2> HIDE DEF m, mem
  <2>4. /\ m \in [Phys -> Content]
        /\ \A x \in Phys : x < a \/ x >= a + Length[p] => m[x] = mem[x]
        /\ \A j \in 0..(Length[p] - 1) : m[a + j] = ByteOf(p, j)
    <3>1. 0 \in Nat /\ Length[prog] \in Nat /\ 0 + Length[prog] <= Length[prog]
      BY <1>3
    <3>2. /\ m \in [Phys -> Content]
          /\ \A x \in Phys : x < a + 0 \/ x >= a + 0 + Length[p] => m[x] = mem[x]
          /\ \A j \in 0..(0 + Length[p] - 1) : m[a + j] = ByteOf(p, j)
      BY <1>2, <1>5, <2>3, <3>1, WithBytesIs
    <3>3. ASSUME NEW x \in Phys, x < a \/ x >= a + Length[p] PROVE m[x] = mem[x]
      BY <2>2, <3>2, <3>3
    <3>4. ASSUME NEW j \in 0..(Length[p] - 1) PROVE m[a + j] = ByteOf(p, j)
      <4>1. j \in 0..(0 + Length[p] - 1)
        BY <1>3
      <4>2. QED BY <3>2, <4>1
    <3>5. QED BY <3>2, <3>3, <3>4
  <2>5. Holds(m, p, Length[p])
    BY <2>4 DEF Holds
  <2>6. JumpsTo(m, p)
    <3>1. a = 0 /\ Length[p] > 0 => m[0] = ByteOf(p, 0)
      BY <1>3, <2>4
    <3>2. QED BY <1>2, <1>5, <2>4, <3>1, JumpSurvives
  <2> HIDE DEF a, p
  <2>7. QED BY <1>6, <2>1, <2>4, <2>5, <2>6 DEF LoadInv, LoadFollows, EmptyPc
<1>9. QED BY <1>7, <1>8

LEMMA ReadSegmentFollows ==
  ASSUME SettingsInv, LoadInv, NEW n \in 0..SegLen, ReadSegment(n) PROVE LoadInv'
<1> DEFINE p == prog
           a == StrAddr[p]
           whole == Smaller(SegLen, Length[p] - at)
           m == WithBytes(ram, a + at, at, n)
<1>1. /\ bpc = "read" /\ (n = whole \/ n < whole)
      /\ ram' = WithBytes(ram, hl, at, n) /\ hl' = hl + n /\ at' = at + n
      /\ faulted' = (faulted \/ n # whole)
      /\ bpc' = IF n = SegLen THEN "read" ELSE "save"
      /\ UNCHANGED globals
  BY DEF ReadSegment, Goto
<1>2. bpc \in LoadPc /\ p \in Program
  BY <1>1, ProgIsAProgram DEF LoadPc
<1>3. /\ a \in Nat /\ Length[p] \in Nat /\ Half \in Nat \ {0} /\ a < 2 * Half
      /\ a + Length[p] <= 2 * Half /\ (a = 0 \/ a >= 3)
  BY <1>2, ProgramFits
<1>4. /\ bootMode < maxBootMode /\ at \in 0..Length[p] /\ hl = a + at
      /\ JumpsTo(ram, p) /\ Holds(ram, p, at) /\ ram \in [Phys -> Content]
  BY <1>1 DEF LoadInv, LoadFollows
<1>5. n \in Nat /\ SegLen \in Nat \ {0} /\ n <= Length[p] - at
  BY <1>1, <1>3, <1>4, BootAssumption DEF Smaller
<1>6. prog' = p
  BY <1>1 DEF prog, globals
<1>7. /\ m \in [Phys -> Content]
      /\ \A x \in Phys : x < a + at \/ x >= a + at + n => m[x] = ram[x]
      /\ \A j \in at..(at + n - 1) : m[a + j] = ByteOf(p, j)
  <2>1. at \in Nat /\ n \in Nat /\ at + n <= Length[prog]
    BY <1>3, <1>4, <1>5
  <2>2. ram \in [Phys -> Content] /\ bpc \in LoadPc
    BY <1>2, <1>4
  <2> HIDE DEF m
  <2>3. m = WithBytes(ram, StrAddr[prog] + at, at, n)
    BY DEF m
  <2>4. QED BY <2>1, <2>2, <2>3, WithBytesIs
<1>8. ram' = m
  BY <1>1, <1>4
<1> HIDE DEF m
<1>9. JumpsTo(m, p)
  <2>1. \A x \in Phys : x < a \/ x >= a + Length[p] => m[x] = ram[x]
    BY <1>3, <1>4, <1>5, <1>7 DEF Phys
  <2>2. a = 0 /\ Length[p] > 0 => m[0] = ram[0] \/ m[0] = ByteOf(p, 0)
    <3>1. CASE at = 0 /\ n > 0
      <4>1. 0 \in at..(at + n - 1) /\ a + 0 = a
        BY <1>3, <1>5, <3>1
      <4>2. QED BY <1>7, <4>1
    <3>2. CASE ~(at = 0 /\ n > 0)
      <4>1. 0 \in Phys
        BY <1>3 DEF Phys
      <4>2. a = 0 => 0 < a + at \/ 0 >= a + at + n
        BY <1>3, <1>4, <1>5, <3>2
      <4>3. QED BY <1>7, <4>1, <4>2
    <3>3. QED BY <3>1, <3>2
  <2>3. QED BY <1>2, <1>4, <2>1, <2>2, JumpSurvives
<1>10. Holds(m, p, at + n)
  <2>1. SUFFICES ASSUME NEW j \in 0..((at + n) - 1) PROVE m[a + j] = ByteOf(p, j)
    BY Zenon DEF Holds
  <2>2. CASE j < at
    <3>1. at \in Nat /\ at <= Length[p]
      BY <1>3, <1>4
    <3> HIDE DEF p, a
    <3>2. j \in 0..(at - 1) /\ a + j < a + at
      BY <1>3, <1>5, <2>2, <3>1
    <3>3. a + j \in Phys
      BY <1>3, <3>1, <3>2 DEF Phys
    <3>4. QED BY <1>4, <1>7, <3>2, <3>3 DEF Holds, a
  <2>3. CASE ~(j < at)
    BY <1>4, <1>5, <1>7, <2>3
  <2>4. QED BY <2>2, <2>3
<1>11. CASE n = SegLen
  <2>1. at + n \in 0..Length[p] /\ hl + n = a + (at + n)
    BY <1>3, <1>4, <1>5
  <2> HIDE DEF p, a
  <2>2. QED BY <1>1, <1>4, <1>6, <1>7, <1>8, <1>9, <1>10, <1>11, <2>1
         DEF LoadInv, LoadFollows, EmptyPc, globals, a
<1>12. CASE n # SegLen
  <2>1. faulted' = FALSE => at + n = Length[p]
    <3>1. faulted' = FALSE => n = whole
      BY <1>1
    <3>2. n = whole => n = Length[p] - at
      BY <1>12 DEF Smaller
    <3>3. QED BY <1>3, <1>4, <3>1, <3>2
  <2> HIDE DEF p, a
  <2>2. QED BY <1>1, <1>6, <1>7, <1>8, <1>9, <1>10, <1>12, <2>1
         DEF LoadInv, LoadFollows, EmptyPc
<1>13. QED BY <1>11, <1>12


\* Until the loading starts nothing touches the memory.
LEMMA EmptyStays ==
  ASSUME LoadInv, bpc \in EmptyPc, bpc' \in EmptyPc, ram' = ram PROVE LoadInv'
<1>1. bpc' \notin {"open", "waitKey", "read", "save"}
  BY DEF EmptyPc
<1>2. QED BY <1>1 DEF LoadInv, LoadFollows, EmptyPc

LEMMA OpenFollows ==
  ASSUME LoadInv, Open \/ RetryKey PROVE LoadInv'
<1>1. /\ bpc \in {"open", "waitKey"} /\ bpc' \in {"open", "waitKey", "read"}
      /\ UNCHANGED <<globals, ram, hl, at>>
  BY DEF Open, RetryKey, Goto, settingVars
<1>2. prog' = prog /\ bootMode' = bootMode
  BY <1>1 DEF prog, globals
<1>3. /\ bootMode < maxBootMode /\ at \in 0..Length[prog] /\ hl = StrAddr[prog] + at
      /\ JumpsTo(ram, prog) /\ Holds(ram, prog, at) /\ at = 0 /\ ram \in [Phys -> Content]
  BY <1>1 DEF LoadInv, LoadFollows
<1>4. bpc' \notin EmptyPc /\ bpc' # "save"
  BY <1>1 DEF EmptyPc
<1>5. QED BY <1>1, <1>2, <1>3, <1>4 DEF LoadInv, LoadFollows

\* Once the Z80 runs, memory only has to be memory.
LEMMA RunFollows ==
  ASSUME bpc' = "run", ram' \in [Phys -> Content] PROVE LoadInv'
BY DEF LoadInv, LoadFollows, EmptyPc

LEMMA StartFollows ==
  ASSUME LoadInv, NEW S \in Moves, Start(S) PROVE LoadInv'
BY RunFollows DEF Start, Goto, LoadInv

LEMMA UnwrittenIsContent == [p \in Phys |-> Unwritten] \in [Phys -> Content]
BY ContentAssumption

LEMMA PowerFailsFollows == ASSUME PowerFails PROVE LoadInv'
<1>1. bpc' = "off" /\ ram' = [p \in Phys |-> Unwritten]
  BY DEF PowerFails, PowerOff, PowerOffInSave, Cleared, Goto
<1>2. QED BY <1>1, UnwrittenIsContent DEF LoadInv, LoadFollows

LEMMA PowerOnFollows ==
  ASSUME LoadInv, NEW S \in Moves, NEW pressed \in BOOLEAN, PowerOn(S, pressed) PROVE LoadInv'
BY EmptyStays DEF PowerOn, Goto, EmptyPc

LEMMA BootFollows == ASSUME SettingsInv, LoadInv, BootStep PROVE LoadInv'
<1>1. CASE Validate \/ ShowMenu \/ LeaveMenu
  BY <1>1, EmptyStays DEF Validate, ShowMenu, LeaveMenu, Goto, EmptyPc
<1>2. QED BY <1>1, LoadStartFollows, OpenFollows, ReadSegmentFollows, StartFollows DEF BootStep

LEMMA TypedFollows == ASSUME LoadInv, Typed PROVE LoadInv'
<1>1. CASE MenuKey
  <2>1. bpc \in EmptyPc /\ bpc' \in EmptyPc /\ ram' = ram
    BY <1>1 DEF MenuKey, KeyRefused, KeyProgram, KeyToggle, KeyDiskSet, DiskOther, DiskAccept,
                DiskEscape, Chosen, Goto, EmptyPc
  <2>2. QED BY <2>1, EmptyStays
<1>2. CASE RetryKey
  BY <1>2, OpenFollows
<1>3. QED BY <1>1, <1>2 DEF Typed

-------------------------------------------------------------------------------
(* The banks. *)

\* The pins select the bank that was asked for, the first one until the Z80 runs.
BankInv ==
  /\ io_BANK0 \in {LOW, HIGH} /\ io_BANK1 \in {LOW, HIGH} /\ osBank \in 0..2
  /\ bankoff = Base[osBank + 1]
  /\ bpc # "run" => osBank = 0

LEMMA BaseIs ==
  ASSUME NEW b \in 0..2
  PROVE  /\ Base[b + 1] = IF b = 0 THEN 0 ELSE IF b = 1 THEN 2 * Half ELSE 3 * Half
         /\ Base[b + 1] \in Nat
<1>1. Half \in Nat \ {0}
  BY BankedRamAssumption
<1>2. CASE b = 0
  BY <1>2 DEF Base
<1>3. CASE b = 1
  BY <1>1, <1>3 DEF Base
<1>4. CASE b = 2
  BY <1>1, <1>4 DEF Base
<1>5. QED BY <1>2, <1>3, <1>4

\* Every address of the Z80 is one of the memory.
LEMMA PhysAddrIs ==
  ASSUME BankInv, NEW x \in Addr
  PROVE  PhysAddr(x) \in Phys /\ PhysAddr(x) = IF x >= Half THEN x ELSE Base[osBank + 1] + x
<1>1. Half \in Nat \ {0} /\ osBank \in 0..2 /\ bankoff = Base[osBank + 1]
  BY BankedRamAssumption DEF BankInv
<1>2. QED BY <1>1, BaseIs DEF PhysAddr, Phys, Addr

LEMMA SetBankKeeps ==
  ASSUME BankInv, bpc = "run", bpc' = bpc, NEW b, SetBankOp(b) PROVE BankInv'
<1>1. Half \in Nat \ {0} /\ HIGH = 1 /\ LOW = 0
  BY BankedRamAssumption DEF HIGH, LOW
<1>2. CASE b = 0
  BY <1>1, <1>2 DEF BankInv, SetBankOp, SetBank, SetPins, Offset, Base, LOW, HIGH
<1>3. CASE b = 1
  BY <1>1, <1>3 DEF BankInv, SetBankOp, SetBank, SetPins, Offset, Base, LOW, HIGH
<1>4. CASE b = 2
  BY <1>1, <1>4 DEF BankInv, SetBankOp, SetBank, SetPins, Offset, Base, LOW, HIGH
<1>5. CASE b \notin 0..2
  <2>1. UNCHANGED <<bankVars, osBank>>
    BY <1>5 DEF SetBankOp, SetBank
  <2>2. QED BY <2>1 DEF BankInv, bankVars
<1>6. QED BY <1>2, <1>3, <1>4, <1>5

\* What leaves the pins and the number alone.
LEMMA BanksUnchanged ==
  ASSUME BankInv, UNCHANGED <<bankVars, osBank>>, bpc' = "run" => bpc = "run" \/ osBank = 0,
         bpc = "run" => bpc' = "run" \/ osBank = 0
  PROVE  BankInv'
BY DEF BankInv, bankVars

LEMMA BanksReset ==
  ASSUME io_BANK0' = HIGH, io_BANK1' = LOW, bankoff' = 0, osBank' = 0 PROVE BankInv'
BY DEF BankInv, Base

-------------------------------------------------------------------------------
(* The three invariants together. *)

MachineInv == SettingsInv /\ LoadInv /\ BankInv

LEMMA MachineInitially == Init => MachineInv
<1> SUFFICES ASSUME Init PROVE MachineInv
  OBVIOUS
<1>1. SettingsInv
  BY SettingsInitially
<1>2. /\ bpc = "off" /\ ram = [p \in Phys |-> Unwritten]
      /\ io_BANK0 = HIGH /\ io_BANK1 = LOW /\ bankoff = 0 /\ osBank = 0
  BY DEF Init, BootInit, ServicesInit
<1>3. LoadInv
  BY <1>2, UnwrittenIsContent DEF LoadInv, LoadFollows
<1>4. BankInv
  BY <1>2 DEF BankInv, Base, HIGH, LOW
<1>5. QED BY <1>1, <1>3, <1>4 DEF MachineInv

LEMMA SetupBanks == ASSUME BankInv, Setup PROVE BankInv'
<1>1. bpc # "run" /\ osBank = 0 /\ osBank' = 0
  <2>1. bpc # "run"
    BY DEF Setup, BootStep, PowerOn, Validate, ShowMenu, LeaveMenu, LoadStart, Open, ReadSegment,
           Start
  <2>2. QED BY <2>1 DEF BankInv, Setup, serviceVars, history
<1>2. CASE BootStep
  <2>1. UNCHANGED bankVars
    BY <1>2 DEF BootStep, Validate, ShowMenu, LeaveMenu, LoadStart, Open, ReadSegment, Start,
                Goto, bankVars
  <2>2. QED BY <1>1, <2>1, BanksUnchanged
<1>3. CASE \E S \in Moves, pressed \in BOOLEAN : PowerOn(S, pressed)
  <2>1. io_BANK0' = HIGH /\ io_BANK1' = LOW /\ bankoff' = Offset(HIGH, LOW)
    BY <1>3 DEF PowerOn, SetPins
  <2>2. Offset(HIGH, LOW) = 0
    BY DEF Offset, HIGH, LOW
  <2>3. QED BY <1>1, <2>1, <2>2, BanksReset
<1>4. QED BY <1>2, <1>3 DEF Setup

LEMMA TypedBanks == ASSUME BankInv, Typed PROVE BankInv'
<1>1. UNCHANGED <<bankVars, osBank>> /\ bpc # "run"
  BY DEF Typed, MenuKey, RetryKey, KeyRefused, KeyProgram, KeyToggle, KeyDiskSet, DiskOther,
         DiskAccept, DiskEscape, Chosen, serviceVars, history, bankVars
<1>2. osBank = 0
  BY <1>1 DEF BankInv
<1>3. QED BY <1>1, <1>2, BanksUnchanged

\* What a program does, but for SETBANK and for writing to its memory.
LEMMA GuestIs ==
  ASSUME Guest
  PROVE  /\ bpc = "run" /\ bpc' = "run"
         /\ \/ UNCHANGED <<bankVars, osBank, ram>>
            \/ \E b \in GuestBank : SetBankOp(b) /\ ram' = ram
            \/ /\ UNCHANGED <<bankVars, osBank>>
               /\ \E a \in GuestAddr, v \in GuestContent : RamWrite(a, v)
<1>1. bpc = "run" /\ bpc' = "run" /\ ServiceStep
  BY DEF Guest, Runs, bootVars
<1>2. CASE \E b \in GuestBank : SetBankOp(b)
  BY <1>1, <1>2 DEF SetBankOp
<1>3. CASE \E a \in GuestAddr, v \in GuestContent : WriteMemory(a, v)
  BY <1>1, <1>3 DEF WriteMemory, serviceVars, history
<1>4. CASE \/ \E op \in GuestOpcode : StoreOpcode(op)
           \/ \E b \in GuestByte : Ignored(b) \/ EepromAddress(b) \/ EepromDropped(b)
           \/ \E b \in GuestByte, S \in Moves : EepromWrite(b, S)
           \/ NothingToRead \/ EepromRead \/ DateTime \/ DateTimeOver
  BY <1>1, <1>4 DEF StoreOpcode, Ignored, EepromAddress, EepromDropped, EepromWrite, NothingToRead,
                    EepromRead, DateTime, DateTimeOver, Answered, memory, history
<1>5. QED BY <1>1, <1>2, <1>3, <1>4 DEF ServiceStep

LEMMA WrittenIsContent ==
  ASSUME BankInv, LoadInv, NEW a \in GuestAddr, NEW v \in GuestContent, RamWrite(a, v)
  PROVE  ram' \in [Phys -> Content]
<1>1. a \in Addr /\ v \in Content
  BY ServicesAssumption
<1>2. PhysAddr(a) \in Phys
  BY <1>1, PhysAddrIs
<1>3. QED BY <1>1, <1>2 DEF RamWrite, LoadInv

LEMMA MachineStep == MachineInv /\ [Next]_vars => MachineInv'
<1> SUFFICES ASSUME MachineInv, [Next]_vars PROVE MachineInv'
  OBVIOUS
<1>1. SettingsInv /\ LoadInv /\ BankInv
  BY DEF MachineInv
<1>2. SettingsInv'
  BY <1>1, SettingsStep
<1>3. CASE Setup
  <2>1. LoadInv'
    BY <1>1, <1>3, BootFollows, PowerOnFollows DEF Setup
  <2>2. QED BY <1>1, <1>2, <1>3, <2>1, SetupBanks DEF MachineInv
<1>4. CASE Typed
  BY <1>1, <1>2, <1>4, TypedFollows, TypedBanks DEF MachineInv
<1>5. CASE PowerFails
  <2>1. BankInv'
    BY <1>5, BanksReset DEF PowerFails, PowerOff, PowerOffInSave, Cleared, ServicesCleared
  <2>2. QED BY <1>2, <1>5, <2>1, PowerFailsFollows DEF MachineInv
<1>6. CASE Guest
  <2>1. ram' \in [Phys -> Content]
    BY <1>1, <1>6, GuestIs, WrittenIsContent DEF LoadInv
  <2>2. BankInv'
    BY <1>1, <1>6, GuestIs, SetBankKeeps, BanksUnchanged
  <2>3. QED BY <1>2, <1>6, <2>1, <2>2, GuestIs, RunFollows DEF MachineInv
<1>7. CASE Stops \/ Go
  <2>1. bpc = "run" /\ bpc' = "run" /\ UNCHANGED <<bankVars, osBank, ram>>
    BY <1>7 DEF Stops, Go, Runs, Unknown, memory, serviceVars, history
  <2>2. BankInv'
    BY <1>1, <2>1, BanksUnchanged
  <2>3. QED BY <1>1, <1>2, <2>1, <2>2, RunFollows DEF MachineInv, LoadInv
<1>8. CASE UNCHANGED vars
  <2>1. UNCHANGED <<bpc, ram, bankVars, osBank, globals, hl, at, faulted>>
    BY <1>8 DEF vars, settingVars, bootVars, serviceVars, history
  <2>2. prog' = prog /\ bootMode' = bootMode
    BY <2>1 DEF prog, globals
  <2>3. LoadInv'
    BY <1>1, <2>1, <2>2 DEF LoadInv, LoadFollows
  <2>4. BankInv'
    BY <1>1, <2>1, BanksUnchanged
  <2>5. QED BY <1>2, <2>3, <2>4 DEF MachineInv
<1>9. QED BY <1>3, <1>4, <1>5, <1>6, <1>7, <1>8 DEF Next

LEMMA MachineAlways == Spec => []MachineInv
BY MachineInitially, MachineStep, PTL DEF Spec

-------------------------------------------------------------------------------
(* What the Z80 starts on. *)

LEMMA StartsFromInv == ASSUME MachineInv PROVE StartsWhatWasChosen
<1> SUFFICES ASSUME bpc = "save", ~faulted
             PROVE  LET p == ProgramOf(eeprom[bootModeAddr], eeprom[diskSetAddr])
                    IN  /\ \A i \in 0..(Length[p] - 1) : RamRead(StrAddr[p] + i) = <<p, i>>
                        /\ Entry = StrAddr[p]
  BY DEF StartsWhatWasChosen
<1>1. SettingsInv /\ LoadInv /\ BankInv
  BY DEF MachineInv
<1>2. bpc \in LoadPc /\ bpc \in MenuPc /\ osBank = 0
  BY <1>1 DEF LoadPc, MenuPc, BootPc, BankInv
<1>3. ProgramOf(eeprom[bootModeAddr], eeprom[diskSetAddr]) = prog /\ prog \in Program
  BY <1>1, <1>2, MenuInForce, ProgIsAProgram DEF InForce, prog
<1>4. JumpsTo(ram, prog) /\ Holds(ram, prog, Length[prog])
  BY <1>1 DEF LoadInv, LoadFollows
<1> DEFINE p == prog
           a == StrAddr[p]
<1>5. /\ a \in Nat /\ Length[p] \in Nat /\ Half \in Nat \ {0} /\ a < 2 * Half
      /\ a + Length[p] <= 2 * Half /\ (a = 0 \/ a >= 3)
  BY <1>3, ProgramFits
<1>6. \A x \in Addr : RamRead(x) = ram[x]
  <2>1. \A x \in Addr : PhysAddr(x) = x
    <3>1. Base[osBank + 1] = 0
      BY <1>2 DEF Base
    <3>2. QED BY <1>1, <1>5, <3>1, PhysAddrIs DEF Addr
  <2>2. QED BY <2>1 DEF RamRead
<1>7. ASSUME NEW i \in 0..(Length[p] - 1) PROVE RamRead(a + i) = <<p, i>>
  <2>1. a + i \in Addr
    BY <1>5 DEF Addr
  <2>2. ram[a + i] = ByteOf(p, i)
    BY <1>4 DEF Holds
  <2>3. QED BY <1>6, <2>1, <2>2 DEF ByteOf
<1>8. Entry = a
  <2>1. CASE a = 0
    <3>1. 0 \in Addr
      BY <1>5 DEF Addr
    <3>2. RamRead(0) # JP
      BY <1>4, <1>6, <2>1, <3>1 DEF JumpsTo
    <3>3. QED BY <2>1, <3>2 DEF Entry
  <2>2. CASE a # 0
    <3>1. 0 \in Addr /\ 1 \in Addr /\ 2 \in Addr
      BY <1>5, <2>2 DEF Addr
    <3>2. /\ RamRead(0) = JP /\ RamRead(1) = <<"low", a % 256>>
          /\ RamRead(2) = <<"high", a \div 256>>
      BY <1>4, <1>6, <2>2, <3>1 DEF JumpsTo
    <3>3. RamRead(1)[2] = a % 256 /\ RamRead(2)[2] = a \div 256
      BY <3>2
    <3>4. (a % 256) + 256 * (a \div 256) = a
      BY <1>5
    <3>5. QED BY <3>2, <3>3, <3>4 DEF Entry
  <2>3. QED BY <2>1, <2>2
<1>9. QED BY <1>3, <1>7, <1>8

\* Unless the card has failed since power-up, the Z80 starts on the whole program
\* that the settings name, wherever that is loaded to, however many segments it has.
THEOREM StartsWhatWasChosenHolds == Spec => []StartsWhatWasChosen
<1>1. MachineInv => StartsWhatWasChosen
  BY StartsFromInv
<1>2. QED BY <1>1, MachineAlways, PTL

-------------------------------------------------------------------------------
(* The refinement of the banks. *)

Common(m) == [a \in Half..(2 * Half - 1) |-> m[a]]
Low(m) == [b \in 0..2 |-> [a \in 0..(Half - 1) |-> m[Base[b + 1] + a]]]

SeenCommon == [a \in Half..(2 * Half - 1) |-> RamRead(a)]
SeenLow == [b \in 0..2 |-> [a \in 0..(Half - 1) |->
              IF b = osBank THEN RamRead(a) ELSE ram[Base[b + 1] + a]]]

\* The memory as the Z80 sees it is the memory.
LEMMA SeenIs == ASSUME BankInv PROVE SeenCommon = Common(ram) /\ SeenLow = Low(ram)
<1>1. Half \in Nat \ {0} /\ osBank \in 0..2 /\ bankoff = Base[osBank + 1]
  BY BankedRamAssumption DEF BankInv
<1>2. ASSUME NEW a \in Half..(2 * Half - 1) PROVE RamRead(a) = ram[a]
  BY <1>1 DEF RamRead, PhysAddr
<1>3. SeenCommon = Common(ram)
  BY <1>2 DEF SeenCommon, Common
<1>4. ASSUME NEW b \in 0..2, NEW a \in 0..(Half - 1)
      PROVE  (IF b = osBank THEN RamRead(a) ELSE ram[Base[b + 1] + a]) = ram[Base[b + 1] + a]
  <2>1. CASE b = osBank
    <3>1. PhysAddr(a) = a + Base[b + 1] /\ a + Base[b + 1] = Base[b + 1] + a
      BY <1>1, <2>1, BaseIs DEF PhysAddr
    <3>2. QED BY <2>1, <3>1 DEF RamRead
  <2>2. QED BY <2>1
<1>5. SeenLow = Low(ram)
  BY <1>4 DEF SeenLow, Low
<1>6. QED BY <1>3, <1>5

LEMMA SeenIsNext == ASSUME BankInv' PROVE SeenCommon' = Common(ram') /\ SeenLow' = Low(ram')
<1>1. Half \in Nat \ {0} /\ osBank' \in 0..2 /\ bankoff' = Base[osBank' + 1]
  BY BankedRamAssumption DEF BankInv, Base
<1>2. ASSUME NEW a \in Half..(2 * Half - 1) PROVE RamRead(a)' = ram'[a]
  BY <1>1 DEF RamRead, PhysAddr
<1>3. SeenCommon' = Common(ram')
  BY <1>2 DEF SeenCommon, Common
<1>4. ASSUME NEW b \in 0..2, NEW a \in 0..(Half - 1)
      PROVE  (IF b = osBank' THEN RamRead(a)' ELSE ram'[Base[b + 1] + a]) = ram'[Base[b + 1] + a]
  <2>1. CASE b = osBank'
    <3>1. PhysAddr(a)' = a + Base[b + 1] /\ a + Base[b + 1] = Base[b + 1] + a
      BY <1>1, <2>1, BaseIs DEF PhysAddr
    <3>2. QED BY <2>1, <3>1 DEF RamRead
  <2>2. QED BY <2>1
<1>5. SeenLow' = Low(ram')
  BY <1>4 DEF SeenLow, Low, Base
<1>6. QED BY <1>3, <1>5

\* Where a byte the Z80 writes is seen.
LEMMA WriteSeen ==
  ASSUME BankInv, LoadInv, NEW a \in Addr, NEW v, ram' = [ram EXCEPT ![PhysAddr(a)] = v]
  PROVE  IF a >= Half
         THEN Common(ram') = [Common(ram) EXCEPT ![a] = v] /\ Low(ram') = Low(ram)
         ELSE Low(ram') = [Low(ram) EXCEPT ![osBank][a] = v] /\ Common(ram') = Common(ram)
<1>1. Half \in Nat \ {0} /\ osBank \in 0..2
  BY BankedRamAssumption DEF BankInv
<1>2. PhysAddr(a) \in Phys /\ PhysAddr(a) = IF a >= Half THEN a ELSE Base[osBank + 1] + a
  BY PhysAddrIs
<1>3. \A x \in Phys : ram'[x] = IF x = PhysAddr(a) THEN v ELSE ram[x]
  BY <1>2 DEF LoadInv
<1>4. \A b \in 0..2, x \in 0..(Half - 1) :
         Base[b + 1] + x \in Phys /\ (Base[b + 1] + x < Half \/ Base[b + 1] + x >= 2 * Half)
  BY <1>1, BaseIs DEF Phys
<1>5. \A x \in Half..(2 * Half - 1) : x \in Phys
  BY <1>1 DEF Phys
<1>6. CASE a >= Half
  <2>1. PhysAddr(a) = a /\ a \in Half..(2 * Half - 1)
    BY <1>1, <1>2, <1>6 DEF Addr
  <2>2. Common(ram') = [Common(ram) EXCEPT ![a] = v]
    BY <1>3, <1>5, <2>1 DEF Common
  <2>3. \A b \in 0..2, x \in 0..(Half - 1) : ram'[Base[b + 1] + x] = ram[Base[b + 1] + x]
    <3>1. \A b \in 0..2, x \in 0..(Half - 1) : Base[b + 1] + x # a
      BY <1>1, <1>4, <2>1 DEF Phys
    <3>2. QED BY <1>3, <1>4, <2>1, <3>1
  <2>4. Low(ram') = Low(ram)
    BY <2>3 DEF Low
  <2>5. QED BY <1>6, <2>2, <2>4
<1>7. CASE ~(a >= Half)
  <2>1. PhysAddr(a) = Base[osBank + 1] + a /\ a \in 0..(Half - 1)
    BY <1>1, <1>2, <1>7 DEF Addr
  <2>2. \A x \in Half..(2 * Half - 1) : x # PhysAddr(a)
    BY <1>1, <1>4, <2>1 DEF Phys
  <2>3. Common(ram') = Common(ram)
    BY <1>3, <1>5, <2>2 DEF Common
  <2>4. ASSUME NEW b \in 0..2, NEW x \in 0..(Half - 1)
        PROVE  ram'[Base[b + 1] + x] = IF b = osBank /\ x = a THEN v ELSE ram[Base[b + 1] + x]
    <3>1. Base[b + 1] + x = PhysAddr(a) <=> b = osBank /\ x = a
      BY <1>1, <2>1, BaseIs
    <3>2. QED BY <1>3, <1>4, <3>1
  <2>5. Low(ram') = [Low(ram) EXCEPT ![osBank][a] = v]
    <3> DEFINE new == [Low(ram) EXCEPT ![osBank][a] = v]
    <3>1. \A b \in 0..2 : Low(ram)[b] = [x \in 0..(Half - 1) |-> ram[Base[b + 1] + x]]
      BY DEF Low
    <3>2. new = [b \in 0..2 |-> IF b = osBank THEN [Low(ram)[b] EXCEPT ![a] = v] ELSE Low(ram)[b]]
      BY <1>1 DEF Low
    <3>3. ASSUME NEW b \in 0..2
          PROVE  new[b] = [x \in 0..(Half - 1) |-> ram'[Base[b + 1] + x]]
      <4>1. CASE b = osBank
        <5>1. new[b] = [[x \in 0..(Half - 1) |-> ram[Base[b + 1] + x]] EXCEPT ![a] = v]
          BY <3>1, <3>2, <4>1
        <5>2. new[b] = [x \in 0..(Half - 1) |-> IF x = a THEN v ELSE ram[Base[b + 1] + x]]
          BY <5>1, <2>1
        <5>3. \A x \in 0..(Half - 1) :
                 (IF x = a THEN v ELSE ram[Base[b + 1] + x]) = ram'[Base[b + 1] + x]
          BY <2>4, <4>1
        <5>4. QED BY <5>2, <5>3
      <4>2. CASE b # osBank
        <5>1. new[b] = [x \in 0..(Half - 1) |-> ram[Base[b + 1] + x]]
          BY <3>1, <3>2, <4>2
        <5>2. \A x \in 0..(Half - 1) : ram[Base[b + 1] + x] = ram'[Base[b + 1] + x]
          BY <2>4, <4>2
        <5>3. QED BY <5>1, <5>2
      <4>3. QED BY <4>1, <4>2
    <3>4. new = [b \in 0..2 |-> new[b]]
      BY <3>2
    <3> HIDE DEF new
    <3>5. new = Low(ram')
      BY <3>3, <3>4 DEF Low
    <3>6. QED BY <3>5 DEF new
  <2>6. QED BY <1>7, <2>3, <2>5
<1>8. QED BY <1>6, <1>7

\* The loading touches neither bank 1 nor bank 2.
LEMMA LoadSeen ==
  ASSUME MachineInv, LoadStart \/ (\E n \in 0..SegLen : ReadSegment(n))
  PROVE  \A b \in {1, 2} : Low(ram')[b] = Low(ram)[b]
<1>1. SettingsInv /\ LoadInv
  BY DEF MachineInv
<1> DEFINE p == prog
           a == StrAddr[p]
<1>2. bpc \in LoadPc /\ p \in Program
  BY <1>1, ProgIsAProgram DEF LoadPc, LoadStart, ReadSegment
<1>3. /\ a \in Nat /\ Length[p] \in Nat /\ Half \in Nat \ {0} /\ a < 2 * Half
      /\ a + Length[p] <= 2 * Half /\ (a = 0 \/ a >= 3)
  BY <1>2, ProgramFits
<1>4. ASSUME NEW x \in Phys, x >= 2 * Half PROVE ram'[x] = ram[x]
  <2>0. x \in Nat
    BY <1>3 DEF Phys
  <2>1. CASE LoadStart
    <3> DEFINE mem == WithJump(ram, a)
    <3>1. ram[0] # JP /\ ram \in [Phys -> Content]
      <4>1. ram = [y \in Phys |-> Unwritten] /\ 0 \in Phys
        BY <1>1, <1>3, <2>1 DEF LoadInv, LoadFollows, EmptyPc, LoadStart, Phys
      <4>2. ram[0] = Unwritten
        BY <4>1
      <4>3. QED BY <1>1, <4>2 DEF LoadInv, Unwritten, JP
    <3>2. mem \in [Phys -> Content] /\ mem[x] = ram[x]
      <4>1. x >= 3 \/ a = 0
        BY <1>3, <1>4, <2>0
      <4>2. a = 0 => mem = ram
        BY DEF WithJump
      <4>3. QED BY <1>2, <3>1, <4>1, <4>2, WithJumpIs
    <3>3. ram' = mem \/ ram' = WithBytes(mem, a, 0, Length[p])
      BY <2>1 DEF LoadStart
    <3>4. CASE ram' = WithBytes(mem, a, 0, Length[p])
      <4>1. ram'[x] = IF a <= x /\ x < a + Length[p] THEN <<prog, 0 + x - a>> ELSE mem[x]
        BY <3>4 DEF WithBytes
      <4>2. ~(x < a + Length[p])
        BY <1>3, <1>4, <2>0
      <4>3. QED BY <3>2, <4>1, <4>2
    <3>5. QED BY <3>2, <3>3, <3>4
  <2>2. ASSUME NEW n \in 0..SegLen, ReadSegment(n) PROVE ram'[x] = ram[x]
    <3>1. hl = a + at /\ at \in 0..Length[p] /\ n <= Length[p] - at /\ n \in Nat
      BY <1>1, <1>3, <2>2, BootAssumption DEF LoadInv, LoadFollows, ReadSegment, Smaller
    <3>2. ram' = WithBytes(ram, hl, at, n)
      BY <2>2 DEF ReadSegment
    <3>3. ram'[x] = IF hl <= x /\ x < hl + n THEN <<prog, at + x - hl>> ELSE ram[x]
      BY <3>2 DEF WithBytes
    <3>4. ~(x < hl + n)
      BY <1>3, <1>4, <2>0, <3>1
    <3>5. QED BY <3>3, <3>4
  <2>3. QED BY <2>1, <2>2
<1>5. ASSUME NEW b \in {1, 2} PROVE Low(ram')[b] = Low(ram)[b]
  <2>1. \A y \in 0..(Half - 1) : Base[b + 1] + y \in Phys /\ Base[b + 1] + y >= 2 * Half
    BY <1>3, BaseIs DEF Phys
  <2>2. \A y \in 0..(Half - 1) : ram'[Base[b + 1] + y] = ram[Base[b + 1] + y]
    BY <1>4, <2>1
  <2>3. /\ Low(ram)[b] = [y \in 0..(Half - 1) |-> ram[Base[b + 1] + y]]
        /\ Low(ram')[b] = [y \in 0..(Half - 1) |-> ram'[Base[b + 1] + y]]
    BY DEF Low
  <2>4. QED BY <2>2, <2>3
<1>6. QED BY <1>5

LEMMA BanksStep ==
  MachineInv /\ [Next]_vars => [Banks!Next]_<<SeenCommon, SeenLow, osBank, bpc = "run">>
<1> SUFFICES ASSUME MachineInv, [Next]_vars
             PROVE  [Banks!Next]_<<SeenCommon, SeenLow, osBank, bpc = "run">>
  OBVIOUS
<1>1. MachineInv' /\ BankInv /\ LoadInv /\ BankInv'
  BY MachineStep DEF MachineInv
<1>2. /\ SeenCommon = Common(ram) /\ SeenLow = Low(ram)
      /\ SeenCommon' = Common(ram') /\ SeenLow' = Low(ram')
  BY <1>1, SeenIs, SeenIsNext
\* Nothing that the Z80 sees changes.
<1>3. ASSUME ram' = ram, osBank' = osBank, (bpc = "run") <=> (bpc' = "run")
      PROVE  UNCHANGED <<SeenCommon, SeenLow, osBank, bpc = "run">>
  BY <1>2, <1>3
<1>4. CASE Setup
  <2>1. bpc # "run" /\ osBank' = osBank /\ osBank = 0
    BY <1>1, <1>4 DEF Setup, BootStep, PowerOn, Validate, ShowMenu, LeaveMenu, LoadStart, Open,
                      ReadSegment, Start, serviceVars, history, BankInv
  <2>2. CASE \/ Validate \/ ShowMenu \/ LeaveMenu \/ Open
             \/ \E S \in Moves, pressed \in BOOLEAN : PowerOn(S, pressed)
    BY <1>3, <2>1, <2>2 DEF Validate, ShowMenu, LeaveMenu, Open, PowerOn, Goto
  <2>3. CASE LoadStart \/ (\E n \in 0..SegLen : ReadSegment(n))
    <3>1. bpc' # "run"
      BY <2>3 DEF LoadStart, ReadSegment, Goto
    <3>2. \A b \in {1, 2} : SeenLow'[b] = SeenLow[b]
      BY <1>1, <1>2, <2>3, LoadSeen DEF MachineInv
    <3>3. \A b \in Banks!Bank \ {0} : SeenLow'[b] = SeenLow[b]
      BY <3>2 DEF Banks!Bank
    <3>4. Banks!Load
      BY <2>1, <3>1, <3>3, Zenon DEF Banks!Load, SeenLow
    <3>5. QED BY <3>4 DEF Banks!Next
  <2>4. CASE \E S \in Moves : Start(S)
    <3>1. bpc' = "run" /\ ram' = ram
      BY <2>4 DEF Start, Goto
    <3>2. Banks!Start
      BY <1>2, <2>1, <3>1 DEF Banks!Start, SeenLow, SeenCommon
    <3>3. QED BY <3>2 DEF Banks!Next
  <2>5. QED BY <1>4, <2>2, <2>3, <2>4 DEF Setup, BootStep
<1>5. CASE Typed
  <2>1. ram' = ram /\ osBank' = osBank /\ bpc # "run" /\ bpc' # "run"
    BY <1>5 DEF Typed, MenuKey, RetryKey, KeyRefused, KeyProgram, KeyToggle, KeyDiskSet, DiskOther,
                DiskAccept, DiskEscape, Chosen, Goto, serviceVars, history
  <2>2. QED BY <1>3, <2>1
<1>6. CASE PowerFails
  <2>1. bpc' = "off" /\ osBank' = 0
    BY <1>6 DEF PowerFails, PowerOff, PowerOffInSave, Goto, ServicesCleared
  <2>2. Banks!PowerCycle
    BY <2>1 DEF Banks!PowerCycle
  <2>3. QED BY <2>2 DEF Banks!Next
<1>7. CASE Guest
  <2>1. bpc = "run" /\ bpc' = "run"
    BY <1>7, GuestIs
  <2>2. CASE UNCHANGED <<bankVars, osBank, ram>>
    BY <1>3, <2>1, <2>2
  <2>3. ASSUME NEW b \in GuestBank, SetBankOp(b), ram' = ram
        PROVE  [Banks!Next]_<<SeenCommon, SeenLow, osBank, bpc = "run">>
    <3>1. osBank' = IF b \in 0..2 THEN b ELSE osBank
      BY <2>3 DEF SetBankOp
    <3>2. CASE b \in 0..2
      <4>1. Banks!Select(b)
        BY <1>2, <2>1, <2>3, <3>1, <3>2 DEF Banks!Select, SeenLow, SeenCommon
      <4>2. QED BY <3>2, <4>1 DEF Banks!Next, Banks!Bank
    <3>3. CASE b \notin 0..2
      BY <1>3, <2>1, <2>3, <3>1, <3>3
    <3>4. QED BY <3>2, <3>3
  <2>4. ASSUME NEW a \in GuestAddr, NEW v \in GuestContent, RamWrite(a, v),
               UNCHANGED <<bankVars, osBank>>
        PROVE  Banks!Next
    <3>1. a \in Addr /\ Half \in Nat \ {0}
      BY ServicesAssumption, BankedRamAssumption
    <3>2. ram' = [ram EXCEPT ![PhysAddr(a)] = v]
      BY <2>4 DEF RamWrite
    <3>3. IF a >= Half
          THEN SeenCommon' = [SeenCommon EXCEPT ![a] = v] /\ SeenLow' = SeenLow
          ELSE SeenLow' = [SeenLow EXCEPT ![osBank][a] = v] /\ SeenCommon' = SeenCommon
      BY <1>1, <1>2, <3>1, <3>2, WriteSeen
    <3>4. (a \in Banks!Upper <=> a >= Half) /\ a \in Banks!Lower \cup Banks!Upper
      BY <3>1 DEF Banks!Upper, Banks!Lower, Addr
    <3>5. Banks!Write(a, v)
      BY <2>1, <2>4, <3>3, <3>4 DEF Banks!Write, SeenLow, SeenCommon
    <3>6. QED BY <3>4, <3>5 DEF Banks!Next
  <2>5. QED BY <1>7, <2>2, <2>3, <2>4, GuestIs
<1>8. CASE Stops \/ Go
  <2>1. bpc = "run" /\ bpc' = "run" /\ osBank' = osBank /\ ram' = ram
    BY <1>8 DEF Stops, Go, Runs, Unknown, memory, serviceVars, history
  <2>2. QED BY <1>3, <2>1
<1>9. CASE UNCHANGED vars
  <2>1. bpc' = bpc /\ osBank' = osBank /\ ram' = ram
    BY <1>9 DEF vars, bootVars, serviceVars, history
  <2>2. QED BY <1>3, <2>1
<1>10. QED BY <1>4, <1>5, <1>6, <1>7, <1>8, <1>9 DEF Next

\* The memory of the board is an upper half that is always there and three separate
\* lower halves: the offset that two pins select, in whatever order they are set,
\* never lets a write to one of them be seen in another.
THEOREM BanksAreSeparateHolds == Spec => BanksAreSeparate
<1>1. Init => Banks!Init
  BY DEF Init, BootInit, ServicesInit, Banks!Init
<1>2. MachineInv /\ [Next]_vars
        => [Banks!Next]_<<SeenCommon, SeenLow, osBank, bpc = "run">>
  BY BanksStep
<1>3. Spec => [][Banks!Next]_<<SeenCommon, SeenLow, osBank, bpc = "run">>
  BY <1>2, MachineAlways, PTL DEF Spec
<1>4. QED BY <1>1, <1>3, PTL DEF Spec, BanksAreSeparate, Banks!Spec, SeenCommon, SeenLow

-------------------------------------------------------------------------------
(* The clock. *)

\* Once a byte of DATETIME has been answered, the last one is that of the reading.
ClockInv ==
  /\ ioByteCnt \in 0..CountBound /\ reading \in Moment
  /\ ioOpcode = DATETIME /\ ioByteCnt > 0 => ioData = Field(reading, ioByteCnt - 1)

LEMMA ClockStep == ClockInv /\ [Next]_vars => ClockInv'
<1> SUFFICES ASSUME ClockInv, [Next]_vars PROVE ClockInv'
  OBVIOUS
<1>1. CASE UNCHANGED serviceVars
  BY <1>1 DEF ClockInv, serviceVars
<1>2. CASE ServicesCleared
  BY <1>2, ServicesAssumption DEF ClockInv, ServicesCleared, CountBound
<1>3. CASE \/ \E op \in GuestOpcode : StoreOpcode(op)
  BY <1>3, ServicesAssumption DEF ClockInv, StoreOpcode, CountBound
<1>4. CASE \/ \E b \in GuestBank : SetBankOp(b)
           \/ \E b \in GuestByte : Ignored(b)
           \/ \E b \in GuestByte : Unknown(b)
           \/ NothingToRead \/ DateTimeOver
  <2>1. ioOpcode' = NOP /\ ioByteCnt' = ioByteCnt /\ reading' \in Moment
    BY <1>4, ServicesAssumption DEF ClockInv, SetBankOp, Ignored, Unknown, NothingToRead,
            DateTimeOver, Sent, Answered
  <2>2. QED BY <2>1 DEF ClockInv, NOP, DATETIME
<1>5. CASE \/ \E b \in GuestByte : EepromAddress(b) \/ EepromDropped(b)
           \/ \E b \in GuestByte, S \in Moves : EepromWrite(b, S)
           \/ EepromRead
  <2>1. ioOpcode' = RDWREEPROM /\ ioByteCnt' \in 0..CountBound /\ reading' = reading
    BY <1>5 DEF ClockInv, EepromAddress, EepromDropped, EepromWrite, EepromRead, Bump, CountBound
  <2>2. QED BY <2>1 DEF ClockInv, RDWREEPROM, DATETIME
<1>6. CASE DateTime
  <2>1. /\ ioByteCnt < 7 /\ ioByteCnt' = ioByteCnt + 1 /\ reading' \in Moment
        /\ ioData' = Field(reading', ioByteCnt)
    BY <1>6 DEF DateTime, ClockInv, Bump, CountBound
  <2>2. QED BY <2>1 DEF ClockInv, CountBound
<1>7. CASE Setup \/ Typed \/ Go
  BY <1>1, <1>7 DEF Setup, Typed, Go
<1>8. CASE PowerFails
  BY <1>2, <1>8 DEF PowerFails
<1>9. CASE Guest
  <2>1. CASE \E a \in GuestAddr, v \in GuestContent : WriteMemory(a, v)
    BY <1>1, <2>1 DEF WriteMemory
  <2>2. QED BY <1>3, <1>4, <1>5, <1>6, <1>9, <2>1 DEF Guest, ServiceStep
<1>10. CASE Stops
  BY <1>4, <1>10 DEF Stops
<1>11. QED BY <1>1, <1>7, <1>8, <1>9, <1>10 DEF Next, vars

LEMMA ClockAlways == Spec => []ClockInv
<1>1. Init => ClockInv
  BY ServicesAssumption DEF Init, ServicesInit, ClockInv, CountBound, NOP, DATETIME
<1>2. QED BY <1>1, ClockStep, PTL DEF Spec

LEMMA OneMomentStep ==
  ASSUME ClockInv, [Next]_vars, ioOpcode = DATETIME, ioOpcode' = DATETIME,
         0 < ioByteCnt, ioByteCnt < ioByteCnt'
  PROVE  ioData' = ioData + 1
<1>1. DateTime
  <2>1. ~UNCHANGED serviceVars /\ ~ServicesCleared
    BY DEF serviceVars, ServicesCleared, ClockInv
  <2>2. ServiceStep \/ \E b \in GuestByte : Unknown(b)
    BY <2>1 DEF Next, vars, Setup, Typed, PowerFails, Guest, Stops, Go
  <2>3. ~(\/ \E op \in GuestOpcode : StoreOpcode(op)
          \/ \E b \in GuestBank : SetBankOp(b)
          \/ \E b \in GuestByte : Ignored(b) \/ EepromAddress(b) \/ EepromDropped(b) \/ Unknown(b)
          \/ \E b \in GuestByte, S \in Moves : EepromWrite(b, S)
          \/ \E a \in GuestAddr, v \in GuestContent : WriteMemory(a, v)
          \/ NothingToRead \/ DateTimeOver \/ EepromRead)
    BY <2>1 DEF StoreOpcode, SetBankOp, Ignored, EepromAddress, EepromDropped, Unknown, EepromWrite,
                NothingToRead, DateTimeOver, EepromRead, WriteMemory, Sent, Answered,
                ClockInv, NOP, DATETIME, RDWREEPROM, SETBANK
  <2>4. QED BY <2>2, <2>3 DEF ServiceStep
<1>2. ioByteCnt \in Int /\ reading \in Int /\ ioData = Field(reading, ioByteCnt - 1)
  BY ServicesAssumption DEF ClockInv, CountBound
<1>3. ioData' = Field(reading, ioByteCnt)
  BY <1>1, <1>2 DEF DateTime
<1>4. QED BY <1>2, <1>3 DEF Field

\* The seven bytes of one DATETIME are those of one reading of the clock, whatever the
\* program does in between and however often the clock ticks.
THEOREM DateTimeIsOneMomentHolds == Spec => DateTimeIsOneMoment
<1>1. ClockInv /\ [Next]_vars =>
        [ioOpcode = DATETIME /\ ioOpcode' = DATETIME /\ 0 < ioByteCnt /\ ioByteCnt < ioByteCnt'
           => ioData' = ioData + 1]_vars
  BY OneMomentStep
<1>2. QED BY <1>1, ClockAlways, PTL DEF Spec, DateTimeIsOneMoment

-------------------------------------------------------------------------------
(* The settings as a store. *)

InForceOf(ee) == [c \in Cell |-> Effective(c, ee[c])]
DatOf(dat) ==
  [c \in Cell |-> Effective(c, IF dat = NoDat THEN 255
                               ELSE IF dat[c] = Absent THEN 255 ELSE dat[c])]
Working == IF bpc = "off" THEN EffectiveDat ELSE [c \in Cell |-> Effective(c, eeprom[c])]

\* What the power leaves of the array.
OffInv == bpc = "off" => eeprom = Blank /\ ~faulted

StoreInv == SettingsInv /\ OffInv

LEMMA OffStep == OffInv /\ [Next]_vars => OffInv'
<1> SUFFICES ASSUME OffInv, [Next]_vars PROVE OffInv'
  OBVIOUS
<1>1. CASE PowerFails
  BY <1>1 DEF PowerFails, PowerOff, PowerOffInSave, Cleared, OffInv
<1>2. CASE Setup
  <2>1. bpc' # "off"
    BY <1>2 DEF Setup, BootStep, PowerOn, Validate, ShowMenu, LeaveMenu, LoadStart, Open,
                ReadSegment, Start, Goto
  <2>2. QED BY <2>1 DEF OffInv
<1>3. CASE Typed
  <2>1. bpc' # "off"
    BY <1>3 DEF Typed, MenuKey, RetryKey, KeyRefused, KeyProgram, KeyToggle, KeyDiskSet, DiskOther,
                DiskAccept, DiskEscape, Chosen, Goto
  <2>2. QED BY <2>1 DEF OffInv
<1>4. CASE Guest
  <2>1. bpc' = "run"
    BY <1>4, GuestIs
  <2>2. QED BY <2>1 DEF OffInv
<1>5. CASE Stops \/ Go
  <2>1. bpc' = "run"
    BY <1>5 DEF Stops, Go, Runs
  <2>2. QED BY <2>1 DEF OffInv
<1>6. CASE UNCHANGED vars
  BY <1>6 DEF vars, settingVars, bootVars, OffInv
<1>7. QED BY <1>1, <1>2, <1>3, <1>4, <1>5, <1>6 DEF Next

LEMMA StoreAlways == Spec => []StoreInv
<1>1. Init => StoreInv
  BY SettingsInitially DEF StoreInv, OffInv, Init, BootInit
<1>2. StoreInv /\ [Next]_vars => StoreInv'
  BY SettingsStep, OffStep DEF StoreInv
<1>3. QED BY <1>1, <1>2, PTL DEF Spec

LEMMA StoredIs ==
  ASSUME StoreInv
  PROVE  /\ eeprom \in [Cell -> Byte] /\ stored \in Stored
         /\ stored # NoDat => stored \in [Cell -> Byte \cup {Absent}]
BY DEF StoreInv, SettingsInv, SettingsTypeOK, Stored

\* A transfer of the cells S mixes.
LEMMA MixedIs ==
  ASSUME NEW S \in Moves, NEW mix, NEW new, NEW old,
         \A c \in Cell : mix[c] = IF c \in S THEN new[c] ELSE old[c]
  PROVE  Store!Mixed(mix, new, old)
<1>1. PICK a \in CutAt : S = {c \in Cell : c < a}
  BY DEF Moves, Below
<1>2. a \in 0..256
  BY SettingsAssumption
<1>3. \A c \in Cell : mix[c] = IF c < a THEN new[c] ELSE old[c]
  BY <1>1
<1>4. QED BY <1>2, <1>3 DEF Store!Mixed

\* What a save leaves in the file.
LEMMA DatWritten ==
  ASSUME NEW ee \in [Cell -> Byte], NEW S, stored \in Stored
  PROVE  /\ stored = NoDat => Written(ee, S) = NoDat
         /\ stored # NoDat =>
              /\ Written(ee, S) # NoDat
              /\ \A c \in Cell : DatOf(Written(ee, S))[c] = IF c \in S THEN InForceOf(ee)[c]
                                                            ELSE DatOf(stored)[c]
<1>1. stored = NoDat => Written(ee, S) = NoDat
  BY DEF Written
<1>2. ASSUME stored # NoDat
      PROVE  /\ Written(ee, S) # NoDat
             /\ \A c \in Cell : DatOf(Written(ee, S))[c] = IF c \in S THEN InForceOf(ee)[c]
                                                           ELSE DatOf(stored)[c]
  <2> DEFINE w == [c \in Cell |-> IF c \in S THEN ee[c] ELSE stored[c]]
  <2>1. Written(ee, S) = w
    BY <1>2 DEF Written
  <2>2. stored \in [Cell -> Byte \cup {Absent}]
    BY <1>2 DEF Stored
  <2>3. w \in [Cell -> Byte \cup {Absent}]
    BY <2>2
  <2>4. w # NoDat
    BY <2>3, SettingsAssumption
  <2>5. ASSUME NEW c \in Cell
        PROVE  DatOf(w)[c] = IF c \in S THEN InForceOf(ee)[c] ELSE DatOf(stored)[c]
    <3>1. w[c] = IF c \in S THEN ee[c] ELSE stored[c]
      OBVIOUS
    <3> HIDE DEF w
    <3>2. ee[c] # Absent
      BY SettingsAssumption
    <3>3. /\ DatOf(w)[c] = Effective(c, IF w[c] = Absent THEN 255 ELSE w[c])
          /\ DatOf(stored)[c] = Effective(c, IF stored[c] = Absent THEN 255 ELSE stored[c])
          /\ InForceOf(ee)[c] = Effective(c, ee[c])
      BY <1>2, <2>4 DEF DatOf, InForceOf
    <3>4. CASE c \in S
      BY <3>1, <3>2, <3>3, <3>4
    <3>5. CASE c \notin S
      BY <3>1, <3>3, <3>5
    <3>6. QED BY <3>4, <3>5
  <2>6. QED BY <2>1, <2>4, <2>5
<1>3. QED BY <1>1, <1>2

\* A save that is not cut short leaves what is in force.
LEMMA DatWrittenWhole ==
  ASSUME NEW ee \in [Cell -> Byte], stored \in Stored, stored # NoDat
  PROVE  DatOf(Written(ee, Cell)) = InForceOf(ee)
<1>1. \A c \in Cell : DatOf(Written(ee, Cell))[c] = InForceOf(ee)[c]
  BY DatWritten
<1>2. QED BY <1>1 DEF DatOf, InForceOf

LEMMA EffectiveIs ==
  ASSUME NEW c \in Cell, NEW b \in Byte
  PROVE  /\ Effective(c, Valid(c, b)) = Effective(c, b)
         /\ b \in Choice[c] => Effective(c, b) = b
<1>1. maxDiskSet \in 1..5
  BY SettingsAssumption
<1>2. CASE c = clockModeAddr
  BY <1>2 DEF Valid, Effective, Choice, Byte, clockModeAddr, diskSetAddr, bootModeAddr
<1>3. CASE c = diskSetAddr
  BY <1>1, <1>3 DEF Valid, Effective, Choice, Byte, clockModeAddr, diskSetAddr, bootModeAddr
<1>4. CASE c = bootModeAddr
  BY <1>4 DEF Valid, Effective, Choice, Byte, clockModeAddr, diskSetAddr, bootModeAddr, maxBootMode
<1>5. CASE c \notin {clockModeAddr, diskSetAddr, bootModeAddr}
  BY <1>5 DEF Valid, Effective, Choice, Byte, clockModeAddr, diskSetAddr, bootModeAddr
<1>6. QED BY <1>2, <1>3, <1>4, <1>5

LEMMA WorkingIs ==
  /\ EffectiveDat = DatOf(stored) /\ EffectiveDat' = DatOf(stored')
  /\ bpc = "off" => Working = DatOf(stored)
  /\ bpc' = "off" => Working' = DatOf(stored')
  /\ bpc # "off" => Working = InForceOf(eeprom)
  /\ bpc' # "off" => Working' = InForceOf(eeprom')
BY DEF EffectiveDat, DatOf, Working, InForceOf

StoreVars == <<EffectiveDat, Working, bpc = "run", stored # NoDat, faulted>>

\* What leaves the array, the file and the card alone.
LEMMA StoreSame ==
  ASSUME stored' = stored, faulted' = faulted, InForceOf(eeprom') = InForceOf(eeprom),
         bpc # "off", bpc' # "off", (bpc = "run") <=> (bpc' = "run")
  PROVE  UNCHANGED StoreVars
BY WorkingIs DEF StoreVars

\* The power goes on: the array is what the file holds, or the card fails.
LEMMA LoadedIs ==
  ASSUME StoreInv, bpc = "off", NEW S \in Moves
  PROVE  \A c \in Cell : InForceOf(Loaded(S))[c] = IF c \in S THEN DatOf(stored)[c]
                                                   ELSE Effective(c, 255)
<1>1. eeprom = Blank
  BY DEF StoreInv, OffInv
<1>2. ASSUME NEW c \in Cell
      PROVE  InForceOf(Loaded(S))[c] = IF c \in S THEN DatOf(stored)[c] ELSE Effective(c, 255)
  <2>1. eeprom[c] = 255
    BY <1>1 DEF Blank
  <2>2. Loaded(S)[c] = IF stored # NoDat /\ c \in S
                       THEN IF stored[c] = Absent THEN 255 ELSE stored[c]
                       ELSE 255
    BY <2>1 DEF Loaded
  <2>3. InForceOf(Loaded(S))[c] = Effective(c, Loaded(S)[c])
    BY DEF InForceOf
  <2>4. DatOf(stored)[c] = Effective(c, IF stored = NoDat THEN 255
                                        ELSE IF stored[c] = Absent THEN 255 ELSE stored[c])
    BY DEF DatOf
  <2>5. CASE c \in S
    BY <2>2, <2>3, <2>4, <2>5
  <2>6. CASE c \notin S
    BY <2>2, <2>3, <2>6
  <2>7. QED BY <2>5, <2>6
<1>3. QED BY <1>2

LEMMA PowerOnStores ==
  ASSUME StoreInv, NEW S \in Moves, NEW pressed \in BOOLEAN, PowerOn(S, pressed)
  PROVE  [Store!Next]_StoreVars
<1>1. /\ bpc = "off" /\ bpc' = "validate" /\ stored' = stored
      /\ eeprom' = Loaded(S) /\ faulted' = (S # Cell)
  BY DEF PowerOn, Goto
<1>2. /\ Working = DatOf(stored) /\ Working' = InForceOf(Loaded(S))
      /\ EffectiveDat = DatOf(stored) /\ EffectiveDat' = EffectiveDat
  BY <1>1, WorkingIs
<1>3. \A c \in Cell : Working'[c] = IF c \in S THEN EffectiveDat[c] ELSE Effective(c, 255)
  BY <1>1, <1>2, LoadedIs
<1>4. CASE S = Cell
  <2>1. \A c \in Cell : InForceOf(Loaded(S))[c] = DatOf(stored)[c]
    BY <1>2, <1>3, <1>4
  <2>2. InForceOf(Loaded(S)) = DatOf(stored)
    BY <2>1 DEF InForceOf, DatOf
  <2>3. faulted' = faulted
    BY <1>1, <1>4 DEF StoreInv, OffInv, SettingsInv, SettingsTypeOK
  <2>4. QED BY <1>1, <1>2, <2>2, <2>3 DEF StoreVars
<1>5. CASE S # Cell
  <2> DEFINE d == [c \in Cell |-> Effective(c, 255)]
  <2>1. \A c \in Cell : Working'[c] = IF c \in S THEN EffectiveDat[c] ELSE d[c]
    BY <1>3
  <2>2. Store!Mixed(Working', EffectiveDat, d)
    BY <2>1, MixedIs
  <2>3. faulted' /\ bpc # "run" /\ bpc' # "run"
    BY <1>1, <1>5
  <2>4. Store!ReadFault
    BY <1>1, <1>2, <2>2, <2>3 DEF Store!ReadFault, Working
  <2>5. QED BY <2>4 DEF Store!Next
<1>6. QED BY <1>4, <1>5

LEMMA ValidateStores == ASSUME StoreInv, Validate PROVE UNCHANGED StoreVars
<1>1. /\ eeprom' = [c \in Cell |-> Valid(c, eeprom[c])]
      /\ bpc = "validate" /\ bpc' = "menu" /\ stored' = stored /\ faulted' = faulted
  BY DEF Validate, Goto
<1>2. ASSUME NEW c \in Cell PROVE Effective(c, eeprom'[c]) = Effective(c, eeprom[c])
  BY <1>1, StoredIs, EffectiveIs
<1>3. InForceOf(eeprom') = InForceOf(eeprom)
  BY <1>2 DEF InForceOf
<1>4. QED BY <1>1, <1>3, StoreSame

\* What the program, or the loading of one, does without the settings.
LEMMA OthersStore ==
  ASSUME UNCHANGED <<eeprom, stored, faulted>>, bpc # "off", bpc' # "off",
         (bpc = "run") <=> (bpc' = "run")
  PROVE  UNCHANGED StoreVars
BY StoreSame

LEMMA ReadStores ==
  ASSUME StoreInv, NEW n \in 0..SegLen, ReadSegment(n) PROVE [Store!Next]_StoreVars
<1>1. /\ bpc = "read" /\ bpc' \in {"read", "save"} /\ UNCHANGED <<eeprom, stored>>
      /\ faulted' = (faulted \/ n # Smaller(SegLen, Length[prog] - at))
  BY DEF ReadSegment, Goto
<1>2. Working' = Working /\ EffectiveDat' = EffectiveDat
  BY <1>1, WorkingIs
<1>3. CASE faulted' = faulted
  BY <1>1, <1>3, OthersStore
<1>4. CASE faulted' # faulted
  <2>1. faulted' /\ bpc # "run" /\ bpc' # "run"
    BY <1>1, <1>4 DEF StoreInv, SettingsInv, SettingsTypeOK
  <2>2. Store!ReadFault
    BY <1>1, <1>2, <2>1 DEF Store!ReadFault, Working
  <2>3. QED BY <2>2 DEF Store!Next
<1>5. QED BY <1>3, <1>4

\* One cell changes at most, to something that can be chosen.
LEMMA ChooseIs ==
  ASSUME StoreInv, NEW c \in Cell, NEW b \in Choice[c], b \in Byte,
         eeprom' = [eeprom EXCEPT ![c] = b] \/ eeprom' = eeprom,
         stored' = stored, faulted' = faulted,
         bpc \notin {"off", "run"}, bpc' \notin {"off", "run"}
  PROVE  [Store!Next]_StoreVars
<1>1. eeprom \in [Cell -> Byte]
  BY StoredIs
<1>2. /\ Working = InForceOf(eeprom) /\ Working' = InForceOf(eeprom')
      /\ EffectiveDat' = EffectiveDat
  BY WorkingIs
<1>3. CASE eeprom' = eeprom
  BY <1>3, OthersStore
<1>4. CASE eeprom' = [eeprom EXCEPT ![c] = b]
  <2>1. \A d \in Cell : eeprom'[d] = IF d = c THEN b ELSE eeprom[d]
    BY <1>1, <1>4
  <2>2. \A d \in Cell : Working'[d] = IF d = c THEN Effective(c, b) ELSE Working[d]
    BY <1>2, <2>1 DEF InForceOf
  <2>3. Effective(c, b) = b
    BY EffectiveIs
  <2>4. Store!ChangedAtMostAt(c)
    BY <2>2 DEF Store!ChangedAtMostAt, Working
  <2>5. Working'[c] \in Choice[c]
    BY <2>2, <2>3
  <2>6. Store!Choose
    BY <1>2, <2>4, <2>5 DEF Store!Choose, Working
  <2>7. QED BY <2>6 DEF Store!Next
<1>5. QED BY <1>3, <1>4

\* A key of the menu.
LEMMA MenuStores == ASSUME StoreInv, MenuKey PROVE [Store!Next]_StoreVars
<1>1. SettingsInv /\ bpc \in {"key", "disk"} /\ bpc \in MenuPc /\ eeprom \in [Cell -> Byte]
  BY StoredIs DEF StoreInv, MenuKey, KeyRefused, KeyProgram, KeyToggle, KeyDiskSet, DiskOther,
     DiskAccept, DiskEscape, MenuPc, BootPc
<1>2. \/ UNCHANGED eeprom
      \/ \E c \in Cell : \E b \in Choice[c] : b \in Byte /\ eeprom' = [eeprom EXCEPT ![c] = b]
  <2>1. CASE \E ch \in Key : KeyRefused(ch) \/ DiskOther(ch)
    BY <2>1 DEF KeyRefused, DiskOther, settingVars
  <2>2. CASE KeyDiskSet
    BY <2>2 DEF KeyDiskSet, settingVars
  <2>3. ASSUME NEW ch \in Key, KeyProgram(ch)
        PROVE  \/ UNCHANGED eeprom
               \/ \E b \in Choice[bootModeAddr] :
                    b \in Byte /\ eeprom' = [eeprom EXCEPT ![bootModeAddr] = b]
    <3> DEFINE m == (ch - Digit(1)) % 256
    <3>1. ch \in Int
      BY BootAssumption
    <3>2. m \in Byte
      BY <3>1 DEF Byte, Digit
    <3>3. IF m <= maxBootMode THEN eeprom' = [eeprom EXCEPT ![bootModeAddr] = m]
          ELSE eeprom' = eeprom
      BY <2>3 DEF KeyProgram, Chosen
    <3> HIDE DEF m
    <3>4. m <= maxBootMode => m \in Choice[bootModeAddr]
      BY <3>2, CellFacts DEF Choice, Byte, maxBootMode
    <3>5. QED BY <3>2, <3>3, <3>4
  <2>4. ASSUME NEW ch \in Key, KeyToggle(ch)
        PROVE  \E c \in Cell : \E b \in Choice[c] : b \in Byte /\ eeprom' = [eeprom EXCEPT ![c] = b]
    <3>1. ch \in {54, 55, 57}
      BY <2>4 DEF KeyToggle, Toggles, Digit
    <3>2. ~((ch - Digit(1)) % 256 <= maxBootMode)
      BY <3>1 DEF Digit, maxBootMode
    <3>3. debugMode' \in {0, 1} /\ autoexecFlag' \in {0, 1} /\ autoBootMode' \in {0, 1}
      <4>1. InForce
        BY <1>1, MenuInForce
      <4>2. QED BY <2>4, <4>1 DEF KeyToggle, InForce
    <3>4. \E b \in {0, 1} : eeprom' = [eeprom EXCEPT ![Toggles[ch]] = b]
      <4> DEFINE b == CASE ch = Digit(6) -> debugMode'
                        [] ch = Digit(7) -> autoexecFlag'
                        [] ch = Digit(9) -> autoBootMode'
      <4>1. eeprom' = [eeprom EXCEPT ![Toggles[ch]] = b]
        BY <2>4, <3>2 DEF KeyToggle, Chosen
      <4>2. b \in {0, 1}
        BY <3>1, <3>3 DEF Digit
      <4> HIDE DEF b
      <4>3. QED BY <4>1, <4>2
    <3>5. Toggles[ch] \in Cell /\ Choice[Toggles[ch]] = {0, 1}
      <4>1. Toggles[ch] \in {debugModeAddr, autoexecFlagAddr, autoBootModeAddr}
        BY <3>1 DEF Toggles, Digit
      <4>2. QED BY <4>1, CellFacts DEF Choice
    <3>6. 0 \in Byte /\ 1 \in Byte
      BY DEF Byte
    <3>7. QED BY <3>4, <3>5, <3>6
  <2>5. CASE DiskAccept
    <3>1. eeprom' = [eeprom EXCEPT ![diskSetAddr] = iCount]
      BY <2>5 DEF DiskAccept, Chosen, Digit, maxBootMode
    <3>2. iCount \in Byte /\ iCount < maxDiskSet /\ maxDiskSet \in 1..5
      BY <1>1, <2>5, SettingsAssumption DEF SettingsInv, OfferedExists, DiskAccept
    <3>3. iCount \in Choice[diskSetAddr]
      BY <3>2, CellFacts DEF Choice, Byte
    <3>4. QED BY <3>1, <3>2, <3>3, CellFacts
  <2>6. CASE DiskEscape
    BY <2>6 DEF DiskEscape, Chosen, Digit, maxBootMode
  <2>7. QED BY <2>1, <2>2, <2>3, <2>4, <2>5, <2>6, CellFacts DEF MenuKey
<1>3. /\ stored' = stored /\ faulted' = faulted /\ bpc' \in {"menu", "disk"}
  BY <1>1 DEF MenuKey, KeyRefused, KeyProgram, KeyToggle, KeyDiskSet, DiskOther, DiskAccept,
              DiskEscape, Chosen, Goto, settingVars
<1>4. CASE UNCHANGED eeprom
  BY <1>1, <1>3, <1>4, OthersStore
<1>5. CASE \E c \in Cell : \E b \in Choice[c] : b \in Byte /\ eeprom' = [eeprom EXCEPT ![c] = b]
  <2>1. bpc \notin {"off", "run"} /\ bpc' \notin {"off", "run"}
    BY <1>1, <1>3
  <2>2. QED BY <1>3, <1>5, <2>1, ChooseIs
<1>6. QED BY <1>2, <1>4, <1>5

\* What a save of the cells S makes permanent.
LEMMA CommitsIs ==
  ASSUME StoreInv, NEW S \in Moves, bpc' # "off", eeprom' \in [Cell -> Byte],
         stored' = Written(eeprom', S), faulted' = (faulted \/ S # Cell)
  PROVE  Store!Commits /\ (stored # NoDat <=> stored' # NoDat) /\ (faulted => faulted')
<1>1. stored \in Stored
  BY StoredIs
<1>2. /\ Working' = InForceOf(eeprom')
      /\ EffectiveDat = DatOf(stored) /\ EffectiveDat' = DatOf(stored')
  BY WorkingIs
<1>3. (stored # NoDat <=> stored' # NoDat)
  BY <1>1, DatWritten
<1>4. CASE stored = NoDat
  <2>1. EffectiveDat' = EffectiveDat
    BY <1>1, <1>2, <1>4, DatWritten
  <2>2. QED BY <1>3, <1>4, <2>1 DEF Store!Commits
<1>5. CASE stored # NoDat /\ S = Cell
  <2>1. EffectiveDat' = Working'
    BY <1>1, <1>2, <1>5, DatWrittenWhole
  <2>2. Store!Commits
    BY <1>5, <2>1 DEF Store!Commits, Working
  <2>3. QED BY <1>3, <2>2
<1>6. CASE stored # NoDat /\ S # Cell
  <2>1. \A c \in Cell : EffectiveDat'[c] = IF c \in S THEN Working'[c] ELSE EffectiveDat[c]
    BY <1>1, <1>2, <1>6, DatWritten
  <2>2. Store!Mixed(EffectiveDat', Working', EffectiveDat) /\ faulted'
    BY <1>6, <2>1, MixedIs
  <2>3. Store!Commits
    BY <1>6, <2>2 DEF Store!Commits, Working
  <2>4. QED BY <1>3, <2>2, <2>3
<1>7. QED BY <1>4, <1>5, <1>6

LEMMA StartStores ==
  ASSUME StoreInv, NEW S \in Moves, Start(S) PROVE [Store!Next]_StoreVars
<1>1. /\ bpc = "save" /\ bpc' = "run" /\ eeprom' = eeprom
      /\ stored' = Written(eeprom', S) /\ faulted' = (faulted \/ S # Cell)
  BY DEF Start, Goto
<1>2. eeprom' \in [Cell -> Byte]
  BY <1>1, StoredIs
<1>3. Store!Commits /\ (stored # NoDat <=> stored' # NoDat) /\ (faulted => faulted')
  BY <1>1, <1>2, CommitsIs
<1>4. Working' = Working
  BY <1>1, WorkingIs
<1>5. Store!EndSetUp
  BY <1>1, <1>3, <1>4 DEF Store!EndSetUp, Working
<1>6. QED BY <1>5 DEF Store!Next

LEMMA EepromWriteStores ==
  ASSUME StoreInv, bpc = "run", bpc' = "run", NEW b \in Byte, NEW S \in Moves, EepromWrite(b, S)
  PROVE  [Store!Next]_StoreVars
<1>1. /\ eepromOffset \in Cell /\ eeprom' = [eeprom EXCEPT ![eepromOffset] = b]
      /\ stored' = Written(eeprom', S) /\ faulted' = (faulted \/ S # Cell)
  BY DEF EepromWrite, Update
<1>2. eeprom \in [Cell -> Byte]
  BY StoredIs
<1>3. eeprom' \in [Cell -> Byte] /\ \A d \in Cell \ {eepromOffset} : eeprom'[d] = eeprom[d]
  BY <1>1, <1>2
<1>4. Store!Commits /\ (stored # NoDat <=> stored' # NoDat) /\ (faulted => faulted')
  BY <1>1, <1>3, CommitsIs
<1>5. Working = InForceOf(eeprom) /\ Working' = InForceOf(eeprom')
  BY WorkingIs
<1>6. \A d \in Cell \ {eepromOffset} : Working'[d] = Working[d]
  BY <1>3, <1>5 DEF InForceOf
<1>7. \E c \in Cell : Store!ChangedAtMostAt(c)
  BY <1>1, <1>6 DEF Store!ChangedAtMostAt, Working
<1>8. Store!ProgramWrites
  BY <1>4, <1>7 DEF Store!ProgramWrites
<1>9. QED BY <1>8 DEF Store!Next

LEMMA PowerFailsStores == ASSUME StoreInv, PowerFails PROVE [Store!Next]_StoreVars
<1>1. bpc' = "off" /\ faulted' = FALSE
  BY DEF PowerFails, PowerOff, PowerOffInSave, Cleared, Goto
<1>2. /\ EffectiveDat = DatOf(stored) /\ EffectiveDat' = DatOf(stored') /\ Working' = EffectiveDat'
  BY <1>1, WorkingIs
<1>3. CASE stored' = stored
  <2>1. Store!PowerCycle
    BY <1>1, <1>2, <1>3 DEF Store!PowerCycle, Working
  <2>2. QED BY <2>1 DEF Store!Next
<1>4. ASSUME NEW S \in Moves, PowerOffInSave(S), stored' # stored PROVE Store!Next
  <2>1. bpc = "save" /\ stored' = Written(eeprom, S)
    BY <1>4 DEF PowerOffInSave
  <2>2. eeprom \in [Cell -> Byte] /\ stored \in Stored
    BY StoredIs
  <2>3. stored # NoDat /\ stored' # NoDat
    BY <1>4, <2>1, <2>2, DatWritten
  <2>4. Working = InForceOf(eeprom)
    BY <2>1, WorkingIs
  <2>5. \A c \in Cell : EffectiveDat'[c] = IF c \in S THEN Working[c] ELSE EffectiveDat[c]
    BY <1>2, <2>1, <2>2, <2>3, <2>4, DatWritten
  <2>6. Store!Mixed(EffectiveDat', Working, EffectiveDat)
    BY <2>5, MixedIs
  <2>7. Store!PowerCycle
    BY <1>1, <1>2, <2>1, <2>3, <2>6 DEF Store!PowerCycle, Working
  <2>8. QED BY <2>7 DEF Store!Next
<1>5. stored' = stored \/ \E S \in Moves : PowerOffInSave(S)
  BY DEF PowerFails, PowerOff
<1>6. QED BY <1>3, <1>4, <1>5

LEMMA GuestStores == ASSUME StoreInv, Guest PROVE [Store!Next]_StoreVars
<1>1. bpc = "run" /\ bpc' = "run"
  BY GuestIs
<1>2. CASE \E b \in GuestByte, S \in Moves : EepromWrite(b, S)
  BY <1>1, <1>2, EepromWriteStores, ServicesAssumption
<1>3. CASE ~ \E b \in GuestByte, S \in Moves : EepromWrite(b, S)
  <2>1. UNCHANGED settingVars
    BY <1>3 DEF Guest, ServiceStep, StoreOpcode, SetBankOp, Ignored, EepromAddress, EepromDropped,
            NothingToRead, EepromRead, DateTime, DateTimeOver, Answered, WriteMemory
  <2>2. QED BY <1>1, <2>1, OthersStore DEF settingVars
<1>4. QED BY <1>2, <1>3

LEMMA StoreStep == StoreInv /\ [Next]_vars => [Store!Next]_StoreVars
<1> SUFFICES ASSUME StoreInv, [Next]_vars PROVE [Store!Next]_StoreVars
  OBVIOUS
<1>1. CASE Setup
  <2>1. CASE ShowMenu \/ LeaveMenu \/ LoadStart \/ Open
    <3>1. /\ UNCHANGED <<eeprom, stored, faulted>>
          /\ bpc \in {"menu", "load", "open"} /\ bpc' \notin {"off", "run"}
      BY <2>1 DEF ShowMenu, LeaveMenu, LoadStart, Open, Goto, settingVars
    <3>2. QED BY <3>1, OthersStore
  <2>2. QED BY <1>1, <2>1, ValidateStores, ReadStores, StartStores, PowerOnStores
        DEF Setup, BootStep
<1>2. CASE Typed
  <2>1. CASE RetryKey
    BY <2>1, OthersStore DEF RetryKey, Goto, settingVars
  <2>2. QED BY <1>2, <2>1, MenuStores DEF Typed
<1>3. CASE PowerFails
  BY <1>3, PowerFailsStores
<1>4. CASE Guest
  BY <1>4, GuestStores
<1>5. CASE Stops \/ Go
  BY <1>5, OthersStore DEF Stops, Go, Runs, Unknown, settingVars
<1>6. CASE UNCHANGED vars
  <2>1. UNCHANGED <<eeprom, stored, faulted, bpc>>
    BY <1>6 DEF vars, settingVars, bootVars
  <2>2. UNCHANGED StoreVars
    BY <2>1, WorkingIs DEF StoreVars
  <2>3. QED BY <2>2
<1>7. QED BY <1>1, <1>2, <1>3, <1>4, <1>5, <1>6 DEF Next

\* The board implements the store of settings: a setting changes only by a choice or
\* by the program, one at a time; what was in force when the Z80 started is what the
\* next power-up finds; and a card that fails, or the power that goes during the save,
\* leaves a part of the old and a part of the new and nothing else.
THEOREM SettingsAreKeptHolds == Spec => SettingsAreKept
<1>1. Init => Store!Init
  BY DEF Init, BootInit, Store!Init
<1>2. Spec => [][Store!Next]_StoreVars
  BY StoreStep, StoreAlways, PTL DEF Spec
<1>3. QED BY <1>1, <1>2, PTL DEF Spec, SettingsAreKept, Store!Spec, StoreVars, Store!vars, Working

-------------------------------------------------------------------------------
(* The types. *)

\* What the other invariants do not say of the variables.
RestTypeOK ==
  /\ bootSelection \in {0, 1} /\ hl \in Nat /\ at \in Nat /\ mode \in {"RUN", "STOP"}
  /\ ioOpcode \in Byte /\ ioData \in Byte /\ eepromOffset \in Byte /\ addressed \in BOOLEAN

TypeInv == MachineInv /\ ClockInv /\ RestTypeOK

LEMMA NOPIsByte == NOP \in Byte /\ 0 \in Byte
BY DEF NOP, Byte

LEMMA FieldIsByte == ASSUME NEW m \in 0..15, NEW f \in 0..6 PROVE Field(m, f) \in Byte
<1>1. 16 * m + f \in 0..255
  OBVIOUS
<1>2. QED BY <1>1 DEF Field, Byte

LEMMA RestBootStep ==
  ASSUME TypeInv, Setup \/ Typed PROVE RestTypeOK'
<1>1. SettingsInv
  BY DEF TypeInv, MachineInv
<1>2. UNCHANGED serviceVars
  BY DEF Setup, Typed
<1>3. bootSelection' \in {0, 1} /\ hl' \in Nat /\ at' \in Nat /\ mode' \in {"RUN", "STOP"}
  <2>1. CASE LoadStart
    <3>1. prog \in Program
      BY <1>1, <2>1, ProgIsAProgram DEF LoadStart, LoadPc
    <3>2. StrAddr[prog] \in Nat
      BY <3>1, ProgramFits
    <3>3. QED BY <2>1, <3>2 DEF LoadStart, TypeInv, RestTypeOK
  <2>2. CASE \E n \in 0..SegLen : ReadSegment(n)
    BY <2>2, BootAssumption DEF ReadSegment, TypeInv, RestTypeOK
  <2>3. CASE \/ Validate \/ ShowMenu \/ LeaveMenu \/ Open \/ RetryKey
             \/ \E S \in Moves : Start(S)
             \/ \E S \in Moves, pressed \in BOOLEAN : PowerOn(S, pressed)
    BY <2>3 DEF Validate, ShowMenu, LeaveMenu, Open, RetryKey, Start, PowerOn, TypeInv, RestTypeOK
  <2>4. CASE MenuKey
    BY <2>4 DEF MenuKey, KeyRefused, KeyProgram, KeyToggle, KeyDiskSet, DiskOther, DiskAccept,
                DiskEscape, Chosen, TypeInv, RestTypeOK
  <2>5. QED BY <2>1, <2>2, <2>3, <2>4 DEF Setup, Typed, BootStep
<1>4. QED BY <1>2, <1>3 DEF TypeInv, RestTypeOK, serviceVars, history

LEMMA RestServiceStep ==
  ASSUME TypeInv, ServiceStep \/ (\E b \in GuestByte : Unknown(b))
  PROVE  ioOpcode' \in Byte /\ ioData' \in Byte /\ eepromOffset' \in Byte /\ addressed' \in BOOLEAN
<1>1. /\ ioOpcode \in Byte /\ ioData \in Byte /\ eepromOffset \in Byte /\ addressed \in BOOLEAN
      /\ NOP \in Byte /\ eeprom \in [Cell -> Byte] /\ ioByteCnt \in Nat
  BY DEF TypeInv, RestTypeOK, MachineInv, SettingsInv, SettingsTypeOK, ClockInv, CountBound, NOP,
         Byte
<1>2. GuestOpcode \subseteq Byte /\ GuestBank \subseteq Byte /\ GuestByte \subseteq Byte
      /\ Moment \subseteq 0..15
  BY ServicesAssumption
<1>3. CASE DateTime
  <2>1. reading' \in Moment
    BY <1>3 DEF DateTime, TypeInv, ClockInv
  <2>2. Field(reading', ioByteCnt) \in Byte
    <3>1. reading' \in 0..15 /\ ioByteCnt \in 0..6
      BY <1>1, <1>2, <1>3, <2>1 DEF DateTime
    <3>2. QED BY <3>1, FieldIsByte
  <2>3. QED BY <1>1, <1>3, <2>2 DEF DateTime, history
<1>4. CASE EepromRead
  BY <1>1, <1>4 DEF EepromRead, history
<1>5. CASE \/ \E op \in GuestOpcode : StoreOpcode(op)
           \/ \E b \in GuestBank : SetBankOp(b)
           \/ \E b \in GuestByte : Ignored(b) \/ EepromAddress(b) \/ EepromDropped(b) \/ Unknown(b)
           \/ \E b \in GuestByte, S \in Moves : EepromWrite(b, S)
           \/ NothingToRead \/ DateTimeOver
           \/ \E a \in GuestAddr, v \in GuestContent : WriteMemory(a, v)
  BY <1>1, <1>2, <1>5 DEF StoreOpcode, SetBankOp, Ignored, EepromAddress, EepromDropped, Unknown,
     EepromWrite, NothingToRead, DateTimeOver, WriteMemory, Sent, Answered, serviceVars, history
<1>6. QED BY <1>3, <1>4, <1>5 DEF ServiceStep

LEMMA TypeStep == TypeInv /\ [Next]_vars => TypeInv'
<1> SUFFICES ASSUME TypeInv, [Next]_vars PROVE RestTypeOK'
  BY MachineStep, ClockStep DEF TypeInv
<1>1. CASE Setup \/ Typed
  BY <1>1, RestBootStep
<1>2. CASE PowerFails
  <2>1. /\ bootSelection' = 0 /\ hl' = 0 /\ at' = 0 /\ mode' = "RUN"
        /\ ioOpcode' = NOP /\ ioData' = 0 /\ eepromOffset' = 0 /\ addressed' = FALSE
    BY <1>2 DEF PowerFails, PowerOff, PowerOffInSave, Cleared, ServicesCleared
  <2>2. addressed' \in BOOLEAN
    BY <2>1, Zenon
  <2>3. QED BY <2>1, <2>2, NOPIsByte DEF RestTypeOK
<1>3. CASE Guest \/ Stops
  <2>1. UNCHANGED <<bootSelection, hl, at>> /\ mode' \in {mode, "STOP"}
    BY <1>3 DEF Guest, Stops, bootVars
  <2>2. QED BY <1>3, <2>1, RestServiceStep DEF Guest, Stops, TypeInv, RestTypeOK
<1>4. CASE Go \/ UNCHANGED vars
  <2>1. UNCHANGED <<bootSelection, hl, at, serviceVars>> /\ mode' \in {mode, "RUN"}
    BY <1>4 DEF Go, vars, bootVars
  <2>2. QED BY <2>1 DEF TypeInv, RestTypeOK, serviceVars, history
<1>5. QED BY <1>1, <1>2, <1>3, <1>4 DEF Next

\* Every variable has its type, whatever the card, the keyboard and the program do.
THEOREM MachineTypeCorrect == Spec => []MachineTypeOK
<1>1. Init => RestTypeOK
  <2> SUFFICES ASSUME Init PROVE RestTypeOK
    OBVIOUS
  <2>1. /\ bootSelection = 0 /\ hl = 0 /\ at = 0 /\ mode = "RUN"
        /\ ioOpcode = NOP /\ ioData = 0 /\ eepromOffset = 0 /\ addressed = FALSE
    BY DEF Init, BootInit, ServicesInit
  <2>2. addressed \in BOOLEAN
    BY <2>1, Zenon
  <2>3. QED BY <2>1, <2>2, NOPIsByte DEF RestTypeOK
<1>2. Spec => []RestTypeOK
  <2>1. RestTypeOK /\ MachineInv /\ ClockInv /\ [Next]_vars => RestTypeOK'
    BY TypeStep DEF TypeInv
  <2>2. QED BY <1>1, <2>1, MachineAlways, ClockAlways, PTL DEF Spec
<1>3. MachineInv /\ ClockInv /\ RestTypeOK => MachineTypeOK
  <2> SUFFICES ASSUME MachineInv, ClockInv, RestTypeOK PROVE MachineTypeOK
    OBVIOUS
  <2>1. SettingsInv /\ BankInv /\ ram \in [Phys -> Content]
    BY DEF MachineInv, LoadInv
  <2>2. bankoff \in {0, Half, 2 * Half, 3 * Half}
    BY <2>1, BaseIs DEF BankInv
  <2>3. BootTypeOK
    BY <2>1, <2>2 DEF BootTypeOK, SettingsInv, BankInv, RamTypeOK, RestTypeOK
  <2>4. ServicesTypeOK
    BY <2>1 DEF ServicesTypeOK, BankInv, ClockInv, RestTypeOK
  <2>5. QED BY <2>3, <2>4 DEF MachineTypeOK
<1>4. QED BY <1>2, <1>3, MachineAlways, ClockAlways, PTL

===============================================================================
