# Z80-MBC2_VGA32 in TLA+

A verification project for the Z80-MBC2 emulator in `Z80-MBC2_VGA32/`: the
sketch for the ESP32, the virtual I/O subsystem (IOS) it emulates, the Z80 and
the console between them. TLC checks the modules on small instances; TLAPS
proves the central results for every value of the constants.

## 1. The system

Two tasks run on the two cores of the ESP32.

* The **main task** runs `setup()` and `loop()` of the sketch. `setup()` shows
  the configuration menu on request, allocates the emulated RAM, runs the boot
  sequence `Zsetup()` and starts the emulator task; `loop()` then moves single
  characters between the outer world (`mainStream`: the serial port and the
  terminal) and the emulator task.
* The **emulator task** calls `Zloop()` for ever: one instruction of the Z80
  after another, a look at the keyboard every eleventh, or the debugger when the
  machine is stopped. An IN or OUT of the Z80 calls the I/O engine, which calls
  the SD routines and the console directly.

The tasks share two one-character buffers and nothing else once `setup()` is
through, so everything behind those buffers is sequential.

| Part | State | Operations | What must hold |
|---|---|---|---|
| I/O engine, disk services (`Z80_MBC2System.cpp`, `in`, `out`) | stored opcode, exchanged-byte counter, data bus, error code, track, sector, disk set | store an opcode, exchange a byte of one | a transfer moves exactly the bytes of the addressed sector of the open image, whatever was cut short before |
| SD routines and file table (`SimZ80_MBC2.cpp`, `FileSystem_FabGL.cpp`) | current handle, eight slots, stdio streams, segment buffer | `openSD`, `readSD`, `writeSD`, `seekSD` | slots never run out; streams are used as C allows |
| Streams between the tasks (`XStream.h`) | per direction a character and a flag, no lock | `available`, `availableForWrite`, `read`, `write` | nothing lost, doubled or reordered; no task waits for the other for good |
| Console (`SerialTerm.cpp`, `SystemConsole.cpp`, the poll in `Z80_MBC2System::loop`, the console port) | a countdown, a kept character, the interrupt line, flags | `kbhit`, `getch`, `ungetch`, poll, IN, SYSFLAGS | keys arrive in order and once; an interrupt or a status bit is never an empty promise; no key is stuck |
| Emulator loop, debugger (`Z80_MBC2System::loop`) | mode, breakpoint and the one entered last, the stack pointer of X, break flag | run an instruction; go, step, step over, run until return, set a breakpoint | a program stops where the user asked, in the routine the user means, and nowhere else |
| Disassembler (`Z80Disassembler.cpp`) | nothing that lasts | `source()` | what is listed is what runs: C sets its breakpoint by the listing |
| Z80 CPU (`Z80CPU.cpp`) | registers, flags, index selection, two interrupt flip-flops, IRQ and NMI lines | `sim()`, four decoding tables, one case per instruction | arithmetic exact, with the flags programs rely on; prefixes select one register pair and nothing else; interrupts neither early nor lost nor nested; repeated instructions whole although interrupted |
| Memory (`Z80_MBC2RAM`, `ZdigitalWrite`) | 128 KB, two pins, an offset | read, write, SETBANK | three lower halves and a common upper one, none seen in another |
| Other services (EEPROM, RTC, serial TX, flags) | EEPROM array, clock reading | one opcode each | documented exchanges do what they say |
| Boot (`Zsetup`) | the settings, in `EEPROM.DAT`, in the array and in variables; boot mode, load address | validation, menu, disk set dialogue, load, save | what is used is valid and is what is stored; what was chosen is what starts, whole; the power may go at any time |
| Configuration menus, allocator, clock | preferences, regions of PSRAM, a time base | dialogues, `ps_malloc`, throttle | a change that needs a restart gets one; regions do not overlap |

What is hard here: the buffers without a lock; a protocol of many accesses that
any of them may interrupt, over a shared buffer and a stream whose position is
kept elsewhere; media faults in the middle of a sector; a console of four layers,
each keeping at most one character, with three readers (poll, program,
debugger); liveness through a countdown and a spin without a timeout; an interrupt
that may come between any two instructions and any two rounds of a repeated one;
flags computed bit by bit that must be right over long chains of instructions;
settings kept in three places, of which only the slowest survives the power; and a
debugger that guesses calls and returns from opcodes and stack pointers.
`PROJECT.json` lists each hazard at its line, with the properties that would
notice it.

## 2. Modules

```
SdFile  <--EXTENDS--  IosDisk  <--EXTENDS--  DiskDriver  --INSTANCE-->  BlockDevice
                         ^                       ^
                   IosDiskProofs  <------  DriverProofs
XStreams  --INSTANCE-->  Channel          Console
   ^                                        ^
XStreamsProofs                        ConsoleProofs

Z80Alu  <--EXTENDS--  Z80Arith          Z80Sim  --INSTANCE-->  FlipFlops
   ^                     ^                 ^
   |               Z80ArithProofs    Z80SimProofs
   |
Z80Core (with Z80Decode, CpuRam)  <--EXTENDS--  Debugger (with Disassembler)
                                                   ^
                                             DebuggerProofs

Settings, BankedRam  <--EXTENDS--  Boot, Services  <--EXTENDS--  Machine
                                                                    ^   \--INSTANCE-->
                                                         MachineProofs   SettingsStore,
                                                                         BankedMemory
```

**SdFile** models the four SD routines over the slot table and stdio streams. Its
operators are the parts of a step a routine performs: `OpenSD(f, err)` closes what
was open and opens `f` in the first free slot or fails with 127; `ReadSD` and
`WriteSD` move up to a segment, fewer at the end of the file, of the card, or on a
media fault; `SeekErr` is what `seekSD` returns and `SeekSD` where it may leave the
stream. A stream has a position, the direction of its last transfer, so that a read
straight after a write is visible, and a buffer: what was written since `from` reaches
the card (`saved`) only when a seek or a close writes it out (`WriteOut`), for the last
`writeSD( NULL )` of a sector does nothing. On a card that fails, fseek and fclose write
out a part only, and fseek leaves the stream where it is; `lseek()` and `close()` drop
their results, so the code goes on as if they had worked. `astray` remembers that this
happened; no part of the code's behaviour depends on it. The C library is external.

**IosDisk** is the I/O engine. The Z80 program is its environment and is not
constrained: each action is one port access, every one possible in every state.
`StoreOpcode` is the OUT to an odd address; `SelDisk`, `SelTrackLow`,
`SelTrackHigh`, `SelSect`, `SelDiskSet`, and `WriteSect...`/`ReadSect...` are the
disk opcodes, split by the branches of the code (an error is pending; a byte only
moves between bus and buffer; a byte goes with a segment moved). The seek made by
the first byte of a transfer is in `Seeks`, `ErrBefore`, `StreamBefore` (every stream
it may leave) and `ImagesBefore`.
`OtherWrite`, `OtherRead` and `SerialRx` stand for the rest of the engine as far as
it touches the shared registers. `Init` is the state `Zsetup()` leaves: no
operation, error 19, a handle still open.

**DiskDriver** adds a program that follows the protocol in the comments (open the
disk, set track and sector, exchange 512 bytes, ask ERRDISK once) and leaves out
selections it made before. It may be restarted anywhere. **BlockDevice** is what
such a program wants: blocks that keep what was written, and failures that damage
only the block being written. That is what it gets on a card that works. On one that
may fail (`Fails`) the device has two failures no reply shows, because the code drops
them: a request may be `misled` to another part of its disk by a seek that failed, and
an `unsettled` block, one with bytes not yet written out, may lose them until a seek or
a close has succeeded; a request that completes without being misled has settled all
those before it. `DriverGetsABlockDevice` states the refinement, with the blocks read
off the images' bytes, `misled` off `astray`, and the unsettled blocks off `from` and
the position of the stream.

**XStreams** takes `read()` and `write()` of a buffer apart into their accesses to
the character and the flag, and interleaves the two tasks freely. The main task is
`loop()`; the emulator task calls `kbhit()` and `putch()` when it likes. **Channel**
is the abstract one-place channel per direction, refined with `sent` and `rcvd` as
history.

**Console** is the path of a key from the main task to the program. The stream is
one atomic place here, which XStreams justifies. `TermKbhit` is
`SerialTerm::kbhit()` with its countdown, `Kbhit` is `SystemConsole::kbhit()` with
its kept character. One turn of the loop is the poll that is due and then an
instruction, which may read the console, read SYSFLAGS, switch interrupts, or do
anything else; any instruction may stop the machine, after which the debugger reads
the same console. Each of these operations looks into the stream at most once, so
an action per operation loses no interleaving with the main task. Keys are their
place in the order of typing.

**Z80Sim** is `Z80CPU::sim()`. A step is one call: it accepts a request (`Accept`) or
executes one instruction. EI is emulated by a trick, `iff1 = 1, iff2 = 0`, undone
before the next instruction by `iff2 |= iff1`; `Settled` is the second flip-flop as
that instruction sees it. `Accept` disables interrupts in every mode, but only mode
1 goes to a handler: the `simStop` of the others is an empty macro, and such a
request does nothing but leave the interrupts off. `Round` is one round of LDIR,
LDDR, CPIR or CPDR, after which `pc_ -= 2` may lead back to the instruction. The
program is a constant: a loop and a handler at 0x0038 that ends in EI and a return,
as handlers are written. `Raise` is the poll's `trigIRQ( 1 )`; reading the console
takes the request back. `trigNMI()` has no caller. **FlipFlops** is what a Z80
promises: EI sets both flip-flops and holds interrupts off for one instruction, a
request that may be accepted is accepted before the next instruction, LD A,I
reports IFF2; which kind of instruction ran last is part of its state, so that no
instruction passes for another. The refinement takes `Settled` for IFF2, and the
trick's state (1, 0) for EI's delay.

**Z80Alu** has the results and the documented flags of the arithmetic instructions
as operators, with carries as the bits of `y ^ z ^ x`, which the code computes them
from, and the six cases of DAA. **Z80Arith** uses them as programs do: numbers of
several bytes, binary or decimal, are added, subtracted, doubled or halved byte
after byte, beginning with or without a carry.

**Settings** holds the array of `struct Eeprom`, the file `EEPROM.DAT` and the
variables the settings are copied to. Of the 256 cells it keeps the six the emulator
reads. `Loaded(S)` and `Written(ee, S)` are a transfer of the array that moves the
cells `S`: all of them, or those below some address when the file ends there, the card
fails or the power goes. **BankedRam** is the memory behind the Z80's addresses:
`SetPins` is two calls of `ZdigitalWrite`, which compute the offset, and `PhysAddr`
the test of address bit 15 in `Z80_MBC2RAM::read()` and `write()`.

**Boot** is `Zsetup()`, an action for each stretch without input: `PowerOn` (load the
array, look at the button), `Validate`, `ShowMenu`, the keys (`KeyProgram`,
`KeyToggle`, `KeyDiskSet` with its dialogue, `KeyRefused`), `LoadStart` (the jump at 0,
the load address, a program from flash as a whole), `Open`, `ReadSegment`, `Start`
(save and run). A byte of memory is known by where it comes from, so that one that was
not loaded, or loaded elsewhere, cannot pass for another. `readSD` returns an error only
for a handle that is not open, so the loop that repeats the load "until error
disappears" is never taken, and a segment cut short by the card looks like the end of
the file. **Services** is what a running program does to settings, memory and clock:
SETBANK, RDWREEPROM, DATETIME with and without a clock (`foundRTC`, which
`autoSetRTC()` of this port always sets), an opcode that stops the machine, and writes to
memory.
**Machine** puts the two one after the other, again and again, with the power failing
between any two steps and during the save.

**SettingsStore** is what the user is promised: settings change one at a time and by a
choice or by the program, the end of the set-up makes them permanent, the next power-up
finds what is permanent, and a failing card or the power leave a part of the old and a
part of the new and nothing worse. The refinement takes for a setting what validation
makes of it, so repairs do not show. **BankedMemory** is one upper and three lower
halves; the refinement reads the bank the program asked for through the offset, as the
Z80 would, and the others where the table of the code has them.

**Z80Decode** is the four tables of `Z80CPU.cpp`, by rows and columns where they have
them. **Z80Core** executes them: an instruction is decoded under its prefixes, which
set two flags (`useix`, `useiy`) and two pointers; `named` and `pointed` in `Decode` are
what each makes of a prefix. `simop` has one case per family of instructions, on a record
`z` of the whole processor, with the results of Z80Alu. **CpuRam** is sparse: an address
a program does not mention holds `Blank`, which is HALT. **Disassembler** gives the
address `source()` arrives at, from the operand patterns of its own tables.

**Debugger** is `loop()`: a key while stopped, otherwise one instruction and the
decision whether to stop. Its histories say what the user means: `frames` the calls
that have not returned (a call is open while its return address is still on the stack),
`goal` and `over` the calls open when X or C was pressed, `calledAt` where C was
pressed, `armed` whether the breakpoint is one that was set.

## 3. What TLC checks

| Run | Question | Bounds | States |
|---|---|---|---|
| `disk_engine` | arbitrary programs against the engine | one image of a single sector on a card with room for two; 4-byte sectors of two 2-byte segments; data bytes 0, 1 and one payload; every disk opcode; no media fault | 2.3 million |
| `disk_driver` | documented program, restarts, media faults: a block device with no more than two unreported failures, and is a request refused that should not be? | two disks of two sectors, three blocks in use, one of them written; followed until a byte lies where it does not belong (`MCFollowed`) | 739 thousand |
| `streams` | both cores, all interleavings | two characters, three sent per direction | 15 thousand |
| `console` | every reader of the console | three keys, the middle one a NUL; countdown 3, poll gap 3 | 11 thousand |
| `z80_sim` | interrupts at any time, in programs of every kind | 16-bit registers of four values; loops of four instructions, of which one is EI; two handlers; memory of four cells | 355 thousand |
| `z80_arith` | numbers of two bytes | twelve bytes at the borders of digits, signs and bytes, nine decimal bytes | 138 thousand |
| `machine` | boots, programs and power failures, with a card that may fail | six files `EEPROM.DAT`; 2 disk sets; keys CR, ESC, 0, 3, 8, 9; halves of 4 bytes, segments of 2, programs of one or two segments at 0, 3 and 5; transfers that end at cell 0, 14 or nowhere | 411 thousand |
| `debugger` | every instruction under every prefix, and the debugger's keys in programs that call | 1782 opcodes with their prefixes and seven instructions that begin at FFFF, flags all set and all clear; seven programs; one breakpoint typed, others set by C; one typed character; ports that answer 0 or 255 | 266 thousand |
| `engine_invalid_address`, `engine_read_error`, `eeprom_write`, `console_typed_ahead` | a sentence of the comments each, which the code contradicts | as above | until refuted |

Why the bounds are enough: two bytes per segment and two segments per sector are
the least in which a byte can be first, middle or last of a segment and of a
sector; the valid address past the end of the image gives the short read and the
extending write; an address past the last track the invalid one. All bytes of the
images differ, so a byte read tells where it comes from. In the streams three
characters let a new one meet what two others left. Three keys fill mailbox,
console and keyboard at once. Four values of a register make areas that overlap by
one or two cells, forwards, backwards and around the end, and counts of 0 and more;
a loop of four instructions has room for a mode, EI and two of the rest. Two bytes
have a carry between them and 16 bits for ADC HL and SBC HL. In `machine` two programs end
with a short segment and the others with a whole one, which the code tells apart only by
one more read; one is loaded behind the jump, one where its last byte is in the upper
half, one over address 0; and the cut at 14 is between cells that a choice changes. Every
opcode value is executed with operands that make a jump, a call or an offset land on an
address of its own; the seven programs nest and repeat calls, overwrite address 0 by going
there, keep a stack of their own, push and pop between two calls, call one routine from the
program and from a handler, and are interrupted before, at and inside a call.

Counters that grow without bound in the program are capped: `CountBound` stops the
byte counter at the length of a sector, from where it no longer matters (a transfer
with an error pending keeps counting, and none of its branches look further than
`>=` the last byte or the place in the segment); `Capacity` is the room on the
card; `MaxSent`, `MaxTyped` and `MaxKeys` limit the characters of a run. `disk_driver`
does not go on from a state in which a misled request has put a byte where it does not
belong (`MCFollowed`): the step that does so is checked, and the proofs follow it further.
`machine`
follows a program until the card fails (`Runs`), `debugger` until the program has left
what was loaded (`AtCode`: the user does not go on from there), and executes an instruction
only if it has at most `MaxPrefixes` prefixes (`Bounded`; two here, any number in the
proofs), since `simDD` and `simFD` call `simop()` again for each.

The properties, by hazard:

* *Engine.* `StreamFollowsTransfer` ties the position of the file to the counter
  of the engine. `WritesLandWhereAddressed`, `ReadsAnswerTheAddressedByte` say that a
  step changes or answers the addressed byte only. They are checked on a card that works
  and proved for every card: on one that fails they say that only a transfer whose seek
  failed does otherwise, and that only bytes not yet written out are lost, and only to what
  they were. `StreamsUsedAsCAllows` forbids a change of direction without a seek,
  `OneFileOpen` a leaked slot.
* *Driver.* `DriverGetsABlockDevice`, `CountsAgree`, `NoFaultNoFailure`.
* *Streams.* `ChannelsKept`, `ChannelsServed` (refinement without and with
  liveness), `GuardedCallsDoNotWait`, `PutchReturns`.
* *Console.* `KeysAreReadInOrder`, `PromisesOutliveEverythingButTheDebugger`,
  `EveryKeyIsReadOrOvertaken`, `KeptCharactersInterrupt`.
* *Interrupts.* `FlipFlopsImplemented` (the trick with `iff2` cannot be seen),
  `NoNesting` (EI's delay covers the return), `RequestIsMet`, and `BlocksAreWhole`: an
  interrupted block move or search ends as its closed form says.
* *Arithmetic.* `Exact` and `StaysDecimal` over whole numbers, `SignedOrder` (S and
  P/V order signed numbers), `WideAgrees` (16 bits against two times 8, the zero flag
  apart), `TwinsAgree` (what different code computes of the same: INC and ADD, the
  shifts and doubling, a rotation and its inverse, RLD and RRD).
* *Settings and boot.* `SettingsInForce` (valid, and one value everywhere, through every
  dialogue), `SettingsAreKept` (the store), `StartsWhatWasChosen` (the whole program, as
  the selected bank shows it, with the jump leading to it), `StartsUnattended`.
* *Memory and services.* `BanksAreSeparate` (the refinement), `DateTimeIsOneMoment`.
* *Instructions.* `ListingIsWhatRuns` (table of the disassembler against the
  processor), `IndexedLeavesHL` (an instruction on IX or IY gives the same whatever HL
  holds).
* *Debugger.* `CallStepComesBack` and `CallStepEnds` (C leaves nobody inside the call,
  and comes to an end), `UntilRetStopsThere` (X stops at the return of that routine and of
  none called since, with the limits that comparing stack pointers has), `NoStopUnasked`.

**Fairness.** `streams`: both tasks run for ever, each on its own core, so the main
task and a call under way make progress; the emulator's look at the keyboard gets
strong fairness because the loop polls every eleven instructions however much the
program prints. `console`: weak fairness of the pump, the poll, the execution of
instructions and the debugger, as both loops never end; strong fairness of the
program's read is a statement about the program, which reads whenever it is
interrupted or again and again, not about the emulator. `z80_sim`: weak fairness of
`sim()`, which the emulator task calls for ever. `machine`: weak fairness of what
`Zsetup()` does without a key; nobody has to press one. `debugger`: weak fairness of `loop()`
while the machine runs, written out as `LoopGoesOn`, since `loop()` is enabled exactly
then; nobody has to press a key or the button there either.

**Deadlock** is checked except in `console`, where the machine really stops when the
debugger waits for a key and none is left to type, and in `z80_arith`, where a number
is finished.

**What the code contradicts.** An invalid address does not keep a transfer from
moving data if SELDISK comes after it (its result overwrites the error); READSECT
after an error answers the last byte of the bus and not 0; the documented address and
data of RDWREEPROM both set the address, because only a read advances the counter; and a
character the program has not read yet is overwritten by the next. (A missing file also
gives 127 where the comments of SELDISK say 3, and a seek the card fails gives 0 where
those of `seekSD` promise the resulting status and list a disk error; no run is about
either, but `disk_driver` shows what becomes of the transfer after such a seek.) Two differences
from the Z80's own documentation, of which the repository says nothing, are modelled as
they are: ADC HL and SBC HL test a 32-bit value for zero, so that Z stays off for a zero
result with a carry (`WideAgrees` states it exactly), and a request in mode 0 or 2 is
dropped. Where the code increments `sp` twice in one expression (RET, POP), the model
takes the build's order, left to right.

Smaller facts met while modelling, which the properties state as exceptions: EX (SP),IX
is listed with a byte too many; a prefix before a prefix or before ED is not followed by
the listing, and a call behind such a prefix is stepped into by C; C stops inside a routine
that a handler, accepted before the call was made, has called from the same place; X does
not know RETI, runs past a return with 32 bytes or more off the stack, and stops at the
return of a routine that was called with less on the stack than X found, as it does at a RET
used as a jump from there; a
breakpoint that was hit becomes address 0, through which every warm start of CP/M passes,
and one at FFFF is there from the start; a call in the last bytes of memory is given a
breakpoint past FFFF that is never hit; and `setExtender()` has no caller, so ED F5
($BREAK) is a no-operation although the help promises that E stops at it.

## 4. What TLAPS proves

Everything below holds for every value of the constants that meets the modules'
assumptions (`SdFileAssumption`, `IosDiskAssumption`, `XStreamsAssumption`): any
sector and segment length with whole segments per sector, any geometry, any card,
with or without media faults, any program; any set of sectors that a driver uses, in
images that hold them (`DriverAssumption`); any alphabet and any number of
characters in a stream; any program, memory and course of requests
(`Z80SimAssumption`, `HandlerAssumption`: handlers end in EI and a return); any bytes
and any length of numbers (`Z80ArithAssumption`); any number of keys, any of them NULs,
and any countdowns of the console (`ConsoleAssumption`); any size of the memory, any programs that
fit into it at 0 or behind the jump, any length of a segment, any content of
`EEPROM.DAT`, any keys, any places a transfer may be cut at and any guest program
(`SettingsAssumption`, `BankedRamAssumption`, `BootAssumption`, `ContentAssumption`,
`ServicesAssumption`, `MachineAssumption`); any memory the debugger starts on, any
breakpoints, anything a port answers and any number of prefixes (`BlankAssumption`,
`PrefixAssumption`, `DebuggerAssumption`).

Where the card may fail (`MediaFaults`), the theorems about the disks say no more than the
properties do: that a seek failed is the exception in each of them, and `astray` records it.

**IosDiskProofs.** The invariant is `IInv`: the types, `OneFileOpen`, a counter that
stays inside the sector (`CountInsideSector`), an error code that is clear without an
open image only when the address is valid (`ClosedImageIsNoticed`),
`StreamFollowsTransfer`, `DirectionFollowsTransfer`, and `BufferFollowsRead`: in the
middle of a segment being read the buffer still holds it. The last is what makes
`ReadsAnswerTheAddressedByte` inductive, for the answer was fetched many accesses
before; it needs the stream's position, hence `StreamFollowsTransfer`, which needs
that the image is open and so `ClosedImageIsNoticed`. The proof has one lemma per
kind of action and conjunct. The module begins with the facts on
`\div` and `%` by a number that is not a literal (the remainder inside a segment, the step
to the next one), which the SMT solver does not find by itself. `FlushIsInPlace` and
`ReadIsInPlace` say which bytes of the image a segment is, in terms of the address and the
counter only; the driver's proofs use nothing else of the engine's arithmetic.

**DriverProofs.** Driver and engine are sequential but not atomic: a request takes hundreds
of accesses, and a restart may come between any two. `DInv` joins the engine's `IInv` with
what holds at each access of a request: `ProgramOK`, what the program keeps of it;
`Selected`, that the engine's selections are those of the request as far as it has come, and
that what the program leaves out is as it remembers; `CountsAgree`; `FilesStay`, that files
do not shrink; `NothingWrong`, that without a failure of the card nothing has gone wrong; and
`BytesMoved`, that the bytes read are the block's and those written are in the block or, for
the segment being filled, in the buffer, unless the transfer is astray; and `OwnUnsaved`, that
what a request has still to write out is its own block's. `CountsAgree` and
`NoFaultNoFailure` (a request fails only if the card did) follow, and
`DriverIsABlockDevice` maps every step: a restart or a fault in the middle of a sector leaves
a block that is neither old nor new, which is what BlockDevice allows, and no other block
changes because sectors do not overlap (`SectorsAreDisjoint`). What a seek or a close fails
to write out is what `Unsaved` names (`LossIsUnsettled`), and the bytes of one sector only,
since every transfer that is not astray began with a seek that wrote out the ones before
it. `SoundCardIsSound` draws the conclusion for a card that works: blocks change only by the
request that writes them, and every reply is right. What is *not* proved, because it does not
hold, is that on a failing card a request that ends without an error has done what it was asked.

**XStreamsProofs.** `IInv` says what a flag and the two program counters tell of the
histories: flag down, everything sent was received; flag up, all but the character in
the buffer, which is complete. From it follow `GuardedCallsDoNotWait` and, step by
step, the refinement `ChannelsKept`.

**Z80SimProofs.** What the stack's depth says of the place and the flip-flops: at most
one return address; with one, the program is inside the handler; there interrupts
are off until its EI, and at the return after it the delay still runs, so no request
can be accepted. This gives `NoNesting`; `FlipFlopsImplemented` follows step by step,
each instruction mapping to the one of that name or to `Other`.

`BlocksAreWhole` is about one instruction that any number of interrupts takes apart.
`Moved(b, n)` says what `n` rounds leave in a cell by the place of the cell in the count
from the destination, overlapping areas included: a cell that was written holds what its
source held, and the source may have been written itself, one distance of the two areas
earlier. The first lemmas count cells around the end of the memory in the direction of the
instruction: steps add up (`CellsAdd`), and every cell has one place (`PlaceIs`). `MovedOne`
is the heart: a round, done on what `n` rounds have left, leaves what the closed form says
of `n + 1`; a recursion over the count is not needed. `BlockInv` then gives registers and
memory in the middle of a block as a function of its beginning and of the rounds made
(`Going`, and `Ended` after the last), whatever a handler did since; `RoundGoesOn` is its
step, for moves and for searches.

**Z80ArithProofs.** First one byte: `SumIsExact` and `DifferenceIsExact` say for all
bytes that the bits of the exclusive or are the carries; `DAAAfterSum` and
`DAAAfterDifference` that DAA, on what they leave, gives the decimal result and
carry, by the two digits' sums. Then numbers: `Exact` is inductive together with
`AdjustPending`, which says that between an instruction and its DAA accumulator and
flags are that instruction's. `StoredBalances` is the step from `n` bytes to `n + 1`.
`SignedInvariant` adds to it `Fitting`: numbers of `n` bytes are less than the weight of the
next one. Then the highest byte decides the order of signed numbers (`TopByteDecides`,
`TopByteSigns`), and for one byte S and P/V are that of the signed sum or difference
(`SignedSum`, `SignedDifference`, by the sign bits and the carry between them and the
rest): `SignedOrder`. After the first byte the numbers *are* that byte, so that after the
second `WideSum` and `WideDifference`, which say of every two words that the 16-bit
instruction is two 8-bit ones, give `WideAgrees`. `TwinsAgree` needs no induction: it holds
of all bytes and flags, by arithmetic, and for AND, OR and XOR bit by bit (`BothFacts`).

**MachineProofs.** Four invariants that need little of each other. `SettingsInv` is
`SettingsInForce` with types and with `OfferedExists`: the disk set the dialogue offers
exists, or CR would put an invalid one in force. `LoadInv` says how far the loading has
come: memory is empty before, then the jump is there (`JumpsTo`) and the first `at` bytes
of the program (`Holds`), with the load address where the next belongs; a segment adds its
bytes and, since a program starts at 0 or behind the jump, leaves the jump alone
(`JumpSurvives`). `BankInv` says that the offset is that of the bank last asked for, the
first one until the Z80 runs. `ClockInv` ties the byte on the bus to the reading.
`StartsWhatWasChosen` follows from the first three. For `BanksAreSeparate`, `SeenIs` shows
that under `BankInv` the memory seen through the offset is the memory itself, and each step
then maps to one of BankedMemory; `WriteSeen` is the write, `LoadSeen` the loading. For
`SettingsAreKept`, `DatWritten` says what a save cut short leaves, `CommitsIs` that this is
what the store allows, and `OffInv` that the array is blank while the power is off, which
makes loading it no change of the settings.

**ConsoleProofs.** `KeysQueue` says that keys wait in line: those read, behind them the
one the console keeps, behind it the one in the stream, and none beyond what the main task
moved on. It is what makes `KeysAreReadInOrder` inductive, for a key is read from either
place: the console takes a new key before the one it keeps only to drop the latter. Every
reader (poll, console port, SYSFLAGS, debugger) is reduced to `AnswerIs`, what one
`kbhit()` may answer, and then either keeps the answer (`KeepsAnswer`) or takes it
(`ReadsKey`). `PromisesOutliveEverythingButTheDebugger` needs only that an answer is never
less than what was kept.

**DebuggerProofs.** `DebuggerTypeOK` is about the processor: after any instruction of the
four tables, under any prefixes, every register, flag and byte of memory fits the type
`Z80CPU.h` declares for it. The program computes in wider types and cuts, or relies on the
value's being small already; that each place does is what the proof goes through. It has
three layers. The results of Z80Alu have the width of a register (`Outcome`), whatever the
bytes. Each update of a processor keeps it one, with the same mode (`Like`). And the operands
of an entry fit its family (`Fits`): the tables never give `LD r,n` the operand `(HL)`, nor
an arithmetic instruction a name that is no register; `DecodeFits` takes this through the
prefixes. `InstructionKeeps` puts them together, a case per family. For `StopsAreAskedFor`
the invariant is TypeOK with `BreakpointKnown` (a breakpoint nobody has set is at 0 or at
FFFF). The loop decides by opcodes it reads again in memory, the processor by its tables:
`RetIsDecoded` says that what the loop takes for a RET is one. Doing the proof showed that
the loop looks at memory *after* the instruction, which may have changed its own opcode by
then (`Overwritten` in `NoStopUnasked`: a PUSH over itself can make X stop where there was
no return).

`ListingHolds` compares two programs that share no table. `Takes` says of each main opcode
how many operand bytes the processor fetches and whether a prefix adds an offset;
`MainLengths`, `ByteLengths` and `EDLengths` show that the disassembler's patterns say the
same, and `DecodeListed` takes this through the prefixes. On the processor's side each family
moves `pc_` on by what it fetches (`WordLoadGoes`, `OperandGoes` and so on), and `JumpGoes`
and `CallGoes` say where else it may go; `ListedIsRun` joins the two. The proof showed that
the property has to count addresses modulo 65536: `source()` does not cut the address behind
an instruction, the processor does, and a CALL in the last bytes of memory is the case where
C is served badly (section 3). For `IndexedLeaveHL`, `Holding(z, h, l)` is the processor `z`
with other H and L. Under a prefix no operand that an instruction reads or writes is one of
the two (`NamesOffHL`), so each family does the same to `Holding(z, h, l)` as to `z`
(`InstructionLeaves`); with H and L themselves for `h` and `l` it follows that they are left
alone. Only the block instructions, RLD and RRD, which mean HL even under a prefix, are not
covered, and `IndexedDecoding` shows that they are reached through ED only.

`ReturnsAreAwaited` and `CallsComeBack` are about the calls that are open, which the machine
does not keep: X compares stack pointers, and C waits for an address. `FramesStand` orders
the open calls as their return addresses lie on the stack, so that those left by an
instruction are the latest ones; `GoalStands` says that the calls that were open when X was
pressed lie at `retsp` or above it. `LinksAreKnown` reads the tables backwards: an opcode that `loop()` or C
takes for a return or a call is one to the processor too, and no other makes or ends calls.
From these `ReturnIsAwaited` goes through the orders of `sp`, `retsp` and the top of the
stack. It holds of every program, since what X cannot know is in the property itself.
`CallsComeBack` supposes of a program, while C lets a call run, that it does not overwrite the
call and that a call which ends does so by a return to where it was made (`Tidy`; every
program of the `debugger` run does). Then `StepStands` holds: the call is still to be made, or
the earliest of the calls made since goes back to it or behind it, so that each stop at the
breakpoint is a return to where C was pressed, or one of the two exceptions in the property.

Both properties were first stated too strongly, and TLC agreed, because the programs of its
run did not reach the cases: a routine that pushes and pops around a call can make X stop at
the return of what it called; X misses a return that comes after 32 bytes have gone off the
stack; and a handler accepted in front of the call, which calls the same routine, makes C stop
inside it. The properties now state these limits, and two programs of the run reach them.

Model-checked only: liveness (`ChannelsServed`, `PutchReturns`, `EveryKeyIsReadOrOvertaken`,
`KeptCharactersInterrupt`, `RequestIsMet`, `StartsUnattended`, `CallStepEnds`), out of the
prover's reach. Every invariant and every action property of the passing runs is proved,
`CallStepComesBack` for tidy programs.

## 5. Not modelled

The listing of components in `PROJECT.json` gives each part's state and reason. In
short:

* The configuration menus run before the emulator starts and set options of the library.
  One thing there is worth a reader's look: the flag that asks for a restart is assigned by
  each submenu in turn (`Z80-MBC2_VGA32.ino:212`), so a later one that needs none takes
  back an earlier one that does.
* The allocator makes one allocation; `free()` and a `malloc()` after it have no caller.
* Clock throttling only delays; USER LED and KEY, GPIO, SPP, TMR and the clock speed are
  one store or one answer each, read by nothing else.
* `reset()` of the I/O engine, the extender, `trigNMI()` and `SerialTerm::input()` have no
  caller.
* Names of instructions, formatting, dumps, screen control, boot images and ROM keep no
  state the properties could tell apart.

The library under the file layer and the program on the Z80 are environment.

## 6. Plan

Done: the disk engine with its driver, the streams, the console's input, the
processor's interrupts, block instructions and arithmetic; the settings, the boot, the
banks and the remaining services; every instruction with its prefixes, the listing and
the debugger. Left, in this order:

1. Composition: interrupts (Z80Sim) and the console's poll under one program of Z80Core,
   with HALT; there `Round` and `RoundOf`, which are the same four instructions in two
   modules, would be one.
2. The configuration menus' restart flag.
