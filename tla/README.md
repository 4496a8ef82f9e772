# A verification of dwdebug

dwdebug is a debugger for AVR microcontrollers. It talks debugWIRE, a one-wire
protocol, through a USB adapter (Digispark, LittleWire, UsbTiny; the firmware is
in `usbtiny/`) or a serial port with an FT232. This directory holds TLA+ models
of the parts that carry its logic, TLC runs on small instances, and theorems
with proofs that TLAPS checks for all values of the constants. `PROJECT.json`
lists components, runs, the map from definitions to source lines, mutants,
findings, hazards and theorems.

## Inventory

The program is one thread. Commands are read from a line buffer, looked up in a
table and run to their end; `Fail` is a `longjmp` back to the prompt, from
anywhere below. Concurrency is with the adapter, whose interrupt and main loop
run on their own, with the program in the target, and with the user.

| component | code | state | operations | hard about it |
|---|---|---|---|---|
| flash programming | `commands/NonVolatile.c` | `pageBuffer`, `R[0..1]`; the target's flash, page buffer, RWW state | `WriteFlash`, `WriteFlashPage`, erase, load, program | partial pages, decisions on what is read back, failure between erase and program, junk from a disabled RWW section, r0 and r1 as carriers |
| EEPROM, fuses | `commands/NonVolatile.c` | `R[0..4]` | `DwReadEEPROM`, `DwWriteEEPROM`, `ReadConfigBits` | registers saved, used and restored, and flags that are not; failure between |
| protocol and session | `dwire/DwPort.c`, `GlobalData.c` | `PC`, `BP`, `R`, `TimerEnable`, `CurrentPort` | connect, reconnect, reset, trace, go, read and write registers and memory | PC, breakpoint, r28..r31 and SREG of the target are scratch; order of restoring; unanswered reads |
| USB link | `dwire/DigiSpark.c` | output buffer, handle, bit time | send, flush, receive, sync, wait, break, poll | buffer boundary, retries of what may already have been done, clock changes, failure in any transfer |
| adapter firmware | `usbtiny/main.c`, `usbconfig.h` | `dwState`, `dwBuf`, `dwLen`, `dwBitTime`, pin change mask | SETUP, OUT data, job 20, interrupt | interrupt against poll, stops that fall into a USB packet, broken data stage, one buffer for everything |
| serial link | `dwire/Serial.c`, `system/SerialPort.c` | output buffer, handle, baud | send with echo check, receive, sync, break, search for the baud rate | unbounded loops, a 0x55 that reads as something else, leftovers after a failed echo check, search that cannot end |
| ports and devices | `dwire/Connection.c`, `system/SystemUSB.c` | `Ports`, `CurrentPort`, `baud`, `character` | enumerate, describe, characteristics | unknown signature as index, half-made connections |
| commands | `commands/*.c` | dump addresses | parameters, dumps, register and memory commands | ranges across r28..r31 and DWDR, write modes, answers that do not come |
| user interface | `ui/UserInterface.c` | `FailPoint`, interactive or not | prompt, dispatch, quit | failing prompt, input skipped after a failure, end of input, unsent bytes at exit |
| command input | `system/SimpleInput.c` | ring buffer | preload, read, skip | wrap around, empty and full, interrupts of gdb that skip input |
| GDB server | `gdbserver/*.c` | none of its own | packets, requests | register layout, fall-through of requests, one breakpoint for many, failure out of a request |
| loading programs | `commands/LoadFile.c` | `FlashBuffer` | binary and ELF | one `WriteFlash` per segment, pages that two share, failure in one |
| disassembler, dumps | `commands/Disassemble.c`, `UnassembleCommand.c`, `DataMemory.c` | `Uaddr`, `DBaddr` and its kin | decode, list, dump | lengths of instructions, the end of the flash, integer ranges, addresses kept after failures |
| services | `system/*.c`, `commandline/*.c` | output position | output, files, `Fail`, `Exit` | handles after `Fail` |
| rest of the adapter | `usbtiny/main.c` | SPI command bytes, `timeout`; I2C lines | SPI read and write, I2C jobs | poll bytes as data, 16-bit timeouts, the order of two lines |
| USB stack | `usbtiny/usbdrv/` | receive and transmit buffer, message pointer and length, addresses | `usbPoll`, interrupt | tokens answered while the main loop is behind; lost packets; lengths at packet borders; a given-up `dw_out` that later transfers meet |
| doorbell example | `bellpush/bellpush.s` | four registers, two outputs | pin change and timer handler | times as differences of a wrapping counter |

Interaction is by calls downward (command, `Dw...`, `Digispark...` or
`Serial...`, USB or serial system call) and by the global copies `PC`, `BP`,
`R`. The one callback is `longjmp`.

The adapter's firmware has functions dwdebug does not use (SPI and I2C among
them) and a USB stack, V-USB, whose interrupt routine and polling loop share two
buffers. `bellpush/` is an example program for the target.

What makes each component correct:

- flash programming: the flash ends up as the old content with the buffer laid
  over it, nothing outside the range changes, no needless wear, r0 and r1 come
  back, and it ends;
- the links: every byte reaches the target once and in order while it is
  stopped, at its speed; an answer answers all that was sent before; a
  breakpoint is noticed, and only a real one;
- the session: the program under test cannot tell that it is being debugged, but
  by its flags after work on flash and EEPROM, and the user sees the program's state;
- user interface and input: every command is handled once and whole, also where
  the buffer wraps, the user is asked for each line, and at the end of the input
  dwdebug quits;
- ports: a command works with the port that was asked for or announced, with its
  own characteristics and its own cached state;
- gdb server: gdb and dwdebug agree on whether the program runs and on the
  breakpoint, and every request is answered;
- commands on memory, files and listings: what is shown is what is there, if it was
  answered, what is written is what was given, nothing else changes;
- USB stack: an answer of full length is the right one, a status packet means the
  data was handled, and transfers end;
- SPI, I2C, doorbell: bytes arrive and waits end, the bus follows its rules, the bridge
  reverses its current in each cycle and carries none between rings.

## Modules

| module | what |
|---|---|
| `FlashUpdate` | abstract: a flash memory being updated to a goal, page by page, only by erasing and by clearing bits |
| `FlashWrite` | `WriteFlash` and `WriteFlashPage` |
| `FlashWriteProofs` | theorems about it |
| `DwLink` | abstract: what the code above the links assumes of a link |
| `DigisparkLink` | host, adapter firmware and target around one USB link |
| `DigisparkLinkProofs` | theorems about it |
| `UserProgram` | abstract: what a debugger promises about the program under test |
| `DebugSession` | the commands over `DwPort.c` |
| `DebugSessionProofs` | theorems about it |
| `SerialLink` | the link through a serial port, with the target at its end |
| `SerialLinkProofs` | theorems about it |
| `BaudSearch` | the search for the target's baud rate, with its arithmetic |
| `Ports` | the table of ports, `device`, `ls`, connecting on demand |
| `InputRing`, `Console` | the input buffer, and the command loop over it |
| `CommandProofs` | theorems about `Console` and, by an instance of it, `Ports` |
| `GdbServer` | gdb's connection, packets, requests, and running the program |
| `Dump` | numbers, ranges and kept addresses of the dump commands |
| `TargetMemory` | reading and writing data space and EEPROM byte by byte |
| `ProgramFile` | the `l` command |
| `TransferProofs` | theorems about `TargetMemory`, and about what the run `commands` makes of `ProgramFile` and `Dump` |
| `Listing` | the disassembler, `u` and the prompt |
| `UsbControl` | control transfers of the adapter's USB stack |
| `I2cBus`, `SpiProgram` | the adapter's I2C and SPI functions |
| `Bellpush` | the doorbell |
| `AdapterProofs` | theorems about `Bellpush`, and about what the run `adapter` makes of `UsbControl`, `I2cBus` and `SpiProgram` |
| `MCFlashWrite`, `MCDigisparkLink`, `MCDebugSession` | values of the constants for TLC |
| `MCInterfaces` | `SerialLink`, `BaudSearch`, `Ports`, `Console`, `GdbServer` for TLC |
| `InterfacesProofs` | theorems about `GdbServer`, and about what the run `interfaces` makes of `SerialLink`, `Ports` and `Console` |
| `MCCommands` | `Dump`, `TargetMemory`, `ProgramFile`, `Listing` for TLC |
| `MCAdapter` | `UsbControl`, `I2cBus`, `SpiProgram`, `Bellpush` for TLC |

The last three MC modules hold components that share no state. Each instantiates
its components, some of them more than once with other constants, and has a
variable `part` that says which instance a behaviour exercises; the others keep
an initial state. So the states are the sum and not the product of the
instances' states, and a property names the parts it is claimed for. They also
assert what the components assume of their constants (`SerialAssumption` and so
on), so that TLC evaluates it. One component of each is extended and not
instantiated (`GdbServer`, `TargetMemory`, `Bellpush`): its constants are the cfg's.
So are those of `ProgramFile`, `UsbControl`, `I2cBus` and `SpiProgram`, for which a theorem
about the run is then one for all values.

The modules of the core are layers. `DebugSession` takes the link as `DwLink`
states it and adds that a read can go unanswered; `FlashWrite` is one of the
commands that `DebugSession` has as `Save`, `Work`, `Restore`, in detail, and so
are `TargetMemory` and `ProgramFile`, whose `WriteFlash` is what `FlashWrite`
promises. `SerialLink` is the other implementation of `DwLink`; `BaudSearch` is
its `TryConnect`, and `Ports` what happens around `Connect`. `Console` decides
which command runs next and what a failure skips, `GdbServer` does so for gdb.

### FlashWrite

A byte address is a pair (page, offset), as the code's masks split it; a byte is
the set of its 1 bits. `pc` names the next operation on the target:
`page` is the top of `WriteFlash`'s three loops (`PartPage`, `FullPage`,
`Return`), `verify` the `RenableRWW`, read and decision at the head of
`WriteFlashPage`, then `erase`, `load` (one word per step), `program`, `settle`.
`Fail` can happen between any two. The order "first part, whole pages, last
part" is one loop over `cur`, since which page is partial follows from the
job's data. The target's hardware (erase, page buffer, AND when programming,
RWW section unreadable after erase and program) is written from how the code
uses it.

Silent failures: `DwReceive`'s status is ignored, so a read may leave anything
in its destination (`ReadsMayFail`); `lied` records whether one did.

### DigisparkLink

One action of the host is one USB control transfer with the code up to the next
one; `pc` says which transfer is next. Bytes are numbered as they are handed
over, so the output buffer is the interval after `flushed` of length `buffered`.
`dwBuf` holds one of: an echo of bytes sent, an answer, pulse widths, the
breakpoint flag, a bit time, junk, nothing. A transfer can lose its SETUP or its
answer, break between SETUP and data (`dwState` then stays nonzero for good:
`stuck`), or be carried out without the host seeing the status (`unacked`).
The adapter runs job 20 in the turn of its main loop that received the last
packet, so job and transfer are one step. The interrupt that notices a stopped target
(`TargetStops`) and that of USB share the pending bit of the pin changes, which the
end of every USB packet clears (`asmcommon.inc:60`, `usbconfig.h:315-321`): a stop
during a packet is missed, the interrupt stays armed, and only a key ends the wait
(`BreakpointSeen` claims no more). The comment at `main.c:1915-1917`
speaks of a wait loop that a break aborts; the code has an interrupt instead, and
the model follows the code.

`crashed` is the state after a transfer without a handle: after `PortFail`
outside `ConnectUsbtinyPort` the current port stays set with handle 0 and the
next `usb_control_msg` dereferences it. `usb_open` is taken to succeed.

### DebugSession

`at` is what dwdebug does next within a command, `mem`, `tpc`, `tbp`, `bpOn`,
`timers` are the target's registers and memory, PC, breakpoint and context,
and `PC`, `BP`, `R`, `TimerEnable` dwdebug's copies. debugWIRE bytes are
abstracted to their effect: a transfer of several bytes runs the target's PC up
to its breakpoint register (`Transfer`), an executed instruction leaves both
anywhere (`Execute`), an address in Z makes r30 and r31 scratch. Work on flash and
EEPROM has the target execute `adiw` (`NonVolatile.c:134`, `327`, `366`), which spoils SREG, and
nothing saves it (`Flags`).
`DwSend` only buffers: `mem` takes buffered bytes as executed, `sent` is the
memory without them, which matters when dwdebug exits or fails.
`link` records whether R and PC are known to be the program's.

Simplifications: G requests carry the whole register packet; addresses given by
the user lie within the flash and are even; a memory write is one step; bytes
left in the buffer by a failure are delivered or lost at the failure; the data
space has no holes and no registers with side effects: of 32 to 92, the I/O registers,
no cell is modelled, and so none of SPMCSR, EECR, EEDR and EEAR, which the work on
flash and EEPROM writes.

### SerialLink and BaudSearch

Transmit and receive line are one wire, so `SerialSendBytes` reads back and
compares what it sent. `line` is what has been received and not yet read; a step
goes up to the next thing that can fail. Bytes are numbered as in
`DigisparkLink`. Two faults: a byte collides with one of the target's, and the
target stays mute. A 0x55 at another rate than the port's reads as any byte, also as
one that `SerialSync` skips (`Skips`); then it waits for a byte that does not come.
`BaudSearch` keeps the code's integers: what the port reads
is computed by sampling the target's 0x55 at the port's rate, `scaleby` is the
code's decision on the runs of bits in it, and `Results` are the scales that
`TryBaudRate` can return, 0 for a rate the port refuses.

### Ports

`port[p]` has the code's `character`, `baud` and whether its handle is open;
`CurrentPort`, `i` (the loop's index) and the request are the code's. History:
`owner`, the port whose chip PC and registers were read from, and `chosen`, the
port announced last. Rates are `Right` and `Wrong`. A chip is an index of the
table, `NoChip` or `Unsupported`.

### InputRing and Console

`InputRing` has the buffer's operations as functions of the buffer; a character
carries its position in the input, so that lost, doubled and stale characters
can be told apart. `Console` is the loop of `UI`: `at` is the place in it, `ran`
the commands that were handled and `failed` those that failed. `c` stands for a
command that works, `f` for one that fails, `g` for go, `s` for `gdbserver`, `p` and a digit
for setting PC, after which the prompt itself may fail (`edge`). Each interrupt of gdb
runs `KeyboardBreak` of `GoCommand.c`, that is `SkipEoln` on this buffer, and `gdbserver`
can also fail. `slips` remembers behind which ends of line the loop reads on without a
prompt: one that an interrupt has skipped, or one before a prompt that failed; `overrun`
that an interrupt has skipped an end of line that was no longer there. The properties
except what is behind those; the run `interfaces_prompt` shows what happens there. Two assumptions about
what is put in go with the properties. `ShortCommands`: a command with its blanks ends
within half the buffer (128 characters in the code), and at a terminal so does the line
behind one that may fail. `OneRound`: all of the input fits in to the buffer once.

### GdbServer

`net` is what gdb has sent and the server has not read, a packet being its text
and its checksum, `back` what it has answered. gdb sends one request at a time,
interrupts a program it has continued, and may leave at any time. `set` is what gdb
knows: the breakpoints it has set that were acknowledged, and not taken back. dwdebug
acknowledges all of them and has one, `BP`, that of the last request: a Z1 replaces
it and a z1 of any address clears it. So `GdbAgrees` has `BP` equal to `set` only while gdb
has had one at a time (`single`), else only that `BP` is one of them. What
`KeyboardBreak` does to the console's input is in `Console`.

### TargetMemory, Dump, ProgramFile, Listing

`TargetMemory` transfers a range part by part, as the loops do. `DwReceive`'s status is
ignored (`DwPort.c:63`): any part of an answer may not come (`missed`), and then the
command goes on with what its buffer held, `Junk`, and shows it. `mode` is the target's
data write mode: setting Z ends it, and `DwWriteAddr` does so at r28..r31 and at DWDR
without sending it again. Whether a part then stores what follows is not known, so the
model allows both: `MemoryTransfers` says what was written up to there, and that nothing
else changed. Cells hold values of their
own, so that a byte in a wrong place is seen.

`Dump` reads numbers in both bases at once, as the code does, in integers of `Width` bits
that wrap. What a number means, `Says`, is what the comment of `ReadNumber` and the manual
say of the marks; where the code differs, at a `d` behind, `DumpsAsked` leaves it out
(see "Observed without a run").

A file of `ProgramFile` is a record of what the loader looks at. `WriteFlash` goes page by
page: each page that the range touches becomes what it should be, up to one at which it
may fail, and that one may be erased or half written by then. A page that is read wrong
(`DwReceive` again, or a disabled RWW section) may come out as anything, also outside the
range; `reads` says that it has happened. So `KeepsElsewhere` speaks of pages after a
failure, and of bytes otherwise; `Loaded` is claimed where all pages were read right.

`Listing` decodes with the code's nested decisions; `Patterns` is the instruction set as
the comments of `Disassemble.c` give it. Of two groups of patterns the code shows only
the group (`GroupsOnly`): MULSU and the FMULs, and LDD and STD with a displacement.
`Agrees` is about all others.

### UsbControl, I2cBus, SpiProgram, Bellpush

`UsbControl` interleaves `usbPoll` (`PollRx`, `PollTx`) with the host's tokens,
which the interrupt routine answers at once from `rx`, `tx` and `txPid`. A packet is known by
its transfer and the positions of its bytes; `host.bytes` and `dwIn` are the host's and
the firmware's own counts of them. Packets to the host may get lost,
transfers be given up, the bus be reset. A `dw_out` that is given up leaves `dwState`,
`dwLen` and `dwIn` as they are: later `dw_in` and `dw_out` are answered with
nothing (`main.c:998`), and the data of a flash write goes to `dwBuf`, where the old
`dwLen` decides when it is complete (`main.c:449`); only then a job runs and clears
`dwState`. `handled` says who got the data. Of a transfer that begins with `dwState` left
over the properties say only that its answer is the right one. `I2cBus` is at a step of the routine for a bit
of a byte (`stepNo`, `bitNo`, `byteNo`: the loops of `I2C_Write`, `I2C_Read` and of the
jobs); a step writes the two pins or reads the data line, and a slave follows the bus.
`SpiProgram` has the chip: busy for a while after a write, it reads as a poll
byte, and loses a write that comes too early. `usec` has 16 bits and wraps. `Bellpush` is
the program's two handlers; the timer handler is what it does in registers, and then
one step for each of the two instructions that write an output, since the bridge sees
what is between them. `Enable` is what the person with the debugger does.

## Abstract specifications and refinement

- `FlashWrite` implements `FlashUpdate` with the goal "buffer over old content":
  a page may only be erased when it has to, and may only lose bits toward the
  goal (`ImplementsUpdate`).
- `DigisparkLink` implements `DwLink` when USB faults occur only before they take
  effect (`Faults` within setup and in): what is sent is heard once, in order, by
  a stopped target, and answers are to everything sent (`ImplementsLink`). With
  faults of the other two kinds it does not, and cannot: a job whose status is
  lost is run twice.
- `SerialLink` implements `DwLink` without collisions, with a target that may be
  mute (`ImplementsLink` of the run `interfaces`; the abstract link stutters in the
  other parts).
- `DebugSession` implements `UserProgram`: the program's memory is `mem`, but for
  the registers dwdebug holds in `R` (r28..r31 while stopped, and those a command
  has saved); its PC is `PC` while stopped and the target's while it runs. Only
  edits by the user, and the program itself, change it; what is displayed is it;
  it starts with the user's breakpoint and timer setting (`ImplementsUserProgram`).
  The abstract program has one step for the price: SREG may change by itself while
  the program is stopped, in commands that work on flash or EEPROM.

## Runs

| run | constants | shows |
|---|---|---|
| `flash_pages` | 3 pages of 2 words, one-bit bytes, no boot section, true reads; ranges part+whole+part, whole pages, within a page; three patterns as buffer and content | types, r0/r1 restored, refinement, termination |
| `flash_boot` | 2 pages of 1 word, boot section, silent read failures; every address, length, buffer and content | other pages kept, data written, overlay, minimal wear |
| `flash_manual` | as before, true reads | finding 1 |
| `link_faults` | buffer of 2, sends of up to 3, 5 bytes, 2 tries each, 2 speeds, 2 faults of any kind, mute target | types, fresh answers, right speed, true breakpoints; operations end, breakpoints are seen |
| `link_lossless` | 6 bytes, faults setup and in | refinement of `DwLink` |
| `session_transparent` | cells r0 and r30, bytes 0 and 1, 2 words of flash, reads may fail | types, refinement of `UserProgram` |
| `session_scratch` | cells r5 and SREG, the same | unused registers survive everything, SREG all but work on flash and EEPROM; refinement of `UserProgram` |
| `session_quit` | cells r0 and r5, true reads | finding 2 |
| `interfaces` | below | `SerialTrue`, `ImplementsLink`; `RateFound`; `PortsOpen`, `RightTarget`; `InputKept`, `EveryCommand`; `GdbAgrees`, `NoStray`; `AllEnd` |
| `interfaces_prompt` | the terminal of `interfaces` (`typed`) | finding 3 |
| `commands` | below | `DumpsAsked`, `MemoryTransfers`, `Loaded`, `Agrees`, `Onward` |
| `adapter` | below | `UsbTransfers`, `I2cTransfers`, `SpiTransfers`, `Doorbell`, `Reverses`, `AllEnd` |

The properties of `interfaces`, `commands` and `adapter` are conjunctions of those
that the components define, with each component's type invariant; several mutants
each show that the conjuncts can fail one by one.
`interfaces`. Serial link: as the USB link's bounds, with two faults (`faulty`),
with a mute target only (`lossless`) and without faults (`working`). Baud search:
every rate from 2500 to 156500 baud in steps of 500, those of 18 usual clocks,
and three ports: one that takes all rates, one that refuses the first, and one that
refuses the lower ones.
Ports: two adapters and a serial port, one without a chip and without faults
(`steady`), one with an unsupported chip and two failed exchanges (`shaky`).
Console: a buffer of 8, filled to 4 as the code's is to half, and inputs longer
than it with short commands: a script (`script`); a terminal with failures, go,
`gdbserver` with any number of interrupts, and prompts that fail (`typed`); short files,
within one round of the buffer, with every end (`short`). gdb: two breakpoints, two
sessions, five requests, failing ones among them (`gdb`); three requests that work, with
reads of up to one byte more than the index can count (`served`).

`commands`. Dump: integers of 12 bits, spaces of 30 and 24 bytes, numbers with
every mark (`numbers`), two commands (`addresses`). Memory: two cells below r28,
two between r31 and DWDR, seven beyond it in parts of three; every range of up to
seven bytes, two commands, and any part of any answer missing. Files: nine, in a flash of
six bytes in three pages, with a failure or a wrong read at any page. Listing:
all 65536 words in a flash of one (`codes`), and three words out of seven that
include every length and both ends of the flash (`flow`).

`adapter`. USB: enumeration and transfers with lengths at, below and above the
packet size and the buffers, two transfers given up or resets (`usb`); fewer
requests with three losses or transfers given up (`lossy`). I2C: bytes of two bits, reads
of one and two bytes, seven jobs. SPI: addresses at each carry of the command bytes, data
that equals poll bytes, timeouts of zero (no polling), two polls or one, and
more, with a chip that takes any time up to the timeout. Doorbell: a cycle of 8 counts, 6 reversals.

Why the bounds are enough. Flash: WriteFlash treats a page by whether it is
partial and by comparing contents; three pages give a first part, a whole page
and a last part in one range, and one-bit bytes give every relation of old and
new bits. Link: the buffer is shorter than the longest send, so `DigisparkSend`
loops, fills the buffer exactly and leaves a remainder; the retry bounds
200, 5 and 25 become 2, which has a first, a last and a further try; two faults
allow a fault during the recovery from one. Session: commands treat registers
by kind, so one register of each kind suffices; the proofs cover all sets.
All properties of the flash, link and session runs but liveness and
the findings are in addition proved for all bounds, as are those of the
serial link, the ports, the gdb server, the input, the target's memory, the loading of
files, USB and SPI transfers and the doorbell. The input buffer is handled by
where it is full, empty and wraps, which a buffer of 8 does in each relation to
the reading half; ranges by their relation to the borders at r28, r31, DWDR and
the end, each of which occurs; the baud search and the decoder are run with the
code's own numbers.

Fairness. `FlashWrite!FairSpec` and `DigisparkLink!FairSpec` have weak fairness
of the host's own steps only: dwdebug is one thread that does not stop between
two operations, and `GoWaitLoop` polls again and again. Nothing is assumed of
the user, the target, the adapter or the absence of faults. The fairness of
`interfaces` is that of one program that nothing holds up (serial link, search,
console, gdb server), and that gdb takes what it is sent; that of `adapter` is
that the main loop polls, the host repeats its tokens, the loops of the SPI
functions run, and the timer counts and its handlers are served. `AllEnd` claims
an end only where the code has one, and leaves out a
synchronisation of the serial link while the target is at another rate; a search that
comes to a rate the port refuses; reads that the gdb server's index cannot count; USB
transfers of which a packet is lost, and flash writes that meet a `dwState` left over;
timeouts that `usec` cannot count up to. Deadlock is checked in the first eight runs,
those of flash, links and session; the parts of the last four may stop, at the end of the
input, of a search or of their bounds.

Every property of a passing run has a mutant in `PROJECT.json`: a plausible
bug in a definition, with which TLC finds the property violated.

### Findings

1. `MatchingPagesUntouched`, Manual.md:119. On a device with a boot section a
   range of two pages whose first page becomes all 0xFF leaves the RWW section
   disabled (`WriteFlashPage` returns early); the second, partial page is then
   read as junk, and written although it held the data already.
2. `QuitKeepsWrites`. `wd` or `r` followed by `qs` in one line or a script: the
   bytes are still in the output buffer when the process exits. At an interactive
   prompt the disassembly shown in between flushes them.
3. `PromptShown`. When gdb has interrupted a program, `KeyboardBreak`
   (`GoCommand.c:12`) skips the end of line behind `gdbserver`; `ParseAndHandleCommand`
   then reads on (`UserInterface.c:127`) and skips the next line that is typed, for which
   no prompt was shown, against the comment of `Fill` (`SimpleInput.c:62-64`).

### Observed without a run

While modelling more disagreements were met. They are not among the findings: each
would need a run of its own. Where one makes a claim of a run false the property has an
exception for exactly that case, which is named here and at the property.

- Adapter, debugWIRE: a stop during a USB packet is missed (`usbconfig.h:315-321`, which
  says so); only a key ends the wait. After a `dw_out` that was given up `dwState` stays:
  `dw_in` and `dw_out` are answered with nothing (`main.c:998`) and the data of a flash
  write goes to `dwBuf` (`main.c:449`), until enough of it has come to complete the old
  `dw_out`, or the adapter is restarted. dwdebug itself writes no flash that way, so in
  `DigisparkLink` the adapter stays as it is.
- Session: work on flash and EEPROM spoils SREG by `adiw` (`NonVolatile.c:134`, `327`,
  `366`). `g` of gdb takes SREG from 0x5E, which is SPH (`target.c:21`; 0x5F is SREG, as in
  `RegistersCommand.c:20`), and `G` writes it there, where the stack pointer then covers
  it. After a failure scratch values stay in the registers (`NonVolatile.c:263`).
- Baud search (`Serial.c:342`): targets near 34500, 20000 and 3900 baud are
  stepped over, so that the search fails; if the port refuses a rate after the
  first, the scale is 0 and the search never ends.
- Serial link: `SerialSync` waits forever for a byte if the 0x55 of a target at another
  rate reads as 0x00 or 0xFF (`Serial.c:419`, `429-430`), where its message says that it
  re-syncs (`Serial.c:433`). `Serial.c:442`: after a failed echo check bytes stay in the
  output buffer and the assertion of `SerialBreakAndSync` fails at each later attempt;
  `Serial.c:437`: after a failed resynchronisation bytes are written to descriptor 0.
- `Ports`: an unknown signature is index -1 of the table (`Connection.c:66`); after a failed
  `DwReconnect` PC and registers are those of the chip before; `ls` ends the
  connection; `device` without parameters is refused, against Manual.md:66.
- `Console`: a second interrupt of gdb may find an old end of line in an empty buffer;
  `SkipEoln` (`SimpleInput.c:129`) does not look whether there is anything, `IOut` passes
  `IIn`, and the buffer seems to hold 255 characters, against `SimpleInput.c:41`. Names,
  blanks and commands longer than half the buffer are cut, and behind
  a failure `SkipEoln` looks at a stale character when half a buffer holds no end of line
  (`UserInterface.c:151` skips what is there and reads no more); the end
  of the input can bring old characters to life; `SimpleInput.c:43` says that in and
  out are reset to 0 when all input is removed, but `SkipCh` only advances out; with
  PC in the last two bytes of the flash the prompt fails again and again.
- `GdbServer`: each Z1 is acknowledged though it replaces the breakpoint before, and z1 of
  any address clears it (`rsp.c:173-189`), where Manual.md:321 has one hardware
  breakpoint; a read of more than 255 bytes never ends (`rsp.c:128`); a failing
  read is not answered and leaves the connection open, and the next `gdbserver`
  is refused the address.
- `Dump`: an empty or failed dump moves the kept address; `1234d` is read as
  hexadecimal, against Manual.md:207 and `DwDebugInput.c:9`; sums of large numbers wrap
  and pass the check.
- `TargetMemory`: a write across r28..r31 or DWDR goes on after the setting of Z has ended
  the write mode (`DwPort.c:161`), which the protocol notes would have sent again
  (`DwPort.c:343`, `425`).
- `Listing`: the words 0000 0011 and 10x0 are shown without their instruction
  (`Disassemble.c:43`, `56-57`), for which the comments have patterns (13-16, 126-129).
- `ProgramFile`: annotations of an earlier file stay; after two failed loads and a
  newly opened port `l` closes the port's handle.
- `SpiProgram`: a timeout within a step of 65536 can make the wait endless (`main.c:467`,
  against the comments at `main.c:151` and `468`).
- `UsbControl`: a lost packet to the host is not repeated: data is missing without
  an error unless the caller looks at the length.
- `I2cBus`: after a read without a stop both lines rise at once, which the slave may
  see as a STOP before the repeated START; the length of a read is not checked, and more
  than eight bytes overrun `sendBuffer` (`main.c:1829`). The model has up to eight.
- `Bellpush`: in `cyc4` one output is set before the other is cleared, so both are high
  for an instruction (`bellpush.s:224-225`; `Bridge` says where); both handlers test
  bit 0 of PORTB, the pullup, instead of PINB, so the
  button's state is always the same to them (`bellpush.s:180`).

## Proofs

`FlashWriteProofs`. The invariant `IInv` adds to the types what holds at each
phase of a page: pages before `cur` are finished, pages after it are as they
were, the page buffer agrees with the image up to `word`, the page under way is
old, blank or partly cleared as its phase says, and `r01` is the user's until a
word is loaded. The properties alone are not inductive: "pages elsewhere kept"
needs `cur` within the job, "data written" needs the finished pages. Theorems:
`TypeCorrect`, `ElsewhereKept`, `DataWritten`, `OverlayWritten`,
`RegistersRestored`, `WearsLeast`, and `Refinement` under `Truthful` (no silent read failure,
no boot section), where every step is one of `FlashUpdate` or a stutter.
`WearsLeast` needs one thing more, `Differs`: once a page is erased what it held is
only in `before`, and the invariant has to remember that it was not the image.

`DigisparkLinkProofs`. The invariant relates the host's place in an operation to
what the adapter's buffer can hold there: after a receive was sent it holds the
answer to all bytes or silence, or a lost status is on record; while waiting
the flag is up only if the target has stopped; the bit time is the target's
speed whenever the host may send. Theorems: `TypeCorrect`, `AnswersFresh`,
`SpeedRight`, `BreakpointsReal`, and `Refinement` under `Lossless`.

`DebugSessionProofs`. The invariant says what each phase of `DwGo` and `DwTrace`
has already put in the target: registers, then PC, then breakpoint and context.
One lemma per action shows it preserved; a second lemma per action shows that
the step is one of `UserProgram`. The lemmas `RestStep`, `ShowStep` and
`EditStep` reduce that to: what `UserMem` shows of each cell is unchanged, shown
or edited. Theorems: `TypeCorrect`; `Refinement` and `OthersKept`, for every set of cells,
SREG among them, with the price `UserProgram` states: the flags, in commands that work on
flash or EEPROM.

`SerialLinkProofs`. That an answer is fresh is not inductive: the byte that is read
as an answer was on the line before. `IInv` therefore speaks of the line. `Echoes`:
every echo on it is one of bytes sent before, so that a byte whose echo comes back
cannot have been echoed earlier, and with its echo all that lay before it is gone.
`Answers` and `Started` follow for what is read next. `SerialSafe` holds under any
faults. `SerialImplementsLink` excludes collisions; its invariant `LInv` adds `NoHole`
(the target has acted on all that has left the buffer) and `InStep`, what host and
target agree on at each place of the host's program while the port is open: rate,
state of the target, and what can be on the line.

`CommandProofs`, the input. That commands are handled whole is not inductive: it is the
buffer that decides what a handler sees. `ConsoleInv` says, until the end of the input is
reached: `Queue`, the buffer holds the characters that have been read and not used, in
order, and a line that was read is its end; `AtPlace`, what has been used up to each place
of the loop: from the last separator only blanks before a command, at `rest` nothing but
the command's own characters up to the next separator, behind a failure nothing but the
line; `Done`, every command that is used up is accounted for; `Names`, what was handled;
`Asked`, a terminal that holds nothing was prompted. While gdb is served each end of line
that an interrupt has skipped is in `slips` (`Serving`), and what is skipped or read behind
it is accounted for by that; one that was not there sets `overrun`, after which only the
types are claimed. The arithmetic of the ring is in the
lemmas on `Skip`, `ContiguousFill` and `ReadLength` (`Skipped`, `Filled`, `ReadIs`); that
`Max` and `Min` exist follows from the order of the naturals being well founded. Each
operation takes a number of characters of a class (`StartTakes` to `RecoverTakes`), and
each keeps the invariant (`StartKeeps` to `FillKeeps`). Here `ShortCommands` is needed:
`Fill` leaves at least half a buffer, or the rest of a line, or of the input; so a
command, its end and the end of the line that is skipped are all there. Theorems:
`TypesRight`; `HandledWhole`, `NoneIsLost` and `AlwaysQueue` for all inputs with
`ShortCommands`, however reads are cut, wherever the buffer wraps, and however often gdb
interrupts, with the exceptions that `slips` and `overrun` make; `EmptyStays` under
`OneRound`, by `Round`: what was never written is no character, so nothing takes it.

`CommandProofs`, the ports. `PortsInv` is the type invariant, `Open`, and `Placed`:
connecting, reading the signature and reconnecting are separate steps, each of which can
fail, and the later ones rely on what the first has learnt. Theorems: `AlwaysOpen` and
`ConnectsAsRequested` whatever fails; `HandlersServed` under `Faultless` (no exchange
fails, no unknown chip), with `Settled`: between two commands the current port is the
one announced last and the one PC and the registers were read from.

`TransferProofs`, memory. `MemoryTransfers` is about commands that have ended. `IInv` says
how far one under way has got: what is left is the end of the range asked for, what
was read is the range's beginning, what remains to be written is the end of the data,
the target's Z counts along, and memory is what `WritesPrefix` says, cell by cell; what is
in `missed` was not answered, and is where `MissedThere` says. The
cases are those of the code: below r28, in r28..r31, between, at DWDR, beyond, and
parts of `Chunk` bytes, each answered or not; and `mode`, which decides with the target
whether a byte is stored. Theorem: `TransfersRight`.

`TransferProofs`, files. `Loaded` is about a file that has been loaded; `FileInv` says in
`SoFar` what the flash holds before each segment of an ELF file, every byte from the last
segment so far that covers it, and in `Whole` what holds when everything has been written.
Theorems: `AlwaysLoaded`, whatever files were loaded or failed before;
`ElsewhereUntouched`, that no step changes a page the file has nothing of, nor another byte
of its pages unless it fails there or a page was read wrong. `DumpsGoOn` is the
part of `Onward` about dumps: the kept address is where the last dump ended (`KeptInv`).

`AdapterProofs`, USB. `UInv` follows a message: what `usbMsgPtr` has passed and
`usbMsgLen` still has to send make the reply, and a packet in the transmit buffer is the
end of the former (`Reply`); the host has at most what was `Shown` to it, and if it has
all of that then in order (`Answer`); of data to the device what was sent is what was
handled and one packet that waits (`Data`). All this is only true of one transfer, and
device and host are in the same one except while a SETUP waits, when nothing has happened
in the new one (`Begun`). `Addresses` has the two steps of a bus reset and those of
SET_ADDRESS. Where nothing gets lost the host has exactly what was shown (`Complete`).
With `dwState` left over the firmware counts by the `dwLen` and `dwIn` of a transfer
long past; the invariant keeps them in range and claims the purpose of the data
(`Purpose`) only for transfers that did not find it so.
Theorem: `UsbTransfersRight`. The attempt has found an error of the model: the two first
cases of `Limited`, as written, overlapped where the code's branches do not.

`AdapterProofs`, SPI. That every byte is written holds because the chip is done when the
polling loop ends, and that is an inequality (`Waits`): what the chip still needs, in
commands of 32 clocks, and what `usec` has counted are together no more than the
timeout. So the loop can give up only after the chip is done; it can also not leave by
the poll byte, which `Done` excludes; and the next byte finds the chip at rest. `Wrote`
and `Readings` say what of the transfer is in the memory, or in `got`, up to the byte
under way. The arithmetic of the addresses is in `CellOf`, that the four bytes of a
command mean the address they were made from, for bytes and words, and `OntoDifferent`,
that a transfer does not come round to its own beginning. Theorem: `SpiTransfersRight`.

`AdapterProofs`, I2C. What a slave has seen when a job is over depends on every level
before, so `BusInv` says it for each step of each routine. `Sending`: how many bits of
the byte the slave has when the clock is low (`Fell`) and high (`Rose`), that it has
taken the bytes before as they were sent (`Faithful`), or is deaf because it has not
acknowledged one. `Reading`: the bits read are those the slave has put on the line, and
the bytes read before are those it has given (`Gives`, `Gave`). `Starting` and `Stopping`
follow the two lines to the START or the STOP. `Resting` joins the jobs: it is what the
next one finds, and it speaks of both by what the host may do now (`legal`). So there are
lemmas about what the slave makes of a rising and a falling clock (`HearsRise` to
`AckOver`), about where a routine leads (`SendRoutine` to `Returns`), and one for each
phase (`SendStep`, `ReadStep`, `StopStep`, `StartStep`, `InitStep`). Needed of the
constants is only that an address has room for its direction (`Bits > 1`), and that
something is sent or read, at most eight bytes in a read. Theorem: `I2cTransfersRight`,
for any slave that acknowledges and answers as it likes: a job with bytes shows it a STOP
exactly if one was asked for. After a read the next address need not be a repeated
START, and nothing is claimed.

`AdapterProofs`, the doorbell. `IInv` is the type invariant with `Bridge`, which says what
the outputs are at each place of the timer handler, and `HandlerWrites`, what the
instructions still to come will write: that the count stays below `HAMMERS` and the
outputs are single bits follows only when all are known. Theorems: `BridgeDriven`
(the registers' widths; current in the direction of the count's parity, both outputs high only
between the two instructions of `cyc4`), `CurrentReverses`, for every cycle time, number
of reversals and width of the registers that satisfy `BellAssumption`.

`InterfacesProofs`. The gdb server's `GdbInv` says where a request can be while gdb
waits: on its way, being worked on, lost with a failure, or answered (`Pending`), and
what can be in the socket in each place of the server (`Connection`): behind the packet
that runs the program nothing that could stop it but gdb's own interrupt or the end. That
dwdebug's breakpoint is gdb's needs that gdb has had one at a time (`single`).
Theorems: `AlwaysAgree`, `NeverStray`. The other theorems carry the results above over
to the run: the module instantiates `SerialLinkProofs` and `CommandProofs` with the
constants of the run's parts, whose assumptions are `InterfacesAssumption`, and shows
that a step of the run is one of such a part, or leaves it alone: `AlwaysSerialTrue`,
`LinkImplemented`, `AlwaysPortsOpen`, `AlwaysRightTarget`, `AlwaysEveryCommand`,
`AlwaysInputKept` are the run's properties.

Assumptions are the `ASSUME`s of the modules (ranges of the constants) and, where
stated, `Truthful`, `Lossless`, `Faultless`, no collisions, and the named
assumptions of the components that are looked at together (`SerialAssumption`,
`PortsAssumption`, `ILimitAssumption`, `ConsoleAssumption`, `ShortCommands`, `OneRound`,
`AddressAssumption`, `FileAssumption`, `GdbAssumption`, `UsbAssumption`, `I2cAssumption`,
`SpiAssumption`, `BellAssumption`), which TLC evaluates for the runs'
constants. TLC has also checked each invariant as an invariant
before it was proved.

Only model-checked: liveness, which is beyond the prover (`Terminates`,
`OperationsEnd`, `BreakpointSeen`, `AllEnd`, and of `Onward` the part
about listings, `StaysInStep`, whose `Starts` is a recursive function);
the findings; `RateFound`, whose arithmetic divides by variables; `DumpsAsked`, whose
numbers are computed digit by digit, which takes induction over data; and `Agrees`, which
compares a decision tree with 65536 patterns.

## Not modelled, and simplifications of the newer modules

- `SerialLink`: Linux's terminal calls only; enumerating ports by opening them.
- `Ports`: the values of the characteristics are data; USB enumeration is the
  operating system's.
- `Console`: commands are letters; help, output and the column of the prompt are
  left out. `DrainInput` and `DumpInputState` are not called.
- `GdbServer`: `IndexRange` 4 stands for the 256 values of an 8-bit index; the
  hexadecimal layout of packets is left out, sockets keep what is sent in order.
- `Dump`: layout of the lines; a signed overflow is taken to wrap.
- `TargetMemory`: the EEPROM's busy time is the part's, and a delay in the code.
- `ProgramFile`: ELF and stabs fields beyond whether a file passes the checks,
  symbols of data addresses, and the wrap of 32-bit sums.
- `Listing`: symbols, line numbers and layout; targets of relative jumps are not
  wrapped, as in the code; what is shown of the two groups it does not tell apart is
  left out.
- `UsbControl`: bits, CRCs and toggles of OUT packets; a bus reset that passes
  during a long job unseen; interrupt endpoints, which are never used.
- The adapter's one-wire, WS2812, PWM, ADC and calibration functions: bit timing
  without a protocol of their own.
- `I2cBus`: requests of no bytes (job 10 then replies what an earlier job left in `q`,
  job 11 reads one byte if it does not acknowledge); a slave that stretches the clock.
- `SystemServices.c`, `SimpleOutput.c`, `SystemUSB.c`: output, delays, enumeration.

## Plan

1. (done) flash programming, the USB link, the session, their abstract
   specifications and theorems.
2. (done) the serial link and its search, ports, console and input, gdb server,
   memory, files, dumps, listings; the adapter's USB stack, I2C and SPI; the doorbell.
3. (done) theorems: least wear; the serial link implements `DwLink`; ports; the
   target's memory; the gdb server; the input buffer and the commands read from it;
   loading files; USB, SPI and I2C transfers.
4. (open) the serial port's enumeration, I2C requests of no bytes, and the layout of
   gdb's packets.
