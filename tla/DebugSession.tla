---------------------------- MODULE DebugSession ----------------------------
(***************************************************************************)
(* A debugging session: the commands of src/commands and src/ui, and GDB's *)
(* requests in src/gdbserver, on top of src/dwire/DwPort.c.                *)
(*                                                                         *)
(* debugWIRE has only the target's own PC, breakpoint register and         *)
(* registers to read and write anything with.  So while the target is      *)
(* stopped its r28..r31 and PC are scratch; the program's are in R and PC  *)
(* here.  Flash, EEPROM and fuse access also use r0..r4, which they save   *)
(* in R and restore, and the flags in SREG, which nothing saves.           *)
(*                                                                         *)
(* DwSend only buffers: `mem' is the target's memory with the buffered     *)
(* bytes taken as executed, `sent' is the memory without them.             *)
(*                                                                         *)
(* The link is as DwLink says.  In addition a command can be abandoned     *)
(* between any two steps (Fail), and a read can go unanswered without      *)
(* being noticed, since DwReceive's status is ignored.                     *)
(***************************************************************************)
EXTENDS Integers

CONSTANTS
  Cell,          \* the data addresses modelled: 0..31 are the registers
  Value,         \* the bytes
  FlashWords,    \* FlashSize() / 2
  ReadsMayFail   \* may a read go unanswered?

Word   == 0 .. FlashWords - 1
Addr   == {2*w : w \in Word}
Reg    == Cell \intersect 0 .. 31
Cached == Cell \intersect 28 .. 31
Z      == Cell \intersect {30, 31}

SPH  == 94
SREG == 95

ASSUME SessionAssumption ==
  /\ Cell \subseteq Nat \ 32 .. 92    \* I/O registers but SP and SREG are left out
  /\ 0 \in Value
  /\ FlashWords \in Nat \ {0}
  /\ ReadsMayFail \in BOOLEAN

VARIABLES
  at,           \* what dwdebug does next; "idle" between commands
  connected,    \* CurrentPort >= 0
  PC, BP, R, TimerEnable,
  work,         \* the command whose saved registers are in R, or "none"
  mem, sent,    \* the target's registers and memory
  tpc, tbp,     \* its PC and breakpoint registers, as word addresses
  bpOn, timers, \* its execution context
  running,
  link,         \* history: are R and PC known to be the program's?
                \*   "up", "syncing": being read, or "out"
  did           \* history: the request of the user that was carried out

settings == <<BP, TimerEnable>>
context  == <<bpOn, timers>>
vars == <<at, connected, PC, R, settings, work, mem, sent, tpc, tbp, context,
          running, link, did>>

Request(kind, cells, pcs, bps, ts) ==
  [kind |-> kind, mem |-> cells, pc |-> pcs, bp |-> bps, timers |-> ts]
Plain(kind) == Request(kind, << >>, {}, {}, {})
Nothing     == Plain("none")

Over(f, g) == [c \in DOMAIN g |-> IF c \in DOMAIN f THEN f[c] ELSE g[c]]
Part(f, S) == [c \in S |-> f[c]]
-----------------------------------------------------------------------------
(* DwSend, DwReceive and their kin. *)

Flush == sent' = mem'

(* The bytes wait in the buffer; earlier ones may have to make room. *)
Buffer == sent' \in {sent, mem}

(* Several bytes are transferred: until PC, which counts, has reached BP.  *)
Transfer == \E end \in Word : tpc' = end /\ tbp' = end

(* Instructions are executed, between transfers or without any. *)
Execute == tpc' \in Word /\ tbp' \in Word

(* Registers S of the target get some value. *)
Scratch(S) ==
  mem' \in {Over(f, mem) : f \in [S -> Value]}

(* DwGetRegs(0 or 28, R + .., ..): a read that gets no answer leaves R as  *)
(* it is.                                                                  *)
GetRegs(S) ==
  \/ R' = Over(Part(mem, S), R) /\ UNCHANGED link
  \/ ReadsMayFail /\ link' = "out" /\ UNCHANGED R

(* The low registers that a command saves and restores, and all it uses. *)
Saves(w) ==
  Cell \intersect CASE w = "flash"       -> {0, 1}
                    [] w = "readEEPROM"  -> 0 .. 4
                    [] w = "writeEEPROM" -> {0}
                    [] w = "config"      -> {0}
                    [] w = "none"        -> {}

(* `adiw Z,2' after each word loaded into the page buffer and `adiw Z,1'   *)
(* after each byte of EEPROM are executed by the target and set its flags. *)
Flags(w) ==
  Cell \intersect IF w \in {"flash", "readEEPROM", "writeEEPROM"} THEN {SREG} ELSE {}

\* A mutant: DwReadEEPROM reads one register more than it saves.
Uses_SixRegisters(w) ==
  LET quint == IF w = "readEEPROM" THEN Cell \intersect 0 .. 5 ELSE {}
  IN  Saves(w) \union Cached \union Flags(w) \union quint

\* A mutant: reading fuses sets flags as well.
Uses_AllFlags(w) == Saves(w) \union Cached \union (Cell \intersect {SREG})

Uses(w) == Saves(w) \union Cached \union Flags(w)
-----------------------------------------------------------------------------
Init ==
  /\ at = "idle"
  /\ connected = FALSE
  /\ PC = 0
  /\ BP = -1
  /\ R = [r \in Reg |-> 0]
  /\ TimerEnable = FALSE
  /\ work = "none"
  /\ mem \in [Cell -> Value]
  /\ sent = mem
  /\ tpc \in Word /\ tbp \in Word
  /\ bpOn \in BOOLEAN /\ timers \in BOOLEAN
  /\ running \in BOOLEAN
  /\ link = "out"
  /\ did = Nothing

(* A command finds dwdebug at the prompt, connected to a stopped target.   *)
(* (Talking to a target that an earlier failure left running is a Fail.)   *)
Ready == at = "idle" /\ connected /\ ~running
-----------------------------------------------------------------------------
(* Connecting. *)

(* DwFindPort finds a port: it breaks in, asks for the signature and goes  *)
(* on with DwReconnect.  The device command, or ConnectFirstPort for any   *)
(* command when nothing is connected.                                      *)
DwFindPort ==
  /\ at = "idle"
  /\ at' = "readpc"
  /\ connected' = TRUE
  /\ running' = FALSE
  /\ link' = "syncing"
  /\ did' = Nothing
  /\ UNCHANGED <<PC, R, settings, work, mem, tpc, tbp, context>>
  /\ Flush

(* ls, or a DwFindPort without success: a port may have been broken in to. *)
DwListDevices ==
  /\ at = "idle"
  /\ connected' = FALSE
  /\ running' \in {running, FALSE}
  /\ link' = "out"
  /\ did' = Nothing
  /\ UNCHANGED <<at, PC, R, settings, work, mem, tpc, tbp, context>>
  /\ Buffer

\* A mutant: the target's PC + 1 is taken for its PC.
ReadPC_PlusOne ==
  /\ at = "readpc"
  /\ at' = "readregs"
  /\ PC' = 2*(tpc + 1)
  /\ did' = Nothing
  /\ UNCHANGED <<connected, R, settings, work, mem, tpc, tbp, context, running, link>>
  /\ Flush

(* DwReconnect's first half.  The target sends PC + 1, as a word address;  *)
(* without an answer DwReadWord returns 0.                                 *)
ReadPC ==
  /\ at = "readpc"
  /\ at' = "readregs"
  /\ \/ PC' = (2*((tpc + 1) - 1)) % (2*FlashWords) /\ UNCHANGED link
     \/ ReadsMayFail /\ PC' = -2 /\ link' = "out"
  /\ did' = Nothing
  /\ UNCHANGED <<connected, R, settings, work, mem, tpc, tbp, context, running>>
  /\ Flush

(* DwReconnect's second half. *)
ReadRegs ==
  /\ at = "readregs"
  /\ at' = "idle"
  /\ \/ /\ R' = Over(Part(mem, Cached), R)
        /\ link' = IF link = "out" THEN "out" ELSE "up"
     \/ ReadsMayFail /\ link' = "out" /\ UNCHANGED R
  /\ Transfer
  /\ did' = Nothing
  /\ UNCHANGED <<connected, PC, settings, work, mem, context, running>>
  /\ Flush
-----------------------------------------------------------------------------
(* Running. *)

(* DwGo and DwTrace first restore r28..r31, which uses PC and BP, ... *)
RestoreRegs(next) ==
  /\ Ready
  /\ at' = next
  /\ mem' = Over(Part(R, Cached), mem)
  /\ Transfer
  /\ did' = Nothing
  /\ UNCHANGED <<connected, PC, R, settings, work, context, running, link>>
  /\ Buffer

(* ... then set the PC, a -2 of ReadPC being 0xFFFF as a word address, ... *)
SetPC(here, next) ==
  /\ at = here
  /\ at' = next
  /\ tpc' = IF PC < 0 THEN FlashWords - 1 ELSE PC \div 2
  /\ did' = Nothing
  /\ UNCHANGED <<connected, PC, R, settings, work, mem, tbp, context, running, link>>
  /\ Buffer

(* ... then DwGo sets the breakpoint and the context 0x40, 0x41, 0x60 or   *)
(* 0x61 ...                                                                *)
SetContext ==
  /\ at = "gobp"
  /\ at' = "gorun"
  /\ bpOn' = (BP >= 0)
  /\ tbp' = IF BP >= 0 THEN BP \div 2 ELSE tbp
  /\ timers' = TimerEnable
  /\ did' = Nothing
  /\ UNCHANGED <<connected, PC, R, settings, work, mem, tpc, running, link>>
  /\ Buffer

(* ... and lets the target go: 0x30, DwWait. *)
Go ==
  /\ at = "gorun"
  /\ at' = "waiting"
  /\ running' = TRUE
  /\ did' = Nothing
  /\ UNCHANGED <<connected, PC, R, settings, work, mem, tpc, tbp, context, link>>
  /\ Flush

(* DwTrace: one instruction without timers, DwSync, then DwReconnect. *)
TraceStep ==
  /\ at = "tracestep"
  /\ at' = "readpc"
  /\ mem' \in [Cell -> Value] /\ tpc' \in Word
  /\ timers' = FALSE /\ bpOn' = FALSE
  /\ did' = Plain("step")
  /\ UNCHANGED <<connected, PC, R, settings, work, tbp, running, link>>
  /\ Flush

(* GoWaitLoop ends, through DeviceBreak or KeyboardBreak; what the target  *)
(* holds after this stop is the program's state, whatever was before.      *)
Stopped ==
  /\ at = "waiting"
  /\ at' = "readpc"
  /\ running' = FALSE
  /\ link' = IF link = "out" THEN "syncing" ELSE link
  /\ did' = Nothing
  /\ UNCHANGED <<connected, PC, R, settings, work, mem, sent, tpc, tbp, context>>

DwReset ==
  /\ Ready
  /\ at' = "readpc"
  /\ mem' \in [Cell -> Value] /\ tpc' = 0
  /\ link' = IF link = "out" THEN "syncing" ELSE link
  /\ did' = Plain("reset")
  /\ UNCHANGED <<connected, PC, R, settings, work, tbp, context, running>>
  /\ Flush

(* The program executes. *)
TargetRuns ==
  /\ running
  /\ mem' \in [Cell -> Value] /\ tpc' \in Word
  /\ running' = ~(bpOn /\ tpc' = tbp)
  /\ did' = Nothing
  /\ UNCHANGED <<at, connected, PC, R, settings, work, tbp, context, link>>
  /\ Flush
-----------------------------------------------------------------------------
(* Commands that read.  Z is used for the address, and PC and BP for the   *)
(* length, whenever more than a register is read.                          *)

Range(from, to) == {c \in Cell : from <= c /\ c <= to}

(* DwReadFlash: the prompt, f, fw and u, and GDB's m. *)
DwReadFlash ==
  /\ Ready
  /\ Scratch(Z)
  /\ Transfer
  /\ did' = Nothing
  /\ UNCHANGED <<at, connected, PC, R, settings, work, context, running, link>>
  /\ Flush

(* d, dw and s, and GDB's m: r28..r31 come from R. *)
DwReadAddr(cells) ==
  /\ Ready
  /\ Scratch(Z)
  /\ Transfer
  /\ \/ /\ did' = Request("show", Over(Part(R, cells \intersect Cached),
                                       Part(mem, cells)), {}, {}, {})
        /\ UNCHANGED link
     \/ ReadsMayFail /\ link' = "out" /\ did' = Nothing
  /\ UNCHANGED <<at, connected, PC, R, settings, work, context, running>>
  /\ Flush

(* r: the registers below 28 are read into R, then SREG and SP. *)
DisplayAllRegisters ==
  /\ Ready
  /\ GetRegs(Reg \ Cached)
  /\ Scratch(Z)
  /\ Transfer
  /\ did' = Request("show", R', {}, {}, {})
  /\ UNCHANGED <<at, connected, PC, settings, work, context, running>>
  /\ Flush

(* g: target_read_registers takes SREG, 0x5F, from 0x5E. *)
Packet == Reg \union (Cell \intersect 93 .. 95)

target_read_registers ==
  /\ Ready
  /\ Scratch(Z)
  /\ Transfer
  /\ \/ /\ \E b \in IF SPH \in Cell THEN {mem[SPH]} ELSE Value :
             did' = Request("g",
               [c \in Packet |->
                  IF c \in Cached THEN R[c] ELSE IF c = SREG THEN b ELSE mem[c]],
               {}, {}, {})
        /\ UNCHANGED link
     \/ ReadsMayFail /\ link' = "out" /\ did' = Nothing
  /\ UNCHANGED <<at, connected, PC, R, settings, work, context, running>>
  /\ Flush
-----------------------------------------------------------------------------
(* Commands that change the program's state. *)

\* A mutant: r28..r31 are written to the target like the others.
DwWriteAddr_NotCached(f) ==
  /\ Ready
  /\ mem' \in {Over(f, Over(z, mem)) : z \in [Z -> Value]}
  /\ Transfer
  /\ did' = Request("edit", f, {}, {}, {})
  /\ UNCHANGED <<at, connected, PC, R, settings, work, context, running, link>>
  /\ Buffer

(* wd, s and GDB's M: a write of r28..r31 is a write to R.  Nothing is     *)
(* flushed.                                                                *)
DwWriteAddr(f) ==
  /\ Ready
  /\ mem' \in {Over(Part(f, DOMAIN f \ Cached), Over(z, mem)) : z \in [Z -> Value]}
  /\ R' = Over(Part(f, DOMAIN f \intersect Cached), R)
  /\ Transfer
  /\ did' = Request("edit", f, {}, {}, {})
  /\ UNCHANGED <<at, connected, PC, settings, work, context, running, link>>
  /\ Buffer

(* r with a register number and a value. *)
RegistersCommand(f) ==
  /\ Ready
  /\ mem' = Over(Part(f, DOMAIN f \ Cached), mem)
  /\ R' = Over(Part(f, DOMAIN f \intersect Cached), R)
  /\ Execute
  /\ did' = Request("edit", f, {}, {}, {})
  /\ UNCHANGED <<at, connected, PC, settings, work, context, running, link>>
  /\ Buffer

(* G: a packet with all registers, SREG, SP and PC.  target_write_registers *)
(* writes the byte for SREG to 0x5E, where the write of SP covers it.      *)
target_write_registers(f, a) ==
  /\ Ready
  /\ mem' \in {Over(Part(f, (DOMAIN f \ Cached) \ {SREG}), Over(z, mem)) : z \in [Z -> Value]}
  /\ R' = Over(Part(f, Cached), R)
  /\ PC' = a
  /\ Transfer
  /\ did' = Request("G", f, {a}, {}, {})
  /\ UNCHANGED <<at, connected, settings, work, context, running, link>>
  /\ Buffer

(* p; and the program counter that l sets to the entry point. *)
PCommand(a) ==
  /\ Ready
  /\ PC' = a
  /\ did' = Request("edit", << >>, {a}, {}, {})
  /\ UNCHANGED <<at, connected, R, settings, work, mem, sent, tpc, tbp, context,
                 running, link>>

(* b and bc, GDB's Z1 and z1; te and td. *)
SettingCommand(b, t) ==
  /\ Ready
  /\ BP' = b
  /\ TimerEnable' = t
  /\ did' = Request("edit", << >>, {}, {b}, {t})
  /\ UNCHANGED <<at, connected, PC, R, work, mem, sent, tpc, tbp, context,
                 running, link>>
-----------------------------------------------------------------------------
(* Commands that save low registers, use them and restore them: WriteFlash, *)
(* DwReadEEPROM, DwWriteEEPROM, ReadConfigBits.                            *)

Save(w) ==
  /\ Ready
  /\ at' = "work"
  /\ work' = w
  /\ GetRegs(Saves(w))
  /\ Execute
  /\ did' = Nothing
  /\ UNCHANGED <<connected, PC, settings, mem, context, running>>
  /\ Flush

Work ==
  /\ at = "work"
  /\ Scratch(Uses(work))
  /\ Execute
  /\ did' = IF work = "config" THEN Nothing ELSE Plain("work")
  /\ UNCHANGED <<at, connected, PC, R, settings, work, context, running, link>>
  /\ Flush

(* The bytes that restore the registers stay in the buffer. *)
Restore ==
  /\ at = "work"
  /\ at' = "idle"
  /\ work' = "none"
  /\ mem' = Over(Part(R, Saves(work)), mem)
  /\ Execute
  /\ did' = Nothing
  /\ UNCHANGED <<connected, PC, R, settings, context, running, link>>
  /\ Buffer
-----------------------------------------------------------------------------
(* A transport failure abandons the command; what was in the buffer is     *)
(* delivered or lost.                                                      *)
Fail ==
  /\ connected
  /\ at' = "idle"
  /\ work' = "none"
  /\ mem' \in {sent, mem} /\ sent' = mem'
  /\ link' = "out"
  /\ did' = Nothing
  /\ UNCHANGED <<connected, PC, R, settings, tpc, tbp, context, running>>

(* dwdebug has ended and may be started again. *)
Ended ==
  /\ at' = "idle"
  /\ connected' = FALSE
  /\ PC' = 0
  /\ BP' = -1
  /\ R' = [r \in Reg |-> 0]
  /\ TimerEnable' = FALSE
  /\ work' = "none"
  /\ link' = "out"
  /\ did' = Nothing
  /\ UNCHANGED <<tpc, tbp, context, running>>

(* qs and the other ways to end or kill dwdebug: the buffered bytes are    *)
(* lost.  qr ends after Go.                                                *)
Exit == Ended /\ mem' = sent /\ UNCHANGED sent

(* qi: the target leaves debugWIRE until its power is cycled. *)
DwDisable == Ready /\ Ended /\ UNCHANGED mem /\ Flush

Bytes(S) == [S -> Value]

Commands ==
  \/ DwFindPort \/ DwListDevices
  \/ RestoreRegs("gopc") \/ RestoreRegs("tracepc")
  \/ DwReset
  \/ DwReadFlash \/ DisplayAllRegisters \/ target_read_registers
  \/ \E first, last \in Cell : first <= last /\ DwReadAddr(Range(first, last))
  \/ \E first, last \in Cell : first <= last /\ \E f \in Bytes(Range(first, last)) : DwWriteAddr(f)
  \/ \E r \in Reg : \E f \in Bytes({r}) : RegistersCommand(f)
  \/ \E f \in Bytes(Packet), a \in Addr : target_write_registers(f, a)
  \/ \E a \in Addr : PCommand(a)
  \/ \E b \in Addr \union {-1}, t \in BOOLEAN : SettingCommand(b, t)
  \/ \E w \in {"flash", "readEEPROM", "writeEEPROM", "config"} : Save(w)

Continue ==
  \/ ReadPC \/ ReadRegs
  \/ SetPC("gopc", "gobp") \/ SetPC("tracepc", "tracestep")
  \/ SetContext \/ Go \/ TraceStep \/ Stopped
  \/ Work \/ Restore

Next == Commands \/ Continue \/ TargetRuns \/ Fail \/ Exit \/ DwDisable

Spec == Init /\ [][Next]_vars
-----------------------------------------------------------------------------
FlagsOK ==
  /\ connected \in BOOLEAN /\ running \in BOOLEAN
  /\ TimerEnable \in BOOLEAN /\ timers \in BOOLEAN /\ bpOn \in BOOLEAN

ValuesOK ==
  /\ at \in {"idle", "readpc", "readregs", "gopc", "gobp", "gorun", "waiting",
             "tracepc", "tracestep", "work"}
  /\ PC \in Addr \union {-2}
  /\ BP \in Addr \union {-1}
  /\ R \in [Reg -> Value]
  /\ work \in {"none", "flash", "readEEPROM", "writeEEPROM", "config"}
  /\ mem \in [Cell -> Value] /\ sent \in [Cell -> Value]
  /\ tpc \in Word /\ tbp \in Word
  /\ link \in {"up", "syncing", "out"}

(* Types.  As long as the user enters addresses within the flash, PC, BP   *)
(* and the word addresses sent to the target stay within it, but for the   *)
(* -2 of an unanswered read (DwReconnect, DwSetPC, DwSetBP).               *)
TypeOK == FlagsOK /\ ValuesOK

(* The registers that only R holds while dwdebug uses them in the target. *)
Held ==
  IF link = "out" \/ at \in {"waiting", "readpc", "readregs"} THEN {}
  ELSE Cached \union Saves(work)

UserMem    == Over(Part(R, Held), mem)
UserPC     == IF link = "out" \/ at \in {"waiting", "readpc"} THEN 2*tpc ELSE PC
UserBP     == IF at # "waiting" THEN BP ELSE IF bpOn THEN 2*tbp ELSE -1
UserTimers == IF at # "waiting" THEN TimerEnable ELSE timers

User == INSTANCE UserProgram WITH
  mem    <- UserMem,
  pc     <- UserPC,
  bp     <- UserBP,
  timers <- UserTimers,
  up     <- link = "up",
  Status <- SREG

(* As long as no transfer fails and dwdebug does not reconnect, the scratch *)
(* use of registers, PC and breakpoint by every command is invisible: the  *)
(* program sees, and the user is shown, only what the user or the program  *)
(* itself has done, and a started program runs from the user's PC with the *)
(* user's breakpoint and timers (DwGo, DwTrace, DwReconnect, R, PC, BP).   *)
(* Only SREG is lost, and only by a command that works on flash or EEPROM. *)
ImplementsUserProgram == User!USpec

(* Whatever fails, and across reconnections, dwdebug itself costs the      *)
(* program at most r0..r4, r28..r31 and the flags: other cells change only *)
(* when the program executes or the user edits them, or an edit is lost    *)
(* with the buffer; and SREG also while flash or EEPROM is worked on.      *)
OtherCellsKept ==
  [][~running /\ did'.kind \in {"none", "show", "g", "work"} =>
       \A c \in Cell \ ((0 .. 4) \union (28 .. 31)) :
         \/ mem'[c] \in {mem[c], sent[c]}
         \/ c = SREG /\ work \in {"flash", "readEEPROM", "writeEEPROM"}]_vars

(* UserInterface.c:63, 78: "Write data bytes", "Quit leaving the device    *)
(* stopped": what the user has written is there when dwdebug has quit.     *)
QuitKeepsWrites ==
  [][Exit /\ link = "up" /\ did.kind = "edit" =>
       \A c \in DOMAIN did.mem \ Cached : mem'[c] = did.mem[c]]_vars
=============================================================================
