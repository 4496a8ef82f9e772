------------------------- MODULE DebugSessionProofs -------------------------
(***************************************************************************)
(* That dwdebug is invisible to the program it debugs, for every set of    *)
(* registers and every flash size: DebugSession implements UserProgram.    *)
(*                                                                         *)
(* The invariant says what each phase has already put in the target: the   *)
(* registers once RestoreRegs is done, then the PC, then the breakpoint    *)
(* and the context.  A command's own phase needs no invariant: UserMem     *)
(* takes from R exactly the registers that may be scratch.                 *)
(***************************************************************************)
EXTENDS DebugSession, TLAPS

Leaving == {"gopc", "gobp", "gorun", "tracepc", "tracestep"}

RegsRestored == at \in Leaving => \A c \in Cached : mem[c] = R[c]

PCRestored ==
  at \in {"gobp", "gorun", "tracestep"} /\ link = "up" => 2*tpc = PC

ContextSet ==
  at \in {"gorun", "waiting"} =>
    /\ bpOn <=> BP >= 0
    /\ bpOn => 2*tbp = BP
    /\ timers = TimerEnable

PCKnown ==
  link = "up" \/ (link = "syncing" /\ at = "readregs") => PC \in Addr

Phases ==
  /\ link = "syncing" => at \in {"readpc", "readregs"}
  /\ running => at = "waiting" \/ (at = "idle" /\ link = "out")
  /\ at # "work" => work = "none"

IInv == TypeOK /\ RegsRestored /\ PCRestored /\ ContextSet /\ PCKnown /\ Phases
-----------------------------------------------------------------------------
(* The operators. *)

(* A function overlaid with another one. *)
LEMMA OverAt ==
  ASSUME NEW f, NEW g
  PROVE  /\ DOMAIN Over(f, g) = DOMAIN g
         /\ \A c \in DOMAIN g :
              Over(f, g)[c] = IF c \in DOMAIN f THEN f[c] ELSE g[c]
BY DEF Over

(* An overlay keeps to the type of what it overlays. *)
LEMMA OverType ==
  ASSUME NEW S, NEW V, NEW f, NEW g \in [S -> V],
         \A c \in DOMAIN f : f[c] \in V
  PROVE  Over(f, g) \in [S -> V]
BY DEF Over

(* A part of a function. *)
LEMMA PartAt ==
  ASSUME NEW f, NEW S
  PROVE  DOMAIN Part(f, S) = S /\ \A c \in S : Part(f, S)[c] = f[c]
BY DEF Part

(* Registers and their overlays. *)
LEMMA Registers ==
  /\ Cached \subseteq Reg /\ Z \subseteq Cached
  /\ Reg \subseteq Cell
  /\ \A w \in {"none", "flash", "readEEPROM", "writeEEPROM", "config"} :
       /\ Saves(w) \subseteq Cell \intersect 0 .. 4
       /\ Saves(w) \subseteq Reg
       /\ Saves(w) \intersect Cached = {}
  /\ Saves("none") = {}
BY SessionAssumption DEF Cached, Reg, Z, Saves

(* An address within the flash, as a word address and back. *)
LEMMA Addresses ==
  /\ \A w \in Word : 2*w \in Addr /\ w \in Int
  /\ \A a \in Addr : a \in Nat /\ a \div 2 \in Word /\ 2*(a \div 2) = a
  /\ -2 \notin Addr /\ -1 \notin Addr
  /\ FlashWords - 1 \in Word
BY SessionAssumption DEF Addr, Word

(* The target's PC, as DwReconnect computes it. *)
LEMMA ReadBackPC ==
  ASSUME NEW w \in Word
  PROVE  (2*((w + 1) - 1)) % (2*FlashWords) = 2*w
<1>1. w \in Int /\ 0 <= w /\ w < FlashWords /\ FlashWords \in Int
  BY SessionAssumption DEF Word
<1>2. 2*((w + 1) - 1) = 2*w
  BY <1>1
<1>3. \A m, n \in Nat : m < n => m % n = m
  BY SMT
<1>4. QED
  BY <1>1, <1>2, <1>3
-----------------------------------------------------------------------------
(* The invariant. *)

(* It holds initially. *)
LEMMA InitInv == Init => IInv
<1> SUFFICES ASSUME Init PROVE IInv
  OBVIOUS
<1>1. FlagsOK
  BY DEF Init, FlagsOK
<1>2. 0 \in Addr
  <2>1. 0 \in Word
    BY SessionAssumption DEF Word
  <2>2. QED
    BY <2>1 DEF Addr
<1>3. ValuesOK
  BY <1>2, SessionAssumption DEF Init, ValuesOK
<1>4. RegsRestored /\ PCRestored /\ ContextSet
  BY DEF Init, RegsRestored, PCRestored, ContextSet, Leaving
<1>5. PCKnown /\ Phases
  BY DEF Init, PCKnown, Phases
<1>6. QED
  BY <1>1, <1>3, <1>4, <1>5 DEF IInv, TypeOK

(* A step that ends at the prompt has only this much to show. *)
LEMMA IdleInv ==
  ASSUME FlagsOK', ValuesOK', at' = "idle", work' = "none",
         link' # "syncing", link' = "up" => PC' \in Addr,
         running' => link' = "out"
  PROVE  IInv'
BY DEF IInv, TypeOK, RegsRestored, PCRestored, ContextSet, PCKnown, Phases, Leaving

(* What is known at the prompt. *)
LEMMA AtPrompt ==
  ASSUME IInv, Ready
  PROVE  /\ FlagsOK /\ ValuesOK
         /\ at = "idle" /\ work = "none" /\ ~running /\ link # "syncing"
         /\ link = "up" => PC \in Addr
BY DEF IInv, TypeOK, Ready, Phases, PCKnown

(* Scratch use of registers keeps the memory's type and the other cells.   *)
LEMMA ScratchMem ==
  ASSUME ValuesOK, NEW S \in SUBSET Cell, Scratch(S)
  PROVE  /\ mem' \in [Cell -> Value]
         /\ \A c \in Cell \ S : mem'[c] = mem[c]
<1>1. PICK f \in [S -> Value] : mem' = Over(f, mem)
  BY DEF Scratch
<1>2. mem \in [Cell -> Value]
  BY DEF ValuesOK
<1>3. mem' \in [Cell -> Value]
  BY <1>1, <1>2, OverType
<1>4. \A c \in Cell \ S : mem'[c] = mem[c]
  BY <1>1, <1>2, OverAt
<1>5. QED
  BY <1>3, <1>4

(* So does an edit of the cells f, with r30 and r31 used for the address.  *)
LEMMA EditMem ==
  ASSUME ValuesOK, NEW S \in SUBSET Cell, NEW f \in [S -> Value], NEW T,
         mem' \in {Over(Part(f, DOMAIN f \ T), Over(z, mem)) : z \in [Z -> Value]}
  PROVE  /\ mem' \in [Cell -> Value]
         /\ \A c \in Cell \ Z :
              mem'[c] = IF c \in S \ T THEN f[c] ELSE mem[c]
<1>1. PICK z \in [Z -> Value] :
        mem' = Over(Part(f, DOMAIN f \ T), Over(z, mem))
  OBVIOUS
<1> DEFINE g == Part(f, S \ T)
           h == Over(z, mem)
<1>2. mem' = Over(g, h)
  BY <1>1
<1>3. DOMAIN g = S \ T /\ \A c \in S \ T : g[c] = f[c]
  BY PartAt
<1>4. h \in [Cell -> Value]
  BY OverType DEF ValuesOK
<1>5. \A c \in Cell \ Z : h[c] = mem[c]
  BY OverAt DEF ValuesOK
<1> HIDE DEF g, h
<1>6. mem' \in [Cell -> Value]
  <2>1. \A c \in DOMAIN g : g[c] \in Value
    BY <1>3
  <2>2. QED
    BY <1>2, <1>4, <2>1, OverType
<1>7. \A c \in Cell \ Z : mem'[c] = IF c \in S \ T THEN f[c] ELSE mem[c]
  <2> SUFFICES ASSUME NEW c \in Cell \ Z
               PROVE  mem'[c] = IF c \in S \ T THEN f[c] ELSE mem[c]
    OBVIOUS
  <2>1. mem'[c] = IF c \in DOMAIN g THEN g[c] ELSE h[c]
    BY <1>2, <1>4, OverAt
  <2>2. QED
    BY <1>3, <1>5, <2>1
<1>8. QED
  BY <1>6, <1>7

(* An overlay of R, or of the memory, with a part of typed bytes. *)
LEMMA OverPart ==
  ASSUME NEW S, NEW g \in [S -> Value], NEW f, NEW T,
         \A c \in T : f[c] \in Value
  PROVE  /\ Over(Part(f, T), g) \in [S -> Value]
         /\ \A c \in S : Over(Part(f, T), g)[c] = IF c \in T THEN f[c] ELSE g[c]
<1> DEFINE h == Part(f, T)
<1>1. DOMAIN h = T /\ \A c \in T : h[c] = f[c]
  BY PartAt
<1> HIDE DEF h
<1>2. Over(h, g) \in [S -> Value]
  BY <1>1, OverType
<1>3. \A c \in S : Over(h, g)[c] = IF c \in T THEN f[c] ELSE g[c]
  BY <1>1, OverAt
<1>4. QED
  BY <1>2, <1>3 DEF h
-----------------------------------------------------------------------------
(* Each action preserves the invariant. *)

(* Connecting. *)
LEMMA DwFindPortInv == ASSUME IInv, DwFindPort PROVE IInv'
<1>1. FlagsOK'
  BY DEF IInv, TypeOK, FlagsOK, DwFindPort, settings, context
<1>2. ValuesOK'
  BY DEF IInv, TypeOK, ValuesOK, DwFindPort, settings, context, Flush
<1>3. QED
  BY <1>1, <1>2 DEF IInv, TypeOK, RegsRestored, PCRestored, ContextSet, PCKnown,
     Phases, Leaving, DwFindPort, settings, context

(* Looking for ports. *)
LEMMA DwListDevicesInv == ASSUME IInv, DwListDevices PROVE IInv'
<1>1. FlagsOK'
  BY DEF IInv, TypeOK, FlagsOK, DwListDevices, settings, context
<1>2. ValuesOK'
  BY DEF IInv, TypeOK, ValuesOK, DwListDevices, settings, context, Buffer
<1>3. QED
  BY <1>1, <1>2, IdleInv DEF IInv, Phases, DwListDevices

(* Reading the PC. *)
LEMMA ReadPCInv == ASSUME IInv, ReadPC PROVE IInv'
<1>1. FlagsOK'
  BY DEF IInv, TypeOK, FlagsOK, ReadPC, settings, context
<1>2. tpc \in Word
  BY DEF IInv, TypeOK, ValuesOK
<1>3. PC' = 2*tpc \/ (PC' = -2 /\ link' = "out")
  BY <1>2, ReadBackPC DEF ReadPC
<1>4. PC' \in Addr \/ (PC' = -2 /\ link' = "out")
  BY <1>2, <1>3, Addresses
<1>5. ValuesOK'
  BY <1>4 DEF IInv, TypeOK, ValuesOK, ReadPC, settings, context, Flush
<1>6. QED
  BY <1>1, <1>4, <1>5 DEF IInv, TypeOK, RegsRestored, PCRestored, ContextSet,
     PCKnown, Phases, Leaving, ReadPC, settings, context

(* Reading the registers. *)
LEMMA ReadRegsInv == ASSUME IInv, ReadRegs PROVE IInv'
<1>1. FlagsOK'
  BY DEF IInv, TypeOK, FlagsOK, ReadRegs, settings, context
<1>2. R' \in [Reg -> Value]
  <2>1. \A c \in Cached : mem[c] \in Value
    BY Registers DEF IInv, TypeOK, ValuesOK
  <2>2. R \in [Reg -> Value]
    BY DEF IInv, TypeOK, ValuesOK
  <2>3. QED
    BY <2>1, <2>2, OverPart DEF ReadRegs
<1>3. ValuesOK'
  BY <1>2 DEF IInv, TypeOK, ValuesOK, ReadRegs, settings, context, Flush, Transfer
<1>4. link' # "syncing" /\ (link' = "up" => PC' \in Addr)
  BY DEF IInv, TypeOK, ValuesOK, PCKnown, ReadRegs
<1>5. QED
  BY <1>1, <1>3, <1>4, IdleInv DEF IInv, Phases, ReadRegs

(* Restoring the registers. *)
LEMMA RestoreRegsInv ==
  ASSUME NEW next \in {"gopc", "tracepc"}, IInv, RestoreRegs(next)
  PROVE  IInv'
<1>1. FlagsOK'
  BY DEF IInv, TypeOK, FlagsOK, RestoreRegs, settings, context
<1>2. /\ mem' \in [Cell -> Value]
      /\ \A c \in Cached : mem'[c] = R[c]
  <2>1. \A c \in Cached : R[c] \in Value
    BY Registers DEF IInv, TypeOK, ValuesOK
  <2>2. mem \in [Cell -> Value]
    BY DEF IInv, TypeOK, ValuesOK
  <2>3. QED
    BY <2>1, <2>2, OverPart, Registers DEF RestoreRegs
<1>3. ValuesOK'
  BY <1>2 DEF IInv, TypeOK, ValuesOK, RestoreRegs, settings, context, Buffer, Transfer
<1>4. RegsRestored'
  BY <1>2 DEF RegsRestored, RestoreRegs
<1>5. QED
  BY <1>1, <1>3, <1>4, AtPrompt DEF IInv, TypeOK, PCRestored, ContextSet, PCKnown,
     Phases, RestoreRegs

(* Setting the PC. *)
LEMMA SetPCInv ==
  ASSUME NEW here, NEW next, IInv, SetPC(here, next),
         \/ here = "gopc" /\ next = "gobp"
         \/ here = "tracepc" /\ next = "tracestep"
  PROVE  IInv'
<1>1. FlagsOK'
  BY DEF IInv, TypeOK, FlagsOK, SetPC, settings, context
<1>2. tpc' \in Word /\ (link = "up" => 2*tpc' = PC)
  <2>1. PC \in Addr \/ (PC = -2 /\ link # "up")
    BY DEF IInv, TypeOK, ValuesOK, PCKnown
  <2>2. CASE PC = -2 /\ link # "up"
    BY <2>2, Addresses DEF SetPC
  <2>3. CASE PC \in Addr
    BY <2>3, Addresses DEF SetPC
  <2>4. QED
    BY <2>1, <2>2, <2>3
<1>3. ValuesOK'
  BY <1>2 DEF IInv, TypeOK, ValuesOK, SetPC, settings, context, Buffer
<1>4. PCRestored'
  BY <1>2 DEF PCRestored, SetPC
<1>5. RegsRestored'
  BY DEF IInv, RegsRestored, SetPC, Leaving
<1>6. QED
  BY <1>1, <1>3, <1>4, <1>5 DEF IInv, TypeOK, ContextSet, PCKnown, Phases, SetPC

(* Setting the breakpoint and the context. *)
LEMMA SetContextInv == ASSUME IInv, SetContext PROVE IInv'
<1>1. BP \in Addr \union {-1} /\ tbp \in Word
  BY DEF IInv, TypeOK, ValuesOK
<1>2. tbp' \in Word /\ (BP >= 0 => 2*tbp' = BP)
  BY <1>1, Addresses DEF SetContext
<1>3. bpOn' \in BOOLEAN /\ bpOn' = (BP >= 0)
  BY DEF SetContext
<1>4. FlagsOK'
  BY <1>3 DEF IInv, TypeOK, FlagsOK, SetContext, settings
<1>5. ValuesOK'
  BY <1>2 DEF IInv, TypeOK, ValuesOK, SetContext, settings, Buffer
<1>6. ContextSet'
  BY <1>2, <1>3 DEF ContextSet, SetContext, settings
<1>7. RegsRestored' /\ PCRestored'
  BY DEF IInv, RegsRestored, PCRestored, SetContext, Leaving
<1>8. QED
  BY <1>4, <1>5, <1>6, <1>7 DEF IInv, TypeOK, PCKnown, Phases, SetContext

(* Starting the program. *)
LEMMA GoInv == ASSUME IInv, Go PROVE IInv'
<1>1. FlagsOK'
  BY DEF IInv, TypeOK, FlagsOK, Go, settings, context
<1>2. ValuesOK'
  BY DEF IInv, TypeOK, ValuesOK, Go, settings, context, Flush
<1>3. ContextSet'
  BY DEF IInv, ContextSet, Go, settings, context
<1>4. QED
  BY <1>1, <1>2, <1>3 DEF IInv, TypeOK, RegsRestored, PCRestored, PCKnown, Phases,
     Leaving, Go

(* A single instruction. *)
LEMMA TraceStepInv == ASSUME IInv, TraceStep PROVE IInv'
<1>1. FlagsOK'
  BY DEF IInv, TypeOK, FlagsOK, TraceStep, settings
<1>2. ValuesOK'
  BY DEF IInv, TypeOK, ValuesOK, TraceStep, settings, Flush
<1>3. QED
  BY <1>1, <1>2 DEF IInv, TypeOK, RegsRestored, PCRestored, ContextSet, PCKnown,
     Phases, Leaving, TraceStep

(* The end of a wait. *)
LEMMA StoppedInv == ASSUME IInv, Stopped PROVE IInv'
<1>1. FlagsOK'
  BY DEF IInv, TypeOK, FlagsOK, Stopped, settings, context
<1>2. ValuesOK'
  BY DEF IInv, TypeOK, ValuesOK, Stopped, settings, context
<1>3. QED
  BY <1>1, <1>2 DEF IInv, TypeOK, RegsRestored, PCRestored, ContextSet, PCKnown,
     Phases, Leaving, Stopped

(* A reset. *)
LEMMA DwResetInv == ASSUME IInv, DwReset PROVE IInv'
<1>1. FlagsOK'
  BY DEF IInv, TypeOK, FlagsOK, DwReset, settings, context
<1>2. 0 \in Word
  BY SessionAssumption DEF Word
<1>3. ValuesOK'
  BY <1>2 DEF IInv, TypeOK, ValuesOK, DwReset, settings, context, Flush
<1>4. QED
  BY <1>1, <1>3, AtPrompt DEF IInv, TypeOK, RegsRestored, PCRestored, ContextSet, PCKnown,
     Phases, Leaving, DwReset

(* The program executes. *)
LEMMA TargetRunsInv == ASSUME IInv, TargetRuns PROVE IInv'
<1>1. running' \in BOOLEAN
  BY DEF TargetRuns
<1>2. FlagsOK'
  BY <1>1 DEF IInv, TypeOK, FlagsOK, TargetRuns, settings, context
<1>3. ValuesOK'
  BY DEF IInv, TypeOK, ValuesOK, TargetRuns, settings, context, Flush
<1>4. RegsRestored' /\ PCRestored'
  BY DEF IInv, RegsRestored, PCRestored, Phases, Leaving, TargetRuns
<1>5. ContextSet' /\ PCKnown'
  BY DEF IInv, ContextSet, PCKnown, TargetRuns, settings, context
<1>6. Phases'
  BY DEF IInv, Phases, TargetRuns
<1>7. QED
  BY <1>2, <1>3, <1>4, <1>5, <1>6 DEF IInv, TypeOK

(* The commands that read. *)
LEMMA DwReadFlashInv == ASSUME IInv, DwReadFlash PROVE IInv'
<1>1. FlagsOK /\ ValuesOK /\ at = "idle" /\ work = "none" /\ ~running
      /\ link # "syncing" /\ (link = "up" => PC \in Addr)
  BY AtPrompt DEF DwReadFlash
<1>2. FlagsOK'
  BY <1>1 DEF FlagsOK, DwReadFlash, settings, context
<1>3. mem' \in [Cell -> Value]
  BY <1>1, ScratchMem, Registers DEF DwReadFlash
<1>4. ValuesOK'
  BY <1>1, <1>3 DEF ValuesOK, DwReadFlash, settings, context, Flush, Transfer
<1>5. QED
  BY <1>1, <1>2, <1>4, IdleInv DEF DwReadFlash

(* The same for data memory. *)
LEMMA DwReadAddrInv ==
  ASSUME NEW cells \in SUBSET Cell, IInv, DwReadAddr(cells)
  PROVE  IInv'
<1>1. FlagsOK /\ ValuesOK /\ at = "idle" /\ work = "none" /\ ~running
      /\ link # "syncing" /\ (link = "up" => PC \in Addr)
  BY AtPrompt DEF DwReadAddr
<1>2. FlagsOK'
  BY <1>1 DEF FlagsOK, DwReadAddr, settings, context
<1>3. mem' \in [Cell -> Value]
  BY <1>1, ScratchMem, Registers DEF DwReadAddr
<1>4. link' = link \/ link' = "out"
  BY DEF DwReadAddr
<1>5. ValuesOK'
  BY <1>1, <1>3, <1>4 DEF ValuesOK, DwReadAddr, settings, context, Flush, Transfer
<1>6. QED
  BY <1>1, <1>2, <1>4, <1>5, IdleInv DEF DwReadAddr

(* GDB's g. *)
LEMMA target_read_registersInv ==
  ASSUME IInv, target_read_registers
  PROVE  IInv'
<1>1. FlagsOK /\ ValuesOK /\ at = "idle" /\ work = "none" /\ ~running
      /\ link # "syncing" /\ (link = "up" => PC \in Addr)
  BY AtPrompt DEF target_read_registers
<1>2. FlagsOK'
  BY <1>1 DEF FlagsOK, target_read_registers, settings, context
<1>3. mem' \in [Cell -> Value]
  BY <1>1, ScratchMem, Registers DEF target_read_registers
<1>4. link' = link \/ link' = "out"
  BY DEF target_read_registers
<1>5. ValuesOK'
  BY <1>1, <1>3, <1>4 DEF ValuesOK, target_read_registers, settings, context, Flush, Transfer
<1>6. QED
  BY <1>1, <1>2, <1>4, <1>5, IdleInv DEF target_read_registers

(* Reading registers into R. *)
LEMMA GetRegsType ==
  ASSUME ValuesOK, NEW S \in SUBSET Reg, GetRegs(S)
  PROVE  /\ R' \in [Reg -> Value]
         /\ link' = link \/ link' = "out"
         /\ link' # "out" => \A c \in Reg : R'[c] = IF c \in S THEN mem[c] ELSE R[c]
<1>1. \A c \in S : mem[c] \in Value
  BY Registers DEF ValuesOK
<1>2. R \in [Reg -> Value]
  BY DEF ValuesOK
<1>3. CASE R' = Over(Part(mem, S), R) /\ UNCHANGED link
  BY <1>1, <1>2, <1>3, OverPart
<1>4. CASE link' = "out" /\ UNCHANGED R
  BY <1>2, <1>4
<1>5. QED
  BY <1>3, <1>4 DEF GetRegs

(* The r command. *)
LEMMA DisplayAllRegistersInv ==
  ASSUME IInv, DisplayAllRegisters
  PROVE  IInv'
<1>1. FlagsOK /\ ValuesOK /\ at = "idle" /\ work = "none" /\ ~running
      /\ link # "syncing" /\ (link = "up" => PC \in Addr)
  BY AtPrompt DEF DisplayAllRegisters
<1>2. FlagsOK'
  BY <1>1 DEF FlagsOK, DisplayAllRegisters, settings, context
<1>3. mem' \in [Cell -> Value]
  BY <1>1, ScratchMem, Registers DEF DisplayAllRegisters
<1>4. R' \in [Reg -> Value] /\ (link' = link \/ link' = "out")
  <2>1. Reg \ Cached \in SUBSET Reg
    OBVIOUS
  <2>2. QED
    BY <1>1, <2>1, GetRegsType DEF DisplayAllRegisters
<1>5. ValuesOK'
  BY <1>1, <1>3, <1>4 DEF ValuesOK, DisplayAllRegisters, settings, context, Flush, Transfer
<1>6. QED
  BY <1>1, <1>2, <1>4, <1>5, IdleInv DEF DisplayAllRegisters

(* The commands that edit. *)
LEMMA DwWriteAddrInv ==
  ASSUME NEW S \in SUBSET Cell, NEW f \in [S -> Value], IInv, DwWriteAddr(f)
  PROVE  IInv'
<1>1. FlagsOK /\ ValuesOK /\ at = "idle" /\ work = "none" /\ ~running
      /\ link # "syncing" /\ (link = "up" => PC \in Addr)
  BY AtPrompt DEF DwWriteAddr
<1>2. FlagsOK'
  BY <1>1 DEF FlagsOK, DwWriteAddr, settings, context
<1>3. mem' \in [Cell -> Value]
  BY <1>1, EditMem DEF DwWriteAddr
<1>4. R' \in [Reg -> Value]
  BY <1>1, OverPart DEF DwWriteAddr, ValuesOK
<1>5. ValuesOK'
  BY <1>1, <1>3, <1>4 DEF ValuesOK, DwWriteAddr, settings, context, Buffer, Transfer
<1>6. QED
  BY <1>1, <1>2, <1>5, IdleInv DEF DwWriteAddr

(* The same for a register. *)
LEMMA RegistersCommandInv ==
  ASSUME NEW r \in Reg, NEW f \in [{r} -> Value], IInv, RegistersCommand(f)
  PROVE  IInv'
<1>1. FlagsOK /\ ValuesOK /\ at = "idle" /\ work = "none" /\ ~running
      /\ link # "syncing" /\ (link = "up" => PC \in Addr)
  BY AtPrompt DEF RegistersCommand
<1>2. FlagsOK'
  BY <1>1 DEF FlagsOK, RegistersCommand, settings, context
<1>3. mem' \in [Cell -> Value] /\ R' \in [Reg -> Value]
  BY <1>1, OverPart DEF RegistersCommand, ValuesOK
<1>4. ValuesOK'
  BY <1>1, <1>3 DEF ValuesOK, RegistersCommand, settings, context, Buffer, Execute
<1>5. QED
  BY <1>1, <1>2, <1>4, IdleInv DEF RegistersCommand

(* GDB's G; its packet has r28..r31. *)
LEMMA target_write_registersInv ==
  ASSUME NEW f \in [Packet -> Value], NEW a \in Addr, IInv, target_write_registers(f, a)
  PROVE  IInv'
<1>1. FlagsOK /\ ValuesOK /\ at = "idle" /\ work = "none" /\ ~running
      /\ link # "syncing"
  BY AtPrompt DEF target_write_registers
<1>2. FlagsOK'
  BY <1>1 DEF FlagsOK, target_write_registers, settings, context
<1>3. Packet \in SUBSET Cell /\ Cached \subseteq Packet
  BY Registers DEF Packet
<1>4. (DOMAIN f \ Cached) \ {SREG} = DOMAIN f \ (Cached \union {SREG})
  OBVIOUS
<1>5. mem' \in [Cell -> Value]
  <2> DEFINE T == Cached \union {SREG}
  <2>1. mem' \in {Over(Part(f, DOMAIN f \ T), Over(z, mem)) : z \in [Z -> Value]}
    BY <1>4 DEF target_write_registers
  <2> HIDE DEF T
  <2>2. QED
    BY <1>1, <1>3, <2>1, EditMem
<1>6. R' \in [Reg -> Value]
  BY <1>1, <1>3, OverPart DEF target_write_registers, ValuesOK
<1>7. ValuesOK'
  BY <1>1, <1>5, <1>6 DEF ValuesOK, target_write_registers, settings, context, Buffer, Transfer
<1>8. QED
  BY <1>1, <1>2, <1>7, IdleInv DEF target_write_registers

(* The PC. *)
LEMMA PCommandInv == ASSUME NEW a \in Addr, IInv, PCommand(a) PROVE IInv'
<1>1. FlagsOK /\ ValuesOK /\ at = "idle" /\ work = "none" /\ ~running
      /\ link # "syncing"
  BY AtPrompt DEF PCommand
<1>2. FlagsOK'
  BY <1>1 DEF FlagsOK, PCommand, settings, context
<1>3. ValuesOK'
  BY <1>1 DEF ValuesOK, PCommand, settings, context
<1>4. QED
  BY <1>1, <1>2, <1>3, IdleInv DEF PCommand

(* The settings. *)
LEMMA SettingCommandInv ==
  ASSUME NEW b \in Addr \union {-1}, NEW t \in BOOLEAN, IInv, SettingCommand(b, t)
  PROVE  IInv'
<1>1. FlagsOK /\ ValuesOK /\ at = "idle" /\ work = "none" /\ ~running
      /\ link # "syncing" /\ (link = "up" => PC \in Addr)
  BY AtPrompt DEF SettingCommand
<1>2. FlagsOK'
  BY <1>1 DEF FlagsOK, SettingCommand, context
<1>3. ValuesOK'
  BY <1>1 DEF ValuesOK, SettingCommand, context
<1>4. QED
  BY <1>1, <1>2, <1>3, IdleInv DEF SettingCommand

(* Saving registers. *)
LEMMA SaveInv ==
  ASSUME NEW w \in {"flash", "readEEPROM", "writeEEPROM", "config"}, IInv, Save(w)
  PROVE  IInv'
<1>1. FlagsOK /\ ValuesOK /\ at = "idle" /\ work = "none" /\ ~running
      /\ link # "syncing" /\ (link = "up" => PC \in Addr)
  BY AtPrompt DEF Save
<1>2. FlagsOK'
  BY <1>1 DEF FlagsOK, Save, settings, context
<1>3. R' \in [Reg -> Value] /\ (link' = link \/ link' = "out")
  <2>1. Saves(w) \in SUBSET Reg
    BY Registers
  <2>2. QED
    BY <1>1, <2>1, GetRegsType DEF Save
<1>4. ValuesOK'
  BY <1>1, <1>3 DEF ValuesOK, Save, settings, context, Flush, Execute
<1>5. QED
  BY <1>1, <1>2, <1>3, <1>4 DEF IInv, TypeOK, RegsRestored, PCRestored, ContextSet,
     PCKnown, Phases, Leaving, Save

(* Using them. *)
LEMMA WorkInv == ASSUME IInv, Work PROVE IInv'
<1>1. FlagsOK /\ ValuesOK
  BY DEF IInv, TypeOK
<1>2. FlagsOK'
  BY <1>1 DEF FlagsOK, Work, settings, context
<1>3. mem' \in [Cell -> Value]
  <2>1. Uses(work) \in SUBSET Cell
    BY <1>1, Registers DEF Uses, Flags, ValuesOK
  <2>2. QED
    BY <1>1, <2>1, ScratchMem DEF Work
<1>4. ValuesOK'
  BY <1>1, <1>3 DEF ValuesOK, Work, settings, context, Flush, Execute
<1>5. QED
  BY <1>2, <1>4 DEF IInv, TypeOK, RegsRestored, PCRestored, ContextSet,
     PCKnown, Phases, Leaving, Work

(* Restoring them. *)
LEMMA RestoreInv == ASSUME IInv, Restore PROVE IInv'
<1>1. FlagsOK /\ ValuesOK
  BY DEF IInv, TypeOK
<1>2. FlagsOK'
  BY <1>1 DEF FlagsOK, Restore, settings, context
<1>3. mem' \in [Cell -> Value]
  <2>1. Saves(work) \subseteq Reg
    BY <1>1, Registers DEF ValuesOK
  <2>2. \A c \in Saves(work) : R[c] \in Value
    BY <1>1, <2>1 DEF ValuesOK
  <2>3. mem \in [Cell -> Value]
    BY <1>1 DEF ValuesOK
  <2>4. QED
    BY <2>2, <2>3, OverPart DEF Restore
<1>4. ValuesOK'
  BY <1>1, <1>3 DEF ValuesOK, Restore, settings, context, Buffer, Execute
<1>5. QED
  BY <1>2, <1>4, IdleInv DEF IInv, PCKnown, Phases, Restore

(* Giving up. *)
LEMMA FailInv == ASSUME IInv, Fail PROVE IInv'
<1>1. FlagsOK'
  BY DEF IInv, TypeOK, FlagsOK, Fail, settings, context
<1>2. ValuesOK'
  BY DEF IInv, TypeOK, ValuesOK, Fail, settings, context
<1>3. QED
  BY <1>1, <1>2, IdleInv DEF Fail

(* Ending dwdebug. *)
LEMMA EndedInv ==
  ASSUME IInv, Ended, mem' \in {mem, sent}, sent' \in {mem, sent}
  PROVE  IInv'
<1>1. FlagsOK'
  BY DEF IInv, TypeOK, FlagsOK, Ended, context
<1>2. 0 \in Addr
  <2>1. 0 \in Word
    BY SessionAssumption DEF Word
  <2>2. QED
    BY <2>1 DEF Addr
<1>3. ValuesOK'
  BY <1>2, SessionAssumption DEF IInv, TypeOK, ValuesOK, Ended, context
<1>4. QED
  BY <1>1, <1>3, IdleInv DEF Ended

(* Nothing happens. *)
LEMMA StutterInv == ASSUME IInv, UNCHANGED vars PROVE IInv'
<1>1. FlagsOK'
  BY DEF IInv, TypeOK, FlagsOK, vars, settings, context
<1>2. ValuesOK'
  BY DEF IInv, TypeOK, ValuesOK, vars, settings, context
<1>3. RegsRestored' /\ PCRestored' /\ PCKnown' /\ Phases'
  BY DEF IInv, RegsRestored, PCRestored, PCKnown, Phases, Leaving, vars
<1>4. ContextSet'
  BY DEF IInv, ContextSet, vars, settings, context
<1>5. QED
  BY <1>1, <1>2, <1>3, <1>4 DEF IInv, TypeOK

(* Every step of the specification. *)
LEMMA StepInv == IInv /\ [Next]_vars => IInv'
<1> SUFFICES ASSUME IInv, [Next]_vars PROVE IInv'
  OBVIOUS
<1>1. ASSUME Commands PROVE IInv'
  <2>1. ASSUME NEW first \in Cell, NEW last \in Cell, DwReadAddr(Range(first, last)) PROVE IInv'
    <3>1. Range(first, last) \in SUBSET Cell
      BY DEF Range
    <3>2. QED
      BY <2>1, <3>1, DwReadAddrInv
  <2>2. ASSUME NEW first \in Cell, NEW last, NEW f \in Bytes(Range(first, last)),
               DwWriteAddr(f)
        PROVE  IInv'
    <3>1. Range(first, last) \in SUBSET Cell
      BY DEF Range
    <3>2. QED
      BY <2>2, <3>1, DwWriteAddrInv DEF Bytes
  <2>3. ASSUME NEW r \in Reg, NEW f \in Bytes({r}), RegistersCommand(f) PROVE IInv'
    BY <2>3, RegistersCommandInv DEF Bytes
  <2>4. ASSUME NEW f \in Bytes(Packet), NEW a \in Addr, target_write_registers(f, a)
        PROVE  IInv'
    BY <2>4, target_write_registersInv DEF Bytes
  <2>5. QED
    BY <1>1, <2>1, <2>2, <2>3, <2>4, DwFindPortInv, DwListDevicesInv, RestoreRegsInv,
       DwResetInv, DwReadFlashInv, DisplayAllRegistersInv, target_read_registersInv,
       PCommandInv, SettingCommandInv, SaveInv
       DEF Commands
<1>2. ASSUME Continue PROVE IInv'
  BY <1>2, ReadPCInv, ReadRegsInv, SetPCInv, SetContextInv, GoInv, TraceStepInv,
     StoppedInv, WorkInv, RestoreInv
     DEF Continue
<1>3. QED
  BY <1>1, <1>2, TargetRunsInv, FailInv, EndedInv, StutterInv
     DEF Next, Exit, DwDisable, Flush

(* The inductive invariant. *)
THEOREM Invariance == Spec => []IInv
<1>1. Init => IInv
  BY InitInv
<1>2. IInv /\ [Next]_vars => IInv'
  BY StepInv
<1>3. QED
  BY <1>1, <1>2, PTL DEF Spec

(* All variables keep their types: the PC computed from what the target    *)
(* sends, and the word addresses sent to it, stay within the flash         *)
(* (DwReconnect, DwSetPC, DwSetBP).                                        *)
THEOREM TypeCorrect == Spec => []TypeOK
<1>1. IInv => TypeOK
  BY DEF IInv
<1>2. QED
  BY <1>1, Invariance, PTL
-----------------------------------------------------------------------------
(* What the program and the user see. *)

(* The program's memory is in the target but for the registers held in R.  *)
UserMemOK ==
  /\ UserMem \in [Cell -> Value]
  /\ Held \subseteq Reg
  /\ \A c \in Cell : UserMem[c] = IF c \in Held THEN R[c] ELSE mem[c]

(* So it is in every state with the right types ... *)
LEMMA UserMemAt == ValuesOK => UserMemOK
<1> SUFFICES ASSUME ValuesOK PROVE UserMemOK
  OBVIOUS
<1>1. Held \subseteq Reg
  BY Registers DEF Held, ValuesOK
<1>2. \A c \in Held : R[c] \in Value
  BY <1>1 DEF ValuesOK
<1>3. mem \in [Cell -> Value]
  BY DEF ValuesOK
<1>4. QED
  BY <1>1, <1>2, <1>3, OverPart DEF UserMem, UserMemOK

(* ... and in the next one. *)
LEMMA UserMemNext == ValuesOK' => UserMemOK'
BY UserMemAt, PTL

(* When two states show the program the same memory. *)
LEMMA SameMem ==
  ASSUME ValuesOK, ValuesOK',
         \A c \in Cell : (IF c \in Held THEN R[c] ELSE mem[c])'
                        = IF c \in Held THEN R[c] ELSE mem[c]
  PROVE  UserMem' = UserMem
<1>1. UserMem \in [Cell -> Value] /\ UserMem' \in [Cell -> Value]
  BY UserMemAt, UserMemNext DEF UserMemOK
<1>2. \A c \in Cell : UserMem'[c] = UserMem[c]
  BY UserMemAt, UserMemNext DEF UserMemOK
<1>3. QED
  BY <1>1, <1>2

(* When it is the edit of a memory. *)
LEMMA EditedMem ==
  ASSUME ValuesOK, ValuesOK', NEW f, DOMAIN f \subseteq Cell,
         \A c \in Cell : (IF c \in Held THEN R[c] ELSE mem[c])'
                        = IF c \in DOMAIN f THEN f[c]
                          ELSE IF c \in Held THEN R[c] ELSE mem[c]
  PROVE  UserMem' = User!Over(f, UserMem)
<1>1. UserMem \in [Cell -> Value] /\ UserMem' \in [Cell -> Value]
  BY UserMemAt, UserMemNext DEF UserMemOK
<1>2. \A c \in Cell : UserMem'[c] = IF c \in DOMAIN f THEN f[c] ELSE UserMem[c]
  BY UserMemAt, UserMemNext DEF UserMemOK
<1>3. QED
  BY <1>1, <1>2 DEF User!Over

(* The empty request. *)
LEMMA NoRequest == Nothing = User!Nothing
BY DEF Nothing, Plain, Request, User!Nothing, User!Plain, User!Request

(* A step that shows the program nothing new. *)
LEMMA RestStep ==
  ASSUME ValuesOK, ValuesOK', did' = Nothing,
         \A c \in Cell : (IF c \in Held THEN R[c] ELSE mem[c])'
                        = IF c \in Held THEN R[c] ELSE mem[c],
         UserPC' = UserPC, UserBP' = UserBP, UserTimers' = UserTimers,
         running' = running
  PROVE  User!UNext
BY SameMem, NoRequest DEF User!UNext, User!Rest, User!program
-----------------------------------------------------------------------------
(* DwReconnect, DwGo and DwTrace. *)

(* Reading the PC. *)
LEMMA ReadPCStep == ASSUME IInv, IInv', ReadPC PROVE User!UNext
<1> SUFFICES ASSUME link = "up", link' = "up" PROVE User!UNext
  BY DEF User!UNext, User!Tracked
<1>1. ValuesOK /\ ValuesOK'
  BY DEF IInv, TypeOK
<1>2. PC' = 2*tpc
  BY <1>1, ReadBackPC DEF ReadPC, ValuesOK
<1>3. UserPC' = UserPC
  BY <1>2 DEF UserPC, ReadPC
<1>4. Held = {} /\ Held' = {} /\ mem' = mem
  BY DEF Held, ReadPC
<1>5. UserBP' = UserBP /\ UserTimers' = UserTimers
  BY DEF UserBP, UserTimers, ReadPC, settings
<1>6. QED
  BY <1>1, <1>3, <1>4, <1>5, RestStep DEF ReadPC

(* Reading the registers. *)
LEMMA ReadRegsStep == ASSUME IInv, IInv', ReadRegs PROVE User!UNext
<1> SUFFICES ASSUME link = "up", link' = "up" PROVE User!UNext
  BY DEF User!UNext, User!Tracked
<1>1. ValuesOK /\ ValuesOK'
  BY DEF IInv, TypeOK
<1>2. Held = {} /\ Held' = Cached /\ mem' = mem
  BY Registers DEF Held, ReadRegs, IInv, Phases
<1>3. \A c \in Cached : R'[c] = mem[c]
  BY <1>1, Registers, OverPart DEF ReadRegs, ValuesOK
<1>4. UserPC' = UserPC /\ UserBP' = UserBP /\ UserTimers' = UserTimers
  BY DEF UserPC, UserBP, UserTimers, ReadRegs, settings
<1>5. QED
  BY <1>1, <1>2, <1>3, <1>4, RestStep DEF ReadRegs

(* Restoring the registers. *)
LEMMA RestoreRegsStep ==
  ASSUME NEW next \in {"gopc", "tracepc"}, IInv, IInv', RestoreRegs(next)
  PROVE  User!UNext
<1> SUFFICES ASSUME link = "up", link' = "up" PROVE User!UNext
  BY DEF User!UNext, User!Tracked
<1>1. ValuesOK /\ ValuesOK'
  BY DEF IInv, TypeOK
<1>2. Held = Cached /\ Held' = Cached /\ R' = R
  BY AtPrompt, Registers DEF Held, RestoreRegs
<1>3. \A c \in Cell \ Cached : mem'[c] = mem[c]
  <2>1. \A c \in Cached : R[c] \in Value
    BY <1>1, Registers DEF ValuesOK
  <2>2. mem \in [Cell -> Value]
    BY <1>1 DEF ValuesOK
  <2>3. QED
    BY <2>1, <2>2, OverPart DEF RestoreRegs
<1>4. UserPC' = UserPC /\ UserBP' = UserBP /\ UserTimers' = UserTimers
  BY AtPrompt DEF UserPC, UserBP, UserTimers, RestoreRegs, settings
<1>5. QED
  BY <1>1, <1>2, <1>3, <1>4, RestStep DEF RestoreRegs

(* Setting the PC. *)
LEMMA SetPCStep ==
  ASSUME NEW here, NEW next, IInv, IInv', SetPC(here, next),
         \/ here = "gopc" /\ next = "gobp"
         \/ here = "tracepc" /\ next = "tracestep"
  PROVE  User!UNext
<1> SUFFICES ASSUME link = "up", link' = "up" PROVE User!UNext
  BY DEF User!UNext, User!Tracked
<1>1. ValuesOK /\ ValuesOK'
  BY DEF IInv, TypeOK
<1>2. Held' = Held /\ R' = R /\ mem' = mem
  BY DEF Held, SetPC
<1>3. UserPC' = UserPC /\ UserBP' = UserBP /\ UserTimers' = UserTimers
  BY DEF UserPC, UserBP, UserTimers, SetPC, settings
<1>4. QED
  BY <1>1, <1>2, <1>3, RestStep DEF SetPC

(* Setting the breakpoint and the context. *)
LEMMA SetContextStep == ASSUME IInv, IInv', SetContext PROVE User!UNext
<1> SUFFICES ASSUME link = "up", link' = "up" PROVE User!UNext
  BY DEF User!UNext, User!Tracked
<1>1. ValuesOK /\ ValuesOK'
  BY DEF IInv, TypeOK
<1>2. Held' = Held /\ R' = R /\ mem' = mem
  BY DEF Held, SetContext
<1>3. UserPC' = UserPC /\ UserBP' = UserBP /\ UserTimers' = UserTimers
  BY DEF UserPC, UserBP, UserTimers, SetContext, settings
<1>4. QED
  BY <1>1, <1>2, <1>3, RestStep DEF SetContext

(* The breakpoint that the target has when it is let go. *)
LEMMA Breakpoint ==
  ASSUME ValuesOK, ContextSet, at \in {"gorun", "waiting"}
  PROVE  BP = IF bpOn THEN 2*tbp ELSE -1
<1>1. BP \in Addr \union {-1} /\ (bpOn => 2*tbp = BP) /\ (bpOn <=> BP >= 0)
  BY DEF ValuesOK, ContextSet
<1>2. BP \in Int /\ (~(BP >= 0) => BP = -1)
  BY <1>1, Addresses
<1>3. CASE bpOn
  BY <1>1, <1>3
<1>4. CASE ~bpOn
  <2>1. ~(BP >= 0)
    BY <1>1, <1>4
  <2>2. QED
    BY <1>2, <1>4, <2>1
<1>5. QED
  BY <1>3, <1>4

(* The program starts: everything the user has chosen is in the target.    *)
LEMMA GoStep == ASSUME IInv, IInv', Go PROVE User!UNext
<1> SUFFICES ASSUME link = "up", link' = "up" PROVE User!UNext
  BY DEF User!UNext, User!Tracked
<1>1. ValuesOK /\ ValuesOK'
  BY DEF IInv, TypeOK
<1>2. Held = Cached /\ Held' = {} /\ R' = R /\ mem' = mem
  BY Registers DEF Held, Go, IInv, Phases
<1>3. \A c \in Cached : mem[c] = R[c]
  BY DEF IInv, RegsRestored, Leaving, Go
<1>4. UserMem' = UserMem
  BY <1>1, <1>2, <1>3, SameMem
<1>5. UserPC' = UserPC
  BY DEF UserPC, Go, IInv, PCRestored
<1>6. UserTimers' = UserTimers
  BY DEF UserTimers, Go, IInv, ContextSet, settings, context
<1>7. UserBP' = UserBP
  BY <1>1, Breakpoint DEF IInv, UserBP, Go, context
<1>8. ~running /\ running'
  BY DEF IInv, Phases, Go
<1>9. QED
  BY <1>4, <1>5, <1>6, <1>7, <1>8, NoRequest DEF User!UNext, User!Start, Go

(* A single instruction: the program's PC and registers are in the target. *)
LEMMA TraceStepStep == ASSUME IInv, IInv', TraceStep PROVE User!UNext
<1> SUFFICES ASSUME link = "up", link' = "up" PROVE User!UNext
  BY DEF User!UNext, User!Tracked
<1>1. UserBP' = UserBP /\ UserTimers' = UserTimers
  BY DEF UserBP, UserTimers, TraceStep, settings
<1>2. ~running /\ running' = running
  BY DEF IInv, Phases, TraceStep
<1>3. did'.kind = "step"
  BY DEF TraceStep, Plain, Request
<1>4. QED
  BY <1>1, <1>2, <1>3 DEF User!UNext, User!Step

(* A reset. *)
LEMMA DwResetStep == ASSUME IInv, IInv', DwReset PROVE User!UNext
<1> SUFFICES ASSUME link = "up", link' = "up" PROVE User!UNext
  BY DEF User!UNext, User!Tracked
<1>1. UserBP' = UserBP /\ UserTimers' = UserTimers
  BY AtPrompt DEF UserBP, UserTimers, DwReset, settings
<1>2. ~running /\ running' = running
  BY AtPrompt DEF DwReset
<1>3. did'.kind = "reset"
  BY DEF DwReset, Plain, Request
<1>4. QED
  BY <1>1, <1>2, <1>3 DEF User!UNext, User!Step

(* The end of a wait, at the breakpoint or by the user's key. *)
LEMMA StoppedStep == ASSUME IInv, IInv', Stopped PROVE User!UNext
<1> SUFFICES ASSUME link = "up", link' = "up" PROVE User!UNext
  BY DEF User!UNext, User!Tracked
<1>1. ValuesOK /\ ValuesOK'
  BY DEF IInv, TypeOK
<1>2. UserMem' = UserMem
  <2>1. Held = {} /\ Held' = {} /\ mem' = mem
    BY DEF Held, Stopped
  <2>2. QED
    BY <1>1, <2>1, SameMem
<1>3. UserPC' = UserPC
  BY DEF UserPC, Stopped
<1>4. UserBP' = UserBP
  BY <1>1, Breakpoint DEF IInv, UserBP, Stopped, settings
<1>5. UserTimers' = UserTimers
  BY DEF IInv, ContextSet, UserTimers, Stopped, settings
<1>6. did' = User!Nothing /\ ~running'
  BY NoRequest DEF Stopped
<1>7. CASE running
  BY <1>2, <1>3, <1>4, <1>5, <1>6, <1>7 DEF User!UNext, User!Break
<1>8. CASE ~running
  <2>1. running' = running
    BY <1>6, <1>8 DEF IInv, TypeOK, FlagsOK
  <2>2. QED
    BY <1>2, <1>3, <1>4, <1>5, <1>6, <2>1 DEF User!UNext, User!Rest, User!program
<1>9. QED
  BY <1>7, <1>8

(* The program executes, and stops at the user's breakpoint only. *)
LEMMA TargetRunsStep == ASSUME IInv, IInv', TargetRuns PROVE User!UNext
<1> SUFFICES ASSUME link = "up", link' = "up" PROVE User!UNext
  BY DEF User!UNext, User!Tracked
<1>1. at = "waiting" /\ at' = "waiting" /\ running
  BY DEF IInv, Phases, TargetRuns
<1>2. UserBP' = UserBP /\ UserTimers' = UserTimers
  BY <1>1 DEF UserBP, UserTimers, TargetRuns, context
<1>3. running' = ~(bpOn /\ tpc' = tbp)
  BY DEF TargetRuns
<1>4. UserPC' = 2*tpc' /\ UserBP = IF bpOn THEN 2*tbp ELSE -1
  BY <1>1 DEF UserPC, UserBP
<1>5. 2*tpc' # -1 /\ (2*tpc' = 2*tbp <=> tpc' = tbp)
  <2>1. tpc' \in Int /\ tbp \in Int
    BY Addresses DEF IInv, TypeOK, ValuesOK
  <2>2. \A m, n \in Int : 2*m # -1 /\ (2*m = 2*n <=> m = n)
    OBVIOUS
  <2>3. QED
    BY <2>1, <2>2
<1>6. (UserPC' # UserBP) = ~(bpOn /\ tpc' = tbp)
  <2>1. CASE bpOn
    BY <1>4, <1>5, <2>1
  <2>2. CASE ~bpOn
    BY <1>4, <1>5, <2>2
  <2>3. QED
    BY <2>1, <2>2
<1>7. running' = (UserPC' # UserBP)
  BY <1>3, <1>6
<1>8. QED
  BY <1>1, <1>2, <1>7, NoRequest DEF User!UNext, User!Run, TargetRuns
-----------------------------------------------------------------------------
(* Commands that read. *)

(* Reading flash. *)
LEMMA DwReadFlashStep == ASSUME IInv, IInv', DwReadFlash PROVE User!UNext
<1> SUFFICES ASSUME link = "up", link' = "up" PROVE User!UNext
  BY DEF User!UNext, User!Tracked
<1>1. ValuesOK /\ ValuesOK'
  BY DEF IInv, TypeOK
<1>2. Held = Cached /\ Held' = Cached /\ R' = R
  BY AtPrompt, Registers DEF Held, DwReadFlash
<1>3. \A c \in Cell \ Z : mem'[c] = mem[c]
  BY <1>1, ScratchMem, Registers DEF DwReadFlash
<1>4. UserPC' = UserPC /\ UserBP' = UserBP /\ UserTimers' = UserTimers
  BY AtPrompt DEF UserPC, UserBP, UserTimers, DwReadFlash, settings
<1>5. QED
  BY <1>1, <1>2, <1>3, <1>4, Registers, RestStep DEF DwReadFlash

(* A step that shows the user the program's state. *)
LEMMA ShowStep ==
  ASSUME IInv, IInv', Ready, link = "up", link' = "up",
         at' = at, work' = work, R' = R, PC' = PC, UNCHANGED settings,
         running' = running, \A c \in Cell \ Z : mem'[c] = mem[c],
         NEW S \in SUBSET Cell, NEW f, NEW kind \in {"show", "g"},
         did' = Request(kind, f, {}, {}, {}), DOMAIN f = S,
         \A c \in S : kind # "g" \/ c # SREG => f[c] = IF c \in Cached THEN R[c] ELSE mem[c]
  PROVE  User!UNext
<1>1. ValuesOK /\ ValuesOK'
  BY DEF IInv, TypeOK
<1>2. Held = Cached /\ Held' = Cached
  BY AtPrompt, Registers DEF Held
<1>3. UserMem' = UserMem
  BY <1>1, <1>2, Registers, SameMem
<1>4. UserPC' = UserPC /\ UserBP' = UserBP /\ UserTimers' = UserTimers
  BY AtPrompt DEF UserPC, UserBP, UserTimers, settings
<1>5. did'.kind = kind /\ did'.mem = f
  BY DEF Request
<1>6. \A c \in User!Meant : did'.mem[c] = UserMem[c]
  BY <1>1, <1>2, <1>5, UserMemAt DEF UserMemOK, User!Meant
<1>7. ~running
  BY DEF Ready
<1>8. QED
  BY <1>3, <1>4, <1>5, <1>6, <1>7 DEF User!UNext, User!Show, User!program

(* Reading data memory. *)
LEMMA DwReadAddrStep ==
  ASSUME NEW cells \in SUBSET Cell, IInv, IInv', DwReadAddr(cells)
  PROVE  User!UNext
<1> SUFFICES ASSUME link = "up", link' = "up" PROVE User!UNext
  BY DEF User!UNext, User!Tracked
<1>1. \A c \in Cell \ Z : mem'[c] = mem[c]
  BY ScratchMem, Registers DEF IInv, TypeOK, DwReadAddr
<1> DEFINE f == Over(Part(R, cells \intersect Cached), Part(mem, cells))
<1>2. did' = Request("show", f, {}, {}, {})
  BY DEF DwReadAddr
<1>3. DOMAIN f = cells
      /\ \A c \in cells : f[c] = IF c \in Cached THEN R[c] ELSE mem[c]
  BY DEF Over, Part
<1> HIDE DEF f
<1>4. Ready /\ at' = at /\ work' = work /\ R' = R /\ PC' = PC /\ UNCHANGED settings
      /\ running' = running
  BY DEF DwReadAddr
<1>5. QED
  BY <1>1, <1>2, <1>3, <1>4, ShowStep

(* GDB's g, whose byte for SREG does not count. *)
LEMMA target_read_registersStep ==
  ASSUME IInv, IInv', target_read_registers
  PROVE  User!UNext
<1> SUFFICES ASSUME link = "up", link' = "up" PROVE User!UNext
  BY DEF User!UNext, User!Tracked
<1>1. \A c \in Cell \ Z : mem'[c] = mem[c]
  BY ScratchMem, Registers DEF IInv, TypeOK, target_read_registers
<1> DEFINE F(b) == [c \in Packet |->
              IF c \in Cached THEN R[c] ELSE IF c = SREG THEN b ELSE mem[c]]
<1>0. PICK b : did' = Request("g", F(b), {}, {}, {})
  BY DEF target_read_registers
<1> DEFINE f == F(b)
<1>2. did' = Request("g", f, {}, {}, {})
  BY <1>0
<1>3. Packet \subseteq Cell
  BY Registers DEF Packet
<1>4. DOMAIN f = Packet
      /\ \A c \in Packet : "g" # "g" \/ c # SREG => f[c] = IF c \in Cached THEN R[c] ELSE mem[c]
  OBVIOUS
<1> HIDE DEF f
<1>5. Ready /\ at' = at /\ work' = work /\ R' = R /\ PC' = PC /\ UNCHANGED settings
      /\ running' = running
  BY DEF target_read_registers
<1>6. QED
  BY <1>1, <1>2, <1>3, <1>4, <1>5, ShowStep

(* The r command: R takes the registers it does not hold. *)
LEMMA DisplayAllRegistersStep ==
  ASSUME IInv, IInv', DisplayAllRegisters
  PROVE  User!UNext
<1> SUFFICES ASSUME link = "up", link' = "up" PROVE User!UNext
  BY DEF User!UNext, User!Tracked
<1>1. ValuesOK /\ ValuesOK'
  BY DEF IInv, TypeOK
<1>2. Held = Cached /\ Held' = Cached
  BY AtPrompt, Registers DEF Held, DisplayAllRegisters
<1>3. \A c \in Cell \ Z : mem'[c] = mem[c]
  BY <1>1, ScratchMem, Registers DEF DisplayAllRegisters
<1>4. \A c \in Reg : R'[c] = IF c \in Reg \ Cached THEN mem[c] ELSE R[c]
  <2>1. Reg \ Cached \in SUBSET Reg
    OBVIOUS
  <2>2. QED
    BY <1>1, <2>1, GetRegsType DEF DisplayAllRegisters
<1>5. UserMem' = UserMem
  BY <1>1, <1>2, <1>3, <1>4, Registers, SameMem
<1>6. UserPC' = UserPC /\ UserBP' = UserBP /\ UserTimers' = UserTimers
  BY AtPrompt DEF UserPC, UserBP, UserTimers, DisplayAllRegisters, settings
<1>7. did'.kind = "show" /\ did'.mem = R'
  BY DEF DisplayAllRegisters, Request
<1>8. \A c \in User!Meant : did'.mem[c] = UserMem[c]
  <2>1. DOMAIN R' = Reg /\ User!Meant = DOMAIN R'
    BY <1>1, <1>7 DEF ValuesOK, User!Meant
  <2>2. QED
    BY <1>1, <1>2, <1>4, <1>7, <2>1, UserMemAt, Registers DEF UserMemOK
<1>9. ~running /\ running' = running
  BY DEF Ready, DisplayAllRegisters
<1>10. QED
  BY <1>5, <1>6, <1>7, <1>8, <1>9 DEF User!UNext, User!Show, User!program
-----------------------------------------------------------------------------
(* Commands that edit. *)

(* An edit of cells. *)
LEMMA EditStep ==
  ASSUME IInv, IInv', Ready, link = "up", link' = "up",
         at' = at, work' = work, UNCHANGED settings, running' = running,
         NEW S \in SUBSET Cell, NEW f \in [S -> Value], NEW pcs, NEW kind \in {"edit", "G"},
         did' = Request(kind, f, pcs, {}, {}),
         PC' \in User!Chosen(pcs, PC),
         NEW T \in SUBSET S, T = S \ IF kind = "G" THEN {SREG} ELSE {},
         \A c \in Cell \ Cached : mem'[c] = IF c \in T THEN f[c] ELSE mem[c],
         \A c \in Cached : R'[c] = IF c \in T THEN f[c] ELSE R[c]
  PROVE  User!UNext
<1>1. ValuesOK /\ ValuesOK'
  BY DEF IInv, TypeOK
<1>2. Held = Cached /\ Held' = Cached
  BY AtPrompt, Registers DEF Held
<1> DEFINE e == [c \in T |-> f[c]]
<1>3. UserMem' = User!Over(e, UserMem)
  <2>1. DOMAIN e = T /\ T \subseteq Cell /\ \A c \in T : e[c] = f[c]
    OBVIOUS
  <2> HIDE DEF e
  <2>2. QED BY <1>1, <1>2, <2>1, EditedMem
<1>4. UserPC = PC /\ UserPC' = PC' /\ UserBP' = UserBP /\ UserTimers' = UserTimers
  BY AtPrompt DEF UserPC, UserBP, UserTimers, settings
<1>5. did'.kind = kind /\ did'.mem = f /\ did'.pc = pcs /\ did'.bp = {}
      /\ did'.timers = {}
  BY DEF Request
<1>6. ~running
  BY DEF Ready
<1>7. e = [c \in User!Meant |-> did'.mem[c]]
  <2>1. User!Meant = T
    BY <1>5 DEF User!Meant
  <2>2. QED BY <1>5, <2>1
<1> HIDE DEF e
<1>8. QED
  BY <1>3, <1>4, <1>5, <1>6, <1>7 DEF User!UNext, User!Edit, User!Chosen

(* Writing data memory. *)
LEMMA DwWriteAddrStep ==
  ASSUME NEW S \in SUBSET Cell, NEW f \in [S -> Value], IInv, IInv', DwWriteAddr(f)
  PROVE  User!UNext
<1> SUFFICES ASSUME link = "up", link' = "up" PROVE User!UNext
  BY DEF User!UNext, User!Tracked
<1>1. ValuesOK
  BY DEF IInv, TypeOK
<1>2. \A c \in Cell \ Z : mem'[c] = IF c \in S \ Cached THEN f[c] ELSE mem[c]
  BY <1>1, EditMem DEF DwWriteAddr
<1>3. \A c \in Cached : R'[c] = IF c \in S THEN f[c] ELSE R[c]
  BY <1>1, OverPart, Registers DEF DwWriteAddr, ValuesOK
<1>4. Ready /\ at' = at /\ work' = work /\ PC' = PC /\ UNCHANGED settings
      /\ running' = running /\ did' = Request("edit", f, {}, {}, {})
  BY DEF DwWriteAddr
<1>5. PC' \in User!Chosen({}, PC)
  BY <1>4 DEF User!Chosen
<1>6. \A c \in Cell \ Cached : mem'[c] = IF c \in S THEN f[c] ELSE mem[c]
  BY <1>2, Registers
<1>7. QED
  BY <1>3, <1>4, <1>5, <1>6, EditStep

(* Writing a register. *)
LEMMA RegistersCommandStep ==
  ASSUME NEW r \in Reg, NEW f \in [{r} -> Value], IInv, IInv', RegistersCommand(f)
  PROVE  User!UNext
<1> SUFFICES ASSUME link = "up", link' = "up" PROVE User!UNext
  BY DEF User!UNext, User!Tracked
<1>1. mem \in [Cell -> Value] /\ R \in [Reg -> Value]
  BY DEF IInv, TypeOK, ValuesOK
<1>2. \A c \in Cell : mem'[c] = IF c \in {r} \ Cached THEN f[c] ELSE mem[c]
  BY <1>1, OverPart DEF RegistersCommand
<1>3. \A c \in Cached : R'[c] = IF c \in {r} THEN f[c] ELSE R[c]
  BY <1>1, OverPart, Registers DEF RegistersCommand
<1>4. Ready /\ at' = at /\ work' = work /\ PC' = PC /\ UNCHANGED settings
      /\ running' = running /\ did' = Request("edit", f, {}, {}, {})
  BY DEF RegistersCommand
<1>5. PC' \in User!Chosen({}, PC)
  BY <1>4 DEF User!Chosen
<1>6. \A c \in Cell \ Cached : mem'[c] = IF c \in {r} THEN f[c] ELSE mem[c]
  BY <1>2
<1>7. {r} \in SUBSET Cell
  BY Registers
<1>8. QED
  BY <1>3, <1>4, <1>5, <1>6, <1>7, EditStep

(* GDB's G, whose byte for SREG is lost. *)
LEMMA target_write_registersStep ==
  ASSUME NEW f \in [Packet -> Value], NEW a \in Addr, IInv, IInv',
         target_write_registers(f, a)
  PROVE  User!UNext
<1> SUFFICES ASSUME link = "up", link' = "up" PROVE User!UNext
  BY DEF User!UNext, User!Tracked
<1>1. ValuesOK
  BY DEF IInv, TypeOK
<1>2. Packet \in SUBSET Cell /\ Cached \subseteq Packet
  BY Registers DEF Packet
<1> DEFINE T == Packet \ {SREG}
           K == Cached \union {SREG}
<1>3. (DOMAIN f \ Cached) \ {SREG} = DOMAIN f \ K
  BY <1>2
<1>4. \A c \in Cell \ Z : mem'[c] = IF c \in Packet \ K THEN f[c] ELSE mem[c]
  <2>1. mem' \in {Over(Part(f, DOMAIN f \ K), Over(z, mem)) : z \in [Z -> Value]}
    BY <1>3 DEF target_write_registers
  <2> HIDE DEF K
  <2>2. QED
    BY <1>1, <1>2, <2>1, EditMem
<1>5. \A c \in Cached : R'[c] = IF c \in T THEN f[c] ELSE R[c]
  <2>1. \A c \in Cached : c # SREG
    BY DEF Cached, SREG
  <2>2. QED BY <1>1, <1>2, <2>1, OverPart, Registers DEF target_write_registers, ValuesOK
<1>6. Ready /\ at' = at /\ work' = work /\ PC' = a /\ UNCHANGED settings
      /\ running' = running /\ did' = Request("G", f, {a}, {}, {})
  BY DEF target_write_registers
<1>7. PC' \in User!Chosen({a}, PC)
  BY <1>6 DEF User!Chosen
<1>8. \A c \in Cell \ Cached : mem'[c] = IF c \in T THEN f[c] ELSE mem[c]
  BY <1>4, Registers
<1>9. T \in SUBSET Packet /\ T = Packet \ IF "G" = "G" THEN {SREG} ELSE {}
  OBVIOUS
<1> HIDE DEF T
<1>10. QED
  BY <1>2, <1>5, <1>6, <1>7, <1>8, <1>9, EditStep

(* Setting the PC. *)
LEMMA PCommandStep ==
  ASSUME NEW a \in Addr, IInv, IInv', PCommand(a)
  PROVE  User!UNext
<1> SUFFICES ASSUME link = "up", link' = "up" PROVE User!UNext
  BY DEF User!UNext, User!Tracked
<1> DEFINE f == << >>
<1>1. f \in [{} -> Value] /\ {} \in SUBSET Cell
  OBVIOUS
<1>2. /\ Ready /\ at' = at /\ work' = work /\ PC' = a /\ UNCHANGED settings
      /\ running' = running /\ did' = Request("edit", f, {a}, {}, {})
      /\ mem' = mem /\ R' = R
  BY DEF PCommand
<1> HIDE DEF f
<1>3. PC' \in User!Chosen({a}, PC)
  BY <1>2 DEF User!Chosen
<1> DEFINE T == {}
<1>4. T \in SUBSET {} /\ T = {} \ IF "edit" = "G" THEN {SREG} ELSE {}
  OBVIOUS
<1>5. \A c \in Cell \ Cached : mem'[c] = IF c \in T THEN f[c] ELSE mem[c]
  BY <1>2
<1>6. \A c \in Cached : R'[c] = IF c \in T THEN f[c] ELSE R[c]
  BY <1>2
<1> HIDE DEF T
<1>7. QED
  BY <1>1, <1>2, <1>3, <1>4, <1>5, <1>6, EditStep

(* Setting the breakpoint or the timers. *)
LEMMA SettingCommandStep ==
  ASSUME NEW b \in Addr \union {-1}, NEW t \in BOOLEAN, IInv, IInv', SettingCommand(b, t)
  PROVE  User!UNext
<1> SUFFICES ASSUME link = "up", link' = "up" PROVE User!UNext
  BY DEF User!UNext, User!Tracked
<1>1. ValuesOK /\ ValuesOK'
  BY DEF IInv, TypeOK
<1>2. Held = Cached /\ Held' = Cached
  BY AtPrompt, Registers DEF Held, SettingCommand
<1>3. UserMem' = User!Over(<< >>, UserMem)
  <2>1. DOMAIN << >> = {}
    OBVIOUS
  <2>2. mem' = mem /\ R' = R
    BY DEF SettingCommand
  <2>3. QED
    BY <1>1, <1>2, <2>1, <2>2, EditedMem
<1>4. UserPC' = UserPC /\ UserBP' = b /\ UserTimers' = t
  BY AtPrompt DEF UserPC, UserBP, UserTimers, SettingCommand
<1>5. did'.kind = "edit" /\ did'.mem = << >> /\ did'.pc = {} /\ did'.bp = {b}
      /\ did'.timers = {t}
  BY DEF SettingCommand, Request
<1>6. ~running /\ running' = running
  BY DEF Ready, SettingCommand
<1> DEFINE e == [c \in User!Meant |-> did'.mem[c]]
<1>7. e = << >>
  BY <1>5 DEF User!Meant
<1> HIDE DEF e
<1>8. UserMem' = User!Over(e, UserMem)
  BY <1>3, <1>7
<1>9. QED
  BY <1>4, <1>5, <1>6, <1>8 DEF e, User!UNext, User!Edit, User!Chosen
-----------------------------------------------------------------------------
(* Commands that use low registers. *)

(* Saving them. *)
LEMMA SaveStep ==
  ASSUME NEW w \in {"flash", "readEEPROM", "writeEEPROM", "config"},
         IInv, IInv', Save(w)
  PROVE  User!UNext
<1> SUFFICES ASSUME link = "up", link' = "up" PROVE User!UNext
  BY DEF User!UNext, User!Tracked
<1>1. ValuesOK /\ ValuesOK'
  BY DEF IInv, TypeOK
<1>2. Held = Cached /\ Held' = Cached \union Saves(w) /\ mem' = mem
  BY AtPrompt, Registers DEF Held, Save
<1>3. \A c \in Reg : R'[c] = IF c \in Saves(w) THEN mem[c] ELSE R[c]
  <2>1. Saves(w) \in SUBSET Reg
    BY Registers
  <2>2. QED
    BY <1>1, <2>1, GetRegsType DEF Save
<1>4. Saves(w) \intersect Cached = {} /\ Saves(w) \subseteq Reg
  BY Registers
<1>5. UserPC' = UserPC /\ UserBP' = UserBP /\ UserTimers' = UserTimers
  BY AtPrompt DEF UserPC, UserBP, UserTimers, Save, settings
<1>6. QED
  BY <1>1, <1>2, <1>3, <1>4, <1>5, Registers, RestStep DEF Save

(* Using them. *)
LEMMA WorkStep == ASSUME IInv, IInv', Work PROVE User!UNext
<1> SUFFICES ASSUME link = "up", link' = "up" PROVE User!UNext
  BY DEF User!UNext, User!Tracked
<1>1. ValuesOK /\ ValuesOK'
  BY DEF IInv, TypeOK
<1>2. Uses(work) = Held \union Flags(work) /\ Held' = Held /\ R' = R
  BY DEF Held, Uses, Work
<1>3. \A c \in Cell \ Uses(work) : mem'[c] = mem[c]
  <2>1. Uses(work) \in SUBSET Cell
    BY <1>1, Registers DEF Uses, Flags, ValuesOK
  <2>2. QED
    BY <1>1, <2>1, ScratchMem DEF Work
<1>4. UserPC' = UserPC /\ UserBP' = UserBP /\ UserTimers' = UserTimers
  BY DEF UserPC, UserBP, UserTimers, Work, settings
<1>5. CASE work = "config"
  <2>1. Flags(work) = {}
    BY <1>5 DEF Flags
  <2>2. QED
    BY <1>1, <1>2, <1>3, <1>4, <1>5, <2>1, RestStep DEF Work
<1>6. CASE work # "config"
  <2>1. did' = User!Plain("work")
    BY <1>6 DEF Work, Plain, Request, User!Plain, User!Request
  <2>2. ~running
    BY DEF IInv, Phases, Work
  <2>3. UserMem \in [Cell -> Value] /\ UserMem' \in [Cell -> Value]
    BY <1>1, UserMemAt, UserMemNext DEF UserMemOK
  <2>4. Flags(work) \subseteq {SREG}
    BY DEF Flags
  <2>5. \A c \in Cell \ {SREG} : UserMem'[c] = UserMem[c]
    BY <1>1, <1>2, <1>3, <2>4, UserMemAt, UserMemNext DEF UserMemOK
  <2>6. running' = running
    BY DEF Work
  <2>7. User!Work
    BY <1>4, <2>1, <2>2, <2>3, <2>5, <2>6 DEF User!Work
  <2>8. QED
    BY <2>7 DEF User!UNext
<1>7. QED BY <1>5, <1>6

(* Restoring them. *)
LEMMA RestoreStep == ASSUME IInv, IInv', Restore PROVE User!UNext
<1> SUFFICES ASSUME link = "up", link' = "up" PROVE User!UNext
  BY DEF User!UNext, User!Tracked
<1>1. ValuesOK /\ ValuesOK'
  BY DEF IInv, TypeOK
<1>2. Held = Cached \union Saves(work) /\ Held' = Cached /\ R' = R
  BY Registers DEF Held, Restore
<1>3. \A c \in Cell : mem'[c] = IF c \in Saves(work) THEN R[c] ELSE mem[c]
  <2>1. Saves(work) \subseteq Reg
    BY <1>1, Registers DEF ValuesOK
  <2>2. \A c \in Saves(work) : R[c] \in Value
    BY <1>1, <2>1 DEF ValuesOK
  <2>3. mem \in [Cell -> Value]
    BY <1>1 DEF ValuesOK
  <2>4. QED
    BY <2>2, <2>3, OverPart DEF Restore
<1>4. UserPC' = UserPC /\ UserBP' = UserBP /\ UserTimers' = UserTimers
  BY DEF UserPC, UserBP, UserTimers, Restore, settings
<1>5. QED
  BY <1>1, <1>2, <1>3, <1>4, RestStep DEF Restore
-----------------------------------------------------------------------------
(* The theorem. *)

(* Every step of dwdebug is a step of the program's or of the user's. *)
LEMMA StepImplements ==
  IInv /\ IInv' /\ [Next]_vars => [User!UNext]_User!uvars
<1> SUFFICES ASSUME IInv, IInv', [Next]_vars
             PROVE  [User!UNext]_User!uvars
  OBVIOUS
<1>1. ASSUME Commands PROVE User!UNext
  <2>1. ASSUME NEW first \in Cell, NEW last \in Cell, DwReadAddr(Range(first, last))
        PROVE  User!UNext
    <3>1. Range(first, last) \in SUBSET Cell
      BY DEF Range
    <3>2. QED
      BY <2>1, <3>1, DwReadAddrStep
  <2>2. ASSUME NEW first \in Cell, NEW last, NEW f \in Bytes(Range(first, last)),
               DwWriteAddr(f)
        PROVE  User!UNext
    <3>1. Range(first, last) \in SUBSET Cell
      BY DEF Range
    <3>2. QED
      BY <2>2, <3>1, DwWriteAddrStep DEF Bytes
  <2>3. ASSUME NEW r \in Reg, NEW f \in Bytes({r}), RegistersCommand(f)
        PROVE  User!UNext
    BY <2>3, RegistersCommandStep DEF Bytes
  <2>4. ASSUME NEW f \in Bytes(Packet), NEW a \in Addr, target_write_registers(f, a)
        PROVE  User!UNext
    BY <2>4, target_write_registersStep DEF Bytes
  <2>5. ASSUME DwFindPort \/ DwListDevices PROVE User!UNext
    BY <2>5 DEF DwFindPort, DwListDevices, User!UNext, User!Tracked
  <2>6. QED
    BY <1>1, <2>1, <2>2, <2>3, <2>4, <2>5, RestoreRegsStep, DwResetStep,
       DwReadFlashStep, DisplayAllRegistersStep, target_read_registersStep,
       PCommandStep, SettingCommandStep, SaveStep
       DEF Commands
<1>2. ASSUME Continue PROVE User!UNext
  BY <1>2, ReadPCStep, ReadRegsStep, SetPCStep, SetContextStep, GoStep,
     TraceStepStep, StoppedStep, WorkStep, RestoreStep
     DEF Continue
<1>3. ASSUME Fail \/ Exit \/ DwDisable PROVE User!UNext
  BY <1>3 DEF Fail, Exit, DwDisable, Ended, User!UNext, User!Tracked
<1>4. ASSUME UNCHANGED vars PROVE UNCHANGED User!uvars
  BY <1>4 DEF vars, settings, context, User!uvars, User!program,
     UserMem, UserPC, UserBP, UserTimers, Held
<1>5. QED
  BY <1>1, <1>2, <1>3, <1>4, TargetRunsStep DEF Next

(* While no transfer fails and dwdebug does not reconnect, its scratch use *)
(* of the target's registers, PC and breakpoint register is invisible to   *)
(* the program and to the user (DwGo, DwTrace, DwReconnect, DwReadAddr,    *)
(* DwWriteAddr, and every command that saves and restores registers), but  *)
(* for SREG, which work on flash and EEPROM spoils.                        *)
THEOREM Refinement == Spec => ImplementsUserProgram
<1>1. Init => User!UInit
  BY DEF Init, User!UInit
<1>2. IInv /\ IInv' /\ [Next]_vars => [User!UNext]_User!uvars
  BY StepImplements
<1>3. QED
  BY <1>1, <1>2, Invariance, PTL DEF Spec, ImplementsUserProgram, User!USpec
-----------------------------------------------------------------------------
(* What dwdebug can never disturb. *)

Others == Cell \ ((0 .. 4) \union (28 .. 31))

Flagging == {"flash", "readEEPROM", "writeEEPROM"}

KeepsOthers ==
  \A c \in Others :
    \/ mem'[c] \in {mem[c], sent[c]}
    \/ c = SREG /\ work \in Flagging

(* Only scratch registers and what is restored into them change, ... *)
LEMMA OthersOutside ==
  /\ Others \subseteq Cell
  /\ Others \intersect Cached = {} /\ Others \intersect Z = {}
  /\ \A w \in {"none", "flash", "readEEPROM", "writeEEPROM", "config"} :
       /\ Others \intersect Saves(w) = {}
       /\ \A c \in Others \intersect Uses(w) : c = SREG /\ w \in Flagging
BY Registers DEF Others, Cached, Z, Uses, Flags, Flagging

(* ... whatever command, phase or failure it is. *)
LEMMA StepKeepsOthers ==
  ASSUME IInv, Next, ~running, did'.kind \in {"none", "show", "g", "work"}
  PROVE  KeepsOthers
<1>1. ValuesOK
  BY DEF IInv, TypeOK
<1>2. mem \in [Cell -> Value] /\ sent \in [Cell -> Value]
  BY <1>1 DEF ValuesOK
<1>3. ASSUME mem' = mem \/ mem' = sent PROVE KeepsOthers
  BY <1>3 DEF KeepsOthers
<1>4. ASSUME Scratch(Z) PROVE KeepsOthers
  BY <1>1, <1>4, ScratchMem, Registers, OthersOutside DEF KeepsOthers
<1>5. ASSUME NEW next, RestoreRegs(next) PROVE KeepsOthers
  <2>1. \A c \in Cached : R[c] \in Value
    BY <1>1, Registers DEF ValuesOK
  <2>2. \A c \in Cell : mem'[c] = IF c \in Cached THEN R[c] ELSE mem[c]
    BY <1>2, <1>5, <2>1, OverPart DEF RestoreRegs
  <2>3. QED
    BY <2>2, OthersOutside DEF KeepsOthers
<1>6. ASSUME Work PROVE KeepsOthers
  <2>1. Uses(work) \in SUBSET Cell
    BY <1>1, Registers DEF Uses, Flags, ValuesOK
  <2>2. \A c \in Cell \ Uses(work) : mem'[c] = mem[c]
    BY <1>1, <1>6, <2>1, ScratchMem DEF Work
  <2>3. QED
    BY <1>1, <2>2, OthersOutside DEF KeepsOthers, ValuesOK
<1>7. ASSUME Restore PROVE KeepsOthers
  <2>1. Saves(work) \subseteq Reg
    BY <1>1, Registers DEF ValuesOK
  <2>2. \A c \in Saves(work) : R[c] \in Value
    BY <1>1, <2>1 DEF ValuesOK
  <2>3. \A c \in Cell : mem'[c] = IF c \in Saves(work) THEN R[c] ELSE mem[c]
    BY <1>2, <1>7, <2>2, OverPart DEF Restore
  <2>4. QED
    BY <1>1, <2>3, OthersOutside DEF KeepsOthers, ValuesOK
<1>8. ASSUME Commands PROVE KeepsOthers
  <2>1. ASSUME DwFindPort \/ DwListDevices PROVE KeepsOthers
    BY <1>3, <2>1 DEF DwFindPort, DwListDevices
  <2>2. ASSUME \/ DwReadFlash \/ DisplayAllRegisters \/ target_read_registers
               \/ \E cells : DwReadAddr(cells)
        PROVE  KeepsOthers
    BY <1>4, <2>2 DEF DwReadFlash, DisplayAllRegisters, target_read_registers, DwReadAddr
  <2>3. ASSUME \E w : Save(w) PROVE KeepsOthers
    BY <1>3, <2>3 DEF Save
  <2>4. ASSUME NEW f, DwWriteAddr(f) \/ RegistersCommand(f) PROVE FALSE
    BY <2>4 DEF DwWriteAddr, RegistersCommand, Request
  <2>5. ASSUME NEW f, NEW a, target_write_registers(f, a) PROVE FALSE
    BY <2>5 DEF target_write_registers, Request
  <2>6. ASSUME NEW a, PCommand(a) PROVE FALSE
    BY <2>6 DEF PCommand, Request
  <2>7. ASSUME NEW b, NEW t, SettingCommand(b, t) PROVE FALSE
    BY <2>7 DEF SettingCommand, Request
  <2>8. ASSUME DwReset PROVE FALSE
    BY <2>8 DEF DwReset, Plain, Request
  <2>9. QED
    BY <1>5, <1>8, <2>1, <2>2, <2>3, <2>4, <2>5, <2>6, <2>7, <2>8 DEF Commands
<1>9. ASSUME Continue PROVE KeepsOthers
  <2>1. ASSUME \/ ReadPC \/ ReadRegs \/ SetContext \/ Go \/ Stopped
               \/ \E here, next : SetPC(here, next)
        PROVE  KeepsOthers
    BY <1>3, <2>1 DEF ReadPC, ReadRegs, SetContext, Go, Stopped, SetPC
  <2>2. ASSUME TraceStep PROVE FALSE
    BY <2>2 DEF TraceStep, Plain, Request
  <2>3. QED
    BY <1>6, <1>7, <1>9, <2>1, <2>2 DEF Continue
<1>10. ASSUME Fail \/ Exit \/ DwDisable PROVE KeepsOthers
  BY <1>3, <1>10 DEF Fail, Exit, DwDisable
<1>11. ~TargetRuns
  BY DEF TargetRuns
<1>12. QED
  BY <1>8, <1>9, <1>10, <1>11 DEF Next

(* Whatever fails, and across reconnections, dwdebug costs the program at  *)
(* most r0..r4, r28..r31 and, working on flash or EEPROM, SREG.            *)
THEOREM OthersKept == Spec => OtherCellsKept
<1>1. IInv /\ [Next]_vars =>
        [~running /\ did'.kind \in {"none", "show", "g", "work"} =>
           \A c \in Cell \ ((0 .. 4) \union (28 .. 31)) :
             \/ mem'[c] \in {mem[c], sent[c]}
             \/ c = SREG /\ work \in {"flash", "readEEPROM", "writeEEPROM"}]_vars
  BY StepKeepsOthers DEF KeepsOthers, Others, Flagging
<1>2. QED
  BY <1>1, Invariance, PTL DEF Spec, OtherCellsKept
=============================================================================
