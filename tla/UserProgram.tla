---------------------------- MODULE UserProgram -----------------------------
(***************************************************************************)
(* What a debugger promises about the program under test: as long as it    *)
(* keeps track (`up'), the program's registers, memory and PC change only  *)
(* when the user edits them, when the program itself executes, and by a    *)
(* reset; what is displayed is the program's state; and the program runs   *)
(* with the breakpoint and the timer setting that the user has chosen.     *)
(*                                                                         *)
(* The promise has a price, one register, Status: it is lost when flash or *)
(* EEPROM is worked on, and gdb's packets of registers do not have it.     *)
(*                                                                         *)
(* `did' says which request of the user a step carries out, so that no     *)
(* other step can pass for an edit or an instruction.                      *)
(***************************************************************************)
EXTENDS Integers

CONSTANT Status  \* the address of the status register

VARIABLES
  mem,      \* the program's registers and memory
  pc,       \* its program counter, as a byte address
  bp,       \* the breakpoint, or -1
  timers,   \* do timers count while the program runs?
  running,
  up,       \* does the debugger keep track of the program?
  did       \* the user's request that the latest step has carried out

program == <<mem, pc, bp, timers, running>>
uvars   == <<program, up, did>>

(* A request: the memory edited or displayed, and the settings changed.    *)
Request(kind, cells, pcs, bps, ts) ==
  [kind |-> kind, mem |-> cells, pc |-> pcs, bp |-> bps, timers |-> ts]
Plain(kind) == Request(kind, << >>, {}, {}, {})
Nothing     == Plain("none")

Over(f, g) == [c \in DOMAIN g |-> IF c \in DOMAIN f THEN f[c] ELSE g[c]]

(* The cells a request is about; "g" and "G" are gdb's packets.            *)
Meant ==
  DOMAIN did'.mem \ IF did'.kind \in {"g", "G"} THEN {Status} ELSE {}

(* The value chosen, if there is one. *)
Chosen(set, old) == IF set = {} THEN {old} ELSE set

UInit == ~up

Show ==
  /\ did'.kind \in {"show", "g"}
  /\ ~running
  /\ \A c \in Meant : did'.mem[c] = mem[c]
  /\ UNCHANGED program

Edit ==
  /\ did'.kind \in {"edit", "G"}
  /\ ~running
  /\ mem' = Over([c \in Meant |-> did'.mem[c]], mem)
  /\ pc' \in Chosen(did'.pc, pc)
  /\ bp' \in Chosen(did'.bp, bp)
  /\ timers' \in Chosen(did'.timers, timers)
  /\ UNCHANGED running

(* Flash or EEPROM is worked on, by instructions that set flags. *)
Work ==
  /\ did' = Plain("work")
  /\ ~running
  /\ DOMAIN mem' = DOMAIN mem
  /\ \A c \in DOMAIN mem \ {Status} : mem'[c] = mem[c]
  /\ UNCHANGED <<pc, bp, timers, running>>

(* One instruction, or a reset. *)
Step ==
  /\ did'.kind \in {"step", "reset"}
  /\ ~running
  /\ UNCHANGED <<bp, timers, running>>

Start ==
  /\ did' = Nothing
  /\ ~running /\ running'
  /\ UNCHANGED <<mem, pc, bp, timers>>

(* The program stops where the breakpoint is and nowhere else. *)
Run ==
  /\ did' = Nothing
  /\ running
  /\ running' = (pc' # bp)
  /\ UNCHANGED <<bp, timers>>

Break ==
  /\ did' = Nothing
  /\ running /\ ~running'
  /\ UNCHANGED <<mem, pc, bp, timers>>

Rest == did' = Nothing /\ UNCHANGED program

(* Nothing is promised while the debugger does not keep track. *)
Tracked == up /\ up'

UNext ==
  Tracked => Rest \/ Run \/ Show \/ Edit \/ Work \/ Step \/ Start \/ Break

USpec == UInit /\ [][UNext]_uvars
=============================================================================
