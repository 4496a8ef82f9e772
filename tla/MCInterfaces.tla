---------------------------- MODULE MCInterfaces ----------------------------
(***************************************************************************)
(* How dwdebug is reached by a user or by gdb, and how it reaches a        *)
(* target: its input, the gdb server, the choice of a port, the serial     *)
(* link and the search for its baud rate.  Of these GdbServer is the one   *)
(* this module extends.  Each is looked at by itself: a behaviour exercises*)
(* one of them, `part', and the others stay in an initial state.           *)
(***************************************************************************)
EXTENDS GdbServer

CONSTANTS
  Parts,                \* those of the parts below that a run exercises
  NoChip, Unsupported

VARIABLES
  part,
  pc, wants, flushed, buffered, rest, got, handle, baud, current, line, speed, awake, heard,
  faults,                                                                     \* SerialLink
  rate, limits, phase, baudrate, lowerbound, upperbound,                      \* BaudSearch
  port, CurrentPort, owner, stage, try, request, did, chosen, failures,       \* Ports
  ring, input, read, place, IsInteractive, edge, prompted, ran, failed, slips, overrun   \* Console

-----------------------------------------------------------------------------
(* A buffer of two bytes, two clock rates, and different things that go    *)
(* wrong.                                                                  *)
Faulty == INSTANCE SerialLink WITH
  Capacity <- 2, MaxSend <- 3, MaxBytes <- 5, MaxLine <- 2, Speeds <- {1, 2},
  Faults <- {"collision", "mute"}, MaxFaults <- 2, running <- awake

Lossless == INSTANCE SerialLink WITH
  Capacity <- 2, MaxSend <- 3, MaxBytes <- 5, MaxLine <- 2, Speeds <- {1, 2},
  Faults <- {"mute"}, MaxFaults <- 2, running <- awake

Working == INSTANCE SerialLink WITH
  Capacity <- 2, MaxSend <- 3, MaxBytes <- 5, MaxLine <- 2, Speeds <- {1, 2},
  Faults <- {}, MaxFaults <- 0, running <- awake

(* 128 clocks per bit: RC oscillators and the usual crystals.              *)
Clocks == {1000000, 1843200, 2000000, 3686400, 4000000, 4800000, 6000000, 6400000, 7372800, 8000000,
           9600000, 10000000, 11059200, 12000000, 14745600, 16000000, 18432000, 20000000}
ClockRates == {f \div 128 : f \in Clocks}

(* From the 320 kHz that FindBaudRate's break allows for to 20 MHz.        *)
AllRates == {500 * k : k \in 5..313}

FT232 == <<1, 200000>>          \* a port that takes every rate
Slow  == <<300, 115200>>        \* one that does not take the first that is tried
Fast  == <<9600, 200000>>       \* one that does not take the lower ones

Search == INSTANCE BaudSearch WITH
  Speeds <- AllRates \union ClockRates, Ports <- {FT232, Slow, Fast},
  speed <- rate, pc <- phase

(* An adapter without a chip, a second one and a serial port with theirs.  *)
Steady == INSTANCE Ports WITH
  PortCount <- 3, Kind <- <<"u", "u", "s">>, Index <- <<1, 2, 1>>, Chip <- <<NoChip, 5, 9>>,
  MaxFaults <- 0, faults <- failures, at <- stage, i <- try

(* A chip that is not known, none, and one that is; exchanges fail or come *)
(* short.                                                                  *)
Shaky == INSTANCE Ports WITH
  PortCount <- 3, Kind <- <<"u", "u", "s">>, Index <- <<1, 2, 1>>, Chip <- <<Unsupported, 5, 9>>,
  MaxFaults <- 2, faults <- failures, at <- stage, i <- try

(* An input buffer of eight characters, filled to four, and inputs that    *)
(* are longer than it, so that it wraps; commands, with their blanks, are  *)
(* shorter than half of it, and so are lines typed at a terminal.          *)
Sentences(alphabet, lengths) == UNION {[1..n -> alphabet] : n \in lengths}
InEachFour(s, class) == \A first \in 1..(Len(s) - 3) : \E k \in first..(first + 3) : s[k] \in class

(* A file of commands, with separators and blanks, read in pieces of any   *)
(* size.                                                                   *)
Script == INSTANCE Console WITH
  ILimit <- 8, NameMax <- 2, Tty <- FALSE, Edges <- {FALSE}, Preloads <- {<<>>},
  Inputs <- {s \in {t \o <<"c", ";", "c", "\n">> : t \in Sentences({"c", ";", "\n", " "}, {5})} : InEachFour(s, {"\n", ";"})},
  at <- place

(* Lines typed at a terminal, with failures, with programs that are run    *)
(* and stopped, also for gdb, and with PC at the end of flash.             *)
Typed == INSTANCE Console WITH
  ILimit <- 8, NameMax <- 2, Tty <- TRUE, Edges <- BOOLEAN,
  Preloads <- {<<>>, <<"c">>, <<"g", ";", "c">>, <<"f">>, <<"s">>},
  Inputs <- {s \in {t \o <<"c", "\n">> : t \in Sentences({"c", "f", "g", ";", "\n"}, {5})
                                             \cup Sentences({"c", "s", ";", "\n"}, {5})
                                             \cup Sentences({"c", "p", "1", "\n"}, {5})}
                  \cup {t \o <<"s", "\n", "c", "\n">> : t \in Sentences({"c", "\n"}, {7})} :
               InEachFour(s, {"\n"})},
  at <- place

(* Short files, with every end that they can have, that never reach the    *)
(* second round of the buffer.                                             *)
Short == INSTANCE Console WITH
  ILimit <- 8, NameMax <- 2, Tty <- FALSE, Edges <- {FALSE, TRUE},
  Preloads <- {<<>>, <<"c">>, <<"g", ";", "c">>, <<"f">>},
  Inputs <- Sentences({"c", "p", "1", ";", "\n"}, 0..4) \cup Sentences({"c", "s", "\n"}, 1..4),
  at <- place

(* gdb itself is GdbServer.  Here it sends requests that work, with reads  *)
(* of as many bytes as the index can count, and one more.                  *)
Served == INSTANCE GdbServer WITH
  Addresses <- {2, 4}, ReadLengths <- {0, 3, 4}, Failing <- {}, IndexRange <- 4,
  MaxSessions <- 1, MaxRequests <- 3

ASSUME InterfacesAssumption ==
  /\ Parts \subseteq {"faulty", "lossless", "working", "search", "steady", "shaky", "script", "typed",
                      "short", "gdb", "served"}
  /\ Faulty!SerialAssumption /\ Lossless!SerialAssumption /\ Working!SerialAssumption
  /\ Search!SearchAssumption
  /\ Steady!PortsAssumption /\ Shaky!PortsAssumption /\ Unsupported \notin {NoChip, 5, 9}
  /\ Script!ConsoleAssumption /\ Typed!ConsoleAssumption /\ Short!ConsoleAssumption
  /\ Script!ILimitAssumption /\ Script!ShortCommands /\ Typed!ShortCommands /\ Short!OneRound
  /\ GdbAssumption /\ Served!GdbAssumption
-----------------------------------------------------------------------------
serial == <<pc, wants, flushed, buffered, rest, got, handle, baud, current, line, speed, awake,
            heard, faults>>
search == <<rate, limits, phase, baudrate, lowerbound, upperbound>>
ports  == <<port, CurrentPort, owner, stage, try, request, did, chosen, failures>>
cons   == <<ring, input, read, place, IsInteractive, edge, prompted, ran, failed, slips, overrun>>
all    == <<part, serial, search, ports, cons, vars>>

InterfacesInit ==
  /\ part \in Parts
  /\ CASE part = "script" -> Script!Init
       [] part = "typed"  -> Typed!Init
       [] OTHER           -> Short!Init
  /\ part \notin {"script", "typed", "short"} => input = <<>>
  /\ Search!Init
  /\ part # "search" => rate = 2500 /\ limits = FT232
  /\ Steady!Init
  /\ Faulty!Init
  /\ part \notin {"faulty", "lossless", "working"} => speed = 1 /\ ~awake
  /\ Init

FaultyStep   == part = "faulty"   /\ Faulty!Next   /\ UNCHANGED <<part, search, ports, cons, vars>>
LosslessStep == part = "lossless" /\ Lossless!Next /\ UNCHANGED <<part, search, ports, cons, vars>>
WorkingStep  == part = "working"  /\ Working!Next  /\ UNCHANGED <<part, search, ports, cons, vars>>
SearchStep   == part = "search"   /\ Search!Next   /\ UNCHANGED <<part, serial, ports, cons, vars>>
SteadyStep   == part = "steady"   /\ Steady!Next   /\ UNCHANGED <<part, serial, search, cons, vars>>
ShakyStep    == part = "shaky"    /\ Shaky!Next    /\ UNCHANGED <<part, serial, search, cons, vars>>
ScriptStep   == part = "script"   /\ Script!Next   /\ UNCHANGED <<part, serial, search, ports, vars>>
TypedStep    == part = "typed"    /\ Typed!Next    /\ UNCHANGED <<part, serial, search, ports, vars>>
ShortStep    == part = "short"    /\ Short!Next    /\ UNCHANGED <<part, serial, search, ports, vars>>
GdbStep      == part = "gdb"      /\ Next          /\ UNCHANGED <<part, serial, search, ports, cons>>
ServedStep   == part = "served"   /\ Served!Next   /\ UNCHANGED <<part, serial, search, ports, cons>>

InterfacesNext ==
  \/ FaultyStep \/ LosslessStep \/ WorkingStep \/ SearchStep \/ SteadyStep \/ ShakyStep
  \/ ScriptStep \/ TypedStep \/ ShortStep \/ GdbStep \/ ServedStep

(* The fairness of the components' own specifications: each is one program *)
(* that nothing holds up, and gdb takes what it is sent.                   *)
InterfacesSpec ==
  /\ InterfacesInit /\ [][InterfacesNext]_all
  /\ WF_serial(part = "working" /\ Working!HostStep)
  /\ WF_search(part = "search" /\ Search!Next)
  /\ WF_cons(part = "short" /\ Short!Next)
  /\ WF_vars(part = "served" /\ Served!Serve) /\ WF_vars(part = "served" /\ Served!Receive)
-----------------------------------------------------------------------------
(* SerialReceive, SerialSendBytes, GoWaitLoop: whatever a failure has left *)
(* behind, an answer that is read answers all the bytes handed over, and a *)
(* breakpoint that is reported is one.  Without collisions no byte that is *)
(* sent is missed.                                                         *)
SerialTrue ==
  /\ Faulty!TypeOK /\ Faulty!FreshAnswer /\ Faulty!BreakpointTrue
  /\ part \in {"lossless", "working"} => Lossless!NoHole

(* Without collisions SerialLink is a link as DwPort.c assumes it: the     *)
(* abstract link moves with it, and stutters in the other parts.           *)
Link == INSTANCE DwLink WITH
  said   <- IF part = "lossless" THEN flushed + buffered + rest ELSE 0,
  heard  <- IF part = "lossless" THEN heard ELSE 0,
  reply  <- IF part = "lossless" THEN got ELSE 0,
  halted <- part = "lossless" => ~awake

(* The refinement: every step of the serial link is one of the abstract    *)
(* link, or none.                                                          *)
ImplementsLink == Link!LSpec

(* FindBaudRate, scaleby: a rate that is found is the target's to within 3 *)
(* percent, on a port that takes the rates near it.  For the usual clocks, *)
(* and on a port that takes all rates, the search does not step over the   *)
(* target.                                                                 *)
RateFound ==
  /\ Search!TypeOK
  /\ Search!RateFound
  /\ rate \in ClockRates /\ limits = FT232 => Search!NeverLost

(* ConnectPort, PortFail: a port that counts as connected is open, and at  *)
(* its chip's rate, also when exchanges fail.                              *)
PortsOpen == Shaky!TypeOK /\ (part = "shaky" => Shaky!Open)

(* ConnectFirstPort, DwListDevices, DwReconnect, GetDeviceType: while      *)
(* nothing fails a handler works with the port that was announced last,    *)
(* with the chip that PC and the registers were read from, and with that   *)
(* chip's own characteristics.  DwFindPort: what `device' connects to is   *)
(* the port that was asked for, also when exchanges fail.                  *)
RightTarget ==
  [][ /\ part = "steady" => Steady!AsAnnounced /\ Steady!OwnState /\ Steady!OwnType
      /\ part = "shaky"  => Shaky!AsRequested ]_all

(* BufferContiguousFree, Fill, SkipCh: until the end of the input has been *)
(* reached the input buffer is a queue, wherever it wraps, unless an       *)
(* interrupt of gdb has found an old end of line where nothing is; a       *)
(* terminal is asked for a new line only after a prompt, but behind an end *)
(* of line that an interrupt of gdb has skipped, or a prompt that failed;  *)
(* and at the end of the input there is nothing more to read.              *)
InputKept ==
  [][ /\ part = "script" => Script!IsQueue
      /\ part = "typed"  => Typed!IsQueue /\ Typed!AsksFirst
      /\ part = "short"  => Short!StaysEmpty ]_all

(* ParseAndHandleCommand, UI: every command that is handled is one of the  *)
(* input, with its whole name, and none is skipped, but for what is behind *)
(* a failed one on its line, or stops a program, or is behind an end of    *)
(* line that an interrupt of gdb has skipped, or a prompt that failed.     *)
EveryCommand ==
  /\ Short!TypeOK
  /\ part \in {"script", "typed"} => Typed!WholeNames /\ Typed!NoneLost

(* The comment of Fill says that a prompt is displayed before the next     *)
(* line is read.                                                           *)
PromptShown == [][part = "typed" => Typed!PromptsFirst]_all

(* Of the gdb server GdbAgrees and NoStray are those of GdbServer.         *)

(* SerialSend to SerialBreakAndSync: every operation of the serial link    *)
(* ends while the target answers, but a synchronisation with a target that *)
(* has another rate.  FindBaudRate ends, with a rate or with a failure, if *)
(* it comes to no rate that the port refuses.  UI: with the input at its   *)
(* end dwdebug quits.  handle_command: each request but `c', and a read    *)
(* too long for the index, is answered, unless gdb leaves.                 *)
(* GoWaitLoop: a program that runs is stopped by gdb's interrupt.          *)
AllEnd ==
  /\ part = "working" => Working!OperationsEnd
  /\ part = "search"  => Search!SearchEnds
  /\ part = "short"   => Short!Quits
  /\ part = "served"  => Served!Answered /\ Served!Interrupted
=============================================================================
