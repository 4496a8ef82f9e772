------------------------------ MODULE GdbServer ------------------------------
(***************************************************************************)
(* The server for gdb: gdbserver/GdbserverCommand.c, network.c, rsp.c and  *)
(* the part of target.c that decides when the program runs, with gdb at    *)
(* the other end of a connection that keeps what is sent in order.  gdb    *)
(* sends one request at a time and may interrupt a program that it has     *)
(* continued; a packet is two pieces, its text and its checksum.  gdb      *)
(* knows the breakpoints that it has set and that were acknowledged, any   *)
(* number of them; dwdebug has one.                                        *)
(***************************************************************************)
EXTENDS Integers, Sequences

CONSTANTS
  Addresses,   \* where breakpoints are set
  ReadLengths, \* the lengths of memory reads
  Failing,     \* which of these gdb sends: "", no text, and "bad", a read of memory that is not there
  IndexRange,  \* the values of an uint_fast8_t, 256 in the code
  MaxSessions, \* bound: gdbserver commands
  MaxRequests  \* bound: requests of gdb in all

\* What the constants are assumed to be.
GdbAssumption ==
  /\ Addresses \subseteq Nat /\ ReadLengths \subseteq Nat /\ Failing \subseteq {"", "bad"}
  /\ IndexRange \in Nat \ {0} /\ MaxSessions \in Nat /\ MaxRequests \in Nat

VARIABLES
  at,        \* the server: "console", "listen", "serve", "copy" or "go"
  net, back, \* what is on its way to the server, and to gdb
  gdb,       \* "off", "ready" or "waiting"
  asked,     \* the latest request
  set,       \* the breakpoints that gdb has set
  single,    \* has gdb had no more than one of them at a time?
  BP,        \* the breakpoint of dwdebug
  running,
  i, length, \* cmd_memory_read: its index, and how far it has to go
  listening, \* does a socket listen?
  sessions, requests

server   == <<at, BP, running, i, length, listening, sessions>>
vars     == <<at, net, back, gdb, asked, set, single, BP, running, i, length, listening, sessions, requests>>

Request(op, arg) == [op |-> op, arg |-> arg]
Requests ==
  {Request(op, 0) : op \in {"?", "c", "s", "g", "G", "M", "Z0", "z0", "k"}}
  \cup {Request("Z1", a) : a \in Addresses} \cup {Request("z1", a) : a \in Addresses}
  \cup {Request("m", n) : n \in ReadLengths}
  \cup {Request(op, 0) : op \in Failing}
Packet(r) == <<[text |-> "$", req |-> r], [text |-> "sum", req |-> r]>>
Mark(t)   == [text |-> t, req |-> Request("", 0)]
-----------------------------------------------------------------------------
(* gdb.                                                                    *)
Connect ==
  /\ at = "listen" /\ gdb = "off"
  /\ gdb' = "ready" /\ at' = "serve"
  /\ net' = <<>> /\ back' = <<>>
  /\ UNCHANGED <<asked, set, single, BP, running, i, length, listening, sessions, requests>>

Send ==
  /\ gdb = "ready" /\ requests < MaxRequests
  /\ \E r \in Requests :
       /\ net' = net \o Packet(r)
       /\ asked' = r
       /\ gdb' = IF r.op = "k" THEN "off" ELSE "waiting"
  /\ requests' = requests + 1
  /\ UNCHANGED <<server, back, set, single>>

Interrupt ==
  /\ gdb = "waiting" /\ asked.op = "c"
  /\ \A k \in DOMAIN net : net[k].text # "break"
  /\ net' = Append(net, Mark("break"))
  /\ UNCHANGED <<server, back, gdb, asked, set, single, requests>>

(* gdb's breakpoints, and whether there was one at most, behind a reply.   *)
SetAfter(reply) ==
  CASE reply = "OK" /\ asked.op = "Z1" -> set \cup {asked.arg}
    [] reply = "OK" /\ asked.op = "z1" -> set \ {asked.arg}
    [] OTHER                           -> set
SingleAfter(reply) ==
  single /\ (reply = "OK" /\ asked.op \in {"Z1", "z1"} => set \subseteq {asked.arg})

(* gdb takes an acknowledgement, or a reply, which it acknowledges. *)
Receive ==
  /\ gdb # "off" /\ back # <<>>
  /\ back' = Tail(back)
  /\ IF Head(back) = "+" THEN UNCHANGED <<net, gdb, set, single>>
     ELSE /\ gdb' = "ready"
          /\ net' = Append(net, Mark("+"))
          /\ set' = SetAfter(Head(back)) /\ single' = SingleAfter(Head(back))
  /\ UNCHANGED <<server, asked, requests>>

Disconnect ==
  /\ gdb # "off"
  /\ gdb' = "off"
  /\ net' = Append(net, Mark("eof"))
  /\ UNCHANGED <<server, back, asked, set, single, requests>>
-----------------------------------------------------------------------------
(* The server.                                                             *)

(* GdbserverCommand: the target is reset.  bind fails as long as a socket  *)
(* listens at that port, and the one of an earlier command still does.     *)
GdbserverCommand ==
  /\ at = "console" /\ gdb = "off" /\ sessions < MaxSessions
  /\ sessions' = sessions + 1
  /\ running' = FALSE
  /\ IF listening
     THEN UNCHANGED <<at, listening>>
     ELSE listening' = TRUE /\ at' = "listen"
  /\ UNCHANGED <<net, back, gdb, asked, set, single, BP, i, length, requests>>

(* read_command skips all that is not the beginning of a packet. *)
Skip ==
  /\ at = "serve" /\ net # <<>> /\ Head(net).text \notin {"$", "eof"}
  /\ net' = Tail(net)
  /\ UNCHANGED <<server, back, gdb, asked, set, single, requests>>

(* handle_client: Fail leaves the connection open. *)
GdbGone ==
  /\ at = "serve" /\ net # <<>> /\ Head(net).text = "eof"
  /\ at' = "console"
  /\ net' = Tail(net)
  /\ UNCHANGED <<back, gdb, asked, set, single, BP, running, i, length, listening, sessions, requests>>

\* A mutant: the checksum stays in the socket.
Arrived_TextOnly(r) ==
  /\ at = "serve" /\ net # <<>> /\ Head(net).text = "$"
  /\ r = Head(net).req
  /\ net' = Tail(net)

(* A whole packet: its text, and its checksum, which is read and dropped.  *)
Arrived(r) ==
  /\ at = "serve" /\ Len(net) > 1 /\ Head(net).text = "$"
  /\ r = Head(net).req
  /\ net' = SubSeq(net, 3, Len(net))

\* A mutant: the acknowledgement alone.
Reply_Ack(text) == back' = Append(back, "+")

Reply(text) == back' = back \o <<"+", text>>

(* handle_command: requests that are answered at once. *)
Answer(r) ==
  CASE r.op \in {"?", "s"}   -> "S00"
    [] r.op = "g"            -> "data"
    [] r.op \in {"G", "M", "Z1", "z1"} -> "OK"
    [] OTHER                 -> "empty"

\* A mutant: a Z of any other type falls through and clears the breakpoint.
Breakpoint_FallThrough(r) == IF r.op = "Z1" THEN r.arg ELSE IF r.op \in {"Z0", "z1"} THEN -1 ELSE BP

(* target_set_breakpoint and target_clear_breakpoint: a second breakpoint  *)
(* takes the place of the first, and z1 looks at no address.               *)
Breakpoint(r) == IF r.op = "Z1" THEN r.arg ELSE IF r.op = "z1" THEN -1 ELSE BP

HandleCommand ==
  \E r \in Requests :
    /\ Arrived(r)
    /\ r.op \notin {"c", "m", "k", "bad", ""}
    /\ Reply(Answer(r))
    /\ BP' = Breakpoint(r)
    /\ UNCHANGED <<at, gdb, asked, set, single, running, i, length, listening, sessions, requests>>

(* A packet without text ends the server like an error, and so does Fail   *)
(* in a handler: with an acknowledgement, and without a reply.             *)
Failure ==
  \E r \in Requests :
    /\ Arrived(r)
    /\ r.op \in {"", "bad"}
    /\ back' = Append(back, "+")
    /\ at' = "console"
    /\ UNCHANGED <<gdb, asked, set, single, BP, running, i, length, listening, sessions, requests>>

Kill ==
  \E r \in Requests :
    /\ Arrived(r)
    /\ r.op = "k"
    /\ back' = Append(back, "+")
    /\ at' = "console"
    /\ UNCHANGED <<gdb, asked, set, single, BP, running, i, length, listening, sessions, requests>>

(* cmd_memory_read: the bytes read are converted with an index of 8 bits.  *)
MemoryRead ==
  \E r \in Requests :
    /\ Arrived(r)
    /\ r.op = "m"
    /\ back' = Append(back, "+")
    /\ at' = "copy" /\ i' = 0 /\ length' = r.arg
    /\ UNCHANGED <<gdb, asked, set, single, BP, running, listening, sessions, requests>>

Copy ==
  /\ at = "copy"
  /\ IF i < length
     THEN i' = (i + 1) % IndexRange /\ UNCHANGED <<at, back>>
     ELSE at' = "serve" /\ back' = Append(back, "data") /\ UNCHANGED i
  /\ UNCHANGED <<net, gdb, asked, set, single, BP, running, length, listening, sessions, requests>>

\* A mutant: the program is said to have stopped when it has been started.
Continue_NoWait ==
  \E r \in Requests :
    /\ Arrived(r)
    /\ r.op = "c"
    /\ Reply("S00")
    /\ running' = TRUE
    /\ UNCHANGED <<at, gdb, asked, set, single, BP, i, length, listening, sessions, requests>>

(* target_continue. *)
Continue ==
  \E r \in Requests :
    /\ Arrived(r)
    /\ r.op = "c"
    /\ back' = Append(back, "+")
    /\ at' = "go" /\ running' = TRUE
    /\ UNCHANGED <<gdb, asked, set, single, BP, i, length, listening, sessions, requests>>

(* GoWaitLoop: the program reaches its breakpoint, or something arrives.   *)
Stop ==
  /\ at = "go"
  /\ at' = "serve" /\ running' = FALSE
  /\ back' = Append(back, "S00")
  /\ UNCHANGED <<net, gdb, asked, set, single, BP, i, length, listening, sessions, requests>>
DeviceBreak   == BP # -1 /\ Stop

\* A mutant: it is the console that is waited for.
KeyboardBreak_Console == FALSE /\ Stop

(* What it does with the input of the console is Console's GdbBreak.       *)
KeyboardBreak == net # <<>> /\ Stop

(* With no breakpoint left by the commands of the console.                 *)
Init ==
  /\ at = "console" /\ gdb = "off" /\ asked = Request("", 0)
  /\ net = <<>> /\ back = <<>>
  /\ set = {} /\ single = TRUE /\ BP = -1
  /\ running = FALSE /\ i = 0 /\ length = 0
  /\ listening = FALSE
  /\ sessions = 0 /\ requests = 0

Serve == Skip \/ GdbGone \/ HandleCommand \/ Failure \/ Kill \/ MemoryRead \/ Copy \/ Continue \/ DeviceBreak \/ KeyboardBreak

Next == Connect \/ Send \/ Interrupt \/ Receive \/ Disconnect \/ GdbserverCommand \/ Serve

Spec     == Init /\ [][Next]_vars
FairSpec == Spec /\ WF_vars(Serve) /\ WF_vars(Receive)
-----------------------------------------------------------------------------
TypeOK ==
  /\ at \in {"console", "listen", "serve", "copy", "go"}
  /\ net \in Seq([text : {"$", "sum", "+", "break", "eof"}, req : Requests \cup {Request("", 0)}])
  /\ back \in Seq({"+", "S00", "OK", "data", "empty"})
  /\ gdb \in {"off", "ready", "waiting"}
  /\ set \subseteq Addresses /\ BP \in Addresses \cup {-1}
  /\ {running, listening, single} \subseteq BOOLEAN
  /\ i \in 0..(IndexRange - 1) /\ length \in ReadLengths \cup {0}
  /\ sessions \in 0..MaxSessions /\ requests \in 0..MaxRequests

(* target_continue: while gdb takes the program for stopped, it is.        *)
StoppedForGdb == gdb = "ready" => ~running

(* read_command, GoWaitLoop: anything that can be read stops a running     *)
(* program, so it must be gdb's interrupt, or the end of the connection,   *)
(* and nothing that an earlier packet has left.                            *)
StoppedOnPurpose == at = "go" /\ at' = "serve" /\ BP = -1 => Head(net).text \in {"break", "eof"}

(* handle_command: dwdebug's breakpoint is one that gdb has set, whatever  *)
(* types of breakpoint gdb has tried, and while gdb has had one at a time  *)
(* it is that one.  (With more, dwdebug has the one set last, or none: all *)
(* of them are acknowledged.)                                              *)
SameBreakpoint ==
  gdb = "ready" /\ back = <<>> =>
    /\ BP # -1 => BP \in set
    /\ single => set = {BP} \ {-1}

(* target_continue, handle_command: while gdb takes the program for        *)
(* stopped, it is; dwdebug's breakpoint is one of gdb's, and gdb's only    *)
(* one if it has had one at a time, whatever types it has tried.           *)
GdbAgrees == TypeOK /\ StoppedForGdb /\ SameBreakpoint

(* read_command, GoWaitLoop: only its breakpoint, gdb's interrupt or the   *)
(* end of the connection stop a program, and no leftover of a packet.      *)
NoStray == [][StoppedOnPurpose]_vars

(* handle_command: each request but `c', and reads that are too long for   *)
(* cmd_memory_read's index, is answered, unless gdb leaves.                *)
Countable(r) == r.op # "m" \/ r.arg < IndexRange
Answered == gdb = "waiting" /\ asked.op # "c" /\ Countable(asked) ~> gdb # "waiting"

(* A program that runs is stopped by gdb's interrupt.                      *)
Interrupted == at = "go" /\ net # <<>> ~> at # "go"
=============================================================================
