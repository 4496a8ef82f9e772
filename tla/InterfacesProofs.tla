-------------------------- MODULE InterfacesProofs ---------------------------
(***************************************************************************)
(* Proofs about the gdb server, for all breakpoints, lengths, failures and *)
(* numbers of sessions and requests; and that what the theorems of         *)
(* SerialLinkProofs and CommandProofs say for all values of their          *)
(* constants holds of the parts that MCInterfaces makes of SerialLink,     *)
(* Ports and Console.                                                      *)
(***************************************************************************)
EXTENDS MCInterfaces, SequenceTheorems, TLAPS

(* What is on its way to the server, and to gdb. *)
Marks   == {"$", "sum", "+", "break", "eof"}
Asks    == Requests \cup {Request("", 0)}
Pieces  == [text : Marks, req : Asks]
Replies == {"S00", "OK", "data", "empty"}

(* Nothing but acknowledgements; and one reply behind them. *)
Acks(s)     == \A k \in 1..Len(s) : s[k] = "+"
Ends(s)     == Len(s) > 0 /\ s[Len(s)] \in Replies /\ \A k \in 1..Len(s) - 1 : s[k] = "+"

(* All pieces are of these kinds. *)
Within(s, texts) == \A k \in 1..Len(s) : s[k].text \in texts

(* The packet of r is at place p: before it nothing that read_command      *)
(* would stop at, behind it nothing but interrupts and the end of the      *)
(* connection.                                                             *)
PacketAt(s, r, p) ==
  /\ p \in 1..Len(s) - 1
  /\ s[p] = [text |-> "$", req |-> r]
  /\ \A k \in 1..p - 1 : s[k].text \in {"+", "break"}
  /\ s[p + 1].text = "sum"
  /\ \A k \in p + 2..Len(s) : s[k].text \in {"break", "eof"}

(* A piece is added at the end. *)
LEMMA AppendMark ==
  ASSUME NEW s \in Seq(Pieces), NEW e \in Pieces
  PROVE  /\ Append(s, e) \in Seq(Pieces)
         /\ \A T : Within(s, T) /\ e.text \in T => Within(Append(s, e), T)
         /\ \A r, p : PacketAt(s, r, p) /\ e.text \in {"break", "eof"} => PacketAt(Append(s, e), r, p)
<1>1. /\ Append(s, e) \in Seq(Pieces) /\ Len(s) \in Nat
      /\ Len(Append(s, e)) = Len(s) + 1
      /\ \A k \in 1..Len(s) : Append(s, e)[k] = s[k]
      /\ Append(s, e)[Len(s) + 1] = e
  BY AppendProperties, LenProperties
<1>2. ASSUME NEW T, Within(s, T), e.text \in T PROVE Within(Append(s, e), T)
  BY <1>1, <1>2 DEF Within
<1>3. ASSUME NEW r, NEW p, PacketAt(s, r, p), e.text \in {"break", "eof"}
      PROVE  PacketAt(Append(s, e), r, p)
  BY <1>1, <1>3 DEF PacketAt
<1>4. QED BY <1>1, <1>2, <1>3

(* The first piece is taken. *)
LEMMA TailMark ==
  ASSUME NEW s \in Seq(Pieces), s # <<>>
  PROVE  /\ Tail(s) \in Seq(Pieces) /\ Head(s) = s[1] /\ Head(s) \in Pieces /\ Len(s) \in Nat \ {0}
         /\ \A T : Within(s, T) => Within(Tail(s), T) /\ Head(s).text \in T
         /\ \A r, p : PacketAt(s, r, p) /\ Head(s).text # "$" => PacketAt(Tail(s), r, p - 1) 
         /\ \A r, p : PacketAt(s, r, p) => Head(s).text # "eof"
<1>1. /\ Tail(s) \in Seq(Pieces) /\ Len(s) \in Nat /\ Len(s) > 0
      /\ Len(Tail(s)) = Len(s) - 1 /\ Head(s) = s[1] /\ Head(s) \in Pieces
      /\ \A k \in 1..Len(Tail(s)) : Tail(s)[k] = s[k + 1]
  BY HeadTailProperties, LenProperties, EmptySeq
<1>2. ASSUME NEW T, Within(s, T) PROVE Within(Tail(s), T) /\ Head(s).text \in T
  BY <1>1, <1>2 DEF Within
<1>3. ASSUME NEW r, NEW p, PacketAt(s, r, p), Head(s).text # "$"
      PROVE  PacketAt(Tail(s), r, p - 1)
  BY <1>1, <1>3 DEF PacketAt
<1>4. ASSUME NEW r, NEW p, PacketAt(s, r, p)
      PROVE  Head(s).text # "eof"
  BY <1>1, <1>4 DEF PacketAt
<1>5. QED BY <1>1, <1>2, <1>3, <1>4

(* What SubSeq returns, and what two sequences make. *)
LEMMA Slice ==
  ASSUME NEW S, NEW s \in Seq(S), NEW m \in 1..Len(s) + 1, NEW n \in m - 1..Len(s)
  PROVE  /\ SubSeq(s, m, n) \in Seq(S) /\ Len(SubSeq(s, m, n)) = n - m + 1
         /\ \A k \in 1..n - m + 1 : SubSeq(s, m, n)[k] = s[m + k - 1]
OBVIOUS

(* A sequence without its first two. *)
LEMMA Rest ==
  ASSUME NEW S, NEW s \in Seq(S), Len(s) > 1
  PROVE  /\ SubSeq(s, 3, Len(s)) \in Seq(S) /\ Len(SubSeq(s, 3, Len(s))) = Len(s) - 3 + 1
         /\ \A k \in 1..Len(s) - 3 + 1 : SubSeq(s, 3, Len(s))[k] = s[3 + k - 1]
<1>1. 3 \in 1..Len(s) + 1 /\ Len(s) \in 3 - 1..Len(s)
  OBVIOUS
<1>2. QED BY <1>1, Slice, Zenon

(* Two sequences, one behind the other. *)
LEMMA Joined ==
  ASSUME NEW S, NEW s \in Seq(S), NEW t \in Seq(S)
  PROVE  /\ s \o t \in Seq(S) /\ Len(s) \in Nat /\ Len(s \o t) = Len(s) + Len(t)
         /\ \A k \in 1..Len(s) : (s \o t)[k] = s[k]
         /\ \A k \in 1..Len(t) : (s \o t)[Len(s) + k] = t[k]
BY ConcatProperties, LenProperties

(* A sequence of two. *)
LEMMA Pair ==
  ASSUME NEW S, NEW a \in S, NEW b \in S
  PROVE  <<a, b>> \in Seq(S) /\ Len(<<a, b>>) = 2 /\ <<a, b>>[1] = a /\ <<a, b>>[2] = b
OBVIOUS

(* A packet that is read whole is the one that is there, and leaves        *)
(* nothing but interrupts and the end of the connection.                   *)
LEMMA PacketTaken ==
  ASSUME NEW s \in Seq(Pieces), NEW r, NEW p, PacketAt(s, r, p), Len(s) > 1, Head(s).text = "$"
  PROVE  /\ Head(s).req = r
         /\ SubSeq(s, 3, Len(s)) \in Seq(Pieces)
         /\ Within(SubSeq(s, 3, Len(s)), {"break", "eof"})
         /\ \A T : Within(s, T) => Within(SubSeq(s, 3, Len(s)), T)
<1>1. /\ Len(s) \in Nat /\ \A k \in 1..Len(s) : s[k] \in Pieces
      /\ Head(s) = s[1]
  BY LenProperties, ElementOfSeq
<1>2. p = 1
  BY <1>1 DEF PacketAt
<1> DEFINE t == SubSeq(s, 3, Len(s))
<1>3. /\ t \in Seq(Pieces)
      /\ Len(t) = Len(s) - 2
      /\ \A k \in 1..Len(t) : t[k] = s[k + 2]
  <2>2. /\ t \in Seq(Pieces) /\ Len(t) = Len(s) - 3 + 1
        /\ \A k \in 1..Len(s) - 3 + 1 : t[k] = s[3 + k - 1]
    BY Rest, Zenon
  <2> HIDE DEF t
  <2>3. QED BY <1>1, <2>2
<1> HIDE DEF t
<1>4. Head(s).req = r /\ Within(t, {"break", "eof"})
  <2>1. /\ s[1] = [text |-> "$", req |-> r]
        /\ \A k \in 3..Len(s) : s[k].text \in {"break", "eof"}
    BY <1>2 DEF PacketAt
  <2>2. \A k \in 1..Len(t) : k + 2 \in 3..Len(s)
    BY <1>1, <1>3
  <2>3. Head(s).req = r
    BY <1>1, <2>1
  <2>4. Within(t, {"break", "eof"})
    BY <1>3, <2>1, <2>2 DEF Within
  <2>5. QED BY <2>3, <2>4
<1>5. ASSUME NEW T, Within(s, T) PROVE Within(t, T)
  BY <1>1, <1>3, <1>5 DEF Within
<1>6. QED BY <1>3, <1>4, <1>5 DEF t

(* A request is sent. *)
LEMMA PacketSent ==
  ASSUME NEW s \in Seq(Pieces), Within(s, {"+", "break"}), NEW r \in Requests
  PROVE  /\ s \o Packet(r) \in Seq(Pieces)
         /\ PacketAt(s \o Packet(r), r, Len(s) + 1)
         /\ Within(s \o Packet(r), Marks \ {"eof"})
<1> DEFINE t == Packet(r)
<1>1. /\ t \in Seq(Pieces) /\ Len(t) = 2
      /\ t[1] = [text |-> "$", req |-> r] /\ t[2] = [text |-> "sum", req |-> r]
  <2>1. [text |-> "$", req |-> r] \in Pieces /\ [text |-> "sum", req |-> r] \in Pieces
    BY DEF Pieces, Marks, Asks
  <2>2. QED BY <2>1, Pair DEF Packet
<1> HIDE DEF t
<1>2. /\ s \o t \in Seq(Pieces) /\ Len(s) \in Nat /\ Len(s \o t) = Len(s) + 2
      /\ \A k \in 1..Len(s) : (s \o t)[k] = s[k]
      /\ (s \o t)[Len(s) + 1] = t[1] /\ (s \o t)[Len(s) + 2] = t[2]
  <2>1. /\ s \o t \in Seq(Pieces) /\ Len(s) \in Nat /\ Len(s \o t) = Len(s) + Len(t)
        /\ \A k \in 1..Len(s) : (s \o t)[k] = s[k]
        /\ \A k \in 1..Len(t) : (s \o t)[Len(s) + k] = t[k]
    <3>1. t \in Seq(Pieces)
      BY <1>1
    <3>2. QED BY <3>1, Joined
  <2>2. QED BY <1>1, <2>1
<1>3. PacketAt(s \o t, r, Len(s) + 1)
  BY <1>1, <1>2 DEF PacketAt, Within
<1>4. Within(s \o t, Marks \ {"eof"})
  <2>1. \A k \in 1..Len(s) + 2 : k \in 1..Len(s) \/ k = Len(s) + 1 \/ k = Len(s) + 2
    BY <1>2
  <2>2. \A k \in 1..Len(s) + 2 : (s \o t)[k].text \in {"+", "break", "$", "sum"}
    BY <1>1, <1>2, <2>1 DEF Within
  <2>3. QED BY <1>2, <2>2 DEF Within, Marks
<1>5. QED BY <1>2, <1>3, <1>4 DEF t

Signs == {"+"} \cup Replies

(* An acknowledgement is sent. *)
LEMMA AckAdded ==
  ASSUME NEW s \in Seq(Signs)
  PROVE  Append(s, "+") \in Seq(Signs) /\ (Acks(s) => Acks(Append(s, "+")))
<1>1. /\ Append(s, "+") \in Seq(Signs) /\ Len(s) \in Nat
      /\ Len(Append(s, "+")) = Len(s) + 1
      /\ \A k \in 1..Len(s) : Append(s, "+")[k] = s[k]
      /\ Append(s, "+")[Len(s) + 1] = "+"
  BY AppendProperties, LenProperties DEF Signs
<1>2. QED BY <1>1 DEF Acks

(* A reply is sent. *)
LEMMA ReplyAdded ==
  ASSUME NEW s \in Seq(Signs), NEW t \in Replies
  PROVE  /\ Append(s, t) \in Seq(Signs)
         /\ Acks(s) => Ends(Append(s, t)) /\ Append(s, t)[Len(Append(s, t))] = t
<1>1. /\ Append(s, t) \in Seq(Signs) /\ Len(s) \in Nat
      /\ Len(Append(s, t)) = Len(s) + 1
      /\ \A k \in 1..Len(s) : Append(s, t)[k] = s[k]
      /\ Append(s, t)[Len(s) + 1] = t
  BY AppendProperties, LenProperties DEF Signs
<1>2. QED BY <1>1 DEF Acks, Ends

(* Both are sent. *)
LEMMA AnswerAdded ==
  ASSUME NEW s \in Seq(Signs), NEW t \in Replies
  PROVE  /\ s \o <<"+", t>> \in Seq(Signs)
         /\ Acks(s) => /\ Ends(s \o <<"+", t>>)
                      /\ (s \o <<"+", t>>)[Len(s \o <<"+", t>>)] = t
<1> DEFINE u == <<"+", t>>
<1>1. /\ u \in Seq(Signs) /\ Len(u) = 2 /\ u[1] = "+" /\ u[2] = t
  BY Pair DEF Signs
<1> HIDE DEF u
<1>2. /\ s \o u \in Seq(Signs) /\ Len(s) \in Nat /\ Len(s \o u) = Len(s) + 2
      /\ \A k \in 1..Len(s) : (s \o u)[k] = s[k]
      /\ (s \o u)[Len(s) + 1] = "+" /\ (s \o u)[Len(s) + 2] = t
  <2>1. /\ s \o u \in Seq(Signs) /\ Len(s) \in Nat /\ Len(s \o u) = Len(s) + Len(u)
        /\ \A k \in 1..Len(s) : (s \o u)[k] = s[k]
        /\ \A k \in 1..Len(u) : (s \o u)[Len(s) + k] = u[k]
    <3>1. u \in Seq(Signs)
      BY <1>1
    <3>2. QED BY <3>1, Joined
  <2>2. QED BY <1>1, <2>1
<1>3. Acks(s) => Ends(s \o u) /\ (s \o u)[Len(s \o u)] = t
  <2>1. \A k \in 1..Len(s \o u) - 1 : k \in 1..Len(s) \/ k = Len(s) + 1
    BY <1>2
  <2>2. QED BY <1>2, <2>1 DEF Acks, Ends
<1>4. QED BY <1>2, <1>3 DEF u

(* gdb takes the first of what was sent: an acknowledgement, or the one    *)
(* reply, which is the last.                                               *)
LEMMA SignTaken ==
  ASSUME NEW s \in Seq(Signs), s # <<>>
  PROVE  /\ Tail(s) \in Seq(Signs) /\ Head(s) \in Signs
         /\ Acks(s) => Head(s) = "+" /\ Acks(Tail(s))
         /\ Ends(s) /\ Head(s) = "+" => Ends(Tail(s)) /\ Tail(s)[Len(Tail(s))] = s[Len(s)]
         /\ Ends(s) /\ Head(s) # "+" => Tail(s) = <<>> /\ Head(s) = s[Len(s)]
<1>1. /\ Tail(s) \in Seq(Signs) /\ Len(s) \in Nat /\ Len(s) > 0
      /\ Len(Tail(s)) = Len(s) - 1 /\ Head(s) = s[1] /\ Head(s) \in Signs
      /\ \A k \in 1..Len(Tail(s)) : Tail(s)[k] = s[k + 1]
  BY HeadTailProperties, LenProperties, EmptySeq
<1>2. Acks(s) => Head(s) = "+" /\ Acks(Tail(s))
  BY <1>1 DEF Acks
<1>3. Ends(s) /\ Head(s) = "+" => Ends(Tail(s)) /\ Tail(s)[Len(Tail(s))] = s[Len(s)]
  <2>1. Ends(s) /\ Head(s) = "+" => Len(s) > 1
    BY <1>1 DEF Ends, Replies
  <2>2. QED BY <1>1, <2>1 DEF Ends
<1>4. Ends(s) /\ Head(s) # "+" => Tail(s) = <<>> /\ Head(s) = s[Len(s)]
  <2>1. Ends(s) /\ Head(s) # "+" => Len(s) = 1
    BY <1>1 DEF Ends
  <2>2. Len(Tail(s)) = 0 => Tail(s) = <<>>
    BY <1>1, EmptySeq
  <2>3. QED BY <1>1, <2>1, <2>2
<1>5. QED BY <1>1, <1>2, <1>3, <1>4
-----------------------------------------------------------------------------
(* What may stop a program; and a connection without a packet. *)
Stops(s)     == Within(s, {"break", "eof"})
NoPacket(s)  == Within(s, {"+", "break", "eof"})

(* What gdb and dwdebug agree on, about the breakpoint; and what they will *)
(* agree on when gdb takes this reply.                                     *)
Fits(bps, one)   == (BP # -1 => BP \in bps) /\ (one => bps = {BP} \ {-1})
Same             == Fits(set, single)
SameAfter(reply) == Fits(SetAfter(reply), SingleAfter(reply))

(* Where a request is that gdb waits for: on its way, being handled,       *)
(* dropped by a server that has ended, or answered.                        *)
Asking  == at = "serve" /\ (\E p : PacketAt(net, asked, p)) /\ Acks(back) /\ Same
Busy    == at \in {"copy", "go"} /\ Acks(back) /\ Same
Dead    == at = "console" /\ Acks(back)
Replied == at = "serve" /\ Stops(net) /\ Ends(back) /\ SameAfter(back[Len(back)])

(* The types, variable by variable. *)
GdbTyped ==
  /\ at \in {"console", "listen", "serve", "copy", "go"}
  /\ net \in Seq(Pieces) /\ back \in Seq(Signs)
  /\ gdb \in {"off", "ready", "waiting"} /\ asked \in Asks
  /\ set \subseteq Addresses /\ single \in BOOLEAN /\ BP \in Addresses \cup {-1}
  /\ running \in BOOLEAN /\ listening \in BOOLEAN
  /\ i \in 0..(IndexRange - 1) /\ length \in ReadLengths \cup {0}
  /\ sessions \in 0..MaxSessions /\ requests \in 0..MaxRequests

(* The program runs while the server waits for it and only then; a server  *)
(* that listens, or has never, has no client.                              *)
ServerState ==
  /\ running <=> at = "go"
  /\ at = "listen" => gdb = "off" /\ Same
  /\ ~listening => at = "console" /\ gdb = "off" /\ Same

(* At most one packet is on its way, of the latest request; none while     *)
(* the program runs; and no end of the connection before gdb has left.     *)
Connection ==
  /\ NoPacket(net) \/ \E p : PacketAt(net, asked, p)
  /\ at \in {"copy", "go"} => Stops(net)
  /\ gdb # "off" => Within(net, Marks \ {"eof"})

(* While gdb waits for nothing there is nothing on its way that matters. *)
AtRest  == gdb = "ready" => at = "serve" /\ NoPacket(net) /\ back = <<>> /\ Same

(* While gdb waits its request is in one of four places. *)
Pending == gdb = "waiting" => Asking \/ Busy \/ Dead \/ Replied

(* The inductive invariant. StoppedForGdb and SameBreakpoint say what gdb  *)
(* and dwdebug agree on when gdb is at rest; Pending is how that comes     *)
(* about, and Connection what keeps leftovers of a packet from stopping a  *)
(* program.                                                                *)
GdbInv == GdbTyped /\ ServerState /\ Connection /\ AtRest /\ Pending

(* The argument of a breakpoint is an address, and that of a read a        *)
(* length.                                                                 *)
LEMMA Asked ==
  ASSUME GdbAssumption, NEW r \in Asks
  PROVE  /\ r.op \in {"Z1", "z1"} => r.arg \in Addresses
         /\ r.op = "m" => r.arg \in ReadLengths
<1>1. CASE \E op \in {"?", "c", "s", "g", "G", "M", "Z0", "z0", "k", "", "bad"} : r = Request(op, 0)
  <2>1. PICK op \in {"?", "c", "s", "g", "G", "M", "Z0", "z0", "k", "", "bad"} : r = Request(op, 0)
    BY <1>1
  <2>2. r.op = op
    BY <2>1 DEF Request
  <2>3. op # "Z1" /\ op # "z1" /\ op # "m"
    BY <2>1
  <2>4. QED BY <2>2, <2>3
<1>2. CASE \E a \in Addresses : r = Request("Z1", a) \/ r = Request("z1", a)
  BY <1>2 DEF Request
<1>3. CASE \E n \in ReadLengths : r = Request("m", n)
  BY <1>3 DEF Request
<1>4. \A op \in Failing : op \in {"", "bad"}
  BY DEF GdbAssumption
<1>5. CASE \E op \in Failing : r = Request(op, 0)
  <2>1. PICK op \in Failing : r = Request(op, 0)
    BY <1>5
  <2>2. r.op = op /\ op \in {"", "bad"}
    BY <1>4, <2>1 DEF Request
  <2>3. op # "Z1" /\ op # "z1" /\ op # "m"
    BY <2>2
  <2>4. QED BY <2>2, <2>3
<1>6. \/ \E op \in {"?", "c", "s", "g", "G", "M", "Z0", "z0", "k", "", "bad"} : r = Request(op, 0)
      \/ \E a \in Addresses : r = Request("Z1", a) \/ r = Request("z1", a)
      \/ \E n \in ReadLengths : r = Request("m", n)
      \/ \E op \in Failing : r = Request(op, 0)
  <2>1. CASE r \in {Request(op, 0) : op \in {"?", "c", "s", "g", "G", "M", "Z0", "z0", "k"}}
    BY <2>1
  <2>2. CASE r \in {Request("Z1", a) : a \in Addresses}
    BY <2>2
  <2>z. CASE r \in {Request("z1", a) : a \in Addresses}
    BY <2>z
  <2>3. CASE r \in {Request("m", n) : n \in ReadLengths}
    BY <2>3
  <2>4. CASE r \in {Request(op, 0) : op \in Failing}
    BY <2>4
  <2>5. CASE r = Request("", 0)
    BY <2>5
  <2>6. QED BY <2>1, <2>2, <2>z, <2>3, <2>4, <2>5, Zenon DEF Asks, Requests
<1>7. QED BY <1>1, <1>2, <1>3, <1>5, <1>6

(* Acknowledgements, interrupts and the end of the connection are pieces. *)
LEMMA MarkPiece == ASSUME NEW t \in Marks PROVE Mark(t) \in Pieces /\ Mark(t).text = t
BY DEF Mark, Pieces, Asks

(* An empty connection. *)
LEMMA EmptyNet ==
  /\ <<>> \in Seq(Pieces) /\ <<>> \in Seq(Signs) /\ \A T : Within(<<>>, T)
BY DEF Within

(* What a packet that has arrived leaves. *)
LEMMA Arrival ==
  ASSUME GdbInv, NEW r \in Requests, Arrived(r)
  PROVE  /\ r = asked /\ at = "serve"
         /\ net' \in Seq(Pieces) /\ Stops(net') /\ NoPacket(net')
         /\ gdb # "off" => Within(net', Marks \ {"eof"})
         /\ gdb # "off" => gdb = "waiting" /\ Acks(back) /\ Same
<1>1. /\ net \in Seq(Pieces) /\ Len(net) > 1 /\ Head(net).text = "$"
      /\ net' = SubSeq(net, 3, Len(net)) /\ r = Head(net).req /\ at = "serve"
  BY DEF GdbInv, GdbTyped, Arrived
<1>2. ~Within(net, {"+", "break", "eof"})
  <2>1. net # <<>>
    BY <1>1
  <2>2. QED BY <1>1, <2>1, TailMark
<1>3. PICK p : PacketAt(net, asked, p)
  BY <1>2 DEF GdbInv, Connection, NoPacket
<1>4. /\ r = asked /\ net' \in Seq(Pieces) /\ Stops(net')
      /\ \A T : Within(net, T) => Within(net', T)
  BY <1>1, <1>3, PacketTaken DEF Stops
<1>5. NoPacket(net')
  BY <1>4 DEF Stops, NoPacket, Within
<1>6. gdb # "off" => Within(net', Marks \ {"eof"})
  BY <1>4 DEF GdbInv, Connection
<1>7. gdb = "ready" => FALSE
  BY <1>2 DEF GdbInv, AtRest, NoPacket, Same, Fits
<1>8. gdb \in {"off", "ready", "waiting"}
  BY DEF GdbInv, GdbTyped
<1>9. ~Stops(net)
  <2>1. net # <<>>
    BY <1>1
  <2>2. QED BY <1>1, <2>1, TailMark DEF Stops
<1>10. gdb # "off" => gdb = "waiting" /\ Acks(back) /\ Same
  BY <1>1, <1>7, <1>8, <1>9 DEF GdbInv, Pending, Asking, Busy, Dead, Replied, Same, Fits
<1>11. QED BY <1>1, <1>4, <1>5, <1>6, <1>10
-----------------------------------------------------------------------------
(* What the assumptions say of the bounds. *)
LEMMA Bounds ==
  ASSUME GdbAssumption
  PROVE  IndexRange \in Nat \ {0} /\ MaxSessions \in Nat /\ MaxRequests \in Nat
BY Zenon DEF GdbAssumption

(* The initial states have the invariant. *)
LEMMA GdbStart == ASSUME GdbAssumption PROVE Init => GdbInv
<1> SUFFICES ASSUME Init PROVE GdbInv
  OBVIOUS
<1>1. GdbTyped
  <2>1. i \in 0..(IndexRange - 1) /\ sessions \in 0..MaxSessions /\ requests \in 0..MaxRequests
    <3>1. i = 0 /\ sessions = 0 /\ requests = 0
      BY DEF Init
    <3>2. QED BY <3>1, Bounds
  <2>2. net \in Seq(Pieces) /\ back \in Seq(Signs) /\ asked \in Asks
    BY EmptyNet DEF Init, Asks
  <2>3. QED BY <2>1, <2>2 DEF Init, GdbTyped
<1>2. ServerState /\ Connection /\ AtRest /\ Pending
  BY EmptyNet DEF Init, ServerState, Connection, AtRest, Pending, NoPacket, Same, Fits
<1>3. QED BY <1>1, <1>2 DEF GdbInv

(* A connection begins empty, with gdb and dwdebug agreeing on the         *)
(* breakpoint.                                                             *)
LEMMA ConnectKept == ASSUME GdbInv, Connect PROVE GdbInv'
<1>1. GdbTyped'
  BY EmptyNet DEF GdbInv, GdbTyped, Connect
<1>2. ServerState'
  BY DEF GdbInv, Connect, ServerState, Same, Fits
<1>3. Connection'
  BY EmptyNet DEF Connect, Connection, NoPacket
<1>4. AtRest' /\ Pending'
  BY EmptyNet DEF Connect, GdbInv, ServerState, AtRest, Pending, NoPacket, Same, Fits
<1>5. QED BY <1>1, <1>2, <1>3, <1>4 DEF GdbInv

(* A request is on its way. *)
LEMMA SendKept == ASSUME GdbAssumption, GdbInv, Send PROVE GdbInv'
<1>1. PICK r \in Requests :
        net' = net \o Packet(r) /\ asked' = r /\ gdb' = IF r.op = "k" THEN "off" ELSE "waiting"
  BY DEF Send
<1>2. Within(net, {"+", "break"}) /\ net \in Seq(Pieces) /\ at = "serve" /\ back = <<>> /\ Same
  BY DEF Send, GdbInv, GdbTyped, Connection, AtRest, NoPacket, Within, Marks, Same, Fits
<1>3. /\ net' \in Seq(Pieces) /\ PacketAt(net', asked', Len(net) + 1)
      /\ Within(net', Marks \ {"eof"})
  BY <1>1, <1>2, PacketSent
<1>4. GdbTyped'
  <2>1. requests' \in 0..MaxRequests
    BY Bounds DEF GdbInv, GdbTyped, Send
  <2>2. asked' \in Asks /\ gdb' \in {"off", "ready", "waiting"}
    BY <1>1 DEF Asks
  <2>3. QED BY <1>3, <2>1, <2>2 DEF GdbInv, GdbTyped, Send, server
<1>5. ServerState'
  BY <1>1 DEF GdbInv, ServerState, Send, server, Same, Fits
<1>6. Connection'
  BY <1>1, <1>2, <1>3 DEF Connection, Send, server
<1>7. AtRest'
  BY <1>1 DEF AtRest, Same, Fits
<1>8. Acks(back')
  BY <1>2 DEF Send, Acks
<1>9. Pending'
  BY <1>2, <1>3, <1>8 DEF Pending, Asking, Send, server, Same, Fits
<1>10. QED BY <1>4, <1>5, <1>6, <1>7, <1>9 DEF GdbInv

(* An interrupt disturbs no packet. *)
LEMMA InterruptKept == ASSUME GdbInv, Interrupt PROVE GdbInv'
<1> DEFINE e == Mark("break")
<1>1. e \in Pieces /\ e.text = "break" /\ net \in Seq(Pieces)
  BY MarkPiece DEF Marks, GdbInv, GdbTyped
<1> HIDE DEF e
<1>2. net' = Append(net, e) /\ gdb = "waiting"
  BY DEF Interrupt, e
<1>3. /\ net' \in Seq(Pieces)
      /\ \A T : Within(net, T) /\ "break" \in T => Within(net', T)
      /\ \A r, p : PacketAt(net, r, p) => PacketAt(net', r, p)
  BY <1>1, <1>2, AppendMark
<1>4. GdbTyped'
  BY <1>3 DEF GdbInv, GdbTyped, Interrupt, server
<1>5. ServerState' /\ AtRest'
  BY <1>2 DEF GdbInv, ServerState, AtRest, Interrupt, server, Same, Fits
<1>6. Connection'
  BY <1>3 DEF GdbInv, Connection, NoPacket, Stops, Interrupt, server, Marks
<1>7. Pending'
  <2>1. CASE Asking
    BY <1>3, <2>1 DEF Pending, Asking, Interrupt, server, Same, Fits
  <2>2. CASE Busy \/ Dead
    BY <2>2 DEF Pending, Busy, Dead, Interrupt, server, Same, Fits
  <2>3. CASE Replied
    BY <1>3, <2>3 DEF Pending, Replied, Stops, SameAfter, Interrupt, server, SetAfter, SingleAfter, Same, Fits
  <2>4. QED BY <1>2, <2>1, <2>2, <2>3 DEF GdbInv, Pending
<1>8. QED BY <1>4, <1>5, <1>6, <1>7 DEF GdbInv

(* gdb takes an acknowledgement, or the reply, after which both agree. *)
LEMMA ReceiveKept == ASSUME GdbAssumption, GdbInv, Receive PROVE GdbInv'
<1>1. back \in Seq(Signs) /\ net \in Seq(Pieces) /\ back # <<>> /\ back' = Tail(back)
  BY DEF GdbInv, GdbTyped, Receive
<1>2. /\ back' \in Seq(Signs) /\ Head(back) \in Signs
      /\ Acks(back) => Head(back) = "+" /\ Acks(back')
      /\ Ends(back) /\ Head(back) = "+" => Ends(back') /\ back'[Len(back')] = back[Len(back)]
      /\ Ends(back) /\ Head(back) # "+" => back' = <<>> /\ Head(back) = back[Len(back)]
  BY <1>1, SignTaken
<1>3. gdb = "waiting"
  BY <1>1 DEF GdbInv, GdbTyped, AtRest, Receive, Same, Fits
<1>4. CASE Head(back) = "+"
  <2>1. UNCHANGED <<at, net, gdb, asked, set, single, BP, running, i, length, listening, sessions, requests>>
    BY <1>4 DEF Receive, server
  <2>2. GdbTyped'
    BY <1>2, <2>1 DEF GdbInv, GdbTyped
  <2>3. ServerState' /\ Connection' /\ AtRest'
    BY <1>3, <2>1 DEF GdbInv, ServerState, Connection, AtRest, Same, Fits
  <2>4. Pending'
    <3>1. CASE Asking
      BY <1>2, <2>1, <3>1 DEF Pending, Asking, Same, Fits
    <3>2. CASE Busy \/ Dead
      BY <1>2, <2>1, <3>2 DEF Pending, Busy, Dead, Same, Fits
    <3>3. CASE Replied
      BY <1>2, <1>4, <2>1, <3>3 DEF Pending, Replied, SameAfter, SetAfter, SingleAfter, Same, Fits
    <3>4. QED BY <1>3, <3>1, <3>2, <3>3 DEF GdbInv, Pending
  <2>5. QED BY <2>2, <2>3, <2>4 DEF GdbInv
<1>5. CASE Head(back) # "+"
  <2>1. Replied
    BY <1>2, <1>3, <1>5 DEF GdbInv, Pending, Asking, Busy, Dead, Same, Fits
  <2>2. /\ gdb' = "ready" /\ net' = Append(net, Mark("+"))
        /\ UNCHANGED <<at, asked, BP, running, i, length, listening, sessions, requests>>
        /\ set' = SetAfter(Head(back)) /\ single' = SingleAfter(Head(back))
    BY <1>5 DEF Receive, server
  <2>3. back' = <<>> /\ Same'
    <3>1. back' = <<>> /\ SameAfter(Head(back))
      BY <1>2, <1>5, <2>1 DEF Replied
    <3>2. QED BY <2>2, <3>1, Zenon DEF SameAfter, Same, Fits
  <2>t. set' \subseteq Addresses /\ single' \in BOOLEAN
    <3>1. asked \in Asks /\ set \subseteq Addresses /\ single \in BOOLEAN
      BY DEF GdbInv, GdbTyped
    <3>2. asked.op = "Z1" => asked.arg \in Addresses
      BY <3>1, Asked
    <3>3. set' \subseteq Addresses
      BY <2>2, <3>1, <3>2 DEF SetAfter
    <3>4. single' \in BOOLEAN
      BY <2>2, <3>1, Zenon DEF SingleAfter
    <3>5. QED BY <3>3, <3>4
  <2>4. /\ net' \in Seq(Pieces) /\ \A T : Within(net, T) /\ "+" \in T => Within(net', T)
    BY <1>1, <2>2, AppendMark, MarkPiece DEF Marks
  <2>5. NoPacket(net)
    BY <2>1 DEF Replied, NoPacket, Stops, Within
  <2>6. NoPacket(net') /\ Within(net', Marks \ {"eof"})
    BY <1>3, <2>4, <2>5 DEF NoPacket, GdbInv, Connection, Marks
  <2>7. GdbTyped'
    BY <1>2, <2>2, <2>3, <2>4, <2>t DEF GdbInv, GdbTyped
  <2>8. ServerState' /\ Connection' /\ AtRest' /\ Pending'
    BY <1>3, <2>1, <2>2, <2>3, <2>6 DEF GdbInv, ServerState, Connection, AtRest, Pending, Replied, Same, Fits
  <2>9. QED BY <2>7, <2>8 DEF GdbInv
<1>6. QED BY <1>4, <1>5

(* gdb leaves. *)
LEMMA DisconnectKept == ASSUME GdbInv, Disconnect PROVE GdbInv'
<1> DEFINE e == Mark("eof")
<1>1. e \in Pieces /\ e.text = "eof" /\ net \in Seq(Pieces)
  BY MarkPiece DEF Marks, GdbInv, GdbTyped
<1> HIDE DEF e
<1>2. net' = Append(net, e) /\ gdb' = "off"
  BY DEF Disconnect, e
<1>3. /\ net' \in Seq(Pieces)
      /\ \A T : Within(net, T) /\ "eof" \in T => Within(net', T)
      /\ \A r, p : PacketAt(net, r, p) => PacketAt(net', r, p)
  BY <1>1, <1>2, AppendMark
<1>4. GdbTyped'
  BY <1>2, <1>3 DEF GdbInv, GdbTyped, Disconnect, server
<1>5. ServerState' /\ AtRest' /\ Pending'
  BY <1>2 DEF GdbInv, ServerState, AtRest, Pending, Disconnect, server, Same, Fits
<1>6. Connection'
  BY <1>2, <1>3 DEF GdbInv, Connection, NoPacket, Stops, Disconnect, server
<1>7. QED BY <1>4, <1>5, <1>6 DEF GdbInv

(* GdbserverCommand keeps the invariant, whether bind works or fails. *)
LEMMA CommandKept == ASSUME GdbAssumption, GdbInv, GdbserverCommand PROVE GdbInv'
<1>1. GdbTyped'
  <2>1. sessions' \in 0..MaxSessions
    BY Bounds DEF GdbInv, GdbTyped, GdbserverCommand
  <2>2. /\ at' \in {"console", "listen", "serve", "copy", "go"}
        /\ listening' \in BOOLEAN /\ running' \in BOOLEAN
    BY Zenon DEF GdbInv, GdbTyped, GdbserverCommand
  <2>3. QED BY <2>1, <2>2 DEF GdbInv, GdbTyped, GdbserverCommand
<1>2. ServerState'
  BY DEF GdbInv, ServerState, GdbserverCommand, Same, Fits
<1>3. Connection' /\ AtRest' /\ Pending'
  BY DEF GdbInv, Connection, AtRest, Pending, GdbserverCommand, Same, Fits
<1>4. QED BY <1>1, <1>2, <1>3 DEF GdbInv

(* read_command skips what begins no packet. *)
LEMMA SkipKept == ASSUME GdbInv, Skip PROVE GdbInv'
<1>1. net \in Seq(Pieces) /\ net # <<>> /\ net' = Tail(net) /\ Head(net).text \notin {"$", "eof"}
  BY DEF GdbInv, GdbTyped, Skip
<1>2. /\ net' \in Seq(Pieces) /\ \A T : Within(net, T) => Within(net', T)
      /\ \A r, p : PacketAt(net, r, p) => PacketAt(net', r, p - 1)
  BY <1>1, TailMark
<1>3. GdbTyped'
  BY <1>2 DEF GdbInv, GdbTyped, Skip, server
<1>4. ServerState'
  BY DEF GdbInv, ServerState, Skip, server, Same, Fits
<1>5. Connection'
  BY <1>2 DEF GdbInv, Connection, NoPacket, Stops, Skip, server
<1>6. AtRest'
  BY <1>2 DEF GdbInv, AtRest, NoPacket, Skip, server, Same, Fits
<1>7. Pending'
  <2>1. CASE Asking
    BY <1>2, <2>1 DEF Pending, Asking, Skip, server, Same, Fits
  <2>2. CASE Busy \/ Dead
    BY <2>2 DEF Pending, Busy, Dead, Skip, server, Same, Fits
  <2>3. CASE Replied
    BY <1>2, <2>3 DEF Pending, Replied, Stops, SameAfter, Skip, server, SetAfter, SingleAfter, Same, Fits
  <2>4. QED BY <2>1, <2>2, <2>3 DEF GdbInv, Pending, Skip
<1>8. QED BY <1>3, <1>4, <1>5, <1>6, <1>7 DEF GdbInv

(* handle_client ends when gdb has left. *)
LEMMA GoneKept == ASSUME GdbInv, GdbGone PROVE GdbInv'
<1>1. net \in Seq(Pieces) /\ net # <<>> /\ net' = Tail(net) /\ Head(net).text = "eof"
  BY DEF GdbInv, GdbTyped, GdbGone
<1>2. /\ net' \in Seq(Pieces) /\ \A T : Within(net, T) => Within(net', T) /\ Head(net).text \in T
      /\ \A r, p : ~PacketAt(net, r, p)
  BY <1>1, TailMark
<1>3. gdb = "off"
  BY <1>1, <1>2 DEF GdbInv, Connection
<1>4. NoPacket(net')
  BY <1>2 DEF GdbInv, Connection, NoPacket
<1>5. GdbTyped'
  BY <1>2 DEF GdbInv, GdbTyped, GdbGone
<1>6. ServerState' /\ Connection' /\ AtRest' /\ Pending'
  BY <1>3, <1>4 DEF GdbInv, ServerState, Connection, AtRest, Pending, GdbGone, Same, Fits
<1>7. QED BY <1>5, <1>6 DEF GdbInv

(* handle_command: the answer says what was done with the breakpoint. *)
LEMMA HandleKept == ASSUME GdbAssumption, GdbInv, HandleCommand PROVE GdbInv'
<1>1. PICK r \in Requests :
        /\ Arrived(r) /\ r.op \notin {"c", "m", "k", "bad", ""}
        /\ Reply(Answer(r)) /\ BP' = Breakpoint(r)
        /\ UNCHANGED <<at, gdb, asked, set, single, running, i, length, listening, sessions, requests>>
  BY DEF HandleCommand
<1>2. /\ r = asked /\ at = "serve"
      /\ net' \in Seq(Pieces) /\ Stops(net') /\ NoPacket(net')
      /\ gdb # "off" => Within(net', Marks \ {"eof"})
      /\ gdb # "off" => gdb = "waiting" /\ Acks(back) /\ Same
  BY <1>1, Arrival
<1> DEFINE t == Answer(r)
<1>3. t \in Replies
  BY DEF Answer, Replies
<1>4. BP' \in Addresses \cup {-1}
  BY <1>1, Asked DEF Breakpoint, GdbInv, GdbTyped, Asks
<1>5. Same => SameAfter(t)'
  <2>1. SUFFICES ASSUME Same PROVE SameAfter(t)'
    OBVIOUS
  <2>2. asked' = asked /\ set' = set /\ single' = single
    BY <1>1
  <2>3. CASE r.op = "Z1"
    <3>0. r.arg \in Addresses
      BY <2>3, Asked DEF Asks
    <3>n. Addresses \subseteq Nat
      BY Zenon DEF GdbAssumption
    <3>i. r.arg # -1
      BY <3>0, <3>n
    <3>t. t = "OK"
      BY <2>3 DEF Answer
    <3>1. t = "OK" /\ BP' = r.arg /\ r.arg \in Addresses /\ r.arg # -1
      BY <1>1, <2>3, <3>0, <3>i, <3>t DEF Breakpoint
    <3>2. SetAfter(t)' = set \cup {r.arg}
      BY <1>2, <2>2, <2>3, <3>1 DEF SetAfter
    <3>3. SingleAfter(t)' => set \subseteq {r.arg}
      BY <1>2, <2>2, <2>3, <3>1 DEF SingleAfter
    <3>4. QED BY <3>1, <3>2, <3>3 DEF SameAfter, Fits, Same
  <2>4. CASE r.op = "z1"
    <3>1. t = "OK" /\ BP' = -1
      BY <1>1, <2>4 DEF Answer, Breakpoint
    <3>2. SetAfter(t)' = set \ {r.arg}
      BY <1>2, <2>2, <2>4, <3>1 DEF SetAfter
    <3>3. SingleAfter(t)' => set \subseteq {r.arg}
      BY <1>2, <2>2, <2>4, <3>1 DEF SingleAfter
    <3>4. QED BY <3>1, <3>2, <3>3 DEF SameAfter, Fits, Same
  <2>5. CASE r.op \notin {"Z1", "z1"}
    <3>1. BP' = BP
      BY <1>1, <2>5 DEF Breakpoint
    <3>2. SetAfter(t)' = set
      BY <1>2, <2>2, <2>5 DEF SetAfter
    <3>3. SingleAfter(t)' => single
      BY <2>2 DEF SingleAfter
    <3>4. QED BY <2>1, <3>1, <3>2, <3>3 DEF SameAfter, Same, Fits
  <2>6. QED BY <2>3, <2>4, <2>5
<1> HIDE DEF t
<1>6. back \in Seq(Signs) /\ back' = back \o <<"+", t>>
  BY <1>1 DEF Reply, t, GdbInv, GdbTyped
<1>7. back' \in Seq(Signs) /\ (Acks(back) => Ends(back') /\ back'[Len(back')] = t)
  BY <1>3, <1>6, AnswerAdded
<1>8. GdbTyped'
  BY <1>1, <1>2, <1>4, <1>7 DEF GdbInv, GdbTyped
<1>9. ServerState' /\ Connection' /\ AtRest'
  BY <1>1, <1>2 DEF GdbInv, ServerState, Connection, AtRest, Same, Fits
<1>10. Pending'
  <2>1. gdb' # "off" => /\ SameAfter(t)' /\ Ends(back') /\ back'[Len(back')] = t
                       /\ at' = "serve" /\ Stops(net')
    BY <1>1, <1>2, <1>5, <1>7
  <2>2. gdb' # "off" => SameAfter(back[Len(back)])'
    BY <2>1
  <2>3. QED BY <2>1, <2>2 DEF Pending, Replied
<1>11. QED BY <1>8, <1>9, <1>10 DEF GdbInv

(* Failure and Kill: the server ends. *)
LEMMA EndKept == ASSUME GdbInv, Failure \/ Kill PROVE GdbInv'
<1>1. PICK r \in Requests :
        /\ Arrived(r) /\ back' = Append(back, "+") /\ at' = "console"
        /\ UNCHANGED <<gdb, asked, set, single, BP, running, i, length, listening, sessions, requests>>
  BY DEF Failure, Kill
<1>2. /\ at = "serve"
      /\ net' \in Seq(Pieces) /\ NoPacket(net')
      /\ gdb # "off" => Within(net', Marks \ {"eof"})
      /\ gdb # "off" => gdb = "waiting" /\ Acks(back)
  BY <1>1, Arrival
<1>3. back' \in Seq(Signs) /\ (Acks(back) => Acks(back'))
  BY <1>1, AckAdded DEF GdbInv, GdbTyped
<1>4. GdbTyped'
  BY <1>1, <1>2, <1>3 DEF GdbInv, GdbTyped
<1>5. ServerState' /\ Connection' /\ AtRest'
  BY <1>1, <1>2 DEF GdbInv, ServerState, Connection, AtRest, Same, Fits
<1>6. Pending'
  BY <1>1, <1>2, <1>3 DEF Pending, Dead
<1>7. QED BY <1>4, <1>5, <1>6 DEF GdbInv

(* cmd_memory_read begins with an acknowledgement. *)
LEMMA ReadKept == ASSUME GdbAssumption, GdbInv, MemoryRead PROVE GdbInv'
<1>1. PICK r \in Requests :
        /\ Arrived(r) /\ r.op = "m" /\ back' = Append(back, "+")
        /\ at' = "copy" /\ i' = 0 /\ length' = r.arg
        /\ UNCHANGED <<gdb, asked, set, single, BP, running, listening, sessions, requests>>
  BY DEF MemoryRead
<1>2. /\ at = "serve"
      /\ net' \in Seq(Pieces) /\ Stops(net') /\ NoPacket(net')
      /\ gdb # "off" => Within(net', Marks \ {"eof"})
      /\ gdb # "off" => gdb = "waiting" /\ Acks(back) /\ Same
  BY <1>1, Arrival
<1>3. back' \in Seq(Signs) /\ (Acks(back) => Acks(back'))
  BY <1>1, AckAdded DEF GdbInv, GdbTyped
<1>4. GdbTyped'
  <2>1. i' \in 0..(IndexRange - 1)
    BY <1>1, Bounds
  <2>2. length' \in ReadLengths \cup {0}
    BY <1>1, Asked DEF Asks
  <2>3. QED BY <1>1, <1>2, <1>3, <2>1, <2>2 DEF GdbInv, GdbTyped
<1>5. ServerState' /\ Connection' /\ AtRest'
  BY <1>1, <1>2 DEF GdbInv, ServerState, Connection, AtRest, Same, Fits
<1>6. Pending'
  BY <1>1, <1>2, <1>3 DEF Pending, Busy, Same, Fits
<1>7. QED BY <1>4, <1>5, <1>6 DEF GdbInv

(* target_continue starts the program, behind an acknowledgement. *)
LEMMA ContinueKept == ASSUME GdbInv, Continue PROVE GdbInv'
<1>1. PICK r \in Requests :
        /\ Arrived(r) /\ back' = Append(back, "+") /\ at' = "go" /\ running' = TRUE
        /\ UNCHANGED <<gdb, asked, set, single, BP, i, length, listening, sessions, requests>>
  BY DEF Continue
<1>2. /\ at = "serve"
      /\ net' \in Seq(Pieces) /\ Stops(net') /\ NoPacket(net')
      /\ gdb # "off" => Within(net', Marks \ {"eof"})
      /\ gdb # "off" => gdb = "waiting" /\ Acks(back) /\ Same
  BY <1>1, Arrival
<1>3. back' \in Seq(Signs) /\ (Acks(back) => Acks(back'))
  BY <1>1, AckAdded DEF GdbInv, GdbTyped
<1>4. GdbTyped'
  BY <1>1, <1>2, <1>3 DEF GdbInv, GdbTyped
<1>5. ServerState' /\ Connection' /\ AtRest'
  BY <1>1, <1>2 DEF GdbInv, ServerState, Connection, AtRest, Same, Fits
<1>6. Pending'
  BY <1>1, <1>2, <1>3 DEF Pending, Busy, Same, Fits
<1>7. QED BY <1>4, <1>5, <1>6 DEF GdbInv

(* The end of a read and of a run: what is outstanding is answered. *)
LEMMA FinishKept ==
  ASSUME GdbInv, at \in {"copy", "go"}, NEW t \in Replies \ {"OK"},
         at' = "serve", back' = Append(back, t), running' = FALSE,
         UNCHANGED <<net, gdb, asked, set, single, BP, i, length, listening, sessions, requests>>
  PROVE  GdbInv'
<1>1. back' \in Seq(Signs) /\ (Acks(back) => Ends(back') /\ back'[Len(back')] = t)
  BY ReplyAdded DEF GdbInv, GdbTyped
<1>2. Stops(net) /\ NoPacket(net)
  BY DEF GdbInv, Connection, Stops, NoPacket, Within
<1>3. gdb = "waiting" => Acks(back) /\ Same
  BY DEF GdbInv, Pending, Asking, Busy, Dead, Replied, Same, Fits
<1>4. GdbTyped'
  BY <1>1 DEF GdbInv, GdbTyped
<1>5. ServerState' /\ Connection' /\ AtRest'
  BY <1>2 DEF GdbInv, ServerState, Connection, AtRest, Same, Fits
<1>6. Pending'
  BY <1>1, <1>2, <1>3 DEF Pending, Replied, Stops, SameAfter, SetAfter, SingleAfter, Same, Fits
<1>7. QED BY <1>4, <1>5, <1>6 DEF GdbInv

(* cmd_memory_read keeps the invariant, also when its index wraps. *)
LEMMA CopyKept == ASSUME GdbAssumption, GdbInv, Copy PROVE GdbInv'
<1>1. CASE i < length
  <2>1. UNCHANGED <<at, back, net, gdb, asked, set, single, BP, running, length, listening, sessions, requests>>
    BY <1>1 DEF Copy
  <2>2. i' \in 0..(IndexRange - 1)
    BY <1>1, Bounds DEF Copy, GdbInv, GdbTyped
  <2>3. GdbTyped'
    BY <2>1, <2>2 DEF GdbInv, GdbTyped
  <2>4. ServerState' /\ Connection' /\ AtRest'
    BY <2>1 DEF GdbInv, ServerState, Connection, AtRest, Same, Fits
  <2>5. Pending'
    BY <2>1 DEF GdbInv, Pending, Asking, Busy, Dead, Replied, SameAfter, SetAfter, SingleAfter, Same, Fits
  <2>6. QED BY <2>3, <2>4, <2>5 DEF GdbInv
<1>2. CASE ~(i < length)
  <2>1. /\ at = "copy" /\ at' = "serve" /\ back' = Append(back, "data")
        /\ UNCHANGED <<net, gdb, asked, set, single, BP, running, i, length, listening, sessions, requests>>
    BY <1>2 DEF Copy
  <2>2. running = FALSE
    BY <2>1 DEF GdbInv, GdbTyped, ServerState, Same, Fits
  <2>3. QED BY <2>1, <2>2, FinishKept DEF Replies
<1>3. QED BY <1>1, <1>2

(* GoWaitLoop ends with a reply. *)
LEMMA StopKept == ASSUME GdbInv, Stop PROVE GdbInv'
BY FinishKept DEF Stop, Replies

(* Every step keeps the invariant. *)
LEMMA GdbKept == ASSUME GdbAssumption, GdbInv, [Next]_vars PROVE GdbInv'
<1>1. CASE UNCHANGED vars
  <2>1. GdbTyped' /\ ServerState'
    BY <1>1 DEF GdbInv, vars, GdbTyped, ServerState, Same, Fits
  <2>2. Connection' /\ AtRest' /\ Pending'
    BY <1>1 DEF GdbInv, vars, Connection, AtRest, Pending, Asking, Busy, Dead, Replied, SameAfter, SetAfter, SingleAfter, Same, Fits
  <2>3. QED BY <2>1, <2>2 DEF GdbInv
<1>2. CASE Connect \/ Send \/ Interrupt \/ Receive \/ Disconnect \/ GdbserverCommand
  BY <1>2, ConnectKept, SendKept, InterruptKept, ReceiveKept, DisconnectKept, CommandKept
<1>3. CASE Serve
  BY <1>3, SkipKept, GoneKept, HandleKept, EndKept, ReadKept, CopyKept, ContinueKept, StopKept
  DEF Serve, DeviceBreak, KeyboardBreak
<1>4. QED BY <1>1, <1>2, <1>3 DEF Next

(* The invariant implies what the run checks. *)
LEMMA Agrees == ASSUME GdbInv PROVE GdbAgrees
<1>1. Pieces = [text : {"$", "sum", "+", "break", "eof"}, req : Requests \cup {Request("", 0)}]
  BY DEF Pieces, Marks, Asks
<1>2. Signs = {"+", "S00", "OK", "data", "empty"}
  BY DEF Signs, Replies
<1>3. TypeOK
  BY <1>1, <1>2, Zenon DEF GdbInv, GdbTyped, TypeOK
<1>4. StoppedForGdb /\ SameBreakpoint
  BY DEF GdbInv, ServerState, AtRest, StoppedForGdb, SameBreakpoint, Same, Fits
<1>5. QED BY <1>3, <1>4 DEF GdbAgrees

(* Only GoWaitLoop ends the wait for a program; without a breakpoint it    *)
(* finds an interrupt, or the end of the connection.                       *)
LEMMA OnPurpose == ASSUME GdbInv, [Next]_vars PROVE StoppedOnPurpose
<1>1. SUFFICES ASSUME at = "go", at' = "serve", BP = -1 PROVE Head(net).text \in {"break", "eof"}
  BY DEF StoppedOnPurpose
<1>2. KeyboardBreak
  BY <1>1 DEF Next, vars, Connect, Send, Interrupt, Receive, Disconnect, GdbserverCommand, Serve, server,
     Skip, GdbGone, HandleCommand, Failure, Kill, MemoryRead, Copy, Continue, DeviceBreak, Arrived
<1>3. net # <<>> /\ Stops(net) /\ net \in Seq(Pieces)
  BY <1>1, <1>2 DEF KeyboardBreak, GdbInv, GdbTyped, Connection
<1>4. QED BY <1>3, TailMark DEF Stops

(* target_continue, handle_command: while gdb takes the program for        *)
(* stopped it is, and gdb and dwdebug agree on the breakpoint, whatever    *)
(* requests fail and whenever gdb interrupts, leaves or connects again.    *)
THEOREM AlwaysAgree == ASSUME GdbAssumption PROVE Spec => []GdbAgrees
<1>1. Init => GdbInv
  BY GdbStart
<1>2. GdbInv /\ [Next]_vars => GdbInv'
  BY GdbKept
<1>3. GdbInv => GdbAgrees
  BY Agrees
<1>4. QED BY <1>1, <1>2, <1>3, PTL DEF Spec

(* read_command, GoWaitLoop: a program without a breakpoint is only ever   *)
(* stopped by gdb's interrupt or by the end of the connection, never by    *)
(* what an earlier packet has left in the socket.                          *)
THEOREM NeverStray == ASSUME GdbAssumption PROVE Spec => NoStray
<1>1. Init => GdbInv
  BY GdbStart
<1>2. GdbInv /\ [Next]_vars => GdbInv'
  BY GdbKept
<1>3. GdbInv /\ [Next]_vars => StoppedOnPurpose
  BY OnPurpose
<1>4. QED BY <1>1, <1>2, <1>3, PTL DEF Spec, NoStray
-----------------------------------------------------------------------------
(* The modules of the proofs, with the values that the run's parts have. *)
FaultyP == INSTANCE SerialLinkProofs WITH
  Capacity <- 2, MaxSend <- 3, MaxBytes <- 5, MaxLine <- 2, Speeds <- {1, 2},
  Faults <- {"collision", "mute"}, MaxFaults <- 2, running <- awake

LosslessP == INSTANCE SerialLinkProofs WITH
  Capacity <- 2, MaxSend <- 3, MaxBytes <- 5, MaxLine <- 2, Speeds <- {1, 2},
  Faults <- {"mute"}, MaxFaults <- 2, running <- awake

WorkingP == INSTANCE SerialLinkProofs WITH
  Capacity <- 2, MaxSend <- 3, MaxBytes <- 5, MaxLine <- 2, Speeds <- {1, 2},
  Faults <- {}, MaxFaults <- 0, running <- awake

(* The module about the ports is the one about the input. *)
SteadyScript == INSTANCE CommandProofs WITH
  PortCount <- 3, Kind <- <<"u", "u", "s">>, Index <- <<1, 2, 1>>, Chip <- <<NoChip, 5, 9>>,
  MaxFaults <- 0, faults <- failures,
  ILimit <- 8, NameMax <- 2, Tty <- FALSE, Edges <- {FALSE}, Preloads <- {<<>>},
  Inputs <- {s \in {t \o <<"c", ";", "c", "\n">> : t \in Sentences({"c", ";", "\n", " "}, {5})} : InEachFour(s, {"\n", ";"})},
  at <- place

ShakyTyped == INSTANCE CommandProofs WITH
  PortCount <- 3, Kind <- <<"u", "u", "s">>, Index <- <<1, 2, 1>>, Chip <- <<Unsupported, 5, 9>>,
  MaxFaults <- 2, faults <- failures,
  ILimit <- 8, NameMax <- 2, Tty <- TRUE, Edges <- BOOLEAN,
  Preloads <- {<<>>, <<"c">>, <<"g", ";", "c">>, <<"f">>, <<"s">>},
  Inputs <- {s \in {t \o <<"c", "\n">> : t \in Sentences({"c", "f", "g", ";", "\n"}, {5})
                                             \cup Sentences({"c", "s", ";", "\n"}, {5})
                                             \cup Sentences({"c", "p", "1", "\n"}, {5})}
                  \cup {t \o <<"s", "\n", "c", "\n">> : t \in Sentences({"c", "\n"}, {7})} :
               InEachFour(s, {"\n"})},
  at <- place

ShakyShort == INSTANCE CommandProofs WITH
  PortCount <- 3, Kind <- <<"u", "u", "s">>, Index <- <<1, 2, 1>>, Chip <- <<Unsupported, 5, 9>>,
  MaxFaults <- 2, faults <- failures,
  ILimit <- 8, NameMax <- 2, Tty <- FALSE, Edges <- {FALSE, TRUE},
  Preloads <- {<<>>, <<"c">>, <<"g", ";", "c">>, <<"f">>},
  Inputs <- Sentences({"c", "p", "1", ";", "\n"}, 0..4) \cup Sentences({"c", "s", "\n"}, 1..4),
  at <- place

(* They are about the specifications that the run is made of. *)
LEMMA SameFaulty ==
  /\ Faulty!SerialAssumption = FaultyP!SerialAssumption
  /\ Faulty!Init = FaultyP!Init
  /\ Faulty!Next = FaultyP!Next
  /\ Faulty!vars = FaultyP!vars
BY Zenon DEF Faulty!SerialAssumption, Faulty!vars, Faulty!buffer, Faulty!port, Faulty!target, Faulty!B,
     Faulty!Wants, Faulty!Bytes, Faulty!Stray, Faulty!Echo, Faulty!Occurs, Faulty!Fail,
     Faulty!Deliver, Faulty!Replies, Faulty!Sent, Faulty!Forgotten, Faulty!SerialSendBytes,
     Faulty!Goto, Faulty!SerialFlush, Faulty!Init, Faulty!HandOver, Faulty!SendFull,
     Faulty!SendRest, Faulty!SerialReceive, Faulty!SerialSync, Faulty!SerialWait, Faulty!ReadReply,
     Faulty!TryConnect, Faulty!ReadSync, Faulty!ReadNothing, Faulty!Skips, Faulty!SerialBreak,
     Faulty!SerialBreakAndSync, Faulty!Connect, Faulty!DeviceBreak, Faulty!KeyboardBreak,
     Faulty!Breakpoint, Faulty!HostStep, Faulty!Next, FaultyP!SerialAssumption, FaultyP!vars,
     FaultyP!buffer, FaultyP!port, FaultyP!target, FaultyP!B, FaultyP!Wants, FaultyP!Bytes,
     FaultyP!Stray, FaultyP!Echo, FaultyP!Occurs, FaultyP!Fail, FaultyP!Deliver, FaultyP!Replies,
     FaultyP!Sent, FaultyP!Forgotten, FaultyP!SerialSendBytes, FaultyP!Goto, FaultyP!SerialFlush,
     FaultyP!Init, FaultyP!HandOver, FaultyP!SendFull, FaultyP!SendRest, FaultyP!SerialReceive,
     FaultyP!SerialSync, FaultyP!SerialWait, FaultyP!ReadReply, FaultyP!TryConnect,
     FaultyP!ReadSync, FaultyP!ReadNothing, FaultyP!Skips, FaultyP!SerialBreak, FaultyP!SerialBreakAndSync,
     FaultyP!Connect, FaultyP!DeviceBreak, FaultyP!KeyboardBreak, FaultyP!Breakpoint,
     FaultyP!HostStep, FaultyP!Next

(* So it is for the link that loses answers only, *)
LEMMA SameLossless ==
  /\ Lossless!SerialAssumption = LosslessP!SerialAssumption
  /\ Lossless!Init = LosslessP!Init
  /\ Lossless!Next = LosslessP!Next
  /\ Lossless!vars = LosslessP!vars
BY Zenon DEF Lossless!SerialAssumption, Lossless!vars, Lossless!buffer, Lossless!port, Lossless!target,
     Lossless!B, Lossless!Wants, Lossless!Bytes, Lossless!Stray, Lossless!Echo, Lossless!Occurs,
     Lossless!Fail, Lossless!Deliver, Lossless!Replies, Lossless!Sent, Lossless!Forgotten,
     Lossless!SerialSendBytes, Lossless!Goto, Lossless!SerialFlush, Lossless!Init,
     Lossless!HandOver, Lossless!SendFull, Lossless!SendRest, Lossless!SerialReceive,
     Lossless!SerialSync, Lossless!SerialWait, Lossless!ReadReply, Lossless!TryConnect,
     Lossless!ReadSync, Lossless!ReadNothing, Lossless!Skips, Lossless!SerialBreak, Lossless!SerialBreakAndSync,
     Lossless!Connect, Lossless!DeviceBreak, Lossless!KeyboardBreak, Lossless!Breakpoint,
     Lossless!HostStep, Lossless!Next, LosslessP!SerialAssumption, LosslessP!vars, LosslessP!buffer,
     LosslessP!port, LosslessP!target, LosslessP!B, LosslessP!Wants, LosslessP!Bytes,
     LosslessP!Stray, LosslessP!Echo, LosslessP!Occurs, LosslessP!Fail, LosslessP!Deliver,
     LosslessP!Replies, LosslessP!Sent, LosslessP!Forgotten, LosslessP!SerialSendBytes,
     LosslessP!Goto, LosslessP!SerialFlush, LosslessP!Init, LosslessP!HandOver, LosslessP!SendFull,
     LosslessP!SendRest, LosslessP!SerialReceive, LosslessP!SerialSync, LosslessP!SerialWait,
     LosslessP!ReadReply, LosslessP!TryConnect, LosslessP!ReadSync, LosslessP!ReadNothing, LosslessP!Skips,
     LosslessP!SerialBreak, LosslessP!SerialBreakAndSync, LosslessP!Connect, LosslessP!DeviceBreak,
     LosslessP!KeyboardBreak, LosslessP!Breakpoint, LosslessP!HostStep, LosslessP!Next

(* for the link that works, *)
LEMMA SameWorking ==
  /\ Working!SerialAssumption = WorkingP!SerialAssumption
  /\ Working!Init = WorkingP!Init
  /\ Working!Next = WorkingP!Next
  /\ Working!vars = WorkingP!vars
BY Zenon DEF Working!SerialAssumption, Working!vars, Working!buffer, Working!port, Working!target,
     Working!B, Working!Wants, Working!Bytes, Working!Stray, Working!Echo, Working!Occurs,
     Working!Fail, Working!Deliver, Working!Replies, Working!Sent, Working!Forgotten,
     Working!SerialSendBytes, Working!Goto, Working!SerialFlush, Working!Init, Working!HandOver,
     Working!SendFull, Working!SendRest, Working!SerialReceive, Working!SerialSync,
     Working!SerialWait, Working!ReadReply, Working!TryConnect, Working!ReadSync,
     Working!ReadNothing, Working!Skips, Working!SerialBreak, Working!SerialBreakAndSync, Working!Connect,
     Working!DeviceBreak, Working!KeyboardBreak, Working!Breakpoint, Working!HostStep, Working!Next,
     WorkingP!SerialAssumption, WorkingP!vars, WorkingP!buffer, WorkingP!port, WorkingP!target,
     WorkingP!B, WorkingP!Wants, WorkingP!Bytes, WorkingP!Stray, WorkingP!Echo, WorkingP!Occurs,
     WorkingP!Fail, WorkingP!Deliver, WorkingP!Replies, WorkingP!Sent, WorkingP!Forgotten,
     WorkingP!SerialSendBytes, WorkingP!Goto, WorkingP!SerialFlush, WorkingP!Init,
     WorkingP!HandOver, WorkingP!SendFull, WorkingP!SendRest, WorkingP!SerialReceive,
     WorkingP!SerialSync, WorkingP!SerialWait, WorkingP!ReadReply, WorkingP!TryConnect,
     WorkingP!ReadSync, WorkingP!ReadNothing, WorkingP!Skips, WorkingP!SerialBreak, WorkingP!SerialBreakAndSync,
     WorkingP!Connect, WorkingP!DeviceBreak, WorkingP!KeyboardBreak, WorkingP!Breakpoint,
     WorkingP!HostStep, WorkingP!Next

(* for the ports where nothing fails, *)
LEMMA SameSteady ==
  /\ Steady!PortsAssumption = SteadyScript!P!PortsAssumption
  /\ Steady!Init = SteadyScript!P!Init
  /\ Steady!Next = SteadyScript!P!Next
  /\ Steady!vars = SteadyScript!P!vars
  /\ Steady!AsRequested = SteadyScript!P!AsRequested
  /\ Steady!AsAnnounced = SteadyScript!P!AsAnnounced
  /\ Steady!OwnState = SteadyScript!P!OwnState
  /\ Steady!OwnType = SteadyScript!P!OwnType
BY Zenon DEF Steady!Port, Steady!None, Steady!Right, Steady!Wrong, Steady!Bauds, Steady!AnyIndex,
     Steady!AnyKind, Steady!PortsAssumption, Steady!vars, Steady!Ask, Steady!Nothing, Steady!Begin,
     Steady!DeviceCommand, Steady!DwListDevices, Steady!HandleCommand, Steady!Refused, Steady!Fault,
     Steady!ConnectUsbtinyPort, Steady!TryConnect, Steady!ChangedBaud, Steady!Connected,
     Steady!ConnectFails, Steady!Asked, Steady!ConnectPort, Steady!FindPort, Steady!ListPort,
     Steady!NextPort, Steady!NotFound, Steady!ListDone, Steady!Broken, Steady!Exchange,
     Steady!GetDeviceType, Steady!DwReconnect, Steady!Handler, Steady!FreshPort, Steady!Init,
     Steady!Next, Steady!AsRequested, Steady!Served, Steady!AsAnnounced, Steady!OwnState,
     Steady!OwnType, SteadyScript!P!Port, SteadyScript!P!None, SteadyScript!P!Right, SteadyScript!P!Wrong, SteadyScript!P!Bauds,
     SteadyScript!P!AnyIndex, SteadyScript!P!AnyKind, SteadyScript!P!PortsAssumption, SteadyScript!P!vars, SteadyScript!P!Ask,
     SteadyScript!P!Nothing, SteadyScript!P!Begin, SteadyScript!P!DeviceCommand, SteadyScript!P!DwListDevices,
     SteadyScript!P!HandleCommand, SteadyScript!P!Refused, SteadyScript!P!Fault, SteadyScript!P!ConnectUsbtinyPort,
     SteadyScript!P!TryConnect, SteadyScript!P!ChangedBaud, SteadyScript!P!Connected, SteadyScript!P!ConnectFails,
     SteadyScript!P!Asked, SteadyScript!P!ConnectPort, SteadyScript!P!FindPort, SteadyScript!P!ListPort, SteadyScript!P!NextPort,
     SteadyScript!P!NotFound, SteadyScript!P!ListDone, SteadyScript!P!Broken, SteadyScript!P!Exchange, SteadyScript!P!GetDeviceType,
     SteadyScript!P!DwReconnect, SteadyScript!P!Handler, SteadyScript!P!FreshPort, SteadyScript!P!Init, SteadyScript!P!Next,
     SteadyScript!P!AsRequested, SteadyScript!P!Served, SteadyScript!P!AsAnnounced, SteadyScript!P!OwnState, SteadyScript!P!OwnType

(* and for those where something does. *)
LEMMA SameShaky ==
  /\ Shaky!PortsAssumption = ShakyTyped!P!PortsAssumption
  /\ Shaky!Init = ShakyTyped!P!Init
  /\ Shaky!Next = ShakyTyped!P!Next
  /\ Shaky!vars = ShakyTyped!P!vars
  /\ Shaky!AsRequested = ShakyTyped!P!AsRequested
  /\ Shaky!AsAnnounced = ShakyTyped!P!AsAnnounced
  /\ Shaky!OwnState = ShakyTyped!P!OwnState
  /\ Shaky!OwnType = ShakyTyped!P!OwnType
BY Zenon DEF Shaky!Port, Shaky!None, Shaky!Right, Shaky!Wrong, Shaky!Bauds, Shaky!AnyIndex, Shaky!AnyKind,
     Shaky!PortsAssumption, Shaky!vars, Shaky!Ask, Shaky!Nothing, Shaky!Begin, Shaky!DeviceCommand,
     Shaky!DwListDevices, Shaky!HandleCommand, Shaky!Refused, Shaky!Fault, Shaky!ConnectUsbtinyPort,
     Shaky!TryConnect, Shaky!ChangedBaud, Shaky!Connected, Shaky!ConnectFails, Shaky!Asked,
     Shaky!ConnectPort, Shaky!FindPort, Shaky!ListPort, Shaky!NextPort, Shaky!NotFound,
     Shaky!ListDone, Shaky!Broken, Shaky!Exchange, Shaky!GetDeviceType, Shaky!DwReconnect,
     Shaky!Handler, Shaky!FreshPort, Shaky!Init, Shaky!Next, Shaky!AsRequested, Shaky!Served,
     Shaky!AsAnnounced, Shaky!OwnState, Shaky!OwnType, ShakyTyped!P!Port, ShakyTyped!P!None, ShakyTyped!P!Right,
     ShakyTyped!P!Wrong, ShakyTyped!P!Bauds, ShakyTyped!P!AnyIndex, ShakyTyped!P!AnyKind, ShakyTyped!P!PortsAssumption,
     ShakyTyped!P!vars, ShakyTyped!P!Ask, ShakyTyped!P!Nothing, ShakyTyped!P!Begin, ShakyTyped!P!DeviceCommand,
     ShakyTyped!P!DwListDevices, ShakyTyped!P!HandleCommand, ShakyTyped!P!Refused, ShakyTyped!P!Fault,
     ShakyTyped!P!ConnectUsbtinyPort, ShakyTyped!P!TryConnect, ShakyTyped!P!ChangedBaud, ShakyTyped!P!Connected,
     ShakyTyped!P!ConnectFails, ShakyTyped!P!Asked, ShakyTyped!P!ConnectPort, ShakyTyped!P!FindPort, ShakyTyped!P!ListPort,
     ShakyTyped!P!NextPort, ShakyTyped!P!NotFound, ShakyTyped!P!ListDone, ShakyTyped!P!Broken, ShakyTyped!P!Exchange,
     ShakyTyped!P!GetDeviceType, ShakyTyped!P!DwReconnect, ShakyTyped!P!Handler, ShakyTyped!P!FreshPort, ShakyTyped!P!Init,
     ShakyTyped!P!Next, ShakyTyped!P!AsRequested, ShakyTyped!P!Served, ShakyTyped!P!AsAnnounced, ShakyTyped!P!OwnState,
     ShakyTyped!P!OwnType


-----------------------------------------------------------------------------
(* The invariant of the link that is exercised; in the other parts it      *)
(* rests.                                                                  *)
SerialInv ==
  /\ part \notin {"lossless", "working"} => FaultyP!IInv
  /\ part = "lossless" => LosslessP!LInv
  /\ part = "working" => WorkingP!LInv

(* Every part begins in it. *)
LEMMA SerialStarts == InterfacesInit => SerialInv
<1> SUFFICES ASSUME InterfacesInit PROVE SerialInv
  OBVIOUS
<1>1. FaultyP!SerialAssumption /\ LosslessP!SerialAssumption /\ WorkingP!SerialAssumption
  BY InterfacesAssumption, SameFaulty, SameLossless, SameWorking DEF InterfacesAssumption
<1>2. FaultyP!Init /\ LosslessP!Init /\ WorkingP!Init
  <2>1. Faulty!Init
    BY DEF InterfacesInit
  <2>2. LosslessP!Init = FaultyP!Init /\ WorkingP!Init = FaultyP!Init
    BY Zenon DEF LosslessP!Init, FaultyP!Init, WorkingP!Init
  <2>3. QED BY <2>1, <2>2, SameFaulty
<1>3. FaultyP!IInv
  BY <1>1, <1>2, FaultyP!SerialStart
<1>4. LosslessP!LInv
  BY <1>1, <1>2, LosslessP!LinkStart
<1>5. WorkingP!LInv
  BY <1>1, <1>2, WorkingP!LinkStart
<1>6. QED BY <1>3, <1>4, <1>5 DEF SerialInv

(* A step of the run is one of the link exercised, or leaves it alone. *)
LEMMA SerialParts ==
  ASSUME [InterfacesNext]_all
  PROVE  /\ part' = part
         /\ part \notin {"lossless", "working"} => [FaultyP!Next]_(FaultyP!vars)
         /\ part = "lossless" => [LosslessP!Next]_(LosslessP!vars)
         /\ part = "working" => [WorkingP!Next]_(WorkingP!vars)
<1>1. part' = part
  BY Zenon DEF InterfacesNext, all, FaultyStep, LosslessStep, WorkingStep, SearchStep, SteadyStep, ShakyStep,
     ScriptStep, TypedStep, ShortStep, GdbStep, ServedStep
<1>2. UNCHANGED serial =>
        UNCHANGED FaultyP!vars /\ UNCHANGED LosslessP!vars /\ UNCHANGED WorkingP!vars
  BY DEF serial, FaultyP!vars, LosslessP!vars, WorkingP!vars, FaultyP!buffer, LosslessP!buffer,
     WorkingP!buffer, FaultyP!port, LosslessP!port, WorkingP!port,
     FaultyP!target, LosslessP!target, WorkingP!target
<1>3. \/ part = "faulty" /\ Faulty!Next
      \/ part = "lossless" /\ Lossless!Next
      \/ part = "working" /\ Working!Next
      \/ UNCHANGED serial
  BY Zenon DEF InterfacesNext, all, FaultyStep, LosslessStep, WorkingStep, SearchStep, SteadyStep, ShakyStep,
     ScriptStep, TypedStep, ShortStep, GdbStep, ServedStep
<1>4. QED BY <1>1, <1>2, <1>3, SameFaulty, SameLossless, SameWorking

(* So every step keeps the invariant. *)
LEMMA SerialGoes == ASSUME SerialInv, [InterfacesNext]_all PROVE SerialInv'
<1>1. FaultyP!SerialAssumption /\ LosslessP!SerialAssumption /\ WorkingP!SerialAssumption
  BY InterfacesAssumption, SameFaulty, SameLossless, SameWorking DEF InterfacesAssumption
<1>2. "collision" \notin {"mute"} /\ "collision" \notin {}
  OBVIOUS
<1>3. CASE part \notin {"lossless", "working"}
  <2>1. FaultyP!IInv /\ [FaultyP!Next]_(FaultyP!vars)
    BY <1>3, SerialParts DEF SerialInv
  <2>2. FaultyP!IInv'
    BY <1>1, <2>1, FaultyP!SerialKept
  <2>3. QED BY <1>3, <2>2, SerialParts DEF SerialInv
<1>4. CASE part = "lossless"
  <2>1. LosslessP!LInv /\ [LosslessP!Next]_(LosslessP!vars)
    BY <1>4, SerialParts DEF SerialInv
  <2>2. LosslessP!LInv'
    BY <1>1, <1>2, <2>1, LosslessP!LinkStep
  <2>3. QED BY <1>4, <2>2, SerialParts DEF SerialInv
<1>5. CASE part = "working"
  <2>1. WorkingP!LInv /\ [WorkingP!Next]_(WorkingP!vars)
    BY <1>5, SerialParts DEF SerialInv
  <2>2. WorkingP!LInv'
    BY <1>1, <1>2, <2>1, WorkingP!LinkStep
  <2>3. QED BY <1>5, <2>2, SerialParts DEF SerialInv
<1>6. QED BY <1>3, <1>4, <1>5

(* The invariant implies what the run checks. *)
LEMMA SerialHolds == ASSUME SerialInv PROVE SerialTrue
<1>1. FaultyP!SerialAssumption /\ LosslessP!SerialAssumption /\ WorkingP!SerialAssumption
  BY InterfacesAssumption, SameFaulty, SameLossless, SameWorking DEF InterfacesAssumption
<1>2. CASE part \notin {"lossless", "working"}
  <2>1. FaultyP!TypeOK /\ FaultyP!FreshAnswer /\ FaultyP!BreakpointTrue
    BY <1>1, <1>2, FaultyP!SerialPromise DEF SerialInv
  <2>2. QED BY <1>2, <2>1, Zenon DEF SerialTrue, Faulty!TypeOK, FaultyP!TypeOK, Faulty!Wants, FaultyP!Wants, Faulty!Bytes,
          FaultyP!Bytes, Faulty!FreshAnswer, FaultyP!FreshAnswer, Faulty!BreakpointTrue, FaultyP!BreakpointTrue
<1>3. CASE part = "lossless"
  <2>1. LosslessP!TypeOK /\ LosslessP!FreshAnswer /\ LosslessP!BreakpointTrue /\ LosslessP!NoHole
    BY <1>1, <1>3, LosslessP!SerialPromise DEF SerialInv, LosslessP!LInv
  <2>2. QED BY <1>3, <2>1, Zenon DEF SerialTrue, Faulty!TypeOK, LosslessP!TypeOK, Faulty!Wants, LosslessP!Wants, Faulty!Bytes,
          LosslessP!Bytes, Faulty!FreshAnswer, LosslessP!FreshAnswer, Faulty!BreakpointTrue, LosslessP!BreakpointTrue,
          Lossless!NoHole, LosslessP!NoHole
<1>4. CASE part = "working"
  <2>1. WorkingP!TypeOK /\ WorkingP!FreshAnswer /\ WorkingP!BreakpointTrue /\ WorkingP!NoHole
    BY <1>1, <1>4, WorkingP!SerialPromise DEF SerialInv, WorkingP!LInv
  <2>2. Faulty!TypeOK
    <3>1. \A n \in 0..0 : n \in 0..2
      OBVIOUS
    <3>2. QED BY <2>1, <3>1, Zenon DEF Faulty!TypeOK, WorkingP!TypeOK, Faulty!Wants, WorkingP!Wants, Faulty!Bytes,
          WorkingP!Bytes
  <2>3. QED BY <1>4, <2>1, <2>2, Zenon DEF SerialTrue, 
          Faulty!FreshAnswer, WorkingP!FreshAnswer, Faulty!BreakpointTrue, WorkingP!BreakpointTrue,
          Lossless!NoHole, WorkingP!NoHole
<1>5. QED BY <1>2, <1>3, <1>4

(* SerialReceive, SerialSendBytes, GoWaitLoop: what the run checks of the  *)
(* serial link holds because it does for all links.                        *)
THEOREM AlwaysSerialTrue == InterfacesSpec => []SerialTrue
<1>1. InterfacesInit => SerialInv
  BY SerialStarts
<1>2. SerialInv /\ [InterfacesNext]_all => SerialInv'
  BY SerialGoes
<1>3. SerialInv => SerialTrue
  BY SerialHolds
<1>4. QED BY <1>1, <1>2, <1>3, PTL DEF InterfacesSpec

(* In the part that is without collisions the two abstract links are one,  *)
(* and in the others the abstract link of the run does nothing.            *)
LEMMA LinkMoves == ASSUME SerialInv, [InterfacesNext]_all PROVE [Link!LNext]_(Link!lvars)
<1>1. part' = part
  BY SerialParts
<1>2. CASE part # "lossless"
  <2>1. UNCHANGED Link!lvars
    BY <1>1, <1>2 DEF Link!lvars
  <2>2. QED BY <2>1
<1>3. CASE part = "lossless"
  <2>1. [LosslessP!Link!LNext]_(LosslessP!Link!lvars)
    <3>1. LosslessP!SerialAssumption
      BY InterfacesAssumption, SameLossless DEF InterfacesAssumption
    <3>2. LosslessP!LInv /\ [LosslessP!Next]_(LosslessP!vars) /\ "collision" \notin {"mute"}
      BY <1>3, SerialParts DEF SerialInv
    <3>3. QED BY <3>1, <3>2, LosslessP!LinkStep
  <2>2. /\ (IF part = "lossless" THEN flushed + buffered + rest ELSE 0) = flushed + buffered + rest
        /\ (IF part = "lossless" THEN heard ELSE 0) = heard
        /\ (IF part = "lossless" THEN got ELSE 0) = got
        /\ (part = "lossless" => ~awake) = ~awake
        /\ (IF part' = "lossless" THEN flushed' + buffered' + rest' ELSE 0) = flushed' + buffered' + rest'
        /\ (IF part' = "lossless" THEN heard' ELSE 0) = heard'
        /\ (IF part' = "lossless" THEN got' ELSE 0) = got'
        /\ (part' = "lossless" => ~awake') = ~awake'
    BY <1>1, <1>3
  <2>3. QED BY <2>1, <2>2 DEF Link!LNext, Link!lvars, Link!Say, Link!Hear, Link!Answer, Link!Halt, Link!GiveUp,
      LosslessP!Link!LNext, LosslessP!Link!lvars, LosslessP!Link!Say, LosslessP!Link!Hear, LosslessP!Link!Answer,
      LosslessP!Link!Halt, LosslessP!Link!GiveUp
<1>4. QED BY <1>2, <1>3

(* The abstract link begins with nothing said. *)
LEMMA LinkBegins == InterfacesInit => Link!LInit
<1> SUFFICES ASSUME InterfacesInit PROVE Link!LInit
  OBVIOUS
<1>1. Faulty!Init
  BY DEF InterfacesInit
<1>2. flushed = 0 /\ buffered = 0 /\ rest = 0 /\ heard = 0 /\ got = 0 /\ awake \in BOOLEAN
  BY <1>1 DEF Faulty!Init
<1>3. QED BY <1>2 DEF Link!LInit

(* SerialSendBytes to SerialBreakAndSync: every step of the run's link     *)
(* without collisions is one of DwLink, or none, because it is for all of  *)
(* them.                                                                   *)
THEOREM LinkImplemented == InterfacesSpec => ImplementsLink
<1>1. InterfacesInit => SerialInv /\ Link!LInit
  BY SerialStarts, LinkBegins
<1>2. SerialInv /\ [InterfacesNext]_all => SerialInv' /\ [Link!LNext]_(Link!lvars)
  BY SerialGoes, LinkMoves
<1>3. QED BY <1>1, <1>2, PTL DEF InterfacesSpec, ImplementsLink, Link!LSpec
-----------------------------------------------------------------------------
(* The invariant of the ports that are exercised; where nothing fails the  *)
(* chip is the one that was announced.                                     *)
PortsInv ==
  /\ part = "steady" => SteadyScript!PortsInv /\ SteadyScript!Settled
  /\ part # "steady" => ShakyTyped!PortsInv

(* Every part begins in it. *)
LEMMA PortsStarts == InterfacesInit => PortsInv
<1> SUFFICES ASSUME InterfacesInit PROVE PortsInv
  OBVIOUS
<1>1. SteadyScript!P!PortsAssumption /\ ShakyTyped!P!PortsAssumption
  BY InterfacesAssumption, SameSteady, SameShaky DEF InterfacesAssumption
<1>2. SteadyScript!P!Init /\ ShakyTyped!P!Init
  <2>1. Steady!Init
    BY DEF InterfacesInit
  <2>2. SteadyScript!P!Init = ShakyTyped!P!Init
    BY Zenon DEF SteadyScript!P!Init, ShakyTyped!P!Init, SteadyScript!P!Port, ShakyTyped!P!Port, SteadyScript!P!FreshPort, ShakyTyped!P!FreshPort,
       SteadyScript!P!None, ShakyTyped!P!None, SteadyScript!P!Nothing, ShakyTyped!P!Nothing, SteadyScript!P!Ask, ShakyTyped!P!Ask,
       SteadyScript!P!AnyKind, ShakyTyped!P!AnyKind, SteadyScript!P!AnyIndex, ShakyTyped!P!AnyIndex
  <2>3. QED BY <2>1, <2>2, SameSteady
<1>3. SteadyScript!PortsInv /\ ShakyTyped!PortsInv
  BY <1>1, <1>2, SteadyScript!PortsStart, ShakyTyped!PortsStart
<1>4. SteadyScript!Settled
  BY <1>2 DEF SteadyScript!P!Init, SteadyScript!Settled
<1>5. QED BY <1>3, <1>4 DEF PortsInv

(* A step of the run is one of the ports exercised, or leaves them alone. *)
LEMMA PortsParts ==
  ASSUME [InterfacesNext]_all
  PROVE  /\ part' = part
         /\ part = "steady" => [SteadyScript!P!Next]_(SteadyScript!P!vars)
         /\ part # "steady" => [ShakyTyped!P!Next]_(ShakyTyped!P!vars)
         /\ part = "shaky" => [ShakyTyped!P!Next]_(ShakyTyped!P!vars)
<1>1. part' = part
  BY SerialParts
<1>2. UNCHANGED ports => UNCHANGED SteadyScript!P!vars /\ UNCHANGED ShakyTyped!P!vars
  BY DEF ports, SteadyScript!P!vars, ShakyTyped!P!vars
<1>3. \/ part = "steady" /\ Steady!Next
      \/ part = "shaky" /\ Shaky!Next
      \/ UNCHANGED ports
  BY Zenon DEF InterfacesNext, all, FaultyStep, LosslessStep, WorkingStep, SearchStep, SteadyStep, ShakyStep,
     ScriptStep, TypedStep, ShortStep, GdbStep, ServedStep
<1>4. QED BY <1>1, <1>2, <1>3, SameSteady, SameShaky

(* Nothing fails there, and no chip is unknown. *)
LEMMA Faultless == SteadyScript!Faultless
<1>1. Unsupported \notin {NoChip, 5, 9}
  BY InterfacesAssumption DEF InterfacesAssumption
<1>2. SteadyScript!P!Port = {1, 2, 3}
  BY DEF SteadyScript!P!Port
<1>3. QED BY <1>1, <1>2 DEF SteadyScript!Faultless

(* So every step keeps the invariant. *)
LEMMA PortsGo == ASSUME PortsInv, [InterfacesNext]_all PROVE PortsInv'
<1>1. SteadyScript!P!PortsAssumption /\ ShakyTyped!P!PortsAssumption
  BY InterfacesAssumption, SameSteady, SameShaky DEF InterfacesAssumption
<1>2. CASE part = "steady"
  <2>1. SteadyScript!PortsInv /\ SteadyScript!Settled /\ [SteadyScript!P!Next]_(SteadyScript!P!vars)
    BY <1>2, PortsParts DEF PortsInv
  <2>2. SteadyScript!PortsInv' /\ SteadyScript!Settled'
    BY <1>1, <2>1, Faultless, SteadyScript!PortsKept, SteadyScript!SettledKept
  <2>3. QED BY <1>2, <2>2, PortsParts DEF PortsInv
<1>3. CASE part # "steady"
  <2>1. ShakyTyped!PortsInv /\ [ShakyTyped!P!Next]_(ShakyTyped!P!vars)
    BY <1>3, PortsParts DEF PortsInv
  <2>2. ShakyTyped!PortsInv'
    BY <1>1, <2>1, ShakyTyped!PortsKept
  <2>3. QED BY <1>3, <2>2, PortsParts DEF PortsInv
<1>4. QED BY <1>2, <1>3

(* The invariant implies what the run checks. *)
LEMMA PortsHold == ASSUME PortsInv PROVE PortsOpen
<1>1. CASE part = "steady"
  <2>1. SteadyScript!P!TypeOK
    BY <1>1, SteadyScript!PortsTyped DEF PortsInv, SteadyScript!PortsInv
  <2>2. \A n \in 0..0 : n \in 0..2
    OBVIOUS
  <2>3. Shaky!TypeOK
    BY <2>1, <2>2, Zenon DEF Shaky!TypeOK, SteadyScript!P!TypeOK, Shaky!Port, SteadyScript!P!Port, Shaky!None, SteadyScript!P!None,
       Shaky!Bauds, SteadyScript!P!Bauds, Shaky!Right, SteadyScript!P!Right, Shaky!Wrong, SteadyScript!P!Wrong
  <2>4. QED BY <1>1, <2>3 DEF PortsOpen
<1>2. CASE part # "steady"
  <2>1. ShakyTyped!P!TypeOK /\ ShakyTyped!P!Open
    BY <1>2, ShakyTyped!PortsTyped DEF PortsInv, ShakyTyped!PortsInv
  <2>2. QED
    BY <2>1, Zenon DEF PortsOpen, Shaky!TypeOK, ShakyTyped!P!TypeOK, Shaky!Port, ShakyTyped!P!Port, Shaky!None, ShakyTyped!P!None,
       Shaky!Bauds, ShakyTyped!P!Bauds, Shaky!Right, ShakyTyped!P!Right, Shaky!Wrong, ShakyTyped!P!Wrong, Shaky!Open, ShakyTyped!P!Open
<1>3. QED BY <1>1, <1>2

(* ConnectPort, PortFail: what the run checks of open ports holds because  *)
(* it does for all ports.                                                  *)
THEOREM AlwaysPortsOpen == InterfacesSpec => []PortsOpen
<1>1. InterfacesInit => PortsInv
  BY PortsStarts
<1>2. PortsInv /\ [InterfacesNext]_all => PortsInv'
  BY PortsGo
<1>3. PortsInv => PortsOpen
  BY PortsHold
<1>4. QED BY <1>1, <1>2, <1>3, PTL DEF InterfacesSpec

(* A step of the ports exercised does what RightTarget says. *)
LEMMA TargetStep ==
  ASSUME PortsInv, [InterfacesNext]_all
  PROVE  /\ part = "steady" => Steady!AsAnnounced /\ Steady!OwnState /\ Steady!OwnType
         /\ part = "shaky"  => Shaky!AsRequested
<1>1. CASE part = "steady"
  BY <1>1, PortsParts, SteadyScript!ServedRight, SameSteady DEF PortsInv
<1>2. CASE part = "shaky"
  BY <1>2, PortsParts, ShakyTyped!StepAsRequested, SameShaky DEF PortsInv
<1>3. QED BY <1>1, <1>2

(* ConnectFirstPort, DwListDevices, DwReconnect, DwFindPort: what the run  *)
(* checks of the port that a command works with holds because it does for  *)
(* all ports.                                                              *)
THEOREM AlwaysRightTarget == InterfacesSpec => RightTarget
<1>1. InterfacesInit => PortsInv
  BY PortsStarts
<1>2. PortsInv /\ [InterfacesNext]_all => PortsInv'
  BY PortsGo
<1>3. PortsInv /\ [InterfacesNext]_all =>
        /\ part = "steady" => Steady!AsAnnounced /\ Steady!OwnState /\ Steady!OwnType
        /\ part = "shaky"  => Shaky!AsRequested
  BY TargetStep
<1>4. QED BY <1>1, <1>2, <1>3, PTL DEF InterfacesSpec, RightTarget
-----------------------------------------------------------------------------
(* They are about the inputs of the run: the file of commands, *)
LEMMA SameScript ==
  /\ Script!ILimitAssumption = SteadyScript!ILimitAssumption
  /\ Script!ConsoleAssumption = SteadyScript!ConsoleAssumption
  /\ Script!Init = SteadyScript!Init
  /\ Script!Next = SteadyScript!Next
  /\ Script!vars = SteadyScript!vars
  /\ Script!ShortCommands = SteadyScript!ShortCommands
  /\ Script!IsQueue = SteadyScript!IsQueue
BY Zenon DEF Script!ILimitAssumption, Script!Eolns, Script!Separators, Script!DwEolns,
     Script!Blanks, Script!Numeric, Script!Alpha, Script!Chars, Script!NoChar, Script!NewRing,
     Script!BufferContiguousFree, Script!BufferTotalContent, Script!NeedsMore,
     Script!ContiguousFill, Script!PreloadInput, Script!Nth, Script!NextCh, Script!Skip,
     Script!SkipCh, Script!RunLength, Script!ReadLength, Script!SkipWhile, Script!SkipEoln,
     Script!ConsoleAssumption, Script!vars, Script!Numbered, Script!Line, Script!Half,
     Script!MayFail, Script!Brief, Script!ShortCommands, Script!Fills, Script!Places,
     Script!Lengths, Script!Fill, Script!At, Script!Loop, Script!Prompt, Script!Start, Script!Again,
     Script!Quit, Script!LastUsed, Script!FailsAt, Script!HandleCommand, Script!ReadNumber,
     Script!DeviceBreak, Script!KeyboardBreak, Script!GdbBreak, Script!GdbEnds, Script!Rest,
     Script!Ends, Script!Recover, Script!Init, Script!Next, Script!Ch, Script!Content,
     Script!IsQueue, Script!Max, Script!Min, SteadyScript!ILimitAssumption, SteadyScript!Eolns,
     SteadyScript!Separators, SteadyScript!DwEolns, SteadyScript!Blanks, SteadyScript!Numeric,
     SteadyScript!Alpha, SteadyScript!Chars, SteadyScript!NoChar, SteadyScript!NewRing,
     SteadyScript!BufferContiguousFree, SteadyScript!BufferTotalContent, SteadyScript!NeedsMore,
     SteadyScript!ContiguousFill, SteadyScript!PreloadInput, SteadyScript!Nth, SteadyScript!NextCh,
     SteadyScript!Skip, SteadyScript!SkipCh, SteadyScript!RunLength, SteadyScript!ReadLength,
     SteadyScript!SkipWhile, SteadyScript!SkipEoln, SteadyScript!ConsoleAssumption,
     SteadyScript!vars, SteadyScript!Numbered, SteadyScript!Line, SteadyScript!Half,
     SteadyScript!MayFail, SteadyScript!Brief, SteadyScript!ShortCommands, SteadyScript!Fills,
     SteadyScript!Places, SteadyScript!Lengths, SteadyScript!Fill, SteadyScript!At,
     SteadyScript!Loop, SteadyScript!Prompt, SteadyScript!Start, SteadyScript!Again,
     SteadyScript!Quit, SteadyScript!LastUsed, SteadyScript!FailsAt, SteadyScript!HandleCommand,
     SteadyScript!ReadNumber, SteadyScript!DeviceBreak, SteadyScript!KeyboardBreak,
     SteadyScript!GdbBreak, SteadyScript!GdbEnds, SteadyScript!Rest, SteadyScript!Ends,
     SteadyScript!Recover, SteadyScript!Init, SteadyScript!Next, SteadyScript!Ch,
     SteadyScript!Content, SteadyScript!IsQueue, SteadyScript!Max, SteadyScript!Min

(* the lines typed at a terminal, *)
LEMMA SameTyped ==
  /\ Typed!ILimitAssumption = ShakyTyped!ILimitAssumption
  /\ Typed!ConsoleAssumption = ShakyTyped!ConsoleAssumption
  /\ Typed!Init = ShakyTyped!Init
  /\ Typed!Next = ShakyTyped!Next
  /\ Typed!vars = ShakyTyped!vars
  /\ Typed!ShortCommands = ShakyTyped!ShortCommands
  /\ Typed!IsQueue = ShakyTyped!IsQueue
  /\ Typed!AsksFirst = ShakyTyped!AsksFirst
  /\ Typed!WholeNames = ShakyTyped!WholeNames
  /\ Typed!NoneLost = ShakyTyped!NoneLost
BY Zenon DEF Typed!ILimitAssumption, Typed!Eolns, Typed!Separators, Typed!DwEolns, Typed!Blanks,
     Typed!Numeric, Typed!Alpha, Typed!Chars, Typed!NoChar, Typed!NewRing,
     Typed!BufferContiguousFree, Typed!BufferTotalContent, Typed!NeedsMore, Typed!ContiguousFill,
     Typed!PreloadInput, Typed!Nth, Typed!NextCh, Typed!Skip, Typed!SkipCh, Typed!RunLength,
     Typed!ReadLength, Typed!SkipWhile, Typed!SkipEoln, Typed!ConsoleAssumption, Typed!vars,
     Typed!Numbered, Typed!Line, Typed!Half, Typed!MayFail, Typed!Brief, Typed!ShortCommands,
     Typed!Fills, Typed!Places, Typed!Lengths, Typed!Fill, Typed!At, Typed!Loop, Typed!Prompt,
     Typed!Start, Typed!Again, Typed!Quit, Typed!LastUsed, Typed!FailsAt, Typed!HandleCommand,
     Typed!ReadNumber, Typed!DeviceBreak, Typed!KeyboardBreak, Typed!GdbBreak, Typed!GdbEnds,
     Typed!Rest, Typed!Ends, Typed!Recover, Typed!Init, Typed!Next, Typed!Ch, Typed!SameLine,
     Typed!CommandAt, Typed!NameLength, Typed!TypedToBreak, Typed!SlippedOver, Typed!Slipped,
     Typed!Content, Typed!IsQueue, Typed!WholeNames, Typed!NoneLost, Typed!AsksFirst, Typed!Max,
     Typed!Min, ShakyTyped!ILimitAssumption, ShakyTyped!Eolns, ShakyTyped!Separators,
     ShakyTyped!DwEolns, ShakyTyped!Blanks, ShakyTyped!Numeric, ShakyTyped!Alpha, ShakyTyped!Chars,
     ShakyTyped!NoChar, ShakyTyped!NewRing, ShakyTyped!BufferContiguousFree,
     ShakyTyped!BufferTotalContent, ShakyTyped!NeedsMore, ShakyTyped!ContiguousFill,
     ShakyTyped!PreloadInput, ShakyTyped!Nth, ShakyTyped!NextCh, ShakyTyped!Skip, ShakyTyped!SkipCh,
     ShakyTyped!RunLength, ShakyTyped!ReadLength, ShakyTyped!SkipWhile, ShakyTyped!SkipEoln,
     ShakyTyped!ConsoleAssumption, ShakyTyped!vars, ShakyTyped!Numbered, ShakyTyped!Line,
     ShakyTyped!Half, ShakyTyped!MayFail, ShakyTyped!Brief, ShakyTyped!ShortCommands,
     ShakyTyped!Fills, ShakyTyped!Places, ShakyTyped!Lengths, ShakyTyped!Fill, ShakyTyped!At,
     ShakyTyped!Loop, ShakyTyped!Prompt, ShakyTyped!Start, ShakyTyped!Again, ShakyTyped!Quit,
     ShakyTyped!LastUsed, ShakyTyped!FailsAt, ShakyTyped!HandleCommand, ShakyTyped!ReadNumber,
     ShakyTyped!DeviceBreak, ShakyTyped!KeyboardBreak, ShakyTyped!GdbBreak, ShakyTyped!GdbEnds,
     ShakyTyped!Rest, ShakyTyped!Ends, ShakyTyped!Recover, ShakyTyped!Init, ShakyTyped!Next,
     ShakyTyped!Ch, ShakyTyped!SameLine, ShakyTyped!CommandAt, ShakyTyped!NameLength,
     ShakyTyped!TypedToBreak, ShakyTyped!SlippedOver, ShakyTyped!Slipped, ShakyTyped!Content,
     ShakyTyped!IsQueue, ShakyTyped!WholeNames, ShakyTyped!NoneLost, ShakyTyped!AsksFirst,
     ShakyTyped!Max, ShakyTyped!Min

(* and the short files. *)
LEMMA SameShort ==
  /\ Short!ILimitAssumption = ShakyShort!ILimitAssumption
  /\ Short!ConsoleAssumption = ShakyShort!ConsoleAssumption
  /\ Short!Init = ShakyShort!Init
  /\ Short!Next = ShakyShort!Next
  /\ Short!vars = ShakyShort!vars
  /\ Short!OneRound = ShakyShort!OneRound
  /\ Short!TypeOK = ShakyShort!TypeOK
  /\ Short!StaysEmpty = ShakyShort!StaysEmpty
BY Zenon DEF Short!ILimitAssumption, Short!Eolns, Short!Separators, Short!DwEolns, Short!Blanks,
     Short!Numeric, Short!Alpha, Short!Chars, Short!NoChar, Short!NewRing,
     Short!BufferContiguousFree, Short!BufferTotalContent, Short!NeedsMore, Short!ContiguousFill,
     Short!PreloadInput, Short!Nth, Short!NextCh, Short!Skip, Short!SkipCh, Short!RunLength,
     Short!ReadLength, Short!SkipWhile, Short!SkipEoln, Short!ConsoleAssumption, Short!vars,
     Short!Numbered, Short!Line, Short!OneRound, Short!Fills, Short!Places, Short!Lengths,
     Short!Fill, Short!At, Short!Loop, Short!Prompt, Short!Start, Short!Again, Short!Quit,
     Short!LastUsed, Short!FailsAt, Short!HandleCommand, Short!ReadNumber, Short!DeviceBreak,
     Short!KeyboardBreak, Short!GdbBreak, Short!GdbEnds, Short!Rest, Short!Ends, Short!Recover,
     Short!Init, Short!Next, Short!Ch, Short!TypeOK, Short!StaysEmpty, Short!Max, Short!Min,
     ShakyShort!ILimitAssumption, ShakyShort!Eolns, ShakyShort!Separators, ShakyShort!DwEolns,
     ShakyShort!Blanks, ShakyShort!Numeric, ShakyShort!Alpha, ShakyShort!Chars, ShakyShort!NoChar,
     ShakyShort!NewRing, ShakyShort!BufferContiguousFree, ShakyShort!BufferTotalContent,
     ShakyShort!NeedsMore, ShakyShort!ContiguousFill, ShakyShort!PreloadInput, ShakyShort!Nth,
     ShakyShort!NextCh, ShakyShort!Skip, ShakyShort!SkipCh, ShakyShort!RunLength,
     ShakyShort!ReadLength, ShakyShort!SkipWhile, ShakyShort!SkipEoln, ShakyShort!ConsoleAssumption,
     ShakyShort!vars, ShakyShort!Numbered, ShakyShort!Line, ShakyShort!OneRound, ShakyShort!Fills,
     ShakyShort!Places, ShakyShort!Lengths, ShakyShort!Fill, ShakyShort!At, ShakyShort!Loop,
     ShakyShort!Prompt, ShakyShort!Start, ShakyShort!Again, ShakyShort!Quit, ShakyShort!LastUsed,
     ShakyShort!FailsAt, ShakyShort!HandleCommand, ShakyShort!ReadNumber, ShakyShort!DeviceBreak,
     ShakyShort!KeyboardBreak, ShakyShort!GdbBreak, ShakyShort!GdbEnds, ShakyShort!Rest,
     ShakyShort!Ends, ShakyShort!Recover, ShakyShort!Init, ShakyShort!Next, ShakyShort!Ch,
     ShakyShort!TypeOK, ShakyShort!StaysEmpty, ShakyShort!Max, ShakyShort!Min

-----------------------------------------------------------------------------
(* The invariant of the input that is read; in the other parts it is one   *)
(* of the short files, of which nothing is read.                           *)
ConsoleInv ==
  /\ part = "script" => SteadyScript!ConsoleInv
  /\ part = "typed" => ShakyTyped!ConsoleInv
  /\ part \notin {"script", "typed"} => ShakyShort!Round

(* What is assumed of the inputs of the run is assumed in the proofs. *)
LEMMA InputsFit ==
  /\ SteadyScript!ILimitAssumption /\ SteadyScript!ConsoleAssumption /\ SteadyScript!ShortCommands
  /\ ShakyTyped!ILimitAssumption /\ ShakyTyped!ConsoleAssumption /\ ShakyTyped!ShortCommands
  /\ ShakyShort!ILimitAssumption /\ ShakyShort!ConsoleAssumption /\ ShakyShort!OneRound
<1>1. /\ Script!ILimitAssumption
      /\ Script!ConsoleAssumption /\ Script!ShortCommands
      /\ Typed!ConsoleAssumption /\ Typed!ShortCommands
      /\ Short!ConsoleAssumption /\ Short!OneRound
  BY InterfacesAssumption DEF InterfacesAssumption
<1>2. ShakyTyped!ILimitAssumption /\ ShakyShort!ILimitAssumption
  BY DEF ShakyTyped!ILimitAssumption, ShakyShort!ILimitAssumption
<1>3. QED BY <1>1, <1>2, SameScript, SameTyped, SameShort

(* Every part begins in the invariant. *)
LEMMA ConsoleStarts == InterfacesInit => ConsoleInv
<1> SUFFICES ASSUME InterfacesInit PROVE ConsoleInv
  OBVIOUS
<1>1. CASE part = "script"
  <2>1. SteadyScript!Init
    BY <1>1, SameScript DEF InterfacesInit
  <2>2. SteadyScript!ConsoleInv
    BY <2>1, InputsFit, SteadyScript!ShortInit
  <2>3. QED BY <1>1, <2>2 DEF ConsoleInv
<1>2. CASE part = "typed"
  <2>1. ShakyTyped!Init
    BY <1>2, SameTyped DEF InterfacesInit
  <2>2. ShakyTyped!ConsoleInv
    BY <2>1, InputsFit, ShakyTyped!ShortInit
  <2>3. QED BY <1>2, <2>2 DEF ConsoleInv
<1>3. CASE part \notin {"script", "typed"}
  <2>1. ShakyShort!Init
    BY <1>3, SameShort DEF InterfacesInit
  <2>2. ShakyShort!Round
    BY <2>1, InputsFit, ShakyShort!RoundInit
  <2>3. QED BY <1>3, <2>2 DEF ConsoleInv
<1>4. QED BY <1>1, <1>2, <1>3

(* A step of the run is one of the loop exercised, or leaves it alone. *)
LEMMA ConsoleParts ==
  ASSUME [InterfacesNext]_all
  PROVE  /\ part' = part
         /\ part = "script" => [SteadyScript!Next]_(SteadyScript!vars)
         /\ part = "typed" => [ShakyTyped!Next]_(ShakyTyped!vars)
         /\ part \notin {"script", "typed"} => [ShakyShort!Next]_(ShakyShort!vars)
<1>1. part' = part
  BY SerialParts
<1>2. UNCHANGED cons =>
        UNCHANGED SteadyScript!vars /\ UNCHANGED ShakyTyped!vars /\ UNCHANGED ShakyShort!vars
  BY DEF cons, SteadyScript!vars, ShakyTyped!vars, ShakyShort!vars
<1>3. \/ part = "script" /\ Script!Next
      \/ part = "typed" /\ Typed!Next
      \/ part = "short" /\ Short!Next
      \/ UNCHANGED cons
  BY Zenon DEF InterfacesNext, all, FaultyStep, LosslessStep, WorkingStep, SearchStep, SteadyStep, ShakyStep,
     ScriptStep, TypedStep, ShortStep, GdbStep, ServedStep
<1>4. QED BY <1>1, <1>2, <1>3, SameScript, SameTyped, SameShort

(* So every step keeps the invariant, and does with the buffer what it     *)
(* should.                                                                 *)
LEMMA ConsoleGoes ==
  ASSUME ConsoleInv, [InterfacesNext]_all
  PROVE  /\ ConsoleInv'
         /\ [ /\ part = "script" => Script!IsQueue
              /\ part = "typed"  => Typed!IsQueue /\ Typed!AsksFirst
              /\ part = "short"  => Short!StaysEmpty ]_all
<1>1. CASE part = "script"
  <2>1. SteadyScript!ConsoleInv /\ [SteadyScript!Next]_(SteadyScript!vars)
    BY <1>1, ConsoleParts DEF ConsoleInv
  <2>2. SteadyScript!ConsoleInv'
    BY <2>1, InputsFit, SteadyScript!InvKept
  <2>3. SteadyScript!IsQueue
    BY <2>1, InputsFit, SteadyScript!QueueStep
  <2>4. QED BY <1>1, <2>2, <2>3, ConsoleParts, SameScript DEF ConsoleInv
<1>2. CASE part = "typed"
  <2>1. ShakyTyped!ConsoleInv /\ [ShakyTyped!Next]_(ShakyTyped!vars)
    BY <1>2, ConsoleParts DEF ConsoleInv
  <2>2. ShakyTyped!ConsoleInv'
    BY <2>1, InputsFit, ShakyTyped!InvKept
  <2>3. ShakyTyped!IsQueue /\ ShakyTyped!AsksFirst
    BY <2>1, InputsFit, ShakyTyped!QueueStep
  <2>4. QED BY <1>2, <2>2, <2>3, ConsoleParts, SameTyped DEF ConsoleInv
<1>3. CASE part \notin {"script", "typed"}
  <2>1. ShakyShort!Round /\ [ShakyShort!Next]_(ShakyShort!vars)
    BY <1>3, ConsoleParts DEF ConsoleInv
  <2>2. ShakyShort!Round'
    BY <2>1, InputsFit, ShakyShort!RoundKept
  <2>3. ShakyShort!StaysEmpty
    BY <2>1, InputsFit, ShakyShort!EmptyStep
  <2>4. QED BY <1>3, <2>2, <2>3, ConsoleParts, SameShort DEF ConsoleInv
<1>4. QED BY <1>1, <1>2, <1>3

(* The invariant implies what the run checks. *)
LEMMA ConsoleHolds == ASSUME ConsoleInv PROVE EveryCommand
<1>1. CASE part = "script"
  <2>1. /\ SteadyScript!TypeOK /\ SteadyScript!WholeNames /\ SteadyScript!NoneLost
    BY <1>1, SteadyScript!RightTypes, SteadyScript!InvPromise DEF ConsoleInv, SteadyScript!ConsoleInv
  <2>2. Short!TypeOK
    BY <2>1, Zenon DEF Short!TypeOK, Short!Places, Short!Fills, Short!Chars, Short!Eolns, Short!Separators,
     Short!Blanks, Short!Numeric, Short!Alpha, SteadyScript!TypeOK, SteadyScript!Places,
     SteadyScript!Fills, SteadyScript!Chars, SteadyScript!Eolns, SteadyScript!Separators,
     SteadyScript!Blanks, SteadyScript!Numeric, SteadyScript!Alpha
  <2>3. Typed!WholeNames /\ Typed!NoneLost
    BY <2>1, Zenon DEF Typed!BufferTotalContent, Typed!CommandAt, Typed!SameLine,
     Typed!TypedToBreak, Typed!SlippedOver, Typed!NameLength, Typed!Ch, Typed!Eolns, Typed!DwEolns,
     Typed!Separators, Typed!Blanks, Typed!Alpha, Typed!WholeNames, Typed!NoneLost, Typed!Max,
     Typed!Min, SteadyScript!BufferTotalContent, SteadyScript!CommandAt, SteadyScript!SameLine,
     SteadyScript!TypedToBreak, SteadyScript!SlippedOver, SteadyScript!NameLength, SteadyScript!Ch,
     SteadyScript!Eolns, SteadyScript!DwEolns, SteadyScript!Separators, SteadyScript!Blanks,
     SteadyScript!Alpha, SteadyScript!WholeNames, SteadyScript!NoneLost, SteadyScript!Max,
     SteadyScript!Min
  <2>4. QED BY <1>1, <2>2, <2>3 DEF EveryCommand
<1>2. CASE part = "typed"
  <2>1. ShakyTyped!TypeOK /\ ShakyTyped!WholeNames /\ ShakyTyped!NoneLost
    BY <1>2, ShakyTyped!RightTypes, ShakyTyped!InvPromise DEF ConsoleInv, ShakyTyped!ConsoleInv
  <2>2. Short!TypeOK
    BY <2>1, Zenon DEF Short!TypeOK, Short!Places, Short!Fills, Short!Chars, Short!Eolns, Short!Separators,
     Short!Blanks, Short!Numeric, Short!Alpha, ShakyTyped!TypeOK, ShakyTyped!Places,
     ShakyTyped!Fills, ShakyTyped!Chars, ShakyTyped!Eolns, ShakyTyped!Separators,
     ShakyTyped!Blanks, ShakyTyped!Numeric, ShakyTyped!Alpha
  <2>3. QED BY <1>2, <2>1, <2>2, SameTyped DEF EveryCommand
<1>3. CASE part \notin {"script", "typed"}
  <2>1. ShakyShort!TypeOK
    BY <1>3, ShakyShort!RightTypes DEF ConsoleInv, ShakyShort!Round
  <2>2. QED BY <1>3, <2>1, SameShort DEF EveryCommand
<1>4. QED BY <1>1, <1>2, <1>3

(* ParseAndHandleCommand, UI: what the run checks of the commands that are *)
(* handled holds because it does for all inputs with short commands.       *)
THEOREM AlwaysEveryCommand == InterfacesSpec => []EveryCommand
<1>1. InterfacesInit => ConsoleInv
  BY ConsoleStarts
<1>2. ConsoleInv /\ [InterfacesNext]_all => ConsoleInv'
  BY ConsoleGoes
<1>3. ConsoleInv => EveryCommand
  BY ConsoleHolds
<1>4. QED BY <1>1, <1>2, <1>3, PTL DEF InterfacesSpec

(* BufferContiguousFree, Fill, SkipCh: what the run checks of the input    *)
(* buffer holds because it does for all inputs with short commands, and    *)
(* for all that do not go around the buffer.                               *)
THEOREM AlwaysInputKept == InterfacesSpec => InputKept
<1>1. InterfacesInit => ConsoleInv
  BY ConsoleStarts
<1>2. /\ ConsoleInv /\ [InterfacesNext]_all => ConsoleInv'
      /\ ConsoleInv /\ [InterfacesNext]_all =>
           [ /\ part = "script" => Script!IsQueue
             /\ part = "typed"  => Typed!IsQueue /\ Typed!AsksFirst
             /\ part = "short"  => Short!StaysEmpty ]_all
  BY ConsoleGoes
<1>3. QED BY <1>1, <1>2, PTL DEF InterfacesSpec, InputKept
=============================================================================
