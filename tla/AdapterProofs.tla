---------------------------- MODULE AdapterProofs ----------------------------
(***************************************************************************)
(* Theorems about what the run adapter makes of UsbControl, for all        *)
(* requests, lengths of buffers and numbers of faults, of Bellpush, for    *)
(* every cycle time, number of reversals and width of the registers, of    *)
(* SpiProgram, for all data, addresses, clocks and timeouts, and of        *)
(* I2cBus, for every width of a byte, every message and every slave.       *)
(* What ends is liveness and is left to TLC.                               *)
(***************************************************************************)
EXTENDS MCAdapter, SequenceTheorems, TLAPS

(* Whatever the part that uses it: packets get lost, transfers are given   *)
(* up and the bus is reset.                                                *)
Any == INSTANCE UsbControl WITH
  Requests <- UsbRequests, Faults <- {"lost", "abandon", "reset"}, MaxFaults <- UsbFaults + LossyFaults

(***************************************************************************)
(* The inductive invariant of the transfers.                               *)
(***************************************************************************)
Rqs    == UsbRequests \union {Any!NoRequest}
Pids   == {"DATA0", "DATA1"}
Hosts  == [stage : {"idle", "done"} \union Any!Active, rq : Rqs, turn : {0, 1},
           got : Seq(Any!Packets), bytes : Nat, sent : Nat, pid : Pids]
Setups == [tok : {"SETUP"}, rq : Rqs, turn : {0, 1}]
Outs   == [tok : {"OUT"}, turn : {0, 1}, from : Nat, len : Nat]
Givens == [turn : {0, 1}, from : Nat, len : Nat, by : {"dw", "spi"}]

Types ==
  /\ host \in Hosts
  /\ rx \in {Any!Free} \union Setups \union Outs
  /\ tx = <<>> \/ \E p \in Any!Packets : tx = <<p>>
  /\ txPid \in Pids /\ msgLen \in 0..255 /\ msgFrom \in 0..255 /\ userRW \in BOOLEAN
  /\ cur \in [rq : Rqs, turn : {0, 1}, reply : 0..255, left : BOOLEAN]
  /\ dwState \in BOOLEAN /\ dwLen \in 0..128 /\ dwIn \in 0..128 /\ jobState \in {0, 20}
  /\ handled \in Seq(Givens) /\ bytesIn \in Nat
  /\ phase \in {"rx", "tx", "job"} /\ se0 \in 0..2 /\ faults \in Nat

(* The packets of a sequence follow each other from the message's first    *)
(* byte; and where the last one ends.                                      *)
Joined(q, turn) ==
  \A k \in 1..Len(q) :
    /\ q[k].turn = turn
    /\ q[k].from = IF k = 1 THEN 0 ELSE q[k - 1].from + q[k - 1].len

End(q) == IF q = <<>> THEN 0 ELSE q[Len(q)].from + q[Len(q)].len

(* Data goes to usbFunctionWrite, and only empty status packets back.      *)
Writes(c) == c.reply = 255 /\ ~Any!DirIn(c.rq)

ReplyLens == 0..255

(* The length of the answer to a request, from that of the reply.          *)
DueOf(reply_len, rq) == IF reply_len = 255 THEN rq.len ELSE Any!Min({reply_len, rq.len})

(* What usbMsgPtr has passed and usbMsgLen still has to send make the      *)
(* reply, and a packet in the transmit buffer is the last part of the      *)
(* former.                                                                 *)
Reply ==
  /\ userRW <=> cur.reply = 255
  /\ Writes(cur) => msgFrom = 0 /\ msgLen \in {0, 255}
  /\ ~Writes(cur) => msgFrom + (IF msgLen = 255 THEN 0 ELSE msgLen) = Any!Due
  /\ tx # <<>> =>
       /\ tx[1].turn = cur.turn /\ tx[1].pid = txPid
       /\ tx[1].from + tx[1].len = msgFrom
       /\ ~Writes(cur) /\ tx[1].len < 8 => msgLen = 255

(* Up to where the device's packets can have reached the host.             *)
Shown == IF tx = <<>> THEN msgFrom ELSE tx[1].from

SetupWaits == rx.tok = "SETUP"

(* A SETUP that the device has not looked at is the host's, and nothing    *)
(* else has happened in its transfer.                                      *)
Begun ==
  SetupWaits =>
    /\ rx.rq = host.rq /\ rx.turn = host.turn
    /\ host.got = <<>> /\ host.bytes = 0 /\ host.sent = 0 /\ host.pid = "DATA1"
    /\ host.stage \notin {"done", "statusOut"}

(* After that both are in the same transfer; and the host has at most what *)
(* was shown, and if it is all of it then in order.                        *)
Answer ==
  /\ host.stage \in {"in", "statusOut"} => Any!DirIn(host.rq)
  /\ host.stage \in {"out", "statusIn"} => ~Any!DirIn(host.rq)
  /\ ~SetupWaits =>
       /\ cur.rq = host.rq /\ cur.turn = host.turn
       /\ host.bytes <= End(host.got) /\ End(host.got) <= Shown
       /\ host.bytes = End(host.got) => Joined(host.got, host.turn)

(* What was sent to the device is what it was given, and one packet that   *)
(* waits.                                                                  *)
Data ==
  /\ host.sent <= host.rq.len
  /\ host.stage = "out" => host.sent < host.rq.len
  /\ host.stage \in {"statusIn", "done"} /\ ~Any!DirIn(host.rq) => host.sent = host.rq.len
  /\ rx.tok = "OUT" =>
       /\ ~Any!DirIn(host.rq) /\ rx.turn = host.turn
       /\ rx.from + rx.len = host.sent /\ rx.len > 0
  /\ ~SetupWaits /\ Writes(cur) =>
       /\ bytesIn = IF rx.tok = "OUT" THEN rx.from ELSE host.sent
       /\ bytesIn = End(handled) /\ Joined(handled, host.turn)

(* A transfer that wants data and began without a dwState left over has    *)
(* dwState for itself, or it is not set at all; and the job begins when    *)
(* all the data is there.                                                  *)
Purpose ==
  \/ /\ cur.rq.req = "flash_write" /\ ~dwState
     /\ \A k \in 1..Len(handled) : handled[k].by = "spi"
  \/ /\ cur.rq.req = "dw_out"
     /\ \A k \in 1..Len(handled) : handled[k].by = "dw"
     /\ dwState => dwLen = cur.rq.len /\ dwIn = bytesIn
     /\ (~dwState \/ jobState = 20) => bytesIn = cur.rq.len

Dwire ==
  /\ jobState = 20 => dwState
  /\ phase = "job" => jobState = 20
  /\ dwState /\ jobState = 0 => dwIn < dwLen
  /\ Writes(cur) /\ ~cur.left => Purpose

(* The addresses differ only while a new one is being set, or the bus is   *)
(* in reset.                                                               *)
Setting ==
  /\ host.rq.req = "SET_ADDRESS" /\ host.stage \in {"out", "statusIn"}
  /\ newAddr = host.rq.value[2] /\ addr \in {hostAddr, newAddr}

Addresses ==
  /\ host.stage \in Any!Active \union {"done"} => se0 = 0
  /\ se0 > 0 => hostAddr = 0
  /\ se0 = 1 /\ phase = "tx" => rx = Any!Free
  /\ se0 = 0 /\ host.stage \in {"idle", "done"} => rx = Any!Free
  /\ se0 = 0 => (newAddr = addr /\ addr = hostAddr) \/ Setting
  /\ host.rq.req = "SET_ADDRESS" /\ host.stage \in {"out", "statusIn"} /\ ~SetupWaits
       => newAddr = host.rq.value[2]

UInv == Types /\ Reply /\ Begun /\ Answer /\ Data /\ Dwire /\ Addresses

(* When nothing gets lost the host has all that was shown.                 *)
Complete ==
  /\ host.stage = "in" /\ ~SetupWaits =>
       /\ host.bytes = Shown
       /\ host.pid = IF tx = <<>> THEN Any!Toggle(txPid) ELSE tx[1].pid
  /\ host.stage \in {"statusOut", "done"} /\ Any!DirIn(host.rq) => host.bytes = Any!Due

-----------------------------------------------------------------------------
\* The smaller of two numbers.
LEMMA LeastOfTwo ==
  ASSUME NEW a \in Nat, NEW b \in Nat
  PROVE  Any!Min({a, b}) = IF a <= b THEN a ELSE b
<1>1. CASE a <= b
  <2>1. a \in {a, b} /\ \A y \in {a, b} : a <= y
    BY <1>1
  <2>2. \A x \in {a, b} : (\A y \in {a, b} : x <= y) => x = a
    BY <1>1
  <2>3. QED BY <1>1, <2>1, <2>2 DEF Any!Min
<1>2. CASE ~(a <= b)
  <2>1. b \in {a, b} /\ \A y \in {a, b} : b <= y
    BY <1>2
  <2>2. \A x \in {a, b} : (\A y \in {a, b} : x <= y) => x = b
    BY <1>2
  <2>3. QED BY <1>2, <2>1, <2>2 DEF Any!Min
<1>3. QED BY <1>1, <1>2

\* What usbProcessRx makes of a reply's length: that of the answer, unless the data goes
\* to usbFunctionWrite.
LEMMA Lengths ==
  ASSUME AdapterAssumption, NEW rq \in Rqs, NEW reply_len \in ReplyLens
  PROVE  /\ rq.len \in 0..254
         /\ DueOf(reply_len, rq) \in 0..254 /\ DueOf(reply_len, rq) <= rq.len
         /\ Any!Limited(reply_len, rq)
              = IF reply_len = 255 /\ ~Any!DirIn(rq) THEN 255 ELSE DueOf(reply_len, rq)
         /\ rq.req = "SET_ADDRESS" => ~Any!DirIn(rq)
<1>0. reply_len \in 0..255
  BY DEF ReplyLens
<1>1. rq.len \in 0..254
  BY DEF AdapterAssumption, Usb!UsbAssumption, Usb!NoMsg, Rqs, Any!NoRequest
<1>2. reply_len # 255 =>
        Any!Min({reply_len, rq.len}) = IF reply_len <= rq.len THEN reply_len ELSE rq.len
  <2>1. reply_len \in Nat /\ rq.len \in Nat
    BY <1>0, <1>1
  <2>2. QED BY <2>1, LeastOfTwo
<1>3. DueOf(reply_len, rq) \in 0..254 /\ DueOf(reply_len, rq) <= rq.len
  BY <1>0, <1>1, <1>2 DEF DueOf
<1>4. Any!Limited(reply_len, rq)
        = IF reply_len = 255 /\ ~Any!DirIn(rq) THEN 255 ELSE DueOf(reply_len, rq)
  BY Zenon DEF DueOf, Any!NoMsg, Any!Limited
<1>5. rq.req = "SET_ADDRESS" => ~Any!DirIn(rq)
  BY DEF Any!DirIn
<1>6. QED BY <1>1, <1>3, <1>4, <1>5

\* What the device replies, and which transfers it wants data for.
LEMMA Replies ==
  ASSUME AdapterAssumption, Types, NEW rq \in Rqs
  PROVE  /\ Any!ReplyLen(rq) \in 0..255
         /\ Any!ReplyLen(rq) = 255 /\ ~Any!DirIn(rq) =>
              \/ rq.req = "flash_write"
              \/ (rq.req = "dw_out" /\ rq.type = "vendor" /\ ~dwState /\ rq.len # 0)
<1>1. /\ \A req \in DOMAIN Buffers : Buffers[req] \in 0..254
      /\ rq.type \in {"standard", "vendor"}
  BY DEF AdapterAssumption, Usb!UsbAssumption, Usb!NoMsg, Rqs, Any!NoRequest
<1>2. dwLen \in 0..128 /\ dwState \in BOOLEAN
  BY DEF Types
<1>3. CASE rq.type = "standard"
  <2>1. \A type, index : Any!DescriptorLen(type, index) \in 0..254
    BY DEF Any!DescriptorLen, Any!DescriptorSizes
  <2>2. Any!usbDriverSetup(rq) \in 0..254
    BY <2>1 DEF Any!usbDriverSetup
  <2>3. QED BY <1>3, <2>2 DEF Any!ReplyLen
<1>4. CASE rq.type # "standard"
  <2>0. \A req \in {"dw_in", "dw_out", "flash_read", "flash_write"} : req \notin DOMAIN Buffers
    BY DEF AdapterAssumption, Usb!UsbAssumption
  <2>1. Any!ReplyLen(rq) = Any!FunctionReply(rq)
    BY <1>4 DEF Any!ReplyLen
  <2>2. CASE rq.req = "dw_in"
    <3>1. rq.req \notin {"dw_out", "flash_read", "flash_write"} /\ rq.req \notin DOMAIN Buffers
      BY <2>0, <2>2
    <3>2. Any!FunctionReply(rq) = IF dwState THEN 0 ELSE dwLen
      BY <2>2, <3>1 DEF Any!FunctionReply
    <3>3. QED BY <1>2, <2>1, <3>2
  <2>3. CASE rq.req = "dw_out"
    <3>1. rq.req \notin {"dw_in", "flash_read", "flash_write"} /\ rq.req \notin DOMAIN Buffers
      BY <2>0, <2>3
    <3>2. Any!FunctionReply(rq) = IF dwState \/ rq.len = 0 THEN 0 ELSE 255
      BY <2>3, <3>1 DEF Any!FunctionReply, Any!NoMsg
    <3>3. QED BY <1>1, <1>2, <1>4, <2>1, <2>3, <3>2
  <2>4. CASE rq.req \in {"flash_read", "flash_write"}
    <3>1. rq.req \notin {"dw_in", "dw_out"} /\ rq.req \notin DOMAIN Buffers
      BY <2>0, <2>4
    <3>2. Any!FunctionReply(rq) = 255
      BY <2>4, <3>1 DEF Any!FunctionReply, Any!NoMsg
    <3>3. QED BY <2>1, <2>4, <3>2 DEF Any!DirIn
  <2>5. CASE rq.req \notin {"dw_in", "dw_out", "flash_read", "flash_write"}
    <3>1. Any!FunctionReply(rq) \in 0..254
      BY <1>1, <2>5 DEF Any!FunctionReply
    <3>2. QED BY <2>1, <3>1
  <2>6. QED BY <2>2, <2>3, <2>4, <2>5
<1>5. QED BY <1>3, <1>4

\* The answer that the device has begun is no longer than the host allows.
LEMMA DueType ==
  ASSUME AdapterAssumption, Types
  PROVE  Any!Due \in 0..254 /\ Any!Due <= cur.rq.len /\ cur.rq.len \in 0..254
<1>1. cur.rq \in Rqs /\ cur.reply \in ReplyLens
  BY DEF Types, ReplyLens
<1>2. Any!Due = DueOf(cur.reply, cur.rq)
  BY DEF Any!Due, DueOf, Any!NoMsg
<1>3. QED BY <1>1, <1>2, Lengths

\* One more packet, which begins where the last one ended.
LEMMA Appended ==
  ASSUME NEW P, \A p \in P : p.from \in Nat /\ p.len \in Nat,
         NEW q \in Seq(P), NEW p \in P, NEW turn
  PROVE  /\ Append(q, p) \in Seq(P)
         /\ End(q) \in Nat
         /\ End(Append(q, p)) = p.from + p.len
         /\ Joined(q, turn) /\ p.turn = turn /\ p.from = End(q) => Joined(Append(q, p), turn)
<1>1. /\ Append(q, p) \in Seq(P) /\ Len(q) \in Nat
      /\ Len(Append(q, p)) = Len(q) + 1
      /\ \A k \in 1..Len(q) : Append(q, p)[k] = q[k]
      /\ Append(q, p)[Len(q) + 1] = p
  BY AppendProperties, LenProperties
<1>2. q = <<>> <=> Len(q) = 0
  BY EmptySeq
<1>3. End(q) \in Nat
  <2>1. CASE q # <<>>
    <3>1. Len(q) \in 1..Len(q)
      BY <1>1, <1>2, <2>1
    <3>2. q[Len(q)] \in P
      BY <3>1, ElementOfSeq
    <3>3. QED BY <2>1, <3>2 DEF End
  <2>2. QED BY <2>1 DEF End
<1>4. Append(q, p) # <<>>
  BY <1>1, EmptySeq
<1>5. End(Append(q, p)) = p.from + p.len
  BY <1>1, <1>4 DEF End
<1>6. ASSUME Joined(q, turn), p.turn = turn, p.from = End(q) PROVE Joined(Append(q, p), turn)
  <2>1. \A k \in 1..Len(q) :
          /\ Append(q, p)[k].turn = turn
          /\ Append(q, p)[k].from = IF k = 1 THEN 0
                                    ELSE Append(q, p)[k - 1].from + Append(q, p)[k - 1].len
    <3> TAKE k \in 1..Len(q)
    <3>1. k # 1 => k - 1 \in 1..Len(q)
      BY <1>1
    <3>2. QED BY <1>1, <1>6, <3>1 DEF Joined
  <2>2. p.from = IF Len(q) + 1 = 1 THEN 0 ELSE q[Len(q)].from + q[Len(q)].len
    BY <1>1, <1>2, <1>6 DEF End
  <2>3. Len(q) + 1 # 1 => Append(q, p)[Len(q) + 1 - 1] = q[Len(q)]
    BY <1>1
  <2>4. \A k \in 1..Len(q) + 1 : k \in 1..Len(q) \/ k = Len(q) + 1
    BY <1>1
  <2>5. /\ Append(q, p)[Len(q) + 1].turn = turn
        /\ Append(q, p)[Len(q) + 1].from = IF Len(q) + 1 = 1 THEN 0
             ELSE Append(q, p)[Len(q) + 1 - 1].from + Append(q, p)[Len(q) + 1 - 1].len
    BY <1>1, <1>6, <2>2, <2>3
  <2>6. QED BY <1>1, <2>1, <2>4, <2>5 DEF Joined
<1>7. QED BY <1>1, <1>3, <1>5, <1>6

\* No packets end nowhere and are in order.
LEMMA Nothing == End(<<>>) = 0 /\ \A turn : Joined(<<>>, turn)
  BY EmptySeq DEF End, Joined

\* The fields of packets.
LEMMA PacketTypes ==
  /\ \A p \in Any!Packets : p.from \in Nat /\ p.len \in Nat
  /\ \A p \in Any!Packets : p.from \in 0..255 /\ p.len \in 0..8 /\ p.pid \in Pids /\ p.turn \in {0, 1}
  /\ \A p \in Outs : p.from \in Nat /\ p.len \in Nat /\ p.turn \in {0, 1} /\ p.tok = "OUT"
  /\ \A p \in Givens : p.from \in Nat /\ p.len \in Nat
  BY DEF Any!Packets, Any!NoMsg, Any!PacketSize, Outs, Givens, Pids

-----------------------------------------------------------------------------
\* Where everything begins.
LEMMA UsbInit == ASSUME AdapterAssumption PROVE Any!Init => UInv /\ Complete
<1> SUFFICES ASSUME Any!Init PROVE UInv /\ Complete
  OBVIOUS
<1>1. /\ Any!NoRequest \in Rqs /\ Any!NoRequest.len = 0
      /\ Any!NoRequest.req = "none" /\ Any!NoRequest.type = "vendor"
  BY DEF Rqs, Any!NoRequest
<1>2. /\ host = [stage |-> "idle", rq |-> Any!NoRequest, turn |-> 0, got |-> <<>>,
                 bytes |-> 0, sent |-> 0, pid |-> "DATA1"]
      /\ hostAddr = 0 /\ rx = Any!Free /\ tx = <<>> /\ txPid = "DATA0"
      /\ msgLen = 255 /\ msgFrom = 0 /\ userRW = FALSE
      /\ cur = [rq |-> Any!NoRequest, turn |-> 0, reply |-> 0, left |-> FALSE]
      /\ dwState = FALSE /\ dwLen = 0 /\ dwIn = 0 /\ jobState = 0
      /\ newAddr = 0 /\ addr = 0 /\ handled = <<>> /\ bytesIn = 0 /\ phase = "rx"
      /\ se0 = 0 /\ faults = 0
  BY DEF Any!Init, Any!Nak, Any!NoMsg
<1>3. ~Writes(cur) /\ cur.reply = 0
  BY <1>2 DEF Writes
<1>4. Any!Due = 0
  <2>1. Any!Min({0, 0}) = 0
    BY LeastOfTwo
  <2>2. QED BY <1>1, <1>2, <2>1 DEF Any!Due, Any!NoMsg
<1>5. <<>> \in Seq(Any!Packets) /\ <<>> \in Seq(Givens)
  BY EmptySeq
<1>6. Types
  <2>1. host \in Hosts
    BY <1>1, <1>2, <1>5 DEF Hosts, Pids
  <2>2. cur \in [rq : Rqs, turn : {0, 1}, reply : 0..255, left : BOOLEAN]
    BY <1>1, <1>2
  <2>3. /\ rx \in {Any!Free} \union Setups \union Outs
        /\ tx = <<>> \/ \E p \in Any!Packets : tx = <<p>>
        /\ txPid \in Pids /\ userRW \in BOOLEAN /\ phase \in {"rx", "tx", "job"}
        /\ handled \in Seq(Givens) /\ dwState \in BOOLEAN /\ jobState \in {0, 20}
    BY <1>2, <1>5, Zenon DEF Pids
  <2>4. QED BY <1>2, <2>1, <2>2, <2>3 DEF Types
<1>7. ~SetupWaits /\ rx.tok # "OUT"
  BY <1>2 DEF SetupWaits, Any!Free
<1>8. Dwire
  BY <1>2, <1>3 DEF Dwire
<1>9. Reply
  BY <1>2, <1>3, <1>4 DEF Reply
<1>10. Begun /\ Answer /\ Data
  BY <1>1, <1>2, <1>3, <1>7, Nothing DEF Begun, Answer, Data, Shown
<1>11. Addresses
  BY <1>2 DEF Addresses, Any!Active
<1>12. Complete
  BY <1>2 DEF Complete
<1>13. QED BY <1>6, <1>8, <1>9, <1>10, <1>11, <1>12 DEF UInv

\* What is known of the fields of a host, and of a packet received.
LEMMA Fields ==
  ASSUME Types
  PROVE  /\ host.stage \in {"idle", "done", "in", "out", "statusIn", "statusOut"}
         /\ host.rq \in Rqs /\ host.turn \in {0, 1} /\ host.got \in Seq(Any!Packets)
         /\ host.bytes \in Nat /\ host.sent \in Nat /\ host.pid \in Pids
         /\ cur.rq \in Rqs /\ cur.turn \in {0, 1} /\ cur.reply \in 0..255 /\ cur.left \in BOOLEAN
         /\ rx = Any!Free \/ rx.tok = "SETUP" \/ rx.tok = "OUT"
         /\ rx.tok = "SETUP" => rx \in Setups /\ rx.rq \in Rqs /\ rx.turn \in {0, 1}
         /\ rx.tok = "OUT" => rx \in Outs /\ rx.from \in Nat /\ rx.len \in Nat /\ rx.turn \in {0, 1}
         /\ Any!Free.tok = "free"
  BY DEF Types, Hosts, Setups, Outs, Any!Free, Any!Active

\* usbProcessRx with a SETUP.
LEMMA StepSetupRx ==
  ASSUME AdapterAssumption, UInv, Any!PollRx, rx.tok = "SETUP"
  PROVE  UInv' /\ (Complete => Complete')
<1>1. /\ phase' = "tx" /\ rx' = Any!Free /\ tx' = <<>> /\ txPid' = "DATA0"
      /\ userRW' = (Any!ReplyLen(rx.rq) = 255)
      /\ msgLen' = Any!Limited(Any!ReplyLen(rx.rq), rx.rq)
      /\ msgFrom' = 0
      /\ cur' = [rq |-> rx.rq, turn |-> rx.turn, reply |-> Any!ReplyLen(rx.rq), left |-> dwState]
      /\ Any!usbFunctionSetup(rx.rq)
      /\ handled' = <<>> /\ bytesIn' = 0
      /\ newAddr' = IF rx.rq.req = "SET_ADDRESS" THEN rx.rq.value[2] ELSE newAddr
      /\ UNCHANGED <<host, hostAddr, addr, se0, faults>>
  BY DEF Any!PollRx, Any!ProcessSetup, Any!NoMsg, Any!Nak
<1>2. Types /\ Begun /\ Answer /\ Data /\ Dwire /\ Addresses
  BY DEF UInv
<1>3. /\ rx.rq = host.rq /\ rx.turn = host.turn
      /\ host.got = <<>> /\ host.bytes = 0 /\ host.sent = 0 /\ host.pid = "DATA1"
      /\ host.stage \notin {"done", "statusOut"}
  BY <1>2 DEF Begun, SetupWaits
<1>4. ~SetupWaits' /\ rx'.tok = "free"
  BY <1>1 DEF SetupWaits, Any!Free
<1> DEFINE reply_len == Any!ReplyLen(host.rq)
<1>5. /\ host.rq \in Rqs /\ host.rq.len \in 0..254 /\ reply_len \in 0..255
      /\ DueOf(reply_len, host.rq) \in 0..254
      /\ cur'.rq = host.rq /\ cur'.turn = host.turn /\ cur'.reply = reply_len /\ cur'.left = dwState
      /\ Writes(cur') <=> reply_len = 255 /\ ~Any!DirIn(host.rq)
      /\ Any!Due' = DueOf(reply_len, host.rq)
      /\ msgLen' = IF Writes(cur') THEN 255 ELSE Any!Due'
  <2>1. host.rq \in Rqs /\ reply_len \in 0..255
    <3>1. host.rq \in Rqs /\ Types
      BY <1>2, Fields
    <3>2. QED BY <3>1, Replies DEF reply_len
  <2>2. /\ host.rq.len \in 0..254 /\ DueOf(reply_len, host.rq) \in 0..254
        /\ Any!Limited(reply_len, host.rq)
             = IF reply_len = 255 /\ ~Any!DirIn(host.rq) THEN 255 ELSE DueOf(reply_len, host.rq)
    <3>1. reply_len \in ReplyLens
      BY <2>1 DEF ReplyLens
    <3>2. QED BY <2>1, <3>1, Lengths
  <2>3. cur'.rq = host.rq /\ cur'.turn = host.turn /\ cur'.reply = reply_len /\ cur'.left = dwState
    BY <1>1, <1>3
  <2>4. Writes(cur') <=> reply_len = 255 /\ ~Any!DirIn(host.rq)
    BY <2>3, Zenon DEF Writes
  <2>5. Any!Due' = DueOf(reply_len, host.rq)
    BY <2>3 DEF Any!Due, DueOf, Any!NoMsg
  <2>6. msgLen' = Any!Limited(reply_len, host.rq)
    BY <1>1, <1>3
  <2>7. msgLen' = IF Writes(cur') THEN 255 ELSE Any!Due'
    BY <2>2, <2>4, <2>5, <2>6, Zenon
  <2>8. QED BY <2>1, <2>2, <2>3, <2>4, <2>5, <2>7
<1> HIDE DEF reply_len
<1>6. Types'
  <2>1. cur' \in [rq : Rqs, turn : {0, 1}, reply : 0..255, left : BOOLEAN]
    <3>1. host.turn \in {0, 1} /\ dwState \in BOOLEAN
      BY <1>2, Fields DEF Types
    <3>2. cur' = [rq |-> host.rq, turn |-> host.turn, reply |-> reply_len, left |-> dwState]
      BY <1>1, <1>3 DEF reply_len
    <3>3. QED BY <1>5, <3>1, <3>2
  <2>2. <<>> \in Seq(Givens)
    BY EmptySeq
  <2>3. dwState' \in BOOLEAN
    BY <1>1, Zenon DEF Any!usbFunctionSetup
  <2>4. dwLen' \in 0..128 /\ dwIn' \in 0..128 /\ jobState' \in {0, 20}
    <3>1. dwLen' \in {dwLen, host.rq.len} /\ dwIn' \in {dwIn, 0} /\ jobState' \in {jobState, 20}
      BY <1>1, <1>3 DEF Any!usbFunctionSetup
    <3>2. dwLen' = host.rq.len => host.rq.req = "dw_out" \/ dwLen' = dwLen
      BY <1>1, <1>3 DEF Any!usbFunctionSetup
    <3>3. host.rq.req = "dw_out" => host.rq.len \in 0..128
      BY <1>5 DEF AdapterAssumption, Usb!UsbAssumption, Usb!DwBufSize, Rqs, Any!NoRequest
    <3>4. dwLen \in 0..128 /\ dwIn \in 0..128 /\ jobState \in {0, 20}
      BY <1>2 DEF Types
    <3>5. dwLen' \in 0..128
      BY <3>1, <3>2, <3>3, <3>4
    <3>6. QED BY <3>1, <3>4, <3>5
  <2>5. msgLen' \in 0..255
    BY <1>5
  <2>6. userRW' \in BOOLEAN
    BY <1>1
  <2>7. QED BY <1>1, <1>2, <2>1, <2>2, <2>3, <2>4, <2>5, <2>6 DEF Types, Pids
<1>7. cur'.rq = host.rq /\ cur'.turn = host.turn
  BY <1>5
<1>8. Reply'
  <2>1. userRW' <=> cur'.reply = 255
    BY <1>1, <1>3, <1>5 DEF reply_len
  <2>2. Writes(cur') => msgFrom' = 0 /\ msgLen' \in {0, 255}
    BY <1>1, <1>5
  <2>3. ~Writes(cur') => msgFrom' + (IF msgLen' = 255 THEN 0 ELSE msgLen') = Any!Due'
    <3>1. Any!Due' \in 0..254
      BY <1>5
    <3>2. ~Writes(cur') => msgLen' = Any!Due'
      BY <1>5, Zenon
    <3>3. QED BY <1>1, <3>1, <3>2
  <2>4. QED BY <1>1, <2>1, <2>2, <2>3 DEF Reply
<1>9. Begun'
  BY <1>4 DEF Begun
<1>10. Answer'
  <2>1. Shown' = 0
    BY <1>1 DEF Shown
  <2>2. QED BY <1>1, <1>2, <1>3, <1>7, <2>1, Nothing DEF Answer
<1>11. Data' /\ Dwire'
  <2>1. Data'
    BY <1>1, <1>2, <1>3, <1>4, Nothing DEF Data
  <2>2. CASE host.rq.type = "vendor" /\ host.rq.req = "dw_out" /\ ~dwState
    <3>1. dwState' /\ dwLen' = host.rq.len
      BY <1>1, <1>3, <2>2, Zenon DEF Any!usbFunctionSetup
    <3>2. host.rq.len > 0 => dwIn' = 0 /\ jobState' = jobState
      BY <1>1, <1>3, <2>2 DEF Any!usbFunctionSetup
    <3>3. host.rq.len = 0 => jobState' = 20
      BY <1>1, <1>3, <2>2 DEF Any!usbFunctionSetup
    <3>4. jobState = 0
      BY <1>2, <2>2 DEF Dwire, Types
    <3>5. dwState' /\ jobState' = 0 => dwIn' < dwLen'
      BY <1>5, <3>1, <3>2, <3>3
    <3>6. Writes(cur') /\ ~cur'.left => Purpose'
      <4>1. handled' = <<>> /\ Len(handled') = 0 /\ bytesIn' = 0
        BY <1>1, EmptySeq
      <4>2. \A k \in 1..Len(handled') : handled'[k].by = "dw"
        BY <4>1
      <4>3. Writes(cur') => host.rq.len # 0
        <5>1. host.rq \in Rqs /\ Types
          BY <1>2, Fields
        <5>2. Writes(cur') => Any!ReplyLen(host.rq) = 255 /\ ~Any!DirIn(host.rq)
          BY <1>5 DEF reply_len
        <5>3. QED BY <2>2, <5>1, <5>2, Replies
      <4>4. Writes(cur') => dwIn' = 0 /\ jobState' = 0
        BY <1>5, <3>2, <3>4, <4>3
      <4>5. QED BY <1>5, <2>2, <3>1, <4>1, <4>2, <4>4 DEF Purpose
    <3>7. phase' # "job"
      BY <1>1
    <3>8. QED BY <2>1, <3>1, <3>5, <3>6, <3>7 DEF Dwire
  <2>3. CASE ~(host.rq.type = "vendor" /\ host.rq.req = "dw_out" /\ ~dwState)
    <3>1. dwState' = dwState
      BY <1>1, <1>2, <1>3, <2>3, Zenon DEF Any!usbFunctionSetup, Types
    <3>2. dwLen' = dwLen /\ dwIn' = dwIn /\ jobState' = jobState
      BY <1>1, <1>3, <2>3 DEF Any!usbFunctionSetup
    <3>3. Writes(cur') /\ ~cur'.left => Purpose'
      <4>1. handled' = <<>> /\ Len(handled') = 0
        BY <1>1, EmptySeq
      <4>2. \A k \in 1..Len(handled') : handled'[k].by = "spi"
        BY <4>1
      <4>3. Writes(cur') => \/ host.rq.req = "flash_write"
                              \/ (host.rq.req = "dw_out" /\ host.rq.type = "vendor")
        <5>1. host.rq \in Rqs /\ Types
          BY <1>2, Fields
        <5>2. Writes(cur') => Any!ReplyLen(host.rq) = 255 /\ ~Any!DirIn(host.rq)
          BY <1>5 DEF reply_len
        <5>3. QED BY <5>1, <5>2, Replies
      <4>4. ~cur'.left => ~dwState'
        BY <1>5, <3>1, Zenon
      <4>5. ~cur'.left /\ Writes(cur') => host.rq.req = "flash_write"
        BY <1>5, <2>3, <4>3, Zenon
      <4>6. QED BY <1>5, <4>2, <4>4, <4>5, Zenon DEF Purpose
    <3>4. phase' # "job"
      BY <1>1
    <3>5. QED BY <1>2, <2>1, <3>1, <3>2, <3>3, <3>4 DEF Dwire
  <2>4. QED BY <2>2, <2>3
<1>12. Addresses'
  <2>1. se0 # 0 \/ host.stage \in {"in", "out", "statusIn"}
    BY <1>2, <1>3, Fields DEF Addresses
  <2>2. host.rq.req = "SET_ADDRESS" => newAddr' = host.rq.value[2] /\ ~Any!DirIn(host.rq)
    BY <1>1, <1>3 DEF Any!DirIn
  <2>3. host.stage = "in" => Any!DirIn(host.rq)
    BY <1>2 DEF Answer
  <2>4. se0 = 0 => (newAddr' = addr' /\ addr' = hostAddr') \/ Setting'
    <3> SUFFICES ASSUME se0 = 0 PROVE (newAddr' = addr' /\ addr' = hostAddr') \/ Setting'
      OBVIOUS
    <3>1. CASE host.rq.req = "SET_ADDRESS"
      <4>1. host.stage \in {"out", "statusIn"}
        BY <2>1, <2>2, <2>3, <3>1
      <4>2. addr = hostAddr \/ (newAddr = host.rq.value[2] /\ addr \in {hostAddr, newAddr})
        BY <1>2 DEF Addresses, Setting
      <4>3. QED BY <1>1, <2>2, <3>1, <4>1, <4>2 DEF Setting
    <3>2. CASE host.rq.req # "SET_ADDRESS"
      BY <1>1, <1>2, <1>3, <3>2 DEF Addresses, Setting
    <3>3. QED BY <3>1, <3>2
  <2>5. QED BY <1>1, <1>2, <1>4, <2>2, <2>4 DEF Addresses
<1>13. Complete => Complete'
  BY <1>1, <1>3 DEF Complete, Shown, Any!Toggle
<1>14. QED BY <1>6, <1>8, <1>9, <1>10, <1>11, <1>12, <1>13 DEF UInv

\* usbFunctionWrite, for a packet that follows what it was given before.
LEMMA DataTaken ==
  ASSUME AdapterAssumption, UInv, rx.tok = "OUT", Writes(cur), Any!usbFunctionWrite(rx), phase' = "tx",
         rx' = Any!Free, UNCHANGED <<cur, host>>
  PROVE  /\ handled' \in Seq(Givens) /\ bytesIn' \in Nat
         /\ dwState' = dwState /\ dwLen' = dwLen
         /\ dwIn' \in 0..128 /\ jobState' \in {0, 20} /\ msgLen' \in {msgLen, 0}
         /\ bytesIn' = host.sent /\ bytesIn' = End(handled') /\ Joined(handled', host.turn)
         /\ Dwire'
<1> DEFINE one == Any!Given(rx)
           last == dwIn + rx.len >= dwLen
<1>1. Types /\ Data /\ Dwire /\ Answer
  BY DEF UInv
<1>2. /\ rx.turn = host.turn /\ rx.from + rx.len = host.sent /\ rx.len > 0
      /\ rx \in Outs /\ rx.from \in Nat /\ rx.len \in Nat /\ rx.turn \in {0, 1}
      /\ host.sent <= host.rq.len /\ host.sent \in Nat /\ host.rq = cur.rq
      /\ bytesIn = rx.from /\ bytesIn = End(handled) /\ Joined(handled, host.turn)
  BY <1>1, Fields DEF Data, SetupWaits, Answer
<1>3. /\ handled' = Append(handled, one) /\ bytesIn' = bytesIn + rx.len
      /\ dwState' = dwState /\ dwLen' = dwLen
      /\ dwState => /\ dwIn' = IF last THEN dwLen ELSE dwIn + rx.len
                    /\ jobState' = IF last THEN 20 ELSE jobState
                    /\ msgLen' = IF last THEN 0 ELSE msgLen
      /\ ~dwState => msgLen' = 0 /\ UNCHANGED <<dwIn, jobState>>
  BY Zenon DEF Any!usbFunctionWrite, Any!IsLast
<1>4. /\ one.turn = rx.turn /\ one.from = rx.from /\ one.len = rx.len
      /\ dwState => one.by = "dw"
      /\ ~dwState => one.by = "spi"
  BY DEF Any!Given
<1>5. one \in Givens
  BY <1>1, <1>2 DEF Any!Given, Givens, Types
<1> HIDE DEF one, last
<1>6. handled \in Seq(Givens) /\ dwLen \in 0..128 /\ dwIn \in 0..128 /\ jobState \in {0, 20} /\ bytesIn \in Nat
      /\ dwState \in BOOLEAN
  BY <1>1 DEF Types
<1>7. /\ handled' \in Seq(Givens)
      /\ End(handled') = rx.from + rx.len /\ Joined(handled', host.turn)
  BY <1>2, <1>3, <1>4, <1>5, <1>6, PacketTypes, Appended
<1>8. bytesIn' = host.sent /\ bytesIn' \in Nat
  BY <1>2, <1>3
<1>9. dwIn' \in 0..128 /\ jobState' \in {0, 20} /\ msgLen' \in {msgLen, 0}
  <2>1. CASE dwState /\ last
    BY <1>3, <1>6, <2>1
  <2>2. CASE dwState /\ ~last
    <3>1. dwIn + rx.len < dwLen
      BY <1>2, <1>6, <2>2 DEF last
    <3>2. dwIn' = dwIn + rx.len /\ jobState' = jobState /\ msgLen' = msgLen
      BY <1>3, <2>2
    <3>3. rx.len \in Nat /\ dwIn \in 0..128 /\ dwLen \in 0..128
      BY <1>2, <1>6
    <3>4. dwIn' \in 0..128
      BY <3>1, <3>2, <3>3
    <3>5. QED BY <1>6, <3>2, <3>4
  <2>3. CASE ~dwState
    BY <1>3, <1>6, <2>3
  <2>4. QED BY <2>1, <2>2, <2>3
<1>10. /\ \A k \in 1..Len(handled') : k \in 1..Len(handled) \/ k = Len(handled) + 1
       /\ handled'[Len(handled) + 1] = one
       /\ \A k \in 1..Len(handled) : handled'[k] = handled[k]
  BY <1>3, <1>5, <1>6, AppendProperties, LenProperties
<1>11. ASSUME ~cur.left PROVE Purpose'
  <2>1. Purpose
    BY <1>1, <1>11 DEF Dwire
  <2>2. CASE cur.rq.req = "flash_write" /\ ~dwState /\ \A k \in 1..Len(handled) : handled[k].by = "spi"
    <3>1. \A k \in 1..Len(handled') : handled'[k].by = "spi"
      BY <1>4, <1>10, <2>2
    <3>2. ~dwState' /\ cur' = cur
      BY <1>3, <2>2
    <3>3. QED BY <2>2, <3>1, <3>2, Zenon DEF Purpose
  <2>3. CASE /\ cur.rq.req = "dw_out"
             /\ \A k \in 1..Len(handled) : handled[k].by = "dw"
             /\ dwState => dwLen = cur.rq.len /\ dwIn = bytesIn
             /\ (~dwState \/ jobState = 20) => bytesIn = cur.rq.len
    <3>1. bytesIn + rx.len <= cur.rq.len /\ bytesIn # cur.rq.len
      <4>1. cur.rq.len \in Nat
        BY <1>1, DueType
      <4>2. QED BY <1>2, <1>6, <4>1
    <3>2. dwState /\ jobState = 0
      BY <1>6, <2>3, <3>1
    <3>3. dwLen = cur.rq.len /\ dwIn = bytesIn
      BY <2>3, <3>2
    <3>4. /\ dwIn' = IF last THEN dwLen ELSE dwIn + rx.len
          /\ jobState' = IF last THEN 20 ELSE 0
      BY <1>3, <3>2
    <3>5. last => bytesIn' = cur.rq.len
      BY <1>2, <1>3, <1>6, <3>1, <3>3 DEF last
    <3>6. \A k \in 1..Len(handled') : handled'[k].by = "dw"
      BY <1>4, <1>10, <2>3, <3>2
    <3>7. dwIn' = bytesIn' /\ (jobState' = 20 => bytesIn' = cur.rq.len)
      <4>1. CASE last
        BY <3>3, <3>4, <3>5, <4>1
      <4>2. CASE ~last
        BY <1>3, <3>3, <3>4, <4>2
      <4>3. QED BY <4>1, <4>2
    <3>8. dwState' /\ dwLen' = cur.rq.len /\ cur' = cur
      BY <1>3, <3>2, <3>3
    <3>9. QED BY <2>3, <3>6, <3>7, <3>8 DEF Purpose
  <2>4. QED BY <2>1, <2>2, <2>3 DEF Purpose
<1>12. Dwire'
  <2>1. jobState' = 20 => dwState'
    BY <1>1, <1>3 DEF Dwire
  <2>2. dwState' /\ jobState' = 0 => dwIn' < dwLen'
    <3>1. CASE dwState /\ last
      BY <1>3, <3>1
    <3>2. CASE dwState /\ ~last
      BY <1>2, <1>3, <1>6, <3>2 DEF last
    <3>3. CASE ~dwState
      BY <1>3, <3>3
    <3>4. QED BY <3>1, <3>2, <3>3
  <2>3. QED BY <1>11, <2>1, <2>2 DEF Dwire
<1>13. dwState' = dwState /\ dwLen' = dwLen
  BY <1>3
<1>14. bytesIn' = End(handled')
  BY <1>2, <1>7, <1>8
<1>15. QED BY <1>7, <1>8, <1>9, <1>12, <1>13, <1>14

\* usbProcessRx with data.
LEMMA StepDataRx ==
  ASSUME AdapterAssumption, UInv, Any!PollRx, rx.tok = "OUT"
  PROVE  UInv' /\ (Complete => Complete')
<1>1. /\ phase' = "tx" /\ rx' = Any!Free
      /\ userRW => Any!usbFunctionWrite(rx)
      /\ ~userRW => UNCHANGED <<handled, bytesIn, dwState, dwLen, dwIn, jobState, msgLen>>
      /\ UNCHANGED <<tx, txPid, msgFrom, userRW, cur, newAddr, host, hostAddr, addr, se0, faults>>
  BY DEF Any!PollRx, Any!ProcessData, Any!dwire
<1>2. Types /\ Reply /\ Begun /\ Answer /\ Data /\ Dwire /\ Addresses
  BY DEF UInv
<1>3. ~SetupWaits /\ ~SetupWaits' /\ rx'.tok = "free"
  BY <1>1 DEF SetupWaits, Any!Free
<1>4. /\ cur.rq = host.rq /\ cur.turn = host.turn /\ ~Any!DirIn(host.rq)
  BY <1>2, <1>3 DEF Answer, Data
<1>5. userRW <=> Writes(cur)
  BY <1>2, <1>4 DEF Reply, Writes
<1>6. CASE ~Writes(cur)
  <2>1. /\ UNCHANGED <<handled, bytesIn, dwState, dwLen, dwIn, jobState, msgLen>>
        /\ UNCHANGED <<tx, txPid, msgFrom, userRW, cur, newAddr, host, hostAddr, addr, se0, faults>>
    BY <1>1, <1>5, <1>6
  <2>2. Types' /\ Reply'
    BY <1>1, <1>2, <2>1 DEF Types, Reply, Any!Due
  <2>3. Begun' /\ Answer' /\ Data'
    BY <1>1, <1>2, <1>3, <1>6, <2>1 DEF Begun, Answer, Data, Shown
  <2>4. Dwire'
    BY <1>1, <1>2, <2>1 DEF Dwire, Purpose
  <2>5. Addresses'
    BY <1>1, <1>2, <1>3, <2>1 DEF Addresses, Setting
  <2>6. Complete => Complete'
    BY <1>1, <1>3, <2>1 DEF Complete, Shown, Any!Due
  <2>7. QED BY <2>2, <2>3, <2>4, <2>5, <2>6 DEF UInv
<1>7. CASE Writes(cur)
  <2>1. /\ handled' \in Seq(Givens) /\ bytesIn' \in Nat
        /\ dwState' = dwState /\ dwLen' = dwLen
        /\ dwIn' \in 0..128 /\ jobState' \in {0, 20} /\ msgLen' \in {msgLen, 0}
        /\ bytesIn' = host.sent /\ bytesIn' = End(handled') /\ Joined(handled', host.turn)
        /\ Dwire'
    BY <1>1, <1>5, <1>7, DataTaken
  <2>2. Types'
    <3>1. msgLen' \in 0..255
      BY <1>2, <2>1 DEF Types
    <3>2. QED BY <1>1, <1>2, <2>1, <3>1 DEF Types
  <2>3. Reply'
    BY <1>1, <1>2, <1>7, <2>1 DEF Reply
  <2>4. Begun' /\ Answer'
    BY <1>1, <1>2, <1>3 DEF Begun, Answer, Shown
  <2>5. Data'
    BY <1>1, <1>2, <1>3, <2>1 DEF Data
  <2>6. Addresses'
    BY <1>1, <1>2, <1>3 DEF Addresses, Setting
  <2>7. Complete => Complete'
    BY <1>1, <1>3, <1>4 DEF Complete, Shown, Any!Due
  <2>8. QED BY <2>1, <2>2, <2>3, <2>4, <2>5, <2>6, <2>7 DEF UInv
<1>8. QED BY <1>6, <1>7

\* The first part of usbPoll.
LEMMA StepPollRx ==
  ASSUME AdapterAssumption, UInv, Any!PollRx
  PROVE  UInv' /\ (Complete => Complete')
<1>1. CASE rx.tok = "SETUP" \/ rx.tok = "OUT"
  BY <1>1, StepSetupRx, StepDataRx
<1>2. CASE rx.tok # "SETUP" /\ rx.tok # "OUT"
  <2>1. Types /\ Reply /\ Begun /\ Answer /\ Data /\ Dwire /\ Addresses
    BY DEF UInv
  <2>2. rx = Any!Free /\ rx.tok = "free"
    BY <1>2, <2>1, Fields
  <2>3. /\ phase' = "tx" /\ rx' = rx
        /\ UNCHANGED <<tx, txPid, msgLen, msgFrom, userRW, cur, newAddr, handled, bytesIn, host,
                       hostAddr, addr, se0, faults, dwState, dwLen, dwIn, jobState>>
    BY <1>2, <2>2 DEF Any!PollRx, Any!dwire
  <2>4. Types' /\ Reply'
    BY <2>1, <2>3 DEF Types, Reply, Any!Due
  <2>5. Begun' /\ Answer' /\ Data' /\ Dwire'
    BY <2>1, <2>3 DEF Begun, Answer, Data, Dwire, Purpose, SetupWaits, Shown
  <2>6. Addresses'
    BY <2>1, <2>2, <2>3 DEF Addresses, Setting, SetupWaits
  <2>7. Complete => Complete'
    BY <2>3 DEF Complete, SetupWaits, Shown, Any!Due
  <2>8. QED BY <2>4, <2>5, <2>6, <2>7 DEF UInv
<1>3. QED BY <1>1, <1>2

\* A part of at most eight bytes is sent; a shorter one is the last.
LEMMA NextPart ==
  ASSUME msgLen \in 0..254, msgFrom \in 0..255, Any!Due \in 0..254,
         msgFrom + msgLen = Any!Due,
         NEW want, want = (IF msgLen <= 8 THEN msgLen ELSE 8),
         msgFrom' = msgFrom + want, msgLen' = (IF want < 8 THEN 255 ELSE msgLen - want)
  PROVE  /\ msgFrom' \in 0..255 /\ msgLen' \in 0..255
         /\ msgFrom' + (IF msgLen' = 255 THEN 0 ELSE msgLen') = Any!Due
         /\ want < 8 => msgLen' = 255
  OBVIOUS

\* usbBuildTxBlock: the next part of the reply, with the other toggle.
LEMMA Built ==
  ASSUME Types, Reply, Any!Due \in 0..254, msgLen # 255, Any!usbBuildTxBlock
  PROVE  \E p \in Any!Packets :
           /\ tx' = <<p>> /\ p.from = msgFrom /\ p.turn = cur.turn
           /\ p.pid = Any!Toggle(txPid) /\ txPid' = p.pid /\ txPid' \in Pids
           /\ msgFrom' = p.from + p.len /\ msgFrom' \in 0..255 /\ msgLen' \in 0..255
           /\ Writes(cur) => msgFrom' = 0 /\ msgLen' = 255
           /\ ~Writes(cur) =>
                /\ msgFrom' + (IF msgLen' = 255 THEN 0 ELSE msgLen') = Any!Due
                /\ p.len < 8 => msgLen' = 255
<1> DEFINE want == Any!Min({msgLen, 8})
<1> DEFINE packet == [pid |-> Any!Toggle(txPid), turn |-> cur.turn, from |-> msgFrom, len |-> want]
<1>1. /\ msgLen \in 0..255 /\ msgFrom \in 0..255 /\ txPid \in Pids
      /\ cur.turn \in {0, 1} /\ cur.rq \in Rqs
  BY Fields DEF Types
<1>2. want = (IF msgLen <= 8 THEN msgLen ELSE 8)
  BY <1>1, LeastOfTwo
<1>3. want \in 0..8 /\ want <= msgLen
  BY <1>1, <1>2
<1>4. /\ tx' = <<packet>> /\ txPid' = Any!Toggle(txPid)
      /\ msgFrom' = msgFrom + want
      /\ msgLen' = IF want < 8 THEN 255 ELSE msgLen - want
  BY DEF Any!usbBuildTxBlock, Any!PacketSize, Any!NoMsg
<1>5. Any!Toggle(txPid) \in Pids
  BY <1>1 DEF Any!Toggle, Pids
<1>6. packet \in Any!Packets
  BY <1>1, <1>3, <1>5 DEF Any!Packets, Any!NoMsg, Any!PacketSize, Pids
<1>7. Any!Due \in 0..254
  OBVIOUS
<1>8. packet.from = msgFrom /\ packet.len = want /\ packet.turn = cur.turn /\ packet.pid = Any!Toggle(txPid)
  OBVIOUS
<1> HIDE DEF want, packet
<1>9. CASE Writes(cur)
  <2>1. msgFrom = 0 /\ msgLen = 0
    BY <1>9 DEF Reply
  <2>2. want = 0 /\ msgFrom' = 0 /\ msgLen' = 255
    BY <1>2, <1>4, <2>1
  <2>3. QED BY <1>4, <1>5, <1>6, <1>8, <1>9, <2>1, <2>2
<1>10. CASE ~Writes(cur)
  <2>1. msgFrom + msgLen = Any!Due
    BY <1>10 DEF Reply
  <2>2. /\ msgFrom' \in 0..255 /\ msgLen' \in 0..255
        /\ msgFrom' + (IF msgLen' = 255 THEN 0 ELSE msgLen') = Any!Due
        /\ want < 8 => msgLen' = 255
    <3>1. msgLen \in 0..254
      BY <1>1
    <3>2. msgFrom' = msgFrom + want /\ msgLen' = (IF want < 8 THEN 255 ELSE msgLen - want)
      BY <1>4
    <3>3. QED BY <1>1, <1>2, <1>7, <2>1, <3>1, <3>2, NextPart
  <2>3. QED BY <1>4, <1>5, <1>6, <1>8, <1>10, <2>2
<1>11. QED BY <1>9, <1>10

\* The rest of usbPoll.
LEMMA StepPollTx ==
  ASSUME AdapterAssumption, UInv, Any!PollTx
  PROVE  UInv' /\ (Complete => Complete')
<1>1. /\ phase = "tx" /\ phase' \in {"rx", "job"} /\ (phase' = "job" => jobState = 20)
      /\ \/ tx = <<>> /\ msgLen # 255 /\ Any!usbBuildTxBlock
         \/ UNCHANGED <<tx, txPid, msgFrom, msgLen>>
      /\ newAddr' = IF se0 > 0 THEN 0 ELSE newAddr
      /\ addr'    = IF se0 > 0 THEN 0 ELSE addr
      /\ se0'     = IF se0 > 0 THEN se0 - 1 ELSE 0
      /\ UNCHANGED <<host, hostAddr, rx, userRW, cur, handled, bytesIn, faults,
                     dwState, dwLen, dwIn, jobState>>
  BY DEF Any!PollTx, Any!Nak, Any!NoMsg, Any!dwire
<1>2. Types /\ Reply /\ Begun /\ Answer /\ Data /\ Dwire /\ Addresses
  BY DEF UInv
<1>3. SetupWaits' = SetupWaits /\ se0 \in 0..2 /\ se0' \in 0..2
  BY <1>1, <1>2 DEF SetupWaits, Types
<1>4. Begun' /\ Data' /\ Dwire'
  BY <1>1, <1>2, <1>3 DEF Begun, Data, Dwire, Purpose
<1>5. Addresses'
  <2>1. CASE se0 = 0
    BY <1>1, <1>2, <1>3, <2>1 DEF Addresses, Setting
  <2>2. CASE se0 > 0
    <3>1. hostAddr = 0 /\ newAddr' = 0 /\ addr' = 0
      BY <1>1, <1>2, <2>2 DEF Addresses
    <3>2. host.stage = "idle"
      BY <1>2, <2>2, Fields DEF Addresses, Any!Active
    <3>3. se0 = 1 => rx = Any!Free
      BY <1>1, <1>2 DEF Addresses
    <3>4. QED BY <1>1, <1>3, <2>2, <3>1, <3>2, <3>3 DEF Addresses, Any!Active
  <2>3. QED BY <1>3, <2>1, <2>2
<1>6. CASE UNCHANGED <<tx, txPid, msgFrom, msgLen>>
  <2>1. Types'
    BY <1>1, <1>2, <1>3, <1>6 DEF Types
  <2>2. Reply' /\ Answer'
    BY <1>1, <1>2, <1>3, <1>6 DEF Reply, Answer, Shown, Any!Due
  <2>3. Complete => Complete'
    BY <1>1, <1>3, <1>6 DEF Complete, Shown, Any!Due
  <2>4. QED BY <1>4, <1>5, <2>1, <2>2, <2>3 DEF UInv
<1>7. CASE tx = <<>> /\ msgLen # 255 /\ Any!usbBuildTxBlock
  <2>1. PICK p \in Any!Packets :
           /\ tx' = <<p>> /\ p.from = msgFrom /\ p.turn = cur.turn
           /\ p.pid = Any!Toggle(txPid) /\ txPid' = p.pid /\ txPid' \in Pids
           /\ msgFrom' = p.from + p.len /\ msgFrom' \in 0..255 /\ msgLen' \in 0..255
           /\ Writes(cur) => msgFrom' = 0 /\ msgLen' = 255
           /\ ~Writes(cur) =>
                /\ msgFrom' + (IF msgLen' = 255 THEN 0 ELSE msgLen') = Any!Due
                /\ p.len < 8 => msgLen' = 255
    <3>1. Any!Due \in 0..254
      BY <1>2, DueType
    <3>2. QED BY <1>2, <1>7, <3>1, Built
  <2>2. tx' # <<>> /\ tx'[1] = p
    BY <2>1
  <2>3. Types'
    BY <1>1, <1>2, <1>3, <2>1 DEF Types
  <2>4. Reply'
    BY <1>1, <1>2, <2>1, <2>2 DEF Reply, Any!Due
  <2>5. Shown' = Shown
    BY <1>7, <2>1, <2>2 DEF Shown
  <2>6. Answer'
    BY <1>1, <1>2, <1>3, <2>5 DEF Answer
  <2>7. Complete => Complete'
    BY <1>1, <1>3, <1>7, <2>1, <2>2, <2>5 DEF Complete, Any!Due
  <2>8. QED BY <1>4, <1>5, <2>3, <2>4, <2>6, <2>7 DEF UInv
<1>8. QED BY <1>1, <1>6, <1>7

\* A new transfer begins.
LEMMA StepSetup ==
  ASSUME AdapterAssumption, UInv, NEW rq \in UsbRequests, Any!Setup(rq)
  PROVE  UInv' /\ (Complete => Complete')
<1>1. /\ se0 = 0 /\ hostAddr = addr /\ rx = Any!Free
      /\ host.stage \in Any!Active => host.rq.req # "SET_ADDRESS"
      /\ faults' = faults \/ faults' = faults + 1
      /\ rx' = [tok |-> "SETUP", rq |-> rq, turn |-> 1 - host.turn]
      /\ host' = [stage |-> Any!FirstStage(rq), rq |-> rq, turn |-> 1 - host.turn,
                  got |-> <<>>, bytes |-> 0, sent |-> 0, pid |-> "DATA1"]
      /\ UNCHANGED <<hostAddr, tx, txPid, msgLen, msgFrom, userRW, cur, newAddr, addr, handled,
                     bytesIn, phase, se0, dwState, dwLen, dwIn, jobState>>
  BY DEF Any!Setup, Any!Listens, Any!Fault, Any!dwire
<1>2. Types /\ Reply /\ Begun /\ Answer /\ Data /\ Dwire /\ Addresses
  BY DEF UInv
<1>3. /\ rq \in Rqs /\ rq.len \in 0..254 /\ 1 - host.turn \in {0, 1}
  <2>1. rq \in Rqs /\ 0 \in ReplyLens
    BY DEF Rqs, ReplyLens
  <2>2. QED BY <1>2, <2>1, Lengths, Fields
<1>4. /\ Any!FirstStage(rq) \in {"in", "out", "statusIn"}
      /\ Any!FirstStage(rq) = "in" <=> Any!DirIn(rq)
      /\ Any!FirstStage(rq) = "out" => 0 < rq.len
      /\ Any!FirstStage(rq) = "statusIn" => rq.len = 0
  BY <1>3 DEF Any!FirstStage
<1>5. SetupWaits' /\ rx'.rq = host'.rq /\ rx'.turn = host'.turn
  BY <1>1 DEF SetupWaits
<1>6. /\ host'.stage = Any!FirstStage(rq) /\ host'.rq = rq /\ host'.got = <<>>
      /\ host'.bytes = 0 /\ host'.sent = 0 /\ host'.pid = "DATA1"
  BY <1>1
<1>7. Types'
  <2>1. host' \in Hosts
    <3>1. <<>> \in Seq(Any!Packets)
      BY EmptySeq
    <3>2. QED BY <1>1, <1>3, <1>4, <3>1 DEF Hosts, Pids, Any!Active
  <2>2. rx' \in Setups
    BY <1>1, <1>3 DEF Setups
  <2>3. faults' \in Nat
    BY <1>1, <1>2 DEF Types
  <2>4. QED BY <1>1, <1>2, <2>1, <2>2, <2>3 DEF Types
<1>8. Reply' /\ Dwire'
  BY <1>1, <1>2 DEF Reply, Any!Due, Dwire, Purpose
<1>9. Begun'
  BY <1>4, <1>5, <1>6 DEF Begun
<1>10. Answer'
  BY <1>4, <1>5, <1>6 DEF Answer
<1>11. Data'
  <2>1. rx'.tok # "OUT"
    BY <1>1
  <2>2. host'.sent <= host'.rq.len
    <3>1. rq.len \in Nat /\ 0 <= rq.len
      BY <1>3
    <3>2. QED BY <1>6, <3>1
  <2>3. host'.stage = "out" => host'.sent < host'.rq.len
    BY <1>4, <1>6
  <2>4. host'.stage \in {"statusIn", "done"} => host'.sent = host'.rq.len
    BY <1>4, <1>6
  <2>5. QED BY <1>5, <2>1, <2>2, <2>3, <2>4 DEF Data
<1>12. Addresses'
  <2>1. newAddr = addr /\ addr = hostAddr
    BY <1>1, <1>2 DEF Addresses, Setting, Any!Active
  <2>2. QED BY <1>1, <1>4, <1>5, <1>6, <2>1 DEF Addresses
<1>13. Complete'
  BY <1>4, <1>5, <1>6 DEF Complete
<1>14. QED BY <1>7, <1>8, <1>9, <1>10, <1>11, <1>12, <1>13 DEF UInv

\* What the host has and the packet it gets.
LEMMA GotEnd ==
  ASSUME NEW q \in Seq(Any!Packets)
  PROVE  /\ End(q) \in Nat
         /\ \A p \in Any!Packets :
              /\ Append(q, p) \in Seq(Any!Packets)
              /\ End(Append(q, p)) = p.from + p.len
              /\ \A turn : Joined(q, turn) /\ p.turn = turn /\ p.from = End(q)
                            => Joined(Append(q, p), turn)
<1>1. \A p \in Any!Packets : p.from \in Nat /\ p.len \in Nat
  BY PacketTypes
<1>2. ASSUME NEW p \in Any!Packets
      PROVE  /\ End(q) \in Nat
             /\ Append(q, p) \in Seq(Any!Packets)
             /\ End(Append(q, p)) = p.from + p.len
             /\ \A turn : Joined(q, turn) /\ p.turn = turn /\ p.from = End(q)
                           => Joined(Append(q, p), turn)
  BY <1>1, Appended
<1>3. [pid |-> "DATA0", turn |-> 0, from |-> 0, len |-> 0] \in Any!Packets
  BY DEF Any!Packets, Any!NoMsg, Any!PacketSize
<1>4. QED BY <1>2, <1>3

\* A packet of the data that is left.
LEMMA PartOf ==
  ASSUME NEW s \in Nat, NEW n \in 0..254, s < n
  PROVE  Any!Min({8, n - s}) \in Nat /\ Any!Min({8, n - s}) > 0 /\ s + Any!Min({8, n - s}) <= n
<1>1. n - s \in Nat
  OBVIOUS
<1>2. Any!Min({8, n - s}) = IF 8 <= n - s THEN 8 ELSE n - s
  BY <1>1, LeastOfTwo
<1>3. QED BY <1>1, <1>2

\* A packet leaves the transmit buffer, and the host takes it, drops it as a repetition,
\* or does not get it.
LEMMA StepIn ==
  ASSUME AdapterAssumption, UInv, Any!In
  PROVE  UInv'
<1>1. /\ host.stage \in {"in", "statusIn"} /\ se0 = 0 /\ hostAddr = addr /\ rx = Any!Free
      /\ tx # <<>> /\ tx' = <<>> /\ addr' = newAddr
      /\ UNCHANGED <<rx, txPid, msgLen, msgFrom, userRW, cur, newAddr, handled, bytesIn, phase, se0,
                     dwState, dwLen, dwIn, jobState>>
      /\ \/ Any!Accept(tx[1]) /\ UNCHANGED faults
         \/ faults' = faults + 1 /\ UNCHANGED <<host, hostAddr>>
  BY DEF Any!In, Any!InReady, Any!Listens, Any!Nak, Any!NextAddr, Any!Fault, Any!dwire
<1>2. Types /\ Reply /\ Begun /\ Answer /\ Data /\ Dwire /\ Addresses
  BY DEF UInv
<1>3. ~SetupWaits /\ ~SetupWaits' /\ rx.tok # "OUT"
  BY <1>1 DEF SetupWaits, Any!Free
<1>4. PICK p \in Any!Packets : tx = <<p>> /\ tx[1] = p
  BY <1>1, <1>2 DEF Types
<1>5. /\ p.turn = host.turn /\ p.from + p.len = msgFrom
      /\ p.from \in Nat /\ p.len \in Nat /\ p.len \in 0..8
      /\ cur.rq = host.rq /\ cur.turn = host.turn
  <2>1. p.from \in Nat /\ p.len \in Nat /\ p.len \in 0..8
    BY PacketTypes
  <2>2. cur.rq = host.rq /\ cur.turn = host.turn
    BY <1>2, <1>3 DEF Answer
  <2>3. p.turn = cur.turn /\ p.from + p.len = msgFrom
    BY <1>1, <1>2, <1>4 DEF Reply
  <2>4. QED BY <2>1, <2>2, <2>3
<1>6. Shown = p.from /\ Shown' = msgFrom
  BY <1>1, <1>4 DEF Shown
<1>7. Reply' /\ Dwire'
  BY <1>1, <1>2 DEF Reply, Any!Due, Dwire, Purpose
<1>8. /\ host.bytes \in Nat /\ End(host.got) \in Nat
      /\ host.bytes <= End(host.got) /\ End(host.got) <= p.from
      /\ host.bytes = End(host.got) => Joined(host.got, host.turn)
  <2>1. host.got \in Seq(Any!Packets) /\ host.bytes \in Nat
    BY <1>2, Fields
  <2>2. End(host.got) \in Nat
    BY <2>1, GotEnd
  <2>3. QED BY <1>2, <1>3, <1>6, <2>1, <2>2 DEF Answer
<1>9. newAddr = addr \/ (Setting /\ host.stage = "statusIn")
  BY <1>1, <1>2 DEF Addresses, Setting
<1>10. faults' \in Nat
  BY <1>1, <1>2 DEF Types
<1>11. CASE UNCHANGED <<host, hostAddr>>
  <2>1. Types'
    BY <1>1, <1>2, <1>10, <1>11 DEF Types
  <2>2. Begun' /\ Data'
    BY <1>1, <1>2, <1>3, <1>11 DEF Begun, Data
  <2>3. Answer'
    <3>1. End(host.got) <= Shown'
      BY <1>5, <1>6, <1>8
    <3>2. QED BY <1>1, <1>2, <1>3, <1>8, <1>11, <3>1 DEF Answer
  <2>4. Addresses'
    BY <1>1, <1>2, <1>3, <1>9, <1>11 DEF Addresses, Setting
  <2>5. QED BY <1>7, <2>1, <2>2, <2>3, <2>4 DEF UInv
<1>12. CASE Any!Accept(p) /\ p.pid = host.pid /\ host.stage = "in"
  <2>1. /\ host' = [host EXCEPT !.got = Append(host.got, p), !.bytes = host.bytes + p.len,
                      !.pid = Any!Toggle(host.pid),
                      !.stage = IF p.len < 8 \/ host.bytes + p.len >= host.rq.len
                                THEN "statusOut" ELSE "in"]
        /\ hostAddr' = hostAddr
    BY <1>12 DEF Any!Accept, Any!PacketSize
  <2>2. /\ host'.got = Append(host.got, p) /\ host'.bytes = host.bytes + p.len
        /\ host'.stage \in {"in", "statusOut"}
        /\ host'.rq = host.rq /\ host'.turn = host.turn /\ host'.sent = host.sent
    BY <1>2, <2>1 DEF Types, Hosts
  <2>3. /\ Append(host.got, p) \in Seq(Any!Packets)
        /\ End(Append(host.got, p)) = p.from + p.len
        /\ Joined(host.got, host.turn) /\ p.from = End(host.got) => Joined(Append(host.got, p), host.turn)
    <3>1. host.got \in Seq(Any!Packets)
      BY <1>2, Fields
    <3>2. QED BY <1>5, <3>1, GotEnd
  <2>4. Types'
    <3>1. Any!Toggle(host.pid) \in Pids
      BY DEF Any!Toggle, Pids
    <3>2. host.bytes + p.len \in Nat
      BY <1>5, <1>8
    <3>3. host' \in Hosts
      BY <1>2, <2>1, <2>3, <3>1, <3>2 DEF Types, Hosts, Any!Active
    <3>4. QED BY <1>1, <1>2, <1>10, <3>3 DEF Types
  <2>5. Begun'
    BY <1>3 DEF Begun
  <2>6. Answer'
    <3>1. Any!DirIn(host.rq)
      BY <1>2, <1>12 DEF Answer
    <3>2. /\ host'.bytes <= End(host'.got) /\ End(host'.got) <= Shown'
          /\ host'.bytes = End(host'.got) => host.bytes = End(host.got) /\ p.from = End(host.got)
      BY <1>5, <1>6, <1>8, <2>2, <2>3
    <3>3. host'.bytes = End(host'.got) => Joined(host'.got, host'.turn)
      BY <1>8, <2>2, <2>3, <3>2
    <3>4. QED BY <1>1, <1>5, <2>2, <3>1, <3>2, <3>3 DEF Answer
  <2>7. Data'
    BY <1>1, <1>2, <1>3, <1>12, <2>2, Fields DEF Data, Answer
  <2>8. Addresses'
    <3>1. newAddr = addr /\ addr = hostAddr
      BY <1>1, <1>2, <1>9, <1>12
    <3>2. ~(host.stage \in {"out", "statusIn"}) /\ ~(host'.stage \in {"out", "statusIn", "idle", "done"})
      BY <1>12, <2>2
    <3>3. QED BY <1>1, <1>3, <2>1, <2>2, <3>1, <3>2 DEF Addresses
  <2>9. QED BY <1>7, <2>4, <2>5, <2>6, <2>7, <2>8 DEF UInv
<1>13. CASE Any!Accept(p) /\ p.pid = host.pid /\ host.stage = "statusIn"
  <2>1. /\ host' = [host EXCEPT !.stage = "done"]
        /\ hostAddr' = IF host.rq.req = "SET_ADDRESS" THEN host.rq.value[2] ELSE hostAddr
    BY <1>13 DEF Any!Accept
  <2>2. /\ host'.got = host.got /\ host'.bytes = host.bytes /\ host'.stage = "done"
        /\ host'.rq = host.rq /\ host'.turn = host.turn /\ host'.sent = host.sent
    BY <1>2, <2>1 DEF Types, Hosts
  <2>3. Types'
    <3>1. host' \in Hosts
      BY <1>2, <2>1 DEF Types, Hosts
    <3>2. QED BY <1>1, <1>2, <1>10, <3>1 DEF Types
  <2>4. Begun'
    BY <1>3 DEF Begun
  <2>5. Answer'
    <3>1. End(host'.got) <= Shown'
      BY <1>5, <1>6, <1>8, <2>2
    <3>2. QED BY <1>1, <1>5, <1>8, <2>2, <3>1 DEF Answer
  <2>6. Data'
    BY <1>1, <1>2, <1>3, <1>13, <2>2 DEF Data
  <2>7. Addresses'
    <3>1. newAddr' = addr' /\ addr' = hostAddr'
      <4>1. CASE host.rq.req = "SET_ADDRESS"
        BY <1>1, <1>2, <1>3, <1>13, <2>1, <4>1 DEF Addresses
      <4>2. CASE host.rq.req # "SET_ADDRESS"
        BY <1>1, <1>9, <2>1, <4>2 DEF Setting
      <4>3. QED BY <4>1, <4>2
    <3>2. QED BY <1>1, <2>2, <3>1 DEF Addresses
  <2>8. QED BY <1>7, <2>3, <2>4, <2>5, <2>6, <2>7 DEF UInv
<1>14. CASE Any!Accept(p) /\ p.pid # host.pid
  BY <1>11, <1>14 DEF Any!Accept
<1>15. QED BY <1>1, <1>4, <1>11, <1>12, <1>13, <1>14

\* What the host takes when nothing gets lost is the next part, and at the end all of it.
LEMMA StepInComplete ==
  ASSUME AdapterAssumption, UInv, Complete, Any!In, UNCHANGED faults
  PROVE  Complete'
<1>1. /\ host.stage \in {"in", "statusIn"} /\ rx = Any!Free
      /\ tx # <<>> /\ tx' = <<>>
      /\ UNCHANGED <<rx, txPid, msgLen, msgFrom, userRW, cur>>
      /\ Any!Accept(tx[1]) \/ faults' = faults + 1
  BY DEF Any!In, Any!InReady, Any!Nak, Any!Fault
<1>2. Types /\ Reply /\ Answer
  BY DEF UInv
<1>3. Any!Accept(tx[1])
  BY <1>1, <1>2 DEF Types
<1>4. ~SetupWaits /\ ~SetupWaits'
  BY <1>1 DEF SetupWaits, Any!Free
<1>5. PICK p \in Any!Packets : tx = <<p>> /\ tx[1] = p
  BY <1>1, <1>2 DEF Types
<1>6. CASE host.stage = "in"
  <2>1. /\ host.bytes = p.from /\ host.pid = p.pid /\ host.bytes \in Nat
        /\ p.len \in 0..8 /\ p.pid = txPid /\ p.from + p.len = msgFrom /\ msgFrom \in 0..255
        /\ cur.rq = host.rq /\ Any!DirIn(host.rq) /\ ~Writes(cur)
        /\ p.len < 8 => msgLen = 255
        /\ msgFrom + (IF msgLen = 255 THEN 0 ELSE msgLen) = Any!Due
        /\ msgLen \in 0..255 /\ Any!Due' = Any!Due
    BY <1>1, <1>2, <1>4, <1>5, <1>6, Fields, PacketTypes DEF Complete, Shown, Reply, Answer, Types, Writes,
       Any!Due
  <2>2. /\ host'.bytes = host.bytes + p.len /\ host'.pid = Any!Toggle(host.pid)
        /\ host'.stage = (IF p.len < 8 \/ host.bytes + p.len >= host.rq.len THEN "statusOut" ELSE "in")
        /\ host'.rq = host.rq
    <3>1. host' = [host EXCEPT !.got = Append(host.got, p), !.bytes = host.bytes + p.len,
                     !.pid = Any!Toggle(host.pid),
                     !.stage = IF p.len < 8 \/ host.bytes + p.len >= host.rq.len
                               THEN "statusOut" ELSE "in"]
      BY <1>3, <1>5, <1>6, <2>1 DEF Any!Accept, Any!PacketSize
    <3>2. QED BY <1>2, <3>1 DEF Types, Hosts
  <2>3. Any!Due \in 0..254 /\ Any!Due <= host.rq.len /\ host.rq.len \in 0..254
    BY <1>2, <2>1, DueType
  <2>4. host'.bytes = msgFrom
    BY <2>1, <2>2
  <2>5. Shown' = msgFrom
    BY <1>1 DEF Shown
  <2>6. host'.stage = "statusOut" => host'.bytes = Any!Due
    <3>1. CASE p.len < 8
      BY <2>1, <2>2, <2>3, <2>4, <3>1
    <3>2. CASE host.bytes + p.len >= host.rq.len
      <4>1. msgFrom >= host.rq.len
        BY <2>2, <2>4, <3>2
      <4>2. msgFrom <= Any!Due
        <5>1. msgFrom + (IF msgLen = 255 THEN 0 ELSE msgLen) = Any!Due
          BY <2>1
        <5>2. msgFrom \in Nat /\ (IF msgLen = 255 THEN 0 ELSE msgLen) \in Nat
          BY <2>1
        <5> DEFINE toSend == IF msgLen = 255 THEN 0 ELSE msgLen
                   asked == Any!Due
        <5>3. msgFrom \in Nat /\ toSend \in Nat /\ asked = msgFrom + toSend
          BY <5>1, <5>2
        <5> HIDE DEF toSend, asked
        <5>4. msgFrom <= asked
          BY ONLY <5>3, SMTT(30)
        <5>5. QED BY <5>4 DEF asked
      <4>3. QED BY <2>1, <2>2, <2>3, <2>4, <4>1, <4>2, SMTT(60), ZenonT(60)
    <3>3. QED BY <2>2, <3>1, <3>2
  <2>7. QED BY <1>1, <1>4, <2>1, <2>2, <2>4, <2>5, <2>6 DEF Complete
<1>7. CASE host.stage = "statusIn"
  <2>1. ~Any!DirIn(host.rq)
    BY <1>2, <1>7 DEF Answer
  <2>2. host'.rq = host.rq /\ host'.stage \in {"statusIn", "done"}
    BY <1>2, <1>3, <1>5, <1>7 DEF Any!Accept, Types, Hosts
  <2>3. QED BY <2>1, <2>2 DEF Complete
<1>8. QED BY <1>1, <1>6, <1>7

\* The host sends data.
LEMMA StepOut ==
  ASSUME AdapterAssumption, UInv, Any!Out
  PROVE  UInv' /\ (Complete => Complete')
<1> DEFINE part_len == Any!Min({8, host.rq.len - host.sent})
<1>1. /\ host.stage = "out" /\ se0 = 0 /\ rx = Any!Free
      /\ rx' = [tok |-> "OUT", turn |-> host.turn, from |-> host.sent, len |-> part_len]
      /\ host' = [host EXCEPT !.sent = @ + part_len,
                    !.stage = IF host.sent + part_len = host.rq.len THEN "statusIn" ELSE "out"]
      /\ UNCHANGED <<hostAddr, tx, txPid, msgLen, msgFrom, userRW, cur, newAddr, addr, handled,
                     bytesIn, phase, se0, faults, dwState, dwLen, dwIn, jobState>>
  BY DEF Any!Out, Any!Listens, Any!PacketSize, Any!dwire
<1>2. Types /\ Reply /\ Begun /\ Answer /\ Data /\ Dwire /\ Addresses
  BY DEF UInv
<1>3. /\ host.sent \in Nat /\ host.rq.len \in 0..254 /\ host.sent < host.rq.len
      /\ ~Any!DirIn(host.rq)
  <2>1. host.rq.len \in 0..254
    <3>1. host.rq \in Rqs /\ 0 \in ReplyLens
      BY <1>2, Fields DEF ReplyLens
    <3>2. QED BY <3>1, Lengths
  <2>2. QED BY <1>1, <1>2, <2>1, Fields DEF Data, Answer
<1>4. part_len \in Nat /\ part_len > 0 /\ host.sent + part_len <= host.rq.len
  BY <1>3, PartOf
<1> HIDE DEF part_len
<1>5. ~SetupWaits /\ ~SetupWaits' /\ rx'.tok = "OUT" /\ rx.tok # "OUT"
  BY <1>1 DEF SetupWaits, Any!Free
<1>6. /\ host'.got = host.got /\ host'.bytes = host.bytes
      /\ host'.rq = host.rq /\ host'.turn = host.turn /\ host'.sent = host.sent + part_len
      /\ host'.stage = IF host.sent + part_len = host.rq.len THEN "statusIn" ELSE "out"
  BY <1>1, <1>2 DEF Types, Hosts
<1>7. Types'
  <2>1. host.sent + part_len \in Nat
    BY <1>3, <1>4
  <2>2. host' \in Hosts
    BY <1>1, <1>2, <2>1 DEF Types, Hosts, Any!Active
  <2>3. rx' \in Outs
    BY <1>1, <1>2, <1>3, <1>4, Fields DEF Outs
  <2>4. QED BY <1>1, <1>2, <2>2, <2>3 DEF Types
<1>8. Reply' /\ Dwire'
  BY <1>1, <1>2 DEF Reply, Any!Due, Dwire, Purpose
<1>9. Begun'
  BY <1>5 DEF Begun
<1>10. Shown' = Shown
  BY <1>1 DEF Shown
<1>11. Answer'
  BY <1>1, <1>2, <1>3, <1>5, <1>6, <1>10 DEF Answer
<1>12. Data'
  <2>1. /\ host'.sent <= host'.rq.len
        /\ host'.stage = "out" => host'.sent < host'.rq.len
        /\ host'.stage \in {"statusIn", "done"} => host'.sent = host'.rq.len
    BY <1>3, <1>4, <1>6
  <2>2. rx'.turn = host'.turn /\ rx'.from + rx'.len = host'.sent /\ rx'.from = host.sent /\ rx'.len > 0
    BY <1>1, <1>4, <1>6
  <2>3. Writes(cur) => bytesIn = host.sent /\ bytesIn = End(handled) /\ Joined(handled, host.turn)
    BY <1>2, <1>5 DEF Data
  <2>4. QED BY <1>1, <1>3, <1>5, <1>6, <2>1, <2>2, <2>3 DEF Data
<1>13. Addresses'
  BY <1>1, <1>2, <1>5, <1>6 DEF Addresses, Setting, Any!Active
<1>14. Complete'
  BY <1>3, <1>6 DEF Complete
<1>15. QED BY <1>7, <1>8, <1>9, <1>11, <1>12, <1>13, <1>14 DEF UInv

\* The end of an answer, and a reset of the bus.
LEMMA StepStage ==
  ASSUME AdapterAssumption, UInv, Any!StatusOut \/ Any!BusReset
  PROVE  UInv' /\ (Complete => Complete')
<1>1. Types /\ Reply /\ Begun /\ Answer /\ Data /\ Dwire /\ Addresses
  BY DEF UInv
<1>2. UNCHANGED <<rx, tx, txPid, msgLen, msgFrom, userRW, cur, newAddr, addr, handled, bytesIn, phase,
                  dwState, dwLen, dwIn, jobState>>
  BY DEF Any!StatusOut, Any!BusReset, Any!device, Any!dwire
<1>3. PICK stage \in {"idle", "done"} : host' = [host EXCEPT !.stage = stage]
  BY DEF Any!StatusOut, Any!BusReset
<1>4. /\ host'.got = host.got /\ host'.bytes = host.bytes /\ host'.stage = stage
      /\ host'.rq = host.rq /\ host'.turn = host.turn /\ host'.sent = host.sent
      /\ host'.pid = host.pid
  BY <1>1, <1>3 DEF Types, Hosts
<1>5. /\ stage = "done" => host.stage = "statusOut" /\ rx = Any!Free /\ se0 = 0
                          /\ UNCHANGED <<hostAddr, se0, faults>>
      /\ stage = "idle" => se0 = 0 /\ se0' = 2 /\ hostAddr' = 0 /\ faults' = faults + 1
  <2>1. CASE Any!StatusOut
    <3>1. host'.stage = "done"
      BY <1>1, <2>1 DEF Any!StatusOut, Types, Hosts
    <3>2. /\ host.stage = "statusOut" /\ rx = Any!Free /\ se0 = 0
          /\ UNCHANGED <<hostAddr, se0, faults>>
      BY <2>1 DEF Any!StatusOut, Any!Listens
    <3>3. QED BY <1>4, <3>1, <3>2
  <2>2. CASE Any!BusReset
    <3>1. host'.stage = "idle"
      BY <1>1, <2>2 DEF Any!BusReset, Types, Hosts
    <3>2. se0 = 0 /\ se0' = 2 /\ hostAddr' = 0 /\ faults' = faults + 1
      BY <2>2 DEF Any!BusReset, Any!ResetPolls, Any!Fault
    <3>3. QED BY <1>4, <3>1, <3>2
  <2>3. QED BY <2>1, <2>2
<1>6. Types'
  <2>1. host' \in Hosts
    BY <1>1, <1>3 DEF Types, Hosts
  <2>2. se0' \in 0..2 /\ faults' \in Nat
    BY <1>1, <1>3, <1>5 DEF Types
  <2>3. QED BY <1>1, <1>2, <2>1, <2>2 DEF Types
<1>7. SetupWaits' = SetupWaits /\ (stage = "done" => ~SetupWaits /\ rx.tok # "OUT")
  BY <1>2, <1>5 DEF SetupWaits, Any!Free
<1>8. Reply' /\ Dwire'
  BY <1>1, <1>2 DEF Reply, Any!Due, Dwire, Purpose
<1>9. Begun'
  BY <1>1, <1>2, <1>4, <1>7 DEF Begun
<1>10. Shown' = Shown
  BY <1>2 DEF Shown
<1>11. Answer'
  BY <1>1, <1>2, <1>4, <1>7, <1>10 DEF Answer
<1>12. Data'
  BY <1>1, <1>2, <1>4, <1>5, <1>7 DEF Data, Answer
<1>13. Addresses'
  <2>1. stage = "done" => newAddr = addr /\ addr = hostAddr
    BY <1>1, <1>5 DEF Addresses, Setting
  <2>2. QED BY <1>2, <1>4, <1>5, <2>1 DEF Addresses, Any!Active
<1>14. Complete => Complete'
  BY <1>2, <1>4, <1>5 DEF Complete, Any!Due
<1>15. QED BY <1>6, <1>8, <1>9, <1>11, <1>12, <1>13, <1>14 DEF UInv

\* Job 20: dwState is cleared, after all the data has come.
LEMMA StepJob ==
  ASSUME AdapterAssumption, UInv, Any!DwireJob
  PROVE  UInv' /\ (Complete => Complete')
<1>1. Types /\ Reply /\ Begun /\ Answer /\ Data /\ Dwire /\ Addresses
  BY DEF UInv
<1>2. /\ phase = "job" /\ phase' = "rx" /\ jobState' = 0 /\ dwState' = FALSE
      /\ dwLen' \in DwLens \union {dwLen}
      /\ UNCHANGED <<host, hostAddr, rx, tx, txPid, msgLen, msgFrom, userRW, cur, dwIn, newAddr, addr,
                     handled, bytesIn, se0, faults>>
  BY DEF Any!DwireJob
<1>3. jobState = 20 /\ dwState
  BY <1>1, <1>2 DEF Dwire
<1>4. DwLens \subseteq 0..128
  BY DEF AdapterAssumption, Usb!UsbAssumption, Usb!DwBufSize
<1>5. Types' /\ Reply'
  <2>1. dwLen' \in 0..128 /\ dwIn' \in 0..128 /\ jobState' \in {0, 20}
    BY <1>1, <1>2, <1>4 DEF Types
  <2>2. dwState' \in BOOLEAN /\ phase' \in {"rx", "tx", "job"}
    BY <1>2
  <2>3. Types'
    BY <1>1, <1>2, <2>1, <2>2 DEF Types
  <2>4. Reply'
    BY <1>1, <1>2 DEF Reply, Any!Due
  <2>5. QED BY <2>3, <2>4
<1>6. Begun' /\ Answer' /\ Data'
  BY <1>1, <1>2 DEF Begun, Answer, Data, SetupWaits, Shown
<1>7. Writes(cur) /\ ~cur.left => Purpose'
  BY <1>1, <1>2, <1>3 DEF Dwire, Purpose
<1>8. Dwire'
  BY <1>2, <1>7 DEF Dwire
<1>9. Addresses'
  BY <1>1, <1>2 DEF Addresses, Setting, SetupWaits
<1>10. Complete => Complete'
  BY <1>2 DEF Complete, SetupWaits, Shown, Any!Due
<1>11. QED BY <1>5, <1>6, <1>8, <1>9, <1>10 DEF UInv

-----------------------------------------------------------------------------
\* A step of the part "usb" is one in which anything may happen.
LEMMA UsbSteps ==
  ASSUME AdapterAssumption, faults \in Nat, Usb!Next
  PROVE  \/ Any!PollRx \/ Any!PollTx \/ Any!DwireJob \/ \E rq \in UsbRequests : Any!Setup(rq)
         \/ (Any!In /\ UNCHANGED faults) \/ Any!Out \/ Any!StatusOut \/ Any!BusReset
<1>0. /\ UsbFaults \in Nat /\ LossyFaults \in Nat /\ LossyRequests \subseteq UsbRequests
  BY DEF AdapterAssumption, Usb!UsbAssumption, Lossy!UsbAssumption
<1>1. \A k \in {"lost", "abandon", "reset"} : Usb!Fault(k) => Any!Fault(k)
  BY <1>0 DEF Usb!Fault, Any!Fault
<1>2. Usb!PollRx => Any!PollRx
  BY Zenon DEF Usb!PollRx, Any!PollRx, Usb!ProcessSetup, Any!ProcessSetup, Usb!ProcessData,
    Any!ProcessData, Usb!usbFunctionWrite, Any!usbFunctionWrite, Usb!IsLast, Any!IsLast,
    Usb!Given, Any!Given, Usb!ReplyLen, Any!ReplyLen, Usb!Limited, Any!Limited,
    Usb!usbDriverSetup, Any!usbDriverSetup, Usb!usbFunctionSetup, Any!usbFunctionSetup,
    Usb!FunctionReply, Any!FunctionReply, Usb!DescriptorLen, Any!DescriptorLen,
    Usb!DescriptorSizes, Any!DescriptorSizes, Usb!dwire, Any!dwire, Usb!Free, Any!Free,
    Usb!Nak, Any!Nak, Usb!NoMsg, Any!NoMsg, Usb!PacketSize, Any!PacketSize, Usb!DirIn,
    Any!DirIn, Usb!Min, Any!Min
<1>3. Usb!PollTx => Any!PollTx
  BY Zenon DEF Usb!PollTx, Any!PollTx, Usb!usbBuildTxBlock, Any!usbBuildTxBlock, Usb!Free,
    Any!Free, Usb!dwire, Any!dwire, Usb!Nak, Any!Nak, Usb!NoMsg, Any!NoMsg, Usb!PacketSize,
    Any!PacketSize, Usb!Toggle, Any!Toggle, Usb!DirIn, Any!DirIn, Usb!Min, Any!Min
<1>4. \A rq \in UsbRequests : Usb!Setup(rq) => Any!Setup(rq)
  BY <1>1, Zenon DEF Usb!Setup, Any!Setup, Usb!FirstStage, Any!FirstStage, Usb!Listens,
    Any!Listens, Usb!Active, Any!Active, Usb!Free, Any!Free, Usb!dwire, Any!dwire, Usb!Nak,
    Any!Nak, Usb!NoMsg, Any!NoMsg, Usb!PacketSize, Any!PacketSize, Usb!Toggle, Any!Toggle,
    Usb!DirIn, Any!DirIn, Usb!Min, Any!Min
<1>5. Usb!In => Any!In /\ UNCHANGED faults
  BY <1>1, Zenon DEF Usb!In, Any!In, Usb!InReady, Any!InReady, Usb!Accept, Any!Accept,
    Usb!NextAddr, Any!NextAddr, Usb!Listens, Any!Listens, Usb!Active, Any!Active, Usb!Free,
    Any!Free, Usb!dwire, Any!dwire, Usb!Nak, Any!Nak, Usb!NoMsg, Any!NoMsg, Usb!PacketSize,
    Any!PacketSize, Usb!Toggle, Any!Toggle, Usb!DirIn, Any!DirIn, Usb!Min, Any!Min, Usb!Fault
<1>6. Usb!Out => Any!Out
  BY Zenon DEF Usb!Out, Any!Out, Usb!Listens, Any!Listens, Usb!Fault, Any!Fault, Usb!Active,
    Any!Active, Usb!Free, Any!Free, Usb!dwire, Any!dwire, Usb!Nak, Any!Nak, Usb!NoMsg,
    Any!NoMsg, Usb!PacketSize, Any!PacketSize, Usb!Toggle, Any!Toggle, Usb!DirIn, Any!DirIn,
    Usb!Min, Any!Min
<1>7. Usb!StatusOut => Any!StatusOut
  BY Zenon DEF Usb!StatusOut, Any!StatusOut, Usb!BusReset, Any!BusReset, Usb!ResetPolls,
    Any!ResetPolls, Usb!device, Any!device, Usb!Listens, Any!Listens, Usb!Active, Any!Active,
    Usb!Free, Any!Free, Usb!dwire, Any!dwire, Usb!Nak, Any!Nak, Usb!NoMsg, Any!NoMsg,
    Usb!PacketSize, Any!PacketSize, Usb!Toggle, Any!Toggle, Usb!DirIn, Any!DirIn, Usb!Min,
    Any!Min
<1>8. Usb!BusReset => Any!BusReset
  BY <1>1, Zenon DEF Usb!StatusOut, Any!StatusOut, Usb!BusReset, Any!BusReset, Usb!ResetPolls,
    Any!ResetPolls, Usb!device, Any!device, Usb!Listens, Any!Listens, Usb!Active, Any!Active,
    Usb!Free, Any!Free, Usb!dwire, Any!dwire, Usb!Nak, Any!Nak, Usb!NoMsg, Any!NoMsg,
    Usb!PacketSize, Any!PacketSize, Usb!Toggle, Any!Toggle, Usb!DirIn, Any!DirIn, Usb!Min,
    Any!Min
<1>9. Usb!DwireJob => Any!DwireJob
  BY Zenon DEF Usb!DwireJob, Any!DwireJob
<1>10. QED BY <1>0, <1>2, <1>3, <1>4, <1>5, <1>6, <1>7, <1>8, <1>9 DEF Usb!Next

\* A step of the part "lossy" is one in which anything may happen.
LEMMA LossySteps ==
  ASSUME AdapterAssumption, faults \in Nat, Lossy!Next
  PROVE  \/ Any!PollRx \/ Any!PollTx \/ Any!DwireJob \/ \E rq \in UsbRequests : Any!Setup(rq)
         \/ (Any!In) \/ Any!Out \/ Any!StatusOut \/ Any!BusReset
<1>0. /\ UsbFaults \in Nat /\ LossyFaults \in Nat /\ LossyRequests \subseteq UsbRequests
  BY DEF AdapterAssumption, Usb!UsbAssumption, Lossy!UsbAssumption
<1>1. \A k \in {"lost", "abandon", "reset"} : Lossy!Fault(k) => Any!Fault(k)
  BY <1>0 DEF Lossy!Fault, Any!Fault
<1>2. Lossy!PollRx => Any!PollRx
  BY Zenon DEF Lossy!PollRx, Any!PollRx, Lossy!ProcessSetup, Any!ProcessSetup,
    Lossy!ProcessData, Any!ProcessData, Lossy!usbFunctionWrite, Any!usbFunctionWrite,
    Lossy!IsLast, Any!IsLast, Lossy!Given, Any!Given, Lossy!ReplyLen, Any!ReplyLen,
    Lossy!Limited, Any!Limited, Lossy!usbDriverSetup, Any!usbDriverSetup,
    Lossy!usbFunctionSetup, Any!usbFunctionSetup, Lossy!FunctionReply, Any!FunctionReply,
    Lossy!DescriptorLen, Any!DescriptorLen, Lossy!DescriptorSizes, Any!DescriptorSizes,
    Lossy!dwire, Any!dwire, Lossy!Free, Any!Free, Lossy!Nak, Any!Nak, Lossy!NoMsg, Any!NoMsg,
    Lossy!PacketSize, Any!PacketSize, Lossy!DirIn, Any!DirIn, Lossy!Min, Any!Min
<1>3. Lossy!PollTx => Any!PollTx
  BY Zenon DEF Lossy!PollTx, Any!PollTx, Lossy!usbBuildTxBlock, Any!usbBuildTxBlock,
    Lossy!Free, Any!Free, Lossy!dwire, Any!dwire, Lossy!Nak, Any!Nak, Lossy!NoMsg, Any!NoMsg,
    Lossy!PacketSize, Any!PacketSize, Lossy!Toggle, Any!Toggle, Lossy!DirIn, Any!DirIn,
    Lossy!Min, Any!Min
<1>4. \A rq \in LossyRequests : Lossy!Setup(rq) => Any!Setup(rq)
  BY <1>1, Zenon DEF Lossy!Setup, Any!Setup, Lossy!FirstStage, Any!FirstStage, Lossy!Listens,
    Any!Listens, Lossy!Active, Any!Active, Lossy!Free, Any!Free, Lossy!dwire, Any!dwire,
    Lossy!Nak, Any!Nak, Lossy!NoMsg, Any!NoMsg, Lossy!PacketSize, Any!PacketSize, Lossy!Toggle,
    Any!Toggle, Lossy!DirIn, Any!DirIn, Lossy!Min, Any!Min
<1>5. Lossy!In => Any!In
  BY <1>1, Zenon DEF Lossy!In, Any!In, Lossy!InReady, Any!InReady, Lossy!Accept, Any!Accept,
    Lossy!NextAddr, Any!NextAddr, Lossy!Listens, Any!Listens, Lossy!Active, Any!Active,
    Lossy!Free, Any!Free, Lossy!dwire, Any!dwire, Lossy!Nak, Any!Nak, Lossy!NoMsg, Any!NoMsg,
    Lossy!PacketSize, Any!PacketSize, Lossy!Toggle, Any!Toggle, Lossy!DirIn, Any!DirIn,
    Lossy!Min, Any!Min
<1>6. Lossy!Out => Any!Out
  BY Zenon DEF Lossy!Out, Any!Out, Lossy!Listens, Any!Listens, Lossy!Fault, Any!Fault,
    Lossy!Active, Any!Active, Lossy!Free, Any!Free, Lossy!dwire, Any!dwire, Lossy!Nak, Any!Nak,
    Lossy!NoMsg, Any!NoMsg, Lossy!PacketSize, Any!PacketSize, Lossy!Toggle, Any!Toggle,
    Lossy!DirIn, Any!DirIn, Lossy!Min, Any!Min
<1>7. Lossy!StatusOut => Any!StatusOut
  BY Zenon DEF Lossy!StatusOut, Any!StatusOut, Lossy!BusReset, Any!BusReset, Lossy!ResetPolls,
    Any!ResetPolls, Lossy!device, Any!device, Lossy!Listens, Any!Listens, Lossy!Active,
    Any!Active, Lossy!Free, Any!Free, Lossy!dwire, Any!dwire, Lossy!Nak, Any!Nak, Lossy!NoMsg,
    Any!NoMsg, Lossy!PacketSize, Any!PacketSize, Lossy!Toggle, Any!Toggle, Lossy!DirIn,
    Any!DirIn, Lossy!Min, Any!Min
<1>8. Lossy!BusReset => Any!BusReset
  BY <1>1, Zenon DEF Lossy!StatusOut, Any!StatusOut, Lossy!BusReset, Any!BusReset,
    Lossy!ResetPolls, Any!ResetPolls, Lossy!device, Any!device, Lossy!Listens, Any!Listens,
    Lossy!Active, Any!Active, Lossy!Free, Any!Free, Lossy!dwire, Any!dwire, Lossy!Nak, Any!Nak,
    Lossy!NoMsg, Any!NoMsg, Lossy!PacketSize, Any!PacketSize, Lossy!Toggle, Any!Toggle,
    Lossy!DirIn, Any!DirIn, Lossy!Min, Any!Min
<1>9. Lossy!DwireJob => Any!DwireJob
  BY Zenon DEF Lossy!DwireJob, Any!DwireJob
<1>10. QED BY <1>0, <1>2, <1>3, <1>4, <1>5, <1>6, <1>7, <1>8, <1>9 DEF Lossy!Next

\* The parts of the reply that were shown are no more than fits.
LEMMA ShownType ==
  ASSUME Types PROVE Shown \in 0..255
<1>1. CASE tx = <<>>
  BY <1>1 DEF Shown, Types
<1>2. CASE tx # <<>>
  <2>1. PICK p \in Any!Packets : tx = <<p>>
    BY <1>2 DEF Types
  <2>2. Shown = p.from
    BY <1>2, <2>1 DEF Shown
  <2>3. QED BY <2>2, PacketTypes
<1>3. QED BY <1>1, <1>2

\* And no more than the expected reply.
LEMMA ShownBound ==
  ASSUME Types, Reply, Any!Due \in 0..254
  PROVE  Shown <= Any!Due
<1>1. msgLen \in 0..255 /\ msgFrom \in 0..255
  BY DEF Types
<1>2. msgFrom <= Any!Due
  <2>1. CASE Writes(cur)
    <3>1. msgFrom = 0
      BY <2>1 DEF Reply
    <3>2. QED BY <3>1
  <2>2. CASE ~Writes(cur)
    <3>1. msgFrom + (IF msgLen = 255 THEN 0 ELSE msgLen) = Any!Due
      BY <2>2 DEF Reply
    <3>2. QED BY <1>1, <3>1
  <2>3. QED BY <2>1, <2>2
<1>3. CASE tx = <<>>
  BY <1>2, <1>3 DEF Shown
<1>4. CASE tx # <<>>
  <2>1. PICK p \in Any!Packets : tx = <<p>>
    BY <1>4 DEF Types
  <2>2. Shown = p.from /\ p.from + p.len = msgFrom
    BY <1>4, <2>1 DEF Shown, Reply
  <2>3. p.from \in Nat /\ p.len \in Nat
    BY PacketTypes
  <2>4. QED BY <1>1, <1>2, <2>2, <2>3
<1>5. QED BY <1>3, <1>4

\* What is asked for does not depend on what may happen.
LEMMA SameRequests ==
  /\ Usb!Due = Any!Due
  /\ \A rq : Usb!DirIn(rq) <=> Any!DirIn(rq)
<1>1. Usb!Due = Any!Due
  BY Zenon DEF Usb!Due, Any!Due, Usb!Min, Any!Min, Usb!NoMsg, Any!NoMsg
<1>2. \A rq : Usb!DirIn(rq) <=> Any!DirIn(rq)
  BY Zenon DEF Usb!DirIn, Any!DirIn
<1>3. QED BY <1>1, <1>2

\* The invariant of the transfers, and what more there is when nothing gets lost.
UsbInv == UInv /\ (part = "usb" => Complete)

\* It is inductive.
LEMMA UsbInvStep ==
  ASSUME AdapterAssumption PROVE UsbInv /\ [AdapterNext]_all => UsbInv'
<1> SUFFICES ASSUME UsbInv, [AdapterNext]_all PROVE UsbInv'
  OBVIOUS
<1>1. UInv /\ faults \in Nat
  BY DEF UsbInv, UInv, Types
<1>2. CASE UsbStep
  <2>1. Usb!Next /\ part' = part /\ Complete
    BY <1>2 DEF UsbStep, UsbInv
  <2>2. \/ Any!PollRx \/ Any!PollTx \/ Any!DwireJob \/ \E rq \in UsbRequests : Any!Setup(rq)
        \/ (Any!In /\ UNCHANGED faults) \/ Any!Out \/ Any!StatusOut \/ Any!BusReset
    BY <1>1, <2>1, UsbSteps
  <2>3. UInv' /\ Complete'
    BY <1>1, <2>1, <2>2, StepPollRx, StepPollTx, StepJob, StepSetup, StepIn, StepInComplete, StepOut,
       StepStage
  <2>4. QED BY <2>3 DEF UsbInv
<1>3. CASE LossyStep
  <2>1. Lossy!Next /\ part' = part /\ part = "lossy"
    BY <1>3 DEF LossyStep
  <2>2. UInv'
    BY <1>1, <2>1, LossySteps, StepPollRx, StepPollTx, StepJob, StepSetup, StepIn, StepOut, StepStage
  <2>3. QED BY <2>1, <2>2 DEF UsbInv
<1>4. CASE UNCHANGED <<part, usb>>
  BY <1>4 DEF usb, UsbInv, UInv, Types, Reply, Begun, Answer, Data, Dwire, Purpose, Addresses,
              Setting, Complete, SetupWaits, Shown, Any!Due
<1>5. QED BY <1>2, <1>3, <1>4 DEF AdapterNext, I2cStep, SpiStep, BellStep, all

\* What the runs check follows.
LEMMA UsbInvEnough ==
  ASSUME AdapterAssumption, UsbInv PROVE UsbTransfers
<1>1. Types /\ Reply /\ Begun /\ Answer /\ Data /\ Dwire /\ Addresses
  BY DEF UsbInv, UInv
<1>2. /\ host.rq \in Rqs /\ host.bytes \in Nat /\ End(host.got) \in Nat
      /\ msgFrom \in 0..255 /\ msgLen \in 0..255
  BY <1>1, Fields, GotEnd DEF Types
<1>3. Any!Due \in 0..254 /\ Any!Due <= cur.rq.len /\ cur.rq.len \in 0..254 /\ host.rq.len \in 0..254
  <2>1. 0 \in ReplyLens
    BY DEF ReplyLens
  <2>2. QED BY <1>1, <1>2, <2>1, DueType, Lengths
<1>4. ~SetupWaits => host.bytes <= Any!Due
  <2> SUFFICES ASSUME ~SetupWaits PROVE host.bytes <= Any!Due
    OBVIOUS
  <2>1. host.bytes <= Shown
    BY <1>1, <1>2, ShownType DEF Answer
  <2>2. Shown <= Any!Due /\ Shown \in Nat /\ Any!Due \in Nat
    BY <1>1, <1>3, ShownType, ShownBound
  <2>3. QED BY <1>2, <2>1, <2>2
<1>5. Usb!TypeOK
  <2>1. host.bytes <= host.rq.len
    <3>1. CASE SetupWaits
      <4>1. host.bytes = 0
        BY <1>1, <3>1 DEF Begun
      <4>2. QED BY <1>3, <4>1
    <3>2. CASE ~SetupWaits
      <4>1. cur.rq = host.rq
        BY <1>1, <3>2 DEF Answer
      <4>2. QED BY <1>2, <1>3, <1>4, <3>2, <4>1
    <3>3. QED BY <3>1, <3>2
  <2>2. tx = <<>> \/ (Len(tx) = 1 /\ tx[1] \in Any!Packets)
    BY <1>1 DEF Types
  <2>3. Any!Packets = Usb!Packets
    BY Zenon DEF Any!Packets, Usb!Packets, Any!NoMsg, Usb!NoMsg, Any!PacketSize, Usb!PacketSize
  <2>4. /\ host.stage \in {"idle", "done"} \union Usb!Active
        /\ host.rq \in UsbRequests \union {Usb!NoRequest}
    BY <1>1 DEF Types, Hosts, Rqs, Any!Active, Usb!Active, Any!NoRequest, Usb!NoRequest
  <2>5. rx = Usb!Free \/ rx.tok \in {"SETUP", "OUT"}
    BY <1>1, Fields DEF Any!Free, Usb!Free
  <2>6. host.got \in Seq(Any!Packets) /\ phase \in {"rx", "tx", "job"}
    BY <1>1, Fields DEF Types
  <2>7. /\ dwLen \in 0..Usb!DwBufSize /\ dwIn \in 0..Usb!DwBufSize
        /\ dwState /\ jobState = 0 => dwIn < dwLen
    BY <1>1 DEF Types, Dwire, Usb!DwBufSize
  <2>8. QED BY <1>2, <2>1, <2>2, <2>3, <2>4, <2>5, <2>6, <2>7 DEF Usb!TypeOK, Usb!Nak, Usb!NoMsg
<1>6. Usb!Due = Any!Due /\ \A rq : Usb!DirIn(rq) <=> Any!DirIn(rq)
  BY SameRequests
<1>7. \A q : Usb!FromStart(q) <=> Joined(q, host.turn)
  BY DEF Usb!FromStart, Joined
<1>8. host.stage = "done" => ~SetupWaits /\ rx.tok # "OUT"
  <2>1. host.stage = "done" => se0 = 0 /\ rx = Any!Free
    BY <1>1 DEF Addresses
  <2>2. QED BY <2>1 DEF SetupWaits, Any!Free
<1>9. Usb!FullAnswerIsRight
  <2> SUFFICES ASSUME host.stage = "done", host.bytes = Any!Due
               PROVE  Joined(host.got, host.turn)
    BY <1>6, <1>7 DEF Usb!FullAnswerIsRight
  <2>1. /\ host.bytes <= End(host.got) /\ End(host.got) <= Shown /\ cur.rq = host.rq
        /\ host.bytes = End(host.got) => Joined(host.got, host.turn)
    BY <1>1, <1>8 DEF Answer
  <2>2. Shown \in Nat /\ Shown <= Any!Due
    BY <1>1, <1>3, ShownType, ShownBound
  <2>3. host.bytes = End(host.got)
    BY <1>2, <1>3, <2>1, <2>2
  <2>4. QED BY <2>1, <2>3
<1>10. part = "usb" => Usb!AnswerComplete
  <2> SUFFICES ASSUME part = "usb", host.stage = "done", Any!DirIn(host.rq)
               PROVE  cur.rq = host.rq /\ host.bytes = Any!Due /\ Usb!FromStart(host.got)
    BY <1>6 DEF Usb!AnswerComplete
  <2>1. cur.rq = host.rq /\ host.bytes = Any!Due
    BY <1>1, <1>8 DEF UsbInv, Complete, Answer
  <2>2. QED BY <1>6, <1>9, <2>1 DEF Usb!FullAnswerIsRight
<1>11. Usb!StatusMeansHandled
  <2> SUFFICES ASSUME host.stage = "done", ~Any!DirIn(host.rq), cur.reply = 255, ~cur.left
               PROVE  /\ bytesIn = host.rq.len /\ Joined(handled, host.turn)
                      /\ \A k \in 1..Len(handled) :
                           handled[k].by = IF host.rq.req = "dw_out" THEN "dw" ELSE "spi"
    BY <1>6, <1>7 DEF Usb!StatusMeansHandled, Usb!NoMsg
  <2>1. cur.rq = host.rq /\ host.sent = host.rq.len
    BY <1>1, <1>8 DEF Answer, Data
  <2>2. Writes(cur)
    BY <2>1 DEF Writes
  <2>3. Purpose
    BY <1>1, <2>2 DEF Dwire
  <2>4. \A k \in 1..Len(handled) : handled[k].by = IF host.rq.req = "dw_out" THEN "dw" ELSE "spi"
    BY <2>1, <2>3 DEF Purpose
  <2>5. bytesIn = host.rq.len /\ Joined(handled, host.turn)
    BY <1>1, <1>8, <2>1, <2>2 DEF Data
  <2>6. QED BY <2>4, <2>5
<1>12. Usb!AddressAgrees
  BY <1>1 DEF Addresses, Setting, Usb!AddressAgrees
<1>13. QED BY <1>5, <1>9, <1>10, <1>11, <1>12 DEF UsbTransfers

\* Control transfers of the adapter's USB stack (usbPoll, usbProcessRx, usbBuildTxBlock,
\* usbSendAndReti, usbFunctionSetup, usbFunctionWrite): an answer of the length the device
\* meant to send is the one it meant to send, whatever gets lost or is given up; when
\* nothing gets lost every answer has that length; the status packet of a transfer whose
\* data is wanted and that did not find a dwState left over means that the data was handled,
\* in order and for its purpose; and both sides agree on the address.
THEOREM UsbTransfersRight == ASSUME AdapterAssumption PROVE AdapterSpec => []UsbTransfers
<1>1. AdapterInit => UsbInv
  <2>1. Usb!Init => Any!Init
    BY Zenon DEF Usb!Init, Any!Init, Usb!NoRequest, Any!NoRequest, Usb!Free, Any!Free,
                 Usb!Nak, Any!Nak, Usb!NoMsg, Any!NoMsg
  <2>2. QED BY <2>1, UsbInit DEF AdapterInit, UsbInv
<1>2. UsbInv /\ [AdapterNext]_all => UsbInv'
  BY UsbInvStep
<1>3. UsbInv => UsbTransfers
  BY UsbInvEnough
<1>4. QED BY <1>1, <1>2, <1>3, PTL DEF AdapterSpec

-----------------------------------------------------------------------------
(***************************************************************************)
(* Bridge is about the program outside the handler; HandlerWrites says     *)
(* what the handler has still to do: its label agrees with the parity of   *)
(* the count, and the output it has written with its label.                *)
(***************************************************************************)
HandlerWrites ==
  /\ at = "main" => ~wrote
  /\ at = "last" => r20 = 0
  /\ at = "cyc4" => r20 > 0 /\ r20 % 2 = 0 /\ was \in {<<0, 0>>, <<0, 1>>}
  /\ at = "cyc6" => r20 > 0 /\ r20 % 2 # 0 /\ was \in {<<0, 0>>, <<1, 0>>}
  /\ wrote => B3 = IF at = "cyc4" THEN 1 ELSE 0

IInv == TypeOK /\ Bridge /\ HandlerWrites

LEMMA InitInv == ASSUME BellAssumption PROVE Init => IInv
<1> SUFFICES ASSUME Init PROVE IInv
  OBVIOUS
<1>1. pressed \in BOOLEAN /\ pinChange \in BOOLEAN /\ compare \in BOOLEAN /\ enabled \in BOOLEAN
  BY Zenon DEF Init
<1>2. 0 \in 0..CYCLETIME /\ 0 \in 0..Byte - 1 /\ 0 \in 0..HAMMERS - 1 /\ 0 \in 0..1
  BY DEF BellAssumption
<1>3. /\ TCNT0 = 0 /\ r18 = 0 /\ r19 = 0 /\ r20 = 0 /\ B3 = 0 /\ B4 = 0
      /\ at = "main" /\ wrote = FALSE /\ was = <<0, 0>>
  BY Zenon DEF Init
<1>4. was \in (0..1) \X (0..1)
  BY <1>3
<1>5. wrote \in BOOLEAN /\ ~wrote
  BY Zenon, <1>3
<1>6. TypeOK
  BY <1>1, <1>2, <1>3, <1>4, <1>5 DEF TypeOK
<1>7. QED BY <1>3, <1>5, <1>6 DEF IInv, Bridge, HandlerWrites

\* What is to come with this cycle's push is no more than a ring.
LEMMA DingsType == ASSUME BellAssumption, TypeOK PROVE Dings \in 0..HAMMERS
  BY DEF BellAssumption, TypeOK, Dings

\* The timer handler in registers: one less of the reversals, and the label for the parity
\* of what is left.
LEMMA CycleWrites ==
  ASSUME BellAssumption, IInv, cycle
  PROVE  /\ r20' \in 0..HAMMERS - 1 /\ at' \in {"main", "last", "cyc4", "cyc6"}
         /\ was' \in (0..1) \X (0..1)
         /\ Bridge' /\ HandlerWrites'
<1>0. HAMMERS \in Nat /\ r20 \in 0..HAMMERS - 1 /\ B3 \in 0..1 /\ B4 \in 0..1
  BY DEF BellAssumption, IInv, TypeOK
<1>1. at = "main" /\ ~wrote /\ wrote' = wrote /\ B3' = B3 /\ B4' = B4
  BY DEF cycle, IInv, HandlerWrites
<1>2. ~(B3 = 1 /\ B4 = 1)
  BY <1>1 DEF IInv, Bridge
<1>3. was' \in (0..1) \X (0..1)
  <2>1. was' = <<B3, B4>> \/ was' = <<0, 0>>
    BY DEF cycle
  <2>2. QED BY <1>0, <2>1
<1>4. CASE Dings = 0
  <2>1. r20' = r20 /\ at' = at
    BY <1>4 DEF cycle
  <2>2. QED BY <1>0, <1>1, <1>3, <2>1 DEF IInv, Bridge, HandlerWrites
<1>5. CASE Dings # 0
  <2>1. PICK d \in 1..HAMMERS : d = Dings
    BY <1>0, <1>5, DingsType DEF IInv
  <2>2. r20' = d - 1
    BY <1>5, <2>1 DEF cycle, Left
  <2>3. at' = IF d = 1 THEN "last" ELSE IF (d - 1) % 2 = 0 THEN "cyc4" ELSE "cyc6"
    BY <1>5, <2>1 DEF cycle, Last, Even
  <2>4. r20' \in 0..HAMMERS - 1 /\ (d # 1 => r20' > 0)
    BY <1>0, <2>1, <2>2
  <2>5. ASSUME d # 1, was' # <<0, 0>>
        PROVE  was' = IF r20' % 2 = 0 THEN <<0, 1>> ELSE <<1, 0>>
    <3>1. Down < PUSHTIME /\ was' = <<B3, B4>>
      BY <2>5 DEF cycle
    <3>2. d = r20
      BY <2>1, <3>1 DEF Dings
    <3>3. r20 > 0 /\ (r20 % 2 = 0 <=> r20' % 2 # 0)
      BY <1>0, <2>1, <2>2, <3>2
    <3>4. B3 + B4 = 1 /\ (B3 = 1 <=> r20 % 2 = 0)
      BY <1>1, <3>3 DEF IInv, Bridge
    <3>5. IF r20' % 2 = 0 THEN B3 = 0 /\ B4 = 1 ELSE B3 = 1 /\ B4 = 0
      BY <1>0, <3>3, <3>4
    <3>6. QED BY <3>1, <3>5
  <2>6. Bridge'
    BY <1>1, <1>2, <2>3 DEF Bridge
  <2>7. CASE d = 1
    BY <1>1, <1>3, <2>2, <2>3, <2>4, <2>6, <2>7 DEF HandlerWrites
  <2>8. CASE d # 1
    <3>1. at' = IF r20' % 2 = 0 THEN "cyc4" ELSE "cyc6"
      BY <2>2, <2>3, <2>8
    <3>2. HandlerWrites'
      BY <1>1, <2>4, <2>5, <2>8, <3>1 DEF HandlerWrites
    <3>3. QED BY <1>3, <2>4, <2>6, <3>1, <3>2
  <2>9. QED BY <2>7, <2>8
<1>6. QED BY <1>4, <1>5

LEMMA NextInv == ASSUME BellAssumption PROVE IInv /\ [Next]_vars => IInv'
<1> SUFFICES ASSUME IInv, [Next]_vars PROVE IInv'
  OBVIOUS
<1>0. /\ CYCLETIME \in Nat /\ CYCLETIME > 1 /\ HAMMERS \in Nat
      /\ Byte \in Nat /\ 2 * CYCLETIME < Byte
  BY DEF BellAssumption
<1>1. CASE Enable
  BY <1>1 DEF Enable, IInv, TypeOK, Bridge, HandlerWrites, ports
<1>2. CASE Count
  <2>1. TCNT0' \in 0..CYCLETIME
    BY <1>0, <1>2 DEF Count, IInv, TypeOK
  <2>2. QED BY <1>2, <2>1 DEF Count, IInv, TypeOK, Bridge, HandlerWrites, ports
<1>3. CASE Push
  BY <1>3 DEF Push, IInv, TypeOK, Bridge, HandlerWrites, ports, timer
<1>4. CASE bellpush
  <2>1. r19' \in 0..Byte - 1
    BY <1>0, <1>4 DEF bellpush, IInv, TypeOK, PORTB0
  <2>2. QED BY <1>4, <2>1 DEF bellpush, IInv, TypeOK, Bridge, HandlerWrites, ports, timer
<1>5. CASE cycle
  <2>1. /\ r20' \in 0..HAMMERS - 1 /\ at' \in {"main", "last", "cyc4", "cyc6"}
        /\ was' \in (0..1) \X (0..1)
        /\ Bridge' /\ HandlerWrites'
    BY <1>5, CycleWrites
  <2>2. r19' = 0 /\ 0 \in 0..Byte - 1
    BY <1>0, <1>5 DEF cycle
  <2>3. QED BY <1>5, <2>1, <2>2 DEF cycle, IInv, TypeOK
<1>6. CASE SetB3
  <2>1. TypeOK'
    BY <1>6 DEF SetB3, IInv, TypeOK, timer
  <2>2. Bridge'
    BY <1>6 DEF SetB3, Bridge
  <2>3. HandlerWrites'
    BY <1>6 DEF SetB3, IInv, HandlerWrites
  <2>4. QED BY <2>1, <2>2, <2>3 DEF IInv
<1>7. CASE SetB4
  <2>1. TypeOK'
    <3>1. wrote' = FALSE /\ at' = "main" /\ B4' \in 0..1
      BY <1>7 DEF SetB4
    <3>2. UNCHANGED <<pressed, timer, pinChange, r18, r19, r20, B3, was>>
      BY <1>7 DEF SetB4
    <3>3. QED BY <3>1, <3>2 DEF IInv, TypeOK, timer
  <2>2. Bridge'
    <3>1. at \in {"last", "cyc4", "cyc6"} /\ r20 \in Nat
      BY <1>0, <1>7 DEF SetB4, IInv, TypeOK
    <3>2. /\ B3 = (IF at = "cyc4" THEN 1 ELSE 0)
          /\ at = "last" => r20 = 0
          /\ at = "cyc4" => r20 > 0 /\ r20 % 2 = 0
          /\ at = "cyc6" => r20 > 0 /\ r20 % 2 # 0
      BY <1>7 DEF SetB4, IInv, HandlerWrites
    <3>3. /\ B3' = B3 /\ r20' = r20 /\ at' = "main"
          /\ B4' = IF at = "cyc6" THEN 1 ELSE 0
      BY <1>7 DEF SetB4
    <3>4. QED BY <3>1, <3>2, <3>3 DEF Bridge
  <2>3. HandlerWrites'
    BY <1>7 DEF SetB4, HandlerWrites
  <2>4. QED BY <2>1, <2>2, <2>3 DEF IInv
<1>8. CASE UNCHANGED vars
  BY <1>8 DEF vars, timer, ports, IInv, TypeOK, Bridge, HandlerWrites
<1>9. QED BY <1>1, <1>2, <1>3, <1>4, <1>5, <1>6, <1>7, <1>8 DEF Next

LEMMA Inductive == ASSUME BellAssumption PROVE Spec => []IInv
<1>1. Init => IInv
  BY InitInv
<1>2. IInv /\ [Next]_vars => IInv'
  BY NextInv
<1>3. QED BY <1>1, <1>2, PTL DEF Spec

\* No register or count leaves its width (bellpush and cycle).  Outside the handler the
\* bridge carries current in the direction of the count's parity while reversals are to
\* come, and none otherwise; both outputs are high only between the two instructions of
\* cyc4 (cycle, cyc2 to cyc6).
THEOREM BridgeDriven == ASSUME BellAssumption PROVE Spec => []Doorbell
<1>1. IInv => Doorbell
  BY DEF IInv, Doorbell
<1>2. Spec => []IInv
  BY Inductive
<1>3. QED BY <1>1, <1>2, PTL

\* Each cycle of a ring reverses the current, and the last one ends it (cyc2 to cyc6).
THEOREM CurrentReverses == ASSUME BellAssumption PROVE Spec => Reverses
<1>1. ASSUME IInv, SetB4, was # <<0, 0>>
      PROVE  <<B3', B4'>> = IF at = "last" THEN <<0, 0>> ELSE <<was[2], was[1]>>
  <2>1. /\ B4' = IF at = "cyc6" THEN 1 ELSE 0
        /\ B3' = IF at = "cyc4" THEN 1 ELSE 0
    BY <1>1 DEF SetB4, IInv, HandlerWrites
  <2>2. at \in {"last", "cyc4", "cyc6"}
    BY <1>1 DEF SetB4, IInv, TypeOK
  <2>3. CASE at = "last"
    BY <2>1, <2>3
  <2>4. CASE at = "cyc4"
    <3>1. was = <<0, 1>>
      BY <1>1, <2>4 DEF IInv, HandlerWrites
    <3>2. QED BY <2>1, <2>4, <3>1
  <2>5. CASE at = "cyc6"
    <3>1. was = <<1, 0>>
      BY <1>1, <2>5 DEF IInv, HandlerWrites
    <3>2. QED BY <2>1, <2>5, <3>1
  <2>6. QED BY <2>2, <2>3, <2>4, <2>5
<1>2. IInv /\ [Next]_vars => [Reversed]_vars
  BY <1>1 DEF Reversed
<1>3. Spec => []IInv
  BY Inductive
<1>4. QED BY <1>2, <1>3, PTL DEF Spec, Reverses

\* The part "bell" of the run is the doorbell: what is proved of Spec holds of it.
LEMMA BellPart == AdapterSpec => Spec
<1>1. AdapterInit => Init
  BY DEF AdapterInit
<1>2. [AdapterNext]_all => [Next]_vars
  BY DEF AdapterNext, UsbStep, LossyStep, I2cStep, SpiStep, BellStep, all
<1>3. QED BY <1>1, <1>2, PTL DEF AdapterSpec, Spec
-----------------------------------------------------------------------------
(***************************************************************************)
(* Programming through the SPI port.  Octets are the bytes of a memory, a  *)
(* memory is a set of records as in SpiProgram.                            *)
(***************************************************************************)
Octets   == 0..255
Words    == 0..(Spi!Word - 1)
Onto(a, n) == (a + n) % Spi!Word
Cells    == [kind : {"flash", "eeprom"}, cell : Words, value : Octets]
Writing  == [kind : {"flash", "eeprom"}, cell : Words, value : Octets, left : Nat \ {0}]

Value(M, k, c) ==
  IF \E m \in M : m.kind = k /\ m.cell = c
  THEN (CHOOSE m \in M : m.kind = k /\ m.cell = c).value
  ELSE 255

Put(M, k, c, v) ==
  {m \in M : m.kind # k \/ m.cell # c} \union {[kind |-> k, cell |-> c, value |-> v]}

OneEach(M) == \A m1, m2 \in M : m1.kind = m2.kind /\ m1.cell = m2.cell => m1 = m2

SpiTypes ==
  /\ kind \in Spi!Requests \union {"none"}
  /\ left \in Seq(Octets) /\ data \in Seq(Octets) /\ got \in Seq(Octets)
  /\ start \in Words /\ address \in Words /\ usec \in Words /\ timeout \in Words
  /\ cmd3 \in Octets /\ sck_period \in 1..250 /\ polling \in BOOLEAN
  /\ mem \in SUBSET Cells /\ OneEach(mem)
  /\ busy = <<>> \/ (busy = <<busy[1]>> /\ busy[1] \in Writing)

(* The bytes of the transfer that have gone, and where the k-th one goes.  *)
Gone    == Len(data) - Len(left)
Addr(k) == Onto(start, k - 1)
Memory  == Spi!MemoryOf(kind)

Place ==
  /\ Len(left) <= Len(data) /\ Len(data) <= 4096
  /\ address = Onto(start, Gone)
  /\ \A k \in 1..Len(left) : left[k] = data[Gone + k]
  /\ kind = "none" => data = <<>> /\ ~polling
  /\ kind # "none" => cmd0 = Spi!CommandByte(kind) /\ (Memory = "eeprom" => start < 4096)

(* What was written is in the chip; only of the last byte that is not yet  *)
(* certain, while it is waited for.                                        *)
Wrote ==
  Spi!IsWrite(kind) =>
    \A k \in 1..(IF polling THEN Gone - 1 ELSE Gone) : Value(mem, Memory, Addr(k)) = data[k]

(* The chip is done at the latest when the timeout is over.                *)
Waits ==
  IF polling
  THEN /\ Spi!IsWrite(kind) /\ Gone > 0 /\ cmd3 = data[Gone]
       /\ busy = <<>> => Value(mem, Memory, Addr(Gone)) = cmd3
       /\ busy # <<>> => /\ busy[1].kind = Memory /\ busy[1].cell = Addr(Gone) /\ busy[1].value = cmd3
                         /\ busy[1].left * (32 * sck_period) + usec <= timeout
  ELSE busy = <<>>

Readings ==
  IF kind = "none" \/ Spi!IsWrite(kind) THEN got = <<>>
  ELSE Len(got) = Gone /\ \A k \in 1..Len(got) : got[k] = Value(mem, Memory, Addr(k))

SpiInv == SpiTypes /\ Place /\ Wrote /\ Waits /\ Readings

\* A memory holds the value of each of its cells.
LEMMA ValueOf ==
  ASSUME NEW M, OneEach(M), NEW m \in M
  PROVE  Value(M, m.kind, m.cell) = m.value
<1>1. \A x \in M : x.kind = m.kind /\ x.cell = m.cell => x = m
  BY DEF OneEach
<1>2. (CHOOSE x \in M : x.kind = m.kind /\ x.cell = m.cell) = m
  BY <1>1
<1>3. QED BY <1>2 DEF Value

\* One cell gets a value, and the others keep theirs.
LEMMA PutValue ==
  ASSUME NEW M \in SUBSET Cells, OneEach(M),
         NEW k \in {"flash", "eeprom"}, NEW c \in Words, NEW v \in Octets
  PROVE  /\ Put(M, k, c, v) \in SUBSET Cells /\ OneEach(Put(M, k, c, v))
         /\ Value(Put(M, k, c, v), k, c) = v
         /\ \A k2, c2 : k2 # k \/ c2 # c => Value(Put(M, k, c, v), k2, c2) = Value(M, k2, c2)
         /\ \A m \in M : m \in Put(M, k, c, v) \/ (m.kind = k /\ m.cell = c)
<1> DEFINE N == Put(M, k, c, v)
<1> DEFINE new == [kind |-> k, cell |-> c, value |-> v]
<1>1. new \in Cells /\ new.kind = k /\ new.cell = c /\ new.value = v /\ new \in N
  BY DEF Cells, Put
<1>2. \A m \in N : m = new \/ (m \in M /\ (m.kind # k \/ m.cell # c))
  BY DEF Put
<1>3. \A m \in M : m \in N \/ (m.kind = k /\ m.cell = c)
  BY DEF Put
<1>4. N \in SUBSET Cells
  BY <1>1 DEF Put
<1> HIDE DEF new, N
<1>5. OneEach(N)
  BY <1>1, <1>2 DEF OneEach
<1>6. Value(N, k, c) = v
  BY <1>1, <1>5, ValueOf
<1>7. \A k2, c2 : k2 # k \/ c2 # c => Value(N, k2, c2) = Value(M, k2, c2)
  <2> SUFFICES ASSUME NEW k2, NEW c2, k2 # k \/ c2 # c PROVE Value(N, k2, c2) = Value(M, k2, c2)
    OBVIOUS
  <2>1. CASE \E m \in M : m.kind = k2 /\ m.cell = c2
    <3>1. PICK m \in M : m.kind = k2 /\ m.cell = c2
      BY <2>1
    <3>2. m \in N
      BY <1>3, <3>1
    <3>3. Value(M, m.kind, m.cell) = m.value
      BY ValueOf
    <3>4. Value(N, m.kind, m.cell) = m.value
      BY <1>5, <3>2, ValueOf
    <3>5. QED BY <3>1, <3>3, <3>4
  <2>2. CASE ~\E m \in M : m.kind = k2 /\ m.cell = c2
    <3>1. ~\E m \in N : m.kind = k2 /\ m.cell = c2
      BY <1>1, <1>2, <2>2
    <3>2. QED BY <2>2, <3>1 DEF Value
  <2>3. QED BY <2>1, <2>2
<1>8. QED BY <1>3, <1>4, <1>5, <1>6, <1>7 DEF N

\* A range, its bound not spelt out.
LEMMA InRange ==
  ASSUME NEW a, NEW n \in Int
  PROVE  a \in 0..(n - 1) <=> a \in Int /\ 0 <= a /\ a < n
  BY SMT

\* A word of the microcontroller.
LEMMA WordIs ==
  ASSUME NEW a
  PROVE  a \in Words <=> a \in Int /\ 0 <= a /\ a < 65536
<1>1. Spi!Word \in Int /\ Spi!Word = 65536
  BY SMT DEF Spi!Word
<1>0. Spi!Word \in Int
  BY <1>1
<1>2. a \in 0..(Spi!Word - 1) <=> a \in Int /\ 0 <= a /\ a < Spi!Word
  BY <1>0, InRange
<1>3. a \in Words <=> a \in Int /\ 0 <= a /\ a < Spi!Word
  BY <1>2 DEF Words
<1>4. QED BY <1>1, <1>3, SMT

\* What a counter of a word's width holds.
LEMMA ModWord ==
  ASSUME NEW n \in Int
  PROVE  n % Spi!Word \in Words
<1>1. n % Spi!Word \in Int /\ 0 <= n % Spi!Word /\ n % Spi!Word < 65536
  BY SMT DEF Spi!Word
<1>2. QED BY <1>1, WordIs

\* Taking a number apart into the bytes of a command, and together again.
LEMMA Apart ==
  ASSUME NEW n \in Int, 0 <= n, n < 32768
  PROVE  256 * ((n \div 256) % 256) + (n % 256) = n
<1>1. n \div 256 \in Int /\ 0 <= n \div 256 /\ n \div 256 < 128
  BY SMT
<1>2. (n \div 256) % 256 = n \div 256
  BY <1>1, SMT
<1>3. 256 * (n \div 256) + (n % 256) = n
  BY SMT
<1>4. QED BY <1>2, <1>3

\* A byte's address is its word's and a bit.
LEMMA Halves ==
  ASSUME NEW a \in Int, 0 <= a, a < 65536
  PROVE  /\ a \div 2 \in Int /\ 0 <= a \div 2 /\ a \div 2 < 32768
         /\ a \div 512 = (a \div 2) \div 256
         /\ 2 * (a \div 2) + (a % 2) = a
  BY SMT

\* An EEPROM address is doubled first.
LEMMA Doubles ==
  ASSUME NEW a \in Int, 0 <= a, a < 32768
  PROVE  /\ (2 * a) % Spi!Word = 2 * a
         /\ (2 * a) \div 2 = a /\ (2 * a) \div 512 = a \div 256
  BY SMT DEF Spi!Word

\* spi_rw: a chip takes the command for address a to mean the cell a.
LEMMA CellOf ==
  ASSUME NEW c0 \in {32, 64, 160, 192}, NEW a \in Words, c0 >= 128 => a < 32768
  PROVE  Spi!Cell(Spi!spi_rw(c0, a)) = a
<1>0. a \in Int /\ 0 <= a /\ a < 65536
  BY WordIs
<1> DEFINE half == a \div 2
<1>1. CASE ~(c0 >= 128)
  <2>1. Spi!spi_rw(c0, a) = [c0 |-> c0, high |-> a % 2, c1 |-> (a \div 512) % 256, c2 |-> half % 256]
    BY <1>1 DEF Spi!spi_rw
  <2>2. Spi!Cell(Spi!spi_rw(c0, a)) = 2 * (256 * ((a \div 512) % 256) + (half % 256)) + (a % 2)
    BY <1>1, <2>1 DEF Spi!Cell
  <2>3. /\ half \in Int /\ 0 <= half /\ half < 32768
        /\ a \div 512 = half \div 256
        /\ 2 * half + (a % 2) = a
    BY <1>0, Halves
  <2> HIDE DEF half
  <2>4. 256 * ((half \div 256) % 256) + (half % 256) = half
    BY <2>3, Apart
  <2>5. Spi!Cell(Spi!spi_rw(c0, a)) = 2 * half + (a % 2)
    BY <2>2, <2>3, <2>4
  <2>6. QED BY <2>3, <2>5
<1>2. CASE c0 >= 128
  <2>1. a < 32768
    BY <1>2
  <2>2. Spi!spi_rw(c0, a) = [c0 |-> c0, high |-> (2 * a) % 2, c1 |-> ((2 * a) \div 512) % 256, c2 |-> ((2 * a) \div 2) % 256]
    BY <1>0, <1>2, <2>1, Doubles DEF Spi!spi_rw
  <2>3. Spi!Cell(Spi!spi_rw(c0, a)) = 256 * (((2 * a) \div 512) % 256) + (((2 * a) \div 2) % 256)
    BY <1>2, <2>2 DEF Spi!Cell
  <2>4. Spi!Cell(Spi!spi_rw(c0, a)) = 256 * ((a \div 256) % 256) + (a % 256)
    BY <1>0, <2>1, <2>3, Doubles
  <2>5. QED BY <1>0, <2>1, <2>4, Apart
<1>3. QED BY <1>1, <1>2

\* A transfer that passes the last address goes on at the first.
LEMMA OntoIs ==
  ASSUME NEW a \in Int, NEW k \in Int, 0 <= a, a < 65536, 0 <= k, k <= 4096
  PROVE  /\ a + k < 65536 => Onto(a, k) = a + k
         /\ a + k >= 65536 => Onto(a, k) = a + k - 65536
<1>1. a + k < 65536 => Onto(a, k) = a + k
  BY SMT DEF Onto, Spi!Word
<1>2. a + k >= 65536 => Onto(a, k) = a + k - 65536
  BY SMT DEF Onto, Spi!Word
<1>3. QED BY <1>1, <1>2

\* Each byte of a transfer has an address, in an EEPROM a small one.
LEMMA OntoWords ==
  ASSUME NEW a \in Words, NEW k \in Int, 0 <= k, k <= 4096
  PROVE  Onto(a, k) \in Words /\ (a < 4096 => Onto(a, k) < 32768)
<1>1. a \in Int /\ 0 <= a /\ a < 65536
  BY WordIs
<1>2. /\ a + k < 65536 => Onto(a, k) = a + k
      /\ a + k >= 65536 => Onto(a, k) = a + k - 65536
  BY <1>1, OntoIs
<1>3. Onto(a, k) \in Int /\ 0 <= Onto(a, k) /\ Onto(a, k) < 65536 /\ (a < 4096 => Onto(a, k) < 32768)
  BY <1>1, <1>2, SMT
<1>4. QED BY <1>3, WordIs

\* The bytes of a transfer go to different cells.
LEMMA OntoDifferent ==
  ASSUME NEW a \in Words, NEW j \in Int, NEW k \in Int, 0 <= j, j <= 4096, 0 <= k, k <= 4096, Onto(a, j) = Onto(a, k)
  PROVE  j = k
<1>1. a \in Int /\ 0 <= a /\ a < 65536
  BY WordIs
<1>2. /\ a + k < 65536 => Onto(a, k) = a + k
      /\ a + k >= 65536 => Onto(a, k) = a + k - 65536
  BY <1>1, OntoIs
<1>3. /\ a + j < 65536 => Onto(a, j) = a + j
      /\ a + j >= 65536 => Onto(a, j) = a + j - 65536
  BY <1>1, OntoIs
<1>4. QED BY <1>1, <1>2, <1>3, SMT

\* The next byte's address.
LEMMA OntoNext ==
  ASSUME NEW a \in Words, NEW k \in Int, 0 <= k, k < 4096
  PROVE  (Onto(a, k) + 1) % Spi!Word = Onto(a, k + 1)
<1>1. a \in Int /\ 0 <= a /\ a < 65536
  BY WordIs
<1>2. /\ a + k < 65536 => Onto(a, k) = a + k
      /\ a + k >= 65536 => Onto(a, k) = a + k - 65536
  BY <1>1, OntoIs, SMT
<1>3. /\ a + (k + 1) < 65536 => Onto(a, k + 1) = a + (k + 1)
      /\ a + (k + 1) >= 65536 => Onto(a, k + 1) = a + (k + 1) - 65536
  BY <1>1, OntoIs, SMT
<1>4. CASE a + k < 65535
  <2>1. Onto(a, k) + 1 \in Int /\ 0 <= Onto(a, k) + 1 /\ Onto(a, k) + 1 < 65536 /\ Onto(a, k + 1) = Onto(a, k) + 1
    BY <1>1, <1>2, <1>3, <1>4, SMT
  <2>2. QED BY <2>1, SMT DEF Spi!Word
<1>5. CASE a + k = 65535
  <2>1. Onto(a, k) + 1 = 65536 /\ Onto(a, k + 1) = 0
    BY <1>1, <1>2, <1>3, <1>5, SMT
  <2>2. QED BY <2>1, SMT DEF Spi!Word
<1>6. CASE a + k > 65535
  <2>1. Onto(a, k) + 1 \in Int /\ 0 <= Onto(a, k) + 1 /\ Onto(a, k) + 1 < 65536 /\ Onto(a, k + 1) = Onto(a, k) + 1
    BY <1>1, <1>2, <1>3, <1>6, SMT
  <2>2. QED BY <2>1, SMT DEF Spi!Word
<1>7. QED BY <1>1, <1>4, <1>5, <1>6, SMT

\* Back by one, as the polling loop goes.
LEMMA BackOne ==
  ASSUME NEW w \in Words, NEW o, o = (w + 1) % Spi!Word
  PROVE  (o + Spi!Word - 1) % Spi!Word = w
<1>1. w \in Int /\ 0 <= w /\ w < 65536
  BY WordIs
<1>2. CASE w = 65535
  <2>1. o = 0
    BY <1>2, SMT DEF Spi!Word
  <2>2. QED BY <1>2, <2>1, SMT DEF Spi!Word
<1>3. CASE w < 65535
  <2>1. o = w + 1
    BY <1>1, <1>3, SMT DEF Spi!Word
  <2>2. ((w + 1) + Spi!Word - 1) % Spi!Word = w
    BY <1>1, SMT DEF Spi!Word
  <2>3. QED BY <2>1, <2>2
<1>4. QED BY <1>1, <1>2, <1>3, SMT

\* The address of the byte before.
LEMMA OntoBack ==
  ASSUME NEW a \in Words, NEW k \in Int, 0 < k, k <= 4096
  PROVE  (Onto(a, k) + Spi!Word - 1) % Spi!Word = Onto(a, k - 1)
<1>1. a \in Int /\ 0 <= a /\ a < 65536 /\ Onto(a, k - 1) \in Words
  BY WordIs, OntoWords, SMT
<1>2. (Onto(a, k - 1) + 1) % Spi!Word = Onto(a, k)
  <2>1. k - 1 \in Int /\ 0 <= k - 1 /\ k - 1 < 4096 /\ (k - 1) + 1 = k
    BY SMT
  <2>2. QED BY <2>1, OntoNext
<1>3. Onto(a, k) = (Onto(a, k - 1) + 1) % Spi!Word
  BY <1>2
<1> DEFINE w == Onto(a, k - 1)
<1> DEFINE o == Onto(a, k)
<1>4. w \in Words /\ o = (w + 1) % Spi!Word
  BY <1>1, <1>3
<1> HIDE DEF w, o
<1>5. (o + Spi!Word - 1) % Spi!Word = w
  BY <1>4, BackOne
<1>6. QED BY <1>5 DEF w, o

\* The model's Stored.
LEMMA SpiStored == \A k, c : Spi!Stored(k, c) = Value(mem, k, c)
  BY Zenon DEF Spi!Stored, Spi!Erased, Value

\* A memory's values are bytes.
LEMMA ValueType ==
  ASSUME NEW M \in SUBSET Cells, NEW k, NEW c
  PROVE  Value(M, k, c) \in Octets
<1>1. CASE \E m \in M : m.kind = k /\ m.cell = c
  <2>1. (CHOOSE m \in M : m.kind = k /\ m.cell = c) \in M
    BY <1>1
  <2>2. (CHOOSE m \in M : m.kind = k /\ m.cell = c).value \in Octets
    BY <2>1 DEF Cells
  <2>3. QED BY <1>1, <2>2 DEF Value
<1>2. CASE ~\E m \in M : m.kind = k /\ m.cell = c
  <2>1. Value(M, k, c) = 255
    BY <1>2 DEF Value
  <2>2. QED BY <2>1 DEF Octets
<1>3. QED BY <1>1, <1>2

\* The model's address of the i-th byte.
LEMMA SpiAt ==
  ASSUME start \in Words, NEW i \in Int
  PROVE  Spi!At(i) = Addr(i)
<1>1. start + i - 1 = start + (i - 1)
  BY WordIs
<1>2. QED BY <1>1, Zenon DEF Spi!At, Addr, Onto

\* How far the transfer has come.
LEMMA GoneIs ==
  ASSUME SpiInv
  PROVE  /\ Gone \in Int /\ 0 <= Gone /\ Gone <= 4096 /\ Gone <= Len(data)
         /\ Len(left) \in Int /\ Len(data) \in Int /\ Len(data) <= 4096
         /\ left # <<>> => Gone < Len(data)
         /\ left = <<>> => Gone = Len(data)
         /\ left # <<>> => kind # "none"
         /\ Addr(Gone + 1) = Onto(start, Gone)
<1>1. left \in Seq(Octets) /\ data \in Seq(Octets) /\ Len(left) <= Len(data) /\ Len(data) <= 4096
  BY DEF SpiInv, SpiTypes, Place
<1>2. Len(left) \in Nat /\ Len(data) \in Nat
  BY <1>1, LenProperties
<1>3. (left # <<>> => Len(left) > 0) /\ (left = <<>> => Len(left) = 0)
  BY <1>1, EmptySeq
<1>4. left # <<>> => kind # "none"
  <2>1. kind = "none" => data = <<>>
    BY DEF SpiInv, Place
  <2>2. data = <<>> => Len(data) = 0
    BY EmptySeq
  <2>3. QED BY <1>1, <1>2, <1>3, <2>1, <2>2
<1>5. Gone \in Int /\ Gone + 1 - 1 = Gone
  BY <1>2 DEF Gone
<1>6. Addr(Gone + 1) = Onto(start, Gone)
  BY <1>5 DEF Addr
<1>7. Len(left) <= Len(data) /\ Len(data) <= 4096
  BY <1>1
<1>8. /\ 0 <= Gone /\ Gone <= 4096 /\ Gone <= Len(data)
      /\ left # <<>> => Gone < Len(data)
      /\ left = <<>> => Gone = Len(data)
  BY <1>2, <1>3, <1>7 DEF Gone
<1>9. QED BY <1>2, <1>4, <1>5, <1>6, <1>7, <1>8

\* The command for the k-th byte goes to its cell.
LEMMA CommandCell ==
  ASSUME SpiInv, kind # "none", NEW k \in Int, 1 <= k, k <= 4096
  PROVE  /\ Addr(k) \in Words
         /\ Spi!Cell(Spi!spi_rw(cmd0, Addr(k))) = Addr(k)
<1>1. start \in Words /\ k - 1 \in Int /\ 0 <= k - 1 /\ k - 1 <= 4096
  BY DEF SpiInv, SpiTypes
<1>2. Addr(k) \in Words /\ (start < 4096 => Addr(k) < 32768)
  BY <1>1, OntoWords DEF Addr
<1>3. kind \in Spi!Requests /\ cmd0 = Spi!CommandByte(kind) /\ (Memory = "eeprom" => start < 4096)
  BY DEF SpiInv, SpiTypes, Place
<1>4. cmd0 \in {32, 64, 160, 192} /\ (cmd0 >= 128 => Memory = "eeprom")
  BY <1>3 DEF Spi!Requests, Spi!CommandByte, Memory, Spi!MemoryOf
<1>5. QED BY <1>2, <1>3, <1>4, CellOf

\* Two bytes of a transfer go to different cells.
LEMMA OtherCell ==
  ASSUME SpiInv, NEW j \in Int, NEW k \in Int, 1 <= j, j <= 4096, 1 <= k, k <= 4096, j # k
  PROVE  Addr(j) # Addr(k)
<1>1. start \in Words
  BY DEF SpiInv, SpiTypes
<1>2. SUFFICES ASSUME Addr(j) = Addr(k) PROVE FALSE
  OBVIOUS
<1>3. j - 1 \in Int /\ k - 1 \in Int /\ 0 <= j - 1 /\ 0 <= k - 1 /\ j - 1 <= 4096 /\ k - 1 <= 4096
  OBVIOUS
<1>4. j - 1 = k - 1
  BY <1>1, <1>2, <1>3, OntoDifferent DEF Addr
<1>5. QED BY <1>4

\* Time passes in the chip.
LEMMA ElapsesIs ==
  ASSUME SpiTypes, Spi!Elapses
  PROVE  /\ busy = <<>> => mem' = mem /\ busy' = <<>>
         /\ busy # <<>> /\ busy[1].left > 1 =>
              /\ mem' = mem /\ busy' # <<>> /\ busy' = <<busy'[1]>> /\ busy'[1] \in Writing
              /\ busy'[1].kind = busy[1].kind /\ busy'[1].cell = busy[1].cell
              /\ busy'[1].value = busy[1].value /\ busy'[1].left = busy[1].left - 1
         /\ busy # <<>> /\ ~(busy[1].left > 1) =>
              /\ busy' = <<>>
              /\ mem' = Put(mem, busy[1].kind, busy[1].cell, busy[1].value)
<1>1. CASE busy = <<>>
  BY <1>1 DEF Spi!Elapses, Spi!chip
<1>2. CASE busy # <<>> /\ busy[1].left > 1
  <2>1. mem' = mem /\ busy' = <<[busy[1] EXCEPT !.left = busy[1].left - 1]>>
    BY <1>2 DEF Spi!Elapses
  <2>2. busy[1] \in Writing
    BY <1>2 DEF SpiTypes
  <2> DEFINE w == [busy[1] EXCEPT !.left = busy[1].left - 1]
  <2>3. /\ w \in Writing /\ w.kind = busy[1].kind /\ w.cell = busy[1].cell
        /\ w.value = busy[1].value /\ w.left = busy[1].left - 1
    BY <1>2, <2>2 DEF Writing
  <2>4. busy' = <<w>>
    BY <2>1
  <2> HIDE DEF w
  <2>5. busy'[1] = w /\ busy' # <<>>
    BY <2>4
  <2>6. QED BY <1>2, <2>1, <2>3, <2>4, <2>5
<1>3. CASE busy # <<>> /\ ~(busy[1].left > 1)
  BY <1>3 DEF Spi!Elapses, Put
<1>4. QED BY <1>1, <1>2, <1>3

\* The chip is done with a byte before the commands of the timeout are over.
LEMMA InTime ==
  ASSUME NEW t \in Int, 0 <= t, NEW s \in Int, 1 <= s, NEW n \in Int, n <= t \div (32 * s)
  PROVE  n * (32 * s) <= t
<1>1. 32 * s \in Int /\ 32 * s > 0
  OBVIOUS
<1> DEFINE d == 32 * s
<1> DEFINE q == t \div d
<1>2. d \in Int /\ d > 0
  BY <1>1
<1> HIDE DEF d
<1>3. q \in Int /\ q * d <= t
  BY <1>2, SMT
<1>4. n <= q
  BY DEF d
<1> HIDE DEF q
<1>5. n * d <= q * d
  BY <1>2, <1>3, <1>4, SMT
<1>6. n * d \in Int /\ q * d \in Int
  BY <1>2, <1>3
<1>7. n * d <= t
  BY <1>3, <1>5, <1>6
<1>8. QED BY <1>7 DEF d

\* A turn of the loop takes as much time as the chip was promised, so the counter stays in bounds.
LEMMA OneLess ==
  ASSUME NEW n \in Int, n > 1, NEW s \in Int, s >= 1, s <= 250, NEW u \in Int, 0 <= u, NEW t \in Int,
         t < 65536, n * (32 * s) + u <= t
  PROVE  /\ (u + 32 * s) % Spi!Word = u + 32 * s
         /\ (n - 1) * (32 * s) + (u + 32 * s) <= t
<1> DEFINE d == 32 * s
<1>1. d \in Int /\ d > 0 /\ d <= 8000
  OBVIOUS
<1>2. n * d + u <= t
  OBVIOUS
<1> HIDE DEF d
<1>3. (n - 1) * d = n * d - d /\ n * d \in Int
  BY <1>1, SMT
<1>4. n * d >= d
  BY <1>1, SMT
<1>5. u + d <= t
  BY <1>1, <1>2, <1>3, <1>4, SMT
<1>6. (n - 1) * d + (u + d) <= t
  BY <1>1, <1>2, <1>3, SMT
<1>7. (u + d) % Spi!Word = u + d
  BY <1>1, <1>5, SMT DEF Spi!Word
<1>8. QED BY <1>6, <1>7 DEF d

\* While the chip writes, the timeout is not over.
LEMMA NoneLeft ==
  ASSUME NEW n \in Int, n > 0, NEW s \in Int, s >= 1, NEW u \in Int, NEW t \in Int,
         n * (32 * s) + u <= t
  PROVE  u < t
<1>1. n * (32 * s) > 0 /\ n * (32 * s) \in Int
  BY SMT
<1>2. QED BY <1>1, SMT

\* usbFunctionSetup: a transfer begins, with the chip at rest.
LEMMA SpiSetup ==
  ASSUME AdapterAssumption, SpiInv,
         NEW k \in Spi!Requests, NEW a \in Starts, NEW bytes \in Contents, NEW t \in Timeouts, NEW s \in SckPeriods,
         Spi!Setup(k, a, bytes, t, s)
  PROVE  SpiInv' /\ mem' = mem
<1>1. /\ a \in Words /\ t \in Words /\ s \in 1..250 /\ bytes \in Seq(0..255) /\ Len(bytes) <= 4096
  BY DEF AdapterAssumption, Spi!SpiAssumption, Spi!EepromSize, Words
<1>2. /\ kind' = k /\ start' = a /\ data' = bytes /\ left' = bytes /\ address' = a /\ got' = <<>>
      /\ cmd0' = Spi!CommandByte(k) /\ sck_period' = s /\ timeout' \in {t, timeout}
      /\ cmd3' = cmd3 /\ usec' = usec /\ polling' = polling /\ mem' = mem /\ busy' = busy
      /\ ~polling /\ (Spi!MemoryOf(k) = "eeprom" => a < 4096)
  BY DEF Spi!Setup, Spi!chip, Spi!EepromSize
<1>3. busy = <<>>
  BY <1>2 DEF SpiInv, Waits
<1>4. SpiTypes'
  <2>1. /\ kind' \in Spi!Requests \union {"none"} /\ start' \in Words /\ address' \in Words
        /\ timeout' \in Words /\ sck_period' \in 1..250
    BY <1>1, <1>2 DEF SpiInv, SpiTypes
  <2>2. left' \in Seq(Octets) /\ data' \in Seq(Octets) /\ got' \in Seq(Octets)
    BY <1>1, <1>2 DEF Octets
  <2>3. QED BY <1>2, <2>1, <2>2 DEF SpiInv, SpiTypes, OneEach
<1>5. Len(bytes) \in Nat
  BY <1>1, LenProperties
<1>6. Gone' = 0
  BY <1>2, <1>5 DEF Gone
<1>7. k # "none" /\ kind' # "none"
  BY <1>2 DEF Spi!Requests
<1>8. Onto(a, 0) = a
  <2>1. a \in Int /\ 0 <= a /\ a < 65536
    BY <1>1, WordIs
  <2>2. Onto(a, 0) = a + 0
    BY <2>1, OntoIs
  <2>3. QED BY <2>1, <2>2
<1>9. Place'
  <2>1. address' = Onto(start', Gone')
    BY <1>2, <1>6, <1>8
  <2>2. \A i \in 1..Len(left') : left'[i] = data'[Gone' + i]
    BY <1>2, <1>5, <1>6
  <2>3. Len(left') <= Len(data') /\ Len(data') <= 4096
    BY <1>1, <1>2, <1>5
  <2>4. cmd0' = Spi!CommandByte(kind') /\ (Memory' = "eeprom" => start' < 4096)
    BY <1>2 DEF Memory
  <2>5. QED BY <1>7, <2>1, <2>2, <2>3, <2>4 DEF Place
<1>10. Wrote' /\ Waits' /\ Readings'
  BY <1>2, <1>3, <1>6 DEF Wrote, Waits, Readings
<1>11. QED BY <1>2, <1>4, <1>9, <1>10 DEF SpiInv

\* What a byte that goes changes in all of a transfer's steps.
LEMMA NextByte ==
  ASSUME SpiInv, left # <<>>, left' = Tail(left), address' = (address + 1) % Spi!Word,
         UNCHANGED <<kind, start, data, cmd0, timeout, sck_period>>
  PROVE  /\ Place' /\ Gone' = Gone + 1 /\ Head(left) = data[Gone + 1] /\ Head(left) \in Octets
         /\ left' \in Seq(Octets) /\ address' \in Words
<1>1. /\ Gone \in Int /\ 0 <= Gone /\ Gone < 4096 /\ kind # "none" /\ Len(data) \in Int /\ Len(data) <= 4096
      /\ Gone < Len(data) /\ Len(left) \in Int
  BY GoneIs
<1>2. left \in Seq(Octets) /\ start \in Words /\ left # <<>>
  BY DEF SpiInv, SpiTypes
<1>3. /\ left' \in Seq(Octets) /\ Head(left) \in Octets /\ Head(left) = left[1]
      /\ Len(left') = Len(left) - 1 /\ \A i \in 1..Len(left') : left'[i] = left[i + 1]
  BY <1>2, HeadTailProperties
<1>4. Gone' = Gone + 1
  BY <1>1, <1>3 DEF Gone
<1>5. address = Onto(start, Gone) /\ \A i \in 1..Len(left) : left[i] = data[Gone + i]
  BY DEF SpiInv, Place
<1>6. address' = Onto(start, Gone + 1)
  BY <1>1, <1>2, <1>5, OntoNext
<1>7. Len(left) = Len(data) - Gone
  BY <1>1 DEF Gone
<1>8. 1 \in 1..Len(left)
  BY <1>1, <1>7
<1>9. Head(left) = data[Gone + 1]
  BY <1>3, <1>5, <1>8
<1>10. \A i \in 1..Len(left') : left'[i] = data'[Gone' + i]
  <2> SUFFICES ASSUME NEW i \in 1..Len(left') PROVE left'[i] = data'[Gone' + i]
    OBVIOUS
  <2>1. i + 1 \in 1..Len(left) /\ (Gone + 1) + i = Gone + (i + 1)
    BY <1>1, <1>3
  <2>2. left'[i] = data[Gone + (i + 1)]
    BY <1>3, <1>5, <2>1
  <2>3. QED BY <1>4, <2>1, <2>2
<1>11. address' \in Words
  <2>1. Gone + 1 \in Int /\ 0 <= Gone + 1 /\ Gone + 1 <= 4096
    BY <1>1
  <2>2. QED BY <1>2, <1>6, <2>1, OntoWords
<1>12. Len(left') <= Len(data')
  BY <1>1, <1>3, <1>7
<1>13. Place'
  <2>1. cmd0 = Spi!CommandByte(kind) /\ (Memory = "eeprom" => start < 4096) /\ Memory' = Memory
    BY <1>1 DEF SpiInv, Place, Memory
  <2>2. QED BY <1>1, <1>4, <1>6, <1>10, <1>12, <2>1 DEF Place
<1>14. QED BY <1>3, <1>4, <1>9, <1>11, <1>13

\* usbFunctionRead: a byte is read while the chip writes nothing.
LEMMA SpiRead ==
  ASSUME SpiInv, Spi!ReadByte
  PROVE  SpiInv' /\ mem' = mem
<1>1. /\ left # <<>> /\ left' = Tail(left) /\ address' = (address + 1) % Spi!Word
      /\ ~Spi!IsWrite(kind)
      /\ got' = Append(got, Spi!ReadBack(Spi!MemoryOf(kind), Spi!Cell(Spi!spi_rw(cmd0, address))))
      /\ Spi!Elapses
      /\ UNCHANGED <<kind, start, data, cmd0, timeout, sck_period, cmd3, usec, polling>>
  BY DEF Spi!ReadByte, Spi!request
<1>2. SpiTypes
  BY DEF SpiInv
<1>3. busy = <<>> /\ ~polling
  BY <1>1 DEF SpiInv, Waits
<1>4. mem' = mem /\ busy' = <<>>
  BY <1>1, <1>2, <1>3, ElapsesIs
<1>5. Place' /\ Gone' = Gone + 1 /\ left' \in Seq(Octets) /\ address' \in Words
  BY <1>1, NextByte
<1>6. /\ Gone \in Int /\ 0 <= Gone /\ Gone < 4096 /\ kind # "none"
      /\ address = Addr(Gone + 1)
  BY <1>1, GoneIs DEF SpiInv, Place
<1> DEFINE byte == Value(mem, Memory, Addr(Gone + 1))
<1>7. Spi!ReadBack(Spi!MemoryOf(kind), Spi!Cell(Spi!spi_rw(cmd0, address))) = byte
  <2>1. Spi!Cell(Spi!spi_rw(cmd0, address)) = Addr(Gone + 1)
    BY <1>6, CommandCell
  <2>2. QED BY <1>3, <2>1, SpiStored DEF Spi!ReadBack, Memory
<1>8. byte \in Octets
  BY <1>2, ValueType DEF SpiTypes
<1>9. got \in Seq(Octets) /\ got' = Append(got, byte)
  BY <1>1, <1>2, <1>7 DEF SpiTypes
<1>10. Len(got) = Gone /\ \A k \in 1..Len(got) : got[k] = Value(mem, Memory, Addr(k))
  BY <1>1, <1>6 DEF SpiInv, Readings
<1> HIDE DEF byte
<1>11. /\ got' \in Seq(Octets) /\ Len(got') = Gone + 1 /\ got'[Gone + 1] = byte
       /\ \A k \in 1..Gone : got'[k] = got[k]
  BY <1>8, <1>9, <1>10, AppendProperties
<1>12. SpiTypes'
  BY <1>1, <1>2, <1>4, <1>5, <1>11 DEF SpiTypes, OneEach
<1>13. Memory' = Memory /\ \A k : Addr(k)' = Addr(k)
  BY <1>1 DEF Memory, Addr
<1>14. Readings'
  <2>1. \A k \in 1..(Gone + 1) : got'[k] = Value(mem, Memory, Addr(k))
    <3> SUFFICES ASSUME NEW k \in 1..(Gone + 1) PROVE got'[k] = Value(mem, Memory, Addr(k))
      OBVIOUS
    <3>1. k = Gone + 1 \/ k \in 1..Gone
      BY <1>6
    <3>2. QED BY <1>10, <1>11, <3>1 DEF byte
  <2>2. QED BY <1>1, <1>4, <1>5, <1>6, <1>11, <1>13, <2>1 DEF Readings
<1>15. Wrote' /\ Waits'
  BY <1>1, <1>3, <1>4 DEF Wrote, Waits
<1>16. QED BY <1>4, <1>5, <1>12, <1>14, <1>15 DEF SpiInv

\* usbFunctionWrite: the write command of a byte, to a chip at rest.
LEMMA SpiWrite ==
  ASSUME SpiInv, Spi!WriteByte
  PROVE  SpiInv' /\ \A m \in mem : m \in mem' \/ (m.kind = Memory /\ m.cell = Addr(Gone + 1))
<1>1. /\ left # <<>> /\ left' = Tail(left) /\ address' = (address + 1) % Spi!Word
      /\ Spi!IsWrite(kind) /\ ~polling /\ polling' = TRUE /\ usec' = 0 /\ cmd3' = Head(left)
      /\ Spi!ChipWrites(Spi!MemoryOf(kind), Spi!Cell(Spi!spi_rw(cmd0, address)), Head(left))
      /\ UNCHANGED <<kind, start, data, cmd0, timeout, sck_period, got>>
  BY DEF Spi!WriteByte, Spi!request
<1>2. SpiTypes
  BY DEF SpiInv
<1>3. busy = <<>>
  BY <1>1 DEF SpiInv, Waits
<1>4. /\ Place' /\ Gone' = Gone + 1 /\ left' \in Seq(Octets) /\ address' \in Words
      /\ cmd3' = data[Gone + 1] /\ cmd3' \in Octets
  BY <1>1, NextByte
<1>5. /\ Gone \in Int /\ 0 <= Gone /\ Gone < 4096 /\ kind # "none"
      /\ address = Addr(Gone + 1)
  BY <1>1, GoneIs DEF SpiInv, Place
<1> DEFINE c == Addr(Gone + 1)
<1>6. c \in Words /\ Spi!Cell(Spi!spi_rw(cmd0, address)) = c
  BY <1>5, CommandCell
<1>7. Memory \in {"flash", "eeprom"} /\ Memory' = Memory /\ \A k : Addr(k)' = Addr(k)
  BY <1>1 DEF Memory, Spi!MemoryOf, Addr
<1>8. Gone' - 1 = Gone /\ Gone' > 0
  BY <1>4, <1>5
<1>9. usec' \in Words
  <2>1. 0 \in Words
    BY WordIs
  <2>2. QED BY <1>1, <2>1
<1>10. mem \in SUBSET Cells /\ OneEach(mem) /\ timeout \in Words /\ sck_period \in 1..250
  BY <1>2 DEF SpiTypes
<1>11. \A k \in 1..Gone : Value(mem, Memory, Addr(k)) = data[k]
  BY <1>1 DEF SpiInv, Wrote
<1>12. Readings'
  BY <1>1 DEF SpiInv, Readings
<1>13. PICK n \in 0..Spi!Slowest :
         IF n = 0
         THEN /\ mem' = Put(mem, Memory, c, cmd3')
              /\ busy' = <<>>
         ELSE busy' = <<[kind |-> Memory, cell |-> c, value |-> cmd3', left |-> n]>> /\ mem' = mem
  BY <1>1, <1>3, <1>6 DEF Spi!ChipWrites, Memory, Put
<1> HIDE DEF c
<1>14. CASE n = 0
  <2>1. mem' = Put(mem, Memory, c, cmd3')
    BY <1>13, <1>14
  <2>2. /\ mem' \in SUBSET Cells /\ OneEach(mem')
        /\ Value(mem', Memory, c) = cmd3'
        /\ \A k2, c2 : k2 # Memory \/ c2 # c => Value(mem', k2, c2) = Value(mem, k2, c2)
        /\ \A m \in mem : m \in mem' \/ (m.kind = Memory /\ m.cell = c)
    <3>1. mem \in SUBSET Cells /\ OneEach(mem)
      BY <1>10
    <3>2. Memory \in {"flash", "eeprom"} /\ c \in Words /\ cmd3' \in Octets
      BY <1>4, <1>6, <1>7
    <3>3. QED BY <2>1, <3>1, <3>2, PutValue
  <2>3. busy' = <<>>
    BY <1>13, <1>14
  <2>4. SpiTypes'
    <3>1. OneEach(mem)'
      BY <2>2 DEF OneEach
    <3>2. QED BY <1>1, <1>2, <1>4, <1>9, <2>2, <2>3, <3>1 DEF SpiTypes
  <2>5. \A k \in 1..Gone : Value(mem', Memory, Addr(k)) = data[k]
    <3> SUFFICES ASSUME NEW k \in 1..Gone PROVE Value(mem', Memory, Addr(k)) = data[k]
      OBVIOUS
    <3>1. k \in Int /\ 1 <= k /\ k <= 4096 /\ k # Gone + 1 /\ Gone + 1 \in Int /\ 1 <= Gone + 1 /\ Gone + 1 <= 4096
      BY <1>5
    <3>2. Addr(k) # c
      BY <3>1, OtherCell DEF c
    <3>3. QED BY <1>11, <2>2, <3>2
  <2>6. Wrote'
    BY <1>1, <1>7, <1>8, <2>5 DEF Wrote
  <2>7. Waits'
    BY <1>1, <1>4, <1>7, <1>8, <2>2, <2>3 DEF Waits, c
  <2>8. QED BY <1>4, <1>12, <2>2, <2>4, <2>6, <2>7 DEF SpiInv, c
<1>15. CASE n # 0
  <2> DEFINE w == [kind |-> Memory, cell |-> c, value |-> cmd3', left |-> n]
  <2>1. busy' = <<w>> /\ mem' = mem
    BY <1>13, <1>15
  <2>2. /\ timeout \in Int /\ 0 <= timeout /\ sck_period \in Int /\ 1 <= sck_period
        /\ Spi!Slowest \in Int
    <3>1. timeout \in Int /\ 0 <= timeout
      BY <1>10, WordIs
    <3>2. sck_period \in Int /\ 1 <= sck_period
      BY <1>10
    <3>3. 32 * sck_period \in Int /\ 32 * sck_period > 0
      BY <3>2
    <3>4. QED BY <3>1, <3>2, <3>3 DEF Spi!Slowest
  <2>3. n \in Int /\ n > 0 /\ n <= timeout \div (32 * sck_period)
    BY <1>15, <2>2 DEF Spi!Slowest
  <2>4. n * (32 * sck_period) <= timeout
    BY <2>2, <2>3, InTime
  <2>5. n * (32 * sck_period) + 0 <= timeout
    BY <2>2, <2>3, <2>4
  <2>6. /\ w \in Writing /\ w.kind = Memory /\ w.cell = c /\ w.value = cmd3' /\ w.left = n
    BY <1>4, <1>6, <1>7, <2>3 DEF Writing
  <2> HIDE DEF w
  <2>7. busy' # <<>> /\ busy'[1] = w /\ busy' = <<busy'[1]>>
    BY <2>1
  <2>8. SpiTypes'
    <3>1. OneEach(mem)'
      BY <1>10, <2>1 DEF OneEach
    <3>2. QED BY <1>1, <1>2, <1>4, <1>9, <2>1, <2>6, <2>7, <3>1 DEF SpiTypes
  <2>9. Wrote'
    BY <1>1, <1>7, <1>8, <1>11, <2>1 DEF Wrote
  <2>10. Waits'
    BY <1>1, <1>4, <1>7, <1>8, <2>5, <2>6, <2>7 DEF Waits, c
  <2>11. QED BY <1>4, <1>12, <2>1, <2>8, <2>9, <2>10 DEF SpiInv
<1>16. QED BY <1>14, <1>15

\* usbFunctionWrite: a turn of the polling loop.  A chip at work answers with a poll byte, so
\* the loop ends only when the byte is in memory.
LEMMA SpiPoll ==
  ASSUME SpiInv, Spi!Poll
  PROVE  SpiInv' /\ \A m \in mem : m \in mem' \/ (m.kind = Memory /\ m.cell = Addr(Gone))
<1> DEFINE r == Spi!ReadBack(Spi!MemoryOf(kind), Spi!Cell(Spi!spi_rw(cmd0, (address + Spi!Word - 1) % Spi!Word)))
<1>1. /\ polling /\ usec < timeout /\ Spi!Elapses /\ polling' = ~Spi!Done(r)
      /\ usec' = (IF Spi!Done(r) THEN usec ELSE (usec + 32 * sck_period) % Spi!Word)
      /\ UNCHANGED <<kind, start, data, cmd0, timeout, sck_period, left, address, cmd3, got>>
  BY DEF Spi!Poll, Spi!request
<1>2. SpiTypes
  BY DEF SpiInv
<1>3. /\ Spi!IsWrite(kind) /\ Gone > 0 /\ cmd3 = data[Gone]
      /\ busy = <<>> => Value(mem, Memory, Addr(Gone)) = cmd3
      /\ busy # <<>> => /\ busy[1].kind = Memory /\ busy[1].cell = Addr(Gone) /\ busy[1].value = cmd3
                        /\ busy[1].left * (32 * sck_period) + usec <= timeout
  BY <1>1 DEF SpiInv, Waits
<1>4. Gone \in Int /\ 1 <= Gone /\ Gone <= 4096 /\ Gone' = Gone
  BY <1>1, <1>3, GoneIs DEF Gone
<1>5. Memory \in {"flash", "eeprom"} /\ Memory' = Memory /\ \A k : Addr(k)' = Addr(k)
  BY <1>1 DEF Memory, Spi!MemoryOf, Addr
<1>6. kind # "none"
  BY <1>3 DEF Spi!IsWrite
<1> DEFINE c == Addr(Gone)
<1>7. c \in Words /\ Spi!Cell(Spi!spi_rw(cmd0, c)) = c
  BY <1>4, <1>6, CommandCell
<1>8. (address + Spi!Word - 1) % Spi!Word = c
  BY <1>4, OntoBack DEF SpiInv, SpiTypes, Place, Addr
<1>9. r = Spi!ReadBack(Memory, c)
  BY <1>7, <1>8 DEF Memory
<1> HIDE DEF r
<1>10. /\ mem \in SUBSET Cells /\ OneEach(mem) /\ timeout \in Words /\ sck_period \in 1..250
       /\ usec \in Words /\ cmd3 \in Octets
  BY <1>2 DEF SpiTypes
<1>11. \A k \in 1..(Gone - 1) : Value(mem, Memory, Addr(k)) = data[k]
  BY <1>1, <1>3 DEF SpiInv, Wrote
<1>12. Readings' /\ Place'
  BY <1>1, <1>3, <1>4, <1>5, <1>6 DEF SpiInv, Readings, Place
<1>13. CASE busy = <<>>
  <2>1. mem' = mem /\ busy' = <<>>
    BY <1>1, <1>2, <1>13, ElapsesIs
  <2>2. Value(mem, Memory, c) = cmd3
    BY <1>3, <1>13
  <2>3. usec' \in Words
    <3>1. usec \in Int /\ sck_period \in Int /\ 32 * sck_period \in Int
      BY <1>10, WordIs
    <3>2. (usec + 32 * sck_period) % Spi!Word \in Words
      BY <3>1, ModWord
    <3>3. QED BY <1>1, <1>10, <3>2
  <2>4. SpiTypes'
    <3>1. OneEach(mem)' /\ polling' \in BOOLEAN
      BY <1>1, <1>10, <2>1 DEF OneEach
    <3>2. QED BY <1>1, <1>2, <2>1, <2>3, <3>1 DEF SpiTypes
  <2>5. Waits'
    BY <1>1, <1>3, <1>4, <1>5, <2>1, <2>2 DEF Waits
  <2>6. \A k \in 1..Gone : Value(mem, Memory, Addr(k)) = data[k]
    <3> SUFFICES ASSUME NEW k \in 1..Gone PROVE Value(mem, Memory, Addr(k)) = data[k]
      OBVIOUS
    <3>1. k = Gone \/ k \in 1..(Gone - 1)
      BY <1>4
    <3>2. QED BY <1>3, <1>11, <2>2, <3>1
  <2>7. Wrote'
    BY <1>1, <1>4, <1>5, <1>11, <2>1, <2>6 DEF Wrote
  <2>8. QED BY <1>12, <2>1, <2>4, <2>5, <2>7 DEF SpiInv
<1>14. CASE busy # <<>>
  <2>1. r = 255
    BY <1>3, <1>9, <1>14 DEF Spi!ReadBack, Spi!poll1
  <2>2. ~Spi!Done(r)
    BY <2>1 DEF Spi!Done, Spi!poll1
  <2>3. polling' = TRUE /\ usec' = (usec + 32 * sck_period) % Spi!Word
    BY <1>1, <2>2
  <2>4. busy = <<busy[1]>> /\ busy[1] \in Writing /\ busy[1].left \in Int /\ busy[1].left > 0
    BY <1>2, <1>14 DEF SpiTypes, Writing
  <2>5. usec' \in Words
    <3>1. usec \in Int /\ sck_period \in Int /\ 32 * sck_period \in Int
      BY <1>10, WordIs
    <3>2. (usec + 32 * sck_period) % Spi!Word \in Words
      BY <3>1, ModWord
    <3>3. QED BY <2>3, <3>2
  <2>6. CASE busy[1].left > 1
    <3>1. /\ mem' = mem /\ busy' # <<>> /\ busy' = <<busy'[1]>> /\ busy'[1] \in Writing
          /\ busy'[1].kind = Memory /\ busy'[1].cell = c
          /\ busy'[1].value = cmd3 /\ busy'[1].left = busy[1].left - 1
      BY <1>1, <1>2, <1>3, <1>14, <2>6, ElapsesIs
    <3>2. SpiTypes'
      <4>1. OneEach(mem)' /\ polling' \in BOOLEAN
        BY <1>10, <2>3, <3>1 DEF OneEach
      <4>2. QED BY <1>1, <1>2, <2>5, <3>1, <4>1 DEF SpiTypes
    <3>3. busy'[1].left * (32 * sck_period) + usec' <= timeout
      <4>1. /\ usec \in Int /\ 0 <= usec /\ timeout \in Int /\ timeout < 65536
            /\ sck_period \in Int /\ sck_period >= 1 /\ sck_period <= 250
        BY <1>10, WordIs
      <4>2. busy[1].left * (32 * sck_period) + usec <= timeout
        BY <1>3, <1>14
      <4>3. /\ (usec + 32 * sck_period) % Spi!Word = usec + 32 * sck_period
            /\ (busy[1].left - 1) * (32 * sck_period) + (usec + 32 * sck_period) <= timeout
        BY <2>4, <2>6, <4>1, <4>2, OneLess
      <4>4. QED BY <2>3, <3>1, <4>3
    <3>4. Waits'
      BY <1>1, <1>3, <1>4, <1>5, <2>3, <3>1, <3>3 DEF Waits
    <3>5. Wrote'
      BY <1>1, <1>4, <1>5, <1>11, <2>3, <3>1 DEF Wrote
    <3>6. QED BY <1>12, <3>1, <3>2, <3>4, <3>5 DEF SpiInv
  <2>7. CASE ~(busy[1].left > 1)
    <3>1. /\ busy' = <<>>
          /\ mem' = Put(mem, Memory, c, cmd3)
      BY <1>1, <1>2, <1>3, <1>14, <2>7, ElapsesIs
    <3> HIDE DEF c
    <3>2. /\ mem' \in SUBSET Cells /\ OneEach(mem')
          /\ Value(mem', Memory, c) = cmd3
          /\ \A k2, c2 : k2 # Memory \/ c2 # c => Value(mem', k2, c2) = Value(mem, k2, c2)
          /\ \A m \in mem : m \in mem' \/ (m.kind = Memory /\ m.cell = c)
      <4>1. mem \in SUBSET Cells /\ OneEach(mem)
        BY <1>10
      <4>2. Memory \in {"flash", "eeprom"} /\ c \in Words /\ cmd3 \in Octets
        BY <1>5, <1>7, <1>10
      <4>3. QED BY <3>1, <4>1, <4>2, PutValue
    <3>3. SpiTypes'
      <4>1. OneEach(mem)' /\ polling' \in BOOLEAN
        BY <2>3, <3>2 DEF OneEach
      <4>2. QED BY <1>1, <1>2, <2>5, <3>1, <3>2, <4>1 DEF SpiTypes
    <3>4. \A k \in 1..(Gone - 1) : Value(mem', Memory, Addr(k)) = data[k]
      <4> SUFFICES ASSUME NEW k \in 1..(Gone - 1) PROVE Value(mem', Memory, Addr(k)) = data[k]
        OBVIOUS
      <4>1. k \in Int /\ 1 <= k /\ k <= 4096 /\ k # Gone
        BY <1>4
      <4>2. Addr(k) # c
        BY <1>4, <4>1, OtherCell DEF c
      <4>3. QED BY <1>11, <3>2, <4>2
    <3>5. Wrote'
      BY <1>1, <1>4, <1>5, <2>3, <3>4 DEF Wrote
    <3>6. Waits'
      BY <1>1, <1>3, <1>4, <1>5, <2>3, <3>1, <3>2 DEF Waits, c
    <3>7. QED BY <1>12, <3>2, <3>3, <3>5, <3>6 DEF SpiInv, c
  <2>8. QED BY <2>6, <2>7
<1>15. QED BY <1>13, <1>14

\* usbFunctionWrite: the loop gives up only when the chip is done.
LEMMA SpiGiveUp ==
  ASSUME SpiInv, Spi!GiveUp
  PROVE  SpiInv' /\ mem' = mem
<1>1. /\ polling /\ usec >= timeout /\ polling' = FALSE
      /\ UNCHANGED <<kind, start, data, cmd0, timeout, sck_period, left, address, cmd3, usec, got, mem, busy>>
  BY DEF Spi!GiveUp, Spi!request, Spi!chip
<1>2. SpiTypes
  BY DEF SpiInv
<1>3. /\ Spi!IsWrite(kind) /\ Gone > 0 /\ cmd3 = data[Gone]
      /\ busy = <<>> => Value(mem, Memory, Addr(Gone)) = cmd3
      /\ busy # <<>> => busy[1].left * (32 * sck_period) + usec <= timeout
  BY <1>1 DEF SpiInv, Waits
<1>4. busy = <<>>
  <2> SUFFICES ASSUME busy # <<>> PROVE FALSE
    OBVIOUS
  <2>1. busy[1] \in Writing
    BY <1>2 DEF SpiTypes
  <2>2. busy[1].left \in Int /\ busy[1].left > 0
    BY <2>1 DEF Writing
  <2>3. usec \in Words /\ timeout \in Words /\ sck_period \in 1..250
    BY <1>2 DEF SpiTypes
  <2>4. usec \in Int /\ timeout \in Int /\ sck_period \in Int /\ sck_period >= 1
    BY <2>3, WordIs
  <2>5. usec < timeout
    BY <1>3, <2>2, <2>4, NoneLeft
  <2>6. QED BY <1>1, <2>4, <2>5
<1>5. Gone' = Gone /\ Gone \in Int /\ Memory' = Memory /\ \A k : Addr(k)' = Addr(k)
  BY <1>1, GoneIs DEF Gone, Memory, Addr
<1>6. SpiTypes' /\ Waits'
  BY <1>1, <1>2, <1>4 DEF SpiTypes, OneEach, Waits
<1>7. Place' /\ Readings'
  BY <1>1, <1>3, <1>5 DEF SpiInv, Place, Readings
<1>8. Wrote'
  <2>1. \A k \in 1..Gone : Value(mem, Memory, Addr(k)) = data[k]
    <3> SUFFICES ASSUME NEW k \in 1..Gone PROVE Value(mem, Memory, Addr(k)) = data[k]
      OBVIOUS
    <3>1. k = Gone \/ k \in 1..(Gone - 1)
      BY <1>5
    <3>2. \A j \in 1..(Gone - 1) : Value(mem, Memory, Addr(j)) = data[j]
      BY <1>1, <1>3 DEF SpiInv, Wrote
    <3>3. QED BY <1>3, <1>4, <3>1, <3>2
  <2>2. QED BY <1>1, <1>5, <2>1 DEF Wrote
<1>9. QED BY <1>1, <1>6, <1>7, <1>8 DEF SpiInv

\* Every step of the run keeps the invariant, and what it changes in the chip is a cell of the transfer.
LEMMA SpiNextStep ==
  ASSUME AdapterAssumption, SpiInv, [AdapterNext]_all
  PROVE  SpiInv' /\ (mem' = mem \/ Spi!KeepsOthers)
<1>1. CASE UNCHANGED spi
  <2>1. UNCHANGED <<kind, left, start, data, address, cmd0, cmd3, timeout, sck_period, usec, polling, got, mem, busy>>
    BY <1>1 DEF spi
  <2>2. Gone' = Gone /\ Memory' = Memory /\ \A k : Addr(k)' = Addr(k)
    BY <2>1 DEF Gone, Memory, Addr
  <2>3. QED BY <2>1, <2>2 DEF SpiInv, SpiTypes, OneEach, Place, Wrote, Waits, Readings
<1>2. CASE Spi!Next
  <2>1. start \in Words
    BY DEF SpiInv, SpiTypes
  <2>2. ASSUME NEW j \in Int, 1 <= j, j <= Len(data), Len(data) \in Int,
               \A m \in mem : m \in mem' \/ (m.kind = Memory /\ m.cell = Addr(j))
        PROVE  Spi!KeepsOthers
    <3>1. j \in 1..Len(data) /\ Spi!At(j) = Addr(j)
      BY <2>1, <2>2, SpiAt
    <3>2. QED BY <2>2, <3>1 DEF Spi!KeepsOthers, Memory
  <2>3. CASE \E k \in Spi!Requests, a \in Starts, bytes \in Contents, t \in Timeouts, s \in SckPeriods :
               Spi!Setup(k, a, bytes, t, s)
    BY <2>3, SpiSetup
  <2>4. CASE Spi!ReadByte
    BY <2>4, SpiRead
  <2>5. CASE Spi!WriteByte
    <3>1. left # <<>>
      BY <2>5 DEF Spi!WriteByte
    <3>2. Gone + 1 \in Int /\ 1 <= Gone + 1 /\ Gone + 1 <= Len(data) /\ Len(data) \in Int
      <4>1. Gone \in Int /\ 0 <= Gone /\ Gone < Len(data) /\ Len(data) \in Int
        BY <3>1, GoneIs
      <4>2. QED BY <4>1
    <3>3. SpiInv' /\ \A m \in mem : m \in mem' \/ (m.kind = Memory /\ m.cell = Addr(Gone + 1))
      BY <2>5, SpiWrite
    <3>4. QED BY <2>2, <3>2, <3>3
  <2>6. CASE Spi!Poll
    <3>1. Gone > 0
      BY <2>6 DEF Spi!Poll, SpiInv, Waits
    <3>2. Gone \in Int /\ 1 <= Gone /\ Gone <= Len(data) /\ Len(data) \in Int
      <4>1. Gone \in Int /\ Gone <= Len(data) /\ Len(data) \in Int
        BY GoneIs
      <4>2. QED BY <3>1, <4>1
    <3>3. SpiInv' /\ \A m \in mem : m \in mem' \/ (m.kind = Memory /\ m.cell = Addr(Gone))
      BY <2>6, SpiPoll
    <3>4. QED BY <2>2, <3>2, <3>3
  <2>7. CASE Spi!GiveUp
    BY <2>7, SpiGiveUp
  <2>8. QED BY <1>2, <2>3, <2>4, <2>5, <2>6, <2>7 DEF Spi!Next
<1>3. QED BY <1>1, <1>2 DEF AdapterNext, UsbStep, LossyStep, I2cStep, SpiStep, BellStep, all

\* The invariant at the beginning.
LEMMA SpiBegins ==
  ASSUME Spi!Init
  PROVE  SpiInv
<1>1. /\ kind = "none" /\ left = <<>> /\ data = <<>> /\ got = <<>> /\ busy = <<>> /\ mem = {}
      /\ start = 0 /\ address = 0 /\ cmd3 = 0 /\ timeout = 0 /\ sck_period = 10 /\ usec = 0 /\ polling = FALSE
  BY DEF Spi!Init
<1>2. 0 \in Words
  BY WordIs
<1>3. SpiTypes
  <2>1. left \in Seq(Octets) /\ data \in Seq(Octets) /\ got \in Seq(Octets)
    BY <1>1
  <2>2. mem \in SUBSET Cells /\ OneEach(mem)
    BY <1>1 DEF OneEach
  <2>3. cmd3 \in Octets /\ sck_period \in 1..250 /\ polling \in BOOLEAN
    <3>1. cmd3 = 0 /\ sck_period = 10
      BY <1>1
    <3>2. cmd3 \in Octets /\ sck_period \in 1..250
      BY <3>1 DEF Octets
    <3>3. polling = FALSE
      BY <1>1
    <3>4. QED BY <3>2, <3>3
  <2>4. kind \in Spi!Requests \union {"none"}
    BY <1>1
  <2>5. start \in Words /\ address \in Words /\ usec \in Words /\ timeout \in Words
    BY <1>1, <1>2
  <2>6. QED BY <1>1, <2>1, <2>2, <2>3, <2>4, <2>5 DEF SpiTypes
<1>4. Gone = 0
  BY <1>1 DEF Gone
<1>5. Onto(0, 0) = 0 + 0
  BY OntoIs
<1>6. address = Onto(start, Gone)
  BY <1>1, <1>4, <1>5
<1>7. Place
  BY <1>1, <1>6 DEF Place
<1>8. Wrote /\ Waits /\ Readings
  BY <1>1, <1>4 DEF Wrote, Waits, Readings, Spi!IsWrite
<1>9. QED BY <1>3, <1>7, <1>8 DEF SpiInv

\* What the invariant says of a transfer that is over.
LEMMA SpiOver ==
  ASSUME SpiInv
  PROVE  Spi!TypeOK /\ Spi!Written /\ Spi!ReadsBack
<1>1. Gone \in Int /\ Gone <= Len(data) /\ Len(data) \in Int /\ (left = <<>> => Gone = Len(data)) /\ 0 <= Gone
  BY GoneIs
<1>2. start \in Words
  BY DEF SpiInv, SpiTypes
<1>3. Spi!TypeOK
  <2>1. got \in Seq(0..255)
    BY DEF SpiInv, SpiTypes, Octets
  <2>2. Len(busy) <= 1
    <3>1. busy = <<>> \/ busy = <<busy[1]>>
      BY DEF SpiInv, SpiTypes
    <3>2. busy = <<>> => Len(busy) = 0
      OBVIOUS
    <3>3. busy = <<busy[1]>> => Len(busy) = 1
      OBVIOUS
    <3>4. QED BY <3>1, <3>2, <3>3
  <2>3. Len(got) <= Len(data)
    <3>1. got = <<>> \/ Len(got) = Gone
      BY DEF SpiInv, Readings
    <3>2. got = <<>> => Len(got) = 0
      BY EmptySeq
    <3>3. QED BY <1>1, <3>1, <3>2
  <2>4. QED BY <2>1, <2>2, <2>3 DEF SpiInv, SpiTypes, Spi!TypeOK, Words
<1>4. Spi!Written
  <2> SUFFICES ASSUME Spi!IsWrite(kind), left = <<>>, ~polling, NEW i \in 1..Len(data)
               PROVE  Spi!Stored(Spi!MemoryOf(kind), Spi!At(i)) = data[i]
    BY DEF Spi!Written
  <2>1. i \in Int /\ i \in 1..Gone
    BY <1>1
  <2>2. Value(mem, Memory, Addr(i)) = data[i]
    BY <2>1 DEF SpiInv, Wrote
  <2>3. QED BY <1>2, <2>1, <2>2, SpiAt, SpiStored DEF Memory
<1>5. Spi!ReadsBack
  <2> SUFFICES ASSUME kind # "none", ~Spi!IsWrite(kind), NEW i \in 1..Len(got)
               PROVE  got[i] = Spi!Stored(Spi!MemoryOf(kind), Spi!At(i))
    BY DEF Spi!ReadsBack
  <2>1. got[i] = Value(mem, Memory, Addr(i))
    BY DEF SpiInv, Readings
  <2>2. i \in Int
    OBVIOUS
  <2>3. QED BY <1>2, <2>1, <2>2, SpiAt, SpiStored DEF Memory
<1>6. QED BY <1>3, <1>4, <1>5

\* usbFunctionWrite, usbFunctionRead, spi_rw: for every clock, every timeout and every chip that
\* is done within it, a write transfer leaves its bytes in the chip at their addresses, also those
\* that look like a poll byte and with the carry from one address byte to the next; a read
\* returns what the chip holds; and no other cell changes.
THEOREM SpiTransfersRight ==
  ASSUME AdapterAssumption
  PROVE  AdapterSpec => SpiTransfers
<1>1. AdapterInit => SpiInv
  BY SpiBegins DEF AdapterInit
<1>2. SpiInv /\ [AdapterNext]_all => SpiInv'
  BY SpiNextStep
<1>3. SpiInv => Spi!TypeOK /\ Spi!Written /\ Spi!ReadsBack
  BY SpiOver
<1>4. SpiInv /\ [AdapterNext]_all => [Spi!KeepsOthers]_all
  <2> SUFFICES ASSUME SpiInv, [AdapterNext]_all PROVE Spi!KeepsOthers
    OBVIOUS
  <2>1. CASE mem' = mem
    BY <2>1 DEF Spi!KeepsOthers
  <2>2. QED BY <2>1, SpiNextStep
<1>5. QED BY <1>1, <1>2, <1>3, <1>4, PTL DEF AdapterSpec, SpiTransfers
-----------------------------------------------------------------------------
(***************************************************************************)
(* The inductive invariant of the I2C jobs: what the slave has seen at     *)
(* each step of each routine.                                              *)
(***************************************************************************)
Levels == {0, 1}
Jobs   == [kind : {"none", "init", "begin", "send", "read"}, after : {"none", "init", "begin", "send", "read"},
           bytes : Seq(I2c!Bytes), length : Nat, nack : BOOLEAN, stop : BOOLEAN]
Modes  == {"idle", "address", "get", "put", "ackAddress", "ackData", "acked", "masterAck", "next", "passive"}

PinTypes   == sda \in Levels /\ scl \in Levels /\ bitsRead \in Seq(Levels)
SlaveTypes ==
  /\ pull \in BOOLEAN /\ mode \in Modes /\ inByte \in Seq(Levels)
  /\ taken \in Seq(I2c!Bytes) /\ given \in Seq(I2c!Bytes)
PlaceTypes ==
  /\ byteNo \in Nat \ {0} /\ bitNo \in Nat /\ stepNo \in 0..4
  /\ job \in Jobs
  /\ reply \in IF job.kind = "read" THEN Seq(Seq(Levels)) ELSE Seq(Levels)
BusTypes == PinTypes /\ SlaveTypes /\ PlaceTypes

(* The direction is the last bit of an address.                            *)
ToSlave == job.bytes[1][Bits] = 0

(* What the host may do next follows from the job.                         *)
Asked ==
  /\ job.kind = "none" => stepNo = 0 /\ legal = "init"
  /\ job.kind = "init" => legal = "begin"
  /\ job.kind = "begin" =>
       Len(job.bytes) = 1 /\ ~job.stop /\ legal = IF ToSlave THEN "write" ELSE "read"
  /\ job.kind = "send" => Len(job.bytes) > 0 /\ legal = IF job.stop THEN "begin" ELSE "write"
  /\ job.kind = "read" =>
       job.length > 0 /\ (job.stop => job.nack) /\ legal = IF job.nack THEN "begin" ELSE "read"

Sends == job.kind \in {"begin", "send"}
Size  == IF Sends THEN Len(job.bytes) ELSE job.length

(* Where a job can be.                                                     *)
Within ==
  /\ job.kind = "init" => byteNo = 1 /\ bitNo = 1 /\ stepNo <= 2
  /\ job.kind \in {"begin", "send", "read"} =>
       \/ byteNo <= Size /\ bitNo \in 1..(Bits + 1)
       \/ job.kind = "begin" /\ byteNo = 1 /\ bitNo = 0 /\ stepNo <= 3
       \/ job.kind # "begin" /\ job.stop /\ byteNo = Size + 1 /\ bitNo = 1
  /\ (Sends /\ byteNo <= Size /\ bitNo \in 1..Bits /\ stepNo = 4) => job.bytes[byteNo][bitNo] = 1

(* The slave between bytes, the clock low: it takes bytes, it sends some,  *)
(* or it does not take part.                                               *)
Mute      == mode = "passive" /\ ~pull
Listening == Mute \/ (mode = "get" /\ inByte = <<>> /\ ~pull)
Putting(k) ==
  /\ mode = "put" /\ outByte \in I2c!Bytes
  /\ Len(inByte) = k /\ pull = (outByte[k] = 0)
Talking   == Mute \/ Putting(1)

(* The bytes that the slave has taken are those that were sent.            *)
Faithful == \A j \in 1..Len(taken) : taken[j] = job.bytes[j]

(* The slave has seen the clock fall after k - 1 bits of a byte sent, or   *)
(* rise for the bit k.                                                     *)
Hears(k) ==
  /\ mode = (IF job.kind = "begin" THEN "address" ELSE "get") /\ ~pull
  /\ Len(inByte) = k /\ \A j \in 1..k : inByte[j] = job.bytes[byteNo][j]
  /\ Len(taken) = byteNo - 1
Heard ==
  /\ mode = (IF job.kind = "begin" THEN "ackAddress" ELSE "ackData") /\ ~pull
  /\ inByte = job.bytes[byteNo]
  /\ Len(taken) = byteNo
Answers ==
  /\ pull = (mode # "passive")
  /\ pull => mode = IF job.kind = "begin" /\ ~ToSlave THEN "next" ELSE "acked"
  /\ (pull \/ job.kind = "begin") => Len(taken) = byteNo
Deaf == job.kind = "send" /\ Mute

Fell(k) == IF k <= Bits THEN Deaf \/ Hears(k - 1) ELSE Answers
Rose(k) == IF k < Bits THEN Deaf \/ Hears(k) ELSE IF k = Bits THEN Deaf \/ Heard ELSE Answers

Clock(high) == scl = IF high THEN 1 ELSE 0
SawStart == events = <<"START">> \/ (job.after = "read" /\ events = <<"STOP", "START">>)

(* The acknowledgement has been read.                                      *)
AckRead == bitsRead = <<IF pull THEN 0 ELSE 1>>

(* A byte is sent.                                                         *)
Sending ==
  LET high == stepNo = 3 \/ (stepNo = 4 /\ bitNo = Bits + 1)
      fell == stepNo = 4 /\ bitNo <= Bits
  IN  /\ Clock(high)
      /\ (stepNo >= 2 /\ ~fell) => sda = IF bitNo <= Bits THEN job.bytes[byteNo][bitNo] ELSE 1
      /\ IF high THEN Rose(bitNo) ELSE IF fell THEN Fell(bitNo + 1) ELSE Fell(bitNo)
      /\ (bitNo = Bits + 1 /\ stepNo = 4) => AckRead
      /\ Faithful
      /\ IF job.kind = "begin" THEN SawStart ELSE events = <<>>

(* A byte is read.                                                         *)
Acks == ~job.nack \/ byteNo < job.length
NoneGiven == Mute /\ given = <<>>
Gives ==
  LET n == IF stepNo = 4 THEN bitNo ELSE bitNo - 1
  IN  Putting(bitNo) /\ given = reply /\ \A j \in 1..n : bitsRead[j] = outByte[j]
Gave == ~pull /\ given = Append(reply, bitsRead)

Reading ==
  LET high == stepNo = 3 \/ (stepNo = 4 /\ bitNo <= Bits)
  IN  /\ Clock(high)
      /\ (bitNo <= Bits /\ stepNo >= 2) => sda = 1
      /\ (bitNo > Bits /\ stepNo \in {2, 3}) => sda = IF Acks THEN 0 ELSE 1
      /\ (bitNo <= Bits /\ stepNo < 4 /\ bitNo > 1) => Len(bitsRead) = bitNo - 1
      /\ (bitNo <= Bits /\ stepNo = 4) => Len(bitsRead) = bitNo
      /\ bitNo > Bits => Len(bitsRead) = Bits
      /\ stepNo = 4 /\ bitNo > Bits => ~Acks
      /\ IF bitNo <= Bits THEN NoneGiven \/ Gives
         ELSE NoneGiven \/ (Gave /\ mode = IF stepNo < 3 THEN "masterAck" ELSE IF Acks THEN "next" ELSE "passive")
      /\ Len(reply) = byteNo - 1
      /\ events = <<>>

(* The result, when all bytes are sent or read.                            *)
Received(answer) == answer \in {<<0>>, <<1>>} /\ (answer = <<0>> => Len(taken) = Len(job.bytes)) /\ Faithful
ReadAll == Len(reply) = job.length /\ (given # <<>> => reply = given)
Outcome(answer) == IF job.kind = "send" THEN Received(answer) ELSE ReadAll

Stopping ==
  /\ Clock(stepNo = 4)
  /\ stepNo > 1 => sda = 0
  /\ ~pull /\ mode \in {"get", "passive"}
  /\ (mode = "get" /\ stepNo < 4) => inByte = <<>>
  /\ events = <<>>
  /\ Outcome(bitsRead)

(* Before a START.                                                         *)
Open(before) ==
  \/ scl = 1 /\ sda = 1 /\ ~pull /\ mode = "idle"
  \/ scl = 0 /\ sda = 1 /\ Listening
  \/ scl = 0 /\ before = "read" /\ Mute

Starting ==
  /\ stepNo = 1 => Open(job.after) /\ events = <<>>
  /\ stepNo = 2 => /\ sda = 1 /\ scl = 1 /\ ~pull
                   /\ events = <<>> \/ (job.after = "read" /\ events = <<"STOP">>)
  /\ stepNo = 3 => sda = 0 /\ scl = 1 /\ ~pull /\ mode = "address" /\ inByte = <<>> /\ SawStart
  /\ taken = <<>>

(* No job runs.                                                            *)
Resting ==
  /\ legal = "init" => Open("none") /\ mode = "idle"
  /\ legal = "begin" => Open(job.kind)
  /\ legal = "write" => scl = 0 /\ sda = 1 /\ Listening
  /\ legal = "read" => scl = 0 /\ Talking
  /\ job.kind = "begin" =>
       /\ SawStart /\ taken = <<job.bytes[1]>>
       /\ reply = <<IF mode = "passive" THEN 1 ELSE 0>>
       /\ sda = 1
  /\ job.kind \in {"send", "read"} => events = (IF job.stop THEN <<"STOP">> ELSE <<>>) /\ Outcome(reply)

Running ==
  /\ job.kind = "init" => sda = 1 /\ scl = 1 /\ ~pull /\ mode = "idle"
  /\ (job.kind = "begin" /\ bitNo = 0) => Starting
  /\ (Sends /\ bitNo > 0 /\ byteNo <= Size) => Sending
  /\ (job.kind = "read" /\ byteNo <= Size) => Reading
  /\ (job.kind \in {"send", "read"} /\ byteNo > Size) => Stopping

BusInv ==
  /\ BusTypes /\ Asked
  /\ stepNo = 0 => Resting /\ (job.kind \notin {"read"} => Len(reply) <= 1)
  /\ stepNo > 0 => Within /\ Running /\ (job.kind = "read" \/ reply = <<>>)
-----------------------------------------------------------------------------
(* What a step does to the pins and to the slave.                          *)

\* The constants.
LEMMA BitsAre ==
  ASSUME AdapterAssumption
  PROVE  /\ Bits \in Nat /\ Bits > 1
         /\ \A msg \in Messages : msg \in Seq(I2c!Bytes) /\ Len(msg) > 0
         /\ \A n \in ReadLengths : n \in Nat /\ n > 0
  BY DEF AdapterAssumption, I2c!I2cAssumption

\* The data line is set while the clock is low: the slave sees nothing.
LEMMA SetsData ==
  ASSUME NEW v \in Levels, scl = 0, I2c!Do([op |-> "data", to |-> v])
  PROVE  sda' = v /\ scl' = 0 /\ bitsRead' = bitsRead /\ UNCHANGED I2c!slave
  BY DEF I2c!Do, I2c!Watch

\* The clock rises.
LEMMA ClockRises ==
  ASSUME scl = 0, I2c!Do(I2c!ClockHi)
  PROVE  sda' = sda /\ scl' = 1 /\ bitsRead' = bitsRead /\ I2c!Rises(I2c!Line(sda, pull))
  BY DEF I2c!Do, I2c!Watch, I2c!ClockHi

\* The clock falls.
LEMMA ClockFalls ==
  ASSUME scl = 1, I2c!Do(I2c!ClockLo)
  PROVE  sda' = sda /\ scl' = 0 /\ bitsRead' = bitsRead /\ I2c!Falls
  BY DEF I2c!Do, I2c!Watch, I2c!ClockLo

\* A clock that is low stays low.
LEMMA ClockStays ==
  ASSUME scl = 0, I2c!Do(I2c!ClockLo)
  PROVE  sda' = sda /\ scl' = 0 /\ bitsRead' = bitsRead /\ UNCHANGED I2c!slave
  BY DEF I2c!Do, I2c!Watch, I2c!ClockLo

\* A reading disturbs nothing.
LEMMA ReadsLine ==
  ASSUME sda \in Levels, I2c!Do(I2c!Read)
  PROVE  /\ sda' = sda /\ scl' = scl /\ UNCHANGED I2c!slave
         /\ bitsRead' = Append(IF bitNo \in 2..Bits THEN bitsRead ELSE <<>>, I2c!Line(sda, pull))
<1>1. I2c!Watch(sda, scl) => UNCHANGED I2c!slave
  BY DEF I2c!Watch, I2c!Line, Levels
<1>2. QED BY <1>1 DEF I2c!Do, I2c!Read

\* The routines, step by step.
LEMMA WritesBit ==
  ASSUME NEW b \in Levels, NEW s \in 1..4
  PROVE  /\ Len(I2c!I2C_WriteBit(b)) = IF b = 1 THEN 4 ELSE 3
         /\ s = 1 => I2c!I2C_WriteBit(b)[s] = [op |-> "data", to |-> b]
         /\ s = 2 => I2c!I2C_WriteBit(b)[s] = I2c!ClockHi
         /\ s = 3 => I2c!I2C_WriteBit(b)[s] = I2c!ClockLo
         /\ (s = 4 /\ b = 1) => I2c!I2C_WriteBit(b)[s] = [op |-> "data", to |-> 0]
<1>1. CASE b = 1
  BY <1>1 DEF I2c!I2C_WriteBit, I2c!DataHi, I2c!DataLo
<1>2. CASE b = 0
  BY <1>2 DEF I2c!I2C_WriteBit, I2c!DataHi, I2c!DataLo
<1>3. QED BY <1>1, <1>2 DEF Levels

\* A bit that is read.
LEMMA ReadsBit ==
  ASSUME NEW s \in 1..4
  PROVE  /\ Len(I2c!I2C_ReadBit) = 4
         /\ s = 1 => I2c!I2C_ReadBit[s] = [op |-> "data", to |-> 1]
         /\ s = 2 => I2c!I2C_ReadBit[s] = I2c!ClockHi
         /\ s = 3 => I2c!I2C_ReadBit[s] = I2c!Read
         /\ s = 4 => I2c!I2C_ReadBit[s] = I2c!ClockLo
  BY DEF I2c!I2C_ReadBit, I2c!DataHi

\* A START.
LEMMA StartsBus ==
  ASSUME NEW s \in 1..3
  PROVE  /\ Len(I2c!I2C_Start) = 3
         /\ s = 1 => I2c!I2C_Start[s] = I2c!BothHi
         /\ s = 2 => I2c!I2C_Start[s] = I2c!DataLo
         /\ s = 3 => I2c!I2C_Start[s] = I2c!ClockLo
  BY DEF I2c!I2C_Start

\* A STOP.
LEMMA StopsBus ==
  ASSUME NEW s \in 1..4
  PROVE  /\ Len(I2c!I2C_Stop) = 4
         /\ s = 1 => I2c!I2C_Stop[s] = [op |-> "data", to |-> 0]
         /\ s = 2 => I2c!I2C_Stop[s] = I2c!ClockLo
         /\ s = 3 => I2c!I2C_Stop[s] = I2c!ClockHi
         /\ s = 4 => I2c!I2C_Stop[s] = I2c!DataHi
  BY DEF I2c!I2C_Stop, I2c!DataLo

\* Which routine a job calls where, and where it calls none.
LEMMA RoutineIs ==
  ASSUME NEW m \in Nat, NEW k \in Nat
  PROVE  /\ job.kind = "init" => I2c!Routine(m, k) = IF m = 1 /\ k = 1 THEN I2c!I2C_Init ELSE <<>>
         /\ job.kind = "begin" => I2c!Routine(m, k) =
              IF m > 1 THEN <<>> ELSE IF k = 0 THEN I2c!I2C_Start ELSE I2c!I2C_Write(job.bytes[m], k)
         /\ job.kind = "send" => I2c!Routine(m, k) =
              IF m <= Len(job.bytes) THEN I2c!I2C_Write(job.bytes[m], k)
              ELSE IF job.stop /\ k = 1 THEN I2c!I2C_Stop ELSE <<>>
         /\ job.kind = "read" => I2c!Routine(m, k) =
              IF m <= job.length THEN I2c!I2C_Read(~job.nack \/ m < job.length, k)
              ELSE IF job.stop /\ k = 1 THEN I2c!I2C_Stop ELSE <<>>
  BY DEF I2c!Routine, I2c!Job8, I2c!Job9, I2c!Job10, I2c!Job11, I2c!Ending

\* What is appended, and to what.
LEMMA Extended ==
  ASSUME NEW S, NEW q \in Seq(S), NEW e \in S
  PROVE  /\ Append(q, e) \in Seq(S) /\ Len(q) \in Nat
         /\ Len(Append(q, e)) = Len(q) + 1
         /\ \A j \in 1..Len(q) : Append(q, e)[j] = q[j]
         /\ Append(q, e)[Len(q) + 1] = e
  BY AppendProperties, LenProperties

\* As many bits as a byte has are a byte.
LEMMA AllBits ==
  ASSUME NEW q \in Seq(Levels), NEW byte \in I2c!Bytes, Bits \in Nat, Len(q) = Bits,
         \A j \in 1..Bits : q[j] = byte[j]
  PROVE  q = byte
<1>1. q \in [1..Bits -> Levels] /\ byte \in [1..Bits -> Levels]
  BY LenProperties DEF I2c!Bytes, Levels
<1>2. QED BY <1>1

\* A bit of a byte.
LEMMA BitOf ==
  ASSUME NEW byte \in I2c!Bytes, NEW k \in 1..Bits
  PROVE  byte[k] \in Levels
  BY DEF I2c!Bytes, Levels

\* The byte that is sent.
LEMMA ByteSent ==
  ASSUME PlaceTypes, Sends, byteNo <= Size
  PROVE  job.bytes[byteNo] \in I2c!Bytes /\ Len(job.bytes) \in Nat /\ job.bytes \in Seq(I2c!Bytes)
<1>1. job.bytes \in Seq(I2c!Bytes) /\ Len(job.bytes) \in Nat
  BY LenProperties DEF PlaceTypes, Jobs
<1>2. byteNo \in 1..Len(job.bytes)
  BY <1>1 DEF PlaceTypes, Size
<1>3. QED BY <1>1, <1>2, ElementOfSeq

\* A bit of a byte sent comes in with the clock's rise.
LEMMA HearsRise ==
  ASSUME AdapterAssumption, SlaveTypes, PlaceTypes, Sends, byteNo <= Size, NEW k \in 1..Bits, Fell(k),
         Faithful, I2c!Rises(job.bytes[byteNo][k]), UNCHANGED <<byteNo, job>>
  PROVE  Rose(k)' /\ Faithful' /\ SlaveTypes' /\ events' = events /\ given' = given
<1>1. Bits \in Nat /\ Bits > 1 /\ k \in Int
  BY BitsAre
<1>2. job.bytes[byteNo] \in I2c!Bytes /\ job.bytes[byteNo][k] \in Levels
  BY ByteSent, BitOf
<1>3. UNCHANGED <<pull, given, events, outByte>>
  BY DEF I2c!Rises
<1>4. CASE Deaf
  <2>1. UNCHANGED <<mode, inByte, taken>>
    BY <1>4 DEF Deaf, Mute, I2c!Rises
  <2>2. Deaf'
    BY <1>4, <1>3, <2>1 DEF Deaf, Mute
  <2>3. QED BY <1>1, <1>3, <2>1, <2>2 DEF Rose, Faithful, SlaveTypes
<1>5. CASE Hears(k - 1)
  <2> DEFINE bit == job.bytes[byteNo][k]
             new == Append(inByte, bit)
  <2>1. mode \in {"address", "get"} /\ inByte \in Seq(Levels) /\ Len(inByte) = k - 1 /\ Len(taken) = byteNo - 1
        /\ ~pull /\ mode = (IF job.kind = "begin" THEN "address" ELSE "get")
        /\ \A j \in 1..(k - 1) : inByte[j] = job.bytes[byteNo][j]
    BY <1>5 DEF Hears, SlaveTypes
  <2>2. new \in Seq(Levels) /\ Len(new) = k /\ (\A j \in 1..k : new[j] = job.bytes[byteNo][j])
    <3>1. /\ new \in Seq(Levels) /\ Len(new) = Len(inByte) + 1
          /\ \A j \in 1..Len(inByte) : new[j] = inByte[j]
          /\ new[Len(inByte) + 1] = bit
      BY <1>2, <2>1, Extended
    <3>2. \A j \in 1..k : j \in 1..(k - 1) \/ j = k
      BY <1>1
    <3>3. QED BY <1>1, <2>1, <3>1, <3>2
  <2> HIDE DEF bit
  <2>3. inByte' = new
    BY <2>1 DEF I2c!Rises, bit
  <2>4. CASE k < Bits
    <3>1. UNCHANGED <<mode, taken>>
      BY <2>1, <2>2, <2>4 DEF I2c!Rises, bit
    <3>2. Hears(k)'
      BY <1>3, <2>1, <2>2, <2>3, <3>1 DEF Hears
    <3>3. QED BY <1>3, <2>2, <2>3, <2>4, <3>1, <3>2 DEF Rose, Faithful, SlaveTypes
  <2>5. CASE k = Bits
    <3>1. new = job.bytes[byteNo]
      BY <1>1, <1>2, <2>2, <2>5, AllBits
    <3>2. /\ taken' = Append(taken, job.bytes[byteNo])
          /\ mode' = IF mode = "address" THEN "ackAddress" ELSE "ackData"
      BY <1>1, <2>1, <2>2, <2>5, <3>1 DEF I2c!Rises, bit
    <3>3. /\ taken' \in Seq(I2c!Bytes) /\ Len(taken') = Len(taken) + 1 /\ Len(taken) \in Nat
          /\ \A j \in 1..Len(taken) : taken'[j] = taken[j]
          /\ taken'[Len(taken) + 1] = job.bytes[byteNo]
      BY <1>2, <3>2, Extended DEF SlaveTypes
    <3>4. byteNo \in Int
      BY DEF PlaceTypes
    <3>5. Len(taken') = byteNo /\ taken'[byteNo] = job.bytes[byteNo]
      BY <2>1, <3>3, <3>4
    <3>6. Faithful'
      <4>1. \A j \in 1..Len(taken') : j \in 1..Len(taken) \/ j = byteNo
        BY <2>1, <3>3, <3>4, <3>5
      <4>2. QED BY <3>3, <3>5, <4>1 DEF Faithful
    <3>7. Heard'
      BY <1>3, <2>1, <2>3, <3>1, <3>2, <3>5 DEF Heard
    <3>8. mode' \in Modes
      BY <3>2 DEF Modes
    <3>9. QED BY <1>1, <1>3, <2>2, <2>3, <2>5, <3>3, <3>6, <3>7, <3>8 DEF Rose, SlaveTypes
  <2>6. QED BY <1>1, <2>4, <2>5
<1>6. QED BY <1>1, <1>4, <1>5 DEF Fell

\* Between the bits of a byte sent the clock's fall changes nothing.
LEMMA HearsFall ==
  ASSUME AdapterAssumption, SlaveTypes, Sends, NEW k \in 1..Bits, k < Bits, Rose(k),
         I2c!Falls, UNCHANGED <<byteNo, job>>, Faithful
  PROVE  Fell(k + 1)' /\ Faithful' /\ SlaveTypes' /\ events' = events /\ given' = given
<1>1. Bits \in Nat /\ k \in Int /\ k + 1 <= Bits /\ (k + 1) - 1 = k
  BY BitsAre
<1>2. mode \in {"address", "get", "passive"} /\ ~pull
  BY DEF Rose, Deaf, Mute, Hears
<1>3. pull' = FALSE /\ pull' \in BOOLEAN /\ UNCHANGED <<mode, inByte, outByte, given, taken, events>>
  BY <1>2 DEF I2c!Falls
<1>4. CASE Deaf
  BY <1>1, <1>3, <1>4 DEF Deaf, Mute, Fell, Faithful, SlaveTypes
<1>5. CASE Hears(k)
  <2>1. Hears((k + 1) - 1)'
    BY <1>1, <1>3, <1>5 DEF Hears
  <2>2. QED BY <1>1, <1>3, <2>1 DEF Fell, Faithful, SlaveTypes
<1>6. QED BY <1>4, <1>5 DEF Rose

\* After the last bit the slave acknowledges or does not.
LEMMA AnswersByte ==
  ASSUME AdapterAssumption, SlaveTypes, PlaceTypes, Sends, byteNo <= Size,
         job.kind = "begin" => byteNo = 1, Rose(Bits), I2c!Falls,
         UNCHANGED <<byteNo, job>>, Faithful
  PROVE  Answers' /\ Faithful' /\ SlaveTypes' /\ events' = events /\ given' = given
<1>1. Bits \in Nat /\ Bits > 1
  BY BitsAre
<1>2. Deaf \/ Heard
  BY <1>1 DEF Rose
<1>3. taken' = taken /\ events' = events
  BY DEF I2c!Falls
<1>4. CASE Deaf
  <2>1. pull' = FALSE /\ pull' \in BOOLEAN /\ UNCHANGED <<mode, inByte, outByte, given, taken, events>>
    BY <1>4 DEF I2c!Falls, Deaf, Mute
  <2>2. QED BY <1>4, <2>1 DEF Deaf, Mute, Answers, Faithful, SlaveTypes
<1>5. CASE Heard
  <2>1. mode \in {"ackAddress", "ackData"} /\ Len(taken) = byteNo
        /\ (mode = "ackAddress") = (job.kind = "begin") /\ inByte = job.bytes[byteNo]
    BY <1>5 DEF Heard
  <2>2. I2c!Acknowledges
    BY <2>1 DEF I2c!Falls
  <2>3. PICK ack \in BOOLEAN :
          /\ pull' = ack
          /\ mode' = CASE ~ack -> "passive"
                       [] ack /\ mode = "ackAddress" /\ inByte[Bits] = 1 -> "next"
                       [] OTHER -> "acked"
    BY <2>2 DEF I2c!Acknowledges
  <2>4. UNCHANGED <<inByte, outByte, given>>
    BY <2>2 DEF I2c!Acknowledges
  <2>5. job.kind = "begin" => ((inByte[Bits] = 1) <=> ~ToSlave)
    <3>1. job.bytes[byteNo][Bits] \in Levels
      BY <1>1, ByteSent, BitOf
    <3>2. QED BY <2>1, <3>1 DEF ToSlave, Levels
  <2>6. mode' \in Modes /\ pull' \in BOOLEAN
    BY <2>3 DEF Modes
  <2>7. Answers'
    BY <1>3, <2>1, <2>3, <2>5 DEF Answers, ToSlave
  <2>8. QED BY <1>3, <2>4, <2>6, <2>7 DEF Faithful, SlaveTypes
<1>6. QED BY <1>2, <1>4, <1>5

\* A slave that takes no bit and waits for no acknowledgement does not care that the clock rises.
LEMMA IgnoresRise ==
  ASSUME mode \notin {"address", "get", "masterAck"}, NEW v, I2c!Rises(v)
  PROVE  UNCHANGED I2c!slave
  BY DEF I2c!Rises, I2c!slave

\* A slave that puts its first bit on the line.
LEMMA PutsFirst ==
  ASSUME AdapterAssumption, NEW byte \in I2c!Bytes, I2c!Puts(byte, <<>>)
  PROVE  Putting(1)' /\ pull' \in BOOLEAN /\ inByte' \in Seq(Levels) /\ mode' = "put"
<1>1. Bits \in Nat /\ Bits > 1
  BY BitsAre
<1>2. Len(<<>>) + 1 = 1 /\ Len(<<>>) = 0 /\ <<>> \in Seq(Levels)
  BY EmptySeq
<1>3. byte[1] \in Levels
  BY <1>1, BitOf
<1>4. inByte' = Append(<<>>, byte[1]) /\ pull' = (byte[1] = 0) /\ outByte' = byte /\ mode' = "put"
  BY <1>2 DEF I2c!Puts
<1>5. inByte' \in Seq(Levels) /\ Len(inByte') = 1
  BY <1>2, <1>3, <1>4, Extended
<1>6. QED BY <1>4, <1>5 DEF Putting

\* The acknowledgement of an address is over: the slave takes bytes or sends some.
LEMMA AddressAnswered ==
  ASSUME AdapterAssumption, SlaveTypes, job.kind = "begin", Answers, I2c!Falls
  PROVE  /\ IF ToSlave THEN Listening' ELSE Talking'
         /\ (mode' = "passive") <=> ~pull
         /\ SlaveTypes' /\ UNCHANGED <<taken, events, given>>
<1>1. taken' = taken /\ events' = events
  BY DEF I2c!Falls
<1>2. CASE ~pull
  <2>1. mode = "passive"
    BY <1>2 DEF Answers
  <2>2. pull' = FALSE /\ pull' \in BOOLEAN /\ UNCHANGED <<mode, inByte, outByte, given>>
    BY <2>1 DEF I2c!Falls
  <2>3. QED BY <1>1, <1>2, <2>1, <2>2 DEF Listening, Talking, Mute, SlaveTypes
<1>3. CASE pull /\ ToSlave
  <2>1. mode = "acked"
    BY <1>3 DEF Answers
  <2>2. pull' = FALSE /\ pull' \in BOOLEAN /\ mode' = "get" /\ inByte' = <<>> /\ given' = given
    BY <2>1 DEF I2c!Falls
  <2>3. inByte' \in Seq(Levels) /\ mode' \in Modes
    BY <2>2, EmptySeq DEF Modes
  <2>4. QED BY <1>1, <1>3, <2>2, <2>3 DEF Listening, SlaveTypes
<1>4. CASE pull /\ ~ToSlave
  <2>1. mode = "next"
    BY <1>4 DEF Answers
  <2>2. given' = given /\ \E byte \in I2c!Bytes : I2c!Puts(byte, <<>>)
    BY <2>1 DEF I2c!Falls
  <2>3. Putting(1)' /\ pull' \in BOOLEAN /\ inByte' \in Seq(Levels) /\ mode' = "put"
    BY <2>2, PutsFirst
  <2>4. QED BY <1>1, <1>4, <2>2, <2>3 DEF Talking, SlaveTypes, Modes
<1>5. QED BY <1>2, <1>3, <1>4

\* The acknowledgement of another byte is over: the slave takes the next one or none any more.
LEMMA ByteAnswered ==
  ASSUME AdapterAssumption, SlaveTypes, job.kind = "send", Answers, I2c!Falls, UNCHANGED job, Faithful
  PROVE  /\ Listening' /\ Faithful'
         /\ (mode' = "passive") <=> ~pull
         /\ mode' = "get" => Len(taken') = byteNo
         /\ SlaveTypes' /\ UNCHANGED <<taken, events, given>>
<1>1. taken' = taken /\ events' = events
  BY DEF I2c!Falls
<1>2. CASE ~pull
  <2>1. mode = "passive"
    BY <1>2 DEF Answers
  <2>2. pull' = FALSE /\ pull' \in BOOLEAN /\ UNCHANGED <<mode, inByte, outByte, given>>
    BY <2>1 DEF I2c!Falls
  <2>3. QED BY <1>1, <1>2, <2>1, <2>2 DEF Listening, Mute, SlaveTypes, Faithful
<1>3. CASE pull
  <2>1. mode = "acked" /\ Len(taken) = byteNo
    BY <1>3 DEF Answers
  <2>2. pull' = FALSE /\ pull' \in BOOLEAN /\ mode' = "get" /\ inByte' = <<>> /\ given' = given
    BY <2>1 DEF I2c!Falls
  <2>3. inByte' \in Seq(Levels) /\ mode' \in Modes
    BY <2>2, EmptySeq DEF Modes
  <2>4. QED BY <1>1, <1>3, <2>1, <2>2, <2>3 DEF Listening, SlaveTypes, Faithful
<1>4. QED BY <1>2, <1>3

\* The clock falls after a bit that the slave has put on the line: it puts the next one there.
LEMMA GivesNext ==
  ASSUME AdapterAssumption, SlaveTypes, NEW k \in 1..Bits, k < Bits, NoneGiven \/ Putting(k), I2c!Falls
  PROVE  /\ IF mode = "passive" THEN NoneGiven' ELSE Putting(k + 1)' /\ outByte' = outByte
         /\ SlaveTypes' /\ UNCHANGED <<taken, events, given>>
<1>1. Bits \in Nat /\ k \in Int /\ k + 1 \in 1..Bits
  BY BitsAre
<1>2. taken' = taken /\ events' = events
  BY DEF I2c!Falls
<1>3. CASE NoneGiven
  <2>1. mode = "passive"
    BY <1>3 DEF NoneGiven, Mute
  <2>2. pull' = FALSE /\ pull' \in BOOLEAN /\ UNCHANGED <<mode, inByte, outByte, given>>
    BY <2>1 DEF I2c!Falls
  <2>3. QED BY <1>2, <1>3, <2>1, <2>2 DEF NoneGiven, Mute, SlaveTypes
<1>4. CASE Putting(k)
  <2>1. mode = "put" /\ outByte \in I2c!Bytes /\ Len(inByte) = k
    BY <1>4 DEF Putting
  <2>8. Len(inByte) < Bits /\ ~(Len(inByte) >= Bits)
    BY <1>1, <2>1
  <2>2. given' = given /\ pull' = (outByte[Len(inByte) + 1] = 0) /\ outByte' = outByte
        /\ inByte' = Append(inByte, outByte[Len(inByte) + 1]) /\ mode' = "put"
    BY ONLY <2>1, <2>8, I2c!Falls DEF I2c!Falls, I2c!Puts
  <2>3. outByte[k + 1] \in Levels
    BY <1>1, <2>1, BitOf
  <2>4. inByte' = Append(inByte, outByte[k + 1]) /\ pull' = (outByte[k + 1] = 0) /\ outByte' = outByte /\ mode' = "put"
    BY <2>1, <2>2
  <2>5. inByte' \in Seq(Levels) /\ Len(inByte') = Len(inByte) + 1
    BY <2>3, <2>4, Extended DEF SlaveTypes
  <2>6. Putting(k + 1)'
    BY <2>1, <2>4, <2>5 DEF Putting
  <2>7. QED BY <1>2, <2>1, <2>2, <2>4, <2>5, <2>6 DEF SlaveTypes, Modes
<1>5. QED BY <1>3, <1>4

\* After its last bit the slave lets go of the line and waits for the acknowledgement.
LEMMA GivesLast ==
  ASSUME AdapterAssumption, SlaveTypes, NoneGiven \/ Putting(Bits), I2c!Falls
  PROVE  /\ IF mode = "passive" THEN NoneGiven' ELSE mode' = "masterAck" /\ ~pull' /\ given' = Append(given, outByte)
         /\ SlaveTypes' /\ UNCHANGED <<taken, events>>
<1>1. Bits \in Nat
  BY BitsAre
<1>2. taken' = taken /\ events' = events
  BY DEF I2c!Falls
<1>3. CASE NoneGiven
  <2>1. mode = "passive"
    BY <1>3 DEF NoneGiven, Mute
  <2>2. pull' = FALSE /\ pull' \in BOOLEAN /\ UNCHANGED <<mode, inByte, outByte, given>>
    BY <2>1 DEF I2c!Falls
  <2>3. QED BY <1>2, <1>3, <2>1, <2>2 DEF NoneGiven, Mute, SlaveTypes
<1>4. CASE Putting(Bits)
  <2>1. mode = "put" /\ outByte \in I2c!Bytes /\ Len(inByte) = Bits
    BY <1>4 DEF Putting
  <2>8. ~(Len(inByte) < Bits) /\ Len(inByte) >= Bits
    BY <1>1, <2>1
  <2>2. pull' = FALSE /\ pull' \in BOOLEAN /\ mode' = "masterAck" /\ given' = Append(given, outByte) /\ inByte' = inByte
    BY ONLY <2>1, <2>8, I2c!Falls DEF I2c!Falls
  <2>3. given' \in Seq(I2c!Bytes)
    BY <2>1, <2>2, Extended DEF SlaveTypes
  <2>4. QED BY <1>2, <2>1, <2>2, <2>3 DEF SlaveTypes, Modes
<1>5. QED BY <1>3, <1>4

\* The slave sees whether its byte is acknowledged.
LEMMA SeesAck ==
  ASSUME SlaveTypes, mode = "masterAck", NEW v \in Levels, I2c!Rises(v)
  PROVE  /\ mode' = IF v = 0 THEN "next" ELSE "passive"
         /\ SlaveTypes' /\ UNCHANGED <<pull, inByte, outByte, taken, events, given>>
<1>1. /\ mode' = IF v = 0 THEN "next" ELSE "passive"
      /\ UNCHANGED <<pull, inByte, outByte, taken, events, given>>
  BY DEF I2c!Rises
<1>2. mode' \in Modes
  BY <1>1 DEF Modes
<1>3. QED BY <1>1, <1>2 DEF SlaveTypes

\* The clock falls after the acknowledgement: the slave puts the first bit of another byte on the
\* line if it shall.
LEMMA AckOver ==
  ASSUME AdapterAssumption, SlaveTypes, mode \in {"next", "passive"}, I2c!Falls
  PROVE  /\ IF mode = "passive" THEN Mute' ELSE Putting(1)'
         /\ SlaveTypes' /\ UNCHANGED <<taken, events, given>>
<1>1. taken' = taken /\ events' = events
  BY DEF I2c!Falls
<1>2. CASE mode = "passive"
  <2>1. pull' = FALSE /\ pull' \in BOOLEAN /\ UNCHANGED <<mode, inByte, outByte, given>>
    BY <1>2 DEF I2c!Falls
  <2>2. QED BY <1>1, <1>2, <2>1 DEF Mute, SlaveTypes
<1>3. CASE mode = "next"
  <2>1. given' = given /\ \E byte \in I2c!Bytes : I2c!Puts(byte, <<>>)
    BY <1>3 DEF I2c!Falls
  <2>2. Putting(1)' /\ pull' \in BOOLEAN /\ inByte' \in Seq(Levels) /\ mode' = "put"
    BY <2>1, PutsFirst
  <2>3. QED BY <1>1, <1>3, <2>1, <2>2 DEF SlaveTypes, Modes
<1>4. QED BY <1>2, <1>3
-----------------------------------------------------------------------------
(* Where a step leads.                                                     *)
LEMMA LevelOf ==
  ASSUME AdapterAssumption, PlaceTypes, Sends, NEW m \in 1..Size, NEW k \in 1..Bits
  PROVE  job.bytes[m][k] \in Levels
<1>1. job.bytes \in Seq(I2c!Bytes)
  BY DEF PlaceTypes, Jobs
<1>2. job.bytes[m] \in I2c!Bytes
  BY <1>1, ElementOfSeq DEF Size
<1>3. QED BY <1>2, BitOf

\* The routine for a bit of a byte sent.
LEMMA SendRoutine ==
  ASSUME AdapterAssumption, PlaceTypes, Asked, Sends, NEW m \in 1..Size, NEW k \in 1..(Bits + 1)
  PROVE  /\ k <= Bits => I2c!Routine(m, k) = I2c!I2C_WriteBit(job.bytes[m][k])
         /\ k = Bits + 1 => I2c!Routine(m, k) = I2c!I2C_ReadBit
<1>1. Bits \in Nat /\ m \in Nat /\ k \in Nat /\ k # 0
  BY BitsAre
<1>2. Size = Len(job.bytes) /\ (job.kind = "begin" => ~(m > 1))
  <2>1. Size = Len(job.bytes) /\ m <= Size
    BY DEF Size
  <2>2. job.kind = "begin" => Len(job.bytes) = 1
    BY DEF Asked
  <2>3. ASSUME job.kind = "begin" PROVE ~(m > 1)
    <3>1. m <= 1
      BY <2>1, <2>2, <2>3
    <3>2. QED BY ONLY <1>1, <3>1, SMTT(60), ZenonT(60)
  <2>4. QED BY <2>1, <2>3
<1>3. m <= Len(job.bytes)
  BY <1>2
<1>4. I2c!Routine(m, k) = I2c!I2C_Write(job.bytes[m], k)
  BY <1>1, <1>2, <1>3, RoutineIs DEF Sends
<1>5. QED BY <1>1, <1>4 DEF I2c!I2C_Write

\* No routine is empty.
LEMMA SendLength ==
  ASSUME AdapterAssumption, PlaceTypes, Asked, Sends, NEW m \in 1..Size, NEW k \in 1..(Bits + 1)
  PROVE  Len(I2c!Routine(m, k)) = IF k <= Bits /\ job.bytes[m][k] # 1 THEN 3 ELSE 4
<1>1. Bits \in Nat /\ 1 \in 1..4
  BY BitsAre
<1>2. CASE k <= Bits
  <2>1. job.bytes[m][k] \in Levels
    BY <1>1, <1>2, LevelOf
  <2>2. QED BY <1>1, <1>2, <2>1, SendRoutine, WritesBit, ZenonT(60), SMTT(60)
<1>3. CASE k = Bits + 1
  <2>1. ~(k <= Bits)
    BY <1>1, <1>3
  <2>2. QED BY <1>1, <1>3, <2>1, SendRoutine, ReadsBit
<1>4. QED BY <1>1, <1>2, <1>3

\* The routine for a bit of a byte read.
LEMMA ReadRoutine ==
  ASSUME AdapterAssumption, PlaceTypes, job.kind = "read", NEW m \in 1..Size, NEW k \in 1..(Bits + 1)
  PROVE  /\ k <= Bits => I2c!Routine(m, k) = I2c!I2C_ReadBit
         /\ k = Bits + 1 => I2c!Routine(m, k) = I2c!I2C_WriteBit(IF ~job.nack \/ m < job.length THEN 0 ELSE 1)
<1>1. Bits \in Nat /\ m \in Nat /\ k \in Nat
  BY BitsAre
<1>2. m <= job.length
  BY DEF Size, Sends
<1>3. I2c!Routine(m, k) = I2c!I2C_Read(~job.nack \/ m < job.length, k)
  BY <1>1, <1>2, RoutineIs
<1>4. QED BY <1>1, <1>3 DEF I2c!I2C_Read

\* Its length.
LEMMA ReadLength ==
  ASSUME AdapterAssumption, PlaceTypes, job.kind = "read", NEW m \in 1..Size, NEW k \in 1..(Bits + 1)
  PROVE  Len(I2c!Routine(m, k)) = IF k = Bits + 1 /\ (~job.nack \/ m < job.length) THEN 3 ELSE 4
<1>1. Bits \in Nat /\ 1 \in 1..4
  BY BitsAre
<1>2. CASE k <= Bits
  <2>1. k # Bits + 1
    BY <1>1, <1>2
  <2>2. QED BY <1>1, <1>2, <2>1, ReadRoutine, ReadsBit
<1>3. CASE k = Bits + 1
  <2> DEFINE bit == IF ~job.nack \/ m < job.length THEN 0 ELSE 1
  <2>1. bit \in Levels /\ (bit = 1 <=> ~(~job.nack \/ m < job.length))
    BY DEF Levels
  <2>2. I2c!Routine(m, k) = I2c!I2C_WriteBit(bit)
    BY <1>3, ReadRoutine
  <2> HIDE DEF bit
  <2>3. Len(I2c!I2C_WriteBit(bit)) = IF bit = 1 THEN 4 ELSE 3
    BY <1>1, <2>1, WritesBit
  <2>4. QED BY <1>3, <2>1, <2>2, <2>3
<1>4. QED BY <1>1, <1>2, <1>3

\* After the last byte.
LEMMA EndRoutine ==
  ASSUME PlaceTypes, Asked, job.kind \in {"begin", "send", "read"}
  PROVE  /\ I2c!Routine(Size + 1, 1) = IF job.stop THEN I2c!I2C_Stop ELSE <<>>
         /\ I2c!Routine(Size + 1, 2) = <<>>
<1>1. Size \in Nat /\ Size + 1 \in Nat /\ ~(Size + 1 <= Size)
  <2>1. Len(job.bytes) \in Nat /\ job.length \in Nat
    BY LenProperties DEF PlaceTypes, Jobs
  <2>2. QED BY <2>1 DEF Size
<1>2. CASE job.kind = "begin"
  <2>1. Size = 1 /\ ~job.stop /\ Size + 1 > 1
    BY <1>2 DEF Asked, Size, Sends
  <2>2. QED BY <1>1, <1>2, <2>1, RoutineIs
<1>3. CASE job.kind = "send"
  <2>1. Size = Len(job.bytes)
    BY <1>3 DEF Size, Sends
  <2>2. QED BY <1>1, <1>3, <2>1, RoutineIs
<1>4. CASE job.kind = "read"
  <2>1. Size = job.length
    BY <1>4 DEF Size, Sends
  <2>2. QED BY <1>1, <1>4, <2>1, RoutineIs
<1>5. QED BY <1>2, <1>3, <1>4

\* What comes after a bit, and what after a byte.
LEMMA Returns ==
  ASSUME AdapterAssumption, PlaceTypes, Asked, job.kind \in {"begin", "send", "read"},
         byteNo <= Size, bitNo \in 1..(Bits + 1), I2c!Return
  PROVE  /\ bitNo <= Bits => byteNo' = byteNo /\ bitNo' = bitNo + 1 /\ stepNo' = 1 /\ reply' = reply
         /\ bitNo = Bits + 1 =>
              /\ byteNo' = byteNo + 1 /\ bitNo' = 1
              /\ stepNo' = IF byteNo < Size \/ job.stop THEN 1 ELSE 0
              /\ reply' = IF job.kind = "read" THEN Append(reply, bitsRead)
                          ELSE IF stepNo' = 0 THEN bitsRead ELSE reply
<1>1. Bits \in Nat /\ Bits > 1 /\ byteNo \in Nat /\ byteNo > 0 /\ bitNo \in Nat /\ Size \in Nat
  <2>1. Len(job.bytes) \in Nat /\ job.length \in Nat
    BY LenProperties DEF PlaceTypes, Jobs
  <2>2. QED BY <2>1, BitsAre DEF PlaceTypes, Size
<1>2. \A m \in 1..Size, k \in 1..(Bits + 1) : Len(I2c!Routine(m, k)) # 0
  <2> SUFFICES ASSUME NEW m \in 1..Size, NEW k \in 1..(Bits + 1) PROVE Len(I2c!Routine(m, k)) # 0
    OBVIOUS
  <2>1. CASE Sends
    <3>1. Len(I2c!Routine(m, k)) = IF k <= Bits /\ job.bytes[m][k] # 1 THEN 3 ELSE 4
      BY <2>1, SendLength
    <3>2. QED BY <3>1
  <2>2. CASE job.kind = "read"
    <3>1. Len(I2c!Routine(m, k)) = IF k = Bits + 1 /\ (~job.nack \/ m < job.length) THEN 3 ELSE 4
      BY <2>2, ReadLength
    <3>2. QED BY <3>1
  <2>3. QED BY <2>1, <2>2 DEF Sends
<1>3. CASE bitNo <= Bits
  <2>1. byteNo \in 1..Size /\ bitNo + 1 \in 1..(Bits + 1) /\ bitNo # Bits + 1
    BY <1>1, <1>3
  <2>2. Len(I2c!Routine(byteNo, bitNo + 1)) # 0
    BY <1>2, <2>1
  <2>3. byteNo' = byteNo /\ bitNo' = bitNo + 1 /\ stepNo' = 1 /\ reply' = I2c!Result(FALSE)
    BY <1>3, <2>2 DEF I2c!Return
  <2>4. reply' = reply
    BY <2>1, <2>3 DEF I2c!Result
  <2>5. QED BY <2>1, <2>3, <2>4
<1>4. CASE bitNo = Bits + 1
  <2> DEFINE over == Len(I2c!Routine(byteNo + 1, 1)) = 0
  <2>1. ~(bitNo <= Bits)
    BY <1>1, <1>4
  <2>2. byteNo' = byteNo + 1 /\ bitNo' = 1 /\ stepNo' = (IF over THEN 0 ELSE 1) /\ reply' = I2c!Result(over)
    BY <2>1 DEF I2c!Return
  <2>3. over <=> ~(byteNo < Size \/ job.stop)
    <3>1. CASE byteNo < Size
      <4>1. byteNo + 1 \in 1..Size /\ 1 \in 1..(Bits + 1)
        BY <1>1, <3>1
      <4>2. QED BY <1>2, <3>1, <4>1
    <3>2. CASE ~(byteNo < Size)
      <4>1. byteNo + 1 = Size + 1
        BY <1>1, <3>2
      <4>2. Len(I2c!I2C_Stop) = 4 /\ Len(<<>>) = 0
        <5>1. 1 \in 1..4
          OBVIOUS
        <5>2. QED BY <5>1, StopsBus, EmptySeq
      <4>3. I2c!Routine(byteNo + 1, 1) = IF job.stop THEN I2c!I2C_Stop ELSE <<>>
        BY <4>1, EndRoutine
      <4>4. QED BY <3>2, <4>2, <4>3
    <3>3. QED BY <3>1, <3>2
  <2> HIDE DEF over
  <2>4. stepNo' = IF byteNo < Size \/ job.stop THEN 1 ELSE 0
    BY <2>2, <2>3
  <2>5. reply' = IF job.kind = "read" THEN Append(reply, bitsRead) ELSE IF over THEN bitsRead ELSE reply
    BY <1>4, <2>2 DEF I2c!Result
  <2>6. QED BY <2>1, <2>2, <2>3, <2>4, <2>5
<1>5. QED BY <1>1, <1>3, <1>4
-----------------------------------------------------------------------------
(* Sending.                                                                *)

\* What a step of a byte sent does.
LEMMA SendSteps ==
  ASSUME AdapterAssumption, PlaceTypes, Asked, Within, Sends, byteNo <= Size, bitNo \in 1..(Bits + 1),
         stepNo > 0, I2c!Step
  PROVE  /\ stepNo = 1 => I2c!Do([op |-> "data", to |-> IF bitNo <= Bits THEN job.bytes[byteNo][bitNo] ELSE 1])
         /\ stepNo = 2 => I2c!Do(I2c!ClockHi)
         /\ stepNo = 3 => I2c!Do(IF bitNo <= Bits THEN I2c!ClockLo ELSE I2c!Read)
         /\ stepNo = 4 => IF bitNo <= Bits THEN job.bytes[byteNo][bitNo] = 1 /\ I2c!Do([op |-> "data", to |-> 0])
                                          ELSE I2c!Do(I2c!ClockLo)
         /\ IF stepNo < (IF bitNo <= Bits /\ job.bytes[byteNo][bitNo] # 1 THEN 3 ELSE 4)
            THEN stepNo' = stepNo + 1 /\ UNCHANGED <<byteNo, bitNo, reply>>
            ELSE I2c!Return
         /\ UNCHANGED <<job, legal, jobs>>
<1>1. Bits \in Nat /\ byteNo \in 1..Size /\ stepNo \in 1..4
  <2>1. Len(job.bytes) \in Nat /\ byteNo \in Nat /\ byteNo > 0
    BY LenProperties DEF PlaceTypes, Jobs
  <2>2. QED BY <2>1, BitsAre DEF PlaceTypes, Size
<1>2. I2c!Do(I2c!Routine(byteNo, bitNo)[stepNo]) /\ UNCHANGED <<job, legal, jobs>>
  BY DEF I2c!Step
<1>3. IF stepNo < Len(I2c!Routine(byteNo, bitNo))
      THEN stepNo' = stepNo + 1 /\ UNCHANGED <<byteNo, bitNo, reply>>
      ELSE I2c!Return
  BY DEF I2c!Step
<1>4. Len(I2c!Routine(byteNo, bitNo)) = IF bitNo <= Bits /\ job.bytes[byteNo][bitNo] # 1 THEN 3 ELSE 4
  BY <1>1, SendLength
<1>5. CASE bitNo <= Bits
  <2>1. I2c!Routine(byteNo, bitNo) = I2c!I2C_WriteBit(job.bytes[byteNo][bitNo]) /\ job.bytes[byteNo][bitNo] \in Levels
    BY <1>1, <1>5, SendRoutine, LevelOf
  <2>2. stepNo = 4 => job.bytes[byteNo][bitNo] = 1
    BY <1>1, <1>5 DEF Within
  <2>3. QED BY <1>1, <1>2, <1>3, <1>4, <1>5, <2>1, <2>2, WritesBit
<1>6. CASE bitNo = Bits + 1
  <2>1. I2c!Routine(byteNo, bitNo) = I2c!I2C_ReadBit /\ ~(bitNo <= Bits)
    BY <1>1, <1>6, SendRoutine
  <2>2. QED BY <1>1, <1>2, <1>3, <1>4, <2>1, ReadsBit
<1>7. QED BY <1>1, <1>5, <1>6

\* Nothing that the slave does not see or that is not about the place changes what is said of it.
LEMMA SameSlave ==
  ASSUME UNCHANGED I2c!slave, UNCHANGED <<byteNo, job>>
  PROVE  /\ \A k : (Fell(k)' <=> Fell(k)) /\ (Rose(k)' <=> Rose(k)) /\ (Putting(k)' <=> Putting(k))
         /\ Faithful' <=> Faithful
         /\ SlaveTypes' <=> SlaveTypes
         /\ Mute' <=> Mute
         /\ Listening' <=> Listening
         /\ UNCHANGED <<pull, mode, inByte, outByte, taken, given, events>>
<1>1. UNCHANGED <<pull, mode, inByte, outByte, taken, given, events>>
  BY DEF I2c!slave
<1>2. \A k : (Fell(k)' <=> Fell(k)) /\ (Rose(k)' <=> Rose(k)) /\ (Putting(k)' <=> Putting(k))
  BY <1>1 DEF Fell, Rose, Putting, Deaf, Mute, Hears, Heard, Answers, ToSlave
<1>3. QED BY <1>1, <1>2 DEF Faithful, SlaveTypes, Mute, Listening

\* The invariant while a byte is sent.
LEMMA InSending ==
  ASSUME AdapterAssumption, Asked, UNCHANGED <<job, legal>>, PinTypes', SlaveTypes', PlaceTypes, Sends,
         byteNo' \in Nat \ {0}, byteNo' <= Size, bitNo' \in 1..(Bits + 1), stepNo' \in 1..4,
         (bitNo' <= Bits /\ stepNo' = 4) => job.bytes[byteNo'][bitNo'] = 1,
         Sending', reply' = <<>>
  PROVE  BusInv'
<1>1. Bits \in Nat /\ bitNo' \in Nat /\ stepNo' \in 0..4 /\ stepNo' > 0 /\ bitNo' > 0
  BY BitsAre
<1>2. PlaceTypes'
  <2>1. reply' \in Seq(Levels) /\ job.kind # "read"
    BY EmptySeq DEF Sends
  <2>2. QED BY <1>1, <2>1 DEF PlaceTypes
<1>3. Size' = Size /\ Sends' = Sends /\ (Sends' <=> Sends)
  BY DEF Size, Sends
<1>4. Asked'
  BY <1>1 DEF Asked, ToSlave, Sends
<1>5. Within'
  BY <1>1, <1>3 DEF Within, Sends
<1>6. Running'
  <2>1. ~(byteNo' > Size)
    <3>1. Len(job.bytes) \in Nat
      BY LenProperties DEF PlaceTypes, Jobs
    <3>2. QED BY <3>1 DEF Size
  <2>2. QED BY <1>1, <1>3, <2>1 DEF Running, Sends
<1>7. QED BY <1>1, <1>2, <1>4, <1>5, <1>6 DEF BusInv, BusTypes

\* The invariant while the message is ended by a STOP.
LEMMA InStopping ==
  ASSUME AdapterAssumption, Asked, UNCHANGED <<job, legal>>, PinTypes', SlaveTypes', PlaceTypes,
         job.kind \in {"send", "read"}, job.stop, byteNo' = Size + 1, bitNo' = 1, stepNo' \in 1..4,
         Stopping', IF job.kind = "read" THEN reply' \in Seq(Seq(Levels)) ELSE reply' = <<>>
  PROVE  BusInv'
<1>1. Size \in Nat /\ Bits \in Nat /\ Bits > 1
  <2>1. Len(job.bytes) \in Nat /\ job.length \in Nat
    BY LenProperties DEF PlaceTypes, Jobs
  <2>2. QED BY <2>1, BitsAre DEF Size
<1>2. PlaceTypes'
  <2>1. byteNo' \in Nat \ {0} /\ bitNo' \in Nat /\ stepNo' \in 0..4
    BY <1>1
  <2>2. <<>> \in Seq(Levels)
    BY EmptySeq
  <2>3. reply' \in IF job.kind = "read" THEN Seq(Seq(Levels)) ELSE Seq(Levels)
    BY <2>2
  <2>4. job' \in Jobs /\ job' = job
    BY DEF PlaceTypes
  <2>5. QED BY <2>1, <2>3, <2>4 DEF PlaceTypes
<1>3. Size' = Size /\ (Sends' <=> Sends)
  BY DEF Size, Sends
<1>4. Asked'
  BY DEF Asked, ToSlave, Sends
<1>5. byteNo' > Size /\ ~(byteNo' <= Size) /\ stepNo' > 0 /\ stepNo' # 0
  BY <1>1
<1>6. Within'
  BY <1>3, <1>5 DEF Within, Sends
<1>7. Running'
  BY <1>3, <1>5 DEF Running, Sends
<1>8. QED BY <1>2, <1>4, <1>5, <1>6, <1>7 DEF BusInv, BusTypes

\* The invariant when the job is over.
LEMMA InResting ==
  ASSUME Asked, UNCHANGED <<job, legal>>, PinTypes', SlaveTypes', PlaceTypes, stepNo' = 0,
         byteNo' \in Nat \ {0}, bitNo' \in Nat, Resting',
         IF job.kind = "read" THEN reply' \in Seq(Seq(Levels)) ELSE reply' \in Seq(Levels) /\ Len(reply') <= 1
  PROVE  BusInv'
<1>1. PlaceTypes'
  BY DEF PlaceTypes
<1>2. Asked'
  BY DEF Asked, ToSlave
<1>3. QED BY <1>1, <1>2 DEF BusInv, BusTypes

\* The invariant while a byte is read.
LEMMA InReading ==
  ASSUME AdapterAssumption, Asked, UNCHANGED <<job, legal>>, PinTypes', SlaveTypes', PlaceTypes,
         job.kind = "read", byteNo' \in Nat \ {0}, byteNo' <= Size, bitNo' \in 1..(Bits + 1),
         stepNo' \in 1..4, Reading', reply' \in Seq(Seq(Levels))
  PROVE  BusInv'
<1>1. Bits \in Nat /\ bitNo' \in Nat /\ stepNo' \in 0..4 /\ stepNo' > 0 /\ bitNo' > 0
  BY BitsAre
<1>2. PlaceTypes'
  BY <1>1 DEF PlaceTypes
<1>3. Size' = Size /\ Sends' = Sends /\ ~Sends
  BY DEF Size, Sends
<1>4. Asked'
  BY <1>1 DEF Asked
<1>5. Within'
  BY <1>1, <1>3 DEF Within, Sends
<1>6. Running'
  <2>1. ~(byteNo' > Size)
    BY DEF PlaceTypes, Jobs, Size, Sends
  <2>2. QED BY <1>1, <1>3, <2>1 DEF Running, Sends
<1>7. QED BY <1>1, <1>2, <1>4, <1>5, <1>6 DEF BusInv, BusTypes

\* The clock falls after a bit sent.
LEMMA SendFalls ==
  ASSUME AdapterAssumption, SlaveTypes, PlaceTypes, Asked, Sends, byteNo <= Size, NEW k \in 1..Bits,
         Rose(k), I2c!Falls, Faithful, UNCHANGED <<byteNo, job>>
  PROVE  Fell(k + 1)' /\ Faithful' /\ SlaveTypes' /\ events' = events
<1>1. Bits \in Nat /\ Bits > 1 /\ ~(Bits + 1 <= Bits)
  BY BitsAre
<1>2. CASE k < Bits
  BY <1>2, HearsFall
<1>3. CASE k = Bits
  <2>1. job.kind = "begin" => byteNo = 1
    <3>1. job.kind = "begin" => Len(job.bytes) = 1
      BY DEF Asked
    <3>2. job.kind = "begin" => byteNo <= 1
      BY <3>1 DEF Size
    <3>3. QED BY <3>2 DEF PlaceTypes
  <2>2. Answers' /\ Faithful' /\ SlaveTypes' /\ events' = events
    BY <1>3, <2>1, AnswersByte
  <2>3. Fell(k + 1)'
    BY <1>1, <1>3, <2>2 DEF Fell
  <2>4. QED BY <2>2, <2>3
<1>4. QED BY <1>1, <1>2, <1>3

\* A step within a bit that is sent.
LEMMA SendWithin ==
  ASSUME AdapterAssumption, BusInv, stepNo > 0, Sends, byteNo <= Size, NEW k \in 1..(Bits + 1), k = bitNo, I2c!Step,
         stepNo' = stepNo + 1, UNCHANGED <<byteNo, bitNo, reply>>
  PROVE  BusInv'
<1> DEFINE want == IF bitNo <= Bits THEN job.bytes[byteNo][bitNo] ELSE 1
<1>1. PinTypes /\ SlaveTypes /\ PlaceTypes /\ Asked /\ Within /\ Sending
  BY DEF BusInv, BusTypes, Running
<1>2. Bits \in Nat /\ Bits > 1 /\ bitNo \in Nat /\ bitNo > 0
      /\ (bitNo <= Bits \/ (bitNo = Bits + 1 /\ ~(bitNo <= Bits)))
  BY BitsAre
<1>3. /\ stepNo = 1 => I2c!Do([op |-> "data", to |-> want])
      /\ stepNo = 2 => I2c!Do(I2c!ClockHi)
      /\ stepNo = 3 => I2c!Do(IF bitNo <= Bits THEN I2c!ClockLo ELSE I2c!Read)
      /\ IF stepNo < (IF bitNo <= Bits /\ job.bytes[byteNo][bitNo] # 1 THEN 3 ELSE 4)
         THEN stepNo' = stepNo + 1 /\ UNCHANGED <<byteNo, bitNo, reply>>
         ELSE I2c!Return
      /\ UNCHANGED <<job, legal, jobs>>
  BY <1>1, SendSteps
<1>4. want \in Levels /\ stepNo \in 1..3 /\ (stepNo = 3 => want = 1)
  <2>1. byteNo \in 1..Size
    <3>1. Len(job.bytes) \in Nat
      BY <1>1, LenProperties DEF PlaceTypes, Jobs
    <3>2. QED BY <1>1, <3>1 DEF PlaceTypes, Size
  <2>2. bitNo <= Bits => job.bytes[byteNo][bitNo] \in Levels
    BY <1>1, <1>2, <2>1, LevelOf
  <2>3. want \in Levels
    BY <2>2 DEF Levels
  <2>4. stepNo \in 1..4
    BY <1>1 DEF PlaceTypes
  <2>5. ~I2c!Return \/ stepNo' # stepNo + 1
    BY <2>4 DEF I2c!Return
  <2>6. stepNo < (IF bitNo <= Bits /\ job.bytes[byteNo][bitNo] # 1 THEN 3 ELSE 4)
    BY <1>3, <2>5
  <2>7. QED BY <2>3, <2>4, <2>6
<1>5. reply' = <<>> /\ byteNo' \in Nat \ {0} /\ byteNo' <= Size /\ bitNo' \in 1..(Bits + 1) /\ stepNo' \in 1..4
  BY <1>1, <1>4 DEF PlaceTypes, BusInv, Sends
<1>6. (bitNo' <= Bits /\ stepNo' = 4) => job.bytes[byteNo'][bitNo'] = 1
  BY <1>4
<1>7. Sends' <=> Sends
  BY <1>3 DEF Sends
<1>8. CASE stepNo = 1
  <2>1. scl = 0 /\ Fell(k) /\ Faithful /\ (IF job.kind = "begin" THEN SawStart ELSE events = <<>>)
    BY <1>1, <1>8 DEF Sending, Clock
  <2>2. sda' = want /\ scl' = 0 /\ bitsRead' = bitsRead /\ UNCHANGED I2c!slave
    BY <1>3, <1>4, <1>8, <2>1, SetsData
  <2>3. Fell(k)' /\ Faithful' /\ SlaveTypes' /\ events' = events
    BY <1>1, <1>3, <2>1, <2>2, SameSlave
  <2>4. PinTypes'
    BY <1>1, <1>4, <2>2 DEF PinTypes, Levels
  <2>5. Sending'
    BY <1>2, <1>3, <1>8, <2>1, <2>2, <2>3 DEF Sending, Clock, SawStart
  <2>6. QED BY <1>1, <1>3, <1>5, <1>6, <2>3, <2>4, <2>5, InSending
<1>9. CASE stepNo = 2
  <2>1. scl = 0 /\ sda = want /\ Fell(k) /\ Faithful /\ (IF job.kind = "begin" THEN SawStart ELSE events = <<>>)
    BY <1>1, <1>2, <1>9 DEF Sending, Clock
  <2>2. sda' = sda /\ scl' = 1 /\ bitsRead' = bitsRead /\ I2c!Rises(I2c!Line(sda, pull))
    BY <1>3, <1>9, <2>1, ClockRises
  <2>3. Rose(k)' /\ Faithful' /\ SlaveTypes' /\ events' = events
    <3>1. CASE bitNo <= Bits
      <4>1. ~pull
        BY <2>1, <3>1 DEF Fell, Deaf, Mute, Hears
      <4>2. I2c!Line(sda, pull) = job.bytes[byteNo][bitNo]
        BY <1>4, <2>1, <3>1, <4>1 DEF I2c!Line, Levels
      <4>3. I2c!Rises(job.bytes[byteNo][bitNo])
        BY <2>2, <4>2
      <4>4. k \in 1..Bits /\ job.bytes[byteNo][bitNo] = job.bytes[byteNo][k]
        BY <1>2, <3>1
      <4>5. QED BY <1>1, <1>3, <2>1, <4>3, <4>4, HearsRise
    <3>2. CASE bitNo = Bits + 1
      <4>1. Answers /\ ~(bitNo < Bits) /\ bitNo # Bits
        BY <1>2, <2>1, <3>2 DEF Fell
      <4>2. mode \in {"next", "acked", "passive"}
        BY <1>1, <4>1 DEF Answers, SlaveTypes
      <4>3. UNCHANGED I2c!slave
        BY <2>2, <4>2, IgnoresRise
      <4>4. Rose(k)
        BY <4>1 DEF Rose
      <4>5. QED BY <1>1, <1>3, <2>1, <4>3, <4>4, SameSlave
    <3>3. QED BY <1>2, <3>1, <3>2
  <2>4. PinTypes'
    BY <1>1, <2>2 DEF PinTypes, Levels
  <2>5. Sending'
    BY <1>2, <1>3, <1>9, <2>1, <2>2, <2>3 DEF Sending, Clock, SawStart
  <2>6. QED BY <1>1, <1>3, <1>5, <1>6, <2>3, <2>4, <2>5, InSending
<1>10. CASE stepNo = 3 /\ bitNo <= Bits
  <2>1. scl = 1 /\ Rose(k) /\ Faithful /\ (IF job.kind = "begin" THEN SawStart ELSE events = <<>>)
    BY <1>1, <1>2, <1>10 DEF Sending, Clock
  <2>2. sda' = sda /\ scl' = 0 /\ bitsRead' = bitsRead /\ I2c!Falls
    BY <1>3, <1>10, <2>1, ClockFalls
  <2>3. Fell(k + 1)' /\ Faithful' /\ SlaveTypes' /\ events' = events
    BY <1>1, <1>2, <1>3, <1>10, <2>1, <2>2, SendFalls
  <2>4. PinTypes'
    BY <1>1, <2>2 DEF PinTypes, Levels
  <2>5. Sending'
    BY <1>2, <1>3, <1>10, <2>1, <2>2, <2>3 DEF Sending, Clock, SawStart
  <2>6. QED BY <1>1, <1>3, <1>5, <1>6, <2>3, <2>4, <2>5, InSending
<1>11. CASE stepNo = 3 /\ bitNo = Bits + 1
  <2>1. scl = 1 /\ sda = 1 /\ Rose(k) /\ Faithful /\ (IF job.kind = "begin" THEN SawStart ELSE events = <<>>)
    BY <1>1, <1>2, <1>11 DEF Sending, Clock
  <2>2. /\ sda' = sda /\ scl' = scl /\ UNCHANGED I2c!slave
        /\ bitsRead' = Append(IF bitNo \in 2..Bits THEN bitsRead ELSE <<>>, I2c!Line(sda, pull))
    BY <1>1, <1>2, <1>3, <1>11, ReadsLine DEF PinTypes
  <2>3. Rose(k)' /\ Faithful' /\ SlaveTypes' /\ events' = events /\ pull' = pull
    BY <1>1, <1>3, <2>1, <2>2, SameSlave
  <2>4. bitsRead' = <<IF pull THEN 0 ELSE 1>>
    <3>1. bitNo \notin 2..Bits
      BY <1>2, <1>11
    <3>2. I2c!Line(sda, pull) = IF pull THEN 0 ELSE 1
      BY <2>1 DEF I2c!Line
    <3>3. bitsRead' = Append(<<>>, IF pull THEN 0 ELSE 1)
      BY <2>2, <3>1, <3>2
    <3>4. QED BY <3>3
  <2>5. PinTypes'
    BY <1>1, <2>1, <2>2, <2>4 DEF PinTypes, Levels
  <2>8. AckRead' /\ scl' = 1 /\ sda' = 1 /\ stepNo' = 4 /\ bitNo' = Bits + 1
    <3>1. pull' = pull
      BY <2>3
    <3>2. AckRead'
      BY ONLY <2>4, <3>1, Zenon DEF AckRead
    <3>3. QED BY <1>11, <2>1, <2>2, <3>2
  <2>6. Sending'
    BY <1>2, <1>3, <1>11, <2>1, <2>3, <2>8 DEF Sending, Clock, SawStart
  <2>7. QED BY <1>1, <1>3, <1>5, <1>6, <2>3, <2>5, <2>6, InSending
<1>12. QED BY <1>2, <1>4, <1>8, <1>9, <1>10, <1>11

\* The next bit of a byte that is sent.
LEMMA SendNextBit ==
  ASSUME AdapterAssumption, BusInv, stepNo > 0, Sends, byteNo <= Size, NEW k \in 1..Bits, k = bitNo, I2c!Step,
         I2c!Return, stepNo \in {3, 4}
  PROVE  BusInv'
<1>1. PinTypes /\ SlaveTypes /\ PlaceTypes /\ Asked /\ Within /\ Sending
  BY DEF BusInv, BusTypes, Running
<1>2. Bits \in Nat /\ Bits > 1 /\ k + 1 \in 1..(Bits + 1) /\ bitNo \in 1..(Bits + 1) /\ bitNo <= Bits /\ k # Bits + 1
  BY BitsAre
<1>3. /\ stepNo = 3 => I2c!Do(I2c!ClockLo)
      /\ stepNo = 4 => I2c!Do([op |-> "data", to |-> 0])
      /\ UNCHANGED <<job, legal, jobs>>
  BY <1>1, <1>2, SendSteps
<1>4. byteNo' = byteNo /\ bitNo' = k + 1 /\ stepNo' = 1 /\ reply' = reply
  BY <1>1, <1>2, Returns DEF Sends
<1>5. reply' = <<>> /\ byteNo' \in Nat \ {0} /\ byteNo' <= Size /\ bitNo' \in 1..(Bits + 1) /\ stepNo' \in 1..4 /\ stepNo' # 4
  BY <1>1, <1>2, <1>4 DEF PlaceTypes, BusInv, Sends
<1>6. Faithful /\ (IF job.kind = "begin" THEN SawStart ELSE events = <<>>)
  BY <1>1 DEF Sending
<1>7. scl' = 0 /\ Fell(k + 1)' /\ Faithful' /\ SlaveTypes' /\ events' = events /\ PinTypes'
  <2>1. CASE stepNo = 3
    <3>1. scl = 1 /\ Rose(k)
      BY <1>1, <1>2, <2>1 DEF Sending, Clock
    <3>2. sda' = sda /\ scl' = 0 /\ bitsRead' = bitsRead /\ I2c!Falls
      BY <1>3, <2>1, <3>1, ClockFalls
    <3>3. Fell(k + 1)' /\ Faithful' /\ SlaveTypes' /\ events' = events
      BY <1>1, <1>3, <1>4, <1>6, <3>1, <3>2, SendFalls
    <3>4. QED BY <1>1, <3>2, <3>3 DEF PinTypes, Levels
  <2>2. CASE stepNo = 4
    <3>1. scl = 0 /\ Fell(k + 1)
      BY <1>1, <1>2, <2>2 DEF Sending, Clock
    <3>2. 0 \in Levels
      BY DEF Levels
    <3>3. sda' = 0 /\ scl' = 0 /\ bitsRead' = bitsRead /\ UNCHANGED I2c!slave
      BY <1>3, <2>2, <3>1, <3>2, SetsData
    <3>4. Fell(k + 1)' /\ Faithful' /\ SlaveTypes' /\ events' = events
      BY <1>1, <1>3, <1>4, <1>6, <3>1, <3>3, SameSlave
    <3>5. QED BY <1>1, <3>3, <3>4 DEF PinTypes, Levels
  <2>3. QED BY <2>1, <2>2
<1>8. Sending'
  BY <1>2, <1>3, <1>4, <1>6, <1>7 DEF Sending, Clock, SawStart
<1>9. QED BY <1>1, <1>3, <1>5, <1>7, <1>8, InSending

\* A list of one byte.
LEMMA OneByte ==
  ASSUME NEW byte \in I2c!Bytes, NEW list \in Seq(I2c!Bytes), Len(list) = 1, list[1] = byte
  PROVE  list = <<byte>>
<1>1. <<byte>> \in Seq(I2c!Bytes) /\ Len(<<byte>>) = 1 /\ <<byte>>[1] = byte
  OBVIOUS
<1>2. \A j \in 1..Len(list) : list[j] = <<byte>>[j]
  BY <1>1
<1>3. QED BY <1>1, <1>2, SeqEqual

\* An answer of one bit.
LEMMA OneBit ==
  ASSUME NEW b \in Levels
  PROVE  <<b>> \in Seq(Levels) /\ Len(<<b>>) = 1
  OBVIOUS

\* The end of an address.
LEMMA SendAddress ==
  ASSUME AdapterAssumption, BusInv, stepNo = 4, job.kind = "begin", byteNo <= Size, bitNo = Bits + 1, I2c!Step,
         I2c!Return
  PROVE  BusInv'
<1>1. PinTypes /\ SlaveTypes /\ PlaceTypes /\ Asked /\ Within /\ Sends /\ bitNo \in 1..(Bits + 1)
      /\ Bits \in Nat /\ Bits > 1 /\ ~(bitNo <= Bits) /\ stepNo > 0 /\ bitNo > 0
  BY BitsAre DEF BusInv, BusTypes, Running, Sends
<1>2. Sending
  BY <1>1 DEF BusInv, Running
<1>3. I2c!Do(I2c!ClockLo) /\ UNCHANGED <<job, legal, jobs>>
  BY <1>1, SendSteps
<1>4. Size = 1 /\ byteNo = 1 /\ ~job.stop /\ legal = (IF ToSlave THEN "write" ELSE "read")
  <2>1. Len(job.bytes) = 1 /\ ~job.stop /\ legal = (IF ToSlave THEN "write" ELSE "read")
    BY <1>1 DEF Asked
  <2>2. Size = 1
    BY <1>1, <2>1 DEF Size
  <2>3. byteNo = 1
    BY <1>1, <2>2 DEF PlaceTypes
  <2>4. QED BY <2>1, <2>2, <2>3
<1>5. byteNo' = 2 /\ bitNo' = 1 /\ stepNo' = 0 /\ reply' = bitsRead
  BY <1>1, <1>4, Returns
<1>6. scl = 1 /\ sda = 1 /\ Answers /\ AckRead /\ Faithful /\ SawStart
  <2>1. Rose(Bits + 1)
    BY <1>1, <1>2 DEF Sending
  <2>2. QED BY <1>1, <1>2, <2>1 DEF Sending, Clock, Rose
<1>7. sda' = 1 /\ scl' = 0 /\ bitsRead' = bitsRead /\ I2c!Falls
  BY <1>3, <1>6, ClockFalls
<1>8. /\ IF ToSlave THEN Listening' ELSE Talking'
      /\ (mode' = "passive") <=> ~pull
      /\ SlaveTypes' /\ UNCHANGED <<taken, events>>
  BY <1>1, <1>6, <1>7, AddressAnswered
<1>9. PinTypes'
  BY <1>1, <1>7 DEF PinTypes, Levels
<1>10. reply' = <<IF mode' = "passive" THEN 1 ELSE 0>>
  <2>1. (IF pull THEN 0 ELSE 1) = (IF mode' = "passive" THEN 1 ELSE 0)
    BY <1>8
  <2>2. QED BY <1>5, <1>6, <2>1 DEF AckRead
<1>11. taken' = <<job.bytes[1]>>
  <2>1. taken \in Seq(I2c!Bytes) /\ Len(taken) = 1 /\ taken[1] = job.bytes[1]
    <3>1. Len(taken) = 1 /\ taken \in Seq(I2c!Bytes)
      BY <1>1, <1>4, <1>6 DEF SlaveTypes, Answers
    <3>2. 1 \in 1..Len(taken)
      BY <3>1
    <3>3. QED BY <1>6, <3>1, <3>2 DEF Faithful
  <2>2. job.bytes[1] \in I2c!Bytes
    BY <1>1, <1>4, ByteSent
  <2>3. taken = <<job.bytes[1]>>
    BY <2>1, <2>2, OneByte
  <2>4. QED BY <1>8, <2>3
<1>12. SawStart'
  BY <1>3, <1>6, <1>8 DEF SawStart
<1>13. reply' \in Seq(Levels) /\ Len(reply') <= 1
  <2>1. (IF mode' = "passive" THEN 1 ELSE 0) \in Levels
    BY DEF Levels
  <2>2. QED BY <1>10, <2>1, OneBit
<1>14. Resting'
  BY <1>3, <1>4, <1>5, <1>7, <1>8, <1>10, <1>11, <1>12 DEF Resting
<1>15. byteNo' \in Nat \ {0} /\ bitNo' \in Nat
  BY <1>5
<1>16. QED BY <1>1, <1>3, <1>5, <1>8, <1>9, <1>13, <1>14, <1>15, InResting

\* A byte is sent; another follows, a STOP or nothing.
LEMMA SendByte ==
  ASSUME AdapterAssumption, BusInv, stepNo = 4, job.kind = "send", byteNo <= Size, bitNo = Bits + 1, I2c!Step,
         I2c!Return
  PROVE  BusInv'
<1>1. PinTypes /\ SlaveTypes /\ PlaceTypes /\ Asked /\ Within /\ Sends /\ bitNo \in 1..(Bits + 1)
      /\ Bits \in Nat /\ Bits > 1 /\ ~(bitNo <= Bits) /\ stepNo > 0 /\ bitNo > 0 /\ job.kind # "begin" /\ reply = <<>>
  BY BitsAre DEF BusInv, BusTypes, Running, Sends
<1>2. Sending
  BY <1>1 DEF BusInv, Running
<1>3. I2c!Do(I2c!ClockLo) /\ UNCHANGED <<job, legal, jobs>>
  BY <1>1, SendSteps
<1>4. Size = Len(job.bytes) /\ Size \in Nat /\ byteNo \in Nat /\ byteNo > 0 /\ legal = (IF job.stop THEN "begin" ELSE "write")
  <2>1. Len(job.bytes) \in Nat
    BY <1>1, LenProperties DEF PlaceTypes, Jobs
  <2>2. QED BY <1>1, <2>1 DEF Asked, Size, PlaceTypes
<1>5. /\ byteNo' = byteNo + 1 /\ bitNo' = 1
      /\ stepNo' = IF byteNo < Size \/ job.stop THEN 1 ELSE 0
      /\ reply' = IF stepNo' = 0 THEN bitsRead ELSE reply
  BY <1>1, Returns
<1>6. scl = 1 /\ sda = 1 /\ Answers /\ AckRead /\ Faithful /\ events = <<>>
  <2>1. Rose(Bits + 1)
    BY <1>1, <1>2 DEF Sending
  <2>2. QED BY <1>1, <1>2, <2>1 DEF Sending, Clock, Rose
<1>7. sda' = 1 /\ scl' = 0 /\ bitsRead' = bitsRead /\ I2c!Falls
  BY <1>3, <1>6, ClockFalls
<1>8. /\ Listening' /\ Faithful'
      /\ (mode' = "passive") <=> ~pull
      /\ mode' = "get" => Len(taken') = byteNo
      /\ SlaveTypes' /\ UNCHANGED <<taken, events>>
  BY <1>1, <1>3, <1>6, <1>7, ByteAnswered
<1>9. PinTypes'
  BY <1>1, <1>7 DEF PinTypes, Levels
<1>10. byteNo' \in Nat \ {0} /\ bitNo' \in Nat /\ bitNo' \in 1..(Bits + 1) /\ stepNo' # 4 /\ job'.kind = job.kind
  BY <1>1, <1>3, <1>4, <1>5
<1>11. CASE byteNo < Size
  <2>1. stepNo' = 1 /\ reply' = <<>> /\ byteNo' <= Size
    BY <1>1, <1>4, <1>5, <1>11
  <2>2. Fell(1)'
    <3>1. CASE mode' = "passive"
      <4>1. Deaf'
        BY <1>8, <1>10, <3>1 DEF Listening, Deaf, Mute
      <4>2. QED BY <1>1, <4>1 DEF Fell
    <3>2. CASE mode' # "passive"
      <4>1. mode' = "get" /\ inByte' = <<>> /\ ~pull' /\ Len(taken') = byteNo
        BY <1>8, <3>2 DEF Listening, Mute
      <4>2. Len(inByte') = 0
        BY <4>1, EmptySeq
      <4>3. byteNo' - 1 = byteNo
        BY <1>4, <1>5
      <4>4. Hears(0)'
        BY <1>1, <1>10, <4>1, <4>2, <4>3 DEF Hears
      <4>5. QED BY <1>1, <4>4 DEF Fell
    <3>3. QED BY <3>1, <3>2
  <2>3. Sending'
    BY <1>1, <1>5, <1>6, <1>7, <1>8, <1>10, <2>1, <2>2 DEF Sending, Clock
  <2>4. stepNo' \in 1..4
    BY <2>1
  <2>5. QED BY <1>1, <1>3, <1>8, <1>9, <1>10, <2>1, <2>3, <2>4, InSending
<1>12. CASE ~(byteNo < Size)
  <2>1. byteNo = Size /\ byteNo' = Size + 1
    BY <1>4, <1>5, <1>12
  <2>2. bitsRead \in {<<0>>, <<1>>} /\ (bitsRead = <<0>> => Len(taken') = Len(job.bytes))
    <3>1. CASE pull
      <4>1. Len(taken) = byteNo
        BY <1>6, <3>1 DEF Answers
      <4>2. bitsRead = <<0>>
        BY <1>6, <3>1 DEF AckRead
      <4>3. QED BY <1>4, <1>8, <2>1, <4>1, <4>2
    <3>2. CASE ~pull
      <4>1. bitsRead = <<1>>
        BY <1>6, <3>2 DEF AckRead
      <4>2. <<1>> # <<0>>
        OBVIOUS
      <4>3. QED BY <4>1, <4>2
    <3>3. QED BY <3>1, <3>2
  <2>3. CASE job.stop
    <3>1. stepNo' = 1 /\ reply' = <<>>
      BY <1>1, <1>5, <2>3
    <3>2. Outcome(bitsRead)'
      BY <1>3, <1>7, <1>8, <1>10, <2>2 DEF Outcome, Received
    <3>3. Stopping'
      BY <1>3, <1>5, <1>6, <1>7, <1>8, <3>1, <3>2 DEF Stopping, Clock, Listening, Mute
    <3>4. stepNo' \in 1..4
      BY <3>1
    <3>5. QED BY <1>1, <1>3, <1>5, <1>8, <1>9, <2>1, <2>3, <3>1, <3>3, <3>4, InStopping
  <2>4. CASE ~job.stop
    <3>1. stepNo' = 0 /\ reply' = bitsRead /\ bitsRead' = bitsRead
      BY <1>1, <1>5, <1>7, <1>12, <2>4
    <3>2. Outcome(reply)'
      BY <1>3, <1>8, <1>10, <2>2, <3>1 DEF Outcome, Received
    <3>3. Resting'
      BY <1>1, <1>3, <1>4, <1>6, <1>7, <1>8, <1>10, <2>4, <3>2 DEF Resting
    <3>4. reply' \in Seq(Levels) /\ Len(reply') <= 1
      <4>1. PICK b \in Levels : reply' = <<b>>
        BY <2>2, <3>1 DEF Levels
      <4>2. QED BY <4>1, OneBit
    <3>5. QED BY <1>1, <1>3, <1>8, <1>9, <1>10, <3>1, <3>3, <3>4, InResting
  <2>5. QED BY <2>3, <2>4
<1>13. QED BY <1>11, <1>12

\* Every step of a byte that is sent.
LEMMA SendStep ==
  ASSUME AdapterAssumption, BusInv, stepNo > 0, Sends, byteNo <= Size, bitNo \in 1..(Bits + 1), I2c!Step
  PROVE  BusInv'
<1>1. PlaceTypes /\ Asked /\ Within /\ Bits \in Nat /\ stepNo \in 1..4
  BY BitsAre DEF BusInv, BusTypes, PlaceTypes
<1>2. IF stepNo < (IF bitNo <= Bits /\ job.bytes[byteNo][bitNo] # 1 THEN 3 ELSE 4)
      THEN stepNo' = stepNo + 1 /\ UNCHANGED <<byteNo, bitNo, reply>>
      ELSE I2c!Return
  BY <1>1, SendSteps
<1>3. PICK k \in 1..(Bits + 1) : k = bitNo
  OBVIOUS
<1>4. CASE stepNo < (IF bitNo <= Bits /\ job.bytes[byteNo][bitNo] # 1 THEN 3 ELSE 4)
  BY <1>2, <1>3, <1>4, SendWithin
<1>5. CASE ~(stepNo < (IF bitNo <= Bits /\ job.bytes[byteNo][bitNo] # 1 THEN 3 ELSE 4)) /\ bitNo <= Bits
  <2>1. I2c!Return /\ stepNo \in {3, 4} /\ k \in 1..Bits
    BY <1>1, <1>2, <1>3, <1>5
  <2>2. QED BY <1>3, <2>1, SendNextBit
<1>6. CASE ~(stepNo < (IF bitNo <= Bits /\ job.bytes[byteNo][bitNo] # 1 THEN 3 ELSE 4)) /\ ~(bitNo <= Bits)
  <2>1. I2c!Return /\ stepNo = 4 /\ bitNo = Bits + 1
    BY <1>1, <1>2, <1>6
  <2>2. QED BY <2>1, SendAddress, SendByte DEF Sends
<1>7. QED BY <1>4, <1>5, <1>6
-----------------------------------------------------------------------------
(* Reading.                                                                *)

\* What a step of a byte read does.
LEMMA ReadSteps ==
  ASSUME AdapterAssumption, PlaceTypes, job.kind = "read", byteNo <= Size, bitNo \in 1..(Bits + 1),
         stepNo > 0, I2c!Step
  PROVE  /\ stepNo = 1 => I2c!Do([op |-> "data", to |-> IF bitNo <= Bits \/ ~Acks THEN 1 ELSE 0])
         /\ stepNo = 2 => I2c!Do(I2c!ClockHi)
         /\ stepNo = 3 => I2c!Do(IF bitNo <= Bits THEN I2c!Read ELSE I2c!ClockLo)
         /\ (stepNo = 4 /\ bitNo <= Bits) => I2c!Do(I2c!ClockLo)
         /\ (stepNo = 4 /\ ~(bitNo <= Bits) /\ ~Acks) => I2c!Do([op |-> "data", to |-> 0])
         /\ IF stepNo < (IF ~(bitNo <= Bits) /\ Acks THEN 3 ELSE 4)
            THEN stepNo' = stepNo + 1 /\ UNCHANGED <<byteNo, bitNo, reply>>
            ELSE I2c!Return
         /\ UNCHANGED <<job, legal, jobs>>
<1>1. Bits \in Nat /\ byteNo \in 1..Size /\ stepNo \in 1..4 /\ (bitNo = Bits + 1 <=> ~(bitNo <= Bits))
  <2>1. job.length \in Nat /\ byteNo \in Nat /\ byteNo > 0 /\ Size = job.length
    BY DEF PlaceTypes, Jobs, Size, Sends
  <2>2. QED BY <2>1, BitsAre DEF PlaceTypes
<1>2. I2c!Do(I2c!Routine(byteNo, bitNo)[stepNo]) /\ UNCHANGED <<job, legal, jobs>>
  BY DEF I2c!Step
<1>3. IF stepNo < Len(I2c!Routine(byteNo, bitNo))
      THEN stepNo' = stepNo + 1 /\ UNCHANGED <<byteNo, bitNo, reply>>
      ELSE I2c!Return
  BY DEF I2c!Step
<1>4. Len(I2c!Routine(byteNo, bitNo)) = IF ~(bitNo <= Bits) /\ Acks THEN 3 ELSE 4
  BY <1>1, ReadLength DEF Acks
<1>5. CASE bitNo <= Bits
  <2>1. I2c!Routine(byteNo, bitNo) = I2c!I2C_ReadBit
    BY <1>1, <1>5, ReadRoutine
  <2>2. QED BY <1>1, <1>2, <1>3, <1>4, <1>5, <2>1, ReadsBit
<1>6. CASE ~(bitNo <= Bits)
  <2> DEFINE bit == IF bitNo <= Bits \/ ~Acks THEN 1 ELSE 0
  <2>1. bit \in Levels /\ (bit = 1 <=> ~Acks) /\ bit = IF ~job.nack \/ byteNo < job.length THEN 0 ELSE 1
    BY <1>6 DEF Levels, Acks
  <2>2. I2c!Routine(byteNo, bitNo) = I2c!I2C_WriteBit(bit)
    BY <1>1, <1>6, <2>1, ReadRoutine
  <2> HIDE DEF bit
  <2>3. /\ stepNo = 1 => I2c!I2C_WriteBit(bit)[stepNo] = [op |-> "data", to |-> bit]
        /\ stepNo = 2 => I2c!I2C_WriteBit(bit)[stepNo] = I2c!ClockHi
        /\ stepNo = 3 => I2c!I2C_WriteBit(bit)[stepNo] = I2c!ClockLo
        /\ (stepNo = 4 /\ bit = 1) => I2c!I2C_WriteBit(bit)[stepNo] = [op |-> "data", to |-> 0]
    BY <1>1, <2>1, WritesBit
  <2>4. /\ stepNo = 1 => I2c!Do([op |-> "data", to |-> bit])
        /\ stepNo = 2 => I2c!Do(I2c!ClockHi)
        /\ stepNo = 3 => I2c!Do(I2c!ClockLo)
        /\ (stepNo = 4 /\ ~Acks) => I2c!Do([op |-> "data", to |-> 0])
    BY <1>2, <2>1, <2>2, <2>3
  <2>5. QED BY <1>2, <1>3, <1>4, <1>6, <2>4 DEF bit
<1>7. QED BY <1>5, <1>6

\* What is said of a reading where the slave does not change.
LEMMA SameReading ==
  ASSUME UNCHANGED I2c!slave, UNCHANGED <<byteNo, job, reply, bitsRead>>
  PROVE  /\ NoneGiven' <=> NoneGiven
         /\ Gave' <=> Gave
         /\ \A k : Putting(k)' <=> Putting(k)
         /\ Acks' <=> Acks
         /\ SlaveTypes' <=> SlaveTypes
         /\ UNCHANGED <<mode, outByte, given, events>>
  BY DEF I2c!slave, NoneGiven, Gave, Putting, Acks, SlaveTypes, Mute

\* A step within a bit that is read.
LEMMA ReadWithin ==
  ASSUME AdapterAssumption, BusInv, stepNo > 0, job.kind = "read", byteNo <= Size, NEW k \in 1..Bits, k = bitNo,
         I2c!Step, stepNo < 4, stepNo' = stepNo + 1, UNCHANGED <<byteNo, bitNo, reply>>
  PROVE  BusInv'
<1>1. PinTypes /\ SlaveTypes /\ PlaceTypes /\ Asked /\ Within /\ Reading
  BY DEF BusInv, BusTypes, Running
<1>2. Bits \in Nat /\ Bits > 1 /\ bitNo \in Nat /\ bitNo > 0 /\ bitNo <= Bits /\ ~(bitNo > Bits)
      /\ bitNo \in 1..(Bits + 1) /\ stepNo \in 1..3 /\ k \in Nat /\ stepNo' # 1
  BY <1>1, BitsAre DEF PlaceTypes
<1>3. /\ stepNo = 1 => I2c!Do([op |-> "data", to |-> 1])
      /\ stepNo = 2 => I2c!Do(I2c!ClockHi)
      /\ stepNo = 3 => I2c!Do(I2c!Read)
      /\ UNCHANGED <<job, legal, jobs>>
  BY <1>1, <1>2, ReadSteps
<1>4. /\ NoneGiven \/ Gives
      /\ Len(reply) = byteNo - 1 /\ events = <<>>
      /\ k > 1 => Len(bitsRead) = k - 1
  BY <1>1, <1>2 DEF Reading
<1>5. Gives => Putting(k) /\ given = reply /\ \A j \in 1..(k - 1) : bitsRead[j] = outByte[j]
  BY <1>2 DEF Gives
<1>6. reply' \in Seq(Seq(Levels)) /\ byteNo' \in Nat \ {0} /\ byteNo' <= Size /\ bitNo' \in 1..(Bits + 1) /\ stepNo' \in 1..4
  BY <1>1, <1>2 DEF PlaceTypes
<1>7. CASE stepNo \in {1, 2}
  <2>1. scl = 0 /\ (stepNo = 2 => sda = 1)
    BY <1>1, <1>2, <1>7 DEF Reading, Clock
  <2>2. sda' = 1 /\ scl' = (IF stepNo = 1 THEN 0 ELSE 1) /\ bitsRead' = bitsRead /\ UNCHANGED I2c!slave
    <3>1. CASE stepNo = 1
      BY <1>3, <2>1, <3>1, SetsData DEF Levels
    <3>2. CASE stepNo = 2
      <4>1. sda' = sda /\ scl' = 1 /\ bitsRead' = bitsRead /\ I2c!Rises(I2c!Line(sda, pull))
        BY <1>3, <2>1, <3>2, ClockRises
      <4>2. mode \notin {"address", "get", "masterAck"}
        BY <1>4, <1>5 DEF NoneGiven, Mute, Putting
      <4>3. UNCHANGED I2c!slave
        BY <4>1, <4>2, IgnoresRise
      <4>4. QED BY <2>1, <3>2, <4>1, <4>3
    <3>3. QED BY <1>7, <3>1, <3>2
  <2>3. /\ NoneGiven' <=> NoneGiven
        /\ Putting(k)' <=> Putting(k)
        /\ SlaveTypes' /\ UNCHANGED <<mode, outByte, given, events>>
    BY <1>1, <1>3, <2>2, SameReading
  <2>4. Gives => Gives'
    BY <1>2, <1>5, <1>7, <2>2, <2>3 DEF Gives
  <2>5. PinTypes'
    BY <1>1, <2>2 DEF PinTypes, Levels
  <2>6. Reading'
    BY <1>2, <1>4, <1>7, <2>2, <2>3, <2>4 DEF Reading, Clock
  <2>7. QED BY <1>1, <1>3, <1>6, <2>3, <2>5, <2>6, InReading
<1>8. CASE stepNo = 3
  <2> DEFINE before == IF bitNo \in 2..Bits THEN bitsRead ELSE <<>>
             bit == I2c!Line(sda, pull)
  <2>1. scl = 1 /\ sda = 1
    BY <1>1, <1>2, <1>8 DEF Reading, Clock
  <2>2. sda' = 1 /\ scl' = 1 /\ UNCHANGED I2c!slave /\ bitsRead' = Append(before, bit)
    BY <1>1, <1>3, <1>8, <2>1, ReadsLine DEF PinTypes
  <2>3. before \in Seq(Levels) /\ Len(before) = k - 1 /\ bit \in Levels
        /\ (k > 1 => before = bitsRead)
    <3>1. CASE k = 1
      <4>1. before = <<>> /\ Len(<<>>) = 0
        BY <1>2, <3>1
      <4>2. QED BY <3>1, <4>1 DEF I2c!Line, Levels
    <3>2. CASE k # 1
      <4>1. before = bitsRead
        BY <1>2, <3>2
      <4>2. QED BY <1>1, <1>2, <1>4, <3>2, <4>1 DEF I2c!Line, Levels, PinTypes
    <3>3. QED BY <3>1, <3>2
  <2> HIDE DEF before
  <2>4. /\ bitsRead' \in Seq(Levels) /\ Len(bitsRead') = k
        /\ \A j \in 1..(k - 1) : bitsRead'[j] = before[j]
        /\ bitsRead'[k] = bit
    <3>1. /\ Append(before, bit) \in Seq(Levels) /\ Len(Append(before, bit)) = Len(before) + 1
          /\ \A j \in 1..Len(before) : Append(before, bit)[j] = before[j]
          /\ Append(before, bit)[Len(before) + 1] = bit
      BY <2>3, Extended
    <3>2. QED BY <1>2, <2>2, <2>3, <3>1
  <2>5. UNCHANGED <<pull, mode, inByte, outByte, taken, given, events>>
    BY <2>2 DEF I2c!slave
  <2>6. SlaveTypes'
    BY <1>1, <2>5 DEF SlaveTypes
  <2>7. Gives => Gives'
    <3>1. ASSUME Gives PROVE Gives'
      <4>1. Putting(k)'
        BY <1>5, <2>5, <3>1 DEF Putting
      <4>2. bit = outByte[k]
        <5>1. outByte[k] \in Levels /\ pull = (outByte[k] = 0)
          BY <1>5, <3>1, BitOf DEF Putting
        <5>2. QED BY <2>1, <5>1 DEF I2c!Line, Levels
      <4>3. \A j \in 1..k : bitsRead'[j] = outByte'[j]
        <5>1. \A j \in 1..k : j = k \/ (j \in 1..(k - 1) /\ k > 1)
          BY <1>2
        <5>2. QED BY <1>5, <2>3, <2>4, <2>5, <3>1, <4>2, <5>1
      <4>4. stepNo' = 4 /\ bitNo' = k /\ given' = reply'
        BY <1>5, <1>8, <2>5, <3>1
      <4>5. QED BY <4>1, <4>3, <4>4 DEF Gives
    <3>2. QED BY <3>1
  <2>8. NoneGiven => NoneGiven'
    BY <2>5 DEF NoneGiven, Mute
  <2>9. PinTypes'
    BY <2>2, <2>4 DEF PinTypes, Levels
  <2>10. Reading'
    BY <1>2, <1>4, <1>8, <2>2, <2>4, <2>5, <2>7, <2>8 DEF Reading, Clock
  <2>11. QED BY <1>1, <1>3, <1>6, <2>6, <2>9, <2>10, InReading
<1>9. QED BY <1>2, <1>7, <1>8

\* The clock falls after a bit that is read.
LEMMA ReadNextBit ==
  ASSUME AdapterAssumption, BusInv, stepNo = 4, job.kind = "read", byteNo <= Size, NEW k \in 1..Bits, k = bitNo,
         I2c!Step, I2c!Return
  PROVE  BusInv'
<1>1. PinTypes /\ SlaveTypes /\ PlaceTypes /\ Asked /\ Within /\ Reading
  BY DEF BusInv, BusTypes, Running
<1>2. Bits \in Nat /\ Bits > 1 /\ bitNo \in Nat /\ bitNo > 0 /\ bitNo <= Bits /\ ~(bitNo > Bits)
      /\ bitNo \in 1..(Bits + 1) /\ k \in Nat /\ stepNo > 0 /\ k + 1 \in 1..(Bits + 1) /\ k + 1 > 1
  BY BitsAre
<1>3. I2c!Do(I2c!ClockLo) /\ UNCHANGED <<job, legal, jobs>>
  BY <1>1, <1>2, ReadSteps
<1>4. byteNo' = byteNo /\ bitNo' = k + 1 /\ stepNo' = 1 /\ reply' = reply
  BY <1>1, <1>2, Returns
<1>5. /\ scl = 1 /\ sda = 1
      /\ NoneGiven \/ Gives
      /\ Len(reply) = byteNo - 1 /\ events = <<>> /\ Len(bitsRead) = k
  BY <1>1, <1>2 DEF Reading, Clock
<1>6. Gives => Putting(k) /\ given = reply /\ \A j \in 1..k : bitsRead[j] = outByte[j]
  BY <1>2 DEF Gives
<1>7. sda' = sda /\ scl' = 0 /\ bitsRead' = bitsRead /\ I2c!Falls
  BY <1>3, <1>5, ClockFalls
<1>8. PinTypes'
  BY <1>1, <1>7 DEF PinTypes, Levels
<1>9. byteNo' \in Nat \ {0} /\ byteNo' <= Size /\ bitNo' \in 1..(Bits + 1) /\ stepNo' \in 1..4 /\ reply' \in Seq(Seq(Levels))
  BY <1>1, <1>2, <1>4 DEF PlaceTypes
<1>10. (NoneGiven => mode = "passive") /\ (Gives => mode = "put")
  BY <1>6 DEF NoneGiven, Mute, Putting
<1>11. CASE k < Bits
  <2>1. /\ IF mode = "passive" THEN NoneGiven' ELSE Putting(k + 1)' /\ outByte' = outByte
        /\ SlaveTypes' /\ UNCHANGED <<taken, events, given>>
    BY <1>1, <1>5, <1>6, <1>7, <1>11, GivesNext
  <2>2. NoneGiven' \/ Gives'
    <3>1. CASE NoneGiven
      BY <1>10, <2>1, <3>1
    <3>2. CASE Gives
      <4>1. Putting(k + 1)' /\ outByte' = outByte
        BY <1>10, <2>1, <3>2
      <4>2. bitNo' = k + 1 /\ stepNo' # 4 /\ bitNo' - 1 = k /\ given' = reply'
        BY <1>2, <1>4, <1>6, <2>1, <3>2
      <4>3. \A j \in 1..(bitNo' - 1) : bitsRead'[j] = outByte'[j]
        BY <1>6, <1>7, <3>2, <4>1, <4>2
      <4>4. QED BY <4>1, <4>2, <4>3 DEF Gives
    <3>3. QED BY <1>5, <3>1, <3>2
  <2>3. Reading'
    <3>1. bitNo' <= Bits /\ ~(bitNo' > Bits) /\ Len(bitsRead') = bitNo' - 1 /\ stepNo' = 1
      BY <1>2, <1>4, <1>5, <1>7, <1>11
    <3>2. QED BY <1>4, <1>5, <1>7, <2>1, <2>2, <3>1 DEF Reading, Clock
  <2>4. QED BY <1>1, <1>3, <1>8, <1>9, <2>1, <2>3, InReading
<1>12. CASE k = Bits
  <2>1. /\ IF mode = "passive" THEN NoneGiven' ELSE mode' = "masterAck" /\ ~pull' /\ given' = Append(given, outByte)
        /\ SlaveTypes' /\ UNCHANGED <<taken, events>>
    BY <1>1, <1>5, <1>6, <1>7, <1>12, GivesLast
  <2>2. NoneGiven' \/ (Gave' /\ mode' = "masterAck")
    <3>1. CASE NoneGiven
      BY <1>10, <2>1, <3>1
    <3>2. CASE Gives
      <4>1. mode' = "masterAck" /\ ~pull' /\ given' = Append(given, outByte)
        BY <1>10, <2>1, <3>2
      <4>2. bitsRead = outByte
        <5>1. outByte \in I2c!Bytes /\ bitsRead \in Seq(Levels)
          BY <1>1, <1>6, <3>2 DEF Putting, PinTypes
        <5>2. QED BY <1>2, <1>5, <1>6, <1>12, <3>2, <5>1, AllBits
      <4>3. given' = Append(reply', bitsRead')
        BY <1>4, <1>6, <1>7, <3>2, <4>1, <4>2
      <4>4. QED BY <4>1, <4>3 DEF Gave
    <3>3. QED BY <1>5, <3>1, <3>2
  <2>3. Reading'
    <3>1. ~(bitNo' <= Bits) /\ bitNo' > Bits /\ Len(bitsRead') = Bits /\ stepNo' = 1
      BY <1>2, <1>4, <1>5, <1>7, <1>12
    <3>2. QED BY <1>4, <1>5, <1>7, <2>1, <2>2, <3>1 DEF Reading, Clock
  <2>4. QED BY <1>1, <1>3, <1>8, <1>9, <2>1, <2>3, InReading
<1>13. QED BY <1>2, <1>11, <1>12

\* A step within the acknowledgement of a byte read.
LEMMA AckWithin ==
  ASSUME AdapterAssumption, BusInv, stepNo > 0, job.kind = "read", byteNo <= Size, bitNo = Bits + 1,
         I2c!Step, stepNo < 4, stepNo = 3 => ~Acks, stepNo' = stepNo + 1, UNCHANGED <<byteNo, bitNo, reply>>
  PROVE  BusInv'
<1>1. PinTypes /\ SlaveTypes /\ PlaceTypes /\ Asked /\ Within /\ Reading
  BY DEF BusInv, BusTypes, Running
<1>2. Bits \in Nat /\ Bits > 1 /\ bitNo \in Nat /\ bitNo > 0 /\ ~(bitNo <= Bits) /\ bitNo > Bits
      /\ bitNo \in 1..(Bits + 1) /\ stepNo \in 1..3 /\ stepNo' # 1
  BY <1>1, BitsAre DEF PlaceTypes
<1>3. /\ stepNo = 1 => I2c!Do([op |-> "data", to |-> IF bitNo <= Bits \/ ~Acks THEN 1 ELSE 0])
      /\ stepNo = 2 => I2c!Do(I2c!ClockHi)
      /\ stepNo = 3 => I2c!Do(IF bitNo <= Bits THEN I2c!Read ELSE I2c!ClockLo)
      /\ UNCHANGED <<job, legal, jobs>>
  BY <1>1, <1>2, ReadSteps
<1>4. /\ NoneGiven \/ (Gave /\ mode = IF stepNo < 3 THEN "masterAck" ELSE IF Acks THEN "next" ELSE "passive")
      /\ Len(reply) = byteNo - 1 /\ events = <<>> /\ Len(bitsRead) = Bits
  BY <1>1, <1>2 DEF Reading
<1>5. reply' \in Seq(Seq(Levels)) /\ byteNo' \in Nat \ {0} /\ byteNo' <= Size /\ bitNo' \in 1..(Bits + 1) /\ stepNo' \in 1..4
  BY <1>1, <1>2 DEF PlaceTypes
<1>6. (Acks' <=> Acks) /\ (NoneGiven => ~pull /\ mode = "passive") /\ (Gave => ~pull)
  BY <1>3 DEF Acks, NoneGiven, Gave, Mute
<1>7. CASE stepNo = 1
  <2>1. scl = 0 /\ (IF bitNo <= Bits \/ ~Acks THEN 1 ELSE 0) = (IF Acks THEN 0 ELSE 1)
        /\ (IF bitNo <= Bits \/ ~Acks THEN 1 ELSE 0) \in Levels
    BY <1>1, <1>2, <1>7 DEF Reading, Clock, Levels
  <2>2. sda' = (IF Acks THEN 0 ELSE 1) /\ scl' = 0 /\ bitsRead' = bitsRead /\ UNCHANGED I2c!slave
    BY <1>3, <1>7, <2>1, SetsData
  <2>3. (NoneGiven' <=> NoneGiven) /\ (Gave' <=> Gave) /\ SlaveTypes' /\ UNCHANGED <<mode, events>>
    BY <1>1, <1>3, <2>2, SameReading
  <2>4. PinTypes'
    BY <1>1, <2>2 DEF PinTypes, Levels
  <2>5. Reading'
    BY <1>2, <1>4, <1>6, <1>7, <2>2, <2>3 DEF Reading, Clock
  <2>6. QED BY <1>1, <1>3, <1>5, <2>3, <2>4, <2>5, InReading
<1>8. CASE stepNo = 2
  <2>1. scl = 0 /\ sda = (IF Acks THEN 0 ELSE 1)
    BY <1>1, <1>2, <1>8 DEF Reading, Clock
  <2>2. sda' = sda /\ scl' = 1 /\ bitsRead' = bitsRead /\ I2c!Rises(I2c!Line(sda, pull))
    BY <1>3, <1>8, <2>1, ClockRises
  <2>3. I2c!Line(sda, pull) = sda /\ sda \in Levels
    BY <1>4, <1>6, <2>1 DEF I2c!Line, Levels
  <2>4. /\ NoneGiven' \/ (Gave' /\ mode' = IF Acks THEN "next" ELSE "passive")
        /\ SlaveTypes' /\ events' = events
    <3>1. CASE NoneGiven
      <4>1. UNCHANGED I2c!slave
        BY <1>6, <2>2, <3>1, IgnoresRise
      <4>2. QED BY <1>1, <1>3, <2>2, <3>1, <4>1, SameReading
    <3>2. CASE Gave /\ mode = "masterAck"
      <4>1. /\ mode' = IF sda = 0 THEN "next" ELSE "passive"
            /\ SlaveTypes' /\ UNCHANGED <<pull, inByte, outByte, taken, events, given>>
        <5>1. I2c!Rises(sda)
          BY <2>2, <2>3
        <5>2. QED BY <1>1, <2>3, <3>2, <5>1, SeesAck
      <4>2. QED BY <2>1, <2>2, <3>2, <4>1 DEF Gave
    <3>3. QED BY <1>4, <1>8, <3>1, <3>2
  <2>5. PinTypes'
    BY <1>1, <2>2 DEF PinTypes, Levels
  <2>6. Reading'
    BY <1>2, <1>4, <1>6, <1>8, <2>1, <2>2, <2>4 DEF Reading, Clock
  <2>7. QED BY <1>1, <1>3, <1>5, <2>4, <2>5, <2>6, InReading
<1>9. CASE stepNo = 3
  <2>1. scl = 1 /\ ~Acks
    BY <1>1, <1>2, <1>9 DEF Reading, Clock
  <2>2. sda' = sda /\ scl' = 0 /\ bitsRead' = bitsRead /\ I2c!Falls
    BY <1>2, <1>3, <1>9, <2>1, ClockFalls
  <2>3. mode = "passive"
    BY <1>4, <1>6, <1>9, <2>1
  <2>4. Mute' /\ SlaveTypes' /\ UNCHANGED <<taken, events, given>>
    BY <1>1, <2>2, <2>3, AckOver
  <2>5. NoneGiven' \/ (Gave' /\ mode' = "passive")
    BY <1>4, <2>2, <2>4 DEF NoneGiven, Gave, Mute
  <2>6. PinTypes'
    BY <1>1, <2>2 DEF PinTypes, Levels
  <2>7. Reading'
    BY <1>2, <1>4, <1>6, <1>9, <2>1, <2>2, <2>4, <2>5 DEF Reading, Clock
  <2>8. QED BY <1>1, <1>3, <1>5, <2>4, <2>6, <2>7, InReading
<1>10. QED BY <1>2, <1>7, <1>8, <1>9

\* A byte is read; another follows, a STOP or nothing.
LEMMA ReadByte ==
  ASSUME AdapterAssumption, BusInv, stepNo > 0, job.kind = "read", byteNo <= Size, bitNo = Bits + 1,
         I2c!Step, I2c!Return, IF Acks THEN stepNo = 3 ELSE stepNo = 4
  PROVE  BusInv'
<1>1. PinTypes /\ SlaveTypes /\ PlaceTypes /\ Asked /\ Within /\ Reading
  BY DEF BusInv, BusTypes, Running
<1>2. Bits \in Nat /\ Bits > 1 /\ bitNo \in Nat /\ bitNo > 0 /\ ~(bitNo <= Bits) /\ bitNo > Bits /\ bitNo \in 1..(Bits + 1)
      /\ Size = job.length /\ Size \in Nat /\ byteNo \in Nat /\ byteNo > 0
      /\ (job.stop => job.nack) /\ legal = (IF job.nack THEN "begin" ELSE "read")
  BY <1>1, BitsAre DEF PlaceTypes, Size, Sends, Asked, Jobs
<1>3. /\ stepNo = 3 => I2c!Do(I2c!ClockLo)
      /\ stepNo = 4 => I2c!Do([op |-> "data", to |-> 0])
      /\ UNCHANGED <<job, legal, jobs>>
  BY <1>1, <1>2, ReadSteps
<1>4. /\ NoneGiven \/ (Gave /\ mode = IF Acks THEN "next" ELSE "passive")
      /\ Len(reply) = byteNo - 1 /\ events = <<>> /\ Len(bitsRead) = Bits
  BY <1>1, <1>2 DEF Reading
<1>5. /\ byteNo' = byteNo + 1 /\ bitNo' = 1
      /\ stepNo' = IF byteNo < Size \/ job.stop THEN 1 ELSE 0
      /\ reply' = Append(reply, bitsRead)
  BY <1>1, <1>2, Returns
<1>6. reply' \in Seq(Seq(Levels)) /\ Len(reply') = byteNo
  <2>1. reply \in Seq(Seq(Levels)) /\ bitsRead \in Seq(Levels)
    BY <1>1 DEF PlaceTypes, PinTypes
  <2>2. Append(reply, bitsRead) \in Seq(Seq(Levels)) /\ Len(Append(reply, bitsRead)) = Len(reply) + 1
    BY <2>1, Extended
  <2>3. QED BY <1>2, <1>4, <1>5, <2>2
<1>7. /\ scl' = 0 /\ bitsRead' = bitsRead /\ PinTypes' /\ SlaveTypes' /\ events' = <<>>
      /\ (Mute' /\ given' = <<>>) \/ (given' = reply' /\ IF Acks THEN Putting(1)' ELSE Mute')
  <2>1. CASE Acks
    <3>1. scl = 1
      BY <1>1, <1>2, <2>1 DEF Reading, Clock
    <3>2. sda' = sda /\ scl' = 0 /\ bitsRead' = bitsRead /\ I2c!Falls
      BY <1>3, <2>1, <3>1, ClockFalls
    <3>3. mode \in {"next", "passive"} /\ (NoneGiven => mode = "passive")
      BY <1>4, <2>1 DEF NoneGiven, Mute
    <3>4. /\ IF mode = "passive" THEN Mute' ELSE Putting(1)'
          /\ SlaveTypes' /\ UNCHANGED <<taken, events, given>>
      BY <1>1, <3>2, <3>3, AckOver
    <3>5. PinTypes'
      BY <1>1, <3>2 DEF PinTypes, Levels
    <3>6. CASE NoneGiven
      BY <1>4, <3>2, <3>3, <3>4, <3>5, <3>6 DEF NoneGiven
    <3>7. CASE Gave /\ mode = "next"
      <4>1. given' = reply' /\ Putting(1)'
        BY <1>5, <3>4, <3>7 DEF Gave
      <4>2. QED BY <1>4, <2>1, <3>2, <3>4, <3>5, <4>1
    <3>8. QED BY <1>4, <2>1, <3>6, <3>7
  <2>2. CASE ~Acks
    <3>1. scl = 0 /\ 0 \in Levels
      BY <1>1, <1>2, <2>2 DEF Reading, Clock, Levels
    <3>2. sda' = 0 /\ scl' = 0 /\ bitsRead' = bitsRead /\ UNCHANGED I2c!slave
      BY <1>3, <2>2, <3>1, SetsData
    <3>3. UNCHANGED <<pull, mode, inByte, outByte, taken, given, events>>
      BY <3>2 DEF I2c!slave
    <3>4. SlaveTypes' /\ PinTypes'
      BY <1>1, <3>2, <3>3 DEF SlaveTypes, PinTypes, Levels
    <3>5. Mute' /\ (given' = <<>> \/ given' = reply')
      BY <1>4, <1>5, <2>2, <3>3 DEF NoneGiven, Gave, Mute
    <3>6. QED BY <1>4, <2>2, <3>2, <3>3, <3>4, <3>5
  <2>3. QED BY <2>1, <2>2
<1>8. byteNo' \in Nat \ {0} /\ bitNo' \in Nat /\ bitNo' \in 1..(Bits + 1) /\ job'.kind = job.kind
  BY <1>2, <1>3, <1>5
<1>9. CASE byteNo < Size
  <2>1. stepNo' = 1 /\ stepNo' \in 1..4 /\ byteNo' <= Size /\ bitNo' <= Bits /\ ~(bitNo' > Bits) /\ ~(bitNo' > 1)
    BY <1>2, <1>5, <1>9
  <2>2. NoneGiven' \/ Gives'
    <3>1. CASE Mute' /\ given' = <<>>
      BY <3>1 DEF NoneGiven
    <3>2. CASE given' = reply' /\ IF Acks THEN Putting(1)' ELSE Mute'
      <4>1. Acks
        BY <1>2, <1>9 DEF Acks
      <4>2. Putting(1)' /\ bitNo' = 1 /\ stepNo' # 4 /\ given' = reply'
        BY <1>5, <2>1, <3>2, <4>1
      <4>3. \A j \in 1..(bitNo' - 1) : bitsRead'[j] = outByte'[j]
        BY <4>2
      <4>4. QED BY <4>2, <4>3 DEF Gives
    <3>3. QED BY <1>7, <3>1, <3>2
  <2>3. Len(reply') = byteNo' - 1
    BY <1>2, <1>5, <1>6
  <2>4. Reading'
    BY <1>7, <2>1, <2>2, <2>3 DEF Reading, Clock
  <2>5. QED BY <1>1, <1>3, <1>6, <1>7, <1>8, <2>1, <2>4, InReading
<1>10. CASE ~(byteNo < Size)
  <2>1. byteNo = Size /\ byteNo' = Size + 1 /\ (Acks <=> ~job.nack) /\ Len(reply') = job.length
    BY <1>2, <1>5, <1>6, <1>10 DEF Acks
  <2>2. given' # <<>> => reply' = given'
    BY <1>7
  <2>3. CASE job.stop
    <3>1. stepNo' = 1 /\ stepNo' \in 1..4 /\ ~Acks
      BY <1>2, <1>5, <2>1, <2>3
    <3>2. Mute'
      BY <1>7, <3>1
    <3>3. Outcome(bitsRead)'
      BY <1>3, <1>8, <2>1, <2>2 DEF Outcome, ReadAll
    <3>4. Stopping'
      BY <1>7, <3>1, <3>2, <3>3 DEF Stopping, Clock, Mute
    <3>5. QED BY <1>1, <1>3, <1>5, <1>6, <1>7, <1>8, <2>1, <2>3, <3>1, <3>4, InStopping
  <2>4. CASE ~job.stop
    <3>1. stepNo' = 0
      BY <1>5, <1>10, <2>4
    <3>2. Outcome(reply)'
      BY <1>3, <1>8, <2>1, <2>2 DEF Outcome, ReadAll
    <3>3. IF job.nack THEN Mute' ELSE Talking'
      BY <1>7, <2>1 DEF Talking
    <3>4. legal' = IF job.nack THEN "begin" ELSE "read"
      BY <1>2, <1>3
    <3>5. job'.kind = "read" /\ ~job'.stop
      BY <1>3, <2>4
    <3>6. Resting'
      BY <1>7, <3>2, <3>3, <3>4, <3>5 DEF Resting, Open
    <3>7. QED BY <1>1, <1>3, <1>6, <1>7, <1>8, <3>1, <3>6, InResting
  <2>5. QED BY <2>3, <2>4
<1>11. QED BY <1>9, <1>10

\* Every step of a byte that is read.
LEMMA ReadStep ==
  ASSUME AdapterAssumption, BusInv, stepNo > 0, job.kind = "read", byteNo <= Size, bitNo \in 1..(Bits + 1), I2c!Step
  PROVE  BusInv'
<1>1. PlaceTypes /\ Bits \in Nat /\ stepNo \in 1..4 /\ Reading
  BY BitsAre DEF BusInv, BusTypes, PlaceTypes, Running
<1>2. IF stepNo < (IF ~(bitNo <= Bits) /\ Acks THEN 3 ELSE 4)
      THEN stepNo' = stepNo + 1 /\ UNCHANGED <<byteNo, bitNo, reply>>
      ELSE I2c!Return
  BY <1>1, ReadSteps
<1>3. PICK k \in 1..(Bits + 1) : k = bitNo
  OBVIOUS
<1>4. CASE bitNo <= Bits
  <2>1. k \in 1..Bits
    BY <1>1, <1>3, <1>4
  <2>2. CASE stepNo < 4
    BY <1>2, <1>3, <1>4, <2>1, <2>2, ReadWithin
  <2>3. CASE stepNo = 4
    BY <1>2, <1>3, <1>4, <2>1, <2>3, ReadNextBit
  <2>4. QED BY <1>1, <2>2, <2>3
<1>5. CASE ~(bitNo <= Bits)
  <2>1. bitNo = Bits + 1 /\ bitNo > Bits
    BY <1>1, <1>5
  <2>2. stepNo = 4 => ~Acks
    BY <1>1, <2>1 DEF Reading
  <2>3. CASE stepNo < (IF Acks THEN 3 ELSE 4)
    <3>1. stepNo < 4 /\ (stepNo = 3 => ~Acks)
      BY <1>1, <2>3
    <3>2. QED BY <1>2, <1>5, <2>1, <2>3, <3>1, AckWithin
  <2>4. CASE ~(stepNo < (IF Acks THEN 3 ELSE 4))
    <3>1. IF Acks THEN stepNo = 3 ELSE stepNo = 4
      BY <1>1, <2>2, <2>4
    <3>2. QED BY <1>2, <1>5, <2>1, <2>4, <3>1, ReadByte
  <2>5. QED BY <2>3, <2>4
<1>6. QED BY <1>4, <1>5
-----------------------------------------------------------------------------
(* The STOP, the START and the initialisation.                             *)

\* What is appended to a list of none or of one.
LEMMA AppendedTo ==
  ASSUME NEW a, NEW b
  PROVE  Append(<<>>, a) = <<a>> /\ Append(<<b>>, a) = <<b, a>>
<1> DEFINE S == {a, b}
<1>1. <<>> \in Seq(S) /\ <<b>> \in Seq(S) /\ <<a>> \in Seq(S) /\ <<b, a>> \in Seq(S) /\ a \in S
  OBVIOUS
<1>2. Len(<<>>) = 0 /\ Len(<<b>>) = 1 /\ Len(<<a>>) = 1 /\ Len(<<b, a>>) = 2
  OBVIOUS
<1>3. <<a>>[1] = a /\ <<b>>[1] = b /\ <<b, a>>[1] = b /\ <<b, a>>[2] = a
  OBVIOUS
<1>4. /\ Append(<<>>, a) \in Seq(S) /\ Len(Append(<<>>, a)) = 1 /\ Append(<<>>, a)[1] = a
      /\ Append(<<b>>, a) \in Seq(S) /\ Len(Append(<<b>>, a)) = 2
      /\ Append(<<b>>, a)[1] = b /\ Append(<<b>>, a)[2] = a
  <2>1. /\ Append(<<>>, a) \in Seq(S) /\ Len(Append(<<>>, a)) = Len(<<>>) + 1
        /\ Append(<<>>, a)[Len(<<>>) + 1] = a
    BY <1>1, Extended
  <2>2. /\ Append(<<b>>, a) \in Seq(S) /\ Len(Append(<<b>>, a)) = Len(<<b>>) + 1
        /\ \A j \in 1..Len(<<b>>) : Append(<<b>>, a)[j] = <<b>>[j]
        /\ Append(<<b>>, a)[Len(<<b>>) + 1] = a
    BY <1>1, Extended
  <2>3. 1 \in 1..Len(<<b>>) /\ 0 + 1 = 1 /\ 1 + 1 = 2
    BY <1>2
  <2>4. QED BY <1>2, <1>3, <2>1, <2>2, <2>3
<1> HIDE DEF S
<1>5. Append(<<>>, a) = <<a>>
  <2>1. \A j \in 1..Len(<<a>>) : Append(<<>>, a)[j] = <<a>>[j]
    BY <1>2, <1>3, <1>4
  <2>2. QED BY <1>1, <1>2, <1>4, <2>1, SeqEqual
<1>6. Append(<<b>>, a) = <<b, a>>
  <2>1. \A j \in 1..Len(<<b, a>>) : j = 1 \/ j = 2
    BY <1>2
  <2>2. \A j \in 1..Len(<<b, a>>) : Append(<<b>>, a)[j] = <<b, a>>[j]
    BY <1>3, <1>4, <2>1
  <2>3. QED BY <1>1, <1>2, <1>4, <2>2, SeqEqual
<1>7. QED BY <1>5, <1>6

\* What comes after a routine that is not the last of a byte.
LEMMA ReturnsTo ==
  ASSUME I2c!Return, bitNo <= Bits, bitNo # Bits + 1
  PROVE  /\ byteNo' = byteNo /\ bitNo' = bitNo + 1
         /\ Len(I2c!Routine(byteNo, bitNo + 1)) = 0 =>
              stepNo' = 0 /\ reply' = IF job.kind \in {"begin", "send"} THEN bitsRead ELSE reply
         /\ Len(I2c!Routine(byteNo, bitNo + 1)) # 0 => stepNo' = 1 /\ reply' = reply
<1> DEFINE over == Len(I2c!Routine(byteNo, bitNo + 1)) = 0
<1>1. byteNo' = byteNo /\ bitNo' = bitNo + 1 /\ stepNo' = (IF over THEN 0 ELSE 1) /\ reply' = I2c!Result(over)
  BY DEF I2c!Return
<1> HIDE DEF over
<1>2. reply' = IF over /\ job.kind \in {"begin", "send"} THEN bitsRead ELSE reply
  BY <1>1 DEF I2c!Result
<1>3. QED BY <1>1, <1>2 DEF over

\* A STOP: the slave lets go, sees it and the job is over.
LEMMA StopStep ==
  ASSUME AdapterAssumption, BusInv, stepNo > 0, job.kind \in {"send", "read"}, byteNo > Size, I2c!Step
  PROVE  BusInv'
<1>1. PinTypes /\ SlaveTypes /\ PlaceTypes /\ Asked /\ Within /\ Stopping /\ stepNo \in 1..4
      /\ (job.kind = "read" \/ reply = <<>>) /\ job.kind # "begin" /\ job.kind # "init" /\ job.kind # "none"
  BY DEF BusInv, BusTypes, Running, PlaceTypes
<1>2. Bits \in Nat /\ Bits > 1 /\ Size \in Nat /\ ~(byteNo <= Size)
  <2>1. Len(job.bytes) \in Nat /\ job.length \in Nat
    BY <1>1, LenProperties DEF PlaceTypes, Jobs
  <2>2. QED BY <1>1, <2>1, BitsAre DEF Size, PlaceTypes
<1>3. job.stop /\ byteNo = Size + 1 /\ bitNo = 1
  BY <1>1, <1>2 DEF Within
<1>4. I2c!Routine(byteNo, bitNo) = I2c!I2C_Stop /\ I2c!Routine(byteNo, 2) = <<>>
  BY <1>1, <1>3, EndRoutine
<1>5. /\ stepNo = 1 => I2c!Do([op |-> "data", to |-> 0])
      /\ stepNo = 2 => I2c!Do(I2c!ClockLo)
      /\ stepNo = 3 => I2c!Do(I2c!ClockHi)
      /\ stepNo = 4 => I2c!Do(I2c!DataHi)
      /\ IF stepNo < 4 THEN stepNo' = stepNo + 1 /\ UNCHANGED <<byteNo, bitNo, reply>> ELSE I2c!Return
      /\ UNCHANGED <<job, legal, jobs>>
  <2>1. I2c!Do(I2c!I2C_Stop[stepNo]) /\ UNCHANGED <<job, legal, jobs>>
    BY <1>4 DEF I2c!Step
  <2>2. IF stepNo < Len(I2c!I2C_Stop)
        THEN stepNo' = stepNo + 1 /\ UNCHANGED <<byteNo, bitNo, reply>>
        ELSE I2c!Return
    BY <1>4 DEF I2c!Step
  <2>3. QED BY <1>1, <2>1, <2>2, StopsBus
<1>6. /\ scl = (IF stepNo = 4 THEN 1 ELSE 0)
      /\ stepNo > 1 => sda = 0
      /\ ~pull /\ mode \in {"get", "passive"}
      /\ (mode = "get" /\ stepNo < 4) => inByte = <<>>
      /\ events = <<>>
      /\ Outcome(bitsRead)
  BY <1>1 DEF Stopping, Clock
<1>7. CASE stepNo < 4
  <2>1. stepNo' = stepNo + 1 /\ stepNo \in 1..3 /\ stepNo' \in 1..4 /\ UNCHANGED <<byteNo, bitNo, reply>>
    BY <1>1, <1>5, <1>7
  <2>2. /\ sda' = 0 /\ scl' = (IF stepNo = 3 THEN 1 ELSE 0) /\ bitsRead' = bitsRead
        /\ UNCHANGED <<pull, mode, taken, given, events>>
        /\ (mode = "get" /\ stepNo < 3) => inByte' = <<>>
        /\ inByte' \in Seq(Levels)
    <3>1. CASE stepNo \in {1, 2}
      <4>1. sda' = 0 /\ scl' = 0 /\ bitsRead' = bitsRead /\ UNCHANGED I2c!slave
        BY <1>5, <1>6, <3>1, SetsData, ClockStays DEF Levels
      <4>2. UNCHANGED <<pull, mode, inByte, taken, given, events>>
        BY <4>1 DEF I2c!slave
      <4>3. QED BY <1>1, <1>6, <3>1, <4>1, <4>2 DEF SlaveTypes
    <3>2. CASE stepNo = 3
      <4>1. sda' = sda /\ scl' = 1 /\ bitsRead' = bitsRead /\ I2c!Rises(I2c!Line(sda, pull))
        BY <1>5, <1>6, <3>2, ClockRises
      <4>2. sda = 0 /\ I2c!Line(sda, pull) = 0 /\ I2c!Rises(0)
        BY <1>6, <3>2, <4>1 DEF I2c!Line
      <4>3. UNCHANGED <<pull, given, events>>
        BY <4>1 DEF I2c!Rises
      <4>4. CASE mode = "passive"
        <5>1. UNCHANGED <<mode, inByte, taken>>
          BY <4>1, <4>4 DEF I2c!Rises
        <5>2. QED BY <1>1, <3>2, <4>1, <4>2, <4>3, <4>4, <5>1 DEF SlaveTypes
      <4>5. CASE mode = "get"
        <5>1. inByte = <<>> /\ Append(inByte, 0) \in Seq(Levels) /\ Len(Append(inByte, 0)) = 1
          <6>1. inByte = <<>>
            BY <1>6, <3>2, <4>5
          <6>2. Append(<<>>, 0) = <<0>> /\ Len(<<0>>) = 1 /\ <<0>> \in Seq(Levels)
            BY DEF Levels
          <6>3. QED BY <6>1, <6>2
        <5>2. Len(Append(inByte, 0)) < Bits
          BY <1>2, <5>1
        <5>3. inByte' = Append(inByte, 0) /\ UNCHANGED <<mode, taken>>
          BY <4>2, <4>5, <5>2 DEF I2c!Rises
        <5>4. QED BY <3>2, <4>1, <4>2, <4>3, <4>5, <5>1, <5>3
      <4>6. QED BY <1>6, <4>4, <4>5
    <3>3. QED BY <2>1, <3>1, <3>2
  <2>3. SlaveTypes' /\ PinTypes'
    BY <1>1, <2>2 DEF SlaveTypes, PinTypes, Levels
  <2>4. Outcome(bitsRead)'
    BY <1>5, <1>6, <2>1, <2>2 DEF Outcome, Received, ReadAll, Faithful
  <2>5. Stopping'
    BY <1>6, <2>1, <2>2, <2>4 DEF Stopping, Clock
  <2>6. QED BY <1>1, <1>3, <1>5, <2>1, <2>3, <2>5, InStopping DEF PlaceTypes
<1>8. CASE stepNo = 4
  <2>1. byteNo' = byteNo /\ bitNo' = 2 /\ stepNo' = 0 /\ reply' = (IF job.kind = "send" THEN bitsRead ELSE reply)
    <3>1. bitNo <= Bits /\ bitNo # Bits + 1 /\ bitNo + 1 = 2 /\ Len(<<>>) = 0
      BY <1>2, <1>3
    <3>2. I2c!Return /\ Len(I2c!Routine(byteNo, bitNo + 1)) = 0
      BY <1>4, <1>5, <1>8, <3>1
    <3>3. QED BY <1>1, <3>1, <3>2, ReturnsTo
  <2>2. scl = 1 /\ sda = 0 /\ ~pull
    BY <1>6, <1>8
  <2>3. sda' = 1 /\ scl' = 1 /\ bitsRead' = bitsRead /\ I2c!SeesStop /\ UNCHANGED <<outByte, taken, given>>
    <3>1. I2c!Do([op |-> "data", to |-> 1])
      BY <1>5, <1>8 DEF I2c!DataHi
    <3>2. sda' = 1 /\ scl' = 1 /\ bitsRead' = bitsRead /\ I2c!Watch(1, 1)
      BY <2>2, <3>1 DEF I2c!Do
    <3>3. I2c!Line(sda, pull) = 0 /\ I2c!Line(1, pull) = 1
      BY <2>2 DEF I2c!Line
    <3>4. QED BY ONLY <2>2, <3>2, <3>3 DEF I2c!Watch
  <2>4. mode' = "idle" /\ inByte' = <<>> /\ pull' = FALSE /\ pull' \in BOOLEAN /\ events' = <<"STOP">>
    BY <1>6, <2>3, AppendedTo DEF I2c!SeesStop
  <2>5. SlaveTypes' /\ PinTypes'
    <3>1. inByte' \in Seq(Levels) /\ mode' \in Modes
      BY <2>4, EmptySeq DEF Modes
    <3>2. QED BY <1>1, <2>3, <2>4, <3>1 DEF SlaveTypes, PinTypes, Levels
  <2>6. Outcome(reply)'
    BY <1>1, <1>5, <1>6, <2>1, <2>3 DEF Outcome, Received, ReadAll, Faithful
  <2>7. legal' = "begin" /\ job'.kind = job.kind /\ job'.stop = job.stop
    BY <1>1, <1>3, <1>5 DEF Asked
  <2>8. Resting'
    BY <1>1, <1>3, <2>3, <2>4, <2>6, <2>7 DEF Resting, Open
  <2>9. IF job.kind = "read" THEN reply' \in Seq(Seq(Levels)) ELSE reply' \in Seq(Levels) /\ Len(reply') <= 1
    <3>1. CASE job.kind = "read"
      BY <1>1, <2>1, <3>1 DEF PlaceTypes
    <3>2. CASE job.kind = "send"
      <4>1. bitsRead \in {<<0>>, <<1>>}
        BY <1>6, <3>2 DEF Outcome, Received
      <4>2. PICK b \in Levels : reply' = <<b>>
        BY <2>1, <3>2, <4>1 DEF Levels
      <4>3. QED BY <3>2, <4>2, OneBit
    <3>3. QED BY <1>1, <3>1, <3>2
  <2>10. byteNo' \in Nat \ {0} /\ bitNo' \in Nat
    BY <1>1, <2>1 DEF PlaceTypes
  <2>11. QED BY <1>1, <1>5, <2>1, <2>5, <2>8, <2>9, <2>10, InResting
<1>9. QED BY <1>1, <1>7, <1>8

\* The invariant before the first bit of an address.
LEMMA InStarting ==
  ASSUME Asked, UNCHANGED <<job, legal>>, PinTypes', SlaveTypes', PlaceTypes, job.kind = "begin",
         byteNo' = 1, bitNo' = 0, stepNo' \in 1..3, Starting', reply' = <<>>
  PROVE  BusInv'
<1>1. PlaceTypes'
  <2>1. reply' \in Seq(Levels)
    BY EmptySeq
  <2>2. QED BY <2>1 DEF PlaceTypes
<1>2. Asked'
  BY DEF Asked, ToSlave
<1>3. Within'
  BY DEF Within
<1>4. Running'
  BY DEF Running
<1>5. QED BY <1>1, <1>2, <1>3, <1>4 DEF BusInv, BusTypes

\* A START: the lines float, one after the other perhaps; the data line falls, then the clock.
LEMMA StartStep ==
  ASSUME AdapterAssumption, BusInv, stepNo > 0, job.kind = "begin", bitNo = 0, I2c!Step
  PROVE  BusInv'
<1>1. PinTypes /\ SlaveTypes /\ PlaceTypes /\ Asked /\ Within /\ Starting /\ reply = <<>>
  BY DEF BusInv, BusTypes, Running
<1>2. Bits \in Nat /\ Bits > 1 /\ bitNo \notin 1..(Bits + 1) /\ Len(job.bytes) = 1 /\ Size = 1 /\ Sends
  BY <1>1, BitsAre DEF Asked, Size, Sends
<1>3. byteNo = 1 /\ stepNo \in 1..3
  BY <1>1, <1>2 DEF Within, PlaceTypes
<1>4. I2c!Routine(byteNo, bitNo) = I2c!I2C_Start
  BY <1>3, RoutineIs
<1>5. /\ stepNo = 1 => I2c!Do(I2c!BothHi)
      /\ stepNo = 2 => I2c!Do(I2c!DataLo)
      /\ stepNo = 3 => I2c!Do(I2c!ClockLo)
      /\ IF stepNo < 3 THEN stepNo' = stepNo + 1 /\ UNCHANGED <<byteNo, bitNo, reply>> ELSE I2c!Return
      /\ UNCHANGED <<job, legal, jobs>>
  <2>1. I2c!Do(I2c!I2C_Start[stepNo]) /\ UNCHANGED <<job, legal, jobs>>
    BY <1>4 DEF I2c!Step
  <2>2. IF stepNo < Len(I2c!I2C_Start)
        THEN stepNo' = stepNo + 1 /\ UNCHANGED <<byteNo, bitNo, reply>>
        ELSE I2c!Return
    BY <1>4 DEF I2c!Step
  <2>3. QED BY <1>3, <2>1, <2>2, StartsBus
<1>6. CASE stepNo = 1
  <2>1. stepNo' = 2 /\ byteNo' = 1 /\ bitNo' = 0 /\ reply' = <<>>
    BY <1>1, <1>3, <1>5, <1>6
  <2>2. Open(job.after) /\ events = <<>> /\ taken = <<>>
    BY <1>1, <1>6 DEF Starting
  <2>3. sda' = 1 /\ scl' = 1 /\ bitsRead' = bitsRead /\ (I2c!Watch(1, 1) \/ I2c!ClockFirst)
    BY <1>5, <1>6 DEF I2c!Do, I2c!BothHi
  <2>4. PinTypes'
    BY <1>1, <2>3 DEF PinTypes, Levels
  <2>5. ~pull
    BY <2>2 DEF Open, Listening, Mute
  <2>6. SlaveTypes' /\ ~pull' /\ taken' = <<>>
        /\ (events' = <<>> \/ (job.after = "read" /\ events' = <<"STOP">>))
    <3>1. CASE scl = 1 /\ sda = 1
      <4>1. I2c!Line(sda, pull) = 1 /\ I2c!Line(1, pull) = 1
        BY <2>5, <3>1 DEF I2c!Line
      <4>2. UNCHANGED I2c!slave
        BY ONLY <2>3, <3>1, <4>1 DEF I2c!Watch, I2c!ClockFirst
      <4>3. QED BY <1>1, <2>2, <2>5, <4>2 DEF I2c!slave, SlaveTypes
    <3>2. CASE scl = 0 /\ sda = 1 /\ Listening
      <4>1. I2c!Line(sda, pull) = 1 /\ I2c!Line(1, pull) = 1
        BY <2>5, <3>2 DEF I2c!Line
      <4>2. I2c!Rises(1)
        BY ONLY <2>3, <3>2, <4>1 DEF I2c!Watch, I2c!ClockFirst
      <4>3. UNCHANGED <<pull, given, events>>
        BY <4>2 DEF I2c!Rises
      <4>4. CASE Mute
        <5>1. UNCHANGED I2c!slave
          BY <4>2, <4>4, IgnoresRise DEF Mute
        <5>2. QED BY <1>1, <2>2, <2>5, <5>1 DEF I2c!slave, SlaveTypes
      <4>5. CASE mode = "get" /\ inByte = <<>>
        <5>1. Append(inByte, 1) \in Seq(Levels) /\ Len(Append(inByte, 1)) = 1
          <6>1. Append(<<>>, 1) = <<1>> /\ Len(<<1>>) = 1 /\ <<1>> \in Seq(Levels)
            BY DEF Levels
          <6>2. QED BY <4>5, <6>1
        <5>2. Len(Append(inByte, 1)) < Bits
          BY <1>2, <5>1
        <5>3. inByte' = Append(inByte, 1) /\ UNCHANGED <<mode, taken>>
          BY <4>2, <4>5, <5>2 DEF I2c!Rises
        <5>4. QED BY <1>1, <2>2, <2>5, <4>3, <5>1, <5>3 DEF SlaveTypes
      <4>6. QED BY <3>2, <4>4, <4>5 DEF Listening
    <3>3. CASE scl = 0 /\ job.after = "read" /\ Mute
      <4>1. CASE I2c!ClockFirst
        <5>1. mode' = "idle" /\ inByte' = <<>> /\ pull' = FALSE /\ pull' \in BOOLEAN /\ events' = <<"STOP">>
              /\ UNCHANGED <<outByte, taken, given>>
          BY <2>2, <4>1, AppendedTo DEF I2c!ClockFirst, I2c!SeesStop
        <5>2. inByte' \in Seq(Levels) /\ mode' \in Modes
          BY <5>1, EmptySeq DEF Modes
        <5>3. QED BY <1>1, <2>2, <3>3, <5>1, <5>2 DEF SlaveTypes
      <4>2. CASE I2c!Watch(1, 1)
        <5>1. I2c!Rises(I2c!Line(1, pull))
          BY <3>3, <4>2 DEF I2c!Watch
        <5>2. UNCHANGED I2c!slave
          BY <3>3, <5>1, IgnoresRise DEF Mute
        <5>3. QED BY <1>1, <2>2, <2>5, <5>2 DEF I2c!slave, SlaveTypes
      <4>3. QED BY <2>3, <4>1, <4>2
    <3>4. QED BY <2>2, <3>1, <3>2, <3>3 DEF Open
  <2>7. Starting'
    BY <1>5, <2>1, <2>3, <2>6 DEF Starting
  <2>8. stepNo' \in 1..3
    BY <2>1
  <2>9. QED BY <1>1, <1>5, <2>1, <2>4, <2>6, <2>7, <2>8, InStarting
<1>7. CASE stepNo = 2
  <2>1. stepNo' = 3 /\ byteNo' = 1 /\ bitNo' = 0 /\ reply' = <<>>
    BY <1>1, <1>3, <1>5, <1>7
  <2>2. sda = 1 /\ scl = 1 /\ ~pull /\ taken = <<>> /\ (events = <<>> \/ (job.after = "read" /\ events = <<"STOP">>))
    BY <1>1, <1>7 DEF Starting
  <2>3. sda' = 0 /\ scl' = 1 /\ bitsRead' = bitsRead /\ I2c!SeesStart /\ UNCHANGED <<outByte, taken, given>>
    <3>1. sda' = 0 /\ scl' = 1 /\ bitsRead' = bitsRead /\ I2c!Watch(0, 1)
      BY <1>5, <1>7, <2>2 DEF I2c!Do, I2c!DataLo
    <3>2. I2c!Line(sda, pull) = 1 /\ I2c!Line(0, pull) = 0
      BY <2>2 DEF I2c!Line
    <3>3. QED BY ONLY <2>2, <3>1, <3>2 DEF I2c!Watch
  <2>4. mode' = "address" /\ inByte' = <<>> /\ pull' = FALSE /\ pull' \in BOOLEAN /\ events' = Append(events, "START")
    BY <2>3 DEF I2c!SeesStart
  <2>5. SawStart'
    <3>1. Append(<<>>, "START") = <<"START">> /\ Append(<<"STOP">>, "START") = <<"STOP", "START">>
      BY AppendedTo
    <3>2. QED BY <1>5, <2>2, <2>4, <3>1 DEF SawStart
  <2>6. SlaveTypes' /\ PinTypes'
    <3>1. inByte' \in Seq(Levels) /\ mode' \in Modes
      BY <2>4, EmptySeq DEF Modes
    <3>2. QED BY <1>1, <2>3, <2>4, <3>1 DEF SlaveTypes, PinTypes, Levels
  <2>7. Starting'
    BY <2>1, <2>2, <2>3, <2>4, <2>5 DEF Starting
  <2>8. stepNo' \in 1..3
    BY <2>1
  <2>9. QED BY <1>1, <1>5, <2>1, <2>6, <2>7, <2>8, InStarting
<1>8. CASE stepNo = 3
  <2>1. byteNo' = 1 /\ bitNo' = 1 /\ stepNo' = 1 /\ reply' = <<>>
    <3>1. bitNo <= Bits /\ bitNo # Bits + 1 /\ bitNo + 1 = 1 /\ byteNo = 1
      BY <1>2, <1>3
    <3>2. 1 \in 1..Size /\ 1 \in 1..(Bits + 1)
      BY <1>2
    <3>3. Len(I2c!Routine(1, 1)) # 0
      <4>1. Len(I2c!Routine(1, 1)) = IF 1 <= Bits /\ job.bytes[1][1] # 1 THEN 3 ELSE 4
        BY <1>1, <1>2, <3>2, SendLength
      <4>2. CASE 1 <= Bits /\ job.bytes[1][1] # 1
        <5>1. Len(I2c!Routine(1, 1)) = 3
          BY ONLY <4>1, <4>2, ZenonT(30)
        <5>2. QED BY ONLY <5>1, SMTT(30)
      <4>3. CASE ~(1 <= Bits /\ job.bytes[1][1] # 1)
        <5>1. Len(I2c!Routine(1, 1)) = 4
          BY ONLY <4>1, <4>3, ZenonT(30)
        <5>2. QED BY ONLY <5>1, SMTT(30)
      <4>4. QED BY ONLY <4>2, <4>3, ZenonT(30)
    <3>4. I2c!Return /\ Len(I2c!Routine(byteNo, bitNo + 1)) # 0
      BY <1>5, <1>8, <3>1, <3>3
    <3>5. QED BY <1>1, <3>1, <3>4, ReturnsTo
  <2>2. sda = 0 /\ scl = 1 /\ ~pull /\ mode = "address" /\ inByte = <<>> /\ SawStart /\ taken = <<>>
    BY <1>1, <1>8 DEF Starting
  <2>3. sda' = 0 /\ scl' = 0 /\ bitsRead' = bitsRead /\ I2c!Falls
    BY <1>5, <1>8, <2>2, ClockFalls
  <2>4. pull' = FALSE /\ pull' \in BOOLEAN /\ UNCHANGED <<mode, inByte, outByte, given, taken, events>>
    BY <2>2, <2>3 DEF I2c!Falls
  <2>5. SlaveTypes' /\ PinTypes'
    BY <1>1, <2>3, <2>4 DEF SlaveTypes, PinTypes, Levels
  <2>6. Faithful'
    <3>1. taken' = <<>> /\ Len(<<>>) = 0
      BY <2>2, <2>4
    <3>2. \A j \in 1..Len(taken') : FALSE
      BY <3>1
    <3>3. QED BY <3>2 DEF Faithful
  <2>7. Fell(1)'
    <3>1. Hears(0)'
      <4>1. Len(inByte') = 0 /\ Len(taken') = 0
        BY <2>2, <2>4
      <4>2. byteNo' - 1 = 0 /\ job'.kind = "begin" /\ \A j \in 1..0 : FALSE
        BY <1>5, <2>1
      <4>3. QED BY <2>2, <2>4, <4>1, <4>2 DEF Hears
    <3>2. 1 <= Bits /\ 1 - 1 = 0
      BY <1>2
    <3>3. QED BY <3>1, <3>2 DEF Fell
  <2>8. Sending'
    <3>1. SawStart'
      BY <1>5, <2>2, <2>4 DEF SawStart
    <3>2. QED BY <1>2, <1>5, <2>1, <2>3, <2>6, <2>7, <3>1 DEF Sending, Clock
  <2>9. byteNo' \in Nat \ {0} /\ byteNo' <= Size /\ bitNo' \in 1..(Bits + 1) /\ stepNo' \in 1..4 /\ stepNo' # 4
    BY <1>2, <2>1
  <2>10. QED BY <1>1, <1>2, <1>5, <2>1, <2>5, <2>8, <2>9, InSending
<1>9. QED BY <1>3, <1>6, <1>7, <1>8

\* The initialisation leaves both lines floating.
LEMMA InitStep ==
  ASSUME AdapterAssumption, BusInv, stepNo > 0, job.kind = "init", I2c!Step
  PROVE  BusInv'
<1>1. PinTypes /\ SlaveTypes /\ PlaceTypes /\ Asked /\ Within /\ reply = <<>>
      /\ sda = 1 /\ scl = 1 /\ ~pull /\ mode = "idle" /\ legal = "begin"
  BY DEF BusInv, BusTypes, Running, Asked
<1>2. byteNo = 1 /\ bitNo = 1 /\ stepNo \in 1..2 /\ Bits \in Nat /\ Bits > 1
  BY <1>1, BitsAre DEF Within, PlaceTypes
<1>3. I2c!Routine(1, 1) = I2c!I2C_Init /\ I2c!Routine(1, 2) = <<>>
  BY RoutineIs
<1>4. /\ stepNo = 1 => I2c!Do(I2c!ClockHi)
      /\ stepNo = 2 => I2c!Do(I2c!DataHi)
      /\ IF stepNo < 2 THEN stepNo' = stepNo + 1 /\ UNCHANGED <<byteNo, bitNo, reply>> ELSE I2c!Return
      /\ UNCHANGED <<job, legal, jobs>>
  <2>1. Len(I2c!I2C_Init) = 2 /\ I2c!I2C_Init[1] = I2c!ClockHi /\ I2c!I2C_Init[2] = I2c!DataHi
    BY DEF I2c!I2C_Init
  <2>2. I2c!Do(I2c!I2C_Init[stepNo]) /\ UNCHANGED <<job, legal, jobs>>
    BY <1>2, <1>3 DEF I2c!Step
  <2>3. IF stepNo < Len(I2c!I2C_Init)
        THEN stepNo' = stepNo + 1 /\ UNCHANGED <<byteNo, bitNo, reply>>
        ELSE I2c!Return
    BY <1>2, <1>3 DEF I2c!Step
  <2>4. QED BY <1>2, <2>1, <2>2, <2>3
<1>5. sda' = 1 /\ scl' = 1 /\ bitsRead' = bitsRead /\ UNCHANGED I2c!slave
  <2>1. sda' = 1 /\ scl' = 1 /\ bitsRead' = bitsRead /\ I2c!Watch(1, 1)
    BY <1>1, <1>2, <1>4 DEF I2c!Do, I2c!ClockHi, I2c!DataHi
  <2>2. I2c!Line(sda, pull) = 1 /\ I2c!Line(1, pull) = 1
    BY <1>1 DEF I2c!Line
  <2>3. QED BY ONLY <1>1, <2>1, <2>2 DEF I2c!Watch
<1>6. UNCHANGED <<pull, mode, inByte, outByte, taken, given, events>>
  BY <1>5 DEF I2c!slave
<1>7. SlaveTypes' /\ PinTypes'
  BY <1>1, <1>5, <1>6 DEF SlaveTypes, PinTypes, Levels
<1>8. CASE stepNo = 1
  <2>1. stepNo' = 2 /\ byteNo' = 1 /\ bitNo' = 1 /\ reply' = <<>>
    BY <1>1, <1>2, <1>4, <1>8
  <2>2. PlaceTypes'
    <3>1. reply' \in Seq(Levels)
      BY <2>1, EmptySeq
    <3>2. QED BY <1>1, <1>4, <2>1, <3>1 DEF PlaceTypes
  <2>3. Asked'
    BY <1>1, <1>4 DEF Asked
  <2>4. Within' /\ Running'
    BY <1>1, <1>4, <1>5, <1>6, <2>1 DEF Within, Running, Sends
  <2>5. QED BY <1>7, <2>1, <2>2, <2>3, <2>4 DEF BusInv, BusTypes
<1>9. CASE stepNo = 2
  <2>1. byteNo' = 1 /\ bitNo' = 2 /\ stepNo' = 0 /\ reply' = <<>>
    <3>1. bitNo <= Bits /\ bitNo # Bits + 1 /\ bitNo + 1 = 2 /\ Len(<<>>) = 0
      BY <1>2
    <3>2. I2c!Return /\ Len(I2c!Routine(byteNo, bitNo + 1)) = 0
      BY <1>2, <1>3, <1>4, <1>9, <3>1
    <3>3. QED BY <1>1, <1>2, <3>1, <3>2, ReturnsTo
  <2>2. reply' \in Seq(Levels) /\ Len(reply') <= 1
    BY <2>1, EmptySeq
  <2>3. Resting'
    BY <1>1, <1>4, <1>5, <1>6 DEF Resting, Open
  <2>4. byteNo' \in Nat \ {0} /\ bitNo' \in Nat
    BY <2>1
  <2>5. QED BY <1>1, <1>4, <1>7, <2>1, <2>2, <2>3, <2>4, InResting
<1>10. QED BY <1>2, <1>8, <1>9

\* Every step of a job keeps the invariant.
LEMMA JobStep ==
  ASSUME AdapterAssumption, BusInv, I2c!Step
  PROVE  BusInv'
<1>1. stepNo > 0 /\ Within /\ PlaceTypes /\ Asked
  BY DEF BusInv, BusTypes, PlaceTypes, I2c!Step, I2c!Idle
<1>2. job.kind \in {"none", "init", "begin", "send", "read"} /\ job.kind # "none"
  BY <1>1 DEF PlaceTypes, Jobs, Asked
<1>3. CASE job.kind = "init"
  BY <1>1, <1>3, InitStep
<1>4. CASE job.kind \in {"begin", "send", "read"}
  <2>1. Size \in Nat /\ byteNo \in Nat
    <3>1. Len(job.bytes) \in Nat /\ job.length \in Nat
      BY <1>1, LenProperties DEF PlaceTypes, Jobs
    <3>2. QED BY <1>1, <3>1 DEF PlaceTypes, Size
  <2>2. CASE byteNo <= Size /\ bitNo \in 1..(Bits + 1)
    BY <1>1, <1>4, <2>2, SendStep, ReadStep DEF Sends
  <2>3. CASE job.kind = "begin" /\ byteNo = 1 /\ bitNo = 0 /\ stepNo <= 3
    BY <1>1, <2>3, StartStep
  <2>4. CASE job.kind # "begin" /\ job.stop /\ byteNo = Size + 1 /\ bitNo = 1
    <3>1. byteNo > Size
      BY <2>1, <2>4
    <3>2. QED BY <1>1, <1>4, <2>4, <3>1, StopStep
  <2>5. QED BY <1>1, <1>4, <2>2, <2>3, <2>4 DEF Within
<1>5. QED BY <1>2, <1>3, <1>4
-----------------------------------------------------------------------------
(* The jobs begin.                                                         *)

\* What the beginning of a job sets.
LEMMA JobBegins ==
  ASSUME AdapterAssumption, BusInv, NEW j \in Jobs, j.kind # "none", I2c!StartJob(j)
  PROVE  /\ BusTypes' /\ PlaceTypes' /\ stepNo = 0 /\ Resting /\ Asked
         /\ job' = j /\ byteNo' = 1 /\ bitNo' = (IF j.kind = "begin" THEN 0 ELSE 1) /\ stepNo' = 1
         /\ reply' = <<>> /\ taken' = <<>> /\ given' = <<>> /\ events' = <<>>
         /\ UNCHANGED <<sda, scl, pull, mode, inByte, outByte>>
         /\ job.kind \in {"none", "init", "begin", "send", "read"}
<1>1. BusTypes /\ Asked /\ stepNo = 0 /\ Resting
  BY DEF BusInv, I2c!StartJob, I2c!Idle
<1>2. /\ job' = j /\ byteNo' = 1 /\ bitNo' = (IF j.kind = "begin" THEN 0 ELSE 1) /\ stepNo' = 1
      /\ reply' = <<>> /\ taken' = <<>> /\ given' = <<>> /\ events' = <<>> /\ bitsRead' = <<>>
      /\ UNCHANGED <<sda, scl, pull, mode, inByte, outByte>>
  BY DEF I2c!StartJob
<1>3. bitsRead' \in Seq(Levels) /\ taken' \in Seq(I2c!Bytes) /\ given' \in Seq(I2c!Bytes)
      /\ reply' \in Seq(Levels) /\ reply' \in Seq(Seq(Levels))
  BY <1>2, EmptySeq
<1>4. PinTypes' /\ SlaveTypes'
  BY <1>1, <1>2, <1>3 DEF BusTypes, PinTypes, SlaveTypes
<1>5. PlaceTypes'
  BY <1>2, <1>3 DEF PlaceTypes
<1>6. job.kind \in {"none", "init", "begin", "send", "read"}
  BY <1>1 DEF BusTypes, PlaceTypes, Jobs
<1>7. QED BY <1>1, <1>2, <1>4, <1>5, <1>6 DEF BusTypes

\* The jobs that the host may ask for.
LEMMA JobIs ==
  ASSUME NEW kd \in {"none", "init", "begin", "send", "read"}, NEW before \in {"none", "init", "begin", "send", "read"}
  PROVE  /\ I2c!Job(kd, before) \in Jobs
         /\ I2c!Job(kd, before).kind = kd /\ I2c!Job(kd, before).after = before /\ ~I2c!Job(kd, before).stop
<1>1. <<>> \in Seq(I2c!Bytes)
  BY EmptySeq
<1>2. I2c!Job(kd, before) \in Jobs
  BY <1>1, Zenon DEF Jobs, I2c!Job
<1>3. I2c!Job(kd, before).kind = kd /\ I2c!Job(kd, before).after = before
  BY DEF I2c!Job
<1>4. I2c!Job(kd, before).stop = FALSE
  BY Zenon DEF I2c!Job
<1>5. QED BY <1>2, <1>3, <1>4

\* Job 8.
LEMMA InitBegins ==
  ASSUME AdapterAssumption, BusInv, I2c!Init8
  PROVE  BusInv'
<1>1. I2c!StartJob(I2c!Job("init", job.kind)) /\ legal = "init" /\ legal' = "begin"
  BY DEF I2c!Init8
<1>2. job.kind \in {"none", "init", "begin", "send", "read"}
  BY DEF BusInv, BusTypes, PlaceTypes, Jobs
<1>3. I2c!Job("init", job.kind) \in Jobs /\ I2c!Job("init", job.kind).kind = "init"
  BY <1>2, JobIs
<1>4. /\ BusTypes' /\ stepNo = 0 /\ Resting /\ Asked
      /\ job'.kind = "init" /\ byteNo' = 1 /\ bitNo' = 1 /\ stepNo' = 1 /\ reply' = <<>>
      /\ UNCHANGED <<sda, scl, pull, mode, inByte, outByte>>
  BY <1>1, <1>3, JobBegins
<1>5. sda = 1 /\ scl = 1 /\ ~pull /\ mode = "idle"
  BY <1>1, <1>4 DEF Resting, Open, Listening, Mute
<1>6. Asked'
  BY <1>1, <1>4 DEF Asked
<1>7. Within' /\ Running'
  BY <1>4, <1>5 DEF Within, Running, Sends
<1>8. QED BY <1>4, <1>6, <1>7 DEF BusInv

\* Job 9.
LEMMA AddressBegins ==
  ASSUME AdapterAssumption, BusInv, NEW dest \in I2c!Bytes, I2c!Begin(dest)
  PROVE  BusInv'
<1> DEFINE j == [I2c!Job("begin", job.kind) EXCEPT !.bytes = <<dest>>]
<1>1. /\ \/ legal \in {"begin", "write"}
         \/ legal = "read" /\ job.kind = "begin" /\ reply = <<1>>
      /\ I2c!StartJob(j)
      /\ legal' = IF dest[Bits] = 0 THEN "write" ELSE "read"
  BY DEF I2c!Begin
<1>2. job.kind \in {"none", "init", "begin", "send", "read"}
  BY DEF BusInv, BusTypes, PlaceTypes, Jobs
<1>3. <<dest>> \in Seq(I2c!Bytes) /\ Len(<<dest>>) = 1 /\ <<dest>>[1] = dest
  OBVIOUS
<1>4. I2c!Job("begin", job.kind) \in Jobs /\ I2c!Job("begin", job.kind).kind = "begin"
      /\ I2c!Job("begin", job.kind).after = job.kind /\ ~I2c!Job("begin", job.kind).stop
  BY <1>2, JobIs
<1>5. j \in Jobs /\ j.kind = "begin" /\ j.after = job.kind /\ j.bytes = <<dest>> /\ ~j.stop
  <2>1. PICK r \in Jobs : r = I2c!Job("begin", job.kind)
    BY <1>4
  <2> DEFINE changed == [r EXCEPT !.bytes = <<dest>>]
  <2>2. changed \in Jobs /\ changed.kind = r.kind /\ changed.after = r.after
        /\ changed.bytes = <<dest>> /\ changed.stop = r.stop
    BY <1>3 DEF Jobs
  <2> HIDE DEF changed
  <2>3. j = changed
    BY <2>1 DEF changed
  <2>4. QED BY <1>4, <2>1, <2>2, <2>3
<1> HIDE DEF j
<1>6. /\ BusTypes' /\ stepNo = 0 /\ Resting /\ Asked
      /\ job' = j /\ byteNo' = 1 /\ bitNo' = 0 /\ stepNo' = 1
      /\ reply' = <<>> /\ taken' = <<>> /\ events' = <<>>
      /\ UNCHANGED <<sda, scl, pull, mode, inByte, outByte>>
  BY <1>1, <1>5, JobBegins
<1>7. Open(job.kind)
  <2>1. CASE legal = "begin"
    BY <1>6, <2>1 DEF Resting
  <2>2. CASE legal = "write"
    BY <1>6, <2>2 DEF Resting, Open
  <2>3. CASE legal = "read" /\ job.kind = "begin" /\ reply = <<1>>
    <3>1. sda = 1 /\ scl = 0 /\ Talking /\ reply = <<IF mode = "passive" THEN 1 ELSE 0>>
      BY <1>6, <2>3 DEF Resting
    <3>2. mode = "passive"
      BY <2>3, <3>1
    <3>3. Mute
      BY <3>1, <3>2 DEF Talking, Putting
    <3>4. QED BY <3>1, <3>3 DEF Open, Listening
  <2>4. QED BY <1>1, <2>1, <2>2, <2>3
<1>8. Starting'
  <2>1. Open(job.kind) => (scl = 1 /\ sda = 1 /\ ~pull /\ mode = "idle")
                          \/ (scl = 0 /\ sda = 1 /\ Listening) \/ (scl = 0 /\ job.kind = "read" /\ Mute)
    BY DEF Open
  <2>2. (Listening' <=> Listening) /\ (Mute' <=> Mute)
    BY <1>6 DEF Listening, Mute
  <2>3. job'.after = job.kind
    BY <1>5, <1>6
  <2>4. Open(job.after)'
    BY <1>6, <1>7, <2>1, <2>2, <2>3 DEF Open
  <2>5. QED BY <1>6, <2>4 DEF Starting
<1>9. Asked'
  <2>1. job'.kind = "begin" /\ job'.bytes = <<dest>> /\ ~job'.stop
    BY <1>5, <1>6
  <2>2. ToSlave' <=> dest[Bits] = 0
    BY <1>3, <2>1 DEF ToSlave
  <2>3. Len(job'.bytes) = 1
    BY <1>3, <2>1
  <2>4. legal' = IF ToSlave' THEN "write" ELSE "read"
    BY <1>1, <2>2
  <2>5. QED BY <2>1, <2>3, <2>4 DEF Asked
<1>10. Within' /\ Running'
  BY <1>5, <1>6, <1>8 DEF Within, Running
<1>11. QED BY <1>6, <1>9, <1>10 DEF BusInv

\* Job 10.
LEMMA BytesBegin ==
  ASSUME AdapterAssumption, BusInv, NEW bytes \in Messages, NEW stop \in BOOLEAN, I2c!Send(bytes, stop)
  PROVE  BusInv'
<1> DEFINE j == [I2c!Job("send", job.kind) EXCEPT !.bytes = bytes, !.stop = stop]
<1>1. legal = "write" /\ I2c!StartJob(j) /\ legal' = IF stop THEN "begin" ELSE "write"
  BY DEF I2c!Send
<1>2. job.kind \in {"none", "init", "begin", "send", "read"}
  BY DEF BusInv, BusTypes, PlaceTypes, Jobs
<1>3. bytes \in Seq(I2c!Bytes) /\ Len(bytes) > 0 /\ Len(bytes) \in Nat /\ Bits \in Nat /\ Bits > 1
  BY BitsAre, LenProperties
<1>4. I2c!Job("send", job.kind) \in Jobs /\ I2c!Job("send", job.kind).kind = "send"
  BY <1>2, JobIs
<1>5. j \in Jobs /\ j.kind = "send" /\ j.bytes = bytes /\ j.stop = stop
  <2>1. PICK r \in Jobs : r = I2c!Job("send", job.kind)
    BY <1>4
  <2> DEFINE changed == [r EXCEPT !.bytes = bytes, !.stop = stop]
  <2>2. changed \in Jobs /\ changed.kind = r.kind /\ changed.bytes = bytes /\ changed.stop = stop
    BY <1>3 DEF Jobs
  <2> HIDE DEF changed
  <2>3. j = changed
    BY <2>1 DEF changed
  <2>4. QED BY <1>4, <2>1, <2>2, <2>3
<1> HIDE DEF j
<1>6. /\ BusTypes' /\ PlaceTypes' /\ stepNo = 0 /\ Resting /\ Asked
      /\ job' = j /\ byteNo' = 1 /\ bitNo' = 1 /\ stepNo' = 1
      /\ reply' = <<>> /\ taken' = <<>> /\ events' = <<>>
      /\ UNCHANGED <<sda, scl, pull, mode, inByte, outByte>>
  BY <1>1, <1>5, JobBegins
<1>7. scl = 0 /\ Listening
  BY <1>1, <1>6 DEF Resting
<1>8. job'.kind = "send" /\ job'.bytes = bytes /\ job'.stop = stop
  BY <1>5, <1>6
<1>9. Asked'
  BY <1>1, <1>3, <1>8 DEF Asked
<1>10. Sends' /\ Size' = Len(bytes) /\ byteNo' <= Size' /\ bitNo' \in 1..(Bits + 1) /\ bitNo' <= Bits
  BY <1>3, <1>6, <1>8 DEF Sends, Size
<1>11. Within'
  BY <1>6, <1>8, <1>10 DEF Within
<1>12. Fell(1)'
  <2>1. CASE Mute
    <3>1. Deaf'
      BY <1>6, <1>8, <2>1 DEF Deaf, Mute
    <3>2. QED BY <1>3, <3>1 DEF Fell
  <2>2. CASE mode = "get" /\ inByte = <<>> /\ ~pull
    <3>1. Len(inByte') = 0 /\ Len(taken') = 0 /\ byteNo' - 1 = 0 /\ 1 - 1 = 0 /\ 1 <= Bits
      BY <1>3, <1>6, <2>2
    <3>2. Hears(0)'
      BY <1>6, <1>8, <2>2, <3>1 DEF Hears
    <3>3. QED BY <3>1, <3>2 DEF Fell
  <2>3. QED BY <1>7, <2>1, <2>2 DEF Listening
<1>13. Sending'
  <2>1. Faithful'
    <3>1. Len(taken') = 0
      BY <1>6
    <3>2. \A m \in 1..Len(taken') : FALSE
      BY <3>1
    <3>3. QED BY <3>2 DEF Faithful
  <2>2. QED BY <1>6, <1>7, <1>8, <1>10, <1>12, <2>1 DEF Sending, Clock
<1>14. Running'
  <2>1. ~(byteNo' > Size')
    BY <1>3, <1>6, <1>10
  <2>2. QED BY <1>8, <1>13, <2>1 DEF Running
<1>15. QED BY <1>6, <1>9, <1>11, <1>14 DEF BusInv

\* Job 11.
LEMMA ReadBegins ==
  ASSUME AdapterAssumption, BusInv, NEW n \in ReadLengths, NEW nack \in BOOLEAN, NEW stop \in BOOLEAN,
         I2c!Receive(n, nack, stop)
  PROVE  BusInv'
<1> DEFINE j == [I2c!Job("read", job.kind) EXCEPT !.length = n, !.nack = nack, !.stop = stop]
<1>1. legal = "read" /\ (stop => nack) /\ I2c!StartJob(j) /\ legal' = IF nack THEN "begin" ELSE "read"
  BY DEF I2c!Receive
<1>2. job.kind \in {"none", "init", "begin", "send", "read"}
  BY DEF BusInv, BusTypes, PlaceTypes, Jobs
<1>3. n \in Nat /\ n > 0 /\ Bits \in Nat /\ Bits > 1 /\ <<>> \in Seq(I2c!Bytes)
  BY BitsAre, EmptySeq
<1>4. I2c!Job("read", job.kind) \in Jobs /\ I2c!Job("read", job.kind).kind = "read"
  BY <1>2, JobIs
<1>5. j \in Jobs /\ j.kind = "read" /\ j.length = n /\ j.nack = nack /\ j.stop = stop
  <2>1. PICK r \in Jobs : r = I2c!Job("read", job.kind)
    BY <1>4
  <2> DEFINE changed == [r EXCEPT !.length = n, !.nack = nack, !.stop = stop]
  <2>2. changed \in Jobs /\ changed.kind = r.kind /\ changed.length = n
        /\ changed.nack = nack /\ changed.stop = stop
    BY <1>3 DEF Jobs
  <2> HIDE DEF changed
  <2>3. j = changed
    BY <2>1 DEF changed
  <2>4. QED BY <1>4, <2>1, <2>2, <2>3
<1> HIDE DEF j
<1>6. /\ BusTypes' /\ PlaceTypes' /\ stepNo = 0 /\ Resting /\ Asked
      /\ job' = j /\ byteNo' = 1 /\ bitNo' = 1 /\ stepNo' = 1
      /\ reply' = <<>> /\ given' = <<>> /\ events' = <<>>
      /\ UNCHANGED <<sda, scl, pull, mode, inByte, outByte>>
  BY <1>1, <1>5, JobBegins
<1>7. scl = 0 /\ Talking
  BY <1>1, <1>6 DEF Resting
<1>8. job'.kind = "read" /\ job'.length = n /\ job'.nack = nack /\ job'.stop = stop
  BY <1>5, <1>6
<1>9. Asked'
  BY <1>1, <1>3, <1>8 DEF Asked
<1>10. ~Sends' /\ Size' = n /\ byteNo' <= Size' /\ bitNo' \in 1..(Bits + 1) /\ bitNo' <= Bits
       /\ ~(bitNo' > Bits) /\ ~(bitNo' > 1)
  BY <1>3, <1>6, <1>8 DEF Sends, Size
<1>11. Within'
  BY <1>6, <1>8, <1>10 DEF Within
<1>12. NoneGiven' \/ Gives'
  <2>1. CASE Mute
    BY <1>6, <2>1 DEF NoneGiven, Mute
  <2>2. CASE Putting(1)
    <3>1. Putting(1)'
      BY <1>6, <2>2 DEF Putting
    <3>2. \A m \in 1..(bitNo' - 1) : bitsRead'[m] = outByte'[m]
      BY <1>6
    <3>3. QED BY <1>6, <3>1, <3>2 DEF Gives
  <2>3. QED BY <1>7, <2>1, <2>2 DEF Talking
<1>13. Reading'
  <2>1. Len(reply') = byteNo' - 1
    BY <1>6
  <2>2. QED BY <1>6, <1>7, <1>10, <1>12, <2>1 DEF Reading, Clock
<1>14. Running'
  <2>1. ~(byteNo' > Size')
    BY <1>3, <1>6, <1>10
  <2>2. QED BY <1>8, <1>10, <1>13, <2>1 DEF Running
<1>15. QED BY <1>6, <1>8, <1>9, <1>11, <1>14 DEF BusInv

\* Before the first job.
LEMMA BusBegins ==
  ASSUME AdapterAssumption, I2c!Init
  PROVE  BusInv
<1>1. /\ sda = 1 /\ scl = 1 /\ byteNo = 1 /\ bitNo = 1 /\ stepNo = 0
      /\ bitsRead = <<>> /\ reply = <<>> /\ legal = "init"
      /\ pull = FALSE /\ pull \in BOOLEAN /\ mode = "idle" /\ inByte = <<>>
      /\ taken = <<>> /\ given = <<>> /\ job = I2c!Job("none", "none")
  BY DEF I2c!Init
<1>2. <<>> \in Seq(Levels) /\ <<>> \in Seq(I2c!Bytes) /\ Len(<<>>) = 0
  BY EmptySeq
<1>3. job \in Jobs /\ job.kind = "none"
  BY <1>1, <1>2, JobIs
<1>4. BusTypes
  BY <1>1, <1>2, <1>3 DEF BusTypes, PinTypes, SlaveTypes, PlaceTypes, Levels, Modes
<1>5. Asked
  BY <1>1, <1>3 DEF Asked
<1>6. Resting
  BY <1>1, <1>3 DEF Resting, Open
<1>7. QED BY <1>1, <1>2, <1>4, <1>5, <1>6 DEF BusInv

\* The other parts leave the bus alone.
LEMMA SameBus ==
  ASSUME BusInv, UNCHANGED i2c
  PROVE  BusInv'
<1>1. UNCHANGED <<sda, scl, byteNo, bitNo, stepNo, bitsRead, job, reply, legal, pull, mode, inByte,
                  outByte, taken, given, events, jobs>>
  BY DEF i2c
<1>2. BusTypes' /\ Asked'
  BY <1>1 DEF BusInv, BusTypes, PinTypes, SlaveTypes, PlaceTypes, Asked, ToSlave
<1>3. /\ Mute' <=> Mute
      /\ Listening' <=> Listening
      /\ Talking' <=> Talking
      /\ Faithful' <=> Faithful
      /\ SawStart' <=> SawStart
      /\ AckRead' <=> AckRead
      /\ NoneGiven' <=> NoneGiven
      /\ Gives' <=> Gives
      /\ Gave' <=> Gave
      /\ Size' = Size
  BY <1>1 DEF Mute, Listening, Talking, Putting, Faithful, SawStart, AckRead, NoneGiven, Gives, Gave, Size, Sends
<1>4. (Resting => Resting') /\ (Within => Within')
  BY <1>1, <1>3 DEF Resting, Within, Open, Outcome, Received, ReadAll, Sends
<1>5. Sending => Sending'
  BY <1>1, <1>3 DEF Sending, Clock, Rose, Fell, Deaf, Hears, Heard, Answers, ToSlave
<1>6. (Reading => Reading') /\ (Stopping => Stopping') /\ (Starting => Starting')
  BY <1>1, <1>3 DEF Reading, Stopping, Starting, Clock, Acks, Outcome, Received, ReadAll, Open
<1>7. Running => Running'
  BY <1>1, <1>3, <1>5, <1>6 DEF Running, Sends
<1>8. QED BY <1>1, <1>2, <1>4, <1>7 DEF BusInv

\* Every step of the adapter keeps the invariant.
LEMMA BusKept ==
  ASSUME AdapterAssumption, BusInv, [AdapterNext]_all
  PROVE  BusInv'
<1>1. CASE I2c!Next
  <2>1. CASE I2c!Init8
    BY <2>1, InitBegins
  <2>2. CASE \E dest \in I2c!Bytes : I2c!Begin(dest)
    BY <2>2, AddressBegins
  <2>3. CASE \E bytes \in Messages, stop \in BOOLEAN : I2c!Send(bytes, stop)
    BY <2>3, BytesBegin
  <2>4. CASE \E length \in ReadLengths, nack, stop \in BOOLEAN : I2c!Receive(length, nack, stop)
    BY <2>4, ReadBegins
  <2>5. CASE I2c!Step
    BY <2>5, JobStep
  <2>6. QED BY ONLY <1>1, <2>1, <2>2, <2>3, <2>4, <2>5 DEF I2c!Next
<1>2. CASE UNCHANGED i2c
  BY <1>2, SameBus
<1>3. I2c!Next \/ UNCHANGED i2c
  BY DEF AdapterNext, UsbStep, LossyStep, I2cStep, SpiStep, BellStep, all
<1>4. QED BY <1>1, <1>2, <1>3

\* What the invariant says when no job runs.
LEMMA BusOver ==
  ASSUME AdapterAssumption, BusInv
  PROVE  I2cTransfers
<1>1. BusTypes /\ Asked
  BY DEF BusInv
<1>2. I2c!Idle => stepNo = 0 /\ Resting
  BY DEF BusInv, I2c!Idle
<1>3. I2c!TypeOK
  <2>1. legal \in {"init", "begin", "write", "read"}
    <3>1. job.kind \in {"none", "init", "begin", "send", "read"}
      BY <1>1 DEF BusTypes, PlaceTypes, Jobs
    <3>2. QED BY <1>1, <3>1 DEF Asked
  <2>2. Len(reply) <= IF job.kind = "read" THEN job.length ELSE 1
    <3>1. CASE job.kind = "read"
      <4>1. job.length \in Nat /\ byteNo \in Nat /\ Size = job.length
        BY <1>1, <3>1 DEF BusTypes, PlaceTypes, Jobs, Size, Sends
      <4>2. CASE stepNo = 0
        <5>1. Len(reply) = job.length
          BY <3>1, <4>2 DEF BusInv, Resting, Outcome, ReadAll
        <5>2. QED BY <3>1, <4>1, <5>1
      <4>3. CASE stepNo # 0 /\ byteNo <= Size
        <5>1. Len(reply) = byteNo - 1
          BY <1>1, <3>1, <4>3 DEF BusInv, BusTypes, PlaceTypes, Running, Reading
        <5>2. QED BY <3>1, <4>1, <4>3, <5>1
      <4>4. CASE stepNo # 0 /\ ~(byteNo <= Size)
        <5>1. stepNo > 0 /\ byteNo > Size
          BY <1>1, <4>1, <4>4 DEF BusTypes, PlaceTypes
        <5>2. Len(reply) = job.length
          BY <3>1, <5>1 DEF BusInv, Running, Stopping, Outcome, ReadAll
        <5>3. QED BY <3>1, <4>1, <5>2
      <4>5. QED BY <4>2, <4>3, <4>4
    <3>2. CASE job.kind # "read"
      <4>1. CASE stepNo = 0
        BY <3>2, <4>1 DEF BusInv
      <4>2. CASE stepNo # 0
        <5>1. stepNo > 0
          BY <1>1, <4>2 DEF BusTypes, PlaceTypes
        <5>2. reply = <<>> /\ Len(<<>>) = 0
          BY <3>2, <5>1 DEF BusInv
        <5>3. QED BY <3>2, <5>2
      <4>3. QED BY <4>1, <4>2
    <3>3. QED BY <3>1, <3>2
  <2>3. QED BY <1>1, <2>1, <2>2 DEF I2c!TypeOK, BusTypes, PinTypes, SlaveTypes, Levels, Modes
<1>4. I2c!AddressSent
  <2> SUFFICES ASSUME I2c!Finished("begin")
               PROVE  /\ events[Len(events)] = "START"
                      /\ taken = <<job.bytes[1]>>
                      /\ reply = <<IF mode = "passive" THEN 1 ELSE 0>>
    BY DEF I2c!AddressSent
  <2>1. /\ SawStart /\ taken = <<job.bytes[1]>>
        /\ reply = <<IF mode = "passive" THEN 1 ELSE 0>>
    BY <1>2 DEF I2c!Finished, Resting
  <2>2. Len(<<"START">>) = 1 /\ <<"START">>[1] = "START"
    OBVIOUS
  <2>3. Len(<<"STOP", "START">>) = 2 /\ <<"STOP", "START">>[2] = "START"
    OBVIOUS
  <2>4. events[Len(events)] = "START"
    BY <2>1, <2>2, <2>3 DEF SawStart
  <2>5. QED BY <2>1, <2>4
<1>5. I2c!BytesSent
  BY <1>2 DEF I2c!BytesSent, I2c!Finished, Resting, Outcome, Received, Faithful
<1>6. I2c!BytesRead
  BY <1>2 DEF I2c!BytesRead, I2c!Finished, Resting, Outcome, ReadAll
<1>7. I2c!StopsAsAsked
  BY <1>2 DEF I2c!StopsAsAsked, Resting
<1>8. I2c!RepeatedStart
  BY <1>2 DEF I2c!RepeatedStart, I2c!Finished, Resting, SawStart
<1>9. QED BY <1>3, <1>4, <1>5, <1>6, <1>7, <1>8 DEF I2cTransfers

\* The slave sees the addresses and the bytes as they were sent and its own bytes are read; a
\* job that sends or reads bytes shows it a STOP exactly if one was asked for; an address
\* without a STOP before it is a repeated START, except after reading, of which nothing is said
\* (I2C_Start to I2C_Stop, jobs 8 to 11).  For every width of a byte, every message, every
\* length of a read that fits sendBuffer, and every slave.
THEOREM I2cTransfersRight ==
  ASSUME AdapterAssumption
  PROVE  AdapterSpec => []I2cTransfers
<1>1. AdapterInit => BusInv
  BY BusBegins DEF AdapterInit
<1>2. BusInv /\ [AdapterNext]_all => BusInv'
  BY BusKept
<1>3. BusInv => I2cTransfers
  BY BusOver
<1>4. QED BY <1>1, <1>2, <1>3, PTL DEF AdapterSpec
=============================================================================
