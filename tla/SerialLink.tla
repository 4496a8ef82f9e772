----------------------------- MODULE SerialLink -----------------------------
(***************************************************************************)
(* The link through a serial port: src/dwire/Serial.c with the terminal    *)
(* calls of src/system/SerialPort.c, and the target at the end of the      *)
(* wire.  Transmit and receive line are the same wire, so everything sent  *)
(* comes back and is compared (SerialSendBytes).                           *)
(*                                                                         *)
(* As in DigisparkLink the bytes handed to SerialSend are numbered.  `line'*)
(* is what has been received and not been read.  A byte on it is an echo,  *)
(* an answer to all bytes up to a number, a 0x55 sent at a rate, one of    *)
(* the 0x00 and 0xFF that a break leaves, or junk; different bytes are     *)
(* taken to differ.  BaudSearch has FindBaudRate in detail.                *)
(***************************************************************************)
EXTENDS Naturals, Sequences

CONSTANTS
  Capacity,   \* sizeof(SerialOutBufBytes)
  MaxSend,    \* the longest outlen passed to SerialSend
  MaxBytes,   \* bound: bytes handed over in a run
  MaxLine,    \* bound: bytes left on the line when more are handed over
  Speeds,     \* the target's rates
  Faults,     \* what can go wrong: a byte collides, the target is mute
  MaxFaults   \* bound: faults in a run

\* What the constants are assumed to be.
SerialAssumption ==
  /\ Capacity \in Nat \ {0}
  /\ MaxSend \in Nat \ {0}
  /\ MaxBytes \in Nat
  /\ MaxLine \in Nat
  /\ Speeds \subseteq Nat \ {0} /\ Speeds # {}
  /\ Faults \subseteq {"collision", "mute"}
  /\ MaxFaults \in Nat

VARIABLES
  pc,         \* the host: "idle" between operations, or what it does next
  wants,      \* what the bytes handed over last make the target do
  flushed,    \* bytes successfully sent
  buffered,   \* SerialOutBufLength
  rest,       \* bytes of the current SerialSend not yet in the buffer
  got,        \* the answer that was read, as a number; 0 when bytes were sent since
  handle,     \* sp->handle # 0
  baud,       \* sp->port.baud; 0 also stands for -1
  current,    \* CurrentPort >= 0
  line,       \* bytes received and not read
  speed,      \* the target's rate
  running,    \* is the target running?
  heard,      \* the target has acted on the bytes up to this one
  faults      \* the number of faults so far

buffer == <<flushed, buffered, rest>>
port   == <<handle, baud, current>>
target == <<speed, running, heard>>
vars   == <<pc, wants, buffer, got, port, line, target, faults>>

Wants   == {"nothing", "answer", "sync", "go"}
B(k, v) == [kind |-> k, val |-> v]
Bytes   == [kind : {"echo", "answer", "sync", "zero", "ones", "junk"}, val : Nat]
Stray   == {<<>>, <<B("zero", 0)>>, <<B("zero", 0), B("ones", 0)>>}   \* around a break
-----------------------------------------------------------------------------
Echo(len) == [i \in 1..len |-> B("echo", flushed + i)]

Occurs(fault) ==
  /\ fault # "none" => (fault \in Faults /\ faults < MaxFaults)
  /\ faults' = IF fault = "none" THEN faults ELSE faults + 1

(* Fail: the longjmp drops what the caller still wanted.  The output       *)
(* buffer's length stays as it is.                                         *)
Fail ==
  /\ pc' = "idle"
  /\ wants' = "nothing"
  /\ rest' = 0
  /\ UNCHANGED <<flushed, buffered, got>>

(* The bytes arrive at the target, if it is stopped and at the port's      *)
(* rate; `complete' is whether they end what was handed over.  Then it     *)
(* acts and answers; the 0x55 after a reset, a step or a flash operation   *)
(* may come at another rate.                                               *)
Deliver(len, complete, fault, reply) ==
  LET listens == ~running /\ baud = speed
      acts    == listens /\ complete
  IN  /\ heard' = IF listens THEN flushed + len ELSE heard
      /\ running' = (running \/ (acts /\ wants = "go"))
      /\ speed' \in IF acts /\ wants = "sync" THEN Speeds ELSE {speed}
      /\ reply = IF ~acts \/ fault = "mute" THEN <<>>
                 ELSE CASE wants = "answer" -> <<B("answer", flushed + len)>>
                        [] wants = "sync"   -> <<B("sync", speed')>>
                        [] OTHER            -> <<>>

Replies(len) == {<<>>, <<B("answer", flushed + len)>>} \union {<<B("sync", s)>> : s \in Speeds}

\* A mutant: the buffer is not reset.
Sent_KeepsBuffer(len, next) ==
  /\ flushed' = flushed + len
  /\ pc' = next
  /\ UNCHANGED <<buffered, wants, got>>

Sent(len, next) ==
  /\ flushed' = flushed + len
  /\ buffered' = 0
  /\ pc' = next
  /\ UNCHANGED <<wants, got>>

\* A mutant: the echo is not read back.
SerialSendBytes_NoEcho(len, left, next) ==
  /\ handle
  /\ \E fault \in {"none", "mute"}, reply \in Replies(len) :
       /\ Occurs(fault)
       /\ Deliver(len, left = 0, fault, reply)
       /\ line' = line \o Echo(len) \o reply
       /\ Sent(len, next) /\ rest' = left
  /\ UNCHANGED port

(* Bytes that left the buffer in a failure are not sent again: what is     *)
(* left of their echo is no echo of what will be sent.                     *)
Forgotten(bytes) ==
  [i \in 1..Len(bytes) |->
     IF bytes[i].kind = "echo" /\ bytes[i].val > flushed + buffered THEN B("junk", 0)
     ELSE bytes[i]]

(* SerialSendBytes for the first `len' bytes that are not sent yet, leaving*)
(* `left' for another round, and what the caller does next.  Without a     *)
(* handle the bytes go to descriptor 0, and keys are read for the echo.    *)
SerialSendBytes(len, left, next) ==
  \/ /\ handle
     /\ \E fault \in {"none", "collision", "mute"}, reply \in Replies(len), i \in 1..len :
          LET echo    == IF fault = "collision" THEN [Echo(len) EXCEPT ![i] = B("junk", 0)]
                                                ELSE Echo(len)
              arrived == line \o echo \o reply
          IN  /\ Occurs(fault)
              /\ Deliver(len, left = 0, fault, reply)
              /\ IF SubSeq(arrived, 1, len) = Echo(len)
                 THEN /\ line' = SubSeq(arrived, len + 1, Len(arrived))
                      /\ Sent(len, next) /\ rest' = left
                 ELSE /\ line' = Forgotten(SubSeq(arrived, len + 1, Len(arrived)))
                      /\ Fail
     /\ UNCHANGED port
  \/ /\ ~handle
     /\ Fail
     /\ UNCHANGED <<port, line, target, faults>>

Goto(next) ==
  /\ pc' = next
  /\ UNCHANGED <<wants, buffer, got, port, line, target, faults>>

SerialFlush(next) ==
  IF buffered > 0 THEN SerialSendBytes(buffered, 0, next) ELSE Goto(next)
-----------------------------------------------------------------------------
Init ==
  /\ pc = "idle" /\ wants = "nothing"
  /\ flushed = 0 /\ buffered = 0 /\ rest = 0
  /\ got = 0
  /\ handle = FALSE /\ baud = 0 /\ current = FALSE
  /\ line = <<>>
  /\ speed \in Speeds /\ running \in BOOLEAN
  /\ heard = 0
  /\ faults = 0

(* A caller hands over n bytes; unless they are only data it goes on to    *)
(* read an answer, to synchronise, or to wait.                             *)
HandOver(n, w) ==
  /\ pc = "idle" /\ wants = "nothing" /\ current
  /\ flushed + buffered + n <= MaxBytes
  /\ Len(line) <= MaxLine
  /\ pc' = "send"
  /\ wants' = w
  /\ rest' = n
  /\ got' = 0
  /\ UNCHANGED <<flushed, buffered, port, line, target, faults>>

(* SerialSend's loop: a buffer that is full is sent at once. *)
SendFull ==
  /\ pc = "send"
  /\ buffered + rest >= Capacity
  /\ SerialSendBytes(Capacity, rest - (Capacity - buffered), "send")

\* A mutant: the buffer may become full.
SendRest_Full ==
  /\ pc = "send"
  /\ buffered + rest <= Capacity
  /\ buffered' = buffered + rest
  /\ rest' = 0
  /\ pc' = "idle"
  /\ UNCHANGED <<wants, flushed, got, port, line, target, faults>>

SendRest ==
  /\ pc = "send"
  /\ buffered + rest < Capacity
  /\ buffered' = buffered + rest
  /\ rest' = 0
  /\ pc' = "idle"
  /\ UNCHANGED <<wants, flushed, got, port, line, target, faults>>

\* Mutants: what is buffered is not flushed.
SerialReceive_NoFlush == pc = "idle" /\ wants = "answer" /\ Goto("reply")
SerialSync_NoFlush == pc = "idle" /\ wants = "sync" /\ Goto("sync")

SerialReceive == pc = "idle" /\ wants = "answer" /\ SerialFlush("reply")
SerialSync    == pc = "idle" /\ wants = "sync" /\ SerialFlush("sync")
SerialWait    == pc = "idle" /\ wants = "go" /\ SerialFlush("wait")

(* SerialRead: a read that times out fails. *)
ReadReply ==
  /\ pc = "reply"
  /\ IF line = <<>> THEN Fail /\ UNCHANGED line
     ELSE /\ got' = IF Head(line).kind = "answer" THEN Head(line).val ELSE 0
          /\ line' = Tail(line)
          /\ pc' = "idle" /\ wants' = "nothing"
          /\ UNCHANGED buffer
  /\ UNCHANGED <<port, target, faults>>

(* TryConnectSerialPort opens the port, at the rate it has or at the one   *)
(* that FindBaudRate finds, breaks, and looks for 0x55; opening empties    *)
(* the line and the break stops the target.                                *)
TryConnect(rate) ==
  /\ line' = <<>>
  /\ running' = FALSE
  /\ \/ /\ rate \in {0, speed}
        /\ handle' = TRUE /\ baud' = speed
     \/ handle' = FALSE /\ baud' = 0

(* SerialSync skips 0x00 and 0xFF.  They are left by a break, and a 0x55   *)
(* at another rate than the port's reads as any byte, these among them.    *)
Skips(byte) == byte.kind \in {"zero", "ones"} \/ (byte.kind = "sync" /\ byte.val # baud)

(* SerialSync: the first byte that is not skipped is 0x55 at the port's    *)
(* rate, or else the rate is searched for.                                 *)
ReadSync ==
  /\ pc = "sync"
  /\ \E i \in 1..Len(line) :
       /\ line[i].kind \notin {"zero", "ones"}
       /\ \A j \in 1..i - 1 : Skips(line[j])
       /\ IF line[i] = B("sync", baud)
          THEN line' = SubSeq(line, i + 1, Len(line)) /\ UNCHANGED <<handle, baud, running>>
          ELSE TryConnect(0)
  /\ pc' = "idle" /\ wants' = "nothing"
  /\ UNCHANGED <<buffer, got, current, speed, heard, faults>>

(* With all bytes skipped, SerialReadByte's loop goes on until one comes.  *)
ReadNothing ==
  /\ pc = "sync"
  /\ \A i \in 1..Len(line) : Skips(line[i])
  /\ line' = <<>>
  /\ UNCHANGED <<pc, wants, buffer, got, port, target, faults>>

(* SerialBreak discards what was received, and stops the target, which     *)
(* answers 0x55.                                                           *)
SerialBreak ==
  /\ running' = FALSE
  /\ \E stray \in Stray, fault \in {"none", "mute"} :
       /\ Occurs(fault)
       /\ line' = stray \o (IF fault = "mute" THEN <<>> ELSE <<B("sync", speed)>>)

SerialBreakAndSync ==
  /\ pc = "break"
  /\ IF buffered = 0
     THEN /\ SerialBreak
          /\ pc' = "sync"
          /\ UNCHANGED <<wants, buffer, got>>
     ELSE Fail /\ UNCHANGED <<running, line, faults>>    \* its Assert
  /\ UNCHANGED <<port, speed, heard>>

(* DwFindPort with the port it has, ConnectSerialPort: another rate, or no *)
(* handle, opens the port anew; else there is only a break.                *)
Connect(rate) ==
  /\ pc = "idle" /\ wants = "nothing"
  /\ IF handle /\ rate \in {0, baud}
     THEN /\ pc' = "break"
          /\ UNCHANGED <<wants, buffer, got, port, line, running>>
     ELSE /\ TryConnect(IF rate = 0 THEN baud ELSE rate)
          /\ current' = handle'
          /\ UNCHANGED <<pc, wants, buffer, got>>
  /\ UNCHANGED <<speed, heard, faults>>

(* GoWaitLoop: something to read means a breakpoint; the user may break.   *)
DeviceBreak   == pc = "wait" /\ line # <<>> /\ Goto("sync")
KeyboardBreak == pc = "wait" /\ line = <<>> /\ Goto("break")

(* The program reaches its breakpoint, perhaps with a new clock rate. *)
Breakpoint ==
  /\ running
  /\ running' = FALSE
  /\ speed' \in Speeds
  /\ line' \in {line \o stray \o <<B("sync", speed')>> : stray \in Stray}
  /\ UNCHANGED <<pc, wants, buffer, got, port, heard, faults>>

HostStep ==
  \/ SendFull \/ SendRest \/ SerialReceive \/ SerialSync \/ SerialWait
  \/ ReadReply \/ ReadSync \/ ReadNothing \/ SerialBreakAndSync \/ DeviceBreak

Next ==
  \/ HostStep \/ KeyboardBreak \/ Breakpoint
  \/ \E n \in 1..MaxSend, w \in Wants : HandOver(n, w)
  \/ \E rate \in Speeds \union {0} : Connect(rate)

Spec == Init /\ [][Next]_vars

(* The host's steps are those of one program that nothing holds up.        *)
FairSpec == Spec /\ WF_vars(HostStep)
-----------------------------------------------------------------------------
TypeOK ==
  /\ pc \in {"idle", "send", "reply", "sync", "wait", "break"}
  /\ wants \in Wants
  /\ flushed \in Nat /\ buffered \in 0..Capacity - 1 /\ rest \in Nat
  /\ got \in Nat
  /\ {handle, current, running} \subseteq BOOLEAN
  /\ baud \in Speeds \union {0} /\ speed \in Speeds
  /\ line \in Seq(Bytes)
  /\ heard \in Nat
  /\ faults \in 0..MaxFaults

(* SerialReceive: an answer that is read answers all bytes handed over,    *)
(* whatever was left on the line before.                                   *)
FreshAnswer == got > 0 => got = flushed /\ buffered = 0

(* GoWaitLoop takes anything to read for a breakpoint: it is one only if   *)
(* nothing was left on the line when the target was started.               *)
BreakpointTrue == pc = "wait" /\ line # <<>> => ~running

(* SerialSendBytes: where nothing collides the target has acted on all     *)
(* that has left the buffer, whatever was dropped before it was sent.      *)
NoHole == heard = flushed

(* Every operation ends, other than waiting for a breakpoint, and for a    *)
(* 0x55 that has come at another rate than the port's.                     *)
OperationsEnd ==
  pc \in {"send", "reply", "sync", "break"} ~> pc \in {"idle", "wait"} \/ (pc = "sync" /\ speed # baud)
=============================================================================
