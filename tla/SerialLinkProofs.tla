-------------------------- MODULE SerialLinkProofs ---------------------------
(***************************************************************************)
(* Proofs about SerialLink, for all buffer sizes, lengths, rates and       *)
(* numbers and kinds of faults: an answer that is read is one to all that  *)
(* was sent, a breakpoint that is reported is one, and, where no byte      *)
(* collides, the link implements the abstract one.                         *)
(***************************************************************************)
EXTENDS SerialLink, Integers, SequenceTheorems, TLAPS

(* What has been handed over for w is sent. *)
Complete(w) == pc \in {"send", "idle"} /\ wants = w /\ w # "nothing" /\ buffered = 0 /\ rest = 0

(* The types, variable by variable. *)
Typed ==
  /\ pc \in {"idle", "send", "reply", "sync", "wait", "break"}
  /\ wants \in Wants
  /\ flushed \in Nat /\ buffered \in 0..Capacity - 1 /\ rest \in Nat
  /\ got \in Nat
  /\ handle \in BOOLEAN /\ current \in BOOLEAN /\ running \in BOOLEAN
  /\ baud \in Speeds \union {0} /\ speed \in Speeds
  /\ line \in Seq(Bytes)
  /\ heard \in Nat
  /\ faults \in 0..MaxFaults

(* What a step of the host may rely on: inside SerialSend there is         *)
(* something to send, and what reads has sent all of the buffer.           *)
Placed ==
  /\ pc # "send" => rest = 0
  /\ pc = "send" /\ rest = 0 => buffered = 0
  /\ pc = "reply" => wants = "answer" /\ buffered = 0
  /\ pc = "wait" => wants = "go" /\ buffered = 0
  /\ pc = "sync" => buffered = 0

(* No byte of these is the echo of byte n or a later one. *)
NoEchoFrom(n, bytes) == \A k \in 1..Len(bytes) : bytes[k].kind = "echo" => bytes[k].val < n

(* The reason why an old echo is never taken for a new one: each echo on   *)
(* the line is one of bytes sent before.                                   *)
Echoes ==
  /\ NoEchoFrom(flushed + buffered + 1, line)
  /\ pc = "idle" /\ wants # "nothing" /\ buffered > 0 => NoEchoFrom(flushed + buffered, line)

(* An answer at the head of the line, before one is read, answers all      *)
(* that was sent.                                                          *)
Answers ==
  /\ pc = "reply" \/ Complete("answer") =>
       (line # <<>> /\ Head(line).kind = "answer" => Head(line).val = flushed /\ heard = flushed /\ ~running)
  /\ got > 0 => pc \in {"idle", "break", "sync"} /\ wants = "nothing" /\ got = flushed /\ buffered = 0

(* Nothing was on the line when the target was started. *)
Started == (pc = "wait" \/ Complete("go")) /\ line # <<>> => ~running

(* The inductive invariant. FreshAnswer and BreakpointTrue are about       *)
(* states in which something was read; what they rest on is the line       *)
(* before, and that is what the echoes of SerialSendBytes protect.         *)
IInv == Typed /\ Placed /\ Echoes /\ Answers /\ Started

(* Without collisions, and while the port is open, the target is at the    *)
(* port's rate and the line empty before bytes are sent, and what is on it *)
(* afterwards is what those bytes make the target answer.                  *)
Quiet == line = <<>> /\ ~running /\ baud = speed
SyncLine ==
  /\ ~running
  /\ \A k \in 1..Len(line) :
       line[k].kind \in {"zero", "ones"} \/ (k = Len(line) /\ line[k] = B("sync", speed))

(* What was handed over for an answer, a synchronisation or a start has    *)
(* all been sent.                                                          *)
Handed == pc \in {"send", "idle"} /\ wants # "nothing" /\ buffered = 0 /\ rest = 0

(* What host and target agree on at each place of the host's program. *)
InStep ==
  /\ pc \in {"send", "idle"} /\ ~Handed => Quiet
  /\ pc = "reply" \/ Complete("answer") =>
       ~running /\ baud = speed /\ line \in {<<>>, <<B("answer", flushed)>>}
  /\ pc = "sync" \/ Complete("sync") => SyncLine
  /\ pc = "wait" \/ Complete("go") => IF running THEN line = <<>> ELSE SyncLine
  /\ pc = "break" => Quiet \/ buffered = 0

(* The invariant for links without collisions. A port that is open has a   *)
(* target at its rate; SerialLink's NoHole is a part.                      *)
LInv == IInv /\ NoHole /\ (handle => InStep)

(* The abstract link: all bytes handed over and not dropped are said, and  *)
(* the answer read is the reply.                                           *)
Link == INSTANCE DwLink WITH
  said <- flushed + buffered + rest, heard <- heard, reply <- got, halted <- ~running
-----------------------------------------------------------------------------
(* A part of a sequence. *)
LEMMA Slice ==
  ASSUME NEW S, NEW s \in Seq(S), NEW m \in 1..Len(s) + 1, NEW n \in m - 1..Len(s)
  PROVE  /\ SubSeq(s, m, n) \in Seq(S) /\ Len(SubSeq(s, m, n)) = n - m + 1
         /\ \A k \in 1..n - m + 1 : SubSeq(s, m, n)[k] = s[m + k - 1]
OBVIOUS

(* Two sequences, one behind the other. *)
LEMMA Joined ==
  ASSUME NEW S, NEW s \in Seq(S), NEW t \in Seq(S)
  PROVE  /\ s \o t \in Seq(S) /\ Len(s) \in Nat /\ Len(t) \in Nat /\ Len(s \o t) = Len(s) + Len(t)
         /\ \A k \in 1..Len(s) : (s \o t)[k] = s[k]
         /\ \A k \in 1..Len(t) : (s \o t)[Len(s) + k] = t[k]
BY ConcatProperties, LenProperties

(* The first bytes of three sequences one behind the other, as many as     *)
(* the second has: the first, and the beginning of the second.             *)
LEMMA Three ==
  ASSUME NEW S, NEW x \in Seq(S), NEW y \in Seq(S), NEW z \in Seq(S)
  PROVE  /\ \A k \in 1..Len(y) :
              SubSeq(x \o y \o z, 1, Len(y))[k] = IF k <= Len(x) THEN x[k] ELSE y[k - Len(x)]
         /\ SubSeq(x \o y \o z, 1, Len(y)) \in Seq(S) /\ Len(SubSeq(x \o y \o z, 1, Len(y))) = Len(y)
         /\ SubSeq(x \o y \o z, Len(y) + 1, Len(x \o y \o z)) \in Seq(S)
         /\ Len(x) = 0 => SubSeq(x \o y \o z, Len(y) + 1, Len(x \o y \o z)) = z
<1> DEFINE a == x \o y
           b == a \o z
           n == Len(y)
<1>0. n \in Nat
  BY LenProperties
<1>1. /\ a \in Seq(S) /\ Len(x) \in Nat /\ Len(a) = Len(x) + n
      /\ \A k \in 1..Len(x) + n : a[k] = IF k <= Len(x) THEN x[k] ELSE y[k - Len(x)]
  BY ConcatProperties, LenProperties
<1> HIDE DEF a
<1>2. /\ b \in Seq(S) /\ Len(z) \in Nat /\ Len(b) = Len(a) + Len(z)
      /\ \A k \in 1..Len(a) + Len(z) : b[k] = IF k <= Len(a) THEN a[k] ELSE z[k - Len(a)]
  <2>1. a \in Seq(S)
    BY <1>1
  <2>2. QED BY <2>1, ConcatProperties, LenProperties
<1> HIDE DEF b
<1>3. /\ SubSeq(b, 1, n) \in Seq(S) /\ Len(SubSeq(b, 1, n)) = n
      /\ \A k \in 1..n : SubSeq(b, 1, n)[k] = IF k <= Len(x) THEN x[k] ELSE y[k - Len(x)]
  <2>1. n \in 1 - 1..Len(b) /\ 1 \in 1..Len(b) + 1
    BY <1>1, <1>2
  <2>2. /\ SubSeq(b, 1, n) \in Seq(S) /\ Len(SubSeq(b, 1, n)) = n - 1 + 1
        /\ \A k \in 1..n - 1 + 1 : SubSeq(b, 1, n)[k] = b[1 + k - 1]
    BY <1>2, <2>1, Slice, Zenon
  <2>3. \A k \in 1..n : SubSeq(b, 1, n)[k] = b[k]
    BY <2>2
  <2>4. \A k \in 1..n : b[k] = IF k <= Len(x) THEN x[k] ELSE y[k - Len(x)]
    BY <1>1, <1>2
  <2>5. QED BY <1>0, <2>2, <2>3, <2>4
<1>4. SubSeq(b, n + 1, Len(b)) \in Seq(S)
  <2>1. n + 1 \in 1..Len(b) + 1 /\ Len(b) \in (n + 1) - 1..Len(b)
    BY <1>1, <1>2
  <2>2. QED BY <1>2, <2>1, Slice, Zenon
<1>5. ASSUME Len(x) = 0 PROVE SubSeq(b, n + 1, Len(b)) = z
  <2> DEFINE t == SubSeq(b, n + 1, Len(b))
  <2>1. n + 1 \in 1..Len(b) + 1 /\ Len(b) \in (n + 1) - 1..Len(b)
    BY <1>1, <1>2
  <2>2. /\ t \in Seq(S) /\ Len(t) = Len(b) - (n + 1) + 1
        /\ \A k \in 1..Len(b) - (n + 1) + 1 : t[k] = b[n + 1 + k - 1]
    BY <1>2, <2>1, Slice, Zenon
  <2> HIDE DEF t
  <2>3. Len(t) = Len(z) /\ \A k \in 1..Len(t) : t[k] = z[k]
    <3>1. Len(a) = n /\ Len(b) = n + Len(z) /\ Len(z) \in Nat
      BY <1>1, <1>2, <1>5
    <3>2. Len(t) = Len(z)
      BY <2>2, <3>1
    <3>3. \A k \in 1..Len(z) : t[k] = b[n + k]
      BY <2>2, <3>1
    <3>4. \A k \in 1..Len(z) : b[n + k] = z[k]
      BY <1>2, <3>1
    <3>5. QED BY <3>2, <3>3, <3>4
  <2>4. t = z
    BY <2>2, <2>3, SeqEqual
  <2>5. QED BY <2>4 DEF t
<1>6. QED BY <1>3, <1>4, <1>5 DEF a, b, n

(* These bytes, one by one. *)
LEMMA Front ==
  ASSUME NEW S, NEW x \in Seq(S), NEW y \in Seq(S), NEW z \in Seq(S)
  PROVE  \A k \in 1..Len(y) :
           SubSeq(x \o y \o z, 1, Len(y))[k] = IF k <= Len(x) THEN x[k] ELSE y[k - Len(x)]
BY Three

(* How many these bytes are. *)
LEMMA FrontSeq ==
  ASSUME NEW S, NEW x \in Seq(S), NEW y \in Seq(S), NEW z \in Seq(S)
  PROVE  Len(SubSeq(x \o y \o z, 1, Len(y))) = Len(y)
BY Three

(* What is behind them when the first sequence is empty: the third. *)
LEMMA Back ==
  ASSUME NEW S, NEW x \in Seq(S), NEW y \in Seq(S), NEW z \in Seq(S), Len(x) = 0
  PROVE  SubSeq(x \o y \o z, Len(y) + 1, Len(x \o y \o z)) = z
BY Three

(* A sequence of one. *)
LEMMA One == ASSUME NEW S, NEW a \in S PROVE <<a>> \in Seq(S) /\ Len(<<a>>) = 1 /\ <<a>>[1] = a
OBVIOUS

(* The fields of a byte, and its type. *)
LEMMA ByteFields ==
  /\ \A k, v : B(k, v).kind = k /\ B(k, v).val = v
  /\ \A v \in Nat : \A k \in {"echo", "answer", "sync", "zero", "ones", "junk"} : B(k, v) \in Bytes
BY DEF B, Bytes

(* The numbers of bytes are numbers. *)
LEMMA Values ==
  ASSUME NEW s \in Seq(Bytes)
  PROVE  \A k \in 1..Len(s) : s[k].val \in Nat
<1>1. \A k \in 1..Len(s) : s[k] \in Bytes
  BY ElementOfSeq
<1>2. QED BY <1>1 DEF Bytes

(* The echo of the bytes sent, one by one. *)
LEMMA EchoSeq ==
  ASSUME flushed \in Nat, NEW len \in Nat
  PROVE  /\ Echo(len) \in Seq(Bytes) /\ Len(Echo(len)) = len
         /\ \A j \in 1..len : Echo(len)[j] = B("echo", flushed + j)
<1>1. \A j \in 1..len : B("echo", flushed + j) \in Bytes
  BY ByteFields
<1>2. QED BY <1>1 DEF Echo

(* After a failure no echo on the line is that of a byte that is not sent  *)
(* yet.                                                                    *)
LEMMA ForgottenSeq ==
  ASSUME Typed, NEW s \in Seq(Bytes)
  PROVE  Forgotten(s) \in Seq(Bytes) /\ NoEchoFrom(flushed + buffered + 1, Forgotten(s))
<1> DEFINE f == Forgotten(s)
<1>1. Len(s) \in Nat /\ \A k \in 1..Len(s) : s[k] \in Bytes
  BY LenProperties, ElementOfSeq
<1>2. B("junk", 0) \in Bytes /\ B("junk", 0).kind = "junk"
  BY ByteFields
<1>3. f \in Seq(Bytes) /\ Len(f) = Len(s)
  BY <1>1, <1>2 DEF Forgotten
<1>4. \A k \in 1..Len(s) :
        f[k] = IF s[k].kind = "echo" /\ s[k].val > flushed + buffered THEN B("junk", 0) ELSE s[k]
  BY <1>1 DEF Forgotten
<1> HIDE DEF f
<1>5. ASSUME NEW k \in 1..Len(f), f[k].kind = "echo" PROVE f[k].val < flushed + buffered + 1
  <2>1. f[k] = s[k] /\ ~(s[k].val > flushed + buffered)
    BY <1>2, <1>3, <1>4, <1>5
  <2>2. s[k].val \in Nat /\ flushed \in Nat /\ buffered \in Nat
    BY <1>1, <1>3 DEF Bytes, Typed
  <2>3. QED BY <2>1, <2>2
<1>6. QED BY <1>3, <1>5 DEF f, NoEchoFrom

(* The echo is only found when the line was empty: an older echo that was  *)
(* left there would have to be the echo of bytes not sent before.          *)
LEMMA Match ==
  ASSUME Typed, NEW echo \in Seq(Bytes), NEW reply \in Seq(Bytes), NEW len \in Nat \ {0}
  PROVE  /\ Len(echo) = len /\ NoEchoFrom(flushed + len, line)
         /\ \A j \in 1..len : echo[j] = B("echo", flushed + j) \/ echo[j] = B("junk", 0)
         /\ SubSeq(line \o echo \o reply, 1, len) = Echo(len)
         => /\ line = <<>> /\ echo = Echo(len)
            /\ SubSeq(line \o echo \o reply, len + 1, Len(line \o echo \o reply)) = reply
<1>0. line \in Seq(Bytes)
  BY DEF Typed
<1>1. Len(line) \in Nat
  BY <1>0, LenProperties
<1>2. \A k \in 1..Len(echo) : SubSeq(line \o echo \o reply, 1, Len(echo))[k] =
                               IF k <= Len(line) THEN line[k] ELSE echo[k - Len(line)]
  BY <1>0, Front, Zenon
<1>10. Len(line) = 0 =>
         SubSeq(line \o echo \o reply, Len(echo) + 1, Len(line \o echo \o reply)) = reply
  BY <1>0, Back, Zenon
<1> SUFFICES ASSUME Len(echo) = len, NoEchoFrom(flushed + len, line),
                    \A j \in 1..len : echo[j] = B("echo", flushed + j) \/ echo[j] = B("junk", 0),
                    SubSeq(line \o echo \o reply, 1, len) = Echo(len)
             PROVE  /\ line = <<>> /\ echo = Echo(len)
                    /\ SubSeq(line \o echo \o reply, len + 1, Len(line \o echo \o reply)) = reply
  OBVIOUS
<1>3. \A k \in 1..len :
        B("echo", flushed + k) = IF k <= Len(line) THEN line[k] ELSE echo[k - Len(line)]
  <2>1. \A k \in 1..len : Echo(len)[k] = B("echo", flushed + k)
    BY EchoSeq DEF Typed
  <2>2. QED BY <1>2, <2>1
<1>4. Len(line) = 0
  <2>1. ASSUME Len(line) >= len PROVE FALSE
    <3>1. B("echo", flushed + len) = line[len] /\ len \in 1..Len(line)
      BY <1>1, <1>3, <2>1
    <3>2. line[len].kind = "echo" /\ line[len].val = flushed + len
      BY <3>1, ByteFields
    <3>3. QED BY <3>1, <3>2 DEF NoEchoFrom, Typed
  <2>2. ASSUME Len(line) < len, Len(line) > 0 PROVE FALSE
    <3> DEFINE m == Len(line) + 1
    <3>1. m \in 1..len /\ ~(m <= Len(line)) /\ m - Len(line) = 1
      BY <1>1, <2>2
    <3>2. B("echo", flushed + m) = echo[1]
      BY <1>3, <3>1
    <3> HIDE DEF m
    <3>3. echo[1].kind = "echo" /\ echo[1].val = flushed + m
      BY <3>2, ByteFields
    <3>4. echo[1] = B("echo", flushed + 1) \/ echo[1] = B("junk", 0)
      OBVIOUS
    <3>5. echo[1].val = flushed + 1
      BY <3>3, <3>4, ByteFields
    <3>6. QED BY <1>1, <2>2, <3>3, <3>5 DEF Typed, m
  <2>3. QED BY <1>1, <2>1, <2>2
<1>5. line = <<>>
  BY <1>4, EmptySeq DEF Typed
<1>6. echo = Echo(len)
  <2>1. \A j \in 1..len : echo[j] = B("echo", flushed + j)
    BY <1>3, <1>4
  <2>2. Echo(len) \in Seq(Bytes) /\ Len(Echo(len)) = len
        /\ \A j \in 1..len : Echo(len)[j] = B("echo", flushed + j)
    BY EchoSeq DEF Typed
  <2>3. QED BY <2>1, <2>2, SeqEqual
<1>7. QED BY <1>4, <1>5, <1>6, <1>10

(* An undisturbed echo on an empty line is found. *)
LEMMA EchoFound ==
  ASSUME NEW S, NEW x \in Seq(S), NEW y \in Seq(S), NEW z \in Seq(S)
  PROVE  Len(x) = 0 => SubSeq(x \o y \o z, 1, Len(y)) = y
<1> DEFINE t == SubSeq(x \o y \o z, 1, Len(y))
<1>1. /\ \A k \in 1..Len(y) : t[k] = IF k <= Len(x) THEN x[k] ELSE y[k - Len(x)]
      /\ t \in Seq(S) /\ Len(t) = Len(y)
  BY Three
<1> HIDE DEF t
<1>2. Len(y) \in Nat
  BY LenProperties
<1>3. Len(x) = 0 => \A k \in 1..Len(t) : t[k] = y[k]
  BY <1>1, <1>2
<1>4. Len(x) = 0 => t = y
  BY <1>1, <1>3, SeqEqual
<1>5. QED BY <1>4 DEF t

(* On an empty line the echo that is not disturbed is read back as it was  *)
(* sent.                                                                   *)
LEMMA NoMismatch ==
  ASSUME Typed, NEW len \in Nat \ {0}, NEW reply \in Seq(Bytes)
  PROVE  line = <<>> => SubSeq(line \o Echo(len) \o reply, 1, len) = Echo(len)
<1> DEFINE e == Echo(len)
<1>1. e \in Seq(Bytes) /\ Len(e) = len
  BY EchoSeq DEF Typed
<1>2. line \in Seq(Bytes)
  BY DEF Typed
<1>3. line = <<>> => Len(line) = 0
  BY EmptySeq
<1> HIDE DEF e
<1>4. e \in Seq(Bytes)
  BY <1>1
<1>5. Len(line) = 0 => SubSeq(line \o e \o reply, 1, Len(e)) = e
  BY <1>2, <1>4, EchoFound, Zenon
<1>6. QED BY <1>1, <1>3, <1>5 DEF e

(* What the target may answer is a sequence of bytes. *)
LEMMA ReplySeq ==
  ASSUME SerialAssumption, Typed, NEW len \in Nat, NEW reply \in Replies(len)
  PROVE  reply \in Seq(Bytes)
<1>1. \A b \in Bytes : <<b>> \in Seq(Bytes)
  BY One
<1>2. B("answer", flushed + len) \in Bytes /\ \A s \in Speeds : B("sync", s) \in Bytes
  BY ByteFields DEF Typed, SerialAssumption
<1>3. <<>> \in Seq(Bytes)
  BY EmptySeq
<1>4. QED BY <1>1, <1>2, <1>3 DEF Replies
-----------------------------------------------------------------------------
(* The two ends of SerialSendBytes. *)
Success(len, left, next) ==
  /\ handle /\ line = <<>>
  /\ \E fault \in {"none", "mute"} : Occurs(fault) /\ Deliver(len, left = 0, fault, line')
  /\ line' \in Replies(len)
  /\ Sent(len, next) /\ rest' = left
  /\ UNCHANGED port
Failed ==
  /\ Fail
  /\ line' \in Seq(Bytes) /\ NoEchoFrom(flushed + buffered + 1, line')
  /\ running' \in BOOLEAN /\ speed' \in Speeds /\ heard' \in Nat /\ faults' \in 0..MaxFaults
  /\ UNCHANGED port
  /\ \/ UNCHANGED <<line, target, faults>>
     \/ handle /\ (line # <<>> \/ "collision" \in Faults)

(* The target's variables keep their types when bytes arrive. *)
LEMMA Delivered ==
  ASSUME SerialAssumption, Typed, NEW len \in Nat, NEW complete \in BOOLEAN, NEW fault, NEW reply,
         Occurs(fault), Deliver(len, complete, fault, reply)
  PROVE  running' \in BOOLEAN /\ speed' \in Speeds /\ heard' \in Nat /\ faults' \in 0..MaxFaults
<1>1. faults' \in 0..MaxFaults
  BY DEF Occurs, Typed, SerialAssumption
<1>2. heard' \in Nat
  BY DEF Deliver, Typed
<1>3. running' \in BOOLEAN
  BY DEF Deliver, Typed
<1>4. speed' \in Speeds
  BY DEF Deliver, Typed
<1>5. QED BY <1>1, <1>2, <1>3, <1>4

(* SerialSendBytes: either the line was empty, the echo is undisturbed     *)
(* and what the line is left with is the target's answer, or it fails. An  *)
(* echo is never matched by what an earlier failure has left.              *)
LEMMA Sending ==
  ASSUME SerialAssumption, Typed, Echoes, NEW len \in Nat \ {0}, NEW left \in Nat, NEW next,
         NoEchoFrom(flushed + len, line), SerialSendBytes(len, left, next)
  PROVE  Success(len, left, next) \/ Failed
<1>1. CASE ~handle
  BY <1>1 DEF SerialSendBytes, Failed, Fail, Typed, Echoes, target
<1>2. CASE handle
  <2> DEFINE Disturbed(fault, i) ==
        IF fault = "collision" THEN [Echo(len) EXCEPT ![i] = B("junk", 0)] ELSE Echo(len)
  <2>1. PICK fault \in {"none", "collision", "mute"}, reply \in Replies(len), i \in 1..len :
          LET arrived == line \o Disturbed(fault, i) \o reply
          IN  /\ Occurs(fault)
              /\ Deliver(len, left = 0, fault, reply)
              /\ IF SubSeq(arrived, 1, len) = Echo(len)
                 THEN /\ line' = SubSeq(arrived, len + 1, Len(arrived))
                      /\ Sent(len, next) /\ rest' = left
                 ELSE /\ line' = Forgotten(SubSeq(arrived, len + 1, Len(arrived)))
                      /\ Fail
    BY <1>2 DEF SerialSendBytes
  <2>2. UNCHANGED port
    BY <1>2 DEF SerialSendBytes
  <2> DEFINE echo == Disturbed(fault, i)
             arrived == line \o echo \o reply
  <2>3. /\ echo \in Seq(Bytes) /\ Len(echo) = len
        /\ \A j \in 1..len : echo[j] = B("echo", flushed + j) \/ echo[j] = B("junk", 0)
        /\ fault = "collision" => echo[i] = B("junk", 0)
        /\ fault # "collision" => echo = Echo(len)
    <3>1. /\ Echo(len) \in Seq(Bytes) /\ Len(Echo(len)) = len
          /\ \A j \in 1..len : Echo(len)[j] = B("echo", flushed + j)
      BY EchoSeq DEF Typed
    <3>2. B("junk", 0) \in Bytes
      BY ByteFields
    <3>3. QED BY <3>1, <3>2, ExceptSeq
  <2>4. reply \in Seq(Bytes)
    BY ReplySeq
  <2>5. /\ Occurs(fault) /\ Deliver(len, left = 0, fault, reply)
        /\ IF SubSeq(arrived, 1, len) = Echo(len)
           THEN /\ line' = SubSeq(arrived, len + 1, Len(arrived))
                /\ Sent(len, next) /\ rest' = left
           ELSE /\ line' = Forgotten(SubSeq(arrived, len + 1, Len(arrived)))
                /\ Fail
    BY <2>1
  <2>6. running' \in BOOLEAN /\ speed' \in Speeds /\ heard' \in Nat /\ faults' \in 0..MaxFaults
    BY <2>5, Delivered
  <2> HIDE DEF echo
  <2>7. CASE SubSeq(arrived, 1, len) = Echo(len)
    <3>1. line = <<>> /\ echo = Echo(len) /\ SubSeq(arrived, len + 1, Len(arrived)) = reply
      BY <2>3, <2>4, <2>7, Match, ZenonT(60), SMTT(60)
    <3>2. fault # "collision"
      <4>1. Echo(len)[i] = B("echo", flushed + i)
        BY EchoSeq DEF Typed
      <4>2. B("echo", flushed + i) # B("junk", 0)
        BY ByteFields
      <4>3. QED BY <2>3, <3>1, <4>1, <4>2
    <3>3. line' = reply /\ Sent(len, next) /\ rest' = left
      BY <2>5, <2>7, <3>1
    <3>4. Occurs(fault) /\ Deliver(len, left = 0, fault, line') /\ fault \in {"none", "mute"}
      BY <2>5, <3>2, <3>3
    <3>5. line' \in Replies(len)
      BY <3>3
    <3>6. QED BY <1>2, <2>2, <3>1, <3>3, <3>4, <3>5 DEF Success
  <2>8. CASE SubSeq(arrived, 1, len) # Echo(len)
    <3> DEFINE t == SubSeq(arrived, len + 1, Len(arrived))
    <3>1. t \in Seq(Bytes)
      <4>1. line \in Seq(Bytes) /\ echo \in Seq(Bytes)
        BY <2>3 DEF Typed
      <4>2. SubSeq(line \o echo \o reply, Len(echo) + 1, Len(line \o echo \o reply)) \in Seq(Bytes)
        BY <2>4, <4>1, Three, Zenon
      <4>3. Len(echo) = len
        BY <2>3
      <4>4. QED BY <4>2, <4>3, Zenon
    <3>2. line' = Forgotten(t) /\ Fail
      BY <2>5, <2>8
    <3> HIDE DEF t
    <3>3. line' \in Seq(Bytes) /\ NoEchoFrom(flushed + buffered + 1, line')
      BY <3>1, <3>2, ForgottenSeq
    <3>4. line = <<>> => fault = "collision"
      <4>1. line = <<>> /\ fault # "collision" => SubSeq(line \o echo \o reply, 1, len) = Echo(len)
        BY <2>3, <2>4, NoMismatch
      <4>2. QED BY <2>8, <4>1
    <3>5. fault = "collision" => "collision" \in Faults
      BY <2>5 DEF Occurs
    <3>6. QED BY <1>2, <2>2, <2>6, <3>2, <3>3, <3>4, <3>5 DEF Failed
  <2>9. QED BY <2>7, <2>8
<1>3. QED BY <1>1, <1>2

(* What an answer on the line says after bytes have been sent. *)
LEMMA Answered ==
  ASSUME SerialAssumption, Typed, NEW len \in Nat \ {0}, NEW left \in Nat, NEW next, Success(len, left, next)
  PROVE  /\ line' \in Seq(Bytes) /\ NoEchoFrom(0, line')
         /\ running' \in BOOLEAN /\ speed' \in Speeds /\ heard' \in Nat /\ faults' \in 0..MaxFaults
         /\ wants = "answer" /\ line' # <<>> =>
              Head(line').val = flushed + len /\ heard' = flushed + len /\ ~running'
         /\ wants = "go" => line' = <<>>
<1>1. PICK fault \in {"none", "mute"} : Occurs(fault) /\ Deliver(len, left = 0, fault, line')
  BY DEF Success
<1>2. running' \in BOOLEAN /\ speed' \in Speeds /\ heard' \in Nat /\ faults' \in 0..MaxFaults
  BY <1>1, Delivered
<1>3. line' \in Seq(Bytes)
  BY ReplySeq DEF Success
<1>4. NoEchoFrom(0, line')
  <2>1. \A b \in Bytes : Len(<<b>>) = 1 /\ <<b>>[1] = b
    BY One
  <2>2. B("answer", flushed + len) \in Bytes /\ \A s \in Speeds : B("sync", s) \in Bytes
    BY ByteFields DEF Typed, SerialAssumption
  <2>3. B("answer", flushed + len).kind # "echo" /\ \A s \in Speeds : B("sync", s).kind # "echo"
    BY ByteFields
  <2>4. CASE line' = <<>>
    BY <2>4 DEF NoEchoFrom
  <2>5. CASE line' = <<B("answer", flushed + len)>>
    BY <2>1, <2>2, <2>3, <2>5 DEF NoEchoFrom
  <2>6. CASE \E s \in Speeds : line' = <<B("sync", s)>>
    BY <2>1, <2>2, <2>3, <2>6 DEF NoEchoFrom
  <2>7. QED BY <2>4, <2>5, <2>6 DEF Success, Replies
<1>5. ASSUME wants = "answer", line' # <<>>
      PROVE  Head(line').val = flushed + len /\ heard' = flushed + len /\ ~running'
  <2>1. /\ ~running /\ baud = speed
        /\ line' = <<B("answer", flushed + len)>>
        /\ heard' = flushed + len
        /\ running' = running
    BY <1>1, <1>5 DEF Deliver, Typed
  <2>2. Head(line') = B("answer", flushed + len)
    BY <2>1
  <2>3. QED BY <2>1, <2>2, ByteFields
<1>6. wants = "go" => line' = <<>>
  BY <1>1 DEF Deliver
<1>7. QED BY <1>2, <1>3, <1>4, <1>5, <1>6

(* Where a sending that succeeds leads. *)
Leads(left, next) ==
  \/ next = "send"
  \/ left = 0 /\ <<next, wants>> \in {<<"reply", "answer">>, <<"sync", "sync">>, <<"wait", "go">>}

(* Bytes that were sent keep the invariant, wherever that leads. *)
LEMMA SuccessKept ==
  ASSUME SerialAssumption, IInv, NEW len \in Nat \ {0}, NEW left \in Nat, NEW next,
         pc = "send" \/ wants # "nothing", pc \in {"send", "idle"},
         Leads(left, next), Success(len, left, next)
  PROVE  IInv'
<1>1. /\ line' \in Seq(Bytes) /\ NoEchoFrom(0, line')
      /\ running' \in BOOLEAN /\ speed' \in Speeds /\ heard' \in Nat /\ faults' \in 0..MaxFaults
      /\ wants = "answer" /\ line' # <<>> =>
           Head(line').val = flushed + len /\ heard' = flushed + len /\ ~running'
      /\ wants = "go" => line' = <<>>
  BY Answered DEF IInv
<1>2. /\ flushed' = flushed + len /\ buffered' = 0 /\ pc' = next /\ rest' = left
      /\ UNCHANGED <<wants, got, handle, baud, current>>
  BY DEF Success, Sent, port
<1>3. next \in {"send", "reply", "sync", "wait"}
  BY DEF Leads
<1>4. Typed'
  <2>1. flushed' \in Nat /\ buffered' \in 0..Capacity - 1
    BY <1>2 DEF IInv, Typed, SerialAssumption
  <2>2. QED BY <1>1, <1>2, <1>3, <2>1 DEF IInv, Typed
<1>5. Placed'
  BY <1>2 DEF Placed, Leads
<1>6. Echoes'
  <2>1. flushed' \in Nat /\ buffered' \in Nat
    BY <1>2 DEF IInv, Typed
  <2>2. \A n \in Nat : NoEchoFrom(n, line')
    <3>1. line' \in Seq(Bytes)
      BY <1>1
    <3>2. \A k \in 1..Len(line') : line'[k].val \in Nat
      BY <3>1, Values, Zenon
    <3>3. QED BY <1>1, <3>2 DEF NoEchoFrom
  <2>3. QED BY <2>1, <2>2 DEF Echoes
<1>7. Answers'
  <2>1. got' = 0
    BY <1>2 DEF IInv, Answers, Typed
  <2>2. pc' = "reply" \/ Complete("answer")' => wants = "answer"
    BY <1>2 DEF Leads, Complete
  <2>3. QED BY <1>1, <1>2, <2>1, <2>2 DEF Answers
<1>8. Started'
  BY <1>1, <1>2 DEF Started, Complete, Leads
<1>9. QED BY <1>4, <1>5, <1>6, <1>7, <1>8 DEF IInv

(* A failed SerialSendBytes keeps the invariant. *)
LEMMA FailedKept ==
  ASSUME SerialAssumption, IInv, Failed PROVE IInv'
<1>1. /\ pc' = "idle" /\ wants' = "nothing" /\ rest' = 0 /\ UNCHANGED <<flushed, buffered, got>>
      /\ UNCHANGED <<handle, baud, current>>
  BY DEF Failed, Fail, port
<1>2. Typed'
  BY <1>1 DEF IInv, Typed, Failed, Wants
<1>3. Placed' /\ Started'
  BY <1>1 DEF Placed, Started, Complete
<1>4. Echoes'
  BY <1>1 DEF Failed, Echoes
<1>5. Answers'
  BY <1>1 DEF IInv, Answers, Complete
<1>6. QED BY <1>2, <1>3, <1>4, <1>5 DEF IInv

(* SerialSend, for a full buffer, keeps the invariant. *)
LEMMA SendFullKept == ASSUME SerialAssumption, IInv, SendFull PROVE IInv'
<1>1. Capacity \in Nat \ {0} /\ rest - (Capacity - buffered) \in Nat
  BY DEF SerialAssumption, IInv, Typed, SendFull
<1>2. NoEchoFrom(flushed + Capacity, line)
  <2>1. \A k \in 1..Len(line) : line[k].val \in Nat
    <3>1. line \in Seq(Bytes)
      BY DEF IInv, Typed
    <3>2. QED BY <3>1, Values, Zenon
  <2>2. flushed + buffered + 1 <= flushed + Capacity /\ flushed + buffered \in Nat /\ flushed + Capacity \in Nat
    BY DEF IInv, Typed, SerialAssumption
  <2>3. QED BY <2>1, <2>2 DEF IInv, Echoes, NoEchoFrom
<1>3. SerialSendBytes(Capacity, rest - (Capacity - buffered), "send") /\ pc = "send"
  BY DEF SendFull
<1>4. Success(Capacity, rest - (Capacity - buffered), "send") \/ Failed
  BY <1>1, <1>2, <1>3, Sending DEF IInv
<1>5. QED BY <1>1, <1>3, <1>4, SuccessKept, FailedKept DEF Leads

(* SerialSend, for the bytes that stay in the buffer, keeps the            *)
(* invariant.                                                              *)
LEMMA SendRestKept == ASSUME SerialAssumption, IInv, SendRest PROVE IInv'
<1>1. /\ pc = "send" /\ pc' = "idle" /\ buffered' = buffered + rest /\ rest' = 0
      /\ UNCHANGED <<wants, flushed, got, handle, baud, current, line, speed, running, heard, faults>>
  BY DEF SendRest, port, target
<1>2. Typed'
  BY <1>1 DEF IInv, Typed, SendRest, SerialAssumption
<1>3. Placed'
  BY <1>1 DEF Placed
<1>4. Echoes'
  <2>1. \A k \in 1..Len(line) : line[k].val \in Nat
    <3>1. line \in Seq(Bytes)
      BY DEF IInv, Typed
    <3>2. QED BY <3>1, Values, Zenon
  <2>2. flushed \in Nat /\ buffered \in Nat /\ rest \in Nat
    BY DEF IInv, Typed
  <2>3. buffered' > 0 => rest > 0
    BY <1>1, <2>2 DEF IInv, Placed
  <2>4. NoEchoFrom(flushed' + buffered' + 1, line')
    BY <1>1, <2>1, <2>2 DEF IInv, Echoes, NoEchoFrom
  <2>5. buffered' > 0 => NoEchoFrom(flushed' + buffered', line')
    BY <1>1, <2>1, <2>2, <2>3 DEF IInv, Echoes, NoEchoFrom
  <2>6. QED BY <2>4, <2>5 DEF Echoes
<1>5. Complete("answer")' => Complete("answer")
  BY <1>1 DEF Complete, IInv, Typed
<1>6. Complete("go")' => Complete("go")
  BY <1>1 DEF Complete, IInv, Typed
<1>7. Answers'
  BY <1>1, <1>5 DEF IInv, Answers
<1>8. Started'
  BY <1>1, <1>6 DEF IInv, Started
<1>9. QED BY <1>2, <1>3, <1>4, <1>7, <1>8 DEF IInv

(* SerialFlush with nothing left in the buffer. *)
LEMMA GotoKept ==
  ASSUME SerialAssumption, IInv, pc = "idle", buffered = 0, NEW next, Goto(next),
         <<next, wants>> \in {<<"reply", "answer">>, <<"sync", "sync">>, <<"wait", "go">>}
  PROVE  IInv'
<1>1. /\ pc' = next /\ rest = 0
      /\ UNCHANGED <<wants, flushed, buffered, rest, got, handle, baud, current, line, speed, running, heard, faults>>
  BY DEF Goto, buffer, port, target, IInv, Placed
<1>2. Typed'
  BY <1>1 DEF IInv, Typed
<1>3. Placed' /\ Echoes'
  BY <1>1 DEF IInv, Placed, Echoes
<1>4. Answers'
  BY <1>1 DEF IInv, Answers, Complete
<1>5. Started'
  BY <1>1 DEF IInv, Started, Complete
<1>6. QED BY <1>2, <1>3, <1>4, <1>5 DEF IInv

(* SerialReceive, SerialSync and SerialWait keep the invariant, up to      *)
(* their flush.                                                            *)
LEMMA FlushKept ==
  ASSUME SerialAssumption, IInv, SerialReceive \/ SerialSync \/ SerialWait PROVE IInv'
<1>1. PICK next :
        /\ pc = "idle" /\ SerialFlush(next)
        /\ <<next, wants>> \in {<<"reply", "answer">>, <<"sync", "sync">>, <<"wait", "go">>}
  BY DEF SerialReceive, SerialSync, SerialWait
<1>2. CASE buffered > 0
  <2>1. SerialSendBytes(buffered, 0, next)
    BY <1>1, <1>2 DEF SerialFlush
  <2>2. buffered \in Nat \ {0} /\ NoEchoFrom(flushed + buffered, line)
    BY <1>1, <1>2 DEF IInv, Typed, Echoes
  <2>3. Success(buffered, 0, next) \/ Failed
    BY <2>1, <2>2, Sending DEF IInv
  <2>4. QED BY <1>1, <2>2, <2>3, SuccessKept, FailedKept DEF Leads
<1>3. CASE ~(buffered > 0)
  BY <1>1, <1>3, GotoKept DEF SerialFlush, IInv, Typed
<1>4. QED BY <1>2, <1>3

(* SerialRead keeps the invariant: the answer it reads is one to all that  *)
(* was sent.                                                               *)
LEMMA ReadReplyKept == ASSUME SerialAssumption, IInv, ReadReply PROVE IInv'
<1>1. pc = "reply" /\ UNCHANGED <<handle, baud, current, speed, running, heard, faults>>
  BY DEF ReadReply, port, target
<1>2. CASE line = <<>>
  <2>1. Failed
    <3>1. Fail /\ UNCHANGED line
      BY <1>2 DEF ReadReply
    <3>2. NoEchoFrom(flushed + buffered + 1, line)
      BY DEF IInv, Echoes
    <3>3. QED BY <1>1, <3>1, <3>2 DEF Failed, IInv, Typed, port, target
  <2>2. QED BY <2>1, FailedKept
<1>3. CASE line # <<>>
  <2>1. /\ got' = IF Head(line).kind = "answer" THEN Head(line).val ELSE 0
        /\ line' = Tail(line) /\ pc' = "idle" /\ wants' = "nothing"
        /\ UNCHANGED <<flushed, buffered, rest>>
    BY <1>3 DEF ReadReply, buffer
  <2>2. /\ line' \in Seq(Bytes) /\ Len(line') = Len(line) - 1 /\ Len(line) \in Nat \ {0}
        /\ \A k \in 1..Len(line') : line'[k] = line[k + 1]
    <3>1. line \in Seq(Bytes)
      BY DEF IInv, Typed
    <3>2. QED BY <1>3, <2>1, <3>1, HeadTailProperties, LenProperties
  <2>3. got' \in Nat /\ (got' > 0 => got' = flushed)
    BY <1>1, <1>3, <2>1 DEF IInv, Answers, Typed
  <2>4. Typed'
    BY <1>1, <2>1, <2>2, <2>3 DEF IInv, Typed, Wants
  <2>5. Placed' /\ Started'
    BY <1>1, <2>1 DEF IInv, Placed, Started, Complete
  <2>6. Echoes'
    <3>1. NoEchoFrom(flushed + buffered + 1, line')
      BY <2>2 DEF IInv, Echoes, NoEchoFrom
    <3>2. QED BY <2>1, <3>1 DEF Echoes
  <2>7. Answers'
    BY <1>1, <2>1, <2>3 DEF Answers, Complete, IInv, Placed
  <2>8. QED BY <2>4, <2>5, <2>6, <2>7 DEF IInv
<1>4. QED BY <1>2, <1>3

(* There is no echo on an empty line. *)
LEMMA NoEchoEmpty == \A n : NoEchoFrom(n, <<>>)
<1>1. Len(<<>>) = 0
  BY EmptySeq
<1>2. QED BY <1>1 DEF NoEchoFrom

(* SerialSync keeps the invariant, with the 0x55 found or with the port    *)
(* opened anew.                                                            *)
LEMMA ReadSyncKept == ASSUME SerialAssumption, IInv, ReadSync PROVE IInv'
<1>1. /\ pc = "sync" /\ pc' = "idle" /\ wants' = "nothing"
      /\ UNCHANGED <<flushed, buffered, rest, got, current, speed, heard, faults>>
  BY DEF ReadSync, buffer
<1>2. line \in Seq(Bytes)
  BY DEF IInv, Typed
<1>3. PICK i \in 1..Len(line) :
        IF line[i] = B("sync", baud)
        THEN line' = SubSeq(line, i + 1, Len(line)) /\ UNCHANGED <<handle, baud, running>>
        ELSE TryConnect(0)
  BY DEF ReadSync
<1>4. /\ line' \in Seq(Bytes) /\ NoEchoFrom(flushed + buffered + 1, line')
      /\ handle' \in BOOLEAN /\ baud' \in Speeds \union {0} /\ running' \in BOOLEAN
  <2>1. CASE line[i] = B("sync", baud)
    <3>1. Len(line) \in Nat
      BY <1>2, LenProperties
    <3>2. i + 1 \in 1..Len(line) + 1 /\ Len(line) \in (i + 1) - 1..Len(line)
      BY <3>1
    <3>3. line' = SubSeq(line, i + 1, Len(line)) /\ UNCHANGED <<handle, baud, running>>
      BY <1>3, <2>1
    <3>4. /\ SubSeq(line, i + 1, Len(line)) \in Seq(Bytes)
          /\ Len(SubSeq(line, i + 1, Len(line))) = Len(line) - (i + 1) + 1
          /\ \A k \in 1..Len(line) - (i + 1) + 1 : SubSeq(line, i + 1, Len(line))[k] = line[i + 1 + k - 1]
      BY <1>2, <3>2, Slice, Zenon
    <3>5. Len(line') = Len(line) - i /\ \A k \in 1..Len(line') : line'[k] = line[i + k]
      BY <3>1, <3>3, <3>4
    <3>6. NoEchoFrom(flushed + buffered + 1, line')
      BY <3>1, <3>5 DEF IInv, Echoes, NoEchoFrom
    <3>7. QED BY <3>3, <3>4, <3>6 DEF IInv, Typed
  <2>2. CASE line[i] # B("sync", baud)
    <3>1. TryConnect(0)
      BY <1>3, <2>2
    <3>2. line' = <<>> /\ line' \in Seq(Bytes)
      BY <3>1, EmptySeq DEF TryConnect
    <3>3. QED BY <3>1, <3>2, NoEchoEmpty DEF TryConnect, IInv, Typed
  <2>3. QED BY <2>1, <2>2
<1>5. Typed'
  BY <1>1, <1>4 DEF IInv, Typed, Wants
<1>6. Placed' /\ Started'
  BY <1>1 DEF IInv, Placed, Started, Complete
<1>7. Echoes'
  BY <1>1, <1>4 DEF Echoes
<1>8. Answers'
  BY <1>1 DEF IInv, Answers, Complete
<1>9. QED BY <1>5, <1>6, <1>7, <1>8 DEF IInv

(* Bytes that SerialSync skips keep the invariant. *)
LEMMA ReadNothingKept == ASSUME SerialAssumption, IInv, ReadNothing PROVE IInv'
<1>1. /\ pc = "sync" /\ line' = <<>>
      /\ UNCHANGED <<pc, wants, flushed, buffered, rest, got, handle, baud, current, speed, running, heard, faults>>
  BY DEF ReadNothing, buffer, port, target
<1>2. line' \in Seq(Bytes) /\ \A n : NoEchoFrom(n, line')
  BY <1>1, EmptySeq, NoEchoEmpty
<1>3. Typed'
  BY <1>1, <1>2 DEF IInv, Typed
<1>4. Placed' /\ Started'
  BY <1>1 DEF IInv, Placed, Started, Complete
<1>5. Echoes'
  BY <1>2 DEF Echoes
<1>6. Answers'
  BY <1>1 DEF IInv, Answers, Complete
<1>7. QED BY <1>3, <1>4, <1>5, <1>6 DEF IInv

(* What a break leaves on the line is no echo. *)
LEMMA StraySeq ==
  \A stray \in Stray : stray \in Seq(Bytes) /\ NoEchoFrom(0, stray)
<1>1. B("zero", 0) \in Bytes /\ B("ones", 0) \in Bytes
  BY ByteFields
<1>2. B("zero", 0).kind = "zero" /\ B("ones", 0).kind = "ones"
  BY ByteFields
<1>3. <<>> \in Seq(Bytes) /\ NoEchoFrom(0, <<>>)
  BY NoEchoEmpty, EmptySeq
<1>4. <<B("zero", 0)>> \in Seq(Bytes) /\ NoEchoFrom(0, <<B("zero", 0)>>)
  BY <1>1, <1>2 DEF NoEchoFrom
<1>5. /\ <<B("zero", 0), B("ones", 0)>> \in Seq(Bytes)
      /\ NoEchoFrom(0, <<B("zero", 0), B("ones", 0)>>)
  BY <1>1, <1>2 DEF NoEchoFrom
<1>6. QED BY <1>3, <1>4, <1>5 DEF Stray

(* Two parts without an echo make one without. *)
LEMMA NoEchoJoined ==
  ASSUME NEW n \in Nat, NEW s \in Seq(Bytes), NEW t \in Seq(Bytes)
  PROVE  NoEchoFrom(n, s) /\ NoEchoFrom(n, t) => NoEchoFrom(n, s \o t)
<1>1. Len(s) \in Nat /\ Len(t) \in Nat
  BY LenProperties
<1>2. /\ Len(s \o t) = Len(s) + Len(t)
      /\ \A i \in 1..Len(s) + Len(t) : (s \o t)[i] = IF i <= Len(s) THEN s[i] ELSE t[i - Len(s)]
  BY ConcatProperties
<1>3. \A i \in 1..Len(s) + Len(t) : ~(i <= Len(s)) => i - Len(s) \in 1..Len(t)
  BY <1>1
<1>4. \A i \in 1..Len(s) + Len(t) : i <= Len(s) => i \in 1..Len(s)
  BY <1>1
<1>5. QED BY <1>2, <1>3, <1>4 DEF NoEchoFrom

(* No echo from byte m on is no echo from a later one on. *)
LEMMA NoEchoMore ==
  ASSUME NEW m \in Nat, NEW n \in Nat, NEW s \in Seq(Bytes)
  PROVE  NoEchoFrom(m, s) /\ m <= n => NoEchoFrom(n, s)
<1>1. \A k \in 1..Len(s) : s[k].val \in Nat
  BY Values
<1>2. QED BY <1>1 DEF NoEchoFrom

(* A 0x55 after what a break leaves. *)
LEMMA SyncTail ==
  ASSUME SerialAssumption
  PROVE  \A stray \in Stray, s \in Speeds :
           /\ stray \o <<B("sync", s)>> \in Seq(Bytes) /\ <<B("sync", s)>> \in Seq(Bytes)
           /\ NoEchoFrom(0, stray \o <<B("sync", s)>>) /\ NoEchoFrom(0, <<B("sync", s)>>)
<1> TAKE stray \in Stray, s \in Speeds
<1> DEFINE last == <<B("sync", s)>>
<1>1. B("sync", s) \in Bytes /\ B("sync", s).kind = "sync"
  BY ByteFields DEF SerialAssumption
<1>2. last \in Seq(Bytes) /\ NoEchoFrom(0, last)
  BY <1>1 DEF NoEchoFrom
<1> HIDE DEF last
<1>3. stray \in Seq(Bytes) /\ NoEchoFrom(0, stray)
  BY StraySeq
<1>4. stray \o last \in Seq(Bytes)
  BY <1>2, <1>3, ConcatProperties
<1>5. NoEchoFrom(0, stray \o last)
  <2>1. stray \in Seq(Bytes) /\ last \in Seq(Bytes) /\ 0 \in Nat
    BY <1>2, <1>3
  <2>2. NoEchoFrom(0, stray) /\ NoEchoFrom(0, last) => NoEchoFrom(0, stray \o last)
    BY <2>1, NoEchoJoined
  <2>3. QED BY <1>2, <1>3, <2>2
<1>6. QED BY <1>2, <1>4, <1>5 DEF last

(* SerialBreakAndSync keeps the invariant, and so does its Assert. *)
LEMMA BreakAndSyncKept == ASSUME SerialAssumption, IInv, SerialBreakAndSync PROVE IInv'
<1>1. pc = "break" /\ UNCHANGED <<handle, baud, current, speed, heard>>
  BY DEF SerialBreakAndSync, port
<1>2. CASE buffered = 0
  <2>1. SerialBreak /\ pc' = "sync" /\ UNCHANGED <<wants, flushed, buffered, rest, got>>
    BY <1>2 DEF SerialBreakAndSync, buffer
  <2>2. PICK stray \in Stray, fault \in {"none", "mute"} :
          /\ Occurs(fault)
          /\ line' = stray \o (IF fault = "mute" THEN <<>> ELSE <<B("sync", speed)>>)
    BY <2>1 DEF SerialBreak
  <2>3. faults' \in 0..MaxFaults
    BY <2>2 DEF Occurs, IInv, Typed, SerialAssumption
  <2>4. line' \in Seq(Bytes) /\ NoEchoFrom(0, line')
    <3>1. fault = "mute" => line' = stray
      <4>1. stray \in Seq(Bytes)
        BY StraySeq
      <4>2. stray \o <<>> = stray
        BY <4>1, ConcatEmptySeq
      <4>3. QED BY <2>2, <4>2
    <3>2. fault # "mute" => line' = stray \o <<B("sync", speed)>>
      BY <2>2
    <3>3. speed \in Speeds
      BY DEF IInv, Typed
    <3>4. QED BY <3>1, <3>2, <3>3, StraySeq, SyncTail
  <2>5. Typed'
    BY <1>1, <2>1, <2>3, <2>4 DEF IInv, Typed, SerialBreak
  <2>6. Placed' /\ Started'
    BY <1>1, <1>2, <2>1 DEF IInv, Placed, Started, Complete
  <2>7. Echoes'
    <3>1. 0 \in Nat /\ flushed + buffered + 1 \in Nat /\ 0 <= flushed + buffered + 1
      BY DEF IInv, Typed
    <3>2. line' \in Seq(Bytes)
      BY <2>4
    <3>3. NoEchoFrom(flushed + buffered + 1, line')
      BY <2>4, <3>1, <3>2, NoEchoMore
    <3>4. QED BY <2>1, <3>3 DEF Echoes
  <2>8. Answers'
    BY <1>1, <2>1 DEF IInv, Answers, Complete
  <2>9. QED BY <2>5, <2>6, <2>7, <2>8 DEF IInv
<1>3. CASE buffered # 0
  <2>1. Failed
    <3>1. Fail /\ UNCHANGED <<running, line, faults>>
      BY <1>3 DEF SerialBreakAndSync
    <3>2. NoEchoFrom(flushed + buffered + 1, line)
      BY DEF IInv, Echoes
    <3>3. QED BY <1>1, <3>1, <3>2 DEF Failed, IInv, Typed, port, target
  <2>2. QED BY <2>1, FailedKept
<1>4. QED BY <1>2, <1>3

(* ConnectSerialPort keeps the invariant, with a break or with the port    *)
(* opened anew.                                                            *)
LEMMA ConnectKept ==
  ASSUME SerialAssumption, IInv, NEW rate \in Speeds \union {0}, Connect(rate) PROVE IInv'
<1>1. pc = "idle" /\ wants = "nothing" /\ UNCHANGED <<wants, flushed, buffered, rest, got, speed, heard, faults>>
  BY DEF Connect, buffer
<1>2. CASE handle /\ rate \in {0, baud}
  <2>1. pc' = "break" /\ UNCHANGED <<handle, baud, current, line, running>>
    BY <1>2 DEF Connect, port
  <2>2. Typed'
    BY <1>1, <2>1 DEF IInv, Typed
  <2>3. Placed' /\ Started'
    BY <1>1, <2>1 DEF IInv, Placed, Started, Complete
  <2>4. Echoes' /\ Answers'
    BY <1>1, <2>1 DEF IInv, Echoes, Answers, Complete
  <2>5. QED BY <2>2, <2>3, <2>4 DEF IInv
<1>3. CASE ~(handle /\ rate \in {0, baud})
  <2>1. /\ pc' = "idle" /\ line' = <<>> /\ running' = FALSE /\ current' = handle'
        /\ handle' \in BOOLEAN /\ baud' \in {0, speed}
    BY <1>1, <1>3 DEF Connect, TryConnect
  <2>2. line' \in Seq(Bytes) /\ \A n : NoEchoFrom(n, line')
    BY <2>1, EmptySeq, NoEchoEmpty
  <2>3. Typed'
    BY <1>1, <2>1, <2>2 DEF IInv, Typed
  <2>4. Placed' /\ Started'
    BY <1>1, <2>1 DEF IInv, Placed, Started, Complete
  <2>5. Echoes' /\ Answers'
    BY <1>1, <2>1, <2>2 DEF IInv, Echoes, Answers, Complete
  <2>6. QED BY <2>3, <2>4, <2>5 DEF IInv
<1>4. QED BY <1>2, <1>3

(* GoWaitLoop keeps the invariant when it goes on to synchronise or to     *)
(* break.                                                                  *)
LEMMA WaitingKept == ASSUME SerialAssumption, IInv, DeviceBreak \/ KeyboardBreak PROVE IInv'
<1>1. /\ pc = "wait" /\ pc' \in {"sync", "break"}
      /\ UNCHANGED <<wants, flushed, buffered, rest, got, handle, baud, current, line, speed, running, heard, faults>>
  BY DEF DeviceBreak, KeyboardBreak, Goto, buffer, port, target
<1>2. Typed'
  BY <1>1 DEF IInv, Typed
<1>3. Placed' /\ Started'
  BY <1>1 DEF IInv, Placed, Started, Complete
<1>4. Echoes' /\ Answers'
  BY <1>1 DEF IInv, Echoes, Answers, Complete, Placed
<1>5. QED BY <1>2, <1>3, <1>4 DEF IInv

(* A program that reaches its breakpoint keeps the invariant: nothing was  *)
(* on the line before.                                                     *)
LEMMA BreakpointKept == ASSUME SerialAssumption, IInv, Breakpoint PROVE IInv'
<1>1. /\ running /\ running' = FALSE /\ speed' \in Speeds
      /\ UNCHANGED <<pc, wants, flushed, buffered, rest, got, handle, baud, current, heard, faults>>
  BY DEF Breakpoint, buffer, port
<1>2. PICK stray \in Stray : line' = line \o stray \o <<B("sync", speed')>>
  BY DEF Breakpoint
<1> DEFINE last == <<B("sync", speed')>>
<1>3. /\ line \in Seq(Bytes) /\ stray \in Seq(Bytes) /\ last \in Seq(Bytes)
      /\ NoEchoFrom(0, stray) /\ NoEchoFrom(0, last)
  BY <1>1, StraySeq, SyncTail DEF IInv, Typed
<1> HIDE DEF last
<1>4. line' = (line \o stray) \o last
  BY <1>2 DEF last
<1>5. line \o stray \in Seq(Bytes)
  BY <1>3, ConcatProperties
<1>6. line' \in Seq(Bytes)
  BY <1>3, <1>4, <1>5, ConcatProperties
<1>7. \A n \in Nat : NoEchoFrom(n, line) => NoEchoFrom(n, line')
  <2> TAKE n \in Nat
  <2>1. line \in Seq(Bytes) /\ stray \in Seq(Bytes) /\ last \in Seq(Bytes) /\ 0 \in Nat /\ 0 <= n
    BY <1>3
  <2>2. NoEchoFrom(n, stray)
    BY <1>3, <2>1, NoEchoMore
  <2>3. NoEchoFrom(n, last)
    BY <1>3, <2>1, NoEchoMore
  <2>4. NoEchoFrom(n, line) => NoEchoFrom(n, line \o stray)
    BY <2>1, <2>2, NoEchoJoined
  <2>5. NoEchoFrom(n, line \o stray) => NoEchoFrom(n, (line \o stray) \o last)
    BY <1>5, <2>1, <2>3, NoEchoJoined
  <2>6. QED BY <1>4, <2>4, <2>5
<1>8. Typed'
  BY <1>1, <1>6 DEF IInv, Typed
<1>9. Placed' /\ Started'
  BY <1>1 DEF IInv, Placed, Started
<1>10. Echoes'
  BY <1>1, <1>7 DEF IInv, Echoes, Typed
<1>11. Answers'
  <2>1. ASSUME pc = "reply" \/ Complete("answer"), line = <<>>, line' # <<>> PROVE Head(line').kind # "answer"
    <3>1. line' = stray \o last
      BY <1>3, <1>4, <2>1, ConcatEmptySeq
    <3>2. Head(line').kind \in {"zero", "sync"}
      <4>1. B("sync", speed').kind = "sync" /\ B("zero", 0).kind = "zero"
        BY ByteFields
      <4>2. CASE stray = <<>>
        <5>1. line' = last
          BY <1>3, <3>1, <4>2, ConcatEmptySeq
        <5>2. QED BY <4>1, <5>1 DEF last
      <4>3. CASE stray # <<>>
        <5>1. Len(stray) \in Nat \ {0} /\ Head(stray) = B("zero", 0)
          BY <1>3, <4>3, EmptySeq DEF Stray
        <5>2. line'[1] = stray[1]
          BY <1>3, <3>1, <5>1, ConcatProperties, LenProperties
        <5>3. Head(line') = line'[1] /\ Head(stray) = stray[1]
          OBVIOUS
        <5>4. QED BY <4>1, <5>1, <5>2, <5>3
      <4>4. QED BY <4>2, <4>3
    <3>3. QED BY <3>2
  <2>2. ASSUME pc = "reply" \/ Complete("answer"), line # <<>> PROVE Head(line') = Head(line)
    <3>1. Len(line) \in Nat \ {0}
      BY <1>3, <2>2, EmptySeq
    <3>2. (line \o stray)[1] = line[1] /\ Len(line \o stray) \in Nat \ {0}
      BY <1>3, <3>1, ConcatProperties, LenProperties
    <3>3. line'[1] = (line \o stray)[1]
      BY <1>3, <1>4, <1>5, <3>2, ConcatProperties, LenProperties
    <3>4. QED BY <3>2, <3>3
  <2>3. Complete("answer")' = Complete("answer")
    BY <1>1 DEF Complete
  <2>4. QED BY <1>1, <2>1, <2>2, <2>3 DEF IInv, Answers
<1>12. QED BY <1>8, <1>9, <1>10, <1>11 DEF IInv

(* A caller that hands bytes over keeps the invariant, whatever is on the  *)
(* line.                                                                   *)
LEMMA HandOverKept ==
  ASSUME SerialAssumption, IInv, NEW n \in 1..MaxSend, NEW w \in Wants, HandOver(n, w) PROVE IInv'
<1>1. /\ pc = "idle" /\ wants = "nothing" /\ pc' = "send" /\ wants' = w /\ rest' = n /\ got' = 0
      /\ UNCHANGED <<flushed, buffered, handle, baud, current, line, speed, running, heard, faults>>
  BY DEF HandOver, port, target
<1>2. n \in Nat \ {0}
  BY DEF SerialAssumption
<1>3. Typed'
  BY <1>1, <1>2 DEF IInv, Typed
<1>4. Placed' /\ Started'
  BY <1>1, <1>2 DEF IInv, Placed, Started, Complete
<1>5. Echoes' /\ Answers'
  BY <1>1, <1>2 DEF IInv, Echoes, Answers, Complete
<1>6. QED BY <1>3, <1>4, <1>5 DEF IInv

(* The initial states have the invariant. *)
LEMMA SerialStart == ASSUME SerialAssumption PROVE Init => IInv
<1> SUFFICES ASSUME Init PROVE IInv
  OBVIOUS
<1>1. line \in Seq(Bytes) /\ \A n : NoEchoFrom(n, line)
  BY NoEchoEmpty, EmptySeq DEF Init
<1>2. Typed
  <2>1. 0 \in 0..Capacity - 1 /\ 0 \in 0..MaxFaults
    BY DEF SerialAssumption
  <2>2. line \in Seq(Bytes)
    BY <1>1
  <2>3. QED BY <2>1, <2>2 DEF Init, Typed, Wants
<1>3. Placed /\ Echoes /\ Answers /\ Started
  BY <1>1 DEF Init, Placed, Echoes, Answers, Started, Complete
<1>4. QED BY <1>2, <1>3 DEF IInv

(* Every step keeps the invariant. *)
LEMMA SerialKept == ASSUME SerialAssumption, IInv, [Next]_vars PROVE IInv'
<1>1. CASE SendFull
  BY <1>1, SendFullKept
<1>2. CASE SendRest
  BY <1>2, SendRestKept
<1>3. CASE SerialReceive \/ SerialSync \/ SerialWait
  BY <1>3, FlushKept
<1>4. CASE ReadReply
  BY <1>4, ReadReplyKept
<1>5. CASE ReadSync
  BY <1>5, ReadSyncKept
<1>6. CASE SerialBreakAndSync
  BY <1>6, BreakAndSyncKept
<1>7. CASE DeviceBreak \/ KeyboardBreak
  BY <1>7, WaitingKept
<1>8. CASE Breakpoint
  BY <1>8, BreakpointKept
<1>9. CASE \E n \in 1..MaxSend, w \in Wants : HandOver(n, w)
  BY <1>9, HandOverKept
<1>10. CASE \E rate \in Speeds \union {0} : Connect(rate)
  BY <1>10, ConnectKept
<1>11. CASE UNCHANGED vars
  <2>1. UNCHANGED <<pc, wants, flushed, buffered, rest, got, handle, baud, current, line, speed, running, heard, faults>>
    BY <1>11 DEF vars, buffer, port, target
  <2>2. Typed'
    BY <2>1 DEF IInv, Typed
  <2>3. Placed' /\ Echoes' /\ Answers' /\ Started'
    BY <2>1 DEF IInv, Placed, Echoes, Answers, Started, Complete
  <2>4. QED BY <2>2, <2>3 DEF IInv
<1>12. CASE ReadNothing
  BY <1>12, ReadNothingKept
<1>13. QED
  BY <1>1, <1>2, <1>3, <1>4, <1>5, <1>6, <1>7, <1>8, <1>9, <1>10, <1>11, <1>12 DEF Next, HostStep

(* The invariant implies what the runs check. *)
LEMMA SerialPromise == ASSUME SerialAssumption, IInv PROVE TypeOK /\ FreshAnswer /\ BreakpointTrue
<1>1. TypeOK
  BY DEF IInv, Typed, TypeOK
<1>2. QED BY <1>1 DEF IInv, Answers, Started, FreshAnswer, BreakpointTrue

(* SerialReceive, SerialSendBytes, GoWaitLoop: whatever failed before, an  *)
(* answer that is read answers all bytes handed over, and a breakpoint     *)
(* that is reported is one.                                                *)
THEOREM SerialSafe == ASSUME SerialAssumption PROVE Spec => [](TypeOK /\ FreshAnswer /\ BreakpointTrue)
<1>1. Init => IInv
  BY SerialStart
<1>2. IInv /\ [Next]_vars => IInv'
  BY SerialKept
<1>3. IInv => TypeOK /\ FreshAnswer /\ BreakpointTrue
  BY SerialPromise
<1>4. QED BY <1>1, <1>2, <1>3, PTL DEF Spec
-----------------------------------------------------------------------------
(* A target that listens acts on the bytes, and answers what they ask      *)
(* for.                                                                    *)
LEMMA Acted ==
  ASSUME SerialAssumption, LInv, Quiet, NEW len \in Nat \ {0}, NEW left \in Nat, NEW next, Success(len, left, next)
  PROVE  /\ heard' = flushed + len
         /\ baud' = baud
         /\ left # 0 \/ wants = "nothing" => Quiet'
         /\ left = 0 /\ wants = "answer" =>
              ~running' /\ baud' = speed' /\ line' \in {<<>>, <<B("answer", flushed + len)>>}
         /\ left = 0 /\ wants = "sync" => SyncLine'
         /\ left = 0 /\ wants = "go" => running' /\ line' = <<>>
         /\ running' => left = 0
<1>1. PICK fault \in {"none", "mute"} : Occurs(fault) /\ Deliver(len, left = 0, fault, line')
  BY DEF Success
<1>2. ~running /\ baud = speed /\ baud' = baud /\ wants \in Wants /\ speed \in Speeds
  BY DEF Quiet, Success, port, LInv, IInv, Typed
<1>3. heard' = flushed + len
  BY <1>1, <1>2 DEF Deliver
<1>4. running' <=> left = 0 /\ wants = "go"
  BY <1>1, <1>2 DEF Deliver
<1>5. ~(left = 0 /\ wants = "sync") => speed' = speed
  BY <1>1, <1>2 DEF Deliver
<1>6. left # 0 \/ wants = "nothing" \/ wants = "go" => line' = <<>>
  BY <1>1, <1>2 DEF Deliver
<1>7. left = 0 /\ wants = "answer" => line' \in {<<>>, <<B("answer", flushed + len)>>}
  BY <1>1, <1>2 DEF Deliver
<1>8. ASSUME left = 0, wants = "sync" PROVE SyncLine'
  <2>1. line' = <<>> \/ line' = <<B("sync", speed')>>
    BY <1>1, <1>2, <1>8 DEF Deliver
  <2>2. CASE line' = <<>>
    <3>1. Len(line') = 0
      BY <2>2, EmptySeq
    <3>2. QED BY <1>4, <1>8, <3>1 DEF SyncLine
  <2>3. CASE line' = <<B("sync", speed')>>
    <3>1. Len(line') = 1 /\ line'[1] = B("sync", speed')
      BY <2>3
    <3>2. QED BY <1>4, <1>8, <3>1 DEF SyncLine
  <2>4. QED BY <2>1, <2>2, <2>3
<1>9. QED BY <1>2, <1>3, <1>4, <1>5, <1>6, <1>7, <1>8 DEF Quiet

(* After a SerialSendBytes that succeeds host and target agree again. *)
LEMMA SentInStep ==
  ASSUME SerialAssumption, LInv, NEW len \in Nat \ {0}, NEW left \in Nat, NEW next,
         pc \in {"send", "idle"}, pc = "send" \/ wants # "nothing", ~Handed, Leads(left, next), Success(len, left, next)
  PROVE  NoHole' /\ (handle' => InStep') /\ Quiet /\ (running' => left = 0)
<1>1. Quiet
  BY DEF LInv, InStep, Success
<1>2. /\ heard' = flushed + len
      /\ baud' = baud
      /\ left # 0 \/ wants = "nothing" => Quiet'
      /\ left = 0 /\ wants = "answer" =>
           ~running' /\ baud' = speed' /\ line' \in {<<>>, <<B("answer", flushed + len)>>}
      /\ left = 0 /\ wants = "sync" => SyncLine'
      /\ left = 0 /\ wants = "go" => running' /\ line' = <<>>
      /\ running' => left = 0
  BY <1>1, Acted
<1>3. flushed' = flushed + len /\ buffered' = 0 /\ pc' = next /\ wants' = wants /\ rest' = left
  BY DEF Success, Sent
<1>4. wants \in Wants
  BY DEF LInv, IInv, Typed
<1>5. NoHole'
  BY <1>2, <1>3 DEF NoHole
<1>6. InStep'
  <2>1. CASE next = "send"
    BY <1>2, <1>3, <1>4, <2>1 DEF InStep, Handed, Complete, Wants
  <2>2. CASE next # "send"
    BY <1>2, <1>3, <1>4, <2>2 DEF InStep, Handed, Complete, Wants, Leads
  <2>3. QED BY <2>1, <2>2
<1>7. QED BY <1>1, <1>2, <1>5, <1>6

(* Without collisions a sending only fails without a port. *)
LEMMA FailedInStep ==
  ASSUME SerialAssumption, "collision" \notin Faults, LInv, pc \in {"send", "idle"}, ~Handed, Failed
  PROVE  NoHole' /\ (handle' => InStep') /\ UNCHANGED <<heard, running>>
<1>1. UNCHANGED <<line, speed, running, heard, handle, baud, flushed>> /\ pc' = "idle" /\ wants' = "nothing"
  BY DEF Failed, Fail, port, target, LInv, InStep, Quiet
<1>2. QED BY <1>1 DEF LInv, NoHole, InStep, Quiet, Complete, Handed

(* What the steps of the link do to the abstract one, and that it stays in *)
(* step.                                                                   *)
Goes == (handle' => InStep') /\ NoHole' /\ [Link!LNext]_(Link!lvars)

(* The numbers of bytes are numbers. *)
LEMMA Totals == ASSUME SerialAssumption, IInv PROVE /\ flushed \in Nat /\ buffered \in Nat /\ rest \in Nat
  /\ flushed + buffered + rest \in Nat
BY DEF IInv, Typed, SerialAssumption

(* The abstract link only moves with these variables. *)
LEMMA Stutters ==
  ASSUME UNCHANGED <<flushed, buffered, rest, heard, got, running>>
  PROVE  UNCHANGED Link!lvars
BY DEF Link!lvars

(* SerialSendBytes is heard by the abstract link, or gives up what was     *)
(* not sent.                                                               *)
LEMMA SendingGoes ==
  ASSUME SerialAssumption, "collision" \notin Faults, LInv, NEW len \in Nat \ {0}, NEW left \in Nat, NEW next,
         pc \in {"send", "idle"}, pc = "send" \/ wants # "nothing", ~Handed, Leads(left, next),
         len + left = buffered + rest,
         Success(len, left, next) \/ Failed
  PROVE  Goes
<1>1. flushed \in Nat /\ buffered \in Nat /\ rest \in Nat /\ got = 0 /\ heard = flushed
  <2>1. IInv /\ heard = flushed
    BY DEF LInv, NoHole
  <2>2. got = 0
    BY <2>1 DEF IInv, Answers, Typed
  <2>3. QED BY <2>1, <2>2, Totals
<1>2. CASE Success(len, left, next)
  <2>1. NoHole' /\ (handle' => InStep') /\ Quiet /\ (running' => left = 0)
    BY <1>2, SentInStep
  <2>2. /\ flushed' = flushed + len /\ buffered' = 0 /\ rest' = left /\ got' = got
        /\ heard' = flushed + len
    BY <1>2, <2>1 DEF Success, Sent, NoHole
  <2>3. running' \in BOOLEAN
    BY <1>2, Answered DEF LInv, IInv
  <2>4. Link!Hear
    BY <1>1, <2>1, <2>2, <2>3 DEF Link!Hear, Quiet
  <2>5. QED BY <2>1, <2>4 DEF Goes, Link!LNext
<1>3. CASE Failed
  <2>1. NoHole' /\ (handle' => InStep') /\ UNCHANGED <<heard, running>>
    BY <1>3, FailedInStep
  <2>2. rest' = 0 /\ UNCHANGED <<flushed, buffered, got>>
    BY <1>3 DEF Failed, Fail
  <2>3. Link!GiveUp
    BY <1>1, <2>1, <2>2 DEF Link!GiveUp
  <2>4. QED BY <2>1, <2>3 DEF Goes, Link!LNext
<1>4. QED BY <1>2, <1>3

(* So it is for a full buffer. *)
LEMMA SendFullGoes == ASSUME SerialAssumption, "collision" \notin Faults, LInv, SendFull PROVE Goes
<1>1. /\ Capacity \in Nat \ {0} /\ rest - (Capacity - buffered) \in Nat
      /\ Capacity + (rest - (Capacity - buffered)) = buffered + rest
      /\ buffered + rest # 0
  BY DEF SerialAssumption, LInv, IInv, Typed, SendFull
<1>2. NoEchoFrom(flushed + Capacity, line)
  <2>1. \A k \in 1..Len(line) : line[k].val \in Nat
    <3>1. line \in Seq(Bytes)
      BY DEF LInv, IInv, Typed
    <3>2. QED BY <3>1, Values, Zenon
  <2>2. flushed + buffered + 1 <= flushed + Capacity /\ flushed + buffered \in Nat /\ flushed + Capacity \in Nat
    BY DEF LInv, IInv, Typed, SerialAssumption
  <2>3. QED BY <2>1, <2>2 DEF LInv, IInv, Echoes, NoEchoFrom
<1>3. SerialSendBytes(Capacity, rest - (Capacity - buffered), "send") /\ pc = "send"
  BY DEF SendFull
<1>4. Success(Capacity, rest - (Capacity - buffered), "send") \/ Failed
  BY <1>1, <1>2, <1>3, Sending DEF LInv, IInv
<1>5. ~Handed
  BY <1>1 DEF Handed
<1>6. QED BY <1>1, <1>3, <1>4, <1>5, SendingGoes DEF Leads

(* So it is for a flush; without anything to flush nothing happens. *)
LEMMA FlushGoes ==
  ASSUME SerialAssumption, "collision" \notin Faults, LInv, SerialReceive \/ SerialSync \/ SerialWait
  PROVE  Goes
<1>1. PICK next :
        /\ pc = "idle" /\ SerialFlush(next)
        /\ <<next, wants>> \in {<<"reply", "answer">>, <<"sync", "sync">>, <<"wait", "go">>}
  BY DEF SerialReceive, SerialSync, SerialWait
<1>2. CASE buffered > 0
  <2>1. SerialSendBytes(buffered, 0, next)
    BY <1>1, <1>2 DEF SerialFlush
  <2>2. buffered \in Nat \ {0} /\ NoEchoFrom(flushed + buffered, line)
    BY <1>1, <1>2 DEF LInv, IInv, Typed, Echoes
  <2>3. Success(buffered, 0, next) \/ Failed
    BY <2>1, <2>2, Sending DEF LInv, IInv
  <2>4. ~Handed /\ buffered + 0 = buffered + rest
    BY <1>1, <2>2 DEF Handed, LInv, IInv, Placed
  <2>5. Leads(0, next) /\ wants # "nothing"
    BY <1>1 DEF Leads
  <2>6. QED BY <1>1, <2>2, <2>3, <2>4, <2>5, SendingGoes
<1>3. CASE ~(buffered > 0)
  <2>1. /\ pc' = next /\ buffered = 0 /\ rest = 0
        /\ UNCHANGED <<wants, flushed, buffered, rest, got, handle, baud, current, line, speed, running, heard, faults>>
    BY <1>1, <1>3 DEF SerialFlush, Goto, buffer, port, target, LInv, IInv, Typed, Placed
  <2>2. NoHole' /\ (handle' => InStep')
    BY <1>1, <2>1 DEF LInv, NoHole, InStep, Handed, Complete, SyncLine
  <2>3. QED BY <2>1, <2>2, Stutters DEF Goes
<1>4. QED BY <1>2, <1>3

(* Bytes that stay in the buffer have been said already. *)
LEMMA SendRestGoes == ASSUME SerialAssumption, LInv, SendRest PROVE Goes
<1>1. /\ pc = "send" /\ pc' = "idle" /\ buffered' = buffered + rest /\ rest' = 0
      /\ UNCHANGED <<wants, flushed, got, handle, baud, current, line, speed, running, heard, faults>>
  BY DEF SendRest, port, target
<1>2. flushed \in Nat /\ buffered \in Nat /\ rest \in Nat
  BY Totals DEF LInv
<1>3. Handed' <=> Handed
  BY <1>1, <1>2 DEF Handed
<1>4. \A w \in Wants : Complete(w)' <=> Complete(w)
  BY <1>1, <1>2 DEF Complete
<1>5. NoHole' /\ (handle' => InStep')
  BY <1>1, <1>3, <1>4 DEF LInv, NoHole, InStep, SyncLine, Quiet, Wants
<1>6. UNCHANGED Link!lvars
  BY <1>1, <1>2 DEF Link!lvars
<1>7. QED BY <1>5, <1>6 DEF Goes

(* An answer that is read is the abstract link's. *)
LEMMA ReadReplyGoes == ASSUME SerialAssumption, LInv, ReadReply PROVE Goes
<1>1. /\ pc = "reply" /\ pc' = "idle" /\ wants' = "nothing"
      /\ UNCHANGED <<flushed, buffered, handle, baud, current, speed, running, heard, faults>>
  BY DEF ReadReply, Fail, buffer, port, target
<1>2. buffered = 0 /\ rest = 0 /\ rest' = 0 /\ got = 0 /\ heard = flushed /\ flushed \in Nat
  BY <1>1 DEF LInv, IInv, Placed, Answers, NoHole, Typed, ReadReply, Fail, buffer
<1>3. line' = <<>> \/ ~handle
  <2>1. CASE line = <<>>
    BY <2>1 DEF ReadReply
  <2>2. CASE line # <<>> /\ handle
    <3>1. line = <<B("answer", flushed)>> /\ line' = Tail(line)
      BY <1>1, <2>2 DEF ReadReply, LInv, InStep
    <3>2. QED BY <3>1
  <2>3. QED BY <2>1, <2>2
<1>4. NoHole' /\ (handle' => InStep')
  BY <1>1, <1>3 DEF LInv, NoHole, InStep, Handed, Complete, Quiet
<1>5. [Link!LNext]_(Link!lvars)
  <2>1. CASE got' = 0
    BY <1>1, <1>2, <2>1, Stutters
  <2>2. CASE got' # 0
    <3>1. line # <<>> /\ Head(line).kind = "answer" /\ got' = Head(line).val
      BY <1>2, <2>2 DEF ReadReply, Fail
    <3>2. got' = flushed /\ ~running
      BY <1>1, <3>1 DEF LInv, IInv, Answers
    <3>3. Link!Answer
      BY <1>1, <1>2, <3>2 DEF Link!Answer
    <3>4. QED BY <3>3 DEF Link!LNext
  <2>3. QED BY <2>1, <2>2
<1>6. QED BY <1>4, <1>5 DEF Goes

(* A break, or a breakpoint. *)
LEMMA Halts ==
  ASSUME UNCHANGED <<flushed, buffered, rest, heard, got>>, running \in BOOLEAN, running' = FALSE \/ UNCHANGED running
  PROVE  [Link!LNext]_(Link!lvars)
<1>1. CASE running /\ ~running'
  BY <1>1 DEF Link!LNext, Link!Halt
<1>2. CASE UNCHANGED running
  BY <1>2, Stutters
<1>3. QED BY <1>1, <1>2

(* A synchronisation stutters; a port that is opened anew halts the        *)
(* target.                                                                 *)
LEMMA ReadSyncGoes == ASSUME SerialAssumption, LInv, ReadSync PROVE Goes
<1>1. /\ pc = "sync" /\ pc' = "idle" /\ wants' = "nothing"
      /\ UNCHANGED <<flushed, buffered, rest, got, current, speed, heard, faults>>
  BY DEF ReadSync, buffer
<1>2. line \in Seq(Bytes) /\ Len(line) \in Nat /\ running \in BOOLEAN
  BY LenProperties DEF LInv, IInv, Typed
<1>3. PICK i \in 1..Len(line) :
        /\ line[i].kind \notin {"zero", "ones"}
        /\ IF line[i] = B("sync", baud)
           THEN line' = SubSeq(line, i + 1, Len(line)) /\ UNCHANGED <<handle, baud, running>>
           ELSE TryConnect(0)
  BY DEF ReadSync
<1>4. running' = FALSE \/ UNCHANGED running
  BY <1>3 DEF TryConnect
<1>5. handle' => Quiet'
  <2>1. CASE line[i] = B("sync", baud)
    <3>1. handle => ~running /\ i = Len(line) /\ line[i] = B("sync", speed)
      BY <1>1, <1>3 DEF LInv, InStep, SyncLine
    <3>2. handle => baud = speed
      BY <2>1, <3>1, ByteFields
    <3>3. line' = SubSeq(line, i + 1, Len(line)) /\ UNCHANGED <<handle, baud, running>>
      BY <1>3, <2>1
    <3>4. i = Len(line) => SubSeq(line, i + 1, Len(line)) = <<>>
      BY <1>2, SubSeqEmpty
    <3>5. QED BY <1>1, <3>1, <3>2, <3>3, <3>4 DEF Quiet
  <2>2. CASE line[i] # B("sync", baud)
    BY <1>1, <1>3, <2>2 DEF TryConnect, Quiet, LInv, IInv, Typed
  <2>3. QED BY <2>1, <2>2
<1>6. NoHole' /\ (handle' => InStep')
  BY <1>1, <1>5 DEF LInv, NoHole, InStep, Handed, Complete
<1>7. QED BY <1>1, <1>2, <1>4, <1>6, Halts DEF Goes

(* Bytes that SerialSync skips are a stutter. *)
LEMMA ReadNothingGoes == ASSUME SerialAssumption, LInv, ReadNothing PROVE Goes
<1>1. /\ pc = "sync" /\ line' = <<>>
      /\ UNCHANGED <<pc, wants, flushed, buffered, rest, got, handle, baud, current, speed, running, heard, faults>>
  BY DEF ReadNothing, buffer, port, target
<1>2. \A k \in 1..Len(line') : FALSE
  BY <1>1, EmptySeq
<1>3. handle => SyncLine'
  BY <1>1, <1>2 DEF LInv, InStep, SyncLine
<1>4. NoHole' /\ (handle' => InStep')
  BY <1>1, <1>3 DEF LInv, NoHole, InStep, Handed, Complete
<1>5. QED BY <1>1, <1>4, Stutters DEF Goes

(* A break leaves zeros, and perhaps a 0xFF. *)
LEMMA StrayBytes ==
  \A stray \in Stray : \A k \in 1..Len(stray) : stray[k].kind \in {"zero", "ones"}
<1>1. B("zero", 0).kind = "zero" /\ B("ones", 0).kind = "ones"
  BY ByteFields
<1>2. \A k \in 1..Len(<<>>) : <<>>[k].kind \in {"zero", "ones"}
  BY EmptySeq
<1>3. \A k \in 1..Len(<<B("zero", 0)>>) : <<B("zero", 0)>>[k].kind \in {"zero", "ones"}
  BY <1>1
<1>4. \A k \in 1..Len(<<B("zero", 0), B("ones", 0)>>) :
        <<B("zero", 0), B("ones", 0)>>[k].kind \in {"zero", "ones"}
  BY <1>1
<1>5. QED BY <1>2, <1>3, <1>4 DEF Stray

(* What a break or a breakpoint leaves is a line to synchronise on. *)
LEMMA BreakLine ==
  ASSUME SerialAssumption, NEW stray \in Stray, NEW s \in Speeds, NEW t, t = stray \o <<B("sync", s)>>
  PROVE  \A k \in 1..Len(t) : t[k].kind \in {"zero", "ones"} \/ (k = Len(t) /\ t[k] = B("sync", s))
<1> DEFINE last == <<B("sync", s)>>
<1>1. stray \in Seq(Bytes) /\ last \in Seq(Bytes) /\ Len(last) = 1 /\ last[1] = B("sync", s)
  BY StraySeq, SyncTail
<1> HIDE DEF last
<1>2. /\ Len(stray) \in Nat /\ Len(t) = Len(stray) + 1
      /\ \A k \in 1..Len(stray) + 1 : t[k] = IF k <= Len(stray) THEN stray[k] ELSE last[k - Len(stray)]
  <2>1. stray \in Seq(Bytes) /\ last \in Seq(Bytes) /\ t = stray \o last
    BY <1>1 DEF last
  <2>2. /\ Len(stray \o last) = Len(stray) + Len(last)
        /\ \A i \in 1 .. Len(stray) + Len(last) : (stray \o last)[i] =
                     IF i <= Len(stray) THEN stray[i] ELSE last[i - Len(stray)]
    BY <2>1, ConcatProperties
  <2>3. QED BY <1>1, <2>1, <2>2, LenProperties
<1>3. \A k \in 1..Len(stray) : stray[k].kind \in {"zero", "ones"}
  BY StrayBytes
<1>4. QED BY <1>1, <1>2, <1>3

(* A break halts the target; the Assert gives up. *)
LEMMA BreakAndSyncGoes == ASSUME SerialAssumption, LInv, SerialBreakAndSync PROVE Goes
<1>1. /\ pc = "break" /\ UNCHANGED <<handle, baud, current, speed, heard>>
      /\ running \in BOOLEAN /\ speed \in Speeds
  BY DEF SerialBreakAndSync, port, LInv, IInv, Typed
<1>2. CASE buffered = 0
  <2>1. SerialBreak /\ pc' = "sync" /\ UNCHANGED <<wants, flushed, buffered, rest, got>>
    BY <1>2 DEF SerialBreakAndSync, buffer
  <2>2. PICK stray \in Stray, fault \in {"none", "mute"} :
          line' = stray \o (IF fault = "mute" THEN <<>> ELSE <<B("sync", speed)>>)
    BY <2>1 DEF SerialBreak
  <2>3. SyncLine'
    <3>1. CASE fault = "mute"
      <4>1. stray \in Seq(Bytes)
        BY StraySeq
      <4>2. line' = stray
        BY <2>2, <3>1, <4>1, ConcatEmptySeq
      <4>3. QED BY <2>1, <4>2, StrayBytes DEF SyncLine, SerialBreak
    <3>2. CASE fault # "mute"
      <4>1. line' = stray \o <<B("sync", speed)>>
        BY <2>2, <3>2
      <4>2. \A k \in 1..Len(line') :
              line'[k].kind \in {"zero", "ones"} \/ (k = Len(line') /\ line'[k] = B("sync", speed))
        BY <1>1, <4>1, BreakLine
      <4>3. QED BY <1>1, <2>1, <4>2 DEF SyncLine, SerialBreak
    <3>3. QED BY <3>1, <3>2
  <2>4. NoHole' /\ (handle' => InStep')
    BY <1>1, <2>1, <2>3 DEF LInv, NoHole, InStep, Handed, Complete
  <2>5. QED BY <1>1, <2>1, <2>4, Halts DEF Goes, SerialBreak
<1>3. CASE buffered # 0
  <2>1. /\ pc' = "idle" /\ wants' = "nothing" /\ rest' = 0 /\ rest = 0
        /\ UNCHANGED <<flushed, buffered, got, running, line, faults>>
    BY <1>1, <1>3 DEF SerialBreakAndSync, Fail, LInv, IInv, Placed
  <2>2. NoHole' /\ (handle' => InStep')
    BY <1>1, <1>3, <2>1 DEF LInv, NoHole, InStep, Handed, Complete, Quiet
  <2>3. QED BY <1>1, <2>1, <2>2, Stutters DEF Goes
<1>4. QED BY <1>2, <1>3

(* ConnectSerialPort breaks later, or halts the target at once. *)
LEMMA ConnectGoes ==
  ASSUME SerialAssumption, LInv, NEW rate \in Speeds \union {0}, Connect(rate) PROVE Goes
<1>1. /\ pc = "idle" /\ wants = "nothing" /\ UNCHANGED <<wants, flushed, buffered, rest, got, speed, heard, faults>>
      /\ running \in BOOLEAN
  BY DEF Connect, buffer, LInv, IInv, Typed
<1>2. CASE handle /\ rate \in {0, baud}
  <2>1. pc' = "break" /\ UNCHANGED <<handle, baud, current, line, running>>
    BY <1>2 DEF Connect, port
  <2>2. NoHole' /\ (handle' => InStep')
    BY <1>1, <2>1 DEF LInv, NoHole, InStep, Handed, Complete, Quiet
  <2>3. QED BY <1>1, <2>1, <2>2, Halts DEF Goes
<1>3. CASE ~(handle /\ rate \in {0, baud})
  <2>1. pc' = "idle" /\ line' = <<>> /\ running' = FALSE /\ (handle' => baud' = speed)
    BY <1>1, <1>3 DEF Connect, TryConnect
  <2>2. NoHole' /\ (handle' => InStep')
    BY <1>1, <2>1 DEF LInv, NoHole, InStep, Handed, Complete, Quiet
  <2>3. QED BY <1>1, <2>1, <2>2, Halts DEF Goes
<1>4. QED BY <1>2, <1>3

(* What GoWaitLoop goes on to does not move the abstract link. *)
LEMMA WaitingGoes == ASSUME SerialAssumption, LInv, DeviceBreak \/ KeyboardBreak PROVE Goes
<1>1. /\ pc = "wait" /\ \/ pc' = "sync" /\ line # <<>>
                        \/ pc' = "break"
      /\ UNCHANGED <<wants, flushed, buffered, rest, got, handle, baud, current, line, speed, running, heard, faults>>
  BY DEF DeviceBreak, KeyboardBreak, Goto, buffer, port, target
<1>2. buffered = 0
  BY <1>1 DEF LInv, IInv, Placed
<1>3. NoHole' /\ (handle' => InStep')
  BY <1>1, <1>2 DEF LInv, NoHole, InStep, Handed, Complete, SyncLine
<1>4. QED BY <1>1, <1>3, Stutters DEF Goes

(* A breakpoint halts the target, with a line to synchronise on. *)
LEMMA BreakpointGoes == ASSUME SerialAssumption, LInv, Breakpoint PROVE Goes
<1>1. /\ running /\ running' = FALSE /\ speed' \in Speeds
      /\ UNCHANGED <<pc, wants, flushed, buffered, rest, got, handle, baud, current, heard, faults>>
  BY DEF Breakpoint, buffer, port
<1>2. PICK stray \in Stray : line' = line \o stray \o <<B("sync", speed')>>
  BY DEF Breakpoint
<1>3. ASSUME line = <<>> PROVE SyncLine'
  <2>1. stray \in Seq(Bytes)
    BY StraySeq
  <2>2. line \o stray = stray
    BY <1>3, <2>1, ConcatEmptySeq
  <2>3. line' = stray \o <<B("sync", speed')>>
    BY <1>2, <2>2
  <2>4. \A k \in 1..Len(line') :
          line'[k].kind \in {"zero", "ones"} \/ (k = Len(line') /\ line'[k] = B("sync", speed'))
    BY <1>1, <2>3, BreakLine
  <2>5. QED BY <1>1, <2>4 DEF SyncLine
<1>4. Handed' = Handed /\ Complete("answer")' = Complete("answer") /\ Complete("sync")' = Complete("sync")
      /\ Complete("go")' = Complete("go")
  BY <1>1 DEF Handed, Complete
<1>5. NoHole' /\ (handle' => InStep')
  BY <1>1, <1>3, <1>4 DEF LInv, NoHole, InStep, Quiet, SyncLine
<1>6. [Link!LNext]_(Link!lvars)
  BY <1>1, Halts DEF LInv, IInv, Typed
<1>7. QED BY <1>5, <1>6 DEF Goes

(* A caller that hands bytes over says them. *)
LEMMA HandOverGoes ==
  ASSUME SerialAssumption, LInv, NEW n \in 1..MaxSend, NEW w \in Wants, HandOver(n, w) PROVE Goes
<1>1. /\ pc = "idle" /\ wants = "nothing" /\ pc' = "send" /\ wants' = w /\ rest' = n /\ got' = 0
      /\ UNCHANGED <<flushed, buffered, handle, baud, current, line, speed, running, heard, faults>>
  BY DEF HandOver, port, target
<1>2. n \in Nat \ {0} /\ rest = 0 /\ flushed \in Nat /\ buffered \in Nat
  BY <1>1, Totals DEF SerialAssumption, LInv, IInv, Placed
<1>3. NoHole' /\ (handle' => InStep')
  BY <1>1, <1>2 DEF LInv, NoHole, InStep, Handed, Complete, Quiet
<1>4. Link!Say
  BY <1>1, <1>2 DEF Link!Say
<1>5. QED BY <1>3, <1>4 DEF Goes, Link!LNext

(* The initial states have the invariant, and are initial ones of the      *)
(* abstract link.                                                          *)
LEMMA LinkStart == ASSUME SerialAssumption PROVE Init => LInv /\ Link!LInit
<1>1. Init => IInv
  BY SerialStart
<1>2. QED BY <1>1 DEF Init, LInv, NoHole, Link!LInit

(* Every step keeps the invariant, and is one of the abstract link or a    *)
(* stutter.                                                                *)
LEMMA LinkStep ==
  ASSUME SerialAssumption, "collision" \notin Faults, LInv, [Next]_vars PROVE LInv' /\ [Link!LNext]_(Link!lvars)
<1>1. IInv'
  BY SerialKept DEF LInv
<1>2. Goes
  <2>1. CASE SendFull
    BY <2>1, SendFullGoes
  <2>2. CASE SendRest
    BY <2>2, SendRestGoes
  <2>3. CASE SerialReceive \/ SerialSync \/ SerialWait
    BY <2>3, FlushGoes
  <2>4. CASE ReadReply
    BY <2>4, ReadReplyGoes
  <2>5. CASE ReadSync
    BY <2>5, ReadSyncGoes
  <2>6. CASE SerialBreakAndSync
    BY <2>6, BreakAndSyncGoes
  <2>7. CASE DeviceBreak \/ KeyboardBreak
    BY <2>7, WaitingGoes
  <2>8. CASE Breakpoint
    BY <2>8, BreakpointGoes
  <2>9. CASE \E n \in 1..MaxSend, w \in Wants : HandOver(n, w)
    BY <2>9, HandOverGoes
  <2>10. CASE \E rate \in Speeds \union {0} : Connect(rate)
    BY <2>10, ConnectGoes
  <2>11. CASE UNCHANGED vars
    <3>1. UNCHANGED <<pc, wants, flushed, buffered, rest, got, handle, baud, current, line, speed, running, heard, faults>>
      BY <2>11 DEF vars, buffer, port, target
    <3>2. NoHole' /\ (handle' => InStep')
      BY <3>1 DEF LInv, NoHole, InStep, Handed, Complete, SyncLine, Quiet
    <3>3. QED BY <3>1, <3>2, Stutters DEF Goes
  <2>12. CASE ReadNothing
    BY <2>12, ReadNothingGoes
  <2>13. QED
    BY <2>1, <2>2, <2>3, <2>4, <2>5, <2>6, <2>7, <2>8, <2>9, <2>10, <2>11, <2>12 DEF Next, HostStep
<1>3. QED BY <1>1, <1>2 DEF LInv, Goes

(* SerialSendBytes to SerialBreakAndSync: where no byte collides the       *)
(* serial link implements DwLink, the link that the rest of dwdebug        *)
(* assumes, and the target has acted on all that has left the buffer.      *)
THEOREM SerialImplementsLink ==
  ASSUME SerialAssumption, "collision" \notin Faults PROVE Spec => Link!LSpec /\ []NoHole
<1>1. Init => LInv /\ Link!LInit
  BY LinkStart
<1>2. LInv /\ [Next]_vars => LInv' /\ [Link!LNext]_(Link!lvars)
  BY LinkStep
<1>3. LInv => NoHole
  BY DEF LInv
<1>4. QED BY <1>1, <1>2, <1>3, PTL DEF Spec, Link!LSpec
=============================================================================
