------------------------------- MODULE I2cBus -------------------------------
(***************************************************************************)
(* The adapter as an I2C master: the jobs 8 to 11 of usbtiny/main.c and    *)
(* the routines they are made of, with a slave on the bus.  The master     *)
(* writes the direction register of the two pins, one or both at a time:   *)
(* an output pulls the line low, an input lets it float high.  A job is at *)
(* a step of the routine for a bit of a byte.                              *)
(*                                                                         *)
(* The slave watches the lines as the bus demands.  It does not stretch    *)
(* the clock: the master does not look at it.                              *)
(***************************************************************************)
EXTENDS Naturals, Sequences

CONSTANTS
  Bits,         \* bits in a byte: 8 in the code
  Messages,     \* the lists of bytes the host sends in a request
  ReadLengths,  \* the numbers of bytes the host reads in a request
  MaxJobs       \* bound: jobs in a run

Bytes == [1..Bits -> {0, 1}]

\* What the constants are assumed to be: an address and a direction make a byte.
I2cAssumption ==
  /\ Bits \in Nat \ {0, 1}
  /\ \A msg \in Messages : msg \in Seq(Bytes) /\ Len(msg) > 0
  /\ ReadLengths \subseteq 1..8            \* sendBuffer has nine bytes, the last is a flag
  /\ MaxJobs \in Nat

VARIABLES
  sda, scl,    \* the master's pins: 1 lets the line float, 0 pulls it low
  byteNo,      \* the byte the job is at
  bitNo,       \* the routine for it: 0 the START, 1..Bits the bits, Bits + 1 the acknowledgement
  stepNo,      \* the step of the routine, 0 when no job runs
  bitsRead,    \* the bits read of the present byte
  job,         \* the job that runs or ran last
  reply,       \* sendBuffer, after the job
  legal,       \* what the host may do next: "init", "begin", "write", "read"
  pull,        \* does the slave hold the data line low?
  mode,        \* the slave: "idle", "address", "get", "put", "passive" and the steps of acknowledging
  inByte,      \* the bits of the present byte that the slave has taken or put
  outByte,     \* the byte it puts on the line
  taken,       \* history: the bytes the slave has taken in this job
  given,       \* history: the bytes the slave has put on the line in this job
  events,      \* history: START and STOP the slave has seen in this job
  jobs         \* the number of jobs

master == <<sda, scl, byteNo, bitNo, stepNo, bitsRead, job, reply, legal, jobs>>
slave  == <<pull, mode, inByte, outByte, taken, given, events>>
vars   == <<master, slave>>

Line(d, p) == IF d = 1 /\ ~p THEN 1 ELSE 0     \* the level of the data line
-----------------------------------------------------------------------------
(* A step of a job: the levels the pins get, or a reading.                 *)
DataHi  == [op |-> "data", to |-> 1]
DataLo  == [op |-> "data", to |-> 0]
ClockHi == [op |-> "clock", to |-> 1]
ClockLo == [op |-> "clock", to |-> 0]
BothHi  == [op |-> "both", to |-> 1]
Read    == [op |-> "read", to |-> 0]

\* A mutant: the data line is put low before the clock is.
I2C_WriteBit_Early(b) == IF b = 1 THEN <<DataHi, ClockHi, DataLo, ClockLo>> ELSE <<DataLo, ClockHi, ClockLo>>

I2C_WriteBit(b) == IF b = 1 THEN <<DataHi, ClockHi, ClockLo, DataLo>> ELSE <<DataLo, ClockHi, ClockLo>>

I2C_ReadBit == <<DataHi, ClockHi, Read, ClockLo>>
I2C_Init    == <<ClockHi, DataHi>>
I2C_Start   == <<BothHi, DataLo, ClockLo>>

\* A mutant: the clock is let go before the data line is held.
I2C_Stop_ClockFirst == <<ClockHi, DataLo, DataHi>>

I2C_Stop    == <<DataLo, ClockLo, ClockHi, DataHi>>

\* A mutant: the least significant bit first.
I2C_Write_Reversed(byte, k) == IF k <= Bits THEN I2C_WriteBit(byte[Bits + 1 - k]) ELSE I2C_ReadBit

(* Routine k of a byte, the most significant bit first: byte[1].           *)
I2C_Write(byte, k) == IF k <= Bits THEN I2C_WriteBit(byte[k]) ELSE I2C_ReadBit

\* A mutant: the acknowledgement is inverted.
I2C_Read_Inverted(ack, k) == IF k <= Bits THEN I2C_ReadBit ELSE I2C_WriteBit(IF ack THEN 1 ELSE 0)

I2C_Read(ack, k) == IF k <= Bits THEN I2C_ReadBit ELSE I2C_WriteBit(IF ack THEN 0 ELSE 1)

(* The jobs: init, send an address, send bytes, read bytes.  They are the  *)
(* routine for byte i and k; none when the job is over.                    *)
Ending(k)   == IF job.stop /\ k = 1 THEN I2C_Stop ELSE <<>>
Job8(i, k)  == IF i = 1 /\ k = 1 THEN I2C_Init ELSE <<>>
Job9(i, k)  == IF i > 1 THEN <<>> ELSE IF k = 0 THEN I2C_Start ELSE I2C_Write(job.bytes[i], k)
Job10(i, k) == IF i <= Len(job.bytes) THEN I2C_Write(job.bytes[i], k) ELSE Ending(k)
Job11(i, k) == IF i <= job.length THEN I2C_Read(~job.nack \/ i < job.length, k) ELSE Ending(k)

Routine(i, k) ==
  CASE job.kind = "init"  -> Job8(i, k)
    [] job.kind = "begin" -> Job9(i, k)
    [] job.kind = "send"  -> Job10(i, k)
    [] job.kind = "read"  -> Job11(i, k)
-----------------------------------------------------------------------------
Idle == stepNo = 0

StartJob(j) ==
  /\ Idle /\ jobs < MaxJobs
  /\ jobs' = jobs + 1
  /\ job' = j
  /\ byteNo' = 1 /\ bitNo' = (IF j.kind = "begin" THEN 0 ELSE 1) /\ stepNo' = 1
  /\ bitsRead' = <<>> /\ reply' = <<>>
  /\ taken' = <<>> /\ given' = <<>> /\ events' = <<>>
  /\ UNCHANGED <<sda, scl, pull, mode, inByte, outByte>>

Job(kind, before) == [kind |-> kind, after |-> before, bytes |-> <<>>, length |-> 0, nack |-> FALSE, stop |-> FALSE]

(* What the host may ask for: bytes are sent and read after an address     *)
(* that was for that direction, and until the end of the message.          *)
Init8 == legal = "init" /\ StartJob(Job("init", job.kind)) /\ legal' = "begin"

(* The last bit of the address is the direction.  A slave that has been    *)
(* told to send is not interrupted.                                        *)
Begin(address) ==
  /\ \/ legal \in {"begin", "write"}
     \/ legal = "read" /\ job.kind = "begin" /\ reply = <<1>>
  /\ StartJob([Job("begin", job.kind) EXCEPT !.bytes = <<address>>])
  /\ legal' = IF address[Bits] = 0 THEN "write" ELSE "read"

Send(bytes, stop) ==
  /\ legal = "write"
  /\ StartJob([Job("send", job.kind) EXCEPT !.bytes = bytes, !.stop = stop])
  /\ legal' = IF stop THEN "begin" ELSE "write"

(* A read that ends the message does not acknowledge its last byte.        *)
Receive(length, nack, stop) ==
  /\ legal = "read" /\ (stop => nack)
  /\ StartJob([Job("read", job.kind) EXCEPT !.length = length, !.nack = nack, !.stop = stop])
  /\ legal' = IF nack THEN "begin" ELSE "read"
-----------------------------------------------------------------------------
(* The slave sees the data line change while the clock is high.            *)
SeesStart == mode' = "address" /\ inByte' = <<>> /\ events' = Append(events, "START") /\ pull' = FALSE
SeesStop  == mode' = "idle" /\ inByte' = <<>> /\ events' = Append(events, "STOP") /\ pull' = FALSE

(* The clock rises: the slave takes a bit, or the master's acknowledgement.*)
Rises(level) ==
  /\ UNCHANGED <<pull, given, events, outByte>>
  /\ CASE mode \in {"address", "get"} ->
            LET byte == Append(inByte, level)
            IN  IF Len(byte) < Bits
                THEN inByte' = byte /\ UNCHANGED <<mode, taken>>
                ELSE /\ taken' = Append(taken, byte)
                     /\ inByte' = byte
                     /\ mode' = IF mode = "address" THEN "ackAddress" ELSE "ackData"
       [] mode = "masterAck" -> mode' = (IF level = 0 THEN "next" ELSE "passive") /\ UNCHANGED <<inByte, taken>>
       [] OTHER -> UNCHANGED <<mode, inByte, taken>>

(* The slave puts the bit after those sent on the line.                    *)
Puts(byte, sent) ==
  LET bit == byte[Len(sent) + 1]
  IN  /\ pull' = (bit = 0)
      /\ outByte' = byte
      /\ inByte' = Append(sent, bit)
      /\ mode' = "put"

Acknowledges ==
  /\ \E ack \in BOOLEAN :
       /\ pull' = ack
       /\ mode' = CASE ~ack -> "passive"
                    [] ack /\ mode = "ackAddress" /\ inByte[Bits] = 1 -> "next"
                    [] OTHER -> "acked"
  /\ UNCHANGED <<inByte, outByte, given>>

(* The clock falls: the slave may change the data line.  It acknowledges   *)
(* or not, as it likes; a slave that did not is silent until a START.      *)
Falls ==
  /\ UNCHANGED <<taken, events>>
  /\ CASE mode \in {"ackAddress", "ackData"} -> Acknowledges
       [] mode = "next" ->
            (\E byte \in Bytes : Puts(byte, <<>>)) /\ UNCHANGED given
       [] mode = "acked" ->
            pull' = FALSE /\ mode' = "get" /\ inByte' = <<>> /\ UNCHANGED <<outByte, given>>
       [] mode = "put" /\ Len(inByte) < Bits -> Puts(outByte, inByte) /\ UNCHANGED given
       [] mode = "put" /\ Len(inByte) >= Bits ->
            pull' = FALSE /\ mode' = "masterAck" /\ given' = Append(given, outByte) /\ UNCHANGED <<inByte, outByte>>
       [] OTHER -> pull' = FALSE /\ UNCHANGED <<mode, inByte, outByte, given>>

(* What the slave makes of new levels of the master's pins.                *)
Watch(d, c) ==
  LET before == Line(sda, pull)
      after  == Line(d, pull)
  IN  CASE scl = 0 /\ c = 1 -> Rises(after)
        [] scl = 1 /\ c = 0 -> Falls
        [] scl = 1 /\ before = 1 /\ after = 0 -> SeesStart /\ UNCHANGED <<outByte, taken, given>>
        [] scl = 1 /\ before = 0 /\ after = 1 -> SeesStop /\ UNCHANGED <<outByte, taken, given>>
        [] OTHER -> UNCHANGED slave

(* Both lines are let go in one instruction, but each rises when it does:  *)
(* the clock may be first.                                                 *)
ClockFirst ==
  /\ scl = 0 /\ Line(sda, pull) = 0 /\ ~pull
  /\ SeesStop
  /\ UNCHANGED <<outByte, taken, given>>

(* A step sets the pins, or reads the data line: res is cleared at the     *)
(* first bit, and the acknowledgement of a byte sent is q.                 *)
Do(s) ==
  LET d == IF s.op \in {"data", "both"} THEN s.to ELSE sda
      c == IF s.op \in {"clock", "both"} THEN s.to ELSE scl
  IN  /\ sda' = d /\ scl' = c
      /\ Watch(d, c) \/ (s.op = "both" /\ ClockFirst)
      /\ bitsRead' = IF s.op = "read"
                     THEN Append(IF bitNo \in 2..Bits THEN bitsRead ELSE <<>>, Line(sda, pull))
                     ELSE bitsRead

(* What is in sendBuffer when a routine returns and over says that the job *)
(* ends: the bytes read, or the last acknowledgement.                      *)
Result(over) ==
  CASE job.kind = "read" /\ bitNo = Bits + 1   -> Append(reply, bitsRead)
    [] job.kind \in {"begin", "send"} /\ over -> bitsRead
    [] OTHER                                   -> reply

(* The routine returns and the next one is called.                         *)
Return ==
  LET i == IF bitNo <= Bits THEN byteNo ELSE byteNo + 1
      k == IF bitNo <= Bits THEN bitNo + 1 ELSE 1
      over == Len(Routine(i, k)) = 0
  IN  /\ byteNo' = i /\ bitNo' = k
      /\ stepNo' = (IF over THEN 0 ELSE 1)
      /\ reply' = Result(over)

Step ==
  /\ ~Idle
  /\ Do(Routine(byteNo, bitNo)[stepNo])
  /\ IF stepNo < Len(Routine(byteNo, bitNo))
     THEN stepNo' = stepNo + 1 /\ UNCHANGED <<byteNo, bitNo, reply>>
     ELSE Return
  /\ UNCHANGED <<job, legal, jobs>>
-----------------------------------------------------------------------------
(* Both lines float.                                                       *)
Init ==
  /\ sda = 1 /\ scl = 1
  /\ byteNo = 1 /\ bitNo = 1 /\ stepNo = 0
  /\ bitsRead = <<>> /\ job = Job("none", "none") /\ reply = <<>>
  /\ legal = "init"
  /\ pull = FALSE /\ mode = "idle" /\ inByte = <<>> /\ outByte = <<>>
  /\ taken = <<>> /\ given = <<>> /\ events = <<>>
  /\ jobs = 0

Next ==
  \/ Init8
  \/ \E address \in Bytes : Begin(address)
  \/ \E bytes \in Messages, stop \in BOOLEAN : Send(bytes, stop)
  \/ \E length \in ReadLengths, nack, stop \in BOOLEAN : Receive(length, nack, stop)
  \/ Step

Spec == Init /\ [][Next]_vars
-----------------------------------------------------------------------------
TypeOK ==
  /\ sda \in {0, 1} /\ scl \in {0, 1}
  /\ bitsRead \in Seq({0, 1})
  /\ Len(reply) <= IF job.kind = "read" THEN job.length ELSE 1
  /\ mode \in {"idle", "address", "get", "put", "ackAddress", "ackData", "acked", "masterAck",
              "next", "passive"}
  /\ taken \in Seq(Bytes)
  /\ legal \in {"init", "begin", "write", "read"}

Finished(kind) == Idle /\ job.kind = kind

(* After an address the slave has seen a START and exactly this address,   *)
(* and the reply is the slave's acknowledgement (job 9).                   *)
AddressSent ==
  Finished("begin") =>
    /\ events[Len(events)] = "START"
    /\ taken = <<job.bytes[1]>>
    /\ reply = <<IF mode = "passive" THEN 1 ELSE 0>>

(* A slave that acknowledges takes the bytes as they were given, and       *)
(* nothing else.                                                           *)
BytesSent ==
  Finished("send") =>
    /\ \A i \in 1..Len(taken) : taken[i] = job.bytes[i]
    /\ reply = <<0>> => Len(taken) = Len(job.bytes)

(* A slave that has acknowledged a reading address is asked for as many    *)
(* bytes as the host wants, and what is read is what it put on the line.   *)
BytesRead ==
  (Finished("read") /\ given # <<>>) => reply = given

(* In a message the data line changes only while the clock is low, so that *)
(* a job that sends or reads bytes ends with a STOP if the host has asked  *)
(* for one, and shows the slave none otherwise.                            *)
StopsAsAsked ==
  (Idle /\ job.kind \in {"send", "read"}) =>
    events = IF job.stop THEN <<"STOP">> ELSE <<>>

(* An address that is sent without a STOP before it is a repeated START:   *)
(* the slave does not see the message end, except after reading, when both *)
(* lines rise from low (I2C_Start).                                        *)
RepeatedStart ==
  (Finished("begin") /\ job.after # "read") => events = <<"START">>
=============================================================================
