------------------------ MODULE DigisparkLinkProofs -------------------------
(***************************************************************************)
(* Proofs about DigisparkLink, for all capacities, retry limits, clock     *)
(* rates and numbers and kinds of faults.                                  *)
(***************************************************************************)
EXTENDS DigisparkLink, TLAPS

(* The bookkeeping of DigisparkSend: `rest' is nonzero only inside it, and *)
(* a transfer has something to send.  In particular a caller that has      *)
(* handed bytes over finds some of them still in the buffer.               *)
BufferInv ==
  /\ flushed + buffered + rest <= MaxBytes
  /\ rest > 0 => pc \in {"transfer", "crashed"} /\ code = "send" /\ rest + buffered > Capacity
  /\ pc = "transfer" => buffered + rest > 0
  /\ asked => buffered + rest > 0
  /\ asked /\ pc = "transfer" => rest > 0
  /\ pc = "read" => buffered = 0

(* The port is open while it is used, and nothing has been read back yet   *)
(* while an operation is under way.                                        *)
HostInv ==
  /\ pc \notin {"idle", "crashed"} => open
  /\ pc = "transfer" => why = "sync"
  /\ pc # "idle" => got = Silence

(* Who may find the pin change interrupt enabled. *)
ArmedInv ==
  armed => \/ stuck
           \/ pc \in {"go", "break"}
           \/ pc = "transfer" /\ code = "wait"
           \/ ~open

(* Between operations on an open port the adapter and the stopped target   *)
(* agree on the speed.                                                     *)
SyncInv ==
  pc \in {"transfer", "read"} \/ (pc = "idle" /\ open /\ current) =>
    unacked \/ (~running /\ bitTime = speed)

(* What dwBuf holds when it is about to be read. *)
ReadInv ==
  pc = "read" =>
    \/ stuck
    \/ dwBuf \in {Silence, Holding("answer", flushed)}
    \/ unacked /\ dwBuf = Junk

Doubtful == unacked /\ why = "sync"

MeasureInv ==
  /\ dwBuf.kind = "pulses" => dwBuf.val \in Speeds
  /\ pc = "measure" /\ ~Doubtful =>
       stuck \/ (~running /\ dwBuf \in {Silence, Holding("pulses", speed)})
  /\ pc = "settime" => ~stuck
  /\ pc = "settime" /\ ~Doubtful => ~running /\ measured = speed

GoInv ==
  /\ pc = "go" =>
       stuck \/ dwBuf = Holding("flag", 0) \/ (dwBuf = Holding("flag", 1) /\ ~running)
  /\ pc = "break" /\ why = "poll" => stuck \/ ~running

IInv == TypeOK /\ BufferInv /\ HostInv /\ ArmedInv /\ SyncInv /\ ReadInv
          /\ MeasureInv /\ GoInv /\ FreshAnswer
-----------------------------------------------------------------------------
USE LinkAssumption

Kinds == {"silence", "echo", "answer", "pulses", "flag", "timing", "junk"}

(* What is known of dwBuf's contents in the proofs. *)
LEMMA Held ==
  /\ \A k \in Kinds, v \in Nat : Holding(k, v) \in Contents
  /\ \A k, v : Holding(k, v).kind = k /\ Holding(k, v).val = v
  /\ \A c \in Contents : c.kind \in Kinds /\ c.val \in Nat
BY DEF Holding, Contents, Kinds

LEMMA HeldConstants ==
  /\ Silence \in Contents /\ Silence.kind = "silence"
  /\ Junk \in Contents /\ Junk.kind = "junk"
BY Held DEF Silence, Junk, Kinds

LEMMA InitInv == Init => IInv
<1> SUFFICES ASSUME Init PROVE IInv
  OBVIOUS
<1>0. FlagsOK
  BY DEF Init, FlagsOK
<1>1. ValuesOK
  BY HeldConstants DEF Init, ValuesOK
<1>2. BufferInv /\ HostInv /\ ArmedInv /\ SyncInv /\ ReadInv
  BY DEF Init, BufferInv, HostInv, ArmedInv, SyncInv, ReadInv
<1>3. MeasureInv /\ GoInv /\ FreshAnswer
  BY HeldConstants DEF Init, MeasureInv, GoInv, FreshAnswer
<1> QED
  BY <1>0, <1>1, <1>2, <1>3 DEF IInv, TypeOK

LEMMA DigisparkFlushInv == IInv /\ DigisparkFlush => IInv'
<1> SUFFICES ASSUME IInv, DigisparkFlush PROVE IInv'
  OBVIOUS
<1> USE DEF IInv, DigisparkFlush, StartTransfer,
            vars, progress, buffer, port, jobvars, usb
<1>0. FlagsOK'
  BY DEF TypeOK, FlagsOK
<1>1. ValuesOK'
  BY Held, HeldConstants DEF TypeOK, ValuesOK, Kinds
<1>2. BufferInv'
  BY DEF TypeOK, FlagsOK, ValuesOK, BufferInv
<1>2a. HostInv'
  BY DEF TypeOK, FlagsOK, ValuesOK, HostInv
<1>2b. ArmedInv'
  BY DEF TypeOK, FlagsOK, ValuesOK, ArmedInv
<1>3. SyncInv' /\ ReadInv'
  BY Held, HeldConstants DEF TypeOK, FlagsOK, HostInv, ArmedInv, SyncInv, ReadInv, MeasureInv, Doubtful
<1>4. MeasureInv' /\ GoInv' /\ FreshAnswer'
  BY Held, HeldConstants
  DEF TypeOK, FlagsOK, BufferInv, HostInv, ArmedInv, SyncInv, ReadInv, MeasureInv, GoInv, FreshAnswer, Doubtful
<1> QED
  BY <1>0, <1>1, <1>2, <1>2a, <1>2b, <1>3, <1>4 DEF TypeOK

LEMMA ConnectUsbtinyPortInv == IInv /\ ConnectUsbtinyPort => IInv'
<1> SUFFICES ASSUME IInv, ConnectUsbtinyPort PROVE IInv'
  OBVIOUS
<1> USE DEF IInv, ConnectUsbtinyPort, DigisparkBreakAndSync,
            vars, progress, buffer, port, jobvars, usb
<1>0. FlagsOK'
  BY DEF TypeOK, FlagsOK
<1>1. ValuesOK'
  BY Held, HeldConstants DEF TypeOK, ValuesOK, Kinds
<1>2. BufferInv'
  BY DEF TypeOK, FlagsOK, ValuesOK, BufferInv
<1>2a. HostInv'
  BY DEF TypeOK, FlagsOK, ValuesOK, HostInv
<1>2b. ArmedInv'
  BY DEF TypeOK, FlagsOK, ValuesOK, ArmedInv
<1>3. SyncInv' /\ ReadInv'
  BY Held, HeldConstants DEF TypeOK, FlagsOK, HostInv, ArmedInv, SyncInv, ReadInv, MeasureInv, Doubtful
<1>4. MeasureInv' /\ GoInv' /\ FreshAnswer'
  BY Held, HeldConstants
  DEF TypeOK, FlagsOK, BufferInv, HostInv, ArmedInv, SyncInv, ReadInv, MeasureInv, GoInv, FreshAnswer, Doubtful
<1> QED
  BY <1>0, <1>1, <1>2, <1>2a, <1>2b, <1>3, <1>4 DEF TypeOK

LEMMA KeyboardBreakInv == IInv /\ KeyboardBreak => IInv'
<1> SUFFICES ASSUME IInv, KeyboardBreak PROVE IInv'
  OBVIOUS
<1> USE DEF IInv, KeyboardBreak, DigisparkBreakAndSync,
            vars, progress, buffer, port, jobvars, usb
<1>0. FlagsOK'
  BY DEF TypeOK, FlagsOK
<1>1. ValuesOK'
  BY Held, HeldConstants DEF TypeOK, ValuesOK, Kinds
<1>2. BufferInv'
  BY DEF TypeOK, FlagsOK, ValuesOK, BufferInv
<1>2a. HostInv'
  BY DEF TypeOK, FlagsOK, ValuesOK, HostInv
<1>2b. ArmedInv'
  BY DEF TypeOK, FlagsOK, ValuesOK, ArmedInv
<1>3. SyncInv' /\ ReadInv'
  BY Held, HeldConstants DEF TypeOK, FlagsOK, HostInv, ArmedInv, SyncInv, ReadInv, MeasureInv, Doubtful
<1>4. MeasureInv' /\ GoInv' /\ FreshAnswer'
  BY Held, HeldConstants
  DEF TypeOK, FlagsOK, BufferInv, HostInv, ArmedInv, SyncInv, ReadInv, MeasureInv, GoInv, FreshAnswer, Doubtful
<1> QED
  BY <1>0, <1>1, <1>2, <1>2a, <1>2b, <1>3, <1>4 DEF TypeOK

LEMMA ReachedBreakpointInv == IInv /\ ReachedBreakpoint => IInv'
<1> SUFFICES ASSUME IInv, ReachedBreakpoint PROVE IInv'
  OBVIOUS
<1> USE DEF IInv, ReachedBreakpoint, DigisparkBreakAndSync, Answered, Empty, HasData,
            vars, progress, buffer, port, jobvars, usb
<1>0. FlagsOK'
  BY DEF TypeOK, FlagsOK
<1>1. ValuesOK'
  BY Held, HeldConstants DEF TypeOK, ValuesOK, Kinds
<1>2. BufferInv'
  BY DEF TypeOK, FlagsOK, ValuesOK, BufferInv
<1>2a. HostInv'
  BY DEF TypeOK, FlagsOK, ValuesOK, HostInv
<1>2b. ArmedInv'
  BY DEF TypeOK, FlagsOK, ValuesOK, ArmedInv
<1>3. SyncInv' /\ ReadInv'
  BY Held, HeldConstants DEF TypeOK, FlagsOK, HostInv, ArmedInv, SyncInv, ReadInv, MeasureInv, Doubtful
<1>4. MeasureInv' /\ GoInv' /\ FreshAnswer'
  BY Held, HeldConstants
  DEF TypeOK, FlagsOK, BufferInv, HostInv, ArmedInv, SyncInv, ReadInv, MeasureInv, GoInv, FreshAnswer, Doubtful
<1> QED
  BY <1>0, <1>1, <1>2, <1>2a, <1>2b, <1>3, <1>4 DEF TypeOK

LEMMA PollAgainInv == IInv /\ PollAgain => IInv'
<1> SUFFICES ASSUME IInv, PollAgain PROVE IInv'
  OBVIOUS
<1> USE DEF IInv, PollAgain, Lost, Fault,
            vars, progress, buffer, port, jobvars, usb
<1>0. FlagsOK'
  BY DEF TypeOK, FlagsOK
<1>1. ValuesOK'
  BY Held, HeldConstants DEF TypeOK, ValuesOK, Kinds
<1>2. BufferInv'
  BY DEF TypeOK, FlagsOK, ValuesOK, BufferInv
<1>2a. HostInv'
  BY DEF TypeOK, FlagsOK, ValuesOK, HostInv
<1>2b. ArmedInv'
  BY DEF TypeOK, FlagsOK, ValuesOK, ArmedInv
<1>3. SyncInv' /\ ReadInv'
  BY Held, HeldConstants DEF TypeOK, FlagsOK, HostInv, ArmedInv, SyncInv, ReadInv, MeasureInv, Doubtful
<1>4. MeasureInv' /\ GoInv' /\ FreshAnswer'
  BY Held, HeldConstants
  DEF TypeOK, FlagsOK, BufferInv, HostInv, ArmedInv, SyncInv, ReadInv, MeasureInv, GoInv, FreshAnswer, Doubtful
<1> QED
  BY <1>0, <1>1, <1>2, <1>2a, <1>2b, <1>3, <1>4 DEF TypeOK

LEMMA RestartInv == IInv /\ Restart => IInv'
<1> SUFFICES ASSUME IInv, Restart PROVE IInv'
  OBVIOUS
<1> USE DEF IInv, Restart,
            vars, progress, buffer, port, jobvars, usb
<1>0. FlagsOK'
  BY DEF TypeOK, FlagsOK
<1>1. ValuesOK'
  BY Held, HeldConstants DEF TypeOK, ValuesOK, Kinds
<1>2. BufferInv'
  BY DEF TypeOK, FlagsOK, ValuesOK, BufferInv
<1>2a. HostInv'
  BY DEF TypeOK, FlagsOK, ValuesOK, HostInv
<1>2b. ArmedInv'
  BY DEF TypeOK, FlagsOK, ValuesOK, ArmedInv
<1>3. SyncInv' /\ ReadInv'
  BY Held, HeldConstants DEF TypeOK, FlagsOK, HostInv, ArmedInv, SyncInv, ReadInv, MeasureInv, Doubtful
<1>4. MeasureInv' /\ GoInv' /\ FreshAnswer'
  BY Held, HeldConstants
  DEF TypeOK, FlagsOK, BufferInv, HostInv, ArmedInv, SyncInv, ReadInv, MeasureInv, GoInv, FreshAnswer, Doubtful
<1> QED
  BY <1>0, <1>1, <1>2, <1>2a, <1>2b, <1>3, <1>4 DEF TypeOK

LEMMA TargetStopsInv == IInv /\ TargetStops => IInv'
<1> SUFFICES ASSUME IInv, TargetStops PROVE IInv'
  OBVIOUS
<1> USE DEF IInv, TargetStops,
            vars, progress, buffer, port, jobvars, usb
<1>0. FlagsOK'
  BY DEF TypeOK, FlagsOK
<1>1. ValuesOK'
  BY Held, HeldConstants DEF TypeOK, ValuesOK, Kinds
<1>2. BufferInv'
  BY DEF TypeOK, FlagsOK, ValuesOK, BufferInv
<1>2a. HostInv'
  BY DEF TypeOK, FlagsOK, ValuesOK, HostInv
<1>2b. ArmedInv'
  BY DEF TypeOK, FlagsOK, ValuesOK, ArmedInv
<1>3. SyncInv' /\ ReadInv'
  BY Held, HeldConstants DEF TypeOK, FlagsOK, HostInv, ArmedInv, SyncInv, ReadInv, MeasureInv, Doubtful
<1>4. MeasureInv' /\ GoInv' /\ FreshAnswer'
  BY Held, HeldConstants
  DEF TypeOK, FlagsOK, BufferInv, HostInv, ArmedInv, SyncInv, ReadInv, MeasureInv, GoInv, FreshAnswer, Doubtful
<1> QED
  BY <1>0, <1>1, <1>2, <1>2a, <1>2b, <1>3, <1>4 DEF TypeOK

LEMMA TargetChangesClockInv == IInv /\ TargetChangesClock => IInv'
<1> SUFFICES ASSUME IInv, TargetChangesClock PROVE IInv'
  OBVIOUS
<1> USE DEF IInv, TargetChangesClock,
            vars, progress, buffer, port, jobvars, usb
<1>0. FlagsOK'
  BY DEF TypeOK, FlagsOK
<1>1. ValuesOK'
  BY Held, HeldConstants DEF TypeOK, ValuesOK, Kinds
<1>2. BufferInv'
  BY DEF TypeOK, FlagsOK, ValuesOK, BufferInv
<1>2a. HostInv'
  BY DEF TypeOK, FlagsOK, ValuesOK, HostInv
<1>2b. ArmedInv'
  BY DEF TypeOK, FlagsOK, ValuesOK, ArmedInv
<1>3. SyncInv' /\ ReadInv'
  BY Held, HeldConstants DEF TypeOK, FlagsOK, HostInv, ArmedInv, SyncInv, ReadInv, MeasureInv, Doubtful
<1>4. MeasureInv' /\ GoInv' /\ FreshAnswer'
  BY Held, HeldConstants
  DEF TypeOK, FlagsOK, BufferInv, HostInv, ArmedInv, SyncInv, ReadInv, MeasureInv, GoInv, FreshAnswer, Doubtful
<1> QED
  BY <1>0, <1>1, <1>2, <1>2a, <1>2b, <1>3, <1>4 DEF TypeOK

LEMMA ReadBackInv == IInv /\ ReadBack => IInv'
<1> SUFFICES ASSUME IInv, ReadBack PROVE IInv'
  OBVIOUS
<1> USE DEF IInv, ReadBack, Answered, Empty, Lost, HasData, Fault, Again,
            vars, progress, buffer, port, jobvars, usb
<1>0. FlagsOK'
  BY DEF TypeOK, FlagsOK
<1>1. ValuesOK'
  BY Held, HeldConstants DEF TypeOK, ValuesOK, Kinds
<1>2. BufferInv'
  BY DEF TypeOK, FlagsOK, ValuesOK, BufferInv
<1>2a. HostInv'
  BY DEF TypeOK, FlagsOK, ValuesOK, HostInv
<1>2b. ArmedInv'
  BY DEF TypeOK, FlagsOK, ValuesOK, ArmedInv
<1>3. SyncInv'
  BY DEF TypeOK, FlagsOK, HostInv, SyncInv
<1>3a. ReadInv'
  BY DEF TypeOK, FlagsOK, ReadInv
<1>4. MeasureInv' /\ GoInv' /\ FreshAnswer'
  BY Held, HeldConstants
  DEF TypeOK, FlagsOK, BufferInv, HostInv, ArmedInv, SyncInv, ReadInv, MeasureInv, GoInv, FreshAnswer, Doubtful
<1> QED
  BY <1>0, <1>1, <1>2, <1>2a, <1>2b, <1>3, <1>3a, <1>4 DEF TypeOK

LEMMA ReadTimingsInv == IInv /\ ReadTimings => IInv'
<1> SUFFICES ASSUME IInv, ReadTimings PROVE IInv'
  OBVIOUS
<1> USE DEF IInv, ReadTimings, Answered, Empty, Lost, HasData, Fault, Again, NoTimings, PortFail,
            vars, progress, buffer, port, jobvars, usb
<1>0. FlagsOK'
  BY DEF TypeOK, FlagsOK
<1>1. ValuesOK'
  BY Held, HeldConstants DEF TypeOK, ValuesOK, Kinds, MeasureInv
<1>2. BufferInv'
  BY DEF TypeOK, FlagsOK, ValuesOK, BufferInv
<1>2a. HostInv'
  BY DEF TypeOK, FlagsOK, ValuesOK, HostInv
<1>2b. ArmedInv'
  BY DEF TypeOK, FlagsOK, ValuesOK, ArmedInv
<1>3. SyncInv' /\ ReadInv'
  BY Held, HeldConstants DEF TypeOK, FlagsOK, HostInv, ArmedInv, SyncInv, ReadInv, MeasureInv, Doubtful
<1>4. MeasureInv'
  BY Held, HeldConstants DEF TypeOK, FlagsOK, MeasureInv, Doubtful
<1>4a. GoInv'
  BY DEF TypeOK, FlagsOK, MeasureInv, GoInv, Doubtful
<1>4b. FreshAnswer'
  BY Held, HeldConstants
  DEF TypeOK, FlagsOK, BufferInv, HostInv, ArmedInv, SyncInv, ReadInv, MeasureInv, GoInv, FreshAnswer, Doubtful
<1> QED
  BY <1>0, <1>1, <1>2, <1>2a, <1>2b, <1>3, <1>4, <1>4a, <1>4b DEF TypeOK

LEMMA SendTimingInv == IInv /\ SendTiming => IInv'
<1> SUFFICES ASSUME IInv, SendTiming PROVE IInv'
  OBVIOUS
<1> USE DEF IInv, SendTiming, Accepted, Failed, Fault, JobSetTiming, PortFail,
            vars, progress, buffer, port, jobvars, usb
<1>0. FlagsOK'
  BY DEF TypeOK, FlagsOK
<1>1. ValuesOK'
  BY Held, HeldConstants DEF TypeOK, ValuesOK, Kinds
<1>2. BufferInv'
  BY DEF TypeOK, FlagsOK, ValuesOK, BufferInv
<1>2a. HostInv'
  BY DEF TypeOK, FlagsOK, ValuesOK, HostInv
<1>2b. ArmedInv'
  BY DEF TypeOK, FlagsOK, ValuesOK, ArmedInv
<1>3. SyncInv' /\ ReadInv'
  BY Held, HeldConstants DEF TypeOK, FlagsOK, HostInv, ArmedInv, SyncInv, ReadInv, MeasureInv, Doubtful
<1>4. MeasureInv'
  BY Held, HeldConstants DEF TypeOK, FlagsOK, ValuesOK, SyncInv, MeasureInv, GoInv, Doubtful
<1>4a. GoInv'
  BY DEF TypeOK, FlagsOK, MeasureInv, GoInv, Doubtful
<1>4b. FreshAnswer'
  BY Held, HeldConstants
  DEF TypeOK, FlagsOK, BufferInv, HostInv, ArmedInv, SyncInv, ReadInv, MeasureInv, GoInv, FreshAnswer, Doubtful
<1> QED
  BY <1>0, <1>1, <1>2, <1>2a, <1>2b, <1>3, <1>4, <1>4a, <1>4b DEF TypeOK

LEMMA SendBreakInv == IInv /\ SendBreak => IInv'
<1> SUFFICES ASSUME IInv, SendBreak PROVE IInv'
  OBVIOUS
<1> USE DEF IInv, SendBreak, Accepted, Failed, Fault, JobBreak, PortFail, Or,
            vars, progress, buffer, port, jobvars, usb
<1>0. FlagsOK'
  BY DEF TypeOK, FlagsOK
<1>1. ValuesOK'
  BY Held, HeldConstants DEF TypeOK, ValuesOK, Kinds
<1>2. BufferInv'
  BY DEF TypeOK, FlagsOK, ValuesOK, BufferInv
<1>2a. HostInv'
  BY DEF TypeOK, FlagsOK, ValuesOK, HostInv
<1>2b. ArmedInv'
  BY DEF TypeOK, FlagsOK, ValuesOK, ArmedInv
<1>3. SyncInv' /\ ReadInv'
  BY Held, HeldConstants DEF TypeOK, FlagsOK, HostInv, ArmedInv, SyncInv, ReadInv, MeasureInv, Doubtful
<1>4. MeasureInv'
  BY Held, HeldConstants DEF TypeOK, FlagsOK, ValuesOK, SyncInv, MeasureInv, GoInv, Doubtful
<1>4a. GoInv'
  BY DEF TypeOK, FlagsOK, MeasureInv, GoInv, Doubtful
<1>4b. FreshAnswer'
  BY Held, HeldConstants
  DEF TypeOK, FlagsOK, BufferInv, HostInv, ArmedInv, SyncInv, ReadInv, MeasureInv, GoInv, FreshAnswer, Doubtful
<1> QED
  BY <1>0, <1>1, <1>2, <1>2a, <1>2b, <1>3, <1>4, <1>4a, <1>4b DEF TypeOK

LEMMA DigisparkSendInv == ASSUME IInv, NEW n \in 1 .. MaxSend, DigisparkSend(n) PROVE IInv'
<1> USE DEF IInv, DigisparkSend, Overflows, StartTransfer,
            vars, progress, buffer, port, jobvars, usb
<1>0. FlagsOK'
  BY DEF TypeOK, FlagsOK
<1>1. ValuesOK'
  BY Held, HeldConstants DEF TypeOK, ValuesOK, Kinds
<1>2. BufferInv'
  BY DEF TypeOK, FlagsOK, ValuesOK, BufferInv
<1>2a. HostInv'
  BY DEF TypeOK, FlagsOK, ValuesOK, HostInv
<1>2b. ArmedInv'
  BY DEF TypeOK, FlagsOK, ValuesOK, ArmedInv
<1>3. SyncInv' /\ ReadInv'
  BY DEF TypeOK, FlagsOK, HostInv, SyncInv, ReadInv, BufferInv
<1>4. MeasureInv' /\ GoInv' /\ FreshAnswer'
  BY Held, HeldConstants DEF TypeOK, FlagsOK, BufferInv, MeasureInv, GoInv, FreshAnswer, Doubtful
<1> QED
  BY <1>0, <1>1, <1>2, <1>2a, <1>2b, <1>3, <1>4 DEF TypeOK

LEMMA RequestInv == ASSUME IInv, NEW kind, NEW next, Request(kind, next),
       <<kind, next>> \in {<<"receive", "read">>, <<"sync", "measure">>, <<"wait", "go">>} PROVE IInv'
<1> USE DEF IInv, Request, StartTransfer,
            vars, progress, buffer, port, jobvars, usb
<1>0. FlagsOK'
  BY DEF TypeOK, FlagsOK
<1>1. ValuesOK'
  BY Held, HeldConstants DEF TypeOK, ValuesOK, Kinds
<1>2. BufferInv'
  BY DEF TypeOK, FlagsOK, ValuesOK, BufferInv
<1>2a. HostInv'
  BY DEF TypeOK, FlagsOK, ValuesOK, HostInv
<1>2b. ArmedInv'
  BY DEF TypeOK, FlagsOK, ValuesOK, ArmedInv
<1>c. buffered > 0
  BY DEF TypeOK, ValuesOK, BufferInv
<1>d. pc' \in {"transfer", "crashed"}
  BY <1>c
<1>3. SyncInv' /\ ReadInv'
  BY <1>c, <1>d DEF TypeOK, FlagsOK, HostInv, SyncInv, ReadInv
<1>4. MeasureInv' /\ GoInv' /\ FreshAnswer'
  BY <1>d DEF TypeOK, FlagsOK, MeasureInv, GoInv, FreshAnswer, Doubtful
<1> QED
  BY <1>0, <1>1, <1>2, <1>2a, <1>2b, <1>3, <1>4 DEF TypeOK

LEMMA LengthFacts ==
  ASSUME IInv, pc = "transfer"
  PROVE  /\ Length \in Nat \ {0}
         /\ Length <= buffered + rest
         /\ rest > 0 => Length < buffered + rest
         /\ rest = 0 => Length = buffered
         /\ rest > 0 => Length = Capacity
BY DEF IInv, TypeOK, ValuesOK, BufferInv, Length

(* What a job leaves behind, whatever the kind of transfer. *)
LEMMA JobTypes ==
  ASSUME IInv, pc = "transfer", Job(Length)
  PROVE  /\ armed' \in BOOLEAN
         /\ running' \in BOOLEAN
         /\ heard' \in 0 .. MaxBytes
         /\ speed' \in Speeds
         /\ bitTime' = bitTime
         /\ dwBuf' \in Contents
         /\ dwBuf'.kind = "pulses" => dwBuf'.val \in Speeds
<1> USE DEF IInv, TypeOK, Job, JobSend, JobReceive, JobSync, JobWait, SendBytes
<1>1. armed' \in BOOLEAN /\ running' \in BOOLEAN
  BY DEF FlagsOK, listening
<1>2. speed' \in Speeds /\ bitTime' = bitTime
  BY DEF ValuesOK
<1>3. heard' \in 0 .. MaxBytes
  <2>1. flushed + Length \in 0 .. MaxBytes
    BY LengthFacts DEF BufferInv, ValuesOK
  <2> QED
    BY <2>1 DEF ValuesOK
<1>4. dwBuf' \in Contents
  <2>1. flushed + Length \in Nat /\ Length \in Nat
    BY LengthFacts DEF ValuesOK
  <2> QED
    BY <2>1, Held, HeldConstants DEF Or, Kinds
<1>5. dwBuf'.kind = "pulses" => dwBuf'.val \in Speeds
  BY Held, HeldConstants DEF Or, Silence, Junk
<1> QED
  BY <1>1, <1>2, <1>3, <1>4, <1>5

(* What a job does to the target, and what the host will find in dwBuf. *)
LEMMA JobEffects ==
  ASSUME IInv, pc = "transfer", Job(Length)
  PROVE  /\ armed' => armed \/ code = "wait"
         /\ running' => running \/ code = "wait"
         /\ code \in {"send", "receive"} => speed' = speed
         /\ listening => heard' = flushed + Length
         /\ ~listening => heard' = heard /\ speed' = speed
         /\ code = "receive" =>
              dwBuf' \in {Silence, Holding("answer", flushed + Length)}
                \/ (~listening /\ dwBuf' = Junk)
         /\ code = "sync" /\ listening => dwBuf' \in {Silence, Holding("pulses", speed')}
         /\ code = "wait" => dwBuf' = Holding("flag", 0)
<1> USE DEF IInv, TypeOK, ValuesOK, Job, JobSend, JobReceive, JobSync, JobWait
<1>1. (armed' => armed \/ code = "wait") /\ (running' => running \/ code = "wait")
  BY DEF FlagsOK
<1>2. code \in {"send", "receive"} => speed' = speed
  OBVIOUS
<1>3. (listening => heard' = flushed + Length) /\ (~listening => heard' = heard /\ speed' = speed)
  BY DEF SendBytes
<1>4. code = "receive" =>
        dwBuf' \in {Silence, Holding("answer", flushed + Length)} \/ (~listening /\ dwBuf' = Junk)
  BY DEF Or
<1>5. /\ code = "sync" /\ listening => dwBuf' \in {Silence, Holding("pulses", speed')}
      /\ code = "wait" => dwBuf' = Holding("flag", 0)
  BY DEF Or
<1> QED
  BY <1>1, <1>2, <1>3, <1>4, <1>5

(* The part of a DigisparkSend that a transfer leaves. *)
LEMMA SentBuffer ==
  ASSUME IInv, pc = "transfer", Sent
  PROVE  /\ buffered' \in 0 .. Capacity
         /\ rest' \in 0 .. MaxSend
         /\ rest' > 0 => pc' = "transfer" /\ code = "send" /\ rest' > Capacity
         /\ pc' = "transfer" => rest' > 0
         /\ rest > 0 => rest' + buffered' > 0
         /\ rest = 0 => rest' = 0 /\ buffered' = 0
<1> DEFINE left == rest + buffered - Length
<1>1. left \in Nat /\ left <= rest /\ (rest > 0 => left > 0) /\ (rest = 0 => left = 0)
  BY LengthFacts DEF IInv, TypeOK, ValuesOK
<1>2. CASE rest > 0 /\ left > Capacity
  <2>1. rest' = left /\ buffered' = 0 /\ pc' = "transfer"
    BY <1>2 DEF Sent, Overflows, IInv, BufferInv
  <2> QED
    BY <2>1, <1>1, <1>2 DEF IInv, TypeOK, ValuesOK, BufferInv
<1>3. CASE ~(rest > 0 /\ left > Capacity)
  <2>1. rest' = 0 /\ buffered' = left /\ pc' # "transfer"
    BY <1>3 DEF Sent, Overflows, IInv, TypeOK, ValuesOK
  <2> QED
    BY <2>1, <1>1, <1>3 DEF IInv, TypeOK, ValuesOK
<1> QED
  BY <1>2, <1>3

LEMMA SendSucceeds ==
  ASSUME IInv, pc = "transfer", Accepted(Job(Length)), Sent PROVE IInv'
<1> USE DEF IInv, vars, progress, buffer, port, jobvars, usb
<1>a. /\ flushed' = flushed + Length
      /\ tries' = 0
      /\ flushed' + buffered' + rest' = flushed + buffered + rest
  BY LengthFacts DEF Sent, TypeOK, ValuesOK
<1>b. /\ pc' = "transfer" \/ pc' = "idle" => code = "send"
      /\ pc' = "read" => code = "receive"
      /\ pc' = "measure" => code = "sync"
      /\ code = "wait" => pc' = "go"
      /\ pc' = "go" => code = "wait"
      /\ pc' \in {"transfer", "idle", "read", "measure", "go"}
  BY DEF Sent, BufferInv, TypeOK, ValuesOK
<1>c. UNCHANGED <<code, why, breaks, measured, asked, got, open, current, stuck, faults, unacked>>
  BY DEF Sent, Accepted
<1>d. asked => rest > 0
  BY DEF BufferInv
<1>0. FlagsOK'
  BY <1>c, JobTypes DEF TypeOK, FlagsOK, Accepted
<1>1. ValuesOK'
  <2>1. flushed' \in 0 .. MaxBytes
    BY <1>a, LengthFacts DEF TypeOK, ValuesOK, BufferInv
  <2>2. /\ bitTime' \in Speeds \union {0} /\ dwBuf' \in Contents
        /\ speed' \in Speeds /\ heard' \in 0 .. MaxBytes
    BY JobTypes DEF TypeOK, ValuesOK, Accepted
  <2> QED
    BY <2>1, <2>2, <1>a, <1>b, <1>c, SentBuffer DEF TypeOK, ValuesOK
<1>2. HostInv'
  BY <1>b, <1>c DEF HostInv
<1>3. ArmedInv'
  <2>1. CASE stuck
    BY <2>1, <1>c DEF ArmedInv
  <2>2. CASE ~stuck
    <3>1. armed' => armed \/ code = "wait"
      BY <2>2, JobEffects DEF Accepted
    <3>2. armed => code = "wait"
      BY <2>2 DEF ArmedInv, HostInv
    <3> QED
      BY <3>1, <3>2, <1>b DEF ArmedInv
  <2> QED
    BY <2>1, <2>2
<1>4. SyncInv'
  <2>1. CASE stuck
    BY <2>1, <1>b, <1>c DEF SyncInv, Accepted
  <2>2. CASE ~stuck
    BY <2>2, <1>b, <1>c, JobTypes, JobEffects DEF SyncInv, Accepted
  <2> QED
    BY <2>1, <2>2
<1>5. ReadInv'
  BY <1>a, <1>b, <1>c, JobEffects, SentBuffer DEF ReadInv, SyncInv, Accepted, listening
<1>6. MeasureInv'
  <2>1. dwBuf'.kind = "pulses" => dwBuf'.val \in Speeds
    BY JobTypes DEF MeasureInv, Accepted
  <2>2. pc' = "measure" /\ ~stuck /\ ~unacked => ~running' /\ dwBuf' \in {Silence, Holding("pulses", speed')}
    BY <1>b, <1>c, JobTypes, JobEffects DEF SyncInv, Accepted, listening
  <2> QED
    BY <2>1, <2>2, <1>b, <1>c DEF MeasureInv, Doubtful, HostInv
<1>7. GoInv' /\ FreshAnswer'
  BY <1>b, <1>c, JobEffects DEF GoInv, FreshAnswer, HostInv, Accepted
<1>8. BufferInv'
  BY <1>a, <1>b, <1>c, <1>d, SentBuffer DEF BufferInv, TypeOK, ValuesOK
<1> QED
  BY <1>0, <1>1, <1>2, <1>3, <1>4, <1>5, <1>6, <1>7, <1>8 DEF TypeOK

LEMMA SendFails ==
  ASSUME IInv, pc = "transfer", Failed(Job(Length), TRUE),
         (tries < Tries /\ Again) \/ PortFail
  PROVE  IInv'
<1> USE DEF IInv, vars, progress, buffer, port, jobvars, usb
<1>a. /\ UNCHANGED <<code, why, breaks, measured, flushed, buffered, got>>
      /\ \/ tries' = tries + 1 /\ tries < Tries /\ UNCHANGED <<pc, rest, asked, open, current>>
         \/ tries' = tries /\ pc' = "idle" /\ open' = FALSE /\ rest' = 0 /\ asked' = FALSE
            /\ current' = (current /\ why # "connect")
  BY DEF Again, PortFail
<1>b. /\ bitTime' = bitTime
      /\ armed' => armed \/ code = "wait"
      /\ \/ UNCHANGED <<dwBuf, armed, speed, running, heard, unacked>>
         \/ unacked'
      /\ stuck => stuck'
  BY JobTypes, JobEffects DEF Failed, Fault
<1>0. FlagsOK'
  BY <1>a, JobTypes DEF TypeOK, FlagsOK, Failed, Fault
<1>1. ValuesOK'
  <2>1. faults' \in 0 .. MaxFaults
    BY DEF TypeOK, ValuesOK, Failed, Fault
  <2>2. dwBuf' \in Contents /\ speed' \in Speeds /\ heard' \in 0 .. MaxBytes
    BY JobTypes DEF TypeOK, ValuesOK, Failed, Fault
  <2> QED
    BY <2>1, <2>2, <1>a, <1>b DEF TypeOK, ValuesOK
<1>2. BufferInv'
  BY <1>a DEF BufferInv, TypeOK, ValuesOK
<1>3. HostInv'
  BY <1>a DEF HostInv
<1>4. ArmedInv'
  BY <1>a, <1>b DEF ArmedInv, HostInv
<1>5. SyncInv'
  BY <1>a, <1>b DEF SyncInv
<1>6. ReadInv' /\ GoInv'
  BY <1>a DEF ReadInv, GoInv
<1>7. MeasureInv'
  <2>1. dwBuf'.kind = "pulses" => dwBuf'.val \in Speeds
    BY JobTypes DEF MeasureInv, Failed, Fault
  <2> QED
    BY <2>1, <1>a DEF MeasureInv
<1>8. FreshAnswer'
  BY <1>a DEF FreshAnswer, HostInv
<1> QED
  BY <1>0, <1>1, <1>2, <1>3, <1>4, <1>5, <1>6, <1>7, <1>8 DEF TypeOK

LEMMA USBSendBytesInv == IInv /\ USBSendBytes => IInv'
BY SendSucceeds, SendFails DEF USBSendBytes

LEMMA StutterInv == IInv /\ UNCHANGED vars => IInv'
BY DEF IInv, TypeOK, FlagsOK, ValuesOK, BufferInv, HostInv, ArmedInv, SyncInv, ReadInv,
       MeasureInv, GoInv, FreshAnswer, Doubtful, vars, progress, buffer, port, jobvars, usb

THEOREM Invariance == Spec => []IInv
<1>1. IInv /\ [Next]_vars => IInv'
  <2> SUFFICES ASSUME IInv, [Next]_vars PROVE IInv'
    OBVIOUS
  <2>1. ASSUME NEW n \in 1 .. MaxSend, DigisparkSend(n) PROVE IInv'
    BY <2>1, DigisparkSendInv
  <2>2. CASE DigisparkReceive \/ DigisparkSync \/ DigisparkWait
    BY <2>2, RequestInv DEF DigisparkReceive, DigisparkSync, DigisparkWait
  <2>3. CASE DigisparkFlush \/ ConnectUsbtinyPort \/ KeyboardBreak
    BY <2>3, DigisparkFlushInv, ConnectUsbtinyPortInv, KeyboardBreakInv
  <2>4. CASE USBSendBytes \/ ReadBack \/ ReadTimings
    BY <2>4, USBSendBytesInv, ReadBackInv, ReadTimingsInv
  <2>5. CASE SendTiming \/ SendBreak
    BY <2>5, SendTimingInv, SendBreakInv
  <2>6. CASE ReachedBreakpoint \/ PollAgain
    BY <2>6, ReachedBreakpointInv, PollAgainInv
  <2>7. CASE Target \/ Restart
    BY <2>7, TargetStopsInv, TargetChangesClockInv, RestartInv DEF Target
  <2>8. CASE UNCHANGED vars
    BY <2>8, StutterInv
  <2> QED
    BY <2>1, <2>2, <2>3, <2>4, <2>5, <2>6, <2>7, <2>8 DEF Next, HostStep, Command
<1> QED
  BY <1>1, InitInv, PTL DEF Spec

(* All variables keep their types; in particular the output buffer never   *)
(* holds more than its capacity and the retry counters stay bounded.       *)
THEOREM TypeCorrect == Spec => []TypeOK
<1>1. IInv => TypeOK
  BY DEF IInv
<1> QED
  BY <1>1, Invariance, PTL

(* DigisparkReceive never returns data that dwBuf held before the request. *)
THEOREM AnswersFresh == Spec => []FreshAnswer
<1>1. IInv => FreshAnswer
  BY DEF IInv
<1> QED
  BY <1>1, Invariance, PTL

(* The first attempt of every transfer finds the target stopped and the    *)
(* adapter at its speed.                                                   *)
THEOREM SpeedRight == Spec => []RightSpeed
<1>1. IInv => RightSpeed
  BY DEF IInv, SyncInv, RightSpeed
<1> QED
  BY <1>1, Invariance, PTL

(* GoWaitLoop does not take a running target for a stopped one. *)
THEOREM BreakpointsReal == Spec => []BreakpointTrue
<1>1. IInv => BreakpointTrue
  BY DEF IInv, GoInv, BreakpointTrue
<1> QED
  BY <1>1, Invariance, PTL
-----------------------------------------------------------------------------
(* The refinement of DwLink. *)

Lossless == Faults \subseteq {"setup", "in"}

(* Then the adapter is never stuck, and the target has acted on exactly    *)
(* the bytes that the host takes for transferred.                          *)
InStep == ~stuck /\ ~unacked /\ heard = flushed

LEMMA LosslessFailure ==
  ASSUME Lossless, NEW job, NEW hasData, InStep, Failed(job, hasData)
  PROVE  UNCHANGED <<jobvars, stuck, unacked>>
BY DEF Lossless, Failed, Fault

LEMMA InStepTransfer ==
  ASSUME Lossless, IInv, InStep, USBSendBytes
  PROVE  /\ InStep'
         /\ \/ Sent /\ Job(Length) /\ listening
            \/ (Again \/ PortFail) /\ UNCHANGED <<jobvars, stuck, unacked>>
<1>1. listening
  BY DEF IInv, SyncInv, InStep, USBSendBytes, listening
<1>2. CASE Accepted(Job(Length)) /\ Sent
  <2>1. Job(Length) /\ UNCHANGED usb /\ flushed' = flushed + Length
    BY <1>2 DEF Accepted, InStep, Sent
  <2>2. heard' = flushed + Length
    BY <2>1, <1>1, JobEffects DEF USBSendBytes
  <2> QED
    BY <1>1, <1>2, <2>1, <2>2 DEF InStep, usb
<1>3. CASE Failed(Job(Length), TRUE) /\ (Again \/ PortFail)
  <2>1. UNCHANGED <<jobvars, stuck, unacked>>
    BY <1>3, LosslessFailure
  <2> QED
    BY <2>1, <1>3 DEF InStep, Again, PortFail, buffer, jobvars
<1> QED
  BY <1>2, <1>3 DEF USBSendBytes

LEMMA InStepOthers ==
  ASSUME Lossless, IInv, InStep, [Next]_vars, ~USBSendBytes
  PROVE  InStep'
<1> USE DEF InStep, vars, progress, buffer, port, jobvars, usb
<1>1. ASSUME NEW n \in 1 .. MaxSend, DigisparkSend(n) PROVE InStep'
  BY <1>1 DEF DigisparkSend
<1>2. CASE DigisparkReceive \/ DigisparkSync \/ DigisparkWait
  BY <1>2 DEF DigisparkReceive, DigisparkSync, DigisparkWait, Request
<1>3. CASE DigisparkFlush \/ ConnectUsbtinyPort \/ KeyboardBreak
  BY <1>3 DEF DigisparkFlush, ConnectUsbtinyPort, KeyboardBreak, DigisparkBreakAndSync
<1>4. CASE ReadBack
  BY <1>4 DEF ReadBack, Answered, Empty, Lost, Again
<1>5. CASE ReadTimings
  BY <1>5 DEF ReadTimings, Answered, Empty, Lost, Again, NoTimings, PortFail
<1>6. CASE SendTiming
  <2>1. heard' = heard /\ UNCHANGED <<stuck, unacked>>
    BY <1>6, LosslessFailure DEF SendTiming, Accepted, JobSetTiming
  <2> QED
    BY <2>1, <1>6 DEF SendTiming, PortFail
<1>7. CASE SendBreak
  <2>1. heard' = heard /\ UNCHANGED <<stuck, unacked>>
    BY <1>7, LosslessFailure DEF SendBreak, Accepted, JobBreak
  <2> QED
    BY <2>1, <1>7 DEF SendBreak, PortFail
<1>8. CASE ReachedBreakpoint \/ PollAgain
  BY <1>8 DEF ReachedBreakpoint, PollAgain, DigisparkBreakAndSync, Answered, Empty, Lost
<1>9. CASE Target \/ Restart
  BY <1>9 DEF Target, TargetStops, TargetChangesClock, Restart
<1>10. CASE UNCHANGED vars
  BY <1>10
<1> QED
  BY <1>1, <1>2, <1>3, <1>4, <1>5, <1>6, <1>7, <1>8, <1>9, <1>10 DEF Next, HostStep, Command

(* The abstract state, named for the proofs. *)
said  == flushed + buffered + rest
reply == IF got.kind = "answer" THEN got.val ELSE 0

LEMMA Mapped ==
  ASSUME IInv, InStep
  PROVE  /\ said \in Nat /\ heard \in Nat /\ heard <= said
         /\ reply \in Nat
         /\ pc # "idle" => reply = 0
BY Held, HeldConstants DEF IInv, TypeOK, ValuesOK, HostInv, InStep, said, reply

LEMMA TransferRefines ==
  ASSUME Lossless, IInv, InStep, USBSendBytes
  PROVE  [Link!LNext]_(Link!lvars)
<1> USE DEF said, reply, Link!LNext, Link!lvars
<1>1. CASE Sent /\ Job(Length) /\ listening
  <2>1. said' = said /\ got' = got /\ (code = "wait" => rest = 0 /\ rest' = 0 /\ buffered' = 0)
    BY <1>1, SentBuffer, LengthFacts
    DEF USBSendBytes, Sent, IInv, TypeOK, ValuesOK, BufferInv
  <2>2. /\ heard' = heard + Length /\ heard' <= said /\ heard' \in Nat /\ Length \in Nat /\ Length > 0
        /\ code = "wait" => heard' = said
    BY <1>1, JobEffects, LengthFacts, <2>1
    DEF USBSendBytes, InStep, IInv, TypeOK, ValuesOK
  <2>3. running' \in BOOLEAN /\ ~running /\ (running' => code = "wait")
    BY <1>1, JobEffects, JobTypes DEF USBSendBytes, listening
  <2>4. Link!Hear
    <3>1. heard < heard'
      BY <2>2, Mapped
    <3>2. (~running') = FALSE => heard' = said
      BY <2>2, <2>3, Zenon
    <3>3. (~running') \in BOOLEAN
      OBVIOUS
    <3> QED
      BY <3>1, <3>2, <3>3, <2>1, <2>2, <2>3 DEF Link!Hear
  <2> QED
    BY <2>4
<1>2. CASE Again /\ UNCHANGED <<jobvars, stuck, unacked>>
  BY <1>2 DEF Again, buffer, jobvars
<1>3. CASE PortFail /\ UNCHANGED <<jobvars, stuck, unacked>>
  <2>1. said' \in Nat /\ heard <= said' /\ said' <= said /\ reply' = 0
        /\ UNCHANGED <<heard, running>>
    BY <1>3, Mapped DEF PortFail, InStep, IInv, TypeOK, ValuesOK, jobvars, USBSendBytes
  <2> QED
    BY <2>1 DEF Link!GiveUp
<1> QED
  BY <1>1, <1>2, <1>3, InStepTransfer

LEMMA StepRefines ==
  ASSUME Lossless, IInv, InStep, [Next]_vars
  PROVE  [Link!LNext]_(Link!lvars)
<1> USE DEF vars, progress, buffer, port, jobvars, usb, said, reply, Link!LNext, Link!lvars
<1>1. ASSUME NEW n \in 1 .. MaxSend, DigisparkSend(n) PROVE Link!Say
  <2>1. said' = said + n /\ UNCHANGED <<heard, running>>
    BY <1>1 DEF DigisparkSend, IInv, TypeOK, ValuesOK, BufferInv
  <2> QED
    BY <1>1, <2>1, Mapped, HeldConstants DEF DigisparkSend, Link!Say
<1>2. CASE DigisparkReceive \/ DigisparkSync \/ DigisparkWait
  <2>1. got' = Silence /\ UNCHANGED <<flushed, buffered, rest, heard, running>>
    BY <1>2 DEF DigisparkReceive, DigisparkSync, DigisparkWait, Request
  <2> QED
    BY <2>1, Mapped, HeldConstants DEF Link!GiveUp
<1>3. CASE DigisparkFlush \/ ConnectUsbtinyPort
  <2>1. got' = Silence /\ UNCHANGED <<flushed, buffered, rest, heard, running>>
    BY <1>3, Mapped
    DEF DigisparkFlush, ConnectUsbtinyPort, DigisparkBreakAndSync, IInv, TypeOK, ValuesOK, BufferInv
  <2> QED
    BY <2>1, Mapped, HeldConstants DEF Link!GiveUp
<1>4. CASE ReadBack
  <2>1. CASE Answered /\ got' = dwBuf
    <3>1. dwBuf = Holding("answer", flushed)
      BY <1>4, <2>1, HeldConstants DEF ReadBack, Answered, HasData, IInv, ReadInv, InStep
    <3>2. ~running /\ heard = said
      BY <1>4 DEF ReadBack, IInv, SyncInv, InStep, BufferInv, TypeOK, ValuesOK
    <3>3. said' = said /\ UNCHANGED <<heard, running>>
      BY <1>4, <2>1 DEF ReadBack, Answered, Again
    <3>4. reply = 0 /\ reply' = said
      BY <1>4, <2>1, <3>1, <3>2, Mapped, Held DEF ReadBack, InStep
    <3> QED
      BY <3>2, <3>3, <3>4 DEF Link!Answer
  <2>2. CASE ~(Answered /\ got' = dwBuf)
    BY <1>4, <2>2 DEF ReadBack, Empty, Lost, Again
  <2> QED
    BY <2>1, <2>2
<1>5. CASE ReadTimings \/ SendTiming
  <2>1. UNCHANGED <<heard, running, got, flushed, buffered>>
    BY <1>5, LosslessFailure
    DEF ReadTimings, SendTiming, Answered, Empty, Lost, Again, NoTimings, PortFail, Accepted, JobSetTiming
  <2>2. rest = 0
    <3>1. pc \in {"measure", "settime"}
      BY <1>5 DEF ReadTimings, SendTiming
    <3> QED
      BY <3>1 DEF IInv, BufferInv, TypeOK, ValuesOK
  <2>3. rest' = 0
    BY <1>5, <2>2 DEF ReadTimings, SendTiming, Again, NoTimings, PortFail
  <2> QED
    BY <2>1, <2>2, <2>3
<1>6. CASE SendBreak
  <2>1. UNCHANGED <<heard, got, flushed, buffered>> /\ (running' = running \/ running' = FALSE)
    BY <1>6, LosslessFailure DEF SendBreak, Accepted, PortFail, JobBreak
  <2>2. rest = 0
    BY <1>6 DEF SendBreak, IInv, BufferInv, TypeOK, ValuesOK
  <2>3. rest' = 0
    BY <1>6, <2>2 DEF SendBreak, PortFail
  <2>4. CASE running' = running
    BY <2>1, <2>2, <2>3, <2>4
  <2>5. CASE running = TRUE /\ running' = FALSE
    BY <2>1, <2>2, <2>3, <2>5 DEF Link!Halt
  <2> QED
    BY <2>1, <2>4, <2>5 DEF IInv, TypeOK, FlagsOK
<1>7. CASE KeyboardBreak \/ ReachedBreakpoint \/ PollAgain
  BY <1>7 DEF KeyboardBreak, ReachedBreakpoint, PollAgain, DigisparkBreakAndSync,
              Answered, Empty, Lost
<1>8. CASE TargetStops
  BY <1>8 DEF TargetStops, Link!Halt
<1>9. CASE TargetChangesClock
  BY <1>9 DEF TargetChangesClock
<1>10. CASE Restart
  <2>1. said' = heard /\ got' = Silence /\ UNCHANGED <<heard, running>>
    BY <1>10 DEF Restart, IInv, TypeOK, ValuesOK
  <2> QED
    BY <2>1, Mapped, HeldConstants DEF Link!GiveUp
<1>11. CASE UNCHANGED vars
  BY <1>11
<1> QED
  BY <1>1, <1>2, <1>3, <1>4, <1>5, <1>6, <1>7, <1>8, <1>9, <1>10, <1>11, TransferRefines
  DEF Next, HostStep, Command, Target

(* If a request can only be lost before it takes effect and an answer only *)
(* on its way back, the link through the adapter is the reliable one that  *)
(* the rest of dwdebug assumes, whatever the retries, PortFails, breaks    *)
(* and restarts.                                                           *)
THEOREM Refinement == ASSUME Lossless PROVE Spec => ImplementsLink
<1>1. Init => Link!LInit
  BY HeldConstants DEF Init, Link!LInit
<1>2. Init => InStep
  BY DEF Init, InStep
<1>3. IInv /\ InStep /\ [Next]_vars => InStep'
  BY InStepTransfer, InStepOthers
<1>4. IInv /\ InStep /\ [Next]_vars => [Link!LNext]_(Link!lvars)
  BY StepRefines
<1> QED
  BY <1>1, <1>2, <1>3, <1>4, Invariance, PTL DEF Spec, ImplementsLink, Link!LSpec
=============================================================================
