--------------------------- MODULE DigisparkLink ----------------------------
(***************************************************************************)
(* The link through a USB adapter: the host's half, src/dwire/DigiSpark.c, *)
(* the adapter's, usbtiny/main.c, and the target at the end of the wire.   *)
(*                                                                         *)
(* The bytes handed to DigisparkSend are numbered consecutively, so the    *)
(* output buffer is the pair of `flushed' and `buffered' and what an       *)
(* answer answers is a number.                                             *)
(*                                                                         *)
(* One action of the host is one USB control transfer with the code up to  *)
(* the next one.  A transfer can fail in four ways (Faults): its SETUP or  *)
(* its IN data is lost ("setup", "in"); an OUT transfer breaks between     *)
(* SETUP and data, which leaves dwState nonzero for good ("data"); or the  *)
(* adapter runs the job but the host does not see the status ("status").   *)
(* The adapter runs job 20 in the turn of its main loop that receives the  *)
(* last OUT packet, so no other request is handled while it runs.          *)
(***************************************************************************)
EXTENDS Naturals

CONSTANTS
  Capacity,      \* sizeof(DigisparkOutBufBytes)
  MaxSend,       \* the longest outlen passed to DigisparkSend
  MaxBytes,      \* bound: bytes handed over in a run
  Tries,         \* retries of a transfer (200)
  MeasureTries,  \* reads of the pulse widths (5)
  BreakTries,    \* break attempts (25)
  Speeds,        \* the target's clock rates, as pulse times
  Faults,        \* the kinds of USB fault that occur
  MaxFaults,     \* bound: faults in a run
  MayBeMute      \* may the target fail to answer?

ASSUME LinkAssumption ==
  /\ Capacity \in Nat \ {0}
  /\ MaxSend \in Nat \ {0}
  /\ MaxBytes \in Nat
  /\ Tries \in Nat \ {0}
  /\ MeasureTries \in Nat \ {0}
  /\ BreakTries \in Nat \ {0}
  /\ Speeds \subseteq Nat \ {0}
  /\ Speeds # {}
  /\ Faults \subseteq {"setup", "in", "data", "status"}
  /\ MaxFaults \in Nat
  /\ MayBeMute \in BOOLEAN

VARIABLES
  pc,       \* the host: between operations ("idle"), or what it does next
  code,     \* the kind of transfer that sends the bytes (wValue)
  why,      \* who wants the bit time measured
  tries,    \* digisparkUSBSendBytes, DigisparkReceive, SetDwireBaud: tries
  breaks,   \* DigisparkBreakAndSync: tries
  measured, \* times[0]
  flushed,  \* bytes successfully transferred
  buffered, \* DigisparkOutBufLength
  rest,     \* bytes of the current DigisparkSend not yet in the buffer
  asked,    \* the caller has sent bytes since its last DwReceive, DwSync ...
  got,      \* what the last DigisparkReceive returned, until bytes are sent
  open,     \* up->handle # 0
  current,  \* CurrentPort >= 0
  stuck,    \* the adapter's dwState # 0, with no job to reset it
  bitTime,  \* the adapter's dwBitTime
  dwBuf,    \* what the adapter's dwBuf and dwLen hold
  armed,    \* the adapter's PCMSK bit: watch for the target to stop
  speed,    \* the target's clock
  running,  \* is the target running?
  heard,    \* the target has acted on the bytes up to this one
  faults,   \* the number of faults so far
  unacked   \* history: did a job run that the host takes for failed?

progress == <<code, why, tries, breaks, measured>>
buffer   == <<flushed, buffered, rest>>
port     == <<open, current>>
jobvars  == <<bitTime, dwBuf, armed, speed, running, heard>>
usb      == <<stuck, faults, unacked>>
vars     == <<pc, progress, buffer, asked, got, port, jobvars, usb>>

Contents == [kind : {"silence", "echo", "answer", "pulses", "flag", "timing", "junk"},
             val : Nat]
Holding(kind, val) == [kind |-> kind, val |-> val]
Silence == Holding("silence", 0)
Junk    == Holding("junk", 0)
-----------------------------------------------------------------------------
(* Job 20 of the adapter. *)

listening == ~running /\ bitTime = speed

Or(content) == {content} \union (IF MayBeMute THEN {Silence} ELSE {})

(* dwSendBytes. A target that runs, or that is sent bytes at a wrong rate, *)
(* does not take them for commands.                                        *)
SendBytes(len) == heard' = IF listening THEN flushed + len ELSE heard

(* 0x04 *)
JobSend(len) ==
  /\ SendBytes(len)
  /\ dwBuf' = Holding("echo", len)
  /\ UNCHANGED <<bitTime, armed, speed, running>>

(* 0x14 *)
JobReceive(len) ==
  /\ SendBytes(len)
  /\ dwBuf' \in IF listening THEN Or(Holding("answer", flushed + len))
                             ELSE {Silence, Junk}
  /\ UNCHANGED <<bitTime, armed, speed, running>>

(* 0x24.  The command is a reset, a single step or a flash operation: the  *)
(* 0x55 that ends it may come at another speed.                            *)
JobSync(len) ==
  /\ SendBytes(len)
  /\ IF listening
     THEN \E s \in Speeds :
            /\ speed' = s
            /\ dwBuf' \in Or(Holding("pulses", s))
     ELSE /\ dwBuf' \in {Silence, Junk}
          /\ UNCHANGED speed
  /\ UNCHANGED <<bitTime, armed, running>>

\* A mutant: the pin change interrupt is not enabled.
JobWait_NotArmed(len) ==
  /\ SendBytes(len)
  /\ running' = (running \/ listening)
  /\ dwBuf' = Holding("flag", 0)
  /\ UNCHANGED <<bitTime, armed, speed>>

(* 0x0C *)
JobWait(len) ==
  /\ SendBytes(len)
  /\ running' = (running \/ listening)
  /\ dwBuf' = Holding("flag", 0)
  /\ armed' = TRUE
  /\ UNCHANGED <<bitTime, speed>>

(* 0x21: a break stops the target, and its low level also fires a pin      *)
(* change interrupt that is still enabled.                                 *)
JobBreak ==
  /\ running' = FALSE
  /\ armed' = FALSE
  /\ dwBuf' \in Or(Holding("pulses", speed))
  /\ UNCHANGED <<bitTime, speed, heard>>

(* 0x02 *)
JobSetTiming ==
  /\ bitTime' = measured
  /\ dwBuf' = Holding("timing", measured)
  /\ UNCHANGED <<armed, speed, running, heard>>

Job(len) ==
  \/ code = "send" /\ JobSend(len)
  \/ code = "receive" /\ JobReceive(len)
  \/ code = "sync" /\ JobSync(len)
  \/ code = "wait" /\ JobWait(len)
-----------------------------------------------------------------------------
(* The outcomes of a control transfer. *)

Fault(kind) == kind \in Faults /\ faults < MaxFaults /\ faults' = faults + 1

(* usb_control_msg succeeds.  While dwState is not 0 the adapter takes the *)
(* data and ignores it.                                                    *)
Accepted(job) ==
  /\ IF stuck THEN UNCHANGED jobvars ELSE job
  /\ UNCHANGED usb

(* usb_control_msg returns a negative status. *)
Failed(job, hasData) ==
  \/ Fault("setup") /\ UNCHANGED <<jobvars, stuck, unacked>>
  \/ hasData /\ Fault("data") /\ stuck' = TRUE /\ UNCHANGED <<jobvars, unacked>>
  \/ ~stuck /\ Fault("status") /\ job /\ unacked' = TRUE /\ UNCHANGED stuck

(* An IN transfer's status is positive, zero or negative. *)
HasData == ~stuck /\ dwBuf.kind # "silence"
Answered == HasData /\ UNCHANGED <<jobvars, usb>>
Empty    == ~HasData /\ UNCHANGED <<jobvars, usb>>
Lost     == Fault("in") /\ UNCHANGED <<jobvars, stuck, unacked>>

(* PortFail, up to where the longjmp lands: the command is abandoned, with *)
(* the output buffer as it is.  ConnectUsbtinyPort catches it, and then    *)
(* DwFindPort resets CurrentPort.                                          *)
PortFail ==
  /\ pc' = "idle"
  /\ open' = FALSE
  /\ current' = (current /\ why # "connect")
  /\ rest' = 0
  /\ asked' = FALSE
  /\ UNCHANGED <<progress, flushed, buffered, got>>
-----------------------------------------------------------------------------
Init ==
  /\ pc = "idle"
  /\ code = "send"
  /\ why = "sync"
  /\ tries = 0
  /\ breaks = 0
  /\ measured \in Speeds
  /\ flushed = 0 /\ buffered = 0 /\ rest = 0
  /\ asked = FALSE
  /\ got = Silence
  /\ open = FALSE
  /\ current = FALSE
  /\ stuck = FALSE
  /\ bitTime = 0
  /\ dwBuf = Silence
  /\ armed = FALSE
  /\ speed \in Speeds
  /\ running \in BOOLEAN
  /\ heard = 0
  /\ faults = 0
  /\ unacked = FALSE

(* A transfer is about to be made; without a handle usb_control_msg        *)
(* dereferences a null pointer.                                            *)
StartTransfer(kind) ==
  /\ pc' = IF open THEN "transfer" ELSE "crashed"
  /\ code' = kind
  /\ why' = "sync"
  /\ tries' = 0

\* A mutant: a full buffer is sent at once.
Overflows_WhenFull(n) == n >= Capacity

\* A mutant: the length is not checked.
Overflows_Never(n) == FALSE

(* Can the buffer not hold n bytes in all? *)
Overflows(n) == n > Capacity

DigisparkSend(n) ==
  /\ pc = "idle" /\ current
  /\ flushed + buffered + n <= MaxBytes
  /\ asked' = TRUE
  /\ got' = Silence
  /\ IF Overflows(buffered + n)
     THEN /\ rest' = n
          /\ StartTransfer("send")
          /\ UNCHANGED buffered
     ELSE /\ buffered' = buffered + n
          /\ UNCHANGED <<pc, code, why, tries, rest>>
  /\ UNCHANGED <<breaks, measured, flushed, port, jobvars, usb>>

DigisparkFlush ==
  /\ pc = "idle" /\ current
  /\ buffered > 0
  /\ StartTransfer("send")
  /\ asked' = FALSE
  /\ got' = Silence
  /\ UNCHANGED <<breaks, measured, buffer, port, jobvars, usb>>

(* DigisparkReceive, DigisparkSync, DigisparkWait begin by flushing; their *)
(* callers have handed bytes over.  With nothing in the buffer they go on  *)
(* without a transfer.                                                     *)
Request(kind, next) ==
  /\ pc = "idle" /\ current /\ asked
  /\ asked' = FALSE
  /\ got' = Silence
  /\ IF buffered > 0
     THEN StartTransfer(kind)
     ELSE /\ pc' = IF open THEN next ELSE "crashed"
          /\ why' = "sync"
          /\ tries' = 0
          /\ UNCHANGED code
  /\ UNCHANGED <<breaks, measured, buffer, port, jobvars, usb>>

DigisparkReceive == Request("receive", "read")
DigisparkSync    == Request("sync", "measure")
DigisparkWait    == Request("wait", "go")

(* What one digisparkUSBSendBytes transfers: called by DigisparkSend the   *)
(* buffer filled up with new bytes, else what is in the buffer.            *)
Length == IF rest > 0 THEN Capacity ELSE buffered

\* A mutant: DigisparkOutBufLength is not reset.
Sent_KeepsBuffer ==
  /\ flushed' = flushed + Length
  /\ rest' = 0
  /\ buffered' = buffered
  /\ pc' = CASE code = "send"    -> "idle"
             [] code = "receive" -> "read"
             [] code = "sync"    -> "measure"
             [] code = "wait"    -> "go"
  /\ tries' = 0
  /\ UNCHANGED <<code, why, breaks, measured, asked, got, port>>

(* DigisparkSend's loop goes on or ends; or a flush is done. *)
Sent ==
  LET left == rest + buffered - Length
      more == rest > 0 /\ Overflows(left)
  IN  /\ flushed' = flushed + Length
      /\ rest' = IF more THEN left ELSE 0
      /\ buffered' = IF more THEN 0 ELSE left
      /\ pc' = CASE more             -> "transfer"
                 [] code = "send" /\ ~more -> "idle"
                 [] code = "receive" -> "read"
                 [] code = "sync"    -> "measure"
                 [] code = "wait"    -> "go"
      /\ tries' = 0
      /\ UNCHANGED <<code, why, breaks, measured, asked, got, port>>

\* A mutant: the tries are not counted.
Again_Forever ==
  UNCHANGED <<pc, progress, buffer, asked, got, port>>

Again ==
  /\ tries' = tries + 1
  /\ UNCHANGED <<pc, code, why, breaks, measured, buffer, asked, got, port>>

(* One attempt of digisparkUSBSendBytes: one and then Tries more. *)
USBSendBytes ==
  /\ pc = "transfer"
  /\ \/ Accepted(Job(Length)) /\ Sent
     \/ tries < Tries /\ Failed(Job(Length), TRUE) /\ Again
     \/ tries >= Tries /\ Failed(Job(Length), TRUE) /\ PortFail

(* The loop of DigisparkReceive; its callers do not look at the status. *)
ReadBack ==
  /\ pc = "read"
  /\ \/ /\ Answered
        /\ got' = dwBuf
        /\ pc' = "idle"
        /\ UNCHANGED <<progress, buffer, asked, port>>
     \/ tries + 1 < Tries /\ (Empty \/ Lost) /\ Again
     \/ /\ tries + 1 >= Tries
        /\ Empty \/ Lost
        /\ pc' = "idle"
        /\ UNCHANGED <<progress, buffer, asked, got, port>>

(* SetDwireBaud has failed: DigisparkBreakAndSync tries again, DigisparkSync *)
(* does not.                                                               *)
NoTimings ==
  \/ /\ why # "sync" /\ breaks + 1 < BreakTries
     /\ breaks' = breaks + 1
     /\ pc' = "break"
     /\ UNCHANGED <<code, why, tries, measured, buffer, asked, got, port>>
  \/ (why = "sync" \/ breaks + 1 >= BreakTries) /\ PortFail

(* SetDwireBaud reads the pulse widths.  Data that are something else may  *)
(* be too short, or else are taken for pulse widths.                       *)
ReadTimings ==
  /\ pc = "measure"
  /\ \/ /\ Answered
        /\ measured' \in IF dwBuf.kind = "pulses" THEN {dwBuf.val} ELSE Speeds
        /\ pc' = "settime"
        /\ UNCHANGED <<code, why, tries, breaks, buffer, asked, got, port>>
     \/ dwBuf.kind # "pulses" /\ Answered /\ NoTimings
     \/ tries + 1 < MeasureTries /\ (Empty \/ Lost) /\ Again
     \/ tries + 1 >= MeasureTries /\ (Empty \/ Lost) /\ NoTimings

(* SetDwireBaud sends the bit time; DwFindPort takes the port of a         *)
(* successful connection for CurrentPort.                                  *)
SendTiming ==
  /\ pc = "settime"
  /\ \/ /\ Accepted(JobSetTiming)
        /\ pc' = "idle"
        /\ current' = (current \/ why = "connect")
        /\ UNCHANGED <<progress, buffer, asked, got, open>>
     \/ Failed(JobSetTiming, TRUE) /\ PortFail

(* One turn of DigisparkBreakAndSync. *)
SendBreak ==
  /\ pc = "break"
  /\ \/ /\ Accepted(JobBreak)
        /\ pc' = "measure"
        /\ tries' = 0
        /\ UNCHANGED <<code, why, breaks, measured, buffer, asked, got, port>>
     \/ Failed(JobBreak, FALSE) /\ PortFail

DigisparkBreakAndSync(caller) ==
  /\ pc' = "break"
  /\ why' = caller
  /\ breaks' = 0
  /\ UNCHANGED <<code, tries, measured, buffer>>

(* DwFindPort with a port whose adapter may already be open. *)
ConnectUsbtinyPort ==
  /\ pc = "idle"
  /\ DigisparkBreakAndSync("connect")
  /\ open' = TRUE
  /\ asked' = FALSE
  /\ got' = Silence
  /\ UNCHANGED <<current, jobvars, usb>>

\* A mutant: the device is taken to be stopped at the known speed.
ReachedBreakpoint_NoSync ==
  /\ pc = "go"
  /\ Answered /\ dwBuf.val # 0
  /\ pc' = "idle"
  /\ UNCHANGED <<progress, buffer, asked, got, port>>

\* A mutant: the status is not looked at.
ReachedBreakpoint_AnyStatus ==
  /\ pc = "go"
  /\ \/ Answered /\ (dwBuf.kind = "flag" => dwBuf.val = 1)
     \/ Empty
     \/ Lost
  /\ DigisparkBreakAndSync("poll")
  /\ UNCHANGED <<asked, got, port>>

(* GoWaitLoop finds DigisparkReachedBreakpoint true.  When the status is 0 *)
(* the byte it tests is not initialized.                                   *)
ReachedBreakpoint ==
  /\ pc = "go"
  /\ \/ Answered /\ (dwBuf.kind = "flag" => dwBuf.val = 1)
     \/ Empty
  /\ DigisparkBreakAndSync("poll")
  /\ UNCHANGED <<asked, got, port>>

(* A poll that finds nothing, or fails: GoWaitLoop goes on. *)
PollAgain ==
  /\ pc = "go"
  /\ Lost
  /\ UNCHANGED <<pc, progress, buffer, asked, got, port>>

(* GoWaitLoop sees input from the user. *)
KeyboardBreak ==
  /\ pc = "go"
  /\ DigisparkBreakAndSync("key")
  /\ UNCHANGED <<asked, got, port, jobvars, usb>>

(* dwdebug ends, is killed or has crashed, and is started again; the       *)
(* adapter may have been unplugged and plugged in.                         *)
Restart ==
  /\ pc' = "idle"
  /\ tries' = 0 /\ breaks' = 0
  /\ flushed' = heard /\ buffered' = 0 /\ rest' = 0
  /\ asked' = FALSE
  /\ got' = Silence
  /\ open' = FALSE
  /\ current' = FALSE
  /\ unacked' = FALSE
  /\ \/ stuck' = FALSE /\ bitTime' = 0 /\ dwBuf' = Silence /\ armed' = FALSE
     \/ UNCHANGED <<stuck, bitTime, dwBuf, armed>>
  /\ UNCHANGED <<code, why, measured, speed, running, heard, faults>>

(* The target comes to a breakpoint.  Its pulling the wire low fires the   *)
(* adapter's pin change interrupt, unless it happens while the adapter     *)
(* handles a USB packet: at the end of each the flag of the interrupt,     *)
(* which it shares with the USB, is cleared.                               *)
TargetStops ==
  /\ running
  /\ running' = FALSE
  /\ \/ /\ armed
        /\ armed' = FALSE
        /\ dwBuf' = Holding("flag", 1)
     \/ UNCHANGED <<armed, dwBuf>>
  /\ UNCHANGED <<pc, progress, buffer, asked, got, port, usb, bitTime, speed, heard>>

(* The program in the target changes its clock. *)
TargetChangesClock ==
  /\ running
  /\ speed' \in Speeds
  /\ UNCHANGED <<pc, progress, buffer, asked, got, port, usb,
                 bitTime, dwBuf, armed, running, heard>>

HostStep ==
  \/ USBSendBytes \/ ReadBack \/ ReadTimings \/ SendTiming \/ SendBreak
  \/ ReachedBreakpoint \/ PollAgain

Command ==
  \/ \E n \in 1 .. MaxSend : DigisparkSend(n)
  \/ DigisparkFlush \/ DigisparkReceive \/ DigisparkSync \/ DigisparkWait
  \/ ConnectUsbtinyPort \/ KeyboardBreak

Target == TargetStops \/ TargetChangesClock

Next == HostStep \/ Command \/ Target \/ Restart

Spec == Init /\ [][Next]_vars

(* dwdebug is one thread that does not stop between two transfers, and     *)
(* GoWaitLoop polls again and again.                                       *)
FairSpec == Spec /\ WF_vars(HostStep)
-----------------------------------------------------------------------------
FlagsOK ==
  /\ asked \in BOOLEAN
  /\ open \in BOOLEAN
  /\ current \in BOOLEAN
  /\ stuck \in BOOLEAN
  /\ armed \in BOOLEAN
  /\ running \in BOOLEAN
  /\ unacked \in BOOLEAN

ValuesOK ==
  /\ pc \in {"idle", "transfer", "read", "measure", "settime", "break", "go",
             "crashed"}
  /\ code \in {"send", "receive", "sync", "wait"}
  /\ why \in {"sync", "connect", "poll", "key"}
  /\ tries \in 0 .. Tries + MeasureTries
  /\ breaks \in 0 .. BreakTries
  /\ measured \in Speeds
  /\ flushed \in 0 .. MaxBytes
  /\ buffered \in 0 .. Capacity
  /\ rest \in 0 .. MaxSend
  /\ got \in Contents
  /\ bitTime \in Speeds \union {0}
  /\ dwBuf \in Contents
  /\ speed \in Speeds
  /\ heard \in 0 .. MaxBytes
  /\ faults \in 0 .. MaxFaults

TypeOK == FlagsOK /\ ValuesOK

(* DigiSpark.c:203-204: a read transaction sends at least one byte first.  *)
(* So what DigisparkReceive returns is the target's answer to all bytes    *)
(* handed over, never data that dwBuf still held: an echo of bytes sent,   *)
(* pulse widths, the breakpoint flag, an earlier answer.  Only a job whose *)
(* status was lost can leave target and adapter at different speeds.       *)
FreshAnswer ==
  \/ got = Silence
  \/ got = Holding("answer", flushed)
  \/ unacked /\ got = Junk

(* Bytes first go out only to a stopped target and at the target's current *)
(* speed, although its program, a reset and a single step can change it,   *)
(* through breakpoints, keyboard breaks, failures and restarts.            *)
RightSpeed == pc = "transfer" /\ ~unacked => ~running /\ bitTime = speed

(* DigisparkReachedBreakpoint is true only if the target has stopped,      *)
(* unless the adapter is stuck.                                            *)
BreakpointTrue == pc = "break" /\ why = "poll" => ~running \/ stuck

(* Every operation ends by returning, in PortFail or in a crash, even when *)
(* the adapter answers no request any more.                                *)
OperationsEnd ==
  pc \in {"transfer", "read", "measure", "settime", "break"}
    ~> pc \in {"idle", "go", "crashed"}

(* A target that stops while the host waits in GoWaitLoop is noticed,      *)
(* unless the stop fell into a USB packet: the interrupt is then still     *)
(* armed (usbconfig.h:315-317), and the wait goes on until a key is        *)
(* pressed.                                                                *)
BreakpointSeen ==
  pc = "go" /\ ~running /\ ~armed /\ ~unacked /\ ~stuck ~> pc # "go"

(* While requests and answers are only lost before they take effect, the   *)
(* link is the one the rest of dwdebug assumes.                            *)
Link == INSTANCE DwLink WITH
  said   <- flushed + buffered + rest,
  reply  <- IF got.kind = "answer" THEN got.val ELSE 0,
  halted <- ~running

ImplementsLink == Link!LSpec
=============================================================================
