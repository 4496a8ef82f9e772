----------------------------- MODULE UsbControl -----------------------------
(***************************************************************************)
(* Control transfers of the adapter's USB stack: usbtiny/usbdrv/usbdrv.c,  *)
(* called from the main loop (usbPoll), and the interrupt routine of       *)
(* asmcommon.inc, which answers each token of the host at any moment.      *)
(* The two share one receive buffer and one transmit buffer.               *)
(*                                                                         *)
(* A message is known by its transfer and the positions of its bytes: a    *)
(* packet is [pid, turn, from, len].  Transfers are told apart by `turn',  *)
(* which changes with every SETUP; an old packet has the other turn.       *)
(*                                                                         *)
(* A dw_out that is given up leaves dwState, dwLen and dwIn as they are:   *)
(* from then on dw_in and dw_out are answered with nothing, and data for   *)
(* the flash goes to dwBuf instead (main.c:449, 998).                      *)
(***************************************************************************)
EXTENDS Naturals, Sequences, FiniteSetsExt

CONSTANTS
  Requests,   \* the requests the host makes
  Buffers,    \* length of what usbMsgPtr points to, by vendor request other than dw_in
  DwLens,     \* lengths of what job 20 may leave in dwBuf
  Faults,     \* what may happen: "lost" packets to the host, "abandon"ed transfers, bus "reset"
  MaxFaults   \* bound: faults in a run

NoMsg == 255          \* USB_NO_MSG, usbMsgLen_t is 8 bits wide
PacketSize == 8
DwBufSize == 128      \* sizeof(dwBuf)
ResetPolls == 2       \* a reset outlasts the usbPoll it falls into and one more

(* rq: [type, req, value, len]; `len' is wLength, value the two bytes of   *)
(* wValue, the high one first.  For a vendor request `value' is not used.  *)
\* What the constants are assumed to be.
UsbAssumption ==
  /\ \A rq \in Requests :
       /\ rq.type \in {"standard", "vendor"} /\ rq.len \in 0..(NoMsg - 1)
       /\ rq.req = "dw_out" => rq.len <= DwBufSize
  /\ \A req \in DOMAIN Buffers :
       /\ req \notin {"none", "dw_in", "dw_out", "flash_read", "flash_write"}
       /\ Buffers[req] \in 0..(NoMsg - 1)
  /\ DwLens \subseteq 0..DwBufSize
  /\ Faults \subseteq {"lost", "abandon", "reset"}
  /\ MaxFaults \in Nat

VARIABLES
  host,      \* the host's transfer: [stage, rq, turn, got, bytes, sent, pid]; bytes is got's length
  hostAddr,  \* the address the host uses
  rx,        \* the receive buffer, free (usbRxLen = 0) or a packet
  tx,        \* usbTxBuf and usbTxLen: Nak or <<packet>>
  txPid,     \* usbTxBuf[0], kept when the packet has gone
  msgLen,    \* usbMsgLen
  msgFrom,   \* usbMsgPtr, as a position in the message of the present transfer
  userRW,    \* usbMsgFlags & USB_FLG_USE_USER_RW
  cur,       \* the request set up last: [rq, turn, reply, left]; left: was dwState left over?
  dwState,   \* is it other than 0?
  dwLen, dwIn,
  jobState,  \* 20 when that job is to be run, else 0
  newAddr,   \* usbNewDeviceAddr
  addr,      \* usbDeviceAddr
  handled,   \* history: what usbFunctionWrite was given in this transfer, and who got it
  bytesIn,   \* history: how many bytes that is
  phase,     \* the main loop: before or after usbProcessRx in usbPoll, or at the "job"
  se0,       \* the host holds the bus in reset for so many calls of usbPoll; 0 when it does not
  faults     \* the number of faults so far

dwire  == <<dwState, dwLen, dwIn, jobState>>
device == <<rx, tx, txPid, msgLen, msgFrom, userRW, cur, dwire, newAddr, addr, handled, bytesIn, phase>>
vars   == <<host, hostAddr, device, se0, faults>>

Free == [tok |-> "free"]
Nak  == <<>>                  \* what else than a packet the transmit buffer holds
Toggle(pid) == IF pid = "DATA0" THEN "DATA1" ELSE "DATA0"
DirIn(rq) == rq.req \in {"GET_STATUS", "GET_DESCRIPTOR", "GET_CONFIGURATION", "GET_INTERFACE",
                         "echo", "flash_read", "dw_in"}
Active == {"in", "out", "statusIn", "statusOut"}
-----------------------------------------------------------------------------
(* The sizes of this device's descriptors.                                 *)
DescriptorSizes ==
  [device |-> 18, configuration |-> 18 + 7,                \* with the interrupt endpoint
   string |-> <<4, 2 * 8 + 2, 2 * 10 + 2, 2 * 3 + 2>>]     \* language, vendor, product, serial number

(* usbDriverDescriptor: 0 for one it does not know.                        *)
DescriptorLen(type, index) ==
  CASE type = 1                     -> DescriptorSizes.device
    [] type = 2                     -> DescriptorSizes.configuration
    [] type = 3 /\ index \in 0..3   -> DescriptorSizes.string[index + 1]
    [] OTHER                        -> 0

(* usbDriverSetup: the length of the reply.                                *)
usbDriverSetup(rq) ==
  CASE rq.req = "GET_STATUS"     -> 2
    [] rq.req = "GET_DESCRIPTOR" -> DescriptorLen(rq.value[1], rq.value[2])
    [] rq.req \in {"GET_CONFIGURATION", "GET_INTERFACE"} -> 1
    [] OTHER                     -> 0

(* usbFunctionSetup's reply: a buffer's length, NoMsg for data that goes   *)
(* through usbFunctionRead and usbFunctionWrite, 0 for a command or while  *)
(* the last debugWIRE transfer has not come to its end.                    *)
FunctionReply(rq) ==
  CASE rq.req \in {"flash_read", "flash_write"} -> NoMsg
    [] rq.req = "dw_in"                         -> IF dwState THEN 0 ELSE dwLen
    [] rq.req = "dw_out"                        -> IF dwState \/ rq.len = 0 THEN 0 ELSE NoMsg
    [] rq.req \in DOMAIN Buffers                -> Buffers[rq.req]
    [] OTHER                                    -> 0

\* A mutant: dw_out goes on where the last one ended.
usbFunctionSetup_KeepsIn(rq) ==
  LET dwOut == rq.type = "vendor" /\ rq.req = "dw_out" /\ ~dwState
  IN  /\ dwState'  = (dwState \/ dwOut)
      /\ dwLen'    = IF dwOut THEN rq.len ELSE dwLen
      /\ jobState' = IF dwOut /\ rq.len = 0 THEN 20 ELSE jobState
      /\ UNCHANGED dwIn

(* What it does for dw_out, unless dwState is left over.                   *)
usbFunctionSetup(rq) ==
  LET dwOut == rq.type = "vendor" /\ rq.req = "dw_out" /\ ~dwState
  IN  /\ dwState'  = (dwState \/ dwOut)
      /\ dwLen'    = IF dwOut THEN rq.len ELSE dwLen
      /\ dwIn'     = IF dwOut /\ rq.len > 0 THEN 0 ELSE dwIn
      /\ jobState' = IF dwOut /\ rq.len = 0 THEN 20 ELSE jobState

ReplyLen(rq) == IF rq.type = "standard" THEN usbDriverSetup(rq) ELSE FunctionReply(rq)

\* A mutant: the reply is as long as the buffer.
Limited_Not(reply, rq) == IF reply = NoMsg /\ DirIn(rq) THEN rq.len ELSE reply

(* The conditioning of replyLen in usbProcessRx.                           *)
Limited(reply, rq) ==
  CASE reply = NoMsg /\ DirIn(rq)  -> rq.len
    [] reply = NoMsg /\ ~DirIn(rq) -> NoMsg
    [] OTHER                       -> Min({reply, rq.len})

\* A mutant: a new SETUP leaves the transmit buffer as it is.
ProcessSetup_KeepsTx(rq, turn) ==
  LET reply == ReplyLen(rq)
  IN  /\ txPid' = "DATA0"
      /\ userRW' = (reply = NoMsg)
      /\ msgLen' = Limited(reply, rq)
      /\ msgFrom' = 0
      /\ cur' = [rq |-> rq, turn |-> turn, reply |-> reply, left |-> dwState]
      /\ usbFunctionSetup(rq)
      /\ handled' = <<>> /\ bytesIn' = 0
      /\ newAddr' = IF rq.req = "SET_ADDRESS" THEN rq.value[2] ELSE newAddr
      /\ UNCHANGED tx

(* usbProcessRx with a SETUP packet.                                       *)
ProcessSetup(rq, turn) ==
  LET reply == ReplyLen(rq)
  IN  /\ txPid' = "DATA0"
      /\ tx' = Nak
      /\ userRW' = (reply = NoMsg)
      /\ msgLen' = Limited(reply, rq)
      /\ msgFrom' = 0
      /\ cur' = [rq |-> rq, turn |-> turn, reply |-> reply, left |-> dwState]
      /\ usbFunctionSetup(rq)
      /\ handled' = <<>> /\ bytesIn' = 0
      /\ newAddr' = IF rq.req = "SET_ADDRESS" THEN rq.value[2] ELSE newAddr

(* usbFunctionWrite: the data goes where dwState says, and is complete     *)
(* after a packet that fills dwLen, for the flash after every packet.      *)
IsLast(packet) == dwIn + packet.len >= dwLen

Given(packet) ==
  [turn |-> packet.turn, from |-> packet.from, len |-> packet.len,
   by |-> IF dwState THEN "dw" ELSE "spi"]

usbFunctionWrite(packet) ==
  /\ handled' = Append(handled, Given(packet))
  /\ bytesIn' = bytesIn + packet.len
  /\ IF dwState
     THEN /\ dwIn' = IF IsLast(packet) THEN dwLen ELSE dwIn + packet.len
          /\ jobState' = IF IsLast(packet) THEN 20 ELSE jobState
          /\ msgLen' = IF IsLast(packet) THEN 0 ELSE msgLen
     ELSE msgLen' = 0 /\ UNCHANGED <<dwIn, jobState>>
  /\ UNCHANGED <<dwState, dwLen>>

(* usbProcessRx with data.  Without USE_USER_RW it is dropped.             *)
ProcessData(packet) ==
  /\ IF userRW THEN usbFunctionWrite(packet) ELSE UNCHANGED <<handled, bytesIn, dwire, msgLen>>
  /\ UNCHANGED <<tx, txPid, msgFrom, userRW, cur, newAddr>>

(* The first part of usbPoll.                                              *)
PollRx ==
  /\ phase = "rx"
  /\ phase' = "tx"
  /\ rx' = Free
  /\ CASE rx.tok = "SETUP" -> ProcessSetup(rx.rq, rx.turn)
       [] rx.tok = "OUT"   -> ProcessData(rx)
       [] OTHER            -> UNCHANGED <<tx, txPid, msgLen, msgFrom, userRW, cur, dwire, newAddr,
                                          handled, bytesIn>>
  /\ UNCHANGED <<host, hostAddr, addr, se0, faults>>

\* A mutant: no empty packet after a last full one.
usbBuildTxBlock_NoEmpty ==
  LET want == Min({msgLen, PacketSize})
  IN  /\ tx' = <<[pid |-> Toggle(txPid), turn |-> cur.turn, from |-> msgFrom, len |-> want]>>
      /\ txPid' = Toggle(txPid)
      /\ msgFrom' = msgFrom + want
      /\ msgLen' = IF msgLen <= PacketSize THEN NoMsg ELSE msgLen - want

(* A packet that is not full ends the message.                             *)
usbBuildTxBlock ==
  LET want == Min({msgLen, PacketSize})
  IN  /\ tx' = <<[pid |-> Toggle(txPid), turn |-> cur.turn, from |-> msgFrom, len |-> want]>>
      /\ txPid' = Toggle(txPid)
      /\ msgFrom' = msgFrom + want
      /\ msgLen' = IF want < PacketSize THEN NoMsg ELSE msgLen - want

\* A mutant: a reset leaves the address that is to be set.
PollTx_KeepsNew ==
  /\ phase = "tx"
  /\ phase' = IF jobState = 20 THEN "job" ELSE "rx"
  /\ IF tx = Nak /\ msgLen # NoMsg
     THEN usbBuildTxBlock
     ELSE UNCHANGED <<tx, txPid, msgFrom, msgLen>>
  /\ addr' = IF se0 > 0 THEN 0 ELSE addr
  /\ se0'  = IF se0 > 0 THEN se0 - 1 ELSE 0
  /\ UNCHANGED <<host, hostAddr, rx, userRW, cur, dwire, newAddr, handled, bytesIn, faults>>

(* The rest of usbPoll, which looks for a reset of the bus at its end.     *)
PollTx ==
  /\ phase = "tx"
  /\ phase' = IF jobState = 20 THEN "job" ELSE "rx"
  /\ IF tx = Nak /\ msgLen # NoMsg
     THEN usbBuildTxBlock
     ELSE UNCHANGED <<tx, txPid, msgFrom, msgLen>>
  /\ newAddr' = IF se0 > 0 THEN 0 ELSE newAddr
  /\ addr'    = IF se0 > 0 THEN 0 ELSE addr
  /\ se0'     = IF se0 > 0 THEN se0 - 1 ELSE 0
  /\ UNCHANGED <<host, hostAddr, rx, userRW, cur, dwire, handled, bytesIn, faults>>

(* Job 20 of the main loop.  Some of what it may do replaces dwBuf.        *)
DwireJob ==
  /\ phase = "job"
  /\ phase' = "rx"
  /\ jobState' = 0
  /\ dwState' = FALSE
  /\ dwLen' \in DwLens \union {dwLen}
  /\ UNCHANGED <<host, hostAddr, rx, tx, txPid, msgLen, msgFrom, userRW, cur, dwIn, newAddr, addr,
                 handled, bytesIn, se0, faults>>
-----------------------------------------------------------------------------
Listens == se0 = 0 /\ hostAddr = addr      \* the device takes the host's tokens as its own

Fault(kind) == kind \in Faults /\ faults < MaxFaults /\ faults' = faults + 1

FirstStage(rq) ==
  CASE DirIn(rq)              -> "in"
    [] ~DirIn(rq) /\ rq.len > 0 -> "out"
    [] OTHER                  -> "statusIn"

(* SETUP and its data (handleData): taken when the buffer is free.  The    *)
(* host may give up the transfer it is in, but not one that sets the       *)
(* address.                                                                *)
Setup(rq) ==
  /\ Listens /\ rx = Free
  /\ IF host.stage \in Active
     THEN Fault("abandon") /\ host.rq.req # "SET_ADDRESS"
     ELSE UNCHANGED faults
  /\ rx' = [tok |-> "SETUP", rq |-> rq, turn |-> 1 - host.turn]
  /\ host' = [stage |-> FirstStage(rq), rq |-> rq, turn |-> 1 - host.turn,
              got |-> <<>>, bytes |-> 0, sent |-> 0, pid |-> "DATA1"]
  /\ UNCHANGED <<hostAddr, tx, txPid, msgLen, msgFrom, userRW, cur, dwire, newAddr, addr, handled,
                 bytesIn, phase, se0>>

\* A mutant: the transmit buffer is sent while a received packet waits.
InReady_Always == Listens /\ tx # Nak

(* handleIn: a packet is sent only when none is received and unprocessed.  *)
InReady == Listens /\ rx = Free /\ tx # Nak

(* usbSendAndReti: the address changes when a data packet has gone.        *)
NextAddr == newAddr

(* The host takes a data packet; one with the wrong toggle is a repetition *)
(* and dropped.                                                            *)
Accept(packet) ==
  LET bytes == host.bytes + packet.len
  IN  IF packet.pid # host.pid THEN UNCHANGED <<host, hostAddr>>
      ELSE CASE host.stage = "in" ->
                  /\ host' = [host EXCEPT !.got = Append(host.got, packet), !.bytes = bytes,
                                !.pid = Toggle(host.pid),
                                !.stage = IF packet.len < PacketSize \/ bytes >= host.rq.len
                                          THEN "statusOut" ELSE "in"]
                  /\ UNCHANGED hostAddr
             [] OTHER ->
                  /\ host' = [host EXCEPT !.stage = "done"]
                  /\ hostAddr' = IF host.rq.req = "SET_ADDRESS" THEN host.rq.value[2] ELSE hostAddr

(* IN.  usbTxLen is reset when the packet is sent, not when it is          *)
(* acknowledged: a lost packet is not repeated.                            *)
In ==
  /\ host.stage \in {"in", "statusIn"}
  /\ InReady
  /\ tx' = Nak
  /\ addr' = NextAddr
  /\ \/ Accept(tx[1]) /\ UNCHANGED faults
     \/ Fault("lost") /\ UNCHANGED <<host, hostAddr>>
  /\ UNCHANGED <<rx, txPid, msgLen, msgFrom, userRW, cur, dwire, newAddr, handled, bytesIn, phase, se0>>

(* OUT with data (handleData).                                             *)
Out ==
  LET len == Min({PacketSize, host.rq.len - host.sent})
  IN  /\ host.stage = "out"
      /\ Listens /\ rx = Free
      /\ rx' = [tok |-> "OUT", turn |-> host.turn, from |-> host.sent, len |-> len]
      /\ host' = [host EXCEPT !.sent = @ + len,
                    !.stage = IF host.sent + len = host.rq.len THEN "statusIn" ELSE "out"]
      /\ UNCHANGED <<hostAddr, tx, txPid, msgLen, msgFrom, userRW, cur, dwire, newAddr, addr, handled,
                     bytesIn, phase, se0, faults>>

(* OUT without data: acknowledged, and not stored.                         *)
StatusOut ==
  /\ host.stage = "statusOut"
  /\ Listens /\ rx = Free
  /\ host' = [host EXCEPT !.stage = "done"]
  /\ UNCHANGED <<hostAddr, device, se0, faults>>

(* The host resets the bus, whatever it was doing, for 10 ms or more: long *)
(* enough for a whole usbPoll, as long as no job is running.               *)
BusReset ==
  /\ jobState = 0
  /\ se0 = 0 /\ Fault("reset")
  /\ se0' = ResetPolls
  /\ hostAddr' = 0
  /\ host' = [host EXCEPT !.stage = "idle"]
  /\ UNCHANGED device
-----------------------------------------------------------------------------
NoRequest == [type |-> "vendor", req |-> "none", value |-> <<0, 0>>, len |-> 0]

Init ==
  /\ host = [stage |-> "idle", rq |-> NoRequest, turn |-> 0, got |-> <<>>,
             bytes |-> 0, sent |-> 0, pid |-> "DATA1"]
  /\ hostAddr = 0
  /\ rx = Free /\ tx = Nak /\ txPid = "DATA0"
  /\ msgLen = NoMsg /\ msgFrom = 0 /\ userRW = FALSE
  /\ cur = [rq |-> NoRequest, turn |-> 0, reply |-> 0, left |-> FALSE]
  /\ dwState = FALSE /\ dwLen = 0 /\ dwIn = 0 /\ jobState = 0
  /\ newAddr = 0 /\ addr = 0
  /\ handled = <<>> /\ bytesIn = 0 /\ phase = "rx"
  /\ se0 = 0 /\ faults = 0

Next ==
  \/ PollRx
  \/ PollTx
  \/ DwireJob
  \/ \E rq \in Requests : Setup(rq)
  \/ In
  \/ Out
  \/ StatusOut
  \/ BusReset

Spec == Init /\ [][Next]_vars

(* The main loop calls usbPoll again and again and runs its job, and the   *)
(* host repeats its tokens.                                                *)
FairSpec ==
  /\ Spec
  /\ WF_vars(PollRx) /\ WF_vars(PollTx) /\ WF_vars(DwireJob)
  /\ WF_vars(In) /\ WF_vars(Out) /\ WF_vars(StatusOut)
-----------------------------------------------------------------------------
Packets == [pid : {"DATA0", "DATA1"}, turn : {0, 1}, from : 0..NoMsg, len : 0..PacketSize]

TypeOK ==
  /\ host.stage \in {"idle", "done"} \union Active
  /\ host.rq \in Requests \union {NoRequest}
  /\ host.got \in Seq(Packets) /\ host.bytes <= host.rq.len
  /\ rx = Free \/ rx.tok \in {"SETUP", "OUT"}
  /\ tx = Nak \/ (Len(tx) = 1 /\ tx[1] \in Packets)
  /\ msgLen \in 0..NoMsg
  /\ dwLen \in 0..DwBufSize /\ dwIn \in 0..DwBufSize /\ (dwState /\ jobState = 0 => dwIn < dwLen)
  /\ phase \in {"rx", "tx", "job"}

(* The packets are the first bytes of the transfer's message, in order.    *)
FromStart(packets) ==
  \A i \in 1..Len(packets) :
    /\ packets[i].turn = host.turn
    /\ packets[i].from = IF i = 1 THEN 0 ELSE packets[i - 1].from + packets[i - 1].len

(* The length of the answer that the device has begun.                     *)
Due == IF cur.reply = NoMsg THEN cur.rq.len ELSE Min({cur.reply, cur.rq.len})

(* Whatever gets lost and whatever was given up before: an answer of the   *)
(* length the device meant to send is the one it meant to send.  So the    *)
(* length is all a caller has to look at, although lost packets are not    *)
(* repeated.                                                               *)
FullAnswerIsRight ==
  (host.stage = "done" /\ DirIn(host.rq) /\ host.bytes = Due) => FromStart(host.got)

(* If nothing gets lost, an answer has that length, also when its buffer   *)
(* ends in a full packet before wLength, or is longer than wLength; that   *)
(* of dw_in is empty as long as dwState is left over.                      *)
AnswerComplete ==
  (host.stage = "done" /\ DirIn(host.rq) /\ "lost" \notin Faults)
     => (cur.rq = host.rq /\ host.bytes = Due /\ FromStart(host.got))

(* When the host has seen the status packet of a transfer to the device,   *)
(* the device has been given all its data, once and in order, and for the  *)
(* purpose it was sent for, although for a flash write the status packet   *)
(* is ready after the first data packet.  This is not so of a transfer     *)
(* that begins while dwState is left over from another one: the data of a  *)
(* dw_out is then dropped, that of a flash write taken for the other's.    *)
StatusMeansHandled ==
  (host.stage = "done" /\ ~DirIn(host.rq) /\ cur.reply = NoMsg /\ ~cur.left)
     => /\ bytesIn = host.rq.len /\ FromStart(handled)
        /\ \A i \in 1..Len(handled) : handled[i].by = IF host.rq.req = "dw_out" THEN "dw" ELSE "spi"

(* Between transfers host and device agree on the address.                 *)
AddressAgrees == (host.stage = "done" /\ se0 = 0) => addr = hostAddr

(* Every transfer ends or meets a dwState that is left over: the status    *)
(* packet of a flash write may then never become ready.                    *)
Astray == host.rq.req = "flash_write" /\ dwState

TransferEnds == (host.stage \in Active) ~> (host.stage \notin Active \/ Astray)
=============================================================================
