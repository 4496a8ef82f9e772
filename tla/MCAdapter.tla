------------------------------ MODULE MCAdapter ------------------------------
(***************************************************************************)
(* What the devices' firmware does besides debugWIRE: the adapter's USB    *)
(* transfers, its I2C and SPI functions, and the doorbell, whose Bellpush  *)
(* this module extends.  They share no state, so a behaviour exercises one *)
(* of them, `part', while the others stay in their initial states.         *)
(***************************************************************************)
EXTENDS Bellpush, Sequences

CONSTANTS
  Buffers, DwLens, UsbRequests, LossyRequests, UsbFaults, LossyFaults,    \* of UsbControl
  Bits, Messages, ReadLengths, MaxJobs,                           \* of I2cBus
  Starts, Contents, SckPeriods, Timeouts, MaxTransfers            \* of SpiProgram

VARIABLES
  part,
  host, hostAddr, rx, tx, txPid, msgLen, msgFrom, userRW, cur, dwState, dwLen, dwIn, jobState,
  newAddr, addr, handled, bytesIn, phase, se0, faults,                        \* UsbControl
  sda, scl, byteNo, bitNo, stepNo, bitsRead, job, reply, legal, pull, mode, inByte, outByte,
  taken, given, events, jobs,                                                               \* I2cBus
  kind, left, start, data, address, cmd0, cmd3, timeout, sck_period, usec, polling, got, mem,
  busy, transfers                                                             \* SpiProgram

-----------------------------------------------------------------------------
(* Standard requests, and the adapter's transfers of each kind, with       *)
(* lengths around the packet size.                                         *)
Std(req, hi, lo, len) == [type |-> "standard", req |-> req, value |-> <<hi, lo>>, len |-> len]
Vendor(req, len)      == [type |-> "vendor", req |-> req, value |-> <<0, 0>>, len |-> len]

SomeBuffers == [echo |-> 8]

Enumeration ==
  {Std("GET_DESCRIPTOR", 1, 0, 18), Std("GET_DESCRIPTOR", 2, 0, 9), Std("SET_ADDRESS", 0, 5, 0),
   Std("GET_DESCRIPTOR", 2, 0, 254), Std("GET_DESCRIPTOR", 3, 3, 254),
   Std("GET_DESCRIPTOR", 4, 0, 8), Std("SET_CONFIGURATION", 0, 1, 0)}

Transfers ==
  {Vendor("echo", 8), Vendor("dw_in", 16), Vendor("dw_in", 64),
   Vendor("dw_out", 20), Vendor("dw_out", 0), Vendor("flash_read", 24),
   Vendor("flash_write", 8), Vendor("flash_write", 24)}

AllRequests == Enumeration \union Transfers

FewRequests ==
  {Std("GET_DESCRIPTOR", 1, 0, 18), Std("SET_ADDRESS", 0, 5, 0), Vendor("dw_in", 64),
   Vendor("dw_out", 20), Vendor("flash_write", 24)}

(* No packet is lost; transfers are given up and the bus is reset.         *)
Usb == INSTANCE UsbControl WITH
  Requests <- UsbRequests, Faults <- {"abandon", "reset"}, MaxFaults <- UsbFaults

(* Packets to the host get lost.                                           *)
Lossy == INSTANCE UsbControl WITH
  Requests <- LossyRequests, Faults <- {"lost", "abandon"}, MaxFaults <- LossyFaults

SomeMessages == {<<<<0, 1>>>>, <<<<1, 0>>, <<0, 1>>>>}

I2c == INSTANCE I2cBus

(* Flash and EEPROM.                                                       *)
SomeContents == {<<1, 255>>, <<127, 2>>}

Spi == INSTANCE SpiProgram

ASSUME AdapterAssumption ==
  /\ Usb!UsbAssumption /\ Lossy!UsbAssumption /\ LossyRequests \subseteq UsbRequests
  /\ I2c!I2cAssumption
  /\ Spi!SpiAssumption
  /\ BellAssumption
-----------------------------------------------------------------------------
usb  == <<host, hostAddr, rx, tx, txPid, msgLen, msgFrom, userRW, cur, dwState, dwLen, dwIn,
          jobState, newAddr, addr, handled, bytesIn, phase, se0, faults>>
i2c  == <<sda, scl, byteNo, bitNo, stepNo, bitsRead, job, reply, legal, pull, mode, inByte,
          outByte, taken, given, events, jobs>>
spi  == <<kind, left, start, data, address, cmd0, cmd3, timeout, sck_period, usec, polling, got,
          mem, busy, transfers>>
all  == <<part, usb, i2c, spi, vars>>

AdapterInit ==
  /\ part \in {"usb", "lossy", "i2c", "spi", "bell"}
  /\ Usb!Init /\ I2c!Init /\ Spi!Init /\ Init

UsbStep   == part = "usb"   /\ Usb!Next   /\ UNCHANGED <<part, i2c, spi, vars>>
LossyStep == part = "lossy" /\ Lossy!Next /\ UNCHANGED <<part, i2c, spi, vars>>
I2cStep   == part = "i2c"   /\ I2c!Next   /\ UNCHANGED <<part, usb, spi, vars>>
SpiStep   == part = "spi"   /\ Spi!Next   /\ UNCHANGED <<part, usb, i2c, vars>>
BellStep  == part = "bell"  /\ Next  /\ UNCHANGED <<part, usb, i2c, spi>>

AdapterNext == UsbStep \/ LossyStep \/ I2cStep \/ SpiStep \/ BellStep

(* The fairness of the components' own specifications.                     *)
Fairness ==
  /\ WF_usb(part = "usb" /\ Usb!PollRx) /\ WF_usb(part = "usb" /\ Usb!PollTx)
  /\ WF_usb(part = "usb" /\ Usb!DwireJob) /\ WF_usb(part = "usb" /\ Usb!In)
  /\ WF_usb(part = "usb" /\ Usb!Out) /\ WF_usb(part = "usb" /\ Usb!StatusOut)
  /\ WF_spi(part = "spi" /\ Spi!ReadByte) /\ WF_spi(part = "spi" /\ Spi!WriteByte)
  /\ WF_spi(part = "spi" /\ Spi!Poll) /\ WF_spi(part = "spi" /\ Spi!GiveUp)
  /\ WF_vars(part = "bell" /\ Count) /\ WF_vars(part = "bell" /\ bellpush)
  /\ WF_vars(part = "bell" /\ cycle)
  /\ WF_vars(part = "bell" /\ SetB3) /\ WF_vars(part = "bell" /\ SetB4)

AdapterSpec == AdapterInit /\ [][AdapterNext]_all /\ Fairness
-----------------------------------------------------------------------------
(* bellpush, cycle: no count leaves its register's width; outside of the   *)
(* timer handler the bridge carries current, in the direction of the       *)
(* parity of the count, exactly while reversals are to come; both sides    *)
(* are high only between the two instructions of cyc4.                     *)
Doorbell == TypeOK /\ Bridge

(* Of the doorbell Reverses is that of Bellpush.                           *)

(* usbProcessRx, usbBuildTxBlock, usbSendAndReti: an answer of the length  *)
(* the device meant to send is the one it meant to send, whatever gets     *)
(* lost and was given up before; if nothing gets lost answers have that    *)
(* length; a status packet means that all data was handled, unless a       *)
(* dw_out was given up and has left dwState behind; and both sides agree   *)
(* on the address.                                                         *)
UsbTransfers ==
  /\ Usb!TypeOK
  /\ Usb!FullAnswerIsRight
  /\ part = "usb" => Usb!AnswerComplete
  /\ Usb!StatusMeansHandled
  /\ Usb!AddressAgrees

(* I2C_Start to I2C_Stop, jobs 8 to 11: the slave sees the addresses and   *)
(* the bytes as they were sent and its own bytes are read; a job that      *)
(* sends or reads bytes shows it a STOP exactly if one was asked for; an   *)
(* address without a STOP before it is a repeated START, except after      *)
(* reading, when the slave may see a STOP first.                           *)
I2cTransfers ==
  /\ I2c!TypeOK
  /\ I2c!AddressSent /\ I2c!BytesSent /\ I2c!BytesRead
  /\ I2c!StopsAsAsked /\ I2c!RepeatedStart

(* usbFunctionWrite, usbFunctionRead, spi_rw: every byte of a write is in  *)
(* the chip when the transfer is over, also one that looks like a poll     *)
(* byte, a read returns what the chip has, and no other cell changes.      *)
SpiTransfers ==
  /\ [](Spi!TypeOK /\ Spi!Written /\ Spi!ReadsBack)
  /\ [][Spi!KeepsOthers]_all

(* usbPoll, the polling loop of usbFunctionWrite, cycle: a control         *)
(* transfer from which nothing gets lost, if it is no flash write that     *)
(* finds dwState left over, the wait for a byte with a timeout that usec   *)
(* can count up to, and a ring of the bell when its button is left alone,  *)
(* end.                                                                    *)
AllEnd ==
  /\ part = "usb"  => Usb!TransferEnds
  /\ part = "spi"  => Spi!CountedWaitEnds
  /\ part = "bell" => Silent
=============================================================================
