----------------------------- MODULE SpiProgram -----------------------------
(***************************************************************************)
(* Reading and programming a chip through its SPI port: the requests 8 to  *)
(* 12 of usbtiny/main.c with usbFunctionRead, usbFunctionWrite and spi_rw. *)
(* A SPI command is one step, and lasts 32 periods of the clock.  The chip *)
(* is at the other end: a byte that is being written reads as one of the   *)
(* poll bytes until it is done, and another write command meanwhile is     *)
(* lost.                                                                   *)
(***************************************************************************)
EXTENDS Naturals, Sequences

CONSTANTS
  Starts,      \* the addresses at which transfers begin
  Contents,    \* the data of the write transfers
  SckPeriods,  \* the periods of the SPI clock in us, 1..250
  Timeouts,    \* the timeouts of the write transfers in us; 0 for a chip with a page buffer
  MaxTransfers \* bound: transfers in a run

VARIABLES
  kind,     \* the transfer: "none", "flash_read", "flash_write", "eeprom_read", "eeprom_write"
  left,     \* the bytes that are still to be written, or a count of those to be read
  start,    \* the transfer's first address, and its data
  data,
  address, cmd0, cmd3, timeout, sck_period,
  usec,     \* the polling loop's counter
  polling,  \* is the loop running?
  got,      \* the bytes read
  mem,      \* the chip: a set of [kind, cell, value] that have been written
  busy,     \* what it is writing: <<>>, or <<[kind, cell, value, left]>>
  transfers \* the number of transfers

request == <<kind, start, data, cmd0, timeout, sck_period, transfers>>
chip    == <<mem, busy>>
vars    == <<request, left, address, cmd3, usec, polling, got, chip>>

Word  == 65536                \* unsigned is 16 bits wide
poll1 == 255                  \* set by USBTINY_POLL_BYTES
poll2 == 127
Erased == 255
EepromSize == 4096            \* no AVR has a larger one

\* What the constants are assumed to be.
SpiAssumption ==
  /\ Starts \subseteq 0..(Word - 1)
  /\ \A c \in Contents : c \in Seq(0..255) /\ Len(c) <= EepromSize
  /\ SckPeriods \subseteq 1..250
  /\ Timeouts \subseteq 0..(Word - 1)
  /\ MaxTransfers \in Nat

IsWrite(k)  == k \in {"flash_write", "eeprom_write"}
MemoryOf(k) == IF k \in {"eeprom_read", "eeprom_write"} THEN "eeprom" ELSE "flash"
Requests    == {"flash_read", "flash_write", "eeprom_read", "eeprom_write"}
-----------------------------------------------------------------------------
(* usbFunctionSetup: the first byte of the commands to come.               *)
CommandByte(k) ==
  CASE k = "flash_read" -> 32 [] k = "flash_write" -> 64
    [] k = "eeprom_read" -> 160 [] k = "eeprom_write" -> 192

\* A mutant: the address of an EEPROM byte is taken like one of flash.
spi_rw_NoShift(c0, a) == [c0 |-> c0, high |-> a % 2, c1 |-> (a \div 512) % 256, c2 |-> (a \div 2) % 256]

(* spi_rw: the command for address a: bit 3 chooses the byte of a word,    *)
(* and the next two bytes are the word's address.                          *)
spi_rw(c0, a) ==
  LET b == IF c0 >= 128 THEN (2 * a) % Word ELSE a
  IN  [c0 |-> c0, high |-> b % 2, c1 |-> (b \div 512) % 256, c2 |-> (b \div 2) % 256]

(* The cell a chip takes a command to mean.                                *)
Cell(c) ==
  LET n == 256 * c.c1 + c.c2
  IN  IF c.c0 >= 128 THEN n ELSE 2 * n + c.high

Stored(k, cell) ==
  IF \E m \in mem : m.kind = k /\ m.cell = cell
  THEN (CHOOSE m \in mem : m.kind = k /\ m.cell = cell).value
  ELSE Erased

(* Time passes in the chip: after its last unit the byte is in memory.     *)
Elapses ==
  IF busy = <<>> THEN UNCHANGED chip
  ELSE LET w == busy[1]
       IN IF w.left > 1
          THEN busy' = <<[w EXCEPT !.left = @ - 1]>> /\ UNCHANGED mem
          ELSE /\ busy' = <<>>
               /\ mem' = {m \in mem : m.kind # w.kind \/ m.cell # w.cell}
                           \union {[kind |-> w.kind, cell |-> w.cell, value |-> w.value]}

(* What a read command returns.                                            *)
ReadBack(k, cell) ==
  IF busy # <<>> /\ busy[1].kind = k /\ busy[1].cell = cell THEN poll1 ELSE Stored(k, cell)

(* The number of commands that fit into the timeout: a chip is done by     *)
(* then, one with a page buffer at once.                                   *)
Slowest == timeout \div (32 * sck_period)

ChipWrites(k, cell, value) ==
  IF busy # <<>> THEN Elapses
  ELSE \E n \in 0..Slowest :
         IF n = 0
         THEN /\ mem' = {m \in mem : m.kind # k \/ m.cell # cell} \union {[kind |-> k, cell |-> cell, value |-> value]}
              /\ UNCHANGED busy
         ELSE busy' = <<[kind |-> k, cell |-> cell, value |-> value, left |-> n]>> /\ UNCHANGED mem
-----------------------------------------------------------------------------
(* A request: usbFunctionSetup leaves where and how in global variables.   *)
Setup(k, a, bytes, t, sck) ==
  /\ left = <<>> /\ ~polling
  /\ transfers < MaxTransfers
  /\ MemoryOf(k) = "eeprom" => a < EepromSize
  /\ transfers' = transfers + 1
  /\ kind' = k /\ start' = a /\ data' = bytes /\ left' = bytes
  /\ address' = a
  /\ cmd0' = CommandByte(k)
  /\ timeout' = IF IsWrite(k) THEN t ELSE timeout
  /\ sck_period' = sck
  /\ got' = <<>>
  /\ UNCHANGED <<cmd3, usec, polling, chip>>

\* A mutant: the address stays.
ReadByte_SameAddress ==
  /\ ~IsWrite(kind) /\ left # <<>>
  /\ got' = Append(got, ReadBack(MemoryOf(kind), Cell(spi_rw(cmd0, address))))
  /\ left' = Tail(left)
  /\ Elapses
  /\ UNCHANGED <<request, address, cmd3, usec, polling>>

(* One byte of usbFunctionRead.                                            *)
ReadByte ==
  /\ ~IsWrite(kind) /\ left # <<>>
  /\ got' = Append(got, ReadBack(MemoryOf(kind), Cell(spi_rw(cmd0, address))))
  /\ address' = (address + 1) % Word
  /\ left' = Tail(left)
  /\ Elapses
  /\ UNCHANGED <<request, cmd3, usec, polling>>

(* usbFunctionWrite: the write command of one byte.                        *)
WriteByte ==
  /\ IsWrite(kind) /\ left # <<>> /\ ~polling
  /\ ChipWrites(MemoryOf(kind), Cell(spi_rw(cmd0, address)), Head(left))
  /\ cmd3' = Head(left)
  /\ left' = Tail(left)
  /\ address' = (address + 1) % Word
  /\ usec' = 0
  /\ polling' = TRUE
  /\ UNCHANGED <<request, got>>

\* A mutant: a poll byte ends the loop like any other.
Done_PollByte(r) == r = cmd3

Done(r) == r = cmd3 /\ r # poll1 /\ r # poll2

\* A mutant: the loop does not count.
Poll_NoCount ==
  LET r == ReadBack(MemoryOf(kind), Cell(spi_rw(cmd0, (address + Word - 1) % Word)))
  IN  /\ polling /\ usec < timeout
      /\ Elapses
      /\ polling' = ~Done(r)
      /\ UNCHANGED <<request, left, address, cmd3, usec, got>>

(* A turn of the polling loop: the same command as a read.                 *)
Poll ==
  LET r == ReadBack(MemoryOf(kind), Cell(spi_rw(cmd0, (address + Word - 1) % Word)))
  IN  /\ polling /\ usec < timeout
      /\ Elapses
      /\ polling' = ~Done(r)
      /\ usec' = IF Done(r) THEN usec ELSE (usec + 32 * sck_period) % Word
      /\ UNCHANGED <<request, left, address, cmd3, got>>

GiveUp ==
  /\ polling /\ usec >= timeout
  /\ polling' = FALSE
  /\ UNCHANGED <<request, left, address, cmd3, usec, got, chip>>
-----------------------------------------------------------------------------
Init ==
  /\ kind = "none" /\ left = <<>> /\ start = 0 /\ data = <<>>
  /\ address = 0 /\ cmd0 = 0 /\ cmd3 = 0 /\ timeout = 0 /\ sck_period = 10
  /\ usec = 0 /\ polling = FALSE /\ got = <<>>
  /\ mem = {} /\ busy = <<>>
  /\ transfers = 0

Next ==
  \/ \E k \in Requests, a \in Starts, bytes \in Contents, t \in Timeouts, sck \in SckPeriods :
       Setup(k, a, bytes, t, sck)
  \/ ReadByte
  \/ WriteByte
  \/ Poll
  \/ GiveUp

Spec == Init /\ [][Next]_vars

(* The loops run on.                                                       *)
FairSpec == Spec /\ WF_vars(ReadByte) /\ WF_vars(WriteByte) /\ WF_vars(Poll) /\ WF_vars(GiveUp)
-----------------------------------------------------------------------------
TypeOK ==
  /\ kind \in Requests \union {"none"}
  /\ address \in 0..(Word - 1) /\ usec \in 0..(Word - 1)
  /\ got \in Seq(0..255) /\ Len(got) <= Len(data)
  /\ Len(busy) <= 1

At(i) == (start + i - 1) % Word

(* After a write transfer every byte is in the chip, at its address: also  *)
(* one that cannot be told from a chip at work, and across the boundaries  *)
(* of the command's address bytes.                                         *)
Written ==
  (IsWrite(kind) /\ left = <<>> /\ ~polling) =>
    \A i \in 1..Len(data) : Stored(MemoryOf(kind), At(i)) = data[i]

(* A read transfer returns what is in the chip: no write of the transfer   *)
(* before it is still going on.                                            *)
ReadsBack ==
  (kind # "none" /\ ~IsWrite(kind) /\ left = <<>>) =>
    \A i \in 1..Len(got) : got[i] = Stored(MemoryOf(kind), At(i))

(* Cells outside of the transfer keep what they have.                      *)
KeepsOthers ==
  mem' # mem =>
    \A m \in mem : m \in mem' \/ (m.kind = MemoryOf(kind) /\ \E i \in 1..Len(data) : m.cell = At(i))

(* usec, of 16 bits, counts in steps up to the timeout without a carry.    *)
Countable == timeout + 32 * sck_period <= Word

(* Then the wait for a byte ends, at the latest after the "write timeout   *)
(* in usec" of main.c:151; with a carry a byte that equals a poll byte may *)
(* be waited for without end.                                              *)
CountedWaitEnds == (polling /\ Countable) ~> ~polling
=============================================================================
