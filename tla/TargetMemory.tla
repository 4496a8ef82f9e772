---------------------------- MODULE TargetMemory ----------------------------
(***************************************************************************)
(* Reading and writing the target's data space and EEPROM through the one  *)
(* pair of registers debugWIRE gives: DwReadAddr and DwWriteAddr, which    *)
(* must go around r28..r31, used by the transfer itself and cached in R,   *)
(* and DWDR, which is the link; and DwReadEEPROM and DwWriteEEPROM, five   *)
(* bytes and one byte at a time.                                           *)
(*                                                                         *)
(* The target's Z is what every transfer counts with. The target takes     *)
(* what it is sent, as in DwLink; its answers may not arrive, or not as a  *)
(* whole, and nobody looks at that. A transfer to the target that fails    *)
(* ends the command and the connection; how much of what was handed over   *)
(* has arrived by then is not said here. What is read at r28..r31 and DWDR *)
(* in the target is Scratch. Which low registers the EEPROM commands save  *)
(* is in DebugSession.                                                     *)
(***************************************************************************)
EXTENDS Integers, Sequences

CONSTANTS
  First,        \* the lowest address modelled, at most 28
  DWDRaddr,     \* beyond 31
  DataLimit,
  Chunk,        \* 128: the most that is read at once beyond DWDR
  StackShown,   \* 16: the bytes the s command shows
  EepromSize,
  MaxLength,    \* bound: the bytes of one command
  MaxCommands,  \* bound
  SPs           \* what the program's SP can be

Scratch == -1
Junk    == -2   \* what the destination of an answer held before
Cell    == First..DataLimit - 1
Cached  == 28..31
Around  == Cached \union {DWDRaddr}
Lesser(a, b) == IF a < b THEN a ELSE b

\* What the constants are assumed to be.
AddressAssumption ==
  /\ First \in 0..28 /\ DWDRaddr \in Nat /\ DataLimit \in Nat
  /\ 31 < DWDRaddr /\ DWDRaddr < DataLimit /\ Chunk \in Nat \ {0} /\ EepromSize \in Nat \ {0}
  /\ StackShown \in Nat \ {0} /\ MaxLength \in Nat /\ MaxCommands \in Nat
  /\ SPs \subseteq Nat /\ \A sp \in SPs : First <= sp + 1

VARIABLES
  at,            \* "idle", the loop under way, or "done"
  addr, len,     \* what is left to do
  data,          \* the bytes still to be written
  buf,           \* the bytes read
  R,             \* the cached registers
  mem,           \* the other cells of the target
  eeprom,
  Z,
  mode,          \* is the target's data write mode set: "write", "unset", or "off", when it takes no more bytes
  asked,         \* history: the command, with what the cells and EEPROM held before it
  missed,        \* history: the addresses whose bytes were not answered, or not taken
  count          \* commands so far

vars == <<at, addr, len, data, buf, R, mem, eeprom, Z, mode, asked, missed, count>>

\* What the program has in its data space; of the link's register there is nothing to see.
Space == [a \in Cell |-> IF a \in Cached THEN R[a] ELSE IF a = DWDRaddr THEN 0 ELSE mem[a]]

Asked(kind, a, n, bytes) ==
  [kind |-> kind, addr |-> a, len |-> n, data |-> bytes, space |-> Space, eeprom |-> eeprom]

\* Every cell holds something of its own.
Init ==
  /\ at = "idle" /\ addr = First /\ len = 0 /\ data = <<>> /\ buf = <<>>
  /\ R = [a \in Cached |-> a]
  /\ mem = [a \in Cell |-> a]
  /\ eeprom = [a \in 0..EepromSize - 1 |-> 1000 + a]
  /\ Z = 0 /\ mode = "unset"
  /\ asked = Asked("none", First, 0, <<>>) /\ missed = {} /\ count = 0

\* A command that reads or writes n bytes at a has passed the check of its range.
Begin(kind, loop, a, n, bytes) ==
  /\ at \in {"idle", "done"} /\ count < MaxCommands
  /\ at' = loop /\ addr' = a /\ len' = n /\ data' = bytes /\ buf' = <<>>
  /\ mode' = IF kind = "write" THEN "write" ELSE "unset"
  /\ asked' = Asked(kind, a, n, bytes) /\ missed' = {}
  /\ count' = count + 1
  /\ UNCHANGED <<R, mem, eeprom>>

\* The i-th byte of the n-th command.
Bytes(n) == [i \in 1..n |-> 100 * (count + 1) + i]

DumpDataBytesCommand ==
  /\ \E a \in Cell, n \in 1..MaxLength :
       a + n <= DataLimit /\ Begin("data", "read", a, n, <<>>)
  /\ UNCHANGED Z

\* A mutant: SP points at the first byte shown.
StackFrom_SP(sp) == Lesser(DataLimit, sp)
StackFrom(sp) == Lesser(DataLimit, sp + 1)

\* s without a number; with SP at the end or beyond there is nothing to read.
StackCommand ==
  /\ \E sp \in SPs :
       LET a == StackFrom(sp)
           n == Lesser(DataLimit, a + StackShown) - a
       IN Begin("stack", IF n > 0 THEN "read" ELSE "done", a, n, <<sp>>)
  /\ UNCHANGED Z

\* DwWriteAddr begins with the address in Z, and sets the write mode.
WriteDataBytesCommand ==
  \E a \in Cell, n \in 1..MaxLength :
    a + n <= DataLimit /\ Begin("write", "write", a, n, Bytes(n)) /\ Z' = a

DumpEEPROMBytesCommand ==
  \E a \in 0..EepromSize - 1, n \in 1..MaxLength :
    a + n <= EepromSize /\ Begin("eeprom", "readEEPROM", a, n, <<>>) /\ Z' = a

WriteEEPROMBytesCommand ==
  \E a \in 0..EepromSize - 1, n \in 1..MaxLength :
    a + n <= EepromSize /\ Begin("writeEEPROM", "writeEEPROM", a, n, Bytes(n)) /\ Z' = a

-----------------------------------------------------------------------------
(* DwReadAddr: the parts of the range in the order of their addresses. *)

\* The target's own byte.
Raw(a) == IF a \in Around THEN Scratch ELSE mem[a]

\* The next part is these bytes.
Take(bytes) ==
  LET n == Len(bytes)
  IN /\ buf' = buf \o bytes
     /\ addr' = addr + n
     /\ len' = len - n
     /\ at' = IF n = len THEN "done" ELSE at
     /\ UNCHANGED <<data, R, mem, eeprom, mode, asked, count>>

\* DwReceive, whose status is ignored: the last of the bytes may not arrive.
DwReceive(bytes) ==
  \E k \in 0..Len(bytes) :
    /\ Take([i \in 1..Len(bytes) |-> IF i <= k THEN bytes[i] ELSE Junk])
    /\ missed' = missed \union (addr + k..addr + Len(bytes) - 1)

DwUnsafeReadAddr(n) ==
  /\ DwReceive([i \in 1..n |-> Raw(addr + i - 1)])
  /\ Z' = addr + n

\* A mutant: a read from below runs on in to the cached registers.
ReadLow_On ==
  at = "read" /\ addr < 28 /\ DwUnsafeReadAddr(Lesser(len, 32 - addr))
ReadLow == at = "read" /\ addr < 28 /\ DwUnsafeReadAddr(Lesser(len, 28 - addr))

ReadCached ==
  at = "read" /\ addr \in Cached /\ Take(<<R[addr]>>) /\ UNCHANGED <<Z, missed>>

ReadToDWDR ==
  at = "read" /\ addr > 31 /\ addr < DWDRaddr /\ DwUnsafeReadAddr(Lesser(len, DWDRaddr - addr))

ReadDWDR ==
  at = "read" /\ addr = DWDRaddr /\ Take(<<0>>) /\ UNCHANGED <<Z, missed>>

ReadBeyond ==
  at = "read" /\ addr > DWDRaddr /\ DwUnsafeReadAddr(Lesser(len, Chunk))

-----------------------------------------------------------------------------
(* DwWriteAddr: one round of its loop. *)

Written ==
  /\ addr' = addr + 1 /\ len' = len - 1 /\ data' = Tail(data)
  /\ at' = IF len = 1 THEN "done" ELSE at
  /\ UNCHANGED <<buf, asked, count>>

\* The byte goes where Z is, and Z counts, unless the target is out of its write mode.
WriteCell ==
  /\ at = "write" /\ addr \notin Around
  /\ IF mode = "off"
     THEN UNCHANGED <<mem, Z>> /\ missed' = missed \union {addr}
     ELSE mem' = [mem EXCEPT ![Z] = Head(data)] /\ Z' = Z + 1 /\ UNCHANGED missed
  /\ Written
  /\ UNCHANGED <<R, eeprom, mode>>

\* DwSetZ sets single step mode (0x64), and nothing sets the write mode again; whether the
\* target takes bytes all the same is the part's affair.
\* A mutant: Z is left behind.
WriteAround_Z == UNCHANGED Z /\ mode' \in {"off", IF mode = "off" THEN "off" ELSE "unset"}
WriteAround == Z' = addr + 1 /\ mode' \in {"off", IF mode = "off" THEN "off" ELSE "unset"}

\* A cached register is written in R only, DWDR not at all.
WriteCached ==
  /\ at = "write" /\ addr \in Around
  /\ R' = IF addr \in Cached THEN [R EXCEPT ![addr] = Head(data)] ELSE R
  /\ WriteAround
  /\ Written
  /\ UNCHANGED <<mem, eeprom, missed>>

-----------------------------------------------------------------------------
(* DwReadEEPROM and DwWriteEEPROM. *)

\* The last of the five may be beyond the end; the part addresses its EEPROM modulo its size.
Cells(a) == [i \in 1..5 |-> eeprom[(a + i - 1) % EepromSize]]

\* A mutant: the next five begin with the last of these.
Next5_Four == Z + 4
Next5 == Z + 5

ReadEEPROM ==
  /\ at = "readEEPROM"
  /\ DwReceive(SubSeq(Cells(Z), 1, Lesser(5, len)))
  /\ Z' = Next5

WriteEEPROM ==
  /\ at = "writeEEPROM"
  /\ eeprom' = [eeprom EXCEPT ![Z] = Head(data)]
  /\ Z' = Z + 1
  /\ Written
  /\ UNCHANGED <<R, mem, mode, missed>>

Next ==
  \/ DumpDataBytesCommand \/ StackCommand \/ WriteDataBytesCommand
  \/ DumpEEPROMBytesCommand \/ WriteEEPROMBytesCommand
  \/ ReadLow \/ ReadCached \/ ReadToDWDR \/ ReadDWDR \/ ReadBeyond
  \/ WriteCell \/ WriteCached \/ ReadEEPROM \/ WriteEEPROM

Spec == Init /\ [][Next]_vars

-----------------------------------------------------------------------------
Ranged == asked.addr..asked.addr + asked.len - 1
Upto   == asked.addr..addr - 1

\* Types, and what is left is the rest of the range asked for.
TypeOK ==
  /\ at \in {"idle", "done", "read", "write", "readEEPROM", "writeEEPROM"}
  /\ DOMAIN mem = Cell /\ DOMAIN R = Cached /\ DOMAIN eeprom = 0..EepromSize - 1
  /\ at \notin {"idle", "done"} => addr \in Ranged /\ addr + len = asked.addr + asked.len

\* What a dump of data space shows is the program's, but for bytes that were not answered:
\* no part is left out, shown twice or taken from the registers the transfer uses
\* (DwReadAddr, StackCommand).
ReadsSpace ==
  at = "done" /\ asked.kind \in {"data", "stack"} =>
    /\ Len(buf) = asked.len
    /\ \A a \in Ranged \ missed : buf[a - asked.addr + 1] = asked.space[a]

\* s shows what is above the program's SP, as much as there is (StackCommand).
ShowsStack ==
  at = "done" /\ asked.kind = "stack" =>
    LET from == asked.data[1] + 1
    IN /\ Len(buf) = IF from >= DataLimit THEN 0 ELSE Lesser(StackShown, DataLimit - from)
       /\ buf # <<>> => asked.addr = from

\* The EEPROM dump shows each byte that was answered in its place, whatever the length is
\* modulo five (DwReadEEPROM).
ReadsEEPROM ==
  at = "done" /\ asked.kind = "eeprom" =>
    /\ Len(buf) = asked.len
    /\ \A a \in Ranged \ missed : buf[a - asked.addr + 1] = asked.eeprom[a]

\* At every point of a write the bytes so far are in their places, those of r28..r31 in R,
\* but for those that the target did not take, and nothing else has changed (DwWriteAddr,
\* DwWriteEEPROM).
WritesPrefix ==
  /\ Space = [a \in Cell |->
       IF asked.kind = "write" /\ a \in Upto \ missed /\ a # DWDRaddr
       THEN asked.data[a - asked.addr + 1] ELSE asked.space[a]]
  /\ eeprom = [a \in 0..EepromSize - 1 |->
       IF asked.kind = "writeEEPROM" /\ a \in Upto
       THEN asked.data[a - asked.addr + 1] ELSE asked.eeprom[a]]

\* The registers that dwdebug keeps are shown and written whatever is not answered, and
\* bytes of a write can only be missed behind them, or behind DWDR (DwReadAddr,
\* DwWriteAddr).
MissedThere ==
  \A a \in missed :
    /\ a \in Upto
    /\ asked.kind \in {"data", "stack", "write"} => a \notin Around
    /\ asked.kind = "write" => \E b \in Around : b \in asked.addr..a - 1
    /\ asked.kind # "writeEEPROM"

\* Each byte that is shown is the program's, in its place, unless it was not answered
\* (DwReadAddr, StackCommand, DwReadEEPROM); a write has at every point written its bytes so
\* far, but for some behind r28..r31 or DWDR, and changed nothing else (DwWriteAddr,
\* DwWriteEEPROM); what dwdebug has itself is never missed.
MemoryTransfers == TypeOK /\ ReadsSpace /\ ShowsStack /\ ReadsEEPROM /\ WritesPrefix /\ MissedThere
=============================================================================
