--------------------------- MODULE TransferProofs ---------------------------
(***************************************************************************)
(* Proofs about TargetMemory, for all sizes of the memories, lengths and   *)
(* numbers of commands: what a command reads is what its range held, what  *)
(* it writes is there and nothing else is, but for what the target did not *)
(* answer or take.                                                         *)
(* Proofs about ProgramFile, for all files, sizes of flash and handles: a  *)
(* file that was loaded is in the flash as a whole, and nothing else has   *)
(* changed there.  And about the addresses that the dump commands keep.    *)
(***************************************************************************)
EXTENDS MCCommands, SequenceTheorems, WellFoundedInduction, TLAPS

(* Where a loop is under way. *)
Loops == {"read", "write", "readEEPROM", "writeEEPROM"}

(* The types, variable by variable. *)
Typed ==
  /\ at \in {"idle", "done"} \union Loops
  /\ addr \in Nat /\ len \in Nat /\ Z \in Nat /\ count \in Nat
  /\ mode \in {"write", "unset", "off"} /\ missed \in SUBSET Nat
  /\ data \in Seq(Int) /\ buf \in Seq(Int)
  /\ R \in [Cached -> Int] /\ mem \in [Cell -> Int] /\ eeprom \in [0..EepromSize - 1 -> Int]
  /\ asked.kind \in {"none", "data", "stack", "write", "eeprom", "writeEEPROM"}
  /\ asked.addr \in Nat /\ asked.len \in Nat /\ asked.data \in Seq(Int)
  /\ asked.space \in [Cell -> Int] /\ asked.eeprom \in [0..EepromSize - 1 -> Int]

(* What is left is the rest of the range that was asked for, which is one  *)
(* of the memory that the loop under way is for.                           *)
Progress ==
  /\ asked.addr <= addr
  /\ at \in Loops => len > 0 /\ addr + len = asked.addr + asked.len
  /\ at = "done" => addr = asked.addr + asked.len
  /\ at = "read" => asked.kind \in {"data", "stack"}
  /\ at = "write" => asked.kind = "write"
  /\ at = "readEEPROM" => asked.kind = "eeprom"
  /\ at = "writeEEPROM" => asked.kind = "writeEEPROM"

(* The range that was asked for lies in the memory it is of. *)
InRange ==
  /\ asked.kind \in {"data", "stack", "write"} =>
       First <= asked.addr /\ asked.addr + asked.len <= DataLimit
  /\ asked.kind \in {"eeprom", "writeEEPROM"} => asked.addr + asked.len <= EepromSize
  /\ asked.kind = "stack" =>
       /\ asked.data[1] \in SPs /\ asked.addr = StackFrom(asked.data[1])
       /\ asked.len = Lesser(DataLimit, asked.addr + StackShown) - asked.addr

(* The bytes read so far are those of the range, up to where it has got,   *)
(* but for those that were missed.                                         *)
Shows(bytes, held) ==
  /\ Len(bytes) = addr - asked.addr
  /\ \A k \in 1..Len(bytes) : asked.addr + k - 1 \notin missed => bytes[k] = held[asked.addr + k - 1]

Reading ==
  /\ asked.kind \in {"data", "stack"} /\ at # "idle" => Shows(buf, asked.space)
  /\ asked.kind = "eeprom" /\ at # "idle" => Shows(buf, asked.eeprom)
  /\ at = "readEEPROM" => Z = addr

(* The target's Z counts along as long as the target takes bytes, and the  *)
(* bytes still to be written are the last of those handed over.            *)
Writing ==
  at \in {"write", "writeEEPROM"} =>
    /\ at = "writeEEPROM" \/ mode # "off" => Z = addr
    /\ Len(data) = len /\ Len(asked.data) = asked.len
    /\ \A k \in 1..len : data[k] = asked.data[addr - asked.addr + k]

(* WritesPrefix, cell by cell. *)
Prefix ==
  /\ \A a \in Cell :
       Space[a] = IF asked.kind = "write" /\ a \in Upto \ missed /\ a # DWDRaddr
                  THEN asked.data[a - asked.addr + 1] ELSE asked.space[a]
  /\ \A a \in 0..EepromSize - 1 :
       eeprom[a] = IF asked.kind = "writeEEPROM" /\ a \in Upto
                   THEN asked.data[a - asked.addr + 1] ELSE asked.eeprom[a]

(* MissedThere, and the write mode lasts to the first of r28..r31 or DWDR. *)
Missing ==
  /\ MissedThere
  /\ asked.kind = "write" /\ mode # "write" => \E b \in Around : b \in asked.addr..addr - 1

(* The inductive invariant. MemoryTransfers speaks of commands that have   *)
(* ended; Progress, Reading and Writing say how far one under way has      *)
(* got, part by part, and Missing when the target may stop taking bytes.   *)
IInv == Typed /\ Progress /\ InRange /\ Reading /\ Writing /\ Prefix /\ Missing
-----------------------------------------------------------------------------
(* What the assumptions say of the constants. *)
LEMMA Bounds ==
  ASSUME AddressAssumption
  PROVE  /\ First \in Nat /\ First <= 28 /\ DWDRaddr \in Nat /\ DataLimit \in Nat /\ Chunk \in Nat \ {0}
         /\ 31 < DWDRaddr /\ DWDRaddr < DataLimit /\ EepromSize \in Nat \ {0} /\ StackShown \in Nat \ {0}
         /\ MaxLength \in Nat /\ MaxCommands \in Nat
         /\ Cached \subseteq Cell /\ DWDRaddr \notin Cached
BY DEF AddressAssumption, Cached, Cell

(* The lesser of two numbers is one of them. *)
LEMMA LesserIs ==
  ASSUME NEW a \in Int, NEW b \in Int
  PROVE  Lesser(a, b) \in Int /\ Lesser(a, b) <= a /\ Lesser(a, b) <= b /\ Lesser(a, b) \in {a, b}
BY DEF Lesser

(* Space, cell by cell. *)
LEMMA SpaceIs ==
  ASSUME AddressAssumption, R \in [Cached -> Int], mem \in [Cell -> Int]
  PROVE  /\ Space \in [Cell -> Int]
         /\ \A a \in Cached : Space[a] = R[a]
         /\ Space[DWDRaddr] = 0
         /\ \A a \in Cell : a \notin Cached \union {DWDRaddr} => Space[a] = mem[a]
<1>1. /\ Cached \subseteq Cell /\ DWDRaddr \notin Cached /\ DWDRaddr \in Cell
  BY Bounds DEF Cell
<1>2. \A a \in Cell : Space[a] = IF a \in Cached THEN R[a] ELSE IF a = DWDRaddr THEN 0 ELSE mem[a]
  BY DEF Space
<1>3. Space \in [Cell -> Int]
  BY DEF Space
<1>4. QED BY <1>1, <1>2, <1>3

(* The data space only depends on the cached registers and on the          *)
(* target's memory.                                                        *)
LEMMA SpaceSame == ASSUME UNCHANGED <<R, mem>> PROVE Space' = Space
BY DEF Space

(* The initial states have the invariant. *)
LEMMA Start == ASSUME AddressAssumption PROVE Init => IInv
<1> SUFFICES ASSUME Init PROVE IInv
  OBVIOUS
<1>1. /\ R \in [Cached -> Int] /\ mem \in [Cell -> Int] /\ eeprom \in [0..EepromSize - 1 -> Int]
  BY Bounds DEF Init, Cached, Cell
<1>2. Space \in [Cell -> Int]
  BY <1>1, SpaceIs
<1>3. <<>> \in Seq(Int)
  BY EmptySeq
<1>4. /\ asked.kind = "none" /\ asked.addr = First /\ asked.len = 0 /\ asked.data = <<>>
      /\ mode = "unset" /\ missed = {}
      /\ asked.space = Space /\ asked.eeprom = eeprom
  BY DEF Init, Asked
<1>5. Typed
  <2>1. First \in Nat
    BY Bounds
  <2>2. /\ at = "idle" /\ addr = First /\ len = 0 /\ data = <<>> /\ buf = <<>> /\ Z = 0 /\ count = 0
    BY DEF Init
  <2>3. QED BY <1>1, <1>2, <1>3, <1>4, <2>1, <2>2 DEF Typed
<1>6. Progress /\ InRange /\ Reading /\ Writing
  <2>1. First \in Nat /\ at = "idle" /\ addr = First
    BY Bounds DEF Init
  <2>2. QED BY <1>4, <2>1 DEF Progress, InRange, Reading, Writing, Loops
<1>7. Prefix /\ Missing
  BY <1>4 DEF Prefix, Missing, MissedThere
<1>8. QED BY <1>5, <1>6, <1>7 DEF IInv

(* A command begins with all of its range to do. *)
LEMMA BeginKept ==
  ASSUME AddressAssumption, IInv,
         NEW kind \in {"data", "stack", "write", "eeprom", "writeEEPROM"},
         NEW loop \in Loops \union {"done"}, NEW a \in Nat, NEW n \in Nat, NEW bytes \in Seq(Int),
         Begin(kind, loop, a, n, bytes), Z' \in Nat,
         IF loop = "done" THEN n = 0 ELSE n > 0,
         loop = "read" => kind \in {"data", "stack"},
         loop = "readEEPROM" => kind = "eeprom" /\ Z' = a,
         loop \in {"write", "writeEEPROM"} => kind = loop /\ Z' = a /\ Len(bytes) = n,
         kind \in {"data", "stack", "write"} => First <= a /\ a + n <= DataLimit,
         kind \in {"eeprom", "writeEEPROM"} => a + n <= EepromSize,
         kind = "stack" => bytes[1] \in SPs /\ a = StackFrom(bytes[1])
                           /\ n = Lesser(DataLimit, a + StackShown) - a
  PROVE  IInv'
<1>1. /\ at' = loop /\ addr' = a /\ len' = n /\ data' = bytes /\ buf' = <<>>
      /\ mode' = (IF kind = "write" THEN "write" ELSE "unset") /\ missed' = {}
      /\ count' = count + 1
      /\ UNCHANGED <<R, mem, eeprom>>
  BY DEF Begin
<1>2. /\ asked'.kind = kind /\ asked'.addr = a /\ asked'.len = n /\ asked'.data = bytes
      /\ asked'.space = Space /\ asked'.eeprom = eeprom
  BY DEF Begin, Asked
<1>3. Space \in [Cell -> Int] /\ Space' = Space
  BY <1>1, SpaceIs, SpaceSame DEF IInv, Typed
<1>4. <<>> \in Seq(Int) /\ Len(<<>>) = 0
  BY EmptySeq
<1>5. Typed'
  <2>1. at' \in {"idle", "done"} \union Loops
    BY <1>1
  <2>3. count' \in Nat /\ mode' \in {"write", "unset", "off"} /\ missed' \in SUBSET Nat
    BY <1>1 DEF IInv, Typed
  <2>2. QED BY <1>1, <1>2, <1>3, <1>4, <2>1, <2>3 DEF IInv, Typed
<1>6. Progress'
  BY <1>1, <1>2 DEF Progress, Loops
<1>7. InRange'
  BY <1>2 DEF InRange
<1>8. Reading' /\ Writing'
  BY <1>1, <1>2, <1>4 DEF Reading, Writing, Shows, Loops
<1>9. Prefix'
  <2>1. Upto' = {}
    BY <1>1, <1>2 DEF Upto
  <2>2. QED BY <1>1, <1>2, <1>3, <2>1 DEF Prefix
<1>10. Missing'
  BY <1>1, <1>2 DEF Missing, MissedThere
<1>11. QED BY <1>5, <1>6, <1>7, <1>8, <1>9, <1>10 DEF IInv

(* The bytes that a user hands over are as many as were said. *)
LEMMA BytesSeq ==
  ASSUME count \in Nat, NEW n \in Nat PROVE Bytes(n) \in Seq(Int) /\ Len(Bytes(n)) = n
BY DEF Bytes

(* DumpDataBytesCommand, WriteDataBytesCommand and the two commands for    *)
(* EEPROM keep the invariant: the range that the parser lets through lies  *)
(* in its memory.                                                          *)
LEMMA CommandsKept ==
  ASSUME AddressAssumption, IInv,
         \/ DumpDataBytesCommand \/ WriteDataBytesCommand
         \/ DumpEEPROMBytesCommand \/ WriteEEPROMBytesCommand
  PROVE  IInv'
<1>1. <<>> \in Seq(Int) /\ Z \in Nat /\ count \in Nat
  BY EmptySeq DEF IInv, Typed
<1>2. \A n \in 1..MaxLength : n \in Nat /\ n # 0
  BY Bounds
<1>3. \A a \in Cell : a \in Nat /\ First <= a
  BY Bounds DEF Cell
<1>4. CASE DumpDataBytesCommand
  <2>1. PICK a \in Cell, n \in 1..MaxLength : a + n <= DataLimit /\ Begin("data", "read", a, n, <<>>) /\ Z' = Z
    BY <1>4 DEF DumpDataBytesCommand
  <2>2. Z' \in Nat /\ a \in Nat /\ First <= a /\ n \in Nat /\ n > 0
    BY <1>1, <1>2, <1>3, <2>1
  <2>3. <<>> \in Seq(Int)
    BY <1>1
  <2>4. Begin("data", "read", a, n, <<>>) /\ a + n <= DataLimit
    BY <2>1
  <2>5. QED BY <2>2, <2>3, <2>4, BeginKept DEF Loops
<1>5. CASE WriteDataBytesCommand
  <2>1. PICK a \in Cell, n \in 1..MaxLength :
          a + n <= DataLimit /\ Begin("write", "write", a, n, Bytes(n)) /\ Z' = a
    BY <1>5 DEF WriteDataBytesCommand
  <2>2. Bytes(n) \in Seq(Int) /\ Len(Bytes(n)) = n
    BY <1>1, <1>2, BytesSeq
  <2>3. QED BY <1>2, <1>3, <2>1, <2>2, BeginKept DEF Loops
<1>6. CASE DumpEEPROMBytesCommand
  <2>1. PICK a \in 0..EepromSize - 1, n \in 1..MaxLength :
          a + n <= EepromSize /\ Begin("eeprom", "readEEPROM", a, n, <<>>) /\ Z' = a
    BY <1>6 DEF DumpEEPROMBytesCommand
  <2>2. a \in Nat /\ n \in Nat /\ n > 0
    BY <1>2, Bounds
  <2>3. <<>> \in Seq(Int)
    BY <1>1
  <2>4. Begin("eeprom", "readEEPROM", a, n, <<>>) /\ a + n <= EepromSize /\ Z' = a
    BY <2>1
  <2>5. QED BY <2>2, <2>3, <2>4, BeginKept DEF Loops
<1>7. CASE WriteEEPROMBytesCommand
  <2>1. PICK a \in 0..EepromSize - 1, n \in 1..MaxLength :
          a + n <= EepromSize /\ Begin("writeEEPROM", "writeEEPROM", a, n, Bytes(n)) /\ Z' = a
    BY <1>7 DEF WriteEEPROMBytesCommand
  <2>2. a \in Nat
    BY Bounds
  <2>3. Bytes(n) \in Seq(Int) /\ Len(Bytes(n)) = n
    BY <1>1, <1>2, BytesSeq
  <2>4. QED BY <1>2, <2>1, <2>2, <2>3, BeginKept DEF Loops
<1>8. QED BY <1>4, <1>5, <1>6, <1>7

(* The stack command keeps the invariant: StackFrom and the limit keep     *)
(* what is shown within the data space.                                    *)
LEMMA StackKept == ASSUME AddressAssumption, IInv, StackCommand PROVE IInv'
<1>1. PICK sp \in SPs :
        LET a == StackFrom(sp)
            n == Lesser(DataLimit, a + StackShown) - a
        IN Begin("stack", IF n > 0 THEN "read" ELSE "done", a, n, <<sp>>) /\ Z' = Z
  BY DEF StackCommand
<1> DEFINE a == StackFrom(sp)
           n == Lesser(DataLimit, a + StackShown) - a
<1>2. sp \in Nat /\ First <= sp + 1
  BY DEF AddressAssumption
<1>3. a \in Nat /\ First <= a /\ a <= DataLimit
  BY <1>2, Bounds DEF StackFrom, Lesser
<1>4. n \in Nat /\ a + n <= DataLimit
  BY <1>3, Bounds DEF Lesser
<1>5. <<sp>> \in Seq(Int) /\ <<sp>>[1] = sp
  BY <1>2
<1>6. Begin("stack", IF n > 0 THEN "read" ELSE "done", a, n, <<sp>>) /\ Z' = Z /\ Z \in Nat
  BY <1>1 DEF IInv, Typed
<1>7. a = StackFrom(<<sp>>[1]) /\ n = Lesser(DataLimit, a + StackShown) - a
  BY <1>5
<1> HIDE DEF a, n
<1>8. CASE n > 0
  <2>1. Begin("stack", "read", a, n, <<sp>>)
    BY <1>6, <1>8
  <2>2. QED BY <1>3, <1>4, <1>5, <1>6, <1>7, <1>8, <2>1, BeginKept DEF Loops
<1>9. CASE ~(n > 0)
  <2>1. Begin("stack", "done", a, n, <<sp>>) /\ n = 0
    BY <1>4, <1>6, <1>9
  <2>2. QED BY <1>3, <1>4, <1>5, <1>6, <1>7, <2>1, BeginKept DEF Loops
<1>10. QED BY <1>8, <1>9
-----------------------------------------------------------------------------
(* The bytes of a part are appended to those that were read before.        *)
LEMMA TakeShows ==
  ASSUME Typed, Progress, NEW held, NEW bytes \in Seq(Int), Shows(buf, held), missed \subseteq missed',
         \A k \in 1..Len(bytes) : addr + k - 1 \notin missed' => bytes[k] = held[addr + k - 1],
         Take(bytes)
  PROVE  /\ buf' \in Seq(Int) /\ Len(buf') = addr' - asked.addr
         /\ \A k \in 1..Len(buf') : asked.addr + k - 1 \notin missed' => buf'[k] = held[asked.addr + k - 1]
<1>1. buf' = buf \o bytes /\ addr' = addr + Len(bytes)
  BY DEF Take
<1>2. Len(buf) \in Nat /\ Len(bytes) \in Nat
  BY LenProperties DEF Typed
<1>3. /\ buf' \in Seq(Int) /\ Len(buf') = Len(buf) + Len(bytes)
      /\ \A k \in 1..Len(buf) + Len(bytes) : buf'[k] = IF k <= Len(buf) THEN buf[k] ELSE bytes[k - Len(buf)]
  BY <1>1, ConcatProperties DEF Typed
<1>4. Len(buf) = addr - asked.addr /\ addr \in Nat /\ asked.addr \in Nat
  BY DEF Shows, Typed
<1>5. \A k \in 1..Len(buf) : asked.addr + k - 1 \notin missed' => buf[k] = held[asked.addr + k - 1]
  BY DEF Shows
<1>6. ASSUME NEW k \in 1..Len(buf'), asked.addr + k - 1 \notin missed'
      PROVE  buf'[k] = held[asked.addr + k - 1]
  <2>1. k \in 1..Len(buf) + Len(bytes)
    BY <1>3
  <2>2. buf'[k] = IF k <= Len(buf) THEN buf[k] ELSE bytes[k - Len(buf)]
    BY <1>3, <2>1
  <2>3. CASE k <= Len(buf)
    <3>1. k \in 1..Len(buf)
      BY <1>2, <2>1, <2>3
    <3>2. QED BY <1>5, <1>6, <2>2, <2>3, <3>1
  <2>4. CASE ~(k <= Len(buf))
    <3>1. k - Len(buf) \in 1..Len(bytes)
      BY <1>2, <2>1, <2>4
    <3>2. addr + (k - Len(buf)) - 1 = asked.addr + k - 1
      BY <1>4, <2>1, SMTT(60), ZenonT(60)
    <3>3. bytes[k - Len(buf)] = held[addr + (k - Len(buf)) - 1]
      BY <1>6, <3>1, <3>2
    <3>4. QED BY <2>2, <2>4, <3>2, <3>3
  <2>5. QED BY <2>3, <2>4
<1>7. QED BY <1>1, <1>2, <1>3, <1>4, <1>6, SMTT(60), ZenonT(60)

(* A part that is read, of the right bytes, keeps the invariant. *)
LEMMA TakeKept ==
  ASSUME AddressAssumption, IInv, NEW held, NEW bytes \in Seq(Int), Len(bytes) \in 1..len,
         \/ at = "read" /\ held = asked.space
         \/ at = "readEEPROM" /\ held = asked.eeprom /\ (Len(bytes) # len => Z' = addr + Len(bytes)),
         missed \subseteq missed', missed' \in SUBSET Nat,
         \A a \in missed' \ missed : a \in addr..addr + Len(bytes) - 1 /\ (at = "read" => a \notin Around),
         \A k \in 1..Len(bytes) : addr + k - 1 \notin missed' => bytes[k] = held[addr + k - 1],
         Take(bytes), Z' \in Nat
  PROVE  IInv'
<1>1. /\ addr' = addr + Len(bytes) /\ len' = len - Len(bytes)
      /\ at' = IF Len(bytes) = len THEN "done" ELSE at
      /\ UNCHANGED <<data, R, mem, eeprom, mode, asked, count>>
  BY DEF Take
<1>2. Shows(buf, held) /\ Typed /\ Progress
  BY DEF IInv, Reading, Progress
<1>3. /\ buf' \in Seq(Int) /\ Len(buf') = addr' - asked.addr
      /\ \A k \in 1..Len(buf') : asked.addr + k - 1 \notin missed' => buf'[k] = held[asked.addr + k - 1]
  BY <1>2, TakeShows
<1>4. addr \in Nat /\ len \in Nat /\ Len(bytes) \in Nat \ {0} /\ Len(bytes) <= len
  BY DEF IInv, Typed
<1>5. Typed'
  <2>1. len' \in Nat /\ addr' \in Nat
    BY <1>1, <1>4
  <2>2. at' \in {"idle", "done"} \union Loops
    BY <1>1, <1>2 DEF Typed
  <2>3. buf' \in Seq(Int)
    BY <1>3
  <2>4. QED BY <1>1, <1>2, <2>1, <2>2, <2>3 DEF Typed
<1>6. Progress'
  <2>1. /\ addr' + len' = addr + len /\ addr <= addr'
        /\ IF Len(bytes) = len THEN len' = 0 ELSE len' > 0
        /\ addr' + 0 = addr'
    BY <1>1, <1>4
  <2>2. addr + len = asked.addr + asked.len /\ asked.addr <= addr
    BY <1>2 DEF Progress, Loops
  <2>3. asked.addr \in Nat
    BY <1>2 DEF Typed
  <2>4. asked'.addr <= addr'
    BY <1>1, <1>4, <2>1, <2>2, <2>3
  <2>5. CASE Len(bytes) = len
    <3>1. at' = "done" /\ addr' = asked.addr + asked.len
      BY <1>1, <1>4, <2>1, <2>2, <2>5
    <3>2. QED BY <1>1, <2>4, <3>1 DEF Progress, Loops
  <2>6. CASE Len(bytes) # len
    <3>1. at' = at /\ len' > 0 /\ addr' + len' = asked.addr + asked.len
      BY <1>1, <2>1, <2>2, <2>6
    <3>2. QED BY <1>1, <1>2, <2>4, <3>1 DEF Progress
  <2>7. QED BY <2>5, <2>6
<1>7. InRange'
  BY <1>1 DEF IInv, InRange
<1>8. Reading'
  BY <1>1, <1>2, <1>3, <1>4 DEF Reading, Shows, Progress
<1>9. Writing'
  BY <1>1 DEF Writing
<1>10. Prefix'
  <2>1. asked.kind \notin {"write", "writeEEPROM"}
    BY <1>2 DEF Progress
  <2>2. Space' = Space
    BY <1>1, SpaceSame
  <2>3. QED BY <1>1, <2>1, <2>2 DEF IInv, Prefix
<1>11. Missing'
  <2>1. asked.kind \notin {"write", "writeEEPROM"} /\ asked.addr <= addr /\ asked.addr \in Nat
        /\ (asked.kind \in {"data", "stack"} => at = "read")
    BY <1>2 DEF Progress, Typed
  <2>2. ASSUME NEW a \in missed' PROVE a \in asked.addr..addr + Len(bytes) - 1 /\ (at = "read" => a \notin Around)
    <3>1. CASE a \in missed
      <4>1. a \in asked.addr..addr - 1 /\ (asked.kind \in {"data", "stack"} => a \notin Around)
        BY <3>1 DEF IInv, Missing, MissedThere, Upto
      <4>2. at = "read" => asked.kind \in {"data", "stack"}
        BY <1>2 DEF Progress
      <4>3. a \in asked.addr..addr + Len(bytes) - 1
        BY <1>4, <2>1, <4>1
      <4>4. QED BY <4>1, <4>2, <4>3
    <3>2. CASE a \notin missed
      <4>1. a \in addr..addr + Len(bytes) - 1 /\ (at = "read" => a \notin Around)
        BY <3>2
      <4>2. a \in asked.addr..addr + Len(bytes) - 1
        BY <1>4, <2>1, <4>1
      <4>3. QED BY <4>1, <4>2
    <3>3. QED BY <3>1, <3>2
  <2>3. asked' = asked /\ addr' = addr + Len(bytes) /\ asked'.kind \notin {"write", "writeEEPROM"}
    BY <1>1, <2>1
  <2>4. asked'.kind \in {"data", "stack"} => at = "read"
    BY <2>1, <2>3
  <2>5. ASSUME NEW a \in missed'
        PROVE  a \in Upto' /\ (asked'.kind \in {"data", "stack"} => a \notin Around')
    <3>1. a \in asked.addr..addr + Len(bytes) - 1
      BY <2>2, <2>5
    <3>2. a \in Upto'
      <4>1. Upto' = asked.addr..addr' - 1
        BY <2>3 DEF Upto
      <4>2. addr' - 1 = addr + Len(bytes) - 1
        BY <1>4, <2>3
      <4>3. QED BY <3>1, <4>1, <4>2
    <3>3. at = "read" => a \notin Around
      BY <2>2, <2>5
    <3>4. Around' = Around
      BY DEF Around, Cached
    <3>5. QED BY <2>4, <3>2, <3>3, <3>4
  <2>6. QED BY <2>3, <2>5 DEF Missing, MissedThere
<1>12. QED BY <1>5, <1>6, <1>7, <1>8, <1>9, <1>10, <1>11 DEF IInv

(* An exchange that asks for the right bytes keeps the invariant, however  *)
(* many of them arrive.                                                    *)
LEMMA ReceiveKept ==
  ASSUME AddressAssumption, IInv, NEW held, NEW bytes \in Seq(Int), Len(bytes) \in 1..len,
         \/ at = "read" /\ held = asked.space /\ \A k \in 1..Len(bytes) : addr + k - 1 \notin Around
         \/ at = "readEEPROM" /\ held = asked.eeprom /\ (Len(bytes) # len => Z' = addr + Len(bytes)),
         \A k \in 1..Len(bytes) : bytes[k] = held[addr + k - 1],
         DwReceive(bytes), Z' \in Nat
  PROVE  IInv'
<1>1. PICK k \in 0..Len(bytes) :
        /\ Take([m \in 1..Len(bytes) |-> IF m <= k THEN bytes[m] ELSE Junk])
        /\ missed' = missed \union (addr + k..addr + Len(bytes) - 1)
  BY DEF DwReceive
<1> DEFINE n    == Len(bytes)
           came == [m \in 1..n |-> IF m <= k THEN bytes[m] ELSE Junk]
<1>2. /\ n \in Nat /\ n \in 1..len /\ k \in Nat /\ k <= n /\ addr \in Nat /\ missed \in SUBSET Nat
      /\ \A m \in 1..n : bytes[m] \in Int
  <2>1. n \in Nat /\ n \in 1..len /\ k \in Nat /\ k <= n
    BY LenProperties
  <2>2. addr \in Nat /\ missed \in SUBSET Nat
    BY DEF IInv, Typed
  <2>3. \A m \in 1..n : bytes[m] \in Int
    BY <2>1, ElementOfSeq
  <2>4. QED BY <2>1, <2>2, <2>3
<1>3. came \in Seq(Int) /\ Len(came) = n
  BY <1>2 DEF Junk
<1>4. \A m \in 1..n : addr + m - 1 \notin missed' => came[m] = held[addr + m - 1]
  <2> SUFFICES ASSUME NEW m \in 1..n, addr + m - 1 \notin missed' PROVE came[m] = held[addr + m - 1]
    OBVIOUS
  <2>1. m <= k
    BY <1>1, <1>2
  <2>2. QED BY <2>1
<1>5. missed \subseteq missed' /\ missed' \in SUBSET Nat
  <2>1. addr + k..addr + n - 1 \in SUBSET Nat
    BY <1>2
  <2>2. missed' = missed \union (addr + k..addr + n - 1)
    BY <1>1
  <2>3. QED BY <1>2, <2>1, <2>2
<1>6. ASSUME NEW a \in missed' \ missed PROVE a \in addr..addr + n - 1 /\ (at = "read" => a \notin Around)
  <2>1. a \in addr + k..addr + n - 1
    BY <1>1
  <2>2. a \in addr..addr + n - 1 /\ a - addr + 1 \in 1..n /\ addr + (a - addr + 1) - 1 = a
    BY <1>2, <2>1
  <2>3. QED BY <2>2
<1>7. Take(came)
  BY <1>1
<1> HIDE DEF came
<1>8. QED BY <1>3, <1>4, <1>5, <1>6, <1>7, TakeKept

(* While a range is read the data space is what it was. *)
LEMMA ReadingSpace ==
  ASSUME AddressAssumption, IInv, at = "read"
  PROVE  /\ First <= addr /\ len > 0 /\ addr + len <= DataLimit /\ addr \in Nat /\ len \in Nat
         /\ \A a \in Cell : Space[a] = asked.space[a]
<1>1. asked.kind \in {"data", "stack"} /\ len > 0 /\ addr + len = asked.addr + asked.len /\ asked.addr <= addr
  BY DEF IInv, Progress, Loops
<1>2. First <= asked.addr /\ asked.addr + asked.len <= DataLimit
  BY <1>1 DEF IInv, InRange
<1>3. addr \in Nat /\ len \in Nat /\ asked.addr \in Nat /\ First \in Nat
  BY Bounds DEF IInv, Typed
<1>4. First <= addr /\ addr + len <= DataLimit
  BY <1>1, <1>2, <1>3
<1>5. \A a \in Cell : Space[a] = asked.space[a]
  BY <1>1 DEF IInv, Prefix
<1>6. QED BY <1>1, <1>3, <1>4, <1>5

(* A part that is read from the target itself. *)
LEMMA UnsafeKept ==
  ASSUME AddressAssumption, IInv, at = "read", NEW n \in 1..len, DwUnsafeReadAddr(n),
         \A k \in 1..n : addr + k - 1 \notin Around
  PROVE  IInv'
<1> DEFINE bytes == [k \in 1..n |-> Raw(addr + k - 1)]
<1>1. /\ First <= addr /\ len > 0 /\ addr + len <= DataLimit /\ addr \in Nat /\ len \in Nat
      /\ \A a \in Cell : Space[a] = asked.space[a]
  BY ReadingSpace
<1>2. n \in Nat
  BY <1>1
<1>3. \A k \in 1..n : addr + k - 1 \in Cell
  BY <1>1, <1>2, Bounds DEF Cell
<1>4. \A k \in 1..n : Raw(addr + k - 1) = mem[addr + k - 1]
  BY DEF Raw, Around
<1>5. \A k \in 1..n : mem[addr + k - 1] \in Int /\ mem[addr + k - 1] = asked.space[addr + k - 1]
  BY <1>1, <1>3, SpaceIs DEF IInv, Typed, Around
<1>6. /\ bytes \in Seq(Int) /\ Len(bytes) = n
      /\ \A k \in 1..n : bytes[k] = asked.space[addr + k - 1]
  BY <1>2, <1>4, <1>5
<1>7. DwReceive(bytes) /\ Z' = addr + n
  BY DEF DwUnsafeReadAddr
<1> HIDE DEF bytes
<1>8. QED BY <1>1, <1>2, <1>6, <1>7, ReceiveKept

(* DwReadAddr: each of the parts that are read from the target, below the  *)
(* cached registers, between them and DWDR, and beyond, is of the right    *)
(* bytes.                                                                  *)
LEMMA ReadsKept ==
  ASSUME AddressAssumption, IInv, ReadLow \/ ReadToDWDR \/ ReadBeyond PROVE IInv'
<1>1. /\ First <= addr /\ len > 0 /\ addr + len <= DataLimit /\ addr \in Nat /\ len \in Nat
  BY ReadingSpace DEF ReadLow, ReadToDWDR, ReadBeyond
<1>2. CASE ReadLow
  <2>1. Lesser(len, 28 - addr) \in 1..len /\ Lesser(len, 28 - addr) <= 28 - addr
    BY <1>1, <1>2 DEF Lesser, ReadLow
  <2>2. \A k \in 1..Lesser(len, 28 - addr) : addr + k - 1 \notin Around
    BY <1>1, <2>1, Bounds DEF Around, Cached
  <2>3. QED BY <1>2, <2>1, <2>2, UnsafeKept DEF ReadLow
<1>3. CASE ReadToDWDR
  <2>1. Lesser(len, DWDRaddr - addr) \in 1..len /\ Lesser(len, DWDRaddr - addr) <= DWDRaddr - addr
    BY <1>1, <1>3, Bounds DEF Lesser, ReadToDWDR
  <2>2. \A k \in 1..Lesser(len, DWDRaddr - addr) : addr + k - 1 \notin Around
    BY <1>1, <1>3, <2>1, Bounds DEF Around, Cached, ReadToDWDR
  <2>3. QED BY <1>3, <2>1, <2>2, UnsafeKept DEF ReadToDWDR
<1>4. CASE ReadBeyond
  <2>1. Lesser(len, Chunk) \in 1..len
    BY <1>1, Bounds DEF Lesser
  <2>2. \A k \in 1..Lesser(len, Chunk) : addr + k - 1 \notin Around
    BY <1>1, <1>4, <2>1, Bounds DEF Around, Cached, ReadBeyond
  <2>3. QED BY <1>4, <2>1, <2>2, UnsafeKept DEF ReadBeyond
<1>5. QED BY <1>2, <1>3, <1>4

(* A part of one byte that dwdebug has itself. *)
LEMMA OwnKept ==
  ASSUME AddressAssumption, IInv, ReadCached \/ ReadDWDR PROVE IInv'
<1>1. PICK b : Take(<<b>>) /\ b = Space[addr] /\ addr \in Cell /\ at = "read" /\ Z' = Z /\ missed' = missed
  <2>1. R \in [Cached -> Int] /\ mem \in [Cell -> Int]
    BY DEF IInv, Typed
  <2>2. /\ \A a \in Cached : Space[a] = R[a] /\ a \in Cell
        /\ Space[DWDRaddr] = 0 /\ DWDRaddr \in Cell
    BY <2>1, SpaceIs, Bounds DEF Cell
  <2>3. QED BY <2>2 DEF ReadCached, ReadDWDR
<1>2. /\ len > 0 /\ len \in Nat /\ addr \in Nat
      /\ \A a \in Cell : Space[a] = asked.space[a]
  BY <1>1, ReadingSpace
<1>3. b \in Int /\ b = asked.space[addr]
  BY <1>1, <1>2 DEF IInv, Typed
<1>4. <<b>> \in Seq(Int) /\ Len(<<b>>) = 1 /\ <<b>>[1] = b
  BY <1>3
<1>5. \A k \in 1..Len(<<b>>) : <<b>>[k] = asked.space[addr + k - 1]
  <2>1. addr + 1 - 1 = addr
    BY <1>2
  <2>2. QED BY <1>3, <1>4, <2>1
<1>6. Len(<<b>>) \in 1..len /\ Z' \in Nat
  BY <1>1, <1>2, <1>4 DEF IInv, Typed
<1>7. missed' \in SUBSET Nat
  BY <1>1 DEF IInv, Typed
<1>8. QED BY <1>1, <1>4, <1>5, <1>6, <1>7, TakeKept

(* A number below the modulus is its own remainder. *)
LEMMA ModSmall == ASSUME NEW n \in Nat \ {0}, NEW x \in Nat, x < n PROVE x % n = x
OBVIOUS

(* Five bytes, or what is left. *)
LEMMA ReadEEPROMKept == ASSUME AddressAssumption, IInv, ReadEEPROM PROVE IInv'
<1> DEFINE n == Lesser(5, len)
           bytes == SubSeq(Cells(Z), 1, n)
<1>1. /\ at = "readEEPROM" /\ DwReceive(bytes) /\ Z' = Z + 5
  BY DEF ReadEEPROM, Next5
<1>2. /\ Z = addr /\ addr \in Nat /\ len \in Nat /\ len > 0
      /\ addr + len <= EepromSize /\ EepromSize \in Nat \ {0}
  <2>1. asked.kind = "eeprom" /\ addr + len = asked.addr + asked.len
    BY <1>1 DEF IInv, Progress, Loops
  <2>2. QED BY <1>1, <2>1, Bounds DEF IInv, InRange, Reading, Typed, Progress, Loops
<1>3. n \in 1..len /\ n \in 1..5 /\ (n # len => n = 5)
  BY <1>2 DEF Lesser
<1>4. ASSUME NEW k \in 1..n
      PROVE  Cells(Z)[k] = eeprom[addr + k - 1] /\ eeprom[addr + k - 1] \in Int
             /\ eeprom[addr + k - 1] = asked.eeprom[addr + k - 1]
  <2>1. k \in 1..5 /\ Z + k - 1 \in Nat /\ Z + k - 1 < EepromSize /\ Z + k - 1 = addr + k - 1
    BY <1>2, <1>3
  <2>2. (Z + k - 1) % EepromSize = Z + k - 1
    BY <1>2, <2>1, ModSmall
  <2>3. Cells(Z)[k] = eeprom[(Z + k - 1) % EepromSize]
    BY <2>1 DEF Cells
  <2>4. addr + k - 1 \in 0..EepromSize - 1
    BY <1>2, <2>1
  <2>5. asked.kind # "writeEEPROM"
    BY <1>1 DEF IInv, Progress
  <2>6. eeprom[addr + k - 1] = asked.eeprom[addr + k - 1]
    BY <2>4, <2>5 DEF IInv, Prefix
  <2>7. eeprom \in [0..EepromSize - 1 -> Int]
    BY DEF IInv, Typed
  <2>8. QED BY <2>1, <2>2, <2>3, <2>4, <2>6, <2>7
<1>5. /\ bytes \in Seq(Int) /\ Len(bytes) = n
      /\ \A k \in 1..n : bytes[k] = Cells(Z)[k]
  <2>1. \A k \in 1..n : Cells(Z)[k] \in Int
    BY <1>4
  <2>2. n \in Int /\ 1 \in Int /\ 1 <= n
    BY <1>2, <1>3
  <2> HIDE DEF n
  <2>3. /\ SubSeq(Cells(Z), 1, n) \in Seq(Int)
        /\ Len(SubSeq(Cells(Z), 1, n)) = IF 1 <= n THEN n - 1 + 1 ELSE 0
        /\ \A k \in 1..n - 1 + 1 : SubSeq(Cells(Z), 1, n)[k] = Cells(Z)[1 + k - 1]
    BY <2>1, <2>2, SubSeqProperties
  <2>4. \A k \in 1..n : 1 + k - 1 = k
    BY <2>2
  <2>5. n - 1 + 1 = n
    BY <2>2
  <2>6. QED BY <2>2, <2>3, <2>4, <2>5
<1> HIDE DEF n, bytes
<1>6. \A k \in 1..Len(bytes) : bytes[k] = asked.eeprom[addr + k - 1]
  BY <1>4, <1>5
<1>7. Len(bytes) \in 1..len
  BY <1>3, <1>5
<1>8. bytes \in Seq(Int)
  BY <1>5
<1>9. Z' \in Nat /\ (Len(bytes) # len => Z' = addr + Len(bytes))
  BY <1>1, <1>2, <1>3, <1>5
<1>10. QED BY <1>1, <1>6, <1>7, <1>8, <1>9, ReceiveKept
-----------------------------------------------------------------------------
(* One place further in the range is one place further in its bytes. *)
LEMMA Shift ==
  ASSUME NEW a \in Int, NEW b \in Int, NEW k \in Int PROVE a - b + (k + 1) = a + 1 - b + k
OBVIOUS

(* What is next in the bytes left to write is next in those handed over.   *)
LEMMA NextByte ==
  ASSUME asked' = asked, addr' = addr + 1, addr \in Int, asked.addr \in Int, NEW k \in Int,
         data'[k] = asked.data[addr + 1 - asked.addr + k]
  PROVE  data'[k] = asked'.data[addr' - asked'.addr + k]
<1>1. addr' - asked'.addr + k = addr + 1 - asked.addr + k
  OBVIOUS
<1>2. QED BY <1>1

(* A byte is written, and what is left to write is one byte less.          *)
LEMMA WrittenKept ==
  ASSUME AddressAssumption, IInv, at \in {"write", "writeEEPROM"}, Written,
         Z' \in Nat, at = "writeEEPROM" \/ mode' # "off" => Z' = addr + 1,
         mode' \in {"write", "unset", "off"}, mode' # "write" => mode # "write" \/ at # "write" \/ addr \in Around,
         \/ missed' = missed
         \/ missed' = missed \union {addr} /\ at = "write" /\ mode = "off" /\ addr \notin Around,
         R' \in [Cached -> Int], mem' \in [Cell -> Int], eeprom' \in [0..EepromSize - 1 -> Int],
         \A a \in Cell : Space'[a] =
           IF at = "write" /\ a = addr /\ a # DWDRaddr /\ a \notin missed' THEN Head(data) ELSE Space[a],
         \A a \in 0..EepromSize - 1 : eeprom'[a] =
           IF at = "writeEEPROM" /\ a = addr THEN Head(data) ELSE eeprom[a]
  PROVE  IInv'
<1>1. /\ addr' = addr + 1 /\ len' = len - 1 /\ data' = Tail(data)
      /\ at' = IF len = 1 THEN "done" ELSE at
      /\ UNCHANGED <<buf, asked, count>>
  BY DEF Written
<1>2. Typed /\ Progress /\ Prefix
  BY DEF IInv
<1>3. /\ addr \in Nat /\ len \in Nat \ {0} /\ asked.addr \in Nat /\ asked.addr <= addr
      /\ addr + len = asked.addr + asked.len /\ asked.kind = at
  BY <1>2 DEF Typed, Progress, Loops
<1>4. /\ Len(data) = len /\ Len(asked.data) = asked.len
      /\ \A k \in 1..len : data[k] = asked.data[addr - asked.addr + k]
  BY DEF IInv, Writing
<1>5. /\ data' \in Seq(Int) /\ Len(data') = len - 1
      /\ \A k \in 1..len - 1 : data'[k] = data[k + 1]
      /\ Head(data) = data[1]
  <2>1. data \in Seq(Int) /\ data # <<>>
    BY <1>2, <1>3, <1>4, EmptySeq DEF Typed
  <2>2. /\ Tail(data) \in Seq(Int) /\ Len(Tail(data)) = Len(data) - 1
        /\ \A k \in 1..Len(Tail(data)) : Tail(data)[k] = data[k + 1]
    BY <2>1, HeadTailProperties
  <2>3. Head(data) = data[1]
    BY <2>1
  <2>4. QED BY <1>1, <1>4, <2>2, <2>3
<1>6. Typed'
  <2>1. addr' \in Nat /\ len' \in Nat /\ Z' \in Nat
    BY <1>1, <1>3
  <2>2. at' \in {"idle", "done"} \union Loops
    BY <1>1, <1>2 DEF Typed
  <2>3. data' \in Seq(Int)
    BY <1>5
  <2>4. missed' \in SUBSET Nat
    BY <1>2, <1>3 DEF Typed
  <2>5. QED BY <1>1, <1>2, <2>1, <2>2, <2>3, <2>4 DEF Typed
<1>7. Progress'
  <2>1. addr' + len' = addr + len /\ addr <= addr' /\ (len = 1 => addr' = addr + len) /\ (len # 1 => len' > 0)
        /\ asked.addr <= addr'
    BY <1>1, <1>3
  <2>2. CASE len = 1
    <3>1. at' = "done" /\ addr' = asked.addr + asked.len
      BY <1>1, <1>3, <2>1, <2>2
    <3>2. QED BY <1>1, <2>1, <3>1 DEF Progress, Loops
  <2>3. CASE len # 1
    <3>1. at' = at /\ addr' + len' = asked.addr + asked.len /\ len' > 0
      BY <1>1, <1>3, <2>1, <2>3
    <3>2. QED BY <1>1, <1>2, <2>1, <3>1 DEF Progress
  <2>4. QED BY <2>2, <2>3
<1>8. InRange'
  BY <1>1 DEF IInv, InRange
<1>9. Reading'
  <2>1. asked'.kind \in {"write", "writeEEPROM"} /\ at' # "readEEPROM"
    BY <1>1, <1>3
  <2>2. QED BY <2>1 DEF Reading
<1>10. Writing'
  <2>1. \A k \in 1..len - 1 : data'[k] = asked.data[addr + 1 - asked.addr + k]
    <3> TAKE k \in 1..len - 1
    <3>1. k + 1 \in 1..len
      <4>1. len \in Nat
        BY <1>3
      <4>2. QED BY <4>1
    <3>2. addr - asked.addr + (k + 1) = addr + 1 - asked.addr + k
      <4>1. addr \in Int /\ asked.addr \in Int /\ k \in Int
        BY <1>3
      <4>2. QED BY <4>1, Shift
    <3>3. data[k + 1] = asked.data[addr - asked.addr + (k + 1)]
      BY <1>4, <3>1
    <3>4. data'[k] = data[k + 1]
      BY <1>5
    <3>5. QED BY <3>2, <3>3, <3>4
  <2>2. /\ len' = len - 1 /\ addr' = addr + 1 /\ asked'.addr = asked.addr /\ asked'.data = asked.data
        /\ asked'.len = asked.len
    BY <1>1
  <2>3. Len(data') = len' /\ Len(asked'.data) = asked'.len
    BY <1>4, <1>5, <2>2
  <2>6. at' = "writeEEPROM" \/ mode' # "off" => Z' = addr'
    BY <1>1, <2>2
  <2>4. \A k \in 1..len' : data'[k] = asked'.data[addr' - asked'.addr + k]
    <3>1. asked' = asked /\ addr' = addr + 1 /\ len' = len - 1
      BY <1>1
    <3> TAKE k \in 1..len'
    <3>2. k \in 1..len - 1
      BY <3>1
    <3>3. data'[k] = asked.data[addr + 1 - asked.addr + k]
      BY <2>1, <3>2
    <3>4. addr \in Int /\ asked.addr \in Int /\ k \in Int
      BY <1>3, <3>2
    <3>5. QED BY <3>1, <3>3, <3>4, NextByte
  <2>5. QED BY <2>3, <2>4, <2>6 DEF Writing
<1>11. Prefix'
  <2>1. Head(data) = asked.data[addr - asked.addr + 1]
    BY <1>3, <1>4, <1>5
  <2>2. addr \notin Upto /\ \A a \in Int : a \in Upto' <=> a \in Upto \/ a = addr
    BY <1>1, <1>3 DEF Upto
  <2>3. \A a \in Cell : a \in Int
    BY Bounds DEF Cell
  <2>4. \A a \in Cell :
          Space'[a] = IF asked.kind = "write" /\ a \in Upto' \ missed' /\ a # DWDRaddr
                      THEN asked.data[a - asked.addr + 1] ELSE asked.space[a]
    <3> TAKE a \in Cell
    <3>1. Space[a] = IF asked.kind = "write" /\ a \in Upto \ missed /\ a # DWDRaddr
                     THEN asked.data[a - asked.addr + 1] ELSE asked.space[a]
      BY <1>2 DEF Prefix
    <3>2. Space'[a] = IF at = "write" /\ a = addr /\ a # DWDRaddr /\ a \notin missed' THEN Head(data) ELSE Space[a]
      OBVIOUS
    <3>3. a \in Upto' <=> a \in Upto \/ a = addr
      BY <2>2, <2>3
    <3>4. CASE a = addr
      BY <1>3, <2>1, <2>2, <3>1, <3>2, <3>3, <3>4
    <3>5. CASE a # addr
      <4>1. a \in missed' <=> a \in missed
        BY <3>5
      <4>2. QED BY <1>3, <3>1, <3>2, <3>3, <3>5, <4>1
    <3>6. QED BY <3>4, <3>5
  <2>5. \A a \in 0..EepromSize - 1 :
          eeprom'[a] = IF asked.kind = "writeEEPROM" /\ a \in Upto'
                       THEN asked.data[a - asked.addr + 1] ELSE asked.eeprom[a]
    <3> TAKE a \in 0..EepromSize - 1
    <3>1. eeprom[a] = IF asked.kind = "writeEEPROM" /\ a \in Upto
                      THEN asked.data[a - asked.addr + 1] ELSE asked.eeprom[a]
      BY <1>2 DEF Prefix
    <3>2. eeprom'[a] = IF at = "writeEEPROM" /\ a = addr THEN Head(data) ELSE eeprom[a]
      OBVIOUS
    <3>3. a \in Upto' <=> a \in Upto \/ a = addr
      BY <2>2, Bounds
    <3>4. QED BY <1>3, <2>1, <2>2, <3>1, <3>2, <3>3
  <2>6. QED BY <1>1, <2>4, <2>5 DEF Prefix
<1>12. Missing'
  <2>1. Missing /\ MissedThere
    BY DEF IInv, Missing
  <2>2. \A a \in missed : a \in asked.addr..addr - 1
    BY <2>1 DEF MissedThere, Upto
  <2>3. \A b \in asked.addr..addr - 1 : b \in asked.addr..addr' - 1 /\ (b \in Nat => b # addr)
    BY <1>1, <1>3
  <2>4. addr \in asked.addr..addr' - 1
    BY <1>1, <1>3
  <2>5. ASSUME NEW a \in missed'
        PROVE  /\ a \in Upto'
               /\ asked.kind = "write" => a \notin Around /\ \E b \in Around : b \in asked.addr..a - 1
               /\ asked.kind # "writeEEPROM"
    <3>1. CASE a \in missed
      <4>1. a \in Upto'
        BY <1>1, <2>2, <2>3, <3>1 DEF Upto
      <4>2. asked.kind = "write" => a \notin Around /\ \E b \in Around : b \in asked.addr..a - 1
        BY <2>1, <3>1 DEF MissedThere
      <4>3. asked.kind # "writeEEPROM"
        BY <2>1, <3>1 DEF MissedThere
      <4>4. QED BY <4>1, <4>2, <4>3
    <3>2. CASE a \notin missed
      <4>1. a = addr /\ at = "write" /\ mode = "off" /\ addr \notin Around
        BY <3>2
      <4>2. asked.kind = "write" /\ \E b \in Around : b \in asked.addr..addr - 1
        BY <1>3, <2>1, <4>1 DEF Missing
      <4>3. QED BY <1>1, <2>4, <4>1, <4>2 DEF Upto
    <3>3. QED BY <3>1, <3>2
  <2>6. asked.kind \in {"write", "writeEEPROM"}
    BY <1>3
  <2>7. MissedThere'
    BY <1>1, <2>5, <2>6 DEF MissedThere, Around
  <2>8. ASSUME asked.kind = "write", mode' # "write" PROVE \E b \in Around : b \in asked.addr..addr' - 1
    <3>1. CASE mode # "write"
      BY <2>1, <2>3, <2>8, <3>1 DEF Missing
    <3>2. CASE mode = "write"
      <4>1. addr \in Around
        BY <1>3, <2>8, <3>2
      <4>2. QED BY <2>4, <4>1
    <3>3. QED BY <3>1, <3>2
  <2>9. QED BY <1>1, <2>7, <2>8 DEF Missing, Around
<1>13. QED BY <1>6, <1>7, <1>8, <1>9, <1>10, <1>11, <1>12 DEF IInv

(* DwWriteAddr: a byte that is written to the target goes to the cell of   *)
(* its turn.                                                               *)
LEMMA WriteCellKept == ASSUME AddressAssumption, IInv, WriteCell PROVE IInv'
<1>1. /\ at = "write" /\ addr \notin Around /\ Written /\ UNCHANGED <<R, eeprom, mode>>
      /\ IF mode = "off"
         THEN UNCHANGED <<mem, Z>> /\ missed' = missed \union {addr}
         ELSE mem' = [mem EXCEPT ![Z] = Head(data)] /\ Z' = Z + 1 /\ UNCHANGED missed
  BY DEF WriteCell
<1>2. (mode # "off" => Z = addr) /\ addr \in Nat /\ Z \in Nat /\ mode \in {"write", "unset", "off"}
  BY <1>1 DEF IInv, Writing, Typed
<1>3. Head(data) \in Int
  <2>1. data \in Seq(Int) /\ data # <<>>
    BY <1>1, EmptySeq DEF IInv, Typed, Writing, Progress, Loops
  <2>2. QED BY <2>1, HeadTailProperties
<1>4. R \in [Cached -> Int] /\ mem \in [Cell -> Int] /\ eeprom \in [0..EepromSize - 1 -> Int]
  BY DEF IInv, Typed
<1>5. addr \notin missed
  BY <1>2 DEF IInv, Missing, MissedThere, Upto
<1>6. /\ mem' \in [Cell -> Int]
      /\ \A a \in Cell : mem'[a] = IF a = addr /\ a \notin missed' THEN Head(data) ELSE mem[a]
  <2>1. CASE mode = "off"
    BY <1>1, <1>4, <2>1
  <2>2. CASE mode # "off"
    BY <1>1, <1>2, <1>3, <1>4, <1>5, <2>2
  <2>3. QED BY <2>1, <2>2
<1>7. \A a \in Cell : Space[a] = IF a \in Cached THEN R[a] ELSE IF a = DWDRaddr THEN 0 ELSE mem[a]
  BY DEF Space
<1>8. \A a \in Cell : Space'[a] = IF a \in Cached THEN R[a] ELSE IF a = DWDRaddr THEN 0 ELSE mem'[a]
  BY <1>1 DEF Space
<1>9. \A a \in Cell : Space'[a] =
        IF at = "write" /\ a = addr /\ a # DWDRaddr /\ a \notin missed' THEN Head(data) ELSE Space[a]
  BY <1>1, <1>6, <1>7, <1>8 DEF Around
<1>10. \A a \in 0..EepromSize - 1 : eeprom'[a] =
        IF at = "writeEEPROM" /\ a = addr THEN Head(data) ELSE eeprom[a]
  BY <1>1
<1>11. R' \in [Cached -> Int] /\ eeprom' \in [0..EepromSize - 1 -> Int]
  BY <1>1, <1>4
<1>12. /\ Z' \in Nat /\ (mode' # "off" => Z' = addr + 1)
       /\ mode' \in {"write", "unset", "off"} /\ mode' = mode
       /\ missed' = missed \/ (missed' = missed \union {addr} /\ mode = "off")
  <2>1. CASE mode = "off"
    BY <1>1, <1>2, <2>1
  <2>2. CASE mode # "off"
    <3>1. mode' = mode /\ missed' = missed /\ Z' = Z + 1 /\ Z = addr
      BY <1>1, <1>2, <2>2
    <3>2. Z' \in Nat /\ Z' = addr + 1
      BY <1>2, <3>1
    <3>3. QED BY <1>2, <3>1, <3>2
  <2>3. QED BY <2>1, <2>2
<1>13. QED BY <1>1, <1>2, <1>6, <1>9, <1>10, <1>11, <1>12, WrittenKept

(* DwWriteAddr: a byte for a cached register goes to the cache, one for    *)
(* DWDR goes nowhere.                                                      *)
LEMMA WriteCachedKept == ASSUME AddressAssumption, IInv, WriteCached PROVE IInv'
<1>1. /\ at = "write" /\ addr \in Around /\ Written
      /\ R' = IF addr \in Cached THEN [R EXCEPT ![addr] = Head(data)] ELSE R
      /\ Z' = addr + 1 /\ UNCHANGED <<mem, eeprom, missed>>
      /\ mode' \in {"write", "unset", "off"}
  BY DEF WriteCached, WriteAround
<1>2. Head(data) \in Int
  <2>1. data \in Seq(Int) /\ data # <<>>
    BY <1>1, EmptySeq DEF IInv, Typed, Writing, Progress, Loops
  <2>2. QED BY <2>1, HeadTailProperties
<1>3. R \in [Cached -> Int] /\ mem \in [Cell -> Int] /\ eeprom \in [0..EepromSize - 1 -> Int]
  BY DEF IInv, Typed
<1>4. R' \in [Cached -> Int] /\ \A a \in Cached : R'[a] = IF a = addr THEN Head(data) ELSE R[a]
  BY <1>1, <1>2, <1>3
<1>5. \A a \in Cell : Space[a] = IF a \in Cached THEN R[a] ELSE IF a = DWDRaddr THEN 0 ELSE mem[a]
  BY DEF Space
<1>6. \A a \in Cell : Space'[a] = IF a \in Cached THEN R'[a] ELSE IF a = DWDRaddr THEN 0 ELSE mem[a]
  BY <1>1 DEF Space
<1>7. DWDRaddr \notin Cached
  BY Bounds
<1>12. addr \notin missed /\ addr \in Nat
  BY DEF IInv, Missing, MissedThere, Upto, Typed
<1>8. \A a \in Cell : Space'[a] =
        IF at = "write" /\ a = addr /\ a # DWDRaddr /\ a \notin missed' THEN Head(data) ELSE Space[a]
  BY <1>1, <1>4, <1>5, <1>6, <1>7, <1>12 DEF Around
<1>9. \A a \in 0..EepromSize - 1 : eeprom'[a] =
        IF at = "writeEEPROM" /\ a = addr THEN Head(data) ELSE eeprom[a]
  BY <1>1
<1>10. mem' \in [Cell -> Int] /\ eeprom' \in [0..EepromSize - 1 -> Int]
  BY <1>1, <1>3
<1>13. Z' \in Nat
  BY <1>1, <1>12
<1>11. QED BY <1>1, <1>4, <1>8, <1>9, <1>10, <1>13, WrittenKept

(* DwWriteEEPROM: a byte goes to the cell of its turn. *)
LEMMA WriteEEPROMKept == ASSUME AddressAssumption, IInv, WriteEEPROM PROVE IInv'
<1>1. /\ at = "writeEEPROM" /\ eeprom' = [eeprom EXCEPT ![Z] = Head(data)] /\ Z' = Z + 1
      /\ Written /\ UNCHANGED <<R, mem, mode, missed>>
  BY DEF WriteEEPROM
<1>2. Z = addr /\ Z \in Nat /\ mode \in {"write", "unset", "off"}
  BY <1>1 DEF IInv, Writing, Typed
<1>3. Head(data) \in Int
  <2>1. data \in Seq(Int) /\ data # <<>>
    BY <1>1, EmptySeq DEF IInv, Typed, Writing, Progress, Loops
  <2>2. QED BY <2>1, HeadTailProperties
<1>4. R \in [Cached -> Int] /\ mem \in [Cell -> Int] /\ eeprom \in [0..EepromSize - 1 -> Int]
  BY DEF IInv, Typed
<1>5. /\ eeprom' \in [0..EepromSize - 1 -> Int]
      /\ \A a \in 0..EepromSize - 1 : eeprom'[a] = IF a = addr THEN Head(data) ELSE eeprom[a]
  BY <1>1, <1>2, <1>3, <1>4
<1>6. Space' = Space
  BY <1>1, SpaceSame
<1>7. R' \in [Cached -> Int] /\ mem' \in [Cell -> Int] /\ Z' = addr + 1 /\ Z' \in Nat
  BY <1>1, <1>2, <1>4
<1>8. QED BY <1>1, <1>2, <1>5, <1>6, <1>7, WrittenKept

(* Every step keeps the invariant. *)
LEMMA MemoryKept == ASSUME AddressAssumption, IInv, [Next]_vars PROVE IInv'
<1>1. CASE DumpDataBytesCommand \/ WriteDataBytesCommand \/ DumpEEPROMBytesCommand \/ WriteEEPROMBytesCommand
  BY <1>1, CommandsKept
<1>2. CASE StackCommand
  BY <1>2, StackKept
<1>3. CASE ReadLow \/ ReadToDWDR \/ ReadBeyond
  BY <1>3, ReadsKept
<1>4. CASE ReadCached \/ ReadDWDR
  BY <1>4, OwnKept
<1>5. CASE WriteCell
  BY <1>5, WriteCellKept
<1>6. CASE WriteCached
  BY <1>6, WriteCachedKept
<1>7. CASE ReadEEPROM
  BY <1>7, ReadEEPROMKept
<1>8. CASE WriteEEPROM
  BY <1>8, WriteEEPROMKept
<1>10. CASE UNCHANGED vars
  <2>1. UNCHANGED <<at, addr, len, data, buf, R, mem, eeprom, Z, mode, asked, missed, count>>
    BY <1>10 DEF vars
  <2>2. Space' = Space
    BY <2>1, SpaceSame
  <2>3. Typed'
    BY <2>1 DEF IInv, Typed
  <2>4. Progress' /\ InRange' /\ Reading' /\ Writing'
    BY <2>1 DEF IInv, Progress, InRange, Reading, Shows, Writing, Loops
  <2>5. Prefix' /\ Missing'
    BY <2>1, <2>2 DEF IInv, Prefix, Missing, MissedThere, Around, Upto
  <2>6. QED BY <2>3, <2>4, <2>5 DEF IInv
<1>11. QED BY <1>1, <1>2, <1>3, <1>4, <1>5, <1>6, <1>7, <1>8, <1>10 DEF Next
-----------------------------------------------------------------------------
(* Bytes that are those of a range are so in the places of its cells.      *)
LEMMA ShownAll ==
  ASSUME AddressAssumption, IInv, at = "done", NEW held, Shows(buf, held)
  PROVE  Len(buf) = asked.len /\ \A a \in Ranged \ missed : buf[a - asked.addr + 1] = held[a]
<1>1. addr = asked.addr + asked.len /\ asked.addr \in Nat /\ asked.len \in Nat
  BY DEF IInv, Progress, Typed
<1>2. Len(buf) = asked.len
  BY <1>1 DEF Shows
<1>3. ASSUME NEW a \in Ranged \ missed PROVE buf[a - asked.addr + 1] = held[a]
  <2>1. a - asked.addr + 1 \in 1..Len(buf) /\ asked.addr + (a - asked.addr + 1) - 1 = a
    BY <1>1, <1>2 DEF Ranged
  <2>2. asked.addr + (a - asked.addr + 1) - 1 \notin missed
    BY <2>1
  <2>3. buf[a - asked.addr + 1] = held[asked.addr + (a - asked.addr + 1) - 1]
    BY <2>1, <2>2 DEF Shows
  <2>4. QED BY <2>1, <2>3
<1>4. QED BY <1>2, <1>3

(* The invariant implies what the runs check. *)
LEMMA MemoryPromise == ASSUME AddressAssumption, IInv PROVE MemoryTransfers
<1>1. TypeOK
  <2>1. at \in Loops => addr \in Ranged /\ addr + len = asked.addr + asked.len
    BY DEF IInv, Progress, Typed, Ranged
  <2>2. at \in {"idle", "done", "read", "write", "readEEPROM", "writeEEPROM"}
    BY DEF IInv, Typed, Loops
  <2>3. DOMAIN mem = Cell /\ DOMAIN R = Cached /\ DOMAIN eeprom = 0..EepromSize - 1
    BY DEF IInv, Typed
  <2>4. QED BY <2>1, <2>2, <2>3 DEF TypeOK, Loops
<1>2. ReadsSpace
  <2>1. ASSUME at = "done", asked.kind \in {"data", "stack"}
        PROVE  Len(buf) = asked.len /\ \A a \in Ranged \ missed : buf[a - asked.addr + 1] = asked.space[a]
    <3>1. Shows(buf, asked.space)
      BY <2>1 DEF IInv, Reading
    <3>2. QED BY <2>1, <3>1, ShownAll
  <2>2. QED BY <2>1 DEF ReadsSpace
<1>3. ReadsEEPROM
  <2>1. ASSUME at = "done", asked.kind = "eeprom"
        PROVE  Len(buf) = asked.len /\ \A a \in Ranged \ missed : buf[a - asked.addr + 1] = asked.eeprom[a]
    <3>1. Shows(buf, asked.eeprom)
      BY <2>1 DEF IInv, Reading
    <3>2. QED BY <2>1, <3>1, ShownAll
  <2>2. QED BY <2>1 DEF ReadsEEPROM
<1>4. ShowsStack
  <2> SUFFICES ASSUME at = "done", asked.kind = "stack"
               PROVE  LET from == asked.data[1] + 1
                      IN /\ Len(buf) = IF from >= DataLimit THEN 0 ELSE Lesser(StackShown, DataLimit - from)
                         /\ buf # <<>> => asked.addr = from
    BY DEF ShowsStack
  <2> DEFINE from == asked.data[1] + 1
  <2>1. Len(buf) = asked.len
    BY ShownAll DEF IInv, Reading
  <2>2. asked.data[1] \in Nat /\ from \in Nat
    <3>1. asked.data[1] \in SPs
      BY DEF IInv, InRange
    <3>2. SPs \subseteq Nat
      BY DEF AddressAssumption
    <3>3. asked.data[1] \in Nat
      BY <3>1, <3>2
    <3>4. QED BY <3>3
  <2>3. asked.addr = Lesser(DataLimit, from) /\ asked.len = Lesser(DataLimit, asked.addr + StackShown) - asked.addr
    BY DEF IInv, InRange, StackFrom
  <2>4. DataLimit \in Nat /\ StackShown \in Nat \ {0}
    BY Bounds
  <2>5. buf # <<>> => Len(buf) # 0
    BY EmptySeq DEF IInv, Typed
  <2> HIDE DEF from
  <2>6. CASE from >= DataLimit
    <3>1. asked.addr = DataLimit /\ asked.len = 0
      BY <2>2, <2>3, <2>4, <2>6 DEF Lesser
    <3>2. QED BY <2>1, <2>5, <2>6, <3>1 DEF from
  <2>7. CASE ~(from >= DataLimit)
    <3>1. asked.addr = from
      BY <2>2, <2>3, <2>4, <2>7 DEF Lesser
    <3>2. asked.len = Lesser(StackShown, DataLimit - from)
      BY <2>2, <2>3, <2>4, <2>7, <3>1 DEF Lesser
    <3>3. QED BY <2>1, <2>7, <3>1, <3>2 DEF from
  <2>8. QED BY <2>6, <2>7
<1>5. WritesPrefix
  <2>1. Space = [a \in Cell |-> Space[a]]
    BY DEF Space
  <2>2. eeprom = [a \in 0..EepromSize - 1 |-> eeprom[a]]
    BY DEF IInv, Typed
  <2>3. QED BY <2>1, <2>2 DEF IInv, Prefix, WritesPrefix
<1>6. MissedThere
  BY DEF IInv, Missing
<1>7. QED BY <1>1, <1>2, <1>3, <1>4, <1>5, <1>6 DEF MemoryTransfers

-----------------------------------------------------------------------------
(***************************************************************************)
(* ProgramFile, as the instance Loader.                                    *)
(***************************************************************************)
(* The file under way, and how far the command has got with it.            *)
FileTyped ==
  /\ Loader!TypeOK
  /\ file \in LoadFiles \union {Loader!NoFile}
  /\ stage # "prompt" => file \in LoadFiles
  /\ stage = "check" => i = 1
  /\ stage = "elf" => file.kind = "elf" /\ i \in 1..Len(file.segments) + 1
  /\ stage = "binary" => file.kind = "binary"
  /\ stage = "close" => file.kind \in {"elf", "binary"}
  /\ stage = "close" /\ file.kind = "elf" => i = Len(file.segments) + 1

(* Each address that one of the segments so far has holds what the last of *)
(* them says, if nothing was read wrong.                                   *)
SoFar ==
  stage \in {"elf", "close"} /\ file.kind = "elf" /\ reads = "true" =>
    \A a \in 0..LoadFlash - 1 : \A k \in Loader!Covers(file, a) :
      k < i /\ (\A j \in Loader!Covers(file, a) : j < i => j <= k)
        => flash[a] = Loader!Content(file.segments[k], a)

(* A binary is in the flash, as much of it as there is room for, and PC is *)
(* where the file starts.                                                  *)
Whole ==
  stage = "close" =>
    /\ PC = IF file.kind = "binary" THEN 0 ELSE file.entry
    /\ file.kind = "binary" /\ reads = "true" =>
         \A a \in 0..LoadFlash - 1 : a < Len(file.data) => flash[a] = file.data[a + 1]

(* The inductive invariant.  Loaded speaks of the end only; SoFar says     *)
(* what the flash holds before each segment.                               *)
FileInv == FileTyped /\ SoFar /\ Whole /\ Loader!AllNotes

(* What the assumptions say of the constants, and of a file.               *)
LEMMA FileBounds ==
  /\ LoadFlash \in Nat /\ LoadBuffer \in Nat /\ 0 < LoadFlash /\ LoadFlash <= LoadBuffer
  /\ LoadHandles \subseteq Nat \ {0}
BY CommandsAssumption DEF Loader!FileAssumption

LEMMA AFile ==
  ASSUME NEW f \in LoadFiles
  PROVE  /\ f.kind \in {"binary", "elf", "bad header", "bad stabs"}
         /\ Len(f.data) \in Nat /\ DOMAIN f.data = 1..Len(f.data)
         /\ f.data \in Seq({f.data[k] : k \in DOMAIN f.data})
         /\ Len(f.segments) \in Nat /\ DOMAIN f.segments = 1..Len(f.segments)
         /\ \A k \in DOMAIN f.segments :
              /\ f.segments[k].paddr \in Nat /\ f.segments[k].memsize \in Nat
              /\ Len(f.segments[k].data) \in Nat
         /\ f.notes \subseteq 0..LoadBuffer - 1
<1>1. /\ f.kind \in {"binary", "elf", "bad header", "bad stabs"}
      /\ Loader!IsSequence(f.data) /\ Loader!IsSequence(f.segments)
      /\ \A k \in DOMAIN f.segments :
           /\ f.segments[k].paddr \in Nat /\ f.segments[k].memsize \in Nat
           /\ Loader!IsSequence(f.segments[k].data)
      /\ f.notes \subseteq 0..LoadBuffer - 1
  BY CommandsAssumption DEF Loader!FileAssumption
<1>2. ASSUME NEW s, Loader!IsSequence(s)
      PROVE  Len(s) \in Nat /\ DOMAIN s = 1..Len(s) /\ s \in Seq({s[k] : k \in DOMAIN s})
  <2>1. s \in Seq({s[k] : k \in DOMAIN s})
    BY <1>2, Zenon DEF Loader!IsSequence
  <2>2. QED BY <2>1, LenProperties
<1>3. Len(f.data) \in Nat /\ DOMAIN f.data = 1..Len(f.data) /\ f.data \in Seq({f.data[k] : k \in DOMAIN f.data})
  BY <1>1, <1>2, Zenon
<1>4. Len(f.segments) \in Nat /\ DOMAIN f.segments = 1..Len(f.segments)
  BY <1>1, <1>2, Zenon
<1>5. \A k \in DOMAIN f.segments :
        /\ f.segments[k].paddr \in Nat /\ f.segments[k].memsize \in Nat
        /\ Len(f.segments[k].data) \in Nat
  BY <1>1, <1>2, Zenon
<1>6. QED BY <1>1, <1>3, <1>4, <1>5

(* Natural numbers by their order; the relation is well founded.           *)
Below == {ss \in Nat \X Nat : ss[1] < ss[2]}

LEMMA BelowFounded == IsWellFoundedOn(Below, Nat)
BY NatLessThanWellFounded DEF OpToRel, Below

(* A set of natural numbers that is not empty has a least element.         *)
LEMMA Least == ASSUME NEW T \in SUBSET Nat, T # {} PROVE \E x \in T : \A y \in T : x <= y
<1>1. PICK x \in T : \A y \in T : ~(<<y, x>> \in Below)
  BY BelowFounded, WFMin, Zenon
<1>2. ASSUME NEW y \in T, y < x PROVE FALSE
  <2>1. <<y, x>> \in Nat \X Nat
    OBVIOUS
  <2>2. <<y, x>> \in Below
    BY <1>2, <2>1 DEF Below
  <2>3. QED BY <2>2, <1>1
<1>3. QED BY <1>2

(* One of the numbers up to n has a greatest.                              *)
LEMMA Greatest ==
  ASSUME NEW n \in Nat, NEW T \in SUBSET (1..n), T # {} PROVE \E x \in T : \A y \in T : y <= x
<1> DEFINE U == {k \in 0..n : n - k \in T}
<1>1. U \in SUBSET Nat /\ U # {}
  <2>1. PICK t \in T : TRUE
    OBVIOUS
  <2>2. t \in 0..n /\ n - t \in 0..n /\ n - (n - t) = t
    BY <2>1
  <2>3. n - t \in U
    BY <2>1, <2>2
  <2>4. U \in SUBSET Nat
    OBVIOUS
  <2>5. QED BY <2>3, <2>4
<1>2. PICK m \in U : \A y \in U : m <= y
  BY <1>1, Least
<1>3. n - m \in T /\ m \in 0..n
  OBVIOUS
<1>4. ASSUME NEW y \in T PROVE y <= n - m
  <2>1. y \in 0..n /\ n - y \in 0..n /\ n - (n - y) = y
    OBVIOUS
  <2>2. n - y \in U
    BY <2>1
  <2>3. QED BY <1>2, <1>3, <2>1, <2>2
<1>5. QED BY <1>3, <1>4

(* The handle that is opened is a free one.                                *)
LEMMA LowestIs ==
  ASSUME NEW S \in SUBSET LoadHandles, S # {} PROVE Loader!Lowest(S) \in S
<1>1. S \in SUBSET Nat
  BY FileBounds
<1>2. \E h \in S : \A g \in S : h <= g
  BY <1>1, Least
<1>3. QED BY <1>2 DEF Loader!Lowest

(* Closing a handle leaves the others as they are.                         *)
LEMMA ClosedIs ==
  ASSUME NEW handles \in [LoadHandles -> {"nothing", "file", "port"}], NEW h
  PROVE  Loader!Closed(handles, h) \in [LoadHandles -> {"nothing", "file", "port"}]
BY DEF Loader!Closed

(* The segment that comes next is one of the file's.                       *)
LEMMA UnderWay ==
  ASSUME FileInv, stage = "elf"
  PROVE  /\ file \in LoadFiles /\ file.kind = "elf"
         /\ i > Len(file.segments) => i = Len(file.segments) + 1
         /\ i <= Len(file.segments) =>
              /\ i \in DOMAIN file.segments
              /\ file.segments[i].paddr \in Nat /\ file.segments[i].memsize \in Nat
              /\ Len(file.segments[i].data) \in Nat
<1>1. file \in LoadFiles /\ file.kind = "elf" /\ i \in 1..Len(file.segments) + 1
  BY DEF FileInv, FileTyped
<1>2. /\ Len(file.segments) \in Nat /\ DOMAIN file.segments = 1..Len(file.segments)
      /\ \A k \in DOMAIN file.segments :
           /\ file.segments[k].paddr \in Nat /\ file.segments[k].memsize \in Nat
           /\ Len(file.segments[k].data) \in Nat
  BY <1>1, AFile
<1>3. i <= Len(file.segments) => i \in DOMAIN file.segments
  BY <1>1, <1>2
<1>4. i > Len(file.segments) => i = Len(file.segments) + 1
  BY <1>1, <1>2
<1>5. QED BY <1>1, <1>2, <1>3, <1>4

LEMMA FileStart == Loader!Init => FileInv
<1> SUFFICES ASSUME Loader!Init PROVE FileInv
  OBVIOUS
<1>1. stage = "prompt" /\ file = Loader!NoFile
  BY DEF Loader!Init
<1>2. Loader!TypeOK
  BY DEF Loader!Init, Loader!TypeOK
<1>3. QED BY <1>1, <1>2 DEF FileInv, FileTyped, SoFar, Whole, Loader!AllNotes

(* Back at the prompt only the types matter.                               *)
LEMMA AtPrompt ==
  ASSUME Loader!TypeOK', stage' = "prompt", file' \in LoadFiles \union {Loader!NoFile}
  PROVE  FileInv'
BY DEF FileInv, FileTyped, SoFar, Whole, Loader!AllNotes

(* What is between two commands, and the opening of the file.              *)
LEMMA PortKept == ASSUME FileInv, Loader!Port PROVE FileInv'
<1>1. /\ stage = "prompt" /\ UNCHANGED <<CurrentFile, stage, file, i, FlashBuffer, flash, reads, PC, notes>>
  BY DEF Loader!Port
<1>2. open' \in [LoadHandles -> {"nothing", "file", "port"}]
  BY DEF Loader!Port, FileInv, FileTyped, Loader!TypeOK
<1>3. Loader!TypeOK'
  BY <1>1, <1>2 DEF FileInv, FileTyped, Loader!TypeOK
<1>4. QED BY <1>1, <1>3, AtPrompt DEF FileInv, FileTyped

LEMMA NoNameKept == ASSUME FileInv, Loader!NoName PROVE FileInv'
<1>1. /\ stage = "prompt" /\ UNCHANGED <<stage, file, FlashBuffer, flash, reads>>
      /\ open' = Loader!Closed(open, CurrentFile) /\ CurrentFile' = 0
  BY DEF Loader!NoName
<1>2. open' \in [LoadHandles -> {"nothing", "file", "port"}]
  BY <1>1, ClosedIs DEF FileInv, FileTyped, Loader!TypeOK
<1>3. Loader!TypeOK'
  BY <1>1, <1>2 DEF FileInv, FileTyped, Loader!TypeOK
<1>4. QED BY <1>1, <1>3, AtPrompt DEF FileInv, FileTyped

LEMMA LoadFileCommandKept ==
  ASSUME FileInv, NEW f \in LoadFiles, Loader!LoadFileCommand(f) PROVE FileInv'
<1> DEFINE handles == Loader!Closed(open, CurrentFile)
           free == {h \in LoadHandles : handles[h] = "nothing"}
<1>1. /\ stage = "prompt" /\ i' = 1 /\ reads' = "true" /\ UNCHANGED <<FlashBuffer, flash, PC, notes>>
      /\ \/ /\ free # {} /\ CurrentFile' = Loader!Lowest(free)
            /\ open' = [handles EXCEPT ![Loader!Lowest(free)] = "file"]
            /\ stage' = "check" /\ file' = f
         \/ open' = handles /\ UNCHANGED <<CurrentFile, stage, file>>
  BY DEF Loader!LoadFileCommand
<1>2. handles \in [LoadHandles -> {"nothing", "file", "port"}]
  BY ClosedIs DEF FileInv, FileTyped, Loader!TypeOK
<1> HIDE DEF handles
<1>3. CASE open' = handles /\ UNCHANGED <<CurrentFile, stage, file>>
  <2>1. Loader!TypeOK'
    BY <1>1, <1>2, <1>3 DEF FileInv, FileTyped, Loader!TypeOK
  <2>2. QED BY <1>1, <1>3, <2>1, AtPrompt DEF FileInv, FileTyped
<1>4. CASE /\ free # {} /\ CurrentFile' = Loader!Lowest(free)
           /\ open' = [handles EXCEPT ![Loader!Lowest(free)] = "file"]
           /\ stage' = "check" /\ file' = f
  <2>1. Loader!Lowest(free) \in free
    BY <1>4, LowestIs
  <2>2. Loader!TypeOK'
    BY <1>1, <1>2, <1>4, <2>1 DEF FileInv, FileTyped, Loader!TypeOK
  <2>3. QED BY <1>1, <1>4, <2>2 DEF FileInv, FileTyped, SoFar, Whole, Loader!AllNotes
<1>5. QED BY <1>1, <1>3, <1>4

(* IsLoadableElf: the annotations of an ELF file are all stored.           *)
LEMMA IsLoadableElfKept == ASSUME FileInv, Loader!IsLoadableElf PROVE FileInv'
<1>1. /\ stage = "check" /\ i = 1 /\ file \in LoadFiles
      /\ file' = (IF stage' = "prompt" THEN Loader!NoFile ELSE file)
      /\ UNCHANGED <<open, i, FlashBuffer, flash, reads, PC>>
  BY DEF Loader!IsLoadableElf, FileInv, FileTyped
<1>2. /\ file.kind = "binary" => stage' = "binary" /\ UNCHANGED <<notes, CurrentFile>>
      /\ file.kind = "elf" => stage' = "elf" /\ notes' = Loader!Annotated(file) /\ UNCHANGED CurrentFile
      /\ file.kind \in {"bad header", "bad stabs"} => CurrentFile' = 0 /\ stage' = "prompt"
  BY DEF Loader!IsLoadableElf, Loader!LoadFail
<1>3. file.kind \in {"binary", "elf", "bad header", "bad stabs"} /\ Len(file.segments) \in Nat
      /\ file.notes \subseteq 0..LoadBuffer - 1
  BY <1>1, AFile
<1>4. Loader!TypeOK'
  BY <1>1, <1>2, <1>3 DEF FileInv, FileTyped, Loader!TypeOK
<1>5. CASE file.kind \in {"bad header", "bad stabs"}
  BY <1>1, <1>2, <1>4, <1>5, AtPrompt
<1>6. CASE file.kind = "binary"
  BY <1>1, <1>2, <1>4, <1>6 DEF FileInv, FileTyped, SoFar, Whole, Loader!AllNotes
<1>7. CASE file.kind = "elf"
  <2>1. stage' = "elf" /\ file' = file /\ i' = 1
    BY <1>1, <1>2, <1>7
  <2>2. FileTyped'
    BY <1>1, <1>3, <1>4, <1>7, <2>1 DEF FileTyped
  <2>3. \A a \in 0..LoadFlash - 1 : \A k \in Loader!Covers(file, a) : ~(k < 1)
    <3>1. DOMAIN file.segments = 1..Len(file.segments)
      BY <1>1, AFile
    <3>2. \A a \in 0..LoadFlash - 1 : Loader!Covers(file, a) \subseteq DOMAIN file.segments
      BY DEF Loader!Covers
    <3>3. Len(file.segments) \in Nat
      BY <1>3
    <3>4. \A k \in 1..Len(file.segments) : ~(k < 1)
      BY <3>3
    <3>5. QED BY <3>1, <3>2, <3>4
  <2>4. SoFar'
    <3>1. \A a \in 0..LoadFlash - 1 : Loader!Covers(file, a)' = Loader!Covers(file, a)
      BY <2>1 DEF Loader!Covers
    <3>2. QED BY <2>1, <2>3, <3>1 DEF SoFar
  <2>5. Whole'
    BY <2>1 DEF Whole
  <2>6. notes' = [a \in 0..LoadBuffer - 1 |-> IF a \in file.notes THEN file.name ELSE notes[a]]
    BY <1>2, <1>7 DEF Loader!Annotated
  <2>7. \A a \in file.notes : notes'[a] = file.name
    BY <1>3, <2>6
  <2>8. Loader!AllNotes'
    BY <2>1, <2>7 DEF Loader!AllNotes
  <2>9. QED BY <2>2, <2>4, <2>5, <2>8 DEF FileInv
<1>8. QED BY <1>3, <1>5, <1>6, <1>7

(* Content of an address, by its definition.                               *)
LEMMA ContentIs ==
  ASSUME NEW s, NEW a
  PROVE  Loader!Content(s, a) = IF a - s.paddr < Len(s.data) THEN s.data[a - s.paddr + 1] ELSE Loader!Zero
BY DEF Loader!Content

(* A segment that has been read in to the buffer is there, and zeros up to *)
(* its size.                                                               *)
LEMMA BufferHolds ==
  ASSUME NEW f \in LoadFiles, NEW k \in DOMAIN f.segments, Loader!Checked(f.segments[k]),
         NEW b \in 0..f.segments[k].memsize - 1
  PROVE  Loader!Padded(Loader!Filled(f.segments[k].data), f.segments[k])[b]
           = Loader!Content(f.segments[k], f.segments[k].paddr + b)
<1> DEFINE s == f.segments[k]
<1>1. s.paddr \in Nat /\ s.memsize \in Nat /\ Len(s.data) \in Nat
  BY AFile
<1>2. s.paddr + s.memsize <= LoadFlash /\ Len(s.data) <= s.memsize
  BY DEF Loader!Checked
<1>3. b \in Nat /\ b < s.memsize /\ b \in 0..LoadBuffer - 1 /\ s.paddr + b - s.paddr = b
  BY <1>1, <1>2, FileBounds
<1>4. Loader!Filled(s.data)[b] = IF b < Len(s.data) THEN s.data[b + 1] ELSE FlashBuffer[b]
  BY <1>3 DEF Loader!Filled
<1>5. b \in DOMAIN Loader!Filled(s.data)
  BY <1>3 DEF Loader!Filled
<1>6. Loader!Padded(Loader!Filled(s.data), s)[b]
        = IF b \in Len(s.data)..s.memsize - 1 THEN Loader!Zero ELSE Loader!Filled(s.data)[b]
  BY <1>5 DEF Loader!Padded
<1>7. b \in Len(s.data)..s.memsize - 1 <=> ~(b < Len(s.data))
  BY <1>1, <1>3
<1>8. Loader!Content(s, s.paddr + b) = IF b < Len(s.data) THEN s.data[b + 1] ELSE Loader!Zero
  BY <1>1, <1>3, ContentIs
<1>9. QED BY <1>4, <1>6, <1>7, <1>8

(* A round that leaves the flash as the segment wants it.                  *)
LEMMA RoundKept ==
  ASSUME FileInv, stage = "elf", i <= Len(file.segments),
         stage' = "elf", UNCHANGED <<file, CurrentFile, open, notes>>, i' = i + 1,
         DOMAIN flash' = 0..LoadFlash - 1, DOMAIN FlashBuffer' = 0..LoadBuffer - 1,
         reads' \in {"true", "wrong"},
         reads' = "true" =>
           /\ reads = "true"
           /\ \A a \in 0..LoadFlash - 1 :
                flash'[a] = IF i \in Loader!Covers(file, a)
                            THEN Loader!Content(file.segments[i], a) ELSE flash[a]
  PROVE  FileInv'
<1>1. file \in LoadFiles /\ file.kind = "elf" /\ i \in 1..Len(file.segments) + 1 /\ Len(file.segments) \in Nat
  BY AFile DEF FileInv, FileTyped
<1>2. FileTyped'
  <2>1. i' \in 1..Len(file.segments) + 1
    BY <1>1
  <2>2. Loader!TypeOK'
    BY DEF FileInv, FileTyped, Loader!TypeOK
  <2>3. QED BY <1>1, <2>1, <2>2 DEF FileTyped
<1>3. SoFar'
  <2> SUFFICES ASSUME reads' = "true",
                      NEW a \in 0..LoadFlash - 1, NEW k \in Loader!Covers(file, a), k < i + 1,
                      \A j \in Loader!Covers(file, a) : j < i + 1 => j <= k
               PROVE  flash'[a] = Loader!Content(file.segments[k], a)
    BY DEF SoFar, Loader!Covers, Loader!Content
  <2>1. \A j \in Loader!Covers(file, a) : j \in 1..Len(file.segments)
    BY <1>1, AFile DEF Loader!Covers
  <2>2. CASE i \in Loader!Covers(file, a)
    <3>1. k = i
      BY <1>1, <2>1, <2>2
    <3>2. QED BY <2>2, <3>1
  <2>3. CASE i \notin Loader!Covers(file, a)
    <3>1. k < i /\ \A j \in Loader!Covers(file, a) : j < i => j <= k
      BY <1>1, <2>1, <2>3
    <3>2. flash[a] = Loader!Content(file.segments[k], a)
      BY <1>1, <3>1 DEF FileInv, SoFar
    <3>3. QED BY <2>3, <3>2
  <2>4. QED BY <2>2, <2>3
<1>4. Whole' /\ Loader!AllNotes'
  BY <1>1 DEF FileInv, Whole, Loader!AllNotes
<1>5. QED BY <1>2, <1>3, <1>4 DEF FileInv

(* WriteFlash leaves a flash of the same size; what it writes is there     *)
(* when it returns and every page was read right.                          *)
LEMMA WriteFlashSize ==
  ASSUME FileInv, NEW a, NEW n, NEW buf1, NEW then, Loader!WriteFlash(a, n, buf1, then)
  PROVE  /\ DOMAIN flash' = 0..LoadFlash - 1 /\ stage' \in {then, "prompt"}
         /\ reads' \in {"true", "wrong"} /\ (reads' = "true" => reads = "true")
<1>1. DOMAIN flash = 0..LoadFlash - 1 /\ reads \in {"true", "wrong"}
  BY DEF FileInv, FileTyped, Loader!TypeOK
<1>2. DOMAIN flash' = 0..LoadFlash - 1
  BY <1>1 DEF Loader!WriteFlash
<1>3. stage' \in {then, "prompt"} /\ (reads' = "wrong" \/ reads' = reads)
  BY DEF Loader!WriteFlash
<1>4. QED BY <1>1, <1>2, <1>3

LEMMA WriteFlashWhole ==
  ASSUME FileInv, NEW a, NEW n, NEW buf1, NEW then, Loader!WriteFlash(a, n, buf1, then),
         stage' # "prompt", reads' = "true"
  PROVE  /\ a + n <= LoadFlash
         /\ \A b \in 0..LoadFlash - 1 :
              flash'[b] = IF b \in a..a + n - 1 THEN buf1[b - a] ELSE flash[b]
<1>1. PICK fate \in [Loader!Touched(a, n) -> Loader!Fates] :
        /\ a + n <= LoadFlash
        /\ flash' = [b \in 0..LoadFlash - 1 |->
             IF Loader!Page(b) \in Loader!Touched(a, n)
             THEN Loader!Became(fate[Loader!Page(b)], b \in a..a + n - 1, buf1[b - a], flash[b]) ELSE flash[b]]
        /\ \A p \in DOMAIN fate : fate[p] = "written"
  BY DEF Loader!WriteFlash
<1>2. ASSUME NEW b \in 0..LoadFlash - 1
      PROVE  flash'[b] = IF b \in a..a + n - 1 THEN buf1[b - a] ELSE flash[b]
  <2>1. CASE Loader!Page(b) \in Loader!Touched(a, n)
    <3>1. fate[Loader!Page(b)] = "written"
      BY <1>1, <2>1
    <3>2. QED BY <1>1, <2>1, <3>1 DEF Loader!Became
  <2>2. CASE Loader!Page(b) \notin Loader!Touched(a, n)
    <3>1. b \notin a..a + n - 1
      BY <2>2 DEF Loader!Touched
    <3>2. QED BY <1>1, <2>2, <3>1
  <2>3. QED BY <2>1, <2>2
<1>3. QED BY <1>1, <1>2

(* A byte that WriteFlash changes is on a page of the range; and of the    *)
(* range, unless it fails, or a page was read wrong.                       *)
LEMMA WriteFlashWhere ==
  ASSUME NEW a, NEW n, NEW buf1, NEW then, Loader!WriteFlash(a, n, buf1, then),
         NEW c \in 0..LoadFlash - 1, flash'[c] # flash[c]
  PROVE  /\ a + n <= LoadFlash
         /\ \E b \in a..a + n - 1 : Loader!Page(c) = Loader!Page(b)
         /\ c \in a..a + n - 1 \/ stage' = "prompt" \/ reads' = "wrong"
<1>1. PICK fate \in [Loader!Touched(a, n) -> Loader!Fates] :
        /\ a + n <= LoadFlash
        /\ flash' = [b \in 0..LoadFlash - 1 |->
             IF Loader!Page(b) \in Loader!Touched(a, n)
             THEN Loader!Became(fate[Loader!Page(b)], b \in a..a + n - 1, buf1[b - a], flash[b]) ELSE flash[b]]
        /\ \/ reads' = "wrong" \/ stage' = "prompt"
           \/ \A p \in DOMAIN fate : fate[p] = "written"
  BY DEF Loader!WriteFlash
<1>2. Loader!Page(c) \in Loader!Touched(a, n)
  BY <1>1
<1>3. \E b \in a..a + n - 1 : Loader!Page(c) = Loader!Page(b)
  BY <1>2 DEF Loader!Touched
<1>4. ASSUME stage' # "prompt", reads' # "wrong" PROVE c \in a..a + n - 1
  <2>1. fate[Loader!Page(c)] = "written"
    BY <1>1, <1>2, <1>4
  <2>2. QED BY <1>1, <1>2, <2>1 DEF Loader!Became
<1>5. QED BY <1>1, <1>3, <1>4

(* LoadElfSegments. *)
LEMMA SegmentKept == ASSUME FileInv, Loader!Segment PROVE FileInv'
<1> DEFINE s == file.segments[i]
<1>1. /\ stage = "elf" /\ i <= Len(file.segments)
      /\ \/ ~Loader!Loadable(s) /\ UNCHANGED <<FlashBuffer, flash, reads, stage, CurrentFile>>
         \/ Loader!LoadFail /\ UNCHANGED <<FlashBuffer, flash, reads>>
         \/ FlashBuffer' = Loader!Filled(s.data) /\ Loader!LoadFail /\ UNCHANGED <<flash, reads>>
         \/ /\ Loader!Loadable(s) /\ Loader!Checked(s)
            /\ FlashBuffer' = Loader!Padded(Loader!Filled(s.data), s)
            /\ IF s.memsize > 0 THEN Loader!WriteFlash(s.paddr, s.memsize, FlashBuffer', "elf")
                                ELSE UNCHANGED <<flash, reads, stage>>
            /\ UNCHANGED CurrentFile
      /\ file' = (IF stage' = "prompt" THEN Loader!NoFile ELSE file)
      /\ i' = (IF stage' = "prompt" THEN 1 ELSE i + 1)
      /\ UNCHANGED <<open, PC, notes>>
  BY DEF Loader!Segment, Loader!Forget
<1>2. /\ file \in LoadFiles /\ file.kind = "elf" /\ i \in DOMAIN file.segments
      /\ s.paddr \in Nat /\ s.memsize \in Nat /\ Len(s.data) \in Nat
  BY <1>1, UnderWay
<1>3. Loader!TypeOK /\ DOMAIN flash = 0..LoadFlash - 1 /\ DOMAIN FlashBuffer = 0..LoadBuffer - 1
  BY DEF FileInv, FileTyped, Loader!TypeOK
<1>4. DOMAIN Loader!Filled(s.data) = 0..LoadBuffer - 1
      /\ DOMAIN Loader!Padded(Loader!Filled(s.data), s) = 0..LoadBuffer - 1
  BY DEF Loader!Filled, Loader!Padded
<1>5. DOMAIN flash' = 0..LoadFlash - 1 /\ DOMAIN FlashBuffer' = 0..LoadBuffer - 1
  BY <1>1, <1>3, <1>4, WriteFlashSize DEF Loader!LoadFail
<1>6. /\ stage' \in {"elf", "prompt"} /\ CurrentFile' \in {CurrentFile, 0} /\ open' = open
      /\ stage' = "elf" => CurrentFile' = CurrentFile
      /\ reads' \in {"true", "wrong"} /\ (reads' = "true" => reads = "true")
  BY <1>1, <1>3, WriteFlashSize DEF Loader!LoadFail, Loader!TypeOK
<1>7. CASE stage' = "prompt"
  <2>1. Loader!TypeOK'
    BY <1>3, <1>5, <1>6, <1>7 DEF Loader!TypeOK
  <2>2. file' = Loader!NoFile
    BY <1>1, <1>7
  <2>3. QED BY <1>7, <2>1, <2>2, AtPrompt
<1>8. CASE stage' = "elf"
  <2>1. UNCHANGED <<file, CurrentFile, open, notes>> /\ i' = i + 1
    BY <1>1, <1>6, <1>8
  <2>2. ASSUME reads' = "true", NEW a \in 0..LoadFlash - 1
        PROVE  flash'[a] = IF i \in Loader!Covers(file, a) THEN Loader!Content(s, a) ELSE flash[a]
    <3>1. i \in Loader!Covers(file, a) <=> Loader!Loadable(s) /\ a \in s.paddr..s.paddr + s.memsize - 1
      BY <1>2 DEF Loader!Covers
    <3>2. CASE ~Loader!Loadable(s) /\ flash' = flash
      BY <3>1, <3>2
    <3>3. CASE /\ Loader!Loadable(s) /\ Loader!Checked(s)
               /\ s.memsize = 0 /\ flash' = flash
      BY <1>2, <3>1, <3>3
    <3>4. CASE /\ Loader!Loadable(s) /\ Loader!Checked(s) /\ s.memsize > 0
               /\ FlashBuffer' = Loader!Padded(Loader!Filled(s.data), s)
               /\ Loader!WriteFlash(s.paddr, s.memsize, FlashBuffer', "elf")
      <4>1. flash'[a] = IF a \in s.paddr..s.paddr + s.memsize - 1 THEN FlashBuffer'[a - s.paddr] ELSE flash[a]
        BY <1>8, <2>2, <3>4, WriteFlashWhole
      <4>2. CASE a \in s.paddr..s.paddr + s.memsize - 1
        <5>1. a - s.paddr \in 0..s.memsize - 1 /\ s.paddr + (a - s.paddr) = a
          BY <1>2, <4>2
        <5>2. FlashBuffer'[a - s.paddr] = Loader!Content(s, a)
          BY <1>2, <3>4, <5>1, BufferHolds
        <5>3. QED BY <3>1, <3>4, <4>1, <4>2, <5>2
      <4>3. CASE a \notin s.paddr..s.paddr + s.memsize - 1
        BY <3>1, <4>1, <4>3
      <4>4. QED BY <4>2, <4>3
    <3>5. stage' # "prompt"
      BY <1>8
    <3>6. QED BY <1>1, <1>2, <3>2, <3>3, <3>4, <3>5 DEF Loader!LoadFail
  <2>3. QED BY <1>1, <1>5, <1>6, <1>8, <2>1, <2>2, RoundKept
<1>9. QED BY <1>6, <1>7, <1>8

LEMMA EnteredKept == ASSUME FileInv, Loader!Entered PROVE FileInv'
<1>1. /\ stage = "elf" /\ i > Len(file.segments) /\ PC' = file.entry /\ stage' = "close"
      /\ UNCHANGED <<CurrentFile, open, file, i, FlashBuffer, flash, reads, notes>>
  BY DEF Loader!Entered, Loader!Entry
<1>2. file \in LoadFiles /\ file.kind = "elf" /\ i = Len(file.segments) + 1
  BY <1>1, UnderWay
<1>3. FileTyped'
  BY <1>1, <1>2 DEF FileInv, FileTyped, Loader!TypeOK
<1>4. SoFar' /\ Whole' /\ Loader!AllNotes'
  BY <1>1, <1>2 DEF FileInv, SoFar, Whole, Loader!AllNotes, Loader!Covers, Loader!Content
<1>5. QED BY <1>3, <1>4 DEF FileInv

(* LoadBinary. *)
LEMMA LoadBinaryKept == ASSUME FileInv, Loader!LoadBinary PROVE FileInv'
<1> DEFINE n == IF Len(file.data) < LoadBuffer THEN Len(file.data) ELSE LoadBuffer
           part1 == SubSeq(file.data, 1, n)
<1>1. /\ stage = "binary"
      /\ \/ Loader!LoadFail /\ UNCHANGED <<FlashBuffer, flash, reads, PC>>
         \/ /\ FlashBuffer' = Loader!Filled(part1)
            /\ Loader!WriteFlash(0, n, FlashBuffer', "close")
            /\ PC' = (IF stage' = "close" THEN 0 ELSE PC)
            /\ UNCHANGED CurrentFile
      /\ file' = (IF stage' = "prompt" THEN Loader!NoFile ELSE file)
      /\ UNCHANGED <<open, notes>>
  BY DEF Loader!LoadBinary, Loader!Forget
<1>2. /\ file \in LoadFiles /\ file.kind = "binary" /\ Len(file.data) \in Nat
      /\ file.data \in Seq({file.data[k] : k \in DOMAIN file.data})
  BY <1>1, AFile DEF FileInv, FileTyped
<1>3. n \in Nat /\ n <= Len(file.data) /\ n <= LoadBuffer /\ (n = Len(file.data) \/ n >= LoadFlash)
  BY <1>2, FileBounds
<1>4. Len(part1) = n /\ \A k \in 1..n : part1[k] = file.data[k]
  <2>1. \A k \in 1..n : k \in 1..Len(file.data)
    BY <1>2, <1>3
  <2>2. part1 = [k \in 1..n |-> file.data[k]]
    BY <1>2, <1>3, <2>1
  <2>3. QED BY <1>3, <2>2
<1> HIDE DEF n, part1
<1>5. Loader!TypeOK /\ DOMAIN flash = 0..LoadFlash - 1 /\ DOMAIN FlashBuffer = 0..LoadBuffer - 1
  BY DEF FileInv, FileTyped, Loader!TypeOK
<1>6. DOMAIN flash' = 0..LoadFlash - 1 /\ DOMAIN FlashBuffer' = 0..LoadBuffer - 1
  <2>1. DOMAIN Loader!Filled(part1) = 0..LoadBuffer - 1
    BY DEF Loader!Filled
  <2>2. QED BY <1>1, <1>5, <2>1, WriteFlashSize
<1>7. /\ stage' \in {"close", "prompt"} /\ CurrentFile' \in {CurrentFile, 0} /\ open' = open
      /\ stage' = "close" => CurrentFile' = CurrentFile
      /\ reads' \in {"true", "wrong"}
  BY <1>1, <1>5, WriteFlashSize DEF Loader!LoadFail, Loader!TypeOK
<1>8. Loader!TypeOK'
  BY <1>1, <1>5, <1>6, <1>7 DEF Loader!TypeOK
<1>9. CASE stage' = "prompt"
  BY <1>1, <1>8, <1>9, AtPrompt
<1>10. CASE stage' = "close"
  <2>1. file' = file /\ PC' = 0 /\ Loader!WriteFlash(0, n, FlashBuffer', "close") /\ FlashBuffer' = Loader!Filled(part1)
    BY <1>1, <1>10 DEF Loader!LoadFail
  <2>3. ASSUME reads' = "true", NEW a \in 0..LoadFlash - 1, a < Len(file.data)
        PROVE  flash'[a] = file.data[a + 1]
    <3>5. 0 + n <= LoadFlash /\ flash'[a] = IF a \in 0..0 + n - 1 THEN FlashBuffer'[a - 0] ELSE flash[a]
      BY <1>10, <2>1, <2>3, WriteFlashWhole
    <3>1. a < n /\ a \in 0..0 + n - 1 /\ a \in 0..LoadBuffer - 1 /\ a + 1 \in 1..n /\ a - 0 = a
      BY <1>2, <1>3, <2>3, <3>5, FileBounds
    <3>2. flash'[a] = FlashBuffer'[a]
      BY <3>1, <3>5
    <3>3. FlashBuffer'[a] = part1[a + 1]
      BY <1>4, <2>1, <3>1 DEF Loader!Filled
    <3>4. QED BY <1>4, <3>1, <3>2, <3>3
  <2>4. Whole'
    BY <1>2, <2>1, <2>3 DEF Whole
  <2>5. FileTyped'
    BY <1>2, <1>8, <1>10, <2>1 DEF FileTyped
  <2>6. SoFar' /\ Loader!AllNotes'
    BY <1>2, <2>1 DEF SoFar, Loader!AllNotes
  <2>7. QED BY <2>4, <2>5, <2>6 DEF FileInv
<1>11. QED BY <1>7, <1>9, <1>10

LEMMA CloseKept == ASSUME FileInv, Loader!Close PROVE FileInv'
<1>1. /\ stage' = "prompt" /\ open' = Loader!Closed(open, CurrentFile) /\ CurrentFile' = 0
      /\ file' = Loader!NoFile /\ UNCHANGED <<FlashBuffer, flash, reads>>
  BY DEF Loader!Close, Loader!Forget
<1>2. open' \in [LoadHandles -> {"nothing", "file", "port"}]
  BY <1>1, ClosedIs DEF FileInv, FileTyped, Loader!TypeOK
<1>3. Loader!TypeOK'
  BY <1>1, <1>2 DEF FileInv, FileTyped, Loader!TypeOK
<1>4. QED BY <1>1, <1>3, AtPrompt

(* Every step keeps the invariant.                                         *)
LEMMA FileKept == ASSUME FileInv, Loader!Next PROVE FileInv'
BY PortKept, NoNameKept, LoadFileCommandKept, IsLoadableElfKept, SegmentKept, EnteredKept,
   LoadBinaryKept, CloseKept DEF Loader!Next

(* At the end SoFar is about all segments, and the last that has an        *)
(* address is the one that Image takes.                                    *)
LEMMA FilePromise == FileInv => Loader!TypeOK /\ Loader!Loaded /\ Loader!AllNotes
<1> SUFFICES ASSUME FileInv PROVE Loader!Loaded
  BY DEF FileInv, FileTyped
<1> SUFFICES ASSUME stage = "close", reads = "true", NEW a \in 0..LoadFlash - 1, Loader!InFile(file, a)
             PROVE  flash[a] = Loader!Image(file, a)
  BY DEF FileInv, Whole, Loader!Loaded
<1>1. file \in LoadFiles /\ file.kind \in {"elf", "binary"}
  BY DEF FileInv, FileTyped
<1>2. CASE file.kind = "binary"
  BY <1>2 DEF FileInv, Whole, Loader!InFile, Loader!Image
<1>3. CASE file.kind = "elf"
  <2> DEFINE C == Loader!Covers(file, a)
             k == CHOOSE k \in C : \A j \in C : j <= k
  <2>1. C # {} /\ C \in SUBSET (1..Len(file.segments)) /\ Len(file.segments) \in Nat
    BY <1>1, <1>3, AFile DEF Loader!InFile, Loader!Covers
  <2>2. \E x \in C : \A y \in C : y <= x
    BY <2>1, Greatest
  <2>3. k \in C /\ \A j \in C : j <= k
    BY <2>2
  <2>4. Loader!Image(file, a) = Loader!Content(file.segments[k], a)
    BY <1>3 DEF Loader!Image
  <2>5. i = Len(file.segments) + 1
    BY <1>3 DEF FileInv, FileTyped
  <2> HIDE DEF k
  <2>6. k < i
    BY <2>1, <2>3, <2>5
  <2>7. QED BY <1>3, <2>3, <2>4, <2>6 DEF FileInv, SoFar
<1>4. QED BY <1>1, <1>2, <1>3

(* A byte of the flash that changes is on a page of the file's; and is one *)
(* of the file's, unless the load fails there or a page was read wrong.    *)
LEMMA FileOnly == ASSUME FileInv, Loader!Next PROVE Loader!KeepsElsewhere
<1> SUFFICES ASSUME NEW a \in 0..LoadFlash - 1, flash'[a] # flash[a]
             PROVE  /\ \E b \in 0..LoadFlash - 1 : Loader!Page(b) = Loader!Page(a) /\ Loader!InFile(file, b)
                    /\ Loader!InFile(file, a) \/ stage' = "prompt" \/ reads' = "wrong"
  BY DEF Loader!KeepsElsewhere
<1>1. Loader!Segment \/ Loader!LoadBinary
  BY DEF Loader!Next, Loader!Port, Loader!NoName, Loader!LoadFileCommand, Loader!IsLoadableElf,
         Loader!Entered, Loader!Close
<1>2. ASSUME NEW x \in Nat, NEW n \in Nat, NEW buf1, NEW then, Loader!WriteFlash(x, n, buf1, then),
             \A b \in 0..LoadFlash - 1 : b \in x..x + n - 1 => Loader!InFile(file, b)
      PROVE  /\ \E b \in 0..LoadFlash - 1 : Loader!Page(b) = Loader!Page(a) /\ Loader!InFile(file, b)
             /\ Loader!InFile(file, a) \/ stage' = "prompt" \/ reads' = "wrong"
  <2>1. /\ x + n <= LoadFlash
        /\ \E b \in x..x + n - 1 : Loader!Page(a) = Loader!Page(b)
        /\ a \in x..x + n - 1 \/ stage' = "prompt" \/ reads' = "wrong"
    BY <1>2, WriteFlashWhere
  <2>2. \A b \in x..x + n - 1 : b \in 0..LoadFlash - 1
    BY <2>1, FileBounds
  <2>3. QED BY <1>2, <2>1, <2>2
<1>3. CASE Loader!Segment
  <2> DEFINE s == file.segments[i]
  <2>1. /\ stage = "elf" /\ i <= Len(file.segments) /\ Loader!Loadable(s)
        /\ Loader!WriteFlash(s.paddr, s.memsize, FlashBuffer', "elf")
    BY <1>3 DEF Loader!Segment
  <2>2. /\ file \in LoadFiles /\ file.kind = "elf" /\ i \in DOMAIN file.segments
        /\ s.paddr \in Nat /\ s.memsize \in Nat
    BY <2>1, UnderWay
  <2>3. ASSUME NEW b \in 0..LoadFlash - 1, b \in s.paddr..s.paddr + s.memsize - 1
        PROVE  Loader!InFile(file, b)
    <3>1. i \in Loader!Covers(file, b)
      BY <2>1, <2>2, <2>3 DEF Loader!Covers
    <3>2. QED BY <2>2, <3>1 DEF Loader!InFile
  <2>4. QED BY <1>2, <2>1, <2>2, <2>3
<1>4. CASE Loader!LoadBinary
  <2> DEFINE n == IF Len(file.data) < LoadBuffer THEN Len(file.data) ELSE LoadBuffer
  <2>1. stage = "binary" /\ Loader!WriteFlash(0, n, FlashBuffer', "close")
    BY <1>4 DEF Loader!LoadBinary
  <2>2. file \in LoadFiles /\ file.kind = "binary" /\ Len(file.data) \in Nat
    BY <2>1, AFile DEF FileInv, FileTyped
  <2>3. n \in Nat /\ n <= Len(file.data)
    BY <2>2, FileBounds
  <2> HIDE DEF n
  <2>4. \A b \in 0..LoadFlash - 1 : b \in 0..0 + n - 1 => b < Len(file.data)
    BY <2>2, <2>3
  <2>5. \A b \in 0..LoadFlash - 1 : b \in 0..0 + n - 1 => Loader!InFile(file, b)
    BY <2>2, <2>4 DEF Loader!InFile
  <2>6. QED BY <1>2, <2>1, <2>3, <2>5
<1>5. QED BY <1>1, <1>3, <1>4
-----------------------------------------------------------------------------
(* A step of the run is one of TargetMemory, of the loader, or neither.    *)
LEMMA RunStep ==
  ASSUME [CommandsNext]_all
  PROVE  [Next]_vars /\ [Loader!Next]_loader /\ (Loader!Next \/ UNCHANGED flash)
BY DEF CommandsNext, NumbersStep, AddressesStep, MemoryStep, LoaderStep, CodesStep, FlowStep, all,
       loader

(* The loader's invariant is about its variables. *)
LEMMA FileSame == ASSUME FileInv, UNCHANGED loader PROVE FileInv'
BY DEF loader, FileInv, FileTyped, SoFar, Whole, Loader!TypeOK, Loader!AllNotes, Loader!Covers,
       Loader!Content

(* DwReadAddr, DwWriteAddr, DwReadEEPROM, DwWriteEEPROM: each byte that a  *)
(* command shows is what its place held, unless it was not answered,       *)
(* whatever parts the range is read in and wherever DWDR and the cached    *)
(* registers are; a write has changed the bytes of its range up to where   *)
(* it has got, but for some behind DWDR or the cached registers, and       *)
(* nothing else.                                                           *)
THEOREM TransfersRight == CommandsSpec => []MemoryTransfers
<1>1. AddressAssumption
  BY CommandsAssumption
<1>2. CommandsInit => IInv
  BY <1>1, Start DEF CommandsInit
<1>3. IInv /\ [CommandsNext]_all => IInv'
  BY <1>1, MemoryKept, RunStep
<1>4. IInv => MemoryTransfers
  BY <1>1, MemoryPromise
<1>5. QED BY <1>2, <1>3, <1>4, PTL DEF CommandsSpec

(* IsLoadableElf, LoadElfSegments, LoadBinary: when a file has been loaded *)
(* every byte of it is in the flash, zeros where a segment is longer than  *)
(* its data, the last segment's where two overlap, unless a page was read  *)
(* wrong; and its annotations are all there, whatever files were loaded    *)
(* before, and whatever failed.                                            *)
THEOREM AlwaysLoaded == CommandsSpec => []Loaded
<1>1. CommandsInit => FileInv
  BY FileStart DEF CommandsInit
<1>2. FileInv /\ [CommandsNext]_all => FileInv'
  BY FileKept, FileSame, RunStep
<1>3. FileInv => Loaded
  BY FilePromise DEF Loaded
<1>4. QED BY <1>1, <1>2, <1>3, PTL DEF CommandsSpec

(* LoadElfSegments, LoadBinary: no step changes a page of the flash that   *)
(* the file under way has nothing of, whatever fails; and no byte that the *)
(* file does not have, unless the load fails on its page, or a page was    *)
(* read wrong.                                                             *)
THEOREM ElsewhereUntouched == CommandsSpec => [][Loader!KeepsElsewhere]_all
<1>1. CommandsInit => FileInv
  BY FileStart DEF CommandsInit
<1>2. FileInv /\ [CommandsNext]_all => FileInv'
  BY FileKept, FileSame, RunStep
<1>3. FileInv /\ [CommandsNext]_all => [Loader!KeepsElsewhere]_all
  BY FileOnly, RunStep DEF Loader!KeepsElsewhere
<1>4. QED BY <1>1, <1>2, <1>3, PTL DEF CommandsSpec

-----------------------------------------------------------------------------
(***************************************************************************)
(* Dump, as the instance Addresses.                                        *)
(***************************************************************************)
Both == {"d", "f"}

(* The address a command keeps is where its last dump ended, until the     *)
(* command fails.                                                          *)
KeptInv ==
  part = "addresses" =>
    /\ DOMAIN kept = Both /\ DOMAIN leftAt = Both /\ DOMAIN failed = Both
    /\ \A c \in Both : failed[c] \/ kept[c] = leftAt[c]

\* A command fails, and only its own address counts no more.
LEMMA DumpFails ==
  ASSUME KeptInv, part = "addresses", UNCHANGED part,
         NEW c \in Both, NEW given, NEW a, Addresses!FailsWith(c, given, a)
  PROVE  KeptInv' /\ did'.ok = FALSE
<1>1. /\ kept' = [kept EXCEPT ![c] = a] /\ failed' = [failed EXCEPT ![c] = TRUE] /\ leftAt' = leftAt
      /\ did'.ok = FALSE
  BY DEF Addresses!FailsWith, Addresses!Dumped
<1>2. QED BY <1>1 DEF KeptInv

\* A dump without parameters begins at the kept address, and keeps where it ends.
LEMMA DumpMoves ==
  ASSUME KeptInv, part = "addresses", UNCHANGED part,
         NEW c \in Both, NEW given, Addresses!DumpCommand(c, given)
  PROVE  KeptInv' /\ Addresses!LeftOff
<1>1. CASE \E a : Addresses!FailsWith(c, given, a)
  BY <1>1, DumpFails DEF Addresses!LeftOff
<1>2. CASE ~\E a : Addresses!FailsWith(c, given, a)
  <2> DEFINE from == IF Len(given) = 0 THEN <<kept[c]>> ELSE Addresses!ReadNumber(given[1], TRUE)
  <2>1. PICK n : /\ kept' = [kept EXCEPT ![c] = Addresses!Wrap(from[1] + n)]
                 /\ leftAt' = [leftAt EXCEPT ![c] = Addresses!Wrap(from[1] + n)]
                 /\ failed' = [failed EXCEPT ![c] = FALSE]
                 /\ did' = Addresses!Dumped(c, given, TRUE, from[1], n)
    BY <1>2, Zenon DEF Addresses!DumpCommand, Addresses!After
  <2>2. did'.command = c /\ did'.given = given /\ did'.first = from[1]
    BY <2>1 DEF Addresses!Dumped
  <2>3. given = <<>> => from[1] = kept[c]
    OBVIOUS
  <2> HIDE DEF from
  <2>4. KeptInv'
    BY <2>1 DEF KeptInv
  <2>5. Addresses!LeftOff
    BY <2>2, <2>3 DEF KeptInv, Addresses!LeftOff
  <2>6. QED BY <2>4, <2>5
<1>3. QED BY <1>1, <1>2

(* ParseDumpParameters: a dump without parameters goes on where the last   *)
(* one of the same command ended, unless that command has failed since,    *)
(* whatever the other commands dumped meanwhile.                           *)
THEOREM DumpsGoOn == CommandsSpec => [][part = "addresses" => Addresses!LeftOff]_all
<1>1. CommandsInit => KeptInv
  BY DEF CommandsInit, Addresses!Init, KeptInv, Both
<1>2. ASSUME KeptInv, [CommandsNext]_all
      PROVE  KeptInv' /\ (UNCHANGED all \/ (part = "addresses" => Addresses!LeftOff))
  <2>1. CASE AddressesStep
    <3>1. CASE Addresses!ResetDumpStates
      BY <2>1, <3>1 DEF AddressesStep, Addresses!ResetDumpStates, Addresses!Dumped, Addresses!LeftOff, KeptInv, Both
    <3>2. CASE \E c \in {"d", "f"}, given \in Addresses!Givens : Addresses!DumpCommand(c, given)
      BY <1>2, <2>1, <3>2, DumpMoves DEF AddressesStep, Both
    <3>3. QED BY <2>1, <3>1, <3>2 DEF AddressesStep, Addresses!Next
  <2>2. CASE part # "addresses" /\ part' = part
    BY <2>2 DEF KeptInv
  <2>3. CASE UNCHANGED all
    BY <1>2, <2>3 DEF all, dump, KeptInv
  <2>4. QED
    BY <1>2, <2>1, <2>2, <2>3
    DEF CommandsNext, NumbersStep, MemoryStep, LoaderStep, CodesStep, FlowStep
<1>3. KeptInv /\ [CommandsNext]_all => KeptInv' /\ [part = "addresses" => Addresses!LeftOff]_all
  BY <1>2
<1>4. QED BY <1>1, <1>3, PTL DEF CommandsSpec
=============================================================================
