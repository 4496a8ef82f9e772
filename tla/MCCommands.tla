----------------------------- MODULE MCCommands -----------------------------
(***************************************************************************)
(* The commands that show or change what the target holds, beyond their    *)
(* effect on the session: the parameters of a dump, the transfers of data  *)
(* and EEPROM bytes, which is TargetMemory, extended here, loading a       *)
(* program file, and the disassembler.  Each is looked at by itself: a     *)
(* behaviour exercises one of them, `part', and the others stay in an      *)
(* initial state.                                                          *)
(***************************************************************************)
EXTENDS TargetMemory

CONSTANTS
  Parts,                                          \* those of the parts below that a run exercises
  LoadFlash, LoadPage, LoadBuffer, LoadFiles, LoadHandles   \* of ProgramFile

VARIABLES
  part,
  kept, did, leftAt, failed,                                                  \* Dump
  CurrentFile, open, stage, file, i, FlashBuffer, flash, reads, PC, notes,       \* ProgramFile
  words, Uaddr, listing, first, length, left, line                            \* Listing

-----------------------------------------------------------------------------
(* Digits with each mark before or after, and some that are no number.     *)
Dollar == 16
Sharp  == 17
HexEnd == 18
DecEnd == 19
SomeTexts ==
  {<<1>>, <<1, 13>>, <<Dollar, 1>>, <<Sharp, 1, 8>>, <<1, HexEnd>>,
   <<1, 8, DecEnd>>, <<0, HexEnd, 2>>, <<Dollar>>, <<Sharp, 13>>, <<HexEnd, 1>>}

(* One command, in a space of 30 bytes, and integers of 12 bits.           *)
Numbers == INSTANCE Dump WITH
  Commands <- {"d"}, Limit <- [c \in {"d"} |-> 30], Default <- [c \in {"d"} |-> 16], Width <- 12,
  Texts <- SomeTexts, addr <- kept, left <- leftAt

(* Two commands in spaces of different sizes.                              *)
Addresses == INSTANCE Dump WITH
  Commands <- {"d", "f"}, Limit <- [d |-> 30, f |-> 24], Default <- [d |-> 16, f |-> 16],
  Width <- 12, Texts <- {<<4>>, <<1, 8>>, <<3, 0>>, <<Sharp, 15>>}, addr <- kept, left <- leftAt

(* Two segments with a page in common, the second longer than its data and *)
(* in parts of two pages; a segment in the data space and one that is      *)
(* skipped; one beyond the flash after a good one; one cut short; broken   *)
(* headers and tables; and binaries.  Some begin with the same bytes,      *)
(* which keeps the states few.                                             *)
Data(name, n) ==
  SubSeq(<<<<name, 1>>, <<name, 2>>, <<name, 3>>, <<name, 4>>, <<name, 5>>, <<name, 6>>, <<name, 7>>>>, 1, n)
File(name, kind, bytes, segments, entry, ns) ==
  [name |-> name, kind |-> kind, data |-> bytes, segments |-> segments, entry |-> entry, notes |-> ns]
Elf(name, kind, segments, entry, ns) == File(name, kind, <<>>, segments, entry, ns)
Binary(name, bytes) == File(name, "binary", bytes, <<>>, 0, {})
Seg(paddr, bytes, memsize) ==
  [load |-> TRUE, paddr |-> paddr, data |-> bytes, memsize |-> memsize, offset |-> 52, cut |-> FALSE]

SomeFiles ==
  { Elf("two", "elf", <<Seg(0, Data("two", 2), 2), Seg(1, Data("two2", 1), 2)>>, 1, {0, 1}),
    Elf("data", "elf", <<Seg(8388608 + 1, Data("data", 1), 1), Seg(3, <<>>, 0),
                         [Seg(0, Data("data", 1), 1) EXCEPT !.load = FALSE]>>, 2, {}),
    Elf("long", "elf", <<Seg(0, Data("two", 1), 1), Seg(5, Data("bin", 1), 2)>>, 0, {}),
    Elf("cut", "elf", <<[Seg(0, Data("cut", 2), 2) EXCEPT !.cut = TRUE]>>, 0, {}),
    Elf("header", "bad header", <<>>, 0, {0}),
    Elf("stabs", "bad stabs", <<>>, 0, {1, 2}),
    Binary("bin", Data("bin", 2)), Binary("big", Data("bin", 7)), Binary("empty", <<>>) }

Loader == INSTANCE ProgramFile WITH
  FlashSize <- LoadFlash, PageSize <- LoadPage, BufferSize <- LoadBuffer, Files <- LoadFiles, Handles <- LoadHandles,
  at <- stage

(* Every word there is, in a flash of one.                                 *)
Codes == INSTANCE Listing WITH
  FlashSize <- 2, Words <- 0..65535, Counts <- {1}, flash <- words, at <- listing

(* Three words, each nop, lds r0, jmp, call, rjmp to itself, brne backward *)
(* or erased flash.                                                        *)
Flow == INSTANCE Listing WITH
  FlashSize <- 6, Words <- {0, 36864, 37900, 37902, 53247, 62457, 65535}, Counts <- -1..3,
  flash <- words, at <- listing

ASSUME CommandsAssumption ==
  /\ Parts \subseteq {"numbers", "addresses", "memory", "loader", "codes", "flow"}
  /\ Numbers!IntAssumption /\ Addresses!IntAssumption
  /\ AddressAssumption
  /\ Loader!FileAssumption
  /\ Codes!ListingAssumption /\ Flow!ListingAssumption
-----------------------------------------------------------------------------
dump    == <<kept, did, leftAt, failed>>
loader  == <<CurrentFile, open, stage, file, i, FlashBuffer, flash, reads, PC, notes>>
listed  == <<words, Uaddr, listing, first, length, left, line>>
all     == <<part, dump, vars, loader, listed>>

CommandsInit ==
  /\ part \in Parts
  /\ IF part = "addresses" THEN Addresses!Init ELSE Numbers!Init
  /\ Init
  /\ Loader!Init
  /\ IF part = "flow" THEN Flow!Init ELSE Codes!Init
  /\ part \notin {"codes", "flow"} => words[0] = 0

NumbersStep   == part = "numbers"   /\ Numbers!Next   /\ UNCHANGED <<part, vars, loader, listed>>
AddressesStep == part = "addresses" /\ Addresses!Next /\ UNCHANGED <<part, vars, loader, listed>>
MemoryStep    == part = "memory"    /\ Next           /\ UNCHANGED <<part, dump, loader, listed>>
LoaderStep    == part = "loader"    /\ Loader!Next    /\ UNCHANGED <<part, dump, vars, listed>>
CodesStep     == part = "codes"     /\ Codes!Next     /\ UNCHANGED <<part, dump, vars, loader>>
FlowStep      == part = "flow"      /\ Flow!Next      /\ UNCHANGED <<part, dump, vars, loader>>

CommandsNext == NumbersStep \/ AddressesStep \/ MemoryStep \/ LoaderStep \/ CodesStep \/ FlowStep

CommandsSpec == CommandsInit /\ [][CommandsNext]_all
-----------------------------------------------------------------------------
(* ReadNumber, ParseDumpParameters: a parameter of a dump is the number it *)
(* says, and the dump is cut at the end of its space.                      *)
DumpsAsked ==
  IF part = "addresses" THEN Addresses!TypeOK
  ELSE Numbers!TypeOK /\ Numbers!ReadsNumbers /\ Numbers!InSpace

(* Of the transfers MemoryTransfers is that of TargetMemory.               *)

(* LoadElfSegments, LoadBinary, IsLoadableElf: after a load the flash      *)
(* holds the file, and the file has all its annotations.                   *)
Loaded == part = "loader" => Loader!TypeOK /\ Loader!Loaded /\ Loader!AllNotes

(* Winstruction, UnassembleCommand: every word is shown as the instruction *)
(* it is, but for two groups, from the bytes that were read.               *)
Agrees ==
  IF part = "flow" THEN Flow!TypeOK /\ Flow!Agrees ELSE part = "codes" => Codes!TypeOK /\ Codes!Agrees

(* DumpDataBytesCommand and its kin: a dump goes on where its last one     *)
(* ended, whatever other commands did.  LoadElfSegments: no page of the    *)
(* flash changes that the file has nothing of.  DisassembleInstruction: a  *)
(* listing stays in step with the processor.                               *)
Onward ==
  [][ /\ part = "addresses" => Addresses!LeftOff
      /\ part = "loader"    => Loader!KeepsElsewhere
      /\ part = "flow"      => Flow!StaysInStep ]_all
=============================================================================
