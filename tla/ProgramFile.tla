---------------------------- MODULE ProgramFile ----------------------------
(***************************************************************************)
(* The l command: a program file is opened, its symbols and line numbers   *)
(* are taken if it is an ELF file, and its segments, or all of it, are     *)
(* written to the flash.                                                   *)
(*                                                                         *)
(* A file is a record of what the loader looks at.  WriteFlash is here     *)
(* what FlashWrite shows of it, page by page: it writes the buffer, or     *)
(* fails at a page, which may be erased by then; and where a page was read *)
(* wrong nothing is sure of the pages that it touches.  A handle is the    *)
(* lowest number that is free, and a port is opened, and closed, by other  *)
(* commands.                                                               *)
(***************************************************************************)
EXTENDS Integers, Sequences

CONSTANTS
  FlashSize,
  PageSize,
  BufferSize,  \* the bytes of FlashBuffer: MaxFlashSize
  Files,       \* what files there are
  Handles      \* the handles that can be open at once

\* A byte is where it comes from: a part of a file, with its place there, or one of these;
\* Junk is anything, also what was there.
Old  == <<"old", 0>>
Junk == <<"junk", 0>>
Zero == <<"zero", 0>>

IsSequence(s) == s \in Seq({s[k] : k \in DOMAIN s})

\* What the constants are assumed to be: the fields of a segment are unsigned, and a file's
\* annotations are of addresses in the tables, which are as long as the buffer.
FileAssumption ==
  /\ FlashSize \in Nat /\ BufferSize \in Nat /\ 0 < FlashSize /\ FlashSize <= BufferSize
  /\ PageSize \in Nat \ {0}
  /\ Handles \subseteq Nat \ {0}
  /\ \A f \in Files :
       /\ f.kind \in {"binary", "elf", "bad header", "bad stabs"}
       /\ IsSequence(f.data) /\ IsSequence(f.segments)
       /\ \A k \in DOMAIN f.segments :
            /\ f.segments[k].paddr \in Nat /\ f.segments[k].memsize \in Nat
            /\ IsSequence(f.segments[k].data)
       /\ f.notes \subseteq 0..BufferSize - 1

VARIABLES
  CurrentFile,  \* the handle of the file, or 0
  open,         \* what each handle is open to: "file", "port" or nothing
  at,           \* the place in the command
  file,         \* the file it is about
  i,            \* the segment
  FlashBuffer,
  flash,
  reads,        \* history: were all pages read right since the command began: "true", "wrong"
  PC,
  notes         \* of which file the annotation of an address is: CodeSymbol, LineNumber

vars == <<CurrentFile, open, at, file, i, FlashBuffer, flash, reads, PC, notes>>

NoFile == [name |-> "none", kind |-> "binary", data |-> <<>>, segments |-> <<>>, entry |-> 0,
           notes |-> {}]

Init ==
  /\ CurrentFile = 0
  /\ open = [h \in Handles |-> "nothing"]
  /\ at = "prompt" /\ file = NoFile /\ i = 1
  /\ FlashBuffer = [k \in 0..BufferSize - 1 |-> Zero]
  /\ flash = [a \in 0..FlashSize - 1 |-> Old] /\ reads = "true"
  /\ PC = 0
  /\ notes = [a \in 0..BufferSize - 1 |-> "none"]

Free == {h \in Handles : open[h] = "nothing"}
Lowest(S) == CHOOSE h \in S : \A g \in S : h <= g
Closed(handles, h) == IF h \in Handles THEN [handles EXCEPT ![h] = "nothing"] ELSE handles

\* A port is opened or closed between two commands.
Port ==
  /\ at = "prompt"
  /\ \/ Free # {} /\ (\A h \in Handles : open[h] # "port") /\ open' = [open EXCEPT ![Lowest(Free)] = "port"]
     \/ \E h \in Handles : open[h] = "port" /\ open' = [open EXCEPT ![h] = "nothing"]
  /\ UNCHANGED <<CurrentFile, at, file, i, FlashBuffer, flash, reads, PC, notes>>

\* LoadFileCommand: close what is left of an earlier one, and open the file; Open fails
\* by itself when it cannot, and CurrentFile stays.
LoadFileCommand(f) ==
  /\ at = "prompt"
  /\ LET handles == Closed(open, CurrentFile)
         free    == {h \in Handles : handles[h] = "nothing"}
     IN \/ /\ free # {} /\ f # NoFile
           /\ CurrentFile' = Lowest(free)
           /\ open' = [handles EXCEPT ![Lowest(free)] = "file"]
           /\ at' = "check"
           /\ file' = f
        \/ /\ open' = handles
           /\ UNCHANGED <<CurrentFile, at, file>>
  /\ i' = 1 /\ reads' = "true"
  /\ UNCHANGED <<FlashBuffer, flash, PC, notes>>

\* No name is given: LoadFail.
NoName ==
  /\ at = "prompt"
  /\ open' = Closed(open, CurrentFile)
  /\ CurrentFile' = 0
  /\ UNCHANGED <<at, file, i, FlashBuffer, flash, reads, PC, notes>>

\* Back at the prompt it does not matter which file it was.
Forget ==
  /\ file' = IF at' = "prompt" THEN NoFile ELSE file
  /\ i' = IF at' = "prompt" THEN 1 ELSE i + 1

\* LoadFail gives up the handle and jumps to the prompt.
LoadFail == CurrentFile' = 0 /\ at' = "prompt"

\* The annotations of an ELF file are stored where it has one.
\* A mutant: only where there was none.
Annotated_First(f) ==
  [a \in 0..BufferSize - 1 |-> IF a \in f.notes /\ notes[a] = "none" THEN f.name ELSE notes[a]]
Annotated(f) == [a \in 0..BufferSize - 1 |-> IF a \in f.notes THEN f.name ELSE notes[a]]

\* IsLoadableElf: anything that does not begin as an ELF file is a binary; a bad header
\* is refused before, a bad table of symbols or lines after some of them are stored.
IsLoadableElf ==
  /\ at = "check"
  /\ CASE file.kind = "binary" -> at' = "binary" /\ UNCHANGED <<notes, CurrentFile>>
       [] file.kind = "elf" -> at' = "elf" /\ notes' = Annotated(file) /\ UNCHANGED CurrentFile
       [] file.kind = "bad header" -> LoadFail /\ UNCHANGED notes
       [] file.kind = "bad stabs" -> LoadFail /\ notes' \in {notes, Annotated(file)}
  /\ file' = IF at' = "prompt" THEN NoFile ELSE file
  /\ UNCHANGED <<open, i, FlashBuffer, flash, reads, PC>>

Page(b) == b \div PageSize
Touched(a, n) == {Page(b) : b \in a..a + n - 1}

\* What a byte is after its page was written: as a whole; with anything for what the page had
\* outside the range; erased, or half; or not at all.
\* A mutant: the rest of a page that is written in part is not read first.
Became_Alone(fate, covered, new, old) ==
  CASE fate = "written" -> IF covered THEN new ELSE Junk
    [] fate = "merged" -> IF covered THEN new ELSE Junk
    [] fate = "spoilt" -> Junk
    [] fate = "kept" -> old
Became(fate, covered, new, old) ==
  CASE fate = "written" -> IF covered THEN new ELSE old
    [] fate = "merged" -> IF covered THEN new ELSE Junk
    [] fate = "spoilt" -> Junk
    [] fate = "kept" -> old

Fates == {"written", "merged", "spoilt", "kept"}

\* The pages are written in order, with what was read of them, up to one.
InOrder(fate) ==
  /\ \A p \in DOMAIN fate : fate[p] # "merged"
  /\ \A p, q \in DOMAIN fate : p < q /\ fate[q] # "kept" => fate[p] = "written"

\* n bytes from the buffer are written at address a, unless they do not fit. A page is read
\* first, and its answer may be missing, or from a flash that cannot be read (NonVolatile.c:
\* 192, which leaves it so): then anything may be done to it, also nothing.
WriteFlash(a, n, buf, then) ==
  \/ a + n > FlashSize /\ UNCHANGED <<flash, reads>> /\ at' = "prompt"
  \/ /\ a + n <= FlashSize
     /\ \E fate \in [Touched(a, n) -> Fates] :
          /\ flash' = [b \in 0..FlashSize - 1 |->
               IF Page(b) \in Touched(a, n)
               THEN Became(fate[Page(b)], b \in a..a + n - 1, buf[b - a], flash[b]) ELSE flash[b]]
          /\ \/ reads' = "wrong" /\ at' \in {then, "prompt"}
             \/ UNCHANGED reads /\ at' = then /\ \A p \in DOMAIN fate : fate[p] = "written"
             \/ UNCHANGED reads /\ at' = "prompt" /\ InOrder(fate)

\* Read in to the buffer: what was there stays behind it.
Filled(data) ==
  [k \in 0..BufferSize - 1 |-> IF k < Len(data) THEN data[k + 1] ELSE FlashBuffer[k]]

\* memset: the part of a segment that the file does not have is zero.
\* A mutant: it is left out.
Padded_Not(buf, s) == buf
Padded(buf, s) ==
  [k \in DOMAIN buf |-> IF k \in Len(s.data)..s.memsize - 1 THEN Zero ELSE buf[k]]

Loadable(s) == s.load /\ s.paddr < 8388608

Checked(s) ==
  s.offset # 0 /\ Len(s.data) <= s.memsize /\ s.paddr + s.memsize <= FlashSize

\* One round of LoadElfSegments; cut is a segment whose data the file ends before, with
\* what there is as its data.
Segment ==
  /\ at = "elf" /\ i <= Len(file.segments)
  /\ LET s == file.segments[i]
     IN \/ /\ ~Loadable(s)
           /\ UNCHANGED <<FlashBuffer, flash, reads, at, CurrentFile>>
        \/ /\ Loadable(s) /\ ~Checked(s)
           /\ LoadFail
           /\ UNCHANGED <<FlashBuffer, flash, reads>>
        \/ /\ Loadable(s) /\ Checked(s) /\ s.cut
           /\ FlashBuffer' = Filled(s.data)
           /\ LoadFail
           /\ UNCHANGED <<flash, reads>>
        \/ /\ Loadable(s) /\ Checked(s) /\ ~s.cut
           /\ FlashBuffer' = Padded(Filled(s.data), s)
           /\ IF s.memsize > 0 THEN WriteFlash(s.paddr, s.memsize, FlashBuffer', "elf")
                               ELSE UNCHANGED <<flash, reads, at>>
           /\ UNCHANGED CurrentFile
  /\ Forget
  /\ UNCHANGED <<open, PC, notes>>

Entry(f) == f.entry

Entered ==
  /\ at = "elf" /\ i > Len(file.segments)
  /\ PC' = Entry(file)
  /\ at' = "close"
  /\ UNCHANGED <<CurrentFile, open, file, i, FlashBuffer, flash, reads, notes>>

\* LoadBinary: as much of the file as there is room for in the buffer.
LoadBinary ==
  /\ at = "binary"
  /\ IF file.data = <<>>
     THEN LoadFail /\ UNCHANGED <<FlashBuffer, flash, reads, PC>>
     ELSE LET n == IF Len(file.data) < BufferSize THEN Len(file.data) ELSE BufferSize
          IN /\ FlashBuffer' = Filled(SubSeq(file.data, 1, n))
             /\ WriteFlash(0, n, FlashBuffer', "close")
             /\ PC' = IF at' = "close" THEN 0 ELSE PC
             /\ UNCHANGED CurrentFile
  /\ Forget
  /\ UNCHANGED <<open, notes>>

Close ==
  /\ at = "close"
  /\ open' = Closed(open, CurrentFile)
  /\ CurrentFile' = 0
  /\ at' = "prompt"
  /\ Forget
  /\ UNCHANGED <<FlashBuffer, flash, reads, PC, notes>>

Next ==
  \/ Port \/ NoName
  \/ \E f \in Files : LoadFileCommand(f)
  \/ IsLoadableElf \/ Segment \/ Entered \/ LoadBinary \/ Close

Spec == Init /\ [][Next]_vars

-----------------------------------------------------------------------------
(***************************************************************************)
(* What a file says should be in the flash: of an ELF file the last        *)
(* segment that has the address, zeros where it has no data.               *)
(***************************************************************************)
Covers(f, a) ==
  {k \in DOMAIN f.segments :
     Loadable(f.segments[k]) /\ a \in f.segments[k].paddr..f.segments[k].paddr + f.segments[k].memsize - 1}

Content(s, a) == IF a - s.paddr < Len(s.data) THEN s.data[a - s.paddr + 1] ELSE Zero

Image(f, a) ==
  IF f.kind = "binary" THEN f.data[a + 1]
  ELSE Content(f.segments[CHOOSE k \in Covers(f, a) : \A j \in Covers(f, a) : j <= k], a)

InFile(f, a) == IF f.kind = "binary" THEN a < Len(f.data) ELSE Covers(f, a) # {}

\* Types, and the handle of a file under way is open to it.
TypeOK ==
  /\ open \in [Handles -> {"nothing", "file", "port"}]
  /\ CurrentFile \in Handles \union {0}
  /\ at \in {"prompt", "check", "elf", "binary", "close"}
  /\ at # "prompt" => CurrentFile \in Handles /\ open[CurrentFile] = "file"
  /\ reads \in {"true", "wrong"}
  /\ DOMAIN FlashBuffer = 0..BufferSize - 1 /\ DOMAIN flash = 0..FlashSize - 1

\* When a file has been loaded, and no page was read wrong, the flash holds all of it, no
\* byte left over in the buffer from another segment or file, and PC is where it starts
\* (LoadElfSegments, LoadBinary).
Loaded ==
  at = "close" =>
    /\ reads = "true" => \A a \in 0..FlashSize - 1 : InFile(file, a) => flash[a] = Image(file, a)
    /\ PC = IF file.kind = "binary" THEN 0 ELSE file.entry

\* Loading changes no page of the flash that the file has nothing of, whatever fails or is
\* read wrong; and of the other pages no byte that the file does not have, unless it fails
\* there, or they were read wrong (LoadElfSegments, WriteFlash).
KeepsElsewhere ==
  \A a \in 0..FlashSize - 1 :
    flash'[a] # flash[a] =>
      /\ \E b \in 0..FlashSize - 1 : Page(b) = Page(a) /\ InFile(file, b)
      /\ InFile(file, a) \/ at' = "prompt" \/ reads' = "wrong"

\* The annotations of the file that was loaded last are all there.
AllNotes == at \in {"elf", "close"} /\ file.kind = "elf" => \A a \in file.notes : notes[a] = file.name
=============================================================================
