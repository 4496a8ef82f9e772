----------------------------- MODULE FlashWrite -----------------------------
(***************************************************************************)
(* WriteFlash and WriteFlashPage of src/commands/NonVolatile.c, against a  *)
(* model of the target's self-programming hardware.                        *)
(*                                                                         *)
(* A byte address is the pair (page, offset) that the code computes with   *)
(* pageBaseMask and pageOffsetMask.  A byte is the set of its 1 bits, so   *)
(* programming a page is intersection and "all 0xFF" is Bits everywhere.   *)
(*                                                                         *)
(* A transport failure (Fail's longjmp) can abandon the command between    *)
(* any two operations on the target.  A read can also fail silently:       *)
(* DwReceive's status is ignored, so the destination keeps what it held;   *)
(* and on a device with a boot section a read of the RWW section returns   *)
(* junk until RenableRWW is executed.  `lied' records which reads of the   *)
(* current command returned something other than the target's content.     *)
(***************************************************************************)
EXTENDS Integers

CONSTANTS
  LastPage,      \* pages are 0 .. LastPage
  PageWords,     \* words in a page (PageSize() / 2)
  Bits,          \* the bits of a byte
  Boot,          \* does the device have a boot section (BootSect() # 0)?
  ReadsMayFail,  \* may a read over debugWIRE fail without being noticed?
  Jobs,          \* the (addr, buf, length) arguments the callers pass
  FirstContents  \* what the flash may hold when dwdebug starts

Page   == 0 .. LastPage
Offset == 0 .. (2*PageWords - 1)
Byte   == SUBSET Bits
Content == [Offset -> Byte]

(* One page's share of a buffer: the bytes for some of its offsets. *)
Piece == UNION {[S -> Byte] : S \in SUBSET Offset}

(* A job covers the pages first..last; data[p] holds the bytes for page p. *)
Job == [first : Page, last : Page, data : [Page -> Piece]]

ASSUME FlashAssumption ==
  /\ LastPage \in Nat
  /\ PageWords \in Nat \ {0}
  /\ Boot \in BOOLEAN
  /\ ReadsMayFail \in BOOLEAN
  /\ Jobs \subseteq Job
  /\ \A j \in Jobs : j.first <= j.last
  /\ FirstContents \subseteq [Page -> Content]

VARIABLES
  flash,    \* the target's flash
  rww,      \* can flash be read (RWW section enabled)?
  tbuf,     \* the target's temporary page buffer
  r01,      \* what the target's r0 and r1 hold: "user" or "scratch"
  R01,      \* R[0] and R[1], the host's copy of them
  pc,       \* where WriteFlash has got to
  job,      \* WriteFlash's arguments
  cur,      \* the page of addr
  image,    \* WriteFlashPage's buf: the page to be written
  word,     \* LoadPageBuffer's progress
  before,   \* history: the flash when WriteFlash was called
  lied,     \* history: the reads of this command that were wrong
  failed    \* history: has any command been abandoned, or saved wrong r0, r1?

host    == <<pc, job, cur, image, word>>
history == <<before, lied, failed>>
vars    == <<flash, rww, tbuf, r01, R01, host, history>>

Blank == [o \in Offset |-> Bits]

(* The arguments outside a call. *)
NoJob == [first |-> 0, last |-> 0, data |-> [p \in Page |-> << >>]]
-----------------------------------------------------------------------------
\* A mutant: the bytes around the data are filled with 0xFF, not read.
Merge_Fill(j, p, old) ==
  [o \in Offset |-> IF o \in DOMAIN j.data[p] THEN j.data[p][o] ELSE Bits]

(* `buf' in place of the bytes of `old' that job j covers on page p. *)
Merge(j, p, old) ==
  [o \in Offset |-> IF o \in DOMAIN j.data[p] THEN j.data[p][o] ELSE old[o]]

\* A mutant: the last, partial page is written like a whole one.
WholePage_AnyPart(j, p) == DOMAIN j.data[p] # {}

WholePage(j, p) == DOMAIN j.data[p] = Offset

\* A mutant: the operands of the test are swapped.
NeedsErase_Swapped(old, new) == \E o \in Offset : ~(old[o] \subseteq new[o])

(* Does writing `new' over `old' have to turn a 0 bit into a 1? *)
NeedsErase(old, new) == \E o \in Offset : ~(new[o] \subseteq old[o])

(* What a DwReadFlash of page p may return given the RWW state. *)
ReadResults(p, readable) ==
  IF ReadsMayFail \/ ~readable THEN Content ELSE {flash[p]}

Lied(what, wrong) == lied' = IF wrong THEN lied \union {what} ELSE lied

Init ==
  /\ flash \in FirstContents
  /\ rww = TRUE
  /\ tbuf = Blank
  /\ r01 = "user"
  /\ R01 = "scratch"
  /\ pc = "idle"
  /\ job = NoJob
  /\ cur = 0
  /\ image = Blank
  /\ word = 0
  /\ before = flash
  /\ lied = {}
  /\ failed = FALSE

(* The registers are cached first.  Afterwards WriteFlash runs over the    *)
(* pages in order: the part of the first, the whole ones, the part of the  *)
(* last.                                                                   *)
WriteFlash(j) ==
  /\ pc = "idle"
  /\ \E saved \in IF ReadsMayFail THEN {r01, "scratch"} ELSE {r01} :
       /\ R01' = saved
       /\ failed' = (failed \/ saved # r01)
  /\ job' = j
  /\ cur' = j.first
  /\ pc' = "page"
  /\ before' = flash
  /\ lied' = {}
  /\ UNCHANGED <<flash, rww, tbuf, r01, image, word>>

(* A page that buf covers only in part is read and merged; the read is not *)
(* preceded by RenableRWW.                                                 *)
PartPage ==
  /\ pc = "page"
  /\ cur <= job.last
  /\ ~WholePage(job, cur)
  /\ \E read \in ReadResults(cur, rww) :
       /\ image' = Merge(job, cur, read)
       /\ Lied("merge", read # flash[cur])
  /\ pc' = "verify"
  /\ UNCHANGED <<flash, rww, tbuf, r01, R01, job, cur, word, before, failed>>

FullPage ==
  /\ pc = "page"
  /\ cur <= job.last
  /\ WholePage(job, cur)
  /\ image' = job.data[cur]
  /\ pc' = "verify"
  /\ UNCHANGED <<flash, rww, tbuf, r01, R01, job, cur, word, history>>

\* A mutant: a page is written but addr is not advanced.
NextPage_Stays == pc' = "page" /\ cur' = cur

NextPage == pc' = "page" /\ cur' = cur + 1

(* A page that is to be all 0xFF is complete when it is erased: there      *)
(* WriteFlashPage returns, without the RenableRWW it otherwise ends with.  *)
LoadUnlessBlank ==
  IF image = Blank THEN NextPage ELSE pc' = "load" /\ UNCHANGED cur

\* A mutant: every page that differs is erased.
Decide_AlwaysErase(read) ==
  \/ read = image /\ NextPage
  \/ read # image /\ pc' = "erase" /\ UNCHANGED cur

(* WriteFlashPage's decision, given what it has read of the page.          *)
Decide(read) ==
  \/ read = image /\ NextPage
  \/ NeedsErase(read, image) /\ pc' = "erase" /\ UNCHANGED cur
  \/ read # image /\ ~NeedsErase(read, image) /\ LoadUnlessBlank

(* RenableRWW and the read come first. *)
VerifyPage ==
  /\ pc = "verify"
  /\ rww' = TRUE
  /\ \E read \in ReadResults(cur, TRUE) :
       /\ Lied("verify", read # flash[cur])
       /\ Decide(read)
  /\ word' = 0
  /\ UNCHANGED <<flash, tbuf, r01, R01, job, image, before, failed>>

\* A mutant: the high byte of the page address is lost.
ErasePage_LowAddress ==
  /\ pc = "erase"
  /\ flash' = [flash EXCEPT ![0] = Blank]
  /\ rww' = ~Boot
  /\ LoadUnlessBlank
  /\ UNCHANGED <<tbuf, r01, R01, job, image, word, history>>

ErasePage ==
  /\ pc = "erase"
  /\ flash' = [flash EXCEPT ![cur] = Blank]
  /\ rww' = ~Boot
  /\ LoadUnlessBlank
  /\ UNCHANGED <<tbuf, r01, R01, job, image, word, history>>

\* A mutant: only r0 is loaded.
LoadWord_LowByte ==
  /\ pc = "load"
  /\ word < PageWords
  /\ tbuf' = [tbuf EXCEPT ![2*word] = image[2*word]]
  /\ r01' = "scratch"
  /\ word' = word + 1
  /\ pc' = IF word + 1 = PageWords THEN "program" ELSE "load"
  /\ UNCHANGED <<flash, rww, R01, job, cur, image, history>>

(* One turn of LoadPageBuffer's loop: r0 and r1 carry the word. *)
LoadWord ==
  /\ pc = "load"
  /\ word < PageWords
  /\ tbuf' = [tbuf EXCEPT ![2*word] = image[2*word],
                          ![2*word + 1] = image[2*word + 1]]
  /\ r01' = "scratch"
  /\ word' = word + 1
  /\ pc' = IF word + 1 = PageWords THEN "program" ELSE "load"
  /\ UNCHANGED <<flash, rww, R01, job, cur, image, history>>

(* Programming can only clear bits; it empties the page buffer. *)
ProgramPage ==
  /\ pc = "program"
  /\ flash' = [flash EXCEPT ![cur] = [o \in Offset |-> @[o] \intersect tbuf[o]]]
  /\ tbuf' = Blank
  /\ rww' = ~Boot
  /\ pc' = "settle"
  /\ UNCHANGED <<r01, R01, job, cur, image, word, history>>

(* The wait for the end of programming (the SPMCSR loop or DwSync), then   *)
(* RenableRWW.                                                             *)
FinishPage ==
  /\ pc = "settle"
  /\ rww' = TRUE
  /\ NextPage
  /\ UNCHANGED <<flash, tbuf, r01, R01, job, image, word, history>>

(* WriteFlash's arguments and locals are gone. *)
Leave ==
  /\ pc' = "idle"
  /\ job' = NoJob
  /\ cur' = 0
  /\ image' = Blank
  /\ word' = 0
  /\ before' = flash
  /\ lied' = {}

\* A mutant: r0 and r1 are not restored.
Return_KeepsScratch ==
  /\ pc = "page"
  /\ cur > job.last
  /\ Leave
  /\ UNCHANGED <<flash, rww, tbuf, r01, R01, failed>>

Return ==
  /\ pc = "page"
  /\ cur > job.last
  /\ r01' = R01
  /\ Leave
  /\ UNCHANGED <<flash, rww, tbuf, R01, failed>>

(* Fail: a transport error abandons the command where it is. *)
Fail ==
  /\ pc # "idle"
  /\ Leave
  /\ failed' = TRUE
  /\ UNCHANGED <<flash, rww, tbuf, r01, R01>>

Continue ==
  \/ PartPage \/ FullPage \/ VerifyPage \/ ErasePage
  \/ LoadWord \/ ProgramPage \/ FinishPage \/ Return

Next == Continue \/ Fail \/ \E j \in Jobs : WriteFlash(j)

Spec == Init /\ [][Next]_vars

(* WriteFlash is a single thread that is never blocked: once called it     *)
(* keeps running.  A new call and a failure need not ever happen.          *)
FairSpec == Spec /\ WF_vars(Continue)
-----------------------------------------------------------------------------
TypeOK ==
  /\ flash \in [Page -> Content]
  /\ rww \in BOOLEAN
  /\ tbuf \in Content
  /\ r01 \in {"user", "scratch"}
  /\ R01 \in {"user", "scratch"}
  /\ pc \in {"idle", "page", "verify", "erase", "load", "program", "settle"}
  /\ job \in Jobs \union {NoJob}
  /\ cur \in 0 .. LastPage + 1
  /\ image \in Content
  /\ word \in 0 .. PageWords
  /\ before \in [Page -> Content]
  /\ lied \in SUBSET {"merge", "verify"}
  /\ failed \in BOOLEAN

Pages(j) == j.first .. j.last

(* What the flash should hold after job j: its bytes over the old content. *)
Overlay(j, f) ==
  [p \in Page |-> [o \in Offset |->
     IF p \in Pages(j) /\ o \in DOMAIN j.data[p] THEN j.data[p][o] ELSE f[p][o]]]

Returning == pc = "page" /\ cur > job.last

(* Pages the written range does not reach keep their content whatever goes *)
(* wrong: silent read failures, junk from the RWW section, a Fail in the   *)
(* middle (WriteFlash's addr/buf/length arithmetic).                       *)
PagesElsewhereKept ==
  pc # "idle" => \A p \in Page \ Pages(job) : flash[p] = before[p]

(* When WriteFlash returns, every byte of the range holds the caller's     *)
(* data if only WriteFlashPage's own reads were true; the read that fills  *)
(* up a partial page may have returned anything.                           *)
RangeWritten ==
  Returning /\ "verify" \notin lied =>
    \A p \in Pages(job) : \A o \in DOMAIN job.data[p] :
      flash[p][o] = job.data[p][o]

(* When WriteFlash returns and its reads were true, the flash is the old   *)
(* content with the buffer laid over it, also in the pages it had to merge,*)
(* erase and program again.                                                *)
ReturnsOverlay ==
  Returning /\ lied = {} => flash = Overlay(job, before)

(* Between commands the target's r0 and r1, which carry the data to the    *)
(* page buffer, hold the user's values again, whichever way each page's    *)
(* write ended, unless a command was abandoned half way.                   *)
RegistersKept == pc = "idle" /\ ~failed => r01 = "user"

(* Manual.md:119, 121: a page that already holds the data is never changed,*)
(* and a 0 bit becomes 1 only on a page where the data needs a 1 over a 0, *)
(* at every step of a command whose reads were true.                       *)
WearMinimal ==
  [][\A p \in Page :
       LET wanted == Overlay(job, before)[p]
       IN  lied = {} /\ flash'[p] # flash[p] =>
             /\ wanted # before[p]
             /\ NeedsErase(flash[p], flash'[p]) => NeedsErase(before[p], wanted)]_vars

(* Manual.md:119 as it stands: "Flash pages that already contain the data  *)
(* being loaded are not touched", whatever the page reads return.          *)
MatchingPagesUntouched ==
  [][\A p \in Page :
       pc # "idle" /\ Overlay(job, before)[p] = before[p] => flash'[p] = flash[p]]_vars

(* Once called, WriteFlash returns or fails: it advances on every page,    *)
(* unchanged, merely erased or programmed.                                 *)
Terminates == pc # "idle" ~> pc = "idle"

(* Seen from the flash array alone WriteFlash does what FlashUpdate        *)
(* promises: the goal is the buffer laid over the old content.             *)
Update == INSTANCE FlashUpdate WITH
  goal <- IF pc = "idle" THEN flash ELSE Overlay(job, before),
  busy <- pc # "idle"

ImplementsUpdate == Update!USpec
=============================================================================
