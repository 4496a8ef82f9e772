-------------------------- MODULE FlashWriteProofs --------------------------
(***************************************************************************)
(* Theorems about FlashWrite, for every page size, number of pages, byte   *)
(* width and set of jobs, with and without a boot section and silent read  *)
(* failures.                                                               *)
(***************************************************************************)
EXTENDS FlashWrite, TLAPS

InPage == pc \in {"verify", "erase", "load", "program", "settle"}

(* The arguments are a caller's, and addr stays in or just past the range. *)
CallOK ==
  pc # "idle" =>
    /\ job \in Jobs
    /\ cur \in job.first .. job.last + 1
    /\ InPage => cur <= job.last

(* What WriteFlash has not reached yet still has its old content. *)
AheadKept ==
  pc # "idle" =>
    \A p \in Page :
      \/ p \notin Pages(job)
      \/ p > cur
      \/ p = cur /\ pc \in {"page", "verify", "erase"}
      => flash[p] = before[p]

(* What it has passed holds the data; the rest of a page is what it was if *)
(* every read was true.                                                    *)
BehindWritten ==
  pc # "idle" =>
    \A p \in Pages(job) : p < cur =>
      /\ "verify" \notin lied =>
           \A o \in DOMAIN job.data[p] : flash[p][o] = job.data[p][o]
      /\ lied = {} => flash[p] = Merge(job, p, before[p])

(* The image under way. *)
ImageOK ==
  InPage =>
    /\ \A o \in DOMAIN job.data[cur] : image[o] = job.data[cur][o]
    /\ "merge" \notin lied => image = Merge(job, cur, before[cur])

(* A page about to be erased needs it; by the time the page buffer is      *)
(* loaded, programming only clears bits.                                   *)
ClearsOnly ==
  "verify" \notin lied =>
    /\ pc = "erase" => NeedsErase(flash[cur], image)
    /\ pc \in {"load", "program"} => ~NeedsErase(flash[cur], image)

BufferOK ==
  /\ pc = "erase" => word = 0
  /\ pc = "load" => /\ word < PageWords
                    /\ \A o \in Offset : o < 2*word => tbuf[o] = image[o]
  /\ pc = "program" => tbuf = image

Programmed ==
  pc = "settle" /\ "verify" \notin lied => flash[cur] = image

Progress == CallOK /\ AheadKept /\ BehindWritten

IInv == TypeOK /\ Progress /\ ImageOK /\ ClearsOnly /\ BufferOK /\ Programmed
-----------------------------------------------------------------------------
(* A job's pages are pages. *)
LEMMA JobPages ==
  ASSUME NEW j \in Jobs
  PROVE  /\ j.first \in Page /\ j.last \in Page /\ j.first <= j.last
         /\ \A p \in Page : j.data[p] \in Piece
  BY FlashAssumption DEF Job

(* Laying a piece over a page's content gives a page's content. *)
LEMMA MergeType ==
  ASSUME NEW j \in Jobs, NEW p \in Page, NEW old \in Content
  PROVE  Merge(j, p, old) \in Content
<1>1. PICK S \in SUBSET Offset : j.data[p] \in [S -> Byte]
  BY JobPages, ZenonT(60), SMTT(60) DEF Piece
<1>2. ASSUME NEW o \in Offset
      PROVE  (IF o \in DOMAIN j.data[p] THEN j.data[p][o] ELSE old[o]) \in Byte
  BY <1>1, <1>2 DEF Content
<1> QED
  BY <1>2 DEF Merge, Content

(* A piece that covers its page is a page's content, and laid over the     *)
(* page it leaves nothing of it.                                           *)
LEMMA WholePieces ==
  ASSUME NEW j \in Jobs, NEW p \in Page, WholePage(j, p), NEW old
  PROVE  /\ j.data[p] \in Content
         /\ Merge(j, p, old) = j.data[p]
<1>1. PICK S \in SUBSET Offset : j.data[p] \in [S -> Byte]
  BY JobPages, ZenonT(60), SMTT(60) DEF Piece
<1>2. S = Offset
  BY <1>1 DEF WholePage
<1>3. j.data[p] \in Content
  BY <1>1, <1>2 DEF Content
<1>4. Merge(j, p, old) = [o \in Offset |-> j.data[p][o]]
  BY DEF Merge, WholePage
<1>5. j.data[p] = [o \in Offset |-> j.data[p][o]]
  BY <1>3 DEF Content
<1> QED
  BY <1>3, <1>4, <1>5

LEMMA MergeCovered ==
  ASSUME NEW j \in Jobs, NEW p \in Page, NEW old
  PROVE  \A o \in DOMAIN j.data[p] : Merge(j, p, old)[o] = j.data[p][o]
<1>1. PICK S \in SUBSET Offset : j.data[p] \in [S -> Byte]
  BY JobPages, ZenonT(60), SMTT(60) DEF Piece
<1> QED
  BY <1>1 DEF Merge

(* Overlay, page by page. *)
LEMMA OverlayPage ==
  ASSUME NEW j \in Jobs, NEW f \in [Page -> Content], NEW p \in Page
  PROVE  Overlay(j, f)[p] = IF p \in Pages(j) THEN Merge(j, p, f[p]) ELSE f[p]
<1>1. f[p] = [o \in Offset |-> f[p][o]]
  BY DEF Content
<1> QED
  BY <1>1 DEF Overlay, Merge

LEMMA OverlayType ==
  ASSUME NEW j \in Jobs, NEW f \in [Page -> Content]
  PROVE  Overlay(j, f) \in [Page -> Content]
<1>1. ASSUME NEW p \in Page PROVE Overlay(j, f)[p] \in Content
  BY MergeType, OverlayPage
<1>2. Overlay(j, f) = [p \in Page |-> Overlay(j, f)[p]]
  BY DEF Overlay
<1> QED
  BY <1>1, <1>2

LEMMA BlankType == Blank \in Content
  BY DEF Blank, Content, Byte

LEMMA ReadType ==
  ASSUME TypeOK, NEW p \in Page, NEW b
  PROVE  ReadResults(p, b) \subseteq Content
  BY DEF TypeOK, ReadResults
-----------------------------------------------------------------------------
LEMMA InitInv == Init => IInv
<1> SUFFICES ASSUME Init PROVE IInv
  OBVIOUS
<1>a. flash \in [Page -> Content] /\ before \in [Page -> Content]
  BY FlashAssumption DEF Init
<1>b. cur \in 0 .. LastPage + 1 /\ word \in 0 .. PageWords
  BY FlashAssumption DEF Init
<1>1. TypeOK
  BY <1>a, <1>b, BlankType DEF Init, TypeOK
<1>2. pc = "idle"
  BY DEF Init
<1> QED
  BY <1>1, <1>2 DEF IInv, Progress, CallOK, AheadKept, BehindWritten, InPage,
                    ImageOK, ClearsOnly, BufferOK, Programmed

LEMMA StutterInv == IInv /\ UNCHANGED vars => IInv'
<1> SUFFICES ASSUME IInv, UNCHANGED vars PROVE IInv'
  OBVIOUS
<1>0. UNCHANGED <<flash, rww, tbuf, r01, R01, pc, job, cur, image, word, before, lied,
                  failed>>
  BY DEF vars, host, history
<1>1. TypeOK'
  BY <1>0 DEF IInv, TypeOK
<1>2. Progress'
  BY <1>0 DEF IInv, Progress, CallOK, AheadKept, BehindWritten, InPage, Pages, Merge
<1>3. ImageOK'
  BY <1>0 DEF IInv, ImageOK, InPage, Merge
<1>4. ClearsOnly' /\ BufferOK' /\ Programmed'
  BY <1>0 DEF IInv, ClearsOnly, BufferOK, Programmed, NeedsErase
<1> QED
  BY <1>1, <1>2, <1>3, <1>4 DEF IInv

LEMMA WriteFlashInv ==
  ASSUME IInv, NEW j \in Jobs, WriteFlash(j)
  PROVE  IInv'
<1>1. TypeOK'
  BY JobPages, FlashAssumption DEF IInv, TypeOK, WriteFlash, Page
<1>2. Progress'
  BY <1>1, JobPages, FlashAssumption
  DEF WriteFlash, Progress, CallOK, AheadKept, BehindWritten, InPage, Pages, Page,
      IInv, TypeOK
<1> QED
  BY <1>1, <1>2 DEF WriteFlash, IInv, InPage, ImageOK, ClearsOnly, BufferOK, Programmed

LEMMA PartPageInv ==
  ASSUME IInv, PartPage
  PROVE  IInv'
<1> USE DEF IInv
<1>0. /\ job \in Jobs /\ cur \in Page /\ cur \in Pages(job)
      /\ pc = "page" /\ pc' = "verify" /\ cur <= job.last
      /\ UNCHANGED <<flash, rww, tbuf, r01, R01, job, cur, word, before, failed>>
  BY JobPages, FlashAssumption DEF PartPage, Progress, CallOK, Pages, TypeOK, Page
<1>1. PICK read \in ReadResults(cur, rww) :
        image' = Merge(job, cur, read) /\ Lied("merge", read # flash[cur])
  BY DEF PartPage
<1>2. read \in Content
  BY <1>0, <1>1, ReadType
<1>3. TypeOK'
  BY <1>0, <1>1, <1>2, MergeType DEF TypeOK, Lied
<1>4. lied \subseteq lied' /\ ("merge" \notin lied' => read = flash[cur])
  BY <1>1 DEF Lied
<1>5. Progress'
  BY <1>0, <1>4 DEF Progress, CallOK, AheadKept, BehindWritten, InPage, Pages, Merge
<1>6. flash[cur] = before[cur]
  BY <1>0 DEF Progress, AheadKept
<1>7. ImageOK'
  BY <1>0, <1>1, <1>4, <1>6, MergeCovered DEF ImageOK, InPage, Merge
<1> QED
  BY <1>0, <1>3, <1>5, <1>7 DEF ClearsOnly, BufferOK, Programmed

LEMMA FullPageInv ==
  ASSUME IInv, FullPage
  PROVE  IInv'
<1> USE DEF IInv
<1>0. /\ job \in Jobs /\ cur \in Page /\ cur \in Pages(job)
      /\ pc = "page" /\ pc' = "verify" /\ cur <= job.last
      /\ UNCHANGED <<flash, rww, tbuf, r01, R01, job, cur, word, history>>
      /\ WholePage(job, cur) /\ image' = job.data[cur]
  BY JobPages, FlashAssumption DEF FullPage, Progress, CallOK, Pages, TypeOK, Page
<1>1. image' \in Content /\ image' = Merge(job, cur, before[cur])
  BY <1>0, WholePieces
<1>2. TypeOK'
  BY <1>0, <1>1 DEF TypeOK, history
<1>3. Progress'
  BY <1>0 DEF Progress, CallOK, AheadKept, BehindWritten, InPage, Pages, Merge, history
<1>4. ImageOK'
  BY <1>0, <1>1 DEF ImageOK, InPage, Merge, history
<1> QED
  BY <1>0, <1>2, <1>3, <1>4 DEF ClearsOnly, BufferOK, Programmed

(* What the step from page cur to the next one needs: cur holds the data.  *)
LEMMA NextPageProgress ==
  ASSUME IInv, InPage, NextPage, job' = job, before' = before, lied \subseteq lied',
         \A p \in Page : p # cur => flash'[p] = flash[p],
         "verify" \notin lied' =>
            \A o \in DOMAIN job.data[cur] : flash'[cur][o] = job.data[cur][o],
         lied' = {} => flash'[cur] = Merge(job, cur, before[cur])
  PROVE  Progress'
<1> USE DEF IInv
<1>0. /\ job \in Jobs /\ cur \in job.first .. job.last /\ cur' = cur + 1 /\ pc' = "page"
      /\ job.first \in Int /\ job.last \in Int /\ pc # "idle"
      /\ job.first .. job.last \subseteq Page
  BY JobPages, FlashAssumption DEF Progress, CallOK, InPage, NextPage, Page
<1>1. CallOK'
  BY <1>0 DEF CallOK, InPage
<1>2. AheadKept'
  <2> SUFFICES ASSUME NEW p \in Page, p \notin Pages(job) \/ p > cur
               PROVE  flash'[p] = before[p]
    BY <1>0 DEF AheadKept, Pages, Page
  <2>1. p # cur
    BY <1>0 DEF Pages
  <2> QED
    BY <2>1, <1>0 DEF Progress, AheadKept
<1>3. BehindWritten'
  <2> SUFFICES ASSUME NEW p \in Pages(job), p < cur + 1
               PROVE  /\ "verify" \notin lied' =>
                           \A o \in DOMAIN job.data[p] : flash'[p][o] = job.data[p][o]
                      /\ lied' = {} => flash'[p] = Merge(job, p, before[p])
    BY <1>0 DEF BehindWritten, Pages, Merge
  <2>1. CASE p = cur
    BY <2>1
  <2>2. CASE p # cur
    <3>1. p < cur /\ p \in Page /\ flash'[p] = flash[p]
      BY <2>2, <1>0 DEF Pages
    <3> QED
      BY <3>1, <1>0 DEF Progress, BehindWritten
  <2> QED
    BY <2>1, <2>2
<1> QED
  BY <1>1, <1>2, <1>3 DEF Progress

LEMMA VerifyPageInv ==
  ASSUME IInv, VerifyPage
  PROVE  IInv'
<1> USE DEF IInv
<1>0. /\ job \in Jobs /\ cur \in Page /\ cur \in Pages(job) /\ cur <= job.last
      /\ pc = "verify" /\ InPage
      /\ UNCHANGED <<flash, tbuf, r01, R01, job, image, before, failed>>
      /\ rww' = TRUE /\ word' = 0
  BY JobPages, FlashAssumption
  DEF VerifyPage, Progress, CallOK, Pages, TypeOK, Page, InPage
<1>1. PICK read \in ReadResults(cur, TRUE) :
        /\ Lied("verify", read # flash[cur])
        /\ \/ read = image /\ NextPage
           \/ NeedsErase(read, image) /\ pc' = "erase" /\ UNCHANGED cur
           \/ read # image /\ ~NeedsErase(read, image) /\ LoadUnlessBlank
  BY DEF VerifyPage, Decide
<1>2. /\ lied \subseteq lied' /\ lied' \in SUBSET {"merge", "verify"}
      /\ "verify" \notin lied' => read = flash[cur]
      /\ "merge" \notin lied' => "merge" \notin lied
  BY <1>1 DEF Lied, TypeOK
<1>3. TypeOK'
  <2>1. pc' \in {"page", "erase", "load"} /\ cur' \in 0 .. LastPage + 1
    BY <1>0, <1>1, FlashAssumption DEF NextPage, LoadUnlessBlank, TypeOK, Page
  <2> QED
    BY <2>1, <1>0, <1>2, FlashAssumption DEF TypeOK
<1>4. flash[cur] = before[cur]
  BY <1>0 DEF Progress, AheadKept
<1>5. /\ \A o \in DOMAIN job.data[cur] : image[o] = job.data[cur][o]
      /\ "merge" \notin lied => image = Merge(job, cur, before[cur])
  BY <1>0 DEF ImageOK
<1>6. CASE read = image /\ NextPage
  <2>1. Progress'
    BY <1>0, <1>2, <1>5, <1>6, NextPageProgress
  <2> QED
    BY <1>3, <1>6, <2>1
    DEF NextPage, ImageOK, InPage, ClearsOnly, BufferOK, Programmed
<1>7. CASE NeedsErase(read, image) /\ pc' = "erase" /\ UNCHANGED cur
  <2>1. Progress'
    BY <1>0, <1>2, <1>7
    DEF Progress, CallOK, AheadKept, BehindWritten, InPage, Pages, Merge
  <2>2. ImageOK'
    BY <1>0, <1>2, <1>5, <1>7 DEF ImageOK, InPage, Merge
  <2>3. ClearsOnly'
    BY <1>0, <1>2, <1>7 DEF ClearsOnly, NeedsErase
  <2> QED
    BY <1>0, <1>3, <1>7, <2>1, <2>2, <2>3 DEF BufferOK, Programmed
<1>8. CASE read # image /\ ~NeedsErase(read, image) /\ LoadUnlessBlank
  <2>1. image # Blank
    <3>1. read \in Content /\ image \in Content
      BY <1>0, ReadType DEF TypeOK
    <3>2. ASSUME image = Blank PROVE read = image
      <4>1. \A o \in Offset : Bits \subseteq read[o] /\ read[o] \subseteq Bits
        BY <1>8, <3>1, <3>2 DEF NeedsErase, Blank, Content, Byte
      <4>2. \A o \in Offset : read[o] = Bits
        BY <4>1
      <4> QED
        BY <4>2, <3>1, <3>2 DEF Blank, Content
    <3> QED
      BY <1>8, <3>2
  <2>2. pc' = "load" /\ UNCHANGED cur
    BY <1>8, <2>1 DEF LoadUnlessBlank
  <2>3. Progress'
    BY <1>0, <1>2, <2>2
    DEF Progress, CallOK, AheadKept, BehindWritten, InPage, Pages, Merge
  <2>4. ImageOK'
    BY <1>0, <1>2, <1>5, <2>2 DEF ImageOK, InPage, Merge
  <2>5. ClearsOnly'
    BY <1>0, <1>2, <1>8, <2>2 DEF ClearsOnly, NeedsErase
  <2>6. BufferOK'
    BY <1>0, <2>2, FlashAssumption DEF BufferOK, Offset
  <2> QED
    BY <1>3, <2>2, <2>3, <2>4, <2>5, <2>6 DEF Programmed
<1> QED
  BY <1>1, <1>6, <1>7, <1>8

LEMMA ErasePageInv ==
  ASSUME IInv, ErasePage
  PROVE  IInv'
<1> USE DEF IInv
<1>0. /\ job \in Jobs /\ cur \in Page /\ cur \in Pages(job) /\ cur <= job.last
      /\ pc = "erase" /\ InPage
      /\ flash' = [flash EXCEPT ![cur] = Blank]
      /\ rww' = ~Boot /\ LoadUnlessBlank
      /\ UNCHANGED <<tbuf, r01, R01, job, image, word, before, lied, failed>>
  BY JobPages, FlashAssumption
  DEF ErasePage, Progress, CallOK, Pages, TypeOK, Page, InPage, history
<1>1. /\ flash'[cur] = Blank
      /\ \A p \in Page : p # cur => flash'[p] = flash[p]
      /\ flash' \in [Page -> Content]
  BY <1>0, BlankType DEF TypeOK
<1>2. /\ \A o \in DOMAIN job.data[cur] : image[o] = job.data[cur][o]
      /\ "merge" \notin lied => image = Merge(job, cur, before[cur])
  BY <1>0 DEF ImageOK
<1>3. TypeOK'
  <2>1. pc' \in {"page", "load"} /\ cur' \in 0 .. LastPage + 1
    BY <1>0, FlashAssumption DEF NextPage, LoadUnlessBlank, TypeOK, Page
  <2> QED
    BY <2>1, <1>0, <1>1 DEF TypeOK
<1>4. CASE image = Blank
  <2>0. NextPage
    BY <1>0, <1>4 DEF LoadUnlessBlank
  <2>1. Progress'
    BY <1>0, <1>1, <1>2, <1>4, <2>0, NextPageProgress
  <2> QED
    BY <1>3, <2>0, <2>1
    DEF NextPage, ImageOK, InPage, ClearsOnly, BufferOK, Programmed
<1>5. CASE image # Blank
  <2>0. pc' = "load" /\ UNCHANGED cur
    BY <1>0, <1>5 DEF LoadUnlessBlank
  <2>1. Progress'
    BY <1>0, <1>1, <2>0, JobPages, FlashAssumption
    DEF Progress, CallOK, AheadKept, BehindWritten, InPage, Pages, Merge, Page
  <2>2. ImageOK'
    BY <1>0, <1>2, <2>0 DEF ImageOK, InPage, Merge
  <2>3. ClearsOnly'
    BY <1>0, <1>1, <2>0 DEF ClearsOnly, NeedsErase, TypeOK, Content, Byte, Blank
  <2>4. BufferOK'
    BY <1>0, <2>0, FlashAssumption DEF BufferOK, Offset
  <2> QED
    BY <1>3, <2>0, <2>1, <2>2, <2>3, <2>4 DEF Programmed
<1> QED
  BY <1>4, <1>5

LEMMA LoadWordInv ==
  ASSUME IInv, LoadWord
  PROVE  IInv'
<1> USE DEF IInv
<1>0. /\ job \in Jobs /\ cur \in Page /\ cur \in Pages(job) /\ cur <= job.last
      /\ pc = "load" /\ pc' \in {"load", "program"}
      /\ word \in Nat /\ word < PageWords /\ PageWords \in Nat /\ word' = word + 1
      /\ pc' = IF word + 1 = PageWords THEN "program" ELSE "load"
      /\ tbuf' = [tbuf EXCEPT ![2*word] = image[2*word],
                              ![2*word + 1] = image[2*word + 1]]
      /\ r01' = "scratch"
      /\ UNCHANGED <<flash, rww, R01, job, cur, image, before, lied, failed>>
  BY JobPages, FlashAssumption
  DEF LoadWord, Progress, CallOK, Pages, TypeOK, Page, InPage, history
<1>1. 2*word \in Offset /\ 2*word + 1 \in Offset
  BY <1>0 DEF Offset
<1>2. tbuf \in Content /\ image \in Content
  BY DEF TypeOK
<1>3. TypeOK'
  <2>1. tbuf' \in Content
    BY <1>0, <1>1, <1>2 DEF Content
  <2> QED
    BY <2>1, <1>0 DEF TypeOK
<1>4. Progress'
  BY <1>0 DEF Progress, CallOK, AheadKept, BehindWritten, InPage, Pages, Merge
<1>5. ImageOK'
  BY <1>0 DEF ImageOK, InPage, Merge
<1>6. ClearsOnly'
  BY <1>0 DEF ClearsOnly, NeedsErase
<1>7. \A o \in Offset : o < 2*(word + 1) => tbuf'[o] = image[o]
  <2> SUFFICES ASSUME NEW o \in Offset, o < 2*(word + 1)
               PROVE  tbuf'[o] = image[o]
    OBVIOUS
  <2>1. o < 2*word \/ o = 2*word \/ o = 2*word + 1
    BY <1>0 DEF Offset
  <2> QED
    BY <2>1, <1>0, <1>1, <1>2 DEF BufferOK, Content
<1>8. BufferOK'
  <2>1. CASE word + 1 # PageWords
    <3>1. pc' = "load" /\ word' < PageWords
      BY <2>1, <1>0
    <3>2. \A o \in Offset : o < 2*word' => tbuf'[o] = image'[o]
      BY <1>0, <1>7
    <3> QED
      BY <3>1, <3>2 DEF BufferOK
  <2>2. CASE word + 1 = PageWords
    <3>1. \A o \in Offset : o < 2*(word + 1)
      BY <2>2, <1>0 DEF Offset
    <3>2. tbuf' \in Content
      BY <1>3 DEF TypeOK
    <3>3. tbuf' = image
      BY <3>1, <3>2, <1>2, <1>7 DEF Content
    <3> QED
      BY <3>3, <2>2, <1>0 DEF BufferOK
  <2> QED
    BY <2>1, <2>2
<1> QED
  BY <1>0, <1>3, <1>4, <1>5, <1>6, <1>8 DEF Programmed

LEMMA ProgramPageInv ==
  ASSUME IInv, ProgramPage
  PROVE  IInv'
<1> USE DEF IInv
<1>0. /\ job \in Jobs /\ cur \in Page /\ cur \in Pages(job) /\ cur <= job.last
      /\ pc = "program" /\ pc' = "settle" /\ tbuf' = Blank /\ rww' = ~Boot
      /\ UNCHANGED <<r01, R01, job, cur, image, word, before, lied, failed>>
  BY JobPages, FlashAssumption
  DEF ProgramPage, Progress, CallOK, Pages, TypeOK, Page, InPage, history
<1>1. /\ flash \in [Page -> Content] /\ image \in Content /\ tbuf = image
  BY <1>0 DEF TypeOK, BufferOK
<1>2. /\ flash' = [flash EXCEPT ![cur] = [o \in Offset |-> @[o] \intersect tbuf[o]]]
      /\ flash'[cur] = [o \in Offset |-> flash[cur][o] \intersect image[o]]
      /\ \A p \in Page : p # cur => flash'[p] = flash[p]
  BY <1>0, <1>1 DEF ProgramPage
<1>3. flash'[cur] \in Content
  BY <1>0, <1>1, <1>2 DEF Content, Byte
<1>4. TypeOK'
  <2>1. flash' \in [Page -> Content]
    BY <1>0, <1>1, <1>2, <1>3
  <2> QED
    BY <2>1, <1>0, BlankType DEF TypeOK
<1>5. Progress'
  BY <1>0, <1>2, JobPages, FlashAssumption
  DEF Progress, CallOK, AheadKept, BehindWritten, InPage, Pages, Merge, Page
<1>6. ImageOK'
  BY <1>0 DEF ImageOK, InPage, Merge
<1>7. Programmed'
  <2> SUFFICES ASSUME "verify" \notin lied
               PROVE  flash'[cur] = image
    BY <1>0 DEF Programmed
  <2>1. \A o \in Offset : image[o] \subseteq flash[cur][o]
    BY <1>0 DEF ClearsOnly, NeedsErase
  <2>2. \A o \in Offset : flash'[cur][o] = image[o]
    BY <1>2, <2>1
  <2> QED
    BY <1>1, <1>3, <2>2 DEF Content
<1> QED
  BY <1>0, <1>4, <1>5, <1>6, <1>7 DEF ClearsOnly, BufferOK

LEMMA FinishPageInv ==
  ASSUME IInv, FinishPage
  PROVE  IInv'
<1> USE DEF IInv
<1>0. /\ job \in Jobs /\ cur \in Page /\ cur \in Pages(job) /\ cur <= job.last
      /\ pc = "settle" /\ InPage /\ NextPage /\ rww' = TRUE
      /\ UNCHANGED <<flash, tbuf, r01, R01, job, image, word, before, lied, failed>>
  BY JobPages, FlashAssumption
  DEF FinishPage, Progress, CallOK, Pages, TypeOK, Page, InPage, history
<1>1. TypeOK'
  BY <1>0, FlashAssumption DEF NextPage, TypeOK, Page
<1>2. Progress'
  BY <1>0, NextPageProgress DEF Programmed, ImageOK
<1> QED
  BY <1>0, <1>1, <1>2 DEF NextPage, ImageOK, InPage, ClearsOnly, BufferOK, Programmed

LEMMA LeaveInv ==
  ASSUME IInv, Leave, flash' = flash, tbuf' = tbuf, rww' = rww,
         r01' \in {"user", "scratch"}, R01' \in {"user", "scratch"}, failed' \in BOOLEAN
  PROVE  IInv'
<1>1. TypeOK'
  BY BlankType, FlashAssumption DEF Leave, IInv, TypeOK
<1> QED
  BY <1>1 DEF Leave, IInv, Progress, CallOK, AheadKept, BehindWritten, InPage, ImageOK,
              ClearsOnly, BufferOK, Programmed
-----------------------------------------------------------------------------
(* IInv is inductive. *)
LEMMA StepInv == IInv /\ [Next]_vars => IInv'
<1> SUFFICES ASSUME IInv, [Next]_vars PROVE IInv'
  OBVIOUS
<1>1. ASSUME NEW j \in Jobs, WriteFlash(j) PROVE IInv'
  BY <1>1, WriteFlashInv
<1>2. CASE PartPage
  BY <1>2, PartPageInv
<1>3. CASE FullPage
  BY <1>3, FullPageInv
<1>4. CASE VerifyPage
  BY <1>4, VerifyPageInv
<1>5. CASE ErasePage
  BY <1>5, ErasePageInv
<1>6. CASE LoadWord
  BY <1>6, LoadWordInv
<1>7. CASE ProgramPage
  BY <1>7, ProgramPageInv
<1>8. CASE FinishPage
  BY <1>8, FinishPageInv
<1>9. CASE Return
  BY <1>9, LeaveInv DEF Return, IInv, TypeOK
<1>10. CASE Fail
  BY <1>10, LeaveInv DEF Fail, IInv, TypeOK
<1>11. CASE UNCHANGED vars
  BY <1>11, StutterInv
<1> QED
  BY <1>1, <1>2, <1>3, <1>4, <1>5, <1>6, <1>7, <1>8, <1>9, <1>10, <1>11
  DEF Next, Continue

THEOREM Invariance == Spec => []IInv
<1>1. Init => IInv
  BY InitInv
<1>2. IInv /\ [Next]_vars => IInv'
  BY StepInv
<1> QED
  BY <1>1, <1>2, PTL DEF Spec

(* The variables keep their types. *)
THEOREM TypeCorrect == Spec => []TypeOK
<1>1. IInv => TypeOK
  BY DEF IInv
<1> QED
  BY <1>1, Invariance, PTL

(* Pages outside the range are never disturbed, whatever fails. *)
THEOREM ElsewhereKept == Spec => []PagesElsewhereKept
<1>1. IInv => PagesElsewhereKept
  BY DEF IInv, Progress, AheadKept, PagesElsewhereKept
<1> QED
  BY <1>1, Invariance, PTL

(* A WriteFlash that returns has written the data into the range. *)
THEOREM DataWritten == Spec => []RangeWritten
<1>1. IInv => RangeWritten
  <2> SUFFICES ASSUME IInv, Returning, "verify" \notin lied, NEW p \in Pages(job),
                      NEW o \in DOMAIN job.data[p]
               PROVE  flash[p][o] = job.data[p][o]
    BY DEF RangeWritten
  <2>1. p < cur /\ pc # "idle"
    BY JobPages, FlashAssumption DEF IInv, Progress, CallOK, Returning, Pages, Page
  <2> QED
    BY <2>1 DEF IInv, Progress, BehindWritten
<1> QED
  BY <1>1, Invariance, PTL

LEMMA ReturnOverlay == IInv => ReturnsOverlay
<1> SUFFICES ASSUME IInv, Returning, lied = {}
             PROVE  flash = Overlay(job, before)
  BY DEF ReturnsOverlay
<1>1. pc # "idle" /\ \A p \in Pages(job) : p < cur
  BY JobPages, FlashAssumption DEF IInv, Progress, CallOK, Returning, Pages, Page
<1>t. job \in Jobs /\ before \in [Page -> Content]
  BY <1>1 DEF IInv, Progress, CallOK, TypeOK
<1>2. ASSUME NEW p \in Page PROVE flash[p] = Overlay(job, before)[p]
  <2>1. CASE p \in Pages(job)
    BY <1>1, <2>1, <1>t, OverlayPage DEF IInv, Progress, BehindWritten, Pages
  <2>2. CASE p \notin Pages(job)
    BY <1>1, <2>2, <1>t, OverlayPage DEF IInv, Progress, AheadKept, Pages
  <2> QED
    BY <2>1, <2>2
<1>3. flash = [p \in Page |-> flash[p]]
  BY DEF IInv, TypeOK
<1> QED
  BY <1>2, <1>3 DEF Overlay

(* When its reads were true too, nothing but the range has changed. *)
THEOREM OverlayWritten == Spec => []ReturnsOverlay
  BY ReturnOverlay, Invariance, PTL
-----------------------------------------------------------------------------
(* r0 and r1 hold the user's values, or the host's copy of them does. *)
SavedRegs ==
  /\ TypeOK
  /\ ~failed => IF pc = "idle" THEN r01 = "user" ELSE R01 = "user"

(* Every WriteFlash that returns gives the user's r0 and r1 back. *)
THEOREM RegistersRestored == Spec => []RegistersKept
<1>1. Init => SavedRegs
  BY InitInv DEF IInv, SavedRegs, Init
<1>2. TypeOK' /\ SavedRegs /\ [Next]_vars => SavedRegs'
  <2> SUFFICES ASSUME TypeOK', SavedRegs, [Next]_vars
               PROVE  (~failed => IF pc = "idle" THEN r01 = "user" ELSE R01 = "user")'
    BY DEF SavedRegs
  <2> USE DEF SavedRegs, TypeOK, NextPage, LoadUnlessBlank, Leave, history
  <2>1. ASSUME NEW j \in Jobs, WriteFlash(j)
        PROVE  (~failed => IF pc = "idle" THEN r01 = "user" ELSE R01 = "user")'
    BY <2>1 DEF WriteFlash
  <2>2. CASE PartPage \/ FullPage
    BY <2>2 DEF PartPage, FullPage
  <2>3. CASE VerifyPage
    BY <2>3 DEF VerifyPage, Decide
  <2>4. CASE ErasePage \/ LoadWord
    BY <2>4 DEF ErasePage, LoadWord
  <2>5. CASE ProgramPage \/ FinishPage
    BY <2>5 DEF ProgramPage, FinishPage
  <2>6. CASE Return \/ Fail
    BY <2>6 DEF Return, Fail
  <2>7. CASE UNCHANGED vars
    BY <2>7 DEF vars, host
  <2> QED
    BY <2>1, <2>2, <2>3, <2>4, <2>5, <2>6, <2>7 DEF Next, Continue
<1>3. SavedRegs => RegistersKept
  BY DEF SavedRegs, RegistersKept
<1> QED
  BY <1>1, <1>2, <1>3, TypeCorrect, PTL DEF Spec
-----------------------------------------------------------------------------
(* A page that is erased or programmed differs from what it should hold,   *)
(* if the reads were true. IInv does not say so: once the page is erased   *)
(* its old content is only in `before'.                                    *)
Differs == pc \in {"erase", "load", "program"} /\ lied = {} => image # before[cur]

(* What has to be erased is not what it should be. *)
LEMMA ErasedDiffers ==
  ASSUME NEW old, NEW new, NeedsErase(old, new) PROVE new # old
  BY DEF NeedsErase

LEMMA DiffersKept == ASSUME IInv, Differs, [Next]_vars PROVE Differs'
<1> USE DEF Differs
<1>1. ASSUME NEW j \in Jobs, WriteFlash(j) PROVE Differs'
  BY <1>1 DEF WriteFlash
<1>2. CASE PartPage \/ FullPage
  BY <1>2 DEF PartPage, FullPage
<1>3. CASE VerifyPage
  <2>1. PICK read \in ReadResults(cur, TRUE) : Lied("verify", read # flash[cur]) /\ Decide(read)
    BY <1>3 DEF VerifyPage
  <2>2. pc = "verify" /\ UNCHANGED <<image, before>>
    BY <1>3 DEF VerifyPage
  <2>3. SUFFICES ASSUME pc' \in {"erase", "load", "program"}, lied' = {} PROVE image # before[cur']
    BY <2>2
  <2>4. read = flash[cur]
    BY <2>1, <2>3 DEF Lied
  <2>5. flash[cur] = before[cur]
    BY <2>2, JobPages, FlashAssumption
    DEF IInv, Progress, CallOK, AheadKept, InPage, Page
  <2>6. cur' = cur /\ (NeedsErase(read, image) \/ read # image)
    BY <2>1, <2>3 DEF Decide, NextPage, LoadUnlessBlank
  <2>7. QED BY <2>4, <2>5, <2>6, ErasedDiffers
<1>4. CASE ErasePage
  BY <1>4 DEF ErasePage, LoadUnlessBlank, NextPage, history
<1>5. CASE LoadWord
  BY <1>5 DEF LoadWord, history
<1>6. CASE ProgramPage \/ FinishPage
  BY <1>6 DEF ProgramPage, FinishPage, NextPage
<1>7. CASE Return \/ Fail
  BY <1>7 DEF Return, Fail, Leave
<1>8. CASE UNCHANGED vars
  BY <1>8 DEF vars, host, history
<1>9. QED BY <1>1, <1>2, <1>3, <1>4, <1>5, <1>6, <1>7, <1>8 DEF Next, Continue

(* Only erasing and programming change the flash, and only the page of     *)
(* addr.                                                                   *)
LEMMA FlashChanges ==
  ASSUME IInv, [Next]_vars, NEW p \in Page, flash'[p] # flash[p]
  PROVE  p = cur /\ (ErasePage \/ ProgramPage)
<1>1. ErasePage \/ ProgramPage
  BY DEF Next, Continue, vars, WriteFlash, PartPage, FullPage, VerifyPage, LoadWord, FinishPage,
     Return, Fail
<1>2. ASSUME NEW q, NEW new, flash' = [flash EXCEPT ![q] = new] PROVE p = q
  BY <1>2 DEF IInv, TypeOK
<1>3. QED BY <1>1, <1>2 DEF ErasePage, ProgramPage

(* Manual.md:119, 121: while its reads are true WriteFlash changes no page *)
(* that holds the data already, and turns no 0 bit into a 1 on a page that *)
(* does not need it.                                                       *)
THEOREM WearsLeast == Spec => WearMinimal
<1>1. Init => Differs
  BY DEF Init, Differs
<1>2. IInv /\ Differs /\ [Next]_vars => Differs'
  BY DiffersKept
<1> DEFINE wanted(p) == Overlay(job, before)[p]
           Least(p)  == lied = {} /\ flash'[p] # flash[p] =>
                          /\ wanted(p) # before[p]
                          /\ NeedsErase(flash[p], flash'[p]) => NeedsErase(before[p], wanted(p))
<1>3. ASSUME IInv, Differs, [Next]_vars, NEW p \in Page PROVE Least(p)
  <2>1. SUFFICES ASSUME lied = {}, flash'[p] # flash[p]
                 PROVE  /\ wanted(p) # before[p]
                        /\ NeedsErase(flash[p], flash'[p]) => NeedsErase(before[p], wanted(p))
    OBVIOUS
  <2>2. p = cur /\ (ErasePage \/ ProgramPage)
    BY <1>3, <2>1, FlashChanges
  <2>3. pc \in {"erase", "program"} /\ InPage
    BY <2>2 DEF ErasePage, ProgramPage, InPage
  <2>4. job \in Jobs /\ before \in [Page -> Content] /\ p \in Pages(job)
    BY <1>3, <2>2, <2>3, JobPages, FlashAssumption DEF IInv, TypeOK, Progress, CallOK, Pages, Page
  <2>5. wanted(p) = image
    BY <1>3, <2>1, <2>2, <2>3, <2>4, OverlayPage DEF IInv, ImageOK
  <2>6. wanted(p) # before[p]
    BY <1>3, <2>1, <2>2, <2>3, <2>5 DEF Differs
  <2>7. CASE pc = "erase"
    <3>1. NeedsErase(flash[p], image)
      BY <1>3, <2>1, <2>2, <2>7 DEF IInv, ClearsOnly
    <3>2. flash[p] = before[p]
      BY <1>3, <2>2, <2>7 DEF IInv, Progress, AheadKept
    <3>3. QED BY <2>5, <2>6, <3>1, <3>2
  <2>8. CASE pc = "program"
    <3>1. flash'[p] = [o \in Offset |-> flash[p][o] \intersect tbuf[o]]
      BY <1>3, <2>2, <2>8 DEF ErasePage, ProgramPage, IInv, TypeOK
    <3>2. ~NeedsErase(flash[p], flash'[p])
      BY <3>1 DEF NeedsErase
    <3>3. QED BY <2>6, <3>2
  <2>9. QED BY <2>3, <2>7, <2>8
<1>4. IInv /\ Differs /\ [Next]_vars => [\A p \in Page : Least(p)]_vars
  BY <1>3
<1>5. QED BY <1>1, <1>2, <1>4, Invariance, PTL DEF Spec, WearMinimal
-----------------------------------------------------------------------------
(* Without a boot section the flash is always readable, and if reads cannot*)
(* fail silently either every one is true.                                 *)
Truthful == ~Boot /\ ~ReadsMayFail

NoLies == rww = TRUE /\ lied = {}

LEMMA NeverLied == ASSUME Truthful PROVE Spec => []NoLies
<1>1. Init => NoLies
  BY DEF Init, NoLies
<1>2. NoLies /\ [Next]_vars => NoLies'
  <2> SUFFICES ASSUME NoLies, [Next]_vars PROVE NoLies'
    OBVIOUS
  <2> USE Truthful DEF NoLies, Truthful, history, Leave
  <2>1. ASSUME NEW j \in Jobs, WriteFlash(j) PROVE NoLies'
    BY <2>1 DEF WriteFlash
  <2>2. CASE PartPage
    BY <2>2 DEF PartPage, ReadResults, Lied
  <2>3. CASE VerifyPage
    BY <2>3 DEF VerifyPage, ReadResults, Lied
  <2>4. CASE FullPage \/ ErasePage \/ LoadWord \/ ProgramPage \/ FinishPage
    BY <2>4 DEF FullPage, ErasePage, LoadWord, ProgramPage, FinishPage
  <2>5. CASE Return \/ Fail
    BY <2>5 DEF Return, Fail
  <2>6. CASE UNCHANGED vars
    BY <2>6 DEF vars
  <2> QED
    BY <2>1, <2>2, <2>3, <2>4, <2>5, <2>6 DEF Next, Continue
<1> QED
  BY <1>1, <1>2, PTL DEF Spec

(* The image of the page under way is the goal's page. *)
LEMMA ImageIsGoal ==
  ASSUME IInv, NoLies, InPage
  PROVE  cur \in Page /\ Overlay(job, before)[cur] = image
<1>1. /\ cur \in Page /\ cur \in Pages(job)
      /\ job \in Jobs /\ before \in [Page -> Content]
  BY JobPages, FlashAssumption
  DEF IInv, Progress, CallOK, InPage, Page, TypeOK, Pages
<1> QED
  BY <1>1, OverlayPage DEF IInv, ImageOK, NoLies

LEMMA StepRefines ==
  ASSUME IInv, NoLies, [Next]_vars
  PROVE  [Update!UNext]_(Update!uvars)
<1> DEFINE goal == IF pc = "idle" THEN flash ELSE Overlay(job, before)
<1>0. TypeOK /\ flash \in [Page -> Content]
  BY DEF IInv, TypeOK
<1>1. ASSUME NEW j \in Jobs, WriteFlash(j) PROVE Update!Start
  <2>1. Overlay(j, flash) \in Update!Image
    BY <1>0, OverlayType DEF Update!Image, Update!Byte, Content, Byte
  <2>2. goal' = Overlay(j, flash) /\ pc = "idle" /\ pc' # "idle" /\ flash' = flash
    BY <1>1 DEF WriteFlash
  <2> QED
    BY <2>1, <2>2 DEF Update!Start
<1>2. ASSUME pc # "idle", pc' # "idle", UNCHANGED <<flash, job, before>>
      PROVE  UNCHANGED Update!uvars
  BY <1>2 DEF Update!uvars, Overlay, Merge
<1>3. CASE PartPage
  BY <1>2, <1>3 DEF PartPage
<1>4. CASE FullPage \/ LoadWord
  BY <1>2, <1>4 DEF FullPage, LoadWord, history
<1>5. CASE VerifyPage
  BY <1>2, <1>5 DEF VerifyPage, Decide, NextPage, LoadUnlessBlank
<1>6. CASE FinishPage
  BY <1>2, <1>6 DEF FinishPage, NextPage, history
<1>7. CASE ErasePage
  <2>1. pc = "erase" /\ pc' # "idle" /\ UNCHANGED <<job, before>>
        /\ flash' = [flash EXCEPT ![cur] = Update!Blank]
    BY <1>7 DEF ErasePage, NextPage, LoadUnlessBlank, history, Blank, Update!Blank
  <2>2. NeedsErase(flash[cur], goal[cur]) /\ cur \in Page
    BY <2>1, ImageIsGoal DEF InPage, IInv, ClearsOnly, NoLies
  <2>3. goal' = goal
    BY <2>1 DEF Overlay, Merge
  <2>4. Update!BlankPage(cur)
    BY <2>1, <2>2, <2>3 DEF Update!BlankPage, Update!OnlyClears, NeedsErase
  <2> QED
    BY <2>2, <2>4 DEF Update!UNext
<1>8. CASE ProgramPage
  <2>1. pc = "program" /\ pc' # "idle" /\ UNCHANGED <<job, before, cur, lied, image>>
        /\ pc' = "settle"
        /\ flash' = [flash EXCEPT ![cur] = [o \in Offset |-> @[o] \intersect tbuf[o]]]
    BY <1>8 DEF ProgramPage, history
  <2>2. goal[cur] = image /\ ~NeedsErase(flash[cur], image) /\ cur \in Page
    BY <2>1, ImageIsGoal DEF InPage, IInv, ClearsOnly, NoLies
  <2>3. goal' = goal
    BY <2>1 DEF Overlay, Merge
  <2>4. flash'[cur] = image
    BY <1>8, <2>1, ProgramPageInv DEF IInv, Programmed, NoLies
  <2>5. flash' = [flash EXCEPT ![cur] = goal[cur]]
    BY <2>1, <2>2, <2>4, <1>0
  <2>6. Update!FillPage(cur)
    BY <2>1, <2>2, <2>3, <2>5 DEF Update!FillPage, Update!OnlyClears, NeedsErase
  <2> QED
    BY <2>2, <2>6 DEF Update!UNext
<1>9. CASE Return
  <2>1. Returning /\ pc # "idle" /\ pc' = "idle" /\ flash' = flash
    BY <1>9 DEF Return, Returning, Leave
  <2>2. flash = Overlay(job, before)
    BY <2>1, ReturnOverlay DEF NoLies, ReturnsOverlay
  <2>3. Update!Complete
    BY <2>1, <2>2 DEF Update!Complete
  <2> QED
    BY <2>3 DEF Update!UNext
<1>10. CASE Fail
  <2>1. Update!Abandon
    BY <1>10 DEF Fail, Leave, Update!Abandon
  <2> QED
    BY <2>1 DEF Update!UNext
<1>11. CASE UNCHANGED vars
  BY <1>11 DEF vars, host, history, Update!uvars, Overlay, Merge
<1> QED
  BY <1>1, <1>3, <1>4, <1>5, <1>6, <1>7, <1>8, <1>9, <1>10, <1>11
  DEF Next, Continue, Update!UNext

(* On such a device WriteFlash implements FlashUpdate: each page is blanked*)
(* at most when a bit must be set, filled at most when it differs, and a   *)
(* return means that the flash is the goal.                                *)
THEOREM Refinement == ASSUME Truthful PROVE Spec => ImplementsUpdate
<1>1. Init => Update!UInit
  BY FlashAssumption DEF Init, Update!UInit, Update!Image, Update!Byte, Content, Byte
<1>2. IInv /\ NoLies /\ [Next]_vars => [Update!UNext]_(Update!uvars)
  BY StepRefines
<1> QED
  BY <1>1, <1>2, Invariance, NeverLied, PTL
  DEF Spec, ImplementsUpdate, Update!USpec
=============================================================================
