---------------------------- MODULE MCFlashWrite ----------------------------
(* Small instances of FlashWrite: bytes of one bit, every start address,   *)
(* every length, every buffer.                                             *)
EXTENDS FlashWrite

MCBits == {1}

(* WriteFlash(addr, buf, Len(buf)) with the code's masks: page = addr \div *)
(* PageSize, offset = addr % PageSize.                                     *)
JobOf(addr, len, buf) ==
  LET size == 2*PageWords
      covered(p) == {o \in Offset : p*size + o \in addr .. addr + len - 1}
  IN  [first |-> addr \div size,
       last  |-> (addr + len - 1) \div size,
       data  |-> [p \in Page |-> [o \in covered(p) |-> buf[p*size + o - addr]]]]

Limit == (LastPage + 1) * 2 * PageWords

AllJobs ==
  UNION {UNION {{JobOf(addr, len, buf) : buf \in [0 .. len - 1 -> SUBSET MCBits]}
                  : len \in 1 .. Limit - addr} : addr \in 0 .. Limit - 1}

AllContents == [Page -> Content]

(* A part, a whole page and another part; whole pages; and a range within  *)
(* one page.                                                               *)
SomeRanges == {<<3, 6>>, <<4, 8>>, <<5, 2>>}

(* All zeros, all ones, and bits that differ from one byte to the next. *)
Patterns(len) == {[i \in 0 .. len - 1 |-> {}], [i \in 0 .. len - 1 |-> MCBits],
                  [i \in 0 .. len - 1 |-> IF i % 2 = 0 THEN {} ELSE MCBits]}

PatternJobs ==
  UNION {{JobOf(r[1], r[2], buf) : buf \in Patterns(r[2])} : r \in SomeRanges}

(* Every page blank, every page programmed with zeros, or alternating. *)
PatternContents ==
  {[p \in Page |-> [o \in Offset |-> f[o]]] : f \in Patterns(2*PageWords)}
=============================================================================
