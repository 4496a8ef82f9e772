---------------------------- MODULE CommandProofs ----------------------------
(***************************************************************************)
(* Proofs about the user's commands: how they are read (Console, which     *)
(* this module extends), for all inputs, buffer sizes and name lengths;    *)
(* and which port they work with (Ports, here P), for any number and kinds *)
(* of ports and chips.                                                     *)
(***************************************************************************)
EXTENDS Console, Integers, SequenceTheorems, WellFoundedInduction, TLAPS

(* A state of the buffer whose places hold one of these. *)
Rings(S) == [buf : [0..(ILimit - 1) -> S], in : 0..(ILimit - 1), out : 0..(ILimit - 1),
             eof : BOOLEAN, eoln : BOOLEAN]
-----------------------------------------------------------------------------
(* Natural numbers by their order; the relation is well founded. *)
Below == {ss \in Nat \X Nat : ss[1] < ss[2]}

LEMMA BelowFounded == IsWellFoundedOn(Below, Nat)
BY NatLessThanWellFounded DEF OpToRel, Below

(* A set of natural numbers that is not empty has a least element. *)
LEMMA Least == ASSUME NEW T \in SUBSET Nat, T # {} PROVE \E x \in T : \A y \in T : x <= y
<1>1. PICK x \in T : \A y \in T : ~(<<y, x>> \in Below)
  BY BelowFounded, WFMin, Zenon
<1>2. ASSUME NEW y \in T, y < x PROVE FALSE
  <2>1. <<y, x>> \in Nat \X Nat
    OBVIOUS
  <2>2. <<y, x>> \in Below
    BY <1>2, <2>1 DEF Below
  <2>3. QED BY <2>2, <1>1
<1>3. QED BY <1>2

(* One that is bounded has a greatest. *)
LEMMA Greatest ==
  ASSUME NEW n \in Nat, NEW T \in SUBSET (0..n), T # {} PROVE \E x \in T : \A y \in T : x >= y
<1> DEFINE U == {k \in 0..n : n - k \in T}
<1>1. U \in SUBSET Nat /\ U # {}
  <2>1. PICK t \in T : TRUE
    OBVIOUS
  <2>2. t \in 0..n /\ n - t \in 0..n /\ n - (n - t) = t
    BY <2>1
  <2>3. n - t \in U
    BY <2>1, <2>2
  <2>4. QED BY <2>3
<1>2. PICK m \in U : \A y \in U : m <= y
  BY <1>1, Least
<1>3. n - m \in T /\ m \in 0..n
  OBVIOUS
<1>4. ASSUME NEW y \in T PROVE n - m >= y
  <2>1. y \in 0..n /\ n - y \in 0..n /\ n - (n - y) = y
    OBVIOUS
  <2>2. n - y \in U
    BY <2>1
  <2>3. QED BY <1>2, <1>3, <2>1, <2>2
<1>5. QED BY <1>3, <1>4

(* Max and Min are what they say. *)
LEMMA MaxIs ==
  ASSUME NEW n \in Nat, NEW T \in SUBSET (0..n), T # {}
  PROVE  Max(T) \in T /\ \A y \in T : Max(T) >= y
BY Greatest DEF Max

LEMMA MinIs ==
  ASSUME NEW T \in SUBSET Nat, T # {}
  PROVE  Min(T) \in T /\ \A y \in T : Min(T) <= y
BY Least DEF Min

(* The lesser of two. *)
LEMMA MinPair ==
  ASSUME NEW a \in Nat, NEW b \in Nat
  PROVE  Min({a, b}) \in Nat /\ Min({a, b}) <= a /\ Min({a, b}) <= b /\ Min({a, b}) \in {a, b}
<1>1. {a, b} \in SUBSET Nat /\ {a, b} # {}
  OBVIOUS
<1>2. Min({a, b}) \in {a, b} /\ \A y \in {a, b} : Min({a, b}) <= y
  BY <1>1, MinIs
<1>3. QED BY <1>2

(* Places of the buffer are counted modulo its size. *)
LEMMA Wrapped ==
  ASSUME ILimitAssumption
  PROVE  /\ \A a \in 0..(ILimit - 1) : a % ILimit = a
         /\ \A a \in 0..(ILimit - 1) : (a + ILimit) % ILimit = a
         /\ \A a \in Nat : a % ILimit \in 0..(ILimit - 1)
         /\ ILimit \div 2 \in 2..(ILimit - 1)
<1>1. ASSUME NEW L \in Nat, L > 3, NEW a \in 0..(L - 1) PROVE a % L = a
  BY <1>1
<1>2. ASSUME NEW L \in Nat, L > 3, NEW a \in 0..(L - 1) PROVE (a + L) % L = a
  BY <1>2
<1>3. ASSUME NEW L \in Nat, L > 3, NEW a \in Nat PROVE a % L \in 0..(L - 1)
  BY <1>3
<1>4. ASSUME NEW L \in Nat, L > 3 PROVE L \div 2 \in 2..(L - 1)
  BY <1>4
<1>5. ILimit \in Nat /\ ILimit > 3
  BY DEF ILimitAssumption
<1>6. QED BY <1>1, <1>2, <1>3, <1>4, <1>5

(* The number of characters in the buffer. *)
LEMMA ContentIs ==
  ASSUME ILimitAssumption, NEW S, NEW r \in Rings(S)
  PROVE  /\ BufferTotalContent(r) = IF r.in >= r.out THEN r.in - r.out ELSE r.in + ILimit - r.out
         /\ BufferTotalContent(r) \in 0..(ILimit - 1)
         /\ BufferTotalContent(r) = 0 <=> r.in = r.out
<1>1. r.in \in 0..(ILimit - 1) /\ r.out \in 0..(ILimit - 1) /\ ILimit \in Nat
  BY DEF Rings, ILimitAssumption
<1>2. CASE r.in >= r.out
  <2>1. r.in - r.out \in 0..(ILimit - 1) /\ r.in + ILimit - r.out = (r.in - r.out) + ILimit
    BY <1>1, <1>2
  <2>2. ((r.in - r.out) + ILimit) % ILimit = r.in - r.out
    BY <2>1, Wrapped
  <2>3. BufferTotalContent(r) = r.in - r.out
    BY <2>1, <2>2 DEF BufferTotalContent
  <2>4. QED BY <1>1, <1>2, <2>3
<1>3. CASE r.in < r.out
  <2>1. r.in + ILimit - r.out \in 0..(ILimit - 1)
    BY <1>1, <1>3
  <2>2. (r.in + ILimit - r.out) % ILimit = r.in + ILimit - r.out
    BY <2>1, Wrapped
  <2>3. QED BY <1>1, <1>3, <2>1, <2>2 DEF BufferTotalContent
<1>4. QED BY <1>1, <1>2, <1>3

(* A place counted from IOut. *)
LEMMA NthIs ==
  ASSUME ILimitAssumption, NEW S, NEW r \in Rings(S), NEW k \in 0..(ILimit - 1)
  PROVE  /\ Nth(r, k) = r.buf[IF r.out + k < ILimit THEN r.out + k ELSE r.out + k - ILimit]
         /\ Nth(r, k) \in S
<1>1. r.out \in 0..(ILimit - 1) /\ ILimit \in Nat /\ r.buf \in [0..(ILimit - 1) -> S]
  BY DEF Rings, ILimitAssumption
<1>2. CASE r.out + k < ILimit
  <2>1. r.out + k \in 0..(ILimit - 1)
    BY <1>1, <1>2
  <2>2. (r.out + k) % ILimit = r.out + k
    BY <2>1, Wrapped
  <2>3. QED BY <1>1, <1>2, <2>1, <2>2 DEF Nth
<1>3. CASE ~(r.out + k < ILimit)
  <2>1. r.out + k - ILimit \in 0..(ILimit - 1) /\ r.out + k = (r.out + k - ILimit) + ILimit
    BY <1>1, <1>3
  <2>2. (r.out + k) % ILimit = r.out + k - ILimit
    BY <2>1, Wrapped
  <2>3. r.out + k - ILimit \in 0..(ILimit - 1)
    BY <1>1, <1>3
  <2>4. QED BY <1>1, <1>3, <2>2, <2>3 DEF Nth
<1>4. QED BY <1>2, <1>3

(* What skipping does to the buffer. *)
LEMMA Skipped ==
  ASSUME ILimitAssumption, NEW S, NEW r \in Rings(S), NEW k \in 0..(ILimit - 1)
  PROVE  /\ Skip(r, k) \in Rings(S)
         /\ Skip(r, k).in = r.in /\ Skip(r, k).eof = r.eof /\ Skip(r, k).eoln = r.eoln
         /\ Skip(r, k).buf = r.buf
         /\ \A j \in 0..(ILimit - 1) : k + j < ILimit => Nth(Skip(r, k), j) = Nth(r, k + j)
         /\ k <= BufferTotalContent(r) => BufferTotalContent(Skip(r, k)) = BufferTotalContent(r) - k
<1>1. /\ r.in \in 0..(ILimit - 1) /\ r.out \in 0..(ILimit - 1) /\ ILimit \in Nat
      /\ r = [buf |-> r.buf, in |-> r.in, out |-> r.out, eof |-> r.eof, eoln |-> r.eoln]
  BY DEF Rings, ILimitAssumption
<1> DEFINE o == (r.out + k) % ILimit
<1>2. o = IF r.out + k < ILimit THEN r.out + k ELSE r.out + k - ILimit
  <2>1. CASE r.out + k < ILimit
    <3>1. r.out + k \in 0..(ILimit - 1)
      BY <1>1, <2>1
    <3>2. QED BY <2>1, <3>1, Wrapped
  <2>2. CASE ~(r.out + k < ILimit)
    <3>1. r.out + k - ILimit \in 0..(ILimit - 1) /\ r.out + k = (r.out + k - ILimit) + ILimit
      BY <1>1, <2>2
    <3>2. QED BY <2>2, <3>1, Wrapped
  <2>3. QED BY <2>1, <2>2
<1>3. o \in 0..(ILimit - 1)
  BY <1>1, <1>2
<1>4. Skip(r, k) = [buf |-> r.buf, in |-> r.in, out |-> o, eof |-> r.eof, eoln |-> r.eoln]
  BY <1>1 DEF Skip
<1>5. Skip(r, k) \in Rings(S)
  BY <1>3, <1>4 DEF Rings
<1> HIDE DEF o
<1>6. ASSUME NEW j \in 0..(ILimit - 1), k + j < ILimit PROVE Nth(Skip(r, k), j) = Nth(r, k + j)
  <2>1. Nth(Skip(r, k), j) = r.buf[IF o + j < ILimit THEN o + j ELSE o + j - ILimit]
    BY <1>4, <1>5, NthIs
  <2>2. k + j \in 0..(ILimit - 1)
    BY <1>1, <1>6
  <2>3. Nth(r, k + j) = r.buf[IF r.out + (k + j) < ILimit THEN r.out + (k + j) ELSE r.out + (k + j) - ILimit]
    BY <2>2, NthIs
  <2>4. (IF o + j < ILimit THEN o + j ELSE o + j - ILimit)
        = (IF r.out + (k + j) < ILimit THEN r.out + (k + j) ELSE r.out + (k + j) - ILimit)
    BY <1>1, <1>2, <1>6
  <2>5. QED BY <2>1, <2>3, <2>4
<1>7. ASSUME k <= BufferTotalContent(r)
      PROVE  BufferTotalContent(Skip(r, k)) = BufferTotalContent(r) - k
  <2>1. BufferTotalContent(r) = IF r.in >= r.out THEN r.in - r.out ELSE r.in + ILimit - r.out
    BY ContentIs
  <2>2. BufferTotalContent(Skip(r, k)) = IF r.in >= o THEN r.in - o ELSE r.in + ILimit - o
    BY <1>4, <1>5, ContentIs
  <2>3. QED BY <1>1, <1>2, <1>7, <2>1, <2>2
<1>8. QED BY <1>4, <1>5, <1>6, <1>7

(* What a read of at most BufferContiguousFree characters does to it. *)
LEMMA Filled ==
  ASSUME ILimitAssumption, NEW S, NEW r \in Rings(S), NEW chunk \in Seq(S),
         Len(chunk) <= BufferContiguousFree(r)
  PROVE  LET q == ContiguousFill(r, chunk)
             n == BufferTotalContent(r)
         IN  /\ q \in Rings(S)
             /\ q.eof = (chunk = <<>>)
             /\ q.eoln = (chunk # <<>> /\ chunk[Len(chunk)].ch \in Eolns)
             /\ q.out = r.out
             /\ BufferTotalContent(q) = n + Len(chunk)
             /\ \A k \in 0..(n - 1) : Nth(q, k) = Nth(r, k)
             /\ \A k \in 0..(Len(chunk) - 1) : Nth(q, n + k) = chunk[k + 1]
<1> DEFINE q == ContiguousFill(r, chunk)
           n == BufferTotalContent(r)
           m == Len(chunk)
           b == [i \in DOMAIN r.buf |-> IF i - r.in \in 0..(m - 1) THEN chunk[i - r.in + 1] ELSE r.buf[i]]
           j == (r.in + m) % ILimit
<1>1. /\ r.in \in 0..(ILimit - 1) /\ r.out \in 0..(ILimit - 1) /\ ILimit \in Nat /\ ILimit > 3
      /\ r.buf \in [0..(ILimit - 1) -> S] /\ DOMAIN r.buf = 0..(ILimit - 1)
      /\ r = [buf |-> r.buf, in |-> r.in, out |-> r.out, eof |-> r.eof, eoln |-> r.eoln]
  BY DEF Rings, ILimitAssumption
<1>2. m \in Nat /\ \A k \in 1..m : chunk[k] \in S
  BY LenProperties, ElementOfSeq
<1>3. /\ r.in < r.out => r.in + m < r.out
      /\ r.in >= r.out => r.in + m <= ILimit /\ (r.out = 0 => r.in + m < ILimit)
  BY <1>1, <1>2 DEF BufferContiguousFree
<1>4. j = IF r.in + m < ILimit THEN r.in + m ELSE 0
  <2>1. CASE r.in + m < ILimit
    <3>1. r.in + m \in 0..(ILimit - 1)
      BY <1>1, <1>2, <2>1
    <3>2. QED BY <2>1, <3>1, Wrapped
  <2>2. CASE ~(r.in + m < ILimit)
    <3>1. 0 \in 0..(ILimit - 1) /\ r.in + m = 0 + ILimit
      BY <1>1, <1>2, <1>3, <2>2
    <3>2. QED BY <1>1, <3>1, Wrapped, SMTT(60), ZenonT(60)
  <2>3. QED BY <2>1, <2>2
<1>5. b \in [0..(ILimit - 1) -> S]
  <2>1. ASSUME NEW i \in 0..(ILimit - 1)
        PROVE  (IF i - r.in \in 0..(m - 1) THEN chunk[i - r.in + 1] ELSE r.buf[i]) \in S
    <3>1. CASE i - r.in \in 0..(m - 1)
      <4>1. i - r.in + 1 \in 1..m
        BY <1>1, <1>2, <3>1
      <4>2. QED BY <1>2, <3>1, <4>1
    <3>2. CASE ~(i - r.in \in 0..(m - 1))
      BY <1>1, <3>2
    <3>3. QED BY <3>1, <3>2
  <2>2. QED BY <1>1, <2>1
<1>7. j \in 0..(ILimit - 1)
  BY <1>1, <1>2, <1>4
<1> DEFINE e == chunk = <<>>
           l == chunk # <<>> /\ chunk[Len(chunk)].ch \in Eolns
<1>d. e \in BOOLEAN /\ l \in BOOLEAN
  OBVIOUS
<1>f. q = [r EXCEPT !.buf = b, !.eof = e, !.eoln = l, !.in = j]
  BY DEF ContiguousFill
<1> HIDE DEF q, b, j, e, l
<1>6. q \in Rings(S) /\ q.buf = b /\ q.in = j /\ q.out = r.out /\ q.eof = e /\ q.eoln = l
  BY <1>5, <1>7, <1>d, <1>f DEF Rings
<1> USE DEF b
<1>n. n = IF r.in >= r.out THEN r.in - r.out ELSE r.in + ILimit - r.out
  BY ContentIs
<1> HIDE DEF n
<1>9. BufferTotalContent(q) = n + m /\ n + m < ILimit
  <2>2. BufferTotalContent(q) = IF j >= r.out THEN j - r.out ELSE j + ILimit - r.out
    BY <1>6, ContentIs
  <2>3. CASE r.in >= r.out
    <3>1. n = r.in - r.out
      BY <1>n, <2>3
    <3>2. CASE r.in + m < ILimit
      BY <1>1, <1>2, <1>4, <2>2, <2>3, <3>1, <3>2
    <3>3. CASE ~(r.in + m < ILimit)
      <4>1. j = 0 /\ r.in + m = ILimit /\ r.out > 0
        BY <1>1, <1>2, <1>3, <1>4, <2>3, <3>3
      <4>2. BufferTotalContent(q) = ILimit - r.out
        BY <1>1, <2>2, <4>1
      <4>3. QED BY <1>1, <1>2, <3>1, <4>1, <4>2
    <3>4. QED BY <3>2, <3>3
  <2>4. CASE r.in < r.out
    <3>1. n = r.in + ILimit - r.out /\ r.in + m < r.out
      BY <1>1, <1>3, <1>n, <2>4
    <3>2. j = r.in + m
      BY <1>1, <1>2, <1>4, <3>1
    <3>3. QED BY <1>1, <1>2, <2>2, <3>1, <3>2
  <2>5. QED BY <1>1, <2>3, <2>4
<1>10. \A k \in 0..(ILimit - 1) :
         Nth(q, k) = b[IF r.out + k < ILimit THEN r.out + k ELSE r.out + k - ILimit]
  BY <1>6, NthIs
<1>b. \A i \in 0..(ILimit - 1) :
        /\ i - r.in \in 0..(m - 1) => b[i] = chunk[i - r.in + 1]
        /\ ~(i - r.in \in 0..(m - 1)) => b[i] = r.buf[i]
  BY <1>1
<1> HIDE DEF b
<1>11. ASSUME NEW k \in 0..(n - 1) PROVE Nth(q, k) = Nth(r, k)
  <2> DEFINE i == IF r.out + k < ILimit THEN r.out + k ELSE r.out + k - ILimit
  <2>1. k \in 0..(ILimit - 1) /\ i \in 0..(ILimit - 1) /\ ~(i - r.in \in 0..(m - 1))
    <3>1. CASE r.in >= r.out
      <4>1. n = r.in - r.out
        BY <1>n, <3>1
      <4>2. i = r.out + k /\ i < r.in
        BY <1>1, <3>1, <4>1
      <4>3. QED BY <1>1, <3>1, <4>1, <4>2
    <3>2. CASE r.in < r.out
      <4>1. n = r.in + ILimit - r.out /\ r.in + m < r.out
        BY <1>1, <1>3, <1>n, <3>2
      <4>2. i \in 0..(ILimit - 1) /\ (i >= r.out \/ i < r.in)
        BY <1>1, <3>2, <4>1, SMTT(60), ZenonT(60)
      <4>3. ~(i - r.in \in 0..(m - 1))
        <5>1. CASE i >= r.out
          BY <1>1, <1>2, <4>1, <4>2, <5>1, SMTT(60), ZenonT(60)
        <5>2. CASE i < r.in
          BY <1>1, <1>2, <4>2, <5>2
        <5>3. QED BY <4>2, <5>1, <5>2
      <4>4. k \in 0..(ILimit - 1)
        BY <1>1, <3>2, <4>1
      <4>5. QED BY <4>2, <4>3, <4>4
    <3>3. QED BY <1>1, <3>1, <3>2
  <2>2. Nth(r, k) = r.buf[i]
    BY <2>1, NthIs
  <2>3. QED BY <1>10, <1>b, <2>1, <2>2
<1>12. ASSUME NEW k \in 0..(m - 1) PROVE Nth(q, n + k) = chunk[k + 1]
  <2> DEFINE i == IF r.out + (n + k) < ILimit THEN r.out + (n + k) ELSE r.out + (n + k) - ILimit
  <2>1. n + k \in 0..(ILimit - 1)
    BY <1>1, <1>2, <1>9, <1>n, SMTT(60), ZenonT(60)
  <2>2. i = r.in + k
    BY <1>1, <1>2, <1>3, <1>n
  <2>3. i \in 0..(ILimit - 1) /\ i - r.in \in 0..(m - 1) /\ i - r.in + 1 = k + 1
    BY <1>1, <1>2, <1>3, <2>2
  <2>4. Nth(q, n + k) = b[i]
    BY <1>10, <2>1
  <2>5. QED BY <1>b, <2>3, <2>4
<1>13. QED BY <1>6, <1>9, <1>11, <1>12 DEF q, n, e, l

(* The characters of a class at IOut. *)
LEMMA RunIs ==
  ASSUME NEW r, NEW class, NEW n \in Nat
  PROVE  /\ RunLength(r, class, n) \in 0..n
         /\ \A j \in 0..(RunLength(r, class, n) - 1) : Nth(r, j).ch \in class
         /\ RunLength(r, class, n) < n => Nth(r, RunLength(r, class, n)).ch \notin class
<1> DEFINE T == {k \in 0..n : \A j \in 0..(k - 1) : Nth(r, j).ch \in class}
           k == RunLength(r, class, n)
<1>1. 0 \in T /\ T \in SUBSET (0..n)
  OBVIOUS
<1>2. Max(T) \in T /\ \A y \in T : Max(T) >= y
  BY <1>1, MaxIs
<1>3. k = Max(T)
  BY DEF RunLength
<1>4. ASSUME k < n, Nth(r, k).ch \in class PROVE FALSE
  <2>1. k \in 0..n /\ \A j \in 0..(k - 1) : Nth(r, j).ch \in class
    BY <1>2, <1>3
  <2>2. k + 1 \in T
    <3>1. k + 1 \in 0..n
      BY <1>4, <2>1
    <3>2. \A j \in Nat : j < k + 1 => j \in 0..(k - 1) \/ j = k
      BY <2>1
    <3>3. \A j \in Nat : j < k + 1 => Nth(r, j).ch \in class
      BY <1>4, <2>1, <3>2
    <3>4. \A x \in 0..n : (\A j \in Nat : j < x => Nth(r, j).ch \in class) => x \in T
      OBVIOUS
    <3> HIDE DEF T, k
    <3>5. QED BY <3>1, <3>3, <3>4
  <2>3. QED BY <1>2, <1>3, <2>1, <2>2
<1>5. QED BY <1>2, <1>3, <1>4

(* ReadWhile and SkipWhile stop at IIn, and at what is not of the class. *)
LEMMA ReadIs ==
  ASSUME ILimitAssumption, NEW S, NEW r \in Rings(S), NEW class, NEW n \in Nat
  PROVE  LET k == ReadLength(r, class, n)
         IN  /\ k \in 0..BufferTotalContent(r) /\ k <= n /\ k \in 0..(ILimit - 1)
             /\ \A j \in 0..(k - 1) : Nth(r, j).ch \in class
             /\ k < BufferTotalContent(r) /\ k < n => Nth(r, k).ch \notin class
<1> DEFINE h == BufferTotalContent(r)
           m == Min({n, h})
           k == ReadLength(r, class, n)
<1>1. h \in 0..(ILimit - 1) /\ ILimit \in Nat
  BY ContentIs DEF ILimitAssumption
<1>2. m \in Nat /\ m <= n /\ m <= h /\ m \in {n, h}
  BY <1>1, MinPair
<1>3. k = RunLength(r, class, m)
  BY DEF ReadLength
<1> HIDE DEF h, m, k
<1>4. /\ k \in 0..m
      /\ \A j \in 0..(k - 1) : Nth(r, j).ch \in class
      /\ k < m => Nth(r, k).ch \notin class
  BY <1>2, <1>3, RunIs
<1>5. k \in 0..h /\ k <= n /\ k \in 0..(ILimit - 1)
  BY <1>1, <1>2, <1>4
<1>6. k < h /\ k < n => k < m
  BY <1>1, <1>2, <1>4
<1>7. QED BY <1>4, <1>5, <1>6 DEF h, k
-----------------------------------------------------------------------------
(* What the buffer's places hold: a character and its position. *)
Spot == [ch : Chars \cup {""}, pos : 0..Len(input)]

(* What ends a command is no letter. *)
LEMMA BreaksNoLetters == \A x \in DwEolns : x \notin Alpha
<1>1. SUFFICES ASSUME NEW x \in DwEolns PROVE x \notin Alpha
  OBVIOUS
<1>2. x = "\n" \/ x = ";"
  BY <1>1 DEF DwEolns, Eolns, Separators
<1>3. CASE x = "\n"
  BY <1>3 DEF Alpha
<1>4. CASE x = ";"
  BY <1>4 DEF Alpha
<1>5. QED BY <1>2, <1>3, <1>4

(* The input's characters are numbered from one. *)
InputOK == input \in Seq([ch : Chars, pos : Nat]) /\ \A i \in 1..Len(input) : input[i].pos = i

Kinds ==
  /\ ring \in Rings(Spot) /\ read \in 0..Len(input) /\ at \in Places
  /\ IsInteractive \in BOOLEAN /\ edge \in BOOLEAN /\ prompted \in BOOLEAN /\ overrun \in BOOLEAN
  /\ ran \subseteq [from : 0..Len(input), length : 0..NameMax]
  /\ failed \subseteq 0..Len(input) /\ slips \subseteq 0..Len(input)

(* The types. *)
Right == InputOK /\ Kinds

LEMMA RightTypes == ASSUME Right PROVE TypeOK
<1>1. {IsInteractive, edge, prompted, overrun} \subseteq BOOLEAN
  <2>1. /\ IsInteractive \in BOOLEAN /\ edge \in BOOLEAN
        /\ prompted \in BOOLEAN /\ overrun \in BOOLEAN
    BY Zenon DEF Right, Kinds
  <2>2. QED BY <2>1, Zenon
<1>2. InputOK /\ Kinds
  BY DEF Right
<1>3. ring \in Rings(Spot) /\ read \in 0..Len(input) /\ at \in Places
  BY <1>2, Zenon DEF Kinds
<1>4. /\ ran \subseteq [from : 0..Len(input), length : 0..NameMax]
      /\ failed \subseteq 0..Len(input) /\ slips \subseteq 0..Len(input)
  BY <1>2, Zenon DEF Kinds
<1>5. ring \in [buf : [0..(ILimit - 1) -> [ch : Chars \cup {""}, pos : 0..Len(input)]],
                in : 0..(ILimit - 1), out : 0..(ILimit - 1), eof : BOOLEAN, eoln : BOOLEAN]
  BY <1>3 DEF Rings, Spot
<1>6. input \in Seq([ch : Chars, pos : Nat])
  BY <1>2 DEF InputOK
<1>7. QED BY <1>1, <1>3, <1>4, <1>5, <1>6, Zenon DEF TypeOK

(* Characters of the input are what the buffer's places hold. *)
LEMMA Spots ==
  ASSUME InputOK
  PROVE  Len(input) \in Nat /\ \A i \in 1..Len(input) : input[i] \in Spot /\ input[i].ch \in Chars
<1>1. input \in Seq([ch : Chars, pos : Nat])
  BY DEF InputOK
<1>2. Len(input) \in Nat /\ \A i \in 1..Len(input) : input[i] \in [ch : Chars, pos : Nat]
  BY <1>1, LenProperties, ElementOfSeq
<1>3. ASSUME NEW i \in 1..Len(input) PROVE input[i] \in Spot /\ input[i].ch \in Chars
  <2>1. input[i].pos \in 0..Len(input)
    BY <1>2, <1>3 DEF InputOK
  <2>2. QED BY <1>2, <1>3, <2>1 DEF Spot
<1>4. QED BY <1>2, <1>3

(* How many characters a read can return, and that there are some. *)
LEMMA LengthIs ==
  ASSUME InputOK, read \in 0..Len(input), NEW free \in Nat, NEW n \in Lengths(free)
  PROVE  /\ n \in Nat /\ n <= free /\ read + n <= Len(input)
         /\ Tty /\ n > 0 => \A k \in 1..(n - 1) : input[read + k].ch \notin Eolns
         /\ n = 0 => free = 0 \/ read = Len(input)
<1> DEFINE rest == Len(input) - read
           most == Min({free, rest})
           ends == {k \in 1..most : input[read + k].ch \in Eolns}
<1>1. Len(input) \in Nat /\ read \in Nat /\ rest \in Nat
  BY Spots
<1>2. most \in Nat /\ most <= free /\ most <= rest /\ most \in {free, rest}
  BY <1>1, MinPair
<1>e. ends \in SUBSET Nat
  BY <1>2
<1>3. ends # {} => Min(ends) \in ends /\ \A y \in ends : Min(ends) <= y
  BY <1>e, MinIs
<1>4. n \in (IF most = 0 THEN {0}
            ELSE IF Tty THEN {IF ends = {} THEN most ELSE Min(ends)}
            ELSE 1..most)
  BY DEF Lengths
<1> DEFINE last == Min(ends)
<1>5. ends \subseteq 1..most /\ \A k \in 1..most : k \notin ends => input[read + k].ch \notin Eolns
  OBVIOUS
<1> HIDE DEF most, ends, rest
<1>6. n \in 0..most
  <2>1. CASE most = 0
    BY <1>2, <1>4, <2>1
  <2>2. CASE most # 0 /\ Tty
    BY <1>2, <1>3, <1>4, <1>5, <2>2
  <2>3. CASE most # 0 /\ ~Tty
    BY <1>2, <1>4, <2>3
  <2>4. QED BY <2>1, <2>2, <2>3
<1>7. n = 0 => most = 0
  <2>1. CASE most # 0 /\ Tty
    BY <1>2, <1>3, <1>4, <1>5, <2>1
  <2>2. CASE most # 0 /\ ~Tty
    BY <1>2, <1>4, <2>2
  <2>3. QED BY <2>1, <2>2
<1>8. ASSUME Tty, n > 0, NEW k \in 1..(n - 1) PROVE input[read + k].ch \notin Eolns
  <2>1. k \in 1..most
    BY <1>2, <1>6, <1>8
  <2>2. k \notin ends
    BY <1>2, <1>3, <1>4, <1>6, <1>8
  <2>3. QED BY <1>5, <2>1, <2>2
<1>9. read + n <= Len(input) /\ n <= free /\ n \in Nat
  BY <1>1, <1>2, <1>6 DEF rest
<1>10. n = 0 => free = 0 \/ read = Len(input)
  BY <1>1, <1>2, <1>7 DEF rest
<1>11. QED BY <1>8, <1>9, <1>10
-----------------------------------------------------------------------------
(* The characters in the buffer, and how many of the input are used up. *)
Held == BufferTotalContent(ring)
Used == read - Held

(* The buffer is a queue; a line that has been read ends what is in it. *)
Queue ==
  /\ Held <= read
  /\ \A k \in 0..(Held - 1) : Nth(ring, k) = input[Used + k + 1]
  /\ ring.eoln /\ Held > 0 => Ch(read) \in Eolns

(* Of half a buffer of characters from the i-th on one is of the class. *)
Near(i, class) ==
  i + Half - 1 <= Len(input) => \E k \in i..(i + Half - 1) : Ch(k) \in class

(* MayFail, of the input. *)
FailsBehind(i) ==
  \/ TRUE \in Edges
  \/ \E j \in 1..i : Ch(j) \in {"f", "p", "s"} /\ \A k \in (j + 1)..i : Ch(k) \in Eolns

(* Commands end within half a buffer, with their blanks; at a terminal so  *)
(* does the line that a failure skips.                                     *)
BriefInput ==
  /\ \A i \in 1..Len(input) : Near(i, DwEolns)
  /\ Tty => \A i \in 0..Len(input) : FailsBehind(i) => Near(i + 1, Eolns)

(* From a separator to here there are blanks only. *)
Fresh(u) ==
  \E j \in 0..u : /\ j = 0 \/ Ch(j) \in DwEolns
                  /\ \A k \in (j + 1)..u : Ch(k) \in Blanks

(* A command here is not one that is lost. *)
Accounted(i) ==
  CommandAt(i) => \/ \E c \in ran : c.from = i
                  \/ \E j \in failed : j < i /\ SameLine(j, i)
                  \/ TypedToBreak(i)
                  \/ SlippedOver(i)

(* What can be skipped, up to one of the class. *)
Skippable(u, class) ==
  \A i \in (u + 1)..Len(input) : (\A k \in (u + 1)..i : Ch(k) \notin class) => Accounted(i)

(* While gdb is served only ends of lines are used up behind the command,  *)
(* each by an interrupt.                                                   *)
Serving ==
  /\ Held > 0 \/ Used \in slips
  /\ Ch(Used) \in Eolns => Used \in slips
  /\ \E j \in 1..Used : Ch(j) \in {"f", "p", "s"} /\ \A k \in (j + 1)..Used : Ch(k) \in Eolns

(* What holds at each place of the loop. *)
AtPlace ==
  /\ at \in {"loop", "prompt", "start", "again", "parse"} => Fresh(Used)
  /\ at = "parse" => Used < Len(input) /\ Ch(Used + 1) \notin Blanks
  /\ at \in {"number", "go", "serve", "rest"} => Skippable(Used, DwEolns)
  /\ at = "serve" => Serving
  /\ at = "number" /\ Tty => Near(Used + 1, Eolns)
  /\ at = "go" => Held > 0 /\ \E c \in ran : c.from = Used /\ c.length = 1 /\ Ch(Used) = "g"
  /\ at = "ends" => Held > 0 /\ Ch(Used + 1) \in DwEolns
  /\ at = "failed" => Tty /\ Near(Used + 1, Eolns) /\ Skippable(Used, Eolns)

Done == \A i \in 1..Used : Accounted(i)

(* When a terminal has nothing more of a line, the user has been asked, or *)
(* the line is read behind a slip.                                         *)
Asked ==
  /\ IsInteractive /\ ~prompted /\ ~Slipped(read) /\ Held > 0 => ring.eoln
  /\ IsInteractive /\ ~prompted /\ ~Slipped(read) /\ Held = 0 => at \in {"loop", "prompt"}
  /\ at = "go" /\ Tty => prompted

Names == \A c \in ran : c.length > 0 => CommandAt(c.from) /\ c.length = NameLength(c.from)

ConsoleInv ==
  /\ Right /\ BriefInput /\ (edge => TRUE \in Edges) /\ (IsInteractive => Tty)
  /\ ~ring.eof /\ ~overrun => Queue /\ AtPlace /\ Done /\ Asked /\ Names
-----------------------------------------------------------------------------
(* Skipping keeps the buffer's type. *)
LEMMA SkipsKept ==
  ASSUME ILimitAssumption, NEW S, NEW r \in Rings(S), NEW class
  PROVE  /\ SkipWhile(r, class) \in Rings(S) /\ SkipCh(r) \in Rings(S) /\ SkipEoln(r) \in Rings(S)
         /\ Nth(r, 0) \in S
<1>1. 0 \in 0..(ILimit - 1) /\ 1 \in 0..(ILimit - 1) /\ ILimit \in Nat
  BY DEF ILimitAssumption
<1>2. ReadLength(r, class, ILimit) \in 0..(ILimit - 1)
  BY <1>1, ReadIs
<1>3. SkipWhile(r, class) \in Rings(S)
  BY <1>2, Skipped DEF SkipWhile
<1>4. SkipCh(r) \in Rings(S)
  BY <1>1, Skipped DEF SkipCh
<1>5. Nth(r, 0) \in S
  BY <1>1, NthIs
<1>6. QED BY <1>3, <1>4, <1>5 DEF SkipEoln

(* What is read: the next characters of the input. *)
LEMMA ChunkIs ==
  ASSUME InputOK, read \in 0..Len(input), NEW n \in Nat, read + n <= Len(input)
  PROVE  LET chunk == SubSeq(input, read + 1, read + n)
         IN  /\ chunk \in Seq(Spot) /\ Len(chunk) = n
             /\ \A k \in 1..n : chunk[k] = input[read + k]
             /\ chunk = <<>> <=> n = 0
<1> DEFINE chunk == SubSeq(input, read + 1, read + n)
<1>1. Len(input) \in Nat /\ \A i \in 1..Len(input) : input[i] \in Spot
  BY Spots
<1>2. read + 1 \in Int /\ read + n \in Int /\ \A i \in (read + 1)..(read + n) : input[i] \in Spot
  BY <1>1
<1>3. /\ chunk \in Seq(Spot)
      /\ Len(chunk) = IF read + 1 <= read + n THEN (read + n) - (read + 1) + 1 ELSE 0
      /\ \A i \in 1..((read + n) - (read + 1) + 1) : chunk[i] = input[(read + 1) + i - 1]
  BY <1>2, SubSeqProperties, SMTT(60), ZenonT(60)
<1>4. Len(chunk) = n
  BY <1>1, <1>3
<1>5. \A k \in 1..n : chunk[k] = input[read + k]
  BY <1>1, <1>3
<1>6. chunk = <<>> <=> n = 0
  BY <1>3, <1>4, EmptySeq
<1>7. QED BY <1>3, <1>4, <1>5, <1>6

(* Of the places that can be filled there is one, unless the buffer is full. *)
LEMMA FreeIs ==
  ASSUME ILimitAssumption, NEW S, NEW r \in Rings(S)
  PROVE  /\ BufferContiguousFree(r) \in Nat
         /\ BufferTotalContent(r) < ILimit - 1 => BufferContiguousFree(r) > 0
<1>1. r.in \in 0..(ILimit - 1) /\ r.out \in 0..(ILimit - 1) /\ ILimit \in Nat /\ ILimit > 3
  BY DEF Rings, ILimitAssumption
<1>2. BufferTotalContent(r) = IF r.in >= r.out THEN r.in - r.out ELSE r.in + ILimit - r.out
  BY ContentIs
<1>3. QED BY <1>1, <1>2 DEF BufferContiguousFree

(* Fill: what it does to the buffer. *)
LEMMA FillIs ==
  ASSUME ILimitAssumption, Right, Fill
  PROVE  \E n \in Lengths(BufferContiguousFree(ring)) :
           LET chunk == SubSeq(input, read + 1, read + n)
           IN  /\ n \in Nat /\ read' = read + n /\ read' <= Len(input)
               /\ chunk \in Seq(Spot) /\ Len(chunk) = n /\ n <= BufferContiguousFree(ring)
               /\ \A k \in 1..n : chunk[k] = input[read + k]
               /\ chunk = <<>> <=> n = 0
               /\ n = 0 => read = Len(input)
               /\ ring' = ContiguousFill(ring, chunk)
<1>1. InputOK /\ read \in 0..Len(input) /\ ring \in Rings(Spot)
  BY DEF Right, Kinds
<1>2. /\ BufferContiguousFree(ring) \in Nat
      /\ BufferTotalContent(ring) < ILimit - 1 => BufferContiguousFree(ring) > 0
  BY <1>1, FreeIs
<1>3. BufferTotalContent(ring) < ILimit \div 2 /\ ILimit \div 2 <= ILimit - 1
  BY Wrapped DEF Fill, NeedsMore, ILimitAssumption
<1>4. BufferTotalContent(ring) \in Nat /\ ILimit \in Nat /\ ILimit \div 2 \in Nat
  BY <1>1, ContentIs, Wrapped DEF ILimitAssumption
<1>5. BufferContiguousFree(ring) > 0
  BY <1>2, <1>3, <1>4
<1>6. PICK n \in Lengths(BufferContiguousFree(ring)) :
        /\ ring' = ContiguousFill(ring, SubSeq(input, read + 1, read + n))
        /\ read' = read + n
  BY DEF Fill
<1>7. /\ n \in Nat /\ n <= BufferContiguousFree(ring) /\ read + n <= Len(input)
      /\ n = 0 => BufferContiguousFree(ring) = 0 \/ read = Len(input)
  BY <1>1, <1>2, LengthIs
<1>8. LET chunk == SubSeq(input, read + 1, read + n)
      IN  /\ chunk \in Seq(Spot) /\ Len(chunk) = n
          /\ \A k \in 1..n : chunk[k] = input[read + k]
          /\ chunk = <<>> <=> n = 0
  BY <1>1, <1>7, ChunkIs
<1>9. n = 0 => read = Len(input)
  BY <1>5, <1>7
<1>10. QED BY <1>6, <1>7, <1>8, <1>9

(* The types are kept. *)
LEMMA RightKept ==
  ASSUME ILimitAssumption, ConsoleAssumption, Right, [Next]_vars
  PROVE  Right'
<1>1. InputOK /\ Kinds
  BY DEF Right
<1>2. /\ ring \in Rings(Spot) /\ read \in 0..Len(input) /\ at \in Places
      /\ IsInteractive \in BOOLEAN /\ edge \in BOOLEAN /\ prompted \in BOOLEAN /\ overrun \in BOOLEAN
      /\ ran \subseteq [from : 0..Len(input), length : 0..NameMax]
      /\ failed \subseteq 0..Len(input) /\ slips \subseteq 0..Len(input)
  BY <1>1 DEF Kinds
<1>3. Tty \in BOOLEAN /\ Edges \subseteq BOOLEAN /\ NameMax \in Nat
  BY DEF ConsoleAssumption
<1>4. \A class : SkipWhile(ring, class) \in Rings(Spot)
  BY <1>2, SkipsKept
<1>5. \A r \in Rings(Spot) :
        SkipCh(r) \in Rings(Spot) /\ SkipEoln(r) \in Rings(Spot) /\ Nth(r, 0).pos \in 0..Len(input)
  <2>1. ASSUME NEW r \in Rings(Spot)
        PROVE  SkipCh(r) \in Rings(Spot) /\ SkipEoln(r) \in Rings(Spot) /\ Nth(r, 0) \in Spot
    BY SkipsKept
  <2>2. \A x \in Spot : x.pos \in 0..Len(input)
    BY DEF Spot
  <2>3. QED BY <2>1, <2>2
<1>6. CASE UNCHANGED vars
  <2>1. /\ ring' = ring /\ input' = input /\ read' = read /\ at' = at /\ ran' = ran
        /\ failed' = failed /\ slips' = slips /\ IsInteractive' = IsInteractive
        /\ edge' = edge /\ prompted' = prompted /\ overrun' = overrun
    BY <1>6 DEF vars
  <2>2. InputOK' /\ Spot' = Spot
    BY <1>1, <2>1 DEF InputOK, Spot
  <2>3. Kinds'
    BY <1>2, <2>1, <2>2, Zenon DEF Kinds, Rings
  <2>4. QED BY <2>2, <2>3 DEF Right
<1> SUFFICES ASSUME Next PROVE Right'
  BY <1>6
<1>7. input' = input
  BY DEF Next, Fill, Loop, Prompt, Start, Again, Quit, HandleCommand, ReadNumber, DeviceBreak,
         KeyboardBreak, GdbBreak, GdbEnds, Rest, Ends, Recover
<1>8. InputOK' /\ Spot' = Spot
  BY <1>1, <1>7 DEF InputOK, Spot
<1>9. SUFFICES /\ ring' \in Rings(Spot) /\ read' \in 0..Len(input) /\ at' \in Places
               /\ IsInteractive' \in BOOLEAN /\ edge' \in BOOLEAN /\ prompted' \in BOOLEAN /\ overrun' \in BOOLEAN
               /\ ran' \subseteq [from : 0..Len(input), length : 0..NameMax]
               /\ failed' \subseteq 0..Len(input) /\ slips' \subseteq 0..Len(input)
  BY <1>7, <1>8 DEF Right, Kinds
<1>10. CASE Fill
  <2>1. PICK n \in Lengths(BufferContiguousFree(ring)) :
          LET chunk == SubSeq(input, read + 1, read + n)
          IN  /\ n \in Nat /\ read' = read + n /\ read' <= Len(input)
              /\ chunk \in Seq(Spot) /\ Len(chunk) = n /\ n <= BufferContiguousFree(ring)
              /\ ring' = ContiguousFill(ring, chunk)
    BY <1>10, FillIs
  <2> DEFINE chunk == SubSeq(input, read + 1, read + n)
  <2>a. chunk \in Seq(Spot) /\ Len(chunk) <= BufferContiguousFree(ring)
    BY <2>1
  <2>b. ring' = ContiguousFill(ring, chunk)
    BY <2>1
  <2> HIDE DEF chunk
  <2>2. ring' \in Rings(Spot)
    BY <1>2, <2>a, <2>b, Filled
  <2>3. read' \in 0..Len(input)
    BY <1>1, <1>2, <2>1, Spots
  <2>4. (prompted /\ ~ring'.eoln) \in BOOLEAN
    OBVIOUS
  <2>5. QED BY <1>2, <1>10, <2>2, <2>3, <2>4 DEF Fill
<1>11. CASE Loop
  BY <1>2, <1>3, <1>11 DEF Loop, Places, Fills
<1>12. CASE Prompt
  <2>1. at' \in {"failed", "start"} /\ failed' \subseteq failed \cup {read} /\ slips' \subseteq slips \cup {read}
    BY <1>12 DEF Prompt
  <2>2. prompted' \in BOOLEAN
    BY <1>2, <1>12 DEF Prompt
  <2>3. QED BY <1>2, <1>12, <2>1, <2>2 DEF Prompt, Places, Fills
<1>13. CASE Start
  <2>1. at' \in {"again", "parse"}
    BY <1>13 DEF Start
  <2>2. ring' \in Rings(Spot)
    BY <1>4, <1>5, <1>13 DEF Start
  <2>3. QED BY <1>2, <1>13, <2>1, <2>2 DEF Start, Places, Fills
<1>14. CASE Again
  BY <1>2, <1>4, <1>14 DEF Again, Places, Fills
<1>15. CASE Quit
  BY <1>2, <1>15 DEF Quit, Places, Fills
<1>16. ASSUME NEW p \in 0..Len(input), FailsAt(p)
       PROVE  failed' \subseteq 0..Len(input) /\ at' \in Places
  BY <1>2, <1>16 DEF FailsAt, Places, Fills
<1>17. CASE HandleCommand
  <2> DEFINE n    == ReadLength(ring, Alpha, NameMax)
             here == Nth(ring, 0).pos
             name == [k \in 1..n |-> Nth(ring, k - 1).ch]
  <2>1. n \in 0..(ILimit - 1) /\ n \in 0..NameMax
    <3>1. n \in 0..(ILimit - 1) /\ n <= NameMax
      BY <1>2, <1>3, ReadIs
    <3>2. QED BY <1>3, <3>1 DEF ILimitAssumption
  <2>2. here \in 0..Len(input)
    BY <1>2, <1>5
  <2>3. ring' = Skip(ring, n) /\ ran' = ran \cup {[from |-> here, length |-> n]}
    BY <1>17 DEF HandleCommand
  <2>4. ring' \in Rings(Spot)
    BY <1>2, <2>1, <2>3, Skipped
  <2>5. ran' \subseteq [from : 0..Len(input), length : 0..NameMax]
    BY <1>2, <2>1, <2>2, <2>3
  <2>6. /\ CASE name = <<"f">> -> FailsAt(here)
             [] name = <<"p">> -> at' = "number" /\ UNCHANGED failed
             [] name = <<"g">> -> at' = "go" /\ UNCHANGED failed
             [] name = <<"s">> -> at' = "serve" /\ UNCHANGED failed
             [] OTHER          -> at' = "rest" /\ UNCHANGED failed
    BY <1>17, Zenon DEF HandleCommand
  <2> HIDE DEF n, here, name
  <2>7. FailsAt(here) \/ (at' \in {"number", "go", "serve", "rest"} /\ UNCHANGED failed)
    BY <2>6
  <2>8. failed' \subseteq 0..Len(input) /\ at' \in Places
    BY <1>2, <1>16, <2>2, <2>7 DEF Places, Fills
  <2>9. prompted' \in BOOLEAN
    BY <1>17 DEF HandleCommand
  <2>10. QED BY <1>2, <1>17, <2>4, <2>5, <2>8, <2>9 DEF HandleCommand
<1>18. CASE ReadNumber
  <2> DEFINE r == SkipWhile(ring, Blanks)
             n == RunLength(r, Numeric, ILimit - 1)
  <2>1. r \in Rings(Spot) /\ n \in 0..(ILimit - 1)
    BY <1>4, RunIs DEF ILimitAssumption
  <2>2. ring' = Skip(r, n)
    BY <1>18 DEF ReadNumber
  <2>3. ring' \in Rings(Spot)
    BY <2>1, <2>2, Skipped
  <2>4. (FailsAt(Nth(r, 0).pos) /\ UNCHANGED edge)
        \/ (edge' \in Edges /\ at' = "rest" /\ UNCHANGED failed)
    BY <1>18 DEF ReadNumber
  <2>5. Nth(r, 0).pos \in 0..Len(input)
    BY <1>5, <2>1
  <2> HIDE DEF r, n
  <2>6. failed' \subseteq 0..Len(input) /\ at' \in Places /\ edge' \in BOOLEAN
    BY <1>2, <1>3, <1>16, <2>4, <2>5 DEF Places, Fills
  <2>7. QED BY <1>2, <1>18, <2>3, <2>6 DEF ReadNumber
<1>19. CASE DeviceBreak
  BY <1>2, <1>19 DEF DeviceBreak, Places, Fills
<1>20. CASE KeyboardBreak
  BY <1>2, <1>5, <1>20 DEF KeyboardBreak, Places, Fills
<1>g. CASE GdbBreak
  <2>1. slips' \subseteq slips \cup {Nth(ring, 0).pos}
    BY <1>g DEF GdbBreak
  <2>2. overrun' \in BOOLEAN
    BY <1>2, <1>g DEF GdbBreak
  <2>3. QED BY <1>2, <1>5, <1>g, <2>1, <2>2 DEF GdbBreak
<1>e. CASE GdbEnds
  <2>1. Len(input) \in Nat /\ BufferTotalContent(ring) \in Nat
    BY <1>1, <1>2, Spots, ContentIs DEF ILimitAssumption
  <2>2. LastUsed \in 0..Len(input)
    BY <1>2, <2>1 DEF LastUsed
  <2> HIDE DEF LastUsed
  <2>3. failed' \subseteq 0..Len(input) /\ at' \in Places
    BY <1>2, <1>16, <1>e, <2>2 DEF GdbEnds, Places, Fills
  <2>4. QED BY <1>2, <1>e, <2>3 DEF GdbEnds
<1>21. CASE Rest
  BY <1>2, <1>4, <1>21 DEF Rest, Places, Fills
<1>22. CASE Ends
  BY <1>2, <1>4, <1>22 DEF Ends, Places, Fills
<1>23. CASE Recover
  BY <1>2, <1>4, <1>5, <1>23 DEF Recover, Places, Fills
<1>24. QED
  BY <1>10, <1>11, <1>12, <1>13, <1>14, <1>15, <1>17, <1>18, <1>19, <1>20, <1>g, <1>e, <1>21, <1>22, <1>23 DEF Next
-----------------------------------------------------------------------------
(* What is in the buffer is the input that is read and not used up. *)
LEMMA QueueIs ==
  ASSUME ILimitAssumption, Right, Queue
  PROVE  /\ Used \in 0..Len(input) /\ Held \in 0..(ILimit - 1) /\ Used + Held = read
         /\ Len(input) \in Nat /\ read \in 0..Len(input)
         /\ \A k \in 0..(Held - 1) : Nth(ring, k).ch = Ch(Used + k + 1) /\ Nth(ring, k).pos = Used + k + 1
         /\ \A i \in 1..Len(input) : Ch(i) \in Chars
<1>1. InputOK /\ read \in 0..Len(input) /\ ring \in Rings(Spot)
  BY DEF Right, Kinds
<1>2. Len(input) \in Nat /\ \A i \in 1..Len(input) : input[i] \in Spot /\ input[i].ch \in Chars
  BY <1>1, Spots
<1>3. Held \in 0..(ILimit - 1)
  BY <1>1, ContentIs DEF Held
<1>4. Held <= read
  BY DEF Queue
<1>5. Used \in 0..Len(input) /\ Used + Held = read
  BY <1>1, <1>2, <1>3, <1>4 DEF Used, ILimitAssumption
<1>6. ASSUME NEW k \in 0..(Held - 1)
      PROVE  Nth(ring, k).ch = Ch(Used + k + 1) /\ Nth(ring, k).pos = Used + k + 1
  <2>1. Used + k + 1 \in 1..Len(input)
    BY <1>1, <1>2, <1>3, <1>5, <1>6 DEF ILimitAssumption
  <2>2. Nth(ring, k) = input[Used + k + 1]
    BY <1>6 DEF Queue
  <2>3. QED BY <1>1, <2>1, <2>2 DEF InputOK, Ch
<1>7. QED BY <1>1, <1>2, <1>3, <1>5, <1>6 DEF Ch

(* Skipping takes characters from the beginning of the queue. *)
LEMMA Took ==
  ASSUME ILimitAssumption, Right, Queue, NEW k \in 0..Held,
         ring' = Skip(ring, k), input' = input, read' = read
  PROVE  /\ Held' = Held - k /\ Used' = Used + k /\ Queue'
         /\ ring'.eof = ring.eof /\ ring'.eoln = ring.eoln
         /\ Content(ring') = SubSeq(Content(ring), k + 1, Held)
<1>1. ring \in Rings(Spot)
  BY DEF Right, Kinds
<1>2. /\ Used \in 0..Len(input) /\ Held \in 0..(ILimit - 1) /\ Used + Held = read
      /\ Len(input) \in Nat /\ read \in 0..Len(input)
  BY QueueIs
<1>3. k \in 0..(ILimit - 1) /\ ILimit \in Nat
  BY <1>2 DEF ILimitAssumption
<1>4. /\ ring' \in Rings(Spot) /\ ring'.eof = ring.eof /\ ring'.eoln = ring.eoln
      /\ \A j \in 0..(ILimit - 1) : k + j < ILimit => Nth(ring', j) = Nth(ring, k + j)
      /\ k <= BufferTotalContent(ring) => BufferTotalContent(ring') = BufferTotalContent(ring) - k
  BY <1>1, <1>3, Skipped
<1>5. Held' = Held - k /\ BufferTotalContent(ring') = Held - k
  BY <1>4 DEF Held
<1>6. Used' = Used + k
  BY <1>2, <1>3, <1>5 DEF Used
<1>7. \A j \in 0..(Held - k - 1) : Nth(ring', j) = Nth(ring, k + j)
  BY <1>2, <1>3, <1>4
<1>8. \A j \in 0..(Held' - 1) : Nth(ring', j) = input'[Used' + j + 1]
  <2>1. ASSUME NEW j \in 0..(Held - k - 1) PROVE Nth(ring', j) = input[Used + k + j + 1]
    <3>1. k + j \in 0..(Held - 1) /\ Used + (k + j) + 1 = Used + k + j + 1
      BY <1>2, <1>3
    <3>2. Nth(ring, k + j) = input[Used + (k + j) + 1]
      BY <3>1 DEF Queue
    <3>3. QED BY <1>7, <3>1, <3>2
  <2>2. QED BY <1>5, <1>6, <2>1
<1>9. Queue'
  <2>1. Held' <= read'
    BY <1>2, <1>3, <1>5
  <2>2. ring'.eoln /\ Held' > 0 => Ch(read)' \in Eolns
    <3>1. ring'.eoln /\ Held' > 0 => ring.eoln /\ Held > 0
      BY <1>2, <1>3, <1>4, <1>5
    <3>2. Ch(read)' = Ch(read)
      BY DEF Ch
    <3>3. QED BY <3>1, <3>2 DEF Queue
  <2>3. QED BY <1>8, <2>1, <2>2 DEF Queue
<1>10. Content(ring') = SubSeq(Content(ring), k + 1, Held)
  <2> DEFINE C == Content(ring)
             D == SubSeq(C, k + 1, Held)
             X == Content(ring')
  <2>1. C = [i \in 1..Held |-> Nth(ring, i - 1)] /\ X = [i \in 1..(Held - k) |-> Nth(ring', i - 1)]
    BY <1>5 DEF Content, Held
  <2>2. \A i \in 1..Held : C[i] \in Spot
    <3>1. ASSUME NEW i \in 1..Held PROVE Nth(ring, i - 1) \in Spot
      <4>1. i - 1 \in 0..(ILimit - 1)
        BY <1>2, <1>3
      <4>2. QED BY <1>1, <4>1, NthIs
    <3>2. QED BY <2>1, <3>1
  <2>3. \A i \in 1..(Held - k) : X[i] = C[k + i]
    <3>1. ASSUME NEW i \in 1..(Held - k) PROVE Nth(ring', i - 1) = Nth(ring, (k + i) - 1)
      <4>1. i - 1 \in 0..(Held - k - 1) /\ k + (i - 1) = (k + i) - 1
        BY <1>2, <1>3
      <4>2. QED BY <1>7, <4>1
    <3>2. \A i \in 1..(Held - k) : k + i \in 1..Held
      BY <1>2, <1>3
    <3>3. QED BY <2>1, <3>1, <3>2
  <2> HIDE DEF C, X
  <2>4. k + 1 \in Int /\ Held \in Int /\ \A i \in (k + 1)..Held : C[i] \in Spot
    BY <1>2, <1>3, <2>2
  <2>5. /\ D \in Seq(Spot)
        /\ Len(D) = IF k + 1 <= Held THEN Held - (k + 1) + 1 ELSE 0
        /\ \A i \in 1..(Held - (k + 1) + 1) : D[i] = C[(k + 1) + i - 1]
    BY <2>4, SubSeqProperties
  <2>6. Len(D) = Held - k /\ \A i \in 1..(Held - k) : D[i] = C[k + i]
    BY <1>2, <1>3, <2>5
  <2>7. Held - k \in Nat /\ \A i \in 1..(Held - k) : C[k + i] \in Spot
    BY <1>2, <1>3, <2>2
  <2>8. X \in Seq(Spot) /\ Len(X) = Held - k
    <3>1. X = [i \in 1..(Held - k) |-> C[k + i]]
      <4>1. X = [i \in 1..(Held - k) |-> X[i]]
        BY <2>1 DEF X
      <4>2. QED BY <2>3, <4>1
    <3>2. QED BY <2>7, <3>1, IsASeq
  <2>9. X = D
    BY <2>3, <2>5, <2>6, <2>8, SeqEqual
  <2>10. QED BY <2>9 DEF X, C
<1>11. QED BY <1>4, <1>5, <1>6, <1>9, <1>10

(* Fill adds the next characters at the end of the queue. *)
LEMMA Filling ==
  ASSUME ILimitAssumption, Right, Queue, Fill
  PROVE  /\ Used' = Used /\ Held <= Held'
         /\ ring'.eof \/ read' > read
         /\ ~ring'.eof => Queue' /\ Held' > 0
         /\ IF read' # read
            THEN Content(ring') = Content(ring) \o SubSeq(input, read + 1, read')
            ELSE Content(ring') = Content(ring)
         /\ input' = input
<1>1. ring \in Rings(Spot)
  BY DEF Right, Kinds
<1>2. /\ Used \in 0..Len(input) /\ Held \in 0..(ILimit - 1) /\ Used + Held = read
      /\ Len(input) \in Nat /\ read \in 0..Len(input) /\ ILimit \in Nat
  BY QueueIs DEF ILimitAssumption
<1>3. PICK n \in Lengths(BufferContiguousFree(ring)) :
        LET chunk == SubSeq(input, read + 1, read + n)
        IN  /\ n \in Nat /\ read' = read + n /\ read' <= Len(input)
            /\ chunk \in Seq(Spot) /\ Len(chunk) = n /\ n <= BufferContiguousFree(ring)
            /\ \A k \in 1..n : chunk[k] = input[read + k]
            /\ chunk = <<>> <=> n = 0
            /\ ring' = ContiguousFill(ring, chunk)
  BY FillIs
<1> DEFINE chunk == SubSeq(input, read + 1, read + n)
<1>4. /\ n \in Nat /\ read' = read + n /\ read' <= Len(input)
      /\ chunk \in Seq(Spot) /\ Len(chunk) = n /\ Len(chunk) <= BufferContiguousFree(ring)
      /\ \A k \in 1..n : chunk[k] = input[read + k]
      /\ chunk = <<>> <=> n = 0
      /\ ring' = ContiguousFill(ring, chunk)
  BY <1>3
<1>5. input' = input
  BY DEF Fill
<1>c. chunk = SubSeq(input, read + 1, read')
  BY <1>4
<1> HIDE DEF chunk
<1>6. /\ ring' \in Rings(Spot) /\ ring'.eof = (chunk = <<>>)
      /\ ring'.eoln = (chunk # <<>> /\ chunk[Len(chunk)].ch \in Eolns)
      /\ BufferTotalContent(ring') = BufferTotalContent(ring) + Len(chunk)
      /\ \A k \in 0..(BufferTotalContent(ring) - 1) : Nth(ring', k) = Nth(ring, k)
      /\ \A k \in 0..(Len(chunk) - 1) : Nth(ring', BufferTotalContent(ring) + k) = chunk[k + 1]
  BY <1>1, <1>4, Filled
<1>7. Held' = Held + n /\ BufferTotalContent(ring) = Held /\ BufferTotalContent(ring') = Held + n
  BY <1>4, <1>6 DEF Held
<1>8. Used' = Used
  BY <1>2, <1>4, <1>7 DEF Used
<1>9. ASSUME NEW k \in 0..(Held + n - 1)
      PROVE  /\ Nth(ring', k) = input[Used + k + 1]
             /\ Nth(ring', k) = IF k < Held THEN Nth(ring, k) ELSE chunk[k - Held + 1]
  <2>1. CASE k < Held
    <3>1. k \in 0..(Held - 1)
      BY <1>2, <1>4, <2>1
    <3>2. Nth(ring, k) = input[Used + k + 1]
      BY <3>1 DEF Queue
    <3>3. QED BY <1>6, <1>7, <2>1, <3>1, <3>2
  <2>2. CASE ~(k < Held)
    <3>1. k - Held \in 0..(n - 1) /\ Held + (k - Held) = k /\ k - Held + 1 \in 1..n
          /\ read + (k - Held + 1) = Used + k + 1
      BY <1>2, <1>4, <2>2
    <3>2. Nth(ring', Held + (k - Held)) = chunk[(k - Held) + 1]
      BY <1>4, <1>6, <1>7, <3>1
    <3>3. chunk[k - Held + 1] = input[read + (k - Held + 1)]
      BY <1>4, <3>1
    <3>4. QED BY <2>2, <3>1, <3>2, <3>3
  <2>3. QED BY <2>1, <2>2
<1>e. ring'.eof <=> n = 0
  <2>1. ring'.eof \in BOOLEAN
    BY <1>6 DEF Rings
  <2>2. ring'.eof = (chunk = <<>>)
    BY <1>6
  <2>3. QED BY <1>4, <2>1, <2>2
<1>10. ASSUME ~ring'.eof PROVE Queue' /\ Held' > 0
  <2>1. n > 0
    BY <1>4, <1>e, <1>10
  <2>2. Held' <= read' /\ Held' > 0
    BY <1>2, <1>4, <1>7, <2>1
  <2>3. \A k \in 0..(Held' - 1) : Nth(ring', k) = input'[Used' + k + 1]
    <3>1. \A k \in 0..(Held + n - 1) : Nth(ring', k) = input[Used + k + 1]
      BY <1>9
    <3>2. Held' = Held + n
      BY <1>7
    <3>3. ASSUME NEW k \in 0..(Held' - 1) PROVE Nth(ring', k) = input'[Used' + k + 1]
      <4>1. k \in 0..(Held + n - 1)
        BY <1>2, <1>4, <3>2
      <4>2. Nth(ring', k) = input[Used + k + 1]
        BY <3>1, <4>1
      <4>3. QED BY <1>5, <1>8, <4>2
    <3>4. QED BY <3>3
  <2>4. Ch(read)' = chunk[Len(chunk)].ch
    <3>1. n \in 1..n /\ Ch(read)' = input[read + n].ch
      BY <1>4, <1>5, <2>1 DEF Ch
    <3>2. chunk[n] = input[read + n]
      BY <1>4, <3>1
    <3>3. QED BY <1>4, <3>1, <3>2
  <2>5. ring'.eoln /\ Held' > 0 => Ch(read)' \in Eolns
    BY <1>6, <2>4
  <2>6. QED BY <2>2, <2>3, <2>5 DEF Queue
<1>11. Content(ring') = Content(ring) \o chunk
  <2> DEFINE C == Content(ring)
             X == Content(ring')
  <2>1. C = [i \in 1..Held |-> Nth(ring, i - 1)] /\ X = [i \in 1..(Held + n) |-> Nth(ring', i - 1)]
    BY <1>7 DEF Content
  <2>2. \A i \in 1..Held : Nth(ring, i - 1) \in Spot
    <3>1. ASSUME NEW i \in 1..Held PROVE Nth(ring, i - 1) \in Spot
      <4>1. i - 1 \in 0..(ILimit - 1)
        BY <1>2
      <4>2. QED BY <1>1, <4>1, NthIs
    <3>2. QED BY <3>1
  <2>a. \A i \in 1..n : chunk[i] \in Spot
    BY <1>4, ElementOfSeq
  <2>3. \A i \in 1..(Held + n) :
          Nth(ring', i - 1) = (IF i <= Held THEN Nth(ring, i - 1) ELSE chunk[i - Held])
    <3>1. ASSUME NEW i \in 1..(Held + n)
          PROVE  Nth(ring', i - 1) = (IF i <= Held THEN Nth(ring, i - 1) ELSE chunk[i - Held])
      <4>1. i - 1 \in 0..(Held + n - 1) /\ (i - 1) - Held + 1 = i - Held /\ (i <= Held <=> i - 1 < Held)
        BY <1>2, <1>4
      <4>2. QED BY <1>9, <4>1
    <3>2. QED BY <3>1
  <2>4. \A i \in 1..(Held + n) : Nth(ring', i - 1) \in Spot
    <3>1. ASSUME NEW i \in 1..(Held + n) PROVE Nth(ring', i - 1) \in Spot
      <4>1. CASE i <= Held
        BY <1>2, <1>4, <2>2, <2>3, <4>1
      <4>2. CASE ~(i <= Held)
        <5>1. i - Held \in 1..n
          BY <1>2, <1>4, <4>2
        <5>2. QED BY <2>3, <2>a, <4>2, <5>1
      <4>3. QED BY <4>1, <4>2
    <3>2. QED BY <3>1
  <2>5. C \in Seq(Spot) /\ Len(C) = Held
    <3>1. Held \in Nat
      BY <1>2
    <3>2. QED BY <2>1, <2>2, <3>1, IsASeq
  <2>6. X \in Seq(Spot) /\ Len(X) = Held + n
    <3>1. Held + n \in Nat
      BY <1>2, <1>4
    <3>2. QED BY <2>1, <2>4, <3>1, IsASeq
  <2>7. \A i \in 1..Held : C[i] = Nth(ring, i - 1)
    BY <2>1
  <2>8. \A i \in 1..(Held + n) : X[i] = Nth(ring', i - 1)
    BY <2>1
  <2> HIDE DEF C, X
  <2>9. /\ C \o chunk \in Seq(Spot) /\ Len(C \o chunk) = Len(C) + Len(chunk)
        /\ \A i \in 1..(Len(C) + Len(chunk)) :
             (C \o chunk)[i] = IF i <= Len(C) THEN C[i] ELSE chunk[i - Len(C)]
    BY <1>4, <2>5, ConcatProperties, ZenonT(60), SMTT(60)
  <2>10. \A i \in 1..Len(X) : X[i] = (C \o chunk)[i]
    <3>1. ASSUME NEW i \in 1..(Held + n) PROVE X[i] = (C \o chunk)[i]
      <4>1. CASE i <= Held
        <5>1. i \in 1..Held
          BY <1>2, <1>4, <4>1
        <5>2. X[i] = C[i]
          BY <2>3, <2>7, <2>8, <4>1, <5>1
        <5>3. QED BY <1>4, <2>5, <2>9, <4>1, <5>2
      <4>2. CASE ~(i <= Held)
        <5>1. X[i] = chunk[i - Held]
          BY <2>3, <2>8, <4>2
        <5>2. QED BY <1>4, <2>5, <2>9, <4>2, <5>1
      <4>3. QED BY <4>1, <4>2
    <3>2. QED BY <2>6, <3>1
  <2>11. Len(X) = Len(C \o chunk)
    BY <1>4, <2>5, <2>6, <2>9
  <2>12. X = C \o chunk
    BY <2>6, <2>9, <2>10, <2>11, SeqEqual
  <2>13. QED BY <2>12 DEF X, C
<1>12. read' = read => Content(ring') = Content(ring)
  <2>1. ASSUME read' = read PROVE chunk = <<>>
    BY <1>2, <1>4, <2>1
  <2>2. Content(ring) \in Seq(Spot)
    <3>1. \A i \in 1..Held : Nth(ring, i - 1) \in Spot
      <4>1. ASSUME NEW i \in 1..Held PROVE Nth(ring, i - 1) \in Spot
        <5>1. i - 1 \in 0..(ILimit - 1)
          BY <1>2
        <5>2. QED BY <1>1, <5>1, NthIs
      <4>2. QED BY <4>1
    <3>2. Held \in Nat
      BY <1>2
    <3>3. Content(ring) = [i \in 1..Held |-> Nth(ring, i - 1)]
      BY <1>7 DEF Content
    <3>4. QED BY <3>1, <3>2, <3>3, IsASeq
  <2>3. Content(ring) \o <<>> = Content(ring)
    BY <2>2, ConcatEmptySeq
  <2>4. QED BY <1>11, <2>1, <2>3
<1>13. ring'.eof \/ read' > read
  BY <1>2, <1>4, <1>e
<1>14. Held <= Held'
  BY <1>2, <1>4, <1>7
<1>15. IF read' # read
       THEN Content(ring') = Content(ring) \o SubSeq(input, read + 1, read')
       ELSE Content(ring') = Content(ring)
  BY <1>11, <1>12, <1>c
<1>16. QED BY <1>5, <1>8, <1>10, <1>13, <1>14, <1>15

(* ReadWhile, SkipWhile: the characters of the class that are next. *)
LEMMA Reads ==
  ASSUME ILimitAssumption, Right, Queue, NEW class, NEW n \in Nat
  PROVE  LET k == ReadLength(ring, class, n)
         IN  /\ k \in 0..Held /\ k <= n
             /\ \A i \in (Used + 1)..(Used + k) : Ch(i) \in class
             /\ \A i \in (Used + 1)..read : Ch(i) \notin class => Used + k < i
             /\ k < Held /\ k < n => /\ Nth(ring, k).ch = Ch(Used + k + 1)
                                     /\ Ch(Used + k + 1) \notin class
<1> DEFINE k == ReadLength(ring, class, n)
<1>1. /\ Used \in 0..Len(input) /\ Held \in 0..(ILimit - 1) /\ Used + Held = read
      /\ Len(input) \in Nat /\ read \in 0..Len(input) /\ ILimit \in Nat
      /\ \A j \in 0..(Held - 1) : Nth(ring, j).ch = Ch(Used + j + 1)
  BY QueueIs DEF ILimitAssumption
<1>2. ring \in Rings(Spot) /\ BufferTotalContent(ring) = Held
  BY DEF Right, Kinds, Held
<1>3. /\ k \in 0..Held /\ k <= n
      /\ \A j \in 0..(k - 1) : Nth(ring, j).ch \in class
      /\ k < Held /\ k < n => Nth(ring, k).ch \notin class
  BY <1>2, ReadIs
<1> HIDE DEF k
<1>4. ASSUME NEW i \in (Used + 1)..(Used + k) PROVE Ch(i) \in class
  <2>1. i - Used - 1 \in 0..(k - 1) /\ i - Used - 1 \in 0..(Held - 1) /\ Used + (i - Used - 1) + 1 = i
    BY <1>1, <1>3
  <2>2. Nth(ring, i - Used - 1).ch = Ch(i)
    BY <1>1, <2>1
  <2>3. QED BY <1>3, <2>1, <2>2
<1>5. ASSUME NEW i \in (Used + 1)..read, Ch(i) \notin class PROVE Used + k < i
  BY <1>1, <1>3, <1>4, <1>5
<1>6. k < Held /\ k < n => Nth(ring, k).ch = Ch(Used + k + 1) /\ Ch(Used + k + 1) \notin class
  <2>1. k < Held => k \in 0..(Held - 1)
    BY <1>1, <1>3
  <2>2. QED BY <1>1, <1>3, <2>1
<1>7. QED BY <1>3, <1>4, <1>5, <1>6 DEF k

(* An operation that needs no more finds the end of the command, or of     *)
(* what is to be skipped, in the buffer.                                   *)
LEMMA Stops ==
  ASSUME ILimitAssumption, Right, Queue, ~ring.eof, ~NeedsMore(ring),
         NEW class, Eolns \subseteq class, Near(Used + 1, class)
  PROVE  Held > 0 /\ \E b \in (Used + 1)..read : Ch(b) \in class
<1>1. /\ Used \in 0..Len(input) /\ Held \in 0..(ILimit - 1) /\ Used + Held = read
      /\ Len(input) \in Nat /\ read \in 0..Len(input) /\ ILimit \in Nat
  BY QueueIs DEF ILimitAssumption
<1>2. Half \in 2..(ILimit - 1)
  BY Wrapped DEF Half
<1>3. BufferTotalContent(ring) = Held /\ ring \in Rings(Spot)
  BY DEF Held, Right, Kinds
<1>4. Held = 0 <=> ring.in = ring.out
  BY <1>3, ContentIs
<1>5. ring.eoln \in BOOLEAN
  BY <1>3 DEF Rings
<1>6. (ring.eoln /\ Held > 0) \/ Held >= Half
  BY <1>1, <1>2, <1>3, <1>4, <1>5 DEF NeedsMore, Half
<1>7. CASE ring.eoln /\ Held > 0
  <2>1. Ch(read) \in class /\ read \in (Used + 1)..read
    BY <1>1, <1>7 DEF Queue
  <2>2. QED BY <1>7, <2>1
<1>8. CASE Held >= Half
  <2>1. Used + 1 + Half - 1 <= Len(input) /\ Held > 0
    BY <1>1, <1>2, <1>8
  <2>2. PICK b \in (Used + 1)..(Used + 1 + Half - 1) : Ch(b) \in class
    BY <2>1 DEF Near
  <2>3. b \in (Used + 1)..read
    BY <1>1, <1>2, <1>8
  <2>4. QED BY <2>1, <2>2, <2>3
<1>9. QED BY <1>6, <1>7, <1>8
-----------------------------------------------------------------------------
(* Skipping twice is skipping. *)
LEMMA SkipSkip ==
  ASSUME ILimitAssumption, NEW S, NEW r \in Rings(S), NEW a \in Nat, NEW b \in Nat, a + b < ILimit
  PROVE  Skip(Skip(r, a), b) = Skip(r, a + b) /\ Skip(r, 0) = r
<1>1. /\ r.out \in 0..(ILimit - 1) /\ ILimit \in Nat
      /\ r = [buf |-> r.buf, in |-> r.in, out |-> r.out, eof |-> r.eof, eoln |-> r.eoln]
  BY DEF Rings, ILimitAssumption
<1>2. ASSUME NEW o \in 0..(ILimit - 1), NEW k \in 0..(ILimit - 1)
      PROVE  (o + k) % ILimit = IF o + k < ILimit THEN o + k ELSE o + k - ILimit
  <2>1. CASE o + k < ILimit
    <3>1. o + k \in 0..(ILimit - 1)
      BY <1>1, <2>1
    <3>2. QED BY <2>1, <3>1, Wrapped
  <2>2. CASE ~(o + k < ILimit)
    <3>1. o + k - ILimit \in 0..(ILimit - 1) /\ o + k = (o + k - ILimit) + ILimit
      BY <1>1, <2>2
    <3>2. QED BY <2>2, <3>1, Wrapped
  <2>3. QED BY <2>1, <2>2
<1> DEFINE o == (r.out + a) % ILimit
           p == (o + b) % ILimit
           q == (r.out + (a + b)) % ILimit
<1>3. a \in 0..(ILimit - 1) /\ b \in 0..(ILimit - 1) /\ a + b \in 0..(ILimit - 1) /\ 0 \in 0..(ILimit - 1)
  BY <1>1
<1>4. o = IF r.out + a < ILimit THEN r.out + a ELSE r.out + a - ILimit
  BY <1>1, <1>2, <1>3
<1>5. q = IF r.out + (a + b) < ILimit THEN r.out + (a + b) ELSE r.out + (a + b) - ILimit
  BY <1>1, <1>2, <1>3
<1> HIDE DEF o, q
<1>6. o \in 0..(ILimit - 1)
  BY <1>1, <1>3, <1>4
<1>7. p = IF o + b < ILimit THEN o + b ELSE o + b - ILimit
  BY <1>2, <1>3, <1>6
<1> HIDE DEF p
<1>8. p = q
  BY <1>1, <1>3, <1>4, <1>5, <1>7
<1>9. Skip(r, a) = [buf |-> r.buf, in |-> r.in, out |-> o, eof |-> r.eof, eoln |-> r.eoln]
  BY <1>1 DEF Skip, o
<1>10. Skip(Skip(r, a), b) = [buf |-> r.buf, in |-> r.in, out |-> p, eof |-> r.eof, eoln |-> r.eoln]
  <2>1. ASSUME NEW x, x = [buf |-> r.buf, in |-> r.in, out |-> o, eof |-> r.eof, eoln |-> r.eoln]
        PROVE  Skip(x, b) = [buf |-> r.buf, in |-> r.in, out |-> p, eof |-> r.eof, eoln |-> r.eoln]
    <3>1. x.out = o
      BY <2>1
    <3>2. Skip(x, b) = [x EXCEPT !.out = p]
      BY <3>1 DEF Skip, p
    <3>3. QED BY <2>1, <3>2
  <2>2. QED BY <1>9, <2>1
<1>11. Skip(r, a + b) = [buf |-> r.buf, in |-> r.in, out |-> q, eof |-> r.eof, eoln |-> r.eoln]
  BY <1>1 DEF Skip, q
<1>12. Skip(r, 0) = r
  <2>1. (r.out + 0) % ILimit = r.out
    BY <1>1, <1>2, <1>3
  <2>2. Skip(r, 0) = [buf |-> r.buf, in |-> r.in, out |-> r.out, eof |-> r.eof, eoln |-> r.eoln]
    BY <1>1, <2>1 DEF Skip
  <2>3. QED BY <1>1, <2>2
<1>13. QED BY <1>8, <1>10, <1>11, <1>12

(* Characters are taken from the buffer, and nothing is read. *)
Takes(k) == k \in 0..Held /\ ring' = Skip(ring, k) /\ input' = input /\ read' = read

(* The first of the characters that are not used up are of the class. *)
Taken(k, class) == \A i \in (Used + 1)..(Used + k) : Ch(i) \in class

(* What there is in the buffer before a step that takes from it. *)
Ready == ILimitAssumption /\ ConsoleAssumption /\ Right /\ BriefInput /\ ~ring.eof /\ Queue /\ AtPlace

LEMMA Breaks ==
  ASSUME Ready, ~NeedsMore(ring)
  PROVE  Held > 0 /\ \E b \in (Used + 1)..read : Ch(b) \in DwEolns
<1>1. /\ Used \in 0..Len(input) /\ Len(input) \in Nat /\ ILimit \in Nat
  BY QueueIs DEF Ready, ILimitAssumption
<1>2. Half \in 2..(ILimit - 1)
  BY Wrapped DEF Half, Ready
<1>3. Near(Used + 1, DwEolns)
  <2>1. CASE Used + 1 <= Len(input)
    <3>1. Used + 1 \in 1..Len(input)
      BY <1>1, <2>1
    <3>2. QED BY <3>1 DEF Ready, BriefInput
  <2>2. CASE ~(Used + 1 <= Len(input))
    BY <1>1, <1>2, <2>2 DEF Near
  <2>3. QED BY <2>1, <2>2
<1>4. Eolns \subseteq DwEolns
  BY DEF DwEolns
<1>5. QED BY <1>3, <1>4, Stops DEF Ready

(* Blanks are skipped up to something else. *)
LEMMA BlanksTaken ==
  ASSUME Ready, ~NeedsMore(ring)
  PROVE  LET k == ReadLength(ring, Blanks, ILimit)
         IN  /\ k \in 0..Held /\ k < Held /\ Taken(k, Blanks)
             /\ Nth(ring, k).ch = Ch(Used + k + 1) /\ Ch(Used + k + 1) \notin Blanks
             /\ SkipWhile(ring, Blanks) = Skip(ring, k)
             /\ \A b \in (Used + 1)..read : Ch(b) \in DwEolns => Used + k < b
<1> DEFINE k == ReadLength(ring, Blanks, ILimit)
<1>1. PICK b \in (Used + 1)..read : Ch(b) \in DwEolns
  BY Breaks
<1>2. \A x \in DwEolns : x \notin Blanks
  BY DEF DwEolns, Blanks, Eolns, Separators
<1>3. ILimit \in Nat /\ Used \in Nat /\ Held \in 0..(ILimit - 1) /\ Used + Held = read
  BY QueueIs DEF Ready, ILimitAssumption
<1>4. /\ k \in 0..Held /\ k <= ILimit
      /\ \A i \in (Used + 1)..(Used + k) : Ch(i) \in Blanks
      /\ \A i \in (Used + 1)..read : Ch(i) \notin Blanks => Used + k < i
      /\ k < Held /\ k < ILimit => Nth(ring, k).ch = Ch(Used + k + 1) /\ Ch(Used + k + 1) \notin Blanks
  BY <1>3, Reads DEF Ready
<1> HIDE DEF k
<1>5. Used + k < b
  BY <1>1, <1>2, <1>4
<1>6. k < Held /\ k < ILimit
  BY <1>3, <1>4, <1>5
<1>7. SkipWhile(ring, Blanks) = Skip(ring, k)
  BY DEF SkipWhile, k
<1>8. \A i \in (Used + 1)..read : Ch(i) \in DwEolns => Used + k < i
  BY <1>2, <1>4
<1>9. Taken(k, Blanks)
  BY <1>4 DEF Taken
<1>10. QED BY <1>4, <1>6, <1>7, <1>8, <1>9 DEF k

(* Numbers that the steps below start from. *)
LEMMA Counts ==
  ASSUME Ready
  PROVE  /\ ILimit \in Nat /\ ILimit > 3 /\ Used \in Nat /\ Held \in 0..(ILimit - 1)
         /\ Used + Held = read /\ Used \in 0..Len(input) /\ Len(input) \in Nat /\ read \in 0..Len(input)
         /\ ring \in Rings(Spot)
         /\ \A k \in 0..(Held - 1) : Nth(ring, k).ch = Ch(Used + k + 1) /\ Nth(ring, k).pos = Used + k + 1
         /\ \A i \in 1..Len(input) : Ch(i) \in Chars
<1>1. ILimitAssumption /\ Right /\ Queue
  BY DEF Ready
<1>2. ILimit \in Nat /\ ILimit > 3 /\ ring \in Rings(Spot)
  BY <1>1 DEF ILimitAssumption, Right, Kinds
<1>3. QED BY <1>1, <1>2, QueueIs

(* ParseAndHandleCommand: blanks, up to a separator or to the command. *)
LEMMA StartTakes ==
  ASSUME Ready, Start
  PROVE  \E k \in Nat :
           /\ Takes(k) /\ k <= Held
           /\ \/ /\ at' = "parse" /\ Taken(k, Blanks) /\ k < Held
                 /\ Ch(Used + k + 1) \notin Blanks
              \/ at' = "again" /\ k > 0 /\ Taken(k - 1, Blanks) /\ Ch(Used + k) \in Separators
<1> DEFINE k == ReadLength(ring, Blanks, ILimit)
           r == SkipWhile(ring, Blanks)
<1>1. ~NeedsMore(ring) /\ input' = input /\ read' = read
  BY DEF Start, At, Fills
<1>2. /\ k \in 0..Held /\ k < Held /\ Taken(k, Blanks)
      /\ Nth(ring, k).ch = Ch(Used + k + 1) /\ Ch(Used + k + 1) \notin Blanks
      /\ r = Skip(ring, k)
  BY <1>1, BlanksTaken
<1>3. IF NextCh(r) \in Separators THEN ring' = SkipCh(r) /\ at' = "again" ELSE ring' = r /\ at' = "parse"
  BY DEF Start
<1> HIDE DEF k, r
<1>4. ILimit \in Nat /\ ILimit > 3 /\ Used \in Nat /\ Held \in 0..(ILimit - 1) /\ ring \in Rings(Spot)
  BY Counts
<1>5. k \in 0..(ILimit - 1) /\ 0 \in 0..(ILimit - 1) /\ k \in Nat /\ k + 1 < ILimit /\ k + 0 = k
  BY <1>2, <1>4
<1>6. \A j \in 0..(ILimit - 1) : k + j < ILimit => Nth(Skip(ring, k), j) = Nth(ring, k + j)
  BY <1>4, <1>5, Skipped DEF Ready
<1>7. NextCh(r) = Ch(Used + k + 1)
  <2>1. Nth(r, 0) = Nth(ring, k)
    BY <1>2, <1>4, <1>5, <1>6
  <2>2. QED BY <1>2, <2>1 DEF NextCh
<1>8. CASE NextCh(r) \in Separators
  <2>1. ring' = Skip(Skip(ring, k), 1) /\ at' = "again"
    BY <1>2, <1>3, <1>8 DEF SkipCh
  <2>2. Skip(Skip(ring, k), 1) = Skip(ring, k + 1)
    BY <1>4, <1>5, SkipSkip DEF Ready
  <2>3. Takes(k + 1) /\ k + 1 <= Held /\ k + 1 \in Nat
    BY <1>1, <1>2, <1>4, <2>1, <2>2 DEF Takes
  <2>4. (k + 1) - 1 = k /\ Used + (k + 1) = Used + k + 1 /\ k + 1 > 0
    BY <1>4, <1>5
  <2>5. Ch(Used + (k + 1)) \in Separators
    BY <1>7, <1>8, <2>4
  <2>6. Taken((k + 1) - 1, Blanks)
    BY <1>2, <2>4
  <2>7. QED BY <2>1, <2>3, <2>4, <2>5, <2>6
<1>9. CASE NextCh(r) \notin Separators
  <2>1. Takes(k) /\ at' = "parse"
    BY <1>1, <1>2, <1>3, <1>9 DEF Takes
  <2>2. QED BY <1>2, <1>4, <1>5, <2>1
<1>10. QED BY <1>8, <1>9

LEMMA AgainTakes ==
  ASSUME Ready, Again
  PROVE  \E k \in Nat : /\ Takes(k) /\ at' = "parse" /\ Taken(k, Blanks) /\ k < Held
                        /\ Ch(Used + k + 1) \notin Blanks
<1> DEFINE k == ReadLength(ring, Blanks, ILimit)
<1>1. ~NeedsMore(ring) /\ input' = input /\ read' = read
  BY DEF Again, At, Fills
<1>2. /\ k \in 0..Held /\ k < Held /\ Taken(k, Blanks)
      /\ Ch(Used + k + 1) \notin Blanks
      /\ SkipWhile(ring, Blanks) = Skip(ring, k)
  BY <1>1, BlanksTaken
<1> HIDE DEF k
<1>3. ring' = Skip(ring, k) /\ at' = "parse"
  BY <1>2 DEF Again
<1>4. k \in Nat
  BY <1>2, Counts
<1>5. QED BY <1>1, <1>2, <1>3, <1>4 DEF Takes

(* The command's name is in the buffer, and it ends there. *)
LEMMA HandleTakes ==
  ASSUME Ready, HandleCommand
  PROVE  \E n \in 0..NameMax :
           /\ Takes(n) /\ Taken(n, Alpha) /\ n < Held
           /\ n < NameMax => Ch(Used + n + 1) \notin Alpha
           /\ ran' = ran \cup {[from |-> Used + 1, length |-> n]}
           /\ \/ n = 1 /\ Ch(Used + 1) \in {"f"} /\ FailsAt(Used + 1)
              \/ n = 1 /\ Ch(Used + 1) \in {"p"} /\ at' = "number" /\ UNCHANGED failed
              \/ n = 1 /\ Ch(Used + 1) \in {"g"} /\ at' = "go" /\ UNCHANGED failed
              \/ n = 1 /\ Ch(Used + 1) \in {"s"} /\ at' = "serve" /\ UNCHANGED failed
              \/ at' = "rest" /\ UNCHANGED failed
<1> DEFINE n    == ReadLength(ring, Alpha, NameMax)
           here == Nth(ring, 0).pos
           name == [k \in 1..n |-> Nth(ring, k - 1).ch]
<1>1. ~NeedsMore(ring) /\ input' = input /\ read' = read
  BY DEF HandleCommand, At, Fills
<1>2. /\ ILimit \in Nat /\ Used \in Nat /\ Held \in 0..(ILimit - 1) /\ Used + Held = read
      /\ \A k \in 0..(Held - 1) : Nth(ring, k).ch = Ch(Used + k + 1) /\ Nth(ring, k).pos = Used + k + 1
  BY Counts
<1>3. NameMax \in Nat
  BY DEF Ready, ConsoleAssumption
<1>4. /\ n \in 0..Held /\ n <= NameMax
      /\ \A i \in (Used + 1)..(Used + n) : Ch(i) \in Alpha
      /\ \A i \in (Used + 1)..read : Ch(i) \notin Alpha => Used + n < i
      /\ n < Held /\ n < NameMax => Ch(Used + n + 1) \notin Alpha
  BY <1>3, Reads DEF Ready
<1>5. PICK b \in (Used + 1)..read : Ch(b) \in DwEolns
  BY <1>1, Breaks
<1>6. \A x \in DwEolns : x \notin Alpha
  BY BreaksNoLetters
<1>7. ring' = Skip(ring, n) /\ ran' = ran \cup {[from |-> here, length |-> n]}
  BY DEF HandleCommand
<1>8. /\ CASE name = <<"f">> -> FailsAt(here)
           [] name = <<"p">> -> at' = "number" /\ UNCHANGED failed
           [] name = <<"g">> -> at' = "go" /\ UNCHANGED failed
           [] name = <<"s">> -> at' = "serve" /\ UNCHANGED failed
           [] OTHER          -> at' = "rest" /\ UNCHANGED failed
  BY Zenon DEF HandleCommand
<1>9. n > 0 => DOMAIN name = 1..n /\ name[1] = Nth(ring, 0).ch
  BY <1>2, <1>4
<1>10. \A x : name = <<x>> => n = 1 /\ Nth(ring, 0).ch = x
  <2>1. ASSUME NEW x, name = <<x>> PROVE n = 1 /\ Nth(ring, 0).ch = x
    <3>1. DOMAIN name = 1..n /\ DOMAIN <<x>> = 1..1 /\ <<x>>[1] = x
      OBVIOUS
    <3>2. 1..n = 1..1
      BY <2>1, <3>1
    <3>3. n = 1
      BY <1>2, <1>4, <3>2
    <3>4. QED BY <1>9, <2>1, <3>1, <3>3
  <2>2. QED BY <2>1
<1> HIDE DEF n, here, name
<1>11. Used + n < b
  BY <1>4, <1>5, <1>6
<1>12. n < Held /\ n \in 0..NameMax
  BY <1>2, <1>3, <1>4, <1>5, <1>11
<1>13. here = Used + 1 /\ Nth(ring, 0).ch = Ch(Used + 1)
  <2>1. 0 \in 0..(Held - 1) /\ Used + 0 + 1 = Used + 1
    BY <1>2, <1>4, <1>12
  <2>2. QED BY <1>2, <2>1 DEF here
<1>14. \/ n = 1 /\ Ch(Used + 1) \in {"f"} /\ FailsAt(Used + 1)
       \/ n = 1 /\ Ch(Used + 1) \in {"p"} /\ at' = "number" /\ UNCHANGED failed
       \/ n = 1 /\ Ch(Used + 1) \in {"g"} /\ at' = "go" /\ UNCHANGED failed
       \/ n = 1 /\ Ch(Used + 1) \in {"s"} /\ at' = "serve" /\ UNCHANGED failed
       \/ at' = "rest" /\ UNCHANGED failed
  <2>1. /\ <<"f">> # <<"p">> /\ <<"f">> # <<"g">> /\ <<"p">> # <<"g">>
        /\ <<"f">> # <<"s">> /\ <<"p">> # <<"s">> /\ <<"g">> # <<"s">>
    OBVIOUS
  <2>2. CASE name = <<"f">>
    BY <1>8, <1>10, <1>13, <2>1, <2>2
  <2>3. CASE name = <<"p">>
    <3>1. at' = "number" /\ UNCHANGED failed
      BY <1>8, <2>1, <2>3
    <3>2. QED BY <1>10, <1>13, <2>3, <3>1
  <2>4. CASE name = <<"g">>
    <3>1. at' = "go" /\ UNCHANGED failed
      BY <1>8, <2>1, <2>4
    <3>2. QED BY <1>10, <1>13, <2>4, <3>1
  <2>5. CASE name = <<"s">>
    <3>1. at' = "serve" /\ UNCHANGED failed
      BY <1>8, <2>1, <2>5
    <3>2. QED BY <1>10, <1>13, <2>5, <3>1
  <2>6. CASE name # <<"f">> /\ name # <<"p">> /\ name # <<"g">> /\ name # <<"s">>
    BY <1>8, <2>6
  <2>7. QED BY <2>2, <2>3, <2>4, <2>5, <2>6
<1>15. Takes(n) /\ Taken(n, Alpha)
  BY <1>1, <1>4, <1>7 DEF Takes, Taken
<1>16. ran' = ran \cup {[from |-> Used + 1, length |-> n]}
  BY <1>7, <1>13
<1>17. n < NameMax => Ch(Used + n + 1) \notin Alpha
  BY <1>4, <1>12
<1>18. QED BY <1>12, <1>14, <1>15, <1>16, <1>17

(* GoWaitLoop: the end of the line behind a "g", if it is there. *)
LEMMA KeyTakes ==
  ASSUME Ready, KeyboardBreak
  PROVE  \E k \in {0, 1} : Takes(k) /\ (k = 1 => Ch(Used + 1) \in Eolns)
<1>1. input' = input /\ read' = read /\ ring' = SkipEoln(ring)
  BY DEF KeyboardBreak
<1>2. Held > 0
  BY DEF KeyboardBreak, At, Ready, AtPlace
<1>3. /\ Used \in Nat /\ Held \in 0..(ILimit - 1) /\ ILimit \in Nat /\ ILimit > 3 /\ ring \in Rings(Spot)
      /\ \A k \in 0..(Held - 1) : Nth(ring, k).ch = Ch(Used + k + 1)
  BY Counts
<1>4. NextCh(ring) = Ch(Used + 1)
  <2>1. 0 \in 0..(Held - 1) /\ Used + 0 + 1 = Used + 1
    BY <1>2, <1>3
  <2>2. QED BY <1>3, <2>1 DEF NextCh
<1>5. Skip(ring, 0) = ring
  <2>1. 0 \in Nat /\ 0 + 0 < ILimit
    BY <1>3
  <2>2. QED BY <1>3, <2>1, SkipSkip DEF Ready
<1>6. CASE NextCh(ring) \in Eolns
  <2>1. Takes(1)
    BY <1>1, <1>2, <1>3, <1>6 DEF Takes, SkipEoln, SkipCh
  <2>2. QED BY <1>4, <1>6, <2>1
<1>7. CASE NextCh(ring) \notin Eolns
  <2>1. Takes(0)
    BY <1>1, <1>2, <1>3, <1>5, <1>7 DEF Takes, SkipEoln
  <2>2. QED BY <2>1
<1>8. QED BY <1>6, <1>7

(* An interrupt of gdb takes the end of a line, if it is there. *)
LEMMA GdbTakes ==
  ASSUME Ready, GdbBreak, ~overrun'
  PROVE  \E k \in {0, 1} : /\ Takes(k)
                           /\ k = 0 => slips' = slips
                           /\ k = 1 => Ch(Used + 1) \in Eolns /\ slips' = slips \cup {Used + 1}
<1>1. input' = input /\ read' = read /\ ring' = SkipEoln(ring)
  BY DEF GdbBreak
<1>2. /\ Used \in Nat /\ Held \in 0..(ILimit - 1) /\ ILimit \in Nat /\ ILimit > 3 /\ ring \in Rings(Spot)
      /\ \A k \in 0..(Held - 1) : Nth(ring, k).ch = Ch(Used + k + 1) /\ Nth(ring, k).pos = Used + k + 1
  BY Counts
<1>3. Skip(ring, 0) = ring
  <2>1. 0 \in Nat /\ 0 + 0 < ILimit
    BY <1>2
  <2>2. QED BY <1>2, <2>1, SkipSkip DEF Ready
<1>4. CASE NextCh(ring) \in Eolns
  <2>1. Held # 0 /\ slips' = slips \cup {Nth(ring, 0).pos}
    BY <1>4 DEF GdbBreak, Held
  <2>2. Held > 0
    BY <1>2, <2>1
  <2>3. 0 \in 0..(Held - 1) /\ Used + 0 + 1 = Used + 1
    BY <1>2, <2>2
  <2>4. NextCh(ring) = Ch(Used + 1) /\ Nth(ring, 0).pos = Used + 1
    BY <1>2, <2>3 DEF NextCh
  <2>5. Takes(1)
    BY <1>1, <1>2, <1>4, <2>2 DEF Takes, SkipEoln, SkipCh
  <2>6. QED BY <1>4, <2>1, <2>4, <2>5
<1>5. CASE NextCh(ring) \notin Eolns
  <2>1. Takes(0)
    BY <1>1, <1>2, <1>3, <1>5 DEF Takes, SkipEoln
  <2>2. slips' = slips
    BY <1>5 DEF GdbBreak
  <2>3. QED BY <2>1, <2>2
<1>6. QED BY <1>4, <1>5

(* ReadNumber: its digits are in the buffer, and what ends them is. *)
LEMMA NumberTakes ==
  ASSUME Ready, ReadNumber
  PROVE  \E k \in Nat, n \in Nat :
           /\ Takes(k + n) /\ Taken(k, Blanks) /\ Taken(k + n, Blanks \cup Numeric) /\ k + n < Held
           /\ IF n = 0 THEN FailsAt(Used + k + 1) /\ UNCHANGED edge
              ELSE edge' \in Edges /\ at' = "rest" /\ UNCHANGED failed
<1> DEFINE k == ReadLength(ring, Blanks, ILimit)
           r == SkipWhile(ring, Blanks)
           n == RunLength(r, Numeric, ILimit - 1)
<1>1. ~NeedsMore(ring) /\ input' = input /\ read' = read
  BY DEF ReadNumber, At, Fills
<1>2. /\ ILimit \in Nat /\ ILimit > 3 /\ Used \in Nat /\ Held \in 0..(ILimit - 1) /\ Used + Held = read
      /\ ring \in Rings(Spot)
      /\ \A j \in 0..(Held - 1) : Nth(ring, j).ch = Ch(Used + j + 1) /\ Nth(ring, j).pos = Used + j + 1
  BY Counts
<1>3. /\ k \in 0..Held /\ k < Held /\ Taken(k, Blanks) /\ r = Skip(ring, k)
      /\ \A b \in (Used + 1)..read : Ch(b) \in DwEolns => Used + k < b
  BY <1>1, BlanksTaken
<1>4. PICK b \in (Used + 1)..read : Ch(b) \in DwEolns
  BY <1>1, Breaks
<1>5. \A x \in DwEolns : x \notin Numeric
  BY DEF DwEolns, Numeric, Eolns, Separators
<1>6. ILimit - 1 \in Nat
  BY <1>2
<1>7. n \in 0..(ILimit - 1) /\ \A j \in 0..(n - 1) : Nth(r, j).ch \in Numeric
  BY <1>6, RunIs
<1>8. /\ ring' = Skip(r, n)
      /\ IF n = 0 THEN FailsAt(Nth(r, 0).pos) /\ UNCHANGED edge
         ELSE edge' \in Edges /\ at' = "rest" /\ UNCHANGED failed
  BY DEF ReadNumber
<1> HIDE DEF k, r, n
<1>9. k \in 0..(ILimit - 1) /\ k \in Nat /\ n \in Nat
  BY <1>2, <1>3, <1>7
<1>10. \A j \in 0..(ILimit - 1) : k + j < ILimit => Nth(r, j) = Nth(ring, k + j)
  BY <1>2, <1>3, <1>9, Skipped DEF Ready
<1>11. \A j \in 0..(Held - k - 1) : Nth(r, j).ch = Ch(Used + k + j + 1) /\ Nth(r, j).pos = Used + k + j + 1
  <2>1. ASSUME NEW j \in 0..(Held - k - 1)
        PROVE  Nth(r, j).ch = Ch(Used + k + j + 1) /\ Nth(r, j).pos = Used + k + j + 1
    <3>1. j \in 0..(ILimit - 1) /\ k + j < ILimit /\ k + j \in 0..(Held - 1) /\ Used + (k + j) + 1 = Used + k + j + 1
      BY <1>2, <1>3
    <3>2. Nth(r, j) = Nth(ring, k + j)
      BY <1>10, <3>1
    <3>3. QED BY <1>2, <3>1, <3>2
  <2>2. QED BY <2>1
<1>12. k + n < Held
  <2>1. SUFFICES ASSUME Held - k <= n PROVE FALSE
    BY <1>2, <1>3, <1>7
  <2>2. Used + k < b
    BY <1>3, <1>4
  <2>3. /\ b - Used - k - 1 \in 0..(Held - k - 1) /\ b - Used - k - 1 \in 0..(n - 1)
        /\ Used + k + (b - Used - k - 1) + 1 = b
    BY <1>2, <1>4, <1>9, <2>1, <2>2
  <2>4. Nth(r, b - Used - k - 1).ch = Ch(b)
    BY <1>11, <2>3
  <2>5. Ch(b) \in Numeric
    BY <1>7, <2>3, <2>4
  <2>6. QED BY <1>4, <1>5, <2>5
<1>13. ring' = Skip(ring, k + n)
  <2>1. k + n < ILimit
    BY <1>2, <1>9, <1>12
  <2>2. QED BY <1>2, <1>3, <1>8, <1>9, <2>1, SkipSkip DEF Ready
<1>14. Takes(k + n)
  BY <1>1, <1>2, <1>9, <1>12, <1>13 DEF Takes
<1>15. Taken(k + n, Blanks \cup Numeric)
  <2>1. ASSUME NEW i \in (Used + 1)..(Used + (k + n)) PROVE Ch(i) \in Blanks \cup Numeric
    <3>1. CASE i <= Used + k
      <4>1. i \in (Used + 1)..(Used + k)
        BY <1>2, <1>9, <3>1
      <4>2. QED BY <1>3, <4>1 DEF Taken
    <3>2. CASE ~(i <= Used + k)
      <4>1. /\ i - Used - k - 1 \in 0..(n - 1) /\ i - Used - k - 1 \in 0..(Held - k - 1)
            /\ Used + k + (i - Used - k - 1) + 1 = i
        BY <1>2, <1>9, <1>12, <3>2
      <4>2. Nth(r, i - Used - k - 1).ch = Ch(i)
        BY <1>11, <4>1
      <4>3. QED BY <1>7, <4>1, <4>2
    <3>3. QED BY <3>1, <3>2
  <2>2. QED BY <2>1 DEF Taken
<1>16. Nth(r, 0).pos = Used + k + 1
  <2>1. 0 \in 0..(Held - k - 1) /\ Used + k + 0 + 1 = Used + k + 1
    BY <1>2, <1>3, <1>9
  <2>2. QED BY <1>11, <2>1
<1>17. IF n = 0 THEN FailsAt(Used + k + 1) /\ UNCHANGED edge
       ELSE edge' \in Edges /\ at' = "rest" /\ UNCHANGED failed
  BY <1>8, <1>16
<1>18. QED BY <1>3, <1>9, <1>12, <1>14, <1>15, <1>17

(* What is left of the command is in the buffer, and what ends it is. *)
LEMMA RestTakes ==
  ASSUME Ready, Rest
  PROVE  \E k \in Nat : /\ Takes(k) /\ Taken(k, Chars \ DwEolns) /\ k < Held
                        /\ Ch(Used + k + 1) \in DwEolns
<1> DEFINE k == ReadLength(ring, Chars \ DwEolns, ILimit)
<1>1. ~NeedsMore(ring) /\ input' = input /\ read' = read
  BY DEF Rest, At, Fills
<1>2. PICK b \in (Used + 1)..read : Ch(b) \in DwEolns
  BY <1>1, Breaks
<1>3. /\ ILimit \in Nat /\ Used \in Nat /\ Held \in 0..(ILimit - 1) /\ Used + Held = read
      /\ Len(input) \in Nat /\ read \in 0..Len(input)
      /\ \A i \in 1..Len(input) : Ch(i) \in Chars
  BY Counts
<1>4. /\ k \in 0..Held /\ k <= ILimit
      /\ \A i \in (Used + 1)..(Used + k) : Ch(i) \in Chars \ DwEolns
      /\ \A i \in (Used + 1)..read : Ch(i) \notin Chars \ DwEolns => Used + k < i
      /\ k < Held /\ k < ILimit => Ch(Used + k + 1) \notin Chars \ DwEolns
  BY <1>3, Reads DEF Ready
<1>5. ring' = Skip(ring, k)
  BY DEF Rest, SkipWhile
<1> HIDE DEF k
<1>6. Used + k < b
  BY <1>2, <1>4
<1>7. k < Held /\ k < ILimit /\ k \in Nat /\ Used + k + 1 \in 1..Len(input)
  BY <1>2, <1>3, <1>4, <1>6
<1>8. Ch(Used + k + 1) \in DwEolns
  BY <1>3, <1>4, <1>7
<1>9. Takes(k) /\ Taken(k, Chars \ DwEolns)
  BY <1>1, <1>4, <1>5 DEF Takes, Taken
<1>10. QED BY <1>7, <1>8, <1>9

(* What ends the command is taken, and what else could end one. *)
LEMMA EndsTakes ==
  ASSUME Ready, Ends
  PROVE  \E k \in Nat : Takes(k) /\ Taken(k, DwEolns) /\ k > 0
<1> DEFINE k == ReadLength(ring, DwEolns, ILimit)
<1>1. input' = input /\ read' = read
  BY DEF Ends
<1>2. Held > 0 /\ Ch(Used + 1) \in DwEolns
  BY DEF Ends, At, Ready, AtPlace
<1>3. /\ ILimit \in Nat /\ ILimit > 3 /\ Used \in Nat /\ Held \in 0..(ILimit - 1)
  BY Counts
<1>4. /\ k \in 0..Held /\ k <= ILimit
      /\ \A i \in (Used + 1)..(Used + k) : Ch(i) \in DwEolns
      /\ k < Held /\ k < ILimit => Ch(Used + k + 1) \notin DwEolns
  BY <1>3, Reads DEF Ready
<1>5. ring' = Skip(ring, k)
  BY DEF Ends, SkipWhile
<1> HIDE DEF k
<1>6. k > 0
  <2>1. ASSUME k = 0 PROVE FALSE
    <3>1. k < Held /\ k < ILimit /\ Used + k + 1 = Used + 1
      BY <1>2, <1>3, <2>1
    <3>2. QED BY <1>2, <1>4, <3>1
  <2>2. QED BY <1>3, <1>4, <2>1
<1>7. Takes(k) /\ Taken(k, DwEolns) /\ k \in Nat
  BY <1>1, <1>3, <1>4, <1>5 DEF Takes, Taken
<1>8. QED BY <1>6, <1>7

(* After a failure the end of the line is in the buffer, and is taken. *)
LEMMA RecoverTakes ==
  ASSUME Ready, Recover
  PROVE  \E k \in Nat : Takes(k) /\ k > 0 /\ Taken(k - 1, Chars \ Eolns) /\ Ch(Used + k) \in Eolns
<1> DEFINE k == ReadLength(ring, Chars \ Eolns, ILimit)
           r == SkipWhile(ring, Chars \ Eolns)
<1>1. ~NeedsMore(ring) /\ input' = input /\ read' = read /\ ring' = SkipEoln(r)
  BY DEF Recover, At, Fills
<1>2. Near(Used + 1, Eolns)
  BY DEF Recover, At, Ready, AtPlace
<1>3. PICK b \in (Used + 1)..read : Ch(b) \in Eolns
  BY <1>1, <1>2, Stops DEF Ready
<1>4. /\ ILimit \in Nat /\ Used \in Nat /\ Held \in 0..(ILimit - 1) /\ Used + Held = read
      /\ Len(input) \in Nat /\ read \in 0..Len(input) /\ ring \in Rings(Spot)
      /\ \A i \in 1..Len(input) : Ch(i) \in Chars
  BY Counts
<1>5. /\ k \in 0..Held /\ k <= ILimit
      /\ \A i \in (Used + 1)..(Used + k) : Ch(i) \in Chars \ Eolns
      /\ \A i \in (Used + 1)..read : Ch(i) \notin Chars \ Eolns => Used + k < i
      /\ k < Held /\ k < ILimit => Nth(ring, k).ch = Ch(Used + k + 1) /\ Ch(Used + k + 1) \notin Chars \ Eolns
  BY <1>4, Reads DEF Ready
<1>6. r = Skip(ring, k)
  BY DEF SkipWhile
<1> HIDE DEF k, r
<1>7. Used + k < b
  BY <1>3, <1>5
<1>8. k < Held /\ k < ILimit /\ k \in Nat /\ Used + k + 1 \in 1..Len(input)
  BY <1>3, <1>4, <1>5, <1>7
<1>9. Nth(ring, k).ch = Ch(Used + k + 1) /\ Ch(Used + k + 1) \in Eolns
  BY <1>4, <1>5, <1>8
<1>10. k \in 0..(ILimit - 1) /\ 0 \in 0..(ILimit - 1) /\ k + 0 = k /\ k + 1 < ILimit
  BY <1>4, <1>5, <1>8
<1>11. \A j \in 0..(ILimit - 1) : k + j < ILimit => Nth(r, j) = Nth(ring, k + j)
  BY <1>4, <1>6, <1>10, Skipped DEF Ready
<1>12. NextCh(r) \in Eolns
  <2>1. Nth(r, 0) = Nth(ring, k)
    BY <1>8, <1>10, <1>11
  <2>2. QED BY <1>9, <2>1 DEF NextCh
<1>13. ring' = Skip(Skip(ring, k), 1)
  BY <1>1, <1>6, <1>12 DEF SkipEoln, SkipCh
<1>14. ring' = Skip(ring, k + 1)
  BY <1>4, <1>8, <1>10, <1>13, SkipSkip DEF Ready
<1>15. k + 1 \in Nat /\ k + 1 \in 0..Held /\ (k + 1) - 1 = k /\ Used + (k + 1) = Used + k + 1 /\ k + 1 > 0
  BY <1>4, <1>8
<1>16. Takes(k + 1) /\ Taken((k + 1) - 1, Chars \ Eolns) /\ Ch(Used + (k + 1)) \in Eolns
  BY <1>1, <1>5, <1>9, <1>14, <1>15 DEF Takes, Taken
<1>17. QED BY <1>15, <1>16
-----------------------------------------------------------------------------
(* What is said of the input stays so, as it does not change. *)
LEMMA AccountedAgain ==
  ASSUME input' = input, ran \subseteq ran', failed \subseteq failed', slips \subseteq slips', NEW i, Accounted(i)
  PROVE  Accounted(i)'
<1>1. SUFFICES ASSUME CommandAt(i)'
               PROVE  \/ \E c \in ran' : c.from = i
                      \/ \E j \in failed' : j < i /\ SameLine(j, i)'
                      \/ TypedToBreak(i)'
                      \/ SlippedOver(i)'
  BY DEF Accounted
<1>2. CommandAt(i)
  BY <1>1 DEF CommandAt, Ch
<1>3. CASE \E c \in ran : c.from = i
  BY <1>3
<1>4. CASE \E j \in failed : j < i /\ SameLine(j, i)
  <2>1. PICK j \in failed : j < i /\ SameLine(j, i)
    BY <1>4
  <2>2. SameLine(j, i)'
    BY <2>1 DEF SameLine, Ch
  <2>3. QED BY <2>1, <2>2
<1>5. CASE TypedToBreak(i)
  BY <1>5 DEF TypedToBreak, Ch
<1>s. CASE SlippedOver(i)
  <2>1. PICK e \in slips : e < i /\ \A k \in (e + 1)..i : Ch(k) \notin (IF e \in failed THEN Eolns ELSE DwEolns)
    BY <1>s DEF SlippedOver
  <2>2. \A k \in (e + 1)..i : Ch(k)' \notin (IF e \in failed' THEN Eolns ELSE DwEolns)
    BY <2>1 DEF Ch, DwEolns
  <2>3. e \in slips' /\ e < i
    BY <2>1
  <2>4. QED BY <2>2, <2>3 DEF SlippedOver
<1>6. QED BY <1>2, <1>3, <1>4, <1>5, <1>s DEF Accounted

LEMMA SkippableAgain ==
  ASSUME input' = input, ran \subseteq ran', failed \subseteq failed', slips \subseteq slips', NEW u, Used' = u, NEW class,
         Skippable(u, class)
  PROVE  Skippable(Used, class)'
<1>1. SUFFICES ASSUME NEW i \in (u + 1)..Len(input), \A k \in (u + 1)..i : Ch(k) \notin class
               PROVE  Accounted(i)'
  BY DEF Skippable, Ch
<1>2. Accounted(i)
  BY <1>1 DEF Skippable
<1>3. QED BY <1>2, AccountedAgain

LEMMA FreshAgain ==
  ASSUME input' = input, NEW u, Used' = u, Fresh(u)
  PROVE  Fresh(Used)'
BY DEF Fresh, Ch

LEMMA NearAgain ==
  ASSUME input' = input, NEW u, Used' = u, NEW class, Near(u + 1, class)
  PROVE  Near(Used + 1, class)'
BY DEF Near, Ch, Half

LEMMA NamesAgain ==
  ASSUME input' = input, ran' = ran, Names
  PROVE  Names'
BY DEF Names, CommandAt, NameLength, Ch

LEMMA DoneAgain ==
  ASSUME input' = input, ran \subseteq ran', failed \subseteq failed', slips \subseteq slips', Used \in Nat, NEW k \in Nat,
         Used' = Used + k, Done, \A i \in (Used + 1)..(Used + k) : Accounted(i) \/ Accounted(i)'
  PROVE  Done'
<1>1. SUFFICES ASSUME NEW i \in 1..(Used + k) PROVE Accounted(i)'
  BY DEF Done
<1>2. CASE i <= Used
  <2>1. i \in 1..Used
    BY <1>2
  <2>2. QED BY <2>1, AccountedAgain DEF Done
<1>3. CASE ~(i <= Used)
  <2>1. i \in (Used + 1)..(Used + k)
    BY <1>3
  <2>2. QED BY <2>1, AccountedAgain
<1>4. QED BY <1>2, <1>3

(* Only letters begin a command. *)
LEMMA NoCommand == ASSUME NEW i, Ch(i) \notin Alpha PROVE Accounted(i)
BY DEF Accounted, CommandAt

LEMMA CommandIs ==
  ASSUME NEW i \in Nat, CommandAt(i) PROVE Ch(i) \in Alpha /\ Fresh(i - 1)
BY DEF CommandAt, Fresh

LEMMA NotFresh ==
  ASSUME NEW u \in Nat, u > 0, Ch(u) \notin Blanks, Ch(u) \notin DwEolns
  PROVE  ~Fresh(u)
<1>1. SUFFICES ASSUME NEW j \in 0..u, j = 0 \/ Ch(j) \in DwEolns, \A k \in (j + 1)..u : Ch(k) \in Blanks
               PROVE  FALSE
  BY DEF Fresh
<1>2. CASE j = u
  BY <1>1, <1>2
<1>3. CASE j # u
  <2>1. u \in (j + 1)..u
    BY <1>3
  <2>2. QED BY <1>1, <2>1
<1>4. QED BY <1>2, <1>3

(* Behind a place without a separator only what is behind it counts. *)
LEMMA FreshBack ==
  ASSUME NEW u \in Nat, NEW v \in Nat, u <= v, Fresh(v), \A k \in (u + 1)..v : Ch(k) \notin DwEolns
  PROVE  Fresh(u) /\ \A k \in (u + 1)..v : Ch(k) \in Blanks
<1>1. PICK j \in 0..v : (j = 0 \/ Ch(j) \in DwEolns) /\ \A k \in (j + 1)..v : Ch(k) \in Blanks
  BY DEF Fresh
<1>2. j <= u
  <2>1. SUFFICES ASSUME u < j PROVE FALSE
    BY <1>1
  <2>2. j \in (u + 1)..v /\ j # 0
    BY <2>1
  <2>3. QED BY <1>1, <2>2
<1>3. j \in 0..u /\ \A k \in (j + 1)..u : Ch(k) \in Blanks
  BY <1>1, <1>2
<1>4. \A k \in (u + 1)..v : Ch(k) \in Blanks
  BY <1>1, <1>2
<1>5. Fresh(u)
  BY <1>1, <1>3 DEF Fresh
<1>6. QED BY <1>4, <1>5

LEMMA FreshOn ==
  ASSUME Used \in Nat, Fresh(Used), NEW k \in Nat, Taken(k, Blanks)
  PROVE  Fresh(Used + k)
<1>1. PICK j \in 0..Used : (j = 0 \/ Ch(j) \in DwEolns) /\ \A i \in (j + 1)..Used : Ch(i) \in Blanks
  BY DEF Fresh
<1>2. ASSUME NEW i \in (j + 1)..(Used + k) PROVE Ch(i) \in Blanks
  <2>1. i \in (j + 1)..Used \/ i \in (Used + 1)..(Used + k)
    BY <1>1
  <2>2. QED BY <1>1, <2>1 DEF Taken
<1>3. j \in 0..(Used + k)
  OBVIOUS
<1>4. QED BY <1>1, <1>2, <1>3 DEF Fresh

(* Behind a separator a command can begin. *)
LEMMA FreshHere == ASSUME NEW u \in Nat, Ch(u) \in DwEolns PROVE Fresh(u)
BY DEF Fresh

LEMMA SkippableOn ==
  ASSUME Used \in Nat, NEW k \in Nat, NEW class, NEW other, Skippable(Used, class), Taken(k, other),
         \A x \in other : x \notin class
  PROVE  Skippable(Used + k, class)
<1>1. SUFFICES ASSUME NEW i \in (Used + k + 1)..Len(input),
                      \A j \in (Used + k + 1)..i : Ch(j) \notin class
               PROVE  Accounted(i)
  BY DEF Skippable
<1>2. CASE i \in (Used + 1)..Len(input)
  <2>1. ASSUME NEW j \in (Used + 1)..i PROVE Ch(j) \notin class
    <3>1. j \in (Used + 1)..(Used + k) \/ j \in (Used + k + 1)..i
      OBVIOUS
    <3>2. QED BY <1>1, <3>1 DEF Taken
  <2>2. QED BY <1>2, <2>1 DEF Skippable
<1>3. i \in (Used + 1)..Len(input)
  OBVIOUS
<1>4. QED BY <1>2, <1>3

LEMMA SlippedAgain ==
  ASSUME input' = input, read' = read, slips \subseteq slips', Slipped(read)
  PROVE  Slipped(read)'
BY DEF Slipped, Ch

(* Unless a line's end is taken there is more of the line, as before. *)
LEMMA AskedAgain ==
  ASSUME Ready, Asked, NEW k \in Nat, Takes(k), NEW class, Taken(k, class), class \cap Eolns = {},
         IsInteractive' = IsInteractive, prompted' = prompted, slips' = slips,
         at \notin {"loop", "prompt"}, at' # "go"
  PROVE  Asked'
<1>1. /\ Used \in Nat /\ Held \in 0..(ILimit - 1) /\ ILimit \in Nat /\ Used + Held = read
  BY Counts
<1>2. k \in 0..Held /\ Held' = Held - k /\ ring'.eoln = ring.eoln
  BY Took DEF Takes, Ready
<1>s. Slipped(read) => Slipped(read)'
  BY SlippedAgain DEF Takes
<1>3. CASE IsInteractive /\ ~prompted /\ ~Slipped(read)
  <2>1. Held > 0 /\ ring.eoln
    BY <1>1, <1>3 DEF Asked
  <2>2. Ch(read) \in Eolns
    BY <2>1 DEF Ready, Queue
  <2>3. k # Held
    <3>1. SUFFICES ASSUME k = Held PROVE FALSE
      OBVIOUS
    <3>2. read \in (Used + 1)..(Used + k)
      BY <1>1, <2>1, <3>1
    <3>3. Ch(read) \in class
      BY <3>2 DEF Taken
    <3>4. QED BY <2>2, <3>3
  <2>4. Held' > 0
    BY <1>1, <1>2, <2>3
  <2>5. QED BY <1>2, <2>1, <2>4 DEF Asked
<1>4. CASE ~(IsInteractive /\ ~prompted /\ ~Slipped(read))
  BY <1>4, <1>s DEF Asked
<1>5. QED BY <1>3, <1>4

(* What a step keeps, as long as the input has not ended. *)
Kept == Queue /\ AtPlace /\ Done /\ Asked /\ Names

LEMMA StartKeeps ==
  ASSUME Ready, Done, Asked, Names, Start
  PROVE  Kept'
<1>1. PICK k \in Nat :
        /\ Takes(k) /\ k <= Held
        /\ \/ /\ at' = "parse" /\ Taken(k, Blanks) /\ k < Held
              /\ Ch(Used + k + 1) \notin Blanks
           \/ at' = "again" /\ k > 0 /\ Taken(k - 1, Blanks) /\ Ch(Used + k) \in Separators
  BY StartTakes
<1>2. /\ Used \in Nat /\ Held \in 0..(ILimit - 1) /\ ILimit \in Nat /\ Used + Held = read
      /\ Len(input) \in Nat /\ read \in 0..Len(input)
  BY Counts
<1>3. /\ input' = input /\ Held' = Held - k /\ Used' = Used + k /\ Queue'
  BY <1>1, Took DEF Takes, Ready
<1>4. /\ ran' = ran /\ failed' = failed /\ slips' = slips /\ IsInteractive' = IsInteractive /\ prompted' = prompted
      /\ at = "start"
  BY DEF Start, At
<1>5. Fresh(Used)
  BY <1>4 DEF Ready, AtPlace
<1>6. /\ \A x \in Blanks : x \notin Alpha
      /\ \A x \in Separators : x \notin Alpha
      /\ (Blanks \cup Separators) \cap Eolns = {}
  BY DEF Blanks, Separators, Alpha, Eolns
<1>7. CASE /\ at' = "parse" /\ Taken(k, Blanks) /\ k < Held
           /\ Ch(Used + k + 1) \notin Blanks
  <2>1. Fresh(Used + k)
    BY <1>2, <1>5, <1>7, FreshOn
  <2>2. Fresh(Used)'
    BY <1>3, <2>1, FreshAgain
  <2>3. (Used < Len(input))' /\ (Ch(Used + 1) \notin Blanks)'
    BY <1>2, <1>3, <1>7 DEF Ch
  <2>4. AtPlace'
    BY <1>7, <2>2, <2>3 DEF AtPlace
  <2>5. \A i \in (Used + 1)..(Used + k) : Accounted(i)
    BY <1>6, <1>7, NoCommand DEF Taken
  <2>6. Done'
    BY <1>2, <1>3, <1>4, <2>5, DoneAgain
  <2>7. Taken(k, Blanks \cup Separators)
    BY <1>7 DEF Taken
  <2>8. Asked'
    BY <1>1, <1>4, <1>6, <1>7, <2>7, AskedAgain
  <2>9. QED BY <1>3, <1>4, <2>4, <2>6, <2>8, NamesAgain DEF Kept
<1>8. CASE at' = "again" /\ k > 0 /\ Taken(k - 1, Blanks) /\ Ch(Used + k) \in Separators
  <2>1. Ch(Used + k) \in DwEolns
    BY <1>8 DEF DwEolns
  <2>2. Fresh(Used + k)
    BY <1>2, <2>1, FreshHere
  <2>3. Fresh(Used)'
    BY <1>3, <2>2, FreshAgain
  <2>4. AtPlace'
    BY <1>8, <2>3 DEF AtPlace
  <2>5. \A i \in (Used + 1)..(Used + k) : Ch(i) \in Blanks \cup Separators
    <3>1. ASSUME NEW i \in (Used + 1)..(Used + k) PROVE Ch(i) \in Blanks \cup Separators
      <4>1. i = Used + k \/ i \in (Used + 1)..(Used + (k - 1))
        BY <1>2
      <4>2. QED BY <1>8, <4>1 DEF Taken
    <3>2. QED BY <3>1
  <2>6. \A i \in (Used + 1)..(Used + k) : Accounted(i)
    BY <1>6, <2>5, NoCommand
  <2>7. Done'
    BY <1>2, <1>3, <1>4, <2>6, DoneAgain
  <2>8. Taken(k, Blanks \cup Separators)
    BY <2>5 DEF Taken
  <2>9. Asked'
    BY <1>1, <1>4, <1>6, <1>8, <2>8, AskedAgain
  <2>10. QED BY <1>3, <1>4, <2>4, <2>7, <2>9, NamesAgain DEF Kept
<1>9. QED BY <1>1, <1>7, <1>8

LEMMA AgainKeeps ==
  ASSUME Ready, Done, Asked, Names, Again
  PROVE  Kept'
<1>1. PICK k \in Nat : /\ Takes(k) /\ at' = "parse" /\ Taken(k, Blanks) /\ k < Held
                       /\ Ch(Used + k + 1) \notin Blanks
  BY AgainTakes
<1>2. /\ Used \in Nat /\ Held \in 0..(ILimit - 1) /\ ILimit \in Nat /\ Used + Held = read
      /\ Len(input) \in Nat /\ read \in 0..Len(input)
  BY Counts
<1>3. /\ input' = input /\ Held' = Held - k /\ Used' = Used + k /\ Queue'
  BY <1>1, Took DEF Takes, Ready
<1>4. /\ ran' = ran /\ failed' = failed /\ slips' = slips /\ IsInteractive' = IsInteractive /\ prompted' = prompted
      /\ at = "again"
  BY DEF Again, At
<1>5. Fresh(Used)
  BY <1>4 DEF Ready, AtPlace
<1>6. (\A x \in Blanks : x \notin Alpha) /\ Blanks \cap Eolns = {}
  BY DEF Blanks, Alpha, Eolns
<1>7. Fresh(Used + k)
  BY <1>1, <1>2, <1>5, FreshOn
<1>8. Fresh(Used)'
  BY <1>3, <1>7, FreshAgain
<1>9. (Used < Len(input))' /\ (Ch(Used + 1) \notin Blanks)'
  BY <1>1, <1>2, <1>3 DEF Ch
<1>10. AtPlace'
  BY <1>1, <1>8, <1>9 DEF AtPlace
<1>11. \A i \in (Used + 1)..(Used + k) : Accounted(i)
  BY <1>1, <1>6, NoCommand DEF Taken
<1>12. Done'
  BY <1>2, <1>3, <1>4, <1>11, DoneAgain
<1>13. Asked'
  BY <1>1, <1>4, <1>6, AskedAgain
<1>14. QED BY <1>3, <1>4, <1>10, <1>12, <1>13, NamesAgain DEF Kept

(* A name that is read up to its end is the whole name. *)
LEMMA WholeName ==
  ASSUME NameMax \in Nat, NEW i \in Nat, i > 0, Len(input) \in Nat, NEW n \in 1..NameMax, i + n <= Len(input),
         \A k \in i..(i + n - 1) : Ch(k) \in Alpha, n < NameMax => Ch(i + n) \notin Alpha
  PROVE  n = NameLength(i)
<1> DEFINE T == {m \in 1..(Len(input) - i + 1) : \A k \in i..(i + m - 1) : Ch(k) \in Alpha}
<1>1. n \in T /\ T \in SUBSET (0..Len(input))
  OBVIOUS
<1>2. Max(T) \in T /\ \A y \in T : Max(T) >= y
  BY <1>1, MaxIs
<1>3. \A m \in T : \A k \in i..(i + m - 1) : Ch(k) \in Alpha
  OBVIOUS
<1>4. NameLength(i) = Min({NameMax, Max(T)})
  BY DEF NameLength
<1> DEFINE m == Max(T)
<1> HIDE DEF T
<1>5. m \in Nat /\ n <= m /\ \A k \in i..(i + m - 1) : Ch(k) \in Alpha
  <2>1. m \in T /\ n <= m
    BY <1>1, <1>2
  <2>2. m \in 0..Len(input)
    BY <1>1, <2>1
  <2>3. QED BY <1>3, <2>1, <2>2
<1> HIDE DEF m
<1>6. n < NameMax => m = n
  <2>1. SUFFICES ASSUME n < NameMax, n < m PROVE FALSE
    BY <1>5
  <2>2. i + n \in i..(i + m - 1)
    BY <1>5, <2>1
  <2>3. QED BY <1>5, <2>1, <2>2
<1>7. Min({NameMax, m}) \in {NameMax, m} /\ Min({NameMax, m}) <= NameMax /\ Min({NameMax, m}) <= m
  BY <1>5, MinPair
<1>8. QED BY <1>4, <1>5, <1>6, <1>7 DEF m

(* What is on the line of a command that has failed, behind it. *)
LEMMA FailedBefore ==
  ASSUME input' = input, NEW j \in failed', NEW i, j < i, \A k \in j..i : Ch(k) \notin Eolns
  PROVE  Accounted(i)'
<1>1. SameLine(j, i)'
  BY DEF SameLine, Ch
<1>2. QED BY <1>1 DEF Accounted

LEMMA HandleKeeps ==
  ASSUME Ready, Done, Asked, Names, IsInteractive => Tty, HandleCommand
  PROVE  Kept'
<1>1. PICK n \in 0..NameMax :
        /\ Takes(n) /\ Taken(n, Alpha) /\ n < Held
        /\ n < NameMax => Ch(Used + n + 1) \notin Alpha
        /\ ran' = ran \cup {[from |-> Used + 1, length |-> n]}
        /\ \/ n = 1 /\ Ch(Used + 1) \in {"f"} /\ FailsAt(Used + 1)
           \/ n = 1 /\ Ch(Used + 1) \in {"p"} /\ at' = "number" /\ UNCHANGED failed
           \/ n = 1 /\ Ch(Used + 1) \in {"g"} /\ at' = "go" /\ UNCHANGED failed
           \/ n = 1 /\ Ch(Used + 1) \in {"s"} /\ at' = "serve" /\ UNCHANGED failed
           \/ at' = "rest" /\ UNCHANGED failed
  BY HandleTakes
<1>2. /\ Used \in Nat /\ Held \in 0..(ILimit - 1) /\ ILimit \in Nat /\ Used + Held = read
      /\ Len(input) \in Nat /\ read \in 0..Len(input) /\ NameMax \in Nat /\ NameMax > 0
  BY Counts DEF Ready, ConsoleAssumption
<1>n. n \in Nat /\ Used + n \in Nat
  BY <1>2
<1>3. /\ input' = input /\ Held' = Held - n /\ Used' = Used + n /\ Queue'
  BY <1>1, Took DEF Takes, Ready
<1>4. /\ IsInteractive' = IsInteractive /\ prompted' = (prompted \/ (at' = "go" /\ Tty))
      /\ at = "parse"
  BY DEF HandleCommand, At
<1>5. Fresh(Used) /\ Ch(Used + 1) \notin Blanks
  BY <1>4 DEF Ready, AtPlace
<1>6. /\ \A x \in Alpha : x \notin DwEolns /\ x \notin Blanks /\ x \notin Eolns
      /\ Alpha \cap Eolns = {}
  BY DEF Blanks, Separators, Alpha, Eolns, DwEolns
<1>s. slips' = slips
  BY DEF HandleCommand
<1>7. ran \subseteq ran' /\ failed \subseteq failed' /\ slips \subseteq slips'
  BY <1>1, <1>s DEF FailsAt
<1> DEFINE command == [from |-> Used + 1, length |-> n]
<1>8. command \in ran' /\ command.from = Used + 1 /\ command.length = n
  BY <1>1
<1>9. ASSUME NEW i \in (Used + 1)..(Used + n) PROVE Accounted(i)'
  <2>1. CASE i = Used + 1
    BY <1>8, <2>1 DEF Accounted
  <2>2. CASE i > Used + 1
    <3>1. i - 1 \in (Used + 1)..(Used + n) /\ i - 1 \in Nat /\ i - 1 > 0 /\ i \in Nat
      BY <1>2, <2>2
    <3>2. Ch(i - 1) \in Alpha
      BY <1>1, <3>1 DEF Taken
    <3>3. ~Fresh(i - 1)
      BY <1>6, <3>1, <3>2, NotFresh
    <3>4. ~CommandAt(i)
      BY <3>1, <3>3, CommandIs
    <3>5. Accounted(i)
      BY <3>4 DEF Accounted
    <3>6. QED BY <1>3, <1>7, <3>5, AccountedAgain
  <2>3. QED BY <1>2, <2>1, <2>2
<1>10. Done'
  BY <1>2, <1>3, <1>7, <1>9, <1>n, DoneAgain
<1>f. n = 1 /\ Ch(Used + 1) \in {"f", "p", "s"} => FailsBehind(Used + 1) /\ Used + 1 \in 0..Len(input)
  <2>1. SUFFICES ASSUME n = 1, Ch(Used + 1) \in {"f", "p", "s"}
                 PROVE  FailsBehind(Used + 1) /\ Used + 1 \in 0..Len(input)
    OBVIOUS
  <2>2. Used + 1 \in 1..(Used + 1) /\ \A k \in ((Used + 1) + 1)..(Used + 1) : Ch(k) \in Eolns
    BY <1>2
  <2>3. Used + 1 \in 0..Len(input)
    BY <1>1, <1>2, <2>1
  <2>4. QED BY <2>1, <2>2, <2>3 DEF FailsBehind
<1>11. ASSUME NEW i \in (Used + n + 1)..Len(input), \A k \in (Used + n + 1)..i : Ch(k) \notin DwEolns
       PROVE  Accounted(i)
  <2>1. SUFFICES ASSUME CommandAt(i) PROVE FALSE
    BY DEF Accounted
  <2>2. i \in Nat /\ i - 1 \in Nat /\ Used + n <= i - 1
    BY <1>2, <1>n
  <2>3. Ch(i) \in Alpha /\ Fresh(i - 1)
    BY <2>1, <2>2, CommandIs
  <2>4. \A k \in (Used + n + 1)..(i - 1) : Ch(k) \notin DwEolns
    BY <1>11, <1>n
  <2>5. Fresh(Used + n) /\ \A k \in (Used + n + 1)..(i - 1) : Ch(k) \in Blanks
    BY <1>n, <2>2, <2>3, <2>4, FreshBack
  <2>6. CASE n = 0
    <3>1. Ch(Used + 1) \notin Alpha
      BY <1>1, <1>2, <2>6
    <3>2. i # Used + 1
      BY <2>3, <3>1
    <3>3. Used + 1 \in (Used + n + 1)..(i - 1)
      BY <1>2, <2>6, <3>2
    <3>4. QED BY <1>5, <2>5, <3>3
  <2>7. CASE n > 0
    <3>1. Used + n \in (Used + 1)..(Used + n) /\ Used + n > 0
      BY <1>2, <1>n, <2>7
    <3>2. Ch(Used + n) \in Alpha
      BY <1>1, <3>1 DEF Taken
    <3>3. QED BY <1>6, <1>n, <2>5, <3>1, <3>2, NotFresh
  <2>8. QED BY <1>n, <2>6, <2>7
<1>12. Skippable(Used + n, DwEolns)
  BY <1>11 DEF Skippable
<1>13. Skippable(Used, DwEolns)'
  BY <1>3, <1>7, <1>12, SkippableAgain
<1>14. Names'
  <2>1. SUFFICES ASSUME NEW c \in ran', c.length > 0
                 PROVE  (CommandAt(c.from) /\ c.length = NameLength(c.from))'
    BY DEF Names
  <2>2. CommandAt(c.from) /\ c.length = NameLength(c.from)
    <3>1. CASE c \in ran
      BY <2>1, <3>1 DEF Names
    <3>2. CASE c = command
      <4>1. n > 0 /\ Used + 1 \in (Used + 1)..(Used + n)
        BY <1>2, <2>1, <3>2, <1>n
      <4>2. Ch(Used + 1) \in Alpha
        BY <1>1, <4>1 DEF Taken
      <4>3. CommandAt(Used + 1)
        <5>1. (Used + 1) - 1 = Used
          BY <1>2
        <5>2. QED BY <1>5, <4>2, <5>1 DEF CommandAt, Fresh
      <4>4. /\ Used + 1 \in Nat /\ Used + 1 > 0 /\ n \in 1..NameMax /\ (Used + 1) + n <= Len(input)
            /\ (Used + 1) + n - 1 = Used + n /\ (Used + 1) + n = Used + n + 1
        BY <1>1, <1>2, <1>n, <4>1
      <4>5. \A k \in (Used + 1)..((Used + 1) + n - 1) : Ch(k) \in Alpha
        BY <1>1, <4>4 DEF Taken
      <4>6. n < NameMax => Ch((Used + 1) + n) \notin Alpha
        BY <1>1, <4>4
      <4>7. n = NameLength(Used + 1)
        BY <1>2, <4>4, <4>5, <4>6, WholeName
      <4>8. QED BY <3>2, <4>3, <4>7
    <3>3. QED BY <1>1, <2>1, <3>1, <3>2
  <2>3. QED BY <1>3, <2>2 DEF CommandAt, NameLength, Ch
<1>15. at' = "failed" => Tty /\ Near(Used + 1, Eolns)' /\ Skippable(Used, Eolns)'
  <2>1. SUFFICES ASSUME at' = "failed"
                 PROVE  Tty /\ Near(Used + 1, Eolns)' /\ Skippable(Used, Eolns)'
    OBVIOUS
  <2>2. n = 1 /\ Ch(Used + 1) \in {"f"} /\ FailsAt(Used + 1)
    BY <1>1, <2>1
  <2>3. IsInteractive /\ Tty /\ Used + 1 \in failed'
    BY <2>1, <2>2 DEF FailsAt
  <2>4. Used + 1 \in 1..Len(input)
    BY <1>1, <1>2, <2>2
  <2>5. Near((Used + n) + 1, Eolns)
    BY <1>f, <2>2, <2>3 DEF Ready, BriefInput
  <2>6. Near(Used + 1, Eolns)'
    BY <1>3, <2>5, NearAgain
  <2>7. Skippable(Used, Eolns)'
    <3>1. SUFFICES ASSUME NEW i \in (Used + n + 1)..Len(input), \A k \in (Used + n + 1)..i : Ch(k) \notin Eolns
                   PROVE  Accounted(i)'
      BY <1>3 DEF Skippable, Ch
    <3>2. Used + 1 < i
      BY <1>2, <2>2
    <3>3. Ch(Used + 1) \notin Eolns
      BY <2>2 DEF Eolns
    <3>4. \A k \in (Used + 1)..i : Ch(k) \notin Eolns
      <4>1. \A k \in (Used + 1)..i : k = Used + 1 \/ k \in (Used + n + 1)..i
        BY <1>2, <2>2
      <4>2. QED BY <3>1, <3>3, <4>1
    <3>5. QED BY <1>3, <2>3, <3>2, <3>4, FailedBefore
  <2>8. QED BY <2>3, <2>6, <2>7
<1>16. at' = "number" => (Tty => Near(Used + 1, Eolns)')
  <2>1. SUFFICES ASSUME at' = "number", Tty PROVE Near(Used + 1, Eolns)'
    OBVIOUS
  <2>2. n = 1 /\ Ch(Used + 1) \in {"p"}
    BY <1>1, <2>1 DEF FailsAt
  <2>3. Used + 1 \in 1..Len(input)
    BY <1>1, <1>2, <2>2
  <2>4. Near((Used + n) + 1, Eolns)
    BY <1>f, <2>1, <2>2 DEF Ready, BriefInput
  <2>5. QED BY <1>3, <2>4, NearAgain
<1>17. at' = "go" => Held' > 0 /\ \E c \in ran' : c.from = Used' /\ c.length = 1 /\ Ch(Used)' = "g"
  <2>1. SUFFICES ASSUME at' = "go"
                 PROVE  Held' > 0 /\ \E c \in ran' : c.from = Used' /\ c.length = 1 /\ Ch(Used)' = "g"
    OBVIOUS
  <2>2. n = 1 /\ Ch(Used + 1) \in {"g"}
    BY <1>1, <2>1 DEF FailsAt
  <2>3. Ch(Used)' = "g"
    BY <1>3, <2>2 DEF Ch
  <2>4. Held' > 0
    BY <1>1, <1>2, <1>3, <2>2
  <2>5. QED BY <1>3, <1>8, <2>2, <2>3, <2>4
<1>v. at' = "serve" => Serving'
  <2>1. SUFFICES ASSUME at' = "serve" PROVE Serving'
    OBVIOUS
  <2>2. n = 1 /\ Ch(Used + 1) \in {"s"}
    BY <1>1, <2>1 DEF FailsAt
  <2>3. Ch(Used)' = Ch(Used + 1) /\ Used' = Used + 1
    BY <1>3, <2>2 DEF Ch
  <2>4. Held' > 0
    BY <1>1, <1>2, <1>3, <2>2
  <2>5. Ch(Used)' \notin Eolns
    BY <2>2, <2>3 DEF Eolns
  <2>6. Used' \in 1..Used' /\ Ch(Used)' \in {"f", "p", "s"} /\ \A k \in (Used' + 1)..Used' : Ch(k)' \in Eolns
    BY <1>2, <2>2, <2>3
  <2>7. QED BY <2>4, <2>5, <2>6 DEF Serving, Ch
<1>18. at' \in {"failed", "exit", "number", "go", "serve", "rest"}
  BY <1>1 DEF FailsAt
<1>19. AtPlace'
  BY <1>13, <1>15, <1>16, <1>17, <1>v, <1>18 DEF AtPlace
<1>20. Asked'
  <2>1. CASE at' = "go"
    <3>1. Tty => prompted'
      BY <1>4, <2>1
    <3>2. IsInteractive' => Tty
      BY <1>4
    <3>3. QED BY <3>1, <3>2 DEF Asked
  <2>2. CASE at' # "go"
    <3>1. prompted' = prompted
      <4>1. prompted \in BOOLEAN
        BY DEF Ready, Right, Kinds
      <4>2. QED BY <1>4, <2>2, <4>1
    <3>2. QED BY <1>1, <1>4, <1>6, <1>n, <1>s, <2>2, <3>1, AskedAgain
  <2>3. QED BY <2>1, <2>2
<1>21. QED BY <1>3, <1>10, <1>14, <1>19, <1>20 DEF Kept

LEMMA NumberKeeps ==
  ASSUME Ready, Done, Asked, Names, IsInteractive => Tty, ReadNumber
  PROVE  Kept'
<1>1. PICK k \in Nat, n \in Nat :
        /\ Takes(k + n) /\ Taken(k, Blanks) /\ Taken(k + n, Blanks \cup Numeric) /\ k + n < Held
        /\ IF n = 0 THEN FailsAt(Used + k + 1) /\ UNCHANGED edge
           ELSE edge' \in Edges /\ at' = "rest" /\ UNCHANGED failed
  BY NumberTakes
<1>2. /\ Used \in Nat /\ Held \in 0..(ILimit - 1) /\ ILimit \in Nat /\ Used + Held = read
      /\ Len(input) \in Nat /\ read \in 0..Len(input)
  BY Counts
<1> DEFINE m == k + n
<1>3. m \in Nat /\ m < Held
  BY <1>1, <1>2
<1>4. Takes(m) /\ Taken(m, Blanks \cup Numeric)
  BY <1>1
<1> HIDE DEF m
<1>5. /\ input' = input /\ Held' = Held - m /\ Used' = Used + m /\ Queue'
  BY <1>4, Took DEF Takes, Ready
<1>6. /\ ran' = ran /\ slips' = slips /\ IsInteractive' = IsInteractive /\ prompted' = prompted /\ at = "number"
  BY DEF ReadNumber, At
<1>7. failed \subseteq failed'
  BY <1>1 DEF FailsAt
<1>8. /\ \A x \in Blanks \cup Numeric : x \notin Alpha /\ x \notin DwEolns /\ x \notin Eolns
      /\ (Blanks \cup Numeric) \cap Eolns = {}
      /\ \A x \in Alpha : x \notin DwEolns
  BY DEF Blanks, Numeric, Separators, Alpha, Eolns, DwEolns
<1>9. Skippable(Used, DwEolns) /\ (Tty => Near(Used + 1, Eolns))
  BY <1>6 DEF Ready, AtPlace
<1>10. Skippable(Used + m, DwEolns)
  BY <1>2, <1>3, <1>4, <1>8, <1>9, SkippableOn
<1>11. Skippable(Used, DwEolns)'
  BY <1>5, <1>6, <1>7, <1>10, SkippableAgain
<1>12. \A i \in (Used + 1)..(Used + m) : Accounted(i)
  BY <1>4, <1>8, NoCommand DEF Taken
<1>13. Done'
  BY <1>2, <1>3, <1>5, <1>6, <1>7, <1>12, DoneAgain
<1>14. at' \in {"failed", "exit", "rest"}
  BY <1>1 DEF FailsAt
<1>15. at' = "failed" => Tty /\ Near(Used + 1, Eolns)' /\ Skippable(Used, Eolns)'
  <2>1. SUFFICES ASSUME at' = "failed"
                 PROVE  Tty /\ Near(Used + 1, Eolns)' /\ Skippable(Used, Eolns)'
    OBVIOUS
  <2>2. n = 0 /\ FailsAt(Used + k + 1)
    BY <1>1, <2>1
  <2>3. IsInteractive /\ Tty /\ Used + k + 1 \in failed' /\ m = k
    BY <1>1, <2>1, <2>2 DEF FailsAt, m
  <2>4. Near(Used + m + 1, Eolns)
    <3>1. Half \in 2..(ILimit - 1)
      BY Wrapped DEF Half, Ready
    <3>2. SUFFICES ASSUME Used + m + 1 + Half - 1 <= Len(input)
                   PROVE  \E b \in (Used + m + 1)..(Used + m + 1 + Half - 1) : Ch(b) \in Eolns
      BY DEF Near
    <3>3. Used + 1 + Half - 1 <= Len(input)
      BY <1>2, <1>3, <3>1, <3>2
    <3>4. PICK b \in (Used + 1)..(Used + 1 + Half - 1) : Ch(b) \in Eolns
      BY <1>9, <2>3, <3>3 DEF Near
    <3>5. ~(b \in (Used + 1)..(Used + m))
      BY <1>4, <1>8, <3>4 DEF Taken
    <3>6. b \in (Used + m + 1)..(Used + m + 1 + Half - 1)
      BY <1>2, <1>3, <3>1, <3>4, <3>5
    <3>7. QED BY <3>4, <3>6
  <2>5. Near(Used + 1, Eolns)'
    BY <1>5, <2>4, NearAgain
  <2>6. Skippable(Used, Eolns)'
    <3>1. SUFFICES ASSUME NEW i \in (Used + m + 1)..Len(input), \A j \in (Used + m + 1)..i : Ch(j) \notin Eolns
                   PROVE  Accounted(i)'
      BY <1>5 DEF Skippable, Ch
    <3>2. CASE i = Used + m + 1
      <4>1. CASE Ch(i) \in Alpha
        <5>1. \A j \in (Used + m + 1)..i : Ch(j) \notin DwEolns
          <6>1. \A j \in (Used + m + 1)..i : j = i
            BY <1>2, <1>3, <3>2
          <6>2. QED BY <1>8, <4>1, <6>1
        <5>2. Accounted(i)
          BY <1>10, <5>1 DEF Skippable
        <5>3. QED BY <1>5, <1>6, <1>7, <5>2, AccountedAgain
      <4>2. CASE Ch(i) \notin Alpha
        <5>1. Accounted(i)
          BY <4>2, NoCommand
        <5>2. QED BY <1>5, <1>6, <1>7, <5>1, AccountedAgain
      <4>3. QED BY <4>1, <4>2
    <3>3. CASE i # Used + m + 1
      <4>1. Used + m + 1 < i
        BY <1>2, <1>3, <3>3
      <4>2. QED BY <1>5, <2>3, <3>1, <4>1, FailedBefore
    <3>4. QED BY <3>2, <3>3
  <2>7. QED BY <2>3, <2>5, <2>6
<1>16. AtPlace'
  BY <1>11, <1>14, <1>15 DEF AtPlace
<1>17. Asked'
  BY <1>3, <1>4, <1>6, <1>8, <1>14, AskedAgain
<1>18. QED BY <1>5, <1>6, <1>13, <1>16, <1>17, NamesAgain DEF Kept

(* A step that leaves the buffer alone. *)
LEMMA Untouched ==
  ASSUME Ready, Done, Names, ring' = ring, input' = input, read' = read, ran' = ran, failed' = failed, slips' = slips
  PROVE  /\ Used' = Used /\ Held' = Held /\ Queue' /\ Done' /\ Names'
         /\ Fresh(Used) => Fresh(Used)'
         /\ \A class : Skippable(Used, class) => Skippable(Used, class)'
<1>1. Used' = Used /\ Held' = Held /\ Queue'
  BY DEF Used, Held, Ready, Queue, Ch
<1>2. Done'
  <2>1. \A i \in 1..Used : Accounted(i)'
    BY AccountedAgain DEF Done
  <2>2. QED BY <1>1, <2>1 DEF Done
<1>3. Names'
  BY NamesAgain
<1>4. Fresh(Used) => Fresh(Used)'
  BY <1>1, FreshAgain
<1>5. ASSUME NEW class, Skippable(Used, class) PROVE Skippable(Used, class)'
  BY <1>1, <1>5, SkippableAgain
<1>6. QED BY <1>1, <1>2, <1>3, <1>4, <1>5

LEMMA DeviceKeeps ==
  ASSUME Ready, Done, Asked, Names, IsInteractive => Tty, DeviceBreak
  PROVE  Kept'
<1>1. /\ ring' = ring /\ input' = input /\ read' = read /\ ran' = ran /\ failed' = failed /\ slips' = slips
      /\ IsInteractive' = IsInteractive /\ prompted' = prompted /\ at = "go" /\ at' = "rest"
  BY DEF DeviceBreak, At
<1>2. Skippable(Used, DwEolns)
  BY <1>1 DEF Ready, AtPlace
<1>3. Queue' /\ Done' /\ Names' /\ Skippable(Used, DwEolns)'
  BY <1>1, <1>2, Untouched
<1>4. AtPlace'
  BY <1>1, <1>3 DEF AtPlace
<1>5. Asked'
  BY <1>1 DEF Asked
<1>6. QED BY <1>3, <1>4, <1>5 DEF Kept

LEMMA KeyKeeps ==
  ASSUME Ready, Done, Asked, Names, IsInteractive => Tty, KeyboardBreak
  PROVE  Kept'
<1>1. PICK k \in {0, 1} : Takes(k) /\ (k = 1 => Ch(Used + 1) \in Eolns)
  BY KeyTakes
<1>2. /\ Used \in Nat /\ Held \in 0..(ILimit - 1) /\ ILimit \in Nat /\ Used + Held = read
      /\ Len(input) \in Nat /\ read \in 0..Len(input)
  BY Counts
<1>3. /\ input' = input /\ Held' = Held - k /\ Used' = Used + k /\ Queue' /\ k \in Nat
  BY <1>1, Took DEF Takes, Ready
<1>4. /\ ran' = ran /\ failed' = failed /\ slips' = slips
      /\ IsInteractive' = IsInteractive /\ prompted' = prompted /\ at = "go" /\ at' = "rest"
  BY DEF KeyboardBreak, At
<1>5. /\ Skippable(Used, DwEolns)
      /\ \E c \in ran : c.from = Used /\ c.length = 1 /\ Ch(Used) = "g"
  BY <1>4 DEF Ready, AtPlace
<1>6. Skippable(Used + k, DwEolns)
  <2>1. CASE k = 0
    <3>1. Used + k = Used
      BY <1>2, <2>1
    <3>2. QED BY <1>5, <3>1
  <2>2. CASE k = 1
    <3>1. PICK c \in ran : c.from = Used /\ c.length = 1 /\ Ch(Used) = "g"
      BY <1>5
    <3>2. SUFFICES ASSUME NEW i \in (Used + 1 + 1)..Len(input),
                          \A j \in (Used + 1 + 1)..i : Ch(j) \notin DwEolns
                   PROVE  Accounted(i)
      BY <2>2 DEF Skippable
    <3>3. c.from + 1 < i /\ Ch(c.from + 1) \in Eolns
      BY <1>1, <1>2, <2>2, <3>1
    <3>4. \A j \in (c.from + 2)..i : Ch(j) \notin DwEolns
      <4>1. c.from + 2 = Used + 1 + 1
        BY <1>2, <3>1
      <4>2. QED BY <3>2, <4>1
    <3>5. TypedToBreak(i)
      BY <3>1, <3>3, <3>4 DEF TypedToBreak
    <3>6. QED BY <3>5 DEF Accounted
  <2>3. QED BY <2>1, <2>2
<1>7. Skippable(Used, DwEolns)'
  BY <1>3, <1>4, <1>6, SkippableAgain
<1>8. \A i \in (Used + 1)..(Used + k) : Accounted(i)
  <2>1. ASSUME NEW i \in (Used + 1)..(Used + k) PROVE Accounted(i)
    <3>1. k = 1 /\ i = Used + 1
      BY <1>2, <1>3, <2>1
    <3>2. Ch(i) \notin Alpha
      BY <1>1, <3>1 DEF Eolns, Alpha
    <3>3. QED BY <3>2, NoCommand
  <2>2. QED BY <2>1
<1>9. Done'
  BY <1>2, <1>3, <1>4, <1>8, DoneAgain
<1>10. AtPlace'
  BY <1>4, <1>7 DEF AtPlace
<1>11. Asked'
  BY <1>4 DEF Asked
<1>12. QED BY <1>3, <1>4, <1>9, <1>10, <1>11, NamesAgain DEF Kept

LEMMA RestKeeps ==
  ASSUME Ready, Done, Asked, Names, Rest
  PROVE  Kept'
<1>1. PICK k \in Nat : /\ Takes(k) /\ Taken(k, Chars \ DwEolns) /\ k < Held
                       /\ Ch(Used + k + 1) \in DwEolns
  BY RestTakes
<1>2. /\ Used \in Nat /\ Held \in 0..(ILimit - 1) /\ ILimit \in Nat /\ Used + Held = read
      /\ Len(input) \in Nat /\ read \in 0..Len(input)
  BY Counts
<1>3. /\ input' = input /\ Held' = Held - k /\ Used' = Used + k /\ Queue'
  BY <1>1, Took DEF Takes, Ready
<1>4. /\ ran' = ran /\ failed' = failed /\ slips' = slips
      /\ IsInteractive' = IsInteractive /\ prompted' = prompted /\ at = "rest" /\ at' = "ends"
  BY DEF Rest, At
<1>5. Skippable(Used, DwEolns)
  BY <1>4 DEF Ready, AtPlace
<1>6. (Chars \ DwEolns) \cap Eolns = {}
  BY DEF DwEolns
<1>7. \A i \in (Used + 1)..(Used + k) : Accounted(i)
  <2>1. ASSUME NEW i \in (Used + 1)..(Used + k) PROVE Accounted(i)
    <3>1. i \in (Used + 1)..Len(input) /\ \A j \in (Used + 1)..i : j \in (Used + 1)..(Used + k)
      BY <1>1, <1>2
    <3>2. \A j \in (Used + 1)..i : Ch(j) \notin DwEolns
      BY <1>1, <3>1 DEF Taken
    <3>3. QED BY <1>5, <3>1, <3>2 DEF Skippable
  <2>2. QED BY <2>1
<1>8. Done'
  BY <1>2, <1>3, <1>4, <1>7, DoneAgain
<1>9. Held' > 0 /\ Ch(Used + 1)' \in DwEolns
  BY <1>1, <1>2, <1>3 DEF Ch
<1>10. AtPlace'
  BY <1>4, <1>9 DEF AtPlace
<1>11. Asked'
  BY <1>1, <1>4, <1>6, AskedAgain
<1>12. QED BY <1>3, <1>4, <1>8, <1>10, <1>11, NamesAgain DEF Kept

LEMMA EndsKeeps ==
  ASSUME Ready, Done, Asked, Names, Ends
  PROVE  Kept'
<1>1. PICK k \in Nat : Takes(k) /\ Taken(k, DwEolns) /\ k > 0
  BY EndsTakes
<1>2. /\ Used \in Nat /\ Held \in 0..(ILimit - 1) /\ ILimit \in Nat /\ Used + Held = read
      /\ Len(input) \in Nat /\ read \in 0..Len(input)
  BY Counts
<1>3. /\ input' = input /\ Held' = Held - k /\ Used' = Used + k /\ Queue' /\ ring'.eoln = ring.eoln
  BY <1>1, Took DEF Takes, Ready
<1>4. /\ ran' = ran /\ failed' = failed /\ slips' = slips
      /\ IsInteractive' = IsInteractive /\ prompted' = prompted /\ at = "ends" /\ at' = "loop"
  BY DEF Ends, At
<1>5. Used + k \in (Used + 1)..(Used + k) /\ Used + k \in Nat
  BY <1>1, <1>2
<1>6. Fresh(Used + k)
  BY <1>1, <1>5, FreshHere DEF Taken
<1>7. Fresh(Used)'
  BY <1>3, <1>6, FreshAgain
<1>8. \A x \in DwEolns : x \notin Alpha
  BY BreaksNoLetters
<1>9. \A i \in (Used + 1)..(Used + k) : Accounted(i)
  BY <1>1, <1>8, NoCommand DEF Taken
<1>10. Done'
  BY <1>2, <1>3, <1>4, <1>9, DoneAgain
<1>11. AtPlace'
  BY <1>4, <1>7 DEF AtPlace
<1>12. Asked'
  <2>1. Held > 0
    BY <1>4 DEF Ready, AtPlace
  <2>2. Slipped(read) => Slipped(read)'
    BY <1>1, <1>4, SlippedAgain DEF Takes
  <2>3. QED BY <1>3, <1>4, <2>1, <2>2 DEF Asked
<1>13. QED BY <1>3, <1>4, <1>10, <1>11, <1>12, NamesAgain DEF Kept

LEMMA RecoverKeeps ==
  ASSUME Ready, Done, Asked, Names, Recover
  PROVE  Kept'
<1>1. PICK k \in Nat : Takes(k) /\ k > 0 /\ Taken(k - 1, Chars \ Eolns) /\ Ch(Used + k) \in Eolns
  BY RecoverTakes
<1>2. /\ Used \in Nat /\ Held \in 0..(ILimit - 1) /\ ILimit \in Nat /\ Used + Held = read
      /\ Len(input) \in Nat /\ read \in 0..Len(input)
  BY Counts
<1>3. /\ input' = input /\ Held' = Held - k /\ Used' = Used + k /\ Queue' /\ ring'.eoln = ring.eoln
      /\ k \in 0..Held
  BY <1>1, Took DEF Takes, Ready
<1>4. /\ ran' = ran /\ failed' = failed /\ slips' = slips
      /\ IsInteractive' = IsInteractive /\ prompted' = prompted /\ at = "failed" /\ at' = "prompt"
  BY DEF Recover, At
<1>5. Ch(Used + k) \in DwEolns /\ Ch(Used + k) \notin Alpha /\ Used + k \in Nat
  BY <1>1, <1>2 DEF DwEolns, Eolns, Alpha
<1>6. Fresh(Used + k)
  BY <1>5, FreshHere
<1>7. Fresh(Used)'
  BY <1>3, <1>6, FreshAgain
<1>8. Skippable(Used, Eolns)
  BY <1>4 DEF Ready, AtPlace
<1>9. \A i \in (Used + 1)..(Used + k) : Accounted(i)
  <2>1. ASSUME NEW i \in (Used + 1)..(Used + k) PROVE Accounted(i)
    <3>1. CASE i = Used + k
      BY <1>5, <3>1, NoCommand
    <3>2. CASE i # Used + k
      <4>1. i \in (Used + 1)..Len(input) /\ \A j \in (Used + 1)..i : j \in (Used + 1)..(Used + (k - 1))
        BY <1>2, <1>3, <3>2
      <4>2. \A j \in (Used + 1)..i : Ch(j) \notin Eolns
        BY <1>1, <4>1 DEF Taken
      <4>3. QED BY <1>8, <4>1, <4>2 DEF Skippable
    <3>3. QED BY <3>1, <3>2
  <2>2. QED BY <2>1
<1>10. Done'
  BY <1>2, <1>3, <1>4, <1>9, DoneAgain
<1>11. AtPlace'
  BY <1>4, <1>7 DEF AtPlace
<1>12. Asked'
  <2>1. Held > 0
    BY <1>1, <1>2, <1>3
  <2>2. Slipped(read) => Slipped(read)'
    BY <1>1, <1>4, SlippedAgain DEF Takes
  <2>3. QED BY <1>3, <1>4, <2>1, <2>2 DEF Asked
<1>13. QED BY <1>3, <1>4, <1>10, <1>11, <1>12, NamesAgain DEF Kept

LEMMA LoopKeeps ==
  ASSUME Ready, Done, Asked, Names, Loop
  PROVE  Kept'
<1>1. /\ ring' = ring /\ input' = input /\ read' = read /\ ran' = ran /\ failed' = failed /\ slips' = slips
      /\ prompted' = prompted /\ at = "loop" /\ at' = "prompt"
      /\ IsInteractive' = IF Held = 0 THEN Tty ELSE IsInteractive
  BY DEF Loop, At, Held
<1>2. Fresh(Used)
  BY <1>1 DEF Ready, AtPlace
<1>3. Queue' /\ Done' /\ Names' /\ Fresh(Used)' /\ Held' = Held
  BY <1>1, <1>2, Untouched
<1>4. AtPlace'
  BY <1>1, <1>3 DEF AtPlace
<1>s. Slipped(read) => Slipped(read)'
  BY <1>1, SlippedAgain
<1>5. Asked'
  BY <1>1, <1>3, <1>s DEF Asked
<1>6. QED BY <1>3, <1>4, <1>5 DEF Kept

(* A prompt that is shown, *)
LEMMA ShownKeeps ==
  ASSUME Ready, Done, Asked, Names, Prompt, at' = "start"
  PROVE  Kept'
<1>1. /\ ring' = ring /\ input' = input /\ read' = read /\ ran' = ran /\ failed' = failed /\ slips' = slips
      /\ IsInteractive' = IsInteractive /\ at = "prompt"
      /\ IF Held = 0 /\ IsInteractive THEN prompted' = TRUE ELSE prompted' = prompted
  BY DEF Prompt, At, Held
<1>2. Fresh(Used)
  BY <1>1 DEF Ready, AtPlace
<1>3. Queue' /\ Done' /\ Names' /\ Fresh(Used)' /\ Held' = Held
  BY <1>1, <1>2, Untouched
<1>4. AtPlace'
  BY <1>3 DEF AtPlace
<1>5. Held \in Nat
  BY Counts
<1>s. Slipped(read) => Slipped(read)'
  BY <1>1, SlippedAgain
<1>6. Asked'
  BY <1>1, <1>3, <1>5, <1>s DEF Asked
<1>7. QED BY <1>3, <1>4, <1>6 DEF Kept

(* and one that fails: the line behind it is skipped. *)
LEMMA UnshownKeeps ==
  ASSUME Ready, Done, Asked, Names, edge => TRUE \in Edges, IsInteractive => Tty, Prompt, at' # "start"
  PROVE  Kept'
<1>1. /\ ring' = ring /\ input' = input /\ read' = read /\ ran' = ran
      /\ failed' = failed \cup {read} /\ slips' = slips \cup {read}
      /\ IsInteractive' = IsInteractive /\ IsInteractive /\ at' = "failed" /\ edge /\ Held = 0
  BY DEF Prompt, Held
<1>2. /\ Used \in Nat /\ Len(input) \in Nat /\ Used = read /\ read \in 0..Len(input)
  BY <1>1, Counts
<1>3. Used' = Used /\ Held' = Held
  BY <1>1 DEF Used, Held
<1>4. Queue'
  BY <1>1, <1>3 DEF Ready, Queue, Ch
<1>5. Done'
  <2>1. \A i \in 1..Used : Accounted(i)'
    BY <1>1, AccountedAgain DEF Done
  <2>2. QED BY <1>3, <2>1 DEF Done
<1>6. Near(Used + 1, Eolns)'
  <2>1. FailsBehind(read) /\ Tty
    BY <1>1 DEF FailsBehind
  <2>2. Near(Used + 1, Eolns)
    BY <1>2, <2>1 DEF Ready, BriefInput
  <2>3. QED BY <1>1, <1>3, <2>2, NearAgain
<1>7. Skippable(Used, Eolns)'
  <2>1. SUFFICES ASSUME NEW i \in (Used + 1)..Len(input), \A k \in (Used + 1)..i : Ch(k) \notin Eolns
                 PROVE  Accounted(i)'
    BY <1>1, <1>3 DEF Skippable, Ch
  <2>2. read \in slips' /\ read \in failed' /\ read < i
    BY <1>1, <1>2
  <2>3. \A k \in (read + 1)..i : Ch(k)' \notin Eolns
    BY <1>1, <1>2, <2>1 DEF Ch
  <2>4. SlippedOver(i)'
    BY <2>2, <2>3 DEF SlippedOver
  <2>5. QED BY <2>4 DEF Accounted
<1>8. AtPlace'
  BY <1>1, <1>6, <1>7 DEF AtPlace
<1>9. Slipped(read)'
  <2>1. read \in slips' /\ read <= read /\ \A k \in (read + 1)..read : Ch(k)' \notin Eolns
    BY <1>1, <1>2
  <2>2. QED BY <1>1, <2>1 DEF Slipped
<1>10. Asked'
  BY <1>1, <1>9 DEF Asked
<1>11. QED BY <1>1, <1>4, <1>5, <1>8, <1>10, NamesAgain DEF Kept

(* While gdb is served: *)
LEMMA GdbBreakKeeps ==
  ASSUME Ready, Done, Asked, Names, GdbBreak, ~overrun'
  PROVE  Kept'
<1>1. PICK k \in {0, 1} : /\ Takes(k)
                          /\ k = 0 => slips' = slips
                          /\ k = 1 => Ch(Used + 1) \in Eolns /\ slips' = slips \cup {Used + 1}
  BY GdbTakes
<1>2. /\ Used \in Nat /\ Held \in 0..(ILimit - 1) /\ ILimit \in Nat /\ Used + Held = read
      /\ Len(input) \in Nat /\ read \in 0..Len(input)
  BY Counts
<1>3. /\ input' = input /\ read' = read /\ Held' = Held - k /\ Used' = Used + k /\ Queue' /\ k \in Nat
      /\ ring'.eoln = ring.eoln /\ k \in 0..Held
  BY <1>1, Took DEF Takes, Ready
<1>4. /\ ran' = ran /\ failed' = failed /\ slips \subseteq slips'
      /\ IsInteractive' = IsInteractive /\ prompted' = prompted /\ at = "serve" /\ at' = "serve"
  BY <1>1 DEF GdbBreak, At
<1>5. Skippable(Used, DwEolns) /\ Serving
  BY <1>4 DEF Ready, AtPlace
<1>6. CASE k = 0
  <2>1. Used' = Used /\ Held' = Held /\ slips' = slips
    BY <1>1, <1>2, <1>3, <1>6
  <2>2. Skippable(Used, DwEolns)'
    BY <1>3, <1>4, <1>5, <2>1, SkippableAgain
  <2>3. Serving'
    BY <1>3, <1>5, <2>1 DEF Serving, Ch
  <2>4. AtPlace'
    BY <1>4, <2>2, <2>3 DEF AtPlace
  <2>5. Done'
    <3>1. \A i \in 1..Used : Accounted(i)'
      BY <1>3, <1>4, AccountedAgain DEF Done
    <3>2. QED BY <2>1, <3>1 DEF Done
  <2>6. Slipped(read) => Slipped(read)'
    BY <1>3, <1>4, SlippedAgain
  <2>7. Asked'
    BY <1>3, <1>4, <2>1, <2>6 DEF Asked
  <2>8. QED BY <1>3, <1>4, <2>4, <2>5, <2>7, NamesAgain DEF Kept
<1>7. CASE k = 1
  <2>1. Used' = Used + 1 /\ slips' = slips \cup {Used + 1} /\ Ch(Used + 1) \in Eolns
    BY <1>1, <1>3, <1>7
  <2>2. Skippable(Used, DwEolns)'
    <3>1. SUFFICES ASSUME NEW i \in (Used + 1 + 1)..Len(input), \A j \in (Used + 1 + 1)..i : Ch(j) \notin DwEolns
                   PROVE  Accounted(i)'
      BY <1>3, <2>1 DEF Skippable, Ch
    <3>2. Used + 1 \in slips' /\ Used + 1 < i
      BY <1>2, <2>1
    <3>3. \A j \in ((Used + 1) + 1)..i : Ch(j)' \notin DwEolns /\ Ch(j)' \notin Eolns
      BY <1>3, <3>1 DEF Ch, DwEolns
    <3>4. \A j \in ((Used + 1) + 1)..i : Ch(j)' \notin (IF Used + 1 \in failed' THEN Eolns ELSE DwEolns)
      BY <3>3
    <3>5. SlippedOver(i)'
      BY <3>2, <3>4 DEF SlippedOver
    <3>6. QED BY <3>5 DEF Accounted
  <2>3. Serving'
    <3>1. Used' \in slips'
      BY <2>1
    <3>2. PICK j \in 1..Used : Ch(j) \in {"f", "p", "s"} /\ \A i \in (j + 1)..Used : Ch(i) \in Eolns
      BY <1>5 DEF Serving
    <3>3. j \in 1..(Used + 1)
      BY <1>2
    <3>4. \A i \in (j + 1)..(Used + 1) : Ch(i) \in Eolns
      BY <1>2, <2>1, <3>2
    <3>5. Ch(j)' \in {"f", "p", "s"} /\ \A i \in (j + 1)..(Used + 1) : Ch(i)' \in Eolns
      BY <1>3, <3>2, <3>4 DEF Ch
    <3>6. QED BY <2>1, <3>1, <3>3, <3>5 DEF Serving
  <2>4. AtPlace'
    BY <1>4, <2>2, <2>3 DEF AtPlace
  <2>5. Ch(Used + 1) \notin Alpha
    BY <2>1 DEF Eolns, Alpha
  <2>6. \A i \in (Used + 1)..(Used + k) : Accounted(i)
    <3>1. \A i \in (Used + 1)..(Used + k) : i = Used + 1
      BY <1>2, <1>7
    <3>2. QED BY <2>5, <3>1, NoCommand
  <2>7. Done'
    BY <1>2, <1>3, <1>4, <2>6, DoneAgain
  <2>8. Asked'
    <3>1. Held > 0
      BY <1>2, <1>3, <1>7
    <3>2. Slipped(read) => Slipped(read)'
      BY <1>3, <1>4, SlippedAgain
    <3>3. Held' = 0 => Slipped(read)'
      <4>1. SUFFICES ASSUME Held' = 0 PROVE Slipped(read)'
        OBVIOUS
      <4>2. read = Used + 1
        BY <1>2, <1>3, <1>7, <4>1
      <4>3. read \in slips' /\ read <= read /\ \A i \in (read + 1)..read : Ch(i)' \notin Eolns
        BY <1>2, <2>1, <4>2
      <4>4. QED BY <1>3, <4>3 DEF Slipped
    <3>4. QED BY <1>3, <1>4, <3>1, <3>2, <3>3 DEF Asked
  <2>9. QED BY <1>3, <1>4, <2>4, <2>7, <2>8, NamesAgain DEF Kept
<1>8. QED BY <1>6, <1>7

LEMMA GdbEndsKeeps ==
  ASSUME Ready, Done, Asked, Names, IsInteractive => Tty, GdbEnds
  PROVE  Kept'
<1>1. /\ ring' = ring /\ input' = input /\ read' = read /\ ran' = ran /\ slips' = slips
      /\ IsInteractive' = IsInteractive /\ prompted' = prompted /\ at = "serve"
      /\ (at' = "rest" /\ failed' = failed) \/ FailsAt(LastUsed)
  BY DEF GdbEnds, At
<1>2. /\ Used \in 0..Len(input) /\ Held \in 0..(ILimit - 1) /\ ILimit \in Nat /\ Used + Held = read
      /\ Len(input) \in Nat /\ read \in 0..Len(input)
  BY Counts
<1>3. Used' = Used /\ Held' = Held /\ Queue'
  BY <1>1 DEF Used, Held, Ready, Queue, Ch
<1>4. LastUsed = Used
  <2>1. Held <= read
    BY <1>2
  <2>2. QED BY <2>1 DEF LastUsed, Used, Held
<1>5. failed \subseteq failed'
  BY <1>1 DEF FailsAt
<1>6. Done'
  <2>1. \A i \in 1..Used : Accounted(i)'
    BY <1>1, <1>5, AccountedAgain DEF Done
  <2>2. QED BY <1>3, <2>1 DEF Done
<1>7. Skippable(Used, DwEolns) /\ Serving
  BY <1>1 DEF Ready, AtPlace
<1>8. Skippable(Used, DwEolns)'
  BY <1>1, <1>3, <1>5, <1>7, SkippableAgain
<1>9. at' = "failed" => Tty /\ Near(Used + 1, Eolns)' /\ Skippable(Used, Eolns)'
  <2>1. SUFFICES ASSUME at' = "failed" PROVE Tty /\ Near(Used + 1, Eolns)' /\ Skippable(Used, Eolns)'
    OBVIOUS
  <2>2. Tty /\ Used \in failed'
    BY <1>1, <1>4, <2>1 DEF FailsAt
  <2>3. FailsBehind(Used)
    BY <1>7 DEF Serving, FailsBehind
  <2>4. Near(Used + 1, Eolns)
    BY <1>2, <2>2, <2>3 DEF Ready, BriefInput
  <2>5. Near(Used + 1, Eolns)'
    BY <1>1, <1>3, <2>4, NearAgain
  <2>6. Skippable(Used, Eolns)'
    <3>1. SUFFICES ASSUME NEW i \in (Used + 1)..Len(input), \A k \in (Used + 1)..i : Ch(k) \notin Eolns
                   PROVE  Accounted(i)'
      BY <1>1, <1>3 DEF Skippable, Ch
    <3>2. Used < i
      BY <1>2
    <3>3. CASE Ch(Used) \in Eolns
      <4>1. Used \in slips'
        BY <1>1, <1>7, <3>3 DEF Serving
      <4>2. \A k \in (Used + 1)..i : Ch(k)' \notin Eolns
        BY <1>1, <3>1 DEF Ch
      <4>3. SlippedOver(i)'
        BY <2>2, <3>2, <4>1, <4>2 DEF SlippedOver
      <4>4. QED BY <4>3 DEF Accounted
    <3>4. CASE Ch(Used) \notin Eolns
      <4>1. \A k \in Used..i : k = Used \/ k \in (Used + 1)..i
        BY <1>2
      <4>2. \A k \in Used..i : Ch(k) \notin Eolns
        BY <3>1, <3>4, <4>1
      <4>3. QED BY <1>1, <2>2, <3>2, <4>2, FailedBefore
    <3>5. QED BY <3>3, <3>4
  <2>7. QED BY <2>2, <2>5, <2>6
<1>10. at' \in {"rest", "failed", "exit"}
  BY <1>1 DEF FailsAt
<1>11. AtPlace'
  BY <1>8, <1>9, <1>10 DEF AtPlace
<1>12. Asked'
  <2>1. Slipped(read) => Slipped(read)'
    BY <1>1, SlippedAgain
  <2>2. Held = 0 => Slipped(read)
    <3>1. SUFFICES ASSUME Held = 0 PROVE Slipped(read)
      OBVIOUS
    <3>2. Used = read /\ Used \in slips
      BY <1>2, <1>7, <3>1 DEF Serving
    <3>3. read <= read /\ \A k \in (read + 1)..read : Ch(k) \notin Eolns
      BY <1>2
    <3>4. QED BY <3>2, <3>3 DEF Slipped
  <2>3. QED BY <1>1, <1>3, <1>10, <2>1, <2>2 DEF Asked
<1>13. QED BY <1>1, <1>3, <1>6, <1>11, <1>12, NamesAgain DEF Kept

(* A terminal is read only when the user has been asked. *)
LEMMA AskedToRead ==
  ASSUME Ready, Asked, IsInteractive, Fill
  PROVE  prompted \/ Slipped(read)
<1>1. at \in Fills /\ NeedsMore(ring) /\ ring \in Rings(Spot) /\ Held \in Nat
  BY Counts DEF Fill
<1>2. Held = 0 <=> ring.in = ring.out
  BY <1>1, ContentIs DEF Held, Ready
<1>3. ~ring.eoln \/ Held = 0
  BY <1>1, <1>2 DEF NeedsMore
<1>4. at \notin {"loop", "prompt"}
  BY <1>1 DEF Fills
<1>5. QED BY <1>1, <1>3, <1>4 DEF Asked

(* A read from a terminal without the end of a line has none. *)
LEMMA NoLine ==
  ASSUME ILimitAssumption, Right, Tty, Fill, ~ring'.eoln
  PROVE  \A k \in (read + 1)..read' : Ch(k) \notin Eolns
<1>1. InputOK /\ read \in 0..Len(input) /\ ring \in Rings(Spot) /\ Len(input) \in Nat
  BY Spots DEF Right, Kinds
<1>2. PICK n \in Lengths(BufferContiguousFree(ring)) :
        LET chunk == SubSeq(input, read + 1, read + n)
        IN  /\ n \in Nat /\ read' = read + n /\ read' <= Len(input)
            /\ chunk \in Seq(Spot) /\ Len(chunk) = n /\ n <= BufferContiguousFree(ring)
            /\ \A k \in 1..n : chunk[k] = input[read + k]
            /\ chunk = <<>> <=> n = 0
            /\ ring' = ContiguousFill(ring, chunk)
  BY FillIs
<1> DEFINE chunk == SubSeq(input, read + 1, read + n)
<1>3. /\ n \in Nat /\ read' = read + n
      /\ chunk \in Seq(Spot) /\ Len(chunk) = n /\ Len(chunk) <= BufferContiguousFree(ring)
      /\ \A k \in 1..n : chunk[k] = input[read + k]
      /\ chunk = <<>> <=> n = 0
      /\ ring' = ContiguousFill(ring, chunk)
  BY <1>2
<1> HIDE DEF chunk
<1>4. ring'.eoln = (chunk # <<>> /\ chunk[Len(chunk)].ch \in Eolns)
  BY <1>1, <1>3, Filled
<1>5. n > 0 => input[read + n].ch \notin Eolns
  <2>1. n > 0 => n \in 1..n
    BY <1>3
  <2>2. SUFFICES ASSUME n > 0 PROVE input[read + n].ch \notin Eolns
    OBVIOUS
  <2>3. chunk # <<>> /\ chunk[Len(chunk)] = input[read + n]
    BY <1>3, <2>1, <2>2
  <2>4. QED BY <1>4, <2>3
<1>6. BufferContiguousFree(ring) \in Nat
  BY <1>1, FreeIs
<1>7. n > 0 => \A k \in 1..(n - 1) : input[read + k].ch \notin Eolns
  BY <1>1, <1>6, LengthIs
<1>8. ASSUME NEW k \in (read + 1)..read' PROVE Ch(k) \notin Eolns
  <2>1. k - read \in 1..n /\ read + (k - read) = k /\ n > 0
    BY <1>1, <1>3
  <2>2. k - read \in 1..(n - 1) \/ k = read + n
    BY <1>1, <1>3, <2>1
  <2>3. input[k].ch \notin Eolns
    BY <1>5, <1>7, <2>1, <2>2
  <2>4. QED BY <2>3 DEF Ch
<1>9. QED BY <1>8

LEMMA FillKeeps ==
  ASSUME Ready, Done, Asked, Names, IsInteractive => Tty, Fill, ~ring'.eof
  PROVE  Kept'
<1>1. /\ input' = input /\ Used' = Used /\ Held <= Held' /\ Held' > 0 /\ Queue'
  BY Filling DEF Ready
<1>2. /\ at' = at /\ at \in Fills /\ IsInteractive' = IsInteractive
      /\ prompted' = (prompted /\ ~ring'.eoln) /\ ran' = ran /\ failed' = failed /\ slips' = slips
  BY DEF Fill
<1>s. ring' \in Rings(Spot)' /\ ring'.eoln \in BOOLEAN
  <2>1. Right'
    BY RightKept DEF Ready, Next
  <2>2. QED BY <2>1 DEF Right, Kinds, Rings
<1>3. /\ Used \in Nat /\ Len(input) \in Nat
  BY Counts
<1>4. Done'
  <2>1. \A i \in 1..Used : Accounted(i)'
    BY <1>1, <1>2, AccountedAgain DEF Done
  <2>2. QED BY <1>1, <2>1 DEF Done
<1>5. AtPlace'
  <2>1. at # "go"
    BY <1>2 DEF Fills
  <2>2. Fresh(Used) => Fresh(Used)'
    BY <1>1, FreshAgain
  <2>3. \A class : Skippable(Used, class) => Skippable(Used, class)'
    BY <1>1, <1>2, SkippableAgain
  <2>4. \A class : Near(Used + 1, class) => Near(Used + 1, class)'
    BY <1>1, NearAgain
  <2>5. /\ (Used < Len(input))' = (Used < Len(input))
        /\ Ch(Used + 1)' = Ch(Used + 1)
    BY <1>1 DEF Ch
  <2>6. AtPlace
    BY DEF Ready
  <2>7. at' \in {"start", "again", "parse"} => Fresh(Used)'
    BY <1>2, <2>2, <2>6 DEF AtPlace
  <2>8. at' = "parse" => (Used < Len(input))' /\ Ch(Used + 1)' \notin Blanks
    BY <1>2, <2>5, <2>6 DEF AtPlace
  <2>9. at' \in {"number", "rest"} => Skippable(Used, DwEolns)'
    BY <1>2, <2>3, <2>6 DEF AtPlace
  <2>10. at' = "number" /\ Tty => Near(Used + 1, Eolns)'
    BY <1>2, <2>4, <2>6 DEF AtPlace
  <2>11. at' = "ends" => Held' > 0 /\ Ch(Used + 1)' \in DwEolns
    BY <1>1, <1>2, <2>5, <2>6 DEF AtPlace
  <2>12. at' = "failed" => Tty /\ Near(Used + 1, Eolns)' /\ Skippable(Used, Eolns)'
    BY <1>2, <2>3, <2>4, <2>6 DEF AtPlace
  <2>13. at' \notin {"loop", "prompt", "go", "serve"}
    BY <1>2 DEF Fills
  <2>14. QED BY <2>7, <2>8, <2>9, <2>10, <2>11, <2>12, <2>13 DEF AtPlace
<1>6. Asked'
  <2>1. at' \notin {"loop", "prompt", "go"}
    BY <1>2 DEF Fills
  <2>2. ASSUME IsInteractive', ~prompted', ~Slipped(read)' PROVE ring'.eoln
    <3>1. prompted \/ Slipped(read)
      BY <1>2, <2>2, AskedToRead
    <3>2. CASE prompted
      BY <1>2, <2>2, <3>2
    <3>3. CASE Slipped(read)
      <4>1. SUFFICES ASSUME ~ring'.eoln PROVE Slipped(read)'
        BY <2>2
      <4>2. \A k \in (read + 1)..read' : Ch(k) \notin Eolns
        BY <1>2, <2>2, <4>1, NoLine DEF Ready
      <4>3. PICK e \in slips : e <= read /\ \A k \in (e + 1)..read : Ch(k) \notin Eolns
        BY <3>3 DEF Slipped
      <4>4. e \in Nat /\ read \in Nat /\ read' \in Nat
        <5>1. Right /\ Right'
          BY RightKept DEF Ready, Next
        <5>2. /\ slips \subseteq 0..Len(input) /\ read \in 0..Len(input)
              /\ read' \in 0..Len(input)'
          BY <5>1, Zenon DEF Right, Kinds
        <5>3. input' = input
          BY <1>1
        <5>4. e \in 0..Len(input)
          BY <4>3, <5>2
        <5>5. QED BY <1>3, <5>2, <5>3, <5>4
      <4>r. read <= read'
        BY <4>4, FillIs DEF Ready
      <4>5. e <= read' /\ \A k \in (e + 1)..read' : Ch(k) \notin Eolns
        <5>1. \A k \in (e + 1)..read' : k \in (e + 1)..read \/ k \in (read + 1)..read'
          BY <4>4
        <5>2. e <= read'
          BY <4>3, <4>4, <4>r
        <5>3. QED BY <4>2, <4>3, <5>1, <5>2
      <4>6. QED BY <1>1, <1>2, <4>3, <4>5 DEF Slipped, Ch
    <3>4. QED BY <3>1, <3>2, <3>3
  <2>3. ~(Held' = 0)
    BY <1>1
  <2>4. QED BY <2>1, <2>2, <2>3 DEF Asked
<1>7. QED BY <1>1, <1>2, <1>4, <1>5, <1>6, NamesAgain DEF Kept

LEMMA StutterKeeps ==
  ASSUME Ready, Done, Asked, Names, UNCHANGED vars
  PROVE  Kept'
<1>1. /\ ring' = ring /\ input' = input /\ read' = read /\ ran' = ran /\ failed' = failed /\ slips' = slips
      /\ prompted' = prompted /\ at' = at /\ IsInteractive' = IsInteractive
  BY DEF vars
<1>2. Used' = Used /\ Held' = Held /\ Queue' /\ Done' /\ Names'
  BY <1>1, Untouched
<1>s. Slipped(read) => Slipped(read)'
  BY <1>1, SlippedAgain
<1>3. Asked'
  BY <1>1, <1>2, <1>s DEF Asked
<1>4. AtPlace'
  <2>1. Fresh(Used) => Fresh(Used)'
    BY <1>1, <1>2, FreshAgain
  <2>2. \A class : Skippable(Used, class) => Skippable(Used, class)'
    BY <1>1, <1>2, SkippableAgain
  <2>3. \A class : Near(Used + 1, class) => Near(Used + 1, class)'
    BY <1>1, <1>2, NearAgain
  <2>4. /\ (Used < Len(input))' = (Used < Len(input))
        /\ Ch(Used + 1)' = Ch(Used + 1) /\ Ch(Used)' = Ch(Used)
    BY <1>1, <1>2 DEF Ch
  <2>5. AtPlace
    BY DEF Ready
  <2>6. at' \in {"loop", "prompt", "start", "again", "parse"} => Fresh(Used)'
    BY <1>1, <2>1, <2>5 DEF AtPlace
  <2>7. at' = "parse" => (Used < Len(input))' /\ Ch(Used + 1)' \notin Blanks
    BY <1>1, <2>4, <2>5 DEF AtPlace
  <2>8. at' \in {"number", "go", "serve", "rest"} => Skippable(Used, DwEolns)'
    BY <1>1, <2>2, <2>5 DEF AtPlace
  <2>s. at' = "serve" => Serving'
    <3>1. Serving => Serving'
      BY <1>1, <1>2 DEF Serving, Ch
    <3>2. QED BY <1>1, <2>5, <3>1 DEF AtPlace
  <2>9. at' = "number" /\ Tty => Near(Used + 1, Eolns)'
    BY <1>1, <2>3, <2>5 DEF AtPlace
  <2>10. at' = "go" => Held' > 0 /\ \E c \in ran' : c.from = Used' /\ c.length = 1 /\ Ch(Used)' = "g"
    BY <1>1, <1>2, <2>4, <2>5 DEF AtPlace
  <2>11. at' = "ends" => Held' > 0 /\ Ch(Used + 1)' \in DwEolns
    BY <1>1, <1>2, <2>4, <2>5 DEF AtPlace
  <2>12. at' = "failed" => Tty /\ Near(Used + 1, Eolns)' /\ Skippable(Used, Eolns)'
    BY <1>1, <2>2, <2>3, <2>5 DEF AtPlace
  <2>13. QED BY <2>6, <2>7, <2>8, <2>s, <2>9, <2>10, <2>11, <2>12 DEF AtPlace
<1>5. QED BY <1>2, <1>3, <1>4 DEF Kept
-----------------------------------------------------------------------------
(* The end of the input is not forgotten. *)
LEMMA EofStays ==
  ASSUME ILimitAssumption, ConsoleAssumption, Right, [Next]_vars, ring.eof
  PROVE  ring'.eof
<1>1. ring \in Rings(Spot) /\ NameMax \in Nat /\ ILimit \in Nat /\ ILimit - 1 \in Nat
  BY DEF Right, Kinds, ConsoleAssumption, ILimitAssumption
<1>2. \A r \in Rings(Spot), k \in 0..(ILimit - 1) : Skip(r, k) \in Rings(Spot) /\ Skip(r, k).eof = r.eof
  BY Skipped
<1>3. ASSUME NEW class, NEW n \in Nat PROVE ReadLength(ring, class, n) \in 0..(ILimit - 1)
  BY <1>1, ReadIs
<1>4. ASSUME NEW class
      PROVE  SkipWhile(ring, class) \in Rings(Spot) /\ SkipWhile(ring, class).eof = ring.eof
  BY <1>1, <1>2, <1>3 DEF SkipWhile
<1>5. 1 \in 0..(ILimit - 1)
  BY DEF ILimitAssumption
<1>6. \A r \in Rings(Spot) : SkipCh(r).eof = r.eof /\ SkipEoln(r).eof = r.eof
  BY <1>2, <1>5 DEF SkipCh, SkipEoln
<1>7. CASE Fill
  BY <1>7 DEF Fill, NeedsMore
<1>8. CASE Loop \/ Prompt \/ Quit \/ DeviceBreak \/ GdbEnds \/ UNCHANGED vars
  BY <1>8 DEF Loop, Prompt, Quit, DeviceBreak, GdbEnds, vars
<1>9. CASE Start
  BY <1>1, <1>4, <1>6, <1>9 DEF Start
<1>10. CASE Again
  BY <1>1, <1>4, <1>10 DEF Again
<1>11. CASE HandleCommand
  <2>1. ring' = Skip(ring, ReadLength(ring, Alpha, NameMax))
    BY <1>11 DEF HandleCommand
  <2>2. QED BY <1>1, <1>2, <1>3, <2>1
<1>12. CASE ReadNumber
  <2> DEFINE r == SkipWhile(ring, Blanks)
             n == RunLength(r, Numeric, ILimit - 1)
  <2>1. ring' = Skip(r, n)
    BY <1>12 DEF ReadNumber
  <2>2. n \in 0..(ILimit - 1)
    BY <1>1, RunIs
  <2>3. r \in Rings(Spot) /\ r.eof = ring.eof
    BY <1>1, <1>4
  <2> HIDE DEF r, n
  <2>4. QED BY <1>2, <2>1, <2>2, <2>3
<1>13. CASE KeyboardBreak \/ GdbBreak
  BY <1>1, <1>6, <1>13 DEF KeyboardBreak, GdbBreak
<1>14. CASE Rest
  BY <1>1, <1>4, <1>14 DEF Rest
<1>15. CASE Ends
  BY <1>1, <1>4, <1>15 DEF Ends
<1>16. CASE Recover
  BY <1>1, <1>4, <1>6, <1>16 DEF Recover
<1>17. QED
  BY <1>7, <1>8, <1>9, <1>10, <1>11, <1>12, <1>13, <1>14, <1>15, <1>16 DEF Next

(* Nor is it that an interrupt of gdb has run past IIn. *)
LEMMA OverrunStays == ASSUME [Next]_vars, overrun PROVE overrun'
BY DEF Next, Fill, Loop, Prompt, Start, Again, Quit, HandleCommand, ReadNumber, DeviceBreak,
       KeyboardBreak, GdbBreak, GdbEnds, Rest, Ends, Recover, vars

(* The command line, as a line. *)
LEMMA LineIs ==
  ASSUME ILimitAssumption, ConsoleAssumption, NEW preload \in Preloads
  PROVE  /\ Line(preload) \in Seq(Chars) /\ Len(Line(preload)) \in 0..(ILimit - 1)
         /\ Line(preload) = <<>> <=> Len(Line(preload)) = 0
         /\ Line(preload) # <<>> => Line(preload)[Len(Line(preload))] \in Eolns
<1>1. preload \in Seq(Chars) /\ Len(preload) < ILimit - 1 /\ ILimit \in Nat /\ ILimit > 3
  BY DEF ConsoleAssumption, ILimitAssumption
<1>2. Len(preload) \in Nat
  BY <1>1, LenProperties
<1>3. CASE preload = <<>>
  <2>1. Line(preload) = <<>>
    BY <1>3 DEF Line
  <2>2. <<>> \in Seq(Chars) /\ Len(<<>>) = 0
    OBVIOUS
  <2>3. QED BY <1>1, <2>1, <2>2
<1>4. CASE preload # <<>>
  <2> DEFINE s == Append(preload, "\n")
  <2>1. Line(preload) = s
    BY <1>4 DEF Line
  <2>2. "\n" \in Chars /\ "\n" \in Eolns
    BY DEF Chars, Eolns
  <2>3. s \in Seq(Chars) /\ Len(s) = Len(preload) + 1 /\ s[Len(s)] = "\n"
    BY <1>1, <2>2, AppendProperties
  <2> HIDE DEF s
  <2>4. s # <<>>
    BY <1>2, <2>3
  <2>5. QED BY <1>1, <1>2, <2>1, <2>2, <2>3, <2>4
<1>5. QED BY <1>3, <1>4

LEMMA NumberedIs ==
  ASSUME NEW s \in Seq(Chars)
  PROVE  /\ Numbered(s) \in Seq([ch : Chars, pos : Nat]) /\ Len(Numbered(s)) = Len(s) /\ Len(s) \in Nat
         /\ \A i \in 1..Len(s) : Numbered(s)[i] = [ch |-> s[i], pos |-> i] /\ s[i] \in Chars
         /\ Numbered(s) = <<>> <=> s = <<>>
<1>1. Len(s) \in Nat /\ \A i \in 1..Len(s) : s[i] \in Chars
  BY LenProperties, ElementOfSeq
<1>2. Numbered(s) = [i \in 1..Len(s) |-> [ch |-> s[i], pos |-> i]]
  BY DEF Numbered
<1>3. \A i \in 1..Len(s) : [ch |-> s[i], pos |-> i] \in [ch : Chars, pos : Nat]
  BY <1>1
<1>4. Numbered(s) \in Seq([ch : Chars, pos : Nat])
  BY <1>1, <1>2, <1>3, IsASeq
<1>5. Len(Numbered(s)) = Len(s)
  BY <1>1, <1>2, <1>4
<1>6. Numbered(s) = <<>> <=> s = <<>>
  BY <1>4, <1>5, EmptySeq
<1>7. QED BY <1>1, <1>2, <1>4, <1>5, <1>6

(* At first the buffer holds the command line. *)
LEMMA InitIs ==
  ASSUME ILimitAssumption, ConsoleAssumption, Init
  PROVE  /\ Right /\ Queue /\ Used = 0 /\ (ring.eoln \/ Held = 0) /\ ~ring.eof
         /\ read < ILimit /\ ring.in = read
         /\ \A i \in 0..(ILimit - 1) : ring.buf[i] = IF i < read THEN input[i + 1] ELSE NoChar
<1>1. PICK preload \in Preloads, typed \in Inputs :
        /\ input = Numbered(Line(preload) \o typed)
        /\ ring = PreloadInput(NewRing, Numbered(Line(preload)))
        /\ read = Len(Line(preload))
  BY DEF Init
<1> DEFINE line == Line(preload)
           all == line \o typed
           buf == [i \in 0..(ILimit - 1) |-> IF i < Len(line) THEN Numbered(line)[i + 1] ELSE NoChar]
<1>2. /\ line \in Seq(Chars) /\ Len(line) \in 0..(ILimit - 1)
      /\ line = <<>> <=> Len(line) = 0
      /\ line # <<>> => line[Len(line)] \in Eolns
  BY <1>1, LineIs
<1>3. typed \in Seq(Chars) /\ Len(typed) \in Nat
  BY <1>1, LenProperties DEF ConsoleAssumption
<1>4. input = Numbered(all) /\ ring = PreloadInput(NewRing, Numbered(line)) /\ read = Len(line)
  BY <1>1
<1> HIDE DEF line
<1>5. /\ all \in Seq(Chars) /\ Len(all) = Len(line) + Len(typed)
      /\ \A i \in 1..(Len(line) + Len(typed)) : all[i] = IF i <= Len(line) THEN line[i] ELSE typed[i - Len(line)]
  BY <1>2, <1>3, ConcatProperties
<1> HIDE DEF all
<1>6. /\ input \in Seq([ch : Chars, pos : Nat]) /\ Len(input) = Len(all) /\ Len(all) \in Nat
      /\ \A i \in 1..Len(all) : input[i] = [ch |-> all[i], pos |-> i] /\ all[i] \in Chars
  BY <1>4, <1>5, NumberedIs
<1>7. /\ Len(Numbered(line)) = Len(line)
      /\ \A i \in 1..Len(line) : Numbered(line)[i] = [ch |-> line[i], pos |-> i] /\ line[i] \in Chars
      /\ Numbered(line) = <<>> <=> line = <<>>
  BY <1>2, NumberedIs
<1>8. ILimit \in Nat /\ ILimit > 3 /\ Len(line) \in Nat /\ Len(line) <= Len(input)
  BY <1>2, <1>3, <1>5, <1>6 DEF ILimitAssumption
<1>9. ASSUME NEW i \in 1..Len(line) PROVE Numbered(line)[i] = input[i] /\ input[i].ch = line[i]
  <2>1. i \in 1..(Len(line) + Len(typed)) /\ i <= Len(line) /\ i \in 1..Len(all)
    BY <1>3, <1>5, <1>8
  <2>2. all[i] = line[i]
    BY <1>5, <2>1
  <2>3. input[i] = [ch |-> line[i], pos |-> i]
    BY <1>6, <2>1, <2>2
  <2>4. QED BY <1>7, <2>3
<1>10. InputOK
  <2>1. ASSUME NEW i \in 1..Len(input) PROVE input[i].pos = i
    <3>1. input[i] = [ch |-> all[i], pos |-> i]
      BY <1>6
    <3>2. QED BY <3>1
  <2>2. QED BY <1>6, <2>1 DEF InputOK
<1>11. NoChar \in Spot /\ \A i \in 1..Len(input) : input[i] \in Spot
  <2>1. 0 \in 0..Len(input)
    BY <1>8
  <2>2. NoChar \in Spot
    BY <2>1 DEF NoChar, Spot
  <2>3. QED BY <1>10, <2>2, Spots
<1>12. buf \in [0..(ILimit - 1) -> Spot]
  <2>1. ASSUME NEW i \in 0..(ILimit - 1)
        PROVE  (IF i < Len(line) THEN Numbered(line)[i + 1] ELSE NoChar) \in Spot
    <3>1. CASE i < Len(line)
      <4>1. i + 1 \in 1..Len(line) /\ i + 1 \in 1..Len(input)
        BY <1>8, <3>1
      <4>2. QED BY <1>9, <1>11, <3>1, <4>1
    <3>2. CASE ~(i < Len(line))
      BY <1>11, <3>2
    <3>3. QED BY <3>1, <3>2
  <2>2. QED BY <2>1
<1>b. ASSUME NEW i \in 0..(ILimit - 1) PROVE buf[i] = IF i < Len(line) THEN input[i + 1] ELSE NoChar
  <2>1. CASE i < Len(line)
    <3>1. i + 1 \in 1..Len(line)
      BY <1>8, <2>1
    <3>2. QED BY <1>9, <2>1, <3>1
  <2>2. CASE ~(i < Len(line))
    BY <2>2
  <2>3. QED BY <2>1, <2>2
<1>13. /\ ring \in Rings(Spot) /\ ring.in = Len(line) /\ ring.out = 0 /\ ring.eof = FALSE
       /\ \A i \in 0..(Len(line) - 1) : ring.buf[i] = input[i + 1]
       /\ ring.eoln \/ Len(line) = 0
       /\ ring.buf = buf
  <2>1. CASE line = <<>>
    <3>1. ring = NewRing
      BY <1>4, <1>7, <2>1 DEF PreloadInput
    <3>2. 0 \in 0..(ILimit - 1)
      BY <1>8
    <3>3. NewRing \in Rings(Spot)
      BY <1>11, <3>2 DEF NewRing, Rings
    <3>4. Len(line) = 0
      BY <1>2, <2>1
    <3>5. ring.buf = buf
      <4>1. \A i \in 0..(ILimit - 1) : ~(i < Len(line))
        BY <1>8, <3>4
      <4>2. QED BY <3>1, <4>1 DEF NewRing
    <3>6. QED BY <1>2, <2>1, <3>1, <3>3, <3>4, <3>5 DEF NewRing
  <2>2. CASE line # <<>>
    <3>1. ring = [NewRing EXCEPT !.buf = [i \in DOMAIN @ |-> IF i < Len(Numbered(line)) THEN Numbered(line)[i + 1] ELSE @[i]],
                                 !.in = Len(Numbered(line)), !.out = 0, !.eof = FALSE, !.eoln = TRUE]
      BY <1>4, <1>7, <2>2 DEF PreloadInput
    <3>2. ring.in = Len(line) /\ ring.out = 0 /\ ring.eof = FALSE /\ ring.eoln = TRUE
      BY <1>7, <3>1 DEF NewRing
    <3>3. ring.buf = buf
      BY <1>7, <3>1 DEF NewRing
    <3>4. ring = [buf |-> ring.buf, in |-> ring.in, out |-> ring.out, eof |-> ring.eof, eoln |-> ring.eoln]
      BY <3>1 DEF NewRing
    <3>5. Len(line) \in 0..(ILimit - 1) /\ 0 \in 0..(ILimit - 1)
      BY <1>2, <1>8
    <3>6. ring \in Rings(Spot)
      BY <1>12, <3>2, <3>3, <3>4, <3>5 DEF Rings
    <3>7. \A i \in 0..(Len(line) - 1) : ring.buf[i] = input[i + 1]
      <4>1. ASSUME NEW i \in 0..(Len(line) - 1) PROVE buf[i] = input[i + 1]
        <5>1. i \in 0..(ILimit - 1) /\ i < Len(line) /\ i + 1 \in 1..Len(line)
          BY <1>8, <3>5
        <5>2. QED BY <1>9, <5>1
      <4>2. QED BY <3>3, <4>1
    <3>8. QED BY <3>2, <3>3, <3>6, <3>7
  <2>3. QED BY <2>1, <2>2
<1>14. Right
  <2>1. /\ read \in 0..Len(input) /\ at \in Places
        /\ IsInteractive \in BOOLEAN /\ edge \in BOOLEAN /\ prompted \in BOOLEAN
        /\ ran = {} /\ failed = {} /\ slips = {} /\ overrun = FALSE
    <3>1. read \in 0..Len(input)
      BY <1>4, <1>6, <1>8
    <3>2. QED BY <3>1 DEF Init, Places, Fills
  <2>2. QED BY <1>10, <1>13, <2>1 DEF Right, Kinds
<1>15. Held = Len(line)
  <2>1. BufferTotalContent(ring) = ring.in - ring.out
    BY <1>8, <1>13, ContentIs
  <2>2. QED BY <1>8, <1>13, <2>1 DEF Held
<1>16. Used = 0
  BY <1>4, <1>8, <1>15 DEF Used
<1>17. Queue
  <2>1. ASSUME NEW k \in 0..(Held - 1) PROVE Nth(ring, k) = input[Used + k + 1]
    <3>1. k \in 0..(ILimit - 1) /\ k \in 0..(Len(line) - 1) /\ Used + k + 1 = k + 1 /\ ring.out + k = k /\ k < ILimit
      BY <1>2, <1>8, <1>13, <1>15, <1>16
    <3>2. ring \in Rings(Spot)
      BY <1>13
    <3>3. Nth(ring, k) = ring.buf[k]
      BY <3>1, <3>2, NthIs
    <3>4. QED BY <1>13, <3>1, <3>3
  <2>2. Held > 0 => Ch(read) \in Eolns
    <3>1. SUFFICES ASSUME Len(line) > 0 PROVE Ch(Len(line)) \in Eolns
      BY <1>4, <1>15
    <3>2. line # <<>> /\ Len(line) \in 1..Len(line)
      BY <1>2, <1>8, <3>1
    <3>3. QED BY <1>2, <1>9, <3>2 DEF Ch
  <2>3. QED BY <1>4, <1>8, <1>15, <2>1, <2>2 DEF Queue
<1>18. \A i \in 0..(ILimit - 1) : ring.buf[i] = IF i < read THEN input[i + 1] ELSE NoChar
  BY <1>4, <1>b, <1>13
<1>19. read < ILimit /\ ring.in = read
  BY <1>2, <1>4, <1>8, <1>13
<1>20. QED BY <1>13, <1>14, <1>15, <1>16, <1>17, <1>18, <1>19

LEMMA ShortInit ==
  ASSUME ILimitAssumption, ConsoleAssumption, ShortCommands, Init
  PROVE  ConsoleInv
<1>1. Right /\ Queue /\ Used = 0 /\ (ring.eoln \/ Held = 0) /\ ~ring.eof
  BY InitIs
<1>2. PICK preload \in Preloads, typed \in Inputs : input = Numbered(Line(preload) \o typed)
  BY DEF Init
<1> DEFINE all == Line(preload) \o typed
<1>3. Line(preload) \in Seq(Chars) /\ typed \in Seq(Chars)
  BY <1>2, LineIs DEF ConsoleAssumption
<1>4. all \in Seq(Chars)
  BY <1>3, ConcatProperties
<1>5. Brief(all) /\ input = Numbered(all)
  BY <1>2 DEF ShortCommands
<1> HIDE DEF all
<1>6. Len(input) = Len(all) /\ Len(all) \in Nat
  BY <1>4, <1>5, NumberedIs
<1>7. ASSUME NEW i \in 1..Len(all) PROVE Ch(i) = all[i]
  <2>1. input[i] = [ch |-> all[i], pos |-> i]
    BY <1>4, <1>5, <1>7, NumberedIs
  <2>2. QED BY <2>1 DEF Ch
<1>8. Half \in Nat /\ Half > 1
  BY Wrapped DEF Half
<1>9. ASSUME NEW i \in 1..Len(input) PROVE Near(i, DwEolns)
  <2>1. SUFFICES ASSUME i + Half - 1 <= Len(input) PROVE \E k \in i..(i + Half - 1) : Ch(k) \in DwEolns
    BY DEF Near
  <2>2. PICK k \in i..(i + Half - 1) : all[k] \in DwEolns
    BY <1>5, <1>6, <2>1 DEF Brief
  <2>3. k \in 1..Len(all)
    BY <1>6, <1>8, <2>1
  <2>4. QED BY <1>7, <2>2, <2>3
<1>m. ASSUME NEW i \in 0..Len(input), FailsBehind(i) PROVE MayFail(all, i)
  <2>1. CASE TRUE \in Edges
    BY <2>1 DEF MayFail
  <2>2. CASE TRUE \notin Edges
    <3>1. PICK j \in 1..i : Ch(j) \in {"f", "p", "s"} /\ \A k \in (j + 1)..i : Ch(k) \in Eolns
      BY <1>m, <2>2 DEF FailsBehind
    <3>2. \A k \in j..i : Ch(k) = all[k]
      BY <1>6, <1>7
    <3>3. all[j] \in {"f", "p", "s"} /\ \A k \in (j + 1)..i : all[k] \in Eolns
      BY <1>6, <3>1, <3>2
    <3>4. QED BY <3>3 DEF MayFail
  <2>3. QED BY <2>1, <2>2
<1>10. ASSUME Tty, NEW i \in 0..Len(input), FailsBehind(i) PROVE Near(i + 1, Eolns)
  <2>1. SUFFICES ASSUME i + 1 + Half - 1 <= Len(input)
                 PROVE  \E k \in (i + 1)..(i + 1 + Half - 1) : Ch(k) \in Eolns
    BY DEF Near
  <2>2. i + Half <= Len(all) /\ i + 1 + Half - 1 = i + Half /\ MayFail(all, i)
    BY <1>6, <1>8, <1>10, <1>m, <2>1
  <2>3. PICK k \in (i + 1)..(i + Half) : all[k] \in Eolns
    BY <1>5, <1>6, <1>10, <2>2 DEF Brief
  <2>4. k \in 1..Len(all) /\ k \in (i + 1)..(i + 1 + Half - 1)
    BY <1>6, <1>8, <2>2
  <2>5. QED BY <1>7, <2>3, <2>4
<1>11. BriefInput
  BY <1>9, <1>10 DEF BriefInput
<1>12. Fresh(Used)
  <2>1. Fresh(0)
    BY DEF Fresh
  <2>2. QED BY <1>1, <2>1
<1>13. /\ at = "loop" /\ IsInteractive = FALSE /\ edge = FALSE /\ prompted = FALSE
       /\ ran = {} /\ failed = {} /\ slips = {}
  BY DEF Init
<1>14. AtPlace
  BY <1>12, <1>13 DEF AtPlace
<1>15. Done /\ Asked /\ Names
  BY <1>1, <1>13 DEF Done, Asked, Names
<1>16. QED BY <1>1, <1>11, <1>13, <1>14, <1>15 DEF ConsoleInv

LEMMA InvKept ==
  ASSUME ILimitAssumption, ConsoleAssumption, ShortCommands, ConsoleInv, [Next]_vars
  PROVE  ConsoleInv'
<1>1. Right'
  BY RightKept DEF ConsoleInv
<1>2. input' = input
  BY DEF Next, Fill, Loop, Prompt, Start, Again, Quit, HandleCommand, ReadNumber, DeviceBreak,
         KeyboardBreak, GdbBreak, GdbEnds, Rest, Ends, Recover, vars
<1>3. BriefInput'
  BY <1>2 DEF ConsoleInv, BriefInput, FailsBehind, Near, Ch
<1>4. edge' => TRUE \in Edges
  <2>1. edge => TRUE \in Edges
    BY DEF ConsoleInv
  <2>2. CASE ReadNumber
    <3>1. edge' = edge \/ edge' \in Edges
      BY <2>2 DEF ReadNumber
    <3>2. edge' \in BOOLEAN /\ Edges \subseteq BOOLEAN
      BY <1>1 DEF Right, Kinds, ConsoleAssumption
    <3>3. QED BY <2>1, <3>1, <3>2
  <2>3. CASE ~ReadNumber
    <3>1. edge' = edge
      BY <2>3 DEF Next, Fill, Loop, Prompt, Start, Again, Quit, HandleCommand, DeviceBreak,
                  KeyboardBreak, GdbBreak, GdbEnds, Rest, Ends, Recover, vars
    <3>2. QED BY <2>1, <3>1
  <2>4. QED BY <2>2, <2>3
<1>5. IsInteractive' => Tty
  <2>1. (IsInteractive => Tty) /\ Tty \in BOOLEAN
    BY DEF ConsoleInv, ConsoleAssumption
  <2>2. CASE Loop
    BY <2>1, <2>2 DEF Loop
  <2>3. CASE ~Loop
    <3>1. IsInteractive' = IsInteractive
      BY <2>3 DEF Next, Fill, Prompt, Start, Again, Quit, HandleCommand, ReadNumber, DeviceBreak,
                  KeyboardBreak, GdbBreak, GdbEnds, Rest, Ends, Recover, vars
    <3>2. QED BY <2>1, <3>1
  <2>4. QED BY <2>2, <2>3
<1>6. ASSUME ~ring'.eof, ~overrun' PROVE Kept'
  <2>1. ~ring.eof /\ ~overrun
    BY <1>6, EofStays, OverrunStays DEF ConsoleInv
  <2>2. Ready /\ Done /\ Asked /\ Names /\ (edge => TRUE \in Edges) /\ (IsInteractive => Tty)
    BY <2>1 DEF ConsoleInv, Ready
  <2>3. ~Quit
    <3>1. SUFFICES ASSUME Quit PROVE FALSE
      OBVIOUS
    <3>2. ~NeedsMore(ring) /\ Held = 0
      BY <3>1 DEF Quit, At, Fills, Held
    <3>3. Held > 0
      BY <2>2, <3>2, Breaks
    <3>4. QED BY <3>2, <3>3
  <2>4. CASE Fill
    BY <1>6, <2>2, <2>4, FillKeeps
  <2>5. CASE Loop
    BY <2>2, <2>5, LoopKeeps
  <2>6. CASE Prompt
    BY <2>2, <2>6, ShownKeeps, UnshownKeeps
  <2>7. CASE Start
    BY <2>2, <2>7, StartKeeps
  <2>8. CASE Again
    BY <2>2, <2>8, AgainKeeps
  <2>9. CASE HandleCommand
    BY <2>2, <2>9, HandleKeeps
  <2>10. CASE ReadNumber
    BY <2>2, <2>10, NumberKeeps
  <2>11. CASE DeviceBreak
    BY <2>2, <2>11, DeviceKeeps
  <2>12. CASE KeyboardBreak
    BY <2>2, <2>12, KeyKeeps
  <2>g. CASE GdbBreak
    BY <1>6, <2>2, <2>g, GdbBreakKeeps
  <2>e. CASE GdbEnds
    BY <2>2, <2>e, GdbEndsKeeps
  <2>13. CASE Rest
    BY <2>2, <2>13, RestKeeps
  <2>14. CASE Ends
    BY <2>2, <2>14, EndsKeeps
  <2>15. CASE Recover
    BY <2>2, <2>15, RecoverKeeps
  <2>16. CASE UNCHANGED vars
    BY <2>2, <2>16, StutterKeeps
  <2>17. QED
    BY <2>3, <2>4, <2>5, <2>6, <2>7, <2>8, <2>9, <2>10, <2>11, <2>12, <2>g, <2>e, <2>13, <2>14, <2>15, <2>16 DEF Next
<1>7. QED BY <1>1, <1>3, <1>4, <1>5, <1>6 DEF ConsoleInv, Kept

(* What a step that keeps ConsoleInv does to the queue. *)
LEMMA QueueStep ==
  ASSUME ILimitAssumption, ConsoleAssumption, ConsoleInv, [Next]_vars
  PROVE  IsQueue /\ AsksFirst
<1>1. ASSUME ~ring.eof, ~overrun' PROVE IsQueue
  <2>1. Ready /\ Done /\ Asked /\ Names
    BY <1>1, OverrunStays DEF ConsoleInv, Ready
  <2>2. BufferTotalContent(ring) = Held
    BY DEF Held
  <2>3. /\ Held \in 0..(ILimit - 1) /\ ILimit \in Nat /\ ring \in Rings(Spot) /\ read \in Nat
    BY <2>1, Counts
  <2>4. ASSUME NEW k \in Nat, Takes(k) PROVE IsQueue
    <3>1. k \in 0..Held /\ read' = read
      BY <2>4 DEF Takes
    <3>2. Content(ring') = SubSeq(Content(ring), k + 1, Held)
      BY <2>1, <2>4, Took DEF Takes, Ready
    <3>3. QED BY <2>2, <3>1, <3>2 DEF IsQueue
  <2>5. Skip(ring, 0) = ring
    <3>1. 0 \in Nat /\ 0 + 0 < ILimit
      BY <2>3
    <3>2. QED BY <2>1, <2>3, <3>1, SkipSkip DEF Ready
  <2>6. ASSUME ring' = ring, input' = input, read' = read PROVE IsQueue
    <3>1. Takes(0) /\ 0 \in Nat
      BY <2>3, <2>5, <2>6 DEF Takes
    <3>2. QED BY <2>4, <3>1
  <2>7. CASE Fill
    <3>1. IF read' # read
          THEN Content(ring') = Content(ring) \o SubSeq(input, read + 1, read')
          ELSE Content(ring') = Content(ring)
      BY <2>1, <2>7, Filling DEF Ready
    <3>2. CASE read' # read
      BY <3>1, <3>2 DEF IsQueue
    <3>3. CASE read' = read
      <4>1. Content(ring') = Content(ring)
        BY <3>1, <3>3
      <4>2. Content(ring) = SubSeq(Content(ring), 0 + 1, Held)
        <5>1. \A i \in 1..Held : Nth(ring, i - 1) \in Spot
          <6>1. ASSUME NEW i \in 1..Held PROVE Nth(ring, i - 1) \in Spot
            <7>1. i - 1 \in 0..(ILimit - 1)
              BY <2>3
            <7>2. QED BY <2>1, <2>3, <7>1, NthIs DEF Ready
          <6>2. QED BY <6>1
        <5>2. Content(ring) = [i \in 1..Held |-> Nth(ring, i - 1)] /\ Held \in Nat
          BY <2>2, <2>3 DEF Content
        <5>3. Content(ring) \in Seq(Spot)
          BY <5>1, <5>2, IsASeq
        <5>4. Len(Content(ring)) = Held
          BY <5>2, <5>3
        <5>5. SubSeq(Content(ring), 1, Len(Content(ring))) = Content(ring)
          BY <5>3, SubSeqFull
        <5>6. 0 + 1 = 1
          OBVIOUS
        <5>7. QED BY <5>4, <5>5, <5>6
      <4>3. 0 \in 0..Held
        BY <2>3
      <4>4. QED BY <2>2, <3>3, <4>1, <4>2, <4>3 DEF IsQueue
    <3>4. QED BY <3>2, <3>3
  <2>8. CASE Loop \/ Prompt \/ Quit \/ DeviceBreak \/ GdbEnds \/ UNCHANGED vars
    BY <2>6, <2>8 DEF Loop, Prompt, Quit, DeviceBreak, GdbEnds, vars
  <2>9. CASE Start
    BY <2>1, <2>4, <2>9, StartTakes
  <2>10. CASE Again
    BY <2>1, <2>4, <2>10, AgainTakes
  <2>11. CASE HandleCommand
    <3>1. PICK n \in 0..NameMax : Takes(n)
      BY <2>1, <2>11, HandleTakes
    <3>2. NameMax \in Nat
      BY DEF ConsoleAssumption
    <3>3. n \in Nat
      BY <3>1, <3>2
    <3>4. QED BY <2>4, <3>1, <3>3
  <2>12. CASE ReadNumber
    <3>1. PICK k \in Nat, n \in Nat : Takes(k + n)
      BY <2>1, <2>12, NumberTakes
    <3>2. k + n \in Nat
      OBVIOUS
    <3>3. QED BY <2>4, <3>1, <3>2
  <2>13. CASE KeyboardBreak
    <3>1. PICK k \in {0, 1} : Takes(k)
      BY <2>1, <2>13, KeyTakes
    <3>2. k \in Nat
      OBVIOUS
    <3>3. QED BY <2>4, <3>1, <3>2
  <2>g. CASE GdbBreak
    <3>1. PICK k \in {0, 1} : Takes(k)
      BY <1>1, <2>1, <2>g, GdbTakes
    <3>2. k \in Nat
      OBVIOUS
    <3>3. QED BY <2>4, <3>1, <3>2
  <2>14. CASE Rest
    BY <2>1, <2>4, <2>14, RestTakes
  <2>15. CASE Ends
    BY <2>1, <2>4, <2>15, EndsTakes
  <2>16. CASE Recover
    BY <2>1, <2>4, <2>16, RecoverTakes
  <2>17. QED
    BY <2>7, <2>8, <2>9, <2>10, <2>11, <2>12, <2>13, <2>g, <2>14, <2>15, <2>16 DEF Next
<1>2. AsksFirst
  <2>1. SUFFICES ASSUME read' # read, IsInteractive, ~overrun PROVE prompted \/ Slipped(read)
    BY DEF AsksFirst
  <2>2. Fill
    BY <2>1 DEF Next, Fill, Loop, Prompt, Start, Again, Quit, HandleCommand, ReadNumber, DeviceBreak,
                KeyboardBreak, GdbBreak, GdbEnds, Rest, Ends, Recover, vars
  <2>3. ~ring.eof
    BY <2>2 DEF Fill, NeedsMore
  <2>4. Ready /\ Asked
    BY <2>1, <2>3 DEF ConsoleInv, Ready
  <2>5. QED BY <2>1, <2>2, <2>4, AskedToRead
<1>3. QED BY <1>1, <1>2 DEF IsQueue
-----------------------------------------------------------------------------
(* While the input has not gone around the buffer, the buffer is the input *)
(* as far as it has been read.                                             *)
Round ==
  /\ Right /\ Len(input) <= ILimit
  /\ Len(input) = ILimit => Ch(1) \notin DwEolns \cup Numeric
  /\ ring.in = IF read = ILimit THEN 0 ELSE read
  /\ \A i \in 0..(ILimit - 1) : ring.buf[i] = IF i < read THEN input[i + 1] ELSE NoChar

(* It begins like that, *)
LEMMA RoundInit ==
  ASSUME ILimitAssumption, ConsoleAssumption, OneRound, Init
  PROVE  Round
<1>1. /\ Right /\ read < ILimit /\ ring.in = read
      /\ \A i \in 0..(ILimit - 1) : ring.buf[i] = IF i < read THEN input[i + 1] ELSE NoChar
  BY InitIs
<1>2. PICK preload \in Preloads, typed \in Inputs : input = Numbered(Line(preload) \o typed)
  BY DEF Init
<1> DEFINE text == Line(preload) \o typed
<1>3. Line(preload) \in Seq(Chars) /\ typed \in Seq(Chars)
  BY <1>2, LineIs DEF ConsoleAssumption
<1>4. text \in Seq(Chars)
  BY <1>3, ConcatProperties
<1>5. Len(text) <= ILimit /\ (Len(text) = ILimit => text[1] \notin DwEolns \cup Numeric)
  BY DEF OneRound
<1>6. input = Numbered(text)
  BY <1>2
<1> HIDE DEF text
<1>7. /\ Len(input) = Len(text) /\ Len(text) \in Nat
      /\ \A i \in 1..Len(text) : input[i] = [ch |-> text[i], pos |-> i]
  BY <1>4, <1>6, NumberedIs
<1>8. ASSUME Len(input) = ILimit PROVE Ch(1) \notin DwEolns \cup Numeric
  <2>1. 1 \in 1..Len(text)
    BY <1>7, <1>8 DEF ILimitAssumption
  <2>2. input[1] = [ch |-> text[1], pos |-> 1]
    BY <1>7, <2>1
  <2>3. input[1].ch = text[1]
    BY <2>2
  <2>4. QED BY <1>5, <1>7, <1>8, <2>3 DEF Ch
<1>9. ring.in = IF read = ILimit THEN 0 ELSE read
  <2>1. read # ILimit
    BY <1>1 DEF ILimitAssumption, Right, Kinds
  <2>2. QED BY <1>1, <2>1
<1>10. QED BY <1>1, <1>5, <1>7, <1>8, <1>9 DEF Round

(* and nothing but Fill writes to the buffer. *)
LEMMA OnlyReads ==
  ASSUME ILimitAssumption, ConsoleAssumption, Right, [Next]_vars, ~Fill
  PROVE  ring'.in = ring.in /\ ring'.buf = ring.buf /\ read' = read /\ input' = input
<1>1. ring \in Rings(Spot)
  BY DEF Right, Kinds
<1>2. ASSUME NEW r \in Rings(Spot), NEW k
      PROVE  Skip(r, k).in = r.in /\ Skip(r, k).buf = r.buf
  BY DEF Skip, Rings
<1>3. ASSUME NEW class
      PROVE  /\ SkipWhile(ring, class) \in Rings(Spot)
             /\ SkipWhile(ring, class).in = ring.in /\ SkipWhile(ring, class).buf = ring.buf
  BY <1>1, <1>2, SkipsKept DEF SkipWhile
<1>4. \A r \in Rings(Spot) : /\ SkipCh(r).in = r.in /\ SkipCh(r).buf = r.buf
                             /\ SkipEoln(r).in = r.in /\ SkipEoln(r).buf = r.buf
  BY <1>2 DEF SkipCh, SkipEoln
<1>5. read' = read /\ input' = input
  BY DEF Next, Loop, Prompt, Start, Again, Quit, HandleCommand, ReadNumber, DeviceBreak,
         KeyboardBreak, GdbBreak, GdbEnds, Rest, Ends, Recover, vars
<1>6. CASE Loop \/ Prompt \/ Quit \/ DeviceBreak \/ GdbEnds \/ UNCHANGED vars
  BY <1>5, <1>6 DEF Loop, Prompt, Quit, DeviceBreak, GdbEnds, vars
<1>7. CASE Start
  <2>1. ring' \in {SkipWhile(ring, Blanks), SkipCh(SkipWhile(ring, Blanks))}
    BY <1>7 DEF Start
  <2>2. QED BY <1>3, <1>4, <1>5, <2>1
<1>8. CASE Again
  BY <1>3, <1>5, <1>8 DEF Again
<1>9. CASE HandleCommand
  <2>1. ring' = Skip(ring, ReadLength(ring, Alpha, NameMax))
    BY <1>9 DEF HandleCommand
  <2>2. QED BY <1>1, <1>2, <1>5, <2>1
<1>10. CASE ReadNumber
  <2>1. ring' = Skip(SkipWhile(ring, Blanks), RunLength(SkipWhile(ring, Blanks), Numeric, ILimit - 1))
    BY <1>10 DEF ReadNumber
  <2>2. QED BY <1>2, <1>3, <1>5, <2>1
<1>11. CASE KeyboardBreak \/ GdbBreak
  BY <1>1, <1>4, <1>5, <1>11 DEF KeyboardBreak, GdbBreak
<1>12. CASE Rest
  BY <1>3, <1>5, <1>12 DEF Rest
<1>13. CASE Ends
  BY <1>3, <1>5, <1>13 DEF Ends
<1>14. CASE Recover
  BY <1>3, <1>4, <1>5, <1>14 DEF Recover
<1>15. QED
  BY <1>6, <1>7, <1>8, <1>9, <1>10, <1>11, <1>12, <1>13, <1>14 DEF Next

(* A read goes on where the one before it has ended. *)
LEMMA RoundFill ==
  ASSUME ILimitAssumption, ConsoleAssumption, Round, Fill
  PROVE  Round'
<1>1. Right'
  <2>1. Right /\ [Next]_vars
    BY DEF Round, Next
  <2>2. QED BY <2>1, RightKept
<1>2. PICK n \in Lengths(BufferContiguousFree(ring)) :
        LET chunk == SubSeq(input, read + 1, read + n)
        IN  /\ n \in Nat /\ read' = read + n /\ read' <= Len(input)
            /\ chunk \in Seq(Spot) /\ Len(chunk) = n
            /\ \A k \in 1..n : chunk[k] = input[read + k]
            /\ ring' = ContiguousFill(ring, chunk)
  BY FillIs DEF Round
<1> DEFINE chunk == SubSeq(input, read + 1, read + n)
<1>3. /\ n \in Nat /\ read' = read + n /\ read' <= Len(input) /\ Len(chunk) = n
      /\ \A k \in 1..n : chunk[k] = input[read + k]
      /\ ring' = ContiguousFill(ring, chunk)
  BY <1>2
<1> HIDE DEF chunk
<1>4. /\ InputOK /\ ring \in Rings(Spot) /\ read \in 0..Len(input) /\ Len(input) \in Nat /\ Len(input) <= ILimit
      /\ ILimit \in Nat /\ ILimit > 3
      /\ ring.in = IF read = ILimit THEN 0 ELSE read
      /\ \A i \in 0..(ILimit - 1) : ring.buf[i] = IF i < read THEN input[i + 1] ELSE NoChar
      /\ Len(input) = ILimit => Ch(1) \notin DwEolns \cup Numeric
  BY Spots DEF Round, Right, Kinds, ILimitAssumption
<1>5. input' = input
  BY DEF Fill
<1>6. /\ ring'.buf = [i \in 0..(ILimit - 1) |-> IF i - ring.in \in 0..(n - 1) THEN chunk[i - ring.in + 1] ELSE ring.buf[i]]
      /\ ring'.in = (ring.in + n) % ILimit
  BY <1>3, <1>4 DEF ContiguousFill, Rings
<1>7. ring'.in = IF read' = ILimit THEN 0 ELSE read'
  <2>1. CASE read = ILimit
    <3>1. n = 0 /\ read' = ILimit /\ ring.in + n = 0 /\ 0 \in 0..(ILimit - 1)
      BY <1>3, <1>4, <2>1
    <3>2. QED BY <1>6, <3>1, Wrapped
  <2>2. CASE read # ILimit /\ read' # ILimit
    <3>1. ring.in + n = read' /\ read' \in 0..(ILimit - 1)
      BY <1>3, <1>4, <2>2
    <3>2. QED BY <1>6, <2>2, <3>1, Wrapped
  <2>3. CASE read # ILimit /\ read' = ILimit
    <3>1. ring.in + n = 0 + ILimit /\ 0 \in 0..(ILimit - 1)
      BY <1>3, <1>4, <2>3
    <3>2. QED BY <1>6, <2>3, <3>1, Wrapped
  <2>4. QED BY <2>1, <2>2, <2>3
<1>8. ASSUME NEW i \in 0..(ILimit - 1)
      PROVE  ring'.buf[i] = IF i < read' THEN input[i + 1] ELSE NoChar
  <2>1. CASE i < read
    <3>1. ~(i - ring.in \in 0..(n - 1)) /\ i < read'
      BY <1>3, <1>4, <2>1
    <3>2. QED BY <1>4, <1>6, <2>1, <3>1
  <2>2. CASE ~(i < read) /\ i < read'
    <3>1. i - ring.in \in 0..(n - 1) /\ i - ring.in + 1 \in 1..n /\ read + (i - ring.in + 1) = i + 1
      BY <1>3, <1>4, <2>2
    <3>2. chunk[i - ring.in + 1] = input[i + 1]
      BY <1>3, <3>1
    <3>3. QED BY <1>6, <2>2, <3>1, <3>2
  <2>3. CASE ~(i < read')
    <3>1. ~(i - ring.in \in 0..(n - 1)) /\ ~(i < read)
      BY <1>3, <1>4, <2>3
    <3>2. QED BY <1>4, <1>6, <2>3, <3>1
  <2>4. QED BY <1>3, <1>4, <2>1, <2>2, <2>3
<1>9. QED BY <1>1, <1>4, <1>5, <1>7, <1>8 DEF Round, Ch

(* So it stays like that. *)
LEMMA RoundKept ==
  ASSUME ILimitAssumption, ConsoleAssumption, Round, [Next]_vars
  PROVE  Round'
<1>1. CASE Fill
  BY <1>1, RoundFill
<1>2. CASE ~Fill
  <2>1. Right
    BY DEF Round
  <2>2. ring'.in = ring.in /\ ring'.buf = ring.buf /\ read' = read /\ input' = input
    BY <1>2, <2>1, OnlyReads
  <2>3. Right'
    BY <2>1, RightKept
  <2>4. QED BY <2>2, <2>3 DEF Round, Ch
<1>3. QED BY <1>1, <1>2

(* What is at IIn is nothing that anyone takes. *)
LEMMA NothingThere ==
  ASSUME ILimitAssumption, Round, Held = 0
  PROVE  NextCh(ring) \notin DwEolns \cup Numeric
<1>1. ring \in Rings(Spot) /\ read \in 0..Len(input) /\ ILimit \in Nat /\ ILimit > 3 /\ Len(input) \in Nat
  BY Spots DEF Round, Right, Kinds, ILimitAssumption
<1>2. ring.in = ring.out /\ ring.out \in 0..(ILimit - 1)
  BY <1>1, ContentIs DEF Held, Rings
<1>3. 0 \in 0..(ILimit - 1) /\ ring.out + 0 = ring.out /\ ring.out < ILimit
  BY <1>1, <1>2
<1>4. Nth(ring, 0) = ring.buf[ring.out]
  BY <1>1, <1>3, NthIs
<1>5. CASE read = ILimit
  <2>1. ring.out = 0 /\ 0 < read /\ Len(input) = ILimit
    BY <1>1, <1>2, <1>5 DEF Round
  <2>2. Nth(ring, 0) = input[0 + 1]
    BY <1>3, <1>4, <2>1 DEF Round
  <2>3. QED BY <2>1, <2>2 DEF Round, NextCh, Ch
<1>6. CASE read # ILimit
  <2>1. ring.out = read /\ ~(ring.out < read)
    BY <1>1, <1>2, <1>6 DEF Round
  <2>2. Nth(ring, 0) = NoChar
    BY <1>2, <1>4, <2>1 DEF Round
  <2>3. NextCh(ring) = NoChar.ch
    BY <2>2, Zenon DEF NextCh
  <2>4. NoChar.ch \notin DwEolns \cup Numeric
    BY DEF NoChar, DwEolns, Eolns, Separators, Numeric
  <2>5. QED BY <2>3, <2>4
<1>7. QED BY <1>5, <1>6

(* So what is empty at the end of the input stays empty. *)
LEMMA EmptyStep ==
  ASSUME ILimitAssumption, ConsoleAssumption, Round, [Next]_vars
  PROVE  StaysEmpty
<1>1. SUFFICES ASSUME ring.eof, Held = 0 PROVE BufferTotalContent(ring') = 0
  BY DEF StaysEmpty, Held
<1>2. ring \in Rings(Spot) /\ ILimit \in Nat /\ ILimit > 3 /\ ILimit - 1 \in Nat /\ NameMax \in Nat
  BY DEF Round, Right, Kinds, ILimitAssumption, ConsoleAssumption
<1>3. NextCh(ring) \notin DwEolns \cup Numeric
  BY <1>1, NothingThere
<1>4. SUFFICES ring' = ring
  BY <1>1 DEF Held
<1>5. Skip(ring, 0) = ring
  <2>1. ring.out \in 0..(ILimit - 1) /\ ring.out + 0 = ring.out
    BY <1>2 DEF Rings
  <2>2. (ring.out + 0) % ILimit = ring.out
    BY <2>1, Wrapped
  <2>3. QED BY <1>2, <2>2 DEF Skip, Rings
<1>6. ASSUME NEW class, NEW m \in Nat PROVE ReadLength(ring, class, m) = 0
  <2>1. ReadLength(ring, class, m) \in 0..Held
    BY <1>2, ReadIs DEF Held
  <2>2. QED BY <1>1, <2>1
<1>7. ASSUME NEW class PROVE SkipWhile(ring, class) = ring
  BY <1>2, <1>5, <1>6 DEF SkipWhile
<1>8. SkipEoln(ring) = ring
  BY <1>3 DEF SkipEoln, DwEolns
<1>9. CASE Fill
  BY <1>1, <1>9 DEF Fill, NeedsMore
<1>10. CASE Loop \/ Prompt \/ Quit \/ DeviceBreak \/ GdbEnds \/ UNCHANGED vars
  BY <1>10 DEF Loop, Prompt, Quit, DeviceBreak, GdbEnds, vars
<1>11. CASE Start
  BY <1>3, <1>7, <1>11 DEF Start, DwEolns
<1>12. CASE HandleCommand
  BY <1>1, <1>12 DEF HandleCommand, Held
<1>13. CASE ReadNumber
  <2>1. ring' = Skip(ring, RunLength(ring, Numeric, ILimit - 1))
    BY <1>7, <1>13 DEF ReadNumber
  <2>2. RunLength(ring, Numeric, ILimit - 1) = 0
    <3> DEFINE k == RunLength(ring, Numeric, ILimit - 1)
    <3>1. k \in 0..(ILimit - 1) /\ \A j \in 0..(k - 1) : Nth(ring, j).ch \in Numeric
      BY <1>2, RunIs
    <3> HIDE DEF k
    <3>2. k > 0 => Nth(ring, 0).ch \in Numeric
      BY <1>2, <3>1
    <3>3. QED BY <1>2, <1>3, <3>1, <3>2 DEF NextCh, k
  <2>3. QED BY <1>5, <2>1, <2>2
<1>14. CASE Again \/ KeyboardBreak \/ GdbBreak \/ Rest \/ Ends \/ Recover
  BY <1>7, <1>8, <1>14 DEF Again, KeyboardBreak, GdbBreak, Rest, Ends, Recover
<1>15. QED
  BY <1>9, <1>10, <1>11, <1>12, <1>13, <1>14 DEF Next
-----------------------------------------------------------------------------
(* The types, for all inputs. *)
THEOREM TypesRight ==
  ASSUME ILimitAssumption, ConsoleAssumption
  PROVE  Spec => []TypeOK
<1>1. Init => Right
  BY InitIs
<1>2. Right /\ [Next]_vars => Right'
  BY RightKept
<1>3. Right => TypeOK
  BY RightTypes
<1>4. QED BY <1>1, <1>2, <1>3, PTL DEF Spec

(* The invariant, for all inputs with short commands, *)
THEOREM AlwaysConsoleInv ==
  ASSUME ILimitAssumption, ConsoleAssumption, ShortCommands
  PROVE  Spec => []ConsoleInv
<1>1. Init => ConsoleInv
  BY ShortInit
<1>2. ConsoleInv /\ [Next]_vars => ConsoleInv'
  BY InvKept
<1>3. QED BY <1>1, <1>2, PTL DEF Spec

(* and what it implies. *)
LEMMA InvPromise == ASSUME ConsoleInv PROVE WholeNames /\ NoneLost
<1>1. WholeNames
  BY DEF ConsoleInv, Names, WholeNames
<1>2. NoneLost
  BY DEF ConsoleInv, Done, Accounted, Used, Held, NoneLost
<1>3. QED BY <1>1, <1>2

(* ParseAndHandleCommand: a command that is handled is one of the input,   *)
(* with its whole name, wherever the reads end and the buffer wraps, until *)
(* an interrupt of gdb runs past IIn.                                      *)
THEOREM HandledWhole ==
  ASSUME ILimitAssumption, ConsoleAssumption, ShortCommands
  PROVE  Spec => []WholeNames
<1>1. ConsoleInv => WholeNames
  BY InvPromise
<1>2. QED BY <1>1, AlwaysConsoleInv, PTL

(* ParseAndHandleCommand, UI: no command is skipped, but for what is       *)
(* behind a failed one on its line, or stops a program, or is behind an    *)
(* end of line that an interrupt of gdb has skipped, or behind a prompt    *)
(* that failed; until an interrupt of gdb runs past IIn.                   *)
THEOREM NoneIsLost ==
  ASSUME ILimitAssumption, ConsoleAssumption, ShortCommands
  PROVE  Spec => []NoneLost
<1>1. ConsoleInv => NoneLost
  BY InvPromise
<1>2. QED BY <1>1, AlwaysConsoleInv, PTL

(* BufferContiguousFree, Fill, SkipCh: the buffer is a queue until the end *)
(* of the input has been reached, or an interrupt of gdb runs past IIn;    *)
(* Fill: until then a terminal is asked for a new line only after a        *)
(* prompt, but behind an end of line that gdb's interrupts have skipped,   *)
(* or behind a prompt that failed.                                         *)
THEOREM AlwaysQueue ==
  ASSUME ILimitAssumption, ConsoleAssumption, ShortCommands
  PROVE  Spec => [][IsQueue /\ AsksFirst]_vars
<1>1. ConsoleInv /\ [Next]_vars => [IsQueue /\ AsksFirst]_vars
  BY QueueStep
<1>2. QED BY <1>1, AlwaysConsoleInv, PTL DEF Spec

(* in==out => empty: once the input has ended and is used up, there is     *)
(* nothing more to read, if it has not gone around the buffer.             *)
THEOREM EmptyStays ==
  ASSUME ILimitAssumption, ConsoleAssumption, OneRound
  PROVE  Spec => [][StaysEmpty]_vars
<1>1. Init => Round
  BY RoundInit
<1>2. Round /\ [Next]_vars => Round' /\ [StaysEmpty]_vars
  BY RoundKept, EmptyStep
<1>3. QED BY <1>1, <1>2, PTL DEF Spec

-----------------------------------------------------------------------------
CONSTANTS PortCount, Kind, Index, Chip, NoChip, Unsupported, MaxFaults
VARIABLES port, CurrentPort, owner, stage, try, request, did, chosen, faults

(* Finding and changing the connection. *)
P == INSTANCE Ports WITH at <- stage, i <- try


(* What is known of a port, and what the user can ask for. *)
PortStates == [character : {P!None} \cup Nat, baud : {-1, 0} \cup P!Bauds, open : BOOLEAN]
Requests   == [cmd : {"none", "device", "ls", "use"}, kind : {P!AnyKind, "", "u", "s"},
               index : Nat \cup {P!AnyIndex}, baud : {0} \cup P!Bauds]

(* The types, variable by variable. *)
PortsTypes ==
  /\ port \in [P!Port -> PortStates]
  /\ CurrentPort \in P!Port \cup {P!None} /\ owner \in P!Port \cup {P!None}
  /\ did \in P!Port \cup {P!None} /\ chosen \in P!Port \cup {P!None}
  /\ stage \in {"idle", "find", "list", "type", "reconnect", "handler", "failed"}
  /\ try \in 1..(PortCount + 1)
  /\ request \in Requests
  /\ faults \in 0..MaxFaults

(* Where a procedure is, there is the port that it is about.               *)
Placed ==
  /\ stage = "type" => try \in P!Port /\ CurrentPort = try /\ port[try].baud > 0
  /\ stage = "reconnect" => CurrentPort \in P!Port
  /\ stage = "list" => request.cmd = "ls"
  /\ stage \in {"find", "type", "reconnect"} /\ request.cmd = "device" =>
       request.kind \in {"u", "s"} /\ request.index \in Nat
  /\ stage \in {"type", "reconnect"} /\ request.cmd = "device" => P!Asked(CurrentPort)

(* The inductive invariant. Placed is in it because ConnectPort,           *)
(* GetDeviceType and DwReconnect are separate steps: that a port answers   *)
(* is learnt in the first, and used in the last.                           *)
PortsInv == PortsTypes /\ P!Open /\ Placed

(* Where nothing fails and every chip is known: between two commands, and  *)
(* in a handler, the current port is the one announced and read from.      *)
Settled ==
  /\ stage = "reconnect" => port[CurrentPort].character = Chip[CurrentPort] /\ Chip[CurrentPort] \in Nat
  /\ stage \in {"idle", "failed", "handler"} /\ CurrentPort # P!None =>
       /\ owner = CurrentPort /\ chosen = CurrentPort
       /\ port[CurrentPort].character = Chip[CurrentPort]
-----------------------------------------------------------------------------
(* A port that is opened at its chip's rate is a port, with the character  *)
(* it had.                                                                 *)
LEMMA Opened ==
  ASSUME NEW sp \in PortStates
  PROVE  /\ [sp EXCEPT !.baud = P!Right, !.open = TRUE] \in PortStates
         /\ [sp EXCEPT !.baud = P!Right, !.open = TRUE].baud = P!Right
         /\ [sp EXCEPT !.baud = P!Right, !.open = TRUE].open
         /\ [sp EXCEPT !.baud = P!Right, !.open = TRUE].character = sp.character
BY DEF PortStates, P!Bauds

(* A port that is closed does not count as connected. *)
LEMMA Closed ==
  ASSUME NEW sp \in PortStates, NEW s, NEW b \in {-1, 0}, s = [sp EXCEPT !.baud = b, !.open = FALSE]
  PROVE  s \in PortStates /\ ~(s.baud > 0) /\ s.character = sp.character
<1>1. s \in PortStates /\ s.baud = b /\ s.character = sp.character
  BY DEF PortStates
<1>2. ~(b > 0)
  OBVIOUS
<1>3. QED BY <1>1, <1>2

(* What is left of an attempt to connect. *)
LEMMA ConnectedPort ==
  ASSUME P!PortsAssumption, PortsTypes, P!Open, NEW p \in P!Port, NEW baud \in {0} \cup P!Bauds, NEW ok \in BOOLEAN
  PROVE  /\ P!Connected(p, baud, ok) \in PortStates
         /\ P!Connected(p, baud, ok).character = port[p].character
         /\ P!Connected(p, baud, ok).baud > 0 =>
              /\ P!Connected(p, baud, ok).open /\ Chip[p] # NoChip
              /\ P!Connected(p, baud, ok).baud = P!Right
<1>1. port[p] \in PortStates
  BY DEF PortsTypes
<1> DEFINE sp == P!ChangedBaud(p, baud)
<1>2. sp \in PortStates /\ sp.character = port[p].character /\ (sp.open => sp = port[p])
  BY <1>1 DEF P!ChangedBaud, PortStates, P!Bauds, P!Right, P!Wrong
<1>3. port[p].baud > 0 => port[p].open /\ Chip[p] # NoChip /\ port[p].baud = P!Right
  BY DEF P!Open
<1>4. CASE Kind[p] = "u"
  <2>1. P!Connected(p, baud, ok) = P!ConnectUsbtinyPort(p, ok)
    BY <1>4 DEF P!Connected
  <2>2. CASE Chip[p] # NoChip /\ ok
    BY <1>1, <2>1, <2>2, Opened DEF P!ConnectUsbtinyPort
  <2>3. CASE ~(Chip[p] # NoChip /\ ok)
    <3>1. P!Connected(p, baud, ok) = [port[p] EXCEPT !.baud = -1, !.open = FALSE]
      BY <2>1, <2>3 DEF P!ConnectUsbtinyPort
    <3>2. -1 \in {-1, 0}
      OBVIOUS
    <3>3. QED BY <1>1, <3>1, <3>2, Closed
  <2>4. QED BY <2>2, <2>3
<1> HIDE DEF sp
<1>5. CASE Kind[p] # "u" /\ sp.open
  <2>1. P!Connected(p, baud, ok) = IF ok THEN sp ELSE [sp EXCEPT !.baud = -1, !.open = FALSE]
    BY <1>5 DEF P!Connected, sp
  <2>2. CASE ok
    BY <1>2, <1>3, <1>5, <2>1, <2>2
  <2>3. CASE ~ok
    <3>1. -1 \in {-1, 0} /\ P!Connected(p, baud, ok) = [sp EXCEPT !.baud = -1, !.open = FALSE]
      BY <2>1, <2>3
    <3>2. QED BY <1>2, <3>1, Closed
  <2>4. QED BY <2>2, <2>3
<1>6. CASE Kind[p] # "u" /\ ~sp.open
  <2>1. P!Connected(p, baud, ok) = P!TryConnect(p, sp, ok)
    BY <1>6 DEF P!Connected, sp
  <2>2. CASE Chip[p] # NoChip /\ ok /\ sp.baud # P!Wrong
    BY <1>2, <2>1, <2>2, Opened DEF P!TryConnect
  <2>3. CASE ~(Chip[p] # NoChip /\ ok /\ sp.baud # P!Wrong)
    <3>1. PICK b \in {-1, 0} : b = IF sp.baud > 0 THEN 0 ELSE -1
      OBVIOUS
    <3>2. P!Connected(p, baud, ok) = [sp EXCEPT !.baud = b, !.open = FALSE]
      BY <2>1, <2>3, <3>1 DEF P!TryConnect
    <3>3. QED BY <1>2, <3>2, Closed
  <2>4. QED BY <2>2, <2>3
<1>7. QED BY <1>4, <1>5, <1>6

(* What is left when an exchange with the current port fails. *)
LEMMA BrokenPort ==
  ASSUME P!PortsAssumption, PortsTypes, P!Open, NEW p \in P!Port
  PROVE  /\ P!Broken(p) \in PortStates
         /\ P!Broken(p).baud > 0 => P!Broken(p).open /\ Chip[p] # NoChip /\ P!Broken(p).baud = P!Right
<1>1. port[p] \in PortStates
  BY DEF PortsTypes
<1>2. port[p].baud > 0 => port[p].open /\ Chip[p] # NoChip /\ port[p].baud = P!Right
  BY DEF P!Open
<1>3. CASE Kind[p] = "u"
  <2>1. -1 \in {-1, 0} /\ P!Broken(p) = [port[p] EXCEPT !.baud = -1, !.open = FALSE]
    BY <1>3 DEF P!Broken
  <2>2. QED BY <1>1, <2>1, Closed
<1>4. CASE Kind[p] # "u"
  BY <1>1, <1>2, <1>4 DEF P!Broken
<1>5. QED BY <1>3, <1>4

(* An exchange that works or fails is counted within the bound; without    *)
(* faults every exchange works.                                            *)
LEMMA Counted ==
  ASSUME P!PortsAssumption, PortsTypes, NEW ok \in BOOLEAN, P!Fault(ok)
  PROVE  faults' \in 0..MaxFaults /\ (MaxFaults = 0 => ok)
BY DEF P!PortsAssumption, PortsTypes, P!Fault

(* FindUsbtinys, FindSerials: the table that they fill has the invariant. *)
LEMMA PortsStart == ASSUME P!PortsAssumption PROVE P!Init => PortsInv
<1> SUFFICES ASSUME P!Init PROVE PortsInv
  OBVIOUS
<1>1. /\ \A p \in P!Port : port[p] = P!FreshPort
      /\ port \in [P!Port -> PortStates]
  BY DEF P!Init, P!FreshPort, PortStates
<1>2. PortsTypes
  <2>1. faults \in 0..MaxFaults /\ try \in 1..(PortCount + 1)
    BY DEF P!Init, P!PortsAssumption
  <2>2. request \in Requests
    BY DEF P!Init, P!Nothing, P!Ask, Requests, P!AnyKind, P!AnyIndex
  <2>3. QED BY <1>1, <2>1, <2>2 DEF P!Init, PortsTypes
<1>3. P!Open
  BY <1>1 DEF P!Open, P!FreshPort
<1>4. Placed
  BY DEF P!Init, Placed
<1>5. QED BY <1>2, <1>3, <1>4 DEF PortsInv

(* A request of the user begins a procedure at the first port. *)
LEMMA BeginKept ==
  ASSUME P!PortsAssumption, PortsInv, stage \in {"idle", "find"},
         NEW r \in Requests, NEW place \in {"find", "list", "handler", "failed"}, P!Begin(r, place),
         place = "list" => r.cmd = "ls",
         place = "find" /\ r.cmd = "device" => r.kind \in {"u", "s"} /\ r.index \in Nat
  PROVE  PortsInv'
<1>1. try' \in 1..(PortCount + 1)
  BY DEF P!Begin, P!PortsAssumption
<1>2. PortsTypes'
  BY <1>1 DEF PortsInv, PortsTypes, P!Begin
<1>3. P!Open'
  BY DEF PortsInv, P!Open, P!Begin
<1>4. Placed'
  BY DEF PortsInv, Placed, P!Begin
<1>5. QED BY <1>2, <1>3, <1>4 DEF PortsInv

(* DeviceCommand, DwListDevices, HandleCommand and a command refused keep  *)
(* the invariant.                                                          *)
LEMMA CommandsKept ==
  ASSUME P!PortsAssumption, PortsInv, P!DeviceCommand \/ P!DwListDevices \/ P!HandleCommand PROVE PortsInv'
<1>1. CASE P!DeviceCommand
  <2>1. PICK name \in {"", "u", "s"}, n \in {Index[p] : p \in P!Port} \cup {1}, b \in {0} \cup P!Bauds :
          P!Begin(P!Ask("device", name, n, IF name = "s" THEN b ELSE 0), IF name = "" THEN "failed" ELSE "find")
    BY <1>1 DEF P!DeviceCommand
  <2>2. n \in Nat
    <3>1. \A p \in P!Port : Index[p] \in Nat
      BY DEF P!PortsAssumption
    <3>2. \A m \in {Index[p] : p \in P!Port} \cup {1} : m \in Nat
      <4>1. \A m \in {Index[p] : p \in P!Port} : \E p \in P!Port : m = Index[p]
        BY Zenon
      <4>2. \A m \in {Index[p] : p \in P!Port} : m \in Nat
        BY <3>1, <4>1, Zenon
      <4>3. 1 \in Nat
        OBVIOUS
      <4>4. QED BY <4>2, <4>3, Zenon
    <3>3. QED BY <2>1, <3>2, Zenon
  <2> DEFINE r == P!Ask("device", name, n, IF name = "s" THEN b ELSE 0)
  <2>3. r \in Requests /\ r.cmd = "device" /\ r.kind = name /\ r.index \in Nat
    BY <2>2 DEF P!Ask, Requests
  <2> HIDE DEF r
  <2>4. P!Begin(r, IF name = "" THEN "failed" ELSE "find") /\ stage = "idle"
    BY <1>1, <2>1 DEF r, P!DeviceCommand
  <2>5. CASE name = ""
    BY <2>3, <2>4, <2>5, BeginKept
  <2>6. CASE name # ""
    BY <2>3, <2>4, <2>6, BeginKept
  <2>7. QED BY <2>5, <2>6
<1>2. CASE P!DwListDevices \/ P!HandleCommand
  <2>1. /\ P!Ask("ls", P!AnyKind, P!AnyIndex, 0) \in Requests /\ P!Ask("ls", P!AnyKind, P!AnyIndex, 0).cmd = "ls"
        /\ P!Ask("use", P!AnyKind, P!AnyIndex, 0) \in Requests /\ P!Ask("use", P!AnyKind, P!AnyIndex, 0).cmd = "use"
    BY DEF P!Ask, Requests
  <2>2. CASE P!DwListDevices /\ PortCount = 0
    BY <2>1, <2>2, BeginKept DEF P!DwListDevices
  <2>3. CASE P!DwListDevices /\ PortCount # 0
    BY <2>1, <2>3, BeginKept DEF P!DwListDevices
  <2>4. CASE P!HandleCommand /\ CurrentPort = P!None
    BY <2>1, <2>4, BeginKept DEF P!HandleCommand
  <2>5. CASE P!HandleCommand /\ CurrentPort # P!None
    BY <2>1, <2>5, BeginKept DEF P!HandleCommand
  <2>6. QED BY <1>2, <2>2, <2>3, <2>4, <2>5
<1>3. QED BY <1>1, <1>2

(* Steps that leave the ports as they are. *)
LEMMA QuietKept ==
  ASSUME P!PortsAssumption, PortsInv, P!Refused \/ P!NextPort \/ P!NotFound \/ P!ListDone PROVE PortsInv'
<1>1. PortsTypes'
  <2>1. try' \in 1..(PortCount + 1)
    BY DEF PortsInv, PortsTypes, P!PortsAssumption, P!Port, P!Refused, P!NextPort, P!NotFound, P!ListDone
  <2>2. QED BY <2>1 DEF PortsInv, PortsTypes, P!Refused, P!NextPort, P!NotFound, P!ListDone
<1>2. P!Open'
  BY DEF PortsInv, P!Open, P!Refused, P!NextPort, P!NotFound, P!ListDone
<1>3. Placed'
  BY DEF PortsInv, Placed, P!Refused, P!NextPort, P!NotFound, P!ListDone
<1>4. QED BY <1>1, <1>2, <1>3 DEF PortsInv

(* ConnectPort's attempt at one port. *)
LEMMA AttemptKept ==
  ASSUME P!PortsAssumption, PortsInv, P!FindPort \/ P!ListPort PROVE PortsInv'
<1>1. PICK baud \in {0} \cup P!Bauds : P!ConnectPort(try, baud) /\ try \in P!Port /\ stage \in {"find", "list"}
  BY DEF P!FindPort, P!ListPort, PortsInv, PortsTypes, Requests
<1>2. PICK ok \in BOOLEAN :
        /\ P!Fault(ok) /\ port' = [port EXCEPT ![try] = P!Connected(try, baud, ok)]
        /\ IF P!ConnectFails(try, baud, ok) THEN stage' = "failed" /\ UNCHANGED <<try, CurrentPort>>
           ELSE IF port'[try].baud > 0 THEN stage' = "type" /\ CurrentPort' = try /\ UNCHANGED try
           ELSE try' = try + 1 /\ UNCHANGED <<stage, CurrentPort>>
        /\ UNCHANGED <<owner, request, did, chosen>>
  BY <1>1 DEF P!ConnectPort
<1> DEFINE new == P!Connected(try, baud, ok)
<1>3. /\ new \in PortStates
      /\ new.baud > 0 => new.open /\ Chip[try] # NoChip /\ new.baud = P!Right
  BY <1>1, ConnectedPort DEF PortsInv
<1> HIDE DEF new
<1>4. /\ port' \in [P!Port -> PortStates] /\ port'[try] = new
      /\ \A p \in P!Port : p # try => port'[p] = port[p]
  BY <1>1, <1>2, <1>3 DEF new, PortsInv, PortsTypes
<1>5. faults' \in 0..MaxFaults
  BY <1>2, Counted DEF PortsInv
<1>6. try' \in 1..(PortCount + 1)
  BY <1>1, <1>2 DEF PortsInv, PortsTypes, P!PortsAssumption, P!Port
<1>7. PortsTypes'
  <2>1. stage' \in {"find", "list", "type", "failed"} /\ CurrentPort' \in P!Port \cup {P!None}
    BY <1>1, <1>2 DEF PortsInv, PortsTypes
  <2>2. QED BY <1>2, <1>4, <1>5, <1>6, <2>1 DEF PortsInv, PortsTypes
<1>8. P!Open'
  BY <1>3, <1>4 DEF PortsInv, P!Open
<1>9. Placed'
  <2>1. CASE stage' = "type"
    <3>1. try' = try /\ CurrentPort' = try /\ request' = request
      BY <1>1, <1>2, <2>1
    <3>2. request.cmd = "device" => P!Asked(try) /\ request.kind \in {"u", "s"} /\ request.index \in Nat
      BY DEF PortsInv, Placed, P!FindPort, P!ListPort
    <3>3. port'[try].baud > 0
      BY <1>2, <2>1, <1>1
    <3>4. QED BY <1>1, <2>1, <3>1, <3>2, <3>3 DEF Placed, P!Asked
  <2>2. CASE stage' # "type"
    <3>1. stage' = "failed" \/ (stage' = stage /\ request' = request)
      BY <1>2, <2>2
    <3>2. QED BY <1>1, <2>2, <3>1 DEF PortsInv, Placed
  <2>3. QED BY <2>1, <2>2
<1>10. QED BY <1>7, <1>8, <1>9 DEF PortsInv

(* An exchange that fails. *)
LEMMA FailureKept ==
  ASSUME P!PortsAssumption, PortsInv, CurrentPort \in P!Port, P!Exchange(FALSE) PROVE PortsInv'
<1>1. /\ P!Fault(FALSE) /\ port' = [port EXCEPT ![CurrentPort] = P!Broken(CurrentPort)]
      /\ stage' = "failed" /\ UNCHANGED <<CurrentPort, owner, try, request, did, chosen>>
  BY DEF P!Exchange
<1> DEFINE new == P!Broken(CurrentPort)
<1>2. new \in PortStates /\ (new.baud > 0 => new.open /\ Chip[CurrentPort] # NoChip /\ new.baud = P!Right)
  BY BrokenPort DEF PortsInv
<1> HIDE DEF new
<1>3. /\ port' \in [P!Port -> PortStates] /\ port'[CurrentPort] = new
      /\ \A p \in P!Port : p # CurrentPort => port'[p] = port[p]
  BY <1>1, <1>2 DEF new, PortsInv, PortsTypes
<1>4. faults' \in 0..MaxFaults
  BY <1>1, Counted DEF PortsInv
<1>5. PortsTypes'
  BY <1>1, <1>3, <1>4 DEF PortsInv, PortsTypes
<1>6. P!Open'
  BY <1>2, <1>3 DEF PortsInv, P!Open
<1>7. Placed'
  BY <1>1 DEF Placed
<1>8. QED BY <1>5, <1>6, <1>7 DEF PortsInv

(* What GetDeviceType makes of an answer. *)
LEMMA Characterised ==
  ASSUME P!PortsAssumption, PortsTypes, NEW p \in P!Port, NEW c \in {P!None} \cup Nat,
         port' = [port EXCEPT ![p].character = c]
  PROVE  /\ port' \in [P!Port -> PortStates] /\ port'[p].character = c
         /\ port'[p].baud = port[p].baud /\ port'[p].open = port[p].open
         /\ \A q \in P!Port : q # p => port'[q] = port[q]
<1>1. port[p] \in PortStates
  BY DEF PortsTypes
<1>2. /\ [port[p] EXCEPT !.character = c] \in PortStates
      /\ [port[p] EXCEPT !.character = c].character = c
      /\ [port[p] EXCEPT !.character = c].baud = port[p].baud
      /\ [port[p] EXCEPT !.character = c].open = port[p].open
  BY <1>1 DEF PortStates
<1>3. QED BY <1>2 DEF PortsTypes

(* GetDeviceType keeps the invariant, whether the signature is read        *)
(* whole, comes short or cannot be read.                                   *)
LEMMA TypeKept ==
  ASSUME P!PortsAssumption, PortsInv, P!GetDeviceType PROVE PortsInv'
<1>1. try \in P!Port /\ CurrentPort = try /\ stage = "type"
  BY DEF PortsInv, Placed, P!GetDeviceType
<1>2. CASE P!Exchange(FALSE)
  BY <1>1, <1>2, FailureKept
<1>3. ASSUME NEW full \in BOOLEAN, P!Fault(full),
             port' = [port EXCEPT ![try].character =
                        IF Chip[try] \in {Unsupported, NoChip} \/ ~full THEN P!None ELSE Chip[try]],
             IF request.cmd = "ls" THEN stage' = "list" /\ try' = try + 1 ELSE stage' = "reconnect" /\ UNCHANGED try,
             UNCHANGED <<CurrentPort, owner, request, did, chosen>>
      PROVE  PortsInv'
  <2> DEFINE c == IF Chip[try] \in {Unsupported, NoChip} \/ ~full THEN P!None ELSE Chip[try]
  <2>1. c \in {P!None} \cup Nat
    <3>1. Chip[try] \in Nat \cup {NoChip, Unsupported}
      BY <1>1 DEF P!PortsAssumption
    <3>2. QED BY <3>1
  <2> HIDE DEF c
  <2>2. /\ port' \in [P!Port -> PortStates]
        /\ port'[try].baud = port[try].baud /\ port'[try].open = port[try].open
        /\ \A q \in P!Port : q # try => port'[q] = port[q]
    BY <1>1, <1>3, <2>1, Characterised DEF PortsInv, c
  <2>3. faults' \in 0..MaxFaults
    BY <1>3, Counted DEF PortsInv
  <2>4. try' \in 1..(PortCount + 1)
    BY <1>1, <1>3 DEF PortsInv, PortsTypes, P!PortsAssumption, P!Port
  <2>5. PortsTypes'
    BY <1>3, <2>2, <2>3, <2>4 DEF PortsInv, PortsTypes
  <2>6. P!Open'
    BY <1>1, <2>2 DEF PortsInv, P!Open
  <2>7. Placed'
    BY <1>1, <1>3 DEF PortsInv, Placed, P!Asked
  <2>8. QED BY <2>5, <2>6, <2>7 DEF PortsInv
<1>4. QED BY <1>2, <1>3 DEF P!GetDeviceType

(* DwReconnect keeps the invariant, and so does its failure. *)
LEMMA ReconnectKept ==
  ASSUME P!PortsAssumption, PortsInv, P!DwReconnect PROVE PortsInv'
<1>1. CurrentPort \in P!Port
  BY DEF PortsInv, Placed, P!DwReconnect
<1>2. CASE P!Exchange(FALSE)
  BY <1>1, <1>2, FailureKept
<1>3. CASE ~P!Exchange(FALSE)
  <2>1. /\ P!Fault(TRUE) /\ owner' = CurrentPort
        /\ chosen' \in {chosen, CurrentPort} /\ stage' \in {"idle", "handler", "failed"}
        /\ UNCHANGED <<port, CurrentPort, try, request, did>>
    BY <1>3 DEF P!DwReconnect, P!Exchange
  <2>2. faults' \in 0..MaxFaults
    BY <2>1, Counted DEF PortsInv
  <2>3. PortsTypes'
    BY <1>1, <2>1, <2>2 DEF PortsInv, PortsTypes
  <2>4. P!Open' /\ Placed'
    BY <2>1 DEF PortsInv, P!Open, Placed
  <2>5. QED BY <2>3, <2>4 DEF PortsInv
<1>4. QED BY <1>2, <1>3

(* The handler of a command keeps the invariant, with a connection or      *)
(* without.                                                                *)
LEMMA HandlerKept ==
  ASSUME P!PortsAssumption, PortsInv, P!Handler PROVE PortsInv'
<1>1. CASE CurrentPort \in P!Port /\ P!Exchange(FALSE)
  BY <1>1, FailureKept
<1>2. CASE stage' = "failed" /\ UNCHANGED <<port, CurrentPort, owner, try, request, did, chosen, faults>>
  <2>1. PortsTypes'
    BY <1>2 DEF PortsInv, PortsTypes
  <2>2. P!Open' /\ Placed'
    BY <1>2 DEF PortsInv, P!Open, Placed
  <2>3. QED BY <2>1, <2>2 DEF PortsInv
<1>3. CASE /\ P!Fault(TRUE) /\ did' = CurrentPort /\ stage' = "idle"
           /\ UNCHANGED <<port, CurrentPort, owner, try, request, chosen>>
  <2>1. faults' \in 0..MaxFaults
    BY <1>3, Counted DEF PortsInv
  <2>2. PortsTypes'
    BY <1>3, <2>1 DEF PortsInv, PortsTypes
  <2>3. P!Open' /\ Placed'
    BY <1>3 DEF PortsInv, P!Open, Placed
  <2>4. QED BY <2>2, <2>3 DEF PortsInv
<1>4. QED BY <1>1, <1>2, <1>3 DEF P!Handler, P!Exchange, PortsInv, PortsTypes

(* Every step keeps the invariant. *)
LEMMA PortsKept == ASSUME P!PortsAssumption, PortsInv, [P!Next]_(P!vars) PROVE PortsInv'
<1>1. CASE UNCHANGED P!vars
  <2>1. PortsTypes'
    BY <1>1 DEF PortsInv, PortsTypes, P!vars
  <2>2. P!Open' /\ Placed'
    BY <1>1 DEF PortsInv, P!Open, Placed, P!Asked, P!vars
  <2>3. QED BY <2>1, <2>2 DEF PortsInv
<1>2. CASE P!Next
  BY <1>2, CommandsKept, QuietKept, AttemptKept, TypeKept, ReconnectKept, HandlerKept DEF P!Next
<1>3. QED BY <1>1, <1>2

(* The invariant's types are the ones that the runs check. *)
LEMMA PortsTyped == ASSUME PortsTypes PROVE P!TypeOK
<1>1. request.cmd \in {"none", "device", "ls", "use"}
  BY DEF PortsTypes, Requests
<1>2. QED BY <1>1 DEF PortsTypes, P!TypeOK, PortStates

(* The invariant holds in every state, for any ports, chips and number of  *)
(* failures.                                                               *)
THEOREM PortsInvariant == ASSUME P!PortsAssumption PROVE P!Spec => []PortsInv
<1>1. P!Init => PortsInv
  BY PortsStart
<1>2. PortsInv /\ [P!Next]_(P!vars) => PortsInv'
  BY PortsKept
<1>3. QED BY <1>1, <1>2, PTL DEF P!Spec

(* ConnectPort, PortFail: whatever exchanges fail, a port that counts as   *)
(* connected is open and at the rate of the chip that is there.            *)
THEOREM AlwaysOpen == ASSUME P!PortsAssumption PROVE P!Spec => [](P!TypeOK /\ P!Open)
<1>1. PortsInv => P!TypeOK /\ P!Open
  BY PortsTyped DEF PortsInv
<1>2. QED BY <1>1, PortsInvariant, PTL

(* The only step that ends `device' with a connection is DwReconnect, and  *)
(* CurrentPort is then one that was asked for.                             *)
LEMMA StepAsRequested == ASSUME PortsInv, [P!Next]_(P!vars) PROVE P!AsRequested
<1>1. SUFFICES ASSUME stage = "reconnect", stage' = "idle"
               PROVE  Kind[CurrentPort] = request.kind /\ Index[CurrentPort] = request.index
  BY DEF P!AsRequested
<1>2. P!DwReconnect
  BY <1>1 DEF P!Next, P!vars, P!DeviceCommand, P!DwListDevices, P!HandleCommand, P!Begin, P!Refused, P!FindPort, P!ListPort,
     P!ConnectPort, P!NextPort, P!NotFound, P!ListDone, P!GetDeviceType, P!Handler
<1>3. request.cmd = "device"
  BY <1>1, <1>2 DEF P!DwReconnect, P!Exchange
<1>4. QED BY <1>1, <1>3 DEF PortsInv, Placed, P!Asked, P!AnyKind, P!AnyIndex

(* DwFindPort: `device' never ends with a port of another kind or number   *)
(* than the ones asked for, whatever exchanges fail.                       *)
THEOREM ConnectsAsRequested == ASSUME P!PortsAssumption PROVE P!Spec => [][P!AsRequested]_(P!vars)
<1>1. PortsInv /\ [P!Next]_(P!vars) => P!AsRequested
  BY StepAsRequested
<1>2. QED BY <1>1, PortsInvariant, PTL DEF P!Spec
-----------------------------------------------------------------------------
(* Nothing fails, and no chip is unknown.                                  *)
Faultless == MaxFaults = 0 /\ \A p \in P!Port : Chip[p] # Unsupported

(* Where nothing fails every step keeps the current port the announced     *)
(* one, and the one that PC and the registers were read from.              *)
LEMMA SettledKept ==
  ASSUME P!PortsAssumption, Faultless, PortsInv, Settled, [P!Next]_(P!vars)
  PROVE  Settled'
<1>1. CASE UNCHANGED P!vars
  BY <1>1 DEF Settled, P!vars
<1>2. CASE P!DeviceCommand \/ P!DwListDevices \/ P!HandleCommand \/ P!Refused
  BY <1>2 DEF Settled, P!DeviceCommand, P!DwListDevices, P!HandleCommand, P!Begin, P!Refused
<1>3. CASE P!FindPort \/ P!ListPort
  <2>1. PICK baud \in {0} \cup P!Bauds : P!ConnectPort(try, baud) /\ try \in P!Port /\ stage \in {"find", "list"}
    BY <1>3 DEF P!FindPort, P!ListPort, PortsInv, PortsTypes, Requests
  <2>2. PICK ok \in BOOLEAN :
          /\ P!Fault(ok)
          /\ IF P!ConnectFails(try, baud, ok) THEN stage' = "failed" /\ UNCHANGED <<try, CurrentPort>>
             ELSE IF port'[try].baud > 0 THEN stage' = "type" /\ CurrentPort' = try /\ UNCHANGED try
             ELSE try' = try + 1 /\ UNCHANGED <<stage, CurrentPort>>
    BY <2>1 DEF P!ConnectPort
  <2>3. ok
    BY <2>2, Counted DEF PortsInv, Faultless
  <2>4. stage' \in {"find", "list", "type"}
    BY <2>1, <2>2, <2>3 DEF P!ConnectFails
  <2>5. QED BY <2>4 DEF Settled
<1>4. CASE P!NextPort \/ P!NotFound \/ P!ListDone
  BY <1>4 DEF Settled, P!NextPort, P!NotFound, P!ListDone
<1>5. ~P!Exchange(FALSE)
  BY Counted DEF P!Exchange, PortsInv, Faultless
<1>6. CASE P!GetDeviceType
  <2>1. PICK full \in BOOLEAN :
          /\ P!Fault(full)
          /\ port' = [port EXCEPT ![try].character =
                        IF Chip[try] \in {Unsupported, NoChip} \/ ~full THEN P!None ELSE Chip[try]]
          /\ IF request.cmd = "ls" THEN stage' = "list" /\ try' = try + 1 ELSE stage' = "reconnect" /\ UNCHANGED try
          /\ UNCHANGED <<CurrentPort, owner, request, did, chosen>>
    BY <1>5, <1>6 DEF P!GetDeviceType
  <2>2. full /\ try \in P!Port /\ CurrentPort = try
    BY <1>6, <2>1, Counted DEF PortsInv, Faultless, Placed, P!GetDeviceType
  <2>3. Chip[try] \in Nat /\ Chip[try] \notin {Unsupported, NoChip}
    <3>1. Chip[try] # NoChip
      BY <1>6, <2>2 DEF PortsInv, Placed, P!Open, P!GetDeviceType
    <3>2. Chip[try] \in Nat \cup {NoChip, Unsupported}
      BY <2>2 DEF P!PortsAssumption
    <3>3. QED BY <2>2, <3>1, <3>2 DEF Faultless
  <2>4. port'[try].character = Chip[try]
    BY <2>1, <2>2, <2>3, Characterised DEF PortsInv
  <2>5. QED BY <2>1, <2>2, <2>3, <2>4 DEF Settled
<1>7. CASE P!DwReconnect
  <2>1. /\ owner' = CurrentPort
        /\ chosen' = IF request.cmd = "device" \/ port[CurrentPort].character # P!None THEN CurrentPort ELSE chosen
        /\ stage' \in {"idle", "handler", "failed"}
        /\ UNCHANGED <<port, CurrentPort>>
    BY <1>5, <1>7 DEF P!DwReconnect
  <2>2. /\ port[CurrentPort].character = Chip[CurrentPort] /\ Chip[CurrentPort] \in Nat
    BY <1>7 DEF Settled, P!DwReconnect
  <2>3. port[CurrentPort].character # P!None
    BY <2>2 DEF P!None
  <2>4. QED BY <2>1, <2>2, <2>3 DEF Settled
<1>8. CASE P!Handler
  BY <1>5, <1>8 DEF Settled, P!Handler
<1>9. QED BY <1>1, <1>2, <1>3, <1>4, <1>6, <1>7, <1>8 DEF P!Next

(* A handler that is done has worked with that port, and with its own      *)
(* chip's characteristics.                                                 *)
LEMMA ServedRight ==
  ASSUME PortsInv, Settled, [P!Next]_(P!vars) PROVE P!AsAnnounced /\ P!OwnState /\ P!OwnType
<1>1. SUFFICES ASSUME stage = "handler", stage' = "idle"
               PROVE  /\ CurrentPort = chosen /\ owner = CurrentPort
                      /\ port[CurrentPort].character = Chip[CurrentPort]
  BY DEF P!AsAnnounced, P!OwnState, P!OwnType, P!Served
<1>2. P!Handler
  BY <1>1 DEF P!Next, P!vars, P!DeviceCommand, P!DwListDevices, P!HandleCommand, P!Begin, P!Refused, P!FindPort, P!ListPort,
     P!ConnectPort, P!NextPort, P!NotFound, P!ListDone, P!GetDeviceType, P!DwReconnect
<1>3. CurrentPort # P!None
  BY <1>1, <1>2 DEF P!Handler
<1>4. QED BY <1>1, <1>3 DEF Settled

(* HandleCommand, ConnectFirstPort, DwListDevices: where no exchange       *)
(* fails and every chip is known, a handler works with the port announced  *)
(* last, with state read from it and with its own chip's characteristics.  *)
THEOREM HandlersServed ==
  ASSUME P!PortsAssumption, Faultless
  PROVE  P!Spec => [][P!AsAnnounced /\ P!OwnState /\ P!OwnType]_(P!vars)
<1>1. P!Init => Settled
  BY DEF P!Init, Settled
<1>2. PortsInv /\ Settled /\ [P!Next]_(P!vars) => Settled'
  BY SettledKept
<1>3. PortsInv /\ Settled /\ [P!Next]_(P!vars) => P!AsAnnounced /\ P!OwnState /\ P!OwnType
  BY ServedRight
<1>4. QED BY <1>1, <1>2, <1>3, PortsInvariant, PTL DEF P!Spec
==============================================================================
