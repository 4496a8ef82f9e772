------------------------------ MODULE InputRing ------------------------------
(***************************************************************************)
(* The circular input buffer of system/SimpleInput.c, and the operations   *)
(* that read from it, as functions of the buffer.  A place of the buffer   *)
(* holds a character and its position in the input; position 0 is what is  *)
(* there before anything has been read.                                    *)
(***************************************************************************)
EXTENDS Naturals, Sequences, FiniteSetsExt

CONSTANT ILimit   \* the size of the buffer, 256 in the code

\* What the constants are assumed to be.
ILimitAssumption == ILimit \in Nat /\ ILimit > 3

Eolns      == {"\n"}
Separators == {";"}
DwEolns    == Eolns \cup Separators
Blanks     == {" "}
Numeric    == {"1"}
Alpha      == {"c", "f", "g", "p", "s"}
Chars      == Eolns \cup Separators \cup Blanks \cup Numeric \cup Alpha

NoChar  == [ch |-> "", pos |-> 0]
NewRing == [buf |-> [i \in 0..(ILimit - 1) |-> NoChar],
            in |-> 0, out |-> 0, eof |-> FALSE, eoln |-> FALSE]
-----------------------------------------------------------------------------
\* A mutant: the last place is filled too, and a full buffer looks empty.
BufferContiguousFree_Full(r) ==
  IF r.in < r.out THEN r.out - r.in ELSE ILimit - r.in

(* The places that a single read can fill: up to the last but one before   *)
(* IOut, or up to the end of the array.                                    *)
BufferContiguousFree(r) ==
  IF r.in < r.out THEN r.out - r.in - 1
  ELSE ILimit - r.in - (IF r.out > 0 THEN 0 ELSE 1)

BufferTotalContent(r) == (r.in + ILimit - r.out) % ILimit

\* A mutant: more is read although a line is still in the buffer.
NeedsMore_AnyLine(r) == ~r.eof /\ BufferTotalContent(r) < ILimit \div 2

\* A mutant: more is read only when the buffer is empty.
NeedsMore_Empty(r) == ~r.eof /\ r.in = r.out

(* Does Fill read (once more)?  Not beyond a line that is still being      *)
(* used, and not when the buffer is half full.                             *)
NeedsMore(r) ==
  /\ ~r.eof
  /\ ~r.eoln \/ r.in = r.out
  /\ BufferTotalContent(r) < ILimit \div 2

\* A mutant: the end of the input is not noticed.
ContiguousFill_NoEof(r, chunk) ==
  [r EXCEPT !.buf = [i \in DOMAIN @ |-> IF i - r.in \in 0..(Len(chunk) - 1) THEN chunk[i - r.in + 1] ELSE @[i]],
            !.eoln = chunk # <<>> /\ chunk[Len(chunk)].ch \in Eolns,
            !.in = (r.in + Len(chunk)) % ILimit]

(* `chunk' is what a read has returned; nothing, at the end of the input.  *)
ContiguousFill(r, chunk) ==
  [r EXCEPT !.buf = [i \in DOMAIN @ |-> IF i - r.in \in 0..(Len(chunk) - 1) THEN chunk[i - r.in + 1] ELSE @[i]],
            !.eof = chunk = <<>>,
            !.eoln = chunk # <<>> /\ chunk[Len(chunk)].ch \in Eolns,
            !.in = (r.in + Len(chunk)) % ILimit]

(* The command line is put in to the buffer as a line that has been read.  *)
PreloadInput(r, line) ==
  IF line = <<>> THEN r
  ELSE [r EXCEPT !.buf = [i \in DOMAIN @ |-> IF i < Len(line) THEN line[i + 1] ELSE @[i]],
                 !.in = Len(line), !.out = 0, !.eof = FALSE, !.eoln = TRUE]
-----------------------------------------------------------------------------
Nth(r, k)    == r.buf[(r.out + k) % ILimit]
NextCh(r)    == Nth(r, 0).ch
Skip(r, n)   == [r EXCEPT !.out = (@ + n) % ILimit]
SkipCh(r)    == Skip(r, 1)

(* The number of characters of a class at IOut, at most n. *)
RunLength(r, class, n) ==
  Max({k \in 0..n : \A j \in 0..(k - 1) : Nth(r, j).ch \in class})

(* ReadWhile and SkipWhile stop at IIn; ReadNumber does not look there.    *)
ReadLength(r, class, n) ==
  RunLength(r, class, Min({n, BufferTotalContent(r)}))
SkipWhile(r, class) == Skip(r, ReadLength(r, class, ILimit))

(* The lines of the model end in 10 alone. *)
SkipEoln(r) == IF NextCh(r) \in Eolns THEN SkipCh(r) ELSE r
=============================================================================
