-------------------------------- MODULE Dump --------------------------------
(***************************************************************************)
(* The parameters of the dump commands d, dw, e, ew, f and fw: numbers as  *)
(* ReadNumber reads them, and the address each command keeps for the next  *)
(* dump without parameters.  What the bytes are is in TargetMemory.        *)
(*                                                                         *)
(* A number is a sequence of characters: the digits 0..15, and the marks   *)
(* below.  An int has Width bits; the program adds without a check and is  *)
(* taken to wrap.                                                          *)
(***************************************************************************)
EXTENDS Integers, SequencesExt

CONSTANTS
  Commands,
  Limit,     \* of each, the size of the space it dumps
  Default,   \* of each, the length when none is given
  Width,     \* of an int, 32
  Texts      \* what the user writes as a parameter

Dollar   == 16   \* $
Sharp    == 17   \* #
HexEnd   == 18   \* h, and the x of 0x
DecEnd   == 19   \* t
NoNumber == <<>>

\* What the constants are assumed to be.
IntAssumption ==
  /\ \A c \in Commands : Limit[c] \in 1..2^(Width - 2) /\ Default[c] \in 1..2^(Width - 2)
  /\ Width \in Nat /\ Width > 4

VARIABLES
  addr,      \* DBaddr, DWaddr, EBaddr, EWaddr, FBaddr and FWaddr
  did,       \* the last command: what it was given, whether it failed, what it dumped
  left,      \* history: where the last dump of each command ended
  failed     \* history: whether one has failed since

vars == <<addr, did, left, failed>>

IntMax == 2^(Width - 1) - 1

\* Two's complement.
Wrap(n) == ((n + IntMax + 1) % (2 * (IntMax + 1))) - IntMax - 1

-----------------------------------------------------------------------------
\* The value so far in both bases; -1 when it cannot be that base.
\* A mutant: the marks for decimal say nothing.
Digit_Hex(acc, ch) ==
  CASE ch \in 0..15 ->
         [decimal |-> IF ch < 10 THEN Wrap(acc.decimal * 10 + ch) ELSE -1,
          hex |-> Wrap(acc.hex * 16 + ch), digits |-> acc.digits + 1]
    [] ch \in {Dollar, HexEnd} -> [acc EXCEPT !.decimal = -1]
    [] ch \in {Sharp, DecEnd}  -> acc
Digit(acc, ch) ==
  CASE ch \in 0..15 ->
         [decimal |-> IF ch < 10 THEN Wrap(acc.decimal * 10 + ch) ELSE -1,
          hex |-> Wrap(acc.hex * 16 + ch), digits |-> acc.digits + 1]
    [] ch \in {Dollar, HexEnd} -> [acc EXCEPT !.decimal = -1]
    [] ch \in {Sharp, DecEnd}  -> [acc EXCEPT !.hex = -1]

\* ReadNumber: the number, or nothing when it fails.
ReadNumber(text, defaultHex) ==
  LET acc == FoldLeft(Digit, [decimal |-> 0, hex |-> 0, digits |-> 0], text)
      hex == acc.hex >= 0 /\ (defaultHex \/ acc.decimal < 0)
  IN IF acc.digits = 0 \/ (~hex /\ acc.decimal < 0) THEN NoNumber
     ELSE <<IF hex THEN acc.hex ELSE acc.decimal>>

\* IsDwDebugNumeric of its first character: the rest is no parameter.
IsDwDebugNumeric(text) == text[1] \in 0..9 \union {Dollar, Sharp}

-----------------------------------------------------------------------------
Dumped(c, given, ok, first, len) ==
  [command |-> c, given |-> given, ok |-> ok, first |-> first, len |-> len]

Init ==
  /\ addr = [c \in Commands |-> 0]
  /\ did = Dumped("none", <<>>, FALSE, 0, 0)
  /\ left = addr
  /\ failed = [c \in Commands |-> FALSE]

\* Connecting to a device: ResetDumpStates.
ResetDumpStates ==
  /\ addr' = [c \in Commands |-> 0]
  /\ left' = addr'
  /\ failed' = [c \in Commands |-> FALSE]
  /\ did' = Dumped("none", <<>>, FALSE, 0, 0)

\* The command fails, with this address kept.
FailsWith(c, given, a) ==
  /\ addr' = [addr EXCEPT ![c] = a]
  /\ failed' = [failed EXCEPT ![c] = TRUE]
  /\ did' = Dumped(c, given, FALSE, a, 0)
  /\ UNCHANGED left

\* *len = min(*addr + *len, limit) - *addr
\* A mutant: what is beyond the end is not cut off.
Cut_Not(a, n, limit) == IF a < limit THEN n ELSE 0
Cut(a, n, limit) ==
  Wrap((IF Wrap(a + n) < limit THEN Wrap(a + n) ELSE limit) - a)

\* The address after a dump.
\* A mutant: that of the dump itself.
After_Same(a, n) == a
After(a, n) == a + n

\* ParseDumpParameters, the read and the dump; the read may fail, and stop the command
\* before the address moves on.
DumpCommand(c, given) ==
  LET a == IF Len(given) = 0 THEN <<addr[c]>> ELSE ReadNumber(given[1], TRUE)
      n == IF Len(given) < 2 THEN <<Default[c]>> ELSE ReadNumber(given[2], TRUE)
      starts(i) == IsDwDebugNumeric(given[i])
  IN IF (Len(given) >= 1 /\ ~starts(1)) \/ a = NoNumber THEN FailsWith(c, given, addr[c])
     ELSE IF (Len(given) >= 2 /\ ~starts(2)) \/ n = NoNumber THEN FailsWith(c, given, a[1])
     ELSE LET len == Cut(a[1], n[1], Limit[c])
          IN \/ FailsWith(c, given, a[1])
             \/ /\ len > 0
                /\ addr' = [addr EXCEPT ![c] = Wrap(After(a[1], len))]
                /\ did' = Dumped(c, given, TRUE, a[1], len)
                /\ left' = [left EXCEPT ![c] = Wrap(a[1] + len)]
                /\ failed' = [failed EXCEPT ![c] = FALSE]

Givens == {<<>>} \union {<<t>> : t \in Texts} \union (Texts \X Texts)

Next ==
  \/ ResetDumpStates
  \/ \E c \in Commands, given \in Givens : DumpCommand(c, given)

Spec == Init /\ [][Next]_vars

-----------------------------------------------------------------------------
(* What a number says, by the place of its digits and the marks that       *)
(* Manual.md gives: hexadecimal, also without a mark; decimal with # in    *)
(* front or t behind, or with a d behind decimal digits.                   *)

Value(digits, base) ==
  LET upto[n \in 0..Len(digits)] == IF n = 0 THEN 0 ELSE upto[n - 1] * base + digits[n]
  IN upto[Len(digits)]

Digits(text)  == SelectSeq(text, LAMBDA ch : ch \in 0..15)
Has(text, S)  == \E i \in DOMAIN text : text[i] \in S
EndsInD(text) ==
  /\ Len(text) > 1 /\ Last(text) = 13
  /\ \A i \in 1..Len(text) - 1 : text[i] \in 0..9
Says(text) ==
  IF EndsInD(text) THEN Value(Front(text), 10)
  ELSE Value(Digits(text), IF Has(text, {Sharp, DecEnd}) THEN 10 ELSE 16)
\* One that does not overflow in either base, and one that the program takes for another.
Small(text) == 4 * Len(Digits(text)) < Width - 1
Clear(text) == Small(text) /\ ~EndsInD(text)

\* Types, and an int is one.
TypeOK ==
  /\ \A c \in Commands : addr[c] \in -IntMax - 1..IntMax
  /\ did.len \in 0..IntMax
  /\ did.ok => did.len > 0 /\ did.first = Wrap(addr[did.command] - did.len)

\* A parameter is the number it says in the base it is marked with, hexadecimal by
\* default, but for one with a d behind, which ReadNumber takes for hexadecimal.
ReadsNumbers ==
  did.ok => \A i \in DOMAIN did.given :
    LET t == did.given[i]
    IN Clear(t) => IF i = 1 THEN did.first = Says(t) ELSE did.len <= Says(t)

\* What is dumped lies in the space, as much of it as was asked for, for numbers that do
\* not overflow (ParseDumpParameters).
InSpace ==
  did.ok /\ did.first \in 0..2^(Width - 2) /\ (\A i \in DOMAIN did.given : Clear(did.given[i])) =>
    /\ did.first + did.len <= Limit[did.command]
    /\ LET n == IF Len(did.given) = 2 THEN Says(did.given[2]) ELSE Default[did.command]
       IN did.len = n \/ (did.len < n /\ did.first + did.len = Limit[did.command])

\* Without parameters a dump goes on where the one before of the same command ended, a
\* failed one between them apart, whatever other commands did.
LeftOff ==
  did'.ok /\ did'.given = <<>> /\ ~failed[did'.command] => did'.first = left[did'.command]
=============================================================================
