------------------------------ MODULE Bellpush ------------------------------
(***************************************************************************)
(* The doorbell example, bellpush.s: a pin change handler that measures    *)
(* how long the button is held, and a 100 Hz timer handler that drives the *)
(* hammer through an H-bridge.                                             *)
(*                                                                         *)
(* A step is a count of the timer, a change of the button, the pin change  *)
(* handler, or a part of the timer handler: what it does in registers, and *)
(* each of the two instructions that write an output, as the bridge sees   *)
(* what is between them.  The handlers run with interrupts disabled and    *)
(* are over within a count.  The program as it stands leaves the timer     *)
(* interrupt disabled and has instructions "for testing timer enable in    *)
(* the debugger": Enable is what the person with the debugger does.        *)
(***************************************************************************)
EXTENDS Integers

CONSTANTS
  CYCLETIME,  \* counts after which the timer starts again
  HAMMERS,    \* hammer reversals of a ring
  Byte        \* the registers hold numbers below it: 256

\* What the constants are assumed to be.
BellAssumption ==
  /\ CYCLETIME \in Nat /\ CYCLETIME > 1
  /\ HAMMERS \in Nat /\ 0 < HAMMERS /\ HAMMERS < Byte
  /\ Byte \in Nat /\ 2 * CYCLETIME < Byte

PUSHTIME == (CYCLETIME * 3) \div 4

VARIABLES
  pressed,    \* is the button held down?  (B0 is then low)
  TCNT0,
  pinChange,  \* the interrupt flags
  compare,
  enabled,    \* is the timer interrupt enabled in TIMSK?
  r18,        \* the time of the last change of the button
  r19,        \* the time the button was down in this cycle
  r20,        \* hammer reversals to come
  B3, B4,     \* the outputs to the H-bridge
  at,         \* "main", or the label where the timer handler writes the outputs
  wrote,      \* has it executed the first of the two instructions there?
  was         \* history: the outputs before the handler, both 0 if the ring is a new one

timer == <<TCNT0, compare, enabled>>
ports == <<B3, B4, at, wrote, was>>
vars == <<pressed, timer, pinChange, r18, r19, r20, ports>>

\* Bit 0 of PORTB, which both handlers test: not the input but its pullup.
PORTB0 == 1

Init ==
  /\ pressed \in BOOLEAN
  /\ TCNT0 = 0 /\ r18 = 0 /\ r19 = 0 /\ r20 = 0
  /\ pinChange = FALSE /\ compare = FALSE /\ enabled = FALSE
  /\ B3 = 0 /\ B4 = 0
  /\ at = "main" /\ wrote = FALSE /\ was = <<0, 0>>

Enable ==
  /\ ~enabled
  /\ enabled' = TRUE
  /\ UNCHANGED <<pressed, TCNT0, pinChange, compare, r18, r19, r20, ports>>

\* The timer counts and starts again after CYCLETIME.
Count ==
  /\ at = "main"
  /\ ~pinChange
  /\ ~(enabled /\ compare)
  /\ TCNT0' = IF TCNT0 = CYCLETIME THEN 0 ELSE TCNT0 + 1
  /\ compare' = (compare \/ TCNT0 = CYCLETIME)
  /\ UNCHANGED <<pressed, pinChange, enabled, r18, r19, r20, ports>>

\* The button is pressed or released, or bounces.
Push ==
  /\ pressed' = ~pressed
  /\ pinChange' = TRUE
  /\ UNCHANGED <<timer, r18, r19, r20, ports>>

\* The pin change handler.
bellpush ==
  /\ at = "main"
  /\ pinChange
  /\ pinChange' = FALSE
  /\ r19' = IF PORTB0 = 0 THEN (r19 + TCNT0 - r18) % Byte ELSE r19
  /\ r18' = TCNT0
  /\ UNCHANGED <<pressed, timer, r20, ports>>

\* The time the button was down, with what was not yet counted at the end of the cycle.
Down == IF PORTB0 = 1 THEN (r19 + TCNT0 - r18) % Byte ELSE r19

\* The reversals to come, with those that a push in this cycle asks for.
Dings == IF Down < PUSHTIME THEN r20 ELSE HAMMERS

\* A mutant: only a count of zero would be the last one.
Last_Zero(dings) == dings = 0
Last(dings) == dings = 1

\* A mutant: the second bit of the count instead of the first.
Even_Second(dings) == (dings \div 2) % 2 = 0
Even(dings) == dings % 2 = 0

\* A mutant: the count is not decremented.
Left_Same(dings) == dings
Left(dings) == dings - 1

\* The timer handler up to its outputs; the pin change interrupt has priority over it.
cycle ==
  /\ at = "main"
  /\ enabled /\ compare /\ ~pinChange
  /\ compare' = FALSE
  /\ r18' = TCNT0
  /\ r19' = 0
  /\ IF Dings = 0 THEN UNCHANGED <<r20, at>>
     ELSE /\ r20' = Left(Dings)
          /\ at' = IF Last(Dings) THEN "last" ELSE IF Even(Dings - 1) THEN "cyc4" ELSE "cyc6"
  /\ was' = IF Down < PUSHTIME THEN <<B3, B4>> ELSE <<0, 0>>
  /\ UNCHANGED <<pressed, TCNT0, pinChange, enabled, B3, B4, wrote>>

\* The first instruction at last, cyc4 or cyc6.
SetB3 ==
  /\ at # "main" /\ ~wrote
  /\ B3' = IF at = "cyc4" THEN 1 ELSE 0
  /\ wrote' = TRUE
  /\ UNCHANGED <<pressed, timer, pinChange, r18, r19, r20, B4, at, was>>

\* The second one; the handler returns.
SetB4 ==
  /\ at # "main" /\ wrote
  /\ B4' = IF at = "cyc6" THEN 1 ELSE 0
  /\ wrote' = FALSE
  /\ at' = "main"
  /\ UNCHANGED <<pressed, timer, pinChange, r18, r19, r20, B3, was>>

Next == Enable \/ Count \/ Push \/ bellpush \/ cycle \/ SetB3 \/ SetB4

Spec == Init /\ [][Next]_vars

\* The timer runs and the handlers are served; the button is left alone for as long as
\* anyone likes.
FairSpec ==
  /\ Spec
  /\ WF_vars(Count) /\ WF_vars(bellpush) /\ WF_vars(cycle) /\ WF_vars(SetB3) /\ WF_vars(SetB4)

-----------------------------------------------------------------------------
\* Types, the widths of the registers among them.
TypeOK ==
  /\ pressed \in BOOLEAN /\ pinChange \in BOOLEAN
  /\ compare \in BOOLEAN /\ enabled \in BOOLEAN
  /\ TCNT0 \in 0..CYCLETIME /\ r18 \in 0..CYCLETIME
  /\ r19 \in 0..Byte - 1 /\ r20 \in 0..HAMMERS - 1
  /\ B3 \in 0..1 /\ B4 \in 0..1
  /\ at \in {"main", "last", "cyc4", "cyc6"} /\ wrote \in BOOLEAN
  /\ was \in (0..1) \X (0..1)

\* Outside the handler the bridge carries current, in the direction of the parity of the
\* count, exactly while reversals are to come.  Both sides are high in one place only,
\* between `sbi PORTB,3' and `cbi PORTB,4' of cyc4: not while the current is reversed the
\* other way, in cyc6, nor while it is switched off (cycle, cyc2 to cyc6).
Bridge ==
  /\ at = "main" /\ r20 = 0 => B3 = 0 /\ B4 = 0
  /\ at = "main" /\ r20 > 0 => B3 + B4 = 1 /\ (B3 = 1 <=> r20 % 2 = 0)
  /\ B3 = 1 /\ B4 = 1 => at = "cyc4" /\ wrote

\* While a ring goes on and none begins anew each cycle reverses the current, and after
\* the ring's last cycle there is none.
Reversed ==
  SetB4 /\ was # <<0, 0>> =>
    <<B3', B4'>> = IF at = "last" THEN <<0, 0>> ELSE <<was[2], was[1]>>

\* The same, as a property of the behaviours.
Reverses == [][Reversed]_vars

\* A ring ends when the button is left alone.
Silent == <>[][~Push]_vars => <>[](enabled => r20 = 0)

=============================================================================
