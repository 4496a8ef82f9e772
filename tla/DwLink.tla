------------------------------- MODULE DwLink -------------------------------
(***************************************************************************)
(* What the upper half of dwdebug assumes of a link to the target, whether *)
(* it is a USB adapter or a serial port (the APIs that the head of         *)
(* src/dwire/DwPort.c exposes): the target acts on the bytes it is sent    *)
(* once each and in order, only while it is stopped, and what DwReceive    *)
(* returns is the target's answer to everything sent before.               *)
(*                                                                         *)
(* Bytes are numbered as they are handed over.                             *)
(***************************************************************************)
EXTENDS Naturals

VARIABLES
  said,     \* the number of bytes handed to the link
  heard,    \* the number of them that the target has acted on
  reply,    \* 0, or the number of bytes that the answer just read answers
  halted    \* is the target stopped?

lvars == <<said, heard, reply, halted>>

LInit ==
  /\ said = 0
  /\ heard = 0
  /\ reply = 0
  /\ halted \in BOOLEAN

Say ==
  /\ said' \in Nat
  /\ said' > said
  /\ reply' = 0
  /\ UNCHANGED <<heard, halted>>

(* The link may deliver what it has in several portions.  The last bytes   *)
(* may be a command that makes the target run.                             *)
Hear ==
  /\ halted
  /\ heard' \in Nat
  /\ heard < heard' /\ heard' <= said
  /\ halted' = FALSE => heard' = said
  /\ halted' \in BOOLEAN
  /\ UNCHANGED <<said, reply>>

Answer ==
  /\ halted
  /\ heard = said
  /\ reply = 0
  /\ reply' = said
  /\ UNCHANGED <<said, heard, halted>>

(* A breakpoint, or a break sent by dwdebug. *)
Halt ==
  /\ ~halted
  /\ halted' = TRUE
  /\ reply' \in {0, reply}
  /\ UNCHANGED <<said, heard>>

(* Bytes that are not delivered yet may be dropped, but only the last of   *)
(* them: the target never sees a command with a hole in it.                *)
GiveUp ==
  /\ said' \in Nat
  /\ heard <= said' /\ said' <= said
  /\ reply' = 0
  /\ UNCHANGED <<heard, halted>>

LNext == Say \/ Hear \/ Answer \/ Halt \/ GiveUp

LSpec == LInit /\ [][LNext]_lvars
=============================================================================
