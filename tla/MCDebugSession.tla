--------------------------- MODULE MCDebugSession ---------------------------
(***************************************************************************)
(* DebugSession with a few registers and bytes.                            *)
(***************************************************************************)
EXTENDS DebugSession

MCValue == {0, 1}

(* A register that commands save, and one that is cached. *)
MCScratch == {0, 30}

(* A register that commands save, and one that no command uses. *)
MCLow == {0, 5}

(* A register that no command uses, and the flags. *)
MCOthers == {5, 95}
=============================================================================
