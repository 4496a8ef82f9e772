---------------------------- MODULE FlashUpdate ----------------------------
(***************************************************************************)
(* What dwdebug's flash writer promises, seen from the flash array alone.  *)
(* While an update is under way every page takes at most two steps towards *)
(* the wanted content: it is blanked, but only if some bit has to go from  *)
(* 0 to 1, and filled, but only if it does not already hold the wanted     *)
(* content.  This is Manual.md's "DwDebug minimises flash wear" together   *)
(* with the obvious promise that nothing else changes.                     *)
(***************************************************************************)
CONSTANTS
  Page,     \* the flash pages
  Offset,   \* the byte positions in a page
  Bits      \* the bits of a byte: a byte is the set of its 1 bits

VARIABLES
  flash,    \* flash[p][o]: the byte at offset o of page p
  goal,     \* what the flash is to hold when the update is complete
  busy      \* is an update under way?

uvars == <<flash, goal, busy>>

Byte  == SUBSET Bits
Image == [Page -> [Offset -> Byte]]

Blank == [o \in Offset |-> Bits]

(* A page can be programmed to an image without an erase iff programming   *)
(* only has to clear bits.                                                 *)
OnlyClears(old, new) == \A o \in Offset : new[o] \subseteq old[o]

UInit ==
  /\ flash \in Image
  /\ goal = flash
  /\ busy = FALSE

(* Only pages that end up with different content may ever change, so a     *)
(* goal is any image; which one is the caller's choice.                    *)
Start ==
  /\ ~busy
  /\ goal' \in Image
  /\ busy' = TRUE
  /\ UNCHANGED flash

BlankPage(p) ==
  /\ busy
  /\ ~OnlyClears(flash[p], goal[p])
  /\ flash' = [flash EXCEPT ![p] = Blank]
  /\ UNCHANGED <<goal, busy>>

FillPage(p) ==
  /\ busy
  /\ OnlyClears(flash[p], goal[p])
  /\ flash' = [flash EXCEPT ![p] = goal[p]]
  /\ UNCHANGED <<goal, busy>>

Complete ==
  /\ busy
  /\ flash = goal
  /\ busy' = FALSE
  /\ UNCHANGED <<flash, goal>>

(* The link to the target broke: what was reached so far stays, and the    *)
(* old content of a page that was blanked but not filled is gone.          *)
Abandon ==
  /\ busy
  /\ goal' = flash
  /\ busy' = FALSE
  /\ UNCHANGED flash

UNext ==
  \/ Start \/ Complete \/ Abandon
  \/ \E p \in Page : BlankPage(p) \/ FillPage(p)

USpec == UInit /\ [][UNext]_uvars
=============================================================================
