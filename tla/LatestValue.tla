----------------------------- MODULE LatestValue -----------------------------
(***************************************************************************)
(* What a chain of drop-oldest buffers promises its last reader: every     *)
(* value it gets was produced, and it never gets an older one after a      *)
(* newer one.  It may miss any number of values in between.                *)
(***************************************************************************)
EXTENDS Naturals

VARIABLES
    produced,     \* the number of the newest value
    obtained      \* the number of the newest value the reader got

Init == produced = 0 /\ obtained = 0

Produce ==
    /\ produced' = produced + 1
    /\ UNCHANGED obtained

Obtain ==
    /\ obtained' \in (obtained + 1)..produced
    /\ UNCHANGED produced

Spec == Init /\ [][Produce \/ Obtain]_<<produced, obtained>>

=============================================================================
