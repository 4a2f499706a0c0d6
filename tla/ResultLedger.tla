---------------------------- MODULE ResultLedger ----------------------------
(***************************************************************************)
(* What an outbox promises: a result is recorded by its receiver only once *)
(* the sender has made it durable, it is settled only once it is recorded, *)
(* and nothing that was made, recorded or settled is ever taken back.      *)
(***************************************************************************)
CONSTANT Results

VARIABLES made, recorded, settled

Init == made = {} /\ recorded = {} /\ settled = {}

Make(r) ==
    /\ r \notin made
    /\ made' = made \cup {r}
    /\ UNCHANGED <<recorded, settled>>

Record(r) ==
    /\ r \in made \ recorded
    /\ recorded' = recorded \cup {r}
    /\ UNCHANGED <<made, settled>>

Settle(r) ==
    /\ r \in recorded \ settled
    /\ settled' = settled \cup {r}
    /\ UNCHANGED <<made, recorded>>

Next == \E r \in Results : Make(r) \/ Record(r) \/ Settle(r)

Spec == Init /\ [][Next]_<<made, recorded, settled>>

=============================================================================
