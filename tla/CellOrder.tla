------------------------------ MODULE CellOrder ------------------------------
(***************************************************************************)
(* What the machine coordinator promises the rest of the runtime about the *)
(* order in its cell: when a part of it may be counted, and what a restart *)
(* makes of it.  The coordinator implements this specification, and        *)
(* ResultDelivery is built from its actions.                               *)
(***************************************************************************)
EXTENDS Integers

VARIABLES
    phase,       \* what the cell does with the order; see Phases
    target,      \* the parts the order asks for
    completed,   \* the parts it counts
    open         \* neither completed nor cancelled

orderVars == <<phase, target, completed, open>>

\* No order; an order in a machine that is Stopped or Ready, whose checkpoint a restart
\* ignores; an order in a machine that does something else, between two parts or in the
\* production cycle of one.
Phases == {"none", "rest", "busy", "cycle"}

NoOrder == phase = "none" /\ target = 0 /\ completed = 0 /\ open = FALSE

\* Nothing is loaded, or a checkpoint has been restored.
Init ==
    \/ NoOrder
    \/ /\ phase \in {"busy", "cycle"} /\ open = TRUE
       /\ target \in Nat \ {0} /\ completed \in 0..target

LoadOrder ==
    /\ phase \in {"none", "rest"}
    /\ phase' = "rest"
    /\ target' \in Nat \ {0} /\ completed' = 0 /\ open' = TRUE

CancelOrder ==
    /\ phase # "none"
    /\ open' = FALSE
    /\ target' = target /\ UNCHANGED <<phase, completed>>

\* The machine starts or stops doing something, and gives up the part it was making.
LeaveCycle ==
    /\ phase # "none"
    /\ phase' \in {"rest", "busy"}
    /\ target' = target /\ UNCHANGED <<completed, open>>

\* Mutant: an order that is completed or cancelled is started all the same.
BeginAnyCycle ==
    /\ phase = "busy"
    /\ phase' = "cycle"
    /\ target' = target /\ UNCHANGED <<completed, open>>

\* A production cycle begins for an order that may be started, reached its target or not.
BeginCycle ==
    /\ phase = "busy" /\ open
    /\ phase' = "cycle"
    /\ target' = target /\ UNCHANGED <<completed, open>>

\* The next cycle follows at once, until the target is reached.
CompleteCycle ==
    /\ phase = "cycle"
    /\ completed' = completed + 1
    /\ phase' = IF completed' < target THEN "cycle" ELSE "rest"
    /\ open' = (open /\ completed' < target)
    /\ target' = target

\* The order of a checkpoint is cut to its target, and it may be started again whether it
\* was completed or cancelled.
Restore(savedPhase, savedCompleted) ==
    /\ savedPhase \in {"busy", "cycle"}
    /\ phase' = savedPhase
    /\ completed' = IF savedCompleted > target THEN target ELSE savedCompleted
    /\ open' = TRUE
    /\ target' = target

\* A restart without a checkpoint.
Forget == NoOrder'

Next ==
    \/ LoadOrder
    \/ CancelOrder
    \/ LeaveCycle
    \/ BeginCycle
    \/ CompleteCycle
    \/ Restore(phase, completed)
    \/ Forget

Spec == Init /\ [][Next]_orderVars

-----------------------------------------------------------------------------
TypeOK == phase \in Phases /\ target \in Nat /\ completed \in Nat /\ open \in BOOLEAN

\* A restart may make one part more than the order asked for, and no series of restarts
\* makes two.
OneMoreAtMost == completed <= target + 1

\* What makes it inductive: a part is begun, or may be begun, only within the target.
OrderInv ==
    /\ TypeOK
    /\ open \/ phase = "cycle" => completed <= target
    /\ OneMoreAtMost

=============================================================================
