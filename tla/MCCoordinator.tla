---------------------------- MODULE MCCoordinator ----------------------------
(* MachineCoordinator on small instances: a cell that starts empty, and one  *)
(* that starts from any checkpoint of an interrupted cycle.                  *)
EXTENDS MachineCoordinator, TLC

CONSTANTS o1, o2, r1, r2

OrderSymmetry == Permutations(OrderIds)

NoCheckpoints == {}

\* The consistent checkpoints of one order for two parts: in every production step of its
\* two cycles, and outside a cycle before the order is loaded, after its first part, and
\* when it is complete, with or without a part that was left behind.
AllCheckpoints ==
    {c \in [step : Steps, part : ({o1} \X (1..2)) \cup {None},
            order : [id : {o1}, target : {2}, completed : 0..2] \cup {None},
            recipe : {r1}, gripperClosed : BOOLEAN, target : {"Elsewhere"}] :
        /\ Consistent(c)
        /\ c.step \notin CycleSteps =>
              /\ ~c.gripperClosed
              /\ c.part \in {None, <<o1, 1>>}
              /\ c.order # None => c.order.completed > 0}

=============================================================================
