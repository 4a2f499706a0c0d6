---------------------- MODULE MachineCoordinatorRefinement ----------------------
(***************************************************************************)
(* MachineCoordinator implements CellOrder: what its order does, over any  *)
(* number of restarts, is what the rest of the runtime was promised.       *)
(***************************************************************************)
EXTENDS MachineCoordinatorProofs

CellStep == [Cell!Next]_(Cell!orderVars)

(* The phase of the cell, one line for each of its values. *)
LEMMA Phases ==
    /\ order = None => CellPhase = "none"
    /\ order # None /\ step \in CycleSteps => CellPhase = "cycle"
    /\ order # None /\ step \notin CycleSteps /\ execution \in {"Stopped", "Ready"}
          => CellPhase = "rest"
    /\ order # None /\ step \notin CycleSteps /\ execution \notin {"Stopped", "Ready"}
          => CellPhase = "busy"
  BY DEF CellPhase

(* The same of the next state. *)
LEMMA PhasesNext ==
    /\ order' = None => CellPhase' = "none"
    /\ order' # None /\ step' \in CycleSteps => CellPhase' = "cycle"
    /\ order' # None /\ step' \notin CycleSteps /\ execution' \in {"Stopped", "Ready"}
          => CellPhase' = "rest"
    /\ order' # None /\ step' \notin CycleSteps /\ execution' \notin {"Stopped", "Ready"}
          => CellPhase' = "busy"
  BY DEF CellPhase

\* The order is not loaded, counted, cancelled or opened.
OrderKept ==
    /\ order' = None <=> order = None
    /\ CellTarget' = CellTarget
    /\ CellCompleted' = CellCompleted
    /\ CellOpen' = CellOpen

(* An order that is only paused, resumed or activated is kept. *)
LEMMA KeptOrders ==
    ASSUME TypeOK,
           \/ order' \in {order, OrderPaused(order), OrderResumed(order)}
           \/ CellOpen /\ order' = Activated(order)
    PROVE  OrderKept
<1>1. CASE order = None
  BY <1>1 DEF OrderKept, CellTarget, CellCompleted, CellOpen, OrderPaused, OrderResumed
<1>2. CASE order # None
  <2>1. order \in ProductionOrders
    BY <1>2 DEF TypeOK
  <2>2. CASE order' = order
    BY <2>2 DEF OrderKept, CellTarget, CellCompleted, CellOpen
  <2>3. CASE order' \in {Activated(order), OrderPaused(order), OrderResumed(order)}
    <3>1. order' # None /\ order'.target = order.target /\ order'.completed = order.completed
      BY <2>1, <2>3, StatusChanges
    <3>2. CellOpen => order.status \notin {"Completed", "Cancelled"}
      BY DEF CellOpen
    <3>3. order'.status \in {"Completed", "Cancelled"}
          <=> order.status \in {"Completed", "Cancelled"}
      <4>1. CASE order' = Activated(order) /\ CellOpen
        BY <2>1, <3>2, <4>1 DEF Activated, ProductionOrders
      <4>2. CASE order' = Paused(order)
        BY <2>1, <4>2 DEF Paused, ProductionOrders
      <4>3. CASE order' = Resumed(order)
        BY <2>1, <4>3 DEF Resumed, ProductionOrders
      <4>4. QED
        BY <1>2, <2>2, <2>3, <4>1, <4>2, <4>3 DEF OrderPaused, OrderResumed
    <3>4. QED
      BY <1>2, <3>1, <3>3 DEF OrderKept, CellTarget, CellCompleted, CellOpen
  <2>4. QED
    BY <2>2, <2>3
<1>3. QED
  BY <1>1, <1>2

(* A step that keeps the order and begins no production cycle is no step of the order, or *)
(* one that turns to something else.                                                      *)
LEMMA CalmSteps ==
    ASSUME OrderKept, step' \in CycleSteps => step \in CycleSteps
    PROVE  CellStep
<1>1. CASE order = None
  BY <1>1, Phases, PhasesNext DEF OrderKept, CellStep, Cell!orderVars
<1>2. CASE order # None /\ step' \in CycleSteps
  BY <1>2, Phases, PhasesNext DEF OrderKept, CellStep, Cell!orderVars
<1>3. CASE order # None /\ step' \notin CycleSteps
  <2>1. CellPhase # "none" /\ CellPhase' \in {"rest", "busy"}
    BY <1>3, Phases, PhasesNext DEF OrderKept
  <2>2. Cell!LeaveCycle
    BY <2>1 DEF OrderKept, Cell!LeaveCycle
  <2>3. QED
    BY <2>2 DEF CellStep, Cell!Next
<1>4. QED
  BY <1>1, <1>2, <1>3

-----------------------------------------------------------------------------
(* The steps of the coordinator, each as a step of the order. *)

(* A command loads or cancels the order, makes the machine leave its cycle, or keeps all. *)
LEMMA CommandsRefine ==
    ASSUME Inv, Command
    PROVE  CellStep
<1>1. TypeOK
  BY DEF Inv
<1>2. ASSUME NEW id \in OrderIds, NEW quantity \in 1..MaxQuantity, LoadOrder(id, quantity)
      PROVE  CellStep
  <2> DEFINE o == NewOrder(id, recipe, quantity)
  <2>1. /\ o \in ProductionOrders
        /\ o.target = quantity /\ o.completed = 0 /\ o.status = "Queued"
    BY <1>1 DEF TypeOK, NewOrder, ProductionOrders, OrderStatuses
  <2>2. order' = o /\ execution \in {"Stopped", "Ready"} /\ UNCHANGED <<execution, step>>
    BY <1>2 DEF LoadOrder
  <2>3. step \notin CycleSteps
    BY <2>2 DEF Inv, StepFitsExecution
  <2>4. o # None
    BY <2>1, NoneAssumption
  <2>5. CellPhase \in {"none", "rest"} /\ CellPhase' = "rest"
    BY <2>2, <2>3, <2>4, Phases, PhasesNext
  <2>6. CellTarget' = quantity /\ CellCompleted' = 0 /\ CellOpen' = TRUE
    BY <2>1, <2>2, <2>4 DEF CellTarget, CellCompleted, CellOpen
  <2>7. quantity \in Nat \ {0}
    BY QuantityAssumption
  <2>8. Cell!LoadOrder
    BY <2>5, <2>6, <2>7 DEF Cell!LoadOrder
  <2>9. QED
    BY <2>8 DEF CellStep, Cell!Next
<1>3. CASE CancelOrder
  <2>1. order \in ProductionOrders
    BY <1>1, <1>3 DEF CancelOrder, TypeOK
  <2>2. order' = Cancelled(order) /\ UNCHANGED <<execution, step>>
    BY <1>3 DEF CancelOrder
  <2>3. /\ order' # None /\ order # None
        /\ order'.target = order.target /\ order'.completed = order.completed
        /\ order'.status = "Cancelled"
    BY <2>1, <2>2, StatusChanges, NoneAssumption DEF Cancelled, ProductionOrders
  <2>4. CellPhase # "none" /\ CellPhase' = CellPhase
    BY <2>2, <2>3, Phases, PhasesNext
  <2>5. Cell!CancelOrder
    BY <2>3, <2>4 DEF Cell!CancelOrder, CellTarget, CellCompleted, CellOpen
  <2>6. QED
    BY <2>5 DEF CellStep, Cell!Next
<1>4. CASE Start
  <2>1. CellOpen /\ order' = Activated(order) /\ step' = "WaitForPart"
    BY <1>4 DEF Start, CellOpen, Transition
  <2>2. QED
    BY <1>1, <2>1, KeptOrders, CalmSteps DEF CycleSteps, MoveSteps, DwellSteps
<1>5. CASE Resume \/ RecoverResume
  <2>1. order' = OrderResumed(order)
    BY <1>5 DEF Resume, RecoverResume
  <2>2. step' = step
    BY <1>5 DEF Resume, RecoverResume, RecoveryPending, Transition, Inv, CheckpointOrderLoaded
  <2>3. QED
    BY <1>1, <2>1, <2>2, KeptOrders, CalmSteps
<1>6. ASSUME order' = order, step' \in {step, "None"}
      PROVE  CellStep
  <2>1. step' \in CycleSteps => step \in CycleSteps
    BY <1>6 DEF CycleSteps, MoveSteps, DwellSteps
  <2>2. QED
    BY <1>1, <1>6, <2>1, KeptOrders, CalmSteps
<1>7. QED
  BY <1>2, <1>3, <1>4, <1>5, <1>6
     DEF Command, ActivateRecipe, Initialize, SetMode, Home, Pause, Stop, Abort, Reset,
         RecoverDiscard, RecoverRehome, Jog, InjectFault, RaiseFault, ClearFault,
         ClearEveryFault, AcknowledgeAlarms, Transition

(* The cycle that ends is counted, and the next one begins at once below the target. *)
LEMMA CompletedCycles ==
    ASSUME Inv, NEW m, CompleteOrder(m) \/ BeginNextCycle(m)
    PROVE  Cell!CompleteCycle
<1>1. /\ order # None /\ order \in ProductionOrders
      /\ step \in CycleSteps
      /\ order' = PartRecorded(order)
  BY DEF CompleteOrder, BeginNextCycle, CompleteCycle, Inv, CycleOwnsItsPart, TypeOK,
         CycleSteps, MoveSteps
<1>2. /\ order' \in ProductionOrders /\ order' # None
      /\ order'.completed = order.completed + 1
      /\ order'.target = order.target
      /\ order'.status = IF order.completed + 1 < order.target
                         THEN order.status ELSE "Completed"
  BY <1>1, OrderTypes, NoneAssumption DEF PartRecorded, ProductionOrders
<1>3. order.completed \in Nat /\ order.target \in Nat
  BY <1>1 DEF ProductionOrders
<1>4. CellPhase = "cycle"
  BY <1>1, Phases
<1>5. CASE CompleteOrder(m)
  <2>1. ~(order.completed + 1 < order.target)
    BY <1>3, <1>5 DEF CompleteOrder
  <2>2. CellPhase' = "rest"
    BY <1>2, <1>5, PhasesNext DEF CompleteOrder, Transition, CycleSteps, MoveSteps, DwellSteps
  <2>3. CellOpen' = FALSE
    BY <1>2, <2>1 DEF CellOpen
  <2>4. QED
    BY <1>1, <1>2, <1>4, <2>1, <2>2, <2>3
       DEF Cell!CompleteCycle, CellTarget, CellCompleted
<1>6. CASE BeginNextCycle(m)
  <2>1. order.completed + 1 < order.target
    BY <1>6 DEF BeginNextCycle
  <2>2. CellPhase' = "cycle"
    BY <1>2, <1>6, PhasesNext DEF BeginNextCycle, Transition, CycleSteps, MoveSteps
  <2>3. CellOpen' = CellOpen
    BY <1>1, <1>2, <2>1 DEF CellOpen
  <2>4. QED
    BY <1>1, <1>2, <1>4, <2>1, <2>2, <2>3
       DEF Cell!CompleteCycle, CellTarget, CellCompleted, CellOpen
<1>7. QED
  BY <1>5, <1>6

(* A control period begins or completes a cycle, leaves it, or keeps all. *)
LEMMA PeriodsRefine ==
    ASSUME Inv, Step
    PROVE  CellStep
<1> PICK m \in {Trip(motion, tripped) : tripped \in SUBSET DriveTrips},
         arrived \in BOOLEAN, lagging \in BOOLEAN, dwelt \in BOOLEAN :
            ControlPeriod(m, arrived, lagging, dwelt)
  BY DEF Step
<1>1. TypeOK
  BY DEF Inv
<1>2. CASE FinishStarting(m)
  <2>1. execution = "Starting" /\ step' = "MoveToPick" /\ order' = order
    BY <1>2 DEF FinishStarting, Transition
  <2>2. order # None /\ order.status = "Active" /\ step \notin CycleSteps
    BY <2>1 DEF Inv, StartingHasOrder, StepFitsExecution
  <2>3. CellPhase = "busy" /\ CellPhase' = "cycle"
    BY <2>1, <2>2, Phases, PhasesNext DEF CycleSteps, MoveSteps
  <2>4. CellOpen /\ OrderKept
    BY <1>1, <2>1, <2>2, KeptOrders DEF CellOpen
  <2>5. Cell!BeginCycle
    BY <2>3, <2>4 DEF Cell!BeginCycle, OrderKept
  <2>6. QED
    BY <2>5 DEF CellStep, Cell!Next
<1>3. CASE CompleteOrder(m) \/ BeginNextCycle(m)
  BY <1>3, CompletedCycles DEF CellStep, Cell!Next
<1>4. CASE ArriveAtStation(m) \/ LeaveStation(m)
  <2>1. order' = order /\ step \in CycleSteps
    BY <1>4 DEF ArriveAtStation, LeaveStation, CycleSteps
  <2>2. QED
    BY <1>1, <2>1, KeptOrders, CalmSteps
<1>5. ASSUME order' \in {order, OrderPaused(order)}, step' \in {step, "None"}
      PROVE  CellStep
  <2>1. step' \in CycleSteps => step \in CycleSteps
    BY <1>5 DEF CycleSteps, MoveSteps, DwellSteps
  <2>2. QED
    BY <1>1, <1>5, <2>1, KeptOrders, CalmSteps
<1>6. QED
  BY <1>2, <1>3, <1>4, <1>5
     DEF ControlPeriod, Proceed, LosePermission, ExceedFollowingError, RaiseFault,
         FinishInitializing, FinishHoming, FinishPausing, FinishStopping, FinishAborting,
         FinishRecovering, Wait, Transition

(* A restart loses the order, or restores it cut to its target and open. *)
LEMMA RestartsRefine ==
    ASSUME Inv, ColdRestart \/ WarmRestart
    PROVE  CellStep
<1>1. CASE ColdRestart
  <2>1. order' = None
    BY <1>1 DEF ColdRestart
  <2>2. CellPhase' = "none" /\ CellTarget' = 0 /\ CellCompleted' = 0 /\ CellOpen' = FALSE
    BY <2>1, PhasesNext DEF CellTarget, CellCompleted, CellOpen
  <2>3. Cell!Forget
    BY <2>2 DEF Cell!Forget, Cell!NoOrder
  <2>4. QED
    BY <2>3 DEF CellStep, Cell!Next
<1>2. CASE WarmRestart /\ order = None
  <2>1. order' = None
    BY <1>2 DEF WarmRestart
  <2>2. QED
    BY <1>2, <2>1, Phases, PhasesNext
       DEF CellTarget, CellCompleted, CellOpen, CellStep, Cell!orderVars
<1>3. CASE WarmRestart /\ order # None
  <2>1. order \in ProductionOrders
    BY <1>3 DEF Inv, TypeOK
  <2>2. order' = RestartedOrder /\ step' = step /\ execution' = "RecoveryRequired"
    BY <1>3 DEF WarmRestart, Transition
  <2>3. /\ order'.target = order.target
        /\ order'.completed = Clamped(order.completed, order.target)
        /\ order'.status = "Paused"
    BY <2>2 DEF RestartedOrder
  <2>4. order' # None
    <3>1. Clamped(order.completed, order.target) \in Nat
      BY <2>1 DEF Clamped, ProductionOrders
    <3>2. recipe \in Recipes
      BY DEF Inv, TypeOK
    <3>3. RestartedOrder \in ProductionOrders
      BY <2>1, <3>1, <3>2 DEF RestartedOrder, ProductionOrders, OrderStatuses
    <3>4. QED
      BY <2>2, <3>3, NoneAssumption
  <2>5. CellPhase \in {"busy", "cycle"} /\ CellPhase' = CellPhase
    BY <1>3, <2>2, <2>4, Phases, PhasesNext DEF WarmRestart, Interrupted
  <2>6. Cell!Restore(CellPhase, CellCompleted)
    BY <1>3, <2>3, <2>4, <2>5
       DEF Cell!Restore, CellTarget, CellCompleted, CellOpen, Clamped
  <2>7. QED
    BY <2>6 DEF CellStep, Cell!Next
<1>4. QED
  BY <1>1, <1>2, <1>3

(* A cell starts without an order, or with one that a checkpoint restored. *)
LEMMA StartsRefine == Init => Cell!Init
<1>1. CASE FreshStart
  BY <1>1, Phases DEF FreshStart, Cell!Init, Cell!NoOrder, CellTarget, CellCompleted, CellOpen
<1>2. ASSUME NEW c \in StartupCheckpoints, RestoreCheckpoint(c)
      PROVE  Cell!Init
  <2>1. CASE c.order = None
    BY <1>2, <2>1, Phases
       DEF RestoreCheckpoint, Cell!Init, Cell!NoOrder, CellTarget, CellCompleted, CellOpen
  <2>2. CASE c.order # None
    <3>1. /\ order \in ProductionOrders
          /\ order.completed <= order.target
      BY <1>2, <2>2, CheckpointAssumption, RestoredOrder
    <3>2. order # None /\ order.status = "Paused" /\ execution = "RecoveryRequired"
      BY <1>2, <2>2, <3>1, NoneAssumption DEF RestoreCheckpoint
    <3>3. CellPhase \in {"busy", "cycle"}
      BY <3>2, Phases
    <3>4. CellTarget \in Nat \ {0} /\ CellCompleted \in 0..CellTarget /\ CellOpen = TRUE
      BY <3>1, <3>2, QuantityAssumption
         DEF CellTarget, CellCompleted, CellOpen, ProductionOrders
    <3>5. QED
      BY <3>3, <3>4 DEF Cell!Init
  <2>3. QED
    BY <2>1, <2>2
<1>3. QED
  BY <1>1, <1>2 DEF Init

(* The coordinator, however often its process ends and starts again, keeps the promise of *)
(* CellOrder about the order in its cell.                                                  *)
THEOREM CellTheorem == LifeSpec => CellPromise
<1>1. Init => Cell!Init
  BY StartsRefine
<1>2. ASSUME Inv, [Next \/ ColdRestart \/ WarmRestart]_vars
      PROVE  CellStep
  <2>1. CASE UNCHANGED vars
    BY <2>1 DEF vars, CellStep, Cell!orderVars, CellPhase, CellTarget, CellCompleted, CellOpen
  <2>2. QED
    BY <1>2, <2>1, CommandsRefine, PeriodsRefine, RestartsRefine DEF Next
<1>3. QED
  BY <1>1, <1>2, InvariantTheorem, PTL DEF LifeSpec, CellPromise, Cell!Spec, CellStep

CellProofs == INSTANCE CellOrderProofs WITH
    phase <- CellPhase, target <- CellTarget, completed <- CellCompleted, open <- CellOpen

(* Over any number of restarts an order makes at most one part more than it asked for: what *)
(* CellOrder promises of every cell holds of this one.                                       *)
THEOREM OverproductionTheorem == LifeSpec => []OverproductionBounded
<1>1. Cell!OneMoreAtMost => OverproductionBounded
  BY DEF Cell!OneMoreAtMost, OverproductionBounded, CellTarget, CellCompleted
<1>2. CellPromise => []Cell!OneMoreAtMost
  <2>1. Cell!Init => CellProofs!Init
    BY DEF Cell!Init, Cell!NoOrder, CellProofs!Init, CellProofs!NoOrder
  <2>2. [Cell!Next]_(Cell!orderVars) => [CellProofs!Next]_(CellProofs!orderVars)
    BY DEF Cell!Next, Cell!orderVars, Cell!LoadOrder, Cell!CancelOrder, Cell!LeaveCycle,
           Cell!BeginCycle, Cell!CompleteCycle, Cell!Restore, Cell!Forget, Cell!NoOrder,
           CellProofs!Next, CellProofs!orderVars, CellProofs!LoadOrder,
           CellProofs!CancelOrder, CellProofs!LeaveCycle, CellProofs!BeginCycle,
           CellProofs!CompleteCycle, CellProofs!Restore, CellProofs!Forget,
           CellProofs!NoOrder
  <2>3. CellProofs!OneMoreAtMost => Cell!OneMoreAtMost
    BY DEF Cell!OneMoreAtMost, CellProofs!OneMoreAtMost
  <2>4. QED
    BY <2>1, <2>2, <2>3, CellProofs!OneMoreTheorem, PTL
       DEF CellPromise, Cell!Spec, CellProofs!Spec
<1>3. QED
  BY <1>1, <1>2, CellTheorem, PTL

=============================================================================
