----------------------- MODULE MachineCoordinatorProofs -----------------------
(***************************************************************************)
(* Theorems of MachineCoordinator for every value of its constants.        *)
(***************************************************************************)
EXTENDS MachineCoordinator, TLAPS

(* Every operator of the motion system yields a motion state. *)
LEMMA MotionTypes ==
    ASSUME NEW m \in MotionStates
    PROVE  /\ EnableAll(m) \in MotionStates
           /\ DisableAll(m) \in MotionStates
           /\ Hold(m) \in MotionStates
           /\ MarkHomed(m) \in MotionStates
           /\ ClearAllFaults(m) \in MotionStates
           /\ \A p \in Positions : SetTarget(m, p) \in MotionStates
           /\ \A p \in Positions : CommandPosition(m, p) \in MotionStates
           /\ \A s \in Steps : CommandTargetForCurrentStep(m, s) \in MotionStates
           /\ \A axes \in SUBSET Axes : Trip(m, axes) \in MotionStates
           /\ \A fault \in Faults : InjectMotionFault(m, fault) \in MotionStates
           /\ \A fault \in Faults : ClearMotionFault(m, fault) \in MotionStates
<1>1. \A axes \in SUBSET Axes : Trip(m, axes) \in MotionStates
  BY DEF MotionStates, Trip
<1>2. \A fault \in Faults : InjectMotionFault(m, fault) \in MotionStates
  BY <1>1 DEF InjectMotionFault, Axes
<1>3. \A fault \in Faults : ClearMotionFault(m, fault) \in MotionStates
  BY DEF MotionStates, ClearMotionFault
<1>4. /\ EnableAll(m) \in MotionStates
      /\ DisableAll(m) \in MotionStates
      /\ Hold(m) \in MotionStates
      /\ MarkHomed(m) \in MotionStates
      /\ ClearAllFaults(m) \in MotionStates
  BY DEF MotionStates, EnableAll, DisableAll, Hold, MarkHomed, ClearAllFaults, Positions
<1>5. \A p \in Positions : SetTarget(m, p) \in MotionStates
  BY DEF MotionStates, SetTarget
<1>6. \A p \in Positions : CommandPosition(m, p) \in MotionStates
  BY DEF MotionStates, EnableAll, SetTarget, CommandPosition
<1>7. \A s \in Steps : CommandTargetForCurrentStep(m, s) \in MotionStates
  BY <1>6 DEF CommandTargetForCurrentStep, StepPosition, MoveSteps, Positions, RecipePositions
<1>8. QED
  BY <1>1, <1>2, <1>3, <1>4, <1>5, <1>6, <1>7

(* Every operation of an order yields an order. *)
LEMMA OrderTypes ==
    ASSUME NEW o \in ProductionOrders
    PROVE  /\ Activated(o) \in ProductionOrders
           /\ Cancelled(o) \in ProductionOrders
           /\ PartRecorded(o) \in ProductionOrders
           /\ Paused(o) \in ProductionOrders
           /\ Resumed(o) \in ProductionOrders
           /\ OrderPaused(o) \in ProductionOrders \cup {None}
           /\ OrderResumed(o) \in ProductionOrders \cup {None}
           /\ NextPart(o) \in Parts
<1>1. /\ Activated(o) \in ProductionOrders
      /\ Cancelled(o) \in ProductionOrders
  BY DEF ProductionOrders, OrderStatuses, Activated, Cancelled
<1>2. PartRecorded(o) \in ProductionOrders
  <2> DEFINE status == IF o.completed + 1 < o.target THEN o.status ELSE "Completed"
  <2>1. o.completed + 1 \in Nat
    BY DEF ProductionOrders
  <2>2. status \in OrderStatuses
    BY DEF ProductionOrders, OrderStatuses
  <2>3. PartRecorded(o) = [o EXCEPT !.completed = o.completed + 1, !.status = status]
    BY DEF PartRecorded
  <2> HIDE DEF status
  <2>4. QED
    BY <2>1, <2>2, <2>3 DEF ProductionOrders
<1>3. Paused(o) \in ProductionOrders
  BY DEF ProductionOrders, OrderStatuses, Paused
<1>4. Resumed(o) \in ProductionOrders
  BY DEF ProductionOrders, OrderStatuses, Resumed
<1>5. NextPart(o) \in Parts
  BY DEF ProductionOrders, NextPart, Parts
<1>6. QED
  BY <1>1, <1>2, <1>3, <1>4, <1>5 DEF OrderPaused, OrderResumed

(* A discarded part is counted and leaves the gripper open. *)
LEMMA DiscardTypes ==
    ASSUME rejectCount \in Nat, DiscardInterruptedPart
    PROVE  rejectCount' \in Nat /\ activePart' = None /\ gripperClosed' = FALSE
<1>1. CASE activePart = None
  BY <1>1 DEF DiscardInterruptedPart
<1>2. CASE activePart # None
  BY <1>2 DEF DiscardInterruptedPart
<1>3. QED
  BY <1>1, <1>2

-----------------------------------------------------------------------------
(* Typing, one lemma for the commands and one for the control period. *)

(* Commands keep the types. *)
LEMMA CommandTypes == TypeOK /\ Command => TypeOK'
<1> SUFFICES ASSUME TypeOK, Command
             PROVE  TypeOK'
  OBVIOUS
<1> USE MotionTypes, OrderTypes DEF TypeOK
<1>1. ASSUME NEW r \in Recipes, ActivateRecipe(r)
      PROVE  TypeOK'
  BY <1>1 DEF ActivateRecipe
<1>2. CASE Initialize
  BY <1>2 DEF Initialize, Transition, ExecutionStates, Steps
<1>3. ASSUME NEW newMode \in SelectableModes, SetMode(newMode)
      PROVE  TypeOK'
  BY <1>3, ParameterAssumption DEF SetMode
<1>4. ASSUME NEW id \in OrderIds, NEW quantity \in 1..MaxQuantity, LoadOrder(id, quantity)
      PROVE  TypeOK'
  <2>1. NewOrder(id, recipe, quantity) \in ProductionOrders
    BY DEF NewOrder, ProductionOrders, OrderStatuses
  <2>2. QED
    BY <1>4, <2>1 DEF LoadOrder
<1>5. CASE CancelOrder
  BY <1>5 DEF CancelOrder
<1>6. CASE Home
  BY <1>6 DEF Home, Transition, ExecutionStates, Steps, Positions, RecipePositions
<1>7. CASE Start
  BY <1>7 DEF Start, Transition, ExecutionStates, Steps
<1>8. CASE Pause
  BY <1>8 DEF Pause, Transition, ExecutionStates
<1>9. CASE Resume
  BY <1>9 DEF Resume, Transition, ExecutionStates, OrderResumed
<1>10. CASE Stop
  BY <1>10 DEF Stop, Transition, ExecutionStates
<1>11. CASE Abort
  BY <1>11 DEF Abort, Transition, ExecutionStates
<1>12. CASE Reset
  BY <1>12 DEF Reset, Transition, ExecutionStates, Steps, AlarmLifecycles, Cleared
<1>13. Restore(FALSE, "Elsewhere") \in MotionStates
  BY DEF Restore, MotionStates, Positions
<1>14. CASE RecoverDiscard
  <2>1. /\ rejectCount' \in Nat
        /\ activePart' = None
        /\ gripperClosed' = FALSE
    BY <1>14, DiscardTypes DEF RecoverDiscard
  <2>2. QED
    BY <1>13, <1>14, <2>1 DEF RecoverDiscard, Transition, ExecutionStates, Steps, Modes
<1>15. CASE RecoverRehome
  <2>1. /\ rejectCount' \in Nat
        /\ activePart' = None
        /\ gripperClosed' = FALSE
    BY <1>15, DiscardTypes DEF RecoverRehome
  <2>2. CommandPosition(Restore(FALSE, "Elsewhere"), "Home") \in MotionStates
    BY <1>13 DEF Positions, RecipePositions
  <2>3. QED
    BY <1>15, <2>1, <2>2 DEF RecoverRehome, Transition, ExecutionStates, Steps, Modes
<1>16. CASE RecoverResume
  <2>1. recoveryCheckpoint \in Checkpoints
    BY <1>16 DEF RecoverResume, RecoveryPending
  <2>2. /\ recoveryCheckpoint.step \in Steps
        /\ recoveryCheckpoint.part \in Parts \cup {None}
        /\ recoveryCheckpoint.gripperClosed \in BOOLEAN
        /\ recoveryCheckpoint.target \in Positions
    BY <2>1 DEF Checkpoints
  <2>3. Restore(TRUE, recoveryCheckpoint.target) \in MotionStates
    BY <2>2 DEF Restore, MotionStates
  <2>4. motion' \in MotionStates
    BY <1>16, <2>2, <2>3 DEF RecoverResume
  <2>5. order' \in ProductionOrders \cup {None}
    BY <1>16 DEF RecoverResume, OrderResumed
  <2>6. QED
    BY <1>16, <2>2, <2>4, <2>5 DEF RecoverResume, Transition, ExecutionStates, Modes
<1>17. CASE Jog
  BY <1>17 DEF Jog, Transition, ExecutionStates, Steps, Positions
<1>18. ASSUME NEW fault \in InjectableFaults, InjectFault(fault)
       PROVE  TypeOK'
  <2>1. fault \in Faults
    BY ParameterAssumption
  <2>2. motion' \in MotionStates
    BY <1>18, <2>1 DEF InjectFault, RaiseFault
  <2>3. alarms' \in [AlarmCodes -> AlarmLifecycles]
    BY <1>18 DEF InjectFault, RaiseFault, AlarmLifecycles
  <2>4. QED
    BY <1>18, <2>2, <2>3 DEF InjectFault, RaiseFault, Transition, ExecutionStates
<1>19. ASSUME NEW fault \in InjectableFaults, ClearFault(fault)
       PROVE  TypeOK'
  BY <1>19, ParameterAssumption DEF ClearFault
<1>20. CASE ClearEveryFault
  BY <1>20 DEF ClearEveryFault
<1>21. CASE AcknowledgeAlarms
  BY <1>21 DEF AcknowledgeAlarms, Acknowledged, AlarmLifecycles
<1>22. QED
  BY <1>1, <1>2, <1>3, <1>4, <1>5, <1>6, <1>7, <1>8, <1>9, <1>10, <1>11, <1>12, <1>14, <1>15,
     <1>16, <1>17, <1>18, <1>19, <1>20, <1>21 DEF Command

(* Typing of a control period needs the order and part that CycleNeverThrows provides. *)
LEMMA PeriodTypes == TypeOK /\ CycleNeverThrows /\ Step => TypeOK'
<1> SUFFICES ASSUME TypeOK, CycleNeverThrows, Step
             PROVE  TypeOK'
  OBVIOUS
<1> PICK tripped \in SUBSET DriveTrips, arrived \in BOOLEAN, lagging \in BOOLEAN,
         dwelt \in BOOLEAN : ControlPeriod(Trip(motion, tripped), arrived, lagging, dwelt)
  BY DEF Step
<1> DEFINE m == Trip(motion, tripped)
<1>1. m \in MotionStates
  BY MotionTypes, ParameterAssumption DEF TypeOK
<1> HIDE DEF m
<1> USE MotionTypes, OrderTypes, <1>1 DEF TypeOK
<1>2. ASSUME NEW code \in AlarmCodes, RaiseFault(code, m)
      PROVE  /\ alarms' \in [AlarmCodes -> AlarmLifecycles]
             /\ motion' \in MotionStates
             /\ execution' \in ExecutionStates
             /\ step' \in Steps
  BY <1>2 DEF RaiseFault, Transition, AlarmLifecycles, ExecutionStates
<1>3. CASE LosePermission(m)
  BY <1>2, <1>3 DEF LosePermission, AlarmCodes
<1>4. CASE ExceedFollowingError(m, lagging)
  BY <1>2, <1>4 DEF ExceedFollowingError, AlarmCodes
<1>5. CASE FinishInitializing(m)
  BY <1>5 DEF FinishInitializing, Transition, ExecutionStates, Steps
<1>6. CASE FinishHoming(m)
  BY <1>6 DEF FinishHoming, Transition, ExecutionStates, Steps
<1>7. CASE FinishStarting(m)
  <2>1. order \in ProductionOrders
    BY <1>7 DEF FinishStarting, CycleNeverThrows
  <2>2. CommandPosition(m, "Pick") \in MotionStates
    BY DEF Positions, RecipePositions
  <2>3. QED
    BY <1>7, <2>1, <2>2 DEF FinishStarting, Transition, ExecutionStates, Steps, CycleSteps,
                            MoveSteps
<1>8. CASE FinishPausing(m)
  BY <1>8 DEF FinishPausing, Transition, ExecutionStates, OrderPaused
<1>10. CASE FinishStopping(m)
  BY DiscardTypes, <1>10 DEF FinishStopping, Transition, ExecutionStates, Steps, OrderPaused
<1>11. CASE FinishAborting(m)
  BY DiscardTypes, <1>11 DEF FinishAborting, Transition, ExecutionStates, Steps, OrderPaused
<1>12. CASE FinishRecovering(m)
  BY <1>12 DEF FinishRecovering, Transition, ExecutionStates, Steps, Modes
<1>13. CASE ArriveAtStation(m)
  <2>1. gripperClosed' \in BOOLEAN
    BY <1>13 DEF ArriveAtStation
  <2>2. step' \in Steps
    BY <1>13 DEF ArriveAtStation, Transition, NextStep, MoveSteps, Steps, CycleSteps, DwellSteps
  <2>3. QED
    BY <1>13, <2>1, <2>2 DEF ArriveAtStation, Transition, ExecutionStates
<1>14. CASE LeaveStation(m)
  <2>1. step' \in Steps /\ StepPosition[step'] \in Positions
    BY <1>14 DEF LeaveStation, Transition, NextStep, MoveSteps, Steps, CycleSteps, DwellSteps,
                 StepPosition, Positions, RecipePositions
  <2>2. motion' \in MotionStates
    BY <1>14, <2>1 DEF LeaveStation, Transition
  <2>3. QED
    BY <1>14, <2>1, <2>2 DEF LeaveStation, Transition, ExecutionStates
<1>15. ASSUME CompleteCycle
       PROVE  /\ order' \in ProductionOrders
              /\ PartRecorded(order) \in ProductionOrders
              /\ goodCount' \in Nat
  <2>1. order \in ProductionOrders
    BY <1>15 DEF CompleteCycle, CycleNeverThrows
  <2>2. QED
    BY <1>15, <2>1 DEF CompleteCycle
<1>16. CASE CompleteOrder(m)
  BY <1>15, <1>16 DEF CompleteOrder, CompleteCycle, Transition, ExecutionStates, Steps
<1>17. CASE BeginNextCycle(m)
  <2>1. CommandPosition(m, "Pick") \in MotionStates
    BY DEF Positions, RecipePositions
  <2>2. QED
    BY <1>15, <1>17, <2>1 DEF BeginNextCycle, CompleteCycle, Transition, ExecutionStates, Steps,
                              CycleSteps, MoveSteps
<1>18. CASE Wait(m, arrived, dwelt)
  BY <1>18 DEF Wait
<1>19. QED
  BY <1>3, <1>4, <1>5, <1>6, <1>7, <1>8, <1>10, <1>11, <1>12, <1>13, <1>14, <1>16, <1>17, <1>18
     DEF ControlPeriod, Proceed, m

-----------------------------------------------------------------------------
(* The invariants about motion. *)

MotionInv ==
    /\ TargetMatchesStep
    /\ MotionOnlyWhenPermitted
    /\ AutomaticRunsHomed
    /\ RestartWaits
    /\ RehomingIsUnhomed

(* Commands keep the invariants about motion. *)
LEMMA MotionCommands == Inv /\ Command => MotionInv'
<1> SUFFICES ASSUME Inv, Command
             PROVE  MotionInv'
  OBVIOUS
<1> USE DEF MotionInv, Inv, TypeOK, MotionStates, TargetMatchesStep,
        MotionOnlyWhenPermitted, AutomaticRunsHomed, RestartWaits, RehomingIsUnhomed,
        MotionPermitted, InterlockedStates, Transition
<1>1. ASSUME NEW r \in Recipes, ActivateRecipe(r)
      PROVE  MotionInv'
  BY <1>1 DEF ActivateRecipe
<1>2. CASE Initialize
  BY <1>2 DEF Initialize, EnableAll
<1>3. ASSUME NEW newMode \in SelectableModes, SetMode(newMode)
      PROVE  MotionInv'
  BY <1>3 DEF SetMode
<1>4. ASSUME NEW id \in OrderIds, NEW quantity \in 1..MaxQuantity, LoadOrder(id, quantity)
      PROVE  MotionInv'
  BY <1>4 DEF LoadOrder
<1>5. CASE CancelOrder
  BY <1>5 DEF CancelOrder
<1>6. CASE Home
  BY <1>6 DEF Home, CommandPosition, EnableAll, SetTarget
<1>7. CASE Start
  BY <1>7 DEF Start
<1>8. CASE Pause
  BY <1>8 DEF Pause, Hold
<1>9. CASE Resume
  BY <1>9 DEF Resume, CommandPosition, EnableAll, SetTarget, CommandTargetForCurrentStep
<1>10. CASE Stop
  BY <1>10 DEF Stop, Hold
<1>11. CASE Abort
  BY <1>11 DEF Abort
<1>12. CASE Reset
  BY <1>12 DEF Reset, EnableAll, ClearAllFaults
<1>13. CASE RecoverDiscard
  BY <1>13 DEF RecoverDiscard
<1>14. CASE RecoverRehome
  BY <1>14 DEF RecoverRehome, CommandPosition, EnableAll, SetTarget, Restore,
     RecoveryPending
<1>15. CASE RecoverResume
  BY <1>15 DEF RecoverResume, CommandPosition, EnableAll, SetTarget, Restore,
     CommandTargetForCurrentStep, RecoveryPending
<1>16. CASE Jog
  BY <1>16 DEF Jog, CommandPosition, EnableAll, SetTarget
<1>17. ASSUME NEW fault \in InjectableFaults, InjectFault(fault)
       PROVE  MotionInv'
  BY <1>17 DEF InjectFault, RaiseFault
<1>18. ASSUME NEW fault \in InjectableFaults, ClearFault(fault)
       PROVE  MotionInv'
  BY <1>18 DEF ClearFault, ClearMotionFault
<1>19. CASE ClearEveryFault
  BY <1>19 DEF ClearEveryFault, ClearAllFaults
<1>20. CASE AcknowledgeAlarms
  BY <1>20 DEF AcknowledgeAlarms
<1>21. QED
  BY <1>1, <1>2, <1>3, <1>4, <1>5, <1>6, <1>7, <1>8, <1>9, <1>10, <1>11, <1>12, <1>13,
     <1>14, <1>15, <1>16, <1>17, <1>18, <1>19, <1>20 DEF Command

(* A control period keeps the invariants about motion. *)
LEMMA MotionPeriods == Inv /\ Step => MotionInv'
<1> SUFFICES ASSUME Inv, Step
             PROVE  MotionInv'
  OBVIOUS
<1> PICK tripped \in SUBSET DriveTrips, arrived \in BOOLEAN, lagging \in BOOLEAN,
         dwelt \in BOOLEAN : ControlPeriod(Trip(motion, tripped), arrived, lagging, dwelt)
  BY DEF Step
<1> DEFINE m == Trip(motion, tripped)
<1>1. /\ motion.faulted \subseteq m.faulted
      /\ m.enabled = motion.enabled \ tripped
      /\ m.homed = motion.homed
      /\ m.target = motion.target
      /\ m.faulted = {} => tripped = {}
      /\ m \in MotionStates
  <2>1. motion \in MotionStates /\ tripped \in SUBSET Axes
    BY ParameterAssumption DEF Inv, TypeOK
  <2>2. m \in MotionStates
    BY <2>1, MotionTypes
  <2>3. QED
    BY <2>1, <2>2 DEF MotionStates, Trip
<1> HIDE DEF m
<1> USE DEF MotionInv, Inv, TypeOK, MotionStates, TargetMatchesStep,
        MotionOnlyWhenPermitted, AutomaticRunsHomed, RestartWaits, RehomingIsUnhomed,
        MotionPermitted, InterlockedStates, Transition
<1>2. CASE LosePermission(m)
  BY <1>2, <1>1 DEF LosePermission, RaiseFault
<1>3. CASE ExceedFollowingError(m, lagging)
  BY <1>3, <1>1 DEF ExceedFollowingError, RaiseFault
<1>4. CASE Healthy(m, lagging) /\ FinishInitializing(m)
  BY <1>4, <1>1 DEF FinishInitializing
<1>5. CASE Healthy(m, lagging) /\ FinishHoming(m)
  BY <1>5, <1>1 DEF FinishHoming, MarkHomed, Healthy
<1>6. CASE Healthy(m, lagging) /\ FinishStarting(m)
  BY <1>6, <1>1 DEF FinishStarting, CommandPosition, EnableAll, SetTarget, Healthy,
     StepPosition
<1>7. CASE Healthy(m, lagging) /\ FinishPausing(m)
  BY <1>7, <1>1 DEF FinishPausing, Healthy
<1>8. CASE Healthy(m, lagging) /\ FinishStopping(m)
  BY <1>8, <1>1 DEF FinishStopping
<1>9. CASE Healthy(m, lagging) /\ FinishAborting(m)
  BY <1>9, <1>1 DEF FinishAborting
<1>10. CASE Healthy(m, lagging) /\ FinishRecovering(m)
  BY <1>10, <1>1 DEF FinishRecovering, MarkHomed
<1>11. CASE Healthy(m, lagging) /\ ArriveAtStation(m)
  BY <1>11, <1>1 DEF ArriveAtStation, Healthy, NextStep, MoveSteps
<1>12. CASE Healthy(m, lagging) /\ LeaveStation(m)
  BY <1>12, <1>1 DEF LeaveStation, CommandPosition, EnableAll, SetTarget, Healthy,
     NextStep, DwellSteps, MoveSteps, StepPosition
<1>13. CASE Healthy(m, lagging) /\ CompleteOrder(m)
  BY <1>13, <1>1 DEF CompleteOrder, CompleteCycle
<1>14. CASE Healthy(m, lagging) /\ BeginNextCycle(m)
  BY <1>14, <1>1 DEF BeginNextCycle, CommandPosition, EnableAll, SetTarget, Healthy,
     StepPosition, CompleteCycle
<1>15. CASE Healthy(m, lagging) /\ Wait(m, arrived, dwelt)
  BY <1>15, <1>1 DEF Wait, Healthy, FollowedStates
<1>16. QED
  BY <1>2, <1>3, <1>4, <1>5, <1>6, <1>7, <1>8, <1>9, <1>10, <1>11, <1>12, <1>13, <1>14,
     <1>15 DEF ControlPeriod, Proceed, m

-----------------------------------------------------------------------------
(* The invariants about orders and parts. *)

(* What changes the status of an order leaves its identity and its progress alone. *)
LEMMA StatusChanges ==
    ASSUME NEW o \in ProductionOrders,
           NEW changed \in {Activated(o), Cancelled(o), OrderPaused(o), OrderResumed(o)}
    PROVE  /\ changed # None
           /\ changed.id = o.id
           /\ changed.target = o.target
           /\ changed.completed = o.completed
           /\ NextPart(changed) = NextPart(o)
           /\ changed # Activated(o) /\ changed.status \notin {"Completed", "Cancelled"}
                 => o.status \notin {"Completed", "Cancelled"}
<1>1. o # None
  BY NoneAssumption
<1>2. changed \in {Activated(o), Cancelled(o), Paused(o), Resumed(o)}
  BY <1>1 DEF OrderPaused, OrderResumed
<1>3. changed \in ProductionOrders
  BY <1>2, OrderTypes
<1>4. /\ changed.id = o.id
      /\ changed.target = o.target
      /\ changed.completed = o.completed
  BY <1>2 DEF ProductionOrders, Activated, Cancelled, Paused, Resumed
<1>5. /\ changed # Activated(o)
      /\ changed.status \notin {"Completed", "Cancelled"}
      => o.status \notin {"Completed", "Cancelled"}
  BY <1>2 DEF ProductionOrders, Activated, Cancelled, Paused, Resumed
<1>6. QED
  BY <1>3, <1>4, <1>5, NoneAssumption DEF NextPart


ProductionInv ==
    /\ CycleOwnsItsPart
    /\ StepFitsExecution
    /\ StartingHasOrder
    /\ CheckpointOrderLoaded

(* Commands keep the invariants about orders and parts. *)
LEMMA ProductionCommands == Inv /\ Command => ProductionInv'
<1> SUFFICES ASSUME Inv, Command
             PROVE  ProductionInv'
  OBVIOUS
<1> USE DEF ProductionInv, Inv, CycleOwnsItsPart, StepFitsExecution, StartingHasOrder,
        CheckpointOrderLoaded, Transition, CycleSteps, MoveSteps, DwellSteps,
        CarryingSteps
<1>1. ASSUME NEW r \in Recipes, ActivateRecipe(r)
      PROVE  ProductionInv'
  BY <1>1 DEF ActivateRecipe
<1>2. CASE Initialize
  BY <1>2 DEF Initialize
<1>3. ASSUME NEW newMode \in SelectableModes, SetMode(newMode)
      PROVE  ProductionInv'
  BY <1>3 DEF SetMode
<1>4. ASSUME NEW id \in OrderIds, NEW quantity \in 1..MaxQuantity, LoadOrder(id, quantity)
      PROVE  ProductionInv'
  BY <1>4 DEF LoadOrder
<1>5. CASE CancelOrder
  <2>1. order \in ProductionOrders
    BY <1>5 DEF CancelOrder, TypeOK
  <2>2. QED
    BY <1>5, <2>1, StatusChanges DEF CancelOrder
<1>6. CASE Home
  BY <1>6 DEF Home
<1>7. CASE Start
  <2>1. order \in ProductionOrders
    BY <1>7 DEF Start, TypeOK
  <2>2. order'.status = "Active"
    BY <1>7, <2>1 DEF Start, Activated, ProductionOrders
  <2>3. QED
    BY <1>7, <2>1, <2>2, StatusChanges DEF Start, OpenOrderWithinTarget
<1>8. CASE Pause
  BY <1>8 DEF Pause
<1>9. CASE Resume
  <2>1. CASE order = None
    BY <1>9, <2>1 DEF Resume, OrderResumed
  <2>2. CASE order # None
    <3>1. order \in ProductionOrders
      BY <2>2 DEF TypeOK
    <3>2. QED
      BY <1>9, <3>1, StatusChanges DEF Resume
  <2>3. QED
    BY <2>1, <2>2
<1>10. CASE Stop
  BY <1>10 DEF Stop
<1>11. CASE Abort
  BY <1>11 DEF Abort
<1>12. CASE Reset
  BY <1>12 DEF Reset
<1>13. CASE RecoverDiscard
  BY <1>13 DEF RecoverDiscard, DiscardInterruptedPart
<1>14. CASE RecoverRehome
  BY <1>14 DEF RecoverRehome
<1>15. CASE RecoverResume
  <2>1. /\ execution = "RecoveryRequired"
        /\ recoveryCheckpoint.order # None
        /\ step' = recoveryCheckpoint.step
        /\ activePart' = recoveryCheckpoint.part
        /\ gripperClosed' = recoveryCheckpoint.gripperClosed
        /\ order' = OrderResumed(order)
        /\ execution' = "Running"
    BY <1>15 DEF RecoverResume, RecoveryPending
  <2>2. order \in ProductionOrders
    BY <2>1 DEF TypeOK
  <2>3. /\ order' # None
        /\ order'.id = order.id
        /\ order'.target = order.target
        /\ order'.completed = order.completed
        /\ NextPart(order') = NextPart(order)
    BY <2>1, <2>2, StatusChanges
  <2>4. ASSUME step' \in CycleSteps
        PROVE  CycleOwnsItsPart'
    <3>1. /\ recoveryCheckpoint.order.completed <= recoveryCheckpoint.order.target
          /\ recoveryCheckpoint.part = NextPart(recoveryCheckpoint.order)
          /\ step' # "MoveToPick" => (gripperClosed' <=> step' \in CarryingSteps)
      BY <2>1, <2>4 DEF Consistent
    <3>2. /\ order.completed = recoveryCheckpoint.order.completed
          /\ order.id = recoveryCheckpoint.order.id
          /\ order.target = recoveryCheckpoint.order.target
      <4>1. recoveryCheckpoint \in Checkpoints
        BY <2>1 DEF RestartWaits, TypeOK
      <4>2. recoveryCheckpoint.order \in CheckpointOrders
        BY <2>1, <4>1 DEF Checkpoints
      <4>3. QED
        BY <2>1, <3>1, <4>2 DEF Clamped, CheckpointOrders
    <3>3. NextPart(order) = NextPart(recoveryCheckpoint.order)
      BY <3>2 DEF NextPart
    <3>4. QED
      BY <2>1, <2>3, <3>1, <3>2, <3>3
  <2>5. QED
    BY <2>1, <2>4
<1>16. CASE Jog
  BY <1>16 DEF Jog
<1>17. ASSUME NEW fault \in InjectableFaults, InjectFault(fault)
       PROVE  ProductionInv'
  BY <1>17 DEF InjectFault, RaiseFault
<1>18. ASSUME NEW fault \in InjectableFaults, ClearFault(fault)
       PROVE  ProductionInv'
  BY <1>18 DEF ClearFault
<1>19. CASE ClearEveryFault
  BY <1>19 DEF ClearEveryFault
<1>20. CASE AcknowledgeAlarms
  BY <1>20 DEF AcknowledgeAlarms
<1>21. QED
  BY <1>1, <1>2, <1>3, <1>4, <1>5, <1>6, <1>7, <1>8, <1>9, <1>10, <1>11, <1>12, <1>13,
     <1>14, <1>15, <1>16, <1>17, <1>18, <1>19, <1>20 DEF Command

(* A control period keeps the invariants about orders and parts. *)
LEMMA ProductionPeriods == Inv /\ Step => ProductionInv'
<1> SUFFICES ASSUME Inv, Step
             PROVE  ProductionInv'
  OBVIOUS
<1> PICK tripped \in SUBSET DriveTrips, arrived \in BOOLEAN, lagging \in BOOLEAN,
         dwelt \in BOOLEAN : ControlPeriod(Trip(motion, tripped), arrived, lagging, dwelt)
  BY DEF Step
<1> DEFINE m == Trip(motion, tripped)
<1> HIDE DEF m
<1> USE DEF ProductionInv, Inv, CycleOwnsItsPart, StepFitsExecution, StartingHasOrder,
        CheckpointOrderLoaded, Transition, CycleSteps, MoveSteps, DwellSteps,
        CarryingSteps
<1>2. CASE LosePermission(m)
  BY <1>2 DEF LosePermission, RaiseFault
<1>3. CASE ExceedFollowingError(m, lagging)
  BY <1>3 DEF ExceedFollowingError, RaiseFault
<1>4. CASE Healthy(m, lagging) /\ FinishInitializing(m)
  BY <1>4 DEF FinishInitializing
<1>5. CASE Healthy(m, lagging) /\ FinishHoming(m)
  BY <1>5 DEF FinishHoming
<1>6. CASE Healthy(m, lagging) /\ FinishStarting(m)
  BY <1>6 DEF FinishStarting
<1>7. CASE Healthy(m, lagging) /\ FinishPausing(m)
  <2>1. CASE order = None
    BY <1>7, <2>1 DEF FinishPausing, OrderPaused
  <2>2. CASE order # None
    <3>1. order \in ProductionOrders
      BY <2>2 DEF TypeOK
    <3>2. QED
      BY <1>7, <3>1, StatusChanges DEF FinishPausing
  <2>3. QED
    BY <2>1, <2>2
<1>8. CASE Healthy(m, lagging) /\ FinishStopping(m)
  BY <1>8 DEF FinishStopping, DiscardInterruptedPart
<1>9. CASE Healthy(m, lagging) /\ FinishAborting(m)
  BY <1>9 DEF FinishAborting, DiscardInterruptedPart
<1>10. CASE Healthy(m, lagging) /\ FinishRecovering(m)
  BY <1>10 DEF FinishRecovering
<1>11. CASE Healthy(m, lagging) /\ ArriveAtStation(m)
  BY <1>11 DEF ArriveAtStation, NextStep
<1>12. CASE Healthy(m, lagging) /\ LeaveStation(m)
  BY <1>12 DEF LeaveStation, NextStep
<1>13. CASE Healthy(m, lagging) /\ CompleteOrder(m)
  BY <1>13 DEF CompleteOrder, CompleteCycle
<1>14. CASE Healthy(m, lagging) /\ BeginNextCycle(m)
  <2>1. order \in ProductionOrders
    BY <1>14 DEF BeginNextCycle, CompleteCycle, TypeOK
  <2>2. /\ order' = PartRecorded(order)
        /\ PartRecorded(order) \in ProductionOrders
    BY <1>14, <2>1, OrderTypes DEF BeginNextCycle, CompleteCycle
  <2>3. order'.completed = order.completed + 1 /\ order'.target = order.target
    BY <2>1, <2>2 DEF PartRecorded, ProductionOrders
  <2>4. QED
    BY <1>14, <2>1, <2>2, <2>3, NoneAssumption DEF BeginNextCycle, CompleteCycle, ProductionOrders
<1>15. CASE Healthy(m, lagging) /\ Wait(m, arrived, dwelt)
  BY <1>15 DEF Wait
<1>16. QED
  BY <1>2, <1>3, <1>4, <1>5, <1>6, <1>7, <1>8, <1>9, <1>10, <1>11, <1>12, <1>13, <1>14,
     <1>15 DEF ControlPeriod, Proceed, m

(* Only a completed or cancelled order can have reached or passed its target. *)
LEMMA OpenOrders == Inv /\ [Next]_vars => OpenOrderWithinTarget'
<1> SUFFICES ASSUME Inv, [Next]_vars
             PROVE  OpenOrderWithinTarget'
  OBVIOUS
<1> USE DEF Inv, OpenOrderWithinTarget
<1>1. ASSUME order' = order
      PROVE  OpenOrderWithinTarget'
  BY <1>1
<1>2. ASSUME order' \in {OrderPaused(order), OrderResumed(order)}
      PROVE  OpenOrderWithinTarget'
  <2>1. CASE order = None
    BY <1>2, <2>1 DEF OrderPaused, OrderResumed
  <2>2. CASE order \in ProductionOrders
    <3>1. order # None
      BY <2>2, NoneAssumption
    <3>2. order' # Activated(order) \/ order.status \notin {"Completed", "Cancelled"}
      BY <1>2, <2>2, <3>1 DEF OrderPaused, OrderResumed, Paused, Resumed, Activated,
                              ProductionOrders
    <3>3. order'.completed = order.completed /\ order'.target = order.target
      BY <1>2, <2>2, StatusChanges
    <3>4. order'.status \notin {"Completed", "Cancelled"}
          => order.status \notin {"Completed", "Cancelled"}
      BY <1>2, <2>2, <3>2, StatusChanges
    <3>5. QED
      BY <3>1, <3>3, <3>4
  <2>3. QED
    BY <2>1, <2>2 DEF TypeOK
<1>3. ASSUME order # None, order' = Cancelled(order)
      PROVE  OpenOrderWithinTarget'
  BY <1>3 DEF Cancelled, TypeOK, ProductionOrders
<1>4. ASSUME order # None, order.status \notin {"Completed", "Cancelled"},
             order' = Activated(order)
      PROVE  OpenOrderWithinTarget'
  BY <1>4 DEF Activated, TypeOK, ProductionOrders
<1>5. ASSUME NEW id \in OrderIds, NEW quantity \in 1..MaxQuantity,
             order' = NewOrder(id, recipe, quantity)
      PROVE  OpenOrderWithinTarget'
  BY <1>5, QuantityAssumption DEF NewOrder
<1>6. ASSUME CompleteCycle
      PROVE  OpenOrderWithinTarget'
  <2>1. order \in ProductionOrders
    BY <1>6 DEF CompleteCycle, CycleOwnsItsPart, CycleSteps, MoveSteps, TypeOK
  <2>2. order' = PartRecorded(order)
    BY <1>6 DEF CompleteCycle
  <2>3. /\ order'.completed = order.completed + 1
        /\ order'.target = order.target
        /\ order'.completed < order'.target \/ order'.status = "Completed"
    BY <2>1, <2>2 DEF PartRecorded, ProductionOrders
  <2>4. order.completed \in Nat /\ order.target \in Nat
    BY <2>1 DEF ProductionOrders
  <2>5. QED
    BY <2>3, <2>4
<1>7. CASE Command
  BY <1>1, <1>2, <1>3, <1>4, <1>5, <1>7
     DEF Command, ActivateRecipe, Initialize, SetMode, LoadOrder, CancelOrder, Home, Start,
         Pause, Resume, Stop, Abort, Reset, RecoverDiscard, RecoverRehome, RecoverResume, Jog,
         InjectFault, ClearFault, ClearEveryFault, AcknowledgeAlarms
<1>8. CASE Step
  <2> PICK m \in {Trip(motion, tripped) : tripped \in SUBSET DriveTrips},
           arrived \in BOOLEAN, lagging \in BOOLEAN, dwelt \in BOOLEAN :
              ControlPeriod(m, arrived, lagging, dwelt)
    BY <1>8 DEF Step
  <2>1. QED
    BY <1>1, <1>2, <1>6
     DEF ControlPeriod, Proceed, LosePermission, ExceedFollowingError,
         FinishInitializing, FinishHoming, FinishStarting, FinishPausing, FinishStopping,
         FinishAborting, FinishRecovering, ArriveAtStation, LeaveStation, CompleteOrder,
         BeginNextCycle, Wait
<1>9. CASE UNCHANGED vars
  BY <1>1, <1>9 DEF vars
<1>10. QED
  BY <1>7, <1>8, <1>9 DEF Next

-----------------------------------------------------------------------------
(* The inductive invariant. *)

(* An empty cell satisfies the invariant. *)
LEMMA FreshInv == FreshStart => Inv
<1> SUFFICES ASSUME FreshStart
             PROVE  Inv
  OBVIOUS
<1>1. TypeOK
  BY DEF FreshStart, TypeOK, Modes, ExecutionStates, Steps, AlarmLifecycles, PoweredOff,
         MotionStates, Positions
<1>2. QED
  BY <1>1 DEF FreshStart, Inv, CycleOwnsItsPart, StepFitsExecution, OpenOrderWithinTarget,
              StartingHasOrder, TargetMatchesStep, MotionOnlyWhenPermitted, InterlockedStates,
              AutomaticRunsHomed, RestartWaits, CheckpointOrderLoaded, RehomingIsUnhomed,
              CycleSteps, MoveSteps, DwellSteps

(* The order a checkpoint restores is one, and it is clamped to its target. *)
LEMMA RestoredOrder ==
    ASSUME NEW c \in Checkpoints, RestoreCheckpoint(c), c.order # None
    PROVE  /\ order \in ProductionOrders
           /\ order.id = c.order.id
           /\ order.target = c.order.target
           /\ order.completed = Clamped(c.order.completed, c.order.target)
           /\ order.completed <= order.target
<1>1. c.order \in CheckpointOrders /\ c.recipe \in Recipes
  BY DEF Checkpoints
<1>2. Clamped(c.order.completed, c.order.target) \in Nat
  BY <1>1 DEF CheckpointOrders, Clamped
<1>3. order = [id |-> c.order.id, recipe |-> c.recipe, target |-> c.order.target,
               completed |-> Clamped(c.order.completed, c.order.target),
               status |-> "Paused"]
  BY DEF RestoreCheckpoint
<1>4. Clamped(c.order.completed, c.order.target) <= c.order.target
  BY <1>1 DEF CheckpointOrders, Clamped
<1>5. QED
  BY <1>1, <1>2, <1>3, <1>4 DEF ProductionOrders, CheckpointOrders, OrderStatuses

(* So does one that restores any consistent checkpoint. *)
LEMMA RestoredInv ==
    ASSUME NEW c \in Checkpoints, Consistent(c), RestoreCheckpoint(c)
    PROVE  Inv
<1>1. c \in Checkpoints /\ Consistent(c)
  OBVIOUS
<1>2. TypeOK
  <2>1. order \in ProductionOrders \cup {None}
    BY <1>1, RestoredOrder DEF RestoreCheckpoint
  <2>2. motion \in MotionStates
    BY <1>1 DEF RestoreCheckpoint, Restore, MotionStates, Checkpoints
  <2>3. /\ step \in Steps
        /\ activePart \in Parts \cup {None}
        /\ gripperClosed \in BOOLEAN
    BY <1>1 DEF RestoreCheckpoint, Checkpoints
  <2>4. QED
    BY <1>1, <2>1, <2>2, <2>3
       DEF RestoreCheckpoint, TypeOK, Modes, ExecutionStates, AlarmLifecycles
<1>3. RestartWaits
  BY <1>1, NoneAssumption DEF RestoreCheckpoint, RestartWaits, Restore
<1>4. CheckpointOrderLoaded
  <2>1. CASE c.order = None
    BY <1>1, <2>1 DEF RestoreCheckpoint, CheckpointOrderLoaded
  <2>2. CASE c.order # None
    <3>1. /\ order # None
          /\ order.id = c.order.id
          /\ order.target = c.order.target
          /\ order.completed = Clamped(c.order.completed, order.target)
      BY <1>1, <2>2, RestoredOrder, NoneAssumption
    <3>2. recoveryCheckpoint = c /\ activePart = c.part /\ step = c.step
      BY DEF RestoreCheckpoint
    <3>3. QED
      BY <1>1, <3>1, <3>2 DEF CheckpointOrderLoaded
  <2>3. QED
    BY <2>1, <2>2
<1>5. CycleOwnsItsPart
  <2> SUFFICES ASSUME step \in CycleSteps
               PROVE  /\ order # None
                      /\ order.completed <= order.target
                      /\ activePart = NextPart(order)
                      /\ step # "MoveToPick" => (gripperClosed <=> step \in CarryingSteps)
    BY DEF CycleOwnsItsPart
  <2>1. step = c.step /\ activePart = c.part /\ gripperClosed = c.gripperClosed
    BY DEF RestoreCheckpoint
  <2>2. /\ c.order # None
        /\ c.order.completed <= c.order.target
        /\ c.part = NextPart(c.order)
        /\ c.step # "MoveToPick" => (c.gripperClosed <=> c.step \in CarryingSteps)
    BY <1>1, <2>1 DEF Consistent
  <2>3. order.id = c.order.id /\ order.completed = c.order.completed
    <3>1. c.order \in CheckpointOrders
      BY <1>1, <2>2 DEF Checkpoints
    <3>2. QED
      BY <1>1, <2>2, <3>1, RestoredOrder DEF Clamped, CheckpointOrders
  <2>4. order # None /\ order.completed <= order.target
    BY <1>1, <2>2, RestoredOrder, NoneAssumption
  <2>5. QED
    BY <2>1, <2>2, <2>3, <2>4 DEF NextPart
<1>6. OpenOrderWithinTarget
  <2>1. CASE c.order = None
    BY <2>1 DEF RestoreCheckpoint, OpenOrderWithinTarget
  <2>2. CASE c.order # None
    BY <1>1, <2>2, RestoredOrder DEF OpenOrderWithinTarget
  <2>3. QED
    BY <2>1, <2>2
<1>7. /\ StepFitsExecution
      /\ StartingHasOrder
      /\ TargetMatchesStep
      /\ MotionOnlyWhenPermitted
      /\ AutomaticRunsHomed
      /\ RehomingIsUnhomed
  BY DEF RestoreCheckpoint, StepFitsExecution, StartingHasOrder, TargetMatchesStep,
         MotionOnlyWhenPermitted, InterlockedStates, AutomaticRunsHomed, RehomingIsUnhomed
<1>8. QED
  BY <1>2, <1>3, <1>4, <1>5, <1>6, <1>7 DEF Inv

(* BeginCycle and CompleteCycle always find what they need. *)
LEMMA NeverThrows == Inv => CycleNeverThrows
<1> SUFFICES ASSUME Inv
             PROVE  CycleNeverThrows
  OBVIOUS
<1>1. ASSUME execution = "Running", step = "ReturnHome"
      PROVE  order # None /\ activePart # None
  <2>1. order # None /\ activePart = NextPart(order)
    BY <1>1 DEF Inv, CycleOwnsItsPart, CycleSteps, MoveSteps
  <2>2. NextPart(order) \in Parts
    BY <2>1, OrderTypes DEF Inv, TypeOK
  <2>3. QED
    BY <2>1, <2>2, NoneAssumption
<1>2. QED
  BY <1>1 DEF CycleNeverThrows, Inv, StartingHasOrder

(* Commands and control periods keep the invariant. *)
LEMMA StepInv == Inv /\ [Next]_vars => Inv'
<1> SUFFICES ASSUME Inv, [Next]_vars
             PROVE  Inv'
  OBVIOUS
<1>1. CASE Next
  <2>1. TypeOK'
    BY <1>1, CommandTypes, PeriodTypes, NeverThrows DEF Next, Inv
  <2>2. MotionInv'
    BY <1>1, MotionCommands, MotionPeriods DEF Next
  <2>3. ProductionInv'
    BY <1>1, ProductionCommands, ProductionPeriods DEF Next
  <2>4. QED
    BY <2>1, <2>2, <2>3, OpenOrders DEF Inv, MotionInv, ProductionInv
<1>2. CASE UNCHANGED vars
  BY <1>2 DEF vars, Inv, TypeOK, CycleOwnsItsPart, StepFitsExecution, OpenOrderWithinTarget,
              StartingHasOrder, TargetMatchesStep, MotionOnlyWhenPermitted, MotionPermitted,
              AutomaticRunsHomed, RestartWaits, CheckpointOrderLoaded, RehomingIsUnhomed
<1>3. QED
  BY <1>1, <1>2

-----------------------------------------------------------------------------
(* Restarts. *)

(* Every checkpoint the coordinator can write is one that a restart may start from. *)
LEMMA WrittenCheckpoints == Inv => CheckpointsConsistent
<1> SUFFICES ASSUME Inv
             PROVE  CheckpointsConsistent
  OBVIOUS
<1> DEFINE saved == IF order = None THEN None
                    ELSE [id |-> order.id, target |-> order.target,
                          completed |-> order.completed]
<1>1. saved \in CheckpointOrders \cup {None}
  BY DEF Inv, TypeOK, ProductionOrders, CheckpointOrders
<1>2. CreateCheckpoint \in Checkpoints
  BY <1>1 DEF CreateCheckpoint, Checkpoints, Inv, TypeOK, MotionStates
<1>3. Consistent(CreateCheckpoint)
  <2> SUFFICES ASSUME step \in CycleSteps
               PROVE  /\ saved # None
                      /\ saved.completed <= saved.target
                      /\ activePart = NextPart(saved)
                      /\ step # "MoveToPick" => (gripperClosed <=> step \in CarryingSteps)
    BY DEF Consistent, CreateCheckpoint
  <2>1. /\ order # None
        /\ order.completed <= order.target
        /\ activePart = NextPart(order)
        /\ step # "MoveToPick" => (gripperClosed <=> step \in CarryingSteps)
    BY DEF Inv, CycleOwnsItsPart
  <2>2. saved = [id |-> order.id, target |-> order.target, completed |-> order.completed]
    BY <2>1
  <2>3. saved \in CheckpointOrders
    BY <2>1, <2>2 DEF Inv, TypeOK, ProductionOrders, CheckpointOrders
  <2>4. QED
    BY <2>1, <2>2, <2>3, NoneAssumption DEF NextPart
<1>4. QED
  BY <1>2, <1>3 DEF CheckpointsConsistent

(* The state a restart finds is one that RestoreCheckpoint makes of the checkpoint written *)
(* last.                                                                                   *)
LEMMA WarmRestartRestores ==
    ASSUME Inv, WarmRestart
    PROVE  \E c \in Checkpoints : Consistent(c) /\ RestoreCheckpoint(c)'
<1> PICK c : c = CreateCheckpoint
  OBVIOUS
<1>1. c \in Checkpoints /\ Consistent(c)
  BY WrittenCheckpoints DEF CheckpointsConsistent
<1>2. /\ c.step = step /\ c.part = activePart /\ c.gripperClosed = gripperClosed
      /\ c.recipe = recipe /\ c.target = motion.target
  BY DEF CreateCheckpoint
<1>3. order' = IF c.order = None THEN None
               ELSE [id |-> c.order.id, recipe |-> c.recipe, target |-> c.order.target,
                     completed |-> Clamped(c.order.completed, c.order.target),
                     status |-> "Paused"]
  <2>1. CASE order = None
    BY <2>1 DEF CreateCheckpoint, WarmRestart
  <2>2. CASE order # None
    <3>1. c.order = [id |-> order.id, target |-> order.target, completed |-> order.completed]
      BY <2>2 DEF CreateCheckpoint
    <3>2. c.order \in CheckpointOrders
      BY <2>2, <3>1 DEF Inv, TypeOK, ProductionOrders, CheckpointOrders
    <3>3. c.order # None
      BY <3>2, NoneAssumption
    <3>4. QED
      BY <1>2, <2>2, <3>1, <3>3 DEF WarmRestart, RestartedOrder
  <2>3. QED
    BY <2>1, <2>2
<1>4. RestoreCheckpoint(c)'
  BY <1>2, <1>3 DEF RestoreCheckpoint, WarmRestart, Transition
<1>5. QED
  BY <1>1, <1>4

(* The end of a process and the next start keep it. *)
LEMMA RestartInv == Inv /\ (ColdRestart \/ WarmRestart) => Inv'
<1>1. ASSUME NEW c \in Checkpoints, Consistent(c)
      PROVE  RestoreCheckpoint(c)' => Inv'
  <2>1. RestoreCheckpoint(c) => Inv
    BY <1>1, RestoredInv
  <2>2. QED
    BY <2>1, PTL
<1>2. FreshStart' => Inv'
  BY FreshInv, PTL
<1>3. ColdRestart => FreshStart'
  BY DEF ColdRestart, FreshStart, Transition
<1>4. QED
  BY <1>1, <1>2, <1>3, WarmRestartRestores

-----------------------------------------------------------------------------
(* The theorems. *)

(* Inv holds in every state the coordinator reaches, from an empty cell and from every *)
(* consistent checkpoint, whatever the order sizes, the faults and the modes.          *)
THEOREM InvariantTheorem == LifeSpec => []Inv
<1>1. Init => Inv
  BY FreshInv, RestoredInv, CheckpointAssumption DEF Init
<1>2. Inv /\ [Next \/ ColdRestart \/ WarmRestart]_vars => Inv'
  BY StepInv, RestartInv
<1>3. QED
  BY <1>1, <1>2, PTL DEF LifeSpec

(* A single life of the process is one of the behaviours above. *)
LEMMA OneLife == Spec => LifeSpec
<1>1. [Next]_vars => [Next \/ ColdRestart \/ WarmRestart]_vars
  OBVIOUS
<1>2. QED
  BY <1>1, PTL DEF Spec, LifeSpec

(* Every variable of the coordinator keeps its type. *)
THEOREM TypeTheorem == LifeSpec => []TypeOK
<1>1. Inv => TypeOK
  BY DEF Inv
<1>2. QED
  BY <1>1, InvariantTheorem, PTL

(* A production step always has its own order, part and gripper state. *)
THEOREM OwnershipTheorem == LifeSpec => []CycleOwnsItsPart
<1>1. Inv => CycleOwnsItsPart
  BY DEF Inv
<1>2. QED
  BY <1>1, InvariantTheorem, PTL

(* BeginCycle and CompleteCycle never throw out of a control period. *)
THEOREM NeverThrowsTheorem == LifeSpec => []CycleNeverThrows
<1>1. QED
  BY NeverThrows, InvariantTheorem, PTL

(* A machine that runs or homes is commanded to the position of its step. *)
THEOREM TargetTheorem == LifeSpec => []TargetMatchesStep
<1>1. Inv => TargetMatchesStep
  BY DEF Inv
<1>2. QED
  BY <1>1, InvariantTheorem, PTL

(* No supervised state is reached, or kept, without motion permission. *)
THEOREM PermissionTheorem == LifeSpec => []MotionOnlyWhenPermitted
<1>1. Inv => MotionOnlyWhenPermitted
  BY DEF Inv
<1>2. QED
  BY <1>1, InvariantTheorem, PTL

(* Automatic operation is homed, and moves with both drives on. *)
THEOREM HomedTheorem == LifeSpec => []AutomaticRunsHomed
<1>1. Inv => AutomaticRunsHomed
  BY DEF Inv
<1>2. QED
  BY <1>1, InvariantTheorem, PTL

(* A restarted cell keeps its drives off until a recovery decision. *)
THEOREM RestartTheorem == LifeSpec => []RestartWaits
<1>1. Inv => RestartWaits
  BY DEF Inv
<1>2. QED
  BY <1>1, InvariantTheorem, PTL

(* Every checkpoint the coordinator can write is one that a restart may start from: with *)
(* InvariantTheorem, which assumes it of the checkpoint that is found, this carries Inv   *)
(* over any number of restarts.                                                           *)
THEOREM CheckpointTheorem == LifeSpec => []CheckpointsConsistent
<1>1. QED
  BY WrittenCheckpoints, InvariantTheorem, PTL

-----------------------------------------------------------------------------
(* No part is lost. *)

(* A part that a command takes from the cell is counted as a reject. *)
LEMMA CommandsAccount ==
    ASSUME Inv, Command, activePart # None, activePart' # activePart
    PROVE  goodCount' + rejectCount' = goodCount + rejectCount + 1
<1>1. goodCount \in Nat /\ rejectCount \in Nat
  BY DEF Inv, TypeOK
<1>2. CASE RecoverDiscard
  BY <1>1, <1>2 DEF RecoverDiscard, DiscardInterruptedPart
<1>3. CASE RecoverRehome
  BY <1>1, <1>3 DEF RecoverRehome, DiscardInterruptedPart
<1>4. CASE RecoverResume
  <2>1. activePart' = activePart
    BY <1>4 DEF RecoverResume, RecoveryPending, Inv, CheckpointOrderLoaded
  <2>2. QED
    BY <2>1
<1>5. QED
  BY <1>2, <1>3, <1>4
     DEF Command, ActivateRecipe, Initialize, SetMode, LoadOrder, CancelOrder, Home, Start,
         Pause, Resume, Stop, Abort, Reset, Jog, InjectFault, ClearFault, ClearEveryFault,
         AcknowledgeAlarms

(* A part that a control period takes from the cell is counted, good or rejected, unless *)
(* BeginCycle replaces one that was left behind.                                          *)
LEMMA PeriodsAccount ==
    ASSUME Inv, Step, activePart # None, activePart' # activePart
    PROVE  \/ goodCount' + rejectCount' = goodCount + rejectCount + 1
           \/ execution = "Starting"
<1>1. goodCount \in Nat /\ rejectCount \in Nat
  BY DEF Inv, TypeOK
<1> PICK m \in {Trip(motion, tripped) : tripped \in SUBSET DriveTrips},
         arrived \in BOOLEAN, lagging \in BOOLEAN, dwelt \in BOOLEAN :
            ControlPeriod(m, arrived, lagging, dwelt)
  BY DEF Step
<1>2. CASE FinishStarting(m)
  BY <1>2 DEF FinishStarting
<1>3. CASE FinishStopping(m)
  BY <1>1, <1>3 DEF FinishStopping, DiscardInterruptedPart
<1>4. CASE FinishAborting(m)
  BY <1>1, <1>4 DEF FinishAborting, DiscardInterruptedPart
<1>5. CASE CompleteOrder(m) \/ BeginNextCycle(m)
  BY <1>1, <1>5 DEF CompleteOrder, BeginNextCycle, CompleteCycle
<1>6. QED
  BY <1>2, <1>3, <1>4, <1>5
     DEF ControlPeriod, Proceed, LosePermission, ExceedFollowingError, FinishInitializing,
         FinishHoming, FinishPausing, FinishRecovering, ArriveAtStation, LeaveStation, Wait

(* Every part is counted, as good or as rejected, when the cell gives it up. *)
THEOREM PartsTheorem == Spec => PartsAccounted
<1>1. ASSUME Inv, [Next]_vars
      PROVE  [activePart # None /\ activePart' # activePart =>
                \/ goodCount' + rejectCount' = goodCount + rejectCount + 1
                \/ execution = "Starting"]_vars
  BY <1>1, CommandsAccount, PeriodsAccount DEF Next
<1>2. QED
  BY <1>1, InvariantTheorem, OneLife, PTL DEF Spec, PartsAccounted

-----------------------------------------------------------------------------
(* Orders are not overproduced, as long as the process never restarts. *)

\* An order that may still be started, or whose part is in work, has a part left to make;
\* nothing is restored.  A restarted cell does not have this: RestoreCheckpoint makes any
\* order Paused, a completed one as well.
WithinTarget ==
    /\ execution # "RecoveryRequired"
    /\ order # None =>
          /\ order.completed <= order.target
          /\ \/ order.status \notin {"Completed", "Cancelled"}
             \/ step \in CycleSteps
             \/ execution = "Starting"
             => order.completed < order.target

(* No command lets an order be started, or go on, that has no part left. *)
LEMMA WithinTargetCommands ==
    ASSUME Inv, WithinTarget, Command
    PROVE  WithinTarget'
<1>1. order \in ProductionOrders \cup {None}
  BY DEF Inv, TypeOK
<1>2. ASSUME NEW id \in OrderIds, NEW quantity \in 1..MaxQuantity, LoadOrder(id, quantity)
      PROVE  WithinTarget'
  BY <1>2, QuantityAssumption DEF LoadOrder, WithinTarget, NewOrder
<1>3. CASE CancelOrder
  BY <1>1, <1>3 DEF CancelOrder, WithinTarget, Cancelled, ProductionOrders
<1>4. CASE Start
  BY <1>1, <1>4 DEF Start, WithinTarget, Activated, ProductionOrders, Transition
<1>5. CASE Resume
  BY <1>1, <1>5 DEF Resume, WithinTarget, OrderResumed, Resumed, ProductionOrders, Transition
<1>6. QED
  BY <1>2, <1>3, <1>4, <1>5
     DEF Command, ActivateRecipe, Initialize, SetMode, Home, Pause, Stop, Abort, Reset,
         RecoverDiscard, RecoverRehome, RecoverResume, RecoveryPending, Jog, InjectFault,
         RaiseFault, ClearFault, ClearEveryFault, AcknowledgeAlarms, WithinTarget, Transition,
         CycleSteps, MoveSteps, DwellSteps

(* No control period leaves an order in work that has no part left. *)
LEMMA WithinTargetPeriods ==
    ASSUME Inv, WithinTarget, Step
    PROVE  WithinTarget'
<1>1. order \in ProductionOrders \cup {None}
  BY DEF Inv, TypeOK
<1> PICK m \in {Trip(motion, tripped) : tripped \in SUBSET DriveTrips},
         arrived \in BOOLEAN, lagging \in BOOLEAN, dwelt \in BOOLEAN :
            ControlPeriod(m, arrived, lagging, dwelt)
  BY DEF Step
<1>2. CASE FinishStarting(m)
  BY <1>1, <1>2 DEF FinishStarting, WithinTarget, Transition
<1>3. CASE FinishPausing(m) \/ FinishStopping(m) \/ FinishAborting(m)
  BY <1>1, <1>3 DEF FinishPausing, FinishStopping, FinishAborting, WithinTarget, OrderPaused,
                    Paused, ProductionOrders, Transition, CycleSteps, MoveSteps, DwellSteps
<1>4. CASE CompleteOrder(m) \/ BeginNextCycle(m)
  <2>1. order # None /\ order \in ProductionOrders /\ order.completed < order.target
    BY <1>1, <1>4 DEF CompleteOrder, BeginNextCycle, CompleteCycle, Inv, CycleOwnsItsPart,
                      WithinTarget, CycleSteps, MoveSteps
  <2>2. order' = PartRecorded(order) /\ execution' \in {"Ready", "Running"}
    BY <1>4 DEF CompleteOrder, BeginNextCycle, CompleteCycle, Transition
  <2>3. /\ order'.completed = order.completed + 1
        /\ order'.target = order.target
        /\ order'.completed < order'.target \/ order'.status = "Completed"
    BY <2>1, <2>2 DEF PartRecorded, ProductionOrders
  <2>4. CASE CompleteOrder(m)
    BY <2>1, <2>2, <2>3, <2>4
       DEF CompleteOrder, Transition, WithinTarget, ProductionOrders, CycleSteps, MoveSteps,
           DwellSteps
  <2>5. CASE BeginNextCycle(m)
    BY <2>1, <2>2, <2>3, <2>5 DEF BeginNextCycle, WithinTarget, ProductionOrders
  <2>6. QED
    BY <1>4, <2>4, <2>5
<1>5. CASE ArriveAtStation(m) \/ LeaveStation(m)
  BY <1>5 DEF ArriveAtStation, LeaveStation, WithinTarget, Transition, CycleSteps
<1>6. QED
  BY <1>2, <1>3, <1>4, <1>5
     DEF ControlPeriod, Proceed, LosePermission, ExceedFollowingError, RaiseFault,
         FinishInitializing, FinishHoming, FinishRecovering, Wait, WithinTarget, Transition,
         CycleSteps, MoveSteps, DwellSteps

(* A process that found no checkpoint never makes more parts than an order asked for, for *)
(* any number of orders, sizes, faults and interruptions.                                  *)
THEOREM NoOverproductionTheorem ==
    ASSUME StartupCheckpoints = {}
    PROVE  Spec => []NoOverproduction
<1>1. Init => WithinTarget
  BY DEF Init, FreshStart, WithinTarget
<1>2. ASSUME Inv, WithinTarget, [Next]_vars
      PROVE  WithinTarget'
  <2>1. CASE UNCHANGED vars
    BY <1>2, <2>1 DEF WithinTarget, vars
  <2>2. QED
    BY <1>2, <2>1, WithinTargetCommands, WithinTargetPeriods DEF Next
<1>3. WithinTarget => NoOverproduction
  BY DEF WithinTarget, NoOverproduction
<1>4. QED
  BY <1>1, <1>2, <1>3, InvariantTheorem, OneLife, PTL DEF Spec

=============================================================================
