-------------------------- MODULE MachineCoordinator --------------------------
(***************************************************************************)
(* MachineCoordinator: the only owner of mutable machine state.  Every     *)
(* command (Execute, ActivateRecipe) and every control period (Step) runs  *)
(* to its end under one lock, so each is one action here.  A rejected      *)
(* command changes nothing and is therefore no step of this specification. *)
(*                                                                         *)
(* Left out: the revision counter, clocks and correlation identifiers,     *)
(* telemetry, the event queue (an event says which variables changed) and  *)
(* the durations of the dwells, which a control period may or may not end. *)
(***************************************************************************)
EXTENDS ManufacturingDomain, MotionSystem

CONSTANTS
    SelectableModes,      \* the modes operators ask for
    InjectableFaults,     \* the faults operators inject
    DriveTrips,           \* the axes whose motion adapter reports faults of its own
    StartupCheckpoints,   \* the checkpoints a process may find when it starts
    MaxParts              \* bound: no Start once this many parts are counted

VARIABLES
    mode, execution, step,
    recipe,               \* the active recipe
    order,                \* the loaded ProductionOrder, or None
    activePart,           \* the part the cell is working on, or None
    gripperClosed,
    lostInputs,           \* the safety inputs that are not in their safe state
    alarms,               \* lifecycle by alarm code; "Historical" also when never raised
    motion,               \* the motion system
    recoveryCheckpoint,   \* the checkpoint waiting for a recovery decision, or None
    goodCount, rejectCount

vars == <<mode, execution, step, recipe, order, activePart, gripperClosed, lostInputs,
          alarms, motion, recoveryCheckpoint, goodCount, rejectCount>>

Modes == {"Offline", "Manual", "Automatic", "Maintenance", "Recovery"}

ExecutionStates == {"Stopped", "Initializing", "Homing", "Ready", "Starting", "Running",
                    "Pausing", "Paused", "Stopping", "Aborting", "Recovering",
                    "RecoveryRequired", "Faulted"}

MoveSteps == {"MoveToPick", "MoveToInspect", "MoveToPlace", "ReturnHome"}
DwellSteps == {"Pick", "Inspect", "Place"}
CycleSteps == MoveSteps \cup DwellSteps
Steps == CycleSteps \cup {"None", "WaitForPart", "Complete"}

\* The steps between closing the gripper on a part and opening it.
CarryingSteps == {"Pick", "MoveToInspect", "Inspect", "MoveToPlace"}

InputFaults == {"emergency-stop", "guard-open", "bus-loss"}
Faults == InputFaults \cup MotionFaults

\* What CreateCheckpoint writes about the order: not its status, and the active
\* recipe in place of the order's own.  It writes the execution state as well, which only
\* the runtime reads: see WarmRestart.
CheckpointOrders == [id : OrderIds, target : 1..MaxQuantity, completed : Nat]

Checkpoints == [step : Steps, part : Parts \cup {None},
                order : CheckpointOrders \cup {None}, recipe : Recipes,
                gripperClosed : BOOLEAN, target : Positions]

\* A checkpoint that was written in the middle of a cycle belongs to that cycle.
Consistent(c) ==
    c.step \in CycleSteps =>
        /\ c.order # None
        /\ c.order.completed <= c.order.target
        /\ c.part = NextPart(c.order)
        /\ c.step # "MoveToPick" => (c.gripperClosed <=> c.step \in CarryingSteps)

ASSUME NoneAssumption ==
    /\ None \notin ProductionOrders
    /\ None \notin Parts
    /\ None \notin Checkpoints
    /\ None \notin CheckpointOrders

ASSUME ParameterAssumption ==
    /\ SelectableModes \subseteq Modes
    /\ InjectableFaults \subseteq Faults
    /\ DriveTrips \subseteq Axes
    /\ MaxParts \in Nat

ASSUME CheckpointAssumption ==
    \A c \in StartupCheckpoints :
        /\ c \in Checkpoints
        /\ Consistent(c)

-----------------------------------------------------------------------------
(* Helpers of the commands and of Step. *)

\* BuildInterlocks(...).MotionPermitted
MotionPermitted(m) == lostInputs = {} /\ m.faulted = {}

Transition(newExecution, newStep) == execution' = newExecution /\ step' = newStep

\* Mutant: a position is commanded to drives that may be off.
CommandWithoutEnable(m, position) == SetTarget(m, position)

CommandPosition(m, position) == SetTarget(EnableAll(m), position)

StepPosition == [MoveToPick |-> "Pick", MoveToInspect |-> "Inspect",
                 MoveToPlace |-> "Place", ReturnHome |-> "Home"]

\* A dwell is resumed where the axes are.
CommandTargetForCurrentStep(m, s) ==
    CommandPosition(m, IF s \in MoveSteps THEN StepPosition[s] ELSE "Elsewhere")

\* An alarm that is not Historical is left as it is, even when it has been cleared.
RaiseFault(code, m) ==
    /\ alarms' = [alarms EXCEPT ![code] = IF @ = "Historical" THEN "ActiveUnacknowledged" ELSE @]
    /\ motion' = Hold(m)
    /\ Transition("Faulted", step)

DiscardInterruptedPart ==
    /\ rejectCount' = IF activePart = None THEN rejectCount ELSE rejectCount + 1
    /\ activePart' = None
    /\ gripperClosed' = FALSE

CreateCheckpoint ==
    [step |-> step, part |-> activePart,
     order |-> IF order = None THEN None
               ELSE [id |-> order.id, target |-> order.target, completed |-> order.completed],
     recipe |-> recipe, gripperClosed |-> gripperClosed, target |-> motion.target]

-----------------------------------------------------------------------------
(* Commands. *)

ActivateRecipe(r) ==
    /\ execution \in {"Stopped", "Ready"}
    /\ order # None => order.status \notin {"Active", "Paused"}
    /\ recipe' = r
    /\ UNCHANGED <<mode, execution, step, order, activePart, gripperClosed, lostInputs,
                   alarms, motion, recoveryCheckpoint, goodCount, rejectCount>>

Initialize ==
    /\ execution = "Stopped"
    /\ motion' = EnableAll(motion)
    /\ Transition("Initializing", "None")
    /\ UNCHANGED <<mode, recipe, order, activePart, gripperClosed, lostInputs, alarms,
                   recoveryCheckpoint, goodCount, rejectCount>>

SetMode(newMode) ==
    /\ execution \notin {"Running", "Starting", "Homing", "Recovering"}
    /\ newMode = "Offline" => execution = "Stopped"
    /\ mode' = newMode
    /\ UNCHANGED <<execution, step, recipe, order, activePart, gripperClosed, lostInputs,
                   alarms, motion, recoveryCheckpoint, goodCount, rejectCount>>

\* The recipe of the request must be the active one.
LoadOrder(id, quantity) ==
    /\ execution \in {"Stopped", "Ready"}
    /\ order # None => order.status \notin {"Active", "Paused"}
    /\ order' = NewOrder(id, recipe, quantity)
    /\ UNCHANGED <<mode, execution, step, recipe, activePart, gripperClosed, lostInputs,
                   alarms, motion, recoveryCheckpoint, goodCount, rejectCount>>

\* Mutant: a cancelled order is unloaded at once.
CancelUnloads ==
    /\ order # None
    /\ execution \notin {"Running", "Starting"}
    /\ order' = None
    /\ UNCHANGED <<mode, execution, step, recipe, activePart, gripperClosed, lostInputs,
                   alarms, motion, recoveryCheckpoint, goodCount, rejectCount>>

CancelOrder ==
    /\ order # None
    /\ execution \notin {"Running", "Starting"}
    /\ order' = Cancelled(order)
    /\ UNCHANGED <<mode, execution, step, recipe, activePart, gripperClosed, lostInputs,
                   alarms, motion, recoveryCheckpoint, goodCount, rejectCount>>

Home ==
    /\ MotionPermitted(motion)
    /\ execution \notin {"Running", "Starting"}
    /\ motion' = CommandPosition(motion, "Home")
    /\ Transition("Homing", "None")
    /\ UNCHANGED <<mode, recipe, order, activePart, gripperClosed, lostInputs, alarms,
                   recoveryCheckpoint, goodCount, rejectCount>>

Start ==
    /\ goodCount + rejectCount < MaxParts
    /\ mode = "Automatic"
    /\ execution = "Ready"
    /\ motion.homed
    /\ order # None /\ order.status \notin {"Completed", "Cancelled"}
    /\ MotionPermitted(motion)
    /\ order' = Activated(order)
    /\ Transition("Starting", "WaitForPart")
    /\ UNCHANGED <<mode, recipe, activePart, gripperClosed, lostInputs, alarms, motion,
                   recoveryCheckpoint, goodCount, rejectCount>>

Pause ==
    /\ execution = "Running"
    /\ motion' = Hold(motion)
    /\ Transition("Pausing", step)
    /\ UNCHANGED <<mode, recipe, order, activePart, gripperClosed, lostInputs, alarms,
                   recoveryCheckpoint, goodCount, rejectCount>>

\* Mutant: the target that Hold replaced is not commanded again.
ResumeWithoutCommand ==
    /\ execution = "Paused"
    /\ MotionPermitted(motion)
    /\ order' = OrderResumed(order)
    /\ Transition("Running", step)
    /\ motion' = EnableAll(motion)
    /\ UNCHANGED <<mode, recipe, activePart, gripperClosed, lostInputs, alarms,
                   recoveryCheckpoint, goodCount, rejectCount>>

\* Mutant: a guard opened during the pause does not block the resume.
ResumeWithoutPermission ==
    /\ execution = "Paused"
    /\ order' = OrderResumed(order)
    /\ Transition("Running", step)
    /\ motion' = CommandTargetForCurrentStep(motion, step)
    /\ UNCHANGED <<mode, recipe, activePart, gripperClosed, lostInputs, alarms,
                   recoveryCheckpoint, goodCount, rejectCount>>

Resume ==
    /\ execution = "Paused"
    /\ MotionPermitted(motion)
    /\ order' = OrderResumed(order)
    /\ Transition("Running", step)
    /\ motion' = CommandTargetForCurrentStep(motion, step)
    /\ UNCHANGED <<mode, recipe, activePart, gripperClosed, lostInputs, alarms,
                   recoveryCheckpoint, goodCount, rejectCount>>

Stop ==
    /\ execution \in {"Running", "Starting", "Paused", "Homing", "Pausing"}
    /\ motion' = Hold(motion)
    /\ Transition("Stopping", step)
    /\ UNCHANGED <<mode, recipe, order, activePart, gripperClosed, lostInputs, alarms,
                   recoveryCheckpoint, goodCount, rejectCount>>

Abort ==
    /\ execution \notin {"Stopped", "Aborting"}
    /\ Transition("Aborting", step)
    /\ UNCHANGED <<mode, recipe, order, activePart, gripperClosed, lostInputs, alarms, motion,
                   recoveryCheckpoint, goodCount, rejectCount>>

\* Any alarm that is not Historical admits a reset, whatever the execution state.
Reset ==
    /\ execution = "Faulted" \/ \E code \in AlarmCodes : alarms[code] # "Historical"
    /\ lostInputs = {}
    /\ motion' = EnableAll(ClearAllFaults(motion))
    /\ alarms' = [code \in AlarmCodes |->
                    IF alarms[code] \in ActiveLifecycles THEN Cleared(alarms[code])
                                                         ELSE alarms[code]]
    /\ Transition(IF motion.homed THEN "Ready" ELSE "Stopped", "None")
    /\ UNCHANGED <<mode, recipe, order, activePart, gripperClosed, lostInputs,
                   recoveryCheckpoint, goodCount, rejectCount>>

RecoveryPending == execution = "RecoveryRequired" /\ recoveryCheckpoint # None

RecoverDiscard ==
    /\ RecoveryPending
    /\ DiscardInterruptedPart
    /\ motion' = Restore(FALSE, "Elsewhere")
    /\ mode' = "Manual"
    /\ recoveryCheckpoint' = None
    /\ Transition("Stopped", "None")
    /\ UNCHANGED <<recipe, order, lostInputs, alarms, goodCount>>

RecoverRehome ==
    /\ RecoveryPending
    /\ DiscardInterruptedPart
    /\ motion' = CommandPosition(Restore(FALSE, "Elsewhere"), "Home")
    /\ mode' = "Recovery"
    /\ Transition("Recovering", "None")
    /\ UNCHANGED <<recipe, order, lostInputs, alarms, recoveryCheckpoint, goodCount>>

\* Mutant: the interrupted move is not commanded again.
RecoverWithoutCommand ==
    /\ RecoveryPending
    /\ recoveryCheckpoint.order # None
    /\ recoveryCheckpoint.part # None
    /\ MotionPermitted(motion)
    /\ mode' = "Automatic"
    /\ Transition("Running", recoveryCheckpoint.step)
    /\ activePart' = recoveryCheckpoint.part
    /\ gripperClosed' = recoveryCheckpoint.gripperClosed
    /\ order' = OrderResumed(order)
    /\ motion' = EnableAll(Restore(TRUE, recoveryCheckpoint.target))
    /\ recoveryCheckpoint' = None
    /\ UNCHANGED <<recipe, lostInputs, alarms, goodCount, rejectCount>>

RecoverResume ==
    /\ RecoveryPending
    /\ recoveryCheckpoint.order # None
    /\ recoveryCheckpoint.part # None
    /\ MotionPermitted(motion)
    /\ mode' = "Automatic"
    /\ Transition("Running", recoveryCheckpoint.step)
    /\ activePart' = recoveryCheckpoint.part
    /\ gripperClosed' = recoveryCheckpoint.gripperClosed
    /\ order' = OrderResumed(order)
    /\ motion' = CommandTargetForCurrentStep(Restore(TRUE, recoveryCheckpoint.target),
                                             recoveryCheckpoint.step)
    /\ recoveryCheckpoint' = None
    /\ UNCHANGED <<recipe, lostInputs, alarms, goodCount, rejectCount>>

\* The guard on the execution state leaves out Pausing, Paused, Stopping and Aborting.
Jog ==
    /\ mode \in {"Manual", "Maintenance"}
    /\ execution \notin {"Running", "Starting", "Homing", "Faulted", "RecoveryRequired"}
    /\ MotionPermitted(motion)
    /\ motion.homed
    /\ motion' = CommandPosition(motion, "Elsewhere")
    /\ Transition("Ready", "None")
    /\ UNCHANGED <<mode, recipe, order, activePart, gripperClosed, lostInputs, alarms,
                   recoveryCheckpoint, goodCount, rejectCount>>

InjectFault(fault) ==
    /\ lostInputs' = lostInputs \cup ({fault} \cap InputFaults)
    /\ RaiseFault("INJECTED_FAULT", InjectMotionFault(motion, fault))
    /\ UNCHANGED <<mode, recipe, order, activePart, gripperClosed, recoveryCheckpoint,
                   goodCount, rejectCount>>

ClearFault(fault) ==
    /\ lostInputs' = lostInputs \ {fault}
    /\ motion' = IF fault \in MotionFaults THEN ClearMotionFault(motion, fault) ELSE motion
    /\ UNCHANGED <<mode, execution, step, recipe, order, activePart, gripperClosed, alarms,
                   recoveryCheckpoint, goodCount, rejectCount>>

ClearEveryFault ==
    /\ lostInputs' = {}
    /\ motion' = ClearAllFaults(motion)
    /\ UNCHANGED <<mode, execution, step, recipe, order, activePart, gripperClosed, alarms,
                   recoveryCheckpoint, goodCount, rejectCount>>

AcknowledgeAlarms ==
    /\ alarms' = [code \in AlarmCodes |-> Acknowledged(alarms[code])]
    /\ UNCHANGED <<mode, execution, step, recipe, order, activePart, gripperClosed, lostInputs,
                   motion, recoveryCheckpoint, goodCount, rejectCount>>

-----------------------------------------------------------------------------
(* One control period.  m is the motion system after its own Step; arrived,   *)
(* lagging and dwelt say whether the axes are at their target, whether the    *)
(* following error is over its limit, and whether the dwell of the current    *)
(* step ends in this period.                                                  *)

\* The states in which the loss of an interlock raises a fault: not Stopping.
InterlockedStates == {"Homing", "Starting", "Running", "Pausing", "Recovering"}
FollowedStates == {"Homing", "Running", "Recovering"}

LosePermission(m) ==
    /\ execution \in InterlockedStates
    /\ ~MotionPermitted(m)
    /\ RaiseFault("MOTION_PERMISSION_LOST", m)
    /\ UNCHANGED <<mode, recipe, order, activePart, gripperClosed, lostInputs,
                   recoveryCheckpoint, goodCount, rejectCount>>

ExceedFollowingError(m, lagging) ==
    /\ lagging
    /\ execution \in FollowedStates
    /\ MotionPermitted(m)
    /\ RaiseFault("FOLLOWING_ERROR", m)
    /\ UNCHANGED <<mode, recipe, order, activePart, gripperClosed, lostInputs,
                   recoveryCheckpoint, goodCount, rejectCount>>

\* Neither check raised a fault.
Healthy(m, lagging) ==
    /\ execution \in InterlockedStates => MotionPermitted(m)
    /\ execution \in FollowedStates => ~lagging

FinishInitializing(m) ==
    /\ execution = "Initializing"
    /\ Transition("Stopped", "None")
    /\ motion' = m
    /\ UNCHANGED <<mode, recipe, order, activePart, gripperClosed, lostInputs, alarms,
                   recoveryCheckpoint, goodCount, rejectCount>>

FinishHoming(m) ==
    /\ execution = "Homing"
    /\ motion' = MarkHomed(m)
    /\ Transition("Ready", "None")
    /\ UNCHANGED <<mode, recipe, order, activePart, gripperClosed, lostInputs, alarms,
                   recoveryCheckpoint, goodCount, rejectCount>>

\* BeginCycle throws without an order; CycleNeverThrows says it never does.
FinishStarting(m) ==
    /\ execution = "Starting"
    /\ activePart' = NextPart(order)
    /\ Transition("Running", "MoveToPick")
    /\ motion' = CommandPosition(m, "Pick")
    /\ UNCHANGED <<mode, recipe, order, gripperClosed, lostInputs, alarms,
                   recoveryCheckpoint, goodCount, rejectCount>>

\* Mutant: a pause waits for the end of the cycle, which no longer advances.
PauseBetweenParts(m) ==
    /\ execution = "Pausing"
    /\ activePart = None
    /\ order' = OrderPaused(order)
    /\ Transition("Paused", step)
    /\ motion' = m
    /\ UNCHANGED <<mode, recipe, activePart, gripperClosed, lostInputs, alarms,
                   recoveryCheckpoint, goodCount, rejectCount>>

FinishPausing(m) ==
    /\ execution = "Pausing"
    /\ order' = OrderPaused(order)
    /\ Transition("Paused", step)
    /\ motion' = m
    /\ UNCHANGED <<mode, recipe, activePart, gripperClosed, lostInputs, alarms,
                   recoveryCheckpoint, goodCount, rejectCount>>

\* Mutant: the interrupted step survives the stop.
StopKeepsStep(m) ==
    /\ execution = "Stopping"
    /\ DiscardInterruptedPart
    /\ order' = OrderPaused(order)
    /\ Transition("Ready", step)
    /\ motion' = m
    /\ UNCHANGED <<mode, recipe, lostInputs, alarms, recoveryCheckpoint, goodCount>>

\* Mutant: the part is taken from the cell and not counted.
StopForgetsPart(m) ==
    /\ execution = "Stopping"
    /\ activePart' = None
    /\ gripperClosed' = FALSE
    /\ order' = OrderPaused(order)
    /\ Transition("Ready", "None")
    /\ motion' = m
    /\ UNCHANGED <<mode, recipe, lostInputs, alarms, recoveryCheckpoint, goodCount,
                   rejectCount>>

FinishStopping(m) ==
    /\ execution = "Stopping"
    /\ DiscardInterruptedPart
    /\ order' = OrderPaused(order)
    /\ Transition("Ready", "None")
    /\ motion' = m
    /\ UNCHANGED <<mode, recipe, lostInputs, alarms, recoveryCheckpoint, goodCount>>

FinishAborting(m) ==
    /\ execution = "Aborting"
    /\ motion' = DisableAll(m)
    /\ DiscardInterruptedPart
    /\ order' = OrderPaused(order)
    /\ Transition("Stopped", "None")
    /\ UNCHANGED <<mode, recipe, lostInputs, alarms, recoveryCheckpoint, goodCount>>

\* Mutant: the rehoming of a recovery goes on with a homing of its own.
HomeOnceMore(m) ==
    /\ execution = "Recovering"
    /\ motion' = CommandPosition(m, "Home")
    /\ mode' = "Manual"
    /\ recoveryCheckpoint' = None
    /\ Transition("Homing", "None")
    /\ UNCHANGED <<recipe, order, activePart, gripperClosed, lostInputs, alarms,
                   goodCount, rejectCount>>

FinishRecovering(m) ==
    /\ execution = "Recovering"
    /\ motion' = MarkHomed(m)
    /\ mode' = "Manual"
    /\ recoveryCheckpoint' = None
    /\ Transition("Ready", "None")
    /\ UNCHANGED <<recipe, order, activePart, gripperClosed, lostInputs, alarms,
                   goodCount, rejectCount>>

(* AdvanceProduction: the production sequence while Running. *)

\* Mutant: the sequence turns back to the inspection.
LoopingNextStep == [MoveToPick |-> "Pick", Pick |-> "MoveToInspect", MoveToInspect |-> "Inspect",
                    Inspect |-> "MoveToPlace", MoveToPlace |-> "Place", Place |-> "MoveToInspect"]

NextStep == [MoveToPick |-> "Pick", Pick |-> "MoveToInspect", MoveToInspect |-> "Inspect",
             Inspect |-> "MoveToPlace", MoveToPlace |-> "Place", Place |-> "ReturnHome"]

\* Mutant: the gripper is not opened at the place position.
ArriveWithoutRelease(m) ==
    /\ execution = "Running"
    /\ step \in MoveSteps \ {"ReturnHome"}
    /\ gripperClosed' = (step = "MoveToPick" \/ gripperClosed)
    /\ Transition("Running", NextStep[step])
    /\ motion' = m
    /\ UNCHANGED <<mode, recipe, order, activePart, lostInputs, alarms,
                   recoveryCheckpoint, goodCount, rejectCount>>

ArriveAtStation(m) ==
    /\ execution = "Running"
    /\ step \in MoveSteps \ {"ReturnHome"}
    /\ gripperClosed' = CASE step = "MoveToPick"  -> TRUE
                          [] step = "MoveToPlace" -> FALSE
                          [] OTHER -> gripperClosed
    /\ Transition("Running", NextStep[step])
    /\ motion' = m
    /\ UNCHANGED <<mode, recipe, order, activePart, lostInputs, alarms,
                   recoveryCheckpoint, goodCount, rejectCount>>

LeaveStation(m) ==
    /\ execution = "Running"
    /\ step \in DwellSteps
    /\ Transition("Running", NextStep[step])
    /\ motion' = CommandPosition(m, StepPosition[NextStep[step]])
    /\ UNCHANGED <<mode, recipe, order, activePart, gripperClosed, lostInputs, alarms,
                   recoveryCheckpoint, goodCount, rejectCount>>

\* CompleteCycle throws without an order and a part; see CycleNeverThrows.
CompleteCycle ==
    /\ execution = "Running"
    /\ step = "ReturnHome"
    /\ goodCount' = goodCount + 1
    /\ order' = PartRecorded(order)
    /\ UNCHANGED <<mode, recipe, gripperClosed, lostInputs, alarms, recoveryCheckpoint,
                   rejectCount>>

CompleteOrder(m) ==
    /\ CompleteCycle
    /\ order.completed + 1 >= order.target
    /\ activePart' = None
    /\ Transition("Ready", "Complete")
    /\ motion' = m

\* Mutant: one cycle too many.
BeginOneMoreCycle(m) ==
    /\ CompleteCycle
    /\ order.completed + 1 <= order.target
    /\ activePart' = NextPart(PartRecorded(order))
    /\ Transition("Running", "MoveToPick")
    /\ motion' = CommandPosition(m, "Pick")

BeginNextCycle(m) ==
    /\ CompleteCycle
    /\ order.completed + 1 < order.target
    /\ activePart' = NextPart(PartRecorded(order))
    /\ Transition("Running", "MoveToPick")
    /\ motion' = CommandPosition(m, "Pick")

\* No case of the switch applies: in the last disjunct, to a Running machine whose
\* step is not one of the production cycle.
Wait(m, arrived, dwelt) ==
    /\ \/ execution \in {"Stopped", "Ready", "Paused", "RecoveryRequired", "Faulted"}
       \/ execution \in {"Homing", "Pausing", "Stopping", "Recovering"} /\ ~arrived
       \/ execution = "Running" /\ step \in MoveSteps /\ ~arrived
       \/ execution = "Running" /\ step \in DwellSteps /\ ~dwelt
       \/ execution = "Running" /\ step \notin CycleSteps
    /\ motion' = m
    /\ UNCHANGED <<mode, execution, step, recipe, order, activePart, gripperClosed, lostInputs,
                   alarms, recoveryCheckpoint, goodCount, rejectCount>>

Proceed(m, arrived, dwelt) ==
    \/ FinishInitializing(m)
    \/ arrived /\ FinishHoming(m)
    \/ FinishStarting(m)
    \/ arrived /\ FinishPausing(m)
    \/ arrived /\ FinishStopping(m)
    \/ FinishAborting(m)
    \/ arrived /\ FinishRecovering(m)
    \/ arrived /\ ArriveAtStation(m)
    \/ dwelt /\ LeaveStation(m)
    \/ arrived /\ CompleteOrder(m)
    \/ arrived /\ BeginNextCycle(m)
    \/ Wait(m, arrived, dwelt)

ControlPeriod(m, arrived, lagging, dwelt) ==
    \/ LosePermission(m)
    \/ ExceedFollowingError(m, lagging)
    \/ Healthy(m, lagging) /\ Proceed(m, arrived, dwelt)

Step == \E tripped \in SUBSET DriveTrips, arrived, lagging, dwelt \in BOOLEAN :
            ControlPeriod(Trip(motion, tripped), arrived, lagging, dwelt)

-----------------------------------------------------------------------------
(* Start of the process, commands and control periods together. *)

FreshStart ==
    /\ mode = "Manual" /\ execution = "Stopped" /\ step = "None"
    /\ recipe \in Recipes
    /\ order = None /\ activePart = None /\ gripperClosed = FALSE
    /\ lostInputs = {} /\ alarms = [code \in AlarmCodes |-> "Historical"]
    /\ motion = PoweredOff
    /\ recoveryCheckpoint = None
    /\ goodCount = 0 /\ rejectCount = 0

\* RestoreCheckpoint, which the runtime calls once, before the first control period.
\* Any order of the checkpoint becomes Paused, and takes the recipe of the checkpoint.
RestoreCheckpoint(c) ==
    /\ mode = "Recovery" /\ execution = "RecoveryRequired" /\ step = c.step
    /\ recipe \in Recipes
    /\ order = IF c.order = None THEN None
               ELSE [id |-> c.order.id, recipe |-> c.recipe, target |-> c.order.target,
                     completed |-> Clamped(c.order.completed, c.order.target),
                     status |-> "Paused"]
    /\ activePart = c.part /\ gripperClosed = c.gripperClosed
    /\ lostInputs = {} /\ alarms = [code \in AlarmCodes |-> "Historical"]
    /\ motion = Restore(FALSE, c.target)
    /\ recoveryCheckpoint = c
    /\ goodCount = 0 /\ rejectCount = 0

Init == FreshStart \/ \E c \in StartupCheckpoints : RestoreCheckpoint(c)

Command ==
    \/ \E r \in Recipes : ActivateRecipe(r)
    \/ Initialize
    \/ \E newMode \in SelectableModes : SetMode(newMode)
    \/ \E id \in OrderIds, quantity \in 1..MaxQuantity : LoadOrder(id, quantity)
    \/ CancelOrder
    \/ Home
    \/ Start
    \/ Pause
    \/ Resume
    \/ Stop
    \/ Abort
    \/ Reset
    \/ RecoverDiscard
    \/ RecoverRehome
    \/ RecoverResume
    \/ Jog
    \/ \E fault \in InjectableFaults : InjectFault(fault)
    \/ \E fault \in InjectableFaults : ClearFault(fault)
    \/ ClearEveryFault
    \/ AcknowledgeAlarms

Next == Command \/ Step

Spec == Init /\ [][Next]_vars

\* The process ends at any moment, and the next one finds no checkpoint, or one that was
\* written in Stopped or Ready.
ColdRestart ==
    /\ mode' = "Manual" /\ Transition("Stopped", "None")
    /\ recipe' \in Recipes
    /\ order' = None /\ activePart' = None /\ gripperClosed' = FALSE
    /\ lostInputs' = {} /\ alarms' = [code \in AlarmCodes |-> "Historical"]
    /\ motion' = PoweredOff
    /\ recoveryCheckpoint' = None
    /\ goodCount' = 0 /\ rejectCount' = 0

\* The order of RestoreCheckpoint, with the active recipe as its own.
RestartedOrder ==
    [id |-> order.id, recipe |-> recipe, target |-> order.target,
     completed |-> Clamped(order.completed, order.target), status |-> "Paused"]

\* Mutant: the checkpoint of a machine that is ready is restored as well.
NotStopped == execution # "Stopped"

\* The checkpoints the runtime restores.
Interrupted == execution \notin {"Stopped", "Ready"}

\* It finds the checkpoint that was written last.  A process that ends with an older one on
\* disk need not be told apart: nothing it did since then survives it.
WarmRestart ==
    /\ Interrupted
    /\ mode' = "Recovery" /\ Transition("RecoveryRequired", step)
    /\ recipe' \in Recipes
    /\ order' = IF order = None THEN None ELSE RestartedOrder
    /\ lostInputs' = {} /\ alarms' = [code \in AlarmCodes |-> "Historical"]
    /\ motion' = Restore(FALSE, motion.target)
    /\ recoveryCheckpoint' = CreateCheckpoint
    /\ goodCount' = 0 /\ rejectCount' = 0
    /\ UNCHANGED <<activePart, gripperClosed>>

\* Any number of processes, one after the other.
LifeSpec == Init /\ [][Next \/ ColdRestart \/ WarmRestart]_vars

\* A control period in which a move ends, one way or the other: the axes arrive or trip
\* the following-error limit.  The periodic timer of the runtime never stops, and the
\* axis controllers converge as long as nothing holds an axis.
SettledPeriod ==
    \E arrived, lagging \in BOOLEAN :
        (arrived \/ lagging) /\ ControlPeriod(motion, arrived, lagging, TRUE)

FairSpec == Spec /\ WF_vars(SettledPeriod)

FairLifeSpec == LifeSpec /\ WF_vars(SettledPeriod)

-----------------------------------------------------------------------------
(* Invariants. *)

TypeOK ==
    /\ mode \in Modes
    /\ execution \in ExecutionStates
    /\ step \in Steps
    /\ recipe \in Recipes
    /\ order \in ProductionOrders \cup {None}
    /\ activePart \in Parts \cup {None}
    /\ gripperClosed \in BOOLEAN
    /\ lostInputs \in SUBSET InputFaults
    /\ alarms \in [AlarmCodes -> AlarmLifecycles]
    /\ motion \in MotionStates
    /\ recoveryCheckpoint \in Checkpoints \cup {None}
    /\ goodCount \in Nat /\ rejectCount \in Nat

\* In a production step, whatever the machine is doing (running, pausing, faulted, waiting
\* for a recovery decision), the loaded order is the one the active part was begun for, the
\* part is the next one the order counts, and the gripper holds it exactly while it is
\* carried: no command sequence may complete a part for another order or twice.
CycleOwnsItsPart ==
    step \in CycleSteps =>
        /\ order # None
        /\ order.completed <= order.target
        /\ activePart = NextPart(order)
        /\ step # "MoveToPick" => (gripperClosed <=> step \in CarryingSteps)

\* BeginCycle and CompleteCycle throw InvalidOperationException without an order or a part;
\* the exception would leave Step and end the runtime's background service.
CycleNeverThrows ==
    /\ execution = "Starting" => order # None
    /\ execution = "Running" /\ step = "ReturnHome" => order # None /\ activePart # None

\* A machine that runs or homes moves towards the position of its step: a target changed by
\* Hold, Jog or Restore is always commanded again, so that "at target" never closes the
\* gripper, or marks the axes homed, at another place.
TargetMatchesStep ==
    /\ execution = "Running" /\ step \in MoveSteps => motion.target = StepPosition[step]
    /\ execution \in {"Homing", "Recovering"} => motion.target = "Home"

\* In the states in which Step supervises the interlocks they are satisfied after every
\* command and every control period: no such state is entered, or kept, with a safety input
\* lost or an axis faulted.
MotionOnlyWhenPermitted ==
    execution \in InterlockedStates => MotionPermitted(motion)

\* Automatic operation keeps its position reference: the cell is homed and both drives are on.
AutomaticRunsHomed ==
    /\ execution \in {"Starting", "Running", "Pausing", "Paused"} => motion.homed
    /\ execution \in {"Running", "Homing", "Recovering"} => motion.enabled = Axes

\* Restart never issues motion: while a recovery decision is pending the drives are off, the
\* position reference is invalid, the inputs are safe and the checkpoint is at hand.
RestartWaits ==
    execution = "RecoveryRequired" =>
        /\ motion.enabled = {} /\ ~motion.homed
        /\ lostInputs = {}
        /\ recoveryCheckpoint # None

\* A checkpoint written at any moment, by the timer as well as after a transition, is one
\* that RestoreCheckpoint and a resume can continue from: what is assumed of the checkpoints
\* found at start-up is what the previous process guarantees of those it wrote.
CheckpointsConsistent == CreateCheckpoint \in Checkpoints /\ Consistent(CreateCheckpoint)

\* What makes the invariants above inductive.

\* Outside a production run there is no production step.
StepFitsExecution ==
    execution \in {"Stopped", "Initializing", "Homing", "Ready", "Starting", "Recovering"} =>
        step \notin CycleSteps

\* While recovery is pending the step, the part and the loaded order are the checkpoint's.
CheckpointOrderLoaded ==
    execution = "RecoveryRequired" =>
        /\ Consistent(recoveryCheckpoint)
        /\ step = recoveryCheckpoint.step
        /\ activePart = recoveryCheckpoint.part
        /\ recoveryCheckpoint.order # None =>
              /\ order # None
              /\ order.id = recoveryCheckpoint.order.id
              /\ order.target = recoveryCheckpoint.order.target
              /\ order.completed = Clamped(recoveryCheckpoint.order.completed, order.target)

\* Rehoming after a restart is not jogged: the axes are not homed yet.
RehomingIsUnhomed == execution = "Recovering" => ~motion.homed

\* An order that may still be started has made no more parts than it asked for.
OpenOrderWithinTarget ==
    order # None /\ order.status \notin {"Completed", "Cancelled"} =>
        order.completed <= order.target

StartingHasOrder ==
    execution = "Starting" =>
        order # None /\ order.status = "Active" /\ order.completed <= order.target

Inv ==
    /\ TypeOK
    /\ CycleOwnsItsPart
    /\ StepFitsExecution
    /\ OpenOrderWithinTarget
    /\ StartingHasOrder
    /\ TargetMatchesStep
    /\ MotionOnlyWhenPermitted
    /\ AutomaticRunsHomed
    /\ RestartWaits
    /\ CheckpointOrderLoaded
    /\ RehomingIsUnhomed

\* No order makes more parts than it asked for, as long as the process lives; see
\* OverproductionBounded.
NoOverproduction == order # None => order.completed <= order.target

\* A restart makes any order Paused, a completed one as well, which may then be started again:
\* over any number of restarts this costs one part too many at most.
OverproductionBounded == order # None => order.completed <= order.target + 1

\* An order that was loaded for one recipe is not produced with another.
OrderRunsOnItsRecipe == execution = "Running" => order.recipe = recipe

\* A faulted machine lists an alarm: RaiseFault leaves one behind that is not Historical.
FaultShowsAlarm ==
    execution = "Faulted" => \E code \in AlarmCodes : alarms[code] # "Historical"

-----------------------------------------------------------------------------
(* Action properties. *)

\* A part stops being the active one only when it is counted, good or rejected; the one
\* exception is a part that a Reset, a Home or a Jog left behind, which the BeginCycle of
\* the next Start replaces.
PartsAccounted ==
    [][activePart # None /\ activePart' # activePart =>
          \/ goodCount' + rejectCount' = goodCount + rejectCount + 1
          \/ execution = "Starting"]_vars

\* An abort that was accepted disables both drives before the machine does anything else.
AbortDisablesDrives ==
    [][execution = "Aborting" /\ execution' # "Aborting" => motion'.enabled = {}]_vars

\* While a recovery decision is pending only recovery, reset and diagnostics are accepted.
OnlyRecoveryLeavesRecovery ==
    [][execution = "RecoveryRequired" /\ execution' # execution =>
          execution' \in {"Stopped", "Ready", "Recovering", "Running", "Faulted"}]_vars

\* Parts are completed for an Active order only: Cancelled and Completed are final.
OnlyActiveOrdersProduce == [][goodCount' # goodCount => order.status = "Active"]_vars

\* The control periods a machine that produces still needs, at one for every step: those of
\* this cycle and those of the cycles after it.  A completed order that a restart opened
\* again has one cycle left.
Producing == execution = "Starting" \/ (execution = "Running" /\ step \in CycleSteps)

StepsLeft == [MoveToPick |-> 7, Pick |-> 6, MoveToInspect |-> 5, Inspect |-> 4,
              MoveToPlace |-> 3, Place |-> 2, ReturnHome |-> 1]

PeriodsLeft == IF execution = "Starting" THEN 8 ELSE StepsLeft[step]

CyclesLeft(o) == IF o.completed < o.target THEN o.target - o.completed - 1 ELSE 0

Work == 7 * CyclesLeft(order) + PeriodsLeft

\* Nothing that leaves the machine producing gives it more to do, neither a command nor a
\* period, and every period in which its move ends leaves it less: this is why an order that
\* was started comes to its end (MachineCoordinator.cs:506-601).
WorkShrinks ==
    [][Producing /\ Producing' => Work' <= Work /\ (SettledPeriod => Work' < Work)]_vars

\* The states a machine is in while it carries out what it was told.
TransitionalStates == {"Initializing", "Homing", "Starting", "Pausing", "Stopping",
                       "Aborting", "Recovering"}

\* However the commands before it replaced one transitional state by another, the first
\* control period in which a move ends, and anything changes, brings the machine to rest or
\* into production: no transitional state hands over to another one
\* (MachineCoordinator.cs:119-175).
SettlesAtOnce ==
    [][(execution \in TransitionalStates) /\ SettledPeriod =>
          ~(execution' \in TransitionalStates)]_vars

-----------------------------------------------------------------------------
(* What the rest of the runtime may rely on about the order in the cell. *)

CellPhase ==
    CASE order = None -> "none"
      [] order # None /\ step \in CycleSteps -> "cycle"
      [] order # None /\ step \notin CycleSteps /\ execution \in {"Stopped", "Ready"} -> "rest"
      [] OTHER -> "busy"

CellTarget == IF order = None THEN 0 ELSE order.target
CellCompleted == IF order = None THEN 0 ELSE order.completed
CellOpen == order # None /\ order.status \notin {"Completed", "Cancelled"}

Cell == INSTANCE CellOrder WITH
    phase <- CellPhase, target <- CellTarget, completed <- CellCompleted, open <- CellOpen

\* Over any number of restarts a part is counted only in a production cycle that was begun
\* for an open order; the order ends at its target, and only a restart opens it again, cut
\* to its target (MachineCoordinator.cs:214-218, 547-559).
CellPromise == Cell!Spec

-----------------------------------------------------------------------------
(* Liveness. *)

\* A started order is produced to its end unless somebody interrupts it.
StartedOrderEnds == (execution = "Starting") ~> (execution \notin {"Starting", "Running"})

\* Every transitional state comes to rest: Pausing, Stopping, Homing... are not kept for ever,
\* whether or not the process ends before.
TransitionsSettle ==
    (execution \in TransitionalStates)
      ~> (execution \in {"Stopped", "Ready", "Running", "Paused", "Faulted",
                         "RecoveryRequired"})

=============================================================================
