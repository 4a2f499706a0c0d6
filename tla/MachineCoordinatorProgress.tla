----------------------- MODULE MachineCoordinatorProgress -----------------------
(***************************************************************************)
(* Why an order that was started comes to its end: the part of the proof   *)
(* that is not about fairness.                                             *)
(***************************************************************************)
EXTENDS MachineCoordinatorProofs

(* The cycles after this one: none at the target, one less after every part below it. *)
LEMMA Cycles ==
    ASSUME NEW o \in ProductionOrders
    PROVE  /\ CyclesLeft(o) \in Nat
           /\ o.completed + 1 < o.target => CyclesLeft(PartRecorded(o)) = CyclesLeft(o) - 1
<1>1. o.completed \in Nat /\ o.target \in Nat
  BY DEF ProductionOrders
<1>2. /\ PartRecorded(o).completed = o.completed + 1
      /\ PartRecorded(o).target = o.target
  BY DEF PartRecorded, ProductionOrders
<1>3. QED
  BY <1>1, <1>2 DEF CyclesLeft

(* Every step of the cycle is followed by one that is nearer to its end. *)
LEMMA StepsDescend ==
    /\ \A s \in CycleSteps : StepsLeft[s] \in 1..7
    /\ \A s \in CycleSteps \ {"ReturnHome"} :
          NextStep[s] \in CycleSteps /\ StepsLeft[NextStep[s]] = StepsLeft[s] - 1
  BY DEF StepsLeft, NextStep, CycleSteps, MoveSteps, DwellSteps

(* A control period that leaves the machine producing takes work away, or waits for a move *)
(* or a dwell that has not ended.                                                          *)
LEMMA PeriodsWork ==
    ASSUME Inv, Producing, Producing',
           NEW m, NEW arrived \in BOOLEAN, NEW lagging \in BOOLEAN, NEW dwelt \in BOOLEAN,
           ControlPeriod(m, arrived, lagging, dwelt)
    PROVE  Work' <= Work /\ ((arrived \/ lagging) /\ dwelt => Work' < Work)
<1>1. /\ order \in ProductionOrders
      /\ execution = "Starting" \/ (execution = "Running" /\ step \in CycleSteps)
      /\ execution' = "Starting" \/ (execution' = "Running" /\ step' \in CycleSteps)
  BY DEF Producing, Inv, TypeOK, StartingHasOrder, CycleOwnsItsPart
<1> PICK c : c = CyclesLeft(order)
  OBVIOUS
<1> PICK p : p = PeriodsLeft
  OBVIOUS
<1>2. c \in Nat /\ p \in 1..8
  BY <1>1, Cycles, StepsDescend DEF PeriodsLeft
<1>3. ASSUME order' = order, PeriodsLeft' = p - 1
      PROVE  Work' <= Work /\ ((arrived \/ lagging) /\ dwelt => Work' < Work)
  <2>1. Work = 7 * c + p /\ Work' = 7 * c + (p - 1)
    BY <1>3 DEF Work
  <2>2. 7 * c + (p - 1) <= 7 * c + p /\ 7 * c + (p - 1) < 7 * c + p
    BY <1>2
  <2>3. QED
    BY <2>1, <2>2
<1>4. CASE FinishStarting(m)
  <2>1. order' = order /\ PeriodsLeft' = p - 1
    BY <1>4 DEF FinishStarting, Transition, PeriodsLeft, StepsLeft
  <2>2. QED
    BY <1>3, <2>1
<1>5. CASE ArriveAtStation(m) \/ LeaveStation(m)
  <2>1. /\ order' = order /\ execution = "Running" /\ execution' = "Running"
        /\ step \in CycleSteps \ {"ReturnHome"} /\ step' = NextStep[step]
    BY <1>5 DEF ArriveAtStation, LeaveStation, Transition, CycleSteps, MoveSteps, DwellSteps
  <2>2. PeriodsLeft' = p - 1
    BY <2>1, StepsDescend DEF PeriodsLeft
  <2>3. QED
    BY <1>3, <2>1, <2>2
<1>6. CASE BeginNextCycle(m)
  <2>1. /\ order' = PartRecorded(order) /\ order.completed + 1 < order.target
        /\ execution = "Running" /\ step = "ReturnHome"
        /\ execution' = "Running" /\ step' = "MoveToPick"
    BY <1>6 DEF BeginNextCycle, CompleteCycle, Transition
  <2>2. CyclesLeft(order') = c - 1
    BY <1>1, <2>1, Cycles
  <2>3. p = 1 /\ PeriodsLeft' = 7
    BY <2>1 DEF PeriodsLeft, StepsLeft
  <2>4. Work = 7 * c + 1 /\ Work' = 7 * (c - 1) + 7
    BY <2>2, <2>3 DEF Work
  <2>5. QED
    BY <1>2, <2>4
<1>7. CASE Healthy(m, lagging) /\ Wait(m, arrived, dwelt)
  <2>1. Work' = Work
    BY <1>7 DEF Wait, Work, PeriodsLeft
  <2>2. ~((arrived \/ lagging) /\ dwelt)
    BY <1>1, <1>7
       DEF Wait, Healthy, FollowedStates, CycleSteps, MoveSteps, DwellSteps
  <2>3. Work = 7 * c + p
    BY DEF Work
  <2>4. QED
    BY <1>2, <2>1, <2>2, <2>3
<1>8. QED
  BY <1>1, <1>4, <1>5, <1>6, <1>7
     DEF ControlPeriod, Proceed, LosePermission, ExceedFollowingError, RaiseFault,
         FinishInitializing, FinishHoming, FinishPausing, FinishStopping, FinishAborting,
         FinishRecovering, CompleteOrder, Transition

(* No command and no restart gives a machine that goes on producing other work. *)
LEMMA CommandsKeepWork ==
    ASSUME Inv, Producing, Producing', Command \/ ColdRestart \/ WarmRestart
    PROVE  Work' = Work
<1>1. execution \in {"Starting", "Running"} /\ execution' \in {"Starting", "Running"}
  BY DEF Producing
<1>2. UNCHANGED <<execution, step, order>>
  BY <1>1 DEF Command, ActivateRecipe, Initialize, SetMode, LoadOrder, CancelOrder, Home,
         Start, Pause, Resume, Stop, Abort, Reset, RecoverDiscard, RecoverRehome, RecoverResume,
         RecoveryPending, Jog, InjectFault, RaiseFault, ClearFault, ClearEveryFault,
         AcknowledgeAlarms, ColdRestart, WarmRestart, Transition
<1>3. QED
  BY <1>2 DEF Work, PeriodsLeft

(* The work of a machine that is producing is a number. *)
LEMMA WorkIsNatural ==
    ASSUME Inv, Producing
    PROVE  Work \in Nat
<1>1. order \in ProductionOrders /\ PeriodsLeft \in 1..8
  BY StepsDescend DEF Producing, Inv, TypeOK, StartingHasOrder, CycleOwnsItsPart, PeriodsLeft
<1>2. QED
  BY <1>1, Cycles DEF Work

(* Nothing that leaves the machine producing gives it more to do, and a control period in   *)
(* which its move ends leaves it less: an order that was started cannot go on for ever.      *)
THEOREM WorkTheorem == LifeSpec => WorkShrinks
<1>1. ASSUME Inv, Next \/ ColdRestart \/ WarmRestart, Producing, Producing'
      PROVE  Work' <= Work /\ (SettledPeriod => Work' < Work)
  <2>1. ASSUME SettledPeriod
        PROVE  Work' < Work
    <3>1. PICK arrived \in BOOLEAN, lagging \in BOOLEAN :
              (arrived \/ lagging) /\ ControlPeriod(motion, arrived, lagging, TRUE)
      BY <2>1 DEF SettledPeriod
    <3>2. QED
      BY <1>1, <3>1, PeriodsWork
  <2>2. CASE Command \/ ColdRestart \/ WarmRestart
    <3>1. Work \in Nat /\ Work' = Work
      BY <1>1, <2>2, CommandsKeepWork, WorkIsNatural
    <3>2. QED
      BY <2>1, <3>1
  <2>3. CASE Step
    <3>1. PICK tripped \in SUBSET DriveTrips, arrived \in BOOLEAN, lagging \in BOOLEAN,
               dwelt \in BOOLEAN :
              ControlPeriod(Trip(motion, tripped), arrived, lagging, dwelt)
      BY <2>3 DEF Step
    <3>2. QED
      BY <1>1, <2>1, <3>1, PeriodsWork
  <2>4. QED
    BY <1>1, <2>2, <2>3 DEF Next
<1>2. QED
  BY <1>1, InvariantTheorem, PTL DEF LifeSpec, WorkShrinks

(* A control period in which a move ends leaves every transitional state, unless it changes *)
(* nothing at all: only Pausing, Stopping and the like wait, while the following error is   *)
(* over its limit and nobody looks at it.                                                   *)
THEOREM SettlesTheorem == LifeSpec => SettlesAtOnce
<1>1. ASSUME Inv
      PROVE  [(execution \in TransitionalStates) /\ SettledPeriod =>
                 ~(execution' \in TransitionalStates)]_vars
  <2> SUFFICES ASSUME execution \in TransitionalStates, SettledPeriod, ~(UNCHANGED vars)
               PROVE  ~(execution' \in TransitionalStates)
    OBVIOUS
  <2>1. PICK arrived \in BOOLEAN, lagging \in BOOLEAN :
            ControlPeriod(motion, arrived, lagging, TRUE)
    BY DEF SettledPeriod
  <2>2. ~Wait(motion, arrived, TRUE)
    BY DEF Wait, vars
  <2>3. QED
    BY <2>1, <2>2
       DEF TransitionalStates, ControlPeriod, LosePermission, ExceedFollowingError, RaiseFault,
           Proceed, FinishInitializing, FinishHoming, FinishStarting, FinishPausing,
           FinishStopping, FinishAborting, FinishRecovering, ArriveAtStation, LeaveStation,
           CompleteOrder, BeginNextCycle, CompleteCycle, Transition
<1>2. QED
  BY <1>1, InvariantTheorem, PTL DEF LifeSpec, SettlesAtOnce

=============================================================================
