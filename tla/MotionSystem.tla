---------------------------- MODULE MotionSystem ----------------------------
(***************************************************************************)
(* The XY motion system as its callers see it: SimulatedMotionSystem over  *)
(* two SimulatedAxis objects.  It is data with operators and has no        *)
(* behaviour of its own; the coordinator keeps one value of MotionStates.  *)
(*                                                                         *)
(* Coordinates are abstracted to the recipe position that is targeted.     *)
(* Whether the axes have arrived, and by how much they lag their command,  *)
(* is computed afresh by every control period and is never stored: those   *)
(* two readings are parameters of the coordinator's Step.                  *)
(***************************************************************************)

Axes == {"X", "Y"}

\* The four taught positions of a recipe, and every other point of the envelope.
RecipePositions == {"Home", "Pick", "Inspect", "Place"}
Positions == RecipePositions \cup {"Elsewhere"}

\* The injectable motion faults.  A frozen axis and a forced following error do
\* not change what the coordinator can read of the axis state; they only show as
\* lag or as axes that do not arrive.
MotionFaults == {"drive-fault-x", "drive-fault-y", "following-error",
                 "frozen-axis-x", "frozen-axis-y"}

\* MarkHomed and Restore treat both axes alike, so one flag stands for both.
MotionStates == [enabled : SUBSET Axes,
                 homed   : BOOLEAN,
                 faulted : SUBSET Axes,
                 target  : Positions]

PoweredOff == [enabled |-> {}, homed |-> FALSE, faulted |-> {}, target |-> "Elsewhere"]

EnableAll(m) == [m EXCEPT !.enabled = Axes \ m.faulted]

DisableAll(m) == [m EXCEPT !.enabled = {}]

SetTarget(m, position) == [m EXCEPT !.target = position]

\* The target becomes the actual position, wherever the axes are now.
Hold(m) == [m EXCEPT !.target = "Elsewhere"]

MarkHomed(m) == [m EXCEPT !.homed = TRUE]

\* Mutant: a restored position reference is trusted.
RestoreHomed(homed, target) ==
    [enabled |-> {}, homed |-> TRUE, faulted |-> {}, target |-> target]

\* Position and target are set, drives are off and every axis fault is forgotten.
Restore(homed, target) == [enabled |-> {}, homed |-> homed, faulted |-> {}, target |-> target]

\* The drive on one axis faults and drops its enable.
Trip(m, axes) == [m EXCEPT !.faulted = @ \cup axes, !.enabled = @ \ axes]

InjectMotionFault(m, fault) ==
    Trip(m, CASE fault = "drive-fault-x" -> {"X"}
              [] fault = "drive-fault-y" -> {"Y"}
              [] OTHER -> {})

\* Clearing any fault of an axis clears all of them.
ClearMotionFault(m, fault) ==
    [m EXCEPT !.faulted = @ \ (IF fault \in {"drive-fault-y", "frozen-axis-y"}
                               THEN {"Y"} ELSE {"X"})]

ClearAllFaults(m) == [m EXCEPT !.faulted = {}]

=============================================================================
