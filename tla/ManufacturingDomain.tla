------------------------ MODULE ManufacturingDomain ------------------------
(***************************************************************************)
(* The domain objects the coordinator owns: ProductionOrder and the        *)
(* lifecycle of an AlarmRecord.  Both are data with operators.             *)
(***************************************************************************)
EXTENDS Integers

CONSTANTS
    OrderIds,       \* order identifiers
    Recipes,        \* recipe revisions (identifier and revision together)
    MaxQuantity,    \* the largest quantity an order may ask for (100000 in the code)
    None            \* the null reference

ASSUME QuantityAssumption == MaxQuantity \in Nat \ {0}

OrderStatuses == {"Queued", "Active", "Paused", "Completed", "Cancelled"}

\* completed is compared with target but nothing in the class stops it at target.
ProductionOrders == [id : OrderIds, recipe : Recipes, target : 1..MaxQuantity,
                     completed : Nat, status : OrderStatuses]

NewOrder(id, recipe, quantity) ==
    [id |-> id, recipe |-> recipe, target |-> quantity, completed |-> 0, status |-> "Queued"]

Activated(o) == [o EXCEPT !.status = "Active"]

Paused(o) == [o EXCEPT !.status = IF @ = "Active" THEN "Paused" ELSE @]

Resumed(o) == [o EXCEPT !.status = IF @ = "Paused" THEN "Active" ELSE @]

Cancelled(o) == [o EXCEPT !.status = "Cancelled"]

\* Mutant: the order ends with the part after the last one.
PartRecordedLate(o) ==
    [o EXCEPT !.completed = @ + 1,
              !.status = IF o.completed + 1 <= o.target THEN @ ELSE "Completed"]

\* The completed part that reaches the target, or passes it, completes the order.
PartRecorded(o) ==
    [o EXCEPT !.completed = @ + 1,
              !.status = IF o.completed + 1 < o.target THEN @ ELSE "Completed"]

\* The calls the coordinator makes through `_order?.`: nothing happens without an order.
OrderPaused(o) == IF o = None THEN None ELSE Paused(o)
OrderResumed(o) == IF o = None THEN None ELSE Resumed(o)

\* A part is named after its order and its number in that order.
Parts == OrderIds \X (Nat \ {0})

\* Mutant: the number of the last part counted, not of the next one.
LastPart(o) == <<o.id, o.completed>>

NextPart(o) == <<o.id, o.completed + 1>>

\* Mutant: the restored count is taken as it is.
Unclamped(completed, target) == completed

\* The clamp of ProductionOrder.Restore.
Clamped(completed, target) == IF completed > target THEN target ELSE completed

-----------------------------------------------------------------------------
AlarmCodes == {"MOTION_PERMISSION_LOST", "FOLLOWING_ERROR", "INJECTED_FAULT"}

AlarmLifecycles ==
    {"ActiveUnacknowledged", "ActiveAcknowledged", "ClearedUnacknowledged", "Historical"}

ActiveLifecycles == {"ActiveUnacknowledged", "ActiveAcknowledged"}

Acknowledged(lifecycle) ==
    CASE lifecycle = "ActiveUnacknowledged"  -> "ActiveAcknowledged"
      [] lifecycle = "ClearedUnacknowledged" -> "Historical"
      [] OTHER -> lifecycle

Cleared(lifecycle) ==
    IF lifecycle = "ActiveAcknowledged" THEN "Historical" ELSE "ClearedUnacknowledged"

=============================================================================
