--------------------------- MODULE ResultDelivery ---------------------------
(***************************************************************************)
(* How the result of a completed part reaches the MES: the control loop of *)
(* MachineRuntimeService writes the event to the outbox and then the       *)
(* checkpoint, OutboxDeliveryService hands the pending events to a         *)
(* manufacturing gateway, and a restart goes on from the checkpoint.  Both *)
(* services are cut where they await, and the process may end there.       *)
(*                                                                         *)
(* The cell is what MachineCoordinator promises of it: its steps are those *)
(* of CellOrder.  Left out: the journals, the other events, health checks  *)
(* and the growing delay.                                                  *)
(***************************************************************************)
EXTENDS Naturals, Sequences, FiniteSets

CONSTANTS
    Quantity,        \* the parts of the order
    Gateways,        \* the configured gateways: "Http", "File"
    PageSize,        \* how many pending events are read at once
    MaxEvents,       \* bound: completed parts
    MaxCrashes,      \* bound: ends of the process
    MaxFaults,       \* bound: failed deliveries and outages of the MES
    None             \* no checkpoint

VARIABLES
    gateway,
    up,              \* the runtime process is alive
    cell, completed, \* the order and its counted parts: see CellOrder
    open,
    made,            \* history: the part of every completion event, in order
    loop,            \* the control loop: between periods, or what it awaits
    checkpoint,
    pending, delivered,      \* the outbox: events by their place in made
    attempt, batch, sending, \* the delivery service
    abandoned,       \* requests under way that nobody waits for any more
    mesUp,           \* the MES takes results; the file gateway's marker is absent
    records,         \* the MES's records of each event
    receipts,        \* the file gateway's receipts
    crashes, faults

cellVars == <<cell, completed, open, made, loop, checkpoint>>
outbox == <<pending, delivered>>
deliveryVars == <<attempt, batch, sending, abandoned>>
mesVars == <<mesUp, records, receipts>>
vars == <<gateway, up, cellVars, outbox, deliveryVars, mesVars, crashes, faults>>

Events == 1..MaxEvents

Cell == INSTANCE CellOrder WITH
    phase <- cell, target <- Quantity, completed <- completed, open <- open

Cells == {"none", "rest", "busy", "cycle"}

\* A restart may have let the order make one part too many: see CellOrder.
Parts == 1..(Quantity + 1)

Checkpoints == [completed : {0} \cup Parts, cell : Cells]

Loops == {"idle", "events", "saving", "clearing"}

Attempts == {"delay", "batch", "sending", "appended", "accepted"}

ASSUME DeliveryAssumption ==
    /\ Gateways \subseteq {"Http", "File"}
    /\ Quantity \in Nat \ {0} /\ PageSize \in Nat \ {0}
    /\ MaxEvents \in Nat /\ MaxCrashes \in Nat /\ MaxFaults \in Nat
    /\ None \notin Checkpoints

TypeOK ==
    /\ gateway \in Gateways
    /\ up \in BOOLEAN
    /\ cell \in Cells
    /\ completed \in {0} \cup Parts
    /\ open \in BOOLEAN
    /\ made \in Seq(Parts) /\ Len(made) <= MaxEvents
    /\ loop \in Loops
    /\ checkpoint \in Checkpoints \cup {None}
    /\ pending \subseteq Events /\ delivered \subseteq Events
    /\ attempt \in Attempts
    /\ batch \subseteq Events
    /\ sending \in Events \cup {0}
    /\ abandoned \in [Events -> Nat]
    /\ mesUp \in BOOLEAN
    /\ records \in [Events -> Nat]
    /\ receipts \subseteq Events
    /\ crashes \in 0..MaxCrashes /\ faults \in 0..MaxFaults

Init ==
    /\ gateway \in Gateways
    /\ up = TRUE
    /\ cell = "rest" /\ completed = 0 /\ open = TRUE /\ made = << >>
    /\ loop = "idle" /\ checkpoint = None
    /\ pending = {} /\ delivered = {}
    /\ attempt = "delay" /\ batch = {} /\ sending = 0
    /\ abandoned = [e \in Events |-> 0]
    /\ mesUp = TRUE
    /\ records = [e \in Events |-> 0] /\ receipts = {}
    /\ crashes = 0 /\ faults = 0

-----------------------------------------------------------------------------
(* The cell and the control loop *)

\* Operators start, stop, recover and cancel, whatever the loop awaits; what they began ends
\* in a later period.
Command ==
    /\ up
    /\ Cell!LeaveCycle \/ Cell!CancelOrder
    /\ UNCHANGED <<gateway, up, made, loop, checkpoint, outbox, deliveryVars, mesVars,
                   crashes, faults>>

BeginCycle ==
    /\ up /\ loop = "idle"
    /\ Cell!BeginCycle
    /\ UNCHANGED <<gateway, up, made, loop, checkpoint, outbox, deliveryVars, mesVars,
                   crashes, faults>>

\* A period that completes a part.  Its event has an identifier of its own.
CompleteCycle ==
    /\ up /\ loop = "idle"
    /\ Len(made) < MaxEvents
    /\ Cell!CompleteCycle
    /\ made' = Append(made, completed')
    /\ loop' = "events"
    /\ UNCHANGED <<gateway, up, checkpoint, outbox, deliveryVars, mesVars, crashes, faults>>

EnqueueAsync ==
    /\ up /\ loop = "events"
    /\ pending' = pending \cup {Len(made)}
    /\ loop' = "saving"
    /\ UNCHANGED <<gateway, up, cell, completed, open, made, checkpoint, delivered, deliveryVars,
                   mesVars, crashes, faults>>

\* MUTANT of MaySave: a timer of its own, that does not wait for the loop.
MaySaveAnytime == TRUE

\* A checkpoint is requested by the events of a period, or due.
MaySave == loop \in {"idle", "saving"}

\* A period that completed the order found the machine Ready and without a part.
SaveCheckpoint ==
    /\ up /\ MaySave
    /\ checkpoint' = [completed |-> completed, cell |-> cell]
    /\ loop' = CASE loop = "saving" /\ completed < Quantity -> "idle"
                 [] loop = "saving" /\ completed >= Quantity -> "clearing"
                 [] OTHER -> loop
    /\ UNCHANGED <<gateway, up, cell, completed, open, made, outbox, deliveryVars, mesVars,
                   crashes, faults>>

\* Any other period that ends in Stopped or Ready, without a part ...
FindStable ==
    /\ up /\ loop = "idle" /\ checkpoint # None
    /\ cell \in {"none", "rest"}
    /\ loop' = "clearing"
    /\ UNCHANGED <<gateway, up, cell, completed, open, made, checkpoint, outbox, deliveryVars,
                   mesVars, crashes, faults>>

\* ... clears the checkpoint, whatever was commanded since.
ClearCheckpoint ==
    /\ up /\ loop = "clearing"
    /\ checkpoint' = None
    /\ loop' = "idle"
    /\ UNCHANGED <<gateway, up, cell, completed, open, made, outbox, deliveryVars, mesVars,
                   crashes, faults>>

-----------------------------------------------------------------------------
(* The delivery service, the gateways and the MES *)

ReadPendingAsync ==
    /\ up /\ attempt = "delay"
    /\ pending # {}
    /\ batch' \in {b \in SUBSET pending :
                     b = pending \/ (Cardinality(b) = PageSize /\ Cardinality(pending) > PageSize)}
    /\ attempt' = "batch"
    /\ UNCHANGED <<gateway, up, cellVars, outbox, sending, abandoned, mesVars, crashes, faults>>

Deliver ==
    /\ up /\ attempt = "batch"
    /\ \E e \in batch : sending' = e /\ batch' = batch \ {e}
    /\ attempt' = "sending"
    /\ UNCHANGED <<gateway, up, cellVars, outbox, abandoned, mesVars, crashes, faults>>

\* MUTANT of GiveUp: the exception ends the service.
GiveUpForGood == attempt' = "ended" /\ batch' = {} /\ sending' = 0

\* The rest of the batch waits for the next round.
GiveUp == attempt' = "delay" /\ batch' = {} /\ sending' = 0

\* MUTANT of TryAddResult: the key is not looked up.
AddResult(e) == records' = [records EXCEPT ![e] = @ + 1]

\* The MES records a result once for its key and answers a repeated one with a conflict,
\* which the gateway takes for success.
TryAddResult(e) == records' = [records EXCEPT ![e] = 1]

\* MUTANT of Answer: an answer of any kind is taken for success.
AnyAnswer == attempt' = "accepted" /\ UNCHANGED <<batch, sending>>

\* 503 while the MES is offline.
Answer == IF mesUp THEN attempt' = "accepted" /\ UNCHANGED <<batch, sending>> ELSE GiveUp

HttpDeliver ==
    /\ up /\ gateway = "Http" /\ attempt = "sending"
    /\ IF mesUp THEN TryAddResult(sending) ELSE UNCHANGED records
    /\ Answer
    /\ UNCHANGED <<gateway, up, cellVars, outbox, abandoned, mesUp, receipts, crashes, faults>>

\* A request that timed out, or whose sender has ended, still arrives, or is dropped.
LateRequest(e) ==
    /\ abandoned[e] > 0
    /\ abandoned' = [abandoned EXCEPT ![e] = @ - 1]
    /\ UNCHANGED records \/ (mesUp /\ TryAddResult(e))
    /\ UNCHANGED <<gateway, up, cellVars, outbox, attempt, batch, sending, mesUp, receipts,
                   crashes, faults>>

\* The file gateway's line, unless it has a receipt for the event ...
FileAppend ==
    /\ up /\ gateway = "File" /\ attempt = "sending"
    /\ \/ /\ mesUp /\ sending \notin receipts
          /\ records' = [records EXCEPT ![sending] = @ + 1]
          /\ attempt' = "appended" /\ UNCHANGED <<batch, sending>>
       \/ /\ ~mesUp \/ sending \in receipts
          /\ Answer
          /\ UNCHANGED records
    /\ UNCHANGED <<gateway, up, cellVars, outbox, abandoned, mesUp, receipts, crashes, faults>>

\* ... and then the receipt.
FileReceipt ==
    /\ up /\ attempt = "appended"
    /\ receipts' = receipts \cup {sending}
    /\ attempt' = "accepted"
    /\ UNCHANGED <<gateway, up, cellVars, outbox, batch, sending, abandoned, mesUp, records,
                   crashes, faults>>

MarkDeliveredAsync ==
    /\ up /\ attempt = "accepted"
    /\ pending' = pending \ {sending}
    /\ delivered' = delivered \cup {sending}
    /\ sending' = 0
    /\ attempt' = IF batch = {} THEN "delay" ELSE "batch"
    /\ UNCHANGED <<gateway, up, cellVars, batch, abandoned, mesVars, crashes, faults>>

\* A request whose answer nobody will read.
Abandon ==
    abandoned' = IF gateway = "Http" /\ attempt = "sending"
                 THEN [abandoned EXCEPT ![sending] = @ + 1]
                 ELSE abandoned

\* A timeout, a lost answer, or a file operation that throws.
DeliveryFails ==
    /\ up /\ attempt \in {"sending", "appended", "accepted"}
    /\ faults < MaxFaults /\ faults' = faults + 1
    /\ Abandon
    /\ GiveUp
    /\ UNCHANGED <<gateway, up, cellVars, outbox, mesVars, crashes>>

MesOffline ==
    /\ mesUp /\ mesUp' = FALSE
    /\ faults < MaxFaults /\ faults' = faults + 1
    /\ UNCHANGED <<gateway, up, cellVars, outbox, deliveryVars, records, receipts, crashes>>

MesOnline ==
    /\ ~mesUp /\ mesUp' = TRUE
    /\ UNCHANGED <<gateway, up, cellVars, outbox, deliveryVars, records, receipts, crashes,
                   faults>>

-----------------------------------------------------------------------------
(* The end of the process and the next start *)

Crash ==
    /\ up /\ up' = FALSE
    /\ crashes < MaxCrashes /\ crashes' = crashes + 1
    /\ cell' = "none" /\ completed' = 0 /\ open' = FALSE /\ loop' = "idle"
    /\ Abandon
    /\ GiveUp
    /\ UNCHANGED <<gateway, made, checkpoint, outbox, mesVars, faults>>

\* MUTANT of RestoreCheckpoint: the count of the order is lost.
RestoreOrder == Cell!Restore(checkpoint.cell, 0)

RestoreCheckpoint == Cell!Restore(checkpoint.cell, checkpoint.completed)

\* The checkpoint was written while the machine was neither Stopped nor Ready.
Interrupted == checkpoint # None /\ checkpoint.cell \in {"busy", "cycle"}

\* Any other checkpoint is ignored, and its order with it.
Restart ==
    /\ ~up /\ up' = TRUE
    /\ IF Interrupted THEN RestoreCheckpoint ELSE UNCHANGED <<cell, completed, open>>
    /\ UNCHANGED <<gateway, made, loop, checkpoint, outbox, deliveryVars, mesVars, crashes,
                   faults>>

-----------------------------------------------------------------------------

Loop ==
    \/ Command
    \/ BeginCycle
    \/ CompleteCycle
    \/ EnqueueAsync
    \/ SaveCheckpoint
    \/ FindStable
    \/ ClearCheckpoint

Delivery ==
    \/ ReadPendingAsync
    \/ Deliver
    \/ HttpDeliver
    \/ FileAppend
    \/ FileReceipt
    \/ MarkDeliveredAsync

Environment ==
    \/ \E e \in Events : LateRequest(e)
    \/ DeliveryFails
    \/ MesOffline
    \/ MesOnline
    \/ Crash
    \/ Restart

Next == Loop \/ Delivery \/ Environment

Spec == Init /\ [][Next]_vars

\* The delivery service goes round, the MES comes back and the process is started again.
\* Production need not go on, and nothing has to fail.
FairSpec == Spec /\ WF_vars(Delivery) /\ WF_vars(MesOnline) /\ WF_vars(Restart)

-----------------------------------------------------------------------------
(* Properties *)

\* A result is recorded only once it is in the outbox, it leaves the pending ones only
\* once it is recorded, and none is lost, over every crash and every kept, lost or late
\* answer (MachineRuntimeServices.cs:111-113, 202-207).
Ledger == INSTANCE ResultLedger WITH
    Results <- Events, made <- pending \cup delivered,
    recorded <- {e \in Events : records[e] > 0}, settled <- delivered

OutboxPromise == Ledger!Spec

\* Retries, late requests and restarts leave one record of a result; the file gateway adds
\* at most one for every crash and every failed delivery (FileStores.cs:413-416).
RecordedOnce ==
    \A e \in Events : records[e] <= 1 + (IF gateway = "File" THEN crashes + faults ELSE 0)

\* A part that the checkpoint counts has its result in the outbox, so that no restart goes
\* on behind a result that was never written (MachineRuntimeServices.cs:113 before 129).
CheckpointAfterOutbox ==
    checkpoint # None =>
        \A part \in 1..checkpoint.completed :
            \E e \in pending \cup delivered : e <= Len(made) /\ made[e] = part

\* A crash makes the cell repeat at most one part that it had already completed.
CrashRepeatsOnePart ==
    Len(made) <= Cardinality({made[e] : e \in 1..Len(made)}) + crashes

\* Every result in the outbox is delivered in the end.
ResultsDelivered == \A e \in Events : e \in pending ~> e \in delivered

\* VIOLATED.  README.md:319 "The outbox ensures completed-cycle results can be retried
\* without creating duplicate MES records": with the file gateway, a retry after a crash or
\* an exception between the line and the receipt (FileStores.cs:415-416) repeats the line.
RetriesLeaveNoDuplicates == \A e \in Events : records[e] <= 1

=============================================================================
