------------------------ MODULE ResultDeliveryProofs ------------------------
(* The safety of ResultDelivery, and that it keeps the outbox's promise, for *)
(* any order, page size and number of crashes and faults.                    *)
EXTENDS ResultDelivery, FiniteSetTheorems, SequenceTheorems, TLAPS

\* The parts that have a result in the outbox.
Written == pending \cup delivered
Reported(part) == \E e \in Written : e <= Len(made) /\ made[e] = part

\* The order: a part is counted before its event is written only while the loop handles
\* the events, and a part is begun, or may be begun, only within the target.
OrderInv ==
    /\ ~up => loop = "idle" /\ cell = "none" /\ completed = 0 /\ open = FALSE
    /\ open \/ cell = "cycle" => completed <= Quantity
    /\ loop = "events" => Len(made) > 0 /\ made[Len(made)] = completed
    /\ \A part \in 1..completed : Reported(part) \/ (loop = "events" /\ part = completed)
    /\ CheckpointAfterOutbox

\* The delivery service works on what is pending.
AttemptInv ==
    /\ attempt \in {"sending", "appended", "accepted"} => sending \in pending
    /\ attempt \in {"delay", "batch"} => sending = 0
    /\ batch \subseteq pending /\ sending \notin batch
    /\ attempt = "appended" => gateway = "File"
    /\ \A e \in Events : abandoned[e] > 0 => e \in Written /\ gateway = "Http"

\* What the acknowledgements say is so.
RecordInv ==
    /\ \A e \in Events : records[e] > 0 => e \in Written
    /\ \A e \in delivered \cup receipts : records[e] > 0
    /\ attempt \in {"appended", "accepted"} => records[sending] > 0

\* A line of the file gateway without a receipt is being given one, or costs a fault.
Acknowledged(e) == e \in receipts \/ (attempt = "appended" /\ sending = e)
CountInv ==
    \A e \in Events :
        /\ gateway = "Http" => records[e] <= 1
        /\ gateway = "File" =>
              /\ Acknowledged(e) => records[e] <= 1 + crashes + faults
              /\ ~Acknowledged(e) => records[e] <= crashes + faults

Inv == TypeOK /\ OrderInv /\ AttemptInv /\ RecordInv /\ CountInv

-----------------------------------------------------------------------------
(* Types *)

\* The invariant holds at the start.
LEMMA InitInv == ASSUME Init PROVE Inv
<1>1. TypeOK
      BY DeliveryAssumption DEF Init, TypeOK, Events, Cells, Loops, Attempts
<1>2. OrderInv
      BY DeliveryAssumption DEF Init, OrderInv, CheckpointAfterOutbox
<1>3. AttemptInv /\ RecordInv
      BY DEF Init, AttemptInv, RecordInv
<1>4. CountInv
      BY DeliveryAssumption DEF Init, CountInv, Acknowledged
<1>5. QED
      BY <1>1, <1>2, <1>3, <1>4 DEF Inv

\* The control loop keeps the types; a part completes within the target.
LEMMA LoopType ==
    ASSUME Inv, Loop
    PROVE  TypeOK'
<1> USE DeliveryAssumption DEF TypeOK, Cells, Loops, outbox, deliveryVars, mesVars
<1>1. CASE Command
      BY <1>1 DEF Inv, Command, Cell!LeaveCycle, Cell!CancelOrder
<1>2. CASE BeginCycle
      BY <1>2 DEF Inv, BeginCycle, Cell!BeginCycle
<1>3. CASE CompleteCycle
      <2>1. /\ completed \in Nat /\ completed <= Quantity /\ completed' = completed + 1
            /\ cell' \in Cells /\ open' \in BOOLEAN
            BY <1>3 DEF Inv, OrderInv, Parts, CompleteCycle, Cell!CompleteCycle
      <2>2. completed' \in Parts
            BY <2>1 DEF Parts
      <2>3. made' \in Seq(Parts) /\ Len(made') = Len(made) + 1
            BY <1>3, <2>2 DEF Inv, CompleteCycle
      <2>4. QED
            BY <1>3, <2>1, <2>2, <2>3 DEF Inv, CompleteCycle
<1>4. CASE EnqueueAsync
      <2>1. Len(made) \in Events
            BY <1>4 DEF Inv, OrderInv, EnqueueAsync, Events
      <2>2. QED
            BY <1>4, <2>1 DEF Inv, EnqueueAsync
<1>5. CASE SaveCheckpoint
      <2>1. checkpoint' \in Checkpoints
            BY <1>5 DEF Inv, SaveCheckpoint, Checkpoints
      <2>2. loop' \in Loops
            BY <1>5 DEF Inv, SaveCheckpoint, Parts
      <2>3. QED
            BY <1>5, <2>1, <2>2 DEF Inv, SaveCheckpoint
<1>6. CASE FindStable \/ ClearCheckpoint
      BY <1>6 DEF Inv, FindStable, ClearCheckpoint
<1>7. QED
      BY <1>1, <1>2, <1>3, <1>4, <1>5, <1>6 DEF Loop

\* One entry of a count changes; the event may be none.
LEMMA EntryType ==
    ASSUME NEW f \in [Events -> Nat], NEW e, NEW n, e \in Events => n \in Nat
    PROVE  [f EXCEPT ![e] = n] \in [Events -> Nat]
OBVIOUS

\* The delivery service keeps the types.
LEMMA DeliveryType ==
    ASSUME Inv, Delivery
    PROVE  TypeOK'
<1> USE DeliveryAssumption DEF TypeOK, Attempts, cellVars, outbox, mesVars
<1>0. sending \in {0} \cup Events
      BY DEF Inv
<1>1. CASE ReadPendingAsync
      BY <1>1 DEF Inv, ReadPendingAsync
<1>2. CASE Deliver
      BY <1>2 DEF Inv, Deliver
<1>3. CASE HttpDeliver
      <2>1. records' \in [Events -> Nat]
            <3>1. records \in [Events -> Nat]
                  BY DEF Inv
            <3>2. UNCHANGED records \/ records' = [records EXCEPT ![sending] = 1]
                  BY <1>3 DEF HttpDeliver, TryAddResult
            <3>3. QED
                  BY <3>1, <3>2, EntryType
      <2>2. QED
            BY <1>3, <2>1 DEF Inv, HttpDeliver, Answer, GiveUp
<1>4. CASE FileAppend
      <2>1. records' \in [Events -> Nat]
            <3>1. records \in [Events -> Nat]
                  BY DEF Inv
            <3>2. CASE UNCHANGED records
                  BY <3>1, <3>2
            <3>3. CASE records' = [records EXCEPT ![sending] = @ + 1]
                  BY <3>1, <3>3, EntryType
            <3>4. QED
                  BY <1>4, <3>2, <3>3 DEF FileAppend
      <2>2. QED
            BY <1>4, <2>1 DEF Inv, FileAppend, Answer, GiveUp
<1>5. CASE FileReceipt
      BY <1>5 DEF Inv, AttemptInv, FileReceipt
<1>6. CASE MarkDeliveredAsync
      BY <1>6 DEF Inv, AttemptInv, MarkDeliveredAsync
<1>7. QED
      BY <1>1, <1>2, <1>3, <1>4, <1>5, <1>6 DEF Delivery

\* An abandoned request is an event's, or there is none.
LEMMA AbandonType ==
    ASSUME TypeOK, Abandon
    PROVE  abandoned' \in [Events -> Nat]
<1>1. abandoned \in [Events -> Nat]
      BY DEF TypeOK
<1>2. CASE UNCHANGED abandoned
      BY <1>1, <1>2
<1>3. CASE abandoned' = [abandoned EXCEPT ![sending] = @ + 1]
      BY <1>1, <1>3, EntryType
<1>4. QED
      BY <1>2, <1>3 DEF Abandon

\* Faults, crashes and restarts keep the types.
LEMMA EnvironmentType ==
    ASSUME Inv, Environment
    PROVE  TypeOK'
<1> USE DeliveryAssumption DEF TypeOK, cellVars, outbox, deliveryVars, mesVars
<1>1. ASSUME NEW e \in Events, LateRequest(e)
      PROVE  TypeOK'
      <2>1. abandoned' \in [Events -> Nat]
            BY <1>1 DEF Inv, LateRequest
      <2>2. records' \in [Events -> Nat]
            <3>1. records \in [Events -> Nat]
                  BY DEF Inv
            <3>2. UNCHANGED records \/ records' = [records EXCEPT ![e] = 1]
                  BY <1>1 DEF LateRequest, TryAddResult
            <3>3. QED
                  BY <3>1, <3>2, EntryType
      <2>3. QED
            BY <1>1, <2>1, <2>2 DEF Inv, LateRequest
<1>2. CASE DeliveryFails
      BY <1>2, AbandonType DEF Inv, DeliveryFails, GiveUp, Attempts
<1>3. CASE MesOffline \/ MesOnline
      <2>1. faults' \in 0..MaxFaults
            BY <1>3 DEF Inv, MesOffline, MesOnline
      <2>2. mesUp' \in BOOLEAN
            BY <1>3 DEF MesOffline, MesOnline
      <2>3. QED
            BY <1>3, <2>1, <2>2 DEF Inv, MesOffline, MesOnline
<1>4. CASE Crash
      <2>1. crashes' \in 0..MaxCrashes
            BY <1>4 DEF Inv, Crash
      <2>2. up' \in BOOLEAN /\ cell' \in Cells /\ loop' \in Loops
            BY <1>4 DEF Crash, Cells, Loops
      <2>3. completed' \in {0} \cup Parts /\ open' \in BOOLEAN
            BY <1>4 DEF Crash
      <2>4. attempt' \in Attempts /\ batch' \subseteq Events /\ sending' \in Events \cup {0}
            BY <1>4 DEF Crash, GiveUp, Attempts
      <2>5. abandoned' \in [Events -> Nat]
            BY <1>4, AbandonType DEF Inv, Crash
      <2>6. QED
            BY <1>4, <2>1, <2>2, <2>3, <2>4, <2>5 DEF Inv, Crash
<1>5. CASE Restart
      <2>1. CASE UNCHANGED <<cell, completed, open>>
            BY <1>5, <2>1 DEF Inv, Restart
      <2>2. CASE Interrupted /\ RestoreCheckpoint
            <3>1. /\ checkpoint.completed \in {0} \cup Parts
                  /\ completed' \in {Quantity, checkpoint.completed}
                  /\ cell' \in Cells /\ open' \in BOOLEAN
                  BY <2>2 DEF Inv, Interrupted, RestoreCheckpoint, Cell!Restore, Checkpoints, Cells
            <3>2. Quantity \in Parts
                  BY DEF Parts
            <3>3. QED
                  BY <1>5, <3>1, <3>2 DEF Inv, Restart
      <2>3. QED
            BY <1>5, <2>1, <2>2 DEF Restart
<1>6. QED
      BY <1>1, <1>2, <1>3, <1>4, <1>5 DEF Environment

-----------------------------------------------------------------------------
(* The order *)

\* What is written stays written, and the parts of earlier events stay what they are.
LEMMA ReportedStays ==
    ASSUME Inv, Next, NEW part, Reported(part)
    PROVE  Reported(part)'
<1>1. PICK e \in Written : e <= Len(made) /\ made[e] = part
      BY DEF Reported
<1>2. Written \subseteq Written'
      BY DEF Next, Loop, Delivery, Environment, Written, outbox,
             Command, BeginCycle, CompleteCycle, EnqueueAsync, SaveCheckpoint, FindStable,
             ClearCheckpoint,
             ReadPendingAsync, Deliver, HttpDeliver, FileAppend, FileReceipt,
             MarkDeliveredAsync, LateRequest, DeliveryFails, MesOffline, MesOnline, Crash,
             Restart
<1>3. made' = made \/ made' = Append(made, completed')
      BY DEF Next, Loop, Delivery, Environment, cellVars,
             Command, BeginCycle, CompleteCycle, EnqueueAsync, SaveCheckpoint, FindStable,
             ClearCheckpoint,
             ReadPendingAsync, Deliver, HttpDeliver, FileAppend, FileReceipt,
             MarkDeliveredAsync, LateRequest, DeliveryFails, MesOffline, MesOnline, Crash,
             Restart
<1>4. e <= Len(made') /\ made'[e] = part
      <2>1. made \in Seq(Parts) /\ e \in 1..Len(made)
            BY <1>1 DEF Inv, TypeOK, Written, Events
      <2>2. QED
            BY <1>1, <1>3, <2>1
<1>5. QED
      BY <1>1, <1>2, <1>4 DEF Reported

\* A step beside the cell and the loop: what was reported stays reported.
LEMMA OrderUnchanged ==
    ASSUME Inv, Next, UNCHANGED cellVars, up' \/ UNCHANGED up
    PROVE  OrderInv'
BY ReportedStays
DEF Inv, OrderInv, CheckpointAfterOutbox, Reported, Written, cellVars

\* Every step keeps the order's invariant.
LEMMA OrderStep ==
    ASSUME Inv, Next
    PROVE  OrderInv'
<1>a. /\ completed \in Nat /\ completed <= Quantity + 1 /\ Quantity \in Nat
      /\ made \in Seq(Parts)
      /\ checkpoint # None => checkpoint.completed \in Nat
      BY DeliveryAssumption DEF Inv, TypeOK, Checkpoints, Parts
<1>b. \A part : Reported(part) => Reported(part)'
      BY ReportedStays
<1>c. checkpoint # None => \A part \in 1..checkpoint.completed : Reported(part)
      BY DEF Inv, OrderInv, CheckpointAfterOutbox, Reported, Written
<1>d. ASSUME checkpoint' = checkpoint \/ checkpoint' = None
      PROVE  CheckpointAfterOutbox'
      BY <1>b, <1>c, <1>d DEF CheckpointAfterOutbox, Reported, Written
<1>e. CASE UNCHANGED cellVars /\ (up' \/ UNCHANGED up)
      BY <1>e, OrderUnchanged
<1>1. CASE Command \/ BeginCycle
      <2>1. UNCHANGED <<completed, made, loop, checkpoint>> /\ up /\ up'
            BY <1>1 DEF Command, Cell!LeaveCycle, Cell!CancelOrder, BeginCycle, Cell!BeginCycle
      <2>2. open' \/ cell' = "cycle" => open \/ cell = "cycle"
            BY <1>1 DEF Command, Cell!LeaveCycle, Cell!CancelOrder, BeginCycle, Cell!BeginCycle
      <2>3. open' \/ cell' = "cycle" => completed' <= Quantity
            BY <2>1, <2>2 DEF Inv, OrderInv
      <2>4. QED
            BY <1>b, <1>d, <2>1, <2>3 DEF Inv, OrderInv
<1>2. CASE CompleteCycle
      <2>1. completed <= Quantity /\ completed' = completed + 1
            BY <1>2 DEF Inv, OrderInv, CompleteCycle, Cell!CompleteCycle
      <2>2. made' = Append(made, completed') /\ loop = "idle" /\ loop' = "events"
            BY <1>2 DEF CompleteCycle
      <2>3. open' \/ cell' = "cycle" => completed' <= Quantity
            <3>1. open' \/ cell' = "cycle" => completed' < Quantity
                  BY <1>2 DEF CompleteCycle, Cell!CompleteCycle
            <3>2. \A n \in Nat : n < Quantity => n <= Quantity
                  BY <1>a
            <3>3. completed' \in Nat
                  BY <1>a, <2>1
            <3>4. QED
                  BY <3>1, <3>2, <3>3
      <2>4. Len(made') > 0 /\ made'[Len(made')] = completed'
            <3>1. completed' \in Parts
                  BY <1>a, <2>1 DEF Parts
            <3>2. QED
                  BY <1>a, <2>2, <3>1
      <2>5. \A part \in 1..completed : Reported(part)
            BY <2>2 DEF Inv, OrderInv
      <2>6. \A part \in 1..completed' : Reported(part)' \/ part = completed'
            BY <1>a, <1>b, <2>1, <2>5
      <2>7. checkpoint' = checkpoint /\ up'
            BY <1>2 DEF CompleteCycle
      <2>8. QED
            BY <1>d, <2>2, <2>3, <2>4, <2>6, <2>7 DEF OrderInv
<1>3. CASE EnqueueAsync
      <2>1. Len(made) > 0 /\ made[Len(made)] = completed
            BY <1>3 DEF Inv, OrderInv, EnqueueAsync
      <2>2. pending' = pending \cup {Len(made)} /\ loop' = "saving"
            BY <1>3 DEF EnqueueAsync
      <2>3. UNCHANGED <<cell, completed, open, made, checkpoint, delivered>> /\ up'
            BY <1>3 DEF EnqueueAsync
      <2>4. Reported(completed)'
            BY <1>a, <2>1, <2>2, <2>3 DEF Reported, Written
      <2>5. \A part \in 1..completed' : Reported(part)'
            BY <1>b, <2>3, <2>4 DEF Inv, OrderInv
      <2>6. QED
            BY <1>d, <2>2, <2>3, <2>5 DEF Inv, OrderInv
<1>4. CASE SaveCheckpoint
      <2>1. /\ loop \in {"idle", "saving"}
            /\ checkpoint' = [completed |-> completed, cell |-> cell]
            /\ loop' # "events"
            BY <1>4 DEF SaveCheckpoint, MaySave
      <2>2. UNCHANGED <<cell, completed, open, made, Written>> /\ up'
            BY <1>4 DEF SaveCheckpoint, outbox, Written
      <2>3. \A part \in 1..completed : Reported(part)
            BY <2>1 DEF Inv, OrderInv
      <2>4. \A part \in 1..completed : Reported(part)'
            BY <1>b, <2>3
      <2>5. checkpoint'.completed = completed
            BY <2>1
      <2>6. CheckpointAfterOutbox'
            BY <2>4, <2>5 DEF CheckpointAfterOutbox, Reported, Written
      <2>7. QED
            BY <2>1, <2>2, <2>4, <2>6 DEF Inv, OrderInv
<1>5. CASE FindStable \/ ClearCheckpoint
      <2>1. /\ UNCHANGED <<cell, completed, open, made>> /\ up'
            /\ checkpoint' \in {checkpoint, None}
            /\ loop # "events" /\ loop' # "events"
            BY <1>5 DEF FindStable, ClearCheckpoint
      <2>2. QED
            BY <1>b, <1>d, <2>1 DEF Inv, OrderInv
<1>6. CASE Crash
      <2>1. /\ cell' = "none" /\ completed' = 0 /\ open' = FALSE /\ loop' = "idle"
            /\ UNCHANGED checkpoint
            BY <1>6 DEF Crash
      <2>2. \A part \in 1..completed' : FALSE
            BY <2>1
      <2>3. QED
            BY <1>d, <2>1, <2>2 DEF OrderInv
<1>7. CASE Restart
      <2>1. UNCHANGED <<made, loop, checkpoint>> /\ up' /\ loop' # "events"
            BY <1>7 DEF Restart, Inv, OrderInv
      <2>2. CASE UNCHANGED <<cell, completed, open>>
            BY <2>1, <2>2, OrderUnchanged DEF cellVars
      <2>3. CASE Interrupted /\ RestoreCheckpoint
            <3>1. checkpoint # None /\ checkpoint.completed \in Nat
                  BY <1>a, <2>3 DEF Interrupted
            <3>2. completed' = IF checkpoint.completed > Quantity THEN Quantity
                                                                   ELSE checkpoint.completed
                  BY <2>3 DEF RestoreCheckpoint, Cell!Restore
            <3>3. completed' \in Nat /\ completed' <= Quantity
                  /\ completed' <= checkpoint.completed
                  BY <1>a, <3>1, <3>2
            <3>4. \A part \in 1..completed' : Reported(part)'
                  BY <1>b, <1>c, <3>1, <3>3
            <3>5. QED
                  BY <1>d, <2>1, <3>3, <3>4 DEF OrderInv
      <2>4. QED
            BY <1>7, <2>2, <2>3 DEF Restart
<1>8. QED
      BY <1>e, <1>1, <1>2, <1>3, <1>4, <1>5, <1>6, <1>7
      DEF Next, Loop, Delivery, Environment,
          ReadPendingAsync, Deliver, HttpDeliver, FileAppend, FileReceipt,
          MarkDeliveredAsync, LateRequest, DeliveryFails, MesOffline, MesOnline

-----------------------------------------------------------------------------
(* The delivery *)

\* The results' own invariants look only at the outbox, the delivery service and the MES.
ResultInv == AttemptInv /\ RecordInv /\ CountInv
resultVars == <<gateway, outbox, deliveryVars, records, receipts, crashes, faults>>

\* A step beside the outbox, the delivery service and the MES.
LEMMA ResultUnchanged ==
    ASSUME ResultInv, UNCHANGED resultVars
    PROVE  ResultInv'
BY DEF ResultInv, AttemptInv, RecordInv, CountInv, Acknowledged, Written,
       resultVars, outbox, deliveryVars

\* The service gives up: only what is abandoned and what it costs may change.
LEMMA GivenUp ==
    ASSUME Inv, GiveUp,
           \/ crashes' = crashes + 1 /\ UNCHANGED faults
           \/ faults' = faults + 1 /\ UNCHANGED crashes
           \/ attempt # "appended" /\ UNCHANGED <<crashes, faults>>,
           UNCHANGED <<gateway, outbox, records, receipts>>,
           \A e \in Events : abandoned'[e] > 0 =>
               abandoned[e] > 0 \/ (gateway = "Http" /\ e \in pending)
    PROVE  ResultInv'
<1>1. attempt' = "delay" /\ batch' = {} /\ sending' = 0
      BY DEF GiveUp
<1>2. AttemptInv'
      BY <1>1 DEF Inv, AttemptInv, Written, outbox
<1>3. RecordInv'
      BY <1>1 DEF Inv, RecordInv, Written, outbox
<1>4. CountInv'
      <2> SUFFICES ASSUME NEW e \in Events
                   PROVE  /\ gateway = "Http" => records[e] <= 1
                          /\ gateway = "File" =>
                                /\ e \in receipts => records[e] <= 1 + crashes' + faults'
                                /\ e \notin receipts => records[e] <= crashes' + faults'
          BY <1>1 DEF CountInv, Acknowledged
      <2>1. records[e] \in Nat /\ crashes \in Nat /\ faults \in Nat
            BY DeliveryAssumption DEF Inv, TypeOK
      <2>2. gateway = "Http" => records[e] <= 1
            BY DEF Inv, CountInv
      <2>3. CASE e \in receipts
            <3>1. gateway = "File" => records[e] <= 1 + crashes + faults
                  BY <2>3 DEF Inv, CountInv, Acknowledged
            <3>2. QED
                  BY <2>1, <2>2, <2>3, <3>1
      <2>4. CASE e \notin receipts /\ attempt = "appended"
            <3>1. gateway = "File" => records[e] <= 1 + crashes + faults
                  BY <2>1, <2>4 DEF Inv, CountInv, Acknowledged
            <3>2. crashes' + faults' = crashes + faults + 1
                  BY <2>1, <2>4
            <3>3. QED
                  BY <2>1, <2>2, <2>4, <3>1, <3>2
      <2>5. CASE e \notin receipts /\ attempt # "appended"
            <3>1. gateway = "File" => records[e] <= crashes + faults
                  BY <2>5 DEF Inv, CountInv, Acknowledged
            <3>2. crashes' + faults' >= crashes + faults
                  BY <2>1
            <3>3. QED
                  BY <2>1, <2>2, <2>5, <3>1, <3>2
      <2>6. QED
            BY <2>3, <2>4, <2>5
<1>5. QED
      BY <1>2, <1>3, <1>4 DEF ResultInv

\* Only an event of the outbox is abandoned.
LEMMA AbandonPending ==
    ASSUME Inv, Abandon
    PROVE  \A e \in Events : abandoned'[e] > 0 =>
               abandoned[e] > 0 \/ (gateway = "Http" /\ e \in pending)
BY DEF Inv, TypeOK, AttemptInv, Abandon

\* Every step keeps the results' invariants.
LEMMA ResultStep ==
    ASSUME Inv, Next
    PROVE  ResultInv'
<1>a. AttemptInv /\ RecordInv /\ CountInv /\ ResultInv
      BY DEF Inv, ResultInv
<1>b. /\ records \in [Events -> Nat] /\ abandoned \in [Events -> Nat]
      /\ crashes \in Nat /\ faults \in Nat
      /\ pending \subseteq Events /\ gateway \in {"Http", "File"}
      BY DeliveryAssumption DEF Inv, TypeOK
<1>1. CASE \/ Command \/ BeginCycle \/ CompleteCycle \/ SaveCheckpoint \/ FindStable
           \/ ClearCheckpoint \/ MesOnline \/ Restart
      BY <1>1, <1>a, ResultUnchanged
      DEF resultVars, mesVars, Command, BeginCycle, CompleteCycle, SaveCheckpoint, FindStable,
          ClearCheckpoint, MesOnline, Restart
<1>2. CASE EnqueueAsync
      <2>1. pending \subseteq pending' /\ Written \subseteq Written'
            BY <1>2 DEF EnqueueAsync, Written
      <2>2. UNCHANGED <<gateway, delivered, deliveryVars, mesVars, crashes, faults>>
            BY <1>2 DEF EnqueueAsync
      <2>3. AttemptInv'
            BY <1>a, <2>1, <2>2 DEF AttemptInv, deliveryVars
      <2>4. RecordInv'
            BY <1>a, <2>1, <2>2 DEF RecordInv, deliveryVars, mesVars
      <2>5. CountInv'
            BY <1>a, <2>2 DEF CountInv, Acknowledged, deliveryVars, mesVars
      <2>6. QED
            BY <2>3, <2>4, <2>5 DEF ResultInv
<1>3. CASE ReadPendingAsync
      <2>1. batch' \subseteq pending /\ attempt = "delay" /\ attempt' = "batch"
            BY <1>3 DEF ReadPendingAsync
      <2>2. UNCHANGED <<gateway, outbox, sending, abandoned, mesVars, crashes, faults>>
            BY <1>3 DEF ReadPendingAsync
      <2>3. sending \notin batch'
            BY <1>a, <1>b, <2>1 DEF AttemptInv, Events
      <2>4. AttemptInv'
            BY <1>a, <2>1, <2>2, <2>3 DEF AttemptInv, Written, outbox
      <2>5. RecordInv'
            BY <1>a, <2>1, <2>2 DEF RecordInv, Written, outbox, mesVars
      <2>6. CountInv'
            BY <1>a, <2>1, <2>2 DEF CountInv, Acknowledged, mesVars
      <2>7. QED
            BY <2>4, <2>5, <2>6 DEF ResultInv
<1>4. CASE Deliver
      <2>1. PICK e \in batch : sending' = e /\ batch' = batch \ {e}
            BY <1>4 DEF Deliver
      <2>2. attempt = "batch" /\ attempt' = "sending"
            BY <1>4 DEF Deliver
      <2>3. UNCHANGED <<gateway, outbox, abandoned, mesVars, crashes, faults>>
            BY <1>4 DEF Deliver
      <2>4. AttemptInv'
            BY <1>a, <2>1, <2>2, <2>3 DEF AttemptInv, Written, outbox
      <2>5. RecordInv'
            BY <1>a, <2>2, <2>3 DEF RecordInv, Written, outbox, mesVars
      <2>6. CountInv'
            BY <1>a, <2>2, <2>3 DEF CountInv, Acknowledged, mesVars
      <2>7. QED
            BY <2>4, <2>5, <2>6 DEF ResultInv
<1>5. CASE HttpDeliver
      <2>1. /\ gateway = "Http" /\ attempt = "sending" /\ sending \in pending
            /\ UNCHANGED <<gateway, outbox, abandoned, receipts, crashes, faults>>
            BY <1>5, <1>a DEF HttpDeliver, AttemptInv
      <2>2. CASE mesUp
            <3>1. records' = [records EXCEPT ![sending] = 1]
                  BY <1>5, <2>2 DEF HttpDeliver, TryAddResult
            <3>2. attempt' = "accepted" /\ UNCHANGED <<batch, sending>>
                  BY <1>5, <2>2 DEF HttpDeliver, Answer
            <3>3. \A e \in Events : records'[e] = IF e = sending THEN 1 ELSE records[e]
                  BY <1>b, <3>1
            <3>4. AttemptInv'
                  BY <1>a, <2>1, <3>2 DEF AttemptInv, Written, outbox
            <3>5. RecordInv'
                  <4>1. \A e \in Events : records'[e] > 0 => e \in Written'
                        BY <1>a, <2>1, <3>3 DEF RecordInv, Written, outbox
                  <4>2. \A e \in Events : records[e] > 0 => records'[e] > 0
                        BY <3>3
                  <4>3. delivered \cup receipts \subseteq Events /\ sending \in Events
                        BY <2>1, <1>b DEF Inv, TypeOK
                  <4>4. records'[sending] > 0
                        BY <3>3, <4>3
                  <4>5. QED
                        BY <1>a, <2>1, <3>2, <4>1, <4>2, <4>3, <4>4 DEF RecordInv, outbox
            <3>6. CountInv'
                  BY <1>a, <2>1, <3>3 DEF CountInv
            <3>7. QED
                  BY <3>4, <3>5, <3>6 DEF ResultInv
      <2>3. CASE ~mesUp
            <3>1. GiveUp /\ UNCHANGED records
                  BY <1>5, <2>3 DEF HttpDeliver, Answer
            <3>2. attempt # "appended"
                  BY <2>1
            <3>3. \A e \in Events : abandoned'[e] > 0 => abandoned[e] > 0
                  BY <2>1
            <3>4. QED
                  BY <2>1, <3>1, <3>2, <3>3, GivenUp
      <2>4. QED
            BY <2>2, <2>3
<1>6. CASE FileAppend
      <2>1. /\ gateway = "File" /\ attempt = "sending" /\ sending \in pending
            /\ UNCHANGED <<gateway, outbox, abandoned, receipts, crashes, faults>>
            BY <1>6, <1>a DEF FileAppend, AttemptInv
      <2>2. sending \in Events
            BY <1>b, <2>1
      <2>3. CASE /\ sending \notin receipts
                 /\ records' = [records EXCEPT ![sending] = @ + 1]
                 /\ attempt' = "appended" /\ UNCHANGED <<batch, sending>>
            <3>1. \A e \in Events : records'[e] = IF e = sending THEN records[e] + 1 ELSE records[e]
                  BY <1>b, <2>3
            <3>2. AttemptInv'
                  BY <1>a, <2>1, <2>3 DEF AttemptInv, Written, outbox
            <3>3. \A e \in Events : records[e] \in Nat
                  BY <1>b
            <3>4. RecordInv'
                  <4>1. \A e \in Events : records'[e] > 0 => e \in Written'
                        BY <1>a, <2>1, <3>1 DEF RecordInv, Written, outbox
                  <4>2. \A e \in Events : records[e] > 0 => records'[e] > 0
                        BY <3>1, <3>3
                  <4>3. delivered \cup receipts \subseteq Events
                        BY DEF Inv, TypeOK
                  <4>4. records'[sending] > 0
                        BY <2>2, <3>1, <3>3
                  <4>5. QED
                        BY <1>a, <2>1, <2>3, <4>1, <4>2, <4>3, <4>4 DEF RecordInv, outbox
            <3>5. CountInv'
                  <4> SUFFICES ASSUME NEW e \in Events
                               PROVE  /\ Acknowledged(e)' => records'[e] <= 1 + crashes + faults
                                      /\ ~Acknowledged(e)' => records'[e] <= crashes + faults
                      BY <2>1 DEF CountInv
                  <4>1. CASE e = sending
                        <5>1. records[e] <= crashes + faults
                              BY <1>a, <2>1, <2>3, <4>1 DEF CountInv, Acknowledged
                        <5>2. records'[e] <= 1 + crashes + faults
                              BY <1>b, <3>1, <3>3, <4>1, <5>1
                        <5>3. QED
                              BY <2>3, <4>1, <5>2 DEF Acknowledged
                  <4>2. CASE e # sending
                        <5>1. Acknowledged(e)' <=> Acknowledged(e)
                              BY <2>1, <2>3, <4>2 DEF Acknowledged
                        <5>2. QED
                              BY <1>a, <2>1, <3>1, <4>2, <5>1 DEF CountInv
                  <4>3. QED
                        BY <4>1, <4>2
            <3>6. QED
                  BY <3>2, <3>4, <3>5 DEF ResultInv
      <2>4. CASE /\ sending \in receipts /\ UNCHANGED records
                 /\ attempt' = "accepted" /\ UNCHANGED <<batch, sending>>
            <3>1. AttemptInv'
                  BY <1>a, <2>1, <2>4 DEF AttemptInv, Written, outbox
            <3>2. RecordInv'
                  BY <1>a, <2>1, <2>4 DEF RecordInv, Written, outbox
            <3>3. CountInv'
                  BY <1>a, <2>1, <2>4 DEF CountInv, Acknowledged
            <3>4. QED
                  BY <3>1, <3>2, <3>3 DEF ResultInv
      <2>5. CASE GiveUp /\ UNCHANGED records
            <3>1. attempt # "appended" /\ \A e \in Events : abandoned'[e] > 0 => abandoned[e] > 0
                  BY <2>1
            <3>2. QED
                  BY <2>1, <2>5, <3>1, GivenUp
      <2>6. QED
            BY <1>6, <2>3, <2>4, <2>5 DEF FileAppend, Answer
<1>7. CASE FileReceipt
      <2>1. /\ attempt = "appended" /\ attempt' = "accepted"
            /\ receipts' = receipts \cup {sending}
            /\ UNCHANGED <<gateway, outbox, batch, sending, abandoned, records, crashes, faults>>
            BY <1>7 DEF FileReceipt
      <2>2. AttemptInv'
            BY <1>a, <2>1 DEF AttemptInv, Written, outbox
      <2>3. RecordInv'
            BY <1>a, <2>1 DEF RecordInv, Written, outbox
      <2>4. CountInv'
            BY <1>a, <2>1 DEF CountInv, Acknowledged
      <2>5. QED
            BY <2>2, <2>3, <2>4 DEF ResultInv
<1>8. CASE MarkDeliveredAsync
      <2>1. /\ attempt = "accepted" /\ attempt' \in {"delay", "batch"}
            /\ pending' = pending \ {sending} /\ delivered' = delivered \cup {sending}
            /\ sending' = 0
            /\ UNCHANGED <<gateway, batch, abandoned, mesVars, crashes, faults>>
            BY <1>8 DEF MarkDeliveredAsync
      <2>2. sending \in pending /\ Written' = Written
            BY <1>a, <2>1 DEF AttemptInv, Written
      <2>3. 0 \notin batch
            BY <1>a, <1>b DEF AttemptInv, Events
      <2>4. AttemptInv'
            BY <1>a, <2>1, <2>2, <2>3 DEF AttemptInv
      <2>5. RecordInv'
            BY <1>a, <2>1, <2>2 DEF RecordInv, mesVars
      <2>6. CountInv'
            BY <1>a, <2>1 DEF CountInv, Acknowledged, mesVars
      <2>7. QED
            BY <2>4, <2>5, <2>6 DEF ResultInv
<1>9. ASSUME NEW e \in Events, LateRequest(e)
      PROVE  ResultInv'
      <2>1. /\ abandoned[e] > 0 /\ abandoned' = [abandoned EXCEPT ![e] = @ - 1]
            /\ UNCHANGED <<gateway, outbox, attempt, batch, sending, receipts, crashes, faults>>
            BY <1>9 DEF LateRequest
      <2>2. UNCHANGED records \/ records' = [records EXCEPT ![e] = 1]
            BY <1>9 DEF LateRequest, TryAddResult
      <2>3. e \in Written /\ gateway = "Http"
            BY <1>a, <2>1 DEF AttemptInv
      <2>4. \A d \in Events : abandoned'[d] > 0 => abandoned[d] > 0
            BY <1>b, <2>1
      <2>5. \A d \in Events : records'[d] = records[d] \/ (d = e /\ records'[d] = 1)
            BY <1>b, <2>2
      <2>6. AttemptInv'
            BY <1>a, <2>1, <2>4 DEF AttemptInv, Written, outbox
      <2>7. RecordInv'
            <3>1. \A d \in Events : records'[d] > 0 => d \in Written'
                  BY <1>a, <2>1, <2>3, <2>5 DEF RecordInv, Written, outbox
            <3>2. \A d \in Events : records[d] > 0 => records'[d] > 0
                  BY <2>5
            <3>3. delivered \cup receipts \subseteq Events /\ pending \subseteq Events
                  BY DEF Inv, TypeOK
            <3>4. attempt \in {"appended", "accepted"} => sending \in Events
                  BY <1>a, <3>3 DEF AttemptInv
            <3>5. QED
                  BY <1>a, <2>1, <3>1, <3>2, <3>3, <3>4 DEF RecordInv, outbox
      <2>8. CountInv'
            BY <1>a, <2>1, <2>3, <2>5 DEF CountInv
      <2>9. QED
            BY <2>6, <2>7, <2>8 DEF ResultInv
<1>10. CASE DeliveryFails
      <2>1. \A e \in Events : abandoned'[e] > 0 =>
                abandoned[e] > 0 \/ (gateway = "Http" /\ e \in pending)
            BY <1>10, AbandonPending DEF DeliveryFails
      <2>2. QED
            BY <1>10, <2>1, GivenUp DEF DeliveryFails, mesVars
<1>11. CASE Crash
      <2>1. \A e \in Events : abandoned'[e] > 0 =>
                abandoned[e] > 0 \/ (gateway = "Http" /\ e \in pending)
            BY <1>11, AbandonPending DEF Crash
      <2>2. QED
            BY <1>11, <2>1, GivenUp DEF Crash, mesVars
<1>12. CASE MesOffline
      <2>1. UNCHANGED <<gateway, outbox, deliveryVars, records, receipts, crashes>>
            /\ faults' = faults + 1
            BY <1>12 DEF MesOffline
      <2>2. AttemptInv' /\ RecordInv'
            BY <1>a, <2>1 DEF AttemptInv, RecordInv, Written, outbox, deliveryVars
      <2>3. CountInv'
            BY <1>a, <1>b, <2>1 DEF CountInv, Acknowledged, deliveryVars
      <2>4. QED
            BY <2>2, <2>3 DEF ResultInv
<1>13. QED
      BY <1>1, <1>2, <1>3, <1>4, <1>5, <1>6, <1>7, <1>8, <1>9, <1>10, <1>11, <1>12
      DEF Next, Loop, Delivery, Environment

-----------------------------------------------------------------------------
(* The theorems *)

\* The invariant is inductive.
LEMMA InductiveStep ==
    ASSUME Inv, [Next]_vars
    PROVE  Inv'
<1>1. CASE Next
      <2>1. TypeOK'
            BY <1>1, LoopType, DeliveryType, EnvironmentType DEF Next
      <2>2. QED
            BY <1>1, <2>1, OrderStep, ResultStep DEF Inv, ResultInv
<1>2. CASE UNCHANGED vars
      <2>1. TypeOK'
            BY <1>2 DEF Inv, TypeOK, vars, cellVars, outbox, deliveryVars, mesVars
      <2>2. OrderInv'
            BY <1>2 DEF Inv, OrderInv, CheckpointAfterOutbox, Reported, Written, vars, cellVars,
                        outbox
      <2>3. ResultInv'
            BY <1>2, ResultUnchanged DEF Inv, ResultInv, vars, resultVars, mesVars
      <2>4. QED
            BY <2>1, <2>2, <2>3 DEF Inv, ResultInv
<1>3. QED
      BY <1>1, <1>2

\* Inv holds in every reachable state.
THEOREM InvariantTheorem == Spec => []Inv
<1>1. Init => Inv
      BY InitInv
<1>2. Inv /\ [Next]_vars => Inv'
      BY InductiveStep
<1>3. QED
      BY <1>1, <1>2, PTL DEF Spec

\* The state of the pipeline stays within its types; the order never counts too many parts.
THEOREM TypeTheorem == Spec => []TypeOK
<1>1. Inv => TypeOK
      BY DEF Inv
<1>2. QED
      BY <1>1, InvariantTheorem, PTL

\* The HTTP gateway's MES records a result once; the file gateway repeats a line at most
\* once for a crash or a failure.
THEOREM RecordedOnceTheorem == Spec => []RecordedOnce
<1>1. ASSUME Inv
      PROVE  RecordedOnce
      <2> SUFFICES ASSUME NEW e \in Events
                   PROVE  records[e] <= 1 + (IF gateway = "File" THEN crashes + faults ELSE 0)
          BY DEF RecordedOnce
      <2>1. records[e] \in Nat /\ crashes \in Nat /\ faults \in Nat
            BY <1>1, DeliveryAssumption DEF Inv, TypeOK
      <2>2. gateway = "Http" => records[e] <= 1
            BY <1>1 DEF Inv, CountInv
      <2>3. gateway = "File" => records[e] <= 1 + crashes + faults
            <3>1. gateway = "File" => records[e] <= 1 + crashes + faults
                                      \/ records[e] <= crashes + faults
                  BY <1>1 DEF Inv, CountInv
            <3>2. QED
                  BY <2>1, <3>1
      <2>4. gateway \in {"Http", "File"}
            BY <1>1, DeliveryAssumption DEF Inv, TypeOK
      <2>5. QED
            BY <2>1, <2>2, <2>3, <2>4
<1>2. QED
      BY <1>1, InvariantTheorem, PTL

\* Every part that the checkpoint counts has its result in the outbox.
THEOREM CheckpointTheorem == Spec => []CheckpointAfterOutbox
<1>1. Inv => CheckpointAfterOutbox
      BY DEF Inv, OrderInv
<1>2. QED
      BY <1>1, InvariantTheorem, PTL

-----------------------------------------------------------------------------
(* Crashes repeat parts *)

\* The count that a restart takes from the checkpoint.
Kept == IF checkpoint.completed > Quantity THEN Quantity ELSE checkpoint.completed

\* The counted parts say how many completions there were, but for those that crashes repeat.
\* What a restart would take from the checkpoint falls short by one more: by the part that is
\* not checkpointed yet, or by the one that is cut.  Never by both: before a part is begun
\* nothing is missing, and a cell whose count would be cut begins none.
RepeatInv ==
    /\ up /\ cell # "none" => Len(made) <= completed + crashes
    /\ Interrupted =>
          /\ Len(made) <= Kept + crashes + 1
          /\ ~up => Len(made) <= Kept + crashes
          /\ loop = "idle" /\ (open \/ cell = "cycle") => Len(made) <= Kept + crashes
    /\ CrashRepeatsOnePart

repeatVars == <<up, cellVars, crashes>>

\* A step beside the cell, the loop and the crashes.
LEMMA RepeatUnchanged ==
    ASSUME RepeatInv, UNCHANGED repeatVars
    PROVE  RepeatInv'
BY DEF RepeatInv, Interrupted, Kept, CrashRepeatsOnePart, repeatVars, cellVars

\* The parts of a history are finitely many.
LEMMA PartsFinite ==
    ASSUME NEW s \in Seq(Parts)
    PROVE  /\ {s[e] : e \in 1..Len(s)} \subseteq Parts
           /\ IsFiniteSet({s[e] : e \in 1..Len(s)})
           /\ Cardinality({s[e] : e \in 1..Len(s)}) \in Nat
<1> DEFINE range == {s[e] : e \in 1..Len(s)}
<1>1. \A e \in 1..Len(s) : s[e] \in Parts
      BY ElementOfSeq
<1>2. range \in SUBSET Parts
      BY <1>1
<1>3. IsFiniteSet(Parts)
      BY DeliveryAssumption, FS_Interval DEF Parts
<1> HIDE DEF range
<1>4. IsFiniteSet(range)
      BY <1>2, <1>3, FS_Subset
<1>5. Cardinality(range) \in Nat
      BY <1>4, FS_CardinalityType
<1>6. QED
      BY <1>2, <1>4, <1>5 DEF range

\* As many parts as the order counts have completed.
LEMMA CountedParts ==
    ASSUME NEW s \in Seq(Parts), NEW n \in Nat,
           \A part \in 1..n : \E e \in 1..Len(s) : s[e] = part
    PROVE  n <= Cardinality({s[e] : e \in 1..Len(s)})
<1> DEFINE range == {s[e] : e \in 1..Len(s)}
<1>1. 1..n \in SUBSET range
      OBVIOUS
<1>2. IsFiniteSet(range)
      BY PartsFinite
<1>3. Cardinality(1..n) <= Cardinality(range)
      BY <1>1, <1>2, FS_Subset
<1>4. Cardinality(1..n) = n
      BY FS_Interval
<1>5. QED
      BY <1>3, <1>4

\* A part completes: one more completion, and one more part that is counted.
LEMMA RepeatComplete ==
    ASSUME Inv, RepeatInv, CompleteCycle
    PROVE  RepeatInv'
<1>a. /\ completed \in Nat /\ Len(made) \in Nat /\ crashes \in Nat
      /\ made \in Seq(Parts) /\ Quantity \in Nat
      BY DeliveryAssumption DEF Inv, TypeOK, Parts
<1>1. /\ up /\ loop = "idle" /\ cell = "cycle"
      /\ completed' = completed + 1 /\ made' = Append(made, completed')
      /\ loop' = "events" /\ UNCHANGED <<up, checkpoint, crashes>>
      BY DEF CompleteCycle, Cell!CompleteCycle
<1>2. completed <= Quantity
      BY <1>1 DEF Inv, OrderInv
<1>3. Len(made') = Len(made) + 1
      BY <1>a, <1>1
<1>4. Len(made) <= completed + crashes
      BY <1>1 DEF RepeatInv
<1>5. Len(made') <= completed' + crashes'
      BY <1>a, <1>1, <1>3, <1>4
<1>6. completed' \in Parts /\ made' \in Seq(Parts)
      <2>1. completed' \in Parts
            BY <1>a, <1>1, <1>2 DEF Parts
      <2>2. QED
            BY <1>a, <1>1, <2>1
<1>7. \A part \in 1..completed' : \E e \in 1..Len(made') : made'[e] = part
      <2>1. \A part \in 1..completed : Reported(part)
            BY <1>1 DEF Inv, OrderInv
      <2>2. \A part \in 1..completed : \E e \in 1..Len(made) : made[e] = part
            BY <2>1 DEF Inv, TypeOK, Reported, Written, Events
      <2>3. \A e \in 1..Len(made) : e \in 1..Len(made') /\ made'[e] = made[e]
            BY <1>a, <1>1, <1>3, <1>6
      <2>4. Len(made') \in 1..Len(made') /\ made'[Len(made')] = completed'
            BY <1>a, <1>1, <1>3, <1>6
      <2>5. \A part \in 1..completed' : part \in 1..completed \/ part = completed'
            BY <1>a, <1>1
      <2>6. QED
            BY <2>2, <2>3, <2>4, <2>5
<1>8. CrashRepeatsOnePart'
      <2> DEFINE n == Cardinality({made'[e] : e \in 1..Len(made')})
      <2>1. n \in Nat
            BY <1>6, PartsFinite
      <2>2. completed' \in Nat
            BY <1>a, <1>1
      <2>3. completed' <= n
            BY <1>6, <1>7, <2>2, CountedParts
      <2> HIDE DEF n
      <2>4. Len(made') <= n + crashes'
            BY <1>a, <1>1, <1>3, <1>5, <2>1, <2>2, <2>3
      <2>5. QED
            BY <2>4 DEF n, CrashRepeatsOnePart
<1>9. Interrupted' => Len(made') <= Kept' + crashes' + 1
      <2> SUFFICES ASSUME Interrupted'
                   PROVE  Len(made') <= Kept' + crashes' + 1
          OBVIOUS
      <2>1. Interrupted /\ Kept' = Kept
            BY <1>1 DEF Interrupted, Kept
      <2>2. Kept \in Nat
            BY <1>a, <2>1 DEF Interrupted, Kept, Inv, TypeOK, Checkpoints, Parts
      <2>3. Len(made) <= Kept + crashes
            BY <1>1, <2>1 DEF RepeatInv
      <2>4. QED
            BY <1>a, <1>1, <1>3, <2>1, <2>2, <2>3
<1>10. QED
      BY <1>1, <1>5, <1>8, <1>9 DEF RepeatInv

\* The new checkpoint: what a restart would cut from it is one part, and no part is begun.
LEMMA RepeatSave ==
    ASSUME Inv, RepeatInv, SaveCheckpoint
    PROVE  RepeatInv'
<1>a. /\ completed \in Nat /\ completed <= Quantity + 1 /\ Quantity \in Nat
      /\ Len(made) \in Nat /\ crashes \in Nat
      BY DeliveryAssumption DEF Inv, TypeOK, Parts
<1>1. /\ up /\ checkpoint' = [completed |-> completed, cell |-> cell]
      /\ UNCHANGED <<up, cell, completed, open, made, crashes>>
      BY DEF SaveCheckpoint
<1>2. Interrupted' => cell # "none"
      BY <1>1 DEF Interrupted
<1>3. cell # "none" => Len(made) <= completed + crashes
      BY <1>1 DEF RepeatInv
<1>4. Kept' = IF completed > Quantity THEN Quantity ELSE completed
      BY <1>1 DEF Kept
<1>5. completed <= Kept' + 1 /\ Kept' \in Nat
      BY <1>a, <1>4
<1>6. Len(made) <= completed + crashes => Len(made) <= Kept' + crashes + 1
      <2>1. \A k, l \in Nat : completed <= k + 1 /\ l <= completed + crashes => l <= k + crashes + 1
            BY <1>a
      <2>2. QED
            BY <1>a, <1>5, <2>1
<1>7. open \/ cell = "cycle" => completed = Kept'
      <2>1. open \/ cell = "cycle" => completed <= Quantity
            BY DEF Inv, OrderInv
      <2>2. completed <= Quantity => completed = Kept'
            BY <1>a, <1>4
      <2>3. QED
            BY <2>1, <2>2
<1>8. CrashRepeatsOnePart'
      BY <1>1 DEF RepeatInv, CrashRepeatsOnePart
<1>9. QED
      BY <1>1, <1>2, <1>3, <1>6, <1>7, <1>8 DEF RepeatInv

\* Every step keeps the comparison of completions and counts.
LEMMA RepeatStep ==
    ASSUME Inv, RepeatInv, [Next]_vars
    PROVE  RepeatInv'
<1>1. CASE UNCHANGED repeatVars
      BY <1>1, RepeatUnchanged
<1>2. CASE Command \/ BeginCycle
      <2>1. UNCHANGED <<up, completed, made, loop, checkpoint, crashes>> /\ cell # "none"
            BY <1>2 DEF Command, Cell!LeaveCycle, Cell!CancelOrder, BeginCycle, Cell!BeginCycle
      <2>2. open' \/ cell' = "cycle" => open \/ cell = "cycle"
            BY <1>2 DEF Command, Cell!LeaveCycle, Cell!CancelOrder, BeginCycle, Cell!BeginCycle
      <2>3. UNCHANGED <<Interrupted, Kept, CrashRepeatsOnePart>>
            BY <2>1 DEF Interrupted, Kept, CrashRepeatsOnePart
      <2>4. QED
            BY <2>1, <2>2, <2>3 DEF RepeatInv
<1>3. CASE EnqueueAsync
      <2>1. /\ loop' = "saving"
            /\ UNCHANGED <<up, cell, completed, made, checkpoint, crashes>>
            BY <1>3 DEF EnqueueAsync
      <2>2. QED
            BY <2>1 DEF RepeatInv, Interrupted, Kept, CrashRepeatsOnePart
<1>4. CASE FindStable \/ ClearCheckpoint
      <2>1. /\ UNCHANGED <<up, cell, completed, open, made, crashes>>
            /\ (UNCHANGED checkpoint /\ loop' = "clearing") \/ checkpoint' = None
            BY <1>4 DEF FindStable, ClearCheckpoint
      <2>2. QED
            BY <2>1 DEF RepeatInv, Interrupted, Kept, CrashRepeatsOnePart
<1>5. CASE Crash
      <2>1. ~up' /\ crashes' = crashes + 1 /\ open' = FALSE /\ cell' = "none"
            /\ UNCHANGED <<made, checkpoint>>
            BY <1>5 DEF Crash
      <2>2. Len(made) \in Nat /\ crashes \in Nat
            BY DeliveryAssumption DEF Inv, TypeOK
      <2>3. Interrupted => /\ Len(made) <= Kept + crashes'
                           /\ Len(made) <= Kept + crashes' + 1
            <3> SUFFICES ASSUME Interrupted
                         PROVE  /\ Len(made) <= Kept + crashes'
                                /\ Len(made) <= Kept + crashes' + 1
                OBVIOUS
            <3>1. Kept \in Nat
                  BY DeliveryAssumption DEF Interrupted, Kept, Inv, TypeOK, Checkpoints, Parts
            <3>2. Len(made) <= Kept + crashes + 1
                  BY DEF RepeatInv
            <3>3. QED
                  BY <2>1, <2>2, <3>1, <3>2
      <2>4. CrashRepeatsOnePart'
            <3>1. Cardinality({made[e] : e \in 1..Len(made)}) \in Nat
                  BY PartsFinite DEF Inv, TypeOK
            <3>2. QED
                  BY <2>1, <2>2, <3>1 DEF RepeatInv, CrashRepeatsOnePart
      <2>5. UNCHANGED <<Interrupted, Kept>>
            BY <2>1 DEF Interrupted, Kept
      <2>6. QED
            BY <2>1, <2>3, <2>4, <2>5 DEF RepeatInv
<1>6. CASE Restart
      <2>1. ~up /\ up' /\ UNCHANGED <<made, loop, checkpoint, crashes>>
            BY <1>6 DEF Restart
      <2>2. cell = "none"
            BY <2>1 DEF Inv, OrderInv
      <2>3. UNCHANGED <<Interrupted, Kept, CrashRepeatsOnePart>>
            BY <2>1 DEF Interrupted, Kept, CrashRepeatsOnePart
      <2>4. Interrupted => completed' = Kept
            BY <1>6 DEF Restart, RestoreCheckpoint, Cell!Restore, Kept
      <2>5. ~Interrupted => UNCHANGED cell
            BY <1>6 DEF Restart
      <2>6. QED
            BY <2>1, <2>2, <2>3, <2>4, <2>5 DEF RepeatInv
<1>7. QED
      BY <1>1, <1>2, <1>3, <1>4, <1>5, <1>6, RepeatComplete, RepeatSave
      DEF Next, Loop, Delivery, Environment, vars, repeatVars, cellVars,
          ReadPendingAsync, Deliver, HttpDeliver, FileAppend, FileReceipt,
          MarkDeliveredAsync, LateRequest, DeliveryFails, MesOffline, MesOnline

\* A crash repeats at most one part, however many parts and crashes there are.
THEOREM RepeatTheorem == Spec => []CrashRepeatsOnePart
<1>1. Init => RepeatInv
      <2> SUFFICES ASSUME Init PROVE RepeatInv
          OBVIOUS
      <2>1. made = << >> /\ Len(made) = 0 /\ checkpoint = None /\ completed = 0 /\ crashes = 0
            BY DEF Init
      <2>2. {made[e] : e \in 1..Len(made)} = {}
            BY <2>1
      <2>3. QED
            BY <2>1, <2>2, FS_EmptySet DEF RepeatInv, Interrupted, CrashRepeatsOnePart
<1>2. Inv /\ RepeatInv /\ [Next]_vars => RepeatInv'
      BY RepeatStep
<1>3. RepeatInv => CrashRepeatsOnePart
      BY DEF RepeatInv
<1>4. QED
      BY <1>1, <1>2, <1>3, InvariantTheorem, PTL DEF Spec

-----------------------------------------------------------------------------
(* The promise of the outbox *)

Recorded == {e \in Events : records[e] > 0}

\* Every step makes, records or settles one result, or changes none of this.
LEMMA PromiseStep ==
    ASSUME Inv, Inv', Next
    PROVE  [Ledger!Next]_<<Written, Recorded, delivered>>
<1>a. pending \subseteq Events /\ delivered \subseteq Events /\ records \in [Events -> Nat]
      BY DEF Inv, TypeOK
<1>1. CASE UNCHANGED <<outbox, records>>
      BY <1>1 DEF outbox, Written, Recorded
<1>2. CASE EnqueueAsync
      <2> DEFINE r == Len(made)
      <2>1. Written' = Written \cup {r} /\ UNCHANGED <<Recorded, delivered>>
            BY <1>2 DEF EnqueueAsync, Written, Recorded, mesVars
      <2>2. r \in Events
            BY <1>2 DEF Inv, TypeOK, OrderInv, EnqueueAsync, Events
      <2>3. CASE r \in Written
            BY <2>1, <2>3
      <2>4. CASE r \notin Written
            BY <2>1, <2>2, <2>4 DEF Ledger!Next, Ledger!Make, Written, Recorded
      <2>5. QED
            BY <2>3, <2>4
<1>3. ASSUME NEW r \in Written,
             \A e \in Events \ {r} : records'[e] = records[e],
             records[r] > 0 => records'[r] > 0,
             UNCHANGED outbox
      PROVE  [Ledger!Next]_<<Written, Recorded, delivered>>
      <2>1. UNCHANGED <<Written, delivered>> /\ r \in Events
            BY <1>a, <1>3 DEF outbox, Written
      <2>2. CASE Recorded' = Recorded
            BY <2>1, <2>2
      <2>3. CASE Recorded' # Recorded
            <3>1. r \notin Recorded /\ Recorded' = Recorded \cup {r}
                  BY <1>3, <2>1, <2>3 DEF Recorded
            <3>2. QED
                  BY <1>3, <2>1, <3>1 DEF Ledger!Next, Ledger!Record, Written, Recorded
      <2>4. QED
            BY <2>2, <2>3
<1>4. CASE HttpDeliver \/ FileAppend
      <2>1. sending \in pending /\ sending \in Written /\ sending \in Events /\ UNCHANGED outbox
            BY <1>4, <1>a DEF Inv, AttemptInv, HttpDeliver, FileAppend, Written
      <2>2. \/ UNCHANGED records
            \/ records' = [records EXCEPT ![sending] = 1]
            \/ records' = [records EXCEPT ![sending] = @ + 1]
            BY <1>4 DEF HttpDeliver, FileAppend, TryAddResult
      <2>3. /\ \A e \in Events \ {sending} : records'[e] = records[e]
            /\ records[sending] > 0 => records'[sending] > 0
            BY <1>a, <2>1, <2>2
      <2>4. QED
            BY <1>3, <2>1, <2>3
<1>5. ASSUME NEW d \in Events, LateRequest(d)
      PROVE  [Ledger!Next]_<<Written, Recorded, delivered>>
      <2>1. d \in Written /\ UNCHANGED outbox
            BY <1>5 DEF Inv, AttemptInv, LateRequest
      <2>2. UNCHANGED records \/ records' = [records EXCEPT ![d] = 1]
            BY <1>5 DEF LateRequest, TryAddResult
      <2>3. /\ \A e \in Events \ {d} : records'[e] = records[e]
            /\ records[d] > 0 => records'[d] > 0
            BY <1>a, <2>2
      <2>4. QED
            BY <1>3, <2>1, <2>3
<1>6. CASE MarkDeliveredAsync
      <2>1. /\ sending \in pending /\ records[sending] > 0
            /\ pending' = pending \ {sending} /\ delivered' = delivered \cup {sending}
            /\ UNCHANGED records
            BY <1>6 DEF Inv, AttemptInv, RecordInv, MarkDeliveredAsync, mesVars
      <2>2. UNCHANGED <<Written, Recorded>> /\ sending \in Events /\ sending \in Recorded
            BY <1>a, <2>1 DEF Written, Recorded
      <2>3. CASE sending \in delivered
            BY <2>1, <2>2, <2>3
      <2>4. CASE sending \notin delivered
            BY <2>1, <2>2, <2>4 DEF Ledger!Next, Ledger!Settle, Written, Recorded
      <2>5. QED
            BY <2>3, <2>4
<1>7. QED
      BY <1>1, <1>2, <1>4, <1>5, <1>6
      DEF Next, Loop, Delivery, Environment, mesVars,
          Command, BeginCycle, CompleteCycle, SaveCheckpoint, FindStable, ClearCheckpoint,
          ReadPendingAsync, Deliver, FileReceipt, DeliveryFails, MesOffline, MesOnline, Crash,
          Restart

\* The delivery implements the outbox's promise.
THEOREM PromiseTheorem == Spec => OutboxPromise
<1>1. Init => Ledger!Init
      <2> SUFFICES ASSUME Init PROVE Ledger!Init
          OBVIOUS
      <2>1. \A e \in Events : ~(records[e] > 0)
            BY DEF Init
      <2>2. QED
            BY <2>1 DEF Init, Ledger!Init
<1>2. Inv /\ Inv' /\ [Next]_vars
          => [Ledger!Next]_<<pending \cup delivered, {e \in Events : records[e] > 0}, delivered>>
      <2> SUFFICES ASSUME Inv, Inv', [Next]_vars
                   PROVE  [Ledger!Next]_<<pending \cup delivered,
                                          {e \in Events : records[e] > 0}, delivered>>
          OBVIOUS
      <2>1. CASE Next
            BY <2>1, PromiseStep DEF Written, Recorded
      <2>2. CASE UNCHANGED vars
            BY <2>2 DEF vars, outbox, mesVars
      <2>3. QED
            BY <2>1, <2>2
<1>3. QED
      BY <1>1, <1>2, InvariantTheorem, PTL DEF Spec, OutboxPromise, Ledger!Spec

=============================================================================
