# Virtual Smart Motion Cell: TLA+ models and proofs

The cell is a two-axis pick, inspect and place machine run by a .NET process: a coordinator
that owns all machine state, a runtime that steps it on a timer and persists what it did,
and services that connect it to operators and to a manufacturing execution system (MES).
This directory models four parts of it: the coordinator, the delivery of results to the MES
with the crashes of the process, the way of a snapshot from the control loop to the picture in
the browser, and the studio for experiments. TLC checks them, TLAPS proves their safety.

## The system

| Component | State | Operations | Hard behaviour |
|---|---|---|---|
| `MachineCoordinator` (Application) | mode, execution state, production step, order, part, gripper, inputs, alarms, counters, recovery checkpoint | 20 commands, `Step`, `CreateCheckpoint`, `RestoreCheckpoint`, `DrainEvents` | every interleaving of commands and control periods; half-made cycles; restart |
| `ProductionOrder`, `AlarmRecord` (Domain) | status, completed quantity; lifecycle | activate, pause, resume, cancel, record part, restore; acknowledge, clear | lifecycles driven in any order by the coordinator |
| `SimulatedMotionSystem`, `SimulatedAxis` (Control) | enable, homed, faulted, target, position | enable, disable, set target, hold, mark homed, restore, inject and clear faults, step | faults at any time; targets that are silently replaced |
| `FaultInjectingMotionSystem` (Control) | the last injected fault | forwards everything | its memory against several faults |
| `MachineRuntimeService` (Runtime) | checkpoint on disk, drained events | timer loop: step, drain, persist, checkpoint, clear | crash between any two writes; commands during its awaits |
| `FileOutboxStore`, `OutboxDeliveryService`, gateways, MES simulator | pending and delivered files, MES results | enqueue, deliver, mark delivered, retry | lost acknowledgements, crashes, duplicates, an MES that is offline |
| `MesOrderPollingService` | last published snapshot | poll, load order | an order lost between assignment and load |
| `JsonRecipeStore`, `MachineCommandProcessorService` | recipe files, active pointer | draft, approve, activate | activation persisted before it is accepted; crash between two files |
| `MachineCommandBus` | bounded queue, depth gauge | send, mark read | full queue, cancelled callers |
| `StatePublicationQueue`, WebSocket publisher | one-place buffers | publish, accept, send, disconnect | drop-oldest on every buffer, connections that break |
| Web viewer (`web/viewer/app.js`) | last snapshot, scene, socket, badge, recording | timers, socket events, animation frames | replay and live state compete for one page; reconnects |
| Research studio (`studio/app.js`, `api.py`) | manifest, form, editor; jobs of the service | edit, select, validate, run, poll | overlapping calls cut at every await; answers that come late; a service that forgets |
| API, OPC UA, HMI, metrics, journals | none that control reads back | presentation and I/O | |
| Python reference cell, scripts, benchmarks | their own | offline | |

Commands reach the coordinator through the bus and one consumer; the timer calls `Step`.
Both run under the coordinator's one lock, so a command and a control period are atomic and
their order is arbitrary. Everything outside the lock (events, checkpoints, delivery) works
on copies taken from it.

What makes each part correct:

- Coordinator: no supervised state without motion permission; a target that belongs to the
  step; one part per cycle, owned by the loaded order; every part counted; no throw out of
  `Step`; transitional states and started orders end; a restart waits for its operator.
- Runtime loop: what is on disk after a crash is something a restart can continue from; a
  part is not completed twice; the checkpoint goes away exactly when nothing is interrupted.
- Delivery: every completed part reaches the MES and counts once; no restart goes on behind a
  result that was never written.
- Recipes: what a restart loads is what the coordinator last accepted.
- Publication and viewer: states are drawn in the machine's order, the newest gets through,
  one connection at a time, and the badge tells live from recorded.
- Studio: manifest, editor, form and workflow tell the same; the Run button is off only for a
  run that is under way, and comes back.
- Bus: every accepted command is answered.

## Modules

| Module | Models |
|---|---|
| `MotionSystem` | the motion system as a record and its operators |
| `ManufacturingDomain` | orders, parts, alarm lifecycles |
| `CellOrder` | abstract: the order in the cell, when a part of it may be counted and what a restart makes of it |
| `CellOrderProofs` | its theorem: one part too many at most |
| `MachineCoordinator` | the coordinator: state, one action per command, `Step`, restarts, properties; implements `CellOrder` |
| `MCCoordinator` | instances for TLC |
| `MachineCoordinatorProofs` | its invariant and what follows from it |
| `MachineCoordinatorRefinement` | that it implements `CellOrder`, and what that brings |
| `MachineCoordinatorProgress` | the part of its liveness that is not about fairness |
| `ResultLedger` | abstract: a result is made, recorded, settled, in that order and once |
| `ResultDelivery` | outbox, checkpoint, delivery service, gateways, MES, crash and restart, over the cell of `CellOrder`; implements `ResultLedger` |
| `ResultDeliveryProofs` | its theorems and the refinement |
| `LatestValue` | abstract: a register whose reader may skip values and never goes back |
| `StatePublication` | from the control loop to the wire |
| `Viewer` | the browser page at the end of the wire; extends `StatePublication`, implements `LatestValue` |
| `MCViewer`, `ViewerProofs` | its instance for TLC, its theorems and the refinement |
| `Studio` | the studio page and the jobs of its service |
| `MCStudio`, `StudioProofs` | its instance for TLC, its theorems |

### State and actions

The variables of `MachineCoordinator` are the fields of the class under nearly the same
names. `lostInputs` holds the safety inputs whose flag is false, `alarms` the lifecycle of
each alarm code (a code that was never raised is `Historical`: no operation tells the two
apart), `motion` the two axes. Each action is one accepted command; a rejected command
changes nothing and is no step. `Step` takes what the motion system may report in that
period: the axes are at their target or not (`arrived`), the following error is over its
limit or not (`lagging`), the dwell ends or not (`dwelt`), and axes whose drive faults by
itself (`DriveTrips`, for adapters behind the motion contract; the simulated axes fault on
injection only). Inside a period the order is the code's: interlocks, following error, then
the switch on the execution state and the production step.

Abstractions: a coordinate is the recipe position that is targeted, or `Elsewhere`; an
order's recipe is one identifier for identifier and revision; a part is its order and its
number. Left out: revision counter, clocks, correlation identifiers, telemetry and the event
queue. `GoodCount` and `RejectCount` are kept, `CycleCount` is not (it equals `GoodCount`).
The recipe of a load request is omitted, since only the active recipe is accepted.

A process lives from `Init` on; `LifeSpec` adds the ends of the process and the next start.
Nothing in memory survives, and of the files only the last checkpoint matters, so the model
needs no disk: `WarmRestart` restores the checkpoint that describes the present state, and
`ColdRestart` starts empty, because there is no checkpoint or because it was written in
`Stopped` or `Ready`, which the runtime ignores. A process that ends with an older checkpoint
on disk behaves as if it had ended when that one was written. What it did in between is lost to
the machine; that its results are in the outbox is the matter of `ResultDelivery`.

`CellOrder` is the interface between the two. It keeps of the machine the order's target and
count, whether the order is open (neither completed nor cancelled), and a phase: no order
(`none`), an order in a machine that is `Stopped` or `Ready` (`rest`), in a production step
(`cycle`), or anything else (`busy`). `MachineCoordinator` implements it (`CellPromise`), and
`ResultDelivery` is built from its actions, so that what is said about checkpoints and results
is said of a cell the coordinator really is.

`ResultDelivery` cuts the control loop of `MachineRuntimeService` and the delivery service where
they await, and the process may end at each cut (`Crash`). Commands (`Command`) come at every
cut; parts begin and complete only when the loop steps the machine. The decision to clear the
checkpoint (`FindStable`) is made on the state at the end of a step and the clear comes later
(`ClearCheckpoint`), with commands in between. An event is its place in `made`, the history of
completions: a part that is completed again has another event identifier, as in the code. An
exception of a journal, outbox or checkpoint write ends the process, which is `Crash`; an
exception of a delivery ends the round (`DeliveryFails`). A request whose sender timed out or
ended stays under way and may still arrive (`abandoned`, `LateRequest`). A checkpoint written
at rest is ignored by `Restart`, and the order with it, as in the code.

`StatePublication` has one action per hop: `Publish` into the queue, `PublishAsync` into the
client's channel, `SendSnapshots` onto the wire. A snapshot carries its place in the history of
the machine, which the code does not have: its revision starts again with every process.
`Viewer` is one thread: each timer, socket event and animation frame is one action. Positions
are a few integers, and one stands for both axes. The smoothing of `animate` is a step to some
position nearer to the target, which is reached in the end. The text panels are functions
of the snapshot that is drawn and are not kept apart from it.

`Studio` cuts `runExperiment` and `poll` at their awaits; a call is a member of `Calls` with
its place (`validating`, `starting`, `started`, `asking`, `waiting`), because the button is
disabled only after the first await and calls overlap. A manifest keeps one number of the form
and its scenarios; whether the service accepts it is left open. The job that `poll` asks for is
read from the shared `state.job` when the request leaves, so an older call follows the job of a
newer one.

Definitions named as mutants in their comment (`StopKeepsStep`, `ResumeWithoutPermission`,
...) are variants with a plausible mistake. No action uses them; they stand beside the
definition they would replace and show that the properties notice the mistake.

## Runs

| Run | Configuration | Shows |
|---|---|---|
| `production` | `CoordinatorProduction.cfg` | safety of a cell that starts empty; the work of an order never grows; `CellOrder` |
| `recovery` | `CoordinatorRecovery.cfg` | any number of restarts: the inductive invariant, `CellOrder`, liveness |
| `abort_overtaken` | `AbortOvertaken.cfg` | an accepted abort can be lost |
| `alarm_reraised` | `AlarmReRaised.cfg` | a present fault without a listed alarm |
| `cancelled_resumes` | `CancelledResumes.cfg` | a cancelled order produces |
| `recipe_changed` | `RecipeChanged.cfg` | an order runs on another recipe |
| `recovery_left` | `RecoveryLeft.cfg` | commands accepted during a pending recovery |
| `delivery` | `ResultDelivery.cfg` | results are promised, recorded once, settled and delivered; a crash repeats at most one part |
| `file_gateway_repeats` | `FileGatewayRepeats.cfg` | a retry through the file gateway repeats a line |
| `viewer_live` | `ViewerLive.cfg` | one connection, an honest badge and scene, order, catching up |
| `studio_runs` | `StudioRuns.cfg` | the views of the manifest agree; the Run button comes back |
| `studio_private_manifest` | `StudioPrivateManifest.cfg` | a run sends a manifest the editor does not show |

`production`, `recovery`, `delivery`, `viewer_live` and `studio_runs` pass. Each of the others states one sentence of the documentation, the tests
or a rejection message, and TLC finds the behaviour that contradicts it; the comments at the
properties name the code. They are:

- `AbortDisablesDrives`: `Abort` only sets `Aborting`; the drives go off in the next control
  period. `Home`, `Jog`, `Reset` and `InjectFault` are not blocked in `Aborting`.
- `FaultShowsAlarm`: `RaiseFault` does not raise an alarm again that was cleared and not yet
  acknowledged; the late acknowledgement retires it although the fault is back.
- `OnlyActiveOrdersProduce`: `CancelOrder` is allowed in `Pausing` and `Paused`, and `Resume`
  does not look at the order.
- `OrderRunsOnItsRecipe`: `ActivateRecipe` protects `Active` and `Paused` orders, not
  `Queued` ones, and `Start` does not compare.
- `OnlyRecoveryLeavesRecovery`: `Home` and `Abort` do not know `RecoveryRequired`.
- `RetriesLeaveNoDuplicates`: the file gateway writes the line before the receipt.
- `RunsWhatItShows`: `validateManifest` keeps the previous manifest when the text does not
  parse, and `runExperiment` goes on with it.

### Bounds

`production`: two interchangeable orders (a symmetry), one recipe, up to two parts each, a
lost input and an injected drive fault (the guard stands for all three inputs, which the
code treats alike), a drive that trips at any time, two modes. Two orders are what it takes
for a part to meet the wrong order, two parts for a cycle to follow a cycle or an
interruption. `MaxParts` bounds only `Start`: no new run once that many parts are counted, so
at most three parts are made; stops, aborts, faults and resumes are never bounded. Action
properties are checked with every interruption the bound admits.

`recovery`: one order for one part, and any number of restarts, with a checkpoint and without.
The checkpoints are those the machine writes, in every production step, in every execution
state, with and without a part left behind. One part is the smallest order that a restart can
overproduce, and the counts start again with every process, so `MaxParts` does not keep the next
process from starting the completed order again; orders of two parts are `production`'s, and
with restarts and liveness they exceed what a run of some minutes can do. The theorems hold for
every quantity.

`delivery`: an order of two parts, four completions (so that each part can be completed
twice, or a third one made and more besides), both gateways, pages of one event (so that a batch
is a part of what is pending), one crash and one failed delivery or outage. A second part is what
it takes for a restart to go on behind a lost result; a crash and a fault let a retry meet a late
request, and an outage meet either. A count that a restart cuts takes a second crash; that case is
`RepeatTheorem`'s, and the cut itself is exercised by `recovery`.

`viewer_live`: four machine states, two messages on the wire, two crashes or dropped
connections. Four states fill wire, channel, queue and machine with different ones; two faults
let a reconnect fail. The frames cover a part carried, set down and absent, a fault, an open
guard, and recorded frames whose workpiece is where the live one is not.

`studio_runs`: two calls, two jobs, one call of `loadTemplates` at a time, one failed request
or restart; two templates, one with a fault the form cannot express, and typed texts that lack
a number or do not parse. Two calls are what it takes to overlap.

### Fairness

`FairSpec` adds weak fairness of `SettledPeriod`: a control period with untripped drives in
which the current move ends by arrival or by a following-error fault, and a dwell expires.
The periodic timer of the runtime never stops while the process lives, the profile and PID
loop converge on a healthy axis, and a held, frozen or jammed axis either lags beyond the
limit or stands still. `FairLifeSpec` assumes the same of any number of processes: one that
ends is started again, and restarts may go on for ever; `TransitionsSettle` and
`StartedOrderEnds` hold all the same, because a restart leaves the states they are about.
Operators get no fairness: nobody has to press anything, and nobody
has to stop pressing. The assumption excludes a drive that drops out while the machine is
`Stopping`, which `Step` does not supervise; that case is listed as a hazard. `StartedOrderEnds` says that the sequence ends
without help, `TransitionsSettle` that transitional states do although commands may replace
one by another for ever.

`delivery`: the delivery service goes round (its loop ends with the process only; the health
check, whose timeout would end it, is a hazard below), the MES comes back, and the process is
started again. The control loop and the operators get no fairness: `ResultsDelivered` speaks of
what is in the outbox.

`viewer_live`: events, timers and animation frames of an open page are served, and so are the
services of a living process. Machine, crashes, drops, restarts and the recorded demo get none;
`CatchesUp` asks for the live state only while the runtime is up.

`studio_runs`: requests are answered, timers fire and experiments end. The user gets none.
`ButtonComesBack` excludes a rejected request and a restart of the service, after which the
page waits for ever.

## Proofs

### Coordinator

`MachineCoordinatorProofs` proves, for all values of the constants and, but for the last two,
over any number of restarts (`LifeSpec`; `OneLife` says that `Spec` is a part of it),

- `InvariantTheorem`: `LifeSpec => []Inv`, and from it `TypeTheorem`, `OwnershipTheorem`,
  `NeverThrowsTheorem`, `TargetTheorem`, `PermissionTheorem`, `HomedTheorem`, `RestartTheorem`;
- `CheckpointTheorem`: every checkpoint that can be written satisfies what
  `CheckpointAssumption` asks of the one that is found at the first start;
- `PartsTheorem`: `Spec => PartsAccounted`, the action property that no part is lost (the
  counters themselves start again with every process);
- `NoOverproductionTheorem`: without a restart no order exceeds its quantity.

The properties are not inductive alone. `Inv` adds five facts: `StepFitsExecution` (no
production step in a state that `Home`, `Start` or a stop enters, so that `Running` can only
be re-entered with its own cycle), `CheckpointOrderLoaded` (what `RecoverResume` brings back
is what is loaded), `RehomingIsUnhomed` (so that a jog cannot redirect a rehoming),
`StartingHasOrder` and `OpenOrderWithinTarget` (an order that can be started has not made
more than it asked for). The proof splits `Inv` into types, motion and production, each with
one lemma for the commands and one for the control period, and a case per action. A restart is
two lemmas: what any consistent checkpoint restores satisfies `Inv` (`RestoredInv`), and in a
state with `Inv` the checkpoint that is written is consistent (`WrittenCheckpoints`).
`NoOverproductionTheorem` needs a stronger fact, `WithinTarget`: an order that may be started
or is in work has a part left to make. `RestoreCheckpoint` breaks it by making a completed
order `Paused`, and the theorem is false with restarts: a cell that homes after its order is
done, and is restarted then, may make the last part again. How far this goes is the next matter.

`MachineCoordinatorRefinement` proves `CellTheorem`: the coordinator, restarts included,
implements `CellOrder` under the mapping at the end of `MachineCoordinator`. Commands map to
`LoadOrder`, `CancelOrder`, `LeaveCycle` or a stutter (`CommandsRefine`), a control period to
these, to `BeginCycle` or to `CompleteCycle` (`PeriodsRefine`), a restart to `Restore` or `Forget`
(`RestartsRefine`). `StartingHasOrder` gives `BeginCycle` its open order, `CycleOwnsItsPart` gives
`CompleteCycle` the order it counts for. `OneMoreTheorem` of `CellOrderProofs` says that a cell with these
steps makes one part too many at most, since a restart cuts the count to the target before it
opens the order again; `OverproductionTheorem` takes it back to the coordinator, as
`OverproductionBounded`.

`MachineCoordinatorProgress` proves what the liveness rests on beside fairness. `WorkTheorem`:
the number of control periods that an order in production still needs, at one for every step,
is not raised by anything that leaves it in production, and every period in which its move ends
lowers it (`StepsDescend` for the steps of a cycle, `Cycles` for the parts of the order). It is
a natural number (`WorkIsNatural`), so a fair timer brings every order to its end for every
quantity. `SettlesTheorem`: such a period leaves every transitional state at once, so that no
two of them can keep handing over to one another.

Assumptions: quantities are positive, the sets of modes, faults and axes are subsets of the
code's, the null value is none of the values, and the checkpoints of the first start are
well-formed and consistent, which every one the machine writes is.

### Delivery

`ResultDeliveryProofs` proves `RecordedOnceTheorem`, `CheckpointTheorem`, `RepeatTheorem` and
`TypeTheorem` from one inductive invariant, and `PromiseTheorem`: the outbox, the services, the
gateways and the MES implement `ResultLedger`, for any quantity, page size and number of
crashes and faults. The refinement maps *made* to the events pending or delivered, *recorded* to
the events with a record, and *settled* to the delivered ones. The
inductive invariant has four parts beside the types. `OrderInv`: a counted part has its event in
the outbox, but for the one whose event the loop is about to write, and a part is begun, or may
be begun, within the target only. `AttemptInv`: what the delivery service holds (its batch, the event it sends, a
request nobody waits for) comes from the outbox. `RecordInv`: what is accepted, receipted or
delivered has a record, and a record comes from the outbox. `CountInv`: a line of the file
gateway without a receipt is about to get one or is paid for by a crash or fault. `RepeatTheorem`
adds `RepeatInv`, which compares the number of completions with the count in the cell, or, while
the process is down, with what a restart takes from the checkpoint. It needs the order of the
writes: the outbox before the checkpoint, so that a checkpoint never counts ahead, and a
checkpoint after every completion, so that it lags by one part at most. A restart also cuts a
count above the target, by one part at most; the two losses do not add up, because a cell whose
count would be cut has closed its order and begins no part.

### Publication and viewer

`ViewerProofs` proves `OneConnectionTheorem`, `BadgeTheorem`, `SceneTheorem`, `TypeTheorem`, and
`DrawnInOrderTheorem`: publication and viewer together implement `LatestValue`. Added to the
properties are `BeforeStart` (before its last line the page has done nothing), `OpenIsConnected`
(an open socket means `state.connected`, so that no replay tick comes between) and
`PipelineInOrder` (each place from the picture back to the machine holds something at least as
new), which is what lets each hop overtake nothing. Bounds on messages and faults are
parameters of the theorems.

### Studio

`StudioProofs` proves `EditorTheorem`, `FormTheorem`, `ButtonTheorem` and `TypeTheorem` for any
templates, texts, faults and number of overlapping calls. The properties are
inductive together and none is alone: validation puts the editor's text in the place of the
manifest, and the form still shows it only because the editor did. The proof treats the form's
variables and those of the runs as two halves.

### Model-checked only

Liveness: `StartedOrderEnds`, `TransitionsSettle`, `ResultsDelivered`, `CatchesUp` and
`ButtonComesBack` are temporal properties under fairness, which needs ENABLED and is out of the
prover's reach; of the first two the other half is proved (`WorkTheorem`, `SettlesTheorem`). Every
invariant and every other action property of a passing run is the subject of a theorem.

## Not modelled, and the plan

In the order in which it is worth doing:

1. The timer loop around the full coordinator, with its awaits and the restore as a step of its
   own: a command that is executed before `RestoreCheckpoint` (the two services start
   independently), and the motion that is not covered while a checkpoint is cleared.
   `MachineCoordinator` restarts between commands and periods, and `ResultDelivery` has the
   order of the writes over the abstract cell. To prove: that the two together implement one
   description of the checkpoint on disk.
2. `OrderPolling`: assignment by the MES, the poll, the load through the bus.
3. `RecipeStore`: files, pointer, activation by the command processor, crash between two files.
4. `CommandBus`: capacity, depth, cancellation, one consumer.
5. `FaultDecorator`: the remembered fault against the axes' faults.

Axis positions and the PID loop stay abstract: the coordinator reads "at target" and "following
error over its limit" only. The health check of the delivery service, whose timeout ends the
service, the progress of orders inside the MES simulator and the growing delay between rounds
are left out of `ResultDelivery`; camera, resizing and the target ghost's button of the viewer
and the metrics and messages of the studio are presentation. `research/studio/app.js` is a
byte-identical copy of the page the service ships; the model stands for both.

API, OPC UA server, HMI, metrics and journals keep no state that control reads back; scripts
and benchmarks are offline. They are listed in `PROJECT.json` with the reason.
