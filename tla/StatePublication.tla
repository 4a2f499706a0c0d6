-------------------------- MODULE StatePublication --------------------------
(***************************************************************************)
(* How machine state leaves the runtime process: the control loop offers   *)
(* its snapshot to the one-place queue of StatePublicationQueue, the       *)
(* publication service moves it to the one-place channel that the          *)
(* WebSocket publisher keeps for each client, and a task per client sends  *)
(* it.  One client is modelled; each client has a channel of its own.      *)
(*                                                                         *)
(* A snapshot is its place in the history of the machine and what a client *)
(* can see of it.  The number is history, not the Revision field, which    *)
(* starts again with every process.                                        *)
(***************************************************************************)
EXTENDS Naturals, Sequences

CONSTANTS
    Frames,          \* what a snapshot can show
    Nothing,         \* no snapshot
    MaxNumber,       \* bound: machine states
    MaxWire,         \* bound: messages the network holds
    MaxFaults        \* bound: crashes and dropped connections

VARIABLES
    serverUp,        \* the runtime process is alive
    machine,         \* the snapshot of the last control period
    queue,           \* StatePublicationQueue
    link,            \* the connection the client has asked for
    slot,            \* the client's Outbound channel
    wire,            \* messages sent and not yet delivered
    faults

serverVars == <<serverUp, machine, queue, link, slot, wire, faults>>

Snapshots == [number : Nat, frame : Frames]

Links == {"none", "up", "broken"}

ASSUME PublicationAssumption ==
    /\ Nothing \notin Snapshots
    /\ MaxNumber \in Nat /\ MaxWire \in Nat /\ MaxFaults \in Nat

ServerTypeOK ==
    /\ serverUp \in BOOLEAN
    /\ machine \in Snapshots
    /\ queue \in Snapshots \cup {Nothing}
    /\ link \in Links
    /\ slot \in Snapshots \cup {Nothing}
    /\ wire \in Seq(Snapshots)
    /\ faults \in Nat

ServerInit ==
    /\ serverUp = TRUE
    /\ machine \in [number : {0}, frame : Frames]
    /\ queue = Nothing
    /\ link = "none"
    /\ slot = Nothing
    /\ wire = << >>
    /\ faults = 0

\* A control period that changes what clients can see.  Every publishEvery-th period
\* offers its snapshot, so a change may be offered at once or by a later period.
Tick ==
    /\ serverUp
    /\ machine.number < MaxNumber
    /\ machine' \in [number : {machine.number + 1}, frame : Frames]
    /\ UNCHANGED <<serverUp, queue, link, slot, wire, faults>>

\* A full queue drops what it holds.
Publish ==
    /\ serverUp
    /\ queue' = machine
    /\ UNCHANGED <<serverUp, machine, link, slot, wire, faults>>

\* The publication service takes the snapshot and writes it to every client's channel,
\* which drops what it holds; without a client the snapshot is dropped.
PublishAsync ==
    /\ serverUp
    /\ queue # Nothing
    /\ queue' = Nothing
    /\ slot' = IF link = "up" THEN queue ELSE slot
    /\ UNCHANGED <<serverUp, machine, link, wire, faults>>

SendSnapshots ==
    /\ serverUp /\ link = "up"
    /\ slot # Nothing
    /\ Len(wire) < MaxWire
    /\ wire' = Append(wire, slot)
    /\ slot' = Nothing
    /\ UNCHANGED <<serverUp, machine, queue, link, faults>>

\* The client's connection ends: its channel is completed and removed.
Disconnected(l) == IF l = "up" THEN "broken" ELSE l

\* The network drops the connection.  What is in flight may still be delivered.
DropLink ==
    /\ faults < MaxFaults
    /\ link = "up"
    /\ link' = "broken"
    /\ slot' = Nothing
    /\ faults' = faults + 1
    /\ UNCHANGED <<serverUp, machine, queue, wire>>

\* The process ends, with everything it had buffered.
Crash ==
    /\ serverUp
    /\ faults < MaxFaults
    /\ serverUp' = FALSE
    /\ queue' = Nothing
    /\ slot' = Nothing
    /\ link' = Disconnected(link)
    /\ faults' = faults + 1
    /\ UNCHANGED <<machine, wire>>

\* A new process begins with a state of its own.
Restart ==
    /\ ~serverUp
    /\ serverUp' = TRUE
    /\ machine' \in [number : {machine.number + 1}, frame : Frames]
    /\ UNCHANGED <<queue, link, slot, wire, faults>>

ServerNext ==
    \/ Tick
    \/ Publish
    \/ PublishAsync
    \/ SendSnapshots
    \/ DropLink
    \/ Crash
    \/ Restart

=============================================================================
