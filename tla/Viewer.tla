------------------------------- MODULE Viewer -------------------------------
(***************************************************************************)
(* The browser viewer (web/viewer/app.js) at the end of StatePublication.  *)
(* The page is one thread: a handler, a timer or an animation frame runs   *)
(* to its end and is one action.                                           *)
(*                                                                         *)
(* The text panels are functions of state.snapshot and are not kept apart  *)
(* from it.  The scene is kept: it is changed in place, and the workpiece  *)
(* stays where an earlier snapshot put it.  A position stands for both     *)
(* axes.  Left out: camera, resizing, the visibility of the target ghost,  *)
(* meshes and wording.                                                     *)
(***************************************************************************)
EXTENDS StatePublication

CONSTANTS
    Recording,       \* the frames of sample-replay.json
    MaxPosition      \* bound: positions of the gantry

VARIABLES
    started,         \* the module reached its last line
    replay,          \* state.replay, as the set of its frames
    socket,          \* readyState of the one WebSocket, "none" between two of them
    reconnects,      \* pending setTimeout(connect) timers
    connected,       \* state.connected
    label,           \* the connection badge
    snapshot,        \* state.snapshot, with where it came from
    scene,
    displayed,       \* state.displayedX, state.displayedY
    newest           \* history: the newest live snapshot that was drawn

clientVars == <<started, replay, socket, reconnects, connected, label, snapshot, scene,
                displayed, newest>>
vars == <<serverVars, clientVars>>

Positions == 0..MaxPosition

\* What the viewer reads of a snapshot.  activePart tells attachedToGripper as well.
FrameType == [executionState : {"Ready", "Running", "Faulted", "RecoveryRequired"},
              guardClosed    : BOOLEAN,
              activePart     : {"none", "loose", "attached"},
              actual         : Positions,
              target         : Positions]

Shown == [origin : {"live", "recorded"}, number : Nat, frame : FrameType]

ASSUME ViewerAssumption ==
    /\ MaxPosition \in Nat
    /\ Frames \subseteq FrameType
    /\ Recording \subseteq FrameType
    /\ Nothing \notin Shown

Scenes == [bridge : {"carriage", "carriageFault"}, door : {"closed", "open"},
           ghost : Positions, visible : BOOLEAN, parent : {"yCarriage", "scene"},
           target : Positions]

Labels == {"CONNECTING", "LIVE", "RECORDED DEMO", "RECONNECTING"}

TypeOK ==
    /\ ServerTypeOK
    /\ started \in BOOLEAN
    /\ replay \in SUBSET FrameType
    /\ socket \in {"none", "connecting", "open", "closing"}
    /\ reconnects \in Nat
    /\ connected \in BOOLEAN
    /\ label \in Labels
    /\ snapshot \in Shown \cup {Nothing}
    /\ scene \in Scenes
    /\ displayed \in Positions
    /\ newest \in Nat

Init ==
    /\ ServerInit
    /\ started = FALSE
    /\ replay = {}
    /\ socket = "none"
    /\ reconnects = 0
    /\ connected = FALSE
    /\ label = "CONNECTING"
    /\ snapshot = Nothing
    /\ scene = [bridge |-> "carriage", door |-> "closed", ghost |-> 0, visible |-> TRUE,
                parent |-> "yCarriage", target |-> 0]
    /\ displayed = 0
    /\ newest = 0

-----------------------------------------------------------------------------
(* Drawing *)

\* MUTANT of UpdateScene: a part that is picked up again stays in the scene.
UpdateSceneLeavesPart(f) ==
    [bridge  |-> IF f.executionState \in {"Faulted", "RecoveryRequired"}
                 THEN "carriageFault" ELSE "carriage",
     door    |-> IF f.guardClosed THEN "closed" ELSE "open",
     ghost   |-> f.target,
     visible |-> f.activePart # "none",
     parent  |-> IF f.activePart = "loose" THEN "scene" ELSE scene.parent,
     target  |-> f.actual]

\* Without a part the workpiece is hidden where it was.
UpdateScene(f) ==
    [bridge  |-> IF f.executionState \in {"Faulted", "RecoveryRequired"}
                 THEN "carriageFault" ELSE "carriage",
     door    |-> IF f.guardClosed THEN "closed" ELSE "open",
     ghost   |-> f.target,
     visible |-> f.activePart # "none",
     parent  |-> CASE f.activePart = "loose" -> "scene"
                   [] f.activePart = "attached" -> "yCarriage"
                   [] OTHER -> scene.parent,
     target  |-> f.actual]

\* state.snapshot and updateUi.
Draw(origin, number, f) ==
    /\ snapshot' = [origin |-> origin, number |-> number, frame |-> f]
    /\ scene' = UpdateScene(f)

\* One frame of the recording; which one is a matter of the page's clock.
DrawRecorded(frames) ==
    /\ \E f \in frames : Draw("recorded", 0, f)
    /\ label' = "RECORDED DEMO"

\* MUTANT of ReplayTick: the recording goes on after the connection was opened.
ReplayTickAlways ==
    /\ started
    /\ replay # {}
    /\ DrawRecorded(replay)
    /\ UNCHANGED <<serverVars, started, replay, socket, reconnects, connected, displayed,
                   newest>>

\* Every 100 ms.  A tick that finds a connection or no recording does nothing.
ReplayTick ==
    /\ started
    /\ ~connected /\ replay # {}
    /\ DrawRecorded(replay)
    /\ UNCHANGED <<serverVars, started, replay, socket, reconnects, connected, displayed,
                   newest>>

\* MUTANT of Animate: a smoothing factor of two.
AnimateOvershoots ==
    /\ started
    /\ displayed # scene.target
    /\ displayed' = 2 * scene.target - displayed
    /\ UNCHANGED <<serverVars, started, replay, socket, reconnects, connected, label,
                   snapshot, scene, newest>>

\* An animation frame takes the gantry closer to where it was last reported, and at
\* the end there.
Animate ==
    /\ started
    /\ displayed # scene.target
    /\ displayed' \in {p \in Positions : IF displayed < scene.target
                                         THEN displayed < p /\ p <= scene.target
                                         ELSE scene.target <= p /\ p < displayed}
    /\ UNCHANGED <<serverVars, started, replay, socket, reconnects, connected, label,
                   snapshot, scene, newest>>

-----------------------------------------------------------------------------
(* The connection *)

\* loadReplay: the frames of the recording, or none when it cannot be fetched or parsed.
LoadReplay == {Recording, {}}

\* The last line of the module: the recording is loaded, or not (loadReplay catches), the
\* first connection is asked for and the first tick of the replay runs.
Start ==
    /\ ~started
    /\ started' = TRUE
    /\ socket' = "connecting"
    /\ replay' \in LoadReplay
    /\ \/ replay' # {} /\ DrawRecorded(replay')
       \/ replay' = {} /\ UNCHANGED <<label, snapshot, scene>>
    /\ UNCHANGED <<serverVars, reconnects, connected, displayed, newest>>

\* The timer of the close handler calls connect.
Connect ==
    /\ reconnects > 0
    /\ reconnects' = reconnects - 1
    /\ socket' = "connecting"
    /\ UNCHANGED <<serverVars, started, replay, connected, label, snapshot, scene, displayed,
                   newest>>

\* The runtime accepts the client and gives it an empty channel (AcceptAsync).
AcceptAsync ==
    /\ serverUp
    /\ socket = "connecting" /\ link = "none"
    /\ link' = "up"
    /\ slot' = Nothing
    /\ UNCHANGED <<serverUp, machine, queue, wire, faults, clientVars>>

Open ==
    /\ socket = "connecting" /\ link = "up"
    /\ socket' = "open"
    /\ connected' = TRUE
    /\ label' = "LIVE"
    /\ UNCHANGED <<serverVars, started, replay, reconnects, snapshot, scene, displayed,
                   newest>>

\* A message that is drawn: state.snapshot, the panels and the scene.
Deliver(m) ==
    /\ Draw("live", m.number, m.frame)
    /\ newest' = m.number
    /\ UNCHANGED <<serverUp, machine, queue, link, slot, faults, started, replay, socket,
                   reconnects, connected, label, displayed>>

\* MUTANT of Message: the handler decodes asynchronously, and a later message overtakes.
MessageOvertakes ==
    /\ socket = "open"
    /\ \E i \in DOMAIN wire :
          /\ Deliver(wire[i])
          /\ wire' = SubSeq(wire, 1, i - 1) \o SubSeq(wire, i + 1, Len(wire))

Message ==
    /\ socket = "open"
    /\ wire # << >>
    /\ Deliver(Head(wire))
    /\ wire' = Tail(wire)

\* The connection broke, or there is no server to ask.
Failed ==
    \/ socket \in {"connecting", "open"} /\ link = "broken"
    \/ socket = "connecting" /\ link = "none" /\ ~serverUp

\* MUTANT of Error: the error handler reconnects too, beside the close that follows.
ErrorReconnects ==
    /\ Failed
    /\ socket' = "closing"
    /\ reconnects' = reconnects + 1
    /\ UNCHANGED <<serverVars, started, replay, connected, label, snapshot, scene,
                   displayed, newest>>

\* The error event; the handler calls socket.close().
Error ==
    /\ Failed
    /\ socket' = "closing"
    /\ UNCHANGED <<serverVars, started, replay, reconnects, connected, label, snapshot,
                   scene, displayed, newest>>

\* What is left to happen to the socket is its close event.
Ended == socket = "closing" \/ (socket = "open" /\ link = "broken")

\* MUTANT of Close: the handler shows that the connection is gone and does not reconnect.
CloseGivesUp ==
    /\ Ended
    /\ socket' = "none"
    /\ link' = "none"
    /\ wire' = << >>
    /\ connected' = FALSE
    /\ label' = "RECONNECTING"
    /\ UNCHANGED <<serverUp, machine, queue, slot, faults, started, replay, reconnects,
                   snapshot, scene, displayed, newest>>

\* The close event, once per socket; what was not delivered is lost.
Close ==
    /\ Ended
    /\ socket' = "none"
    /\ link' = "none"
    /\ wire' = << >>
    /\ connected' = FALSE
    /\ label' = "RECONNECTING"
    /\ reconnects' = reconnects + 1
    /\ UNCHANGED <<serverUp, machine, queue, slot, faults, started, replay, snapshot, scene,
                   displayed, newest>>

-----------------------------------------------------------------------------

ClientNext ==
    \/ Start
    \/ ReplayTick
    \/ Animate
    \/ Connect
    \/ AcceptAsync
    \/ Open
    \/ Message
    \/ Error
    \/ Close

Next ==
    \/ ServerNext /\ UNCHANGED clientVars
    \/ ClientNext

Spec == Init /\ [][Next]_vars

\* Timers, events and animation frames of a page that stays open are served; so are the
\* services of a process that lives.  Neither has to start, crash or restart.
Fairness ==
    /\ WF_vars(Publish /\ UNCHANGED clientVars)
    /\ WF_vars(PublishAsync /\ UNCHANGED clientVars)
    /\ WF_vars(SendSnapshots /\ UNCHANGED clientVars)
    /\ WF_vars(Start)
    /\ WF_vars(Animate)
    /\ WF_vars(Connect)
    /\ WF_vars(AcceptAsync)
    /\ WF_vars(Open)
    /\ WF_vars(Message)
    /\ WF_vars(Close)
    /\ WF_vars(Error)

FairSpec == Spec /\ Fairness

-----------------------------------------------------------------------------
(* Properties *)

\* However often the connection fails, is refused and comes back, the page has one
\* socket or one pending reconnect and never both or two: the error handler leaves the
\* reconnect to the close event that follows (138-140).
OneConnection ==
    started => reconnects = (IF socket = "none" THEN 1 ELSE 0)

\* The badge follows the connection and the picture the badge: LIVE exactly while the page
\* believes in its connection, RECORDED DEMO only over a recorded frame.  A tick of the
\* replay, a message and the events of two connections may come in any order (128-139).
BadgeTellsOrigin ==
    /\ connected <=> label = "LIVE"
    /\ connected => socket \in {"open", "closing"}
    /\ label = "RECORDED DEMO" => snapshot # Nothing /\ snapshot.origin = "recorded"

\* The scene shows the last snapshot although it is changed in place: the workpiece is
\* at the gripper exactly when the part is attached, whatever was drawn before (90-105).
SceneShowsSnapshot ==
    snapshot # Nothing =>
        /\ scene.visible <=> snapshot.frame.activePart # "none"
        /\ scene.visible => (scene.parent = "yCarriage" <=> snapshot.frame.activePart = "attached")
        /\ scene.target = snapshot.frame.actual
        /\ scene.door = "open" <=> ~snapshot.frame.guardClosed

\* Through two one-place buffers, the network, reconnects and restarts of the runtime, the
\* viewer draws machine states in the order in which the machine was in them.
L == INSTANCE LatestValue WITH produced <- machine.number, obtained <- newest
DrawnInOrder == L!Spec

\* What the page shows is the state the machine is in, and the gantry has got there.
Current ==
    /\ connected
    /\ snapshot # Nothing /\ snapshot.origin = "live" /\ snapshot.number = machine.number
    /\ displayed = machine.frame.actual

\* While the runtime is up, the viewer gets back to the machine's state again and again,
\* after any drop, crash or recorded demo, although every buffer on the way may drop
\* what it holds.
CatchesUp == []<>(serverUp => Current)

-----------------------------------------------------------------------------
(* The inductive invariant *)

\* Before its last line the module has done nothing.
BeforeStart ==
    ~started => /\ socket = "none" /\ reconnects = 0
                /\ label = "CONNECTING" /\ snapshot = Nothing

OpenIsConnected == socket = "open" => connected

\* From the viewer back to the machine, each place holds something at least as new.
PipelineInOrder ==
    /\ newest <= machine.number
    /\ \A i \in 1..Len(wire) :
          /\ newest <= wire[i].number
          /\ wire[i].number <= machine.number
          /\ \A j \in i..Len(wire) : wire[i].number <= wire[j].number
          /\ slot # Nothing => wire[i].number <= slot.number
          /\ queue # Nothing => wire[i].number <= queue.number
    /\ slot # Nothing =>
          /\ newest <= slot.number /\ slot.number <= machine.number
          /\ queue # Nothing => slot.number <= queue.number
    /\ queue # Nothing => newest <= queue.number /\ queue.number <= machine.number

Inv ==
    /\ TypeOK
    /\ OneConnection
    /\ BadgeTellsOrigin
    /\ SceneShowsSnapshot
    /\ BeforeStart
    /\ OpenIsConnected
    /\ PipelineInOrder

=============================================================================
