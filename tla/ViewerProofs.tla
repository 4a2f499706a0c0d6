---------------------------- MODULE ViewerProofs ----------------------------
(***************************************************************************)
(* Theorems of Viewer for every value of its constants.                    *)
(***************************************************************************)
EXTENDS Viewer, TLAPS

USE DEF vars, serverVars, clientVars

(* What UpdateScene makes of a frame is a scene. *)
LEMMA SceneType ==
    ASSUME TypeOK, NEW f \in FrameType
    PROVE  UpdateScene(f) \in Scenes
  BY DEF TypeOK, UpdateScene, Scenes, FrameType

(* Drawing a frame of the right type keeps the types of what is drawn. *)
LEMMA DrawType ==
    ASSUME TypeOK, NEW origin \in {"live", "recorded"}, NEW number \in Nat,
           NEW f \in FrameType, Draw(origin, number, f)
    PROVE  /\ snapshot' \in Shown /\ scene' \in Scenes
           /\ snapshot' # Nothing /\ snapshot'.origin = origin
  BY SceneType, ViewerAssumption DEF Draw, Shown

(* A step keeps the types of what the runtime holds. *)
LEMMA ServerTypeStep ==
    ASSUME ServerTypeOK, [Next]_vars
    PROVE  ServerTypeOK'
<1> USE PublicationAssumption DEF ServerTypeOK
<1>1. CASE Tick \/ Restart
  <2>1. machine'.number \in Nat /\ machine' \in Snapshots
    BY <1>1 DEF Tick, Restart, Snapshots
  <2>2. QED
    BY <1>1, <2>1 DEF Tick, Restart
<1>2. CASE Publish \/ PublishAsync
  BY <1>2 DEF Publish, PublishAsync
<1>3. CASE SendSnapshots
  BY <1>3 DEF SendSnapshots
<1>4. CASE DropLink \/ Crash
  <2>1. faults' \in Nat
    BY <1>4 DEF DropLink, Crash
  <2>2. link' \in Links /\ serverUp' \in BOOLEAN
    BY <1>4 DEF DropLink, Crash, Disconnected, Links
  <2>3. QED
    BY <1>4, <2>1, <2>2 DEF DropLink, Crash
<1>5. CASE AcceptAsync \/ Close
  <2>1. << >> \in Seq(Snapshots)
    OBVIOUS
  <2>2. QED
    BY <1>5, <2>1 DEF AcceptAsync, Close, Links
<1>6. CASE Message
  <2>1. Tail(wire) \in Seq(Snapshots)
    BY <1>6 DEF Message
  <2>2. QED
    BY <1>6, <2>1 DEF Message, Deliver
<1>7. CASE UNCHANGED serverVars
  BY <1>7
<1>8. QED
  BY <1>1, <1>2, <1>3, <1>4, <1>5, <1>6, <1>7
     DEF Next, ServerNext, ClientNext, Start, ReplayTick, Animate, Connect, Open, Error

(* A step keeps the types of what the page holds. *)
LEMMA TypeStep ==
    ASSUME TypeOK, [Next]_vars
    PROVE  TypeOK'
<1> USE ViewerAssumption
<1>0. ServerTypeOK'
  BY ServerTypeStep DEF TypeOK
<1>1. CASE UNCHANGED clientVars
  BY <1>0, <1>1 DEF TypeOK
<1>2. CASE Start
  <2>1. replay' \in SUBSET FrameType
    BY <1>2 DEF Start, LoadReplay
  <2>2. CASE DrawRecorded(replay')
    BY <1>0, <1>2, <2>1, <2>2, DrawType DEF TypeOK, Start, DrawRecorded, Labels
  <2>3. CASE UNCHANGED <<label, snapshot, scene>>
    BY <1>0, <1>2, <2>1, <2>3 DEF TypeOK, Start
  <2>4. QED
    BY <1>2, <2>2, <2>3 DEF Start
<1>3. CASE ReplayTick
  BY <1>0, <1>3, DrawType DEF TypeOK, ReplayTick, DrawRecorded, Labels
<1>4. CASE Message
  <2>1. Head(wire) \in Snapshots
    BY <1>4 DEF TypeOK, ServerTypeOK, Message
  <2>2. Head(wire).number \in Nat /\ Head(wire).frame \in FrameType
    BY <2>1 DEF Snapshots
  <2>3. QED
    BY <1>0, <1>4, <2>2, DrawType DEF TypeOK, Message, Deliver
<1>5. CASE Animate
  BY <1>0, <1>5 DEF TypeOK, Animate
<1>6. CASE Connect
  BY <1>0, <1>6 DEF TypeOK, Connect
<1>7. CASE AcceptAsync
  BY <1>0, <1>1, <1>7 DEF AcceptAsync
<1>8. CASE Open \/ Error
  BY <1>0, <1>8 DEF TypeOK, Open, Error, Labels
<1>9. CASE Close
  <2>1. reconnects' \in Nat
    BY <1>9 DEF TypeOK, Close
  <2>2. connected' \in BOOLEAN /\ label' \in Labels
    BY <1>9 DEF Close, Labels
  <2>3. QED
    BY <1>0, <1>9, <2>1, <2>2 DEF TypeOK, Close
<1>10. QED
  BY <1>1, <1>2, <1>3, <1>4, <1>5, <1>6, <1>7, <1>8, <1>9 DEF Next, ClientNext

(* The reconnect timer fires when there is no socket. *)
LEMMA ConnectWaits ==
    ASSUME reconnects \in Nat, OneConnection, BeforeStart, Connect
    PROVE  started /\ socket = "none" /\ reconnects = 1
  BY DEF Connect, OneConnection, BeforeStart

(* Once started, the page holds one socket or one pending reconnect. *)
LEMMA OneConnectionStep ==
    ASSUME reconnects \in Nat, OneConnection, BeforeStart, [Next]_vars
    PROVE  OneConnection'
<1>1. CASE Start
  BY <1>1 DEF Start, OneConnection, BeforeStart
<1>2. CASE Connect
  <2>1. started /\ socket = "none" /\ reconnects = 1
    BY <1>2, ConnectWaits
  <2>2. socket' = "connecting" /\ reconnects' = reconnects - 1
    BY <1>2 DEF Connect
  <2>3. QED
    BY <2>1, <2>2 DEF OneConnection
<1>3. CASE Open
  BY <1>3 DEF Open, OneConnection
<1>4. CASE Error
  BY <1>4 DEF Error, Failed, OneConnection
<1>5. CASE Close
  <2>1. started /\ socket # "none"
    BY <1>5 DEF Close, Ended, BeforeStart
  <2>2. socket' = "none" /\ reconnects' = reconnects + 1
    BY <1>5 DEF Close
  <2>3. QED
    BY <2>1, <2>2 DEF OneConnection
<1>6. CASE UNCHANGED <<started, socket, reconnects>>
  BY <1>6 DEF OneConnection
<1>7. QED
  BY <1>1, <1>2, <1>3, <1>4, <1>5, <1>6
     DEF Next, ClientNext, ReplayTick, Animate, AcceptAsync, Message, Deliver

(* What is drawn from a recording is recorded, and is labelled so. *)
LEMMA DrawRecordedShows ==
    ASSUME TypeOK, NEW frames \in SUBSET FrameType, DrawRecorded(frames)
    PROVE  /\ snapshot' # Nothing /\ snapshot'.origin = "recorded"
           /\ label' = "RECORDED DEMO"
  BY DrawType DEF DrawRecorded

(* The badge, and what is drawn, follow the connection. *)
LEMMA BadgeStep ==
    ASSUME Inv, [Next]_vars
    PROVE  BadgeTellsOrigin' /\ BeforeStart' /\ OpenIsConnected'
<1> USE DEF Inv, BadgeTellsOrigin, BeforeStart, OpenIsConnected
<1>1. CASE UNCHANGED clientVars
  BY <1>1
<1>2. CASE Start
  <2>1. \/ label' = "RECORDED DEMO" /\ snapshot' # Nothing /\ snapshot'.origin = "recorded"
        \/ label' = label /\ snapshot' = snapshot
    BY <1>2, DrawRecordedShows, ViewerAssumption DEF Start, LoadReplay
  <2>2. started' /\ socket' = "connecting" /\ connected' = connected /\ label # "LIVE"
    BY <1>2 DEF Start
  <2>3. QED
    BY <2>1, <2>2
<1>3. CASE ReplayTick
  <2>1. label' = "RECORDED DEMO" /\ snapshot' # Nothing /\ snapshot'.origin = "recorded"
    BY <1>3, DrawRecordedShows DEF ReplayTick, TypeOK
  <2>2. QED
    BY <1>3, <2>1 DEF ReplayTick
<1>4. CASE Message
  BY <1>4 DEF Message, Deliver, Draw
<1>5. CASE Animate \/ AcceptAsync
  <2>1. UNCHANGED <<started, socket, reconnects, connected, label, snapshot>>
    BY <1>5 DEF Animate, AcceptAsync
  <2>2. QED
    BY <2>1
<1>6. CASE Connect
  <2>1. started /\ socket = "none"
    BY <1>6, ConnectWaits DEF TypeOK
  <2>2. QED
    BY <2>1, <1>6 DEF Connect
<1>7. CASE Open
  BY <1>7 DEF Open
<1>8. CASE Error
  BY <1>8 DEF Error, Failed
<1>9. CASE Close
  <2>1. started
    BY <1>9 DEF Close, Ended
  <2>2. QED
    BY <2>1, <1>9 DEF Close
<1>10. QED
  BY <1>1, <1>2, <1>3, <1>4, <1>5, <1>6, <1>7, <1>8, <1>9 DEF Next, ClientNext

(* A drawn frame is what the scene shows, wherever the workpiece was before. *)
LEMMA DrawShows ==
    ASSUME TypeOK, NEW origin, NEW number, NEW f \in FrameType, Draw(origin, number, f)
    PROVE  SceneShowsSnapshot'
  BY DEF Draw, UpdateScene, SceneShowsSnapshot, FrameType, TypeOK, Scenes

LEMMA SceneStep ==
    ASSUME Inv, [Next]_vars
    PROVE  SceneShowsSnapshot'
<1> USE ViewerAssumption
<1>1. CASE UNCHANGED <<snapshot, scene>>
  BY <1>1 DEF Inv, SceneShowsSnapshot
<1>2. CASE Start \/ ReplayTick
  BY <1>1, <1>2, DrawShows DEF Start, LoadReplay, ReplayTick, DrawRecorded, Inv, TypeOK
<1>3. CASE Message
  <2>1. Head(wire) \in Snapshots
    BY <1>3 DEF Inv, TypeOK, ServerTypeOK, Message
  <2>2. Head(wire).frame \in FrameType
    BY <2>1 DEF Snapshots
  <2>3. QED
    BY <1>3, <2>2, DrawShows DEF Message, Deliver, Inv
<1>4. QED
  BY <1>1, <1>2, <1>3
     DEF Next, ClientNext, Animate, Connect, AcceptAsync, Open, Error, Close

(* The numbers of what the runtime and the network hold. *)
LEMMA Numbers ==
    ASSUME TypeOK
    PROVE  /\ machine.number \in Nat /\ newest \in Nat
           /\ slot # Nothing => slot.number \in Nat
           /\ queue # Nothing => queue.number \in Nat
           /\ Len(wire) \in Nat
           /\ \A i \in 1..Len(wire) : wire[i].number \in Nat
<1>1. \A s \in Snapshots : s.number \in Nat
  BY DEF Snapshots
<1>2. wire \in Seq(Snapshots)
  BY DEF TypeOK, ServerTypeOK
<1>3. Len(wire) \in Nat /\ \A i \in 1..Len(wire) : wire[i] \in Snapshots
  BY <1>2
<1>4. QED
  BY <1>1, <1>3 DEF TypeOK, ServerTypeOK

(* Every place on the way to the viewer holds something at least as new as the next. *)
LEMMA PipelineStep ==
    ASSUME Inv, [Next]_vars
    PROVE  PipelineInOrder'
<1> USE PublicationAssumption, Numbers DEF Inv
<1>1. CASE UNCHANGED <<machine, queue, slot, wire, newest>>
  BY <1>1 DEF PipelineInOrder
<1>2. CASE (Tick \/ Restart) /\ UNCHANGED clientVars
  <2>1. machine'.number = machine.number + 1
    BY <1>2 DEF Tick, Restart
  <2>2. QED
    BY <1>2, <2>1 DEF Tick, Restart, PipelineInOrder
<1>3. CASE Publish /\ UNCHANGED clientVars
  BY <1>3 DEF Publish, PipelineInOrder, TypeOK, ServerTypeOK
<1>4. CASE PublishAsync /\ UNCHANGED clientVars
  BY <1>4 DEF PublishAsync, PipelineInOrder
<1>5. CASE SendSnapshots /\ UNCHANGED clientVars
  <2>1. /\ wire \in Seq(Snapshots) /\ slot \in Snapshots
        /\ wire' = Append(wire, slot)
    BY <1>5 DEF SendSnapshots, TypeOK, ServerTypeOK
  <2>2. /\ Len(wire') = Len(wire) + 1
        /\ \A i \in 1..Len(wire) : wire'[i] = wire[i]
        /\ wire'[Len(wire) + 1] = slot
    BY <2>1
  <2>3. QED
    BY <1>5, <2>2 DEF SendSnapshots, PipelineInOrder
<1>6. CASE (DropLink \/ Crash) /\ UNCHANGED clientVars
  BY <1>6 DEF DropLink, Crash, PipelineInOrder
<1>7. CASE AcceptAsync
  BY <1>7 DEF AcceptAsync, PipelineInOrder
<1>8. CASE Message
  <2>1. wire \in Seq(Snapshots) /\ wire # << >> /\ wire' = Tail(wire)
    BY <1>8 DEF Message, TypeOK, ServerTypeOK
  <2>2. /\ Len(wire) > 0 /\ Len(wire') = Len(wire) - 1
        /\ \A i \in 1..(Len(wire) - 1) : wire'[i] = wire[i + 1]
    BY <2>1
  <2>3. newest' = wire[1].number
    BY <1>8, <2>1 DEF Message, Deliver
  <2>4. UNCHANGED <<machine, queue, slot>>
    BY <1>8 DEF Message, Deliver
  <2>5. /\ newest' <= machine.number
        /\ slot # Nothing => newest' <= slot.number /\ slot.number <= machine.number
        /\ queue # Nothing => newest' <= queue.number /\ queue.number <= machine.number
        /\ slot # Nothing /\ queue # Nothing => slot.number <= queue.number
    BY <2>2, <2>3 DEF PipelineInOrder
  <2>6. ASSUME NEW i \in 1..Len(wire')
        PROVE  /\ newest' <= wire'[i].number
               /\ wire'[i].number <= machine.number
               /\ \A j \in i..Len(wire') : wire'[i].number <= wire'[j].number
               /\ slot # Nothing => wire'[i].number <= slot.number
               /\ queue # Nothing => wire'[i].number <= queue.number
    <3>1. i + 1 \in 1..Len(wire) /\ wire'[i] = wire[i + 1] /\ i + 1 \in 1..Len(wire)
      BY <2>2, <2>6
    <3>2. \A j \in i..Len(wire') : j + 1 \in (i + 1)..Len(wire) /\ wire'[j] = wire[j + 1]
      BY <2>2, <2>6
    <3>3. 1 \in 1..Len(wire) /\ i + 1 \in 1..Len(wire)
      BY <2>2, <3>1
    <3>4. QED
      BY <2>3, <3>1, <3>2, <3>3 DEF PipelineInOrder
  <2>7. QED
    BY <2>4, <2>5, <2>6 DEF PipelineInOrder
<1>9. CASE Close
  BY <1>9 DEF Close, PipelineInOrder
<1>10. QED
  BY <1>1, <1>2, <1>3, <1>4, <1>5, <1>6, <1>7, <1>8, <1>9
     DEF Next, ServerNext, ClientNext, Start, ReplayTick, Animate, Connect, Open, Error

LEMMA InitInv ==
    ASSUME Init
    PROVE  Inv
<1> USE ViewerAssumption, PublicationAssumption DEF Init, ServerInit
<1>1. ServerTypeOK
  BY DEF ServerTypeOK, Snapshots, Links
<1>2. 0 \in Positions
  BY DEF Positions
<1>3. TypeOK
  BY <1>1, <1>2 DEF TypeOK, Scenes, Labels
<1>4. QED
  BY <1>3 DEF Inv, OneConnection, BadgeTellsOrigin, SceneShowsSnapshot, BeforeStart,
              OpenIsConnected, PipelineInOrder

(* The invariant is inductive: it holds in every reachable state. *)
THEOREM InvariantTheorem == Spec => []Inv
<1>1. Init => Inv
  BY InitInv
<1>2. Inv /\ [Next]_vars => Inv'
  BY TypeStep, OneConnectionStep, BadgeStep, SceneStep, PipelineStep DEF Inv, TypeOK
<1>3. QED
  BY <1>1, <1>2, PTL DEF Spec

(* Every variable has its type. *)
THEOREM TypeTheorem == Spec => []TypeOK
<1>1. Inv => TypeOK
  BY DEF Inv
<1>2. QED
  BY <1>1, InvariantTheorem, PTL

(* One socket or one pending reconnect (134-141). *)
THEOREM OneConnectionTheorem == Spec => []OneConnection
<1>1. Inv => OneConnection
  BY DEF Inv
<1>2. QED
  BY <1>1, InvariantTheorem, PTL

(* The badge tells where the picture comes from (128-139). *)
THEOREM BadgeTheorem == Spec => []BadgeTellsOrigin
<1>1. Inv => BadgeTellsOrigin
  BY DEF Inv
<1>2. QED
  BY <1>1, InvariantTheorem, PTL

(* The scene shows the last snapshot (90-105). *)
THEOREM SceneTheorem == Spec => []SceneShowsSnapshot
<1>1. Inv => SceneShowsSnapshot
  BY DEF Inv
<1>2. QED
  BY <1>1, InvariantTheorem, PTL

(* The refinement: a state of the machine is a value produced, a message drawn is a value
   obtained, and every other step is a stutter of LatestValue. *)
THEOREM DrawnInOrderTheorem == Spec => DrawnInOrder
<1>1. Init => L!Init
  BY DEF Init, ServerInit, L!Init
<1>2. Inv /\ [Next]_vars => [L!Produce \/ L!Obtain]_<<machine.number, newest>>
  <2> SUFFICES ASSUME Inv, [Next]_vars
               PROVE  [L!Produce \/ L!Obtain]_<<machine.number, newest>>
    OBVIOUS
  <2>1. CASE (Tick \/ Restart) /\ UNCHANGED clientVars
    BY <2>1 DEF Tick, Restart, L!Produce
  <2>2. CASE Message
    <3>1. wire \in Seq(Snapshots) /\ wire # << >>
      BY <2>2 DEF Inv, TypeOK, ServerTypeOK, Message
    <3>2. Len(wire) \in Nat /\ 1 \in 1..Len(wire)
      BY <3>1
    <3>3. newest' = wire[1].number /\ machine' = machine
      BY <2>2, <3>1 DEF Message, Deliver
    <3>4. newest <= wire[1].number /\ wire[1].number <= machine.number
      BY <3>2 DEF Inv, PipelineInOrder
    <3>5. newest \in Nat /\ wire[1].number \in Nat /\ machine.number \in Nat
      BY <3>2, Numbers DEF Inv
    <3>6. newest' = newest \/ newest' \in (newest + 1)..machine.number
      BY <3>3, <3>4, <3>5
    <3>7. QED
      BY <3>3, <3>6 DEF L!Obtain
  <2>3. CASE UNCHANGED <<machine, newest>>
    BY <2>3
  <2>4. QED
    BY <2>1, <2>2, <2>3
       DEF Next, ServerNext, ClientNext, Publish, PublishAsync, SendSnapshots, DropLink,
           Crash, Start, ReplayTick, Animate, Connect, AcceptAsync, Open, Error, Close
<1>3. QED
  BY <1>1, <1>2, InvariantTheorem, PTL DEF Spec, DrawnInOrder, L!Spec

=============================================================================
