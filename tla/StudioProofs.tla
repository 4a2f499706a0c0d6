---------------------------- MODULE StudioProofs ----------------------------
(* The safety of Studio for any templates, typed texts, faults and number of *)
(* calls: the editor and the form show the manifest that is run, and the Run *)
(* button is off only for a call.                                            *)
EXTENDS Studio, TLAPS

\* The parts support each other: validation puts the editor's text in the place of the
\* manifest, and the form still shows it only because the editor did.
Inv ==
    /\ TypeOK
    /\ EditorShowsManifest
    /\ FormShowsManifest
    /\ ButtonOffForACall

Forms == [number : Numbers, mode : Modes, fault : MachineFaults]

-----------------------------------------------------------------------------
(* The form and the manifest *)

LEMMA ModeType == ASSUME NEW m PROVE ModeOf(m) \in Modes
BY DEF ModeOf, Modes

LEMMA OrDefaultType ==
    ASSUME NEW n \in Numbers
    PROVE  OrDefault(n) \in Numbers
BY DEF OrDefault, Numbers

\* What the form writes into a manifest, the form reads from it.
LEMMA FormRoundTrip ==
    ASSUME NEW form \in Forms, NEW m, m.scenarios = FormScenarios(form)
    PROVE  ModeOf(m) = form.mode
<1> DEFINE network == [domain |-> "network", type |-> "message_delay"]
           fault == [domain |-> "machine", type |-> form.fault]
<1>1. form.mode \in Modes /\ form.fault \in MachineFaults
      BY DEF Forms
<1>2. network \in Scenarios /\ network.domain = "network"
      BY StudioAssumption DEF Scenarios
<1>3. fault \in Scenarios /\ fault.domain = "machine"
      BY <1>1 DEF Scenarios
<1>4. \A s : s \in FormScenarios(form) <=>
          /\ s \in Scenarios
          /\ \/ form.mode \in {"machine", "combined"} /\ s = fault
             \/ form.mode \in {"network", "combined"} /\ s = network
      BY DEF FormScenarios
<1> HIDE DEF network, fault
<1>5. Has(m, "machine") <=> form.mode \in {"machine", "combined"}
      BY <1>2, <1>3, <1>4 DEF Has
<1>6. Has(m, "network") <=> form.mode \in {"network", "combined"}
      BY <1>2, <1>3, <1>4 DEF Has
<1>7. QED
      BY <1>1, <1>5, <1>6 DEF ModeOf, Modes

LEMMA FormScenariosType ==
    ASSUME NEW m \in Manifests, NEW form \in Forms
    PROVE  [m EXCEPT !.number = form.number, !.scenarios = FormScenarios(form)] \in Manifests
<1>1. FormScenarios(form) \in SUBSET Scenarios
      BY DEF FormScenarios
<1>2. form.number \in Numbers
      BY DEF Forms
<1>3. QED
      BY <1>1, <1>2 DEF Manifests

\* Applying a manifest to the form makes the form show it.
LEMMA ApplyShows ==
    ASSUME TypeOK, NEW m \in Manifests, ApplyControls(m), RenderWorkflow
    PROVE  /\ controls' \in Forms /\ workflow' \in Modes \cup MachineFaults
           /\ controls'.mode = ModeOf(m)
           /\ controls'.number = OrDefault(m.number)
           /\ \/ workflow' = ModeOf(m)
              \/ ModeOf(m) = "machine" /\ workflow' \in MachineFaults
<1>1. controls \in Forms /\ ModeOf(m) \in Modes /\ m.number \in Numbers
      BY ModeType DEF TypeOK, Forms, Manifests
<1>2. OrDefault(m.number) \in Numbers
      BY <1>1, OrDefaultType
<1>3. controls' = [controls EXCEPT !.number = OrDefault(m.number), !.mode = ModeOf(m)]
      BY DEF ApplyControls
<1>4. /\ controls' \in Forms
      /\ controls'.mode = ModeOf(m)
      /\ controls'.number = OrDefault(m.number)
      BY <1>1, <1>2, <1>3 DEF Forms
<1>5. controls'.fault \in MachineFaults
      BY <1>4 DEF Forms
<1>6. QED
      BY <1>1, <1>4, <1>5 DEF RenderWorkflow

-----------------------------------------------------------------------------
(* The invariant *)

\* The invariant's two halves: the form's variables, and those of the runs.
FormInv ==
    /\ manifest \in Manifests \cup {None}
    /\ editor \in Manifests \cup {Garbled}
    /\ controls \in Forms
    /\ workflow \in Modes \cup MachineFaults
    /\ EditorShowsManifest
    /\ FormShowsManifest

RunTypeOK ==
    /\ cards \in BOOLEAN
    /\ loads \in 0..MaxLoads
    /\ call \in [Calls -> [at : CallStates, job : 0..MaxJobs]]
    /\ job \in 0..MaxJobs
    /\ jobs \in [1..MaxJobs -> JobStates]
    /\ runDisabled \in BOOLEAN
    /\ moving \in BOOLEAN
    /\ faults \in 0..MaxFaults

RunInv == RunTypeOK /\ ButtonOffForACall

LEMMA Halves ==
    /\ Inv <=> FormInv /\ RunInv
    /\ Inv' <=> FormInv' /\ RunInv'
BY DEF Inv, TypeOK, FormInv, RunInv, RunTypeOK, Forms

LEMMA InitInv == ASSUME Init PROVE Inv
<1>1. FormInv
      BY StudioAssumption
      DEF Init, FormInv, Forms, Numbers, Modes, EditorShowsManifest, FormShowsManifest
<1>2. RunInv
      <2>1. Idle \in [at : CallStates, job : 0..MaxJobs]
            BY StudioAssumption DEF Idle, CallStates
      <2>2. call \in [Calls -> [at : CallStates, job : 0..MaxJobs]]
            BY <2>1 DEF Init
      <2>3. jobs \in [1..MaxJobs -> JobStates]
            BY DEF Init, JobStates
      <2>4. job \in 0..MaxJobs /\ loads \in 0..MaxLoads /\ faults \in 0..MaxFaults
            BY StudioAssumption DEF Init
      <2>5. cards = FALSE /\ runDisabled = FALSE /\ moving = FALSE
            BY DEF Init
      <2>6. QED
            BY <2>2, <2>3, <2>4, <2>5 DEF RunInv, RunTypeOK, ButtonOffForACall
<1>3. QED
      BY <1>1, <1>2, Halves

\* A template shown in the form, the editor and the workflow.
LEMMA SelectTemplateForm ==
    ASSUME Inv, NEW template \in Templates, SelectTemplate(template)
    PROVE  FormInv'
<1>1. template \in Manifests
      BY StudioAssumption
<1>2. manifest' = template /\ editor' = template /\ ApplyControls(template) /\ RenderWorkflow
      BY DEF SelectTemplate, RenderManifest
<1>3. QED
      BY <1>1, <1>2, ApplyShows DEF Inv, FormInv, EditorShowsManifest, FormShowsManifest

LEMMA EditManifestForm ==
    ASSUME Inv, EditManifest
    PROVE  FormInv'
<1>1. editor' \in Manifests \cup {Garbled}
      BY StudioAssumption DEF EditManifest
<1>2. CASE editor' = Garbled
      BY <1>1, <1>2, Halves
      DEF EditManifest, FormInv, EditorShowsManifest, FormShowsManifest
<1>3. CASE editor' # Garbled
      <2>1. editor' \in Manifests /\ manifest' = editor'
            BY <1>1, <1>3 DEF EditManifest
      <2>2. ApplyControls(editor') /\ RenderWorkflow
            BY <1>3 DEF EditManifest
      <2>3. QED
            BY <2>1, <2>2, ApplyShows DEF Inv, FormInv, EditorShowsManifest, FormShowsManifest
<1>4. QED
      BY <1>2, <1>3

LEMMA ChangeControlForm ==
    ASSUME Inv, ChangeControl
    PROVE  FormInv'
<1>1. controls' \in Forms
      BY Halves DEF ChangeControl, FormInv, Forms
<1>2. SyncControls
      BY DEF ChangeControl
<1>3. CASE manifest = None
      BY <1>1, <1>2, <1>3, Halves, StudioAssumption
      DEF SyncControls, FormInv, EditorShowsManifest, FormShowsManifest
<1>4. CASE manifest # None
      <2>1. manifest \in Manifests
            BY <1>4, Halves DEF FormInv
      <2>2. manifest' = [manifest EXCEPT !.number = controls'.number,
                                         !.scenarios = FormScenarios(controls')]
            BY <1>2, <1>4 DEF SyncControls
      <2>3. manifest' \in Manifests
            BY <1>1, <2>1, <2>2, FormScenariosType
      <2>4. /\ manifest'.number = controls'.number
            /\ manifest'.scenarios = FormScenarios(controls')
            BY <2>1, <2>2 DEF Manifests
      <2>5. ModeOf(manifest') = controls'.mode
            BY <1>1, <2>4, FormRoundTrip
      <2>6. editor' = manifest'
            BY <1>2, <1>4 DEF SyncControls, RenderManifest
      <2>7. workflow' = IF controls'.mode = "machine" THEN controls'.fault ELSE controls'.mode
            BY <1>2, <1>4 DEF SyncControls, RenderWorkflow
      <2>8. controls'.fault \in MachineFaults /\ controls'.mode \in Modes
            BY <1>1 DEF Forms
      <2>9. FormShowsManifest'
            BY <2>4, <2>5, <2>7, <2>8 DEF FormShowsManifest
      <2>10. QED
            BY <1>1, <2>3, <2>6, <2>7, <2>8, <2>9 DEF FormInv, EditorShowsManifest
<1>5. QED
      BY <1>3, <1>4

\* Validation changes nothing, because the editor shows the manifest.
LEMMA ValidateKeeps ==
    ASSUME Inv, ValidateManifest
    PROVE  manifest' = manifest
BY DEF Inv, EditorShowsManifest, ValidateManifest

LEMMA FormKept ==
    ASSUME FormInv, UNCHANGED formVars
    PROVE  FormInv'
BY DEF FormInv, formVars, EditorShowsManifest, FormShowsManifest

LEMMA FormNextInv ==
    ASSUME Inv, FormNext
    PROVE  Inv'
<1> USE DEF RunInv, RunTypeOK, ButtonOffForACall, HeldBy
<1>1. CASE ChangeControl
      <2>1. RunInv'
            BY <1>1, Halves DEF ChangeControl, buttonVars
      <2>2. QED
            BY <1>1, <2>1, ChangeControlForm, Halves
<1>2. CASE EditManifest
      <2>1. RunInv'
            BY <1>2, Halves DEF EditManifest, buttonVars
      <2>2. QED
            BY <1>2, <2>1, EditManifestForm, Halves
<1>3. CASE RefreshTemplates
      <2>1. RunInv'
            BY <1>3, Halves, StudioAssumption DEF RefreshTemplates, buttonVars
      <2>2. QED
            BY <1>3, <2>1, FormKept, Halves DEF RefreshTemplates
<1>4. CASE LoadTemplates
      <2>1. RunInv'
            BY <1>4, Halves, StudioAssumption DEF LoadTemplates, buttonVars
      <2>2. QED
            BY <1>4, <2>1, SelectTemplateForm, Halves, StudioAssumption DEF LoadTemplates
<1>5. CASE LoadFails
      <2>1. RunInv'
            BY <1>5, Halves, StudioAssumption DEF LoadFails, buttonVars
      <2>2. QED
            BY <1>5, <2>1, FormKept, Halves DEF LoadFails
<1>6. CASE ClickCard
      <2>1. RunInv'
            BY <1>6, Halves DEF ClickCard, buttonVars
      <2>2. QED
            BY <1>6, <2>1, SelectTemplateForm, Halves DEF ClickCard
<1>7. CASE ClickValidate
      <2>1. RunInv'
            BY <1>7, Halves DEF ClickValidate, buttonVars
      <2>2. UNCHANGED formVars
            BY <1>7, ValidateKeeps DEF ClickValidate, formVars
      <2>3. QED
            BY <2>1, <2>2, FormKept, Halves
<1>8. QED
      BY <1>1, <1>2, <1>3, <1>4, <1>5, <1>6, <1>7 DEF FormNext

-----------------------------------------------------------------------------
(* The runs *)

CallRecords == [at : CallStates, job : 0..MaxJobs]

\* A call moves on: the button is off only if that call, or as before another, is why.
LEMMA Moves ==
    ASSUME RunInv, NEW c \in Calls, NEW r \in CallRecords,
           call' = [call EXCEPT ![c] = r],
           runDisabled' => /\ moving'
                           /\ \/ r.at \notin {"idle", "validating"}
                              \/ runDisabled /\ ~HeldBy(c)
    PROVE  ButtonOffForACall' /\ call' \in [Calls -> CallRecords]
<1>1. call \in [Calls -> CallRecords]
      BY DEF RunInv, RunTypeOK, CallRecords
<1>2. call'[c] = r /\ \A d \in Calls : d # c => call'[d] = call[d]
      BY <1>1
<1>3. call' \in [Calls -> CallRecords]
      BY <1>1
<1>4. ASSUME runDisabled'
      PROVE  \E d \in Calls : HeldBy(d)'
      <2>1. CASE r.at \notin {"idle", "validating"}
            BY <2>1, <1>2 DEF HeldBy
      <2>2. CASE runDisabled /\ ~HeldBy(c)
            <3>1. PICK d \in Calls : HeldBy(d)
                  BY <2>2 DEF RunInv, ButtonOffForACall
            <3>2. QED
                  BY <2>2, <3>1, <1>2 DEF HeldBy
      <2>3. QED
            BY <1>4, <2>1, <2>2
<1>5. QED
      BY <1>3, <1>4 DEF ButtonOffForACall

\* The records a call may take.
LEMMA IdleRecord == Idle \in CallRecords /\ Idle.at = "idle"
<1>1. 0 \in 0..MaxJobs
      BY StudioAssumption
<1>2. QED
      BY <1>1 DEF CallRecords, Idle, CallStates

LEMMA StateRecord ==
    ASSUME NEW r \in CallRecords, NEW at \in CallStates
    PROVE  [r EXCEPT !.at = at] \in CallRecords /\ [r EXCEPT !.at = at].at = at
BY DEF CallRecords

LEMMA JobRecord ==
    ASSUME NEW r \in CallRecords, NEW at \in CallStates, NEW j \in 0..MaxJobs
    PROVE  /\ [r EXCEPT !.at = at, !.job = j] \in CallRecords
           /\ [r EXCEPT !.at = at, !.job = j].at = at
BY DEF CallRecords

LEMMA RunNextInv ==
    ASSUME Inv, NEW c \in Calls, RunNext(c)
    PROVE  Inv'
<1> DEFINE r == call[c]
<1>a. RunInv /\ FormInv
      BY Halves
<1>b. call \in [Calls -> CallRecords] /\ r \in CallRecords
      BY <1>a DEF RunInv, RunTypeOK, CallRecords
<1>c. runDisabled => moving
      BY <1>a DEF RunInv, ButtonOffForACall
<1>d. {"idle", "validating", "starting", "started", "asking", "waiting", "dead"} = CallStates
      BY DEF CallStates
<1> HIDE DEF r
<1>e. ASSUME NEW q \in CallRecords, call' = [call EXCEPT ![c] = q],
             runDisabled' => /\ moving'
                             /\ \/ q.at \notin {"idle", "validating"}
                                \/ runDisabled /\ ~HeldBy(c),
             UNCHANGED <<cards, loads>>,
             job' \in 0..MaxJobs, jobs' \in [1..MaxJobs -> JobStates],
             runDisabled' \in BOOLEAN, moving' \in BOOLEAN, faults' \in 0..MaxFaults
      PROVE  RunInv'
      <2>1. ButtonOffForACall' /\ call' \in [Calls -> CallRecords]
            BY <1>a, <1>e, Moves
      <2>2. cards' \in BOOLEAN /\ loads' \in 0..MaxLoads
            BY <1>a, <1>e DEF RunInv, RunTypeOK
      <2>3. QED
            BY <1>e, <2>1, <2>2 DEF RunInv, RunTypeOK, CallRecords
<1>f. /\ job \in 0..MaxJobs /\ jobs \in [1..MaxJobs -> JobStates]
      /\ runDisabled \in BOOLEAN /\ moving \in BOOLEAN /\ faults \in 0..MaxFaults
      BY <1>a DEF RunInv, RunTypeOK
<1>g. ASSUME RunInv', UNCHANGED formVars
      PROVE  Inv'
      BY <1>a, <1>g, FormKept, Halves
<1>1. CASE RunExperiment(c)
      <2>1. UNCHANGED formVars
            BY <1>1, ValidateKeeps DEF RunExperiment, formVars
      <2>2. CASE Request(c)
            <3> DEFINE q == [Idle EXCEPT !.at = "starting"]
            <3>1. q \in CallRecords /\ q.at = "starting"
                  BY <1>d, IdleRecord, StateRecord
            <3> HIDE DEF q
            <3>2. call' = [call EXCEPT ![c] = q] /\ runDisabled' = TRUE /\ moving' = TRUE
                  BY <2>2 DEF Request, q
            <3>3. RunInv'
                  BY <1>1, <1>e, <1>f, <3>1, <3>2 DEF RunExperiment
            <3>4. QED
                  BY <2>1, <3>3, <1>g
      <2>3. CASE call' = [call EXCEPT ![c].at = "validating"] /\ UNCHANGED buttonVars
            <3> DEFINE q == [r EXCEPT !.at = "validating"]
            <3>1. q \in CallRecords /\ call' = [call EXCEPT ![c] = q]
                  BY <2>3, <1>b, <1>d, StateRecord DEF r
            <3> HIDE DEF q
            <3>2. ~HeldBy(c)
                  BY <1>1 DEF RunExperiment, HeldBy
            <3>3. ~runDisabled' /\ UNCHANGED <<runDisabled, moving>>
                  BY <1>1, <2>3 DEF RunExperiment, buttonVars
            <3>4. RunInv'
                  BY <1>1, <1>e, <1>f, <3>1, <3>2, <3>3 DEF RunExperiment
            <3>5. QED
                  BY <2>1, <3>4, <1>g
      <2>4. QED
            BY <1>1, <2>2, <2>3 DEF RunExperiment
<1>2. CASE ValidationEnds(c)
      <2> DEFINE q == [Idle EXCEPT !.at = "starting"]
      <2>1. q \in CallRecords /\ q.at = "starting"
            BY <1>d, IdleRecord, StateRecord
      <2> HIDE DEF q
      <2>2. call' = [call EXCEPT ![c] = q] /\ runDisabled' = TRUE /\ moving' = TRUE
            BY <1>2 DEF ValidationEnds, Request, q
      <2>3. RunInv'
            BY <1>2, <1>e, <1>f, <2>1, <2>2 DEF ValidationEnds
      <2>4. QED
            BY <1>2, <2>3, <1>g DEF ValidationEnds
<1>3. CASE StartExperiment(c)
      <2>1. PICK j \in DOMAIN jobs :
                /\ jobs' = [jobs EXCEPT ![j] = "queued"]
                /\ call' = [call EXCEPT ![c].at = "started", ![c].job = j]
            BY <1>3 DEF StartExperiment
      <2> DEFINE q == [r EXCEPT !.at = "started", !.job = j]
      <2>2. j \in 0..MaxJobs
            BY <1>f, StudioAssumption
      <2>3. q \in CallRecords /\ q.at = "started"
            BY <1>b, <1>d, <2>2, JobRecord
      <2>4. call' = [call EXCEPT ![c] = q]
            BY <2>1, <1>b DEF r
      <2> HIDE DEF q
      <2>5. jobs' \in [1..MaxJobs -> JobStates]
            BY <2>1, <1>f DEF JobStates
      <2>6. RunInv'
            BY <1>3, <1>c, <1>e, <1>f, <2>3, <2>4, <2>5 DEF StartExperiment, buttonVars
      <2>7. QED
            BY <1>3, <2>6, <1>g DEF StartExperiment
<1>4. CASE StartRefused(c)
      <2>1. Idle \in CallRecords /\ call' = [call EXCEPT ![c] = Idle] /\ runDisabled' = FALSE
            BY <1>4, IdleRecord DEF StartRefused, RunEnds
      <2>2. RunInv'
            BY <1>4, <1>e, <1>f, <2>1 DEF StartRefused
      <2>3. QED
            BY <1>4, <2>2, <1>g DEF StartRefused
<1>5. CASE JobStarted(c)
      <2> DEFINE q == [r EXCEPT !.at = "asking"]
      <2>1. q \in CallRecords /\ q.at = "asking"
            BY <1>b, <1>d, StateRecord
      <2>2. call' = [call EXCEPT ![c] = q] /\ job' = r.job
            BY <1>5, <1>b DEF JobStarted, r
      <2>3. job' \in 0..MaxJobs
            BY <2>2, <1>b DEF CallRecords
      <2> HIDE DEF q
      <2>4. RunInv'
            BY <1>5, <1>c, <1>e, <1>f, <2>1, <2>2, <2>3 DEF JobStarted, buttonVars
      <2>5. QED
            BY <1>5, <2>4, <1>g DEF JobStarted
<1>6. CASE PollAgain(c)
      <2> DEFINE q == [r EXCEPT !.at = "asking", !.job = job]
      <2>1. q \in CallRecords /\ q.at = "asking"
            BY <1>b, <1>d, <1>f, JobRecord
      <2>2. call' = [call EXCEPT ![c] = q]
            BY <1>6, <1>b DEF PollAgain, r
      <2> HIDE DEF q
      <2>3. RunInv'
            BY <1>6, <1>c, <1>e, <1>f, <2>1, <2>2 DEF PollAgain, buttonVars
      <2>4. QED
            BY <1>6, <2>3, <1>g DEF PollAgain
<1>7. CASE Poll(c)
      <2>1. CASE RunEnds(c) /\ moving' = FALSE
            <3>1. Idle \in CallRecords /\ call' = [call EXCEPT ![c] = Idle] /\ runDisabled' = FALSE
                  BY <2>1, IdleRecord DEF RunEnds
            <3>2. RunInv'
                  BY <1>7, <1>e, <1>f, <2>1, <3>1 DEF Poll
            <3>3. QED
                  BY <1>7, <3>2, <1>g DEF Poll
      <2>2. CASE call' = [call EXCEPT ![c] = [Idle EXCEPT !.at = "waiting"]] /\ UNCHANGED buttonVars
            <3> DEFINE q == [Idle EXCEPT !.at = "waiting"]
            <3>1. q \in CallRecords /\ q.at = "waiting"
                  BY <1>d, IdleRecord, StateRecord
            <3>2. call' = [call EXCEPT ![c] = q]
                  BY <2>2
            <3> HIDE DEF q
            <3>3. RunInv'
                  BY <1>7, <1>c, <1>e, <1>f, <2>2, <3>1, <3>2 DEF Poll, buttonVars
            <3>4. QED
                  BY <1>7, <3>3, <1>g DEF Poll
      <2>3. QED
            BY <1>7, <2>1, <2>2 DEF Poll
<1>8. CASE RequestFails(c)
      <2> DEFINE q == [Idle EXCEPT !.at = "dead"]
      <2>1. q \in CallRecords /\ q.at = "dead"
            BY <1>d, IdleRecord, StateRecord
      <2>2. call' = [call EXCEPT ![c] = q]
            BY <1>8 DEF RequestFails
      <2> HIDE DEF q
      <2>3. faults' \in 0..MaxFaults
            BY <1>8, <1>f, StudioAssumption DEF RequestFails
      <2>4. RunInv'
            BY <1>8, <1>c, <1>e, <1>f, <2>1, <2>2, <2>3 DEF RequestFails, buttonVars
      <2>5. QED
            BY <1>8, <2>4, <1>g DEF RequestFails
<1>9. QED
      BY <1>1, <1>2, <1>3, <1>4, <1>5, <1>6, <1>7, <1>8 DEF RunNext

\* The service's steps touch neither the form nor the button.
LEMMA ServiceInv ==
    ASSUME Inv, Worker \/ RestartService
    PROVE  Inv'
<1>1. UNCHANGED <<formVars, cards, loads, call, job, buttonVars>>
      BY DEF Worker, RestartService
<1>2. jobs' \in [1..MaxJobs -> JobStates]
      <2>1. jobs \in [1..MaxJobs -> JobStates]
            BY DEF Inv, TypeOK
      <2>2. CASE Worker
            BY <2>1, <2>2 DEF Worker, JobStates
      <2>3. CASE RestartService
            BY <2>1, <2>3 DEF RestartService, JobStates
      <2>4. QED
            BY <2>2, <2>3
<1>3. faults' \in 0..MaxFaults
      BY StudioAssumption DEF Inv, TypeOK, Worker, RestartService
<1>4. RunInv'
      BY <1>1, <1>2, <1>3, Halves DEF RunInv, RunTypeOK, ButtonOffForACall, HeldBy, buttonVars
<1>5. QED
      BY <1>1, <1>4, FormKept, Halves

-----------------------------------------------------------------------------
(* The theorems *)

\* Inv holds in every reachable state.
THEOREM InvariantTheorem == Spec => []Inv
<1>1. Init => Inv
      BY InitInv
<1>2. Inv /\ [Next]_vars => Inv'
      <2> SUFFICES ASSUME Inv, [Next]_vars PROVE Inv'
          OBVIOUS
      <2>1. CASE Next
            BY <2>1, FormNextInv, RunNextInv, ServiceInv DEF Next
      <2>2. CASE UNCHANGED vars
            <3>1. UNCHANGED formVars
                  BY <2>2 DEF vars
            <3>2. RunInv'
                  BY <2>2, Halves
                  DEF vars, buttonVars, RunInv, RunTypeOK, ButtonOffForACall, HeldBy
            <3>3. QED
                  BY <3>1, <3>2, FormKept, Halves
      <2>3. QED
            BY <2>1, <2>2
<1>3. QED
      BY <1>1, <1>2, PTL DEF Spec

\* The page's and the service's variables stay within their types.
THEOREM TypeTheorem == Spec => []TypeOK
<1>1. Inv => TypeOK
      BY DEF Inv
<1>2. QED
      BY <1>1, InvariantTheorem, PTL

\* A text in the editor that parses is the manifest that Run sends.
THEOREM EditorTheorem == Spec => []EditorShowsManifest
<1>1. Inv => EditorShowsManifest
      BY DEF Inv
<1>2. QED
      BY <1>1, InvariantTheorem, PTL

\* The form and the drawn workflow show the manifest's mode.
THEOREM FormTheorem == Spec => []FormShowsManifest
<1>1. Inv => FormShowsManifest
      BY DEF Inv
<1>2. QED
      BY <1>1, InvariantTheorem, PTL

\* The Run button is off only for a call, whatever number of calls overlap.
THEOREM ButtonTheorem == Spec => []ButtonOffForACall
<1>1. Inv => ButtonOffForACall
      BY DEF Inv
<1>2. QED
      BY <1>1, InvariantTheorem, PTL

=============================================================================
