------------------------------- MODULE Studio -------------------------------
(***************************************************************************)
(* The browser studio for experiments (studio/app.js) and the part of its  *)
(* service that it talks to.  The page is one thread; an async function is *)
(* cut where it awaits an answer, and several calls of it may be under way *)
(* at once: every press of Run is a call of its own.                       *)
(*                                                                         *)
(* A manifest is abstracted to one number of the form (name, episodes,     *)
(* seed, window and duration are alike; 0 is a value that is missing) and  *)
(* the scenarios by domain and type.  Whether the service finds it valid   *)
(* is left open.                                                           *)
(* Left out: messages, metrics, wording, and the shapes on the timeline.   *)
(***************************************************************************)
EXTENDS Naturals

CONSTANTS
    Templates,      \* the manifests of the service's templates
    FirstTemplate,  \* the one that comes first
    Typed,          \* what the user may type into the manifest editor
    MachineFaults,  \* the options of the machine fault control
    Types,          \* the types of network and other scenarios in manifests
    Calls,          \* bound: calls of runExperiment under way at once
    MaxJobs,        \* bound: experiments
    MaxLoads,       \* bound: calls of loadTemplates under way at once
    MaxFaults,      \* bound: failed requests and restarts of the service
    None, Garbled   \* no manifest; a text that JSON.parse rejects

VARIABLES
    manifest,       \* state.manifest
    editor,         \* the text of the manifest editor, as the manifest it parses to
    controls,       \* the form
    workflow,       \* what the scenario node of the drawn workflow says
    cards,          \* the template cards are on the page
    loads,          \* calls of loadTemplates under way
    call,           \* the calls of runExperiment
    job,            \* state.job, the job of the last answer; 0 before
    jobs,           \* the service's jobs, in the order it accepted them
    runDisabled,    \* the Run button
    moving,         \* the timeline animation runs
    faults

formVars == <<manifest, editor, controls, workflow>>
buttonVars == <<runDisabled, moving>>
vars == <<formVars, cards, loads, call, job, jobs, buttonVars, faults>>

Numbers == {0, 1}

Scenarios == [domain : {"machine"}, type : MachineFaults]
             \cup [domain : {"network", "cyber_influenced"}, type : Types]

Manifests == [number : Numbers, scenarios : SUBSET Scenarios]

Modes == {"normal", "machine", "network", "combined"}

ASSUME StudioAssumption ==
    /\ Templates \subseteq Manifests /\ FirstTemplate \in Templates
    /\ Typed \subseteq Manifests \cup {Garbled}
    /\ "message_delay" \in Types
    /\ MachineFaults \cap Modes = {}
    /\ None \notin Manifests /\ Garbled \notin Manifests
    /\ MaxJobs \in Nat /\ MaxFaults \in Nat /\ MaxLoads \in Nat \ {0}

\* Where a call is: validating (57), starting (58), started (60), then in poll: asking
\* (63), waiting for the next poll (65).  A call whose fetch was rejected is dead.
CallStates == {"idle", "validating", "starting", "started", "asking", "waiting", "dead"}
JobStates == {"none", "queued", "running", "completed", "failed", "lost"}

TypeOK ==
    /\ manifest \in Manifests \cup {None}
    /\ editor \in Manifests \cup {Garbled}
    /\ controls \in [number : Numbers, mode : Modes, fault : MachineFaults]
    /\ workflow \in Modes \cup MachineFaults
    /\ cards \in BOOLEAN
    /\ loads \in 0..MaxLoads
    /\ call \in [Calls -> [at : CallStates, job : 0..MaxJobs]]
    /\ job \in 0..MaxJobs
    /\ jobs \in [1..MaxJobs -> JobStates]
    /\ runDisabled \in BOOLEAN
    /\ moving \in BOOLEAN
    /\ faults \in 0..MaxFaults

Idle == [at |-> "idle", job |-> 0]

Init ==
    /\ manifest = None /\ editor = Garbled
    /\ controls \in [number : {1}, mode : {"normal"}, fault : MachineFaults]
    /\ workflow = "normal"
    /\ cards = FALSE /\ loads = 1
    /\ call = [c \in Calls |-> Idle]
    /\ job = 0 /\ jobs = [j \in 1..MaxJobs |-> "none"]
    /\ runDisabled = FALSE /\ moving = FALSE
    /\ faults = 0

-----------------------------------------------------------------------------
(* The manifest and its form *)

Has(m, domain) == \E s \in m.scenarios : s.domain = domain

ModeOf(m) ==
    IF Has(m, "machine") THEN (IF Has(m, "network") THEN "combined" ELSE "machine")
    ELSE IF Has(m, "network") THEN "network" ELSE "normal"

\* MUTANT of OrDefault: without the default the control gets an undefined value.
OrMissing(number) == IF number = 0 THEN None ELSE number

\* value || 1
OrDefault(number) == IF number = 0 THEN 1 ELSE number

\* MUTANT of ApplyControls: the mode stays.
ApplyNumbers(m) == controls' = [controls EXCEPT !.number = OrDefault(m.number)]

\* The machine fault control is not set: it keeps what the user chose last.
ApplyControls(m) ==
    controls' = [controls EXCEPT !.number = OrDefault(m.number), !.mode = ModeOf(m)]

\* MUTANT of RenderManifest: the editor is not written.
RenderNothing == UNCHANGED editor

RenderManifest == editor' = manifest'

\* The scenario node names the chosen machine fault, or else the mode.
RenderWorkflow ==
    workflow' = IF controls'.mode = "machine" THEN controls'.fault ELSE controls'.mode

SelectTemplate(template) ==
    /\ manifest' = template
    /\ ApplyControls(template)
    /\ RenderManifest
    /\ RenderWorkflow

\* The scenarios are made anew from the form, whatever the manifest had.
FormScenarios(form) ==
    {s \in Scenarios :
        \/ form.mode \in {"machine", "combined"} /\ s = [domain |-> "machine", type |-> form.fault]
        \/ form.mode \in {"network", "combined"} /\ s = [domain |-> "network",
                                                         type |-> "message_delay"]}

SyncControls ==
    IF manifest = None THEN UNCHANGED <<manifest, editor, workflow>>
    ELSE /\ manifest' = [manifest EXCEPT !.number = controls'.number,
                                         !.scenarios = FormScenarios(controls')]
         /\ RenderManifest
         /\ RenderWorkflow

\* The user changes one control.
ChangeControl ==
    /\ \/ \E n \in Numbers : controls' = [controls EXCEPT !.number = n]
       \/ \E mode \in Modes : controls' = [controls EXCEPT !.mode = mode]
       \/ \E fault \in MachineFaults : controls' = [controls EXCEPT !.fault = fault]
    /\ SyncControls
    /\ UNCHANGED <<cards, loads, call, job, jobs, buttonVars, faults>>

\* The editor's change event; a text that does not parse changes nothing else.
EditManifest ==
    /\ editor' \in Typed
    /\ IF editor' = Garbled THEN UNCHANGED <<manifest, controls, workflow>>
       ELSE manifest' = editor' /\ ApplyControls(editor') /\ RenderWorkflow
    /\ UNCHANGED <<cards, loads, call, job, jobs, buttonVars, faults>>

RefreshTemplates ==
    /\ loads < MaxLoads
    /\ loads' = loads + 1
    /\ UNCHANGED <<formVars, cards, call, job, jobs, buttonVars, faults>>

\* The answer: cards made anew, and the first selected over what was edited meanwhile.
LoadTemplates ==
    /\ loads > 0 /\ loads' = loads - 1
    /\ cards' = TRUE
    /\ SelectTemplate(FirstTemplate)
    /\ UNCHANGED <<call, job, jobs, buttonVars, faults>>

LoadFails ==
    /\ loads > 0 /\ loads' = loads - 1
    /\ faults < MaxFaults /\ faults' = faults + 1
    /\ UNCHANGED <<formVars, cards, call, job, jobs, buttonVars>>

ClickCard ==
    /\ cards
    /\ \E template \in Templates : SelectTemplate(template)
    /\ UNCHANGED <<cards, loads, call, job, jobs, buttonVars, faults>>

-----------------------------------------------------------------------------
(* Runs *)

\* What validateManifest does before its await: the editor's text becomes the manifest if
\* it parses.  The Validate button does no more than that and show a message.
ValidateManifest == manifest' = IF editor = Garbled THEN manifest ELSE editor

ClickValidate ==
    /\ ValidateManifest
    /\ UNCHANGED <<editor, controls, workflow, cards, loads, call, job, jobs, buttonVars, faults>>

\* From the button and the animation to the request (57-58): the manifest of that moment is
\* sent, whatever the validation said.
Request(c) ==
    /\ runDisabled' = TRUE
    /\ moving' = TRUE
    /\ call' = [call EXCEPT ![c] = [Idle EXCEPT !.at = "starting"]]

\* The Run button.  With nothing to validate the call goes on at once, and ends if there
\* never was a manifest.
RunExperiment(c) ==
    /\ ~runDisabled
    /\ call[c].at = "idle"
    /\ ValidateManifest
    /\ \/ /\ editor # Garbled
          /\ call' = [call EXCEPT ![c].at = "validating"]
          /\ UNCHANGED buttonVars
       \/ editor = Garbled /\ manifest # None /\ Request(c)
    /\ UNCHANGED <<editor, controls, workflow, cards, loads, job, jobs, faults>>

ValidationEnds(c) ==
    /\ call[c].at = "validating"
    /\ Request(c)
    /\ UNCHANGED <<formVars, cards, loads, job, jobs, faults>>

\* The service queues the experiment (start_experiment).
StartExperiment(c) ==
    /\ call[c].at = "starting"
    /\ \E j \in DOMAIN jobs :
          /\ jobs[j] = "none" /\ \A i \in 1..(j - 1) : jobs[i] # "none"
          /\ jobs' = [jobs EXCEPT ![j] = "queued"]
          /\ call' = [call EXCEPT ![c].at = "started", ![c].job = j]
    /\ UNCHANGED <<formVars, cards, loads, job, buttonVars, faults>>

\* MUTANT of RunEnds: the button stays as it is.
RunEndsQuietly(c) ==
    /\ call' = [call EXCEPT ![c] = Idle]
    /\ UNCHANGED runDisabled

RunEnds(c) ==
    /\ call' = [call EXCEPT ![c] = Idle]
    /\ runDisabled' = FALSE

\* The service refuses the manifest, which any but a valid one deserves; also at the bound on
\* experiments.  The animation goes on.
StartRefused(c) ==
    /\ call[c].at = "starting"
    /\ RunEnds(c)
    /\ UNCHANGED <<formVars, cards, loads, job, jobs, moving, faults>>

\* The answer with the job: state.job, and the first poll.
JobStarted(c) ==
    /\ call[c].at = "started"
    /\ job' = call[c].job
    /\ call' = [call EXCEPT ![c].at = "asking"]
    /\ UNCHANGED <<formVars, cards, loads, jobs, buttonVars, faults>>

\* The next poll asks for state.job, which another call may have set.
PollAgain(c) ==
    /\ call[c].at = "waiting"
    /\ call' = [call EXCEPT ![c].at = "asking", ![c].job = job]
    /\ UNCHANGED <<formVars, cards, loads, job, jobs, buttonVars, faults>>

\* What the service says of a job; a lost one is unknown to it.
ExperimentStatus(j) == jobs[j]

\* MUTANT of Ended: only success is an end.
EndedWell(status) == status = "completed"

Ended(status) == status \in {"completed", "failed"}

\* A poll and its answer: the end of the run, or a timer for the next poll.
Poll(c) ==
    /\ call[c].at = "asking"
    /\ IF Ended(ExperimentStatus(call[c].job))
       THEN RunEnds(c) /\ moving' = FALSE
       ELSE /\ call' = [call EXCEPT ![c] = [Idle EXCEPT !.at = "waiting"]]
            /\ UNCHANGED buttonVars
    /\ UNCHANGED <<formVars, cards, loads, job, jobs, faults>>

\* A fetch of runExperiment or poll is rejected, and nothing catches it.
RequestFails(c) ==
    /\ faults < MaxFaults /\ faults' = faults + 1
    /\ call[c].at \in {"starting", "started", "asking"}
    /\ call' = [call EXCEPT ![c] = [Idle EXCEPT !.at = "dead"]]
    /\ UNCHANGED <<formVars, cards, loads, job, jobs, buttonVars>>

Worker ==
    /\ \E j \in DOMAIN jobs :
          \/ jobs[j] = "queued" /\ jobs' = [jobs EXCEPT ![j] = "running"]
          \/ /\ jobs[j] = "running"
             /\ \E s \in {"completed", "failed"} : jobs' = [jobs EXCEPT ![j] = s]
    /\ UNCHANGED <<formVars, cards, loads, call, job, buttonVars, faults>>

\* The service restarts; its jobs were in memory only.
RestartService ==
    /\ faults < MaxFaults /\ faults' = faults + 1
    /\ jobs' = [j \in DOMAIN jobs |-> IF jobs[j] = "none" THEN "none" ELSE "lost"]
    /\ UNCHANGED <<formVars, cards, loads, call, job, buttonVars>>

-----------------------------------------------------------------------------

FormNext ==
    \/ ChangeControl
    \/ EditManifest
    \/ RefreshTemplates
    \/ LoadTemplates
    \/ LoadFails
    \/ ClickCard
    \/ ClickValidate

RunNext(c) ==
    \/ RunExperiment(c)
    \/ ValidationEnds(c)
    \/ StartExperiment(c)
    \/ StartRefused(c)
    \/ JobStarted(c)
    \/ PollAgain(c)
    \/ Poll(c)
    \/ RequestFails(c)

Next ==
    \/ FormNext
    \/ \E c \in Calls : RunNext(c)
    \/ Worker
    \/ RestartService

Spec == Init /\ [][Next]_vars

\* Requests are answered, timers fire and experiments end.  The user does nothing that has
\* to happen, and no request has to fail.
Fairness ==
    /\ WF_vars(Worker)
    /\ \A c \in Calls :
          /\ WF_vars(ValidationEnds(c))
          /\ WF_vars(StartExperiment(c) \/ StartRefused(c))
          /\ WF_vars(JobStarted(c))
          /\ WF_vars(PollAgain(c) \/ Poll(c))

FairSpec == Spec /\ Fairness

-----------------------------------------------------------------------------
(* Properties *)

\* docs/research/visual-experiment-studio.md:14 "The studio never stores an alternative
\* private workflow representation": whatever the order of edits, selections, validations
\* and late template answers, a text that parses is the manifest of the studio (13-33, 77).
EditorShowsManifest == editor # Garbled => editor = manifest

\* The form and the drawn workflow show the mode of the manifest, although the manifest is
\* changed through the form, the editor, the cards and answers that come late.  (They do
\* not show which machine fault it has.)
FormShowsManifest ==
    manifest # None =>
        /\ controls.mode = ModeOf(manifest)
        /\ controls.number \in {manifest.number, OrDefault(manifest.number)}
        /\ \/ workflow = ModeOf(manifest)
           \/ ModeOf(manifest) = "machine" /\ workflow \in MachineFaults

\* The Run button is off, and the machine moves, only for a call that will give the button
\* back or has died: overlapping calls, refusals and ends in any order never leave it off
\* for nobody (57-64).
HeldBy(c) == call[c].at \notin {"idle", "validating"}
ButtonOffForACall == runDisabled => moving /\ \E c \in Calls : HeldBy(c)

\* As long as no request fails and the service does not restart, the Run button comes back.
ButtonComesBack == [](runDisabled => <>(~runDisabled \/ faults > 0))

\* VIOLATED.  docs/research/visual-experiment-studio.md:14 "It edits and runs the same
\* manifest": a call sends what the editor shows.  With a text that does not parse,
\* validateManifest keeps the previous manifest, and runExperiment sends it (54, 57-58).
RunsWhatItShows ==
    [][\A c \in Calls :
          call[c].at # "starting" /\ call'[c].at = "starting" => editor = manifest]_vars

=============================================================================
