-------------------------- MODULE CompendiumRefresh --------------------------
(***************************************************************************)
(* The job that proposes a new Role Compendium when the usage statistics   *)
(* on main have changed: scripts/ci/compendium_refresh_gate.py and         *)
(* .github/workflows/compendium-refresh-gate.yml.                          *)
(*                                                                         *)
(* A run checks main out, asks the gate whether there is a usage event to  *)
(* judge and whether enough days have passed, rebuilds every category,     *)
(* and either fails on the critic's flags, finds nothing new, or opens a   *)
(* pull request; then it pushes its marker to main. Roles reach main only  *)
(* when a maintainer merges. New usage is committed at any time, the       *)
(* request or the push may fail, the runner may be cancelled.              *)
(*                                                                         *)
(* Usage snapshots are numbered by their time; what the rebuild makes of   *)
(* one is Content, and whether the critic flags it is a property of the    *)
(* snapshot and the criteria, which maintainers repair.                    *)
(***************************************************************************)
EXTENDS Naturals

CONSTANTS
    MaxUsage,      \* bound: the last snapshot committed
    Content,       \* [0 .. MaxUsage -> the roles a rebuild makes of it]
    FirstFlagged,  \* snapshots the critic flags at first
    Spacing,       \* MIN_SPACING_DAYS
    MaxForced,     \* bound: forced runs
    MaxFaults,     \* bound: requests and pushes that fail, runners cancelled
    NoPr, NoJob

Snapshots == 0 .. MaxUsage

ASSUME BoundsAssumption == MaxUsage \in Nat /\ MaxForced \in Nat /\ MaxFaults \in Nat

ASSUME ContentAssumption == DOMAIN Content = Snapshots

ASSUME FlaggedAssumption == FirstFlagged \subseteq Snapshots \ {0}

ASSUME SpacingAssumption == Spacing \in Nat \ {0}

ASSUME NothingAssumption == NoPr \notin Snapshots

VARIABLES
    usage,    \* the snapshot on main
    roles,    \* the roles on main, by the snapshot they were built from
    marker,   \* fp: the snapshot last cleared; age: days since the last check
    flagged,  \* snapshots the critic flags now
    pr,       \* the snapshot of the open pull request, or NoPr
    job,      \* the run in progress, or NoJob
    checked,  \* what the last completed check that was pushed looked at
    cleared,  \* the last snapshot a pushed check found without flags
    closed,   \* history: the newest snapshot whose request was closed unmerged
    overtaken,\* history: what a check looked at when an older request was merged
    forced, faults

vars == <<usage, roles, marker, flagged, pr, job, checked, cleared, closed, overtaken,
          forced, faults>>

history == <<closed, overtaken>>

world == <<usage, roles, flagged, history>>

-----------------------------------------------------------------------------
Jobs == [pc : {"gate", "rebuild", "pr", "marker"}, force : BOOLEAN,
         usage : Snapshots, fp : Snapshots, roles : Snapshots, flags : BOOLEAN,
         decision : {"none", "fail", "pr", "marker_only"}]

Init ==
    /\ usage = 0 /\ roles = 0
    /\ marker = [fp |-> 0, age |-> Spacing]
    /\ flagged = FirstFlagged
    /\ pr = NoPr /\ job = NoJob
    /\ checked = 0 /\ cleared = 0 /\ closed = 0 /\ overtaken = 0
    /\ forced = 0 /\ faults = 0

StartRun(force) ==
    /\ job = NoJob
    /\ force => forced < MaxForced
    /\ forced' = IF force THEN forced + 1 ELSE forced
    /\ job' = [pc |-> "gate", force |-> force, usage |-> usage, fp |-> marker.fp,
               roles |-> roles, flags |-> usage \in flagged, decision |-> "none"]
    /\ UNCHANGED <<world, marker, pr, checked, cleared, faults>>

\* A newer snapshot than the last one cleared, and enough days in between.
ShouldRunCheck == job.force \/ (job.usage > job.fp /\ marker.age >= Spacing)

At(place) == job # NoJob /\ job.pc = place

GateSaysNo ==
    /\ At("gate") /\ ~ShouldRunCheck
    /\ job' = NoJob
    /\ UNCHANGED <<world, marker, pr, checked, cleared, forced, faults>>

GateSaysYes ==
    /\ At("gate") /\ ShouldRunCheck
    /\ job' = [job EXCEPT !.pc = "rebuild"]
    /\ UNCHANGED <<world, marker, pr, checked, cleared, forced, faults>>

Decision ==
    IF job.flags THEN "fail"
    ELSE IF Content[job.usage] # Content[job.roles] THEN "pr" ELSE "marker_only"

\* A flagged check leaves the snapshot to be judged again.
NewFp(decision) == IF decision = "fail" THEN job.fp ELSE job.usage

Rebuild ==
    /\ At("rebuild")
    /\ job' = [job EXCEPT !.decision = Decision, !.fp = NewFp(Decision),
                          !.pc = IF Decision = "pr" THEN "pr" ELSE "marker"]
    /\ UNCHANGED <<world, marker, pr, checked, cleared, forced, faults>>

\* Open the request, or bring the open one to the new roles.
OpenPr ==
    /\ At("pr")
    /\ pr' = job.usage
    /\ job' = [job EXCEPT !.pc = "marker"]
    /\ UNCHANGED <<world, marker, checked, cleared, forced, faults>>

\* (for mutation) The marker is committed whatever became of the request.
PrFailsOn ==
    /\ At("pr") /\ faults < MaxFaults
    /\ faults' = faults + 1
    /\ job' = [job EXCEPT !.pc = "marker"]
    /\ UNCHANGED <<world, marker, pr, checked, cleared, forced>>

\* No request number, no marker.
PrFails ==
    /\ At("pr") /\ faults < MaxFaults
    /\ faults' = faults + 1
    /\ job' = NoJob
    /\ UNCHANGED <<world, marker, pr, checked, cleared, forced>>

PushMarker ==
    /\ At("marker")
    /\ marker' = [fp |-> job.fp, age |-> 0]
    /\ checked' = job.usage
    /\ cleared' = IF job.decision = "fail" THEN cleared ELSE job.usage
    /\ job' = NoJob
    /\ UNCHANGED <<world, pr, forced, faults>>

\* The push fails, or the runner is cancelled at any step: the next run
\* starts from what main has.
RunLost ==
    /\ job # NoJob /\ faults < MaxFaults
    /\ faults' = faults + 1
    /\ job' = NoJob
    /\ UNCHANGED <<world, marker, pr, checked, cleared, forced>>

-----------------------------------------------------------------------------
\* usage-refresh-mc commits a snapshot: only one newer than the last.
CommitUsage ==
    /\ usage < MaxUsage
    /\ usage' = usage + 1
    /\ UNCHANGED <<roles, marker, flagged, pr, job, checked, cleared, history, forced, faults>>

FixCriteria ==
    /\ flagged # {}
    /\ \E f \in flagged : flagged' = flagged \ {f}
    /\ UNCHANGED <<usage, roles, marker, pr, job, checked, cleared, history, forced, faults>>

\* What the run in progress looks at, or the last one that pushed its marker.
Looked == IF job # NoJob THEN job.usage ELSE marker.fp

MergePr ==
    /\ pr # NoPr
    /\ roles' = pr /\ pr' = NoPr
    /\ overtaken' = IF pr < Looked THEN Looked ELSE overtaken
    /\ UNCHANGED <<usage, marker, flagged, job, checked, cleared, closed, forced, faults>>

ClosePr ==
    /\ pr # NoPr
    /\ pr' = NoPr
    /\ closed' = IF pr > closed THEN pr ELSE closed
    /\ UNCHANGED <<usage, roles, marker, flagged, job, checked, cleared, overtaken, forced, faults>>

\* Runs take minutes: the date does not change under one.
NextDay ==
    /\ job = NoJob /\ marker.age < Spacing
    /\ marker' = [marker EXCEPT !.age = @ + 1]
    /\ UNCHANGED <<world, pr, job, checked, cleared, forced, faults>>

RunStep == GateSaysNo \/ GateSaysYes \/ Rebuild \/ OpenPr \/ PushMarker

Next ==
    \/ \E force \in BOOLEAN : StartRun(force)
    \/ RunStep \/ PrFails \/ RunLost
    \/ CommitUsage \/ FixCriteria \/ MergePr \/ ClosePr \/ NextDay

Spec == Init /\ [][Next]_vars

\* Runs go on, the cron starts one every day, and maintainers act on a red
\* job by repairing the criteria.
FairSpec ==
    Spec /\ WF_vars(RunStep) /\ WF_vars(StartRun(FALSE)) /\ SF_vars(NextDay)
         /\ WF_vars(FixCriteria)

-----------------------------------------------------------------------------
TypeOK ==
    /\ usage \in Snapshots /\ roles \in Snapshots /\ checked \in Snapshots
    /\ cleared \in Snapshots
    /\ marker \in [fp : Snapshots, age : 0 .. Spacing]
    /\ flagged \subseteq Snapshots
    /\ pr \in Snapshots \union {NoPr}
    /\ job \in Jobs \union {NoJob}
    /\ closed \in Snapshots /\ overtaken \in Snapshots
    /\ forced \in 0 .. MaxForced /\ faults \in 0 .. MaxFaults

\* A snapshot the marker says is done is on main or waits in a request. It
\* is lost in two ways only, and only until a newer one is judged: its
\* request was closed, or one older than a check was merged since the check
\* compared main with what it had checked out. No lost run, failed request
\* or repaired criterion makes an event disappear.
ProposalsAreNotLost ==
    \/ roles >= marker.fp \/ Content[roles] = Content[marker.fp]
    \/ pr # NoPr /\ pr >= marker.fp
    \/ closed >= marker.fp
    \/ overtaken >= marker.fp

\* What is proposed, and so what can be merged, was built from a snapshot
\* the critic no longer flags.
OnlyClearedRolesAreProposed ==
    /\ pr # NoPr => pr \notin flagged
    /\ roles \notin flagged

\* No failure loses what is proposed, and nothing flagged is (the job's
\* gate, critic, request and marker).
ProposalsAreSound == TypeOK /\ ProposalsAreNotLost /\ OnlyClearedRolesAreProposed

\* The snapshot main keeps passes the critic in the end: flags delay its
\* judgement, they do not consume it, and neither does a run that is lost.
UsageIsJudged == <>[](cleared = usage)

\* Once nothing changes any more, the job has nothing to do: it does not
\* rebuild for ever.
ChecksStop == <>[](job = NoJob \/ job.pc = "gate")

\* docs/architecture_decisions.md: the trigger "never fires when nothing has
\* changed": usage has changed "since the last Compendium mismatch check".
OnlyNewUsageIsChecked ==
    (job # NoJob /\ job.pc = "rebuild" /\ ~job.force) => job.usage > checked

\* The request is titled "refresh Role Compendium from current usage": while
\* no run is on, an open one is for the snapshot cleared last.
OpenRequestIsCurrent == (pr # NoPr /\ job = NoJob) => pr >= marker.fp

\* docs/architecture_decisions.md: "a critic-clear run with no real semantic
\* change is a clean no-op". When an older request is merged during or after
\* it, its marker says that main has what it judged, and main has not.
NoOpIsClean ==
    \/ roles >= marker.fp \/ Content[roles] = Content[marker.fp]
    \/ pr # NoPr /\ pr >= marker.fp
    \/ closed >= marker.fp
=============================================================================
