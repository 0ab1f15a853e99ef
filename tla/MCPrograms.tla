---------------------------- MODULE MCPrograms -----------------------------
(***************************************************************************)
(* The programs that are started, killed and started again: the command    *)
(* line with its checkpoints, and the script that pushes the commits of    *)
(* the jobs.  They share nothing, so they are not interleaved: a behaviour *)
(* is one of one program, part says which, and the variables of the other  *)
(* stay idle.                                                              *)
(***************************************************************************)
EXTENDS CliSession, Sequences, TLC

CONSTANTS Jobs, Merges, Touches, Leaves, Retries, MaxFaults    \* PushToMain

VARIABLES part,
          branch, where, start, seen, onto, popBase, stash, tree, attempt, result, push_faults

push_vars == <<branch, where, start, seen, onto, popBase, stash, tree, attempt, result, push_faults>>

Push == INSTANCE PushToMain WITH main <- branch, pc <- where, faults <- push_faults

ASSUME PushAssumption == Push!RetriesAssumption /\ Push!CommitsAssumption

-----------------------------------------------------------------------------
\* The instance that is checked: two jobs with a file each and different lines
\* of a third, the rebuild of one of them left uncommitted, and two
\* maintainers, one of whom changes the very lines of a job, the other
\* different lines of its file and the lines of the rebuild.
CONSTANTS usage_job, sheet_job, roles_pr, usage_pr

TwoJobs == {usage_job, sheet_job}
TwoMerges == {roles_pr, usage_pr}
TheirLines == (usage_job :> {<<"usage", 1>>, <<"marker", 1>>})
                  @@ (sheet_job :> {<<"sheet", 1>>, <<"marker", 2>>})
                  @@ (roles_pr :> {<<"roles", 1>>, <<"usage", 2>>})
                  @@ (usage_pr :> {<<"usage", 1>>, <<"roles", 2>>})
LeftBehind == (usage_job :> {<<"roles", 1>>}) @@ (sheet_job :> {})

-----------------------------------------------------------------------------
\* Who does not take part stays in one of its initial states.
ProgramsInit ==
    /\ part \in {"cli", "push"}
    /\ Init /\ Push!Init
    /\ part # "cli" => calcUp

ProgramsNext ==
    \/ part = "cli"  /\ Next      /\ UNCHANGED <<part, push_vars>>
    \/ part = "push" /\ Push!Next /\ UNCHANGED <<part, vars>>

\* The fairness of the programs.
ProgramsSpec ==
    /\ ProgramsInit /\ [][ProgramsNext]_<<part, vars, push_vars>>
    /\ \A p \in Procs : WF_vars(part = "cli" /\ (Node(p) \/ Answer(p) \/ Raise(p)))
    /\ \A j \in Jobs : WF_push_vars(part = "push" /\ Push!Step(j))

-----------------------------------------------------------------------------
(* The properties of the programs; those of the command line alone are     *)
(* CliSession's own.                                                       *)

\* However pushes fail, answers get lost and others push meanwhile: a commit
\* is on main once, lands on no change to its lines that its job had not
\* seen, is on main when the exit code is 0, and is given up only when every
\* attempt met a failure or another's push (push_to_main.sh).
PushIsSafe ==
    /\ Push!TypeOK
    /\ Push!CommitsAreUnique /\ Push!NothingIsOverwritten
    /\ Push!ZeroMeansPublished /\ Push!GivingUpIsEarned

\* Every line that is typed is answered, and a push script ends (RETRIES).
ProgramsEnd == EveryLineIsAnswered /\ Push!ScriptsEnd
=============================================================================
