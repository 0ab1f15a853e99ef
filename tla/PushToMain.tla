----------------------------- MODULE PushToMain -----------------------------
(***************************************************************************)
(* scripts/ci/push_to_main.sh: how the scheduled jobs publish the commit   *)
(* they made on main. Several workflows run it at once, each on a checkout *)
(* of its own, while maintainers merge; a push may be rejected, its answer *)
(* lost, a fetch fail, and a runner killed.                                *)
(*                                                                         *)
(* Every job has one commit and may have changed files it did not commit   *)
(* (a rebuild leaves them behind). main is the sequence of commits added   *)
(* since the first checkout; a commit is named by who made it, and a       *)
(* checkout by how many commits of main it stands on.                      *)
(*                                                                         *)
(* What a commit changes is a set of regions <<file, lines>>, a region     *)
(* being the lines that git merges as one: git rebase and git stash pop    *)
(* stop when both sides changed one region, each in its own way, and put   *)
(* together the changes of different regions, of one file too, without a   *)
(* word. Two commits that change a region change it differently here.      *)
(***************************************************************************)
EXTENDS Naturals, Sequences, SequencesExt, FiniteSets

CONSTANTS
    Jobs,        \* the runs of the script
    Merges,      \* the commits maintainers add
    Touches,     \* [Jobs \union Merges -> SUBSET regions] of each commit
    Leaves,      \* [Jobs -> SUBSET regions] changed, not committed
    Retries,     \* RETRIES
    MaxFaults    \* bound: fetches, pushes and runners that fail

RetriesAssumption == Retries \in Nat \ {0} /\ MaxFaults \in Nat

CommitsAssumption ==
    /\ Jobs \intersect Merges = {}
    /\ DOMAIN Touches = Jobs \union Merges /\ DOMAIN Leaves = Jobs

VARIABLES
    main,        \* the commits of the remote branch, oldest first
    pc,          \* where each job is
    start,       \* how much of main the job checked out
    seen,        \* how much of it origin/main showed at the last fetch
    onto,        \* how much of it the job's commit stands on
    popBase,     \* what the stashed changes were made on
    stash,       \* number of stash entries of the job
    tree,        \* "clean", "dirty", or "unmerged" after a failed pop
    attempt,
    result,      \* how the script ended
    faults

vars == <<main, pc, start, seen, onto, popBase, stash, tree, attempt, result, faults>>

local == <<start, seen, onto, popBase, stash, tree, attempt>>

-----------------------------------------------------------------------------
Clash(i, regions) == Touches[i] \intersect regions # {}

\* Commits of main after the first a and up to the first b.
Between(a, b) == {main[k] : k \in a + 1 .. b}

OnMain(i) == i \in ToSet(main)

Init ==
    /\ main = <<>>
    /\ pc = [j \in Jobs |-> "away"]
    /\ start = [j \in Jobs |-> 0]
    /\ seen = [j \in Jobs |-> 0]
    /\ onto = [j \in Jobs |-> 0]
    /\ popBase = [j \in Jobs |-> 0]
    /\ stash = [j \in Jobs |-> 0]
    /\ tree = [j \in Jobs |-> "clean"]
    /\ attempt = [j \in Jobs |-> 1]
    /\ result = [j \in Jobs |-> "none"]
    /\ faults = 0

End(j, how) == pc' = [pc EXCEPT ![j] = "done"] /\ result' = [result EXCEPT ![j] = how]

Goto(j, place) == pc' = [pc EXCEPT ![j] = place] /\ UNCHANGED result

\* The workflow checks main out, works, commits, and starts the script.
Checkout(j) ==
    /\ pc[j] = "away"
    /\ start' = [start EXCEPT ![j] = Len(main)]
    /\ onto' = [onto EXCEPT ![j] = Len(main)]
    /\ tree' = [tree EXCEPT ![j] = IF Leaves[j] = {} THEN "clean" ELSE "dirty"]
    /\ Goto(j, "fetch")
    /\ UNCHANGED <<main, seen, popBase, stash, attempt, faults>>

Fetch(j) ==
    /\ pc[j] = "fetch"
    /\ seen' = [seen EXCEPT ![j] = Len(main)]
    /\ Goto(j, "stash")
    /\ UNCHANGED <<main, start, onto, popBase, stash, tree, attempt, faults>>

\* set -e: a fetch that fails ends the script, only pushes are retried.
FetchFails(j) ==
    /\ pc[j] = "fetch" /\ faults < MaxFaults
    /\ faults' = faults + 1
    /\ End(j, "fetch_failed")
    /\ UNCHANGED <<main, local>>

Stash(j) ==
    /\ pc[j] = "stash"
    /\ IF tree[j] = "dirty"
       THEN /\ tree' = [tree EXCEPT ![j] = "clean"]
            /\ stash' = [stash EXCEPT ![j] = @ + 1]
            /\ popBase' = [popBase EXCEPT ![j] = onto[j]]
       ELSE tree[j] = "clean" /\ UNCHANGED <<tree, stash, popBase>>
    /\ Goto(j, "rebase")
    /\ UNCHANGED <<main, start, seen, onto, attempt, faults>>

\* git does not stash unmerged paths: "needs merge", and set -e again.
StashRefused(j) ==
    /\ pc[j] = "stash" /\ tree[j] = "unmerged"
    /\ End(j, "stash_refused")
    /\ UNCHANGED <<main, local, faults>>

Stashed(j) == tree[j] = "clean" /\ stash[j] > 0

\* What popping the stash leaves, on a checkout standing on n commits; it
\* was made with the job's own commit in place.
PopOnto(j, n) ==
    IF Stashed(j)
    THEN IF \E i \in Between(popBase[j], n) \ {j} : Clash(i, Leaves[j])
         THEN tree' = [tree EXCEPT ![j] = "unmerged"] /\ UNCHANGED stash
         ELSE tree' = [tree EXCEPT ![j] = "dirty"] /\ stash' = [stash EXCEPT ![j] = @ - 1]
    ELSE UNCHANGED <<tree, stash>>

\* (for mutation) Only the changes left behind are compared.
RebaseConflictsLeaves(j) ==
    /\ ~OnMain(j)
    /\ \E i \in Between(onto[j], seen[j]) : Clash(i, Leaves[j])

\* A commit that is on main already is dropped by the rebase.
RebaseConflicts(j) ==
    /\ ~OnMain(j)
    /\ \E i \in Between(onto[j], seen[j]) : Clash(i, Touches[j])

Rebase(j) ==
    /\ pc[j] = "rebase" /\ ~RebaseConflicts(j)
    /\ onto' = [onto EXCEPT ![j] = seen[j]]
    /\ Goto(j, "push")
    /\ UNCHANGED <<main, start, seen, popBase, stash, tree, attempt, faults>>

\* (for mutation) A conflict is tried again like a rejected push.
RebaseRefusedAgain(j) ==
    /\ pc[j] = "rebase" /\ RebaseConflicts(j)
    /\ PopOnto(j, onto[j])
    /\ Goto(j, "fetch")
    /\ UNCHANGED <<main, start, seen, onto, popBase, attempt, faults>>

\* git rebase --abort, the stash back, exit 1: "refusing force-push".
RebaseRefused(j) ==
    /\ pc[j] = "rebase" /\ RebaseConflicts(j)
    /\ PopOnto(j, onto[j])
    /\ End(j, "conflict")
    /\ UNCHANGED <<main, start, seen, onto, popBase, attempt, faults>>

\* Without --force the server takes only what main is a prefix of.
FastForward(j) == onto[j] = Len(main)

\* main becomes HEAD: the commits it stands on, and the job's own unless
\* it is among them since an answer was lost.
Publish(j) ==
    main' = SubSeq(main, 1, onto[j]) \o (IF OnMain(j) THEN <<>> ELSE <<j>>)

Push(j) ==
    /\ pc[j] = "push" /\ FastForward(j)
    /\ Publish(j)
    /\ PopOnto(j, onto[j])
    /\ End(j, "published")
    /\ UNCHANGED <<start, seen, onto, popBase, attempt, faults>>

NextAttempt(j) ==
    IF attempt[j] = Retries
    THEN End(j, "gave_up") /\ UNCHANGED attempt
    ELSE attempt' = [attempt EXCEPT ![j] = @ + 1] /\ Goto(j, "fetch")

\* Rejected because main moved, or not answered.
PushRejected(j) ==
    /\ pc[j] = "push"
    /\ \/ ~FastForward(j) /\ UNCHANGED <<main, faults>>
       \/ FastForward(j) /\ faults < MaxFaults /\ faults' = faults + 1 /\ UNCHANGED main
       \/ FastForward(j) /\ faults < MaxFaults /\ faults' = faults + 1 /\ Publish(j)
    /\ PopOnto(j, onto[j])
    /\ NextAttempt(j)
    /\ UNCHANGED <<start, seen, onto, popBase>>

\* The runner is cancelled or runs out of time.
Killed(j) ==
    /\ pc[j] \notin {"away", "done"} /\ faults < MaxFaults
    /\ faults' = faults + 1
    /\ End(j, "killed")
    /\ UNCHANGED <<main, local>>

\* A maintainer merges; the review made it on main as it is.
Merge(i) ==
    /\ ~OnMain(i)
    /\ main' = Append(main, i)
    /\ UNCHANGED <<pc, result, local, faults>>

Step(j) ==
    \/ Fetch(j) \/ FetchFails(j) \/ Stash(j) \/ StashRefused(j) \/ Rebase(j)
    \/ RebaseRefused(j) \/ Push(j) \/ PushRejected(j)

Next ==
    \/ \E j \in Jobs : Checkout(j) \/ Step(j) \/ Killed(j)
    \/ \E i \in Merges : Merge(i)

Spec == Init /\ [][Next]_vars

\* The commands of a script that runs are executed one after the other.
FairSpec == Spec /\ \A j \in Jobs : WF_vars(Step(j))

-----------------------------------------------------------------------------
TypeOK ==
    /\ ToSet(main) \subseteq Jobs \union Merges
    /\ pc \in [Jobs -> {"away", "fetch", "stash", "rebase", "push", "done"}]
    /\ start \in [Jobs -> Nat] /\ seen \in [Jobs -> Nat] /\ onto \in [Jobs -> Nat]
    /\ popBase \in [Jobs -> Nat]
    /\ stash \in [Jobs -> 0 .. Retries]
    /\ tree \in [Jobs -> {"clean", "dirty", "unmerged"}]
    /\ attempt \in [Jobs -> 1 .. Retries]
    /\ result \in [Jobs -> {"none", "published", "conflict", "gave_up", "fetch_failed",
                            "stash_refused", "killed"}]
    /\ faults \in 0 .. MaxFaults

\* A push whose answer is lost is tried again: main still has the commit once.
CommitsAreUnique == IsInjective(main)

\* Nobody's commit is taken off main: "refusing force-push".
MainOnlyGrows == [][IsPrefix(main, main')]_vars

\* A job's commit never lands on a change to the same lines that the job did
\* not have when it made the commit. Its files may hold such changes elsewhere.
NothingIsOverwritten ==
    \A k \in DOMAIN main : main[k] \in Jobs =>
        \A b \in start[main[k]] + 1 .. k - 1 : ~Clash(main[b], Touches[main[k]])

\* Exit code 0 means the commit is on main.
ZeroMeansPublished == \A j \in Jobs : result[j] = "published" => OnMain(j)

\* A job gives up only after as many failures and pushes of others as it has
\* attempts: each retry starts from main as it is by then.
GivingUpIsEarned ==
    \A j \in Jobs :
        result[j] = "gave_up" =>
            Cardinality(Between(start[j], Len(main)) \ {j}) + faults >= Retries

\* A script that was started ends.
ScriptsEnd == \A j \in Jobs : (pc[j] # "away") ~> (pc[j] = "done")

\* scripts/ci/push_to_main.sh: after a rejected push "Restore stash for the
\* next attempt; the next loop iteration fetches and rebases again".
RejectedPushIsRetried == \A j \in Jobs : result[j] # "stash_refused"

\* With files for regions NothingIsOverwritten does not hold: a commit lands
\* beside a change to its file that its job never saw, and nobody looks at
\* the two together (a rebase that stops is the only refusal of the script).
FilesAreSeen ==
    \A k \in DOMAIN main : main[k] \in Jobs =>
        \A b \in start[main[k]] + 1 .. k - 1 :
            \A t \in Touches[main[k]], u \in Touches[main[b]] : t[1] # u[1]
=============================================================================
