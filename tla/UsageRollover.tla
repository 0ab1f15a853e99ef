--------------------------- MODULE UsageRollover ---------------------------
(***************************************************************************)
(* The daily job that keeps one Showdown ladder file per regulation on     *)
(* main: scripts/ci/usage_showdown_rollover.py and the workflow around it  *)
(* (.github/workflows/usage-showdown-rollover.yml).                        *)
(*                                                                         *)
(* A regulation owes one (tag, month) pair for each calendar month its     *)
(* schedule window touches. A run checks main out, walks the owed pairs    *)
(* in order, fetches and writes what is published, raises the overdue      *)
(* alarm, commits the files it wrote whatever its exit code was, and only  *)
(* then reports that code. Meanwhile the ladder publishes months late or   *)
(* never, fetches fail, the process dies, and a maintainer may push a      *)
(* month by hand.                                                          *)
(*                                                                         *)
(* Days are natural numbers, every month has MonthDays of them; a file is  *)
(* the month it holds and its number of battles. The format of a file is   *)
(* that of its tag, and a published table is never empty of species        *)
(* unless it is Empty.                                                     *)
(***************************************************************************)
EXTENDS Integers, FiniteSets

CONSTANTS
    Tags,         \* regulations of the schedule, ordered like their names
    Start, End,   \* [Tags -> Nat], the half-open schedule window in days
    MonthDays,    \* days in a month
    ShortDays,    \* an overlap of fewer days is short (48 hours)
    LoudFrom,     \* first day of the following month the alarm is loud
    LoudThrough,  \* last day it is
    LastDay,      \* bound: the clock stops here, the daily runs do not
    Battles,      \* numbers of battles a published month may have
    NoFile, Empty, Unpublished, NoJob,
    MaxForced, MaxManual, MaxFaults   \* bounds: forced runs, manual pushes,
                                      \* fetches, processes and pushes that fail

ScheduleAssumption ==
    /\ Tags \subseteq Nat /\ IsFiniteSet(Tags)
    /\ Start \in [Tags -> Nat] /\ End \in [Tags -> Nat]
    /\ \A t \in Tags : Start[t] < End[t]

CalendarAssumption ==
    /\ MonthDays \in Nat \ {0} /\ ShortDays \in Nat /\ LastDay \in Nat
    /\ LoudFrom \in Nat \ {0} /\ LoudThrough \in Nat
    /\ Battles \subseteq Nat /\ Empty \notin Battles /\ Unpublished \notin Battles

VARIABLES
    now,         \* today
    published,   \* what the ladder serves for each pair
    main,        \* the file of each tag on the main branch
    job,         \* the run in progress, or NoJob
    last,        \* colour of the last finished run
    forced, manual, faults

vars == <<now, published, main, job, last, forced, manual, faults>>

-----------------------------------------------------------------------------
(* The calendar and the schedule. *)

Later(a, b) == IF a > b THEN a ELSE b

Sooner(a, b) == IF a < b THEN a ELSE b

MonthEnd(m) == (m + 1) * MonthDays

OverlapDays(t, m) ==
    LET lo == Later(Start[t], m * MonthDays)
        hi == Sooner(End[t], MonthEnd(m))
    IN  IF hi > lo THEN hi - lo ELSE 0

Months == UNION {{m \in 0 .. End[t] \div MonthDays : OverlapDays(t, m) > 0} : t \in Tags}

Pairs == {p \in Tags \X Months : OverlapDays(p[1], p[2]) > 0}

OverlapClass(p) == IF OverlapDays(p[1], p[2]) < ShortDays THEN "short" ELSE "full"

MonthHasEnded(m, day) == day >= MonthEnd(m)

\* 1 on the first day of the month after m.
DaysPastMonthEnd(m, day) == day + 1 - MonthEnd(m)

Files == [month : Months, battles : Battles]

\* (for mutation) Only the regulation in play is fetched: no catch-up.
EligibleTagsInPlay(files, day) ==
    {t \in Tags : Start[t] <= day /\ day < End[t]}

EligibleTags(files, day) ==
    {t \in Tags : \/ Start[t] <= day /\ day < End[t]
                  \/ files[t] # NoFile}

OwedPairs(files, day) == {p \in Pairs : p[1] \in EligibleTags(files, day)}

PairSatisfied(file, p) == file # NoFile /\ file.month >= p[2]

\* (for mutation) The candidate's class is taken for the class on disk.
ShortOverFullByCandidate(file, p) ==
    /\ OverlapClass(p) = "short" /\ file # NoFile
    /\ OverlapClass(p) = "full"

ShortOverFull(file, p) ==
    /\ OverlapClass(p) = "short" /\ file # NoFile
    /\ OverlapClass(<<p[1], file.month>>) = "full"

\* Battles per day of the new month against the old, at least nine tenths.
DropRatioOk(file, p, battles) ==
    \/ file.battles = 0
    \/ 10 * battles * OverlapDays(p[1], file.month)
          >= 9 * file.battles * OverlapDays(p[1], p[2])

\* What a table that was fetched is turned down for.
Refused(file, p, got) ==
    got # Empty => /\ OverlapClass(p) = "full" /\ file # NoFile
                   /\ ~DropRatioOk(file, p, got)

OverdueLoud(p, day) ==
    /\ OverlapClass(p) = "full" /\ MonthHasEnded(p[2], day)
    /\ DaysPastMonthEnd(p[2], day) >= LoudFrom
    /\ DaysPastMonthEnd(p[2], day) <= LoudThrough

-----------------------------------------------------------------------------
(* The run. base is what was checked out, tree what the run has made of    *)
(* it, exit whether its code will be 1.                                    *)

Jobs == [pc : {"pairs", "commit"}, day : 0 .. LastDay, force : BOOLEAN,
         todo : SUBSET Pairs, base : [Tags -> Files \union {NoFile}],
         tree : [Tags -> Files \union {NoFile}], exit : BOOLEAN]

NothingAssumption == NoFile \notin Files /\ NoJob \notin Jobs

Init ==
    /\ now = 0
    /\ published = [p \in Pairs |-> Unpublished]
    /\ main = [t \in Tags |-> NoFile]
    /\ job = NoJob
    /\ last = "green"
    /\ forced = 0 /\ manual = 0 /\ faults = 0

\* The scheduled run of the day, or one a maintainer dispatches with force.
StartRun(force) ==
    /\ job = NoJob
    /\ force => forced < MaxForced
    /\ forced' = IF force THEN forced + 1 ELSE forced
    /\ job' = [pc |-> "pairs", day |-> now, force |-> force,
               todo |-> OwedPairs(main, now), base |-> main, tree |-> main,
               exit |-> FALSE]
    /\ UNCHANGED <<now, published, main, last, manual, faults>>

\* Pairs come tag by tag, the months of a tag in order.
Before(p, q) == p[1] < q[1] \/ (p[1] = q[1] /\ p[2] < q[2])

IsNextPair(p) ==
    /\ job # NoJob /\ job.pc = "pairs" /\ p \in job.todo
    /\ \A q \in job.todo \ {p} : Before(p, q)

\* What every pair ends with: the overdue check on the file as it now is.
PairDone(p, tree, failed) ==
    LET overdue == ~PairSatisfied(tree[p[1]], p) /\ OverdueLoud(p, job.day) /\ ~job.force
    IN  job' = [job EXCEPT !.todo = @ \ {p}, !.tree = tree,
                           !.exit = @ \/ failed \/ overdue]

Skipped(p) ==
    LET file == job.tree[p[1]]
    IN  \/ PairSatisfied(file, p)
        \/ ~MonthHasEnded(p[2], job.day) /\ ~job.force
        \/ ShortOverFull(file, p) /\ ~job.force

SkipPair(p) ==
    /\ IsNextPair(p) /\ Skipped(p)
    /\ PairDone(p, job.tree, FALSE)
    /\ UNCHANGED <<now, published, main, last, forced, manual, faults>>

\* The month is not there, or the fetch fails: the day's run says nothing.
QuietSkip(p) ==
    /\ IsNextPair(p) /\ ~Skipped(p)
    /\ \/ published[p] = Unpublished /\ UNCHANGED faults
       \/ published[p] # Unpublished /\ faults < MaxFaults /\ faults' = faults + 1
    /\ PairDone(p, job.tree, FALSE)
    /\ UNCHANGED <<now, published, main, last, forced, manual>>

\* The fetch answers with an empty table, or with too few battles a day.
RefusePair(p) ==
    /\ IsNextPair(p) /\ ~Skipped(p) /\ published[p] # Unpublished
    /\ IF job.force THEN published[p] = Empty
                    ELSE Refused(job.tree[p[1]], p, published[p])
    /\ PairDone(p, job.tree, TRUE)
    /\ UNCHANGED <<now, published, main, last, forced, manual, faults>>

WritePair(p) ==
    /\ IsNextPair(p) /\ ~Skipped(p) /\ published[p] \notin {Unpublished, Empty}
    /\ ~job.force => ~Refused(job.tree[p[1]], p, published[p])
    /\ PairDone(p, [job.tree EXCEPT ![p[1]] = [month |-> p[2], battles |-> published[p]]],
                FALSE)
    /\ UNCHANGED <<now, published, main, last, forced, manual, faults>>

PairsDone ==
    /\ job # NoJob /\ job.pc = "pairs" /\ job.todo = {}
    /\ job' = [job EXCEPT !.pc = "commit"]
    /\ UNCHANGED <<now, published, main, last, forced, manual, faults>>

\* A malformed table raises what the loop does not catch: the pairs left are
\* not looked at, and the workflow commits what was written before.
ScriptDies ==
    /\ job # NoJob /\ job.pc = "pairs" /\ faults < MaxFaults
    /\ job' = [job EXCEPT !.pc = "commit", !.exit = TRUE]
    /\ faults' = faults + 1
    /\ UNCHANGED <<now, published, main, last, forced, manual>>

Wrote(t) == job.tree[t] # job.base[t]

Conflict(t) == Wrote(t) /\ main[t] # job.base[t]

Colour(exit) == IF exit THEN "red" ELSE "green"

\* Rebase on main as it is by then, push, and report the exit code.
PushFiles ==
    /\ job # NoJob /\ job.pc = "commit" /\ \A t \in Tags : ~Conflict(t)
    /\ main' = [t \in Tags |-> IF Wrote(t) THEN job.tree[t] ELSE main[t]]
    /\ last' = Colour(job.exit)
    /\ job' = NoJob
    /\ UNCHANGED <<now, published, forced, manual, faults>>

\* The rebase conflicts, or the push fails every attempt: nothing is pushed.
PushFails ==
    /\ job # NoJob /\ job.pc = "commit" /\ \E t \in Tags : Wrote(t)
    /\ \/ (\E t \in Tags : Conflict(t)) /\ UNCHANGED faults
       \/ faults < MaxFaults /\ faults' = faults + 1
    /\ last' = "red"
    /\ job' = NoJob
    /\ UNCHANGED <<now, published, main, forced, manual>>

-----------------------------------------------------------------------------
(* The world. *)

\* A dropped or late scheduled run is a day that passes without one.
NextDay ==
    /\ job = NoJob /\ now < LastDay
    /\ now' = now + 1
    /\ UNCHANGED <<published, main, job, last, forced, manual, faults>>

Publish(p, table) ==
    /\ published[p] = Unpublished /\ MonthHasEnded(p[2], now)
    /\ published' = [published EXCEPT ![p] = table]
    /\ UNCHANGED <<now, main, job, last, forced, manual, faults>>

\* The documented fallback: graft_showdown_mc --month, pushed by hand. It
\* asks neither which month the file holds nor for the drop ratio.
ManualGraft(p) ==
    /\ manual < MaxManual
    /\ published[p] \notin {Unpublished, Empty}
    /\ main' = [main EXCEPT ![p[1]] = [month |-> p[2], battles |-> published[p]]]
    /\ manual' = manual + 1
    /\ UNCHANGED <<now, published, job, last, forced, faults>>

HandlePair(p) == SkipPair(p) \/ QuietSkip(p) \/ RefusePair(p) \/ WritePair(p)

RunStep == (\E p \in Pairs : HandlePair(p)) \/ PairsDone \/ PushFiles \/ PushFails

Next ==
    \/ \E force \in BOOLEAN : StartRun(force)
    \/ \E p \in Pairs : HandlePair(p)
    \/ PairsDone \/ ScriptDies \/ PushFiles \/ PushFails
    \/ NextDay
    \/ \E p \in Pairs, table \in Battles \union {Empty} : Publish(p, table)
    \/ \E p \in Pairs : ManualGraft(p)

Spec == Init /\ [][Next]_vars

\* A started run ends, the cron starts another, and days pass; whether a
\* month is ever published, nobody promises.
FairSpec == Spec /\ WF_vars(RunStep) /\ WF_vars(StartRun(FALSE)) /\ SF_vars(NextDay)

-----------------------------------------------------------------------------
TypeOK ==
    /\ now \in 0 .. LastDay
    /\ published \in [Pairs -> Battles \union {Empty, Unpublished}]
    /\ main \in [Tags -> Files \union {NoFile}]
    /\ job \in Jobs \union {NoJob}
    /\ last \in {"red", "green"}
    /\ forced \in 0 .. MaxForced /\ manual \in 0 .. MaxManual /\ faults \in 0 .. MaxFaults

IsFull(t, file) == file # NoFile /\ OverlapClass(<<t, file.month>>) = "full"

\* What the rollover pushes never takes a file back to an older month, even
\* when a maintainer pushed a newer one after the checkout.
PushesMoveForward ==
    [][PushFiles => \A t \in Tags :
          main[t] # NoFile => main'[t] # NoFile /\ main'[t].month >= main[t].month]_vars

\* Unless forced, a run never puts a month of a day or two over a full one,
\* whoever put the full one there.
FullMonthsStay ==
    [][PushFiles /\ ~job.force =>
          \A t \in Tags : IsFull(t, main[t]) => IsFull(t, main'[t])]_vars

\* A run that was not forced and ends green left no regulation it looked at
\* with a full month overdue and missing.
GreenMeansNothingOverdue ==
    [][PushFiles /\ ~job.force /\ last' = "green" =>
          \A p \in OwedPairs(job.base, job.day) :
              OverdueLoud(p, job.day) => PairSatisfied(job.tree[p[1]], p)]_vars

\* A regulation that has a file is brought to every full month the ladder
\* ever serves for it, its last one included, unless the months it holds
\* make the new one look like a drop.
PublishedMonthsArrive ==
    \A p \in Pairs :
        OverlapClass(p) = "full" =>
            <>[](\/ main[p[1]] = NoFile
                 \/ published[p] \in {Unpublished, Empty}
                 \/ PairSatisfied(main[p[1]], p)
                 \/ Refused(main[p[1]], p, published[p]))

\* A month that never comes does not keep the job red for ever: red runs end
\* unless some published table is being turned down.
MissingMonthsFallSilent ==
    <>[](\/ last = "green"
         \/ \E p \in Pairs :
               /\ published[p] # Unpublished
               /\ ~PairSatisfied(main[p[1]], p)
               /\ Refused(main[p[1]], p, published[p]))

\* docs/architecture_decisions.md: "the final month of an ending regulation
\* is fetched as catch-up".
FinalMonthIsFetched ==
    \A p \in Pairs :
        (OverlapClass(p) = "full" /\ End[p[1]] <= MonthEnd(p[2])) =>
            <>[](\/ published[p] \in {Unpublished, Empty}
                 \/ PairSatisfied(main[p[1]], p)
                 \/ Refused(main[p[1]], p, published[p]))
=============================================================================
