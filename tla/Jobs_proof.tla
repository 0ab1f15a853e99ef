---------------------------- MODULE Jobs_proof ----------------------------
(***************************************************************************)
(* Proofs about the scheduled jobs: the refresh of the compendium for any  *)
(* number of snapshots, whatever the rebuild makes of them and whatever    *)
(* the critic flags, and the monthly rollover for any schedule, calendar   *)
(* and tables, whoever pushes a month by hand.                             *)
(*                                                                         *)
(* ProposalsAreNotLost is not inductive: a marker is pushed some steps     *)
(* after the roles were compared and the request opened, and maintainers   *)
(* merge and close requests in between. RefreshInv says what a run in      *)
(* progress already guarantees about the marker it is going to push.       *)
(***************************************************************************)
EXTENDS MCJobs, TLAPS

\* The roles of snapshot s are on main, wait in the open request, were turned
\* down, or were overtaken by the merge of an older request.
Proposed(s) ==
    \/ roles >= s \/ Content[roles] = Content[s]
    \/ pr # NoPr /\ pr >= s
    \/ closed >= s \/ overtaken >= s

\* Main only moves forward: nothing in the job is newer than main's usage.
NothingIsAhead ==
    /\ marker.fp <= usage
    /\ pr # NoPr => pr <= usage
    /\ job # NoJob => job.usage <= usage /\ marker.fp <= job.usage

\* What the run checked out is still there, or something newer was merged, or
\* something older.
CheckoutHolds ==
    job # NoJob => roles = job.roles \/ roles >= job.usage \/ overtaken >= job.usage

\* The marker a run is going to push is the old one until it has judged its
\* snapshot, and after that, if it cleared it, the roles are proposed.
MarkerIsBacked ==
    job # NoJob =>
        /\ job.pc \in {"gate", "rebuild"} => job.fp = marker.fp
        /\ job.pc = "pr" => job.fp = job.usage
        /\ job.pc = "marker" =>
              \/ job.fp = marker.fp
              \/ job.fp = job.usage /\ Proposed(job.usage)

RefreshInv ==
    TypeOK /\ NothingIsAhead /\ CheckoutHolds /\ MarkerIsBacked /\ ProposalsAreNotLost

USE BoundsAssumption, FlaggedAssumption, SpacingAssumption, NothingAssumption DEF Snapshots

LEMMA InitRefresh == Init => RefreshInv
<1> SUFFICES ASSUME Init PROVE RefreshInv OBVIOUS
<1> USE DEF Init
<1>1. TypeOK
  <2>1. marker \in [fp : Snapshots, age : 0 .. Spacing] OBVIOUS
  <2>2. usage \in Snapshots /\ flagged \subseteq Snapshots OBVIOUS
  <2>3. forced \in 0 .. MaxForced /\ faults \in 0 .. MaxFaults OBVIOUS
  <2> QED BY <2>1, <2>2, <2>3 DEF TypeOK
<1>2. NothingIsAhead /\ CheckoutHolds /\ MarkerIsBacked
  BY DEF NothingIsAhead, CheckoutHolds, MarkerIsBacked
<1>3. ProposalsAreNotLost BY DEF ProposalsAreNotLost
<1> QED BY <1>1, <1>2, <1>3 DEF RefreshInv

\* A run begins with main as it is.
LEMMA StartKeeps ==
    ASSUME RefreshInv, NEW force \in BOOLEAN, StartRun(force) PROVE RefreshInv'
<1> USE DEF RefreshInv, StartRun, world, history
<1>1. TypeOK' BY DEF TypeOK, Jobs
<1>2. NothingIsAhead' BY DEF TypeOK, NothingIsAhead
<1>3. CheckoutHolds' BY DEF TypeOK, CheckoutHolds
<1>4. MarkerIsBacked' BY DEF TypeOK, MarkerIsBacked
<1>5. ProposalsAreNotLost' BY DEF ProposalsAreNotLost
<1> QED BY <1>1, <1>2, <1>3, <1>4, <1>5

\* A run that ends without a marker, for any reason, changes nothing else.
LEMMA EndKeeps ==
    ASSUME RefreshInv, job' = NoJob, TypeOK', UNCHANGED <<world, marker, pr>>
    PROVE RefreshInv'
BY DEF RefreshInv, NothingIsAhead, CheckoutHolds, MarkerIsBacked, ProposalsAreNotLost, world, history

LEMMA GateKeeps ==
    ASSUME RefreshInv, GateSaysYes PROVE RefreshInv'
<1> USE DEF RefreshInv, GateSaysYes, At, world, history
<1>1. TypeOK' BY DEF TypeOK, Jobs
<1>2. NothingIsAhead' BY DEF TypeOK, NothingIsAhead, Jobs
<1>3. CheckoutHolds' BY DEF TypeOK, CheckoutHolds, Jobs
<1>4. MarkerIsBacked' BY DEF TypeOK, MarkerIsBacked, Jobs
<1>5. ProposalsAreNotLost' BY DEF ProposalsAreNotLost
<1> QED BY <1>1, <1>2, <1>3, <1>4, <1>5

\* A judged snapshot without new roles: those checked out have its content.
LEMMA RebuildKeeps ==
    ASSUME RefreshInv, Rebuild PROVE RefreshInv'
<1> USE DEF RefreshInv, Rebuild, At, world, history, Decision, NewFp
<1>0. job \in Jobs BY DEF TypeOK
<1>1. TypeOK' BY <1>0 DEF TypeOK, Jobs
<1>2. NothingIsAhead' BY <1>0 DEF TypeOK, NothingIsAhead, Jobs
<1>3. CheckoutHolds' BY <1>0 DEF TypeOK, CheckoutHolds, Jobs
<1>4. MarkerIsBacked'
  <2>1. CASE Decision = "fail"
    BY <1>0, <2>1 DEF TypeOK, MarkerIsBacked, Jobs
  <2>2. CASE Decision = "pr"
    BY <1>0, <2>2 DEF TypeOK, MarkerIsBacked, Jobs
  <2>3. CASE Decision = "marker_only"
    <3>1. Content[job.usage] = Content[job.roles] BY <2>3
    <3>2. Proposed(job.usage)
      BY <1>0, <3>1 DEF CheckoutHolds, Proposed
    <3> QED BY <1>0, <2>3, <3>2 DEF TypeOK, MarkerIsBacked, Jobs, Proposed
  <2> QED BY <2>1, <2>2, <2>3
<1>5. ProposalsAreNotLost' BY DEF ProposalsAreNotLost
<1> QED BY <1>1, <1>2, <1>3, <1>4, <1>5

\* The open request is replaced by one that is at least as new as the marker.
LEMMA OpenPrKeeps ==
    ASSUME RefreshInv, OpenPr PROVE RefreshInv'
<1> USE DEF RefreshInv, OpenPr, At, world, history
<1>0. job \in Jobs BY DEF TypeOK
<1>1. TypeOK' BY <1>0 DEF TypeOK, Jobs
<1>2. NothingIsAhead' BY <1>0 DEF TypeOK, NothingIsAhead, Jobs
<1>3. CheckoutHolds' BY <1>0 DEF TypeOK, CheckoutHolds, Jobs
<1>4. MarkerIsBacked' BY <1>0 DEF TypeOK, MarkerIsBacked, Jobs, Proposed
<1>5. ProposalsAreNotLost' BY <1>0 DEF TypeOK, ProposalsAreNotLost, NothingIsAhead, Jobs
<1> QED BY <1>1, <1>2, <1>3, <1>4, <1>5

LEMMA PushKeeps ==
    ASSUME RefreshInv, PushMarker PROVE RefreshInv'
<1> USE DEF RefreshInv, PushMarker, At, world, history
<1>0. job \in Jobs BY DEF TypeOK
<1>1. TypeOK' BY <1>0 DEF TypeOK, Jobs
<1>2. NothingIsAhead' BY <1>0 DEF TypeOK, NothingIsAhead, MarkerIsBacked, Jobs
<1>3. CheckoutHolds' /\ MarkerIsBacked' BY DEF CheckoutHolds, MarkerIsBacked
<1>4. ProposalsAreNotLost'
  <2>1. CASE job.fp = marker.fp BY <2>1 DEF TypeOK, ProposalsAreNotLost
  <2>2. CASE job.fp = job.usage /\ Proposed(job.usage)
    BY <2>2 DEF ProposalsAreNotLost, Proposed
  <2> QED BY <2>1, <2>2 DEF MarkerIsBacked
<1> QED BY <1>1, <1>2, <1>3, <1>4

\* A merge of anything older than what a check looked at overtakes it; what is
\* as new as that is as new as the marker and the run.
LEMMA MergeKeeps ==
    ASSUME RefreshInv, MergePr PROVE RefreshInv'
<1> USE DEF RefreshInv, MergePr
<1>0. pr \in Snapshots /\ usage \in Snapshots /\ marker.fp \in Snapshots BY DEF TypeOK
<1>2. NothingIsAhead' BY DEF NothingIsAhead
<1>3. Looked \in Snapshots /\ marker.fp <= Looked /\ (job # NoJob => Looked = job.usage)
  BY <1>0 DEF TypeOK, Jobs, Looked, NothingIsAhead
<1>4. overtaken' >= Looked \/ roles' >= Looked
  BY <1>0, <1>3
<1>5. TypeOK' BY <1>0, <1>3 DEF TypeOK
<1>6. CheckoutHolds' BY <1>0, <1>3, <1>4 DEF TypeOK, Jobs, CheckoutHolds
<1>7. MarkerIsBacked'
  BY <1>0, <1>3, <1>4 DEF TypeOK, Jobs, MarkerIsBacked, Proposed
<1>8. ProposalsAreNotLost'
  BY <1>0, <1>3, <1>4, <1>5 DEF TypeOK, ProposalsAreNotLost
<1> QED BY <1>2, <1>5, <1>6, <1>7, <1>8

LEMMA WorldKeeps ==
    ASSUME RefreshInv, CommitUsage \/ FixCriteria \/ ClosePr \/ NextDay
    PROVE RefreshInv'
<1> USE DEF RefreshInv
<1>1. CASE CommitUsage
  <2> USE <1>1 DEF CommitUsage, history
  <2>1. TypeOK' BY DEF TypeOK
  <2>2. NothingIsAhead' BY DEF TypeOK, Jobs, NothingIsAhead
  <2> QED BY <2>1, <2>2 DEF CheckoutHolds, MarkerIsBacked, Proposed, ProposalsAreNotLost
<1>2. CASE FixCriteria
  <2> USE <1>2 DEF FixCriteria, history
  <2>1. TypeOK' BY DEF TypeOK
  <2> QED BY <2>1 DEF NothingIsAhead, CheckoutHolds, MarkerIsBacked, Proposed,
                      ProposalsAreNotLost
<1>3. CASE ClosePr
  <2> USE <1>3 DEF ClosePr
  <2>1. TypeOK' BY DEF TypeOK
  <2>2. pr \in Nat /\ closed \in Nat /\ closed' >= closed /\ closed' >= pr BY DEF TypeOK
  <2>3. \A n \in Nat : closed >= n \/ pr >= n => closed' >= n BY <2>2
  <2>4. NothingIsAhead' /\ CheckoutHolds' BY DEF NothingIsAhead, CheckoutHolds
  <2>5. MarkerIsBacked' BY <2>3 DEF TypeOK, Jobs, MarkerIsBacked, Proposed
  <2>6. ProposalsAreNotLost' BY <2>3 DEF TypeOK, ProposalsAreNotLost
  <2> QED BY <2>1, <2>4, <2>5, <2>6
<1>4. CASE NextDay
  <2> USE <1>4 DEF NextDay, world, history
  <2>1. TypeOK' BY DEF TypeOK
  <2>2. marker'.fp = marker.fp BY DEF TypeOK
  <2> QED BY <2>1, <2>2 DEF NothingIsAhead, CheckoutHolds, MarkerIsBacked, ProposalsAreNotLost
<1> QED BY <1>1, <1>2, <1>3, <1>4

LEMMA NextRefresh == RefreshInv /\ [Next]_vars => RefreshInv'
<1> SUFFICES ASSUME RefreshInv, [Next]_vars PROVE RefreshInv' OBVIOUS
<1>1. CASE \E force \in BOOLEAN : StartRun(force) BY <1>1, StartKeeps
<1>2. CASE GateSaysNo \/ PrFails \/ RunLost
  <2>1. TypeOK'
    <3> USE DEF RefreshInv, TypeOK, world, history
    <3>1. CASE GateSaysNo BY <3>1 DEF GateSaysNo
    <3>2. CASE PrFails BY <3>2 DEF PrFails
    <3>3. CASE RunLost BY <3>3 DEF RunLost
    <3> QED BY <1>2, <3>1, <3>2, <3>3
  <2>2. job' = NoJob /\ UNCHANGED <<world, marker, pr>>
    BY <1>2 DEF GateSaysNo, PrFails, RunLost
  <2> QED BY <2>1, <2>2, EndKeeps
<1>3. CASE GateSaysYes BY <1>3, GateKeeps
<1>4. CASE Rebuild BY <1>4, RebuildKeeps
<1>5. CASE OpenPr BY <1>5, OpenPrKeeps
<1>6. CASE PushMarker BY <1>6, PushKeeps
<1>7. CASE MergePr BY <1>7, MergeKeeps
<1>8. CASE CommitUsage \/ FixCriteria \/ ClosePr \/ NextDay BY <1>8, WorldKeeps
<1>9. CASE UNCHANGED vars
  BY <1>9 DEF vars, RefreshInv, TypeOK, NothingIsAhead, CheckoutHolds, MarkerIsBacked,
              Proposed, ProposalsAreNotLost
<1> QED BY <1>1, <1>2, <1>3, <1>4, <1>5, <1>6, <1>7, <1>8, <1>9 DEF Next, RunStep

LEMMA RefreshInvariant == Spec => []RefreshInv
<1>1. Init => RefreshInv BY InitRefresh
<1>2. RefreshInv /\ [Next]_vars => RefreshInv' BY NextRefresh
<1> QED BY <1>1, <1>2, PTL DEF Spec

\* The job, its marker and its request always have their types.
THEOREM RefreshTypeCorrect == Spec => []TypeOK
<1>1. RefreshInv => TypeOK BY DEF RefreshInv
<1> QED BY <1>1, RefreshInvariant, PTL

\* A usage event the marker says is done is on main or in a request, however
\* many runs, requests and pushes are lost, unless the request was closed or
\* an older one was merged while or after a check looked: commit_marker comes
\* after the request in the workflow, and the marker is the run's own snapshot.
THEOREM ClearedUsageIsProposed == Spec => []ProposalsAreNotLost
<1>1. RefreshInv => ProposalsAreNotLost BY DEF RefreshInv
<1> QED BY <1>1, RefreshInvariant, PTL

-----------------------------------------------------------------------------
\* What a run found unflagged stays so: criteria are only repaired.
RunIsCleared ==
    job # NoJob =>
        /\ ~job.flags => job.usage \notin flagged
        /\ job.pc = "pr" => ~job.flags

ClearedInv == RunIsCleared /\ OnlyClearedRolesAreProposed

LEMMA NextCleared == TypeOK /\ ClearedInv /\ [Next]_vars => ClearedInv'
<1> SUFFICES ASSUME TypeOK, ClearedInv, [Next]_vars PROVE ClearedInv' OBVIOUS
<1> USE DEF ClearedInv, world, history
<1>0. job # NoJob => job \in Jobs BY DEF TypeOK
<1>1. CASE \E force \in BOOLEAN : StartRun(force)
  <2>1. PICK force \in BOOLEAN : StartRun(force) BY <1>1
  <2> USE DEF StartRun
  <2>2. job'.usage = usage /\ job'.pc = "gate" /\ job'.flags = (usage \in flagged)
    BY <2>1
  <2>3. UNCHANGED <<flagged, pr, roles>> BY <2>1
  <2>4. RunIsCleared' BY <2>2, <2>3 DEF RunIsCleared
  <2> QED BY <2>3, <2>4 DEF OnlyClearedRolesAreProposed
<1>2. CASE GateSaysNo \/ PrFails \/ RunLost
  BY <1>2 DEF GateSaysNo, PrFails, RunLost, RunIsCleared, OnlyClearedRolesAreProposed
<1>3. CASE GateSaysYes
  BY <1>0, <1>3 DEF GateSaysYes, At, Jobs, RunIsCleared, OnlyClearedRolesAreProposed
<1>4. CASE Rebuild
  <2> USE <1>4 DEF Rebuild, At
  <2>1. OnlyClearedRolesAreProposed' BY DEF OnlyClearedRolesAreProposed
  <2>2. job.flags => Decision = "fail" BY DEF Decision
  <2>3. RunIsCleared' BY <1>0, <2>2 DEF Jobs, RunIsCleared
  <2> QED BY <2>1, <2>3
<1>5. CASE OpenPr
  BY <1>0, <1>5 DEF OpenPr, At, Jobs, RunIsCleared, OnlyClearedRolesAreProposed
<1>6. CASE PushMarker
  BY <1>6 DEF PushMarker, RunIsCleared, OnlyClearedRolesAreProposed
<1>7. CASE MergePr \/ ClosePr
  BY <1>7 DEF MergePr, ClosePr, RunIsCleared, OnlyClearedRolesAreProposed
<1>8. CASE CommitUsage \/ FixCriteria \/ NextDay
  BY <1>8 DEF CommitUsage, FixCriteria, NextDay, RunIsCleared, OnlyClearedRolesAreProposed
<1>9. CASE UNCHANGED vars
  BY <1>9 DEF vars, RunIsCleared, OnlyClearedRolesAreProposed
<1> QED BY <1>1, <1>2, <1>3, <1>4, <1>5, <1>6, <1>7, <1>8, <1>9 DEF Next, RunStep

\* Neither main nor an open request ever holds roles the critic flags: the
\* verdict is passed before the request, and criteria are only repaired.
THEOREM OnlyClearedIsProposed == Spec => []OnlyClearedRolesAreProposed
<1>1. Init => ClearedInv
  BY DEF Init, ClearedInv, RunIsCleared, OnlyClearedRolesAreProposed
<1>2. TypeOK /\ ClearedInv /\ [Next]_vars => ClearedInv' BY NextCleared
<1>3. ClearedInv => OnlyClearedRolesAreProposed BY DEF ClearedInv
<1> QED BY <1>1, <1>2, <1>3, RefreshTypeCorrect, PTL DEF Spec

\* No lost run and no failed request loses a usage event that was judged: only
\* closing its request does, or the merge of an older one that a check did not
\* see, until a newer snapshot is judged; and nothing flagged is proposed.
THEOREM ProposalsStaySound == Spec => []ProposalsAreSound
<1>1. TypeOK /\ ProposalsAreNotLost /\ OnlyClearedRolesAreProposed => ProposalsAreSound
  BY DEF ProposalsAreSound
<1> QED
  BY <1>1, RefreshTypeCorrect, ClearedUsageIsProposed, OnlyClearedIsProposed, PTL

HIDE DEF Snapshots

-----------------------------------------------------------------------------
(* The monthly rollover (UsageRollover), for any schedule and calendar.    *)
(*                                                                         *)
(* What a push does to main was decided when the tree was written, perhaps *)
(* many steps before. MonthInv says what the tree owes to the checkout     *)
(* (Forward, Full), and what a run that is still green has looked at       *)
(* (Caught).                                                               *)

Held == Month!Files \union {NoFile}

JobTypes == [pc : {"pairs", "commit"}, day : 0 .. LastDay, force : BOOLEAN,
             todo : SUBSET Month!Pairs, base : [Regulations -> Held],
             tree : [Regulations -> Held], exit : BOOLEAN]

MonthTypes ==
    /\ now \in 0 .. LastDay
    /\ published \in [Month!Pairs -> Tables \union {Empty, Unpublished}]
    /\ files \in [Regulations -> Held]
    /\ monthly # NoJob => monthly \in JobTypes

\* Nothing older than what was checked out is in the tree.
Forward ==
    monthly # NoJob =>
        \A t \in Regulations : monthly.base[t] # NoFile =>
            /\ monthly.tree[t] # NoFile
            /\ monthly.tree[t].month >= monthly.base[t].month

\* Unless forced, a tag whose file was a full month's still has one.
Full ==
    monthly # NoJob /\ ~ monthly.force =>
        \A t \in Regulations : Month!IsFull(t, monthly.base[t]) =>
                                   Month!IsFull(t, monthly.tree[t])

\* What a green run is through with is not overdue.
Caught ==
    /\ monthly # NoJob /\ ~ monthly.force /\ ~ monthly.exit =>
          \A p \in Month!OwedPairs(monthly.base, monthly.day) \ monthly.todo :
              Month!OverdueLoud(p, monthly.day) =>
                  Month!PairSatisfied(monthly.tree[p[1]], p)
    /\ monthly # NoJob /\ monthly.pc = "commit" /\ ~ monthly.exit => monthly.todo = {}

MonthInv == MonthTypes /\ Forward /\ Full /\ Caught

LEMMA PairFacts ==
    /\ NoFile \notin Month!Files
    /\ \A p \in Month!Pairs : p[1] \in Regulations /\ p[2] \in Month!Months /\ p[2] \in Nat
    /\ \A f \in Month!Files : f.month \in Nat
<1>1. NoFile \notin Month!Files
    BY MonthsAssumption DEF Month!NothingAssumption
<1>2. ASSUME NEW m \in Month!Months PROVE m \in Nat
    <2>1. PICK t \in Regulations : m \in 0 .. DayAfter[t] \div MonthDays
        BY DEF Month!Months
    <2> QED BY <2>1
<1>3. \A p \in Month!Pairs : p[1] \in Regulations /\ p[2] \in Month!Months
    BY DEF Month!Pairs
<1>4. \A f \in Month!Files : f.month \in Month!Months
    BY DEF Month!Files
<1> QED BY <1>1, <1>2, <1>3, <1>4

LEMMA TypedJobs == NoJob \notin JobTypes
BY MonthsAssumption DEF Month!NothingAssumption, Month!Jobs, JobTypes, Held

\* A file is of a full month or of a short one.
LEMMA OneClass == \A p : Month!OverlapClass(p) \in {"short", "full"}
BY DEF Month!OverlapClass

LEMMA MonthInit == Month!Init => MonthInv
BY MonthsAssumption DEF Month!CalendarAssumption, Month!Init, MonthInv, MonthTypes, Forward, Full, Caught, Held

\* A run begins with the tree it checked out and nothing looked at.
LEMMA StartRunKeeps ==
    ASSUME MonthInv, NEW force \in BOOLEAN, Month!StartRun(force)
    PROVE  MonthInv'
<1>1. /\ monthly' = [pc |-> "pairs", day |-> now, force |-> force,
                     todo |-> Month!OwedPairs(files, now), base |-> files, tree |-> files,
                     exit |-> FALSE]
      /\ UNCHANGED <<now, published, files>>
    BY DEF Month!StartRun
<1>2. Month!OwedPairs(files, now) \subseteq Month!Pairs
    BY DEF Month!OwedPairs
<1>3. now \in 0 .. LastDay /\ files \in [Regulations -> Held] /\ published \in [Month!Pairs -> Tables \union {Empty, Unpublished}]
    BY DEF MonthInv, MonthTypes
<1>4. monthly' \in JobTypes
    BY <1>1, <1>2, <1>3 DEF JobTypes
<1>5. /\ monthly'.base = files /\ monthly'.tree = files /\ monthly'.pc = "pairs"
      /\ monthly'.todo = Month!OwedPairs(files, now) /\ monthly'.day = now
    BY <1>1
<1>6. MonthTypes'
    BY <1>1, <1>3, <1>4 DEF MonthTypes
<1>7. Forward'
    <2> SUFFICES ASSUME NEW t \in Regulations, files[t] # NoFile
                 PROVE  files[t].month >= files[t].month
        BY <1>5 DEF Forward
    <2>1. files[t] \in Month!Files
        BY <1>3 DEF Held
    <2> QED BY <2>1, PairFacts
<1>8. Full'
    BY <1>5 DEF Full
<1>9. Caught'
    BY <1>5 DEF Caught
<1> QED BY <1>6, <1>7, <1>8, <1>9 DEF MonthInv

\* What a pair may do to the tree: no file goes or grows older, and unless
\* forced no full month is replaced by a short one.
Grows(tree) ==
    \A t \in Regulations :
        /\ monthly.tree[t] # NoFile =>
              tree[t] # NoFile /\ tree[t].month >= monthly.tree[t].month
        /\ ~ monthly.force /\ Month!IsFull(t, monthly.tree[t]) => Month!IsFull(t, tree[t])

LEMMA PairDoneKeeps ==
    ASSUME MonthInv, NEW p \in Month!Pairs, Month!IsNextPair(p),
           NEW tree \in [Regulations -> Held], NEW failed \in BOOLEAN, Grows(tree),
           Month!PairDone(p, tree, failed), UNCHANGED <<now, published, files>>
    PROVE  MonthInv'
<1>1. /\ monthly # NoJob /\ monthly.pc = "pairs" /\ p \in monthly.todo
      /\ monthly \in JobTypes
    BY DEF Month!IsNextPair, MonthInv, MonthTypes
<1> DEFINE overdue == /\ ~ Month!PairSatisfied(tree[p[1]], p) /\ Month!OverdueLoud(p, monthly.day)
                      /\ ~ monthly.force
           exit == monthly.exit \/ failed \/ overdue
<1>2. monthly' = [monthly EXCEPT !.todo = @ \ {p}, !.tree = tree, !.exit = exit]
    BY DEF Month!PairDone
<1>3. exit \in BOOLEAN
    OBVIOUS
<1> HIDE DEF exit
<1>4. monthly' \in JobTypes /\ monthly' # NoJob
    <2>1. monthly' \in JobTypes
        BY <1>1, <1>2, <1>3 DEF JobTypes
    <2> QED BY <2>1, TypedJobs
<1>5. /\ monthly'.pc = monthly.pc /\ monthly'.day = monthly.day /\ monthly'.force = monthly.force
      /\ monthly'.base = monthly.base /\ monthly'.tree = tree
      /\ monthly'.todo = monthly.todo \ {p}
    BY <1>1, <1>2 DEF JobTypes
<1>6. monthly'.exit = exit
    BY <1>1, <1>2 DEF JobTypes
<1>7. MonthTypes'
    BY <1>4 DEF MonthInv, MonthTypes, Held
<1>8. \A t \in Regulations : monthly.tree[t] \in Held /\ tree[t] \in Held /\ monthly.base[t] \in Held
    BY <1>1 DEF JobTypes
<1>9. Forward'
    <2> SUFFICES ASSUME NEW t \in Regulations, monthly.base[t] # NoFile
                 PROVE  tree[t] # NoFile /\ tree[t].month >= monthly.base[t].month
        BY <1>5 DEF Forward
    <2>1. monthly.tree[t] # NoFile /\ monthly.tree[t].month >= monthly.base[t].month
        BY <1>1 DEF MonthInv, Forward
    <2>2. tree[t] # NoFile /\ tree[t].month >= monthly.tree[t].month
        BY <2>1 DEF Grows
    <2>3. monthly.tree[t].month \in Nat /\ tree[t].month \in Nat /\ monthly.base[t].month \in Nat
        BY <1>8, <2>1, <2>2, PairFacts DEF Held
    <2> QED BY <2>1, <2>2, <2>3
<1>10. Full'
    BY <1>1, <1>5 DEF MonthInv, Full, Grows
<1>11. Caught'
    <2>1. ASSUME ~ monthly.force, ~ exit,
                 NEW q \in Month!OwedPairs(monthly.base, monthly.day) \ (monthly.todo \ {p}),
                 Month!OverdueLoud(q, monthly.day)
          PROVE  Month!PairSatisfied(tree[q[1]], q)
        <3>1. CASE q = p
            BY <2>1, <3>1 DEF exit
        <3>2. CASE q # p
            <4>1. Month!PairSatisfied(monthly.tree[q[1]], q)
                BY <1>1, <2>1, <3>2 DEF MonthInv, Caught, exit
            <4>2. q \in Month!Pairs
                BY DEF Month!OwedPairs
            <4>3. q[1] \in Regulations /\ q[2] \in Nat
                BY <4>2, PairFacts
            <4>4. /\ monthly.tree[q[1]] # NoFile /\ monthly.tree[q[1]].month >= q[2]
                  /\ tree[q[1]] # NoFile /\ tree[q[1]].month >= monthly.tree[q[1]].month
                BY <4>1, <4>3 DEF Month!PairSatisfied, Grows
            <4>5. monthly.tree[q[1]].month \in Nat /\ tree[q[1]].month \in Nat
                BY <1>8, <4>3, <4>4, PairFacts DEF Held
            <4> QED BY <4>3, <4>4, <4>5 DEF Month!PairSatisfied
        <3> QED BY <3>1, <3>2
    <2> QED BY <1>1, <1>5, <1>6, <2>1 DEF Caught
<1> QED BY <1>7, <1>9, <1>10, <1>11 DEF MonthInv

LEMMA SameTreeGrows ==
    ASSUME MonthInv, monthly # NoJob PROVE Grows(monthly.tree) /\ monthly.tree \in [Regulations -> Held]
<1>1. monthly.tree \in [Regulations -> Held]
    BY DEF MonthInv, MonthTypes, JobTypes
<1>2. ASSUME NEW t \in Regulations, monthly.tree[t] # NoFile
      PROVE  monthly.tree[t].month >= monthly.tree[t].month
    <2>1. monthly.tree[t] \in Month!Files
        BY <1>1, <1>2 DEF Held
    <2> QED BY <2>1, PairFacts
<1> QED BY <1>1, <1>2 DEF Grows

\* A month is written only over an older one, and unless forced a short one
\* never over a full one.
LEMMA WritePairKeeps ==
    ASSUME MonthInv, NEW p \in Month!Pairs, Month!WritePair(p)
    PROVE  MonthInv'
<1> DEFINE new == [month |-> p[2], battles |-> published[p]]
           tree == [monthly.tree EXCEPT ![p[1]] = new]
<1>1. /\ Month!IsNextPair(p) /\ ~ Month!Skipped(p) /\ published[p] \notin {Unpublished, Empty}
      /\ Month!PairDone(p, tree, FALSE) /\ UNCHANGED <<now, published, files>>
    BY DEF Month!WritePair
<1>2. /\ monthly # NoJob /\ monthly.tree \in [Regulations -> Held]
      /\ p[1] \in Regulations /\ p[2] \in Month!Months /\ p[2] \in Nat
      /\ published[p] \in Tables
    BY <1>1, PairFacts DEF Month!IsNextPair, MonthInv, MonthTypes, JobTypes
<1>3. new \in Month!Files /\ new # NoFile /\ new.month = p[2]
    <2>1. new \in Month!Files
        BY <1>2 DEF Month!Files
    <2> QED BY <2>1, PairFacts
<1> HIDE DEF new
<1>4. tree \in [Regulations -> Held] /\ tree[p[1]] = new
      /\ \A t \in Regulations : t # p[1] => tree[t] = monthly.tree[t]
    BY <1>2, <1>3 DEF Held
<1> HIDE DEF tree
<1>5. monthly.tree[p[1]] # NoFile => new.month >= monthly.tree[p[1]].month
    <2>1. ~ Month!PairSatisfied(monthly.tree[p[1]], p)
        BY <1>1 DEF Month!Skipped
    <2>2. monthly.tree[p[1]] # NoFile => monthly.tree[p[1]].month \in Nat
        BY <1>2, PairFacts DEF Held
    <2> QED BY <1>2, <1>3, <2>1, <2>2 DEF Month!PairSatisfied
<1>6. ~ monthly.force /\ Month!IsFull(p[1], monthly.tree[p[1]]) => Month!IsFull(p[1], new)
    <2> SUFFICES ASSUME ~ monthly.force, Month!IsFull(p[1], monthly.tree[p[1]])
                 PROVE  Month!IsFull(p[1], new)
        OBVIOUS
    <2>1. ~ Month!ShortOverFull(monthly.tree[p[1]], p)
        BY <1>1 DEF Month!Skipped
    <2>2. Month!OverlapClass(p) # "short"
        BY <2>1 DEF Month!ShortOverFull, Month!IsFull
    <2>3. p = <<p[1], p[2]>>
        BY DEF Month!Pairs
    <2>4. Month!OverlapClass(<<p[1], new.month>>) = "full"
        BY <1>3, <2>2, <2>3, OneClass
    <2> QED BY <1>3, <2>4 DEF Month!IsFull
<1>7. Grows(tree)
    BY <1>2, <1>3, <1>4, <1>5, <1>6, SameTreeGrows DEF Grows
<1> QED BY <1>1, <1>4, <1>7, PairDoneKeeps

LEMMA PairKeeps ==
    ASSUME MonthInv, NEW p \in Month!Pairs, Month!HandlePair(p)
    PROVE  MonthInv'
<1>1. CASE Month!WritePair(p)
    BY <1>1, WritePairKeeps
<1>2. CASE Month!SkipPair(p) \/ Month!QuietSkip(p) \/ Month!RefusePair(p)
    <2>1. /\ Month!IsNextPair(p) /\ UNCHANGED <<now, published, files>>
          /\ Month!PairDone(p, monthly.tree, FALSE) \/ Month!PairDone(p, monthly.tree, TRUE)
        BY <1>2 DEF Month!SkipPair, Month!QuietSkip, Month!RefusePair
    <2>2. Grows(monthly.tree) /\ monthly.tree \in [Regulations -> Held]
        BY <2>1, SameTreeGrows DEF Month!IsNextPair
    <2>3. FALSE \in BOOLEAN /\ TRUE \in BOOLEAN
        OBVIOUS
    <2> QED BY <2>1, <2>2, <2>3, PairDoneKeeps
<1> QED BY <1>1, <1>2 DEF Month!HandlePair

\* The loop ends, or dies with what it wrote so far and a red exit.
LEMMA LoopEndsKeeps ==
    ASSUME MonthInv, Month!PairsDone \/ Month!ScriptDies
    PROVE  MonthInv'
<1>1. /\ monthly # NoJob /\ monthly \in JobTypes /\ monthly.exit \in BOOLEAN
      /\ UNCHANGED <<now, published, files>>
    BY DEF Month!PairsDone, Month!ScriptDies, MonthInv, MonthTypes, JobTypes
<1>2. \/ monthly' = [monthly EXCEPT !.pc = "commit"] /\ monthly.todo = {}
      \/ monthly' = [monthly EXCEPT !.pc = "commit", !.exit = TRUE]
    BY DEF Month!PairsDone, Month!ScriptDies
<1>3. monthly' \in JobTypes
    BY <1>1, <1>2 DEF JobTypes
<1>4. /\ monthly'.day = monthly.day /\ monthly'.force = monthly.force
      /\ monthly'.base = monthly.base /\ monthly'.tree = monthly.tree
      /\ monthly'.todo = monthly.todo
    BY <1>1, <1>2 DEF JobTypes
<1>5. ~ monthly'.exit => ~ monthly.exit /\ monthly.todo = {}
    BY <1>1, <1>2 DEF JobTypes
<1>6. MonthTypes'
    BY <1>1, <1>3 DEF MonthInv, MonthTypes, Held
<1>7. Forward' /\ Full'
    BY <1>1, <1>4 DEF MonthInv, Forward, Full
<1>8. Caught'
    BY <1>1, <1>4, <1>5 DEF MonthInv, Caught
<1> QED BY <1>6, <1>7, <1>8 DEF MonthInv

LEMMA PushKeepsMonth ==
    ASSUME MonthInv, Month!PushFiles \/ Month!PushFails
    PROVE  MonthInv'
<1>1. /\ monthly # NoJob /\ monthly' = NoJob /\ UNCHANGED <<now, published>>
      /\ monthly \in JobTypes /\ files \in [Regulations -> Held]
    BY DEF Month!PushFiles, Month!PushFails, MonthInv, MonthTypes
<1>2. files' \in [Regulations -> Held]
    <2>1. CASE Month!PushFails
        BY <1>1, <2>1 DEF Month!PushFails
    <2>2. CASE Month!PushFiles
        <3>1. files' = [t \in Regulations |-> IF Month!Wrote(t) THEN monthly.tree[t] ELSE files[t]]
            BY <2>2 DEF Month!PushFiles
        <3>2. monthly.tree \in [Regulations -> Held]
            BY <1>1 DEF JobTypes
        <3> QED BY <1>1, <3>1, <3>2
    <2> QED BY <2>1, <2>2
<1> QED BY <1>1, <1>2 DEF MonthInv, MonthTypes, Forward, Full, Caught, Held

\* Days pass, months appear, and a maintainer pushes one by hand: a run in
\* progress keeps its checkout and its tree.
LEMMA WorldKeepsMonth ==
    ASSUME MonthInv,
           \/ Month!NextDay
           \/ \E p \in Month!Pairs, table \in Tables \union {Empty} : Month!Publish(p, table)
           \/ \E p \in Month!Pairs : Month!ManualGraft(p)
    PROVE  MonthInv'
<1>1. /\ now \in 0 .. LastDay /\ published \in [Month!Pairs -> Tables \union {Empty, Unpublished}]
      /\ files \in [Regulations -> Held] /\ UNCHANGED monthly
    BY DEF MonthInv, MonthTypes, Month!NextDay, Month!Publish, Month!ManualGraft
<1>2. /\ now' \in 0 .. LastDay
      /\ published' \in [Month!Pairs -> Tables \union {Empty, Unpublished}]
      /\ files' \in [Regulations -> Held]
    <2>1. CASE Month!NextDay
        BY <1>1, <2>1, MonthsAssumption DEF Month!NextDay, Month!CalendarAssumption
    <2>2. ASSUME NEW p \in Month!Pairs, NEW table \in Tables \union {Empty}, Month!Publish(p, table)
          PROVE  /\ now' \in 0 .. LastDay
                 /\ published' \in [Month!Pairs -> Tables \union {Empty, Unpublished}]
                 /\ files' \in [Regulations -> Held]
        BY <1>1, <2>2 DEF Month!Publish
    <2>3. ASSUME NEW p \in Month!Pairs, Month!ManualGraft(p)
          PROVE  /\ now' \in 0 .. LastDay
                 /\ published' \in [Month!Pairs -> Tables \union {Empty, Unpublished}]
                 /\ files' \in [Regulations -> Held]
        BY <1>1, <2>3, PairFacts DEF Month!ManualGraft, Month!Files, Held
    <2> QED BY <2>1, <2>2, <2>3
<1> QED BY <1>1, <1>2 DEF MonthInv, MonthTypes, Forward, Full, Caught, Held

LEMMA NextKeepsMonth == MonthInv /\ [Month!Next]_Month!vars => MonthInv'
<1> SUFFICES ASSUME MonthInv, [Month!Next]_Month!vars PROVE MonthInv'
    OBVIOUS
<1>1. CASE UNCHANGED Month!vars
    <2>1. UNCHANGED <<now, published, files, monthly>>
        BY <1>1 DEF Month!vars
    <2> QED BY <2>1 DEF MonthInv, MonthTypes, Forward, Full, Caught
<1>2. CASE Month!Next
    BY <1>2, StartRunKeeps, PairKeeps, LoopEndsKeeps, PushKeepsMonth, WorldKeepsMonth
       DEF Month!Next
<1> QED BY <1>1, <1>2

\* Main gets the tree where the tree differs from the checkout, and the rebase
\* only goes through where main is still what was checked out.
LEMMA PushIsSafeForMonths ==
    ASSUME MonthInv, Month!PushFiles
    PROVE  /\ \A t \in Regulations : files[t] # NoFile =>
                 files'[t] # NoFile /\ files'[t].month >= files[t].month
           /\ ~ monthly.force => \A t \in Regulations :
                 Month!IsFull(t, files[t]) => Month!IsFull(t, files'[t])
           /\ ~ monthly.force /\ last' = "green" =>
                 \A p \in Month!OwedPairs(monthly.base, monthly.day) :
                     Month!OverdueLoud(p, monthly.day) =>
                         Month!PairSatisfied(monthly.tree[p[1]], p)
<1>1. /\ monthly # NoJob /\ monthly.pc = "commit" /\ monthly \in JobTypes
      /\ files \in [Regulations -> Held]
      /\ \A t \in Regulations : ~ Month!Conflict(t)
      /\ files' = [t \in Regulations |-> IF Month!Wrote(t) THEN monthly.tree[t] ELSE files[t]]
      /\ last' = Month!Colour(monthly.exit)
    BY DEF Month!PushFiles, MonthInv, MonthTypes
<1>2. ASSUME NEW t \in Regulations
      PROVE  \/ files'[t] = files[t]
             \/ files'[t] = monthly.tree[t] /\ files[t] = monthly.base[t]
    BY <1>1 DEF Month!Conflict
<1>3. ASSUME NEW t \in Regulations, files[t] # NoFile
      PROVE  files'[t] # NoFile /\ files'[t].month >= files[t].month
    <2>1. files[t] \in Month!Files
        BY <1>1, <1>3 DEF Held
    <2> QED BY <1>1, <1>2, <1>3, <2>1, PairFacts DEF MonthInv, Forward
<1>4. ASSUME ~ monthly.force, NEW t \in Regulations, Month!IsFull(t, files[t])
      PROVE  Month!IsFull(t, files'[t])
    BY <1>1, <1>2, <1>4 DEF MonthInv, Full
<1>5. ASSUME ~ monthly.force, last' = "green",
             NEW p \in Month!OwedPairs(monthly.base, monthly.day),
             Month!OverdueLoud(p, monthly.day)
      PROVE  Month!PairSatisfied(monthly.tree[p[1]], p)
    <2>1. ~ monthly.exit
        BY <1>1, <1>5 DEF Month!Colour
    <2> QED BY <1>1, <1>5, <2>1 DEF MonthInv, Caught
<1> QED BY <1>3, <1>4, <1>5

\* What the rollover pushes takes no file back to an older month and, unless
\* forced, puts no short month over a full one; a green run left no full month
\* overdue and missing (usage_showdown_rollover.py, push_to_main.sh).
THEOREM MonthsStaySafe == JobsSpec => MonthsAreSafe
<1>1. JobsInit => MonthInv
    BY MonthInit DEF JobsInit
<1>2. [JobsNext]_<<part, vars, monthly_vars>> => [Month!Next]_Month!vars
    BY Zenon DEF JobsNext, monthly_vars, Month!vars
<1>3. MonthInv /\ [JobsNext]_<<part, vars, monthly_vars>> => MonthInv'
    BY <1>2, NextKeepsMonth
<1>4. JobsSpec => []MonthInv
    BY <1>1, <1>3, PTL DEF JobsSpec
<1>5. MonthInv /\ [JobsNext]_<<part, vars, monthly_vars>> =>
          [Month!PushFiles => \A t \in Regulations :
              files[t] # NoFile => files'[t] # NoFile /\ files'[t].month >= files[t].month]_Month!vars
    BY PushIsSafeForMonths
<1>6. MonthInv /\ [JobsNext]_<<part, vars, monthly_vars>> =>
          [Month!PushFiles /\ ~monthly.force =>
              \A t \in Regulations : Month!IsFull(t, files[t]) => Month!IsFull(t, files'[t])]_Month!vars
    BY PushIsSafeForMonths
<1>7. MonthInv /\ [JobsNext]_<<part, vars, monthly_vars>> =>
          [Month!PushFiles /\ ~monthly.force /\ last' = "green" =>
              \A p \in Month!OwedPairs(monthly.base, monthly.day) :
                  Month!OverdueLoud(p, monthly.day) =>
                      Month!PairSatisfied(monthly.tree[p[1]], p)]_Month!vars
    BY PushIsSafeForMonths
<1>8. JobsSpec => Month!PushesMoveForward
    BY <1>4, <1>5, PTL DEF JobsSpec, Month!PushesMoveForward
<1>9. JobsSpec => Month!FullMonthsStay
    BY <1>4, <1>6, PTL DEF JobsSpec, Month!FullMonthsStay
<1>10. JobsSpec => Month!GreenMeansNothingOverdue
    BY <1>4, <1>7, PTL DEF JobsSpec, Month!GreenMeansNothingOverdue
<1> QED BY <1>8, <1>9, <1>10 DEF MonthsAreSafe
=============================================================================
