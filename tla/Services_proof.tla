---------------------------- MODULE Services_proof ----------------------------
(***************************************************************************)
(* The batch of the request set, and what a turn calls on and waits for:   *)
(* the model, the calculator service, the usage sites.  MCServices puts    *)
(* them side by side; they share no variable, so each has an invariant of  *)
(* its own, which the steps of the others leave alone.                     *)
(***************************************************************************)
EXTENDS MCServices, FiniteSetTheorems, TLAPS

-----------------------------------------------------------------------------
(* The batch (RequestRun).  The two facts that carry the proof: what the   *)
(* runner holds in memory agrees with progress.json on every row that file *)
(* calls finished, and the rows before the one in work are finished.       *)


Working == pc \notin {"off", "preflight"}
InRow   == pc \in {"attempt", "repair", "recheck"}
Writing == pc \in {"saving", "writing"}
Ending  == pc \in {"closing", "writing_last"}

\* The runner holds what the progress file calls finished.
Carried ==
    Working => \A r \in Rows : disk.scored[r] # "none" => job.scored[r] = disk.scored[r]

\* Rows are taken in order: those before the one in work are finished, it is
\* not while it is attempted, and it is while it is written.
InOrder ==
    /\ Working => \A r \in Rows : r < job.at => job.scored[r] # "none"
    /\ InRow => job.at <= NumRows /\ job.scored[job.at] = "none"
    /\ Writing => job.at <= NumRows /\ job.scored[job.at] # "none"

\* The budgets of a batch that goes on are not used up.
Budgeted ==
    /\ job.halt = "none" => job.interruptions <= MaxInterruptions
    /\ pc \in {"repair", "recheck"} /\ job.phase = "mid" => job.reruns < MaxReruns

\* A batch closes because it halted, was stopped, or has no rows left.
Closing ==
    /\ job.halt # "none" => Ending /\ job.at <= NumRows /\ job.scored[job.at] = "none"
    /\ Ending /\ job.halt = "none" => job.stopped \/ job.at = NumRows + 1
    /\ ~Working => job = Unread

IInv == /\ TypeOK /\ ScoredIsClean /\ ZeroMeansComplete
        /\ Carried /\ InOrder /\ Budgeted /\ Closing

\* The values of the runner, of its record and of its file.
Jobs == [at : 1 .. NumRows + 1, scored : [Rows -> Outcomes \cup {"none"}],
         partials : [Rows -> {"none", "kept"}], reruns : 0 .. MaxReruns,
         interruptions : 0 .. MaxInterruptions + 1, phase : {"between", "mid"},
         halt : Halts \cup {"none"}, stopped : BOOLEAN]
Reports == [code : {"none", "ok", "halted", "preflight_failed"}, halt : Halts \cup {"none"},
            at : 1 .. NumRows + 1, stopped : BOOLEAN,
            transcript : [Rows -> Outcomes \cup {"none"}]]
Disks == [torn : BOOLEAN, scored : [Rows -> Outcomes \cup {"none"}],
          partials : [Rows -> {"none", "kept"}]]

LEMMA Numbers ==
    /\ NumRows \in Nat /\ NumRows >= 1 /\ MaxReruns \in Nat /\ MaxInterruptions \in Nat
    /\ MaxCrashes \in Nat /\ MaxKills \in Nat
BY RunAssumption

\* A runner that has read nothing.
LEMMA NewJobType ==
    /\ NewJob \in Jobs /\ NewJob.scored = NoRows /\ NewJob.at = 1
    /\ NewJob.halt = "none" /\ NewJob.interruptions = 0 /\ NewJob.reruns = 0
    /\ \A r \in Rows : NoRows[r] = "none"
BY Numbers DEF NewJob, Jobs, NoRows, Halts

\* An interruption between two rows opens the next row with a fresh count.
LEMMA ResetType ==
    ASSUME NEW j \in Jobs, j.interruptions <= MaxInterruptions
    PROVE  LET k == Interrupted([j EXCEPT !.reruns = 0, !.phase = "between"])
           IN  /\ k \in Jobs /\ k.at = j.at /\ k.scored = j.scored /\ k.halt = j.halt
               /\ k.interruptions = j.interruptions + 1 /\ k.phase = "between" /\ k.reruns = 0
<1> DEFINE i == [j EXCEPT !.reruns = 0, !.phase = "between"]
<1>1. /\ i \in Jobs /\ i.at = j.at /\ i.scored = j.scored /\ i.halt = j.halt
      /\ i.interruptions = j.interruptions /\ i.phase = "between" /\ i.reruns = 0
    <2>1. 0 \in 0 .. MaxReruns
        BY Numbers
    <2>2. i \in Jobs
        BY <2>1 DEF Jobs
    <2>3. i.at = j.at /\ i.scored = j.scored /\ i.halt = j.halt
        BY DEF Jobs
    <2>4. i.interruptions = j.interruptions /\ i.phase = "between" /\ i.reruns = 0
        BY DEF Jobs
    <2> QED BY <2>2, <2>3, <2>4
<1>2. i.interruptions + 1 \in 0 .. MaxInterruptions + 1
    BY <1>1, Numbers DEF Jobs
<1> HIDE DEF i
<1>3. LET k == [i EXCEPT !.interruptions = @ + 1]
      IN  /\ k \in Jobs /\ k.at = j.at /\ k.scored = j.scored /\ k.halt = j.halt
          /\ k.interruptions = j.interruptions + 1 /\ k.phase = "between" /\ k.reruns = 0
    BY <1>1, <1>2 DEF Jobs
<1> QED BY <1>3 DEF Interrupted, i

LEMMA InitSound == Init => IInv
<1> SUFFICES ASSUME Init
             PROVE  IInv
    OBVIOUS
<1> USE NewJobType, Numbers DEF Init, Unread
<1>1. TypeOK
    BY DEF TypeOK, Jobs, NoRows
<1>2. ScoredIsClean /\ ZeroMeansComplete
    BY DEF ScoredIsClean, ZeroMeansComplete, Infrastructure
<1>3. Carried /\ InOrder /\ Budgeted /\ Closing
    BY DEF Carried, InOrder, Budgeted, Closing, Working, InRow, Writing, Ending
<1> QED BY <1>1, <1>2, <1>3 DEF IInv

\* An exception or a kill forgets what the runner held.
LEMMA RaiseSound ==
    ASSUME IInv, Raise, calc' \in {"up", "down"}, disk' \in Disks, report' \in Reports,
           crashes' \in 0 .. MaxCrashes, kills' \in 0 .. MaxKills,
           retried' \subseteq Rows \X Infrastructure,
           \A r \in Rows : disk'.scored[r] \notin Infrastructure,
           ZeroMeansComplete'
    PROVE  IInv'
<1> USE NewJobType DEF Raise, Unread
<1>1. TypeOK'
    BY DEF TypeOK, Jobs, Disks, Reports
<1>2. ScoredIsClean'
    BY DEF ScoredIsClean, Infrastructure
<1>3. Carried' /\ InOrder' /\ Budgeted' /\ Closing'
    BY Numbers DEF Carried, InOrder, Budgeted, Closing, Working, InRow, Writing, Ending
<1> QED BY <1>1, <1>2, <1>3 DEF IInv

LEMMA EnsureRunningSound == IInv /\ EnsureRunning => IInv'
<1> SUFFICES ASSUME IInv, EnsureRunning
             PROVE  IInv'
    OBVIOUS
<1> USE DEF EnsureRunning
<1>1. CASE pc' = "preflight" /\ job' = job
    BY <1>1 DEF IInv, TypeOK, ScoredIsClean, ZeroMeansComplete, Carried, InOrder, Budgeted,
                Closing, Working, InRow, Writing, Ending
<1>2. CASE Raise
    BY <1>2, RaiseSound
    DEF IInv, TypeOK, Disks, Reports, ScoredIsClean, ZeroMeansComplete
<1> QED BY <1>1, <1>2

LEMMA PreflightSound == IInv /\ Preflight => IInv'
<1> SUFFICES ASSUME IInv, Preflight
             PROVE  IInv'
    OBVIOUS
<1> USE DEF Preflight
<1>1. CASE PreflightPasses /\ ~disk.torn /\ pc' = "next" /\ UNCHANGED report
           /\ job' = [NewJob EXCEPT !.scored = disk.scored, !.partials = disk.partials]
    <2>1. /\ job' \in Jobs /\ job'.scored = disk.scored /\ job'.at = 1 /\ job'.halt = "none"
          /\ job'.interruptions = 0
        BY <1>1, NewJobType DEF IInv, TypeOK, Jobs
    <2>2. TypeOK'
        BY <1>1, <2>1 DEF IInv, TypeOK, Jobs
    <2>3. ScoredIsClean' /\ ZeroMeansComplete'
        BY <1>1, <2>1 DEF IInv, ScoredIsClean, ZeroMeansComplete
    <2>4. Carried' /\ InOrder' /\ Budgeted' /\ Closing'
        BY <1>1, <2>1, Numbers
        DEF Carried, InOrder, Budgeted, Closing, Working, InRow, Writing, Ending, Rows
    <2> QED BY <2>2, <2>3, <2>4 DEF IInv
<1>2. CASE Raise /\ UNCHANGED report
    BY <1>2, RaiseSound
    DEF IInv, TypeOK, Disks, Reports, ScoredIsClean, ZeroMeansComplete
<1>3. CASE Raise /\ report' = [report EXCEPT !.code = "preflight_failed", !.halt = "none"]
    <2>1. report' \in Reports /\ report'.code = "preflight_failed"
        BY <1>3 DEF IInv, TypeOK, Reports
    <2> QED BY <1>3, <2>1, RaiseSound
            DEF IInv, TypeOK, Disks, ScoredIsClean, ZeroMeansComplete
<1> QED BY <1>1, <1>2, <1>3

LEMMA NextRowSound == IInv /\ NextRow => IInv'
<1> SUFFICES ASSUME IInv, NextRow
             PROVE  IInv'
    OBVIOUS
<1> USE Numbers DEF NextRow
<1>0. /\ job \in Jobs /\ job.halt = "none" /\ job.at \in Rows
      /\ job.interruptions <= MaxInterruptions
      /\ \A r \in Rows : r < job.at => job.scored[r] # "none"
    BY DEF IInv, TypeOK, Jobs, Closing, Budgeted, InOrder, Working, Ending, Rows
<1>1. CASE job.scored[job.at] # "none"
    <2>0. job' = [job EXCEPT !.at = job.at + 1] /\ pc' = "next"
        BY <1>1
    <2>9. job.at + 1 \in 1 .. NumRows + 1
        BY <1>0 DEF Rows
    <2> HIDE DEF NextRow
    <2>1. /\ job' \in Jobs /\ job'.at = job.at + 1 /\ job'.scored = job.scored
          /\ job'.halt = "none" /\ job'.interruptions = job.interruptions
        BY <1>0, <2>0, <2>9 DEF Jobs
    <2> USE DEF NextRow
    <2>2. TypeOK'
        BY <2>0, <2>1 DEF IInv, TypeOK, Jobs
    <2>3. ScoredIsClean' /\ ZeroMeansComplete' /\ Carried'
        BY <2>0, <2>1 DEF IInv, ScoredIsClean, ZeroMeansComplete, Carried, Working
    <2>4. \A r \in Rows : r < job.at + 1 => job.scored[r] # "none"
        BY <1>0, <1>1 DEF Rows
    <2>5. InOrder' /\ Budgeted' /\ Closing'
        BY <1>0, <2>0, <2>1, <2>4 DEF InOrder, Budgeted, Closing, Working, InRow, Writing, Ending
    <2> QED BY <2>0, <2>2, <2>3, <2>5 DEF IInv
<1>2. CASE job.scored[job.at] = "none" /\ calc = "up"
    <2>1. /\ job' = [job EXCEPT !.reruns = 0] /\ pc' = "attempt"
          /\ job' \in Jobs /\ job'.at = job.at /\ job'.scored = job.scored
          /\ job'.halt = "none" /\ job'.interruptions = job.interruptions
        BY <1>0, <1>2 DEF Jobs
    <2>2. TypeOK'
        BY <2>1 DEF IInv, TypeOK, Jobs
    <2>3. ScoredIsClean' /\ ZeroMeansComplete' /\ Carried'
        BY <2>1 DEF IInv, ScoredIsClean, ZeroMeansComplete, Carried, Working
    <2>4. InOrder' /\ Budgeted' /\ Closing'
        BY <1>0, <1>2, <2>1
        DEF InOrder, Budgeted, Closing, Working, InRow, Writing, Ending, Rows
    <2> QED BY <2>2, <2>3, <2>4 DEF IInv
<1>3. CASE job.scored[job.at] = "none" /\ calc # "up"
    <2> DEFINE j == Interrupted([job EXCEPT !.reruns = 0, !.phase = "between"])
    <2>1. /\ j \in Jobs /\ j.at = job.at /\ j.scored = job.scored /\ j.halt = "none"
          /\ j.interruptions = job.interruptions + 1 /\ j.phase = "between" /\ j.reruns = 0
        BY <1>0, ResetType DEF Jobs
    <2>2. CASE j.interruptions > MaxInterruptions
        <3>1. job' = Halted(j, "max_interruptions") /\ pc' = "closing"
            BY <1>3, <2>2
        <3>2. /\ job' \in Jobs /\ job'.at = job.at /\ job'.scored = job.scored
              /\ job'.halt = "max_interruptions"
            BY <2>1, <3>1 DEF Jobs, Halted, Halts
        <3>3. TypeOK'
            BY <3>1, <3>2 DEF IInv, TypeOK, Jobs
        <3>4. ScoredIsClean' /\ ZeroMeansComplete' /\ Carried'
            BY <3>1, <3>2 DEF IInv, ScoredIsClean, ZeroMeansComplete, Carried, Working
        <3>5. InOrder' /\ Budgeted' /\ Closing'
            BY <1>0, <1>3, <3>1, <3>2
            DEF InOrder, Budgeted, Closing, Working, InRow, Writing, Ending, Rows
        <3> QED BY <3>3, <3>4, <3>5 DEF IInv
    <2>3. CASE ~ (j.interruptions > MaxInterruptions)
        <3>1. job' = j /\ pc' = "repair"
            BY <1>3, <2>3
        <3>3. TypeOK'
            BY <2>1, <3>1 DEF IInv, TypeOK, Jobs
        <3>4. ScoredIsClean' /\ ZeroMeansComplete' /\ Carried'
            BY <2>1, <3>1 DEF IInv, ScoredIsClean, ZeroMeansComplete, Carried, Working
        <3>5. InOrder' /\ Budgeted' /\ Closing'
            BY <1>0, <1>3, <2>1, <2>3, <3>1
            DEF InOrder, Budgeted, Closing, Working, InRow, Writing, Ending, Rows, Jobs
        <3> QED BY <3>3, <3>4, <3>5 DEF IInv
    <2> QED BY <2>2, <2>3
<1> QED BY <1>1, <1>2, <1>3

LEMMA RepairSound == IInv /\ Repair => IInv'
<1> SUFFICES ASSUME IInv, Repair
             PROVE  IInv'
    OBVIOUS
<1> USE DEF Repair
<1>1. CASE pc' = "recheck" /\ job' = job /\ calc' = "up"
    <2>1. TypeOK' /\ ScoredIsClean' /\ ZeroMeansComplete' /\ Carried'
        BY <1>1 DEF IInv, TypeOK, ScoredIsClean, ZeroMeansComplete, Carried, Working
    <2>2. InOrder' /\ Budgeted' /\ Closing'
        BY <1>1 DEF IInv, InOrder, Budgeted, Closing, Working, InRow, Writing, Ending
    <2> QED BY <2>1, <2>2 DEF IInv
<1>2. CASE Raise /\ calc' = "down"
    BY <1>2, RaiseSound
    DEF IInv, TypeOK, Disks, Reports, ScoredIsClean, ZeroMeansComplete
<1> QED BY <1>1, <1>2

LEMMA RecheckSound == IInv /\ Recheck => IInv'
<1> SUFFICES ASSUME IInv, Recheck
             PROVE  IInv'
    OBVIOUS
<1> USE Numbers DEF Recheck
<1>0. /\ job \in Jobs /\ job.halt = "none" /\ job.at <= NumRows
      /\ job.scored[job.at] = "none"
      /\ job.phase = "mid" => job.reruns + 1 \in 0 .. MaxReruns
    BY DEF IInv, TypeOK, Jobs, Closing, Budgeted, InOrder, InRow, Ending
<1>1. CASE /\ pc' = "attempt"
           /\ job' = IF job.phase = "mid" THEN [job EXCEPT !.reruns = @ + 1] ELSE job
    <2>1. /\ job' \in Jobs /\ job'.at = job.at /\ job'.scored = job.scored
          /\ job'.halt = "none" /\ job'.interruptions = job.interruptions
        BY <1>0, <1>1 DEF Jobs
    <2>2. TypeOK'
        BY <1>1, <2>1 DEF IInv, TypeOK, Jobs
    <2>3. ScoredIsClean' /\ ZeroMeansComplete' /\ Carried'
        BY <1>1, <2>1 DEF IInv, ScoredIsClean, ZeroMeansComplete, Carried, Working
    <2>4. InOrder' /\ Budgeted' /\ Closing'
        BY <1>0, <1>1, <2>1
        DEF IInv, InOrder, Budgeted, Closing, Working, InRow, Writing, Ending
    <2> QED BY <2>2, <2>3, <2>4 DEF IInv
<1>2. CASE job' = Halted(job, "preflight_failed_after_restart") /\ pc' = "closing"
    <2>1. /\ job' \in Jobs /\ job'.at = job.at /\ job'.scored = job.scored
          /\ job'.halt = "preflight_failed_after_restart"
        BY <1>0, <1>2 DEF Jobs, Halted, Halts
    <2>2. TypeOK'
        BY <1>2, <2>1 DEF IInv, TypeOK, Jobs
    <2>3. ScoredIsClean' /\ ZeroMeansComplete' /\ Carried'
        BY <1>2, <2>1 DEF IInv, ScoredIsClean, ZeroMeansComplete, Carried, Working
    <2>4. InOrder' /\ Budgeted' /\ Closing'
        BY <1>0, <1>2, <2>1
        DEF IInv, InOrder, Budgeted, Closing, Working, InRow, Writing, Ending
    <2> QED BY <2>2, <2>3, <2>4 DEF IInv
<1> QED BY <1>1, <1>2

\* An attempt is scored only when no infrastructure failure was met; else the
\* row stays open and is either repaired within the budgets or halts the batch.
LEMMA AttemptSound == IInv /\ Attempt => IInv'
<1> SUFFICES ASSUME IInv, Attempt
             PROVE  IInv'
    OBVIOUS
<1> USE Numbers
<1>0. /\ job \in Jobs /\ job.halt = "none" /\ job.at \in Rows
      /\ job.scored[job.at] = "none" /\ job.interruptions \in 0 .. MaxInterruptions
      /\ pc = "attempt" /\ UNCHANGED <<calc, disk, report, crashes, kills>>
    BY DEF Attempt, IInv, TypeOK, Jobs, Closing, Budgeted, InOrder, InRow, Ending, Rows
<1>1. ASSUME NEW o \in Outcomes \ Infrastructure, pc' = "saving", UNCHANGED retried,
             job' = [job EXCEPT !.scored[job.at] = o]
      PROVE  IInv'
    <2>1. /\ job' \in Jobs /\ job'.at = job.at /\ job'.halt = "none"
          /\ job'.interruptions = job.interruptions
          /\ job'.scored = [job.scored EXCEPT ![job.at] = o]
        BY <1>0, <1>1 DEF Jobs
    <2>2. /\ o # "none"
          /\ \A r \in Rows : job'.scored[r] = IF r = job.at THEN o ELSE job.scored[r]
        BY <1>0, <2>1 DEF Outcomes, Jobs
    <2>3. TypeOK'
        BY <1>0, <1>1, <2>1 DEF IInv, TypeOK, Jobs
    <2>4. ScoredIsClean' /\ ZeroMeansComplete'
        BY <1>0, <1>1, <2>2 DEF IInv, ScoredIsClean, ZeroMeansComplete
    <2>5. Carried'
        BY <1>0, <2>2 DEF IInv, Carried, Working
    <2>6. InOrder' /\ Budgeted' /\ Closing'
        BY <1>0, <1>1, <2>1, <2>2
        DEF IInv, InOrder, Budgeted, Closing, Working, InRow, Writing, Ending, Rows
    <2> QED BY <2>3, <2>4, <2>5, <2>6 DEF IInv
<1>2. ASSUME NEW o \in Infrastructure, NEW why \in Halts, UNCHANGED retried, pc' = "closing",
             job' = Halted([Interrupted(job) EXCEPT !.phase = "mid",
                                                    !.partials[job.at] = "kept"], why)
      PROVE  IInv'
    <2>1. /\ job' \in Jobs /\ job'.at = job.at /\ job'.scored = job.scored /\ job'.halt = why
        <3> DEFINE i == Interrupted(job)
                   j == [i EXCEPT !.phase = "mid", !.partials[job.at] = "kept"]
        <3>1. i \in Jobs /\ i.at = job.at /\ i.scored = job.scored
            BY <1>0 DEF Interrupted, Jobs
        <3>2. j \in Jobs /\ j.at = job.at /\ j.scored = job.scored
            <4> HIDE DEF i
            <4> QED BY <1>0, <3>1 DEF Jobs
        <3>3. job' = [j EXCEPT !.halt = why]
            BY <1>2 DEF Halted
        <3> HIDE DEF j
        <3> QED BY <3>2, <3>3 DEF Jobs
    <2>2. why # "none"
        BY DEF Halts
    <2>3. TypeOK'
        BY <1>0, <1>2, <2>1 DEF IInv, TypeOK, Jobs
    <2>4. ScoredIsClean' /\ ZeroMeansComplete' /\ Carried'
        BY <1>0, <1>2, <2>1 DEF IInv, ScoredIsClean, ZeroMeansComplete, Carried, Working
    <2>5. InOrder' /\ Budgeted' /\ Closing'
        BY <1>0, <1>2, <2>1, <2>2
        DEF IInv, InOrder, Budgeted, Closing, Working, InRow, Writing, Ending, Rows
    <2> QED BY <2>3, <2>4, <2>5 DEF IInv
<1>3. ASSUME NEW o \in Infrastructure, NEW j, pc' = "repair", job' = j,
             j = [Interrupted(job) EXCEPT !.phase = "mid", !.partials[job.at] = "kept"],
             ~ (j.interruptions > MaxInterruptions), ~ (j.reruns >= MaxReruns),
             retried' = retried \cup {<<job.at, o>>}
      PROVE  IInv'
    <2>1. /\ j \in Jobs /\ j.at = job.at /\ j.scored = job.scored /\ j.halt = "none"
        <3> DEFINE i == Interrupted(job)
        <3>1. i \in Jobs /\ i.at = job.at /\ i.scored = job.scored /\ i.halt = "none"
            BY <1>0 DEF Interrupted, Jobs
        <3>2. j = [i EXCEPT !.phase = "mid", !.partials[job.at] = "kept"]
            BY <1>3
        <3> HIDE DEF i
        <3> QED BY <1>0, <3>1, <3>2 DEF Jobs
    <2>2. j.interruptions <= MaxInterruptions /\ j.reruns < MaxReruns
        <3>1. j.interruptions \in 0 .. MaxInterruptions + 1 /\ j.reruns \in 0 .. MaxReruns
            BY <2>1 DEF Jobs
        <3> QED BY <1>3, <3>1
    <2>3. TypeOK'
        BY <1>0, <1>3, <2>1 DEF IInv, TypeOK, Jobs
    <2>4. ScoredIsClean' /\ ZeroMeansComplete' /\ Carried'
        BY <1>0, <1>3, <2>1 DEF IInv, ScoredIsClean, ZeroMeansComplete, Carried, Working
    <2>5. InOrder' /\ Budgeted' /\ Closing'
        BY <1>0, <1>3, <2>1, <2>2
        DEF IInv, InOrder, Budgeted, Closing, Working, InRow, Writing, Ending, Rows
    <2> QED BY <2>3, <2>4, <2>5 DEF IInv
<1> QED
    <2>1. PICK o \in Outcomes :
             IF o \notin Infrastructure
             THEN job' = [job EXCEPT !.scored[job.at] = o] /\ pc' = "saving" /\ UNCHANGED retried
             ELSE LET j == [Interrupted(job) EXCEPT !.phase = "mid", !.partials[job.at] = "kept"]
                  IN IF j.interruptions > MaxInterruptions
                     THEN job' = Halted(j, "max_interruptions") /\ pc' = "closing" /\ UNCHANGED retried
                     ELSE IF j.reruns >= MaxReruns
                     THEN job' = Halted(j, "second_infra_on_row") /\ pc' = "closing" /\ UNCHANGED retried
                     ELSE job' = j /\ pc' = "repair" /\ retried' = retried \cup {<<job.at, o>>}
        BY DEF Attempt
    <2>2. "max_interruptions" \in Halts /\ "second_infra_on_row" \in Halts
        BY DEF Halts
    <2> QED BY <1>1, <1>2, <1>3, <2>1, <2>2

LEMMA TruncateSound == IInv /\ Truncate => IInv'
<1> SUFFICES ASSUME IInv, Truncate
             PROVE  IInv'
    OBVIOUS
<1>1. /\ disk' \in Disks /\ disk'.scored = disk.scored
      /\ \/ pc = "saving" /\ pc' = "writing"
         \/ pc = "closing" /\ pc' = "writing_last"
      /\ UNCHANGED <<calc, job, report, crashes, kills, retried>>
    BY DEF Truncate, IInv, TypeOK, Disks
<1>2. TypeOK'
    BY <1>1 DEF IInv, TypeOK, Disks
<1>3. ScoredIsClean' /\ ZeroMeansComplete' /\ Carried'
    BY <1>1 DEF IInv, ScoredIsClean, ZeroMeansComplete, Carried, Working
<1>4. InOrder' /\ Budgeted' /\ Closing'
    BY <1>1 DEF IInv, InOrder, Budgeted, Closing, Working, InRow, Writing, Ending
<1> QED BY <1>2, <1>3, <1>4 DEF IInv

\* What is written is what the runner holds.
LEMMA InMemoryType ==
    ASSUME IInv
    PROVE  InMemory \in Disks /\ InMemory.scored = job.scored
BY DEF IInv, TypeOK, InMemory, Disks

LEMMA SaveRowSound == IInv /\ SaveRow => IInv'
<1> SUFFICES ASSUME IInv, SaveRow
             PROVE  IInv'
    OBVIOUS
<1> USE Numbers
<1>1. /\ job \in Jobs /\ job.at \in Rows /\ job.halt = "none" /\ job.scored[job.at] # "none"
      /\ disk' \in Disks /\ disk'.scored = job.scored
      /\ pc = "writing" /\ UNCHANGED <<calc, report, crashes, kills, retried>>
    BY InMemoryType
    DEF SaveRow, IInv, TypeOK, Jobs, Closing, InOrder, Writing, Ending, Rows
<1>2. /\ job' \in Jobs /\ job'.at = job.at + 1 /\ job'.scored = job.scored
      /\ job'.halt = "none" /\ job'.interruptions = job.interruptions
      /\ \/ pc' = "next"
         \/ pc' = "closing" /\ job'.stopped
    <2>1. job.at + 1 \in 1 .. NumRows + 1
        BY <1>1 DEF Rows
    <2>2. CASE job' = [job EXCEPT !.at = @ + 1] /\ pc' = "next"
        BY <1>1, <2>1, <2>2 DEF Jobs
    <2>3. CASE job' = [job EXCEPT !.at = @ + 1, !.stopped = TRUE] /\ pc' = "closing"
        BY <1>1, <2>1, <2>3 DEF Jobs
    <2> QED BY <2>2, <2>3 DEF SaveRow
<1>3. TypeOK'
    BY <1>1, <1>2 DEF IInv, TypeOK, Jobs, Disks
<1>4. ScoredIsClean' /\ ZeroMeansComplete' /\ Carried'
    BY <1>1, <1>2 DEF IInv, ScoredIsClean, ZeroMeansComplete, Carried, Working
<1>5. \A r \in Rows : r < job.at + 1 => job.scored[r] # "none"
    BY <1>1 DEF IInv, InOrder, Working, Rows
<1>6. InOrder' /\ Budgeted' /\ Closing'
    BY <1>1, <1>2, <1>5
    DEF IInv, InOrder, Budgeted, Closing, Working, InRow, Writing, Ending
<1> QED BY <1>3, <1>4, <1>6 DEF IInv

LEMMA AllDoneSound == IInv /\ AllDone => IInv'
<1> SUFFICES ASSUME IInv, AllDone
             PROVE  IInv'
    OBVIOUS
<1> USE Numbers DEF AllDone
<1>1. job.at = NumRows + 1 /\ job.halt = "none"
    BY DEF IInv, TypeOK, Closing, Ending
<1>2. TypeOK' /\ ScoredIsClean' /\ ZeroMeansComplete' /\ Carried'
    BY DEF IInv, TypeOK, ScoredIsClean, ZeroMeansComplete, Carried, Working
<1>3. InOrder' /\ Budgeted' /\ Closing'
    BY <1>1 DEF IInv, InOrder, Budgeted, Closing, Working, InRow, Writing, Ending
<1> QED BY <1>2, <1>3 DEF IInv

\* A batch that closes with code zero has taken every row, or was stopped.
LEMMA CloseSound == IInv /\ Close => IInv'
<1> SUFFICES ASSUME IInv, Close
             PROVE  IInv'
    OBVIOUS
<1> USE Numbers
<1>1. /\ Raise /\ UNCHANGED <<calc, crashes, kills, retried>>
      /\ disk' \in Disks /\ disk'.scored = job.scored
    BY InMemoryType DEF Close
<1>2. /\ report' \in Reports /\ report'.code = ExitCode(job)
      /\ report'.stopped = job.stopped /\ report'.transcript = job.scored
    BY DEF Close, IInv, TypeOK, Reports, ExitCode
<1>3. ZeroMeansComplete'
    <2> SUFFICES ASSUME job.halt = "none", ~ job.stopped, NEW r \in Rows
                 PROVE  job.scored[r] # "none"
        BY <1>2 DEF ZeroMeansComplete, ExitCode
    <2>1. job.at = NumRows + 1
        BY DEF Close, IInv, Closing, Ending
    <2> QED BY <2>1 DEF Close, IInv, InOrder, Working, Rows
<1>4. \A r \in Rows : disk'.scored[r] \notin Infrastructure
    BY <1>1 DEF IInv, ScoredIsClean
<1> QED BY <1>1, <1>2, <1>3, <1>4, RaiseSound DEF IInv, TypeOK

LEMMA OutsideSound == IInv /\ (CalcCrash \/ Kill \/ UNCHANGED vars) => IInv'
<1> SUFFICES ASSUME IInv, CalcCrash \/ Kill \/ UNCHANGED vars
             PROVE  IInv'
    OBVIOUS
<1>1. CASE CalcCrash
    <2>1. crashes' \in 0 .. MaxCrashes
        BY <1>1, Numbers DEF CalcCrash, IInv, TypeOK
    <2>2. TypeOK' /\ ScoredIsClean' /\ ZeroMeansComplete' /\ Carried'
        BY <1>1, <2>1
        DEF CalcCrash, IInv, TypeOK, ScoredIsClean, ZeroMeansComplete, Carried, Working
    <2>3. InOrder' /\ Budgeted' /\ Closing'
        BY <1>1 DEF CalcCrash, IInv, InOrder, Budgeted, Closing, Working, InRow, Writing, Ending
    <2> QED BY <2>2, <2>3 DEF IInv
<1>2. CASE Kill
    <2>1. kills' \in 0 .. MaxKills
        BY <1>2, Numbers DEF Kill, IInv, TypeOK
    <2> QED BY <1>2, <2>1, RaiseSound
            DEF Kill, IInv, TypeOK, Disks, Reports, ScoredIsClean, ZeroMeansComplete
<1>3. CASE UNCHANGED vars
    BY <1>3 DEF vars, IInv, TypeOK, ScoredIsClean, ZeroMeansComplete, Carried, InOrder,
                Budgeted, Closing, Working, InRow, Writing, Ending
<1> QED BY <1>1, <1>2, <1>3

LEMMA NextSound == IInv /\ [Next]_vars => IInv'
BY EnsureRunningSound, PreflightSound, NextRowSound, RepairSound, RecheckSound, AttemptSound,
   TruncateSound, SaveRowSound, AllDoneSound, CloseSound, OutsideSound
DEF Next, RunnerStep

LEMMA BatchInductive == Spec => []IInv
BY InitSound, NextSound, PTL DEF Spec

\* Whatever number of rows and budgets, whatever goes down or is killed: no
\* attempt that met the calculator's failure is scored, a row that halts the
\* batch stays open, and code zero means every wanted row has its entry.
THEOREM BatchStaysHonest == Spec => []BatchIsHonest
<1>1. IInv => BatchIsHonest
    <2> SUFFICES ASSUME IInv
                 PROVE  HaltLeavesTheRow
        BY DEF IInv, BatchIsHonest
    <2> QED BY DEF IInv, Closing, HaltLeavesTheRow
<1> QED BY <1>1, BatchInductive, PTL

\* A row that progress.json calls finished keeps its score in every later
\* readable version of the file, through halts, kills and resumes.
THEOREM FinishedStaysFrozen == Spec => FinishedIsFrozen
<1>1. IInv /\ [Next]_vars
          => [~ disk'.torn => \A r \in Rows :
                  disk.scored[r] # "none" => disk'.scored[r] = disk.scored[r]]_vars
    <2> SUFFICES ASSUME IInv, Next, ~ disk'.torn, NEW r \in Rows, disk.scored[r] # "none"
                 PROVE  disk'.scored[r] = disk.scored[r]
        OBVIOUS
    <2>1. CASE SaveRow \/ Close
        <3>1. disk'.scored = job.scored
            BY <2>1, InMemoryType DEF SaveRow, Close
        <3>2. job.scored[r] = disk.scored[r]
            BY <2>1 DEF SaveRow, Close, IInv, Carried, Working
        <3> QED BY <3>1, <3>2
    <2>2. CASE Truncate
        BY <2>2 DEF Truncate, IInv, TypeOK
    <2> QED BY <2>1, <2>2
            DEF Next, RunnerStep, CalcCrash, EnsureRunning, Preflight, NextRow, Repair,
                Recheck, Attempt, AllDone, Kill
<1> QED BY <1>1, BatchInductive, PTL DEF Spec, FinishedIsFrozen

-----------------------------------------------------------------------------
(* The calls of the model (LlmInvoke).  A worker that is through has said   *)
(* what the provider did, unless its call was abandoned, and one that is    *)
(* not has said nothing; the call whose answer the caller takes was not     *)
(* abandoned.                                                               *)

Lines == {log[i] : i \in 1 .. Len(log)}

Spoken(c) == <<c, IF outcome[c] \in Llm!Results THEN "ok" ELSE "error">> \in Lines
Mute(c) == <<c, "ok">> \notin Lines /\ <<c, "error">> \notin Lines

ToldFits(c) ==
    /\ told[c] \in {"payload", "parse_failed"} => <<c, "ok">> \in Lines
    /\ told[c] = "provider_failed" => <<c, "error">> \in Lines
    /\ told[c] \in {"recovered_edit", "classify_failed"} => ~Mute(c)
    /\ told[c] = "timeout" => <<c, "LLMInvokeTimeout">> \in Lines

ToldIsInLines == \A c \in Llm!Calls : ToldFits(c)

CallerKnows ==
    /\ caller # "idle" => cur \in Llm!Calls
    /\ caller \in {"waiting", "overdue"} => cur \notin abandoned
    /\ \A c \in Llm!Calls : c > cur => worker[c] = "none"

Speaks(c) ==
    /\ worker[c] \in {"returned", "writing", "leaving", "done"} =>
          outcome[c] \in Llm!Results \cup Llm!Raised
    /\ worker[c] \in {"leaving", "done"} => c \in abandoned \/ Spoken(c)
    /\ worker[c] \in {"none", "invoking", "returned", "writing"} => Mute(c)

WorkersSpeak == \A c \in Llm!Calls : Speaks(c)

LlmInv == Llm!TypeOK /\ ToldIsInLines /\ CallerKnows /\ WorkersSpeak

\* One more line of the log.
LEMMA OneMoreLine ==
    ASSUME Llm!TypeOK, NEW line, log' = Append(log, line)
    PROVE  Lines' = Lines \cup {line}
<1>1. log \in Seq(Llm!Calls \X {"ok", "error", "LLMInvokeTimeout"})
  BY DEF Llm!TypeOK
<1>2. /\ Len(log) \in Nat /\ Len(log') = Len(log) + 1
      /\ \A i \in 1 .. Len(log) : log'[i] = log[i]
      /\ log'[Len(log) + 1] = line
  BY <1>1
<1>3. ASSUME NEW x \in Lines' PROVE x \in Lines \cup {line}
  <2>1. PICK i \in 1 .. Len(log') : x = log'[i]
    BY <1>3 DEF Lines
  <2>2. i \in 1 .. Len(log) \/ i = Len(log) + 1
    BY <1>2, <2>1
  <2> QED
    BY <1>2, <2>1, <2>2 DEF Lines
<1>4. ASSUME NEW x \in Lines \cup {line} PROVE x \in Lines'
  <2>1. CASE x = line
    <3>1. Len(log) + 1 \in 1 .. Len(log')
      BY <1>2
    <3> QED
      BY <1>2, <2>1, <3>1 DEF Lines
  <2>2. CASE x \in Lines
    <3>1. PICK i \in 1 .. Len(log) : x = log[i]
      BY <2>2 DEF Lines
    <3>2. i \in 1 .. Len(log') /\ x = log'[i]
      BY <1>2, <3>1
    <3> QED
      BY <3>2 DEF Lines
  <2> QED
    BY <1>4, <2>1, <2>2
<1> QED
  BY <1>3, <1>4

LEMMA SameLines ==
    ASSUME UNCHANGED log
    PROVE  Lines' = Lines
BY DEF Lines

\* What the log says tells the same as Lines.
LEMMA SaidInLines ==
    \A c, what : Llm!Says(c, what) <=> <<c, what>> \in Lines
BY DEF Llm!Says, Lines

LEMMA CallNumbers ==
    /\ MaxCalls \in Nat \ {0}
    /\ Llm!Calls = 1 .. MaxCalls
BY LlmAssumption DEF Llm!MaxCallsAssumption, Llm!Calls

LEMMA LlmInit == Llm!Init => LlmInv
<1> SUFFICES ASSUME Llm!Init PROVE LlmInv
  OBVIOUS
<1>1. log = <<>> /\ Lines = {}
  BY DEF Llm!Init, Lines
<1>2. Llm!TypeOK
  <2>1. /\ kind \in [Llm!Calls -> Llm!Kinds]
        /\ worker \in [Llm!Calls ->
                       {"none", "invoking", "returned", "writing", "leaving", "done"}]
        /\ outcome \in [Llm!Calls -> Llm!Results \cup Llm!Raised \cup {"none"}]
        /\ told \in [Llm!Calls -> {"none", "payload", "parse_failed", "provider_failed",
                                   "recovered_edit", "classify_failed", "timeout"}]
    BY DEF Llm!Init, Llm!Kinds
  <2>2. cur \in 0 .. MaxCalls
    BY CallNumbers DEF Llm!Init
  <2> QED
    BY <1>1, <2>1, <2>2 DEF Llm!Init, Llm!TypeOK
<1>3. ToldIsInLines /\ CallerKnows /\ WorkersSpeak
  BY <1>1 DEF Llm!Init, ToldIsInLines, ToldFits, CallerKnows, WorkersSpeak, Speaks, Mute
<1> QED
  BY <1>2, <1>3 DEF LlmInv

\* Nothing is unsaid, and what is said grows by one line.
LEMMA ToldStays ==
    ASSUME LlmInv, Lines \subseteq Lines', UNCHANGED told
    PROVE  ToldIsInLines'
<1> SUFFICES ASSUME NEW c \in Llm!Calls PROVE ToldFits(c)'
  BY DEF ToldIsInLines
<1>1. ToldFits(c)
  BY DEF LlmInv, ToldIsInLines
<1> QED
  BY <1>1 DEF ToldFits, Mute

LEMMA SubmitStep ==
    ASSUME LlmInv, Llm!Submit
    PROVE  LlmInv'
<1>1. Lines' = Lines
  BY SameLines DEF Llm!Submit
<1>2. cur + 1 \in Llm!Calls /\ cur' = cur + 1 /\ cur \in Nat
  BY CallNumbers DEF LlmInv, Llm!TypeOK, Llm!Submit
<1>3. Llm!TypeOK'
  <2>1. cur' \in 0 .. MaxCalls /\ 1 .. cur \subseteq 1 .. cur'
    BY <1>2, CallNumbers
  <2>2. kind' \in [Llm!Calls -> Llm!Kinds]
    BY DEF LlmInv, Llm!TypeOK, Llm!Submit
  <2>3. worker' \in [Llm!Calls ->
                     {"none", "invoking", "returned", "writing", "leaving", "done"}]
    BY DEF LlmInv, Llm!TypeOK, Llm!Submit
  <2> QED
    BY <2>1, <2>2, <2>3 DEF LlmInv, Llm!TypeOK, Llm!Submit
<1>3a. /\ caller' = "waiting" /\ abandoned' = abandoned /\ outcome' = outcome
        /\ cur + 1 \notin abandoned
  BY <1>2, CallNumbers DEF LlmInv, Llm!TypeOK, Llm!Submit
<1>4. CallerKnows'
  <2>1. \A c \in Llm!Calls : c # cur + 1 => worker'[c] = worker[c]
    BY DEF LlmInv, Llm!TypeOK, Llm!Submit
  <2> QED
    BY <1>2, <1>3a, <2>1, CallNumbers DEF LlmInv, CallerKnows
<1>5. WorkersSpeak'
  <2>1. worker'[cur + 1] = "invoking" /\ worker[cur + 1] = "none"
    BY <1>2, CallNumbers DEF LlmInv, Llm!TypeOK, Llm!Submit, CallerKnows
  <2>2. \A c \in Llm!Calls : c # cur + 1 => worker'[c] = worker[c]
    BY DEF LlmInv, Llm!TypeOK, Llm!Submit
  <2> SUFFICES ASSUME NEW c \in Llm!Calls
               PROVE  Speaks(c)'
    BY DEF WorkersSpeak
  <2>3. Mute(c)' = Mute(c) /\ Spoken(c)' = Spoken(c)
    BY <1>1, <1>3a DEF Mute, Spoken
  <2>4. CASE c = cur + 1
    BY <1>3a, <2>1, <2>3, <2>4 DEF LlmInv, WorkersSpeak, Speaks
  <2>5. CASE c # cur + 1
    BY <1>3a, <2>2, <2>3, <2>5 DEF LlmInv, WorkersSpeak, Speaks
  <2> QED
    BY <2>4, <2>5
<1> QED
  BY <1>1, <1>3, <1>4, <1>5, ToldStays DEF LlmInv, Llm!Submit

\* A step of a worker on its own thread.
LEMMA WorkerMoves ==
    ASSUME LlmInv, NEW c \in Llm!Calls, worker[c] # "none",
           NEW w \in {"returned", "writing", "leaving", "done"},
           worker' = [worker EXCEPT ![c] = w], UNCHANGED <<cur, caller, abandoned>>
    PROVE  /\ worker' \in [Llm!Calls ->
                       {"none", "invoking", "returned", "writing", "leaving", "done"}]
           /\ worker'[c] = w
           /\ \A d \in Llm!Calls : d # c => worker'[d] = worker[d]
           /\ CallerKnows'
<1>1. /\ worker' \in [Llm!Calls ->
                  {"none", "invoking", "returned", "writing", "leaving", "done"}]
      /\ worker'[c] = w
      /\ \A d \in Llm!Calls : d # c => worker'[d] = worker[d]
  BY DEF LlmInv, Llm!TypeOK
<1>2. CallerKnows'
  BY <1>1 DEF LlmInv, CallerKnows
<1> QED
  BY <1>1, <1>2

LEMMA ReturnStep ==
    ASSUME LlmInv, NEW c \in Llm!Calls, Llm!ProviderReturns(c)
    PROVE  LlmInv'
<1>1. Lines' = Lines
  BY SameLines DEF Llm!ProviderReturns
<1>2. PICK o \in Llm!Results \cup Llm!Raised : outcome' = [outcome EXCEPT ![c] = o]
  BY DEF Llm!ProviderReturns
<1>3. /\ worker[c] = "invoking" /\ worker' = [worker EXCEPT ![c] = "returned"]
      /\ UNCHANGED <<cur, kind, caller, abandoned, expired, log, told>>
  BY DEF Llm!ProviderReturns
<1>4. /\ worker' \in [Llm!Calls ->
                  {"none", "invoking", "returned", "writing", "leaving", "done"}]
      /\ worker'[c] = "returned"
      /\ \A d \in Llm!Calls : d # c => worker'[d] = worker[d]
      /\ CallerKnows'
  BY <1>3, WorkerMoves
<1>5. /\ outcome' \in [Llm!Calls -> Llm!Results \cup Llm!Raised \cup {"none"}]
      /\ outcome'[c] = o
      /\ \A d \in Llm!Calls : d # c => outcome'[d] = outcome[d]
  BY <1>2 DEF LlmInv, Llm!TypeOK
<1>6. Llm!TypeOK'
  BY <1>3, <1>4, <1>5 DEF LlmInv, Llm!TypeOK
<1>7. WorkersSpeak'
  <2> SUFFICES ASSUME NEW d \in Llm!Calls
               PROVE  Speaks(d)'
    BY DEF WorkersSpeak
  <2>1. Mute(d)' = Mute(d)
    BY <1>1 DEF Mute
  <2>2. CASE d = c
    BY <1>3, <1>4, <1>5, <2>1, <2>2 DEF LlmInv, WorkersSpeak, Speaks
  <2>3. CASE d # c
    <3>1. Spoken(d)' = Spoken(d)
      BY <1>1, <1>5, <2>3 DEF Spoken
    <3> QED
      BY <1>3, <1>4, <1>5, <2>1, <2>3, <3>1 DEF LlmInv, WorkersSpeak, Speaks
  <2> QED
    BY <2>2, <2>3
<1> QED
  BY <1>1, <1>3, <1>4, <1>6, <1>7, ToldStays DEF LlmInv

\* The Event is read, or the thread ends: nothing is said.
LEMMA QuietStep ==
    ASSUME LlmInv, NEW c \in Llm!Calls, Llm!TestAbandoned(c) \/ Llm!Leave(c)
    PROVE  LlmInv'
<1>1. Lines' = Lines
  BY SameLines DEF Llm!TestAbandoned, Llm!Leave
<1>2. PICK w \in {"writing", "leaving", "done"} :
        /\ worker' = [worker EXCEPT ![c] = w]
        /\ \/ worker[c] = "returned" /\ w = "writing"
           \/ worker[c] = "returned" /\ w = "leaving" /\ c \in abandoned
           \/ worker[c] = "leaving" /\ w = "done"
  BY DEF Llm!TestAbandoned, Llm!Leave
<1>3. UNCHANGED <<cur, kind, caller, outcome, abandoned, expired, log, told>>
  BY DEF Llm!TestAbandoned, Llm!Leave
<1>4. /\ worker' \in [Llm!Calls ->
                  {"none", "invoking", "returned", "writing", "leaving", "done"}]
      /\ worker'[c] = w
      /\ \A d \in Llm!Calls : d # c => worker'[d] = worker[d]
      /\ CallerKnows'
  BY <1>2, <1>3, WorkerMoves
<1>5. Llm!TypeOK'
  BY <1>3, <1>4 DEF LlmInv, Llm!TypeOK
<1>6. WorkersSpeak'
  <2> SUFFICES ASSUME NEW d \in Llm!Calls
               PROVE  Speaks(d)'
    BY DEF WorkersSpeak
  <2>1. Mute(d)' = Mute(d) /\ Spoken(d)' = Spoken(d)
    BY <1>1, <1>3 DEF Mute, Spoken
  <2>2. CASE d = c
    BY <1>2, <1>3, <1>4, <2>1, <2>2 DEF LlmInv, WorkersSpeak, Speaks
  <2>3. CASE d # c
    BY <1>3, <1>4, <2>1, <2>3 DEF LlmInv, WorkersSpeak, Speaks
  <2> QED
    BY <2>2, <2>3
<1> QED
  BY <1>1, <1>3, <1>4, <1>5, <1>6, ToldStays DEF LlmInv

LEMMA WriteStep ==
    ASSUME LlmInv, NEW c \in Llm!Calls, Llm!WriteLine(c)
    PROVE  LlmInv'
<1> DEFINE what == IF outcome[c] \in Llm!Results THEN "ok" ELSE "error"
<1>1. /\ worker[c] = "writing" /\ worker' = [worker EXCEPT ![c] = "leaving"]
      /\ log' = Append(log, <<c, what>>)
      /\ UNCHANGED <<cur, kind, caller, outcome, abandoned, expired, told>>
  BY DEF Llm!WriteLine
<1>2. what \in {"ok", "error"}
  OBVIOUS
<1>3. Spoken(c)' <=> <<c, what>> \in Lines'
  BY <1>1 DEF Spoken
<1> HIDE DEF what
<1>4. Lines' = Lines \cup {<<c, what>>}
  BY <1>1, OneMoreLine DEF LlmInv
<1>5. /\ worker' \in [Llm!Calls ->
                  {"none", "invoking", "returned", "writing", "leaving", "done"}]
      /\ worker'[c] = "leaving"
      /\ \A d \in Llm!Calls : d # c => worker'[d] = worker[d]
      /\ CallerKnows'
  BY <1>1, WorkerMoves
<1>6. Llm!TypeOK'
  <2>1. log' \in Seq(Llm!Calls \X {"ok", "error", "LLMInvokeTimeout"})
    BY <1>1, <1>2 DEF LlmInv, Llm!TypeOK
  <2> QED
    BY <1>1, <1>5, <2>1 DEF LlmInv, Llm!TypeOK
<1>7. WorkersSpeak'
  <2> SUFFICES ASSUME NEW d \in Llm!Calls
               PROVE  Speaks(d)'
    BY DEF WorkersSpeak
  <2>1. CASE d = c
    BY <1>1, <1>3, <1>4, <1>5, <2>1 DEF LlmInv, WorkersSpeak, Speaks
  <2>2. CASE d # c
    <3>1. Mute(d) => Mute(d)'
      BY <1>4, <2>2 DEF Mute
    <3>2. Spoken(d) => Spoken(d)'
      BY <1>1, <1>4 DEF Spoken
    <3> QED
      BY <1>1, <1>5, <2>2, <3>1, <3>2 DEF LlmInv, WorkersSpeak, Speaks
  <2> QED
    BY <2>1, <2>2
<1> QED
  BY <1>1, <1>4, <1>5, <1>6, <1>7, ToldStays DEF LlmInv

\* What the caller is handed rests on the line of its own worker.
LEMMA TakeStep ==
    ASSUME LlmInv, Llm!Take
    PROVE  LlmInv'
<1>1. /\ Lines' = Lines
      /\ caller = "waiting" /\ worker[cur] = "done" /\ caller' \in {"overdue", "idle"}
      /\ UNCHANGED <<cur, kind, worker, outcome, abandoned, expired, log>>
  BY SameLines DEF Llm!Take
<1>2. /\ cur \in Llm!Calls /\ cur \notin abandoned
      /\ outcome[cur] \in Llm!Results \cup Llm!Raised /\ Spoken(cur)
  BY <1>1 DEF LlmInv, CallerKnows, WorkersSpeak, Speaks
<1>3. CallerKnows' /\ WorkersSpeak'
  <2>1. CallerKnows'
    BY <1>1, <1>2 DEF LlmInv, CallerKnows
  <2>2. ASSUME NEW c \in Llm!Calls PROVE Speaks(c)'
    BY <1>1 DEF LlmInv, WorkersSpeak, Speaks, Spoken, Mute
  <2> QED
    BY <2>1, <2>2 DEF WorkersSpeak
<1>4. CASE UNCHANGED told
  BY <1>1, <1>3, <1>4, ToldStays DEF LlmInv, Llm!TypeOK
<1>5. CASE \E a \in Llm!Answers(cur, outcome[cur]) : told' = [told EXCEPT ![cur] = a]
  <2>1. PICK a \in Llm!Answers(cur, outcome[cur]) : told' = [told EXCEPT ![cur] = a]
    BY <1>5
  <2>2. /\ a \in {"payload", "parse_failed"} => outcome[cur] \in Llm!Results
        /\ a = "provider_failed" => outcome[cur] \notin Llm!Results
        /\ a \in {"payload", "parse_failed", "provider_failed", "recovered_edit",
                  "classify_failed"}
    BY <1>2, <2>1
    DEF Llm!Answers, Llm!IntakeAnswer, Llm!IntentAnswers, Llm!Results, Llm!Raised
  <2>3. /\ told' \in [Llm!Calls -> {"none", "payload", "parse_failed", "provider_failed",
                                    "recovered_edit", "classify_failed", "timeout"}]
        /\ told'[cur] = a
        /\ \A c \in Llm!Calls : c # cur => told'[c] = told[c]
    BY <1>2, <2>1, <2>2 DEF LlmInv, Llm!TypeOK
  <2>4. ToldIsInLines'
    <3> SUFFICES ASSUME NEW c \in Llm!Calls
                 PROVE  ToldFits(c)'
      BY DEF ToldIsInLines
    <3>0. Lines' = Lines /\ Mute(c)' = Mute(c)
      BY <1>1 DEF Mute
    <3>1. CASE c = cur
      BY <1>2, <2>2, <2>3, <3>0, <3>1 DEF ToldFits, Spoken, Mute
    <3>2. CASE c # cur
      BY <2>3, <3>0, <3>2 DEF LlmInv, ToldIsInLines, ToldFits
    <3> QED
      BY <3>1, <3>2
  <2>5. Llm!TypeOK'
    BY <1>1, <2>3 DEF LlmInv, Llm!TypeOK
  <2> QED
    BY <1>3, <2>4, <2>5 DEF LlmInv
<1> QED
  BY <1>4, <1>5 DEF Llm!Take

LEMMA OverdueStep ==
    ASSUME LlmInv, Llm!Deadline \/ Llm!Abandon
    PROVE  LlmInv'
<1>1. /\ Lines' = Lines
      /\ caller \in {"waiting", "overdue"}
      /\ \/ caller' = "overdue" /\ abandoned' = abandoned /\ expired' = expired \cup {cur}
         \/ caller' = "giving_up" /\ abandoned' = abandoned \cup {cur} /\ expired' = expired
      /\ UNCHANGED <<cur, kind, worker, outcome, log, told>>
  BY SameLines DEF Llm!Deadline, Llm!Abandon
<1>2. cur \in Llm!Calls /\ cur \in 1 .. cur /\ cur \notin abandoned
  BY <1>1, CallNumbers DEF LlmInv, CallerKnows
<1>3. Llm!TypeOK'
  BY <1>1, <1>2 DEF LlmInv, Llm!TypeOK
<1>4. CallerKnows'
  BY <1>1, <1>2 DEF LlmInv, CallerKnows
<1>5. WorkersSpeak'
  <2> SUFFICES ASSUME NEW d \in Llm!Calls
               PROVE  Speaks(d)'
    BY DEF WorkersSpeak
  <2>1. Mute(d)' = Mute(d) /\ Spoken(d)' = Spoken(d)
    BY <1>1 DEF Mute, Spoken
  <2>2. d \in abandoned => d \in abandoned'
    BY <1>1
  <2> QED
    BY <1>1, <2>1, <2>2 DEF LlmInv, WorkersSpeak, Speaks
<1> QED
  BY <1>1, <1>3, <1>4, <1>5, ToldStays DEF LlmInv

LEMMA GiveUpStep ==
    ASSUME LlmInv, Llm!GiveUp
    PROVE  LlmInv'
<1>1. /\ caller = "giving_up" /\ caller' = "idle"
      /\ log' = Append(log, <<cur, "LLMInvokeTimeout">>)
      /\ told' = [told EXCEPT ![cur] = "timeout"]
      /\ UNCHANGED <<cur, kind, worker, outcome, abandoned, expired>>
  BY DEF Llm!GiveUp
<1>2. cur \in Llm!Calls /\ Lines' = Lines \cup {<<cur, "LLMInvokeTimeout">>}
  BY <1>1, OneMoreLine DEF LlmInv, CallerKnows
<1>3. \A c \in Llm!Calls : Mute(c)' = Mute(c)
  BY <1>2 DEF Mute
<1>4. Llm!TypeOK'
  <2>1. log' \in Seq(Llm!Calls \X {"ok", "error", "LLMInvokeTimeout"})
    BY <1>1, <1>2 DEF LlmInv, Llm!TypeOK
  <2>2. told' \in [Llm!Calls -> {"none", "payload", "parse_failed", "provider_failed",
                                 "recovered_edit", "classify_failed", "timeout"}]
    BY <1>1 DEF LlmInv, Llm!TypeOK
  <2> QED
    BY <1>1, <2>1, <2>2 DEF LlmInv, Llm!TypeOK
<1>5. CallerKnows'
  BY <1>1 DEF LlmInv, CallerKnows
<1>6. WorkersSpeak'
  <2> SUFFICES ASSUME NEW c \in Llm!Calls PROVE Speaks(c)'
    BY DEF WorkersSpeak
  <2>1. Spoken(c) => Spoken(c)'
    BY <1>1, <1>2 DEF Spoken
  <2> QED
    BY <1>1, <1>3, <2>1 DEF LlmInv, WorkersSpeak, Speaks
<1>7. ToldIsInLines'
  <2>1. /\ told'[cur] = "timeout"
        /\ \A c \in Llm!Calls : c # cur => told'[c] = told[c]
    BY <1>1, <1>2 DEF LlmInv, Llm!TypeOK
  <2> SUFFICES ASSUME NEW c \in Llm!Calls
               PROVE  ToldFits(c)'
    BY DEF ToldIsInLines
  <2>2. CASE c = cur
    BY <1>2, <2>1, <2>2 DEF ToldFits
  <2>3. CASE c # cur
    BY <1>2, <1>3, <2>1, <2>3 DEF LlmInv, ToldIsInLines, ToldFits
  <2> QED
    BY <2>2, <2>3
<1> QED
  BY <1>4, <1>5, <1>6, <1>7 DEF LlmInv

LEMMA LlmStep == LlmInv /\ [Llm!Next]_(Llm!vars) => LlmInv'
<1> SUFFICES ASSUME LlmInv, [Llm!Next]_(Llm!vars)
             PROVE  LlmInv'
  OBVIOUS
<1>1. CASE UNCHANGED Llm!vars
  <2>1. Lines' = Lines
    BY <1>1, SameLines DEF Llm!vars
  <2>2. Llm!TypeOK' /\ CallerKnows' /\ ToldIsInLines'
    BY <1>1, <2>1, ToldStays DEF Llm!vars, LlmInv, Llm!TypeOK, CallerKnows
  <2>3. ASSUME NEW c \in Llm!Calls PROVE Speaks(c)'
    BY <1>1, <2>1 DEF Llm!vars, LlmInv, WorkersSpeak, Speaks, Spoken, Mute
  <2> QED
    BY <2>2, <2>3 DEF LlmInv, WorkersSpeak
<1>2. CASE Llm!Next
  BY <1>2, SubmitStep, TakeStep, OverdueStep, GiveUpStep, ReturnStep, QuietStep, WriteStep
  DEF Llm!Next, Llm!CallerStep, Llm!WorkerStep
<1> QED
  BY <1>1, <1>2

\* Only the caller and the workers move what they share.
LEMMA LlmPart == [ServicesNext]_<<part, batch, llm, service, usage>> => [Llm!Next]_(Llm!vars)
<1>1. UNCHANGED llm => UNCHANGED Llm!vars
  BY DEF llm, Llm!vars
<1>2. UNCHANGED <<part, batch, llm, service, usage>> => UNCHANGED llm
  OBVIOUS
<1>3. ServicesNext => Llm!Next \/ UNCHANGED llm
  <2>1. /\ UNCHANGED <<part, llm, service, usage>> => UNCHANGED llm
        /\ UNCHANGED <<part, batch, llm, usage>> => UNCHANGED llm
        /\ UNCHANGED <<part, batch, llm, service>> => UNCHANGED llm
    OBVIOUS
  <2> QED
    BY <2>1, Zenon DEF ServicesNext
<1> QED
  BY <1>1, <1>2, <1>3

LEMMA LlmRuns == ServicesSpec => []LlmInv
<1>1. ServicesInit => LlmInv
  BY LlmInit, Zenon DEF ServicesInit
<1>2. LlmInv /\ [ServicesNext]_<<part, batch, llm, service, usage>> => LlmInv'
  BY LlmPart, LlmStep
<1> QED
  BY <1>1, <1>2, PTL DEF ServicesSpec

\* For any number of calls, whichever provider stays out and whichever answer
\* comes late: whatever a node is told about a call, the log already has the
\* line it rests on (the order of writes and returns in invoke_with_timeout).
THEOREM CallsStayLogged == ServicesSpec => []CallsAreLogged
<1>1. LlmInv => CallsAreLogged
  <2> SUFFICES ASSUME LlmInv, NEW c \in Llm!Calls
               PROVE  /\ told[c] \in {"payload", "parse_failed"} => Llm!Says(c, "ok")
                      /\ told[c] = "provider_failed" => Llm!Says(c, "error")
                      /\ told[c] \in {"recovered_edit", "classify_failed"} =>
                            Llm!WorkerSpoke(c)
                      /\ told[c] = "timeout" => Llm!Says(c, "LLMInvokeTimeout")
    BY DEF CallsAreLogged, Llm!ToldIsLogged, LlmInv
  <2>1. ToldFits(c)
    BY DEF LlmInv, ToldIsInLines
  <2> QED
    BY <2>1, SaidInLines DEF ToldFits, Mute, Llm!WorkerSpoke
<1> QED
  BY <1>1, LlmRuns, PTL

\* The worker of a call that was given up and has said nothing yet.
Silent(c) == c \in abandoned /\ worker[c] \notin {"writing", "none"} /\ Mute(c)

LEMMA StaysSilent ==
    ASSUME NEW c \in Llm!Calls
    PROVE  LlmInv /\ Silent(c) /\ [Llm!Next]_(Llm!vars) => Silent(c)'
<1> SUFFICES ASSUME LlmInv, Silent(c), [Llm!Next]_(Llm!vars)
             PROVE  Silent(c)'
  OBVIOUS
<1>1. CASE UNCHANGED Llm!vars
  <2>1. Lines' = Lines
    BY <1>1, SameLines DEF Llm!vars
  <2> QED
    BY <1>1, <2>1 DEF Llm!vars, Silent, Mute
<1>2. CASE Llm!Submit
  <2>1. Lines' = Lines /\ abandoned' = abandoned
    BY <1>2, SameLines DEF Llm!Submit
  <2>2. c # cur + 1
    BY CallNumbers DEF Silent, LlmInv, Llm!TypeOK
  <2>3. worker'[c] = worker[c]
    BY <1>2, <2>2 DEF LlmInv, Llm!TypeOK, Llm!Submit
  <2> QED
    BY <2>1, <2>3 DEF Silent, Mute
<1>3. CASE Llm!Take \/ Llm!Deadline \/ Llm!Abandon
  <2>1. Lines' = Lines /\ worker' = worker /\ abandoned \subseteq abandoned'
    BY <1>3, SameLines DEF Llm!Take, Llm!Deadline, Llm!Abandon
  <2> QED
    BY <2>1 DEF Silent, Mute
<1>4. CASE Llm!GiveUp
  <2>1. Lines' = Lines \cup {<<cur, "LLMInvokeTimeout">>}
    BY <1>4, OneMoreLine DEF Llm!GiveUp, LlmInv
  <2>2. worker' = worker /\ abandoned' = abandoned
    BY <1>4 DEF Llm!GiveUp
  <2> QED
    BY <2>1, <2>2 DEF Silent, Mute
<1>5. ASSUME NEW d \in Llm!Calls,
             Llm!ProviderReturns(d) \/ Llm!TestAbandoned(d) \/ Llm!Leave(d)
      PROVE  Silent(c)'
  <2>1. Lines' = Lines /\ abandoned' = abandoned
    BY <1>5, SameLines DEF Llm!ProviderReturns, Llm!TestAbandoned, Llm!Leave
  <2>2. worker' \in [Llm!Calls -> {"none", "invoking", "returned", "writing", "leaving", "done"}]
        /\ worker'[c] \notin {"writing", "none"}
    <3>1. CASE d = c
      BY <1>5, <3>1 DEF LlmInv, Llm!TypeOK, Silent, Llm!ProviderReturns,
                        Llm!TestAbandoned, Llm!Leave
    <3>2. CASE d # c
      BY <1>5, <3>2 DEF LlmInv, Llm!TypeOK, Silent, Llm!ProviderReturns,
                        Llm!TestAbandoned, Llm!Leave
    <3> QED
      BY <3>1, <3>2
  <2> QED
    BY <2>1, <2>2 DEF Silent, Mute
<1>6. ASSUME NEW d \in Llm!Calls, Llm!WriteLine(d)
      PROVE  Silent(c)'
  <2>1. d # c
    BY <1>6 DEF Silent, Llm!WriteLine
  <2>2. worker'[c] = worker[c] /\ abandoned' = abandoned
    BY <1>6, <2>1 DEF LlmInv, Llm!TypeOK, Llm!WriteLine
  <2>3. PICK what : Lines' = Lines \cup {<<d, what>>}
    BY <1>6, OneMoreLine DEF Llm!WriteLine, LlmInv
  <2> QED
    BY <2>1, <2>2, <2>3 DEF Silent, Mute
<1> QED
  BY <1>1, <1>2, <1>3, <1>4, <1>5, <1>6 DEF Llm!Next, Llm!CallerStep, Llm!WorkerStep

\* Once a call is given up while its provider is out, its worker never writes a
\* line, however many calls are made in between (invoke_with_timeout's Event).
THEOREM LateAnswersStaySilent == ServicesSpec => LateAnswersAreSilent
<1> SUFFICES ASSUME NEW c \in Llm!Calls
             PROVE  ServicesSpec =>
                      [](c \in abandoned /\ worker[c] = "invoking"
                            => [](~ Llm!WorkerSpoke(c)))
  BY DEF LateAnswersAreSilent, Llm!LateAnswersAreSilent
<1>1. LlmInv => (c \in abandoned /\ worker[c] = "invoking" => Silent(c))
  BY DEF LlmInv, WorkersSpeak, Speaks, Silent
<1>2. LlmInv /\ Silent(c) /\ [ServicesNext]_<<part, batch, llm, service, usage>> => Silent(c)'
  BY StaysSilent, LlmPart
<1>3. Silent(c) => ~ Llm!WorkerSpoke(c)
  BY SaidInLines DEF Silent, Mute, Llm!WorkerSpoke
<1> QED
  BY <1>1, <1>2, <1>3, LlmRuns, PTL DEF ServicesSpec

-----------------------------------------------------------------------------
(* The managers of the calculator (CalcService), for either of them and any *)
(* number of processes.  What a manager holds is the process it started     *)
(* last, as its own or as the one it is stopping; the port has one holder;  *)
(* and the child of the supervisor that is alive is the one it holds.       *)

Calc(Manager, MaxSpawns) == INSTANCE CalcService WITH pc <- step

Running(p) == proc[p] \notin {"absent", "dead"}
Bound(p) == proc[p] \in {"listening", "busy"}
ProcStates == {"absent", "booting", "listening", "busy", "failing", "draining", "dead"}

OneHolder(n) == \A p, q \in 0 .. n : Bound(p) /\ Bound(q) => p = q

HoldsTheLast(n) ==
    /\ own # -1 => own = spawned
    /\ doomed # -1 => own = -1 /\ doomed = spawned
    /\ doomed # -1 <=> step \in {"killpg", "grace"}
    /\ step \in {"poll", "probe"} => own # -1
    /\ step \in {"free_port", "settle"} => own = -1
    /\ step \in {"poll", "probe", "free_port", "settle"} => op # "stop"
    /\ op = "none" => own = -1 /\ step = "idle"
    /\ \A p \in 1 .. n : p > spawned => proc[p] = "absent"

Tracked(m, n) == m = "CalcSupervisor" => \A p \in 1 .. n : Running(p) => p \in {own, doomed}
Stopped == op = "stop" /\ result = "ok" => spawned >= 1 /\ ~Running(spawned)

CalcTypes(n) ==
    /\ proc \in [0 .. n -> ProcStates]
    /\ term \subseteq 0 .. n
    /\ spawned \in 0 .. n
    /\ own \in (1 .. n) \cup {-1} /\ doomed \in (1 .. n) \cup {-1}
    /\ step \in {"idle", "killpg", "grace", "free_port", "settle", "poll", "probe"}
    /\ op \in {"none", "start", "stop", "ensure", "restart"}
    /\ result \in {"none", "ok", "raised"}
    /\ answered \in (0 .. n) \cup {-1} /\ before \subseteq 0 .. n

CalcInv(m, n) ==
    CalcTypes(n) /\ OneHolder(n) /\ HoldsTheLast(n) /\ Tracked(m, n) /\ Stopped

\* The numbers of the processes.
LEMMA CalcNumbers ==
    ASSUME NEW m, NEW n \in Nat
    PROVE  /\ Calc(m, n)!Children = 1 .. n /\ Calc(m, n)!Pids = 0 .. n
           /\ Calc(m, n)!None = -1 /\ Calc(m, n)!Foreign = 0
           /\ 1 .. n \subseteq 0 .. n
<1>1. (1 .. n) \cup {0} = 0 .. n
  OBVIOUS
<1> QED
  BY <1>1 DEF Calc!Children, Calc!Pids, Calc!None, Calc!Foreign

LEMMA CalcInit ==
    ASSUME NEW m, NEW n \in Nat, Calc(m, n)!Init
    PROVE  CalcInv(m, n)
<1>1. \A p \in 0 .. n : Bound(p) => p = 0
  BY CalcNumbers DEF Calc!Init, Bound
<1> QED
  BY <1>1, CalcNumbers
  DEF Calc!Init, CalcInv, CalcTypes, OneHolder, HoldsTheLast, Tracked, Stopped, ProcStates,
      Running

\* One process moves on and none is born.
LEMMA ProcessMoves ==
    ASSUME NEW m, NEW n \in Nat, CalcInv(m, n), NEW p \in 0 .. n, NEW s \in ProcStates \ {"absent"},
           Running(p), proc' = [proc EXCEPT ![p] = s], term' \subseteq 0 .. n,
           s \in {"listening", "busy"} => \A q \in 0 .. n : Bound(q) => q = p,
           UNCHANGED <<spawned, own, doomed, step, op, result, answered, before>>
    PROVE  CalcInv(m, n)'
<1>1. /\ proc' \in [0 .. n -> ProcStates] /\ proc'[p] = s
      /\ \A q \in 0 .. n : q # p => proc'[q] = proc[q]
  BY DEF CalcInv, CalcTypes
<1>2. CalcTypes(n)'
  BY <1>1 DEF CalcInv, CalcTypes
<1>3. OneHolder(n)'
  BY <1>1 DEF CalcInv, OneHolder, Bound
<1>4. HoldsTheLast(n)'
  BY <1>1 DEF CalcInv, HoldsTheLast, Running
<1>5. Tracked(m, n)'
  BY <1>1 DEF CalcInv, Tracked, Running
<1>6. Stopped'
  BY <1>1 DEF CalcInv, CalcTypes, Stopped, Running
<1> QED
  BY <1>2, <1>3, <1>4, <1>5, <1>6 DEF CalcInv

LEMMA ProcessStepSound ==
    ASSUME NEW m, NEW n \in Nat, CalcInv(m, n), Calc(m, n)!ProcessStep
    PROVE  CalcInv(m, n)'
<1>1. PICK p \in 0 .. n :
        \/ Calc(m, n)!Listen(p) \/ Calc(m, n)!Fail(p) \/ Calc(m, n)!End(p)
        \/ Calc(m, n)!GetBusy(p) \/ Calc(m, n)!GetFree(p) \/ Calc(m, n)!HandleTerm(p)
  BY CalcNumbers DEF Calc!ProcessStep
<1>2. /\ Running(p) /\ term' \subseteq 0 .. n
      /\ UNCHANGED <<spawned, own, doomed, step, op, result, answered, before>>
  BY <1>1 DEF Calc!Listen, Calc!Fail, Calc!End, Calc!GetBusy, Calc!GetFree, Calc!HandleTerm,
              Calc!Become, Calc!managed, Calc!Alive, Running, CalcInv, CalcTypes
<1>3. PICK s \in ProcStates \ {"absent"} :
        /\ proc' = [proc EXCEPT ![p] = s]
        /\ s = "busy" => proc[p] = "listening"
        /\ s = "listening" => proc[p] = "busy" \/ ~Calc(m, n)!PortTaken
  BY <1>1 DEF Calc!Listen, Calc!Fail, Calc!End, Calc!GetBusy, Calc!GetFree, Calc!HandleTerm,
              Calc!Become, ProcStates
<1>4. s \in {"listening", "busy"} => \A q \in 0 .. n : Bound(q) => q = p
  <2>1. CASE Bound(p)
    BY <2>1 DEF CalcInv, OneHolder
  <2>2. CASE ~Bound(p)
    BY <1>3, <2>2, CalcNumbers DEF Bound, Calc!PortTaken, Calc!Holding
  <2> QED
    BY <2>1, <2>2
<1> QED
  BY <1>2, <1>3, <1>4, ProcessMoves

\* A process is started while the manager holds none that it must stop first.
LEMMA SpawnSound ==
    ASSUME NEW m, NEW n \in Nat, CalcInv(m, n), Calc(m, n)!SpawnNow,
           doomed = -1, m = "CalcSupervisor" => own = -1,
           UNCHANGED <<term, doomed>>,
           op' \in {"start", "ensure", "restart"}, result' \in {"none", "ok", "raised"},
           answered' \in (0 .. n) \cup {-1}, before' \subseteq 0 .. n
    PROVE  CalcInv(m, n)'
<1> DEFINE k == spawned + 1
<1>1. /\ k \in 1 .. n /\ spawned' = k /\ own' = k /\ step' = "poll"
      /\ proc' = [proc EXCEPT ![k] = "booting"]
  BY DEF Calc!SpawnNow, CalcInv, CalcTypes
<1>2. /\ proc' \in [0 .. n -> ProcStates] /\ proc'[k] = "booting"
      /\ \A q \in 0 .. n : q # k => proc'[q] = proc[q]
  BY <1>1 DEF CalcInv, CalcTypes, ProcStates
<1>3. spawned < k /\ spawned \in 0 .. n
  BY <1>1 DEF CalcInv, CalcTypes
<1> HIDE DEF k
<1>4. CalcTypes(n)'
  BY <1>1, <1>2 DEF CalcInv, CalcTypes
<1>5. OneHolder(n)'
  BY <1>2 DEF CalcInv, OneHolder, Bound
<1>6. HoldsTheLast(n)'
  <2>1. ASSUME NEW p \in 1 .. n, p > k PROVE proc'[p] = "absent"
    BY <1>1, <1>2, <1>3, <2>1 DEF CalcInv, HoldsTheLast
  <2> QED
    BY <1>1, <2>1 DEF HoldsTheLast
<1>7. Tracked(m, n)'
  BY <1>1, <1>2 DEF CalcInv, Tracked, Running, CalcTypes
<1>8. Stopped'
  BY DEF Stopped
<1> QED
  BY <1>4, <1>5, <1>6, <1>7, <1>8 DEF CalcInv

\* The process that was to stop is gone.
LEMMA StopEnds ==
    ASSUME NEW m, NEW n \in Nat, CalcInv(m, n), Calc(m, n)!AfterStop,
           step \in {"killpg", "grace"}, doomed' = -1,
           proc' \in [0 .. n -> ProcStates], proc'[doomed] \in {"absent", "dead"},
           \A q \in 0 .. n : q # doomed => proc'[q] = proc[q],
           term' \subseteq 0 .. n, UNCHANGED <<spawned, own, op, answered, before>>
    PROVE  CalcInv(m, n)'
<1>1. /\ doomed # -1 /\ doomed = spawned /\ own = -1 /\ own' = -1 /\ op # "none"
      /\ spawned \in 1 .. n
  BY DEF CalcInv, HoldsTheLast, CalcTypes
<1>2. \/ op = "restart" /\ step' = "free_port" /\ result' = result
      \/ op # "restart" /\ step' = "idle" /\ result' = "ok"
  BY DEF Calc!AfterStop, Calc!Finish
<1>3. ~Running(spawned)'
  BY <1>1 DEF Running
<1>4. CalcTypes(n)'
  BY <1>2 DEF CalcInv, CalcTypes
<1>5. OneHolder(n)'
  <2>1. ASSUME NEW p \in 0 .. n, Bound(p)' PROVE p # doomed /\ Bound(p)
    BY <2>1 DEF Bound
  <2> QED
    BY <2>1 DEF CalcInv, OneHolder
<1>6. HoldsTheLast(n)'
  BY <1>1, <1>2 DEF CalcInv, HoldsTheLast
<1>7. Tracked(m, n)'
  <2>1. ASSUME m = "CalcSupervisor", NEW p \in 1 .. n PROVE ~Running(p)'
    <3>1. CASE p = doomed
      BY <3>1, <1>1, <1>3
    <3>2. CASE p # doomed
      BY <1>1, <2>1, <3>2 DEF CalcInv, Tracked, Running
    <3> QED
      BY <3>1, <3>2
  <2> QED
    BY <2>1 DEF Tracked
<1>8. Stopped'
  BY <1>1, <1>3 DEF Stopped
<1> QED
  BY <1>4, <1>5, <1>6, <1>7, <1>8 DEF CalcInv

\* Nothing but where the thread is, what it answers and who is told to end.
LEMMA ThreadMoves ==
    ASSUME NEW m, NEW n \in Nat, CalcInv(m, n), UNCHANGED <<proc, spawned, own, doomed, op, before>>,
           term' \subseteq 0 .. n, answered' \in (0 .. n) \cup {-1},
           \/ step = "killpg" /\ step' = "grace" /\ result' = result
           \/ step = "free_port" /\ step' = "settle" /\ result' = result
           \/ step \in {"poll", "probe"} /\ step' \in {"poll", "probe"} /\ result' = result
           \/ step \in {"poll", "probe"} /\ step' = "idle" /\ result' \in {"ok", "raised"}
    PROVE  CalcInv(m, n)'
<1>1. CalcTypes(n)'
  BY DEF CalcInv, CalcTypes
<1>2. OneHolder(n)' /\ Tracked(m, n)'
  BY DEF CalcInv, OneHolder, Tracked, Bound, Running
<1>3. HoldsTheLast(n)'
  BY DEF CalcInv, HoldsTheLast
<1>4. Stopped'
  BY DEF CalcInv, HoldsTheLast, Stopped, Running
<1> QED
  BY <1>1, <1>2, <1>3, <1>4 DEF CalcInv

LEMMA ManagerStepSound ==
    ASSUME NEW m, NEW n \in Nat, CalcInv(m, n), Calc(m, n)!ManagerStep
    PROVE  CalcInv(m, n)'
<1>1. CASE Calc(m, n)!KillGroup /\ Running(doomed)
  <2>1. /\ step = "killpg" /\ step' = "grace" /\ term' = term \cup {doomed}
        /\ UNCHANGED <<proc, spawned, own, doomed, op, result, answered, before>>
    BY <1>1 DEF Calc!KillGroup, Calc!Alive, Running
  <2>2. term' \subseteq 0 .. n
    BY <2>1, CalcNumbers DEF CalcInv, CalcTypes, HoldsTheLast
  <2>3. answered' \in (0 .. n) \cup {-1}
    BY <2>1 DEF CalcInv, CalcTypes
  <2> QED
    BY <2>1, <2>2, <2>3, ThreadMoves
<1>2. CASE Calc(m, n)!KillGroup /\ ~Running(doomed)
  <2>1. /\ step = "killpg" /\ doomed' = -1 /\ Calc(m, n)!AfterStop
        /\ UNCHANGED <<proc, term, spawned, own, op, answered, before>>
    BY <1>2 DEF Calc!KillGroup, Calc!Alive, Running, Calc!None
  <2>2. /\ proc' \in [0 .. n -> ProcStates] /\ term' \subseteq 0 .. n
        /\ proc'[doomed] \in {"absent", "dead"}
    BY <1>2, <2>1 DEF CalcInv, CalcTypes, Running
  <2> QED
    BY <2>1, <2>2, StopEnds
<1>3. CASE Calc(m, n)!Gone
  <2>1. /\ step = "grace" /\ doomed' = -1 /\ Calc(m, n)!AfterStop /\ ~Running(doomed)
        /\ UNCHANGED <<proc, term, spawned, own, op, answered, before>>
    BY <1>3 DEF Calc!Gone, Calc!Alive, Running, Calc!None
  <2>2. /\ proc' \in [0 .. n -> ProcStates] /\ term' \subseteq 0 .. n
        /\ proc'[doomed] \in {"absent", "dead"}
    BY <2>1 DEF CalcInv, CalcTypes, Running
  <2> QED
    BY <2>1, <2>2, StopEnds
<1>4. CASE Calc(m, n)!Expire
  <2>1. /\ step = "grace" /\ doomed' = -1 /\ Calc(m, n)!AfterStop
        /\ proc' = [proc EXCEPT ![doomed] = "dead"] /\ term' = term \ {doomed}
        /\ UNCHANGED <<spawned, own, op, answered, before>>
    BY <1>4 DEF Calc!Expire, Calc!None
  <2>2. doomed \in 0 .. n
    BY <2>1 DEF CalcInv, CalcTypes, HoldsTheLast
  <2>3. /\ proc' \in [0 .. n -> ProcStates] /\ proc'[doomed] \in {"absent", "dead"}
        /\ \A q \in 0 .. n : q # doomed => proc'[q] = proc[q]
    BY <2>1, <2>2 DEF CalcInv, CalcTypes, ProcStates
  <2>4. term' \subseteq 0 .. n
    BY <2>1 DEF CalcInv, CalcTypes
  <2> QED
    BY <2>1, <2>3, <2>4, StopEnds
<1>5. CASE Calc(m, n)!FreePort
  <2>1. /\ step = "free_port" /\ step' = "settle"
        /\ UNCHANGED <<proc, spawned, own, doomed, op, result, answered, before>>
    BY <1>5 DEF Calc!FreePort
  <2>2. term' \subseteq 0 .. n /\ answered' \in (0 .. n) \cup {-1}
    BY <1>5, <2>1, CalcNumbers DEF Calc!FreePort, CalcInv, CalcTypes
  <2> QED
    BY <2>1, <2>2, ThreadMoves
<1>6. CASE Calc(m, n)!Respawn
  <2>1. /\ doomed = -1 /\ own = -1
        /\ op' \in {"start", "ensure", "restart"} /\ result' \in {"none", "ok", "raised"}
        /\ answered' \in (0 .. n) \cup {-1} /\ before' \subseteq 0 .. n
    BY <1>6 DEF Calc!Respawn, CalcInv, CalcTypes, HoldsTheLast
  <2>2. Calc(m, n)!SpawnNow /\ UNCHANGED <<term, doomed>>
    BY <1>6 DEF Calc!Respawn
  <2> QED
    BY <2>1, <2>2, SpawnSound
<1>7. CASE Calc(m, n)!Poll \/ Calc(m, n)!Deadline
  <2>1. /\ step = "poll"
        /\ \/ step' = "probe" /\ result' = result
           \/ step' = "idle" /\ result' = "raised"
        /\ UNCHANGED <<proc, term, spawned, own, doomed, op, answered, before>>
    BY <1>7 DEF Calc!Poll, Calc!Deadline, Calc!Finish
  <2>2. term' \subseteq 0 .. n /\ answered' \in (0 .. n) \cup {-1}
    BY <2>1 DEF CalcInv, CalcTypes
  <2> QED
    BY <2>1, <2>2, ThreadMoves
<1>8. CASE Calc(m, n)!Probe
  <2>1. /\ step = "probe"
        /\ \/ step' = "poll" /\ result' = result /\ answered' = answered
           \/ step' = "idle" /\ result' = "ok" /\ answered' \in 0 .. n
        /\ UNCHANGED <<proc, term, spawned, own, doomed, op, before>>
    BY <1>8, CalcNumbers DEF Calc!Probe, Calc!Finish
  <2>2. term' \subseteq 0 .. n /\ answered' \in (0 .. n) \cup {-1}
    BY <2>1 DEF CalcInv, CalcTypes
  <2> QED
    BY <2>1, <2>2, ThreadMoves
<1> QED
  BY <1>1, <1>2, <1>3, <1>4, <1>5, <1>6, <1>7, <1>8 DEF Calc!ManagerStep

\* A call that starts by stopping what the manager holds.
LEMMA StopBegins ==
    ASSUME NEW m, NEW n \in Nat, CalcInv(m, n), step = "idle", own # -1, doomed' = own, own' = -1,
           step' = "killpg", op' \in {"stop", "restart"}, result' = "none", answered' = -1,
           before' \subseteq 0 .. n, UNCHANGED <<proc, term, spawned>>
    PROVE  CalcInv(m, n)'
<1>1. doomed = -1 /\ own = spawned
  BY DEF CalcInv, HoldsTheLast
<1>2. CalcTypes(n)'
  BY DEF CalcInv, CalcTypes
<1>3. OneHolder(n)'
  BY DEF CalcInv, OneHolder, Bound
<1>4. HoldsTheLast(n)'
  BY <1>1 DEF CalcInv, HoldsTheLast
<1>5. Tracked(m, n)'
  BY <1>1 DEF CalcInv, Tracked, Running, CalcTypes
<1>6. Stopped'
  BY DEF Stopped
<1> QED
  BY <1>2, <1>3, <1>4, <1>5, <1>6 DEF CalcInv

LEMMA CallSound ==
    ASSUME NEW m, NEW n \in Nat, CalcInv(m, n), Calc(m, n)!Call
    PROVE  CalcInv(m, n)'
<1>0. step = "idle" => doomed = -1
  BY DEF CalcInv, HoldsTheLast
<1>1. CASE Calc(m, n)!Enter
  <2>1. /\ Calc(m, n)!SpawnNow /\ UNCHANGED <<term, doomed>>
        /\ m = "CalcService" /\ step = "idle"
        /\ op' = "start" /\ result' = "none" /\ answered' = -1 /\ before' \subseteq 0 .. n
    BY <1>1, CalcNumbers DEF Calc!Enter, Calc!Begin
  <2>2. /\ op' \in {"start", "ensure", "restart"} /\ result' \in {"none", "ok", "raised"}
        /\ answered' \in (0 .. n) \cup {-1} /\ (m = "CalcSupervisor" => own = -1)
    BY <2>1
  <2> QED
    BY <1>0, <2>1, <2>2, SpawnSound
<1>2. CASE Calc(m, n)!Stop
  <2>1. /\ step = "idle" /\ own # -1 /\ doomed' = own /\ own' = -1 /\ step' = "killpg"
        /\ op' = "stop" /\ result' = "none" /\ answered' = -1 /\ before' \subseteq 0 .. n
        /\ UNCHANGED <<proc, term, spawned>>
    BY <1>2, CalcNumbers DEF Calc!Stop, Calc!Begin
  <2> QED
    BY <2>1, StopBegins
<1>3. CASE Calc(m, n)!EnsureRunning
  <2>1. /\ step = "idle" /\ op = "none" /\ op' = "ensure" /\ before' \subseteq 0 .. n
        /\ UNCHANGED <<term, doomed>> /\ own = -1
    BY <1>3, CalcNumbers DEF Calc!EnsureRunning, CalcInv, HoldsTheLast
  <2>2. CASE Calc(m, n)!SpawnNow /\ result' = "none" /\ answered' = -1
    <3>1. /\ op' \in {"start", "ensure", "restart"} /\ result' \in {"none", "ok", "raised"}
          /\ answered' \in (0 .. n) \cup {-1}
      BY <2>1, <2>2
    <3> QED
      BY <1>0, <2>1, <2>2, <3>1, SpawnSound
  <2>3. CASE /\ answered' \in 0 .. n /\ step' = "idle" /\ result' = "ok"
             /\ UNCHANGED <<proc, spawned, own>>
    <3>1. CalcTypes(n)'
      BY <2>1, <2>3 DEF CalcInv, CalcTypes
    <3>2. OneHolder(n)' /\ Tracked(m, n)'
      BY <2>1, <2>3 DEF CalcInv, OneHolder, Tracked, Bound, Running
    <3>3. HoldsTheLast(n)' /\ Stopped'
      BY <1>0, <2>1, <2>3 DEF CalcInv, HoldsTheLast, Stopped
    <3> QED
      BY <3>1, <3>2, <3>3 DEF CalcInv
  <2> QED
    BY <1>3, <2>2, <2>3, CalcNumbers DEF Calc!EnsureRunning, Calc!Finish
<1>4. CASE Calc(m, n)!Restart
  <2>1. /\ step = "idle" /\ op # "none"
        /\ op' = "restart" /\ result' = "none" /\ answered' = -1 /\ before' \subseteq 0 .. n
        /\ UNCHANGED <<proc, term, spawned>>
        /\ \/ own = -1 /\ step' = "free_port" /\ UNCHANGED <<own, doomed>>
           \/ own # -1 /\ doomed' = own /\ own' = -1 /\ step' = "killpg"
    BY <1>4, CalcNumbers DEF Calc!Restart, Calc!Begin
  <2>2. CASE own # -1
    BY <2>1, <2>2, StopBegins
  <2>3. CASE own = -1
    <3>1. CalcTypes(n)'
      BY <2>1, <2>3 DEF CalcInv, CalcTypes
    <3>2. OneHolder(n)' /\ Tracked(m, n)'
      BY <2>1, <2>3 DEF CalcInv, OneHolder, Tracked, Bound, Running
    <3>3. HoldsTheLast(n)' /\ Stopped'
      BY <1>0, <2>1, <2>3 DEF CalcInv, HoldsTheLast, Stopped
    <3> QED
      BY <3>1, <3>2, <3>3 DEF CalcInv
  <2> QED
    BY <2>2, <2>3
<1> QED
  BY <1>1, <1>2, <1>3, <1>4 DEF Calc!Call

LEMMA CalcStep ==
    ASSUME NEW m, NEW n \in Nat, CalcInv(m, n), Calc(m, n)!Next \/ UNCHANGED service
    PROVE  CalcInv(m, n)'
<1>1. CASE UNCHANGED service
  BY <1>1 DEF service, CalcInv, CalcTypes, OneHolder, HoldsTheLast, Tracked, Stopped, Bound, Running
<1>2. CASE Calc(m, n)!Next
  BY <1>2, ProcessStepSound, ManagerStepSound, CallSound DEF Calc!Next
<1> QED
  BY <1>1, <1>2

\* What the invariant says of the processes is what the component promises.
LEMMA CalcTypeHolds ==
    ASSUME NEW m, NEW n \in Nat, CalcInv(m, n)
    PROVE  Calc(m, n)!TypeOK
<1>1. \A p, q \in Calc(m, n)!Pids :
         Calc(m, n)!Holding(p) /\ Calc(m, n)!Holding(q) => p = q
  BY CalcNumbers DEF CalcInv, OneHolder, Bound, Calc!Holding
<1> QED
  BY <1>1, CalcNumbers DEF CalcInv, CalcTypes, ProcStates, Calc!TypeOK

\* The two managers of the composition.
LEMMA ServiceIsCalc ==
    /\ Service!Next <=> Calc("CalcService", AppSpawns)!Next
    /\ Service!Init <=> Calc("CalcService", AppSpawns)!Init
    /\ Service!TypeOK <=> Calc("CalcService", AppSpawns)!TypeOK
<1>1. Service!Next <=> Calc("CalcService", AppSpawns)!Next
  BY Zenon
  DEF Service!Next, Calc!Next, Service!ProcessStep, Calc!ProcessStep,
     Service!ManagerStep, Calc!ManagerStep, Service!Call, Calc!Call, Service!Listen,
     Calc!Listen, Service!Fail, Calc!Fail, Service!End, Calc!End, Service!GetBusy,
     Calc!GetBusy, Service!GetFree, Calc!GetFree, Service!HandleTerm, Calc!HandleTerm,
     Service!KillGroup, Calc!KillGroup, Service!Gone, Calc!Gone, Service!Expire,
     Calc!Expire, Service!FreePort, Calc!FreePort, Service!Respawn, Calc!Respawn,
     Service!Poll, Calc!Poll, Service!Probe, Calc!Probe, Service!Deadline,
     Calc!Deadline, Service!Enter, Calc!Enter, Service!Stop, Calc!Stop,
     Service!EnsureRunning, Calc!EnsureRunning, Service!Restart, Calc!Restart,
     Service!SpawnNow, Calc!SpawnNow, Service!Begin, Calc!Begin, Service!Finish,
     Calc!Finish, Service!AfterStop, Calc!AfterStop, Service!Become, Calc!Become,
     Service!managed, Calc!managed, Service!Alive, Calc!Alive, Service!Holding,
     Calc!Holding, Service!Answering, Calc!Answering, Service!PortTaken,
     Calc!PortTaken, Service!Pids, Calc!Pids, Service!Children, Calc!Children,
     Service!None, Calc!None, Service!Foreign, Calc!Foreign
<1>2. Service!Init <=> Calc("CalcService", AppSpawns)!Init
  BY Zenon DEF Service!Init, Calc!Init, Service!Pids, Calc!Pids, Service!Children,
     Calc!Children, Service!None, Calc!None, Service!Foreign, Calc!Foreign
<1>3. Service!TypeOK <=> Calc("CalcService", AppSpawns)!TypeOK
  BY Zenon DEF Service!TypeOK, Calc!TypeOK, Service!Holding, Calc!Holding, Service!Pids,
     Calc!Pids, Service!Children, Calc!Children, Service!None, Calc!None,
     Service!Foreign, Calc!Foreign
<1> QED
  BY <1>1, <1>2, <1>3

LEMMA SupervisorIsCalc ==
    /\ Supervisor!Next <=> Calc("CalcSupervisor", EvalSpawns)!Next
    /\ Supervisor!Init <=> Calc("CalcSupervisor", EvalSpawns)!Init
    /\ Supervisor!TypeOK <=> Calc("CalcSupervisor", EvalSpawns)!TypeOK
<1>1. Supervisor!Next <=> Calc("CalcSupervisor", EvalSpawns)!Next
  BY Zenon
  DEF Supervisor!Next, Calc!Next, Supervisor!ProcessStep, Calc!ProcessStep,
     Supervisor!ManagerStep, Calc!ManagerStep, Supervisor!Call, Calc!Call,
     Supervisor!Listen, Calc!Listen, Supervisor!Fail, Calc!Fail, Supervisor!End,
     Calc!End, Supervisor!GetBusy, Calc!GetBusy, Supervisor!GetFree, Calc!GetFree,
     Supervisor!HandleTerm, Calc!HandleTerm, Supervisor!KillGroup, Calc!KillGroup,
     Supervisor!Gone, Calc!Gone, Supervisor!Expire, Calc!Expire, Supervisor!FreePort,
     Calc!FreePort, Supervisor!Respawn, Calc!Respawn, Supervisor!Poll, Calc!Poll,
     Supervisor!Probe, Calc!Probe, Supervisor!Deadline, Calc!Deadline,
     Supervisor!Enter, Calc!Enter, Supervisor!Stop, Calc!Stop,
     Supervisor!EnsureRunning, Calc!EnsureRunning, Supervisor!Restart, Calc!Restart,
     Supervisor!SpawnNow, Calc!SpawnNow, Supervisor!Begin, Calc!Begin,
     Supervisor!Finish, Calc!Finish, Supervisor!AfterStop, Calc!AfterStop,
     Supervisor!Become, Calc!Become, Supervisor!managed, Calc!managed,
     Supervisor!Alive, Calc!Alive, Supervisor!Holding, Calc!Holding,
     Supervisor!Answering, Calc!Answering, Supervisor!PortTaken, Calc!PortTaken,
     Supervisor!Pids, Calc!Pids, Supervisor!Children, Calc!Children, Supervisor!None,
     Calc!None, Supervisor!Foreign, Calc!Foreign
<1>2. Supervisor!Init <=> Calc("CalcSupervisor", EvalSpawns)!Init
  BY Zenon DEF Supervisor!Init, Calc!Init, Supervisor!Pids, Calc!Pids, Supervisor!Children,
     Calc!Children, Supervisor!None, Calc!None, Supervisor!Foreign, Calc!Foreign
<1>3. Supervisor!TypeOK <=> Calc("CalcSupervisor", EvalSpawns)!TypeOK
  BY Zenon DEF Supervisor!TypeOK, Calc!TypeOK, Supervisor!Holding, Calc!Holding,
     Supervisor!Pids, Calc!Pids, Supervisor!Children, Calc!Children, Supervisor!None,
     Calc!None, Supervisor!Foreign, Calc!Foreign
<1> QED
  BY <1>1, <1>2, <1>3

LEMMA SpawnNumbers == AppSpawns \in Nat /\ EvalSpawns \in Nat
BY ManagersAssumption DEF Service!ServiceAssumption, Supervisor!ServiceAssumption

ManagerInv == IF part = "supervisor" THEN CalcInv("CalcSupervisor", EvalSpawns)
                                     ELSE CalcInv("CalcService", AppSpawns)

\* Only the manager that takes part and the processes move what they share.
LEMMA ServicePart ==
    [ServicesNext]_<<part, batch, llm, service, usage>> =>
        /\ part' = part
        /\ \/ part = "service" /\ Service!Next
           \/ part = "supervisor" /\ Supervisor!Next
           \/ UNCHANGED service
<1>1. UNCHANGED <<part, batch, llm, service, usage>> => part' = part /\ UNCHANGED service
  OBVIOUS
<1>2. ServicesNext => /\ part' = part
                      /\ \/ part = "service" /\ Service!Next
                         \/ part = "supervisor" /\ Supervisor!Next
                         \/ UNCHANGED service
  <2>1. /\ UNCHANGED <<part, llm, service, usage>> => part' = part /\ UNCHANGED service
        /\ UNCHANGED <<part, batch, service, usage>> => part' = part /\ UNCHANGED service
        /\ UNCHANGED <<part, batch, llm, usage>> => part' = part
        /\ UNCHANGED <<part, batch, llm, service>> => part' = part /\ UNCHANGED service
    OBVIOUS
  <2> QED
    BY <2>1, Zenon DEF ServicesNext
<1> QED
  BY <1>1, <1>2

LEMMA ManagerRuns == ServicesSpec => []ManagerInv
<1>1. ServicesInit => ManagerInv
  <2>1. Service!Init => CalcInv("CalcService", AppSpawns)
    BY ServiceIsCalc, SpawnNumbers, CalcInit
  <2>2. Supervisor!Init => CalcInv("CalcSupervisor", EvalSpawns)
    BY SupervisorIsCalc, SpawnNumbers, CalcInit
  <2> QED
    BY <2>1, <2>2, Zenon DEF ServicesInit, ManagerInv
<1>2. ManagerInv /\ [ServicesNext]_<<part, batch, llm, service, usage>> => ManagerInv'
  <2> SUFFICES ASSUME ManagerInv, part' = part,
                      \/ part = "service" /\ Service!Next
                      \/ part = "supervisor" /\ Supervisor!Next
                      \/ UNCHANGED service
               PROVE  ManagerInv'
    BY ServicePart
  <2>1. CASE part = "supervisor"
    <3>1. CalcInv("CalcSupervisor", EvalSpawns)
      BY <2>1 DEF ManagerInv
    <3>2. Calc("CalcSupervisor", EvalSpawns)!Next \/ UNCHANGED service
      BY <2>1, SupervisorIsCalc
    <3>3. CalcInv("CalcSupervisor", EvalSpawns)'
      BY <3>1, <3>2, SpawnNumbers, CalcStep
    <3> QED
      BY <2>1, <3>3 DEF ManagerInv
  <2>2. CASE part # "supervisor"
    <3>1. CalcInv("CalcService", AppSpawns)
      BY <2>2 DEF ManagerInv
    <3>2. Calc("CalcService", AppSpawns)!Next \/ UNCHANGED service
      BY <2>2, ServiceIsCalc
    <3>3. CalcInv("CalcService", AppSpawns)'
      BY <3>1, <3>2, SpawnNumbers, CalcStep
    <3> QED
      BY <2>2, <3>3 DEF ManagerInv
  <2> QED
    BY <2>1, <2>2
<1> QED
  BY <1>1, <1>2, PTL DEF ServicesSpec

\* For any number of processes: the supervisor never loses sight of a child and
\* never has two, whatever timed out, raised or was killed before; a stop of the
\* application's manager that has returned leaves its process dead; and the
\* port never has two holders (restart, _stop_owned and stop).
THEOREM ProcessesStayTracked == ServicesSpec => []ProcessesAreTracked
<1>1. ManagerInv => ProcessesAreTracked
  <2> SUFFICES ASSUME ManagerInv PROVE ProcessesAreTracked
    OBVIOUS
  <2>1. CASE part = "supervisor"
    <3>1. CalcInv("CalcSupervisor", EvalSpawns)
      BY <2>1 DEF ManagerInv
    <3>2. Supervisor!TypeOK
      BY <3>1, SpawnNumbers, CalcTypeHolds, SupervisorIsCalc
    <3>3. Supervisor!OneChild
      BY <3>1 DEF CalcInv, Tracked, HoldsTheLast, Running, Supervisor!OneChild,
                  Supervisor!Alive, Supervisor!Children, Supervisor!None
    <3> QED
      BY <2>1, <3>2, <3>3 DEF ProcessesAreTracked
  <2>2. CASE part # "supervisor"
    <3>1. CalcInv("CalcService", AppSpawns)
      BY <2>2 DEF ManagerInv
    <3>2. Service!TypeOK
      BY <3>1, SpawnNumbers, CalcTypeHolds, ServiceIsCalc
    <3>3. Service!StoppedIsGone
      BY <3>1 DEF CalcInv, Stopped, Running, Service!StoppedIsGone, Service!Alive
    <3> QED
      BY <2>2, <3>2, <3>3 DEF ProcessesAreTracked
  <2> QED
    BY <2>1, <2>2
<1> QED
  BY <1>1, ManagerRuns, PTL

-----------------------------------------------------------------------------
(* The lookups of live usage (LiveUsage).  Each cache holds, in the order   *)
(* of their last use, distinct keys with records of a set R: of the records *)
(* the site has, or, where every refusal is read as a miss, of those that   *)
(* claim no spreads the site has not.                                       *)

Ordered(cache, keys, Keys, R) ==
    /\ cache \in Seq(R) /\ keys \in Seq(Keys)
    /\ Len(cache) = Len(keys)
    /\ \A i \in 1 .. Len(keys) : cache[i][1] = keys[i]
    /\ \A i, j \in 1 .. Len(keys) : keys[i] = keys[j] => i = j

Fits(cache, keys, Keys, R) == Ordered(cache, keys, Keys, R) /\ Len(keys) <= CacheMax

LEMMA OneRemoved ==
    ASSUME NEW S, NEW s \in Seq(S), NEW k \in 1 .. Len(s)
    PROVE  /\ BadUsage!RemoveAt(s, k) \in Seq(S)
           /\ Len(BadUsage!RemoveAt(s, k)) = Len(s) - 1
           /\ \A j \in 1 .. Len(s) - 1 :
                 BadUsage!RemoveAt(s, k)[j] = IF j < k THEN s[j] ELSE s[j + 1]
<1> DEFINE a == SubSeq(s, 1, k - 1)
           b == SubSeq(s, k + 1, Len(s))
<1>1. a \in Seq(S) /\ Len(a) = k - 1 /\ \A j \in 1 .. k - 1 : a[j] = s[j]
  OBVIOUS
<1>2. b \in Seq(S) /\ Len(b) = Len(s) - k /\ \A j \in 1 .. Len(s) - k : b[j] = s[k + j]
  OBVIOUS
<1>3. BadUsage!RemoveAt(s, k) = a \o b
  BY DEF BadUsage!RemoveAt
<1> HIDE DEF a, b
<1>4. /\ a \o b \in Seq(S) /\ Len(a \o b) = Len(s) - 1
      /\ \A j \in 1 .. Len(s) - 1 :
            (a \o b)[j] = IF j <= Len(a) THEN a[j] ELSE b[j - Len(a)]
  <2>1. a \in Seq(S) /\ b \in Seq(S)
    BY <1>1, <1>2
  <2>2. /\ a \o b \in Seq(S) /\ Len(a \o b) = Len(a) + Len(b)
        /\ \A j \in 1 .. Len(a) + Len(b) :
              (a \o b)[j] = IF j <= Len(a) THEN a[j] ELSE b[j - Len(a)]
    BY <2>1
  <2>3. Len(a) + Len(b) = Len(s) - 1
    BY <1>1, <1>2
  <2> QED
    BY <2>2, <2>3
<1>5. ASSUME NEW j \in 1 .. Len(s) - 1
      PROVE  (a \o b)[j] = IF j < k THEN s[j] ELSE s[j + 1]
  <2>1. CASE j < k
    BY <1>1, <1>4, <2>1
  <2>2. CASE ~ (j < k)
    <3>1. j - Len(a) \in 1 .. Len(s) - k /\ k + (j - Len(a)) = j + 1 /\ ~ (j <= Len(a))
      BY <1>1, <2>2
    <3>2. b[j - Len(a)] = s[k + (j - Len(a))]
      BY <1>2, <3>1
    <3> QED
      BY <1>4, <2>2, <3>1, <3>2
  <2> QED
    BY <2>1, <2>2
<1> QED
  BY <1>3, <1>4, <1>5

\* What a key's place is in a cache and in the list of keys.
LEMMA PlaceOfKey ==
    ASSUME NEW Keys, NEW R, NEW cache, NEW keys, Ordered(cache, keys, Keys, R),
           NEW key, NEW i \in 1 .. Len(keys), keys[i] = key
    PROVE  /\ BadUsage!Place(cache, key) = i
           /\ (CHOOSE j \in DOMAIN keys : keys[j] = key) = i
           /\ key \in BadUsage!KeysOf(cache) /\ key \in BadUsage!ToSet(keys)
<1>1. DOMAIN cache = 1 .. Len(keys) /\ DOMAIN keys = 1 .. Len(keys)
  BY DEF Ordered
<1>2. \A j \in 1 .. Len(keys) : cache[j][1] = key <=> j = i
  BY DEF Ordered
<1>3. BadUsage!Place(cache, key) = i
  BY <1>1, <1>2 DEF BadUsage!Place
<1>4. (CHOOSE j \in DOMAIN keys : keys[j] = key) = i
  BY <1>1 DEF Ordered
<1>5. key \in BadUsage!KeysOf(cache) /\ key \in BadUsage!ToSet(keys)
  BY <1>1, <1>2 DEF BadUsage!KeysOf, BadUsage!ToSet
<1> QED
  BY <1>3, <1>4, <1>5

LEMMA KeyHasAPlace ==
    ASSUME NEW Keys, NEW R, NEW cache, NEW keys, Ordered(cache, keys, Keys, R), NEW key
    PROVE  /\ key \in BadUsage!KeysOf(cache) <=> \E i \in 1 .. Len(keys) : keys[i] = key
           /\ key \in BadUsage!ToSet(keys) <=> \E i \in 1 .. Len(keys) : keys[i] = key
BY DEF Ordered, BadUsage!KeysOf, BadUsage!ToSet

\* A key is taken out of both.
LEMMA WithoutFits ==
    ASSUME NEW Keys, NEW R, NEW cache, NEW keys, Ordered(cache, keys, Keys, R), NEW key
    PROVE  /\ Ordered(BadUsage!Without(cache, key), BadUsage!KeyWithout(keys, key), Keys, R)
           /\ \A i \in 1 .. Len(BadUsage!KeyWithout(keys, key)) :
                 BadUsage!KeyWithout(keys, key)[i] # key
           /\ Len(BadUsage!KeyWithout(keys, key)) =
                 IF key \in BadUsage!KeysOf(cache) THEN Len(keys) - 1 ELSE Len(keys)
<1>1. CASE \E i \in 1 .. Len(keys) : keys[i] = key
  <2>1. PICK i \in 1 .. Len(keys) : keys[i] = key
    BY <1>1
  <2> DEFINE c == BadUsage!RemoveAt(cache, i)
             k == BadUsage!RemoveAt(keys, i)
  <2>2. /\ BadUsage!Without(cache, key) = c /\ BadUsage!KeyWithout(keys, key) = k
        /\ key \in BadUsage!KeysOf(cache)
    BY <2>1, PlaceOfKey DEF BadUsage!Without, BadUsage!KeyWithout
  <2>3. /\ c \in Seq(R) /\ Len(c) = Len(keys) - 1
        /\ \A j \in 1 .. Len(keys) - 1 : c[j] = IF j < i THEN cache[j] ELSE cache[j + 1]
    <3>1. cache \in Seq(R) /\ i \in 1 .. Len(cache) /\ Len(cache) = Len(keys)
      BY DEF Ordered
    <3> QED
      BY <3>1, OneRemoved
  <2>4. /\ k \in Seq(Keys) /\ Len(k) = Len(keys) - 1
        /\ \A j \in 1 .. Len(keys) - 1 : k[j] = IF j < i THEN keys[j] ELSE keys[j + 1]
    <3>1. keys \in Seq(Keys)
      BY DEF Ordered
    <3> QED
      BY <3>1, OneRemoved
  <2> HIDE DEF c, k
  <2>5. Len(keys) \in Nat /\ \A a, b \in 1 .. Len(keys) : keys[a] = keys[b] => a = b
    BY DEF Ordered
  <2>6. \A j \in 1 .. Len(k) : c[j][1] = k[j] /\ k[j] # key
    <3> SUFFICES ASSUME NEW j \in 1 .. Len(k) PROVE c[j][1] = k[j] /\ k[j] # key
      OBVIOUS
    <3>1. j \in 1 .. Len(keys) /\ j + 1 \in 1 .. Len(keys) /\ j \in 1 .. Len(keys) - 1
      BY <2>4, <2>5
    <3>2. cache[j][1] = keys[j] /\ cache[j + 1][1] = keys[j + 1]
      BY <3>1 DEF Ordered
    <3>3. (j < i => keys[j] # key) /\ (~(j < i) => keys[j + 1] # key)
      BY <2>1, <2>5, <3>1
    <3> QED
      BY <2>3, <2>4, <3>1, <3>2, <3>3
  <2>7. \A a, b \in 1 .. Len(k) : k[a] = k[b] => a = b
    BY <2>4, <2>5
  <2> QED
    BY <2>2, <2>3, <2>4, <2>6, <2>7 DEF Ordered
<1>2. CASE ~ \E i \in 1 .. Len(keys) : keys[i] = key
  <2>1. /\ BadUsage!Without(cache, key) = cache /\ BadUsage!KeyWithout(keys, key) = keys
        /\ key \notin BadUsage!KeysOf(cache)
    BY <1>2, KeyHasAPlace DEF BadUsage!Without, BadUsage!KeyWithout
  <2> QED
    BY <1>2, <2>1
<1> QED
  BY <1>1, <1>2

\* A key is put at the end of both, and the oldest dropped from both.
LEMMA AppendFits ==
    ASSUME NEW Keys, NEW R, NEW c, NEW k, Ordered(c, k, Keys, R),
           NEW key \in Keys, NEW record, <<key, record>> \in R,
           \A i \in 1 .. Len(k) : k[i] # key
    PROVE  /\ Ordered(Append(c, <<key, record>>), Append(k, key), Keys, R)
           /\ Ordered(Tail(Append(c, <<key, record>>)), Tail(Append(k, key)), Keys, R)
           /\ Len(Append(c, <<key, record>>)) = Len(k) + 1 /\ Len(Append(k, key)) = Len(k) + 1
           /\ Len(Tail(Append(k, key))) = Len(k)
<1> DEFINE d == Append(c, <<key, record>>)
           l == Append(k, key)
<1>0. /\ c \in Seq(R) /\ k \in Seq(Keys) /\ Len(c) = Len(k) /\ Len(k) \in Nat
      /\ \A i \in 1 .. Len(k) : c[i][1] = k[i]
      /\ \A i, j \in 1 .. Len(k) : k[i] = k[j] => i = j
  BY DEF Ordered
<1>1. /\ d \in Seq(R) /\ Len(d) = Len(k) + 1
      /\ d[Len(k) + 1] = <<key, record>> /\ \A i \in 1 .. Len(k) : d[i] = c[i]
  BY <1>0
<1>2. /\ l \in Seq(Keys) /\ Len(l) = Len(k) + 1
      /\ l[Len(k) + 1] = key /\ \A i \in 1 .. Len(k) : l[i] = k[i]
  BY <1>0
<1> HIDE DEF d, l
<1>3. \A i \in 1 .. Len(l) : d[i][1] = l[i]
  BY <1>0, <1>1, <1>2
<1>4. \A i, j \in 1 .. Len(l) : l[i] = l[j] => i = j
  BY <1>0, <1>2
<1>5. Ordered(d, l, Keys, R)
  BY <1>1, <1>2, <1>3, <1>4 DEF Ordered
<1>6. /\ Tail(d) \in Seq(R) /\ Len(Tail(d)) = Len(k)
      /\ \A i \in 1 .. Len(k) : Tail(d)[i] = d[i + 1]
  BY <1>0, <1>1
<1>7. /\ Tail(l) \in Seq(Keys) /\ Len(Tail(l)) = Len(k)
      /\ \A i \in 1 .. Len(k) : Tail(l)[i] = l[i + 1]
  BY <1>0, <1>2
<1>8. \A i \in 1 .. Len(k) : i + 1 \in 1 .. Len(l)
  BY <1>0, <1>2
<1>9. \A i \in 1 .. Len(k) : Tail(d)[i][1] = Tail(l)[i]
  BY <1>3, <1>6, <1>7, <1>8
<1>10. \A i, j \in 1 .. Len(k) : Tail(l)[i] = Tail(l)[j] => i = j
  <2> SUFFICES ASSUME NEW i \in 1 .. Len(k), NEW j \in 1 .. Len(k), Tail(l)[i] = Tail(l)[j]
               PROVE  i = j
    OBVIOUS
  <2>1. l[i + 1] = l[j + 1]
    BY <1>7
  <2>2. i + 1 = j + 1
    BY <1>4, <1>8, <2>1
  <2> QED
    BY <2>2
<1>11. Ordered(Tail(d), Tail(l), Keys, R)
  BY <1>6, <1>7, <1>9, <1>10 DEF Ordered
<1> QED
  BY <1>1, <1>2, <1>5, <1>7, <1>11 DEF d, l

LEMMA CacheNumbers == CacheMax \in Nat \ {0} /\ MaxAttempts \in Nat \ {0}
BY UsageAssumption DEF BadUsage!LiveAssumption

\* _cache_put
LEMMA PutFits ==
    ASSUME NEW Keys, NEW R, NEW cache, NEW keys, Fits(cache, keys, Keys, R),
           NEW key \in Keys, NEW record, <<key, record>> \in R
    PROVE  Fits(BadUsage!Put(cache, key, record), BadUsage!Used(keys, key), Keys, R)
<1> DEFINE c == BadUsage!Without(cache, key)
           k == BadUsage!KeyWithout(keys, key)
<1>1. /\ Ordered(c, k, Keys, R) /\ \A i \in 1 .. Len(k) : k[i] # key
      /\ Len(k) \in {Len(keys), Len(keys) - 1}
  BY WithoutFits DEF Fits
<1>2. /\ BadUsage!Put(cache, key, record) =
            IF Len(Append(c, <<key, record>>)) > CacheMax
            THEN Tail(Append(c, <<key, record>>)) ELSE Append(c, <<key, record>>)
      /\ BadUsage!Used(keys, key) =
            IF Len(Append(k, key)) > CacheMax THEN Tail(Append(k, key)) ELSE Append(k, key)
  BY DEF BadUsage!Put, BadUsage!Used
<1> HIDE DEF c, k
<1>3. /\ Ordered(Append(c, <<key, record>>), Append(k, key), Keys, R)
      /\ Ordered(Tail(Append(c, <<key, record>>)), Tail(Append(k, key)), Keys, R)
      /\ Len(Append(c, <<key, record>>)) = Len(k) + 1 /\ Len(Append(k, key)) = Len(k) + 1
      /\ Len(Tail(Append(k, key))) = Len(k)
  BY <1>1, AppendFits
<1>4. Len(keys) \in Nat /\ Len(keys) <= CacheMax
  BY DEF Fits, Ordered
<1>5. Len(k) <= CacheMax /\ Len(k) \in Int
  BY <1>1, <1>4, CacheNumbers
<1>6. CASE Len(k) + 1 > CacheMax
  <2>1. /\ BadUsage!Put(cache, key, record) = Tail(Append(c, <<key, record>>))
        /\ BadUsage!Used(keys, key) = Tail(Append(k, key))
    BY <1>2, <1>3, <1>6
  <2> QED
    BY <1>3, <1>5, <2>1 DEF Fits
<1>7. CASE ~ (Len(k) + 1 > CacheMax)
  <2>1. /\ BadUsage!Put(cache, key, record) = Append(c, <<key, record>>)
        /\ BadUsage!Used(keys, key) = Append(k, key)
    BY <1>2, <1>3, <1>7
  <2>2. Len(k) + 1 <= CacheMax
    BY <1>5, <1>7, CacheNumbers
  <2> QED
    BY <1>3, <2>1, <2>2 DEF Fits
<1> QED
  BY <1>6, <1>7

\* _cache_get
LEMMA HitFits ==
    ASSUME NEW Keys, NEW R, NEW cache, NEW keys, Fits(cache, keys, Keys, R),
           R \subseteq Keys \X BadUsage!Record, NEW key, key \in BadUsage!KeysOf(cache)
    PROVE  /\ Fits(BadUsage!Hit(cache, key), BadUsage!Used(keys, key), Keys, R)
           /\ <<key, BadUsage!Cached(cache, key)>> \in R
<1>1. PICK i \in 1 .. Len(keys) : keys[i] = key
  BY KeyHasAPlace DEF Fits
<1>2. BadUsage!Cached(cache, key) = cache[i][2]
  BY <1>1, PlaceOfKey DEF Fits, BadUsage!Cached
<1>3. cache[i] \in R /\ cache[i][1] = key
  BY <1>1 DEF Fits, Ordered
<1>4. cache[i] = <<key, cache[i][2]>> /\ key \in Keys
  BY <1>3
<1>5. <<key, BadUsage!Cached(cache, key)>> \in R
  BY <1>2, <1>3, <1>4
<1> DEFINE record == BadUsage!Cached(cache, key)
<1>6. Fits(BadUsage!Put(cache, key, record), BadUsage!Used(keys, key), Keys, R)
  BY <1>4, <1>5, PutFits
<1>7. BadUsage!Put(cache, key, record) = BadUsage!Hit(cache, key)
  <2> DEFINE c == BadUsage!Without(cache, key)
             k == BadUsage!KeyWithout(keys, key)
  <2>1. /\ Ordered(c, k, Keys, R) /\ \A j \in 1 .. Len(k) : k[j] # key
        /\ Len(k) = Len(keys) - 1
    BY WithoutFits DEF Fits
  <2>2. /\ BadUsage!Put(cache, key, record) =
              IF Len(Append(c, <<key, record>>)) > CacheMax
              THEN Tail(Append(c, <<key, record>>)) ELSE Append(c, <<key, record>>)
        /\ BadUsage!Hit(cache, key) = Append(c, <<key, record>>)
    BY DEF BadUsage!Put, BadUsage!Hit
  <2> HIDE DEF c, k
  <2>3. Len(Append(c, <<key, record>>)) = Len(k) + 1
    BY <1>4, <1>5, <2>1, AppendFits
  <2>4. Len(keys) \in Nat /\ Len(keys) <= CacheMax
    BY DEF Fits, Ordered
  <2>5. ~ (Len(Append(c, <<key, record>>)) > CacheMax)
    BY <2>1, <2>3, <2>4, CacheNumbers
  <2> QED
    BY <2>2, <2>5
<1> QED
  BY <1>5, <1>6, <1>7

\* The records that claim no spreads the site has not, and the true ones.
ShowdownKeys == Species \X Regulations
ShowdownSafe == {x \in ShowdownKeys \X BadUsage!Record : x[2] = "spreads" => x[1] \in HasSpreads}
ShowdownTrue == {x \in ShowdownKeys \X BadUsage!Record : x[2] = BadUsage!ShowdownTruth(x[1])}
CbdSafe == {x \in Species \X BadUsage!Record : x[2] = "spreads" => x[1] \in HasBattles}
CbdTrue == {x \in Species \X BadUsage!Record : x[2] = BadUsage!CbdTruth(x[1])}

\* What the lookup under way may ask, and what the last one may have said.
Asked ==
    /\ lookup \in [species : Species, regulation : Regulations, for_spreads : BOOLEAN]
    /\ stage \in {"idle", "index", "detail", "cbd"}
    /\ attempt \in 0 .. MaxAttempts - 1
    /\ answer \in BadUsage!Record \cup {"raised"}
    /\ stage # "idle" => attempt \in 0 .. MaxAttempts - 1
    /\ stage \in {"index", "detail"} => lookup.regulation \in Live
    /\ stage = "cbd" => lookup.for_spreads /\ lookup.regulation \in Live
    /\ BadUsage!NoForeignSpreads

SitesInv(RS, RC) ==
    /\ Fits(showdown, recent_showdown, ShowdownKeys, RS)
    /\ Fits(cbd, recent_cbd, Species, RC)
    /\ Asked

\* Sets of records in which what the sites answer has its place.
Honest(RS, RC) ==
    /\ RS \subseteq ShowdownSafe /\ RC \subseteq CbdSafe
    /\ \A key \in ShowdownKeys : <<key, BadUsage!ShowdownTruth(key)>> \in RS
    /\ \A s \in Species : <<s, BadUsage!CbdTruth(s)>> \in RC

LEMMA SiteFacts ==
    /\ Live \subseteq Regulations /\ Indexed \subseteq Species \X Live
    /\ HasSpreads \subseteq Indexed /\ HasBattles \subseteq Species
BY UsageAssumption DEF BadUsage!LiveAssumption

LEMMA SafeIsHonest == Honest(ShowdownSafe, CbdSafe) /\ Honest(ShowdownTrue, CbdTrue)
<1>1. \A key : BadUsage!ShowdownTruth(key) \in BadUsage!Record
               /\ (BadUsage!ShowdownTruth(key) = "spreads" => key \in HasSpreads)
  BY DEF BadUsage!ShowdownTruth, BadUsage!Record
<1>2. \A s : BadUsage!CbdTruth(s) \in BadUsage!Record
             /\ (BadUsage!CbdTruth(s) = "spreads" => s \in HasBattles)
  BY DEF BadUsage!CbdTruth, BadUsage!Record
<1>3. ShowdownTrue \subseteq ShowdownSafe /\ CbdTrue \subseteq CbdSafe
  BY <1>1, <1>2 DEF ShowdownTrue, ShowdownSafe, CbdTrue, CbdSafe
<1>4. ASSUME NEW key \in ShowdownKeys
      PROVE  <<key, BadUsage!ShowdownTruth(key)>> \in ShowdownSafe \cap ShowdownTrue
  BY <1>1 DEF ShowdownTrue, ShowdownSafe
<1>5. ASSUME NEW s \in Species
      PROVE  <<s, BadUsage!CbdTruth(s)>> \in CbdSafe \cap CbdTrue
  BY <1>2 DEF CbdTrue, CbdSafe
<1> QED
  BY <1>3, <1>4, <1>5 DEF Honest

\* A key the index has not is a miss in truth.
LEMMA MissIsTrue ==
    ASSUME NEW RS, NEW RC, Honest(RS, RC), NEW key \in ShowdownKeys, key \notin Indexed
    PROVE  <<key, "None">> \in RS
<1>1. key \notin HasSpreads
  BY SiteFacts
<1>2. BadUsage!ShowdownTruth(key) = "None"
  BY <1>1 DEF BadUsage!ShowdownTruth
<1> QED
  BY <1>2 DEF Honest

\* What becomes of a record of the first site, or of none: the call ends with
\* it, or the second site is asked.
LEMMA EvidenceSound ==
    ASSUME NEW RS, NEW RC, Honest(RS, RC), Fits(cbd, recent_cbd, Species, RC),
           NEW record \in BadUsage!Record, NEW s \in Species, NEW for_spreads \in BOOLEAN,
           BadUsage!Evidence(record, s, for_spreads),
           answer \in BadUsage!Record \cup {"raised"}
    PROVE  /\ Fits(cbd', recent_cbd', Species, RC)
           /\ attempt' = 0
           /\ answer' \in BadUsage!Record \cup {"raised"}
           /\ stage' = "idle" \/ (stage' = "cbd" /\ for_spreads)
           /\ stage' = "idle" /\ answer' = "spreads" =>
                 record = "spreads" \/ (for_spreads /\ s \in HasBattles)
<1>1. CASE ~(for_spreads /\ record # "spreads")
  <2>1. /\ answer' = record /\ stage' = "idle" /\ attempt' = 0
        /\ UNCHANGED <<cbd, recent_cbd>>
    BY <1>1 DEF BadUsage!Evidence, BadUsage!Return
  <2>2. Fits(cbd', recent_cbd', Species, RC)
    BY <2>1
  <2> QED
    BY <2>1, <2>2
<1>2. CASE /\ for_spreads /\ record # "spreads" /\ s \in BadUsage!KeysOf(cbd)
  <2>1. /\ cbd' = BadUsage!Hit(cbd, s) /\ recent_cbd' = BadUsage!Used(recent_cbd, s)
        /\ answer' = BadUsage!Cached(cbd, s) /\ stage' = "idle" /\ attempt' = 0
    BY <1>2 DEF BadUsage!Evidence, BadUsage!SecondSite, BadUsage!Return
  <2>2. RC \subseteq Species \X BadUsage!Record /\ RC \subseteq CbdSafe
    BY DEF Honest, CbdSafe
  <2>3. /\ Fits(BadUsage!Hit(cbd, s), BadUsage!Used(recent_cbd, s), Species, RC)
        /\ <<s, BadUsage!Cached(cbd, s)>> \in RC
    BY <1>2, <2>2, HitFits
  <2>4. /\ BadUsage!Cached(cbd, s) \in BadUsage!Record
        /\ BadUsage!Cached(cbd, s) = "spreads" => s \in HasBattles
    BY <2>2, <2>3 DEF CbdSafe
  <2>5. Fits(cbd', recent_cbd', Species, RC)
    BY <2>1, <2>3
  <2> QED
    BY <1>2, <2>1, <2>4, <2>5
<1>3. CASE for_spreads /\ record # "spreads" /\ s \notin BadUsage!KeysOf(cbd)
  <2>1. /\ stage' = "cbd" /\ attempt' = 0 /\ answer' = answer /\ UNCHANGED <<cbd, recent_cbd>>
    BY <1>3 DEF BadUsage!Evidence, BadUsage!SecondSite, BadUsage!Request
  <2>2. Fits(cbd', recent_cbd', Species, RC)
    BY <2>1
  <2> QED
    BY <1>3, <2>1, <2>2
<1> QED
  BY <1>1, <1>2, <1>3

\* The call goes on with a record it has; Asked holds of what follows.
LEMMA EvidenceAsked ==
    ASSUME NEW RS, NEW RC, Honest(RS, RC), Fits(cbd, recent_cbd, Species, RC),
           answer \in BadUsage!Record \cup {"raised"},
           lookup' \in [species : Species, regulation : Regulations, for_spreads : BOOLEAN],
           lookup'.for_spreads => lookup'.regulation \in Live,
           NEW record \in BadUsage!Record,
           record = "spreads" => <<lookup'.species, lookup'.regulation>> \in HasSpreads,
           BadUsage!Evidence(record, lookup'.species, lookup'.for_spreads)
    PROVE  Fits(cbd', recent_cbd', Species, RC) /\ Asked'
<1>1. lookup'.species \in Species /\ lookup'.for_spreads \in BOOLEAN
  OBVIOUS
<1>2. /\ Fits(cbd', recent_cbd', Species, RC)
      /\ attempt' = 0
      /\ answer' \in BadUsage!Record \cup {"raised"}
      /\ stage' = "idle" \/ (stage' = "cbd" /\ lookup'.for_spreads)
      /\ stage' = "idle" /\ answer' = "spreads" =>
            record = "spreads" \/ (lookup'.for_spreads /\ lookup'.species \in HasBattles)
  BY <1>1, EvidenceSound
<1>3. 0 \in 0 .. MaxAttempts - 1
  BY CacheNumbers
<1>4. BadUsage!NoForeignSpreads'
  BY <1>2 DEF BadUsage!NoForeignSpreads, BadUsage!Key
<1> QED
  BY <1>2, <1>3, <1>4 DEF Asked

\* The call ends at once with a record.
LEMMA ReturnAsked ==
    ASSUME lookup' \in [species : Species, regulation : Regulations, for_spreads : BOOLEAN],
           NEW record \in BadUsage!Record \cup {"raised"}, BadUsage!Return(record),
           record = "spreads" =>
              \/ <<lookup'.species, lookup'.regulation>> \in HasSpreads
              \/ /\ lookup'.for_spreads /\ lookup'.regulation \in Live
                 /\ lookup'.species \in HasBattles
    PROVE  Asked'
<1>1. answer' = record /\ stage' = "idle" /\ attempt' = 0
  BY DEF BadUsage!Return
<1>2. 0 \in 0 .. MaxAttempts - 1
  BY CacheNumbers
<1>3. BadUsage!NoForeignSpreads'
  BY <1>1 DEF BadUsage!NoForeignSpreads, BadUsage!Key
<1> QED
  BY <1>1, <1>2, <1>3 DEF Asked

LEMMA StoreFits ==
    ASSUME NEW RS, Fits(showdown, recent_showdown, ShowdownKeys, RS),
           NEW key \in ShowdownKeys, NEW record, <<key, record>> \in RS,
           BadUsage!StoreShowdown(key, record)
    PROVE  Fits(showdown', recent_showdown', ShowdownKeys, RS)
<1>1. /\ showdown' = BadUsage!Put(showdown, key, record)
      /\ recent_showdown' = BadUsage!Used(recent_showdown, key)
  BY DEF BadUsage!StoreShowdown
<1>2. Fits(BadUsage!Put(showdown, key, record), BadUsage!Used(recent_showdown, key),
           ShowdownKeys, RS)
  BY PutFits
<1> QED
  BY <1>1, <1>2

\* What every step starts from.
LEMMA SitesFacts ==
    ASSUME NEW RS, NEW RC, SitesInv(RS, RC)
    PROVE  /\ Fits(showdown, recent_showdown, ShowdownKeys, RS)
           /\ Fits(cbd, recent_cbd, Species, RC)
           /\ answer \in BadUsage!Record \cup {"raised"} /\ "None" \in BadUsage!Record
           /\ lookup \in [species : Species, regulation : Regulations, for_spreads : BOOLEAN]
           /\ lookup.species \in Species
           /\ <<lookup.species, lookup.regulation>> \in ShowdownKeys
           /\ stage \in {"index", "detail"} => lookup.regulation \in Live
<1>1. /\ Fits(showdown, recent_showdown, ShowdownKeys, RS)
      /\ Fits(cbd, recent_cbd, Species, RC) /\ Asked
  BY DEF SitesInv
<1>2. "None" \in BadUsage!Record
  BY DEF BadUsage!Record
<1>3. /\ answer \in BadUsage!Record \cup {"raised"}
      /\ lookup \in [species : Species, regulation : Regulations, for_spreads : BOOLEAN]
      /\ stage \in {"index", "detail"} => lookup.regulation \in Live
  BY <1>1 DEF Asked
<1>4. lookup.species \in Species /\ <<lookup.species, lookup.regulation>> \in ShowdownKeys
  BY <1>3 DEF ShowdownKeys
<1> QED
  BY <1>1, <1>2, <1>3, <1>4

LEMMA LookupSound ==
    ASSUME NEW RS, NEW RC, Honest(RS, RC), SitesInv(RS, RC), BadUsage!Lookup
    PROVE  SitesInv(RS, RC)'
<1>0. /\ Fits(showdown, recent_showdown, ShowdownKeys, RS)
      /\ Fits(cbd, recent_cbd, Species, RC)
      /\ answer \in BadUsage!Record \cup {"raised"}
      /\ "None" \in BadUsage!Record
  BY SitesFacts
<1>1. PICK s \in Species, r \in Regulations, for_spreads \in BOOLEAN :
        /\ lookup' = [species |-> s, regulation |-> r, for_spreads |-> for_spreads]
        /\ \/ /\ for_spreads /\ r \notin Live
              /\ BadUsage!Return("None")
              /\ UNCHANGED BadUsage!caches
           \/ /\ ~(for_spreads /\ r \notin Live)
              /\ <<s, r>> \in BadUsage!KeysOf(showdown)
              /\ showdown' = BadUsage!Hit(showdown, <<s, r>>)
              /\ recent_showdown' = BadUsage!Used(recent_showdown, <<s, r>>)
              /\ BadUsage!Evidence(BadUsage!Cached(showdown, <<s, r>>), s, for_spreads)
           \/ /\ ~for_spreads /\ r \notin Live
              /\ <<s, r>> \notin BadUsage!KeysOf(showdown)
              /\ BadUsage!StoreShowdown(<<s, r>>, "None")
              /\ BadUsage!Return("None")
              /\ UNCHANGED <<cbd, recent_cbd>>
           \/ /\ r \in Live
              /\ <<s, r>> \notin BadUsage!KeysOf(showdown)
              /\ BadUsage!Request("index")
              /\ UNCHANGED BadUsage!caches
  BY DEF BadUsage!Lookup
<1>2. /\ lookup' \in [species : Species, regulation : Regulations, for_spreads : BOOLEAN]
      /\ lookup'.species = s /\ lookup'.regulation = r /\ lookup'.for_spreads = for_spreads
      /\ <<s, r>> \in ShowdownKeys
  BY <1>1 DEF ShowdownKeys
<1>3. CASE /\ BadUsage!Return("None") /\ UNCHANGED BadUsage!caches
  <2>1. /\ Fits(showdown', recent_showdown', ShowdownKeys, RS)
        /\ Fits(cbd', recent_cbd', Species, RC)
    BY <1>0, <1>3 DEF BadUsage!caches
  <2>2. Asked'
    BY <1>0, <1>2, <1>3, ReturnAsked
  <2> QED
    BY <2>1, <2>2 DEF SitesInv
<1>4. CASE /\ ~(for_spreads /\ r \notin Live)
           /\ <<s, r>> \in BadUsage!KeysOf(showdown)
           /\ showdown' = BadUsage!Hit(showdown, <<s, r>>)
           /\ recent_showdown' = BadUsage!Used(recent_showdown, <<s, r>>)
           /\ BadUsage!Evidence(BadUsage!Cached(showdown, <<s, r>>), s, for_spreads)
  <2> DEFINE record == BadUsage!Cached(showdown, <<s, r>>)
  <2>1. RS \subseteq ShowdownKeys \X BadUsage!Record /\ RS \subseteq ShowdownSafe
    BY DEF Honest, ShowdownSafe
  <2>2. /\ Fits(showdown', recent_showdown', ShowdownKeys, RS)
        /\ <<<<s, r>>, record>> \in RS
    <3>1. /\ Fits(BadUsage!Hit(showdown, <<s, r>>), BadUsage!Used(recent_showdown, <<s, r>>),
                  ShowdownKeys, RS)
          /\ <<<<s, r>>, record>> \in RS
      BY <1>0, <1>4, <2>1, HitFits
    <3> QED
      BY <1>4, <3>1
  <2>3. record \in BadUsage!Record /\ (record = "spreads" => <<s, r>> \in HasSpreads)
    BY <2>1, <2>2 DEF ShowdownSafe
  <2> HIDE DEF record
  <2>4. BadUsage!Evidence(record, lookup'.species, lookup'.for_spreads)
    BY <1>2, <1>4 DEF record
  <2>5. Fits(cbd', recent_cbd', Species, RC) /\ Asked'
    <3>1. /\ lookup'.for_spreads => lookup'.regulation \in Live
          /\ record = "spreads" => <<lookup'.species, lookup'.regulation>> \in HasSpreads
      BY <1>2, <1>4, <2>3
    <3> QED
      BY <1>0, <1>2, <2>3, <2>4, <3>1, EvidenceAsked
  <2> QED
    BY <2>2, <2>5 DEF SitesInv
<1>5. CASE /\ r \notin Live
           /\ BadUsage!StoreShowdown(<<s, r>>, "None") /\ BadUsage!Return("None")
           /\ UNCHANGED <<cbd, recent_cbd>>
  <2>1. <<<<s, r>>, "None">> \in RS
    BY <1>2, <1>5, SiteFacts, MissIsTrue
  <2>2. Fits(showdown', recent_showdown', ShowdownKeys, RS)
    BY <1>0, <1>2, <1>5, <2>1, StoreFits
  <2>3. Fits(cbd', recent_cbd', Species, RC)
    BY <1>0, <1>5
  <2>4. Asked'
    BY <1>0, <1>2, <1>5, ReturnAsked
  <2> QED
    BY <2>2, <2>3, <2>4 DEF SitesInv
<1>6. CASE r \in Live /\ BadUsage!Request("index") /\ UNCHANGED BadUsage!caches
  <2>1. /\ Fits(showdown', recent_showdown', ShowdownKeys, RS)
        /\ Fits(cbd', recent_cbd', Species, RC)
    BY <1>0, <1>6 DEF BadUsage!caches
  <2>2. 0 \in 0 .. MaxAttempts - 1
    BY CacheNumbers
  <2>3. Asked'
    BY <1>0, <1>2, <1>6, <2>2 DEF Asked, BadUsage!Request, BadUsage!NoForeignSpreads
  <2> QED
    BY <2>1, <2>3 DEF SitesInv
<1> QED
  BY <1>1, <1>3, <1>4, <1>5, <1>6

LEMMA IndexSound ==
    ASSUME NEW RS, NEW RC, Honest(RS, RC), SitesInv(RS, RC), BadUsage!IndexAnswers
    PROVE  SitesInv(RS, RC)'
<1> DEFINE key == <<lookup.species, lookup.regulation>>
<1>0. /\ Fits(showdown, recent_showdown, ShowdownKeys, RS)
      /\ Fits(cbd, recent_cbd, Species, RC)
      /\ answer \in BadUsage!Record \cup {"raised"} /\ "None" \in BadUsage!Record
      /\ stage = "index" /\ lookup.regulation \in Live /\ lookup' = lookup
      /\ lookup \in [species : Species, regulation : Regulations, for_spreads : BOOLEAN]
      /\ key \in ShowdownKeys
  BY SitesFacts DEF BadUsage!IndexAnswers
<1>1. CASE key \in Indexed
  <2>1. /\ BadUsage!Request("detail") /\ UNCHANGED BadUsage!caches
    BY <1>1 DEF BadUsage!IndexAnswers, BadUsage!Key
  <2>2. /\ Fits(showdown', recent_showdown', ShowdownKeys, RS)
        /\ Fits(cbd', recent_cbd', Species, RC)
    BY <1>0, <2>1 DEF BadUsage!caches
  <2>3. 0 \in 0 .. MaxAttempts - 1
    BY CacheNumbers
  <2>4. Asked'
    BY <1>0, <2>1, <2>3 DEF Asked, BadUsage!Request, BadUsage!NoForeignSpreads
  <2> QED
    BY <2>2, <2>4 DEF SitesInv
<1>2. CASE key \notin Indexed
  <2>1. /\ BadUsage!StoreShowdown(key, "None")
        /\ BadUsage!Evidence("None", lookup.species, lookup.for_spreads)
    BY <1>2 DEF BadUsage!IndexAnswers, BadUsage!Key
  <2> HIDE DEF key
  <2>2. <<key, "None">> \in RS
    BY <1>0, <1>2, MissIsTrue
  <2>3. Fits(showdown', recent_showdown', ShowdownKeys, RS)
    BY <1>0, <2>1, <2>2, StoreFits
  <2>4. Fits(cbd', recent_cbd', Species, RC) /\ Asked'
    <3>1. BadUsage!Evidence("None", lookup'.species, lookup'.for_spreads)
      BY <1>0, <2>1
    <3> QED
      BY <1>0, <3>1, EvidenceAsked
  <2> QED
    BY <2>3, <2>4 DEF SitesInv
<1> QED
  BY <1>1, <1>2

LEMMA DetailSound ==
    ASSUME NEW RS, NEW RC, Honest(RS, RC), SitesInv(RS, RC), BadUsage!DetailAnswers
    PROVE  SitesInv(RS, RC)'
<1> DEFINE key == <<lookup.species, lookup.regulation>>
           record == BadUsage!ShowdownTruth(key)
<1>0. /\ Fits(showdown, recent_showdown, ShowdownKeys, RS)
      /\ Fits(cbd, recent_cbd, Species, RC)
      /\ answer \in BadUsage!Record \cup {"raised"}
      /\ lookup.regulation \in Live /\ lookup' = lookup
      /\ lookup \in [species : Species, regulation : Regulations, for_spreads : BOOLEAN]
      /\ key \in ShowdownKeys
  BY SitesFacts DEF BadUsage!DetailAnswers
<1>1. /\ BadUsage!StoreShowdown(key, record)
      /\ BadUsage!Evidence(record, lookup.species, lookup.for_spreads)
  BY DEF BadUsage!DetailAnswers, BadUsage!Key
<1>2. record \in BadUsage!Record /\ (record = "spreads" => key \in HasSpreads)
  BY DEF BadUsage!ShowdownTruth, BadUsage!Record
<1>3. <<key, record>> \in RS
  BY <1>0 DEF Honest
<1> HIDE DEF record
<1>4. Fits(showdown', recent_showdown', ShowdownKeys, RS)
  BY <1>0, <1>1, <1>3, StoreFits
<1>5. Fits(cbd', recent_cbd', Species, RC) /\ Asked'
  <2>1. /\ BadUsage!Evidence(record, lookup'.species, lookup'.for_spreads)
        /\ record = "spreads" => <<lookup'.species, lookup'.regulation>> \in HasSpreads
    BY <1>0, <1>1, <1>2
  <2> QED
    BY <1>0, <1>2, <2>1, EvidenceAsked
<1> QED
  BY <1>4, <1>5 DEF SitesInv

\* The second site has answered with a record, or with what is read as one.
LEMMA CbdSound ==
    ASSUME NEW RS, NEW RC, Honest(RS, RC), SitesInv(RS, RC), stage = "cbd",
           NEW record \in BadUsage!Record, <<lookup.species, record>> \in RC,
           cbd' = BadUsage!Put(cbd, lookup.species, record),
           recent_cbd' = BadUsage!Used(recent_cbd, lookup.species),
           BadUsage!Return(record), UNCHANGED <<showdown, recent_showdown, lookup>>
    PROVE  SitesInv(RS, RC)'
<1>0. /\ Fits(showdown, recent_showdown, ShowdownKeys, RS)
      /\ Fits(cbd, recent_cbd, Species, RC)
      /\ lookup.for_spreads /\ lookup.regulation \in Live
      /\ lookup \in [species : Species, regulation : Regulations, for_spreads : BOOLEAN]
      /\ lookup.species \in Species
  BY DEF SitesInv, Asked
<1>1. Fits(BadUsage!Put(cbd, lookup.species, record), BadUsage!Used(recent_cbd, lookup.species),
           Species, RC)
  BY <1>0, PutFits
<1>2. /\ Fits(showdown', recent_showdown', ShowdownKeys, RS)
      /\ Fits(cbd', recent_cbd', Species, RC)
  BY <1>0, <1>1
<1>3. record = "spreads" => lookup.species \in HasBattles
  BY DEF Honest, CbdSafe
<1>4. Asked'
  <2>1. /\ lookup' \in [species : Species, regulation : Regulations, for_spreads : BOOLEAN]
        /\ record \in BadUsage!Record \cup {"raised"}
        /\ record = "spreads" => /\ lookup'.for_spreads /\ lookup'.regulation \in Live
                                 /\ lookup'.species \in HasBattles
    BY <1>0, <1>3
  <2> QED
    BY <2>1, ReturnAsked
<1> QED
  BY <1>2, <1>4 DEF SitesInv

LEMMA GiveUpSound ==
    ASSUME NEW RS, NEW RC, Honest(RS, RC), SitesInv(RS, RC), BadUsage!GiveUp
    PROVE  SitesInv(RS, RC)'
<1>0. /\ Fits(showdown, recent_showdown, ShowdownKeys, RS)
      /\ Fits(cbd, recent_cbd, Species, RC)
      /\ answer \in BadUsage!Record \cup {"raised"} /\ "None" \in BadUsage!Record
      /\ lookup' = lookup
      /\ lookup \in [species : Species, regulation : Regulations, for_spreads : BOOLEAN]
  BY SitesFacts DEF BadUsage!GiveUp
<1>1. CASE /\ stage \in {"index", "detail"}
           /\ BadUsage!Evidence("None", lookup.species, lookup.for_spreads)
           /\ UNCHANGED <<showdown, recent_showdown, lookup>>
  <2>1. Fits(showdown', recent_showdown', ShowdownKeys, RS)
    BY <1>0, <1>1
  <2>2. lookup.regulation \in Live
    BY <1>1 DEF SitesInv, Asked
  <2>3. BadUsage!Evidence("None", lookup'.species, lookup'.for_spreads)
    BY <1>0, <1>1
  <2>4. Fits(cbd', recent_cbd', Species, RC) /\ Asked'
    BY <1>0, <2>2, <2>3, EvidenceAsked
  <2> QED
    BY <2>1, <2>4 DEF SitesInv
<1>2. CASE BadUsage!Return("None") /\ UNCHANGED <<BadUsage!caches, lookup>>
  <2>1. /\ Fits(showdown', recent_showdown', ShowdownKeys, RS)
        /\ Fits(cbd', recent_cbd', Species, RC)
    BY <1>0, <1>2 DEF BadUsage!caches
  <2>2. Asked'
    BY <1>0, <1>2, ReturnAsked
  <2> QED
    BY <2>1, <2>2 DEF SitesInv
<1> QED
  BY <1>1, <1>2 DEF BadUsage!GiveUp

\* A request that fails, is tried again or tears; and the caches cleared.
LEMMA FailureSound ==
    ASSUME NEW RS, NEW RC, Honest(RS, RC), SitesInv(RS, RC),
           BadUsage!Transient \/ BadUsage!Invalid \/ BadUsage!Torn \/ BadUsage!Clear
    PROVE  SitesInv(RS, RC)'
<1>0. /\ Fits(showdown, recent_showdown, ShowdownKeys, RS)
      /\ Fits(cbd, recent_cbd, Species, RC)
      /\ lookup \in [species : Species, regulation : Regulations, for_spreads : BOOLEAN]
  BY DEF SitesInv, Asked
<1>1. CASE BadUsage!GiveUp
  BY <1>1, GiveUpSound
<1>2. CASE /\ stage # "idle" /\ attempt + 1 < MaxAttempts /\ attempt' = attempt + 1
           /\ UNCHANGED <<BadUsage!caches, stage, lookup, answer>>
  <2>1. /\ Fits(showdown', recent_showdown', ShowdownKeys, RS)
        /\ Fits(cbd', recent_cbd', Species, RC)
    BY <1>0, <1>2 DEF BadUsage!caches
  <2>2. attempt' \in 0 .. MaxAttempts - 1
    BY <1>2, CacheNumbers DEF SitesInv, Asked
  <2>3. Asked'
    BY <1>2, <2>2 DEF SitesInv, Asked, BadUsage!NoForeignSpreads
  <2> QED
    BY <2>1, <2>3 DEF SitesInv
<1>3. CASE BadUsage!Torn
  <2>1. /\ Fits(showdown', recent_showdown', ShowdownKeys, RS)
        /\ Fits(cbd', recent_cbd', Species, RC)
    BY <1>0, <1>3 DEF BadUsage!Torn, BadUsage!caches
  <2>2. Asked'
    <3>1. /\ lookup' \in [species : Species, regulation : Regulations, for_spreads : BOOLEAN]
          /\ BadUsage!Return("raised")
      BY <1>0, <1>3 DEF BadUsage!Torn
    <3> QED
      BY <3>1, ReturnAsked
  <2> QED
    BY <2>1, <2>2 DEF SitesInv
<1>4. CASE BadUsage!Clear
  <2>1. \A Keys, R : Fits(<<>>, <<>>, Keys, R)
    BY CacheNumbers DEF Fits, Ordered
  <2>2. /\ Fits(showdown', recent_showdown', ShowdownKeys, RS)
        /\ Fits(cbd', recent_cbd', Species, RC)
    BY <1>4, <2>1 DEF BadUsage!Clear
  <2>3. Asked'
    BY <1>4 DEF BadUsage!Clear, SitesInv, Asked, BadUsage!NoForeignSpreads, BadUsage!Key
  <2> QED
    BY <2>2, <2>3 DEF SitesInv
<1> QED
  BY <1>1, <1>2, <1>3, <1>4 DEF BadUsage!Transient, BadUsage!Invalid

\* A refusal that is read as a miss claims no spreads, whatever the site has.
LEMMA ThrottledSound ==
    ASSUME SitesInv(ShowdownSafe, CbdSafe), BadUsage!Throttled
    PROVE  SitesInv(ShowdownSafe, CbdSafe)'
<1> DEFINE key == <<lookup.species, lookup.regulation>>
<1>0. /\ Fits(showdown, recent_showdown, ShowdownKeys, ShowdownSafe)
      /\ Fits(cbd, recent_cbd, Species, CbdSafe)
      /\ answer \in BadUsage!Record \cup {"raised"} /\ "None" \in BadUsage!Record
      /\ lookup' = lookup
      /\ lookup \in [species : Species, regulation : Regulations, for_spreads : BOOLEAN]
      /\ key \in ShowdownKeys /\ lookup.species \in Species
  BY SitesFacts DEF BadUsage!Throttled
<1>1. <<key, "None">> \in ShowdownSafe /\ <<lookup.species, "None">> \in CbdSafe
  BY <1>0 DEF ShowdownSafe, CbdSafe
<1>2. CASE /\ stage \in {"index", "detail"}
           /\ BadUsage!StoreShowdown(key, "None")
           /\ BadUsage!Evidence("None", lookup.species, lookup.for_spreads)
  <2> HIDE DEF key
  <2>1. Fits(showdown', recent_showdown', ShowdownKeys, ShowdownSafe)
    BY <1>0, <1>1, <1>2, StoreFits
  <2>2. lookup.regulation \in Live
    BY <1>2 DEF SitesInv, Asked
  <2>3. BadUsage!Evidence("None", lookup'.species, lookup'.for_spreads)
    BY <1>0, <1>2
  <2>4. Fits(cbd', recent_cbd', Species, CbdSafe) /\ Asked'
    BY <1>0, <2>2, <2>3, EvidenceAsked, SafeIsHonest
  <2> QED
    BY <2>1, <2>4 DEF SitesInv
<1>3. CASE /\ stage = "cbd"
           /\ cbd' = BadUsage!Put(cbd, lookup.species, "None")
           /\ recent_cbd' = BadUsage!Used(recent_cbd, lookup.species)
           /\ BadUsage!Return("None")
           /\ UNCHANGED <<showdown, recent_showdown>>
  BY <1>0, <1>1, <1>3, CbdSound, SafeIsHonest
<1> QED
  BY <1>2, <1>3 DEF BadUsage!Throttled, BadUsage!Key

\* The sites that only fail for a time or answer garbage move as the others do,
\* but never refuse and never tear.
LEMMA UsageIsBad ==
    Usage!Next => \/ BadUsage!Lookup \/ BadUsage!Clear
                  \/ BadUsage!IndexAnswers \/ BadUsage!DetailAnswers \/ BadUsage!CbdAnswers
                  \/ BadUsage!Transient \/ BadUsage!Invalid
<1>1. Usage!Lookup => BadUsage!Lookup
  BY Zenon
  DEF Usage!Lookup, BadUsage!Lookup, Usage!Evidence, BadUsage!Evidence,
      Usage!SecondSite, BadUsage!SecondSite, Usage!StoreShowdown,
      BadUsage!StoreShowdown, Usage!Return, BadUsage!Return, Usage!Request,
      BadUsage!Request, Usage!Key, BadUsage!Key, Usage!Hit, BadUsage!Hit, Usage!Put,
      BadUsage!Put, Usage!Used, BadUsage!Used, Usage!Cached, BadUsage!Cached,
      Usage!Place, BadUsage!Place, Usage!Without, BadUsage!Without, Usage!KeyWithout,
      BadUsage!KeyWithout, Usage!KeysOf, BadUsage!KeysOf, Usage!ToSet, BadUsage!ToSet,
      Usage!RemoveAt, BadUsage!RemoveAt, Usage!ShowdownTruth, BadUsage!ShowdownTruth,
      Usage!CbdTruth, BadUsage!CbdTruth, Usage!caches, BadUsage!caches
<1>2. Usage!Clear => BadUsage!Clear
  BY Zenon
  DEF Usage!Clear, BadUsage!Clear
<1>3. Usage!IndexAnswers => BadUsage!IndexAnswers
  BY Zenon
  DEF Usage!IndexAnswers, BadUsage!IndexAnswers, Usage!Evidence, BadUsage!Evidence,
      Usage!SecondSite, BadUsage!SecondSite, Usage!StoreShowdown,
      BadUsage!StoreShowdown, Usage!Return, BadUsage!Return, Usage!Request,
      BadUsage!Request, Usage!Key, BadUsage!Key, Usage!Hit, BadUsage!Hit, Usage!Put,
      BadUsage!Put, Usage!Used, BadUsage!Used, Usage!Cached, BadUsage!Cached,
      Usage!Place, BadUsage!Place, Usage!Without, BadUsage!Without, Usage!KeyWithout,
      BadUsage!KeyWithout, Usage!KeysOf, BadUsage!KeysOf, Usage!ToSet, BadUsage!ToSet,
      Usage!RemoveAt, BadUsage!RemoveAt, Usage!ShowdownTruth, BadUsage!ShowdownTruth,
      Usage!CbdTruth, BadUsage!CbdTruth, Usage!caches, BadUsage!caches
<1>4. Usage!DetailAnswers => BadUsage!DetailAnswers
  BY Zenon
  DEF Usage!DetailAnswers, BadUsage!DetailAnswers, Usage!Evidence, BadUsage!Evidence,
      Usage!SecondSite, BadUsage!SecondSite, Usage!StoreShowdown,
      BadUsage!StoreShowdown, Usage!Return, BadUsage!Return, Usage!Request,
      BadUsage!Request, Usage!Key, BadUsage!Key, Usage!Hit, BadUsage!Hit, Usage!Put,
      BadUsage!Put, Usage!Used, BadUsage!Used, Usage!Cached, BadUsage!Cached,
      Usage!Place, BadUsage!Place, Usage!Without, BadUsage!Without, Usage!KeyWithout,
      BadUsage!KeyWithout, Usage!KeysOf, BadUsage!KeysOf, Usage!ToSet, BadUsage!ToSet,
      Usage!RemoveAt, BadUsage!RemoveAt, Usage!ShowdownTruth, BadUsage!ShowdownTruth,
      Usage!CbdTruth, BadUsage!CbdTruth, Usage!caches, BadUsage!caches
<1>5. Usage!CbdAnswers => BadUsage!CbdAnswers
  BY Zenon
  DEF Usage!CbdAnswers, BadUsage!CbdAnswers, Usage!Evidence, BadUsage!Evidence,
      Usage!SecondSite, BadUsage!SecondSite, Usage!StoreShowdown,
      BadUsage!StoreShowdown, Usage!Return, BadUsage!Return, Usage!Request,
      BadUsage!Request, Usage!Key, BadUsage!Key, Usage!Hit, BadUsage!Hit, Usage!Put,
      BadUsage!Put, Usage!Used, BadUsage!Used, Usage!Cached, BadUsage!Cached,
      Usage!Place, BadUsage!Place, Usage!Without, BadUsage!Without, Usage!KeyWithout,
      BadUsage!KeyWithout, Usage!KeysOf, BadUsage!KeysOf, Usage!ToSet, BadUsage!ToSet,
      Usage!RemoveAt, BadUsage!RemoveAt, Usage!ShowdownTruth, BadUsage!ShowdownTruth,
      Usage!CbdTruth, BadUsage!CbdTruth, Usage!caches, BadUsage!caches
<1>6. Usage!GiveUp => BadUsage!GiveUp
  BY Zenon
  DEF Usage!GiveUp, BadUsage!GiveUp, Usage!Evidence, BadUsage!Evidence,
      Usage!SecondSite, BadUsage!SecondSite, Usage!StoreShowdown,
      BadUsage!StoreShowdown, Usage!Return, BadUsage!Return, Usage!Request,
      BadUsage!Request, Usage!Key, BadUsage!Key, Usage!Hit, BadUsage!Hit, Usage!Put,
      BadUsage!Put, Usage!Used, BadUsage!Used, Usage!Cached, BadUsage!Cached,
      Usage!Place, BadUsage!Place, Usage!Without, BadUsage!Without, Usage!KeyWithout,
      BadUsage!KeyWithout, Usage!KeysOf, BadUsage!KeysOf, Usage!ToSet, BadUsage!ToSet,
      Usage!RemoveAt, BadUsage!RemoveAt, Usage!ShowdownTruth, BadUsage!ShowdownTruth,
      Usage!CbdTruth, BadUsage!CbdTruth, Usage!caches, BadUsage!caches
<1>7. Usage!Transient => BadUsage!Transient
  BY <1>6 DEF Usage!Transient, BadUsage!Transient, Usage!caches, BadUsage!caches
<1>8. Usage!Invalid => BadUsage!Invalid
  BY <1>6 DEF Usage!Invalid, BadUsage!Invalid
<1>9. ~Usage!Throttled /\ ~Usage!Torn
  BY DEF Usage!Throttled, Usage!Torn
<1> QED
  BY <1>1, <1>2, <1>3, <1>4, <1>5, <1>7, <1>8, <1>9 DEF Usage!Next, Usage!Fetch

LEMMA FetchSound ==
    ASSUME NEW RS, NEW RC, Honest(RS, RC), SitesInv(RS, RC),
           \/ BadUsage!Lookup \/ BadUsage!Clear
           \/ BadUsage!IndexAnswers \/ BadUsage!DetailAnswers \/ BadUsage!CbdAnswers
           \/ BadUsage!Transient \/ BadUsage!Invalid \/ BadUsage!Torn
    PROVE  SitesInv(RS, RC)'
<1>1. CASE BadUsage!CbdAnswers
  <2> DEFINE record == BadUsage!CbdTruth(lookup.species)
  <2>1. /\ stage = "cbd" /\ cbd' = BadUsage!Put(cbd, lookup.species, record)
        /\ recent_cbd' = BadUsage!Used(recent_cbd, lookup.species)
        /\ BadUsage!Return(record) /\ UNCHANGED <<showdown, recent_showdown, lookup>>
    BY <1>1 DEF BadUsage!CbdAnswers
  <2>2. record \in BadUsage!Record
    BY DEF BadUsage!CbdTruth, BadUsage!Record
  <2>3. <<lookup.species, record>> \in RC
    BY SitesFacts DEF Honest
  <2> QED
    BY <2>1, <2>2, <2>3, CbdSound
<1> QED
  BY <1>1, LookupSound, IndexSound, DetailSound, FailureSound

UsageInv == IF part = "usage" THEN SitesInv(ShowdownTrue, CbdTrue)
                              ELSE SitesInv(ShowdownSafe, CbdSafe)

LEMMA UsageInit ==
    ASSUME NEW RS, NEW RC, Usage!Init
    PROVE  SitesInv(RS, RC)
<1>1. \A Keys, R : Fits(<<>>, <<>>, Keys, R)
  BY CacheNumbers DEF Fits, Ordered
<1>2. /\ Fits(showdown, recent_showdown, ShowdownKeys, RS)
      /\ Fits(cbd, recent_cbd, Species, RC)
  BY <1>1 DEF Usage!Init
<1>3. 0 \in 0 .. MaxAttempts - 1
  BY CacheNumbers
<1>4. lookup \in [species : Species, regulation : Regulations, for_spreads : BOOLEAN]
  BY DEF Usage!Init
<1>5. Asked
  BY <1>3, <1>4 DEF Usage!Init, Asked, BadUsage!Record, BadUsage!NoForeignSpreads
<1> QED
  BY <1>2, <1>5 DEF SitesInv

\* Only the sites and the session that asks them move what they share.
LEMMA UsagePart ==
    [ServicesNext]_<<part, batch, llm, service, usage>> =>
        /\ part' = part
        /\ \/ part = "usage" /\ Usage!Next
           \/ part = "bad usage" /\ BadUsage!Next
           \/ UNCHANGED usage
<1>1. UNCHANGED <<part, batch, llm, service, usage>> => part' = part /\ UNCHANGED usage
  OBVIOUS
<1>2. ServicesNext => /\ part' = part
                      /\ \/ part = "usage" /\ Usage!Next
                         \/ part = "bad usage" /\ BadUsage!Next
                         \/ UNCHANGED usage
  <2>1. /\ UNCHANGED <<part, llm, service, usage>> => part' = part /\ UNCHANGED usage
        /\ UNCHANGED <<part, batch, service, usage>> => part' = part /\ UNCHANGED usage
        /\ UNCHANGED <<part, batch, llm, usage>> => part' = part /\ UNCHANGED usage
        /\ UNCHANGED <<part, batch, llm, service>> => part' = part
    OBVIOUS
  <2> QED
    BY <2>1, Zenon DEF ServicesNext
<1> QED
  BY <1>1, <1>2, Zenon

LEMMA SitesStay ==
    ASSUME NEW RS, NEW RC, SitesInv(RS, RC), UNCHANGED usage
    PROVE  SitesInv(RS, RC)'
<1>1. UNCHANGED <<showdown, cbd, stage, lookup, attempt, answer, recent_showdown, recent_cbd>>
  BY DEF usage
<1>2. /\ Fits(showdown', recent_showdown', ShowdownKeys, RS)
      /\ Fits(cbd', recent_cbd', Species, RC)
  BY <1>1 DEF SitesInv
<1>3. Asked'
  BY <1>1 DEF SitesInv, Asked, BadUsage!NoForeignSpreads, BadUsage!Key
<1> QED
  BY <1>2, <1>3 DEF SitesInv

LEMMA UsageRuns == ServicesSpec => []UsageInv
<1>1. ServicesInit => UsageInv
  <2>1. Usage!Init => /\ SitesInv(ShowdownTrue, CbdTrue)
                      /\ SitesInv(ShowdownSafe, CbdSafe)
    BY UsageInit
  <2> QED
    BY <2>1, Zenon DEF ServicesInit, UsageInv
<1>2. UsageInv /\ [ServicesNext]_<<part, batch, llm, service, usage>> => UsageInv'
  <2> SUFFICES ASSUME UsageInv, part' = part,
                      \/ part = "usage" /\ Usage!Next
                      \/ part = "bad usage" /\ BadUsage!Next
                      \/ UNCHANGED usage
               PROVE  UsageInv'
    BY UsagePart, Zenon
  <2>1. CASE UNCHANGED usage
    <3>1. /\ SitesInv(ShowdownTrue, CbdTrue) => SitesInv(ShowdownTrue, CbdTrue)'
          /\ SitesInv(ShowdownSafe, CbdSafe) => SitesInv(ShowdownSafe, CbdSafe)'
      BY <2>1, SitesStay, Zenon
    <3> QED
      BY <3>1, Zenon DEF UsageInv
  <2>2. CASE part = "usage" /\ Usage!Next
    <3>1. SitesInv(ShowdownTrue, CbdTrue)'
      BY <2>2, UsageIsBad, FetchSound, SafeIsHonest, Zenon DEF UsageInv
    <3> QED
      BY <2>2, <3>1, Zenon DEF UsageInv
  <2>3. CASE part = "bad usage" /\ BadUsage!Next
    <3>1. SitesInv(ShowdownSafe, CbdSafe)'
      <4>1. SitesInv(ShowdownSafe, CbdSafe)
        BY <2>3, Zenon DEF UsageInv
      <4> QED
        BY <2>3, <4>1, FetchSound, ThrottledSound, SafeIsHonest, Zenon
        DEF BadUsage!Next, BadUsage!Fetch
    <3> QED
      BY <2>3, <3>1, Zenon DEF UsageInv
  <2> QED
    BY <2>1, <2>2, <2>3, Zenon
<1> QED
  BY <1>1, <1>2, PTL DEF ServicesSpec

LEMMA SitesPromise ==
    ASSUME NEW RS, NEW RC, RS \subseteq ShowdownSafe, RC \subseteq CbdSafe, SitesInv(RS, RC)
    PROVE  Usage!TypeOK /\ Usage!RecentlyUsedStay /\ Usage!NoForeignSpreads
<1>1. /\ Fits(showdown, recent_showdown, ShowdownKeys, RS)
      /\ Fits(cbd, recent_cbd, Species, RC) /\ Asked
  BY DEF SitesInv
<1>2. /\ DOMAIN showdown = 1 .. Len(showdown) /\ DOMAIN cbd = 1 .. Len(cbd)
      /\ DOMAIN recent_showdown = DOMAIN showdown /\ DOMAIN recent_cbd = DOMAIN cbd
      /\ Len(showdown) <= CacheMax /\ Len(cbd) <= CacheMax
      /\ \A i \in DOMAIN showdown :
            showdown[i] \in RS /\ showdown[i][1] = recent_showdown[i]
      /\ \A i \in DOMAIN cbd : cbd[i] \in RC /\ cbd[i][1] = recent_cbd[i]
  BY <1>1 DEF Fits, Ordered
<1>3. /\ \A i \in DOMAIN showdown : showdown[i] \in (Species \X Regulations) \X Usage!Record
      /\ \A i \in DOMAIN cbd : cbd[i] \in Species \X Usage!Record
  <2>1. Usage!Record = BadUsage!Record
    BY DEF Usage!Record, BadUsage!Record
  <2> QED
    BY <1>2, <2>1 DEF ShowdownSafe, ShowdownKeys, CbdSafe
<1>4. Usage!TypeOK
  <2>1. /\ stage \in {"idle", "index", "detail", "cbd"} /\ attempt \in 0 .. MaxAttempts - 1
        /\ answer \in BadUsage!Record \cup {"raised"}
    BY <1>1, Zenon DEF Asked
  <2>2. Usage!Record = BadUsage!Record
    BY DEF Usage!Record, BadUsage!Record
  <2> QED
    BY <1>2, <1>3, <2>1, <2>2, Zenon DEF Usage!TypeOK
<1>5. Usage!RecentlyUsedStay
  BY <1>2 DEF Usage!RecentlyUsedStay, Usage!KeysOf
<1>6. Usage!NoForeignSpreads
  BY <1>1 DEF Asked, Usage!NoForeignSpreads, Usage!Key, BadUsage!NoForeignSpreads, BadUsage!Key
<1> QED
  BY <1>4, <1>5, <1>6

\* For any species, regulations, data of the sites and sizes of the caches: the
\* caches hold the keys used last, spreads come from the regulation asked for or
\* else from the second site, however the sites fail; and where they fail for a
\* time only, no such failure is ever kept as a miss (usage_live.py).
THEOREM UsageStaysTrue == ServicesSpec => []UsageIsTrue
<1>1. UsageInv => UsageIsTrue
  <2> SUFFICES ASSUME UsageInv PROVE UsageIsTrue
    OBVIOUS
  <2>1. /\ ShowdownTrue \subseteq ShowdownSafe /\ CbdTrue \subseteq CbdSafe
    BY SafeIsHonest DEF Honest
  <2>2. Usage!TypeOK /\ Usage!RecentlyUsedStay /\ Usage!NoForeignSpreads
    BY <2>1, SitesPromise DEF UsageInv
  <2>3. part = "usage" => Usage!CacheIsTruth
    <3> SUFFICES ASSUME part = "usage" PROVE Usage!CacheIsTruth
      OBVIOUS
    <3>1. /\ showdown \in Seq(ShowdownTrue) /\ cbd \in Seq(CbdTrue)
      BY DEF UsageInv, SitesInv, Fits, Ordered
    <3>2. /\ \A i \in DOMAIN showdown : showdown[i] \in ShowdownTrue
          /\ \A i \in DOMAIN cbd : cbd[i] \in CbdTrue
      BY <3>1
    <3>3. /\ \A key : Usage!ShowdownTruth(key) = BadUsage!ShowdownTruth(key)
          /\ \A s : Usage!CbdTruth(s) = BadUsage!CbdTruth(s)
      BY DEF Usage!ShowdownTruth, BadUsage!ShowdownTruth, Usage!CbdTruth, BadUsage!CbdTruth
    <3> QED
      BY <3>2, <3>3 DEF ShowdownTrue, CbdTrue, Usage!CacheIsTruth
  <2> QED
    BY <2>2, <2>3 DEF UsageIsTrue
<1> QED
  BY <1>1, UsageRuns, PTL
=============================================================================
