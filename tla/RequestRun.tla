------------------------------ MODULE RequestRun ------------------------------
(***************************************************************************)
(* A batch of the request set: run_batch in scripts/eval/part_g_arm/state/ *)
(* request_set_runner.py with the preflight, ping and failure              *)
(* classification of calc_infra.py, the turn outcomes of harness.py and    *)
(* the ensure_running and restart of calc_supervisor.py.                   *)
(*                                                                         *)
(* A run directory holds progress.json (the finished rows with their       *)
(* transcripts) and run_record.json.  The runner may be killed at any step *)
(* and started again on the same directory; the calculator may go down at  *)
(* any step, and only the supervisor brings it back.                       *)
(*                                                                         *)
(* What a row's attempt comes to: "answer"; "no_answer" (the model failed, *)
(* ran out of turns, or the start state of the row does not resolve);      *)
(* "item_timeout" (the model used up the 300 s of its turn); "calc_down"   *)
(* (a tool result names a transport failure).                              *)
(***************************************************************************)
EXTENDS Integers, FiniteSets

CONSTANTS
  NumRows,          \* the rows of the batch, in the order they are wanted
  MaxReruns,        \* FAILURE_POLICY: max_reruns_per_row
  MaxInterruptions, \* FAILURE_POLICY: max_interruptions_per_run
  MaxCrashes,       \* bound: how often the calculator goes down
  MaxKills          \* bound: how often the runner is killed

ASSUME RunAssumption ==
  /\ NumRows \in Nat \ {0}
  /\ {MaxReruns, MaxInterruptions, MaxCrashes, MaxKills} \subseteq Nat

Rows == 1 .. NumRows
Outcomes == {"answer", "no_answer", "item_timeout", "calc_down"}
Halts == {"max_interruptions", "second_infra_on_row", "preflight_failed_after_restart"}

\* The markers "Timeout" and "timed out" are looked for without regard to case,
\* in the errors of the turn as in the results of its tools.
Infrastructure == {"calc_down", "item_timeout"}

VARIABLES
  calc,    \* "up" or "down"
  pc,      \* where the runner is; "off" when there is none
  job,     \* what the runner holds in memory
  disk,    \* progress.json
  report,  \* run_record.json and transcript.json of the last run that got there
  crashes, kills, \* counted for the bounds
  retried  \* history: why a row was run again, as <<row, outcome>>

vars == <<calc, pc, job, disk, report, crashes, kills, retried>>

NoRows == [r \in Rows |-> "none"]
NewJob == [at |-> 1, scored |-> NoRows, partials |-> NoRows, reruns |-> 0,
           interruptions |-> 0, phase |-> "between", halt |-> "none", stopped |-> FALSE]
Unread == NewJob  \* no runner, nothing in memory

Init ==
  /\ calc \in {"up", "down"}
  /\ pc = "off"
  /\ job = Unread
  /\ disk = [torn |-> FALSE, scored |-> NoRows, partials |-> NoRows]
  /\ report = [code |-> "none", halt |-> "none", at |-> 1, stopped |-> FALSE, transcript |-> NoRows]
  /\ crashes = 0 /\ kills = 0
  /\ retried = {}

(***************************************************************************)
(* The calculator.                                                         *)
(***************************************************************************)
CalcCrash ==
  /\ calc = "up" /\ crashes < MaxCrashes
  /\ calc' = "down"
  /\ crashes' = crashes + 1
  /\ UNCHANGED <<pc, job, disk, report, kills, retried>>

(***************************************************************************)
(* The runner.  An exception leaves run_batch at once: nothing is written. *)
(***************************************************************************)
Raise == pc' = "off" /\ job' = Unread

\* supervisor.ensure_running: attach to what answers, else spawn; or raise.
EnsureRunning ==
  /\ pc = "off"
  /\ \/ calc' = "up" /\ pc' = "preflight" /\ UNCHANGED job
     \/ UNCHANGED calc /\ calc = "down" /\ Raise
  /\ UNCHANGED <<disk, report, crashes, kills, retried>>

\* run_preflight: a probe may also be answered, and wrongly.
PreflightPasses == calc = "up"

\* (for mutation) a resumed batch begins with no finished rows
Preflight_Fresh ==
  /\ pc = "preflight"
  /\ IF PreflightPasses THEN job' = NewJob /\ pc' = "next" ELSE Raise
  /\ UNCHANGED <<calc, disk, report, crashes, kills, retried>>

Preflight ==
  /\ pc = "preflight"
  /\ \/ /\ PreflightPasses /\ ~ disk.torn
        /\ job' = [NewJob EXCEPT !.scored = disk.scored, !.partials = disk.partials]
        /\ pc' = "next" /\ UNCHANGED report
     \/ /\ PreflightPasses /\ disk.torn \* json.loads raises
        /\ Raise /\ UNCHANGED report
     \/ /\ report' = [report EXCEPT !.code = "preflight_failed", !.halt = "none"]
        /\ Raise
  /\ UNCHANGED <<calc, disk, crashes, kills, retried>>

Interrupted(j) == [j EXCEPT !.interruptions = @ + 1]
Halted(j, why) == [j EXCEPT !.halt = why]

\* The head of the loop: rows that are finished are skipped, the service pinged.
NextRow ==
  /\ pc = "next" /\ job.at <= NumRows
  /\ IF job.scored[job.at] # "none"
     THEN job' = [job EXCEPT !.at = @ + 1] /\ UNCHANGED pc
     ELSE IF calc = "up"
     THEN job' = [job EXCEPT !.reruns = 0] /\ pc' = "attempt"
     ELSE LET j == Interrupted([job EXCEPT !.reruns = 0, !.phase = "between"])
          IN IF j.interruptions > MaxInterruptions
             THEN job' = Halted(j, "max_interruptions") /\ pc' = "closing"
             ELSE job' = j /\ pc' = "repair"
  /\ UNCHANGED <<calc, disk, report, crashes, kills, retried>>

\* supervisor.restart: serving again, or it raises (dead early, never healthy).
Repair ==
  /\ pc = "repair"
  /\ \/ calc' = "up" /\ pc' = "recheck" /\ UNCHANGED job
     \/ calc' = "down" /\ Raise
  /\ UNCHANGED <<disk, report, crashes, kills, retried>>

\* The full preflight after a restart; in the middle of a row the row is rerun.
Recheck ==
  /\ pc = "recheck"
  /\ \/ /\ PreflightPasses
        /\ job' = IF job.phase = "mid" THEN [job EXCEPT !.reruns = @ + 1] ELSE job
        /\ pc' = "attempt"
     \/ job' = Halted(job, "preflight_failed_after_restart") /\ pc' = "closing"
  /\ UNCHANGED <<calc, disk, report, crashes, kills, retried>>

\* (for mutation) the attempt after the restart is scored without another look
Attempt_OneLook ==
  /\ pc = "attempt"
  /\ \E o \in Outcomes :
       /\ o = "calc_down" => calc = "down"
       /\ IF o \in Infrastructure /\ job.reruns = 0
          THEN /\ job' = [Interrupted(job) EXCEPT !.phase = "mid"]
               /\ pc' = "repair" /\ retried' = retried \cup {<<job.at, o>>}
          ELSE /\ job' = [job EXCEPT !.scored[job.at] = o]
               /\ pc' = "saving" /\ UNCHANGED retried
  /\ UNCHANGED <<calc, disk, report, crashes, kills>>

\* One run_row and the look at what came of it.
Attempt ==
  /\ pc = "attempt"
  /\ \E o \in Outcomes :
       /\ o = "calc_down" => calc = "down"
       /\ IF o \notin Infrastructure
          THEN job' = [job EXCEPT !.scored[job.at] = o] /\ pc' = "saving" /\ UNCHANGED retried
          ELSE LET j == [Interrupted(job) EXCEPT !.phase = "mid", !.partials[job.at] = "kept"]
               IN IF j.interruptions > MaxInterruptions
                  THEN job' = Halted(j, "max_interruptions") /\ pc' = "closing" /\ UNCHANGED retried
                  ELSE IF j.reruns >= MaxReruns
                  THEN job' = Halted(j, "second_infra_on_row") /\ pc' = "closing" /\ UNCHANGED retried
                  ELSE job' = j /\ pc' = "repair" /\ retried' = retried \cup {<<job.at, o>>}
  /\ UNCHANGED <<calc, disk, report, crashes, kills>>

\* write_text opens the file for writing, which empties it, ...
Truncate ==
  /\ pc \in {"saving", "closing"}
  /\ disk' = [disk EXCEPT !.torn = TRUE]
  /\ pc' = IF pc = "saving" THEN "writing" ELSE "writing_last"
  /\ UNCHANGED <<calc, job, report, crashes, kills, retried>>

InMemory == [torn |-> FALSE, scored |-> job.scored, partials |-> job.partials]

\* ... and then writes it, after which --stop-after may end the batch.
SaveRow ==
  /\ pc = "writing"
  /\ disk' = InMemory
  /\ \/ job' = [job EXCEPT !.at = @ + 1] /\ pc' = "next"
     \/ job' = [job EXCEPT !.at = @ + 1, !.stopped = TRUE] /\ pc' = "closing"
  /\ UNCHANGED <<calc, report, crashes, kills, retried>>

AllDone ==
  /\ pc = "next" /\ job.at > NumRows
  /\ pc' = "closing"
  /\ UNCHANGED <<calc, job, disk, report, crashes, kills, retried>>

ExitCode(j) == IF j.halt # "none" THEN "halted" ELSE "ok"

\* The last save, the transcript, the record and the exit code.
Close ==
  /\ pc = "writing_last"
  /\ disk' = InMemory
  /\ report' = [code |-> ExitCode(job), halt |-> job.halt, at |-> job.at,
                stopped |-> job.stopped, transcript |-> job.scored]
  /\ Raise
  /\ UNCHANGED <<calc, crashes, kills, retried>>

Kill ==
  /\ pc # "off" /\ kills < MaxKills
  /\ kills' = kills + 1
  /\ Raise
  /\ UNCHANGED <<calc, disk, report, crashes, retried>>

RunnerStep == \/ Preflight \/ NextRow \/ Repair \/ Recheck \/ Attempt
              \/ Truncate \/ SaveRow \/ AllDone \/ Close

Next == CalcCrash \/ EnsureRunning \/ RunnerStep \/ Kill

Spec == Init /\ [][Next]_vars

\* A runner that was started runs: every wait in it has a deadline.
FairSpec == Spec /\ WF_vars(RunnerStep)

(***************************************************************************)
(* Properties.                                                             *)
(***************************************************************************)
TypeOK ==
  /\ calc \in {"up", "down"}
  /\ pc \in {"off", "preflight", "next", "repair", "recheck", "attempt",
             "saving", "writing", "closing", "writing_last"}
  /\ job \in [at : 1 .. NumRows + 1, scored : [Rows -> Outcomes \cup {"none"}],
              partials : [Rows -> {"none", "kept"}], reruns : 0 .. MaxReruns,
              interruptions : 0 .. MaxInterruptions + 1, phase : {"between", "mid"},
              halt : Halts \cup {"none"}, stopped : BOOLEAN]
  /\ disk \in [torn : BOOLEAN, scored : [Rows -> Outcomes \cup {"none"}],
               partials : [Rows -> {"none", "kept"}]]
  /\ report \in [code : {"none", "ok", "halted", "preflight_failed"}, halt : Halts \cup {"none"},
                 at : 1 .. NumRows + 1, stopped : BOOLEAN,
                 transcript : [Rows -> Outcomes \cup {"none"}]]
  /\ crashes \in 0 .. MaxCrashes /\ kills \in 0 .. MaxKills
  /\ retried \subseteq Rows \X Infrastructure

\* No attempt that met an infrastructure failure is ever scored: not the first,
\* not the rerun, not after a kill and a resume (the loop of run_batch that
\* looks at every attempt, and the save that only follows a clean one).
ScoredIsClean ==
  \A r \in Rows : disk.scored[r] \notin Infrastructure /\ job.scored[r] \notin Infrastructure

\* A finished row stays as it was scored, through halts, kills and resumes, in
\* every later readable progress file (FAILURE_POLICY "resume": finished rows
\* are skipped and not rewritten).
FinishedIsFrozen ==
  [][~ disk'.torn => \A r \in Rows : disk.scored[r] # "none" => disk'.scored[r] = disk.scored[r]]_vars

\* A row that made the batch halt is left for the resume: it is not among the
\* finished, and no row after it was touched by that batch's scoring unless an
\* earlier batch had finished it (rows are taken in the wanted order).
HaltLeavesTheRow ==
  job.halt # "none" => job.at <= NumRows /\ job.scored[job.at] = "none"

\* An exit code of zero means the batch is complete: every wanted row has a
\* clean entry in the transcript, unless --stop-after cut it short.
ZeroMeansComplete ==
  report.code = "ok" /\ ~ report.stopped => \A r \in Rows : report.transcript[r] # "none"

\* Whatever goes down, hangs or is killed, what a batch says of its rows is so
\* (run_batch, progress.json and run_record.json).
BatchIsHonest == TypeOK /\ ScoredIsClean /\ HaltLeavesTheRow /\ ZeroMeansComplete

\* A batch comes to an end whatever the calculator does: the two budgets bound
\* the restarts and reruns.
BatchEnds == (pc # "off") ~> (pc = "off")

\* FAILURE_POLICY "on_no_answer_or_error": a turn without an answer is recorded
\* as such, with no silent retry; only the calculator's failures rerun a row.
NoAnswerIsNotRetried == \A r \in Rows : <<r, "item_timeout">> \notin retried

\* FAILURE_POLICY "resume": a resume finds the finished rows and skips them.
ResumeIsPossible == pc = "off" => ~ disk.torn
=============================================================================
