------------------------------- MODULE MCJobs -------------------------------
(***************************************************************************)
(* The scheduled jobs: the refresh of the compendium and the monthly usage *)
(* rollover.  The only thing they share is the branch they push to, which  *)
(* is PushToMain's, so they are not interleaved: a behaviour is one of one *)
(* job, part says which, and the variables of the other stay idle.         *)
(***************************************************************************)
EXTENDS CompendiumRefresh

CONSTANTS Regulations, FirstDay, DayAfter, MonthDays, ShortDays,   \* UsageRollover
          LoudFrom, LoudThrough, LastDay, Tables, NoFile, Empty, Unpublished,
          MaxMonthForced, MaxManual, MaxMonthFaults

VARIABLES part,
          now, published, files, monthly, last, monthly_forced, manual, monthly_faults

monthly_vars == <<now, published, files, monthly, last, monthly_forced, manual, monthly_faults>>

\* The first snapshot changes the roles, the second changes them back and is
\* flagged at first.
MCContent == [u \in Snapshots |-> IF u \in {1, 3} THEN "b" ELSE "a"]
MCFlagged == {2}

\* Months have four days, a month of one day is short, and the alarm is loud
\* from the second to the sixth day.  A regulation over three months: two
\* days, four days and one (short); a month has few battles or many.
MCFirstDay == [t \in Regulations |-> 2]
MCDayAfter == [t \in Regulations |-> 9]

Month == INSTANCE UsageRollover WITH
    Tags <- Regulations, Start <- FirstDay, End <- DayAfter, Battles <- Tables,
    MaxForced <- MaxMonthForced, MaxFaults <- MaxMonthFaults,
    main <- files, job <- monthly, forced <- monthly_forced, faults <- monthly_faults

ASSUME MonthsAssumption ==
    Month!ScheduleAssumption /\ Month!CalendarAssumption /\ Month!NothingAssumption

-----------------------------------------------------------------------------
\* Who does not take part stays in one of its initial states.
JobsInit == part \in {"refresh", "month"} /\ Init /\ Month!Init

JobsNext ==
    \/ part = "refresh" /\ Next       /\ UNCHANGED <<part, monthly_vars>>
    \/ part = "month"   /\ Month!Next /\ UNCHANGED <<part, vars>>

\* The fairness of the components.
JobsSpec ==
    /\ JobsInit /\ [][JobsNext]_<<part, vars, monthly_vars>>
    /\ WF_vars(part = "refresh" /\ RunStep) /\ WF_vars(part = "refresh" /\ StartRun(FALSE))
    /\ SF_vars(part = "refresh" /\ NextDay) /\ WF_vars(part = "refresh" /\ FixCriteria)
    /\ WF_monthly_vars(part = "month" /\ Month!RunStep)
    /\ WF_monthly_vars(part = "month" /\ Month!StartRun(FALSE))
    /\ SF_monthly_vars(part = "month" /\ Month!NextDay)

-----------------------------------------------------------------------------
(* The properties of the jobs; those of the refresh alone are              *)
(* CompendiumRefresh's own.                                                *)

\* What the rollover pushes takes no file back to an older month, puts no
\* month of a day or two over a full one unless forced, and a green run left
\* no full month overdue and missing (rollover.py, push_to_main.sh).
MonthsAreSafe ==
    Month!PushesMoveForward /\ Month!FullMonthsStay /\ Month!GreenMeansNothingOverdue

\* In the end the usage on main is judged and the checks stop; every full
\* month that is published arrives, and one that never comes does not keep
\* the job red for ever (owed_pairs, overdue_loud).
JobsSettle ==
    /\ UsageIsJudged /\ ChecksStop
    /\ Month!PublishedMonthsArrive /\ Month!MissingMonthsFallSilent
=============================================================================
