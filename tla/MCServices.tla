----------------------------- MODULE MCServices -----------------------------
(***************************************************************************)
(* What a turn calls on and waits for: the model, the calculator service   *)
(* under each of its managers, the usage sites; and the batch of the       *)
(* request set, which restarts the calculator.  They share no state, so    *)
(* they are not interleaved: a behaviour is one of one component, part     *)
(* says which, and the variables of the others stay idle.                  *)
(***************************************************************************)
EXTENDS RequestRun, Sequences

CONSTANTS
    MaxCalls,               \* calls of the model
    AppSpawns, EvalSpawns,  \* processes each manager starts
    Species, Regulations, Live, Indexed, HasSpreads, HasBattles,
    MaxAttempts, CacheMax   \* LiveUsage

VARIABLES part,
          cur, kind, caller, worker, outcome, abandoned, expired, log, told,
          proc, term, spawned, own, doomed, step, op, result, answered, before,
          showdown, cbd, stage, lookup, attempt, answer, recent_showdown, recent_cbd

batch   == vars
llm     == <<cur, kind, caller, worker, outcome, abandoned, expired, log, told>>
service == <<proc, term, spawned, own, doomed, step, op, result, answered, before>>
usage   == <<showdown, cbd, stage, lookup, attempt, answer, recent_showdown, recent_cbd>>

Llm == INSTANCE LlmInvoke

Service    == INSTANCE CalcService WITH
    Manager <- "CalcService", MaxSpawns <- AppSpawns, pc <- step
Supervisor == INSTANCE CalcService WITH
    Manager <- "CalcSupervisor", MaxSpawns <- EvalSpawns, pc <- step

Usage == INSTANCE LiveUsage WITH Failures <- {"transient", "invalid"}

\* The same sites failing in every way.
BadUsage == INSTANCE LiveUsage WITH
    Failures <- {"transient", "invalid", "throttled", "torn"}

ASSUME LlmAssumption == Llm!MaxCallsAssumption
ASSUME ManagersAssumption == Service!ServiceAssumption /\ Supervisor!ServiceAssumption
ASSUME UsageAssumption == Usage!LiveAssumption /\ BadUsage!LiveAssumption

-----------------------------------------------------------------------------
(* The instance that is checked: two calls, so that an abandoned worker    *)
(* runs beside its successor; three species and regulations with and       *)
(* without live data, for caches that hold two of the species.             *)

CONSTANTS venusaur, garchomp, ditto, mc, old

ThreeSpecies == {venusaur, garchomp, ditto}
TwoRegulations == {mc, old}
OneLive == {mc}
TwoIndexed == {<<venusaur, mc>>, <<garchomp, mc>>}
OneWithSpreads == {<<venusaur, mc>>}
TwoWithBattles == {venusaur, garchomp}

-----------------------------------------------------------------------------
\* Who does not take part stays in one of its initial states.
ServicesInit ==
    /\ part \in {"batch", "llm", "service", "supervisor", "usage", "bad usage"}
    /\ Init /\ (part # "batch" => calc = "up")
    /\ Llm!Init
    /\ IF part = "supervisor" THEN Supervisor!Init ELSE Service!Init
    /\ Usage!Init
    /\ part \notin {"usage", "bad usage"} =>
          lookup = [species |-> CHOOSE s \in Species : TRUE,
                    regulation |-> CHOOSE r \in Regulations : TRUE, for_spreads |-> FALSE]

ServicesNext ==
    \/ part = "batch"      /\ Next            /\ UNCHANGED <<part, llm, service, usage>>
    \/ part = "llm"        /\ Llm!Next        /\ UNCHANGED <<part, batch, service, usage>>
    \/ part = "service"    /\ Service!Next    /\ UNCHANGED <<part, batch, llm, usage>>
    \/ part = "supervisor" /\ Supervisor!Next /\ UNCHANGED <<part, batch, llm, usage>>
    \/ part = "usage"      /\ Usage!Next      /\ UNCHANGED <<part, batch, llm, service>>
    \/ part = "bad usage"  /\ BadUsage!Next   /\ UNCHANGED <<part, batch, llm, service>>

\* The fairness of the components.
ServicesSpec ==
    /\ ServicesInit /\ [][ServicesNext]_<<part, batch, llm, service, usage>>
    /\ WF_batch(part = "batch" /\ RunnerStep)
    /\ WF_llm(part = "llm" /\ Llm!CallerStep)
    /\ \A call \in Llm!Calls : WF_llm(part = "llm" /\ Llm!WorkerStep(call))
    /\ WF_service(part = "service" /\ Service!ManagerStep)
    /\ SF_service(part = "service" /\ Service!Deadline)
    /\ WF_service(part = "supervisor" /\ Supervisor!ManagerStep)
    /\ SF_service(part = "supervisor" /\ Supervisor!Deadline)
    /\ WF_usage(part = "usage" /\ Usage!Fetch)
    /\ WF_usage(part = "bad usage" /\ BadUsage!Fetch)

-----------------------------------------------------------------------------
(* The properties of the components; those of the batch alone are          *)
(* RequestRun's own.                                                       *)

\* Whatever a node is told about a call, the log already has its line
\* (the order of writes and returns in llm_invoke.py).
CallsAreLogged == Llm!TypeOK /\ Llm!ToldIsLogged

\* The worker of a call that was given up logs no late answer (llm_invoke.py).
LateAnswersAreSilent == Llm!LateAnswersAreSilent

\* The supervisor never loses sight of a child and never has two (its restart
\* stops and waits before it spawns); a stop of the application's manager that
\* has returned leaves no process behind (calc_service.py).
ProcessesAreTracked ==
    IF part = "supervisor" THEN Supervisor!TypeOK /\ Supervisor!OneChild
    ELSE Service!TypeOK /\ Service!StoppedIsGone

\* A failure that passes is never cached as a miss, the caches hold the keys
\* used last, and spreads come from the regulation asked for or, if it has
\* none or could not be reached, from the second site (usage_live.py).
UsageIsTrue ==
    /\ Usage!TypeOK /\ Usage!RecentlyUsedStay /\ Usage!NoForeignSpreads
    /\ part = "usage" => Usage!CacheIsTruth

\* Whatever the provider, the processes and the sites do, every call of the
\* model, every call of a manager, every lookup and every batch ends.
CallsEnd == Llm!CallsReturn /\ Service!CallsEnd /\ Usage!LookupsEnd /\ BatchEnds
=============================================================================
