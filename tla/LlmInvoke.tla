------------------------------ MODULE LlmInvoke ------------------------------
(***************************************************************************)
(* The model calls of one command-line session: recommender/llm_invoke.py  *)
(* (invoke_with_timeout) with its two callers, parse_bootstrap_intake in   *)
(* bootstrap.py and parse_turn_intent in turn_intent.py.                   *)
(*                                                                         *)
(* The graph runs one call at a time, but a call that misses its deadline  *)
(* is abandoned, not stopped: its worker thread goes on beside the calls   *)
(* that follow.  Caller and worker share the Event `abandoned`, the future *)
(* and the JSONL log of tool_log.py.  The steps of both are separate       *)
(* wherever the other can run in between: the worker tests the Event and   *)
(* then writes, the caller's wait times out and then it sets the Event.    *)
(*                                                                         *)
(* A provider either never returns, or returns a result the caller can     *)
(* use ("good") or not ("bad": a parsing error, or a shape the validation  *)
(* refuses), or raises: a ValueError, a TimeoutError, or anything else.    *)
(* Python 3.11, the oldest this project runs on, has one TimeoutError:     *)
(* the future raises the same class whether its own wait expired or the    *)
(* provider raised it.                                                     *)
(***************************************************************************)
EXTENDS Integers, Sequences

CONSTANT MaxCalls \* bound: the calls of the session
MaxCallsAssumption == MaxCalls \in Nat \ {0}

Calls == 1 .. MaxCalls
Results == {"good", "bad"}
Raised == {"value_error", "timeout_error", "other_error"}
Kinds == {"intake", "intent"}

VARIABLES
  cur,       \* number of calls submitted; the newest is the caller's
  kind,      \* kind[c]: which of the two parsers call c is for
  caller,    \* where the graph's thread is
  worker,    \* worker[c]: where the thread of call c is
  outcome,   \* outcome[c]: what the provider did, "none" while it is out
  abandoned, \* the calls whose Event is set
  expired,   \* the calls whose future.result(timeout) ran out
  log,       \* the lines of the tool-call log, as <<call, what it says>>
  told       \* told[c]: what the parser function returned to its node

vars == <<cur, kind, caller, worker, outcome, abandoned, expired, log, told>>

Says(c, what) == \E i \in 1 .. Len(log) : log[i] = <<c, what>>
LinesOf(c) == {i \in 1 .. Len(log) : log[i][1] = c}
WorkerSpoke(c) == Says(c, "ok") \/ Says(c, "error")

Init ==
  /\ cur = 0
  /\ kind = [c \in Calls |-> "intake"]
  /\ caller = "idle"
  /\ worker = [c \in Calls |-> "none"]
  /\ outcome = [c \in Calls |-> "none"]
  /\ abandoned = {} /\ expired = {}
  /\ log = <<>>
  /\ told = [c \in Calls |-> "none"]

(***************************************************************************)
(* The caller's thread.                                                    *)
(***************************************************************************)
Submit ==
  /\ caller = "idle" /\ cur < MaxCalls
  /\ cur' = cur + 1
  /\ caller' = "waiting"
  /\ \E k \in Kinds : kind' = [kind EXCEPT ![cur + 1] = k]
  /\ worker' = [worker EXCEPT ![cur + 1] = "invoking"]
  /\ UNCHANGED <<outcome, abandoned, expired, log, told>>

\* parse_bootstrap_intake: every exception but the deadline's is the
\* provider's failure; what the validation refuses is the parse failure.
IntakeAnswer(o) ==
  CASE o = "good" -> "payload" [] o = "bad" -> "parse_failed" [] OTHER -> "provider_failed"

\* parse_turn_intent: a refused result and a ValueError of the provider take
\* the same way, on which a dropped field edit may be read from the text.
IntentAnswers(o) ==
  CASE o = "good" -> {"payload"}
    [] o \in {"bad", "value_error"} -> {"recovered_edit", "classify_failed"}
    [] OTHER -> {"classify_failed"}

Answers(c, o) == IF kind[c] = "intake" THEN {IntakeAnswer(o)} ELSE IntentAnswers(o)

\* future.result() hands over what the finished worker left; a TimeoutError
\* of the provider is caught as if the wait had run out.
Take ==
  /\ caller = "waiting" /\ worker[cur] = "done"
  /\ IF outcome[cur] = "timeout_error"
     THEN caller' = "overdue" /\ UNCHANGED told
     ELSE /\ \E a \in Answers(cur, outcome[cur]) : told' = [told EXCEPT ![cur] = a]
          /\ caller' = "idle"
  /\ UNCHANGED <<cur, kind, worker, outcome, abandoned, expired, log>>

\* (for mutation) the executor as a context manager: its exit waits for the worker
DeadlineJoined ==
  /\ caller = "waiting" /\ worker[cur] = "done"
  /\ expired' = expired \cup {cur}
  /\ caller' = "overdue"
  /\ UNCHANGED <<cur, kind, worker, outcome, abandoned, log, told>>

\* The wait runs out with no answer in the future.
Deadline ==
  /\ caller = "waiting" /\ worker[cur] # "done"
  /\ expired' = expired \cup {cur}
  /\ caller' = "overdue"
  /\ UNCHANGED <<cur, kind, worker, outcome, abandoned, log, told>>

\* abandoned.set()
Abandon ==
  /\ caller = "overdue"
  /\ abandoned' = abandoned \cup {cur}
  /\ caller' = "giving_up"
  /\ UNCHANGED <<cur, kind, worker, outcome, expired, log, told>>

\* The timeout is logged, the executor left behind and LLMInvokeTimeout raised.
GiveUp ==
  /\ caller = "giving_up"
  /\ log' = Append(log, <<cur, "LLMInvokeTimeout">>)
  /\ told' = [told EXCEPT ![cur] = "timeout"]
  /\ caller' = "idle"
  /\ UNCHANGED <<cur, kind, worker, outcome, abandoned, expired>>

(***************************************************************************)
(* The worker of call c.                                                   *)
(***************************************************************************)
\* (for mutation) the Event is only looked at before the provider is called
ProviderReturnsUnchecked(c) ==
  /\ worker[c] = "invoking"
  /\ \E o \in Results \cup Raised : outcome' = [outcome EXCEPT ![c] = o]
  /\ worker' = [worker EXCEPT ![c] = "writing"]
  /\ UNCHANGED <<cur, kind, caller, abandoned, expired, log, told>>

ProviderReturns(c) ==
  /\ worker[c] = "invoking"
  /\ \E o \in Results \cup Raised : outcome' = [outcome EXCEPT ![c] = o]
  /\ worker' = [worker EXCEPT ![c] = "returned"]
  /\ UNCHANGED <<cur, kind, caller, abandoned, expired, log, told>>

\* `if not abandoned.is_set()`
TestAbandoned(c) ==
  /\ worker[c] = "returned"
  /\ worker' = [worker EXCEPT ![c] = IF c \in abandoned THEN "leaving" ELSE "writing"]
  /\ UNCHANGED <<cur, kind, caller, outcome, abandoned, expired, log, told>>

\* One line of JSON; the file is assumed writable (an OSError is swallowed).
\* (for mutation) the line of a failure is written by the caller's handler only
WriteLineOkOnly(c) ==
  /\ worker[c] = "writing"
  /\ log' = IF outcome[c] \in Results THEN Append(log, <<c, "ok">>) ELSE log
  /\ worker' = [worker EXCEPT ![c] = "leaving"]
  /\ UNCHANGED <<cur, kind, caller, outcome, abandoned, expired, told>>

WriteLine(c) ==
  /\ worker[c] = "writing"
  /\ log' = Append(log, <<c, IF outcome[c] \in Results THEN "ok" ELSE "error">>)
  /\ worker' = [worker EXCEPT ![c] = "leaving"]
  /\ UNCHANGED <<cur, kind, caller, outcome, abandoned, expired, told>>

\* _run returns or re-raises; the future is done.
Leave(c) ==
  /\ worker[c] = "leaving"
  /\ worker' = [worker EXCEPT ![c] = "done"]
  /\ UNCHANGED <<cur, kind, caller, outcome, abandoned, expired, log, told>>

CallerStep == Take \/ Deadline \/ Abandon \/ GiveUp
WorkerStep(c) == TestAbandoned(c) \/ WriteLine(c) \/ Leave(c)

Next ==
  \/ Submit
  \/ CallerStep
  \/ \E c \in Calls : ProviderReturns(c) \/ WorkerStep(c)

Spec == Init /\ [][Next]_vars

\* The clock and the scheduler are fair to the caller's thread, the scheduler
\* to the workers.  The provider owes nothing, and the player may stop typing.
FairSpec == Spec /\ WF_vars(CallerStep) /\ \A c \in Calls : WF_vars(WorkerStep(c))

(***************************************************************************)
(* Properties.                                                             *)
(***************************************************************************)
TypeOK ==
  /\ cur \in 0 .. MaxCalls
  /\ kind \in [Calls -> Kinds]
  /\ caller \in {"idle", "waiting", "overdue", "giving_up"}
  /\ worker \in [Calls -> {"none", "invoking", "returned", "writing", "leaving", "done"}]
  /\ outcome \in [Calls -> Results \cup Raised \cup {"none"}]
  /\ abandoned \subseteq 1 .. cur /\ expired \subseteq 1 .. cur
  /\ log \in Seq(Calls \X {"ok", "error", "LLMInvokeTimeout"})
  /\ told \in [Calls -> {"none", "payload", "parse_failed", "provider_failed",
                         "recovered_edit", "classify_failed", "timeout"}]

\* Whatever a node is told about a call, the log already has a line that
\* supports it: the line of a result before the result or its refusal is
\* handed on, the line of a failure before the failure, the timeout's line
\* before the message about the timeout (the order of writes and returns on
\* the two threads of invoke_with_timeout).
ToldIsLogged ==
  \A c \in Calls :
    /\ told[c] \in {"payload", "parse_failed"} => Says(c, "ok")
    /\ told[c] = "provider_failed" => Says(c, "error")
    /\ told[c] \in {"recovered_edit", "classify_failed"} => WorkerSpoke(c)
    /\ told[c] = "timeout" => Says(c, "LLMInvokeTimeout")

\* A call the node has given up on stays given up: when the provider comes
\* back after the caller has set `abandoned`, its worker writes no line, no
\* matter how many calls have been made since (the Event of invoke_with_timeout).
LateAnswersAreSilent ==
  \A c \in Calls : [](c \in abandoned /\ worker[c] = "invoking" => [](~ WorkerSpoke(c)))

\* A call comes back to the graph whether or not the provider ever answers
\* (the deadline, and shutdown(wait=False) after it).
CallsReturn == (caller # "idle") ~> (caller = "idle")

\* The docstring of invoke_with_timeout and the test of a late worker: a call
\* leaves one line in the log, the Event suppresses the second.
OneLinePerCall == \A c \in Calls : \A i, j \in LinesOf(c) : i = j

\* The docstring of LLMInvokeTimeout: raised when a call exceeds its timeout.
TimeoutMeansDeadline == \A c \in Calls : told[c] = "timeout" => c \in expired
=============================================================================
