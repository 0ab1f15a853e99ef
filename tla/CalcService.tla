----------------------------- MODULE CalcService -----------------------------
(***************************************************************************)
(* The Node calculator service as a process, and the two classes that own  *)
(* one: CalcService (recommender/calc_service.py, a context manager on a   *)
(* port of its own) and CalcSupervisor (scripts/eval/part_g_arm/state/     *)
(* calc_supervisor.py, on the fixed port, which may find a service of      *)
(* somebody else there).  services/calc/server.ts says what a SIGTERM does.*)
(*                                                                         *)
(* A process boots, then listens, unless the port is taken: then it fails, *)
(* and its npm wrapper ends a little later.  A listening process may be    *)
(* busy in one long calculation: it answers nothing and, being a single    *)
(* event loop, handles no signal either until it is done.  A handled       *)
(* SIGTERM closes the listener, and the process ends once it has drained.  *)
(* SIGKILL ends it at once.                                                *)
(***************************************************************************)
EXTENDS Integers

CONSTANTS
  Manager,   \* "CalcService" or "CalcSupervisor"
  MaxSpawns  \* bound: the processes the manager starts

ServiceAssumption ==
  Manager \in {"CalcService", "CalcSupervisor"} /\ MaxSpawns \in Nat \ {0}

Foreign == 0           \* a service started by somebody else
None == -1
Children == 1 .. MaxSpawns
Pids == Children \cup {Foreign}

VARIABLES
  proc,    \* proc[p]: what process p does
  term,    \* the processes with a SIGTERM they have not handled
  spawned, \* how many processes the manager has started
  own,     \* _proc
  doomed,  \* the local `proc` of a stop in progress
  pc,      \* where the manager's thread is
  op,      \* the call it is in, or was in last
  result,  \* how that call ended
  answered,\* who answered the last /health of that call
  before   \* history: the processes alive when that call began

vars == <<proc, term, spawned, own, doomed, pc, op, result, answered, before>>
managed == <<spawned, own, doomed, pc, op, result, answered, before>>

Alive(p) == proc[p] \notin {"absent", "dead"}
Holding(p) == proc[p] \in {"listening", "busy"} \* the port
PortTaken == \E p \in Pids : Holding(p)
Answering(p) == proc[p] = "listening"

Init ==
  /\ proc \in [Pids -> {"absent", "listening", "busy"}]
  /\ \A p \in Children : proc[p] = "absent"
  /\ Manager = "CalcService" => proc[Foreign] = "absent" \* its port was just free
  /\ term = {} /\ spawned = 0
  /\ own = None /\ doomed = None
  /\ pc = "idle" /\ op = "none" /\ result = "none"
  /\ answered = None /\ before = {}

(***************************************************************************)
(* The processes.                                                          *)
(***************************************************************************)
Become(p, s) == proc' = [proc EXCEPT ![p] = s] /\ UNCHANGED managed

Listen(p) == proc[p] = "booting" /\ Become(p, IF PortTaken THEN "failing" ELSE "listening")
              /\ UNCHANGED term
Fail(p)   == proc[p] = "booting" /\ Become(p, "failing") /\ UNCHANGED term
End(p)    == proc[p] \in {"failing", "draining"} /\ Become(p, "dead") /\ UNCHANGED term
GetBusy(p) == proc[p] = "listening" /\ Become(p, "busy") /\ UNCHANGED term
GetFree(p) == proc[p] = "busy" /\ Become(p, "listening") /\ UNCHANGED term
HandleTerm(p) ==
  /\ p \in term /\ Alive(p) /\ proc[p] # "busy"
  /\ Become(p, IF proc[p] = "listening" THEN "draining" ELSE "dead")
  /\ term' = term \ {p}

(***************************************************************************)
(* The manager.                                                            *)
(***************************************************************************)
Begin(o) == op' = o /\ result' = "none" /\ answered' = None /\ before' = {p \in Pids : Alive(p)}
Finish(r) == pc' = "idle" /\ result' = r

\* subprocess.Popen(["npm", "start"]), then the wait for /health
SpawnNow ==
  /\ spawned < MaxSpawns
  /\ spawned' = spawned + 1
  /\ proc' = [proc EXCEPT ![spawned + 1] = "booting"]
  /\ own' = spawned + 1
  /\ pc' = "poll"

\* __enter__ of a new CalcService (its _proc is None), as `with` calls it
Enter ==
  /\ Manager = "CalcService" /\ pc = "idle" /\ (result = "ok" => op = "stop")
  /\ Begin("start") /\ SpawnNow
  /\ UNCHANGED <<term, doomed>>

\* stop, a no-op without a process.  CalcService is stopped by __exit__, which
\* only a `with` whose __enter__ returned calls.
Stop ==
  /\ pc = "idle" /\ own # None
  /\ Manager = "CalcService" => op = "start" /\ result = "ok"
  /\ Begin("stop") /\ doomed' = own /\ own' = None /\ pc' = "killpg"
  /\ UNCHANGED <<proc, term, spawned>>

\* CalcSupervisor.ensure_running: attach to a service that answers, or spawn
EnsureRunning ==
  /\ Manager = "CalcSupervisor" /\ pc = "idle" /\ op = "none"
  /\ op' = "ensure" /\ before' = {p \in Pids : Alive(p)}
  /\ IF \E p \in Pids : Answering(p)
     THEN /\ \E p \in Pids : Answering(p) /\ answered' = p
          /\ Finish("ok") /\ UNCHANGED <<proc, spawned, own>>
     ELSE SpawnNow /\ result' = "none" /\ answered' = None
  /\ UNCHANGED <<term, doomed>>

\* CalcSupervisor.restart, up to the owned child's SIGTERM
Restart ==
  /\ Manager = "CalcSupervisor" /\ pc = "idle" /\ op # "none" /\ spawned < MaxSpawns
  /\ Begin("restart")
  /\ IF own = None THEN pc' = "free_port" /\ UNCHANGED <<own, doomed>>
                   ELSE doomed' = own /\ own' = None /\ pc' = "killpg"
  /\ UNCHANGED <<proc, term, spawned>>

AfterStop == IF op = "restart" THEN pc' = "free_port" /\ UNCHANGED result ELSE Finish("ok")

\* os.killpg(SIGTERM); a group that is gone is only reaped
KillGroup ==
  /\ pc = "killpg"
  /\ IF Alive(doomed)
     THEN term' = term \cup {doomed} /\ pc' = "grace" /\ UNCHANGED <<doomed, result>>
     ELSE doomed' = None /\ AfterStop /\ UNCHANGED term
  /\ UNCHANGED <<proc, spawned, own, op, answered, before>>

\* proc.wait(timeout=STOP_GRACE_S)
Gone ==
  /\ pc = "grace" /\ ~ Alive(doomed)
  /\ doomed' = None /\ AfterStop
  /\ UNCHANGED <<proc, term, spawned, own, op, answered, before>>

\* (for mutation) the grace period runs out and the stop returns
Expire_Returns ==
  /\ pc = "grace" /\ Alive(doomed)
  /\ doomed' = None /\ AfterStop
  /\ UNCHANGED <<proc, term, spawned, own, op, answered, before>>

\* subprocess.TimeoutExpired: SIGKILL to the group, and wait
Expire ==
  /\ pc = "grace" /\ Alive(doomed)
  /\ proc' = [proc EXCEPT ![doomed] = "dead"] /\ term' = term \ {doomed}
  /\ doomed' = None /\ AfterStop
  /\ UNCHANGED <<spawned, own, op, answered, before>>

\* _free_port: SIGTERM to whoever listens
FreePort ==
  /\ pc = "free_port"
  /\ term' = term \cup {p \in Pids : Holding(p)}
  /\ pc' = "settle"
  /\ UNCHANGED <<proc, spawned, own, doomed, op, result, answered, before>>

\* 0.3 s later
Respawn ==
  /\ pc = "settle"
  /\ SpawnNow
  /\ UNCHANGED <<term, doomed, op, result, answered, before>>

\* The wait for health: the child that has exited raises RuntimeError ...
Poll ==
  /\ pc = "poll"
  /\ IF Alive(own) THEN pc' = "probe" /\ UNCHANGED result ELSE Finish("raised")
  /\ UNCHANGED <<proc, term, spawned, own, doomed, op, answered, before>>

\* ... whoever answers on the port ends the wait, and so does its deadline.
Probe ==
  /\ pc = "probe"
  /\ \/ \E p \in Pids : Answering(p) /\ answered' = p /\ Finish("ok")
     \/ /\ ~ \E p \in Pids : Answering(p)
        /\ pc' = "poll" /\ UNCHANGED <<result, answered>>
  /\ UNCHANGED <<proc, term, spawned, own, doomed, op, before>>

\* TimeoutError
Deadline ==
  /\ pc = "poll"
  /\ Finish("raised")
  /\ UNCHANGED <<proc, term, spawned, own, doomed, op, answered, before>>

ProcessStep == \E p \in Pids :
  Listen(p) \/ Fail(p) \/ End(p) \/ GetBusy(p) \/ GetFree(p) \/ HandleTerm(p)
ManagerStep == KillGroup \/ Gone \/ Expire \/ FreePort \/ Respawn \/ Poll \/ Probe \/ Deadline
Call == Enter \/ Stop \/ EnsureRunning \/ Restart

Next == ProcessStep \/ ManagerStep \/ Call
Spec == Init /\ [][Next]_vars
\* The manager's thread runs, and so does the clock that the head of the wait
\* looks at again and again; the processes promise nothing.
FairSpec == Spec /\ WF_vars(ManagerStep) /\ SF_vars(Deadline)

(***************************************************************************)
(* Properties.                                                             *)
(***************************************************************************)
TypeOK ==
  /\ proc \in [Pids -> {"absent", "booting", "listening", "busy", "failing", "draining", "dead"}]
  /\ term \subseteq Pids
  /\ spawned \in 0 .. MaxSpawns
  /\ own \in Children \cup {None} /\ doomed \in Children \cup {None}
  /\ pc \in {"idle", "killpg", "grace", "free_port", "settle", "poll", "probe"}
  /\ op \in {"none", "start", "stop", "ensure", "restart"}
  /\ result \in {"none", "ok", "raised"}
  /\ answered \in Pids \cup {None} /\ before \subseteq Pids
  /\ \A p, q \in Pids : Holding(p) /\ Holding(q) => p = q

\* The supervisor never has a child it has lost sight of, and never two: what
\* it started is its _proc or the process it is stopping, whatever timed out,
\* raised or was killed before (restart stops and waits before it spawns).
OneChild ==
  /\ \A p \in Children : Alive(p) => p \in {own, doomed}
  /\ doomed # None => own = None

\* A stop that has returned leaves no process behind, however busy it was:
\* SIGTERM, five seconds, SIGKILL, and a wait (stop and _stop_owned).
StoppedIsGone == op = "stop" /\ result = "ok" => ~ Alive(spawned)

\* Every call of a manager ends, whatever the processes do.
CallsEnd == (pc # "idle") ~> (pc = "idle")

\* The docstring of restart: "Kill owned child (if any) and start a fresh
\* process": when it returns, who answered was not there when it was called.
RestartIsFresh == op = "restart" /\ result = "ok" => answered \notin before

\* The decision record: the lifecycle is "spawn/health-check/SIGTERM on app
\* launch and exit": once a `with` statement is over, its service is too.
NothingIsLeftBehind ==
  pc = "idle" /\ (op = "stop" \/ result = "raised") => \A p \in Children : ~ Alive(p)
=============================================================================
