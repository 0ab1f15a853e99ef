----------------------------- MODULE CliSession -----------------------------
(***************************************************************************)
(* The prompt loop of the command line (cli.py), the choice of a thread    *)
(* (session.py) and the checkpoints the graph writes after every node.     *)
(*                                                                         *)
(* The loop keeps the state of the last line it could answer (mem); the    *)
(* graph reads and writes the database (store).  A line that raises in the *)
(* middle of a turn, an interrupt, or a second process on the same thread  *)
(* makes the two differ.  What the nodes do to the team is TeamDraft's and *)
(* TurnSession's; here a node only records its turn, asks a question or    *)
(* fails to.                                                               *)
(***************************************************************************)
EXTENDS Naturals

CONSTANTS
    Threads,    \* identifiers mint_thread_id may return
    NoThread,
    Procs,      \* command-line processes that share the database
    Parser,     \* a turn intent parser is configured (--provider)
    MaxTurns    \* bound: lines that reach the graph, over all processes

ASSUME CliAssumption ==
    /\ NoThread \notin Threads
    /\ Parser \in BOOLEAN
    /\ MaxTurns \in Nat

VARIABLES
    store,      \* store[t]: the values of the latest checkpoint of t
    known,      \* the threads that have a checkpoint
    newer,      \* <<t, u>>: the latest checkpoint of t is newer than that of u
    calcUp,     \* the calculator service answers
    turns,      \* lines that reached the graph so far
    pc,         \* pc[p]: what the process does; a node of the graph while it runs one
    thread,     \* thread[p]: the thread the prompt belongs to
    mem,        \* mem[p]: the state the loop keeps and prints from
    target,     \* target[p]: the thread of the running invoke
    run,        \* run[p]: the channel values of the running invoke
    turn,       \* turn[p]: the turn of the running invoke
    said        \* said[p]: the kind of the last message

vars == <<store, known, newer, calcUp, turns, pc, thread, mem, target, run, turn, said>>

-----------------------------------------------------------------------------
(* Values of a checkpoint *)

TurnIds == 1 .. MaxTurns
Errors == {"none", "calc", "other"}

\* The keys of RecommenderState the command line reads: the graph has been
\* initialized, the turns whose handler has been applied, the turn that asked
\* the pending question (0: none), candidate_discovery_error, the intent is
\* "deferred", the phase is complete, a pending slot intent or a provisional
\* slot is kept.
Values == [ready : BOOLEAN, hist : SUBSET TurnIds, screen : 0 .. MaxTurns,
           err : Errors, deferred : BOOLEAN, full : BOOLEAN, waits : BOOLEAN]

Blank == [ready |-> FALSE, hist |-> {}, screen |-> 0, err |-> "none",
          deferred |-> FALSE, full |-> FALSE, waits |-> FALSE]

is_incomplete(v) == v.ready /\ (~v.full \/ v.screen # 0 \/ v.waits)

thread_exists(t) == t \in known

\* pick_newest_incomplete over list_thread_summaries, newest first
pick_newest_incomplete(t) ==
    /\ t \in known
    /\ is_incomplete(store[t])
    /\ \A u \in known : is_incomplete(store[u]) => u = t \/ <<t, u>> \in newer

\* handle_line refuses the line without invoking the graph.
DeadEnd(v) == v.screen = 0 /\ v.err # "none"

Nodes == {"initialize", "classify", "handle", "discover"}
Running == Nodes \cup {"answer"}

\* SqliteSaver.put: the thread becomes the one with the latest checkpoint.
Put(t, v) ==
    /\ store' = [store EXCEPT ![t] = v]
    /\ known' = known \cup {t}
    /\ newer' = {e \in newer : e[1] # t /\ e[2] # t} \cup {<<t, u>> : u \in known \ {t}}

-----------------------------------------------------------------------------
(* Starting and leaving *)

Init ==
    /\ store = [t \in Threads |-> Blank]
    /\ known = {}
    /\ newer = {}
    /\ calcUp = TRUE
    /\ turns = 0
    /\ pc = [p \in Procs |-> "off"]
    /\ thread = [p \in Procs |-> NoThread]
    /\ mem = [p \in Procs |-> Blank]
    /\ target = [p \in Procs |-> NoThread]
    /\ run = [p \in Procs |-> Blank]
    /\ turn = [p \in Procs |-> 0]
    /\ said = [p \in Procs |-> "nothing"]

\* (for mutation) The invoke starts from the state the loop kept.
Loaded_FromMemory(p, t) == IF t = thread[p] THEN mem[p] ELSE store[t]

\* The values an invoke starts from: get_state of its own thread.
Loaded(p, t) == store[t]

\* graph.invoke writes its input as a checkpoint and routes from START.
Invoke(p, t) ==
    LET v == Loaded(p, t) IN
    /\ turns < MaxTurns
    /\ turns' = turns + 1
    /\ turn' = [turn EXCEPT ![p] = turns + 1]
    /\ target' = [target EXCEPT ![p] = t]
    /\ run' = [run EXCEPT ![p] = v]
    /\ Put(t, v)
    /\ pc' = [pc EXCEPT ![p] = IF v.ready THEN "classify" ELSE "initialize"]
    /\ UNCHANGED <<calcUp, thread, mem, said>>

\* The thread is printed and the prompt appears.
Open(p, t) ==
    /\ pc' = [pc EXCEPT ![p] = "prompt"]
    /\ thread' = [thread EXCEPT ![p] = t]
    /\ mem' = [mem EXCEPT ![p] = store[t]]
    /\ said' = [said EXCEPT ![p] = "turn"]
    /\ UNCHANGED <<store, known, newer, calcUp, turns, target, run, turn>>

\* main --new, and main without flags when nothing is incomplete.
StartNew(p, t) == pc[p] = "off" /\ ~thread_exists(t) /\ Invoke(p, t)

\* main without flags: the newest incomplete thread is resumed.
StartResume(p, t) == pc[p] = "off" /\ pick_newest_incomplete(t) /\ Open(p, t)

\* main --thread ID
StartExplicit(p, t) == pc[p] = "off" /\ thread_exists(t) /\ Open(p, t)

Exit(p, message) ==
    /\ pc' = [pc EXCEPT ![p] = "off"]
    /\ thread' = [thread EXCEPT ![p] = NoThread]
    /\ mem' = [mem EXCEPT ![p] = Blank]
    /\ target' = [target EXCEPT ![p] = NoThread]
    /\ run' = [run EXCEPT ![p] = Blank]
    /\ turn' = [turn EXCEPT ![p] = 0]
    /\ said' = [said EXCEPT ![p] = message]
    /\ UNCHANGED <<store, known, newer, calcUp, turns>>

\* :q, end of file, or Ctrl+C at the prompt.
Leave(p) == pc[p] = "prompt" /\ \E message \in {"bye", "saved"} : Exit(p, message)

\* Ctrl+C, or the death of the process, while the graph runs.
Interrupt(p) == pc[p] \in Running /\ Exit(p, "may lag")

-----------------------------------------------------------------------------
(* One line of input: handle_line *)

\* The in-memory state says that discovery failed without a question.
Stopped(p) ==
    /\ pc[p] = "prompt"
    /\ DeadEnd(mem[p])
    /\ said' = [said EXCEPT ![p] = "stopped"]
    /\ UNCHANGED <<store, known, newer, calcUp, turns, pc, thread, mem, target, run, turn>>

\* (for mutation) The graph is invoked whatever the state says.
Line_Unguarded(p) ==
    /\ pc[p] = "prompt"
    /\ Invoke(p, thread[p])

Line(p) ==
    /\ pc[p] = "prompt"
    /\ ~DeadEnd(mem[p])
    /\ Invoke(p, thread[p])

\* :new mints a thread and invokes the graph on it, outside any try.
New(p, t) == pc[p] = "prompt" /\ ~thread_exists(t) /\ Invoke(p, t)

-----------------------------------------------------------------------------
(* The nodes of the graph *)

\* A node has returned v: its checkpoint is written, the next node runs.
Step(p, v, next) ==
    /\ run' = [run EXCEPT ![p] = v]
    /\ Put(target[p], v)
    /\ pc' = [pc EXCEPT ![p] = next]
    /\ UNCHANGED <<calcUp, turns, thread, mem, target, turn, said>>

Initialize(p) ==
    /\ pc[p] = "initialize"
    /\ Step(p, [run[p] EXCEPT !.ready = TRUE], "discover")

\* The line is read against the stored question: it steers, it answers and
\* closes the question (a choice starts a build, a change of subject drops
\* it), or it defers both.  Without a question a parser is needed.
Classify(p) ==
    /\ pc[p] = "classify"
    /\ run[p].screen # 0 \/ Parser
    /\ \/ \E v \in {run[p]} \cup {[run[p] EXCEPT !.screen = 0, !.waits = w] : w \in BOOLEAN},
             next \in {"handle", "discover"} :
              Step(p, [v EXCEPT !.deferred = FALSE], next)
       \/ Step(p, [run[p] EXCEPT !.deferred = FALSE], "answer")
       \/ Step(p, [run[p] EXCEPT !.screen = 0, !.waits = FALSE, !.deferred = TRUE], "answer")

\* A handler refuses, or applies the turn: it may ask a question of its own,
\* and keeps or drops the build that waits.
Handle(p) ==
    /\ pc[p] = "handle"
    /\ \/ Step(p, run[p], "answer")
       \/ \E f, w \in BOOLEAN, next \in {"discover", "answer"},
             v \in {[run[p] EXCEPT !.screen = turn[p]], run[p],
                    [run[p] EXCEPT !.screen = 0, !.err = "none"]} :
              Step(p, [v EXCEPT !.hist = @ \cup {turn[p]}, !.full = f, !.waits = w], next)

\* Discovery asks the next question, asks it with an error beside it, fails
\* without a question, or (complete team, no open slot) leaves the question.
Discovered(p) ==
    LET failures == IF calcUp THEN {"other"} ELSE {"calc", "other"} IN
    {[run[p] EXCEPT !.screen = turn[p], !.err = e] : e \in failures \cup {"none"}}
        \cup {[run[p] EXCEPT !.screen = 0, !.err = e] : e \in failures}
        \cup {[run[p] EXCEPT !.err = e] : e \in failures \cup {"none"}}

Discover(p) ==
    /\ pc[p] = "discover"
    /\ \E v \in Discovered(p) : Step(p, v, "answer")

\* (for mutation) The loop takes the state of a new session, not its thread.
Answer_OldThread(p) ==
    /\ pc[p] = "answer"
    /\ pc' = [pc EXCEPT ![p] = "prompt"]
    /\ mem' = [mem EXCEPT ![p] = run[p]]
    /\ target' = [target EXCEPT ![p] = NoThread]
    /\ run' = [run EXCEPT ![p] = Blank]
    /\ turn' = [turn EXCEPT ![p] = 0]
    /\ said' = [said EXCEPT ![p] = "turn"]
    /\ UNCHANGED <<store, known, newer, calcUp, turns, thread>>

\* invoke returns: the loop takes the new state and prints it.
Answer(p) ==
    /\ pc[p] = "answer"
    /\ pc' = [pc EXCEPT ![p] = "prompt"]
    /\ thread' = [thread EXCEPT ![p] = target[p]]
    /\ mem' = [mem EXCEPT ![p] = run[p]]
    /\ target' = [target EXCEPT ![p] = NoThread]
    /\ run' = [run EXCEPT ![p] = Blank]
    /\ turn' = [turn EXCEPT ![p] = 0]
    /\ said' = [said EXCEPT ![p] = "turn"]
    /\ UNCHANGED <<store, known, newer, calcUp, turns>>

\* A node raises.  In a line of the user the loop goes on with the state it
\* had; in a new session the exception ends the process.
Raise(p) ==
    /\ pc[p] \in Nodes
    /\ IF target[p] = thread[p]
       THEN /\ pc' = [pc EXCEPT ![p] = "prompt"]
            /\ target' = [target EXCEPT ![p] = NoThread]
            /\ run' = [run EXCEPT ![p] = Blank]
            /\ turn' = [turn EXCEPT ![p] = 0]
            /\ said' = [said EXCEPT ![p] = "failed"]
            /\ UNCHANGED <<store, known, newer, calcUp, turns, thread, mem>>
       ELSE Exit(p, "traceback")

\* The calculator goes down or is started again.
CalcFlips ==
    /\ calcUp' = ~calcUp
    /\ UNCHANGED <<store, known, newer, turns, pc, thread, mem, target, run, turn, said>>

Node(p) == Initialize(p) \/ Classify(p) \/ Handle(p) \/ Discover(p)

Start(p) ==
    \E t \in Threads : StartResume(p, t) \/ StartNew(p, t) \/ StartExplicit(p, t)

Prompt(p) ==
    \/ Stopped(p)
    \/ Line(p)
    \/ \E t \in Threads : New(p, t)

Next ==
    \/ \E p \in Procs : Start(p) \/ Prompt(p) \/ Node(p) \/ Answer(p) \/ Raise(p)
                            \/ Leave(p) \/ Interrupt(p)
    \/ CalcFlips

Spec == Init /\ [][Next]_vars

\* A node returns or raises: every call it makes has a deadline.
Fair == \A p \in Procs : WF_vars(Node(p) \/ Answer(p) \/ Raise(p))

FairSpec == Spec /\ Fair

-----------------------------------------------------------------------------
(* Properties *)

Messages == {"nothing", "turn", "bye", "saved", "may lag", "stopped", "failed", "traceback"}

\* The variables keep their types, and a process that runs a node has a thread.
TypeOK ==
    /\ store \in [Threads -> Values]
    /\ known \subseteq Threads
    /\ newer \subseteq known \X known
    /\ calcUp \in BOOLEAN
    /\ turns \in 0 .. MaxTurns
    /\ pc \in [Procs -> {"off", "prompt"} \cup Running]
    /\ thread \in [Procs -> Threads \cup {NoThread}]
    /\ mem \in [Procs -> Values]
    /\ target \in [Procs -> Threads \cup {NoThread}]
    /\ run \in [Procs -> Values]
    /\ turn \in [Procs -> 0 .. MaxTurns]
    /\ said \in [Procs -> Messages]
    /\ \A p \in Procs : /\ pc[p] \in Running => target[p] \in Threads /\ turn[p] \in TurnIds
                        /\ pc[p] = "prompt" => thread[p] \in Threads

\* Whatever the checkpoints of all threads were written in, a program started
\* without flags has exactly one thread to resume while one is incomplete.
OneThreadToResume ==
    (\E t \in known : is_incomplete(store[t]))
        => \E t \in Threads : /\ pick_newest_incomplete(t)
                              /\ \A u \in Threads : pick_newest_incomplete(u) => u = t

\* Unless its last line raised, the prompt shows the thread as it is stored:
\* the reply to a question meets the question the user reads (one process).
ShownIsStored ==
    \A p \in Procs :
        pc[p] = "prompt" /\ said[p] # "failed" => mem[p] = store[thread[p]]

\* "Session saved": at the prompt every turn the user was shown is on disk.
SavedWhenTold ==
    \A p \in Procs : pc[p] = "prompt" => mem[p].hist \subseteq store[thread[p]].hist

\* Between any kills, failed lines and restarts: one thread to resume, and a
\* prompt that tells the truth about it (cli.py, the checkpointer).
ThreadsAreSound == TypeOK /\ OneThreadToResume /\ ShownIsStored /\ SavedWhenTold

\* A turn that was applied stays in its thread, also when the next line raises
\* and is typed again, and when the process is killed between two nodes.
NothingForgotten == [][\A t \in Threads : store[t].hist \subseteq store'[t].hist]_vars

\* Once the prompt of a thread has an error and no question, the thread never
\* changes again: neither a line nor a restart reaches its graph (one process).
DeadEndsAreForever ==
    \A t \in Threads :
        [](    (\E p \in Procs : pc[p] = "prompt" /\ thread[p] = t /\ DeadEnd(mem[p]))
            => []DeadEnd(store[t]))

\* Every line is answered: the prompt comes back or the process ends.
EveryLineIsAnswered ==
    \A p \in Procs : (pc[p] \in Running) ~> (pc[p] \in {"prompt", "off"})

\* The promise about the threads on disk, of one process.
recordOf == [t \in Threads |-> store[t].hist]

viewOf ==
    [p \in Procs |->
        IF thread[p] = NoThread THEN [open |-> FALSE, turns |-> {}]
        ELSE [open |-> TRUE, thread |-> thread[p], turns |-> mem[p].hist]]

Promise == INSTANCE SavedSession WITH
    Users <- Procs, Turns <- TurnIds, record <- recordOf, view <- viewOf

Promised == Promise!Spec

\* "state remains last successful checkpoint" when a line raises.
KeepsLastCheckpoint ==
    \A p \in Procs : pc[p] = "prompt" => mem[p] = store[thread[p]]

\* To defer a question is to pause: the thread can still be continued.
DeferIsAPause ==
    \A p \in Procs : pc[p] = "prompt" /\ mem[p].deferred => ~DeadEnd(mem[p])

\* "check the calc service, or use :new": a line typed once the calculator
\* answers again is not refused because it did not.
RepairReopens ==
    [][\A p \in Procs : said[p] # "stopped" /\ said'[p] = "stopped" =>
           ~(mem[p].err = "calc" /\ calcUp)]_vars
=============================================================================
