-------------------------- MODULE Programs_proof ---------------------------
(***************************************************************************)
(* The command line and the push script.                                   *)
(*                                                                         *)
(* CliSession: type correctness for any number of processes, and the       *)
(* refinement of SavedSession when one process uses the database.  The     *)
(* mapping needs one fact, that the values a running graph carries have    *)
(* the history stored for its thread; a second process on the same thread  *)
(* is what breaks it.                                                      *)
(*                                                                         *)
(* PushToMain, as the programs run it: what is on main stays true of the   *)
(* jobs that saw it, since main only grows, and every attempt that is      *)
(* behind a job is paid for by a failure or by a commit of another.        *)
(***************************************************************************)
EXTENDS MCPrograms, FiniteSetTheorems, TLAPS

-----------------------------------------------------------------------------
(* The command line and its checkpoints (CliSession).                      *)

\* What SqliteSaver.put leaves is well typed.
LEMMA PutType ==
    ASSUME TypeOK, NEW t \in Threads, NEW v \in Values, Put(t, v)
    PROVE  /\ store' \in [Threads -> Values]
           /\ known' \subseteq Threads
           /\ newer' \subseteq known' \X known'
BY DEF TypeOK, Put

\* An invoke starts from the values its own thread has stored.
LEMMA InvokeType ==
    ASSUME TypeOK, NEW p \in Procs, NEW t \in Threads, Invoke(p, t)
    PROVE  TypeOK'
<1>1. store[t] \in Values
    BY DEF TypeOK
<1>2. Put(t, store[t])
    BY DEF Invoke, Loaded
<1>3. /\ store' \in [Threads -> Values]
      /\ known' \subseteq Threads
      /\ newer' \subseteq known' \X known'
    BY <1>1, <1>2, PutType
<1>4. turns' \in 0 .. MaxTurns /\ turns + 1 \in TurnIds
    BY CliAssumption DEF TypeOK, Invoke, TurnIds
<1>5. pc' \in [Procs -> {"off", "prompt"} \cup Running]
    BY DEF TypeOK, Invoke, Loaded, Running, Nodes
<1>6. /\ run' \in [Procs -> Values]
      /\ turn' \in [Procs -> 0 .. MaxTurns]
      /\ target' \in [Procs -> Threads \cup {NoThread}]
    BY <1>1, <1>4 DEF TypeOK, Invoke, Loaded, TurnIds
<1>7. ASSUME NEW q \in Procs
      PROVE  /\ pc'[q] \in Running => target'[q] \in Threads /\ turn'[q] \in TurnIds
             /\ pc'[q] = "prompt" => thread'[q] \in Threads
    <2>1. CASE q = p
        BY <1>4, <2>1 DEF TypeOK, Invoke, Loaded, Running, Nodes
    <2>2. CASE q # p
        BY <2>2 DEF TypeOK, Invoke, Loaded
    <2> QED BY <2>1, <2>2
<1> QED BY <1>3, <1>4, <1>5, <1>6, <1>7 DEF TypeOK, Invoke

\* Opening a stored thread shows its values.
LEMMA OpenType ==
    ASSUME TypeOK, NEW p \in Procs, NEW t \in Threads, Open(p, t)
    PROVE  TypeOK'
<1>1. /\ pc' \in [Procs -> {"off", "prompt"} \cup Running]
      /\ thread' \in [Procs -> Threads \cup {NoThread}]
      /\ mem' \in [Procs -> Values]
      /\ said' \in [Procs -> Messages]
    BY DEF TypeOK, Open, Messages
<1>2. ASSUME NEW q \in Procs
      PROVE  /\ pc'[q] \in Running => target'[q] \in Threads /\ turn'[q] \in TurnIds
             /\ pc'[q] = "prompt" => thread'[q] \in Threads
    BY DEF TypeOK, Open, Running, Nodes
<1> QED BY <1>1, <1>2 DEF TypeOK, Open

\* The blank values are values.
LEMMA BlankType == Blank \in Values
BY CliAssumption DEF Blank, Values, Errors

\* Leaving resets what the process kept.
LEMMA ExitType ==
    ASSUME TypeOK, NEW p \in Procs, NEW message \in Messages, Exit(p, message)
    PROVE  TypeOK'
<1>1. /\ pc' \in [Procs -> {"off", "prompt"} \cup Running]
      /\ thread' \in [Procs -> Threads \cup {NoThread}]
      /\ mem' \in [Procs -> Values]
      /\ target' \in [Procs -> Threads \cup {NoThread}]
      /\ run' \in [Procs -> Values]
      /\ turn' \in [Procs -> 0 .. MaxTurns]
      /\ said' \in [Procs -> Messages]
    BY BlankType, CliAssumption DEF TypeOK, Exit
<1>2. ASSUME NEW q \in Procs
      PROVE  /\ pc'[q] \in Running => target'[q] \in Threads /\ turn'[q] \in TurnIds
             /\ pc'[q] = "prompt" => thread'[q] \in Threads
    BY DEF TypeOK, Exit, Running, Nodes
<1> QED BY <1>1, <1>2 DEF TypeOK, Exit

\* A node of the graph saves well-typed values and hands on to a node.
LEMMA StepType ==
    ASSUME TypeOK, NEW p \in Procs, pc[p] \in Running, NEW v \in Values,
           NEW next \in Running, Step(p, v, next)
    PROVE  TypeOK'
<1>1. target[p] \in Threads /\ turn[p] \in TurnIds
    BY DEF TypeOK
<1>2. /\ store' \in [Threads -> Values]
      /\ known' \subseteq Threads
      /\ newer' \subseteq known' \X known'
    BY <1>1, PutType DEF Step
<1>3. /\ run' \in [Procs -> Values]
      /\ pc' \in [Procs -> {"off", "prompt"} \cup Running]
    BY DEF TypeOK, Step
<1>4. ASSUME NEW q \in Procs
      PROVE  /\ pc'[q] \in Running => target'[q] \in Threads /\ turn'[q] \in TurnIds
             /\ pc'[q] = "prompt" => thread'[q] \in Threads
    BY <1>1 DEF TypeOK, Step, Running, Nodes
<1> QED BY <1>2, <1>3, <1>4 DEF TypeOK, Step

\* What the nodes do to the values: a node keeps the history or adds its turn.
LEMMA NodeStep ==
    ASSUME TypeOK, NEW p \in Procs, Node(p)
    PROVE  /\ pc[p] \in Running
           /\ \E v \in Values, next \in Running :
                 /\ Step(p, v, next)
                 /\ v.hist = run[p].hist \/ v.hist = run[p].hist \cup {turn[p]}
<1>1. pc[p] \in Running
    BY DEF Node, Initialize, Classify, Handle, Discover, Running, Nodes
<1>2. run[p] \in Values /\ turn[p] \in TurnIds /\ turn[p] \in 0 .. MaxTurns
    BY <1>1 DEF TypeOK
<1>0. 0 \in 0 .. MaxTurns
    BY CliAssumption
<1>3. CASE Initialize(p)
    <2> DEFINE v == [run[p] EXCEPT !.ready = TRUE]
    <2>1. v \in Values /\ v.hist = run[p].hist
        BY <1>2 DEF Values
    <2> QED BY <1>1, <1>3, <2>1 DEF Initialize, Running, Nodes
<1>4. CASE Classify(p)
    <2>1. CASE \E u \in {run[p]} \cup {[run[p] EXCEPT !.screen = 0, !.waits = w] : w \in BOOLEAN},
                  next \in {"handle", "discover"} :
                   Step(p, [u EXCEPT !.deferred = FALSE], next)
        <3>1. PICK u \in {run[p]} \cup {[run[p] EXCEPT !.screen = 0, !.waits = w] : w \in BOOLEAN},
                   next \in {"handle", "discover"} :
                  Step(p, [u EXCEPT !.deferred = FALSE], next)
            BY <2>1
        <3>2. u \in Values /\ u.hist = run[p].hist
            <4>1. CASE u = run[p]
                BY <1>2, <4>1
            <4>2. CASE \E w \in BOOLEAN : u = [run[p] EXCEPT !.screen = 0, !.waits = w]
                BY <1>0, <1>2, <4>2 DEF Values
            <4> QED BY <3>1, <4>1, <4>2
        <3> DEFINE v == [u EXCEPT !.deferred = FALSE]
        <3>3. v \in Values /\ v.hist = run[p].hist
            BY <1>2, <3>2 DEF Values
        <3> QED BY <1>1, <3>1, <3>3 DEF Running, Nodes
    <2>2. CASE Step(p, [run[p] EXCEPT !.deferred = FALSE], "answer")
        <3> DEFINE v == [run[p] EXCEPT !.deferred = FALSE]
        <3>1. v \in Values /\ v.hist = run[p].hist
            BY <1>2 DEF Values
        <3> QED BY <1>1, <2>2, <3>1 DEF Running
    <2>3. CASE Step(p, [run[p] EXCEPT !.screen = 0, !.waits = FALSE, !.deferred = TRUE], "answer")
        <3> DEFINE v == [run[p] EXCEPT !.screen = 0, !.waits = FALSE, !.deferred = TRUE]
        <3>1. v \in Values /\ v.hist = run[p].hist
            BY <1>0, <1>2 DEF Values
        <3> QED BY <1>1, <2>3, <3>1 DEF Running
    <2> QED BY <1>4, <2>1, <2>2, <2>3 DEF Classify
<1>5. CASE Handle(p)
    <2>1. CASE Step(p, run[p], "answer")
        BY <1>1, <1>2, <2>1 DEF Running
    <2>2. CASE \E f, w \in BOOLEAN, next \in {"discover", "answer"},
                  u \in {[run[p] EXCEPT !.screen = turn[p]], run[p],
                         [run[p] EXCEPT !.screen = 0, !.err = "none"]} :
                  Step(p, [u EXCEPT !.hist = @ \cup {turn[p]}, !.full = f, !.waits = w], next)
        <3>1. PICK f, w \in BOOLEAN, next \in {"discover", "answer"},
                   u \in {[run[p] EXCEPT !.screen = turn[p]], run[p],
                          [run[p] EXCEPT !.screen = 0, !.err = "none"]} :
                  Step(p, [u EXCEPT !.hist = @ \cup {turn[p]}, !.full = f, !.waits = w], next)
            BY <2>2
        <3>2. u \in Values /\ u.hist = run[p].hist
            <4>1. CASE u = [run[p] EXCEPT !.screen = turn[p]]
                BY <1>2, <4>1 DEF Values
            <4>2. CASE u = [run[p] EXCEPT !.screen = 0, !.err = "none"]
                BY <1>0, <1>2, <4>2 DEF Values, Errors
            <4> QED BY <1>2, <4>1, <4>2
        <3> DEFINE v == [u EXCEPT !.hist = @ \cup {turn[p]}, !.full = f, !.waits = w]
        <3>3. v \in Values /\ v.hist = run[p].hist \cup {turn[p]}
            BY <1>2, <3>2 DEF Values
        <3> QED BY <1>1, <3>1, <3>3 DEF Running, Nodes
    <2> QED BY <1>5, <2>1, <2>2 DEF Handle
<1>6. CASE Discover(p)
    <2>1. PICK v \in Discovered(p) : Step(p, v, "answer")
        BY <1>6 DEF Discover
    <2>2. PICK e \in Errors :
              v \in {[run[p] EXCEPT !.screen = turn[p], !.err = e],
                     [run[p] EXCEPT !.screen = 0, !.err = e], [run[p] EXCEPT !.err = e]}
        BY DEF Discovered, Errors
    <2>3. v \in Values /\ v.hist = run[p].hist
        <3>1. CASE v = [run[p] EXCEPT !.screen = turn[p], !.err = e]
            BY <1>2, <3>1 DEF Values
        <3>2. CASE v = [run[p] EXCEPT !.screen = 0, !.err = e]
            BY <1>0, <1>2, <3>2 DEF Values
        <3>3. CASE v = [run[p] EXCEPT !.err = e]
            BY <1>2, <3>3 DEF Values
        <3> QED BY <2>2, <3>1, <3>2, <3>3
    <2> QED BY <1>1, <2>1, <2>3 DEF Running
<1> QED BY <1>3, <1>4, <1>5, <1>6 DEF Node

\* The prompt takes the values of the invoke that returned.
LEMMA AnswerType ==
    ASSUME TypeOK, NEW p \in Procs, Answer(p)
    PROVE  TypeOK'
<1>1. target[p] \in Threads /\ run[p] \in Values
    BY DEF TypeOK, Answer, Running
<1>2. /\ pc' \in [Procs -> {"off", "prompt"} \cup Running]
      /\ thread' \in [Procs -> Threads \cup {NoThread}]
      /\ mem' \in [Procs -> Values]
    BY <1>1 DEF TypeOK, Answer
<1>4. /\ target' \in [Procs -> Threads \cup {NoThread}]
      /\ run' \in [Procs -> Values]
    BY BlankType DEF TypeOK, Answer
<1>5. /\ turn' \in [Procs -> 0 .. MaxTurns]
      /\ said' \in [Procs -> Messages]
    <2>1. 0 \in 0 .. MaxTurns /\ "turn" \in Messages
        BY CliAssumption DEF Messages
    <2> QED BY <2>1 DEF TypeOK, Answer
<1>3. ASSUME NEW q \in Procs
      PROVE  /\ pc'[q] \in Running => target'[q] \in Threads /\ turn'[q] \in TurnIds
             /\ pc'[q] = "prompt" => thread'[q] \in Threads
    BY <1>1 DEF TypeOK, Answer, Running, Nodes
<1> QED BY <1>2, <1>3, <1>4, <1>5 DEF TypeOK, Answer

\* A failed line goes back to the prompt of the thread it was typed at.
LEMMA RaiseType ==
    ASSUME TypeOK, NEW p \in Procs, Raise(p)
    PROVE  TypeOK'
<1>1. pc[p] \in Running /\ target[p] \in Threads
    BY DEF TypeOK, Raise, Running
<1>2. CASE target[p] = thread[p]
    <2>1. /\ pc' \in [Procs -> {"off", "prompt"} \cup Running]
          /\ target' \in [Procs -> Threads \cup {NoThread}]
        BY <1>2 DEF TypeOK, Raise
    <2>3. /\ run' \in [Procs -> Values]
          /\ turn' \in [Procs -> 0 .. MaxTurns]
          /\ said' \in [Procs -> Messages]
        <3>1. 0 \in 0 .. MaxTurns /\ "failed" \in Messages
            BY CliAssumption DEF Messages
        <3> QED BY <1>2, <3>1, BlankType DEF TypeOK, Raise
    <2>2. ASSUME NEW q \in Procs
          PROVE  /\ pc'[q] \in Running => target'[q] \in Threads /\ turn'[q] \in TurnIds
                 /\ pc'[q] = "prompt" => thread'[q] \in Threads
        BY <1>1, <1>2 DEF TypeOK, Raise, Running, Nodes
    <2> QED BY <1>2, <2>1, <2>2, <2>3 DEF TypeOK, Raise
<1>3. CASE target[p] # thread[p]
    <2>1. Exit(p, "traceback")
        BY <1>3 DEF Raise
    <2> QED BY <2>1, ExitType DEF Messages
<1> QED BY <1>2, <1>3

-----------------------------------------------------------------------------

LEMMA InitType == Init => TypeOK
BY BlankType, CliAssumption DEF Init, TypeOK, Messages, Running, Nodes

LEMMA NextType == TypeOK /\ [Next]_vars => TypeOK'
<1> SUFFICES ASSUME TypeOK, [Next]_vars
             PROVE  TypeOK'
    OBVIOUS
<1>1. ASSUME NEW p \in Procs, Start(p)
      PROVE  TypeOK'
    BY <1>1, InvokeType, OpenType DEF Start, StartResume, StartNew, StartExplicit
<1>2. ASSUME NEW p \in Procs, Prompt(p)
      PROVE  TypeOK'
    <2>1. CASE Stopped(p)
        BY <2>1 DEF Stopped, TypeOK, Messages
    <2>2. CASE Line(p)
        <3>1. thread[p] \in Threads
            BY <2>2 DEF Line, TypeOK
        <3> QED BY <2>2, <3>1, InvokeType DEF Line
    <2>3. CASE \E t \in Threads : New(p, t)
        BY <2>3, InvokeType DEF New
    <2> QED BY <1>2, <2>1, <2>2, <2>3 DEF Prompt
<1>3. ASSUME NEW p \in Procs, Node(p)
      PROVE  TypeOK'
    BY <1>3, NodeStep, StepType
<1>4. ASSUME NEW p \in Procs, Leave(p) \/ Interrupt(p)
      PROVE  TypeOK'
    BY <1>4, ExitType DEF Leave, Interrupt, Messages
<1>5. CASE CalcFlips
    BY <1>5 DEF CalcFlips, TypeOK
<1>6. CASE UNCHANGED vars
    BY <1>6 DEF vars, TypeOK
<1> QED BY <1>1, <1>2, <1>3, <1>4, <1>5, <1>6, AnswerType, RaiseType DEF Next

\* The variables keep their types, for any number of threads and processes.
THEOREM CliTypeCorrect == Spec => []TypeOK
<1>1. Init => TypeOK
    BY InitType
<1>2. TypeOK /\ [Next]_vars => TypeOK'
    BY NextType
<1> QED BY <1>1, <1>2, PTL DEF Spec

-----------------------------------------------------------------------------
(* The refinement of SavedSession *)

\* The values of a running graph have the history stored for its thread.
InStep == \A p \in Procs : pc[p] \in Running => run[p].hist = store[target[p]].hist

LEMMA InitRefines == Init => InStep /\ Promise!Init
<1> SUFFICES ASSUME Init
             PROVE  InStep /\ Promise!Init
    OBVIOUS
<1>1. InStep
    BY DEF Init, InStep, Running, Nodes
<1>2. recordOf = [t \in Threads |-> {}]
    BY DEF Init, recordOf, Blank
<1>3. viewOf = [p \in Procs |-> Promise!Nothing]
    BY DEF Init, viewOf, Promise!Nothing
<1> QED BY <1>1, <1>2, <1>3 DEF Promise!Init

\* An invoke copies what is stored: no turn is recorded, nothing is shown.
LEMMA InvokeRefines ==
    ASSUME TypeOK, NEW p \in Procs, Procs = {p}, NEW t \in Threads, Invoke(p, t)
    PROVE  InStep' /\ UNCHANGED <<recordOf, viewOf>>
<1>1. store' = store
    BY DEF TypeOK, Invoke, Loaded, Put
<1>2. InStep'
    BY <1>1 DEF TypeOK, InStep, Invoke, Loaded
<1>3. UNCHANGED <<recordOf, viewOf>>
    BY <1>1 DEF Invoke, recordOf, viewOf
<1> QED BY <1>2, <1>3

LEMMA OpenRefines ==
    ASSUME TypeOK, NEW p \in Procs, Procs = {p}, NEW t \in Threads, Open(p, t)
    PROVE  InStep' /\ Promise!Show(p, t)
<1>1. InStep'
    BY DEF TypeOK, InStep, Open, Running, Nodes
<1>2. recordOf' = recordOf
    BY DEF Open, recordOf
<1>3. thread'[p] = t /\ mem'[p] = store[t]
    BY DEF TypeOK, Open
<1>4. viewOf' = [viewOf EXCEPT ![p] = [open |-> TRUE, thread |-> t, turns |-> recordOf[t]]]
    BY <1>3, CliAssumption DEF viewOf, recordOf
<1> QED BY <1>1, <1>2, <1>4 DEF Promise!Show

LEMMA ExitRefines ==
    ASSUME TypeOK, NEW p \in Procs, Procs = {p}, NEW message \in Messages, Exit(p, message)
    PROVE  InStep' /\ Promise!Leave(p)
<1>1. InStep'
    BY DEF TypeOK, InStep, Exit, Running, Nodes
<1>2. recordOf' = recordOf
    BY DEF Exit, recordOf
<1>3. thread'[p] = NoThread
    BY DEF TypeOK, Exit
<1>4. viewOf' = [viewOf EXCEPT ![p] = Promise!Nothing]
    BY <1>3 DEF viewOf, Promise!Nothing
<1> QED BY <1>1, <1>2, <1>4 DEF Promise!Leave

\* A node adds its turn to what is recorded, or nothing.
LEMMA NodeRefines ==
    ASSUME TypeOK, InStep, NEW p \in Procs, Procs = {p}, Node(p)
    PROVE  InStep' /\ (UNCHANGED <<recordOf, viewOf>> \/ Promise!Record(target[p], turn[p]))
<1>1. PICK v \in Values, next \in Running :
          /\ Step(p, v, next)
          /\ v.hist = run[p].hist \/ v.hist = run[p].hist \cup {turn[p]}
    BY NodeStep
<1>2. pc[p] \in Running /\ target[p] \in Threads /\ run[p].hist = store[target[p]].hist
    BY NodeStep DEF TypeOK, InStep
<1>3. store' = [store EXCEPT ![target[p]] = v] /\ run'[p] = v /\ target' = target
    BY <1>1 DEF Step, Put, TypeOK
<1>4. InStep'
    BY <1>2, <1>3 DEF InStep, TypeOK
<1>5. viewOf' = viewOf
    BY <1>1 DEF Step, viewOf
<1>6. recordOf' = [recordOf EXCEPT ![target[p]] = v.hist]
    BY <1>2, <1>3 DEF recordOf, TypeOK
<1>7. recordOf[target[p]] = run[p].hist
    BY <1>2 DEF recordOf
<1>8. CASE v.hist = run[p].hist
    <2>1. recordOf' = recordOf
        BY <1>6, <1>7, <1>8 DEF recordOf
    <2> QED BY <1>4, <1>5, <2>1
<1>9. CASE v.hist = run[p].hist \cup {turn[p]}
    BY <1>4, <1>5, <1>6, <1>7, <1>9 DEF Promise!Record
<1> QED BY <1>1, <1>8, <1>9

\* The prompt shows what the graph has saved.
LEMMA AnswerRefines ==
    ASSUME TypeOK, InStep, NEW p \in Procs, Procs = {p}, Answer(p)
    PROVE  InStep' /\ Promise!Show(p, target[p])
<1>1. pc[p] \in Running /\ target[p] \in Threads /\ run[p].hist = store[target[p]].hist
    BY DEF TypeOK, InStep, Answer, Running
<1>2. InStep'
    BY DEF TypeOK, InStep, Answer, Running, Nodes
<1>3. recordOf' = recordOf
    BY DEF Answer, recordOf
<1>4. thread'[p] = target[p] /\ mem'[p] = run[p]
    BY DEF TypeOK, Answer
<1>5. viewOf' = [viewOf EXCEPT ![p] =
                    [open |-> TRUE, thread |-> target[p], turns |-> recordOf[target[p]]]]
    BY <1>1, <1>4, CliAssumption DEF viewOf, recordOf
<1> QED BY <1>2, <1>3, <1>5 DEF Promise!Show

LEMMA NextRefines ==
    ASSUME TypeOK, InStep, NEW q, Procs = {q}, [Next]_vars
    PROVE  InStep' /\ [Promise!Next]_<<recordOf, viewOf>>
<1> q \in Procs
    OBVIOUS
<1>1. CASE Start(q)
    BY <1>1, InvokeRefines, OpenRefines
    DEF Start, StartResume, StartNew, StartExplicit, Promise!Next
<1>2. CASE Prompt(q)
    <2>1. CASE Stopped(q)
        BY <2>1 DEF Stopped, InStep, recordOf, viewOf
    <2>2. CASE Line(q)
        <3>1. thread[q] \in Threads
            BY <2>2 DEF Line, TypeOK
        <3> QED BY <2>2, <3>1, InvokeRefines DEF Line
    <2>3. CASE \E t \in Threads : New(q, t)
        BY <2>3, InvokeRefines DEF New
    <2> QED BY <1>2, <2>1, <2>2, <2>3 DEF Prompt
<1>3. CASE Node(q)
    <2>1. target[q] \in Threads /\ turn[q] \in TurnIds
        BY <1>3, NodeStep DEF TypeOK
    <2> QED BY <1>3, <2>1, NodeRefines DEF Promise!Next
<1>4. CASE Answer(q)
    <2>1. target[q] \in Threads
        BY <1>4 DEF TypeOK, Answer, Running
    <2> QED BY <1>4, <2>1, AnswerRefines DEF Promise!Next
<1>5. CASE Raise(q)
    <2>1. CASE target[q] = thread[q]
        <3>1. InStep'
            BY <1>5, <2>1 DEF Raise, InStep, TypeOK, Running, Nodes
        <3>2. UNCHANGED <<recordOf, viewOf>>
            BY <1>5, <2>1 DEF Raise, recordOf, viewOf
        <3> QED BY <3>1, <3>2
    <2>2. CASE target[q] # thread[q]
        <3>1. Exit(q, "traceback")
            BY <1>5, <2>2 DEF Raise
        <3> QED BY <3>1, ExitRefines DEF Messages, Promise!Next
    <2> QED BY <2>1, <2>2
<1>6. CASE Leave(q) \/ Interrupt(q)
    BY <1>6, ExitRefines DEF Leave, Interrupt, Messages, Promise!Next
<1>7. CASE CalcFlips
    BY <1>7 DEF CalcFlips, InStep, recordOf, viewOf
<1>8. CASE UNCHANGED vars
    BY <1>8 DEF vars, InStep, recordOf, viewOf
<1> QED BY <1>1, <1>2, <1>3, <1>4, <1>5, <1>6, <1>7, <1>8 DEF Next

\* One process keeps the promise of SavedSession: what it has shown of a
\* thread is on disk, and what is on disk stays there.
THEOREM CliKeepsPromise ==
    ASSUME NEW q, Procs = {q}
    PROVE  Spec => Promised
<1>1. Init => TypeOK /\ InStep /\ Promise!Init
    BY InitType, InitRefines
<1>2. TypeOK /\ InStep /\ [Next]_vars
          => TypeOK' /\ InStep' /\ [Promise!Next]_<<recordOf, viewOf>>
    BY NextType, NextRefines
<1> QED BY <1>1, <1>2, PTL DEF Spec, Promised, Promise!Spec

-----------------------------------------------------------------------------
(* What the promise gives *)

\* The abstract steps only add to what is recorded and show what is recorded.
LEMMA PromiseStep ==
    ASSUME TypeOK, TypeOK', Promise!ShownIsOnDisk, [Promise!Next]_<<recordOf, viewOf>>
    PROVE  /\ Promise!ShownIsOnDisk'
           /\ \A t \in Threads : store[t].hist \subseteq store'[t].hist
<1> USE DEF Promise!ShownIsOnDisk
<1>0. /\ \A t \in Threads : recordOf[t] = store[t].hist /\ recordOf'[t] = store'[t].hist
      /\ DOMAIN recordOf = Threads /\ DOMAIN viewOf = Procs
    BY DEF recordOf, viewOf
<1>t. \A u \in Procs : viewOf[u].open => viewOf[u].thread \in Threads
    BY DEF viewOf, TypeOK
<1>1. ASSUME NEW t \in Threads, NEW d \in TurnIds, Promise!Record(t, d)
      PROVE  /\ Promise!ShownIsOnDisk'
             /\ \A u \in Threads : recordOf[u] \subseteq recordOf'[u]
    <2>1. \A u \in Threads : recordOf[u] \subseteq recordOf'[u]
        BY <1>0, <1>1 DEF Promise!Record
    <2> QED BY <1>t, <1>1, <2>1 DEF Promise!Record
<1>2. ASSUME NEW u \in Procs, NEW t \in Threads, Promise!Show(u, t)
      PROVE  Promise!ShownIsOnDisk' /\ recordOf' = recordOf
    BY <1>0, <1>2 DEF Promise!Show
<1>3. ASSUME NEW u \in Procs, Promise!Leave(u)
      PROVE  Promise!ShownIsOnDisk' /\ recordOf' = recordOf
    BY <1>0, <1>3 DEF Promise!Leave, Promise!Nothing
<1>4. CASE UNCHANGED <<recordOf, viewOf>>
    BY <1>0, <1>4
<1> QED BY <1>0, <1>1, <1>2, <1>3, <1>4 DEF Promise!Next

LEMMA CliInductive ==
    ASSUME NEW q, Procs = {q}
    PROVE  Spec => [](TypeOK /\ InStep /\ Promise!ShownIsOnDisk)
<1>1. Init => TypeOK /\ InStep /\ Promise!ShownIsOnDisk
    BY InitType, InitRefines DEF Promise!Init, Promise!Nothing, Promise!ShownIsOnDisk
<1>2. TypeOK /\ InStep /\ Promise!ShownIsOnDisk /\ [Next]_vars
          => (TypeOK /\ InStep /\ Promise!ShownIsOnDisk)'
    BY NextType, NextRefines, PromiseStep
<1> QED BY <1>1, <1>2, PTL DEF Spec

\* "Session saved": at the prompt of the only process, every turn its user has
\* been shown is on disk.
THEOREM CliSavesWhatItShows ==
    ASSUME NEW q, Procs = {q}
    PROVE  Spec => []SavedWhenTold
<1>1. TypeOK /\ Promise!ShownIsOnDisk => SavedWhenTold
    BY CliAssumption DEF TypeOK, Promise!ShownIsOnDisk, SavedWhenTold, viewOf, recordOf
<1> QED BY <1>1, CliInductive, PTL

\* No step of the only process undoes a turn that was applied.
THEOREM CliForgetsNothing ==
    ASSUME NEW q, Procs = {q}
    PROVE  Spec => NothingForgotten
<1>1. (TypeOK /\ InStep /\ Promise!ShownIsOnDisk) /\ [Next]_vars
          => [\A t \in Threads : store[t].hist \subseteq store'[t].hist]_vars
    BY NextType, NextRefines, PromiseStep
<1> QED BY <1>1, CliInductive, PTL DEF Spec, NothingForgotten

-----------------------------------------------------------------------------
(* One thread to resume *)

\* Of any two checkpoints one is newer, and any set of threads has a newest:
\* the order of the database is the order in which the graph wrote to it.
NewestFirst ==
    /\ \A e \in newer : <<e[2], e[1]>> \notin newer
    /\ \A S \in SUBSET known :
          S # {} => \E m \in S : \A u \in S : u = m \/ <<m, u>> \in newer

\* Every step leaves the database alone or writes one checkpoint.
LEMMA OneWrite ==
    ASSUME TypeOK, [Next]_vars
    PROVE  \/ \E t \in Threads, v \in Values : Put(t, v)
           \/ UNCHANGED <<store, known, newer>>
<1>1. ASSUME NEW p \in Procs, NEW t \in Threads, Invoke(p, t)
      PROVE  \E v \in Values : Put(t, v)
    BY <1>1 DEF Invoke, Loaded, TypeOK
<1>2. ASSUME NEW p \in Procs, NEW t \in Threads, Open(p, t)
      PROVE  UNCHANGED <<store, known, newer>>
    BY <1>2 DEF Open
<1>3. ASSUME NEW p \in Procs, Start(p)
      PROVE  \/ \E t \in Threads, v \in Values : Put(t, v)
             \/ UNCHANGED <<store, known, newer>>
    BY <1>1, <1>2, <1>3 DEF Start, StartResume, StartNew, StartExplicit
<1>4. ASSUME NEW p \in Procs, Prompt(p)
      PROVE  \/ \E t \in Threads, v \in Values : Put(t, v)
             \/ UNCHANGED <<store, known, newer>>
    <2>1. CASE Line(p)
        <3>1. thread[p] \in Threads
            BY <2>1 DEF Line, TypeOK
        <3> QED BY <1>1, <2>1, <3>1 DEF Line
    <2> QED BY <1>1, <1>4, <2>1 DEF Prompt, Stopped, New
<1>5. ASSUME NEW p \in Procs, Node(p)
      PROVE  \E t \in Threads, v \in Values : Put(t, v)
    <2>1. PICK v \in Values, next \in Running : Step(p, v, next)
        BY <1>5, NodeStep
    <2>2. target[p] \in Threads
        BY <1>5, NodeStep DEF TypeOK
    <2> QED BY <2>1, <2>2 DEF Step
<1>6. ASSUME NEW p \in Procs, Answer(p) \/ Raise(p) \/ Leave(p) \/ Interrupt(p)
      PROVE  UNCHANGED <<store, known, newer>>
    BY <1>6 DEF Answer, Raise, Leave, Interrupt, Exit
<1> QED BY <1>3, <1>4, <1>5, <1>6 DEF Next, CalcFlips, vars

\* The thread that is written becomes the newest; the others keep their order.
LEMMA PutKeepsOrder ==
    ASSUME TypeOK, NewestFirst, NEW t \in Threads, NEW v \in Values, Put(t, v)
    PROVE  NewestFirst'
<1>1. /\ known' = known \cup {t}
      /\ newer' = {e \in newer : e[1] # t /\ e[2] # t} \cup {<<t, u>> : u \in known \ {t}}
    BY DEF Put
<1>2. ASSUME NEW e \in newer'
      PROVE  <<e[2], e[1]>> \notin newer'
    <2>1. CASE e[1] # t /\ e[2] # t
        BY <1>1, <1>2, <2>1 DEF NewestFirst
    <2>2. CASE \E u \in known \ {t} : e = <<t, u>>
        BY <1>1, <2>2
    <2> QED BY <1>1, <1>2, <2>1, <2>2
<1>3. ASSUME NEW S \in SUBSET known', S # {}
      PROVE  \E m \in S : \A u \in S : u = m \/ <<m, u>> \in newer'
    <2>1. CASE t \in S
        BY <1>1, <2>1
    <2>2. CASE t \notin S
        <3>1. S \in SUBSET known
            BY <1>1, <2>2
        <3>2. PICK m \in S : \A u \in S : u = m \/ <<m, u>> \in newer
            BY <1>3, <3>1 DEF NewestFirst
        <3>3. \A u \in S : u = m \/ <<m, u>> \in newer'
            BY <1>1, <2>2, <3>2
        <3> QED BY <3>3
    <2> QED BY <2>1, <2>2
<1> QED BY <1>2, <1>3 DEF NewestFirst

\* Of the incomplete threads the newest is resumed, and no other.
LEMMA NewestIsResumed == TypeOK /\ NewestFirst => OneThreadToResume
<1> SUFFICES ASSUME TypeOK, NewestFirst, \E t \in known : is_incomplete(store[t])
             PROVE  \E t \in Threads : /\ pick_newest_incomplete(t)
                                       /\ \A u \in Threads : pick_newest_incomplete(u) => u = t
    BY DEF OneThreadToResume
<1> DEFINE S == {t \in known : is_incomplete(store[t])}
<1>1. PICK m \in S : \A u \in S : u = m \/ <<m, u>> \in newer
    <2>1. S \in SUBSET known /\ S # {}
        OBVIOUS
    <2> QED BY <2>1 DEF NewestFirst
<1>2. m \in Threads /\ pick_newest_incomplete(m)
    BY <1>1 DEF pick_newest_incomplete, TypeOK
<1>3. ASSUME NEW u \in Threads, pick_newest_incomplete(u), u # m
      PROVE  FALSE
    <2>1. <<u, m>> \in newer /\ <<m, u>> \in newer
        BY <1>1, <1>3 DEF pick_newest_incomplete
    <2> QED BY <2>1 DEF NewestFirst
<1> QED BY <1>2, <1>3

\* Any number of processes and threads, killed and started at any moment: a
\* program started without flags resumes one thread while one is incomplete.
THEOREM CliResumesOneThread == Spec => []OneThreadToResume
<1>1. Init => NewestFirst
    BY DEF Init, NewestFirst
<1>2. TypeOK /\ NewestFirst /\ [Next]_vars => NewestFirst'
    <2> SUFFICES ASSUME TypeOK, NewestFirst, [Next]_vars
                 PROVE  NewestFirst'
        OBVIOUS
    <2>1. CASE \E t \in Threads, v \in Values : Put(t, v)
        BY <2>1, PutKeepsOrder
    <2>2. CASE UNCHANGED <<store, known, newer>>
        BY <2>2 DEF NewestFirst
    <2> QED BY <2>1, <2>2, OneWrite
<1> QED BY <1>1, <1>2, CliTypeCorrect, NewestIsResumed, PTL DEF Spec

-----------------------------------------------------------------------------
(* What the prompt shows is what is stored *)

\* A prompt and a running graph have a thread with a checkpoint, and a line
\* was only handed to the graph from a state that is no dead end.
Seated ==
    \A p \in Procs :
        /\ pc[p] = "off" => thread[p] = NoThread
        /\ pc[p] = "prompt" => thread[p] \in known
        /\ pc[p] \in Running => target[p] \in known
        /\ pc[p] \in Running /\ target[p] = thread[p] => ~DeadEnd(mem[p])

\* The graph carries the values of its last checkpoint; the prompt has them
\* too, unless the line failed.  A line that fails leaves no dead end behind.
Mirrored ==
    \A p \in Procs :
        /\ pc[p] \in Running => run[p] = store[target[p]]
        /\ pc[p] = "prompt" /\ (said[p] # "failed" \/ DeadEnd(mem[p]))
               => mem[p] = store[thread[p]]

Shown == TypeOK /\ Seated /\ Mirrored

LEMMA InvokeShows ==
    ASSUME Shown, NEW p \in Procs, Procs = {p}, NEW t \in Threads, Invoke(p, t),
           t = thread[p] => ~DeadEnd(mem[p])
    PROVE  Seated' /\ Mirrored'
<1>1. /\ pc'[p] \in Running /\ target'[p] = t /\ run'[p] = store[t]
      /\ thread' = thread /\ mem' = mem
      /\ store' = [store EXCEPT ![t] = store[t]] /\ known' = known \cup {t}
    BY DEF Shown, TypeOK, Invoke, Loaded, Put, Running, Nodes
<1>2. Seated'
    BY <1>1 DEF Seated, Running, Nodes, DeadEnd
<1>3. Mirrored'
    BY <1>1 DEF Mirrored, Shown, TypeOK, Running, Nodes
<1> QED BY <1>2, <1>3

LEMMA OpenShows ==
    ASSUME Shown, NEW p \in Procs, Procs = {p}, NEW t \in Threads, Open(p, t),
           thread_exists(t)
    PROVE  Seated' /\ Mirrored'
<1>1. /\ pc'[p] = "prompt" /\ thread'[p] = t /\ mem'[p] = store[t]
      /\ store' = store /\ known' = known /\ t \in known
    BY DEF Shown, TypeOK, Open, thread_exists
<1> QED BY <1>1 DEF Seated, Mirrored, Running, Nodes

LEMMA ExitShows ==
    ASSUME Shown, NEW p \in Procs, Procs = {p}, NEW message, Exit(p, message)
    PROVE  Seated' /\ Mirrored'
<1>1. pc'[p] = "off" /\ thread'[p] = NoThread
    BY DEF Shown, TypeOK, Exit
<1> QED BY <1>1 DEF Seated, Mirrored, Running, Nodes

LEMMA NodeShows ==
    ASSUME Shown, NEW p \in Procs, Procs = {p}, Node(p)
    PROVE  Seated' /\ Mirrored'
<1>1. PICK v \in Values, next \in Running : Step(p, v, next)
    BY NodeStep DEF Shown
<1>2. pc[p] \in Running /\ target[p] \in Threads
    BY NodeStep DEF Shown, TypeOK
<1>3. /\ pc'[p] = next /\ run'[p] = v /\ target' = target /\ thread' = thread /\ mem' = mem
      /\ store'[target[p]] = v /\ known' = known \cup {target[p]}
    BY <1>1, <1>2 DEF Shown, TypeOK, Step, Put
<1>4. Seated'
    BY <1>2, <1>3 DEF Shown, Seated, Running, Nodes, DeadEnd
<1>5. Mirrored'
    BY <1>3 DEF Mirrored, Running, Nodes
<1> QED BY <1>4, <1>5

LEMMA NextShows ==
    ASSUME NEW q, Procs = {q}
    PROVE  Shown /\ [Next]_vars => Shown'
<1> SUFFICES ASSUME Shown, [Next]_vars
             PROVE  Seated' /\ Mirrored'
    BY NextType DEF Shown
<1>0. q \in Procs
    OBVIOUS
<1>1. CASE Start(q)
    <2>1. PICK t \in Threads : StartResume(q, t) \/ StartNew(q, t) \/ StartExplicit(q, t)
        BY <1>1 DEF Start
    <2>2. CASE StartNew(q, t)
        <3>1. t # thread[q]
            BY <1>0, <2>2, CliAssumption DEF StartNew, Shown, Seated
        <3> QED BY <1>0, <2>2, <3>1, InvokeShows DEF StartNew
    <2>3. CASE StartResume(q, t) \/ StartExplicit(q, t)
        BY <1>0, <2>3, OpenShows
        DEF StartResume, StartExplicit, pick_newest_incomplete, thread_exists
    <2> QED BY <2>1, <2>2, <2>3
<1>2. CASE Stopped(q)
    <2>1. /\ pc[q] = "prompt" /\ DeadEnd(mem[q])
          /\ UNCHANGED <<store, known, pc, thread, mem, target, run>>
        BY <1>2 DEF Stopped
    <2>2. mem[q] = store[thread[q]]
        BY <1>0, <2>1 DEF Shown, Mirrored
    <2>3. Seated'
        BY <2>1 DEF Shown, Seated, Running, Nodes, DeadEnd
    <2>4. Mirrored'
        BY <2>1, <2>2 DEF Mirrored, Running, Nodes
    <2> QED BY <2>3, <2>4
<1>3. CASE Line(q)
    <2>1. thread[q] \in Threads
        BY <1>0, <1>3 DEF Line, Shown, TypeOK
    <2> QED BY <1>0, <1>3, <2>1, InvokeShows DEF Line
<1>4. CASE \E t \in Threads : New(q, t)
    <2>1. PICK t \in Threads : New(q, t)
        BY <1>4
    <2>2. t # thread[q]
        BY <1>0, <2>1 DEF New, Shown, Seated, thread_exists
    <2> QED BY <1>0, <2>1, <2>2, InvokeShows DEF New
<1>5. CASE Node(q)
    BY <1>0, <1>5, NodeShows
<1>6. CASE Answer(q)
    <2>1. pc[q] \in Running /\ target[q] \in known /\ run[q] = store[target[q]]
        BY <1>0, <1>6 DEF Answer, Shown, Seated, Mirrored, Running
    <2>2. /\ pc'[q] = "prompt" /\ thread'[q] = target[q] /\ mem'[q] = run[q]
          /\ store' = store /\ known' = known
        BY <1>0, <1>6 DEF Answer, Shown, TypeOK
    <2> QED BY <2>1, <2>2 DEF Seated, Mirrored, Running, Nodes
<1>7. CASE Raise(q)
    <2>1. CASE target[q] = thread[q]
        <3>1. pc[q] \in Running /\ target[q] \in known /\ ~DeadEnd(mem[q])
            BY <1>0, <1>7, <2>1 DEF Raise, Shown, Seated, Running
        <3>2. /\ pc'[q] = "prompt" /\ said'[q] = "failed"
              /\ UNCHANGED <<store, known, thread, mem>>
            BY <1>0, <1>7, <2>1 DEF Raise, Shown, TypeOK
        <3> QED BY <2>1, <3>1, <3>2 DEF Seated, Mirrored, Running, Nodes, DeadEnd
    <2>2. CASE target[q] # thread[q]
        BY <1>0, <1>7, <2>2, ExitShows DEF Raise
    <2> QED BY <2>1, <2>2
<1>8. CASE Leave(q) \/ Interrupt(q)
    BY <1>0, <1>8, ExitShows DEF Leave, Interrupt
<1>9. CASE CalcFlips \/ UNCHANGED vars
    <2>1. UNCHANGED <<store, known, pc, thread, mem, target, run, said>>
        BY <1>9 DEF CalcFlips, vars
    <2>2. Seated'
        BY <2>1 DEF Shown, Seated, DeadEnd
    <2>3. Mirrored'
        BY <2>1 DEF Shown, Mirrored, DeadEnd
    <2> QED BY <2>2, <2>3
<1> QED BY <1>1, <1>2, <1>3, <1>4, <1>5, <1>6, <1>7, <1>8, <1>9 DEF Next, Prompt

LEMMA CliShows ==
    ASSUME NEW q, Procs = {q}
    PROVE  Spec => []Shown
<1>1. Init => Shown
    BY InitType DEF Init, Shown, Seated, Mirrored, Running, Nodes
<1> QED BY <1>1, NextShows, PTL DEF Spec

\* Between any failed lines, kills and restarts of the only process: one thread
\* to resume, the question on the screen is the stored one, and what the user
\* was shown is on disk (cli.py, session.py, the checkpointer).
THEOREM ThreadsStaySound ==
    ASSUME NEW q, Procs = {q}
    PROVE  Spec => []ThreadsAreSound
<1>1. Shown => ShownIsStored
    BY DEF Shown, Mirrored, ShownIsStored
<1> QED BY <1>1, CliTypeCorrect, CliResumesOneThread, CliShows, CliSavesWhatItShows, PTL
        DEF ThreadsAreSound

\* Thread t is at its end: no graph runs on it, and its prompt knows.
Ended(t) ==
    /\ t \in known /\ DeadEnd(store[t])
    /\ \A p \in Procs : /\ pc[p] \in Running => target[p] # t
                        /\ pc[p] = "prompt" /\ thread[p] = t => DeadEnd(mem[p])

LEMMA EndedStays ==
    ASSUME NEW q, Procs = {q}, NEW t \in Threads, Shown, Ended(t), [Next]_vars
    PROVE  Ended(t)'
<1>0. q \in Procs
    OBVIOUS
<1> USE DEF Shown
<1>1. ASSUME NEW u \in Threads, u # t, Invoke(q, u)
      PROVE  Ended(t)'
    <2>1. /\ store'[t] = store[t] /\ t \in known' /\ target'[q] = u
          /\ pc'[q] \in Running
        BY <1>0, <1>1 DEF Invoke, Loaded, Put, TypeOK, Ended, Running, Nodes
    <2> QED BY <1>1, <2>1 DEF Ended, DeadEnd, Running, Nodes
<1>2. ASSUME NEW u \in Threads, Open(q, u)
      PROVE  Ended(t)'
    <2>1. /\ pc'[q] = "prompt" /\ thread'[q] = u /\ mem'[q] = store[u]
          /\ store' = store /\ known' = known
        BY <1>0, <1>2 DEF Open, TypeOK
    <2> QED BY <2>1 DEF Ended, DeadEnd, Running, Nodes
<1>3. ASSUME NEW message, Exit(q, message)
      PROVE  Ended(t)'
    <2>1. pc'[q] = "off" /\ store' = store /\ known' = known
        BY <1>0, <1>3 DEF Exit, TypeOK
    <2> QED BY <2>1 DEF Ended, DeadEnd, Running, Nodes
<1>4. CASE Start(q)
    BY <1>1, <1>2, <1>4 DEF Start, StartResume, StartNew, StartExplicit, Ended, thread_exists
<1>5. CASE Stopped(q)
    <2>1. UNCHANGED <<store, known, pc, thread, mem, target>>
        BY <1>5 DEF Stopped
    <2> QED BY <2>1 DEF Ended, DeadEnd
<1>6. CASE Line(q)
    <2>1. thread[q] \in Threads /\ thread[q] # t
        BY <1>0, <1>6 DEF Line, TypeOK, Ended
    <2> QED BY <1>1, <1>6, <2>1 DEF Line
<1>7. CASE \E u \in Threads : New(q, u)
    BY <1>1, <1>7 DEF New, Ended, thread_exists
<1>8. CASE Node(q)
    <2>1. PICK v \in Values, next \in Running : Step(q, v, next)
        BY <1>0, <1>8, NodeStep
    <2>2. pc[q] \in Running /\ target[q] \in Threads /\ target[q] # t
        BY <1>0, <1>8, NodeStep DEF TypeOK, Ended
    <2>3. /\ pc'[q] \in Running /\ target' = target /\ thread' = thread /\ mem' = mem
          /\ store'[t] = store[t] /\ t \in known'
        BY <1>0, <2>1, <2>2 DEF Step, Put, TypeOK, Ended
    <2> QED BY <1>0, <2>2, <2>3 DEF Ended, DeadEnd, Running, Nodes
<1>9. CASE Answer(q)
    <2>1. target[q] # t /\ pc'[q] = "prompt" /\ thread'[q] = target[q]
        BY <1>0, <1>9 DEF Answer, TypeOK, Ended, Running
    <2>2. store' = store /\ known' = known
        BY <1>9 DEF Answer
    <2> QED BY <2>1, <2>2 DEF Ended, DeadEnd, Running, Nodes
<1>10. CASE Raise(q)
    <2>1. CASE target[q] = thread[q]
        <3>1. thread[q] # t /\ pc'[q] = "prompt" /\ UNCHANGED <<store, known, thread, mem>>
            BY <1>0, <1>10, <2>1 DEF Raise, TypeOK, Ended, Running
        <3> QED BY <3>1 DEF Ended, DeadEnd, Running, Nodes
    <2>2. CASE target[q] # thread[q]
        BY <1>3, <1>10, <2>2 DEF Raise
    <2> QED BY <2>1, <2>2
<1>11. CASE Leave(q) \/ Interrupt(q)
    BY <1>3, <1>11 DEF Leave, Interrupt
<1>12. CASE CalcFlips \/ UNCHANGED vars
    <2>1. UNCHANGED <<store, known, pc, thread, mem, target>>
        BY <1>12 DEF CalcFlips, vars
    <2> QED BY <2>1 DEF Ended, DeadEnd
<1> QED BY <1>4, <1>5, <1>6, <1>7, <1>8, <1>9, <1>10, <1>11, <1>12 DEF Next, Prompt

\* Once the only process shows an error and no question, the thread is never
\* written again, by any line, restart or other thread (handle_line).
THEOREM CliDeadEndsAreForever ==
    ASSUME NEW q, Procs = {q}
    PROVE  Spec => DeadEndsAreForever
<1> SUFFICES ASSUME NEW t \in Threads
             PROVE  Spec =>
        [](    (\E p \in Procs : pc[p] = "prompt" /\ thread[p] = t /\ DeadEnd(mem[p]))
            => []DeadEnd(store[t]))
    BY DEF DeadEndsAreForever
<1> DEFINE AtEnd == \E p \in Procs : pc[p] = "prompt" /\ thread[p] = t /\ DeadEnd(mem[p])
<1>1. Shown /\ AtEnd => Ended(t)
    BY DEF Shown, Seated, Mirrored, Ended, Running, Nodes
<1>2. Shown /\ Ended(t) /\ [Next]_vars => Ended(t)'
    BY EndedStays
<1>3. Ended(t) => DeadEnd(store[t])
    BY DEF Ended
<1> QED BY <1>1, <1>2, <1>3, CliShows, PTL DEF Spec

-----------------------------------------------------------------------------
(* The push script (PushToMain).  main only grows, by commits that are not *)
(* on it, so what a job has seen of it stays true.  What a job knows is a  *)
(* fact per job; a step of one job or of a maintainer leaves the others'.  *)

Pushers == Jobs \union Merges

Published(j) == \E k \in 1 .. Len(branch) : branch[k] = j

Fetched == {"stash", "rebase", "push"}

\* How much of main a job has looked at when it pushes next.
Looked(j) == IF where[j] \in Fetched THEN seen[j] ELSE Len(branch)

\* The commits of others than j in m, after the first a and up to the first b.
Others(m, a, b, j) == {m[k] : k \in a + 1 .. b} \ {j}
Count(m, a, b, j) == Cardinality(Others(m, a, b, j))

\* Where a job stands on main.
Placed(j) ==
    /\ start[j] <= onto[j] /\ onto[j] <= Len(branch) /\ seen[j] <= Len(branch)
    /\ where[j] \in {"stash", "rebase"} => onto[j] <= seen[j]
    /\ where[j] = "push" => onto[j] = seen[j]

\* A commit is on main only after its job began, and a job that has fetched
\* since knows.
Aware(j) ==
    Published(j) => /\ where[j] # "away"
                    /\ where[j] \in Fetched => \E k \in 1 .. seen[j] : branch[k] = j

\* No attempt stashes twice.
Stowed(j) ==
    /\ where[j] = "away" => attempt[j] = 1 /\ stash[j] = 0
    /\ attempt[j] >= 1 /\ attempt[j] <= Retries /\ stash[j] <= attempt[j]
    /\ where[j] \in {"fetch", "stash"} => stash[j] < attempt[j]

\* Until the commit is on main, it stands on no change it clashes with.
Fresh(j) ==
    where[j] # "away" /\ ~ Published(j) =>
        \A b \in start[j] + 1 .. onto[j] : Touches[branch[b]] \intersect Touches[j] = {}

\* Every attempt that is behind a job has met a failure or a commit of
\* another.
Earned(j) ==
    /\ where[j] \in Fetched \union {"fetch"} =>
           Count(branch, start[j], Looked(j), j) + push_faults >= attempt[j] - 1
    /\ result[j] = "gave_up" => Count(branch, start[j], Len(branch), j) + push_faults >= Retries

\* A script that runs has no exit code, and only a push that was taken is
\* reported as one.
Truthful(j) ==
    /\ result[j] # "none" => where[j] = "done"
    /\ result[j] = "published" => Published(j)

JobKnows(j) == Placed(j) /\ Aware(j) /\ Stowed(j) /\ Fresh(j) /\ Earned(j) /\ Truthful(j)

Apart == \A a, b \in 1 .. Len(branch) : branch[a] = branch[b] => a = b

Results == {"none", "published", "conflict", "gave_up", "fetch_failed", "stash_refused", "killed"}

\* The types of what the jobs keep; the bound on stashes follows from Stowed.
Fields ==
    /\ where \in [Jobs -> {"away", "fetch", "stash", "rebase", "push", "done"}]
    /\ start \in [Jobs -> Nat] /\ seen \in [Jobs -> Nat] /\ onto \in [Jobs -> Nat]
    /\ popBase \in [Jobs -> Nat] /\ stash \in [Jobs -> Nat]
    /\ tree \in [Jobs -> {"clean", "dirty", "unmerged"}]
    /\ attempt \in [Jobs -> Nat]
    /\ result \in [Jobs -> Results]
    /\ push_faults \in Nat /\ push_faults <= MaxFaults

\* What is on main clashes with nothing between it and its checkout.
Unclashing ==
    \A k \in 1 .. Len(branch) : branch[k] \in Jobs =>
        \A b \in start[branch[k]] + 1 .. k - 1 :
            Touches[branch[b]] \intersect Touches[branch[k]] = {}

PushInv ==
    /\ branch \in Seq(Pushers) /\ Fields /\ Apart /\ Unclashing
    /\ \A j \in Jobs : JobKnows(j)

LEMMA PushNumbers ==
    /\ Retries \in Nat /\ Retries >= 1 /\ MaxFaults \in Nat
    /\ Jobs \intersect Merges = {}
BY PushAssumption DEF Push!RetriesAssumption, Push!CommitsAssumption

LEMMA OnMainIsPublished ==
    ASSUME branch \in Seq(Pushers), NEW i
    PROVE  Push!OnMain(i) <=> Published(i)
BY DEF Push!OnMain, Push!ToSet, Published

-----------------------------------------------------------------------------
(* How many commits others made.                                           *)

LEMMA OthersFinite ==
    ASSUME NEW m, NEW a \in Nat, NEW b \in Nat, NEW j
    PROVE  IsFiniteSet(Others(m, a, b, j)) /\ Count(m, a, b, j) \in Nat
<1> DEFINE T == {m[k] : k \in a + 1 .. b}
           f == [k \in a + 1 .. b |-> m[k]]
<1>1. f \in Surjection(a + 1 .. b, T)
    BY DEF Surjection
<1>2. IsFiniteSet(a + 1 .. b)
    BY FS_Interval
<1>3. IsFiniteSet(T)
    BY <1>1, <1>2, FS_Surjection
<1>4. IsFiniteSet(T \ {j})
    BY <1>3, FS_RemoveElement
<1> QED BY <1>4, FS_CardinalityType DEF Others, Count

\* n says the same as m up to l.
Agree(m, n, l) == \A k \in 1 .. l : n[k] = m[k]

\* Looking further on a main that has grown counts no fewer.
LEMMA OthersGrow ==
    ASSUME NEW m, NEW n, NEW l \in Nat, NEW a \in Nat, NEW b \in Nat, NEW c \in Nat,
           b <= c, b <= l, Agree(m, n, l), NEW j
    PROVE  Count(m, a, b, j) <= Count(n, a, c, j)
<1>1. Others(m, a, b, j) \subseteq Others(n, a, c, j)
    BY DEF Others, Agree
<1>2. IsFiniteSet(Others(n, a, c, j))
    BY OthersFinite
<1> QED BY <1>1, <1>2, FS_Subset DEF Count

\* A commit beyond those looked at, of another, is one more.
LEMMA OneMoreCommit ==
    ASSUME NEW m, NEW l \in Nat, NEW a \in Nat, NEW b \in Nat, a <= b, b < l,
           \A k, o \in 1 .. l : m[k] = m[o] => k = o, NEW j, m[b + 1] # j
    PROVE  Count(m, a, l, j) >= Count(m, a, b, j) + 1
<1>1. /\ IsFiniteSet(Others(m, a, b, j)) /\ Count(m, a, b, j) \in Nat
      /\ IsFiniteSet(Others(m, a, l, j)) /\ Count(m, a, l, j) \in Nat
    BY OthersFinite
<1>2. m[b + 1] \notin Others(m, a, b, j)
    BY DEF Others
<1>3. Others(m, a, b, j) \union {m[b + 1]} \subseteq Others(m, a, l, j)
    BY DEF Others
<1>4. Cardinality(Others(m, a, b, j) \union {m[b + 1]}) = Count(m, a, b, j) + 1
    BY <1>1, <1>2, FS_AddElement DEF Count
<1>5. Cardinality(Others(m, a, b, j) \union {m[b + 1]}) <= Count(m, a, l, j)
    BY <1>1, <1>3, FS_Subset DEF Count
<1> QED BY <1>1, <1>4, <1>5

-----------------------------------------------------------------------------
\* main grows, if at all, by a commit that is not on it.
GrowsBy(i) ==
    \/ branch' = branch
    \/ ~ Published(i) /\ branch' = Append(branch, i)

\* What a step does not write of a job.
Same(j) ==
    /\ where'[j] = where[j] /\ start'[j] = start[j] /\ seen'[j] = seen[j]
    /\ onto'[j] = onto[j] /\ stash'[j] = stash[j] /\ attempt'[j] = attempt[j]
    /\ result'[j] = result[j]

LEMMA Growing ==
    ASSUME branch \in Seq(Pushers), NEW i \in Pushers, GrowsBy(i)
    PROVE  /\ branch' \in Seq(Pushers) /\ Len(branch) <= Len(branch')
           /\ \A k \in 1 .. Len(branch) : branch'[k] = branch[k]
           /\ \A j : Published(j) => Published(j)'
           /\ \A j : j # i /\ Published(j)' => Published(j)
           /\ Apart => Apart'
BY DEF GrowsBy, Published, Apart

\* A job that does not take part knows what it knew.
LEMMA OthersKnow ==
    ASSUME branch \in Seq(Pushers), Fields, NEW i \in Pushers, GrowsBy(i),
           push_faults' \in Nat, push_faults' >= push_faults,
           NEW j \in Jobs, j # i, Same(j), JobKnows(j)
    PROVE  JobKnows(j)'
<1>1. /\ branch' \in Seq(Pushers) /\ Len(branch) <= Len(branch')
      /\ \A k \in 1 .. Len(branch) : branch'[k] = branch[k]
      /\ Published(j) <=> Published(j)'
    BY Growing
<1>a. Agree(branch, branch', Len(branch))
    BY <1>1 DEF Agree
<1>2. /\ Len(branch) \in Nat /\ Len(branch') \in Nat
      /\ start[j] \in Nat /\ seen[j] \in Nat /\ onto[j] \in Nat /\ attempt[j] \in Nat
      /\ push_faults \in Nat /\ Retries \in Nat
    BY <1>1, PushNumbers DEF Fields
<1>3. Placed(j)'
    BY <1>1, <1>2 DEF JobKnows, Placed, Same
<1>4. Aware(j)'
    <2>1. CASE where[j] \in Fetched /\ Published(j)
        <3>1. PICK k \in 1 .. seen[j] : branch[k] = j
            BY <2>1 DEF JobKnows, Aware
        <3>2. branch'[k] = j /\ k \in 1 .. seen'[j]
            BY <1>1, <1>2, <3>1 DEF JobKnows, Placed, Same
        <3> QED BY <2>1, <3>2 DEF Aware, Same, JobKnows, Fetched
    <2>2. CASE ~ (where[j] \in Fetched /\ Published(j))
        BY <1>1, <2>2 DEF JobKnows, Aware, Same, Fetched
    <2> QED BY <2>1, <2>2
<1>5. Stowed(j)'
    BY DEF JobKnows, Stowed, Same
<1>6. Fresh(j)'
    <2>1. \A b \in start[j] + 1 .. onto[j] : branch'[b] = branch[b]
        BY <1>1, <1>2 DEF JobKnows, Placed
    <2> QED BY <1>1, <1>2, <2>1 DEF JobKnows, Fresh, Same
<1>7. Earned(j)'
    <2> DEFINE before == Count(branch, start[j], Looked(j), j)
               after == Count(branch', start[j], Looked(j)', j)
               all == Count(branch, start[j], Len(branch), j)
               then == Count(branch', start[j], Len(branch'), j)
    <2>1. Looked(j) \in Nat /\ Looked(j)' \in Nat /\ Looked(j) <= Looked(j)' /\ Looked(j) <= Len(branch)
        BY <1>1, <1>2 DEF Looked, Same, JobKnows, Placed
    <2>2. before <= after
        BY <1>1, <1>a, <1>2, <2>1, OthersGrow
    <2>3. all <= then
        BY <1>1, <1>a, <1>2, OthersGrow
    <2>4. before \in Nat /\ after \in Nat /\ all \in Nat /\ then \in Nat
        BY <1>2, <2>1, OthersFinite
    <2>5. /\ where[j] \in Fetched \union {"fetch"} => before + push_faults >= attempt[j] - 1
          /\ result[j] = "gave_up" => all + push_faults >= Retries
        BY DEF JobKnows, Earned
    <2>6. /\ where[j] \in Fetched \union {"fetch"} => after + push_faults' >= attempt[j] - 1
          /\ result[j] = "gave_up" => then + push_faults' >= Retries
        <3> HIDE DEF before, after, all, then
        <3> QED BY <1>2, <2>2, <2>3, <2>4, <2>5
    <2> QED BY <2>6 DEF Earned, Same, Fetched
<1>8. Truthful(j)'
    BY <1>1 DEF JobKnows, Truthful, Same
<1> QED BY <1>3, <1>4, <1>5, <1>6, <1>7, <1>8 DEF JobKnows

\* A step of a job, or of a maintainer.
LEMMA StepKeeps ==
    ASSUME PushInv, NEW i \in Pushers, GrowsBy(i), Fields', push_faults' >= push_faults,
           \A j \in Jobs : j # i => Same(j),
           i \in Jobs => JobKnows(i)',
           i \in Jobs /\ Published(i)' => start'[i] = start[i],
           i \in Jobs /\ branch' # branch =>
               \A b \in start[i] + 1 .. Len(branch) : Touches[branch[b]] \intersect Touches[i] = {}
    PROVE  PushInv'
<1>1. /\ branch' \in Seq(Pushers) /\ Len(branch) <= Len(branch') /\ Apart'
      /\ \A k \in 1 .. Len(branch) : branch'[k] = branch[k]
      /\ Published(i) => Published(i)'
    BY Growing DEF PushInv
<1>2. \A j \in Jobs : JobKnows(j)'
    <2> SUFFICES ASSUME NEW j \in Jobs, j # i PROVE JobKnows(j)'
        OBVIOUS
    <2>1. push_faults' \in Nat
        BY DEF Fields, Same
    <2>2. Same(j)
        BY Zenon
    <2> QED BY <2>1, <2>2, OthersKnow DEF PushInv
<1>3. Unclashing'
    <2> SUFFICES ASSUME NEW k \in 1 .. Len(branch'), branch'[k] \in Jobs,
                        NEW b \in start'[branch'[k]] + 1 .. k - 1
                 PROVE  Touches[branch'[b]] \intersect Touches[branch'[k]] = {}
        BY DEF Unclashing
    <2>0. Len(branch) \in Nat /\ Len(branch') \in Nat /\ start' \in [Jobs -> Nat] /\ start \in [Jobs -> Nat]
        <3>1. branch \in Seq(Pushers) /\ Fields
            BY DEF PushInv
        <3>2. start' \in [Jobs -> Nat] /\ start \in [Jobs -> Nat]
            BY <3>1 DEF Fields
        <3> QED BY <1>1, <3>1, <3>2
    <2>1. CASE k <= Len(branch)
        <3>1. branch'[k] = branch[k] /\ Published(branch[k])
            BY <1>1, <2>1, <2>0 DEF Published
        <3>2. start'[branch[k]] = start[branch[k]]
            <4>1. CASE branch[k] # i
                BY <3>1, <4>1 DEF Same
            <4>2. CASE branch[k] = i
                BY <1>1, <3>1, <4>2
            <4> QED BY <4>1, <4>2
        <3>3. b \in start[branch[k]] + 1 .. k - 1 /\ branch'[b] = branch[b]
            BY <1>1, <2>0, <2>1, <3>1, <3>2
        <3>4. Unclashing /\ k \in 1 .. Len(branch) /\ branch[k] \in Jobs
            BY <2>0, <2>1, <3>1 DEF PushInv
        <3> QED BY <3>1, <3>3, <3>4 DEF Unclashing
    <2>2. CASE k > Len(branch)
        <3>1. branch' = Append(branch, i) /\ k = Len(branch) + 1 /\ branch'[k] = i
            <4>1. branch \in Seq(Pushers)
                BY DEF PushInv
            <4> QED BY <2>0, <2>2, <4>1 DEF GrowsBy
        <3>2. branch' # branch
            BY <2>0, <3>1
        <3>3. b \in start[i] + 1 .. Len(branch) /\ branch'[b] = branch[b]
            <4>1. Published(i)'
                BY <3>1 DEF Published
            <4> QED BY <1>1, <2>0, <3>1, <4>1
        <3> QED BY <3>1, <3>2, <3>3
    <2> QED BY <2>0, <2>1, <2>2
<1> QED BY <1>1, <1>2, <1>3 DEF PushInv

-----------------------------------------------------------------------------
(* The steps of a job.                                                     *)

\* What a step of job i leaves to be shown when main stays as it is.
LEMMA QuietStep ==
    ASSUME PushInv, NEW i \in Jobs, branch' = branch, Fields', push_faults' >= push_faults,
           \A j \in Jobs : j # i => Same(j),
           JobKnows(i)', Published(i) => start'[i] = start[i]
    PROVE  PushInv'
<1>1. i \in Pushers /\ GrowsBy(i)
    BY DEF Pushers, GrowsBy
<1>2. Published(i)' => Published(i)
    BY DEF Published
<1> QED BY <1>1, <1>2, StepKeeps

LEMMA CheckoutSound == ASSUME PushInv, NEW i \in Jobs, Push!Checkout(i) PROVE PushInv'
<1> USE DEF Push!Checkout, Push!Goto
<1>1. Fields' /\ push_faults' = push_faults /\ push_faults \in Nat
    BY DEF PushInv, Fields
<1>2. \A j \in Jobs : j # i => Same(j)
    BY DEF PushInv, Fields, Same
<1>3. /\ where[i] = "away" /\ ~ Published(i) /\ attempt[i] = 1 /\ stash[i] = 0
      /\ seen[i] \in Nat /\ seen[i] <= Len(branch) /\ Len(branch) \in Nat
    BY DEF PushInv, Fields, JobKnows, Aware, Stowed, Placed
<1>4. /\ where'[i] = "fetch" /\ start'[i] = Len(branch) /\ onto'[i] = Len(branch)
      /\ seen'[i] = seen[i] /\ attempt'[i] = 1 /\ stash'[i] = 0 /\ result'[i] = result[i]
      /\ branch' = branch
    BY <1>3 DEF PushInv, Fields
<1>5. Placed(i)' /\ Aware(i)' /\ Stowed(i)' /\ Fresh(i)' /\ Truthful(i)'
    BY <1>3, <1>4 DEF Placed, Aware, Stowed, Fresh, Truthful, Published, Fetched, PushInv, JobKnows
<1>6. Earned(i)'
    <2> DEFINE looked == Count(branch', start'[i], Len(branch'), i)
    <2>1. looked \in Nat
        BY <1>3, <1>4, OthersFinite
    <2>2. Looked(i)' = Len(branch')
        BY <1>4 DEF Looked, Fetched
    <2>3. result[i] # "gave_up"
        BY <1>3 DEF PushInv, JobKnows, Truthful
    <2> QED BY <1>1, <1>4, <2>1, <2>2, <2>3 DEF Earned
<1>7. JobKnows(i)'
    BY <1>5, <1>6 DEF JobKnows
<1> QED BY <1>1, <1>2, <1>3, <1>4, <1>7, QuietStep

\* What the invariant says of one job, and the types of what it keeps.
LEMMA JobFacts ==
    ASSUME PushInv, NEW i \in Jobs
    PROVE  /\ Fields /\ JobKnows(i) /\ Len(branch) \in Nat
           /\ start[i] \in Nat /\ seen[i] \in Nat /\ onto[i] \in Nat /\ stash[i] \in Nat
           /\ attempt[i] \in Nat /\ push_faults \in Nat /\ Retries \in Nat /\ MaxFaults \in Nat
BY PushNumbers DEF PushInv, Fields

\* A step that looks no further than before has to earn nothing.
LEMMA StillEarned ==
    ASSUME PushInv, NEW i \in Jobs, branch' = branch, push_faults' \in Nat,
           push_faults' >= push_faults, start'[i] = start[i], attempt'[i] = attempt[i],
           result'[i] # "gave_up",
           where'[i] \in Fetched \union {"fetch"} =>
               Looked(i)' = Looked(i) /\ where[i] \in Fetched \union {"fetch"}
    PROVE  Earned(i)'
<1>1. Looked(i) \in Nat
    BY JobFacts DEF Looked
<1>2. Count(branch, start[i], Looked(i), i) \in Nat
    BY <1>1, JobFacts, OthersFinite
<1>3. Earned(i) /\ attempt[i] \in Nat /\ push_faults \in Nat
    BY JobFacts DEF JobKnows
<1> QED BY <1>2, <1>3 DEF Earned

LEMMA FetchSound == ASSUME PushInv, NEW i \in Jobs, Push!Fetch(i) PROVE PushInv'
<1> USE DEF Push!Fetch, Push!Goto
<1>0. Fields /\ JobKnows(i) /\ Len(branch) \in Nat /\ push_faults \in Nat
    BY JobFacts
<1>1. Fields' /\ push_faults' = push_faults /\ branch' = branch
    BY <1>0 DEF Fields
<1>2. \A j \in Jobs : j # i => Same(j)
    BY <1>0 DEF Fields, Same
<1>3. /\ where[i] = "fetch" /\ where'[i] = "stash" /\ seen'[i] = Len(branch)
      /\ start'[i] = start[i] /\ onto'[i] = onto[i] /\ attempt'[i] = attempt[i]
      /\ stash'[i] = stash[i] /\ result'[i] = result[i]
    BY <1>0 DEF Fields
<1>4. Placed(i)' /\ Aware(i)' /\ Stowed(i)' /\ Fresh(i)' /\ Truthful(i)'
    BY <1>0, <1>1, <1>3 DEF Placed, Aware, Stowed, Fresh, Truthful, Published, Fetched, JobKnows
<1>5. Looked(i) = Len(branch) /\ Looked(i)' = Len(branch)
    BY <1>1, <1>3 DEF Looked, Fetched
<1>6. Earned(i)'
    BY <1>0, <1>1, <1>3, <1>5 DEF Earned, JobKnows
<1>7. JobKnows(i)'
    BY <1>4, <1>6 DEF JobKnows
<1> QED BY <1>0, <1>1, <1>2, <1>3, <1>7, QuietStep

\* A script that ends without a push leaves its commit where it was.
LEMMA EndSound ==
    ASSUME PushInv, NEW i \in Jobs, NEW how \in Results \ {"published", "gave_up"},
           Push!End(i, how), where[i] # "away", UNCHANGED <<branch, start, seen, onto, attempt>>,
           popBase' \in [Jobs -> Nat], tree' \in [Jobs -> {"clean", "dirty", "unmerged"}],
           stash' \in [Jobs -> Nat], stash'[i] <= stash[i],
           \A j \in Jobs : j # i => stash'[j] = stash[j],
           push_faults' \in Nat, push_faults' <= MaxFaults, push_faults' >= push_faults
    PROVE  PushInv'
<1> USE DEF Push!End
<1>0. Fields /\ JobKnows(i) /\ Len(branch) \in Nat /\ push_faults \in Nat
      /\ stash[i] \in Nat /\ attempt[i] \in Nat
    BY JobFacts
<1>1. Fields'
    BY <1>0 DEF Fields
<1>2. \A j \in Jobs : j # i => Same(j)
    BY <1>0 DEF Fields, Same
<1>3. where'[i] = "done" /\ result'[i] = how /\ stash'[i] \in Nat
    BY <1>0 DEF Fields
<1>4. Placed(i)' /\ Aware(i)' /\ Fresh(i)' /\ Truthful(i)'
    BY <1>0, <1>3 DEF Placed, Aware, Fresh, Truthful, Published, Fetched, JobKnows
<1>5. Stowed(i)'
    BY <1>0, <1>3 DEF Stowed, JobKnows
<1>6. Earned(i)'
    BY <1>3 DEF Earned, Fetched
<1>7. JobKnows(i)'
    BY <1>4, <1>5, <1>6 DEF JobKnows
<1> QED BY <1>0, <1>1, <1>2, <1>3, <1>7, QuietStep

LEMMA FailureSound ==
    ASSUME PushInv, NEW i \in Jobs, Push!FetchFails(i) \/ Push!StashRefused(i) \/ Push!Killed(i)
    PROVE  PushInv'
<1>0. Fields /\ push_faults \in Nat /\ MaxFaults \in Nat /\ stash[i] \in Nat
    BY JobFacts
<1>1. PICK how \in Results \ {"published", "gave_up"} : Push!End(i, how)
    BY DEF Push!FetchFails, Push!StashRefused, Push!Killed, Results
<1>2. /\ where[i] # "away"
      /\ UNCHANGED <<branch, start, seen, onto, attempt, popBase, tree, stash>>
      /\ push_faults' = push_faults \/ (push_faults < MaxFaults /\ push_faults' = push_faults + 1)
    <2>1. CASE Push!FetchFails(i)
        BY <2>1 DEF Push!FetchFails, Push!local
    <2>2. CASE Push!StashRefused(i)
        BY <2>2 DEF Push!StashRefused, Push!local
    <2>3. CASE Push!Killed(i)
        BY <2>3 DEF Push!Killed, Push!local
    <2> QED BY <2>1, <2>2, <2>3
<1>3. /\ push_faults' \in Nat /\ push_faults' <= MaxFaults /\ push_faults' >= push_faults
      /\ popBase' \in [Jobs -> Nat] /\ tree' \in [Jobs -> {"clean", "dirty", "unmerged"}]
      /\ stash' \in [Jobs -> Nat] /\ stash'[i] <= stash[i]
      /\ \A j \in Jobs : j # i => stash'[j] = stash[j]
    BY <1>0, <1>2 DEF Fields
<1> QED BY <1>1, <1>2, <1>3, EndSound

LEMMA StashSound == ASSUME PushInv, NEW i \in Jobs, Push!Stash(i) PROVE PushInv'
<1> USE DEF Push!Stash, Push!Goto
<1>0. Fields /\ JobKnows(i) /\ Len(branch) \in Nat /\ push_faults \in Nat
      /\ stash[i] \in Nat /\ attempt[i] \in Nat /\ onto[i] \in Nat
    BY JobFacts
<1>1. /\ tree' \in [Jobs -> {"clean", "dirty", "unmerged"}] /\ popBase' \in [Jobs -> Nat]
      /\ stash' \in [Jobs -> Nat] /\ stash'[i] <= stash[i] + 1
      /\ \A j \in Jobs : j # i => stash'[j] = stash[j]
    <2>1. CASE /\ tree' = [tree EXCEPT ![i] = "clean"]
               /\ stash' = [stash EXCEPT ![i] = @ + 1]
               /\ popBase' = [popBase EXCEPT ![i] = onto[i]]
        BY <1>0, <2>1 DEF Fields
    <2>2. CASE UNCHANGED <<tree, stash, popBase>>
        BY <1>0, <2>2 DEF Fields
    <2> QED BY <2>1, <2>2
<1>2. /\ where[i] = "stash" /\ where'[i] = "rebase" /\ seen'[i] = seen[i]
      /\ start'[i] = start[i] /\ onto'[i] = onto[i] /\ attempt'[i] = attempt[i]
      /\ result'[i] = result[i] /\ branch' = branch /\ push_faults' = push_faults
    BY <1>0 DEF Fields
<1>3. Fields'
    BY <1>0, <1>1, <1>2 DEF Fields
<1>4. \A j \in Jobs : j # i => Same(j)
    BY <1>0, <1>1 DEF Fields, Same
<1>5. Placed(i)' /\ Aware(i)' /\ Fresh(i)' /\ Truthful(i)'
    BY <1>0, <1>2 DEF Placed, Aware, Fresh, Truthful, Published, Fetched, JobKnows
<1>6. Stowed(i)'
    BY <1>0, <1>1, <1>2, <1>3 DEF Stowed, JobKnows, Fields
<1>7. Earned(i)'
    <2>1. Looked(i)' = Looked(i)
        BY <1>2 DEF Looked, Fetched
    <2> QED BY <1>0, <1>2, <2>1 DEF Earned, JobKnows, Fetched
<1>8. JobKnows(i)'
    BY <1>5, <1>6, <1>7 DEF JobKnows
<1> QED BY <1>0, <1>2, <1>3, <1>4, <1>8, QuietStep

\* Popping the stash adds no entry to it.
LEMMA PopTypes ==
    ASSUME PushInv, NEW i \in Jobs, NEW n, Push!PopOnto(i, n)
    PROVE  /\ tree' \in [Jobs -> {"clean", "dirty", "unmerged"}]
           /\ stash' \in [Jobs -> Nat] /\ stash'[i] <= stash[i] /\ stash'[i] \in Nat
           /\ \A j \in Jobs : j # i => stash'[j] = stash[j]
<1>0. Fields /\ stash[i] \in Nat
    BY JobFacts
<1>1. CASE UNCHANGED <<tree, stash>>
    BY <1>0, <1>1 DEF Fields
<1>2. CASE tree' = [tree EXCEPT ![i] = "unmerged"] /\ UNCHANGED stash
    BY <1>0, <1>2 DEF Fields
<1>3. CASE /\ stash[i] > 0
           /\ tree' = [tree EXCEPT ![i] = "dirty"] /\ stash' = [stash EXCEPT ![i] = @ - 1]
    BY <1>0, <1>3 DEF Fields
<1> QED BY <1>1, <1>2, <1>3 DEF Push!PopOnto, Push!Stashed

LEMMA RebaseRefusedSound == ASSUME PushInv, NEW i \in Jobs, Push!RebaseRefused(i) PROVE PushInv'
<1>0. Fields /\ push_faults \in Nat /\ MaxFaults \in Nat
    BY JobFacts
<1>1. /\ "conflict" \in Results \ {"published", "gave_up"} /\ Push!End(i, "conflict")
      /\ where[i] # "away" /\ Push!PopOnto(i, onto[i])
      /\ UNCHANGED <<branch, start, seen, onto, attempt, popBase, push_faults>>
    BY DEF Push!RebaseRefused, Results
<1>2. /\ push_faults' \in Nat /\ push_faults' <= MaxFaults /\ push_faults' >= push_faults
      /\ popBase' \in [Jobs -> Nat]
    BY <1>0, <1>1 DEF Fields
<1> QED BY <1>1, <1>2, PopTypes, EndSound

LEMMA RebaseSound == ASSUME PushInv, NEW i \in Jobs, Push!Rebase(i) PROVE PushInv'
<1> USE DEF Push!Rebase, Push!Goto
<1>0. Fields /\ JobKnows(i) /\ Len(branch) \in Nat /\ push_faults \in Nat
      /\ seen[i] \in Nat /\ onto[i] \in Nat /\ start[i] \in Nat /\ branch \in Seq(Pushers)
    BY JobFacts DEF PushInv
<1>1. Fields' /\ push_faults' = push_faults /\ branch' = branch
    BY <1>0 DEF Fields
<1>2. \A j \in Jobs : j # i => Same(j)
    BY <1>0 DEF Fields, Same
<1>3. /\ where[i] = "rebase" /\ where'[i] = "push" /\ seen'[i] = seen[i]
      /\ start'[i] = start[i] /\ onto'[i] = seen[i] /\ attempt'[i] = attempt[i]
      /\ stash'[i] = stash[i] /\ result'[i] = result[i]
    BY <1>0 DEF Fields
<1>4. Placed(i)' /\ Aware(i)' /\ Stowed(i)' /\ Truthful(i)'
    BY <1>0, <1>1, <1>3 DEF Placed, Aware, Stowed, Truthful, Published, Fetched, JobKnows
<1>5. Fresh(i)'
    <2> SUFFICES ASSUME ~ Published(i), NEW b \in start[i] + 1 .. seen[i]
                 PROVE  Touches[branch[b]] \intersect Touches[i] = {}
        BY <1>1, <1>3 DEF Fresh, Published
    <2>1. ~ Push!OnMain(i)
        BY <1>0, OnMainIsPublished
    <2>2. CASE b <= onto[i]
        BY <1>0, <1>3, <2>2 DEF JobKnows, Fresh
    <2>3. CASE b > onto[i]
        <3>1. b \in onto[i] + 1 .. seen[i]
            BY <1>0, <2>3
        <3>2. \A x \in Push!Between(onto[i], seen[i]) : ~ Push!Clash(x, Touches[i])
            BY <2>1 DEF Push!RebaseConflicts
        <3> QED BY <3>1, <3>2 DEF Push!Between, Push!Clash
    <2> QED BY <1>0, <2>2, <2>3
<1>6. Earned(i)'
    <2>1. Looked(i)' = Looked(i)
        BY <1>3 DEF Looked, Fetched
    <2> QED BY <1>0, <1>1, <1>3, <2>1 DEF Earned, JobKnows, Fetched
<1>7. JobKnows(i)'
    BY <1>4, <1>5, <1>6 DEF JobKnows
<1> QED BY <1>0, <1>1, <1>2, <1>3, <1>7, QuietStep

\* What a push that the server takes makes of main: one commit more, unless
\* the job's is there already.
LEMMA PublishGrows ==
    ASSUME PushInv, NEW i \in Jobs, Push!FastForward(i), Push!Publish(i)
    PROVE  /\ GrowsBy(i) /\ Published(i)'
           /\ branch' # branch => ~ Published(i)
<1>0. branch \in Seq(Pushers) /\ Len(branch) \in Nat /\ onto[i] = Len(branch) /\ i \in Pushers
    BY DEF PushInv, Push!FastForward, Pushers
<1>1. SubSeq(branch, 1, onto[i]) = branch
    BY <1>0
<1>2. CASE Published(i)
    <2>1. branch' = branch \o <<>>
        BY <1>0, <1>1, <1>2, OnMainIsPublished DEF Push!Publish
    <2>2. branch' = branch
        BY <1>0, <2>1
    <2> QED BY <1>2, <2>2 DEF GrowsBy, Published
<1>3. CASE ~ Published(i)
    <2>1. branch' = branch \o <<i>>
        BY <1>0, <1>1, <1>3, OnMainIsPublished DEF Push!Publish
    <2>2. branch' = Append(branch, i)
        BY <1>0, <2>1
    <2>3. Len(branch') = Len(branch) + 1 /\ branch'[Len(branch) + 1] = i
        BY <1>0, <2>2
    <2> QED BY <1>0, <1>3, <2>2, <2>3 DEF GrowsBy, Published
<1> QED BY <1>2, <1>3

\* A job that pushes stands on no change it clashes with.
LEMMA PushLands ==
    ASSUME PushInv, NEW i \in Jobs, where[i] = "push", Push!FastForward(i), ~ Published(i)
    PROVE  \A b \in start[i] + 1 .. Len(branch) : Touches[branch[b]] \intersect Touches[i] = {}
BY JobFacts DEF JobKnows, Fresh, Push!FastForward

LEMMA PushSound == ASSUME PushInv, NEW i \in Jobs, Push!Push(i) PROVE PushInv'
<1>0. Fields /\ JobKnows(i) /\ Len(branch) \in Nat /\ push_faults \in Nat
      /\ seen[i] \in Nat /\ onto[i] \in Nat /\ start[i] \in Nat /\ attempt[i] \in Nat
      /\ stash[i] \in Nat /\ i \in Pushers /\ branch \in Seq(Pushers)
    BY JobFacts DEF PushInv, Pushers
<1>1. /\ where[i] = "push" /\ Push!FastForward(i) /\ Push!Publish(i) /\ Push!PopOnto(i, onto[i])
      /\ UNCHANGED <<start, seen, onto, popBase, attempt, push_faults>>
      /\ where' = [where EXCEPT ![i] = "done"] /\ result' = [result EXCEPT ![i] = "published"]
    BY DEF Push!Push, Push!End
<1>2. GrowsBy(i) /\ Published(i)' /\ (branch' # branch => ~ Published(i))
    BY <1>1, PublishGrows
<1>3. /\ tree' \in [Jobs -> {"clean", "dirty", "unmerged"}]
      /\ stash' \in [Jobs -> Nat] /\ stash'[i] <= stash[i] /\ stash'[i] \in Nat
      /\ \A j \in Jobs : j # i => stash'[j] = stash[j]
    BY <1>1, PopTypes
<1>4. Fields'
    BY <1>0, <1>1, <1>3 DEF Fields, Results
<1>5. \A j \in Jobs : j # i => Same(j)
    BY <1>0, <1>1, <1>3 DEF Fields, Same
<1>6. where'[i] = "done" /\ result'[i] = "published"
    BY <1>0, <1>1 DEF Fields
<1>7. branch' \in Seq(Pushers) /\ Len(branch) <= Len(branch')
    BY <1>0, <1>2, Growing
<1>8. Placed(i)'
    BY <1>0, <1>1, <1>6, <1>7 DEF JobKnows, Placed
<1>9. Aware(i)' /\ Fresh(i)' /\ Truthful(i)' /\ Earned(i)'
    BY <1>2, <1>6 DEF Aware, Fresh, Truthful, Earned, Fetched
<1>10. Stowed(i)'
    BY <1>0, <1>1, <1>3, <1>6 DEF JobKnows, Stowed
<1>11. JobKnows(i)'
    BY <1>8, <1>9, <1>10 DEF JobKnows
<1>12. branch' # branch => \A b \in start[i] + 1 .. Len(branch) :
                               Touches[branch[b]] \intersect Touches[i] = {}
    BY <1>1, <1>2, PushLands
<1> QED BY <1>0, <1>1, <1>2, <1>4, <1>5, <1>11, <1>12, StepKeeps

\* Main moved since the job fetched: there is a commit it has not counted,
\* and it is not its own.
LEMMA MovedOn ==
    ASSUME PushInv, NEW i \in Jobs, where[i] = "push", ~ Push!FastForward(i)
    PROVE  Count(branch, start[i], Len(branch), i) >= Count(branch, start[i], seen[i], i) + 1
<1>1. JobKnows(i) /\ Len(branch) \in Nat /\ seen[i] \in Nat /\ start[i] \in Nat /\ onto[i] \in Nat
    BY JobFacts
<1>2. start[i] <= seen[i] /\ seen[i] < Len(branch)
    BY <1>1 DEF JobKnows, Placed, Push!FastForward
<1>3. Apart
    BY DEF PushInv
<1>4. branch[seen[i] + 1] # i
    <2> SUFFICES ASSUME branch[seen[i] + 1] = i PROVE FALSE
        OBVIOUS
    <2>1. Published(i)
        BY <1>1, <1>2 DEF Published
    <2>2. PICK k \in 1 .. seen[i] : branch[k] = i
        BY <1>1, <2>1 DEF JobKnows, Aware, Fetched
    <2>3. k = seen[i] + 1
        BY <1>1, <1>2, <1>3, <2>2 DEF Apart
    <2> QED BY <1>1, <2>2, <2>3
<1> QED BY <1>1, <1>2, <1>3, <1>4, OneMoreCommit DEF Apart

LEMMA PushRejectedSound == ASSUME PushInv, NEW i \in Jobs, Push!PushRejected(i) PROVE PushInv'
<1>0. Fields /\ JobKnows(i) /\ Len(branch) \in Nat /\ push_faults \in Nat /\ MaxFaults \in Nat
      /\ seen[i] \in Nat /\ onto[i] \in Nat /\ start[i] \in Nat /\ attempt[i] \in Nat
      /\ stash[i] \in Nat /\ i \in Pushers /\ branch \in Seq(Pushers) /\ Retries \in Nat
    BY JobFacts DEF PushInv, Pushers
<1>1. /\ where[i] = "push" /\ Push!PopOnto(i, onto[i]) /\ Push!NextAttempt(i)
      /\ UNCHANGED <<start, seen, onto, popBase>>
    BY DEF Push!PushRejected
<1>2. \/ ~ Push!FastForward(i) /\ UNCHANGED <<branch, push_faults>>
      \/ /\ Push!FastForward(i) /\ push_faults < MaxFaults /\ push_faults' = push_faults + 1
         /\ branch' = branch \/ Push!Publish(i)
    BY DEF Push!PushRejected
<1>3. GrowsBy(i) /\ (branch' # branch => Push!FastForward(i) /\ ~ Published(i))
    BY <1>2, PublishGrows DEF GrowsBy
<1>4. push_faults' \in Nat /\ push_faults' <= MaxFaults /\ push_faults' >= push_faults
    BY <1>0, <1>2 DEF Fields
<1>5. /\ tree' \in [Jobs -> {"clean", "dirty", "unmerged"}]
      /\ stash' \in [Jobs -> Nat] /\ stash'[i] <= stash[i] /\ stash'[i] \in Nat
      /\ \A j \in Jobs : j # i => stash'[j] = stash[j]
    BY <1>1, PopTypes
<1>6. \/ /\ attempt[i] = Retries /\ UNCHANGED attempt
         /\ where' = [where EXCEPT ![i] = "done"] /\ result' = [result EXCEPT ![i] = "gave_up"]
      \/ /\ attempt[i] # Retries /\ attempt' = [attempt EXCEPT ![i] = @ + 1]
         /\ where' = [where EXCEPT ![i] = "fetch"] /\ UNCHANGED result
    BY <1>1 DEF Push!NextAttempt, Push!End, Push!Goto
<1>7. Fields'
    <2>1. "gave_up" \in Results
        BY DEF Results
    <2>2. /\ where' \in [Jobs -> {"away", "fetch", "stash", "rebase", "push", "done"}]
          /\ attempt' \in [Jobs -> Nat] /\ result' \in [Jobs -> Results]
        <3>1. CASE /\ UNCHANGED attempt /\ where' = [where EXCEPT ![i] = "done"]
                   /\ result' = [result EXCEPT ![i] = "gave_up"]
            BY <1>0, <2>1, <3>1 DEF Fields
        <3>2. CASE attempt' = [attempt EXCEPT ![i] = @ + 1] /\ UNCHANGED result
                   /\ where' = [where EXCEPT ![i] = "fetch"]
            <4>1. attempt[i] + 1 \in Nat
                BY <1>0
            <4>2. attempt' \in [Jobs -> Nat]
                BY <1>0, <3>2, <4>1 DEF Fields
            <4>3. where' \in [Jobs -> {"away", "fetch", "stash", "rebase", "push", "done"}]
                BY <1>0, <3>2 DEF Fields
            <4> QED BY <1>0, <3>2, <4>2, <4>3 DEF Fields
        <3> QED BY <1>6, <3>1, <3>2
    <2>3. /\ start' \in [Jobs -> Nat] /\ seen' \in [Jobs -> Nat] /\ onto' \in [Jobs -> Nat]
          /\ popBase' \in [Jobs -> Nat]
        BY <1>0, <1>1 DEF Fields
    <2> QED BY <1>4, <1>5, <2>2, <2>3 DEF Fields
<1>8. \A j \in Jobs : j # i => Same(j)
    BY <1>0, <1>1, <1>5, <1>6 DEF Fields, Same
<1>9. /\ start'[i] = start[i] /\ onto'[i] = onto[i] /\ seen'[i] = seen[i]
      /\ \/ attempt[i] = Retries /\ attempt'[i] = attempt[i] /\ where'[i] = "done" /\ result'[i] = "gave_up"
         \/ attempt[i] # Retries /\ attempt'[i] = attempt[i] + 1 /\ where'[i] = "fetch" /\ result'[i] = result[i]
    BY <1>0, <1>1, <1>6 DEF Fields
<1>10. /\ branch' \in Seq(Pushers) /\ Len(branch') \in Nat /\ Len(branch) <= Len(branch')
       /\ \A k \in 1 .. Len(branch) : branch'[k] = branch[k]
       /\ Published(i) => Published(i)'
    BY <1>0, <1>3, Growing
<1>11. Placed(i)' /\ Aware(i)' /\ Stowed(i)'
    BY <1>0, <1>1, <1>5, <1>9, <1>10 DEF Placed, Aware, Stowed, JobKnows, Fetched
<1>12. Truthful(i)'
    BY <1>0, <1>1, <1>9, <1>10 DEF JobKnows, Truthful
<1>13. Fresh(i)'
    <2> SUFFICES ASSUME ~ Published(i)', NEW b \in start[i] + 1 .. onto[i]
                 PROVE  Touches[branch'[b]] \intersect Touches[i] = {}
        BY <1>9 DEF Fresh
    <2>1. ~ Published(i)
        BY <1>10
    <2>2. branch'[b] = branch[b]
        BY <1>0, <1>10 DEF JobKnows, Placed
    <2> QED BY <1>0, <1>1, <2>1, <2>2 DEF JobKnows, Fresh
<1>14. Earned(i)'
    <2> DEFINE before == Count(branch, start[i], seen[i], i)
               after == Count(branch', start[i], Len(branch'), i)
               now == Count(branch, start[i], Len(branch), i)
    <2>1. before \in Nat /\ after \in Nat /\ now \in Nat
        BY <1>0, <1>10, OthersFinite
    <2>2. before + push_faults >= attempt[i] - 1
        BY <1>0, <1>1 DEF JobKnows, Earned, Looked, Fetched
    <2>3. seen[i] <= Len(branch) /\ Agree(branch, branch', Len(branch))
        BY <1>0, <1>10 DEF JobKnows, Placed, Agree
    <2>4. before <= after
        BY <1>0, <1>10, <2>3, OthersGrow
    <2>5. after + push_faults' >= attempt[i]
        <3>1. CASE ~ Push!FastForward(i) /\ UNCHANGED <<branch, push_faults>>
            <4>1. now >= before + 1
                BY <1>1, <3>1, MovedOn
            <4>2. after = now
                BY <3>1
            <4> HIDE DEF before, after, now
            <4> QED BY <1>0, <2>1, <2>2, <3>1, <4>1, <4>2
        <3>2. CASE push_faults' = push_faults + 1
            <4> HIDE DEF before, after, now
            <4> QED BY <1>0, <2>1, <2>2, <2>4, <3>2
        <3> QED BY <1>2, <3>1, <3>2
    <2>6. result'[i] = "gave_up" => attempt[i] = Retries
        <3>1. result[i] # "gave_up"
            BY <1>0, <1>1 DEF JobKnows, Truthful
        <3> QED BY <1>9, <3>1
    <2>7. where'[i] = "fetch" => attempt'[i] = attempt[i] + 1 /\ Looked(i)' = Len(branch')
        BY <1>9 DEF Looked, Fetched
    <2>8. where'[i] \notin Fetched
        BY <1>9 DEF Fetched
    <2>9. /\ where'[i] = "fetch" => Count(branch', start'[i], Looked(i)', i) + push_faults' >= attempt'[i] - 1
          /\ result'[i] = "gave_up" => Count(branch', start'[i], Len(branch'), i) + push_faults' >= Retries
        <3>1. /\ where'[i] = "fetch" => after + push_faults' >= attempt'[i] - 1
              /\ result'[i] = "gave_up" => after + push_faults' >= Retries
            <4> HIDE DEF after
            <4>1. after + push_faults' >= attempt[i] /\ after \in Nat
                BY <2>1, <2>5
            <4>2. ASSUME where'[i] = "fetch" PROVE after + push_faults' >= attempt'[i] - 1
                <5>1. attempt'[i] = attempt[i] + 1
                    BY <2>7, <4>2
                <5>2. attempt'[i] - 1 = attempt[i]
                    BY <1>0, <5>1
                <5> QED BY <4>1, <5>2
            <4>3. ASSUME result'[i] = "gave_up" PROVE after + push_faults' >= Retries
                BY <2>6, <4>1, <4>3
            <4> QED BY <4>2, <4>3
        <3> QED BY <1>9, <2>7, <3>1
    <2> QED BY <2>8, <2>9 DEF Earned
<1>15. JobKnows(i)'
    BY <1>11, <1>12, <1>13, <1>14 DEF JobKnows
<1>16. branch' # branch => \A b \in start[i] + 1 .. Len(branch) :
                               Touches[branch[b]] \intersect Touches[i] = {}
    BY <1>1, <1>3, PushLands
<1> QED BY <1>0, <1>1, <1>3, <1>4, <1>7, <1>8, <1>15, <1>16, StepKeeps

LEMMA MergeSound == ASSUME PushInv, NEW i \in Merges, Push!Merge(i) PROVE PushInv'
<1>0. Fields /\ branch \in Seq(Pushers) /\ i \in Pushers /\ i \notin Jobs
    BY PushNumbers DEF PushInv, Pushers
<1>1. GrowsBy(i)
    BY <1>0, OnMainIsPublished DEF Push!Merge, GrowsBy
<1>2. UNCHANGED <<where, result, start, seen, onto, popBase, stash, tree, attempt, push_faults>>
    BY DEF Push!Merge, Push!local
<1>3. Fields' /\ (\A j \in Jobs : Same(j)) /\ push_faults' >= push_faults
    BY <1>0, <1>2 DEF Fields, Same
<1> QED BY <1>0, <1>1, <1>3, StepKeeps

LEMMA PushStep == PushInv /\ [Push!Next]_(Push!vars) => PushInv'
<1> SUFFICES ASSUME PushInv, [Push!Next]_(Push!vars) PROVE PushInv'
    OBVIOUS
<1>1. ASSUME NEW i \in Jobs, Push!Checkout(i) \/ Push!Step(i) \/ Push!Killed(i)
      PROVE  PushInv'
    BY <1>1, CheckoutSound, FetchSound, StashSound, FailureSound, RebaseSound, RebaseRefusedSound,
       PushSound, PushRejectedSound DEF Push!Step
<1>2. CASE UNCHANGED Push!vars
    <2>1. UNCHANGED <<branch, where, start, seen, onto, popBase, stash, tree, attempt, result,
                      push_faults>>
        BY <1>2 DEF Push!vars
    <2> QED BY <2>1 DEF PushInv, Fields, Apart, Unclashing, JobKnows, Placed, Aware, Stowed, Fresh,
                        Earned, Truthful, Published, Looked
<1> QED BY <1>1, <1>2, MergeSound DEF Push!Next

LEMMA PushInit == Push!Init => PushInv
<1> SUFFICES ASSUME Push!Init PROVE PushInv
    OBVIOUS
<1> USE DEF Push!Init
<1>1. branch \in Seq(Pushers) /\ Len(branch) = 0
    OBVIOUS
<1>2. Fields
    BY PushNumbers DEF Fields, Results
<1>3. Apart /\ Unclashing
    BY <1>1 DEF Apart, Unclashing
<1>4. ASSUME NEW j \in Jobs PROVE JobKnows(j)
    BY <1>1, PushNumbers DEF JobKnows, Placed, Aware, Stowed, Fresh, Earned, Truthful, Fetched, Published
<1> QED BY <1>1, <1>2, <1>3, <1>4 DEF PushInv

\* A program that is not the script leaves its variables alone.
LEMMA PushPart == [ProgramsNext]_<<part, vars, push_vars>> => [Push!Next]_(Push!vars)
BY DEF ProgramsNext, push_vars, Push!vars

LEMMA PushRuns == ProgramsSpec => []PushInv
<1>1. ProgramsInit => PushInv
    BY PushInit DEF ProgramsInit
<1>2. PushInv /\ [ProgramsNext]_<<part, vars, push_vars>> => PushInv'
    BY PushStep, PushPart
<1> QED BY <1>1, <1>2, PTL DEF ProgramsSpec

LEMMA SameCount == ASSUME NEW S PROVE Push!Cardinality(S) = Cardinality(S)
BY DEF Push!Cardinality, Cardinality

LEMMA PushPromise == PushInv => PushIsSafe
<1> SUFFICES ASSUME PushInv PROVE PushIsSafe
    OBVIOUS
<1>0. Fields /\ branch \in Seq(Pushers) /\ Apart /\ Unclashing /\ \A j \in Jobs : JobKnows(j)
    BY DEF PushInv
<1>1. Push!TypeOK
    <2>1. Push!ToSet(branch) \subseteq Pushers
        BY <1>0 DEF Push!ToSet
    <2>2. stash \in [Jobs -> 0 .. Retries] /\ attempt \in [Jobs -> 1 .. Retries]
        BY <1>0, PushNumbers DEF Fields, JobKnows, Stowed
    <2>3. push_faults \in 0 .. MaxFaults
        BY <1>0, PushNumbers DEF Fields
    <2> QED BY <1>0, <2>1, <2>2, <2>3 DEF Push!TypeOK, Fields, Results, Pushers
<1>2. Push!CommitsAreUnique
    BY <1>0 DEF Push!CommitsAreUnique, Push!IsInjective, Apart
<1>3. Push!NothingIsOverwritten
    BY <1>0 DEF Push!NothingIsOverwritten, Unclashing, Push!Clash
<1>4. Push!ZeroMeansPublished
    BY <1>0, OnMainIsPublished DEF Push!ZeroMeansPublished, JobKnows, Truthful
<1>5. Push!GivingUpIsEarned
    <2> SUFFICES ASSUME NEW j \in Jobs, result[j] = "gave_up"
                 PROVE  Cardinality(Push!Between(start[j], Len(branch)) \ {j}) + push_faults >= Retries
        BY SameCount DEF Push!GivingUpIsEarned
    <2>1. Count(branch, start[j], Len(branch), j) + push_faults >= Retries
        BY <1>0 DEF JobKnows, Earned
    <2> QED BY <2>1 DEF Count, Others, Push!Between
<1> QED BY <1>1, <1>2, <1>3, <1>4, <1>5 DEF PushIsSafe

\* The push script keeps its promises, for any number of jobs and of
\* maintainers' commits, any files, attempts and failures (push_to_main.sh).
THEOREM PushStaysSafe == ProgramsSpec => []PushIsSafe
BY PushRuns, PushPromise, PTL
=============================================================================
