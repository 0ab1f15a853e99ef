---------------------------- MODULE SavedSession ----------------------------
(***************************************************************************)
(* What the command line promises about the threads it keeps on disk,      *)
(* whatever the graph does in a turn: the turns recorded in a thread only  *)
(* ever grow, and a user is shown a thread as it was recorded when it was  *)
(* shown.  CliSession is the detailed specification that implements it.    *)
(***************************************************************************)
EXTENDS Naturals

CONSTANTS
    Threads,    \* identifiers a thread may be minted with
    Users,      \* command-line processes
    Turns       \* identifiers of the turns a user takes

VARIABLES
    record,     \* record[t]: the turns the latest checkpoint of t contains
    view        \* view[u]: the thread a user looks at, as it was shown

Nothing == [open |-> FALSE, turns |-> {}]
Views == {Nothing} \cup [open : {TRUE}, thread : Threads, turns : SUBSET Turns]

Init ==
    /\ record = [t \in Threads |-> {}]
    /\ view = [u \in Users |-> Nothing]

\* A node of the graph finishes and its checkpoint is written.
Record(t, d) ==
    /\ record' = [record EXCEPT ![t] = @ \cup {d}]
    /\ UNCHANGED view

\* The outcome of a turn, or a resumed thread, is printed.
Show(u, t) ==
    /\ view' = [view EXCEPT ![u] = [open |-> TRUE, thread |-> t, turns |-> record[t]]]
    /\ UNCHANGED record

\* The user leaves, or the process dies.
Leave(u) ==
    /\ view' = [view EXCEPT ![u] = Nothing]
    /\ UNCHANGED record

Next ==
    \/ \E t \in Threads, d \in Turns : Record(t, d)
    \/ \E u \in Users, t \in Threads : Show(u, t)
    \/ \E u \in Users : Leave(u)

Spec == Init /\ [][Next]_<<record, view>>

-----------------------------------------------------------------------------

\* Whatever a user has been shown of a thread is on disk, so that a crash or
\* Ctrl+C at the prompt loses nothing the user has seen.
ShownIsOnDisk ==
    \A u \in Users : view[u].open => view[u].turns \subseteq record[view[u].thread]
=============================================================================
