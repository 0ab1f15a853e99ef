----------------------------- MODULE MatchupMemo -----------------------------
(***************************************************************************)
(* The memo of matchup results in recommender/matchup.py.                  *)
(*                                                                         *)
(* Every session (thread id) has a memo of its own, and work that is bound *)
(* to no session shares a default one. Contexts - the workers that run     *)
(* graph nodes - select a memo, look a pair of builds up, evaluate it at   *)
(* the calculator service without holding the lock if it is not there, and *)
(* store the result. Both the memos and the entries of one are dropped     *)
(* least recently used first; a memo that was dropped under a context is   *)
(* made again by its next lookup or store.                                 *)
(*                                                                         *)
(* Each operation under the lock is one action. A result is represented    *)
(* by the request it was evaluated for and the context that did.           *)
(***************************************************************************)
EXTENDS Naturals, Sequences, FiniteSets, SequencesExt

CONSTANTS
    Workers,      \* contexts
    Threads,      \* ids of sessions
    Default,      \* stands for "no id": the default memo
    Builds,       \* pairs of builds that are compared
    Fields,       \* field conditions
    None,
    MaxEntries,   \* MATCHUP_MEMO_MAX_ENTRIES
    MaxLive,      \* MATCHUP_MEMO_MAX_LIVE_THREADS
    MaxCalls      \* bound: calls of classify_matchup

ASSUME BoundsAssumption ==
    MaxEntries \in Nat \ {0} /\ MaxLive \in Nat \ {0} /\ MaxCalls \in Nat

Owners == Threads \union {Default}

Requests == [builds : Builds, field : Fields]

Results == [of : Requests, by : Workers]

VARIABLES
    order,    \* the sessions that have a memo, least recently used first
    entries,  \* of each memo, least recently used first
    stats,    \* hits and misses of each memo
    bound,    \* the memo a context has selected
    asked,    \* the request a context evaluates, or None
    answer,   \* history: the last request of a context, and its result
    used,     \* history: the sessions by their last use, the latest last
    calls

vars == <<order, entries, stats, bound, asked, answer, used, calls>>

-----------------------------------------------------------------------------
Blank == [hits |-> 0, misses |-> 0]

Init ==
    /\ order = <<>> /\ entries = [o \in Owners |-> <<>>]
    /\ stats = [o \in Owners |-> Blank]
    /\ bound = [w \in Workers |-> Default]
    /\ asked = [w \in Workers |-> None]
    /\ answer = [w \in Workers |-> None]
    /\ used = <<>> /\ calls = 0

\* (for mutation) The field is left out of the key.
SameKeyNeutral(r, s) == r.builds = s.builds

\* The key: the fingerprints of both builds and of the field. The fields of a
\* build that a fingerprint leaves out (abilityOverride, boosts, curHP,
\* substitute, substituteHp, endure, form, types) are set by no caller: requests
\* stand for those that the callers make, which differ where their keys do.
SameKey(r, s) == r = s

Without(s, x) ==
    IF x \in ToSet(s) THEN RemoveAt(s, CHOOSE i \in DOMAIN s : s[i] = x) ELSE s

ToEnd(s, x) == Append(Without(s, x), x)

Resident(t) == t \in ToSet(order)

\* The sessions once t is used: it moves to the end, and if it is new the
\* first one makes room.
Touched(t) ==
    IF Resident(t) THEN ToEnd(order, t)
    ELSE Append(IF Len(order) >= MaxLive THEN Tail(order) ELSE order, t)

Dropped(o) == [entries |-> <<>>, stats |-> Blank]

\* _ensure_thread_memo, followed by what the operation does to o's memo.
Use(o, mine) ==
    LET left == IF o = Default THEN ToSet(order) ELSE ToSet(Touched(o))
        After(p) == IF p = o THEN mine
                    ELSE IF p \in ToSet(order) \ left THEN Dropped(p)
                    ELSE [entries |-> entries[p], stats |-> stats[p]]
    IN /\ order' = IF o = Default THEN order ELSE Touched(o)
       /\ entries' = [p \in Owners |-> After(p).entries]
       /\ stats' = [p \in Owners |-> After(p).stats]
       /\ used' = IF o = Default THEN used ELSE ToEnd(used, o)

Kept(o) == [entries |-> entries[o], stats |-> stats[o]]

\* bind_matchup_memo_thread
Bind(w, o) ==
    /\ asked[w] = None
    /\ bound' = [bound EXCEPT ![w] = o]
    /\ IF o = Default THEN UNCHANGED <<order, entries, stats, used>> ELSE Use(o, Kept(o))
    /\ UNCHANGED <<asked, answer, calls>>

Matching(s, r) == {i \in DOMAIN s : SameKey(s[i].of, r)}

\* A stored result is moved to the end, counted and returned.
Hit(o, r) ==
    LET e == entries[o][CHOOSE i \in Matching(entries[o], r) : TRUE]
    IN [result |-> e,
        memo |-> [entries |-> ToEnd(entries[o], e),
                  stats |-> [stats[o] EXCEPT !.hits = @ + 1]]]

Return(w, r, e) ==
    /\ asked' = [asked EXCEPT ![w] = None]
    /\ answer' = [answer EXCEPT ![w] = [request |-> r, result |-> e]]

\* (for mutation) The default memo is consulted as well.
LookUpShared(w, r) ==
    LET o == IF Matching(entries[bound[w]], r) = {} THEN Default ELSE bound[w]
    IN /\ asked[w] = None /\ calls < MaxCalls
       /\ calls' = calls + 1
       /\ IF Matching(entries[o], r) # {}
          THEN Use(o, Hit(o, r).memo) /\ Return(w, r, Hit(o, r).result)
          ELSE Use(bound[w], Kept(bound[w])) /\ asked' = [asked EXCEPT ![w] = r] /\ UNCHANGED answer
       /\ UNCHANGED bound

\* _memo_get: a miss changes nothing but the order of the sessions.
LookUp(w, r) ==
    LET o == bound[w]
    IN /\ asked[w] = None /\ calls < MaxCalls
       /\ calls' = calls + 1
       /\ IF Matching(entries[o], r) # {}
          THEN Use(o, Hit(o, r).memo) /\ Return(w, r, Hit(o, r).result)
          ELSE Use(o, Kept(o)) /\ asked' = [asked EXCEPT ![w] = r] /\ UNCHANGED answer
       /\ UNCHANGED bound

\* _memo_put: the first result of a key stays, and a later one counts as a
\* hit and is thrown away.
Store(w) ==
    LET o == bound[w]
        mine == [of |-> asked[w], by |-> w]
        longer == Append(entries[o], mine)
    IN /\ asked[w] # None
       /\ IF Matching(entries[o], asked[w]) # {}
          THEN /\ Use(o, Hit(o, asked[w]).memo)
               /\ Return(w, asked[w], Hit(o, asked[w]).result)
          ELSE /\ Use(o, [entries |-> IF Len(longer) > MaxEntries THEN Tail(longer) ELSE longer,
                          stats |-> [stats[o] EXCEPT !.misses = @ + 1]])
               /\ Return(w, asked[w], mine)
       /\ UNCHANGED <<bound, calls>>

\* The service fails or its evidence is incomplete: nothing is stored.
Fail(w) ==
    /\ asked[w] # None
    /\ asked' = [asked EXCEPT ![w] = None]
    /\ UNCHANGED <<order, entries, stats, bound, answer, used, calls>>

\* release_matchup_memo: contexts that are bound to it stay so.
Release(t) ==
    /\ Resident(t)
    /\ order' = Without(order, t)
    /\ entries' = [entries EXCEPT ![t] = <<>>]
    /\ stats' = [stats EXCEPT ![t] = Blank]
    /\ UNCHANGED <<bound, asked, answer, used, calls>>

\* clear_matchup_memo: every memo, but only this context is unbound.
Clear(w) ==
    /\ asked[w] = None
    /\ order' = <<>> /\ entries' = [o \in Owners |-> <<>>]
    /\ stats' = [o \in Owners |-> Blank]
    /\ bound' = [bound EXCEPT ![w] = Default]
    /\ UNCHANGED <<asked, answer, used, calls>>

Next ==
    \/ \E w \in Workers :
        \/ \E o \in Owners : Bind(w, o)
        \/ \E r \in Requests : LookUp(w, r)
        \/ Store(w) \/ Fail(w) \/ Clear(w)
    \/ \E t \in Threads : Release(t)

Spec == Init /\ [][Next]_vars

-----------------------------------------------------------------------------
\* Types, the two caps, and that a session without a memo has no counts.
TypeOK ==
    /\ order \in Seq(Threads) /\ used \in Seq(Threads)
    /\ IsInjective(order) /\ Len(order) <= MaxLive
    /\ \A o \in Owners :
        /\ entries[o] \in Seq(Results) /\ Len(entries[o]) <= MaxEntries
        /\ stats[o] \in [hits : Nat, misses : Nat]
        /\ o \notin ToSet(order) \union {Default} =>
            entries[o] = <<>> /\ stats[o] = Blank
    /\ bound \in [Workers -> Owners]
    /\ asked \in [Workers -> Requests \union {None}]
    /\ answer \in [Workers -> [request : Requests, result : Results] \union {None}]
    /\ calls \in Nat /\ calls <= MaxCalls

\* "Misses are new inserts": whatever was dropped, released or evaluated
\* twice, a memo holds as many entries as it counts misses, up to its cap.
MissesAreInserts ==
    \A o \in Owners :
        Len(entries[o]) = IF stats[o].misses < MaxEntries THEN stats[o].misses
                          ELSE MaxEntries

\* What a call returns was evaluated for the builds and the field it asked
\* about, whoever evaluated it and whenever.
AnswersAreRight ==
    \A w \in Workers : answer[w] # None => answer[w].result.of = answer[w].request

\* The memos are bounded and count truly, and lookups answer for what was
\* asked (_memo_get and _memo_put).
MemosAreRight == TypeOK /\ MissesAreInserts /\ AnswersAreRight

\* A session's results come from work bound to the session, and a call takes
\* its answer from the memo of its own session: binding, dropping and
\* releasing memos mixes none of them.
SessionsAreSeparate ==
    [][/\ \A o \in Owners : \A e \in ToSet(entries'[o]) \ ToSet(entries[o]) : bound[e.by] = o
       /\ \A w \in Workers :
            answer'[w] # answer[w] => answer'[w].result \in ToSet(entries'[bound[w]])]_vars

\* A memo goes only when it is released, when all are cleared, or when as
\* many other sessions as may live have been used since it was last used.
DroppedInTurn ==
    [][\A t \in Threads :
        Resident(t) /\ t \notin ToSet(order') =>
            \/ Release(t) \/ \E w \in Workers : Clear(w)
            \/ Cardinality({i \in DOMAIN used' : \E j \in DOMAIN used' :
                                used'[j] = t /\ i > j}) >= MaxLive]_vars

\* While a key stays in a memo its result is the same object: two contexts
\* that evaluate it at once end up with one result.
FirstResultStays ==
    [][\A o \in Owners : \A e \in ToSet(entries[o]), f \in ToSet(entries'[o]) :
        SameKey(e.of, f.of) => e = f]_vars

\* Memos are kept apart, kept as long as they may, and keep what they have.
MemosAreKept == SessionsAreSeparate /\ DroppedInTurn /\ FirstResultStays
=============================================================================
