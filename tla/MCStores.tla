------------------------------ MODULE MCStores -------------------------------
(***************************************************************************)
(* What is evaluated once and kept: the matchups, in the memos that the    *)
(* sessions of a process share, and the builds, in files that accumulate.  *)
(* They share no state: a behaviour is one of one part, the other keeps    *)
(* its initial state.                                                      *)
(***************************************************************************)
EXTENDS MatchupMemo, TLC

CONSTANTS Played, Keys, Spreads, Short,                     \* ResolvedBuilds
          Writer                                            \* its one process

VARIABLES part,
          rows, job                                         \* ResolvedBuilds

builds == <<rows, job>>

Resolved == INSTANCE ResolvedBuilds WITH Processes <- {Writer}

ASSUME BuildsAssumption == None \notin Resolved!Rows /\ Played \subseteq Resolved!Files

-----------------------------------------------------------------------------
\* The instance that is checked: three sessions for two memos and two
\* contexts that evaluate; two builds of a species, a full spread and a short
\* one, and sessions of a regulation that has files to fall back on, its own
\* fetched files and those of an older one.
CONSTANTS w1, w2, t1, t2, t3, b1, neutral, rain, dark, k1, k2, s1

TwoWorkers == {w1, w2}
ThreeThreads == {t1, t2, t3}
OnePair == {b1}
ThreeFields == {neutral, rain, dark}
TwoKeys == {k1, k2}
OneSpread == {s1}
OneRegulation == {"mb"}

Symmetric == Permutations(TwoWorkers) \union Permutations(ThreeThreads)
                 \union Permutations(ThreeFields) \union Permutations(TwoKeys)

-----------------------------------------------------------------------------
StoresInit ==
    /\ part \in {"memo", "builds"}
    /\ Init
    /\ Resolved!Init

StoresNext ==
    \/ part = "memo" /\ Next /\ UNCHANGED <<part, builds>>
    \/ part = "builds" /\ Resolved!Next /\ UNCHANGED <<part, vars>>

StoresSpec ==
    StoresInit /\ [][StoresNext]_<<part, vars, builds>>

-----------------------------------------------------------------------------
(* The properties of the parts; those of the memos are MatchupMemo's own.  *)

\* The rows of the files keep their types, and no writer leaves a nature
\* beside a spread it was not tied to (resolved_builds.py).
BuildsAreSound == part = "builds" => Resolved!TypeOK /\ Resolved!NatureFitsSpread

\* No writer replaces a verified row by another or a writeup that says
\* something by a lesser one, and a build that can be looked up stays so
\* (resolved_builds.py).
RowsOnlyImprove ==
    Resolved!VerifiedRowsStay /\ Resolved!SubstanceStays /\ Resolved!KnowledgeStays
=============================================================================
