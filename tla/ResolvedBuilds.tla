---------------------------- MODULE ResolvedBuilds ----------------------------
(***************************************************************************)
(* The cache of resolved builds: recommender/resolved_builds.py with its   *)
(* writers, recommend_build in recommender/recommend.py and the scripts    *)
(* fetch_smogon_writeups.py and refresh_sv_writeup_spreads.py.             *)
(*                                                                         *)
(* A file per regulation holds one row per build (species, moves, item).   *)
(* A lookup walks from the file of the regulation that is played to those  *)
(* of the archived ones.  A writer decides from what it reads, works for a *)
(* while (network, calculator), then reads the file again, replaces its    *)
(* row and writes the whole file back.                                     *)
(*                                                                         *)
(* The builds here are those of one species, which a legality adaptation   *)
(* turns into each other. A row is reduced to who wrote it, whether it has *)
(* a rationale of any length, its spread, a nature that a maintainer tied  *)
(* to a spread, and the verified flag.                                     *)
(***************************************************************************)
EXTENDS Naturals

CONSTANTS
    Played,      \* regulations the sessions of the program play
    Processes,   \* runs of the writers that are under way at once: one, for
                 \* nothing locks the files
    Keys,        \* builds of a species
    Spreads,     \* spreads that keep the budget
    Short,       \* a spread below it
    None

\* champions-reg-mc, the current regulation, and the archived ones, newest
\* first: REGULATION_ARCHIVE_ORDER.
Files == {"mc", "mb", "ma"}

Sources == {"native", "primary", "secondary", "computed"}

Rows == [src : Sources, thin : BOOLEAN, spread : Spreads \union {Short},
         nature : Spreads \union {Short, None}, verified : BOOLEAN, confirmed : BOOLEAN]

VARIABLES
    rows,   \* the files
    job     \* what each process is about to put, or None

vars == <<rows, job>>

-----------------------------------------------------------------------------
Init ==
    /\ rows = [f \in Files |-> [k \in Keys |-> None]]
    /\ job = [p \in Processes |-> None]

\* get_resolved_build: the first row on the chain, from a file to older ones.
Lookup(f, k) ==
    LET Else(row, next) == IF row = None THEN next ELSE row
        archived == Else(rows["mb"][k], rows["ma"][k])
    IN CASE f = "mc" -> Else(rows["mc"][k], archived)
         [] f = "mb" -> archived
         [] f = "ma" -> rows["ma"][k]

Present(row) == row # None

IsWriteup(row) == Present(row) /\ row.src # "computed"

\* The files that writeups go to: Track E fetches native ones of both archived
\* regulations, Track F analog ones for the newer.
FetchedFor(src) == IF src = "native" THEN {"mb", "ma"} ELSE {"mb"}

Put(p, f, k, row) ==
    job' = [job EXCEPT ![p] = [pc |-> "put", file |-> f, key |-> k, row |-> row, seen |-> None]]

\* recommend_build after a miss: the build may be adapted, and is stored with
\* or without a run of the calculator, whatever that run said.
Recommend(p, f, k) ==
    /\ job[p] = None
    /\ Lookup(f, k) = None
    /\ \E adapted \in Keys, s \in Spreads, calc, confirmed \in BOOLEAN :
        /\ confirmed => calc
        /\ Put(p, f, adapted, [src |-> "computed", thin |-> TRUE, spread |-> s, nature |-> None,
                               verified |-> calc, confirmed |-> confirmed])
    /\ UNCHANGED rows

\* Track F leaves a species alone that has a substantive native writeup.
HasNative == \E k \in Keys : IsWriteup(rows["mb"][k]) /\ rows["mb"][k].src = "native"
                             /\ ~rows["mb"][k].thin

\* (for mutation) The primary's rationale is not looked at the right way.
MayReplaceAny(src, old) ==
    /\ Present(old) => ~old.verified
    /\ src = "secondary" /\ Present(old) => ~(old.src = "primary" /\ old.thin)

\* put_writeup: not a verified row, and no secondary over a primary that
\* says something.
MayReplace(src, old) ==
    /\ Present(old) => ~old.verified
    /\ src = "secondary" /\ Present(old) => ~(old.src = "primary" /\ ~old.thin)

\* fetch_smogon_writeups, Tracks E and F.
Writeup(p, f, k, src) ==
    /\ job[p] = None
    /\ f \in FetchedFor(src)
    /\ src # "native" => ~HasNative
    /\ MayReplace(src, rows[f][k])
    /\ \E thin \in BOOLEAN, s \in IF src = "native" THEN Spreads ELSE Spreads \union {Short} :
        Put(p, f, k, [src |-> src, thin |-> thin, spread |-> s, nature |-> None,
                        verified |-> FALSE, confirmed |-> FALSE])
    /\ UNCHANGED rows

\* refresh_sv_writeup_spreads: analog rows below the budget get the spread
\* that is computed now; the rest is what the row said when it was read.
Refresh(p, k) ==
    LET row == rows["mb"][k]
    IN /\ job[p] = None
       /\ IsWriteup(row) /\ row.src # "native" /\ row.spread = Short
       /\ \E s \in Spreads :
            Put(p, "mb", k, [row EXCEPT !.spread = s, !.nature = None, !.verified = FALSE])
       /\ UNCHANGED rows

At(p, pc) == job[p] # None /\ job[p].pc = pc

\* put_resolved_build reads the file, and refuses an unverified row where a
\* verified one is.
Load(p) ==
    LET old == rows[job[p].file][job[p].key]
    IN /\ At(p, "put")
       /\ job' = [job EXCEPT ![p] =
                    IF Present(old) /\ old.verified /\ ~job[p].row.verified THEN None
                    ELSE [job[p] EXCEPT !.pc = "write", !.seen = rows[job[p].file]]]
       /\ UNCHANGED rows

\* (for mutation) What the entry does not say is kept from the old row.
WriteMerged(p) ==
    LET old == job[p].seen[job[p].key]
        new == IF Present(old) THEN [job[p].row EXCEPT !.nature = old.nature] ELSE job[p].row
    IN /\ At(p, "write")
       /\ rows' = [rows EXCEPT ![job[p].file] = [job[p].seen EXCEPT ![job[p].key] = new]]
       /\ job' = [job EXCEPT ![p] = None]

\* The entry replaces the whole row; a nature has no place in it.
Write(p) ==
    /\ At(p, "write")
    /\ rows' = [rows EXCEPT ![job[p].file] = [job[p].seen EXCEPT ![job[p].key] = job[p].row]]
    /\ job' = [job EXCEPT ![p] = None]

\* A maintainer reads in a rationale which nature a spread needs, and edits
\* the file while no writer runs.
TieNature(f, k) ==
    /\ \A p \in Processes : job[p] = None
    /\ IsWriteup(rows[f][k]) /\ rows[f][k].nature = None
    /\ rows' = [rows EXCEPT ![f][k].nature = rows[f][k].spread]
    /\ UNCHANGED job

Next ==
    \/ \E p \in Processes :
        \/ \E k \in Keys :
            \/ \E f \in Played : Recommend(p, f, k)
            \/ \E f \in Files, src \in Sources \ {"computed"} : Writeup(p, f, k, src)
            \/ Refresh(p, k)
        \/ Load(p) \/ Write(p)
    \/ \E f \in Files, k \in Keys : TieNature(f, k)

Spec == Init /\ [][Next]_vars

-----------------------------------------------------------------------------
TypeOK ==
    /\ rows \in [Files -> [Keys -> Rows \union {None}]]
    /\ \A f \in Files, k \in Keys : IsWriteup(rows[f][k]) => f \in FetchedFor(rows[f][k].src)
    /\ \A p \in Processes :
        job[p] # None => /\ job[p].pc \in {"put", "write"} /\ job[p].file \in Files
                         /\ job[p].key \in Keys /\ job[p].row \in Rows

\* "Returns False if existing verified=True (skip)": no writer, with its own
\* look at the file before or not, replaces a verified row by another one.
VerifiedRowsStay ==
    [][\A f \in Files, k \in Keys :
        Present(rows[f][k]) /\ rows[f][k].verified =>
            Present(rows'[f][k]) /\ rows'[f][k].verified]_vars

\* A writeup that says something is not replaced by a lesser one: no analog
\* over a native, no secondary over a primary.
SubstanceStays ==
    [][\A f \in Files, k \in Keys :
        LET old == rows[f][k]
            new == rows'[f][k]
        IN IsWriteup(old) /\ ~old.thin /\ new # old =>
            /\ old.src = "native" => new.src \in {"native", "computed"}
            /\ old.src = "primary" => new.src # "secondary"]_vars

\* The cache accumulates: a build that can be looked up stays so, under
\* every regulation it could be looked up under.
KnowledgeStays ==
    [][\A f \in Files, k \in Keys : Lookup(f, k) # None => Lookup(f, k)' # None]_vars

\* A nature comes with the spread it was tied to: no writer leaves it beside
\* another one.
NatureFitsSpread ==
    \A f \in Files, k \in Keys :
        Present(rows[f][k]) => rows[f][k].nature \in {None, rows[f][k].spread}

\* docs/architecture_decisions.md: "verified (bool - tier-3-confirmed, or
\* just tier-1-sourced)".
VerifiedIsConfirmed ==
    \A f \in Files, k \in Keys :
        Present(rows[f][k]) /\ rows[f][k].verified => rows[f][k].confirmed

\* docs/architecture_decisions.md: a computed spread is "used only when no
\* real precedent exists for the specific combo".
PrecedentIsKept ==
    [][\A f \in Files, k \in Keys :
        IsWriteup(rows[f][k]) => IsWriteup(rows'[f][k])]_vars

\* docs/architecture_decisions.md: "the chain-lookup is what prevents
\* silently missing real, still-valid data" in an older file.
PrecedentIsFound ==
    \A f \in Files, k \in Keys : IsWriteup(rows[f][k]) => IsWriteup(Lookup("mc", k))

\* docs/architecture_decisions.md: the nature is a field of the row
\* "populated only for the 6 confirmed cases": writing the same spread again
\* leaves it there.
NatureStays ==
    [][\A f \in Files, k \in Keys :
        LET old == rows[f][k]
            new == rows'[f][k]
        IN Present(old) /\ Present(new) /\ old.src = new.src /\ old.spread = new.spread
            /\ old.nature # None => new.nature = old.nature]_vars
=============================================================================
