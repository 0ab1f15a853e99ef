--------------------------- MODULE ConstraintAxis ---------------------------
(***************************************************************************)
(* The requirements a user states during a session, and the "newest wins"  *)
(* rule between two hard ones on the same axis                             *)
(* (recommender/constraint_enforcement.py, called from record_constraint,  *)
(* handle_claim_correction, restore_constraint and reset_team of           *)
(* recommender/nodes.py).                                                  *)
(*                                                                         *)
(* A requirement is hard or soft.  Its kind is one of AxisKinds (type,     *)
(* item, ability: the kinds that carry a value and compete),               *)
(* NoDuplicateItems (a team rule without a value) or Prose (the code could *)
(* not resolve the predicate to anything mechanical).  An axis is a pair   *)
(* of a kind and a scope.  Predicates, source turns, reasons and the       *)
(* constraint_flags shown to the user are left out.                        *)
(***************************************************************************)
EXTENDS Naturals, Sequences, SequencesExt, FiniteSets

CONSTANTS
    AxisKinds,          \* kinds of mechanical requirement that have an axis
    NoDuplicateItems,   \* the kind "no_duplicate_items"
    Prose,              \* mechanical is None: recorded, never enforced
    Scopes,             \* "per_slot", "team_wide"
    AxisValues,         \* normalised values of mechanical requirements
    Requirements,       \* the requirements the user may state
    MaxConstraints      \* bound on the length of the list, for TLC

Kinds == AxisKinds \cup {NoDuplicateItems, Prose}

Requirement == [hard : BOOLEAN, kind : Kinds, scope : Scopes, value : AxisValues]

ASSUME AxisAssumption ==
    /\ NoDuplicateItems \notin AxisKinds
    /\ Prose \notin AxisKinds
    /\ Requirements \subseteq Requirement
    /\ MaxConstraints \in Nat

VARIABLES
    constraints,              \* every requirement stated since the last reset
    constraints_superseded    \* the undo log of axis replacements

axisVars == <<constraints, constraints_superseded>>

Constraint == [hard : BOOLEAN, kind : Kinds, scope : Scopes,
               value : AxisValues, still_active : BOOLEAN]

LogEntry == [constraint_index : Nat, kind : Kinds, scope : Scopes,
             value : AxisValues]

-----------------------------------------------------------------------------

\* build_constraint: a new requirement is recorded active.
build_constraint(r) ==
    [hard |-> r.hard, kind |-> r.kind, scope |-> r.scope, value |-> r.value,
     still_active |-> TRUE]

\* Soft, unenforceable and no_duplicate_items requirements never compete.
Competes(c) == c.hard /\ c.kind \in AxisKinds

SameAxis(c, d) == c.kind = d.kind /\ c.scope = d.scope

\* (for mutation) a soft statement replaces a hard one
Losers_Soft(cs, new) ==
    {i \in DOMAIN cs : /\ new.kind \in AxisKinds
                       /\ cs[i].still_active
                       /\ Competes(cs[i])
                       /\ SameAxis(cs[i], new)
                       /\ cs[i].value # new.value}

\* The older active hard requirements a new one replaces: same axis, another
\* value.
Losers(cs, new) ==
    {i \in DOMAIN cs : /\ Competes(new)
                       /\ cs[i].still_active
                       /\ Competes(cs[i])
                       /\ SameAxis(cs[i], new)
                       /\ cs[i].value # new.value}

Deactivate(cs, I) ==
    [i \in DOMAIN cs |->
        IF i \in I THEN [cs[i] EXCEPT !.still_active = FALSE] ELSE cs[i]]

SnapshotOf(cs, i) ==
    [constraint_index |-> i, kind |-> cs[i].kind, scope |-> cs[i].scope,
     value |-> cs[i].value]

\* The log grows by one snapshot per replaced requirement, in list order.
Logged(log, cs, I, newLog) ==
    \E order \in [1..Cardinality(I) -> I] :
        /\ \A m, n \in DOMAIN order : m < n => order[m] < order[n]
        /\ newLog = log \o [m \in DOMAIN order |-> SnapshotOf(cs, order[m])]

\* apply_constraint_axis_supersede
Supersede(r) ==
    LET new   == build_constraint(r)
        lost  == Losers(constraints, new)
    IN  /\ constraints' = Append(Deactivate(constraints, lost), new)
        /\ Logged(constraints_superseded, constraints, lost,
                  constraints_superseded')

\* restore_constraint_axis: does the snapshot still describe its row?
SnapshotMatches(cs, entry) ==
    /\ entry.constraint_index \in DOMAIN cs
    /\ SameAxis(cs[entry.constraint_index], entry)
    /\ cs[entry.constraint_index].value = entry.value

\* (for mutation) a restore displaces nothing
Displaced_None(cs, entry) == {}

\* Every other active hard requirement on the axis of the restored one: equal
\* values too, unlike Losers.
Displaced(cs, entry) ==
    {i \in DOMAIN cs : /\ i # entry.constraint_index
                       /\ cs[i].still_active
                       /\ cs[i].hard
                       /\ cs[i].kind # Prose
                       /\ SameAxis(cs[i], entry)}

Swap(cs, entry) ==
    Deactivate([cs EXCEPT ![entry.constraint_index].still_active = TRUE],
               Displaced(cs, entry))

LastEntry == Last(constraints_superseded)

\* restore_constraint: the newest snapshot is popped only when it still
\* matches; an empty log or a mismatch leaves everything as it was.
CanRestoreConstraint ==
    /\ constraints_superseded # << >>
    /\ SnapshotMatches(constraints, LastEntry)

RestoreAxis ==
    /\ CanRestoreConstraint
    /\ constraints' = Swap(constraints, LastEntry)
    /\ constraints_superseded' = Front(constraints_superseded)

\* reset_team: the list is emptied, or restarted with the one requirement that
\* came with the reset.
ResetAxis(seed) ==
    /\ constraints' = [i \in DOMAIN seed |-> build_constraint(seed[i])]
    /\ constraints_superseded' = << >>

-----------------------------------------------------------------------------

AxisInit ==
    /\ constraints = << >>
    /\ constraints_superseded = << >>

RecordRequirement(r) ==
    /\ Len(constraints) < MaxConstraints
    /\ Supersede(r)

ResetRequirements ==
    \/ ResetAxis(<< >>)
    \/ \E r \in Requirements : ResetAxis(<<r>>)

AxisNext ==
    \/ \E r \in Requirements : RecordRequirement(r)
    \/ RestoreAxis
    \/ ResetRequirements

AxisSpec == AxisInit /\ [][AxisNext]_axisVars

-----------------------------------------------------------------------------

\* Type invariant of the requirement list and its undo log.
AxisTypeOK ==
    /\ constraints \in Seq(Constraint)
    /\ constraints_superseded \in Seq(LogEntry)

\* Two active hard requirements on one axis never ask for different values:
\* whatever sequence of statements, restores and resets led here, discovery
\* and reconciliation are never given a contradiction to enforce.
AxisAgrees ==
    \A i, j \in DOMAIN constraints :
        /\ constraints[i].still_active /\ Competes(constraints[i])
        /\ constraints[j].still_active /\ Competes(constraints[j])
        /\ SameAxis(constraints[i], constraints[j])
        => constraints[i].value = constraints[j].value

\* The undo log never goes stale: each snapshot still describes the row it
\* points to, so "restore that constraint" is never silently a no-op while the
\* log has entries (the None branch of restore_constraint_axis is never taken).
LogRestorable ==
    \A k \in DOMAIN constraints_superseded :
        /\ SnapshotMatches(constraints, constraints_superseded[k])
        /\ Competes(constraints[constraints_superseded[k].constraint_index])

\* A requirement waiting in the undo log is inactive, and waits there once:
\* a restore never "brings back" a requirement that is already in force.
LoggedAreInactive ==
    /\ \A k \in DOMAIN constraints_superseded :
          ~constraints[constraints_superseded[k].constraint_index].still_active
    /\ \A k, l \in DOMAIN constraints_superseded :
          constraints_superseded[k].constraint_index
            = constraints_superseded[l].constraint_index => k = l

\* Axes on which some hard requirement is in force.
HeldAxes(cs) ==
    {<<cs[i].kind, cs[i].scope>> :
        i \in {j \in DOMAIN cs : cs[j].still_active /\ Competes(cs[j])}}

\* Only a reset lifts a hard requirement without another one taking its axis:
\* replacing and restoring swap, they never leave the user's axis open.
AxisNeverEmptied ==
    [][HeldAxes(constraints) \subseteq HeldAxes(constraints') \/ ResetRequirements]_axisVars

\* The list and its undo log are sound after any statements, restores and
\* resets (apply_constraint_axis_supersede, restore_constraint_axis).
AxesAreSound == AxisTypeOK /\ AxisAgrees /\ LogRestorable /\ LoggedAreInactive
=============================================================================
