------------------------------ MODULE TeamDraft ------------------------------
(***************************************************************************)
(* The team under construction and every handler of the session graph that *)
(* writes it: apply_lock (single and batch), commit_full_slot,             *)
(* unlock_locked_slot, record_constraint, handle_claim_correction,         *)
(* restore_constraint, handle_archetype_change, record_rejection,          *)
(* restore_superseded, reset_team (recommender/nodes.py) and the proposals *)
(* of fill_team_draft (recommender/propose.py).  Values are validated by   *)
(* team_validation.py and reconciled by reconcile.py.                      *)
(*                                                                         *)
(* One action is one user turn that reaches the handler.  A slot has the   *)
(* attributes species, item and moveset, whose values the team rules read, *)
(* and OtherAttrs, taken from role, ability, spread and nature, which are  *)
(* locked, reopened and restored like the rest; only an ability is read    *)
(* here, by a requirement on abilities.  A refused turn changes            *)
(* slot_commit_error and nothing else.                                     *)
(* Provenance (reason, turn, rationale), the user-facing pending_flags and *)
(* exempt_from_theme, which no code ever sets, are left out.               *)
(***************************************************************************)
EXTENDS ConstraintAxis

CONSTANTS
    Slots,          \* the slots of the team (six in the program)
    OtherAttrs,     \* the other attributes of a slot
    Species,        \* legal species, formes included
    Items,          \* legal items
    Movesets,       \* four-move sets
    OtherValues,    \* values of OtherAttrs
    None,           \* Python's None
    DexOf,          \* species -> dex number: formes share one
    StoneOf,        \* species -> the stone its Mega forme must hold, or None
    FormeTypes,     \* species, held item -> the type sets of the formes the
                    \* slot may be in: itself, its base, the item's Mega
    AbilitiesOf,    \* species -> the abilities it can have
    Clashes,        \* pairs <<item, moveset>> of reconcile's tier 1: Choice
                    \* item with a status move, Choice Scarf with Trick Room
    Themes,         \* archetypes the user may name
    Rejectable,     \* species the user may turn down
    MaxSuperseded   \* bound on each undo stack, for TLC

SLOT_ATTRS == {"species", "item", "moveset"} \cup OtherAttrs

ValuesOf(a) ==
    CASE a = "species" -> Species
      [] a = "item"    -> Items
      [] a = "moveset" -> Movesets
      [] OTHER         -> OtherValues

AnyValue == Species \cup Items \cup Movesets \cup OtherValues

ASSUME TeamAssumption ==
    /\ OtherAttrs \cap {"species", "item", "moveset"} = {}
    /\ None \notin AnyValue
    /\ DexOf \in [Species -> Nat]
    /\ StoneOf \in [Species -> Items \cup {None}]
    /\ FormeTypes \in [Species \X (Items \cup {None}) -> SUBSET SUBSET AxisValues]
    /\ AbilitiesOf \in [Species -> SUBSET AxisValues]
    /\ AxisKinds \subseteq {"type", "item", "ability"}
    /\ NoDuplicateItems \notin {"type", "item", "ability"}
    /\ (\E r \in Requirements : r.kind = "ability") => "ability" \in OtherAttrs
    /\ Clashes \subseteq Items \X Movesets
    /\ \A v \in Species, m \in Movesets : <<StoneOf[v], m>> \notin Clashes
    /\ None \notin Themes
    /\ Rejectable \subseteq Species
    /\ MaxSuperseded \in Nat

VARIABLES
    team_draft,         \* slot -> attribute -> [value, locked]
    superseded,         \* slot -> attribute -> values reopened, oldest first
    rejected,           \* species the user turned down
    archetype,          \* the theme of the team, or None
    slot_commit_error   \* was the last turn refused?

draftVars == <<team_draft, superseded, rejected, archetype>>
vars      == <<axisVars, draftVars, slot_commit_error>>

-----------------------------------------------------------------------------
(* Slots *)

NoAttr == [value |-> None, locked |-> FALSE]

Locked(v) == [value |-> v, locked |-> TRUE]

empty_slot == [a \in SLOT_ATTRS |-> NoAttr]

all_locked(slot) == \A a \in SLOT_ATTRS : slot[a].locked

\* Attributes a reconciliation looks at: locked, with a value.
Pinned(slot) == {a \in SLOT_ATTRS : slot[a].locked /\ slot[a].value # None}

-----------------------------------------------------------------------------
(* team_validation.validate_team_value: one species or item for slot s.    *)

\* (for mutation) formes are compared instead of dex numbers
SpeciesClauseRefuses_ByName(d, s, v) == \E t \in Slots \ {s} : d[t].species.value = v

SpeciesClauseRefuses(d, s, v) ==
    \E t \in Slots \ {s} :
        d[t].species.value # None /\ DexOf[d[t].species.value] = DexOf[v]

ItemClauseRefuses(d, s, v) == \E t \in Slots \ {s} : d[t].item.value = v

StoneRefusesSpecies(slot, v) ==
    StoneOf[v] # None /\ slot.item.value # StoneOf[v]

StoneRefusesItem(slot, v) ==
    /\ slot.species.value # None
    /\ StoneOf[slot.species.value] # None
    /\ v # StoneOf[slot.species.value]

ValidTeamValue(d, s, a, v) ==
    CASE a = "species" -> /\ ~SpeciesClauseRefuses(d, s, v)
                          /\ ~StoneRefusesSpecies(d[s], v)
      [] a = "item"    -> /\ ~ItemClauseRefuses(d, s, v)
                          /\ ~StoneRefusesItem(d[s], v)
      [] OTHER         -> TRUE

-----------------------------------------------------------------------------
(* reconcile: which pinned attributes a change reopens.                    *)

\* _tier1_choice_status_moves, _tier1_speed_direction
KitClash(slot) ==
    /\ slot.item.locked /\ slot.moveset.locked
    /\ <<slot.item.value, slot.moveset.value>> \in Clashes

\* _check_sibling_fit: while the kit clashes, every pair that involves the
\* item or the moveset is a mismatch, so a newly locked item reopens all the
\* other attributes and not only the moveset.
KitMismatches(slot, new) ==
    IF KitClash(slot)
    THEN {b \in Pinned(slot) :
            \E a \in new \ {b} : {a, b} \cap {"item", "moveset"} # {}}
    ELSE {}

\* With a theme, siblings that do not fit it are reopened too; which do is
\* decided outside this module (types, weather, damage calculations).
ThemeChoices(slot, new) ==
    IF archetype # None
    THEN SUBSET {b \in Pinned(slot) : new \ {b} # {}}
    ELSE {{}}

\* _apply_mismatch on a set of <<slot, attribute>> pairs: value and lock are
\* dropped, the value goes on the undo stack.
Reopen(d, P) ==
    [s \in Slots |-> [a \in SLOT_ATTRS |->
        IF <<s, a>> \in P THEN NoAttr ELSE d[s][a]]]

\* (for mutation) a reopened value is logged nowhere
Push_Nothing(d, P) == superseded

Push(d, P) ==
    [s \in Slots |-> [a \in SLOT_ATTRS |->
        IF <<s, a>> \in P THEN Append(superseded[s][a], d[s][a].value)
                          ELSE superseded[s][a]]]

ReopenAll(d, P) ==
    /\ \A s \in Slots, a \in SLOT_ATTRS :
          <<s, a>> \in P => Len(superseded[s][a]) < MaxSuperseded
    /\ team_draft' = Reopen(d, P)
    /\ superseded' = Push(d, P)

\* check_constraint_fit for one slot.  Formes that disagree on their types
\* are "ambiguous" to a type requirement, which then does nothing.
MisfitsType(slot, c) ==
    /\ slot.species.value # None
    /\ \E T \in FormeTypes[slot.species.value, slot.item.value] :
          /\ FormeTypes[slot.species.value, slot.item.value] = {T}
          /\ IF c.scope = "team_wide" THEN ~(T \subseteq {c.value})
                                      ELSE c.value \notin T

MisfitsItem(slot, c) ==
    slot.item.locked /\ slot.item.value \notin {None, c.value}

MisfitsAbility(slot, c) ==
    IF slot["ability"].locked /\ slot["ability"].value # None
    THEN slot["ability"].value # c.value
    ELSE /\ slot.species.locked /\ slot.species.value # None
         /\ c.value \notin AbilitiesOf[slot.species.value]

Misfits(slot, c) ==
    \/ c.kind = "type" /\ MisfitsType(slot, c)
    \/ c.kind = "item" /\ MisfitsItem(slot, c)
    \/ c.kind = "ability" /\ MisfitsAbility(slot, c)

\* _reconcile_no_duplicate_items: every holder of a repeated item.
DuplicateHolders(d) ==
    {s \in Slots :
        /\ d[s].item.locked /\ d[s].item.value # None
        /\ \E t \in Slots \ {s} : d[t].item.locked
                                  /\ d[t].item.value = d[s].item.value}

\* (for mutation) the species survives a requirement its slot misfits
ConstraintMismatches_KeepSpecies(d, c) ==
    {p \in Slots \X (SLOT_ATTRS \ {"species"}) :
        c.hard /\ Misfits(d[p[1]], c) /\ p[2] \in Pinned(d[p[1]])}

\* reconcile_on_constraint_change: a slot that misfits a hard requirement
\* loses everything pinned on it.
ConstraintMismatches(d, c) ==
    CASE ~c.hard -> {}
      [] c.hard /\ c.kind = NoDuplicateItems -> DuplicateHolders(d) \X {"item"}
      [] OTHER -> {p \in Slots \X SLOT_ATTRS :
                      Misfits(d[p[1]], c) /\ p[2] \in Pinned(d[p[1]])}

-----------------------------------------------------------------------------
(* The turns *)

Handled == slot_commit_error' = FALSE

Refused ==
    /\ slot_commit_error' = TRUE
    /\ UNCHANGED <<axisVars, draftVars>>

\* Partial assignments of values to the attributes in A.
Assignments(A) == {r \in [A -> AnyValue] : \A a \in A : r[a] \in ValuesOf(a)}

\* What a lock turn asks for: _apply_lock_single takes one attribute,
\* _apply_locks_batch any number.
LockRequests == UNION {Assignments(A) : A \in SUBSET SLOT_ATTRS}

With(slot, r, A) ==
    [a \in SLOT_ATTRS |-> IF a \in A THEN Locked(r[a]) ELSE slot[a]]

\* Species and item of one request are validated side by side.
LockRefused(s, r) ==
    LET asked == [team_draft EXCEPT
                    ![s] = With(@, r, DOMAIN r \cap {"species", "item"})]
    IN  \/ all_locked(team_draft[s])
        \/ \E a \in DOMAIN r \cap {"species", "item"} :
              ~ValidTeamValue(asked, s, a, r[a])

\* simultaneous_lock_conflicts: a batch does not lock the item or the moveset
\* of a clash it would create.
Blocked(slot, r, batch) ==
    IF batch /\ KitClash(With(slot, r, DOMAIN r))
    THEN DOMAIN r \cap {"item", "moveset"}
    ELSE {}

\* _clear_rejected_for_newly_locked_species
StillRejected(d) ==
    rejected \ {d[s].species.value : s \in {t \in Slots : d[t].species.locked}}

apply_lock(s, r, batch) ==
  /\ ~batch => Cardinality(DOMAIN r) = 1
  /\ \/ /\ LockRefused(s, r)
        /\ Refused
     \/ /\ ~LockRefused(s, r)
        /\ LET new  == DOMAIN r \ Blocked(team_draft[s], r, batch)
               slot == With(team_draft[s], r, new)
           IN  \E theme \in ThemeChoices(slot, new) :
                  ReopenAll([team_draft EXCEPT ![s] = slot],
                            {s} \X (KitMismatches(slot, new) \cup theme))
        /\ rejected' = StillRejected(team_draft')
        /\ Handled
        /\ UNCHANGED <<axisVars, archetype>>

\* A complete build, as a confirmation screen shows it.
Builds == Assignments(SLOT_ATTRS)

UnsupportedHard ==
    \E i \in DOMAIN constraints :
        /\ constraints[i].still_active /\ constraints[i].hard
        /\ constraints[i].kind = Prose

\* (for mutation) the kit of a confirmed build is not looked at
CommitRefused_AnyKit(s, b) ==
    LET d == [team_draft EXCEPT ![s] = With(@, b, SLOT_ATTRS)]
    IN  \/ ~ValidTeamValue(d, s, "species", b.species)
        \/ ~ValidTeamValue(d, s, "item", b.item)
        \/ UnsupportedHard

\* commit_full_slot, after its checks on the confirmation (see TurnSession).
CommitRefused(s, b) ==
    LET slot == With(team_draft[s], b, SLOT_ATTRS)
        d    == [team_draft EXCEPT ![s] = slot]
    IN  \/ ~ValidTeamValue(d, s, "species", b.species)
        \/ ~ValidTeamValue(d, s, "item", b.item)
        \/ UnsupportedHard
        \/ KitClash(slot)

commit_full_slot(s, b) ==
    \/ /\ CommitRefused(s, b)
       /\ Refused
    \/ /\ ~CommitRefused(s, b)
       /\ team_draft' = [team_draft EXCEPT ![s] = With(@, b, SLOT_ATTRS)]
       /\ Handled
       /\ UNCHANGED <<axisVars, superseded, rejected, archetype>>

unlock_locked_slot(s) ==
    \/ /\ ~all_locked(team_draft[s])
       /\ Refused
    \/ /\ all_locked(team_draft[s])
       /\ team_draft' = [team_draft EXCEPT ![s] = empty_slot]
       /\ Handled
       /\ UNCHANGED <<axisVars, superseded, rejected, archetype>>

record_constraint(r) ==
    /\ RecordRequirement(r)
    /\ ReopenAll(team_draft, ConstraintMismatches(team_draft, build_constraint(r)))
    /\ Handled
    /\ UNCHANGED <<rejected, archetype>>

\* A claim of the system that proved wrong and carries the requirement it was
\* about records that requirement; any other claim is only answered.
handle_claim_correction ==
    \/ \E r \in Requirements : record_constraint(r)
    \/ Handled /\ UNCHANGED <<axisVars, draftVars>>

restore_constraint ==
    /\ \/ /\ RestoreAxis
          /\ LET restored == constraints'[LastEntry.constraint_index]
             IN  ReopenAll(team_draft, ConstraintMismatches(team_draft, restored))
       \/ /\ ~CanRestoreConstraint
          /\ UNCHANGED <<axisVars, team_draft, superseded>>
    /\ Handled
    /\ UNCHANGED <<rejected, archetype>>

\* reconcile_on_archetype_change: any set of pinned attributes may misfit the
\* new theme.
handle_archetype_change(new_components) ==
    /\ archetype' = new_components
    /\ \E P \in SUBSET {p \in Slots \X SLOT_ATTRS : p[2] \in Pinned(team_draft[p[1]])} :
          ReopenAll(team_draft, P)
    /\ Handled
    /\ UNCHANGED <<axisVars, rejected>>

\* A rejection that names a slot also clears a species proposed there, never a
\* locked one.
record_rejection(v, S) ==
    /\ rejected' = rejected \cup {v}
    /\ team_draft' = [s \in Slots |->
          IF s \in S /\ ~team_draft[s].species.locked
          THEN [team_draft[s] EXCEPT !.species = NoAttr]
          ELSE team_draft[s]]
    /\ Handled
    /\ UNCHANGED <<axisVars, superseded, archetype>>

\* The newest value reopened on this attribute is validated and locked again,
\* without a reconciliation of its siblings.
RestoreRefused(s, a) ==
    superseded[s][a] # << >>
        => ~ValidTeamValue(team_draft, s, a, Last(superseded[s][a]))

restore_superseded(s, a) ==
    \/ /\ RestoreRefused(s, a)
       /\ Refused
    \/ /\ ~RestoreRefused(s, a)
       /\ team_draft' = [team_draft EXCEPT ![s][a] = Locked(Last(superseded[s][a]))]
       /\ superseded' = [superseded EXCEPT ![s][a] = Front(@)]
       /\ Handled
       /\ UNCHANGED <<axisVars, rejected, archetype>>

\* The undo stacks and the rejections outlive a reset.
reset_team ==
    /\ ResetRequirements
    /\ team_draft' = [s \in Slots |-> empty_slot]
    /\ archetype' \in Themes \cup {None}
    /\ Handled
    /\ UNCHANGED <<superseded, rejected>>

\* lock, restore, repick, confirmation or rejection naming a slot the team does
\* not have.
bad_slot == Refused

\* fill_team_draft: unlocked defaults for empty attributes of open slots; never
\* a species, and no item or moveset before the species is known.
Fillable(slot) ==
    {a \in SLOT_ATTRS : /\ slot[a] = NoAttr
                        /\ \/ a \in OtherAttrs
                           \/ a # "species" /\ slot.species.value # None}

Proposed(slot, r) ==
    [a \in SLOT_ATTRS |->
        IF a \in DOMAIN r THEN [value |-> r[a], locked |-> FALSE] ELSE slot[a]]

Proposals(slot) ==
    IF all_locked(slot) THEN {slot}
    ELSE {Proposed(slot, r) : r \in UNION {Assignments(A) : A \in SUBSET Fillable(slot)}}

\* The discovery nodes call it while some slot is complete, after a handled turn,
\* a refused rejection or a turn that only asks to go on.
fill_team_draft ==
    /\ \E s \in Slots : all_locked(team_draft[s])
    /\ team_draft' \in {d \in [Slots -> UNION {Proposals(team_draft[s]) : s \in Slots}] :
                          \A s \in Slots : d[s] \in Proposals(team_draft[s])}
    /\ slot_commit_error' \in {slot_commit_error, FALSE}
    /\ UNCHANGED <<axisVars, superseded, rejected, archetype>>

-----------------------------------------------------------------------------

Init ==
    /\ AxisInit
    /\ team_draft = [s \in Slots |-> empty_slot]
    /\ superseded = [s \in Slots |-> [a \in SLOT_ATTRS |-> << >>]]
    /\ rejected = {}
    /\ archetype = None
    /\ slot_commit_error = FALSE

Next ==
    \/ \E s \in Slots, r \in LockRequests, batch \in BOOLEAN : apply_lock(s, r, batch)
    \/ \E s \in Slots, b \in Builds : commit_full_slot(s, b)
    \/ \E s \in Slots : unlock_locked_slot(s)
    \/ \E r \in Requirements : record_constraint(r)
    \/ handle_claim_correction
    \/ restore_constraint
    \/ \E theme \in Themes : handle_archetype_change(theme)
    \/ \E v \in Rejectable, S \in {{}} \cup {{s} : s \in Slots} : record_rejection(v, S)
    \/ \E s \in Slots, a \in SLOT_ATTRS : restore_superseded(s, a)
    \/ reset_team
    \/ bad_slot
    \/ fill_team_draft

Spec == Init /\ [][Next]_vars

-----------------------------------------------------------------------------

\* Type invariant of the team, its undo stacks and the turn's outcome.
TypeOK ==
    /\ AxisTypeOK
    /\ team_draft \in [Slots -> [SLOT_ATTRS ->
                          [value : AnyValue \cup {None}, locked : BOOLEAN]]]
    /\ superseded \in [Slots -> [SLOT_ATTRS -> Seq(AnyValue)]]
    /\ rejected \subseteq Species
    /\ archetype \in Themes \cup {None}
    /\ slot_commit_error \in BOOLEAN

\* Species Clause: no two slots ever hold formes of one Pokemon, whichever of
\* the four writers (lock, batch, restore, commit) put them there and whatever
\* was reopened in between.
SpeciesClause ==
    \A s, t \in Slots :
        /\ s # t
        /\ team_draft[s].species.value # None
        /\ team_draft[t].species.value # None
        => DexOf[team_draft[s].species.value] # DexOf[team_draft[t].species.value]

\* Item Clause: no two slots have the same item locked, although unlocked
\* proposals of fill_team_draft may repeat one.
ItemClause ==
    \A s, t \in Slots :
        /\ s # t
        /\ team_draft[s].item.locked
        /\ team_draft[t].item.locked
        /\ team_draft[s].item.value # None
        => team_draft[s].item.value # team_draft[t].item.value

\* A Mega forme never has another item than its stone locked next to it: the
\* rule survives locking the two in either order, in one batch, reopening one
\* of them and restoring it.
MegaHoldsItsStone ==
    \A s \in Slots :
        LET sp == team_draft[s].species.value
            it == team_draft[s].item
        IN  sp # None /\ StoneOf[sp] # None /\ it.locked /\ it.value # None
            => it.value = StoneOf[sp]

\* What validate_team_value assumes when it compares against every species in
\* the draft (team_validation.py:146): a species is only ever there locked.
SpeciesOnlyLocked ==
    \A s \in Slots : team_draft[s].species.value # None => team_draft[s].species.locked

\* The team keeps the clauses of the format whatever its writers do in which
\* order (validate_team_value, StoneRefusesItem, fill_team_draft).
DraftIsSound ==
    TypeOK /\ SpeciesClause /\ ItemClause /\ MegaHoldsItsStone /\ SpeciesOnlyLocked

\* A kit that cannot be played (Choice item with a status move, Scarf with
\* Trick Room) is never produced by a lock, a batch, a commit, a proposal or a
\* reconciliation.
KitStaysPlayable ==
    [][\/ \A s \in Slots : KitClash(team_draft'[s]) => KitClash(team_draft[s])
       \/ \E s \in Slots, a \in SLOT_ATTRS : restore_superseded(s, a)]_vars

\* An attribute that stops being locked leaves its value on its undo stack, or
\* the value just locked over it, when one request both replaced it and clashed.
Recoverable ==
    \A s \in Slots : \A a \in Pinned(team_draft[s]) :
        \/ team_draft'[s][a].locked
        \/ superseded'[s][a] = Append(superseded[s][a], team_draft[s][a].value)
        \/ \E v \in ValuesOf(a) :
              /\ superseded'[s][a] = Append(superseded[s][a], v)
              /\ \E r \in LockRequests, batch \in BOOLEAN :
                    a \in DOMAIN r /\ r[a] = v /\ apply_lock(s, r, batch)

\* Nothing the user pinned disappears without a way back, unless an explicit
\* repick or reset wiped it.
Kept == Recoverable \/ (\E s \in Slots : unlock_locked_slot(s)) \/ reset_team

\* The whole life of the team.
PinnedIsRecoverable == [][Kept]_vars

\* No slot keeps a pinned species or item that misfits a hard requirement
\* stated or restored in this turn.
TakesHold ==
    \A i \in DOMAIN constraints' :
        (/\ constraints'[i].still_active /\ constraints'[i].hard
         /\ i \notin DOMAIN constraints \/ ~constraints[i].still_active)
        => \A s \in Slots : ~Misfits(team_draft'[s], constraints'[i])

\* A hard requirement takes hold at once, in the turn that states or restores it.
RequirementTakesHold == [][TakesHold]_vars

-----------------------------------------------------------------------------
(* Statements of the repository that the code does not keep. *)

\* architecture_decisions.md:4920 "restores it via the same lock machinery":
\* a lock of the item or the moveset reopens what clashes with it.
RestoreIsALock ==
    [][(\E s \in Slots, a \in SLOT_ATTRS : restore_superseded(s, a))
         => \A s \in Slots : KitClash(team_draft'[s]) => KitClash(team_draft[s])]_vars

\* nodes.py:941 "A locked species can never coherently also be rejected":
\* whichever handler locks it, a newly locked species leaves the list.
LockedIsNotRejected ==
    [][\A s \in Slots :
         /\ team_draft'[s].species.locked
         /\ team_draft'[s].species # team_draft[s].species
         => team_draft'[s].species.value \notin rejected']_vars

=============================================================================
