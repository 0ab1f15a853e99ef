---------------------------- MODULE MCTeamRules -----------------------------
(***************************************************************************)
(* One slot in depth, three ways: under type and item requirements, under  *)
(* ability requirements, under a theme and rejections.  A fourth part is   *)
(* the list of requirements alone, for longer.  A behaviour is one of one  *)
(* part; the variables of the others keep an initial state.                *)
(***************************************************************************)
EXTENDS ConstraintAxis

CONSTANTS None, s1

VARIABLES part, team_draft, superseded, rejected, archetype, slot_commit_error

draft == <<team_draft, superseded, rejected, archetype, slot_commit_error>>

Req(h, k, s, v) == [hard |-> h, kind |-> k, scope |-> s, value |-> v]

\* Two competing type requirements of one scope and one of the other, an
\* item and one the code cannot enforce.
KitRequirements ==
    {Req(TRUE, "type", "per_slot", "fire"), Req(TRUE, "type", "per_slot", "grass"),
     Req(TRUE, "type", "team_wide", "fire"),
     Req(TRUE, "item", "per_slot", "scarf"), Req(TRUE, "prose", "per_slot", "none")}

AbilityRequirements ==
    {Req(TRUE, "ability", "per_slot", "overgrow"), Req(TRUE, "ability", "per_slot", "blaze")}

\* All of these, a soft one and a rule without a value.
AllRequirements ==
    KitRequirements \cup AbilityRequirements
        \cup {Req(FALSE, "type", "per_slot", "fire"),
              Req(TRUE, "no_duplicate_items", "team_wide", "none")}

OneSlot == {s1}
Two == {"charizard", "rillaboom"}           \* two species
Megas == {"charizard", "charizardmega"}     \* a species and its Mega
BothItems == {"stone", "scarf"}
Scarf == {"scarf"}
TrickRoom == {"trickroom"}
ScarfClash == Scarf \X TrickRoom

DexOfTwo == [v \in Two |-> IF v = "rillaboom" THEN 812 ELSE 6]
DexOfMegas == [v \in Megas |-> 6]

StoneOfTwo == [v \in Two |-> None]
StoneOfMegas == [v \in Megas |-> IF v = "charizardmega" THEN "stone" ELSE None]

\* Holding its stone, Charizard may be in a forme of other types.
FormesOf(v, item) ==
    IF v = "rillaboom" THEN {{"grass"}}
    ELSE IF v = "charizardmega" \/ item = "stone" THEN {{"fire"}, {"fire", "dragon"}}
    ELSE {{"fire"}}

FormesOfTwo == [x \in Two \X (BothItems \cup {None}) |-> FormesOf(x[1], x[2])]
FormesOfScarf == [x \in Two \X (Scarf \cup {None}) |-> FormesOf(x[1], x[2])]
FormesOfMegas == [x \in Megas \X (BothItems \cup {None}) |-> FormesOf(x[1], x[2])]

AbilitiesOfTwo ==
    [v \in Two |-> IF v = "rillaboom" THEN {"overgrow", "surge"} ELSE {"blaze"}]
AbilitiesOfMegas == [v \in Megas |-> {"blaze"}]

Nothing == {}
AbilityAttr == {"ability"}
AbilityValues == {"blaze", "surge"}
RestAttr == {"rest"}
RestValues == {"r"}
Rain == {"rain"}
Mega == {"charizardmega"}

\* All the attributes a slot must have for a commit.
Kit == INSTANCE TeamDraft WITH
    Slots <- OneSlot, OtherAttrs <- Nothing, Species <- Two, Items <- BothItems,
    Movesets <- TrickRoom, OtherValues <- Nothing, DexOf <- DexOfTwo,
    StoneOf <- StoneOfTwo, FormeTypes <- FormesOfTwo, AbilitiesOf <- AbilitiesOfTwo,
    Clashes <- ScarfClash, Themes <- Nothing, Rejectable <- Nothing,
    Requirements <- KitRequirements, MaxConstraints <- 2, MaxSuperseded <- 1

\* The ability a requirement looks at is locked or a choice of the species.
Ability == INSTANCE TeamDraft WITH
    Slots <- OneSlot, OtherAttrs <- AbilityAttr, Species <- Two, Items <- Scarf,
    Movesets <- Nothing, OtherValues <- AbilityValues, DexOf <- DexOfTwo,
    StoneOf <- StoneOfTwo, FormeTypes <- FormesOfScarf, AbilitiesOf <- AbilitiesOfTwo,
    Clashes <- Nothing, Themes <- Nothing, Rejectable <- Nothing,
    Requirements <- AbilityRequirements, MaxConstraints <- 2, MaxSuperseded <- 1

\* A theme reopens any set of attributes; the Mega may be turned down.
Theme == INSTANCE TeamDraft WITH
    Slots <- OneSlot, OtherAttrs <- RestAttr, Species <- Megas, Items <- BothItems,
    Movesets <- TrickRoom, OtherValues <- RestValues, DexOf <- DexOfMegas,
    StoneOf <- StoneOfMegas, FormeTypes <- FormesOfMegas, AbilitiesOf <- AbilitiesOfMegas,
    Clashes <- ScarfClash, Themes <- Rain, Rejectable <- Mega,
    Requirements <- Nothing, MaxConstraints <- 0, MaxSuperseded <- 1

ASSUME Kit!TeamAssumption /\ Ability!TeamAssumption /\ Theme!TeamAssumption

-----------------------------------------------------------------------------
Init == /\ part \in {"kit", "ability", "theme", "axis"}
        /\ CASE part = "ability" -> Ability!Init
             [] part = "theme" -> Theme!Init
             [] OTHER -> Kit!Init

Next == \/ part = "kit"     /\ Kit!Next     /\ UNCHANGED part
        \/ part = "ability" /\ Ability!Next /\ UNCHANGED part
        \/ part = "theme"   /\ Theme!Next   /\ UNCHANGED part
        \/ part = "axis"    /\ AxisNext     /\ UNCHANGED <<part, draft>>

Spec == Init /\ [][Next]_<<part, axisVars, draft>>

-----------------------------------------------------------------------------
\* Reconciling is complete and loses nothing: a hard requirement takes hold in
\* the turn that states or restores it, and what the user pinned, under
\* requirements, themes and rejections, never disappears without a way back
\* (reconcile_on_constraint_change, the superseded stacks).
ReconcilingIsComplete ==
    [][CASE part = "kit" -> Kit!TakesHold /\ Kit!Kept
         [] part = "ability" -> Ability!TakesHold /\ Ability!Kept
         [] part = "theme" -> Theme!Kept
         [] OTHER -> TRUE]_<<part, axisVars, draft>>
=============================================================================
