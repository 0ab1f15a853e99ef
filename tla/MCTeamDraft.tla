----------------------------- MODULE MCTeamDraft -----------------------------
(***************************************************************************)
(* Two slots; a base forme and its Mega share a dex number, the Mega needs *)
(* the stone; a Choice Scarf clashes with the Trick Room moveset.          *)
(***************************************************************************)
EXTENDS TeamDraft

CONSTANTS s1, s2

SlotSymmetry == Permutations({s1, s2})

MCDexOf == [v \in Species |-> IF v = "rillaboom" THEN 812 ELSE 6]

MCStoneOf == [v \in Species |-> IF v = "charizardmega" THEN "stone" ELSE None]

\* Holding its stone, Charizard may be in a forme of other types.
MCFormeTypes ==
    [x \in Species \X (Items \cup {None}) |->
        IF x[1] = "rillaboom" THEN {{"grass"}}
        ELSE IF x[1] = "charizardmega" \/ x[2] = "stone" THEN {{"fire"}, {"fire", "dragon"}}
        ELSE {{"fire"}}]

MCAbilitiesOf ==
    [v \in Species |-> IF v = "rillaboom" THEN {"overgrow", "surge"} ELSE {"blaze"}]

MCClashes == {"scarf"} \X {"trickroom"}
=============================================================================
