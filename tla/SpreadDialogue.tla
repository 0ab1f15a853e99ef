--------------------------- MODULE SpreadDialogue ---------------------------
(***************************************************************************)
(* The conversation about the stat points of a provisional build.  TurnSes- *)
(* sion only says whether a spread is on the budget; here are the points,  *)
(* because what can go wrong is arithmetic spread over several turns: an   *)
(* edit of one stat (nodes.apply_provisional_edit), the option it is       *)
(* combined with (apply_provisional_option), the automatic correction      *)
(* (nodes_classify._auto_reallocate_spread), the question which stat pays  *)
(* (resolve_spread_reallocation), the question which stat was meant        *)
(* (resolve_spread_target_question) and "defer".                           *)
(*                                                                         *)
(* The other fields of the build are one bit: whether they pass            *)
(* _verify_provisional_hard.  The edits enter the model as the extractor   *)
(* returns them; a value the user pins survives _propagate_and_refine.     *)
(***************************************************************************)
EXTENDS Integers, FiniteSets

CONSTANTS
    Cap,            \* most points of a stat (32)
    Budget,         \* SP_BUDGET (66)
    AutoMax,        \* _AUTO_REALLOCATE_MAX_DIFF (2)
    Offered,        \* spreads of the builds and the build options on offer
    Nameable,       \* stats a user may name,
    Values,         \* the values
    Deltas,         \* and the changes
    MaxNamed        \* most stats of one partial edit

Stats == {"hp", "atk", "def", "spa", "spd", "spe"}

\* spread_sum
Total(s) == s["hp"] + s["atk"] + s["def"] + s["spa"] + s["spd"] + s["spe"]

ASSUME SpreadAssumption ==
    /\ Cap \in Nat
    /\ Budget \in Nat
    /\ AutoMax \in Nat
    /\ Offered \subseteq {s \in [Stats -> 0 .. Cap] : Total(s) = Budget}
    /\ Nameable \subseteq Stats
    /\ Values \subseteq Int
    /\ Deltas \subseteq Int
    /\ MaxNamed \in Nat

VARIABLES
    spread,                 \* provisional_slot.spread
    kit_ok,                 \* the other fields of provisional_slot pass
    pending_presentation,   \* the screen waiting for a reply
    slot_commit_error,
    asked,                  \* (history) <<stat, value>> the user named
    form,                   \* (history) how: "partial", "full" or "none"
    base                    \* (history) the spread the edit was made on

vars == <<spread, kit_ok, pending_presentation, slot_commit_error,
          asked, form, base>>

-----------------------------------------------------------------------------
(* Screens.  A question holds the screen it interrupted.                   *)

Confirmation(s) == [kind |-> "full_build_confirmation", shown |-> s]

TargetQuestion(held) == [kind |-> "spread_target_question", held |-> held]

ReallocationQuestion(s, excluded, held) ==
    [kind |-> "spread_reallocation_question", attempted |-> s,
     diff |-> Total(s) - Budget, excluded |-> excluded, held |-> held]

Pending(kind) == pending_presentation.kind = kind

-----------------------------------------------------------------------------
(* The arithmetic.                                                         *)

\* apply_partial_spread: set, then delta.
ApplyPartialSpread(s, set_stats, delta_stats) ==
    [t \in Stats |->
        (IF t \in DOMAIN set_stats THEN set_stats[t] ELSE s[t])
        + (IF t \in DOMAIN delta_stats THEN delta_stats[t] ELSE 0)]

Nothing == [t \in {} |-> 0]

\* _spread_structurally_valid
StructurallyValid(s) == \A t \in Stats : s[t] \in 0 .. Cap

\* The spread part of _verify_provisional_hard.
OnBudget(s) == StructurallyValid(s) /\ Total(s) = Budget

\* _auto_reallocate_spread: the one smallest stat with room, of the stats
\* not excluded.  A tie, or no such stat, leaves no candidate.
WithRoom(s, diff, excluded) ==
    {t \in Stats \ excluded : s[t] - diff \in 0 .. Cap}

AutoStats(s, diff, excluded) ==
    {t \in WithRoom(s, diff, excluded) :
        /\ diff \in -AutoMax .. AutoMax
        /\ \A u \in WithRoom(s, diff, excluded) \ {t} : s[t] < s[u]}

Adjusted(s, t, diff) == [s EXCEPT ![t] = @ - diff]

-----------------------------------------------------------------------------
(* Showing an edited build.                                                *)

\* _emit_full_build_confirmation
Emit(s) ==
    /\ spread' = s
    /\ kit_ok' = TRUE
    /\ pending_presentation' = Confirmation(s)
    /\ slot_commit_error' = FALSE

\* (for mutation) the question is asked before the edit is stored
Ask_Unstored(question, s, kit) ==
    /\ UNCHANGED <<spread, kit_ok>>
    /\ pending_presentation' = question
    /\ slot_commit_error' = FALSE

Ask(question, s, kit) ==
    /\ spread' = s
    /\ kit_ok' = kit
    /\ pending_presentation' = question
    /\ slot_commit_error' = FALSE

\* A handler returns nothing but slot_commit_error.
Refuse ==
    /\ slot_commit_error' = TRUE
    /\ UNCHANGED <<spread, kit_ok, pending_presentation, asked, form, base>>

Remember(names, how, s) == asked' = names /\ form' = how /\ base' = s

\* _handle_spread_budget_mismatch
HandleMismatch(s, kit, excluded) ==
    LET auto == AutoStats(s, Total(s) - Budget, excluded)
    IN  \/ \E t \in auto : kit /\ Emit(Adjusted(s, t, Total(s) - Budget))
        \/ /\ auto = {} \/ ~kit
           /\ Ask(ReallocationQuestion(s, excluded, pending_presentation), s, kit)

\* _verify_provisional_hard and what its caller makes of the verdict.
VerifyAndShow(s, kit, excluded, spread_edited, names, how, from) ==
    \/ /\ OnBudget(s) /\ kit
       /\ Emit(s)
       /\ Remember(names, how, from)
    \/ /\ StructurallyValid(s) /\ ~OnBudget(s) /\ spread_edited
       /\ HandleMismatch(s, kit, excluded)
       /\ Remember(names, how, from)
    \/ /\ \/ ~StructurallyValid(s)
          \/ ~OnBudget(s) /\ ~spread_edited
          \/ OnBudget(s) /\ ~kit
       /\ Refuse

\* The forms of a partial edit: value_spread_set or value_spread_delta.
SomeStats == {T \in SUBSET Nameable : Cardinality(T) \in 1 .. MaxNamed}

Named(s, T) == {<<t, s[t]>> : t \in T}

-----------------------------------------------------------------------------
(* The nodes, each with the reply that leads to it.                        *)

\* apply_provisional_edit with spread_set or spread_delta
EditPartial ==
    /\ Pending("full_build_confirmation")
    /\ \E T \in SomeStats :
        \E s \in {ApplyPartialSpread(spread, v, Nothing) : v \in [T -> Values]}
                 \cup {ApplyPartialSpread(spread, Nothing, v) : v \in [T -> Deltas]} :
            VerifyAndShow(s, kit_ok, T, TRUE, Named(s, T), "partial", spread)

\* _derive_trustworthy_spread_edit: a full spread is an edit of the one stat
\* it changes.
Trustworthy(s) == Cardinality({t \in Stats : s[t] # spread[t]}) <= 1

\* A full spread for an edit of stat t, in which the model may have swapped
\* two others.
FullSpreads(t, v) ==
    {[spread EXCEPT ![t] = v, ![a] = spread[b], ![b] = spread[a]] :
        a, b \in Nameable \ {t}}

\* apply_provisional_edit with a full value_spread and field_only
EditFull ==
    /\ Pending("full_build_confirmation")
    /\ \E t \in Nameable, v \in Values : \E s \in FullSpreads(t, v) :
        IF Trustworthy(s)
        THEN VerifyAndShow(s, kit_ok, {}, TRUE, {<<t, v>>}, "full", spread)
        ELSE /\ Ask(TargetQuestion(pending_presentation), spread, kit_ok)
             /\ Remember({}, "none", spread)

\* apply_provisional_edit that derives the build again around a full spread:
\* nothing but the spread is kept.
Regenerate ==
    /\ Pending("full_build_confirmation")
    /\ \E o \in Offered, t \in Nameable, v \in Values, kit \in BOOLEAN :
        LET s == [o EXCEPT ![t] = v]
        IN  VerifyAndShow(s, kit, {}, TRUE, {}, "full", s)

\* apply_provisional_edit of another field
EditOther ==
    /\ Pending("full_build_confirmation")
    /\ \E kit \in BOOLEAN :
        VerifyAndShow(spread, kit, {}, FALSE, {}, "none", spread)

\* apply_provisional_option: the option may bring a spread, the reply an edit.
SelectOption ==
    /\ Pending("full_build_confirmation")
    /\ \E o \in Offered \cup {spread}, T \in SomeStats \cup {{}}, kit \in BOOLEAN :
        \E s \in {ApplyPartialSpread(o, v, Nothing) : v \in [T -> Values]}
                 \cup {ApplyPartialSpread(o, Nothing, v) : v \in [T -> Deltas]} :
            VerifyAndShow(s, kit, T, T # {} \/ o # spread, Named(s, T), "partial", o)

\* resolve_spread_target_question
\* (for mutation) the stat of the answer may pay for itself
AnswerTarget_Unprotected ==
    /\ Pending("spread_target_question")
    /\ \E t \in Nameable :
        \E s \in {[spread EXCEPT ![t] = v] : v \in Values}
                 \cup {[spread EXCEPT ![t] = @ + v] : v \in Deltas} :
            VerifyAndShow(s, kit_ok, {}, TRUE, Named(s, {t}), "partial", spread)

AnswerTarget ==
    /\ Pending("spread_target_question")
    /\ \E t \in Nameable :
        \E s \in {[spread EXCEPT ![t] = v] : v \in Values}
                 \cup {[spread EXCEPT ![t] = @ + v] : v \in Deltas} :
            VerifyAndShow(s, kit_ok, {t}, TRUE, Named(s, {t}), "partial", spread)

\* resolve_spread_reallocation.  An excluded stat, and one without room, is
\* answered with the same question (_reask_reallocation).
AnswerReallocation ==
    /\ Pending("spread_reallocation_question")
    /\ \E t \in Nameable \cap WithRoom(pending_presentation.attempted,
                                     pending_presentation.diff,
                                     pending_presentation.excluded) :
        LET s == Adjusted(pending_presentation.attempted, t,
                          pending_presentation.diff)
        IN  IF OnBudget(s) /\ kit_ok
            THEN Emit(s) /\ UNCHANGED <<asked, form, base>>
            ELSE Refuse

\* classify_pending: "defer" brings back the screen the question interrupted.
Defer ==
    /\ \/ Pending("spread_target_question")
       \/ Pending("spread_reallocation_question")
    /\ pending_presentation' = pending_presentation.held
    /\ Remember({}, "none", spread)
    /\ UNCHANGED <<spread, kit_ok, slot_commit_error>>

\* commit_full_slot, and the screen of the next slot's build.
Commit ==
    /\ Pending("full_build_confirmation")
    /\ IF pending_presentation.shown = spread /\ OnBudget(spread) /\ kit_ok
       THEN \E o \in Offered : Emit(o) /\ Remember({}, "none", o)
       ELSE Refuse

\* A build whose status move was kept under a Choice item is on screen
\* although _verify_provisional_hard refuses it ("keep it", TurnSession).
Init ==
    /\ spread \in Offered
    /\ kit_ok \in BOOLEAN
    /\ pending_presentation = Confirmation(spread)
    /\ slot_commit_error = FALSE
    /\ asked = {}
    /\ form = "none"
    /\ base = spread

Next ==
    \/ EditPartial
    \/ EditFull
    \/ Regenerate
    \/ EditOther
    \/ SelectOption
    \/ AnswerTarget
    \/ AnswerReallocation
    \/ Defer
    \/ Commit

Spec == Init /\ [][Next]_vars

-----------------------------------------------------------------------------
(* Properties                                                              *)

Spreads == [Stats -> 0 .. Cap]
LegalSpreads == {s \in Spreads : Total(s) = Budget}
Confirmations == [kind : {"full_build_confirmation"}, shown : LegalSpreads]
TargetQuestions == [kind : {"spread_target_question"}, held : Confirmations]

\* Type invariant.  It says that every confirmation the user can be shown,
\* now or after a "defer", has a spread that is in range and on the budget.
TypeOK ==
    /\ spread \in Spreads
    /\ kit_ok \in BOOLEAN
    /\ slot_commit_error \in BOOLEAN
    /\ asked \in SUBSET (Stats \X Int)
    /\ form \in {"partial", "full", "none"}
    /\ base \in [Stats -> Int]
    /\ \/ pending_presentation \in Confirmations
       \/ pending_presentation \in TargetQuestions
       \/ pending_presentation \in
             [kind : {"spread_reallocation_question"}, attempted : Spreads,
              diff : Int \ {0}, excluded : SUBSET Stats,
              held : Confirmations \cup TargetQuestions]

\* The question which stat pays is about the build the answer changes: the
\* points it names are those the provisional spread is off the budget by.
QuestionIsCurrent ==
    Pending("spread_reallocation_question") =>
        /\ pending_presentation.attempted = spread
        /\ pending_presentation.diff = Total(spread) - Budget

\* Once an edit of named stats is on screen, corrected by the program or by
\* the user's answers, those stats have the values that were asked for.
NamedStatsAreKept ==
    Pending("full_build_confirmation") /\ form = "partial" =>
        \A n \in asked : pending_presentation.shown[n[1]] = n[2]

\* What an edit costs is paid by one stat: the spread on screen differs from
\* the one the edit was made on in the named stats and at most one other.
OneStatPays ==
    Pending("full_build_confirmation") /\ form # "none" =>
        Cardinality({t \in Stats : /\ pending_presentation.shown[t] # base[t]
                                   /\ \A n \in asked : n[1] # t}) <= 1

\* Every spread shown is legal, every question about the build it changes.
DialogueIsSound == TypeOK /\ QuestionIsCurrent

\* An edit ends as it was asked for, at the cost of one stat
\* (_auto_reallocate_spread, resolve_spread_reallocation).
EditsAreKept == NamedStatsAreKept /\ OneStatPays

\* docs/architecture_decisions.md: the stat that is adjusted automatically is
\* one "among the untouched ones".  The code does not protect the stat of an
\* edit that came as a full spread.
UntouchedStatPays ==
    [][ /\ Pending("full_build_confirmation")
        /\ pending_presentation'.kind = "full_build_confirmation"
        /\ asked' # asked
        => \A n \in asked' : pending_presentation'.shown[n[1]] = n[2] ]_vars
=============================================================================
