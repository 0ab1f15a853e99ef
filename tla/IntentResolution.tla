-------------------------- MODULE IntentResolution --------------------------
(***************************************************************************)
(* What parse_turn_intent (recommender/turn_intent.py) makes of one turn:  *)
(* the user's text and the screen it answers, the flat extraction the      *)
(* model returns for it (or its failure), and the one intent with its      *)
(* payload that the turn graph then acts on.  The schema forces a single   *)
(* intent on a record that may carry the fields of several, so the code    *)
(* repairs some records from the text, asks about others, and rewrites the *)
(* intent of the rest.                                                     *)
(*                                                                         *)
(* The text is kept as the facts the code reads from it; a nature stands   *)
(* for an ability too, and "constraint" for every intent that clears the   *)
(* screen at once and carries neither an option nor an edit.               *)
(***************************************************************************)
EXTENDS Naturals, FiniteSets

CONSTANTS MaxOptions,   \* option ids one answer may carry
          MaxFilled     \* value_* fields, other than value_text, it may fill

BoundsAssumption == MaxOptions \in Nat \ {0, 1} /\ MaxFilled \in Nat \ {0}

VARIABLES said,     \* the facts of the user's text
          screen,   \* the pending screen it answers
          answer,   \* the model's answer
          result    \* the intent and payload returned to classify_pending

vars == <<said, screen, answer, result>>

Screens == {"none", "candidate_selection", "full_build_confirmation"}
Fields  == {"item", "nature", "moves", "spread"}
Edits   == {"edit", "revise_locked_slot"}
Intents == Edits \union {"select_build_option", "compare", "pending_response",
                         "lock", "constraint"}
Scopes  == {"field_only", "regenerate"}
Slots   == {"moves", "full", "set", "delta"}
Partial == {"set", "delta"}
Spreads == Partial \union {"full"}

NoAnswer == [intent |-> "waiting"]
NoResult == [intent |-> "waiting"]
Unparsed == [intent |-> "unparsed"]  \* extraction or validation failed
Late     == [intent |-> "late"]      \* a timeout, or any other exception

\* option: a digit, "default" or "option" is in it; stat: the one stat it sets
\* or shifts, which takes a number; named: the one item, nature or "no item".
Texts == {t \in [option : BOOLEAN, stat : {"none"} \union Partial,
                 named : {"none", "item", "itemless", "nature"}] :
            t.stat # "none" => t.option}

Records == [intent : Intents, options : 0..MaxOptions,
            field : Fields \union {"none"}, text : {"none", "empty", "value"},
            filled : {s \in SUBSET Slots : Cardinality(s) <= MaxFilled},
            scope : Scopes \union {"none"}]

----------------------------------------------------------------------------
(* The schema's validation. *)

SlotOk(x) ==
  CASE x.field = "item"   -> x.text # "none" /\ x.filled = {}
    [] x.field = "nature" -> x.text = "value" /\ x.filled = {}
    [] x.field = "moves"  -> x.text = "none" /\ x.filled = {"moves"}
    [] x.field = "spread" -> /\ x.text = "none" /\ "moves" \notin x.filled
                             /\ x.filled # {} /\ ~ Partial \subseteq x.filled
    [] OTHER -> FALSE

Accepted(x) ==
  /\ x.intent \in Edits => SlotOk(x)
  /\ x.intent = "select_build_option" => x.options >= 1
  /\ x.intent = "compare" => x.options >= 2

\* An edit with no scope is one of its field only.
Scoped(x) ==
  IF x.intent \in Edits /\ x.scope = "none" THEN [x EXCEPT !.scope = "field_only"] ELSE x

----------------------------------------------------------------------------
(* What the text repairs. *)

\* A full spread is not trusted when the text names one stat and one number.
ReadStat(x, t) ==
  IF x.field = "spread" /\ "full" \in x.filled /\ x.filled \intersect Partial = {}
     /\ t.stat # "none"
  THEN [x EXCEPT !.filled = (@ \ {"full"}) \union {t.stat}] ELSE x

\* A selection that came without any edit takes the one value the text names.
ReadField(x, t) ==
  IF x.options > 0 /\ x.field = "none" /\ x.text # "value" /\ x.filled = {}
     /\ t.named # "none"
  THEN [x EXCEPT !.field = IF t.named = "itemless" THEN "item" ELSE t.named,
                 !.text = IF t.named = "itemless" THEN "empty" ELSE "value"]
  ELSE x

Repaired(x, t) == ReadField(ReadStat(x, t), t)

----------------------------------------------------------------------------
(* The compound shapes. *)

ValuePresent(x) ==
  CASE x.field = "item"  -> x.text # "none"
    [] x.field = "moves" -> "moves" \in x.filled
    [] OTHER             -> x.text = "value"

SelectPlusSpread(x) ==
  x.filled \intersect Partial # {} /\ x.text # "value" /\ "moves" \notin x.filled

SelectPlusField(x) ==
  /\ x.field \in Fields \ {"spread"} /\ x.options = 1
  /\ ValuePresent(x)
  /\ x.filled \intersect Spreads = {}

Resolvable(x) == SelectPlusSpread(x) \/ SelectPlusField(x)

EditSignal(x) == x.field # "none" \/ x.text = "value" \/ x.filled # {}

TwoRequests(x) ==
  x.options > 0 /\ EditSignal(x) /\ (x.intent = "compare" \/ ~ Resolvable(x))

\* (for mutation) the text is not asked whether it names an option.
HallucinatedAlways(x, t) == x.options > 0 /\ SelectPlusField(x)

\* An option the text does not name is the model's own: only the edit is left.
Hallucinated(x, t) == x.options > 0 /\ SelectPlusField(x) /\ ~ t.option

WithoutOption(x) ==
  [x EXCEPT !.options = 0,
            !.intent = IF @ = "select_build_option" THEN "edit" ELSE @,
            !.scope = IF @ = "none" THEN "field_only" ELSE @]

----------------------------------------------------------------------------
(* The payloads. *)

Question == [intent |-> "pending_response"]

SelectPayload(x) ==
  [intent |-> "select_build_option", options |-> x.options,
   spread |-> IF SelectPlusSpread(x) THEN x.filled \intersect Partial ELSE {},
   extra  |-> IF SelectPlusField(x) THEN x.field ELSE "none"]

PayloadFor(x) ==
  CASE x.intent \in Edits ->
         [intent |-> x.intent, field |-> x.field, scope |-> x.scope, text |-> x.text,
          filled |-> x.filled \intersect (IF x.field = "spread" THEN Spreads ELSE {"moves"})]
    [] x.intent = "select_build_option" -> SelectPayload(x)
    [] x.intent = "compare" -> [intent |-> "compare", options |-> x.options]
    [] OTHER -> [intent |-> x.intent]

Resolved(x, t) ==
  IF TwoRequests(x)                       THEN Question
  ELSE IF Hallucinated(x, t)              THEN PayloadFor(WithoutOption(x))
  ELSE IF x.options > 0 /\ Resolvable(x)  THEN SelectPayload(x)
  ELSE PayloadFor(x)

\* After a failed extraction the text alone may still be an edit of the build
\* on the screen; a locked slot is never edited that way.
Recovered(t, s) ==
  IF s = "full_build_confirmation" /\ t.named # "none"
  THEN [intent |-> "edit", scope |-> "field_only", filled |-> {},
        field |-> IF t.named = "itemless" THEN "item" ELSE t.named,
        text |-> IF t.named = "itemless" THEN "empty" ELSE "value"]
  ELSE Question

----------------------------------------------------------------------------
Init == /\ said \in Texts /\ screen \in Screens
        /\ answer = NoAnswer /\ result = NoResult

Extract ==
  /\ answer = NoAnswer
  /\ answer' \in {Scoped(x) : x \in {y \in Records : Accepted(y)}} \union {Unparsed, Late}
  /\ UNCHANGED <<said, screen, result>>

Fail ==
  /\ result = NoResult /\ answer \in {Unparsed, Late}
  /\ result' = IF answer = Late THEN Question ELSE Recovered(said, screen)
  /\ UNCHANGED <<said, screen, answer>>

\* The screen is cleared with the intents that leave it, the lock excepted: it
\* clears the screen itself, once it has succeeded.
Resolve ==
  /\ result = NoResult /\ answer \notin {NoAnswer, Unparsed, Late}
  /\ result' = Resolved(Repaired(answer, said), said)
  /\ screen' = IF result'.intent = "constraint" THEN "none" ELSE screen
  /\ UNCHANGED <<said, answer>>

\* One turn: its text and its answer are not kept for the next.
Next == Extract \/ Fail \/ Resolve

Spec == Init /\ [][Next]_vars

----------------------------------------------------------------------------
(* Properties. *)

EditResults == [intent : Edits, field : Fields, scope : Scopes,
                text : {"none", "empty", "value"}, filled : SUBSET Slots]
SelectResults == [intent : {"select_build_option"}, options : 1..MaxOptions,
                  spread : SUBSET Partial, extra : Fields \union {"none"}]
CompareResults == [intent : {"compare"}, options : 2..MaxOptions]
OtherResults == [intent : {"pending_response", "lock", "constraint"}]

\* Every payload has the shape its handler reads: an edit has a field and a scope.
TypeOK ==
  /\ said \in Texts /\ screen \in Screens
  /\ answer \in Records \union {NoAnswer, Unparsed, Late}
  /\ result \in EditResults \union SelectResults \union CompareResults
                \union OtherResults \union {NoResult}

Answered == answer \in Records /\ result # NoResult

\* Whichever way an edit came about (given, recovered from the text, or left
\* over from a selection the model made up) it has a value of its field: only
\* an item may be edited to nothing.
EditsHaveAValue ==
  result \in EditResults =>
    CASE result.field = "item"   -> result.text # "none"
      [] result.field = "nature" -> result.text = "value"
      [] result.field = "moves"  -> "moves" \in result.filled
      [] result.field = "spread" -> result.filled # {}

\* A turn that selects or compares options and also edits is never acted on
\* for its options alone: the selection carries the edit, or the user is asked.
EditIsNotDropped ==
  (Answered /\ answer.options > 0
    /\ (EditSignal(answer) \/ said.named # "none")) =>
       /\ result \notin CompareResults
       /\ result \in SelectResults => result.spread # {} \/ result.extra # "none"

\* An edit never swallows an option that the text does name.
SelectionIsNotDropped ==
  (Answered /\ answer.options > 0 /\ result \in EditResults) => ~ said.option

\* When the text names one stat and its number, the model's six-stat
\* arithmetic is not what the edit applies.
TextBeatsArithmetic ==
  (result \in EditResults /\ result.field = "spread" /\ said.stat # "none")
    => result.filled \intersect Partial # {}

----------------------------------------------------------------------------
(* What the source says of itself, and does not do. *)

\* "paired with specifically one non-spread field edit (ability/item/nature/
\* moves) and nothing else edit-shaped" (turn_intent.py:541-543).
NothingElseEditShaped ==
  (Answered /\ result \in SelectResults /\ result.extra # "none") =>
    IF result.extra = "moves" THEN answer.text # "value"
                              ELSE "moves" \notin answer.filled

\* "Only keep the compound reading when the text itself names an option."
\* (turn_intent.py:1223-1224).
CompoundNamesAnOption ==
  (result \in SelectResults /\ (result.spread # {} \/ result.extra # "none"))
    => said.option

=============================================================================
