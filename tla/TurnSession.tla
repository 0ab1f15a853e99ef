----------------------------- MODULE TurnSession -----------------------------
(***************************************************************************)
(* One user turn after another through the session graph                   *)
(* (recommender/graph.py): a reply is classified against the screen that   *)
(* is pending (nodes.classify_input, nodes_classify.classify_pending), the *)
(* graph then runs node after node until it reaches END, and the screen    *)
(* left behind decides what the next reply can mean.                       *)
(*                                                                         *)
(* TeamDraft models what the handlers do to a slot's attributes.  Here a   *)
(* slot is only what the screens depend on: how much of it is locked and   *)
(* which build it holds.  A build is a kit (all fields but the spread) and *)
(* a spread.  slot_fingerprint and the fingerprint of a provisional slot   *)
(* hash everything they stand for, so the thing itself is used for them.   *)
(* The language model may answer any reply with any intent it is offered,  *)
(* and the team rules, the legality check and discovery may go either way. *)
(***************************************************************************)
EXTENDS Naturals, FiniteSets

CONSTANTS
    N,              \* number of slots
    Kits,           \* species, ability, item, moves and nature of a build
    StatusClash,    \* kits with a Choice item and a status move
    SpeedClash,     \* kits with a Choice Scarf and Trick Room
    None            \* Python's None

ASSUME SessionAssumption ==
    /\ N \in Nat \ {0}
    /\ StatusClash \subseteq Kits
    /\ SpeedClash \subseteq Kits

Slots == 0 .. N - 1

\* A spread is within SP_BUDGET ("fits") or not.
Builds == [kit : Kits, fits : BOOLEAN]
Fitting == {b \in Builds : b.fits}

\* "some": an attribute is locked, or holds a proposal of fill_team_draft.
\* The build is None while a field of it is missing.
SlotContents ==
    [locked : {"no", "some", "all"}, build : Builds \cup {None}]

EmptySlot == [locked |-> "no", build |-> None]

Intents == [slot : Slots, base : SlotContents]
Provisionals == [slot : Slots, base : SlotContents, build : Builds]

VARIABLES
    team_draft,                 \* slot -> contents
    pending_presentation,       \* the screen waiting for a reply, or None
    pending_slot_intent,        \* the slot being filled and what it held
    provisional_slot,           \* the build not yet committed
    slot_commit_error,          \* the refusal shown to the user
    bootstrap_intake_complete,
    turn_intent,                \* how the reply was classified
    node,                       \* the graph node to run next
    before                      \* (history) the screen the turn answers

screen == <<pending_presentation, pending_slot_intent, provisional_slot>>
vars == <<team_draft, pending_presentation, pending_slot_intent,
          provisional_slot, slot_commit_error, bootstrap_intake_complete,
          turn_intent, node, before>>

-----------------------------------------------------------------------------
(* Screens.  A screen that interrupts another one keeps it as "held".      *)

Plain(kind) == [kind |-> kind]
OfSlot(kind, i) == [kind |-> kind, slot |-> i]
Confirmation(p) == [kind |-> "full_build_confirmation", shown |-> p]
Asking(kind, held) == [kind |-> kind, held |-> held]
ConflictQuestion(kit, held) ==
    [kind |-> "item_moveset_conflict_question", held |-> held, attempted |-> kit]

Questions == {"spread_reallocation_question", "spread_target_question",
              "item_moveset_conflict_question"}

Kind(s) == IF s = None THEN "none" ELSE s.kind

\* Kinds whose replies may reach the language model (_gap_fill).
OpenKinds == {"none", "candidate_selection", "completion_preference",
              "full_build_confirmation"}

all_locked(c) == c.locked = "all"
OpenSlots == {i \in Slots : ~all_locked(team_draft[i])}
FirstOpen == CHOOSE i \in OpenSlots : \A j \in OpenSlots : i <= j
LockedCount == Cardinality(Slots \ OpenSlots)

\* team_phase
team_phase ==
    CASE LockedCount = N                    -> "complete"
      [] LockedCount >= 2 /\ LockedCount < N -> "multi_locked"
      [] LockedCount = 1 /\ N > 1            -> "single_locked"
      [] OTHER                              -> "empty"

\* _clear_pending_keys
ClearPendingKeys ==
    /\ pending_presentation' = None
    /\ pending_slot_intent' = None
    /\ provisional_slot' = None

ClearIfPending ==
    IF pending_presentation = None THEN UNCHANGED screen ELSE ClearPendingKeys

-----------------------------------------------------------------------------
(* classify_input: the reply, the screen and the node it leads to.         *)

\* _INTENT_ROUTES
Route(intent) ==
    CASE intent = "constraint"         -> "record_constraint"
      [] intent = "rejection"          -> "record_rejection"
      [] intent = "lock"               -> "apply_lock"
      [] intent = "archetype_change"   -> "handle_archetype_change"
      [] intent = "reset"              -> "reset_team"
      [] intent = "restore"            -> "restore_superseded"
      [] intent = "restore_constraint" -> "restore_constraint"
      [] intent \in {"continue", "build_abandoned"} -> "route_team_phase"
      [] intent = "team_review"        -> "generate_team_review"
      [] intent = "bootstrap_response" -> "record_bootstrap_response"
      [] intent \in {"pending_response", "deferred"} -> "finish_pending_response"
      [] intent = "slot_candidate_selected" -> "refine_provisional_slot"
      [] intent = "full_slot_confirmed" -> "commit_full_slot"
      [] intent = "edit"               -> "apply_provisional_edit"
      [] intent = "select_build_option" -> "apply_provisional_option"
      [] intent = "compare"            -> "compare_build_options"
      [] intent = "revise_locked_slot" -> "begin_locked_slot_revision"
      [] intent = "repick_locked_slot" -> "unlock_locked_slot"
      [] intent = "claim_correction"   -> "handle_claim_correction"
      [] OTHER                         -> intent    \* the resolve_* nodes

\* What every classification writes, whatever the screen.
Classify(intent) ==
    /\ turn_intent' = intent
    /\ node' = Route(intent)
    /\ slot_commit_error' = FALSE
    /\ before' = pending_presentation
    /\ UNCHANGED <<team_draft, bootstrap_intake_complete>>

\* The intent made of a pick; the contents picked over are kept with it.
Chosen(i) == [slot |-> i, base |-> team_draft[i]]

Answer(intent) == Classify(intent) /\ UNCHANGED screen
AnswerWith(intent, s) ==
    /\ Classify(intent)
    /\ pending_presentation' = s
    /\ UNCHANGED <<pending_slot_intent, provisional_slot>>
AnswerAndClear(intent) == Classify(intent) /\ ClearPendingKeys

ACTIONABLE_INTENTS ==
    {"constraint", "rejection", "lock", "archetype_change", "reset",
     "restore", "restore_constraint", "continue", "team_review"}
DEFERRED_CLEAR_INTENTS == {"lock", "restore"}

LlmIntents ==
    ACTIONABLE_INTENTS \cup
    {"edit", "select_build_option", "compare", "revise_locked_slot",
     "repick_locked_slot", "claim_correction"}

\* (for mutation) a locked slot may be revised over a waiting build
BLOCKED_ON_KIND_Revise(kind) ==
    CASE kind \in {"candidate_selection", "completion_preference"} ->
            {"edit", "select_build_option", "compare",
             "revise_locked_slot", "repick_locked_slot"}
      [] kind = "full_build_confirmation" -> {"lock", "repick_locked_slot"}
      [] kind = "none" -> {"edit", "select_build_option", "compare"}

BLOCKED_ON_KIND(kind) ==
    CASE kind \in {"candidate_selection", "completion_preference"} ->
            {"edit", "select_build_option", "compare",
             "revise_locked_slot", "repick_locked_slot"}
      [] kind = "full_build_confirmation" ->
            {"lock", "revise_locked_slot", "repick_locked_slot"}
      [] kind = "none" -> {"edit", "select_build_option", "compare"}

\* (for mutation) "continue" leaves a waiting build without asking
Gated_NoAbandonQuestion(intent, kind) ==
    \/ intent \in BLOCKED_ON_KIND(kind)
    \/ intent = "team_review" /\ kind = "full_build_confirmation"

\* Intents the gates replace by a pending_response.
Gated(intent, kind) ==
    \/ intent \in BLOCKED_ON_KIND(kind)
    \/ intent \in {"continue", "team_review"} /\ kind = "full_build_confirmation"

\* parse_turn_intent and the gates applied to what it returns; a reply it
\* cannot use is a pending_response (see KeepScreen).
GapFill ==
    LET kind == Kind(pending_presentation)
    IN  /\ kind \in OpenKinds
        /\ \E intent \in LlmIntents :
              /\ ~Gated(intent, kind)
              /\ IF intent \in ACTIONABLE_INTENTS \ DEFERRED_CLEAR_INTENTS
                 THEN Classify(intent) /\ ClearIfPending
                 ELSE Answer(intent)

\* _apply_continue_abandon_gate
AskToAbandon ==
    /\ Kind(pending_presentation) = "full_build_confirmation"
    /\ AnswerWith("pending_response",
                  Asking("confirm_abandon_build", pending_presentation))

\* Every screen can be answered by something it does not understand, by a
\* blocked intent, or by a question about item holders.
KeepScreen == Answer("pending_response")

AnswerIntake ==
    /\ Kind(pending_presentation) = "bootstrap_intake"
    /\ AnswerWith("bootstrap_response", None)

AnswerPreference ==
    /\ Kind(pending_presentation) = "completion_preference"
    /\ \E intent \in {"continue", "deferred"} : AnswerWith(intent, None)

\* _classify_candidate_selection_reply: defer, a typed rejection (which
\* leaves the screen to discovery), another focus, or a pick.
AnswerCandidates ==
    /\ Kind(pending_presentation) = "candidate_selection"
    /\ \/ \E intent \in {"deferred", "continue"} : AnswerWith(intent, None)
       \/ Answer("rejection")
       \/ LET i == pending_presentation.slot
          IN  /\ Classify("slot_candidate_selected")
              /\ pending_presentation' = None
              /\ pending_slot_intent' = Chosen(i)
              /\ UNCHANGED provisional_slot

AnswerAbandon ==
    /\ Kind(pending_presentation) = "confirm_abandon_build"
    /\ \/ AnswerAndClear("continue")
       \/ AnswerWith("pending_response", pending_presentation.held)

\* The three questions: defer, or an answer for the question's own node.
AnswerQuestion ==
    /\ Kind(pending_presentation) \in Questions
    /\ \/ /\ pending_presentation.held # None
          /\ AnswerWith("pending_response", pending_presentation.held)
       \/ pending_presentation.held = None /\ AnswerAndClear("pending_response")
       \/ /\ pending_presentation.kind = "spread_reallocation_question"
          /\ Answer("resolve_spread_reallocation")
       \/ /\ pending_presentation.kind = "spread_target_question"
          /\ Answer("resolve_spread_target_question")
       \/ /\ pending_presentation.kind = "item_moveset_conflict_question"
          /\ Answer("resolve_item_moveset_conflict")

AnswerConfirmation ==
    /\ Kind(pending_presentation) = "full_build_confirmation"
    /\ \/ Answer("full_slot_confirmed")
       \/ AnswerAndClear("build_abandoned")

classify_input ==
    /\ node = "END"
    /\ \/ GapFill
       \/ AskToAbandon
       \/ KeepScreen
       \/ AnswerIntake
       \/ AnswerPreference
       \/ AnswerCandidates
       \/ AnswerAbandon
       \/ AnswerQuestion
       \/ AnswerConfirmation

-----------------------------------------------------------------------------
(* Showing and changing the provisional build.                             *)

GoTo(n) == node' = n /\ UNCHANGED <<turn_intent, before>>
EndTurn == GoTo("END")

\* A handler's refusal: slot_commit_error is all it returns.
Refuse(next) ==
    /\ slot_commit_error' = TRUE
    /\ GoTo(next)
    /\ UNCHANGED <<screen, team_draft, bootstrap_intake_complete>>

\* provisional_for_confirmation: if the slot changed under a provisional of
\* the same species and its values are complete, its build is shown instead.
ProvisionalsForConfirmation(p) ==
    LET c == team_draft[p.slot]
    IN  IF c = p.base \/ c.build = None
        THEN {p}
        ELSE {p, [p EXCEPT !.build = c.build]}

\* _emit_full_build_confirmation
Emit(p) ==
    \E shown \in ProvisionalsForConfirmation(p) :
        /\ provisional_slot' = shown
        /\ pending_presentation' = Confirmation(shown)
        /\ slot_commit_error' = FALSE

KitConflict(kit) == kit \in StatusClash \cup SpeedClash

\* Ask with the pending screen, if any, held.
Ask(kind, p) ==
    /\ pending_presentation' = Asking(kind, pending_presentation)
    /\ provisional_slot' = p
    /\ slot_commit_error' = FALSE

\* _verify_provisional_hard on an edited build, then what the caller does
\* with its verdict: a spread off the budget is adjusted or asked about if
\* the spread was edited (_handle_spread_budget_mismatch), a status move
\* under a Choice item is asked about if the item was
\* (_handle_item_moveset_conflict); the rest is refused.
VerifyAndShow(new, field) ==
    \/ /\ new.build.fits /\ ~KitConflict(new.build.kit)
       /\ Emit(new)
    \/ /\ ~new.build.fits /\ field = "spread"
       /\ \/ /\ ~KitConflict(new.build.kit)
             /\ Emit([new EXCEPT !.build.fits = TRUE])
          \/ Ask("spread_reallocation_question", new)
    \/ /\ field = "item" /\ new.build.kit \in StatusClash
       /\ pending_presentation' =
             ConflictQuestion(new.build.kit, pending_presentation)
       /\ slot_commit_error' = FALSE
       /\ UNCHANGED provisional_slot

\* One edited field, or a selected option: field_only keeps the other fields,
\* regenerate derives them again, and only a spread edit yields a spread off
\* the budget, unless it was off before.
EditedBuilds(p, field) ==
    {new \in {[p EXCEPT !.build = b] : b \in Builds} :
        (~new.build.fits /\ field # "spread") => ~p.build.fits}

\* What a node that edits a build returns, the answer to a question too.
Edited(Outcome) ==
    /\ Outcome
    /\ EndTurn
    /\ UNCHANGED <<team_draft, pending_slot_intent, bootstrap_intake_complete>>

Editing == pending_slot_intent # None /\ provisional_slot # None

ApplyEdit ==
    \/ Refuse("END")
    \/ /\ Editing
       /\ \E field \in {"spread", "item", "other"} :
             \E new \in EditedBuilds(provisional_slot, field) :
                Edited(VerifyAndShow(new, field))

\* An edit of several stats at once is not trusted: which one was meant?
apply_provisional_edit ==
    /\ node = "apply_provisional_edit"
    /\ \/ ApplyEdit
       \/ /\ Editing
          /\ Edited(Ask("spread_target_question", provisional_slot))

apply_provisional_option ==
    /\ node = "apply_provisional_option"
    /\ ApplyEdit

\* _reask_reallocation: the same question, with a reason.
Reask ==
    /\ UNCHANGED pending_presentation
    /\ turn_intent' = "pending_response"

\* Without room in the chosen stat it asks again.
resolve_spread_reallocation ==
    /\ node = "resolve_spread_reallocation"
    /\ \/ Refuse("END")
       \/ /\ Reask
          /\ node' = "END"
          /\ UNCHANGED <<provisional_slot, slot_commit_error, before, team_draft,
                         pending_slot_intent, bootstrap_intake_complete>>
       \/ /\ Editing
          /\ ~KitConflict(provisional_slot.build.kit)
          /\ Edited(Emit([provisional_slot EXCEPT !.build.fits = TRUE]))

resolve_spread_target_question ==
    /\ node = "resolve_spread_target_question"
    /\ \/ Refuse("END")
       \/ /\ Editing
          /\ \E fits \in BOOLEAN :
                Edited(VerifyAndShow(
                    [provisional_slot EXCEPT !.build.fits = fits], "spread"))

\* "keep it" waives the status move but not Choice Scarf with Trick Room.
resolve_item_moveset_conflict ==
    /\ node = "resolve_item_moveset_conflict"
    /\ \/ Refuse("END")
       \/ /\ Editing
          /\ provisional_slot.build.fits
          /\ \E kit \in (Kits \ (StatusClash \cup SpeedClash))
                        \cup ({pending_presentation.attempted} \ SpeedClash) :
                Edited(Emit([provisional_slot EXCEPT !.build.kit = kit]))

\* Compares are shown beside the build and write nothing modelled here.
compare_build_options ==
    /\ node = "compare_build_options"
    /\ EndTurn
    /\ UNCHANGED <<screen, team_draft, slot_commit_error,
                   bootstrap_intake_complete>>

refine_provisional_slot ==
    /\ node = "refine_provisional_slot"
    /\ \/ /\ \E b \in Fitting :
                Emit([slot |-> pending_slot_intent.slot,
                      base |-> pending_slot_intent.base, build |-> b])
          /\ EndTurn
          /\ UNCHANGED <<team_draft, pending_slot_intent,
                         bootstrap_intake_complete>>
       \/ /\ provisional_slot' = None
          /\ slot_commit_error' = TRUE
          /\ GoTo("route_team_phase")
          /\ UNCHANGED <<team_draft, pending_presentation,
                         pending_slot_intent, bootstrap_intake_complete>>

-----------------------------------------------------------------------------
(* Handlers that write the team.                                           *)

\* (for mutation) the slot may have changed since the candidate was chosen
CommitRefused_AnyBase(s, intent, p, draft) ==
    \/ intent = None \/ p = None \/ s = None
    \/ Kind(s) # "full_build_confirmation"
    \/ s.shown # p
    \/ intent.slot # p.slot
    \/ ~p.build.fits
    \/ KitConflict(p.build.kit)

\* commit_full_slot up to the legality check and the team rules, which may
\* refuse on top of this.
CommitRefused(s, intent, p, draft) ==
    \/ intent = None \/ p = None \/ s = None
    \/ Kind(s) # "full_build_confirmation"
    \/ s.shown # p
    \/ intent.slot # p.slot
    \/ draft[p.slot] # p.base
    \/ ~p.build.fits
    \/ KitConflict(p.build.kit)

Write(i, c) == team_draft' = [team_draft EXCEPT ![i] = c]

commit_full_slot ==
    /\ node = "commit_full_slot"
    /\ \/ Refuse("END")
       \/ /\ ~CommitRefused(pending_presentation, pending_slot_intent,
                            provisional_slot, team_draft)
          /\ Write(provisional_slot.slot,
                   [locked |-> "all", build |-> provisional_slot.build])
          /\ ClearPendingKeys
          /\ slot_commit_error' = FALSE
          /\ GoTo("route_team_phase")
          /\ UNCHANGED bootstrap_intake_complete

\* Where the router of a slot handler sends a refusal.
\* (for mutation) on to discovery, as before ADR-031 Amendment 2026-10-16a
AfterRefusal_Rediscover == "route_team_phase"

AfterRefusal == "END"

\* What a slot can look like once attributes of it were reopened.
Reopened(c) ==
    IF c = EmptySlot THEN {c}
    ELSE {c, EmptySlot, [locked |-> "some", build |-> None]}

\* (for mutation) a successful lock or restore leaves the screen
ClearPendingOnSuccess_Never == UNCHANGED screen

\* _clear_pending_on_success
ClearPendingOnSuccess == ClearIfPending

LockHandler(Results(_)) ==
    \/ Refuse(AfterRefusal)
    \/ /\ \E i \in Slots : \E c \in Results(team_draft[i]) : Write(i, c)
       /\ ClearPendingOnSuccess
       /\ GoTo("route_team_phase")
       /\ UNCHANGED <<slot_commit_error, bootstrap_intake_complete>>

Partly == [locked : {"some"}, build : Fitting \cup {None}]
Complete(builds) == [locked : {"all"}, build : builds]

\* The locks may complete the slot, or reopen siblings they do not fit.
apply_lock ==
    /\ node = "apply_lock"
    /\ LET Results(c) ==
              IF all_locked(c) THEN {}
              ELSE Partly \cup Complete({b \in Fitting : ~KitConflict(b.kit)})
       IN  LockHandler(Results)

\* A restored value is not checked against its siblings.
restore_superseded ==
    /\ node = "restore_superseded"
    /\ LET Results(c) ==
              (IF all_locked(c) THEN {} ELSE Partly)
              \cup (IF c = EmptySlot THEN {} ELSE Complete(Fitting))
       IN  LockHandler(Results)

unlock_locked_slot ==
    /\ node = "unlock_locked_slot"
    /\ \/ Refuse(AfterRefusal)
       \/ /\ \E i \in Slots \ OpenSlots : Write(i, EmptySlot)
          /\ ClearPendingKeys
          /\ slot_commit_error' = FALSE
          /\ GoTo("route_team_phase")
          /\ UNCHANGED bootstrap_intake_complete

\* A refusal here is routed before apply_provisional_edit runs.
begin_locked_slot_revision ==
    /\ node = "begin_locked_slot_revision"
    /\ \/ Refuse("END")
       \/ /\ \E i \in Slots \ OpenSlots :
                /\ pending_slot_intent' = Chosen(i)
                /\ provisional_slot' = [slot |-> i, base |-> team_draft[i],
                                        build |-> team_draft[i].build]
          /\ slot_commit_error' = FALSE
          /\ GoTo("apply_provisional_edit")
          /\ UNCHANGED <<team_draft, pending_presentation,
                         bootstrap_intake_complete>>

Reconcile ==
    team_draft' \in {d \in [Slots -> SlotContents] :
                        \A i \in Slots : d[i] \in Reopened(team_draft[i])}

\* record_constraint, restore_constraint, handle_archetype_change
ReconcilingHandler ==
    /\ node \in {"record_constraint", "restore_constraint",
                 "handle_archetype_change"}
    /\ Reconcile
    /\ GoTo("route_team_phase")
    /\ UNCHANGED <<screen, slot_commit_error, bootstrap_intake_complete>>

\* Discovery runs again only for a claim that was wrong and is re-attempted.
handle_claim_correction ==
    /\ node = "handle_claim_correction"
    /\ \/ EndTurn /\ UNCHANGED team_draft
       \/ Reconcile /\ GoTo("route_team_phase")
    /\ UNCHANGED <<screen, slot_commit_error, bootstrap_intake_complete>>

\* Only an unlocked species is dropped; a slot number out of range is
\* refused, yet discovery runs.
record_rejection ==
    /\ node = "record_rejection"
    /\ \/ Refuse("route_team_phase")
       \/ /\ \E i \in Slots : \E c \in {team_draft[i]} \cup
                (IF team_draft[i].locked = "some"
                 THEN Reopened(team_draft[i]) ELSE {}) : Write(i, c)
          /\ GoTo("route_team_phase")
          /\ UNCHANGED <<screen, slot_commit_error, bootstrap_intake_complete>>

reset_team ==
    /\ node = "reset_team"
    /\ team_draft' = [i \in Slots |-> EmptySlot]
    /\ ClearPendingKeys
    /\ slot_commit_error' = FALSE
    /\ bootstrap_intake_complete' = FALSE
    /\ GoTo("route_team_phase")

-----------------------------------------------------------------------------
(* Discovery and the screens it ends on.                                   *)

\* initialize and accept_available_pool, once
initialize ==
    /\ node = "initialize"
    /\ GoTo("route_team_phase")
    /\ UNCHANGED <<screen, team_draft, slot_commit_error,
                   bootstrap_intake_complete>>

route_team_phase ==
    /\ node = "route_team_phase"
    /\ GoTo(CASE team_phase = "empty"         -> "bootstrap_direction"
              [] team_phase = "single_locked" -> "discover_single_locked"
              [] team_phase = "multi_locked"  -> "discover_multi_locked"
              [] team_phase = "complete"      -> "generate_team_review")
    /\ UNCHANGED <<screen, team_draft, slot_commit_error,
                   bootstrap_intake_complete>>

record_bootstrap_response ==
    /\ node = "record_bootstrap_response"
    /\ bootstrap_intake_complete' = TRUE
    /\ pending_presentation' = None
    /\ GoTo("route_team_phase")
    /\ UNCHANGED <<team_draft, pending_slot_intent, provisional_slot,
                   slot_commit_error>>

\* Where the discovery nodes lead.
\* (for mutation) discovery goes on with the next slot
AfterDiscovery_Next == "route_team_phase"

AfterDiscovery == "END"

Present(s) ==
    /\ pending_presentation' = s
    /\ GoTo(AfterDiscovery)
    /\ UNCHANGED <<team_draft, pending_slot_intent, provisional_slot,
                   slot_commit_error, bootstrap_intake_complete>>

bootstrap_direction ==
    /\ node = "bootstrap_direction"
    /\ \/ Present(Plain("bootstrap_intake"))
       \/ /\ bootstrap_intake_complete
          /\ Present(OfSlot("candidate_selection", 0))

\* fill_team_draft as a discovery node calls it: a role for a blank slot, more
\* for one whose species is known; the screen stays what it was.
Fill ==
    /\ team_draft' \in {d \in [Slots -> SlotContents] : \A i \in Slots :
          \/ d[i] = team_draft[i]
          \/ team_draft[i] = EmptySlot /\ d[i] = [locked |-> "some", build |-> None]
          \/ /\ team_draft[i].locked = "some"
             /\ d[i] \in [locked : {"some"}, build : Fitting]}
    /\ GoTo(AfterDiscovery)
    /\ UNCHANGED <<screen, slot_commit_error, bootstrap_intake_complete>>

Touched(i) == team_draft[i] # EmptySlot

\* A blank first open slot is offered candidates, or (for the multi-locked
\* discovery) a choice of what the team needs; an error clears the screen.
OfferSlot ==
    /\ ~Touched(FirstOpen)
    /\ \E kind \in {"candidate_selection", "completion_preference"} :
          Present(OfSlot(kind, FirstOpen))

\* An anchor without an obvious need is discovered by the multi-locked code.
discover_single_locked ==
    /\ node = "discover_single_locked"
    /\ \/ Fill
       \/ OfferSlot
       \/ ~Touched(FirstOpen) /\ Present(None)

discover_multi_locked ==
    /\ node = "discover_multi_locked"
    /\ \/ Fill
       \/ OfferSlot
       \/ Present(None)

\* finish_pending_response and generate_team_review show and change nothing.
ShowAndEnd ==
    /\ node \in {"finish_pending_response", "generate_team_review"}
    /\ EndTurn
    /\ UNCHANGED <<screen, team_draft, slot_commit_error,
                   bootstrap_intake_complete>>

-----------------------------------------------------------------------------
Init ==
    /\ team_draft = [i \in Slots |-> EmptySlot]
    /\ pending_presentation = None
    /\ pending_slot_intent = None
    /\ provisional_slot = None
    /\ slot_commit_error = FALSE
    /\ bootstrap_intake_complete = FALSE
    /\ turn_intent = None
    /\ node = "initialize"
    /\ before = None

RunNode ==
    \/ initialize
    \/ route_team_phase
    \/ bootstrap_direction
    \/ record_bootstrap_response
    \/ discover_single_locked
    \/ discover_multi_locked
    \/ ShowAndEnd
    \/ refine_provisional_slot
    \/ apply_provisional_edit
    \/ apply_provisional_option
    \/ resolve_spread_reallocation
    \/ resolve_spread_target_question
    \/ resolve_item_moveset_conflict
    \/ compare_build_options
    \/ commit_full_slot
    \/ apply_lock
    \/ restore_superseded
    \/ unlock_locked_slot
    \/ begin_locked_slot_revision
    \/ ReconcilingHandler
    \/ handle_claim_correction
    \/ record_rejection
    \/ reset_team

Next == classify_input \/ RunNode

\* graph.invoke runs to END on its own; the user may never reply.
Spec == Init /\ [][Next]_vars /\ WF_vars(RunNode)

-----------------------------------------------------------------------------
(* Properties.                                                             *)

Interrupts(s) == Kind(s) \in Questions \cup {"confirm_abandon_build"}
Under(s) == IF Interrupts(s) THEN s.held ELSE s

\* The screen at the bottom of a stack of questions.
Bottom(s) == Under(Under(s))

Screens ==
    LET Base == {Plain("bootstrap_intake")}
                \cup [kind : {"candidate_selection", "completion_preference"},
                      slot : Slots]
                \cup [kind : {"full_build_confirmation"}, shown : Provisionals]
        Over(S) ==
            [kind : {"confirm_abandon_build", "spread_reallocation_question",
                     "spread_target_question"}, held : S \cup {None}]
            \cup [kind : {"item_moveset_conflict_question"},
                  held : S \cup {None}, attempted : Kits]
    IN  Base \cup Over(Base) \cup Over(Over(Base))

\* No value is mistaken for its absence.
ASSUME NoneAssumption ==
    None \notin Builds \cup Intents \cup Provisionals \cup Screens

\* The types of the variables.
TypeOK ==
    /\ team_draft \in [Slots -> SlotContents]
    /\ pending_presentation \in Screens \cup {None}
    /\ pending_slot_intent \in Intents \cup {None}
    /\ provisional_slot \in Provisionals \cup {None}
    /\ slot_commit_error \in BOOLEAN
    /\ bootstrap_intake_complete \in BOOLEAN
    /\ before \in Screens \cup {None}

\* A question interrupts a build confirmation, another question that does, or
\* nothing: deferring it can only lead back to the build the user was asked
\* about, or end the edit.
QuestionsHoldABuild ==
    Interrupts(pending_presentation) =>
        /\ Kind(Bottom(pending_presentation)) \in {"none", "full_build_confirmation"}
        /\ pending_presentation.kind = "confirm_abandon_build" =>
              Kind(pending_presentation.held) = "full_build_confirmation"

\* Between turns a build on screen, also under a question, is backed by an
\* intent and a provisional slot for the same slot, chosen over the same
\* contents; the provisional is the build shown, or an edit of it whose
\* spread is off the budget and which commit_full_slot refuses.  A question
\* on its own has a provisional to apply its answer to.
WaitingBuildIsBacked ==
    LET waiting == Bottom(pending_presentation)
    IN  node = "END" =>
        /\ Interrupts(pending_presentation) => Editing
        /\ Kind(waiting) = "full_build_confirmation" =>
              /\ Editing
              /\ pending_slot_intent.slot = waiting.shown.slot
              /\ provisional_slot.slot = waiting.shown.slot
              /\ provisional_slot.base = waiting.shown.base
              /\ \/ provisional_slot = waiting.shown
                 \/ ~provisional_slot.build.fits

\* Whatever the user replies, the screen has behind it the state its answers
\* are applied to (the gates of graph.py, the handlers of nodes.py).
ScreensAreBacked == TypeOK /\ QuestionsHoldABuild /\ WaitingBuildIsBacked

\* Between turns candidates and completion preferences are on screen only for
\* a slot that is still open: a turn that completes it takes them away.
OffersAreForOpenSlots ==
    node = "END" /\ Kind(pending_presentation) \in
                       {"candidate_selection", "completion_preference"}
    => ~all_locked(team_draft[pending_presentation.slot])

\* A turn that ends in a refusal leaves the screen it answered (ADR-031,
\* Amendment 2026-10-16a), whatever nodes it ran through.  A candidate that
\* cannot be refined and a rejection of an unknown slot go on to discovery.
RefusedTurnKeepsScreen ==
    [][ node # "END" /\ node' = "END" /\ slot_commit_error'
        /\ turn_intent \notin {"slot_candidate_selected", "rejection"}
        => pending_presentation' = before ]_vars

\* What commit_full_slot writes is the build on the screen the user said yes
\* to, over contents that have not changed since that user picked the
\* candidate or the slot to revise, however many turns ago.
OnlyShownBuildsCommit ==
    [][ node = "commit_full_slot" =>
        \A i \in Slots : team_draft'[i] # team_draft[i] =>
            /\ Kind(before) = "full_build_confirmation"
            /\ before.shown = [slot |-> i, base |-> pending_slot_intent.base,
                               build |-> team_draft'[i].build]
            /\ team_draft[i] = pending_slot_intent.base ]_vars

\* A build waiting for confirmation survives every turn that does not commit,
\* drop or change something: asking to go on or for a review, comparing,
\* editing, answering questions, unclear replies and refusals.
LosingABuild ==
    {"full_slot_confirmed", "build_abandoned", "constraint", "rejection",
     "archetype_change", "reset", "restore", "restore_constraint",
     "claim_correction"}

WaitingBuildSurvives ==
    [][ node # "END" /\ node' = "END"
        /\ Kind(Bottom(before)) = "full_build_confirmation"
        /\ Kind(before) # "confirm_abandon_build"
        /\ turn_intent \notin LosingABuild
        => /\ Kind(Bottom(pending_presentation')) = "full_build_confirmation"
           /\ Bottom(pending_presentation').shown.slot = Bottom(before).shown.slot
      ]_vars

\* Every turn comes to an end: no reply sends the graph round in circles.
EveryTurnEnds == node # "END" ~> node = "END"

\* Deferring a reallocation question restores the prior build state.
DeferRestoresBuild ==
    node = "END" /\ turn_intent = "pending_response"
    /\ Kind(before) = "spread_reallocation_question"
    /\ Kind(pending_presentation) = "full_build_confirmation"
    => provisional_slot = pending_presentation.shown

\* A conflict the user keeps deliberately can be confirmed.
KeptConflictCommits ==
    node = "END" /\ turn_intent = "resolve_item_moveset_conflict"
    /\ Kind(pending_presentation) = "full_build_confirmation"
    => ~CommitRefused(pending_presentation, pending_slot_intent,
                      provisional_slot, team_draft)

=============================================================================
