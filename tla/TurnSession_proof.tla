-------------------------- MODULE TurnSession_proof --------------------------
(***************************************************************************)
(* The session graph, for any number of slots and any kits: the build on   *)
(* screen is backed by the state its answers are applied to, offers are    *)
(* for open slots, only the build shown is committed, a refusal leaves its *)
(* screen and a waiting build is not lost.                                 *)
(*                                                                         *)
(* ScreensAreBacked speaks of the state between turns.  What makes it      *)
(* inductive is what each node may rely on when it runs (NodeInv): which   *)
(* screen the reply answered, that it is still up, and that the slot being *)
(* filled is the slot of the provisional build.                            *)
(***************************************************************************)
EXTENDS TurnSession, FiniteSetTheorems, WellFoundedInduction, TLAPS

(* The screens that arise.  At most one question is asked over another: the *)
(* one which stat pays over the one which stat was meant.                   *)
Intakes == {Plain("bootstrap_intake")}
Offers == [kind : {"candidate_selection", "completion_preference"}, slot : Slots]
Confirmations == [kind : {"full_build_confirmation"}, shown : Provisionals]
Abandons == [kind : {"confirm_abandon_build"}, held : Confirmations]
Held == Confirmations \cup {None}
Targets == [kind : {"spread_target_question"}, held : Held]
Conflicts == [kind : {"item_moveset_conflict_question"}, held : Held, attempted : Kits]
Reallocations == [kind : {"spread_reallocation_question"}, held : Held \cup Targets]

Shapes ==
    {None} \cup Intakes \cup Offers \cup Confirmations \cup Abandons
    \cup Targets \cup Conflicts \cup Reallocations

\* The intent and the provisional build are about one slot, picked over the
\* same contents.
Matched(i, v) == i # None /\ v # None /\ i.slot = v.slot /\ i.base = v.base

Waiting(s) == Interrupts(s) \/ Kind(s) = "full_build_confirmation"

ShowsABuild(s) == Kind(Bottom(s)) = "full_build_confirmation"

\* WaitingBuildIsBacked at every node, with the base of the intent.
Backs(s, i, v) ==
    /\ Waiting(s) => Matched(i, v)
    /\ ShowsABuild(s) => /\ v.slot = Bottom(s).shown.slot
                         /\ v.base = Bottom(s).shown.base
                         /\ v = Bottom(s).shown \/ ~v.build.fits

\* OffersAreForOpenSlots at every node.
OffersOpen(s, d) ==
    Kind(s) \in {"candidate_selection", "completion_preference"}
        => ~all_locked(d[s.slot])

\* A slot is locked whole only with a build.
LockedHoldsBuild ==
    \A i \in Slots : all_locked(team_draft[i]) => team_draft[i].build # None

Core ==
    /\ TypeOK
    /\ LockedHoldsBuild
    /\ pending_presentation \in Shapes
    /\ before \in Shapes
    /\ Backs(pending_presentation, pending_slot_intent, provisional_slot)
    /\ OffersOpen(pending_presentation, team_draft)

(* What a node may rely on when it runs.                                    *)

\* Which screen is up at the nodes that work on one.
ScreenOfNode ==
    /\ node = "refine_provisional_slot" =>
          /\ pending_presentation = None /\ pending_slot_intent # None
          /\ turn_intent = "slot_candidate_selected"
    /\ node = "begin_locked_slot_revision" => pending_presentation = None
    /\ node = "apply_provisional_edit" =>
          \/ pending_presentation \in Confirmations
          \/ /\ pending_presentation = None
             /\ Matched(pending_slot_intent, provisional_slot)
    /\ node = "apply_provisional_option" => pending_presentation \in Confirmations
    /\ node = "resolve_spread_reallocation" => pending_presentation \in Reallocations
    /\ node = "resolve_spread_target_question" => pending_presentation \in Targets
    /\ node = "resolve_item_moveset_conflict" => pending_presentation \in Conflicts

\* Discovery runs for a team with an open slot, direction for an open team.
TeamOfNode ==
    /\ node = "bootstrap_direction" => OpenSlots = Slots
    /\ node \in {"discover_single_locked", "discover_multi_locked"} => OpenSlots # {}

Editors == {"apply_provisional_edit", "apply_provisional_option",
            "resolve_spread_reallocation", "resolve_spread_target_question",
            "resolve_item_moveset_conflict"}

\* The screen answered is still up where a refusal can end the turn.
Refusing == Editors \cup {"commit_full_slot", "apply_lock", "restore_superseded",
                          "unlock_locked_slot", "begin_locked_slot_revision"}
ScreenIsKept == node \in Refusing => pending_presentation = before

\* Inside a turn only two classes of reply carry a refusal on to discovery.
Passing == {"slot_candidate_selected", "rejection"}
RefusalsPass ==
    /\ slot_commit_error => node = "END" \/ turn_intent \in Passing
    /\ node = "record_rejection" => turn_intent = "rejection"

\* A reply that may not lose the waiting build is at a node that keeps it.
MayNotLose ==
    /\ Kind(Bottom(before)) = "full_build_confirmation"
    /\ Kind(before) # "confirm_abandon_build"
    /\ turn_intent \notin LosingABuild
BuildIsKept ==
    node # "END" /\ MayNotLose =>
        /\ node \in Editors \cup {"compare_build_options", "finish_pending_response"}
        /\ ShowsABuild(pending_presentation)
        /\ Bottom(pending_presentation).shown.slot = Bottom(before).shown.slot

NodeInv == ScreenOfNode /\ TeamOfNode /\ ScreenIsKept /\ RefusalsPass /\ BuildIsKept

IInv == Core /\ NodeInv

-----------------------------------------------------------------------------
(* Screens.                                                                *)

\* None is not a record that stands for something.
LEMMA NoneIsNothing ==
    /\ None \notin Builds /\ None \notin Intents /\ None \notin Provisionals
    /\ None \notin Intakes /\ None \notin Offers /\ None \notin Confirmations
    /\ None \notin Abandons /\ None \notin Targets /\ None \notin Conflicts
    /\ None \notin Reallocations
<1> DEFINE Base == {Plain("bootstrap_intake")}
                   \cup [kind : {"candidate_selection", "completion_preference"},
                         slot : Slots]
                   \cup [kind : {"full_build_confirmation"}, shown : Provisionals]
<1> DEFINE Over(S) ==
               [kind : {"confirm_abandon_build", "spread_reallocation_question",
                        "spread_target_question"}, held : S \cup {None}]
               \cup [kind : {"item_moveset_conflict_question"},
                     held : S \cup {None}, attempted : Kits]
<1>1. None \notin Base \cup Over(Base) \cup Over(Over(Base))
  BY NoneAssumption DEF Screens
<1>2. Intakes \cup Offers \cup Confirmations \subseteq Base
  BY DEF Intakes, Offers, Confirmations
<1>3. Abandons \cup Targets \cup Conflicts \subseteq Over(Base)
  BY <1>2 DEF Abandons, Targets, Conflicts, Held
<1>4. Reallocations \subseteq Over(Base) \cup Over(Over(Base))
  BY <1>2, <1>3 DEF Reallocations, Held
<1> QED
  BY <1>1, <1>2, <1>3, <1>4, NoneAssumption

\* The shapes are screens.
LEMMA ShapesAreScreens == Shapes \subseteq Screens \cup {None}
<1> DEFINE Base == {Plain("bootstrap_intake")}
                   \cup [kind : {"candidate_selection", "completion_preference"},
                         slot : Slots]
                   \cup [kind : {"full_build_confirmation"}, shown : Provisionals]
<1> DEFINE Over(S) ==
               [kind : {"confirm_abandon_build", "spread_reallocation_question",
                        "spread_target_question"}, held : S \cup {None}]
               \cup [kind : {"item_moveset_conflict_question"},
                     held : S \cup {None}, attempted : Kits]
<1>1. Screens = Base \cup Over(Base) \cup Over(Over(Base))
  BY DEF Screens
<1>2. Intakes \cup Offers \cup Confirmations \subseteq Base
  BY DEF Intakes, Offers, Confirmations
<1>3. Abandons \cup Targets \cup Conflicts \subseteq Over(Base)
  BY <1>2 DEF Abandons, Targets, Conflicts, Held
<1>4. Reallocations \subseteq Over(Base) \cup Over(Over(Base))
  BY <1>2, <1>3 DEF Reallocations, Held
<1> QED
  BY <1>1, <1>2, <1>3, <1>4 DEF Shapes

\* What the operators on screens make of each shape.
LEMMA NoScreen ==
    /\ Kind(None) = "none" /\ ~Interrupts(None) /\ ~Waiting(None)
    /\ Bottom(None) = None /\ ~ShowsABuild(None)
BY DEF Kind, Interrupts, Waiting, Bottom, Under, ShowsABuild, Questions

LEMMA PlainScreen ==
    ASSUME NEW s \in Intakes \cup Offers
    PROVE  /\ s # None
           /\ Kind(s) = s.kind
           /\ Kind(s) \in {"bootstrap_intake", "candidate_selection", "completion_preference"}
           /\ ~Interrupts(s) /\ ~Waiting(s)
           /\ Bottom(s) = s /\ ~ShowsABuild(s)
<1>1. s # None /\ s.kind \in {"bootstrap_intake", "candidate_selection",
                              "completion_preference"}
  BY NoneIsNothing DEF Intakes, Plain, Offers
<1>2. Kind(s) = s.kind
  BY <1>1 DEF Kind
<1>3. ~Interrupts(s) /\ Kind(s) # "full_build_confirmation"
  BY <1>1, <1>2 DEF Interrupts, Questions
<1>4. Bottom(s) = s
  BY <1>3 DEF Bottom, Under
<1> QED
  BY <1>1, <1>2, <1>3, <1>4 DEF Waiting, ShowsABuild

LEMMA BuildScreen ==
    ASSUME NEW s \in Confirmations
    PROVE  /\ s # None
           /\ Kind(s) = "full_build_confirmation" /\ s.kind = Kind(s)
           /\ s.shown \in Provisionals
           /\ ~Interrupts(s) /\ Waiting(s)
           /\ Bottom(s) = s /\ ShowsABuild(s)
<1>1. s # None /\ s.kind = "full_build_confirmation" /\ s.shown \in Provisionals
  BY NoneIsNothing DEF Confirmations
<1>2. Kind(s) = "full_build_confirmation"
  BY <1>1 DEF Kind
<1>3. ~Interrupts(s)
  BY <1>2 DEF Interrupts, Questions
<1>4. Bottom(s) = s
  BY <1>3 DEF Bottom, Under
<1> QED
  BY <1>1, <1>2, <1>3, <1>4 DEF Waiting, ShowsABuild

\* A question over a build, or over nothing.
LEMMA QuestionScreen ==
    ASSUME NEW s \in Abandons \cup Targets \cup Conflicts
    PROVE  /\ s # None
           /\ Kind(s) = s.kind
           /\ s.kind \in {"confirm_abandon_build", "spread_target_question",
                          "item_moveset_conflict_question"}
           /\ s.held \in Held
           /\ s.kind = "confirm_abandon_build" => s.held \in Confirmations
           /\ s.kind = "item_moveset_conflict_question" => s.attempted \in Kits
           /\ Interrupts(s) /\ Waiting(s)
           /\ Bottom(s) = s.held
           /\ ShowsABuild(s) <=> s.held # None
<1>1. /\ s # None
      /\ s.kind \in {"confirm_abandon_build", "spread_target_question",
                     "item_moveset_conflict_question"}
      /\ s.held \in Held
      /\ s.kind = "confirm_abandon_build" => s.held \in Confirmations
      /\ s.kind = "item_moveset_conflict_question" => s.attempted \in Kits
  BY NoneIsNothing DEF Abandons, Targets, Conflicts, Held
<1>2. Kind(s) = s.kind
  BY <1>1 DEF Kind
<1>3. Interrupts(s)
  BY <1>1, <1>2 DEF Interrupts, Questions
<1>4. ~Interrupts(s.held)
  BY <1>1, NoScreen, BuildScreen DEF Held
<1>5. Bottom(s) = s.held
  BY <1>3, <1>4 DEF Bottom, Under
<1>6. ShowsABuild(s) <=> s.held # None
  BY <1>1, <1>5, NoScreen, BuildScreen DEF Held, ShowsABuild
<1> QED
  BY <1>1, <1>2, <1>3, <1>5, <1>6 DEF Waiting

\* The question which stat pays, perhaps over the one which stat was meant.
LEMMA ReallocationScreen ==
    ASSUME NEW s \in Reallocations
    PROVE  /\ s # None
           /\ Kind(s) = "spread_reallocation_question" /\ s.kind = Kind(s)
           /\ s.held \in Held \cup Targets
           /\ Interrupts(s) /\ Waiting(s)
           /\ Bottom(s) = Bottom(s.held)
           /\ Bottom(s) \in Held
           /\ ShowsABuild(s) <=> ShowsABuild(s.held)
<1>1. /\ s # None /\ s.kind = "spread_reallocation_question"
      /\ s.held \in Held \cup Targets
  BY NoneIsNothing DEF Reallocations
<1>2. Kind(s) = "spread_reallocation_question"
  BY <1>1 DEF Kind
<1>3. Interrupts(s)
  BY <1>2 DEF Interrupts, Questions
<1>4. Bottom(s) = Under(s.held)
  BY <1>3 DEF Bottom, Under
<1>5. CASE s.held \in Held
  <2>1. ~Interrupts(s.held) /\ Bottom(s.held) = s.held
    BY <1>5, NoScreen, BuildScreen DEF Held
  <2> QED
    BY <1>1, <1>2, <1>3, <1>4, <1>5, <2>1 DEF Under, Waiting, ShowsABuild
<1>6. CASE s.held \in Targets
  <2>1. Interrupts(s.held) /\ Bottom(s.held) = s.held.held /\ s.held.held \in Held
    BY <1>6, QuestionScreen
  <2> QED
    BY <1>1, <1>2, <1>3, <1>4, <2>1 DEF Under, Waiting, ShowsABuild
<1> QED
  BY <1>1, <1>5, <1>6

\* A screen is known by its kind.
LEMMA KindOfShape ==
    ASSUME NEW s \in Shapes
    PROVE  /\ Kind(s) = "none" <=> s = None
           /\ Kind(s) = "bootstrap_intake" => s \in Intakes
           /\ Kind(s) \in {"candidate_selection", "completion_preference"} => s \in Offers
           /\ Kind(s) = "full_build_confirmation" => s \in Confirmations
           /\ Kind(s) = "confirm_abandon_build" => s \in Abandons
           /\ Kind(s) = "spread_target_question" => s \in Targets
           /\ Kind(s) = "item_moveset_conflict_question" => s \in Conflicts
           /\ Kind(s) = "spread_reallocation_question" => s \in Reallocations
           /\ Interrupts(s) => s \in Abandons \cup Targets \cup Conflicts \cup Reallocations
           /\ Kind(Bottom(s)) = "full_build_confirmation" <=> ShowsABuild(s)
           /\ ShowsABuild(s) => Waiting(s) /\ Bottom(s) \in Confirmations
<1>1. CASE s = None
  BY <1>1, NoScreen DEF ShowsABuild
<1>2. CASE s \in Intakes
  BY <1>2, PlainScreen DEF ShowsABuild, Intakes, Plain
<1>3. CASE s \in Offers
  <2>1. s.kind \in {"candidate_selection", "completion_preference"}
    BY <1>3 DEF Offers
  <2> QED
    BY <1>3, <2>1, PlainScreen DEF ShowsABuild
<1>4. CASE s \in Confirmations
  BY <1>4, BuildScreen DEF ShowsABuild
<1>5. CASE s \in Abandons
  BY <1>5, QuestionScreen DEF ShowsABuild, Abandons, Held
<1>6. CASE s \in Targets
  BY <1>6, QuestionScreen DEF ShowsABuild, Targets, Held
<1>7. CASE s \in Conflicts
  BY <1>7, QuestionScreen DEF ShowsABuild, Conflicts, Held
<1>8. CASE s \in Reallocations
  <2>1. ShowsABuild(s) => Bottom(s) \in Confirmations
    BY <1>8, ReallocationScreen, NoScreen DEF ShowsABuild, Held
  <2> QED
    BY <1>8, <2>1, ReallocationScreen DEF ShowsABuild
<1> QED
  BY <1>1, <1>2, <1>3, <1>4, <1>5, <1>6, <1>7, <1>8 DEF Shapes

-----------------------------------------------------------------------------
(* The state behind a screen.                                              *)

LEMMA NothingToBack ==
    ASSUME NEW s \in {None} \cup Intakes \cup Offers, NEW i, NEW v
    PROVE  Backs(s, i, v)
BY NoScreen, PlainScreen DEF Backs

\* The build just shown is the provisional one.
LEMMA ShownIsBacked ==
    ASSUME NEW i, NEW v \in Provisionals, Matched(i, v)
    PROVE  /\ Confirmation(v) \in Confirmations
           /\ Confirmation(v).shown = v
           /\ Backs(Confirmation(v), i, v)
<1>1. Confirmation(v) \in Confirmations /\ Confirmation(v).shown = v
  BY DEF Confirmation, Confirmations
<1>2. Bottom(Confirmation(v)) = Confirmation(v)
  BY <1>1, BuildScreen
<1> QED
  BY <1>1, <1>2 DEF Backs

\* A question asked over a screen keeps the backing, also when the edit it
\* asks about is kept as the provisional build.
LEMMA AskedIsBacked ==
    ASSUME NEW s, NEW q, NEW i, NEW v, NEW w, Backs(s, i, v),
           Matched(i, w), w.slot = v.slot, w.base = v.base,
           w = v \/ ~w.build.fits,
           Bottom(q) = Bottom(s), ShowsABuild(q) => ShowsABuild(s)
    PROVE  Backs(q, i, w)
BY DEF Backs

\* What a question over a confirmation, over nothing or over the question
\* which stat was meant looks like.
LEMMA AskedScreens ==
    ASSUME NEW s \in Held
    PROVE  /\ Asking("spread_target_question", s) \in Targets
           /\ Asking("spread_target_question", s).held = s
           /\ \A kit \in Kits : /\ ConflictQuestion(kit, s) \in Conflicts
                               /\ ConflictQuestion(kit, s).held = s
           /\ s # None => /\ Asking("confirm_abandon_build", s) \in Abandons
                          /\ Asking("confirm_abandon_build", s).held = s
<1>1. Asking("spread_target_question", s) \in Targets
  BY DEF Asking, Targets
<1>2. \A kit \in Kits : ConflictQuestion(kit, s) \in Conflicts
  BY DEF ConflictQuestion, Conflicts
<1>3. s # None => Asking("confirm_abandon_build", s) \in Abandons
  BY DEF Asking, Abandons, Held
<1> QED
  BY <1>1, <1>2, <1>3 DEF Asking, ConflictQuestion

LEMMA AskedReallocation ==
    ASSUME NEW s \in Held \cup Targets
    PROVE  /\ Asking("spread_reallocation_question", s) \in Reallocations
           /\ Asking("spread_reallocation_question", s).held = s
BY DEF Asking, Reallocations

\* Under a question is what its answer or its deferral goes back to.
LEMMA HeldScreen ==
    ASSUME NEW s \in Abandons \cup Targets \cup Conflicts \cup Reallocations,
           s.held # None
    PROVE  /\ s.held \in Confirmations \cup Targets
           /\ Bottom(s.held) = Bottom(s)
           /\ ShowsABuild(s) <=> ShowsABuild(s.held)
<1>1. CASE s \in Reallocations
  BY <1>1, ReallocationScreen DEF Held
<1>2. CASE s \in Abandons \cup Targets \cup Conflicts
  <2>1. s.held \in Confirmations /\ Bottom(s) = s.held
    BY <1>2, QuestionScreen DEF Held
  <2> QED
    BY <2>1, <1>2, BuildScreen, QuestionScreen
<1> QED
  BY <1>1, <1>2

-----------------------------------------------------------------------------
(* Steps, grouped by what they do to the screen and to the team.           *)

\* No slot becomes locked whole.
OnlyOpens ==
    /\ team_draft' \in [Slots -> SlotContents]
    /\ \A i \in Slots : all_locked(team_draft'[i]) => team_draft'[i] = team_draft[i]

Flags ==
    /\ slot_commit_error' \in BOOLEAN
    /\ bootstrap_intake_complete' \in BOOLEAN
    /\ before' \in Shapes

LEMMA SameTeam ==
    ASSUME Core, UNCHANGED team_draft
    PROVE  OnlyOpens
BY DEF Core, TypeOK, OnlyOpens

LEMMA LocksStayFull ==
    ASSUME Core, OnlyOpens
    PROVE  LockedHoldsBuild'
BY DEF Core, OnlyOpens, LockedHoldsBuild

\* The screen stays as it was.
LEMMA ScreenStays ==
    ASSUME Core, OnlyOpens, Flags, UNCHANGED screen
    PROVE  Core'
<1>1. TypeOK'
  BY ShapesAreScreens DEF Core, TypeOK, OnlyOpens, Flags, screen
<1>2. LockedHoldsBuild'
  BY LocksStayFull
<1>3. (pending_presentation \in Shapes)' /\ (before \in Shapes)'
  BY DEF Core, Flags, screen
<1>4. Backs(pending_presentation, pending_slot_intent, provisional_slot)'
  BY DEF Core, screen
<1>5. OffersOpen(pending_presentation, team_draft)'
  <2>1. SUFFICES ASSUME Kind(pending_presentation) \in
                            {"candidate_selection", "completion_preference"}
                 PROVE  ~all_locked(team_draft'[pending_presentation.slot])
    BY DEF OffersOpen, screen
  <2>2. pending_presentation \in Offers
    BY <2>1, KindOfShape DEF Core
  <2>3. pending_presentation.slot \in Slots
    BY <2>2 DEF Offers
  <2>4. ~all_locked(team_draft[pending_presentation.slot])
    BY <2>1 DEF Core, OffersOpen
  <2> QED
    BY <2>3, <2>4 DEF OnlyOpens
<1> QED
  BY <1>1, <1>2, <1>3, <1>4, <1>5 DEF Core

\* Another screen, which offers nothing, or nothing that is not open.
LEMMA ScreenChanges ==
    ASSUME Core, team_draft' \in [Slots -> SlotContents], LockedHoldsBuild', Flags,
           pending_presentation' \in Shapes,
           pending_slot_intent' \in Intents \cup {None},
           provisional_slot' \in Provisionals \cup {None},
           Backs(pending_presentation', pending_slot_intent', provisional_slot'),
           OffersOpen(pending_presentation', team_draft')
    PROVE  Core'
<1>1. TypeOK'
  BY ShapesAreScreens DEF TypeOK, Flags
<1> QED
  BY <1>1 DEF Core, Flags

LEMMA ScreenGoes ==
    ASSUME Core, team_draft' \in [Slots -> SlotContents], LockedHoldsBuild', Flags,
           pending_presentation' = None,
           pending_slot_intent' \in Intents \cup {None},
           provisional_slot' \in Provisionals \cup {None}
    PROVE  Core'
<1>1. Backs(pending_presentation', pending_slot_intent', provisional_slot')
  BY NothingToBack
<1>2. OffersOpen(pending_presentation', team_draft')
  BY NoScreen DEF OffersOpen
<1>3. pending_presentation' \in Shapes
  BY DEF Shapes
<1> QED
  BY <1>1, <1>2, <1>3, ScreenChanges

LEMMA KeysCleared ==
    ASSUME Core, team_draft' \in [Slots -> SlotContents], LockedHoldsBuild', Flags,
           ClearPendingKeys
    PROVE  Core'
BY ScreenGoes DEF ClearPendingKeys

\* A screen that asks about a build is no offer.
LEMMA NoOffer ==
    ASSUME NEW s \in Shapes, Waiting(s), NEW d
    PROVE  OffersOpen(s, d)
<1>1. s \notin Offers
  BY PlainScreen
<1> QED
  BY <1>1, KindOfShape DEF OffersOpen

\* A build or a question about one goes on screen.
LEMMA BuildOnScreen ==
    ASSUME Core, UNCHANGED <<team_draft, pending_slot_intent>>, Flags,
           provisional_slot' \in Provisionals \cup {None},
           pending_presentation' \in Confirmations \cup Abandons \cup Targets
                                      \cup Conflicts \cup Reallocations,
           Backs(pending_presentation', pending_slot_intent', provisional_slot')
    PROVE  Core'
<1>1. pending_presentation' \in Shapes
  BY DEF Shapes
<1>2. Waiting(pending_presentation')
  BY BuildScreen, QuestionScreen, ReallocationScreen
<1>3. OffersOpen(pending_presentation', team_draft')
  BY <1>1, <1>2, NoOffer
<1>4. /\ team_draft' \in [Slots -> SlotContents]
      /\ pending_slot_intent' \in Intents \cup {None}
      /\ LockedHoldsBuild'
  BY DEF Core, TypeOK, LockedHoldsBuild
<1> QED
  BY <1>1, <1>3, <1>4, ScreenChanges

-----------------------------------------------------------------------------
(* What holds at the node that runs next.                                  *)

LEMMA TurnEnds ==
    ASSUME node' = "END"
    PROVE  NodeInv'
BY DEF NodeInv, ScreenOfNode, TeamOfNode, ScreenIsKept, Refusing, Editors,
       RefusalsPass, BuildIsKept

\* Nodes that rely on nothing.
LEMMA TurnGoesOn ==
    ASSUME IInv, node # "END",
           node \notin Editors \cup {"compare_build_options", "finish_pending_response"},
           node' \in {"route_team_phase", "generate_team_review"},
           UNCHANGED <<turn_intent, before>>,
           slot_commit_error' => turn_intent \in Passing
    PROVE  NodeInv'
<1>1. ScreenOfNode' /\ TeamOfNode' /\ ScreenIsKept' /\ RefusalsPass'
  BY DEF ScreenOfNode, TeamOfNode, ScreenIsKept, Refusing, Editors, RefusalsPass
<1>2. ~MayNotLose
  BY DEF IInv, NodeInv, BuildIsKept
<1>3. ~MayNotLose'
  BY <1>2 DEF MayNotLose
<1> QED
  BY <1>1, <1>3 DEF NodeInv, BuildIsKept

\* A refusal from an earlier node of the turn.
LEMMA EarlierRefusal ==
    ASSUME IInv, node # "END", slot_commit_error
    PROVE  turn_intent \in Passing
BY DEF IInv, NodeInv, RefusalsPass

LEMMA RefusedIsCore ==
    ASSUME Core, NEW next, Refuse(next)
    PROVE  Core' /\ node' = next /\ UNCHANGED <<turn_intent, before, screen>>
<1>1. OnlyOpens
  BY SameTeam DEF Refuse
<1>2. Flags
  BY DEF Core, TypeOK, Flags, Refuse, GoTo
<1> QED
  BY <1>1, <1>2, ScreenStays DEF Refuse, GoTo

-----------------------------------------------------------------------------
(* Nodes that edit the build.                                              *)

\* The build at the bottom of the screen stays, for its slot.
KeepsBuild ==
    ShowsABuild(pending_presentation) =>
        /\ ShowsABuild(pending_presentation')
        /\ Bottom(pending_presentation').shown.slot
              = Bottom(pending_presentation).shown.slot

\* Such a node ends the turn; where it refuses, the screen stays.
EditStep ==
    /\ Core'
    /\ node' = "END"
    /\ before' = before
    /\ KeepsBuild
    /\ slot_commit_error' => pending_presentation' = pending_presentation

LEMMA RefusedEdit ==
    ASSUME Core, Refuse("END")
    PROVE  EditStep
BY RefusedIsCore DEF EditStep, KeepsBuild, screen

\* The parts of a typed provisional build, and what replaces its build.
LEMMA ProvisionalParts ==
    ASSUME NEW p \in Provisionals, NEW b \in Builds
    PROVE  /\ p.slot \in Slots /\ p.base \in SlotContents /\ p.build \in Builds
           /\ [p EXCEPT !.build = b] \in Provisionals
           /\ [p EXCEPT !.build = b].slot = p.slot
           /\ [p EXCEPT !.build = b].base = p.base
           /\ [p EXCEPT !.build = b].build = b
BY DEF Provisionals

LEMMA EmittedStep ==
    ASSUME Core, NEW p \in Provisionals, Matched(pending_slot_intent, p),
           ShowsABuild(pending_presentation)
               => p.slot = Bottom(pending_presentation).shown.slot,
           Emit(p), EndTurn,
           UNCHANGED <<team_draft, pending_slot_intent, bootstrap_intake_complete>>
    PROVE  EditStep
<1>1. PICK shown \in ProvisionalsForConfirmation(p) :
         /\ provisional_slot' = shown
         /\ pending_presentation' = Confirmation(shown)
         /\ slot_commit_error' = FALSE
  BY DEF Emit
<1>2. shown \in Provisionals /\ shown.slot = p.slot /\ shown.base = p.base
  <2>1. CASE shown = p
    BY <2>1
  <2>2. CASE shown = [p EXCEPT !.build = team_draft[p.slot].build]
              /\ team_draft[p.slot].build # None
    <3>1. p.slot \in Slots
      BY DEF Provisionals
    <3>2. team_draft[p.slot] \in SlotContents
      BY <3>1 DEF Core, TypeOK
    <3>3. team_draft[p.slot].build \in Builds
      BY <2>2, <3>2 DEF SlotContents
    <3> QED
      BY <2>2, <3>3, ProvisionalParts
  <2> QED
    BY <1>1, <2>1, <2>2 DEF ProvisionalsForConfirmation
<1>3. Matched(pending_slot_intent, shown)
  BY <1>2, NoneIsNothing DEF Matched
<1>4. /\ Confirmation(shown) \in Confirmations
      /\ Confirmation(shown).shown = shown
      /\ Backs(Confirmation(shown), pending_slot_intent, shown)
  BY <1>2, <1>3, ShownIsBacked
<1>5. Flags
  BY <1>1 DEF Core, TypeOK, Flags, EndTurn, GoTo
<1>6. Core'
  BY <1>1, <1>2, <1>4, <1>5, BuildOnScreen
<1>7. KeepsBuild
  BY <1>1, <1>2, <1>4, BuildScreen DEF KeepsBuild
<1> QED
  BY <1>1, <1>6, <1>7 DEF EditStep, EndTurn, GoTo

LEMMA AskedStep ==
    ASSUME Core, NEW w \in Provisionals, Matched(pending_slot_intent, w),
           provisional_slot # None,
           w.slot = provisional_slot.slot, w.base = provisional_slot.base,
           w = provisional_slot \/ ~w.build.fits,
           pending_presentation' \in Targets \cup Conflicts \cup Reallocations,
           Bottom(pending_presentation') = Bottom(pending_presentation),
           ShowsABuild(pending_presentation') <=> ShowsABuild(pending_presentation),
           provisional_slot' = w, slot_commit_error' = FALSE, EndTurn,
           UNCHANGED <<team_draft, pending_slot_intent, bootstrap_intake_complete>>
    PROVE  EditStep
<1>1. Backs(pending_presentation, pending_slot_intent, provisional_slot)
  BY DEF Core
<1>2. Backs(pending_presentation', pending_slot_intent, w)
  BY <1>1, AskedIsBacked
<1>3. Flags
  BY DEF Core, TypeOK, Flags, EndTurn, GoTo
<1>4. Core'
  BY <1>2, <1>3, BuildOnScreen
<1> QED
  BY <1>4 DEF EditStep, KeepsBuild, EndTurn, GoTo

\* What an edit works on.
LEMMA EditedBuild ==
    ASSUME Core, Waiting(pending_presentation)
                 \/ Matched(pending_slot_intent, provisional_slot)
    PROVE  /\ provisional_slot \in Provisionals /\ provisional_slot # None
           /\ Matched(pending_slot_intent, provisional_slot)
           /\ ShowsABuild(pending_presentation) =>
                 provisional_slot.slot = Bottom(pending_presentation).shown.slot
BY NoneIsNothing DEF Core, TypeOK, Backs, Matched

\* Only the build of the provisional slot is another.
SameSlot(p) ==
    /\ p \in Provisionals
    /\ p.slot = provisional_slot.slot
    /\ p.base = provisional_slot.base

LEMMA SameSlotMatches ==
    ASSUME NEW p, SameSlot(p), Matched(pending_slot_intent, provisional_slot)
    PROVE  Matched(pending_slot_intent, p)
BY NoneIsNothing DEF SameSlot, Matched

LEMMA SpreadSet ==
    ASSUME NEW p \in Provisionals, NEW fits \in BOOLEAN
    PROVE  /\ [p EXCEPT !.build.fits = fits] \in Provisionals
           /\ [p EXCEPT !.build.fits = fits].slot = p.slot
           /\ [p EXCEPT !.build.fits = fits].base = p.base
           /\ [p EXCEPT !.build.fits = fits].build.fits = fits
<1>1. p.build \in Builds
  BY DEF Provisionals
<1>2. [p.build EXCEPT !.fits = fits] \in Builds
  BY <1>1 DEF Builds
<1>3. [p.build EXCEPT !.fits = fits].fits = fits
  BY <1>1 DEF Builds
<1>4. [p EXCEPT !.build.fits = fits]
        = [p EXCEPT !.build = [p.build EXCEPT !.fits = fits]]
  BY DEF Provisionals
<1> QED
  BY <1>2, <1>3, <1>4, ProvisionalParts

LEMMA KitSet ==
    ASSUME NEW p \in Provisionals, NEW kit \in Kits
    PROVE  /\ [p EXCEPT !.build.kit = kit] \in Provisionals
           /\ [p EXCEPT !.build.kit = kit].slot = p.slot
           /\ [p EXCEPT !.build.kit = kit].base = p.base
<1>1. p.build \in Builds
  BY DEF Provisionals
<1>2. [p.build EXCEPT !.kit = kit] \in Builds
  BY <1>1 DEF Builds
<1>3. [p EXCEPT !.build.kit = kit]
        = [p EXCEPT !.build = [p.build EXCEPT !.kit = kit]]
  BY DEF Provisionals
<1> QED
  BY <1>2, <1>3, ProvisionalParts

LEMMA ShownStep ==
    ASSUME Core, Waiting(pending_presentation)
                 \/ Matched(pending_slot_intent, provisional_slot),
           NEW p, SameSlot(p), Edited(Emit(p))
    PROVE  EditStep
<1>1. p \in Provisionals /\ Matched(pending_slot_intent, p)
  BY EditedBuild, SameSlotMatches DEF SameSlot
<1>2. ShowsABuild(pending_presentation)
        => p.slot = Bottom(pending_presentation).shown.slot
  BY EditedBuild DEF SameSlot
<1> QED
  BY <1>1, <1>2, EmittedStep DEF Edited

\* Asking which stat was meant, and which one pays.
LEMMA TargetStep ==
    ASSUME Core, Matched(pending_slot_intent, provisional_slot),
           pending_presentation \in Held,
           Edited(Ask("spread_target_question", provisional_slot))
    PROVE  EditStep
<1>1. /\ pending_presentation' = Asking("spread_target_question", pending_presentation)
      /\ provisional_slot' = provisional_slot /\ slot_commit_error' = FALSE /\ EndTurn
      /\ UNCHANGED <<team_draft, pending_slot_intent, bootstrap_intake_complete>>
  BY DEF Edited, Ask
<1>2. pending_presentation' \in Targets /\ pending_presentation'.held = pending_presentation
  BY <1>1, AskedScreens
<1>3. /\ Bottom(pending_presentation') = Bottom(pending_presentation)
      /\ ShowsABuild(pending_presentation') <=> ShowsABuild(pending_presentation)
  BY <1>2, QuestionScreen, NoScreen, BuildScreen DEF Held
<1>4. provisional_slot \in Provisionals /\ provisional_slot # None
  BY EditedBuild
<1> QED
  BY <1>1, <1>2, <1>3, <1>4, AskedStep

LEMMA ReallocationStep ==
    ASSUME Core, Waiting(pending_presentation)
                 \/ Matched(pending_slot_intent, provisional_slot),
           pending_presentation \in Held \cup Targets,
           NEW p, SameSlot(p), ~p.build.fits,
           Edited(Ask("spread_reallocation_question", p))
    PROVE  EditStep
<1>1. /\ pending_presentation' = Asking("spread_reallocation_question", pending_presentation)
      /\ provisional_slot' = p /\ slot_commit_error' = FALSE /\ EndTurn
      /\ UNCHANGED <<team_draft, pending_slot_intent, bootstrap_intake_complete>>
  BY DEF Edited, Ask
<1>2. pending_presentation' \in Reallocations
      /\ pending_presentation'.held = pending_presentation
  BY <1>1, AskedReallocation
<1>3. /\ Bottom(pending_presentation') = Bottom(pending_presentation)
      /\ ShowsABuild(pending_presentation') <=> ShowsABuild(pending_presentation)
  BY <1>2, ReallocationScreen
<1>4. provisional_slot # None /\ Matched(pending_slot_intent, p)
  BY EditedBuild, SameSlotMatches
<1> QED
  BY <1>1, <1>2, <1>3, <1>4, AskedStep DEF SameSlot

LEMMA ConflictStep ==
    ASSUME Core, Matched(pending_slot_intent, provisional_slot),
           pending_presentation \in Held, NEW kit \in Kits,
           pending_presentation' = ConflictQuestion(kit, pending_presentation),
           slot_commit_error' = FALSE, provisional_slot' = provisional_slot, EndTurn,
           UNCHANGED <<team_draft, pending_slot_intent, bootstrap_intake_complete>>
    PROVE  EditStep
<1>2. pending_presentation' \in Conflicts /\ pending_presentation'.held = pending_presentation
  BY AskedScreens
<1>3. /\ Bottom(pending_presentation') = Bottom(pending_presentation)
      /\ ShowsABuild(pending_presentation') <=> ShowsABuild(pending_presentation)
  BY <1>2, QuestionScreen, NoScreen, BuildScreen DEF Held
<1>4. provisional_slot \in Provisionals /\ provisional_slot # None
  BY EditedBuild
<1> QED
  BY <1>2, <1>3, <1>4, AskedStep

LEMMA VerifiedStep ==
    ASSUME Core, Waiting(pending_presentation)
                 \/ Matched(pending_slot_intent, provisional_slot),
           NEW new, SameSlot(new), NEW field,
           pending_presentation \in Held \cup Targets,
           field = "item" => pending_presentation \in Held,
           Edited(VerifyAndShow(new, field))
    PROVE  EditStep
<1>1. new.build \in Builds /\ Matched(pending_slot_intent, provisional_slot)
  BY EditedBuild DEF SameSlot, Provisionals
<1>2. CASE new.build.fits /\ ~KitConflict(new.build.kit) /\ Emit(new)
  BY <1>2, ShownStep DEF Edited
<1>3. CASE Emit([new EXCEPT !.build.fits = TRUE])
  <2>1. SameSlot([new EXCEPT !.build.fits = TRUE])
    BY SpreadSet DEF SameSlot
  <2> QED
    BY <1>3, <2>1, ShownStep DEF Edited
<1>4. CASE ~new.build.fits /\ Ask("spread_reallocation_question", new)
  BY <1>4, ReallocationStep DEF Edited
<1>5. CASE /\ field = "item"
           /\ pending_presentation' =
                 ConflictQuestion(new.build.kit, pending_presentation)
           /\ slot_commit_error' = FALSE
           /\ UNCHANGED provisional_slot
  <2>1. new.build.kit \in Kits
    BY <1>1 DEF Builds
  <2> QED
    BY <1>1, <1>5, <2>1, ConflictStep DEF Edited
<1> QED
  BY <1>2, <1>3, <1>4, <1>5 DEF Edited, VerifyAndShow

LEMMA AppliedEdit ==
    ASSUME Core, Waiting(pending_presentation)
                 \/ Matched(pending_slot_intent, provisional_slot),
           pending_presentation \in Held, ApplyEdit
    PROVE  EditStep
<1>1. CASE Refuse("END")
  BY <1>1, RefusedEdit
<1>2. ASSUME NEW field \in {"spread", "item", "other"},
             NEW new \in EditedBuilds(provisional_slot, field),
             Edited(VerifyAndShow(new, field))
      PROVE  EditStep
  <2>1. PICK b \in Builds : new = [provisional_slot EXCEPT !.build = b]
    BY <1>2 DEF EditedBuilds
  <2>2. SameSlot(new)
    BY <2>1, EditedBuild, ProvisionalParts DEF SameSlot
  <2> QED
    BY <1>2, <2>2, VerifiedStep
<1> QED
  BY <1>1, <1>2 DEF ApplyEdit

\* Every node that edits the build, as the screen it works on allows.
EditNode ==
    \/ apply_provisional_edit
    \/ apply_provisional_option
    \/ resolve_spread_reallocation
    \/ resolve_spread_target_question
    \/ resolve_item_moveset_conflict

LEMMA EditNodeStep ==
    ASSUME IInv, EditNode
    PROVE  EditStep /\ node \in Editors
<1>0. Core /\ ScreenOfNode
  BY DEF IInv, NodeInv
<1>1. CASE apply_provisional_edit
  <2>1. node = "apply_provisional_edit"
    BY <1>1 DEF apply_provisional_edit
  <2>2. /\ pending_presentation \in Held
        /\ Waiting(pending_presentation)
           \/ Matched(pending_slot_intent, provisional_slot)
    BY <1>0, <2>1, BuildScreen DEF ScreenOfNode, Held
  <2>3. CASE ApplyEdit
    BY <1>0, <2>1, <2>2, <2>3, AppliedEdit DEF Editors
  <2>4. CASE Edited(Ask("spread_target_question", provisional_slot))
    <3>1. Matched(pending_slot_intent, provisional_slot)
      BY <1>0, <2>2, EditedBuild
    <3> QED
      BY <1>0, <2>1, <2>2, <2>4, <3>1, TargetStep DEF Editors
  <2> QED
    BY <1>1, <2>3, <2>4 DEF apply_provisional_edit
<1>2. CASE apply_provisional_option
  <2>1. node = "apply_provisional_option" /\ ApplyEdit
    BY <1>2 DEF apply_provisional_option
  <2>2. pending_presentation \in Held /\ Waiting(pending_presentation)
    BY <1>0, <2>1, BuildScreen DEF ScreenOfNode, Held
  <2> QED
    BY <1>0, <2>1, <2>2, AppliedEdit DEF Editors
<1>3. CASE resolve_spread_reallocation
  <2>1. node = "resolve_spread_reallocation"
    BY <1>3 DEF resolve_spread_reallocation
  <2>2. Waiting(pending_presentation)
    BY <1>0, <2>1, ReallocationScreen DEF ScreenOfNode
  <2>3. CASE Refuse("END")
    BY <1>0, <2>1, <2>3, RefusedEdit DEF Editors
  <2>4. CASE /\ Reask
             /\ node' = "END"
             /\ UNCHANGED <<provisional_slot, slot_commit_error, before, team_draft,
                            pending_slot_intent, bootstrap_intake_complete>>
    <3>1. OnlyOpens
      BY <1>0, <2>4, SameTeam
    <3>2. Flags
      BY <1>0, <2>4 DEF Core, TypeOK, Flags
    <3>3. Core'
      BY <1>0, <2>4, <3>1, <3>2, ScreenStays DEF Reask, screen
    <3> QED
      BY <2>1, <2>4, <3>3 DEF Reask, EditStep, KeepsBuild, Editors
  <2>5. CASE Edited(Emit([provisional_slot EXCEPT !.build.fits = TRUE]))
    <3>1. SameSlot([provisional_slot EXCEPT !.build.fits = TRUE])
      BY <1>0, <2>2, EditedBuild, SpreadSet DEF SameSlot
    <3> QED
      BY <1>0, <2>1, <2>2, <2>5, <3>1, ShownStep DEF Editors
  <2> QED
    BY <1>3, <2>3, <2>4, <2>5 DEF resolve_spread_reallocation
<1>4. CASE resolve_spread_target_question
  <2>1. node = "resolve_spread_target_question"
    BY <1>4 DEF resolve_spread_target_question
  <2>2. Waiting(pending_presentation) /\ pending_presentation \in Targets
    BY <1>0, <2>1, QuestionScreen DEF ScreenOfNode
  <2>3. CASE Refuse("END")
    BY <1>0, <2>1, <2>3, RefusedEdit DEF Editors
  <2>4. ASSUME NEW fits \in BOOLEAN,
               Edited(VerifyAndShow(
                   [provisional_slot EXCEPT !.build.fits = fits], "spread"))
        PROVE  EditStep
    <3>1. SameSlot([provisional_slot EXCEPT !.build.fits = fits])
      BY <1>0, <2>2, EditedBuild, SpreadSet DEF SameSlot
    <3> QED
      BY <1>0, <2>2, <2>4, <3>1, VerifiedStep
  <2> QED
    BY <1>4, <2>1, <2>3, <2>4 DEF resolve_spread_target_question, Editors
<1>5. CASE resolve_item_moveset_conflict
  <2>1. node = "resolve_item_moveset_conflict"
    BY <1>5 DEF resolve_item_moveset_conflict
  <2>2. Waiting(pending_presentation) /\ pending_presentation.attempted \in Kits
    <3>1. pending_presentation \in Conflicts
      BY <1>0, <2>1 DEF ScreenOfNode
    <3>2. pending_presentation.kind = "item_moveset_conflict_question"
      BY <3>1 DEF Conflicts
    <3> QED
      BY <3>1, <3>2, QuestionScreen
  <2>3. CASE Refuse("END")
    BY <1>0, <2>1, <2>3, RefusedEdit DEF Editors
  <2>4. ASSUME NEW kit \in Kits,
               Edited(Emit([provisional_slot EXCEPT !.build.kit = kit]))
        PROVE  EditStep
    <3>1. SameSlot([provisional_slot EXCEPT !.build.kit = kit])
      BY <1>0, <2>2, EditedBuild, KitSet DEF SameSlot
    <3> QED
      BY <1>0, <2>2, <2>4, <3>1, ShownStep
  <2> QED
    BY <1>5, <2>1, <2>2, <2>3, <2>4 DEF resolve_item_moveset_conflict, Editors
<1> QED
  BY <1>1, <1>2, <1>3, <1>4, <1>5 DEF EditNode

-----------------------------------------------------------------------------
(* Nodes that write the team.                                              *)

Written ==
    /\ team_draft' \in [Slots -> SlotContents]
    /\ LockedHoldsBuild'

LEMMA SlotWritten ==
    ASSUME Core, NEW i \in Slots, NEW c \in SlotContents,
           all_locked(c) => c.build # None, Write(i, c)
    PROVE  Written
<1>1. team_draft \in [Slots -> SlotContents] /\ LockedHoldsBuild
  BY DEF Core, TypeOK
<1>2. team_draft' \in [Slots -> SlotContents]
  BY <1>1 DEF Write
<1>3. \A j \in Slots : team_draft'[j] = IF j = i THEN c ELSE team_draft[j]
  BY <1>1 DEF Write
<1> QED
  BY <1>1, <1>2, <1>3 DEF Written, LockedHoldsBuild

LEMMA TeamStays ==
    ASSUME Core, UNCHANGED team_draft
    PROVE  Written
BY DEF Core, TypeOK, Written, LockedHoldsBuild

\* The node went on, or ended the turn.
LEMMA FlagsOf ==
    ASSUME Core, NEW n, GoTo(n), slot_commit_error' \in BOOLEAN,
           bootstrap_intake_complete' \in BOOLEAN
    PROVE  /\ Flags /\ node' = n
           /\ UNCHANGED <<turn_intent, before>>
BY DEF Core, Flags, GoTo

\* Nodes that rely on no screen; a refusal does not pass through them.
Relies == Editors \cup {"compare_build_options", "finish_pending_response", "END"}

LEMMA GoesOn ==
    ASSUME IInv, node \notin Relies, GoTo("route_team_phase"),
           slot_commit_error' => slot_commit_error
    PROVE  NodeInv'
<1>1. slot_commit_error' => turn_intent \in Passing
  BY EarlierRefusal DEF Relies
<1> QED
  BY <1>1, TurnGoesOn DEF GoTo, Relies

LEMMA CommitStep ==
    ASSUME IInv, commit_full_slot
    PROVE  IInv'
<1>0. Core /\ node = "commit_full_slot"
  BY DEF IInv, commit_full_slot
<1>1. CASE Refuse("END")
  BY <1>0, <1>1, RefusedIsCore, TurnEnds DEF IInv
<1>2. CASE /\ ~CommitRefused(pending_presentation, pending_slot_intent,
                             provisional_slot, team_draft)
           /\ Write(provisional_slot.slot,
                    [locked |-> "all", build |-> provisional_slot.build])
           /\ ClearPendingKeys
           /\ slot_commit_error' = FALSE
           /\ GoTo("route_team_phase")
           /\ UNCHANGED bootstrap_intake_complete
  <2>1. provisional_slot \in Provisionals
    BY <1>0, <1>2 DEF CommitRefused, Core, TypeOK
  <2>2. provisional_slot.slot \in Slots /\ provisional_slot.build \in Builds
    BY <2>1 DEF Provisionals
  <2>3. [locked |-> "all", build |-> provisional_slot.build] \in SlotContents
    BY <2>2 DEF SlotContents
  <2>4. Written
    BY <1>0, <1>2, <2>2, <2>3, SlotWritten, NoneIsNothing
  <2>5. Flags
    BY <1>0, <1>2, FlagsOf DEF Core, TypeOK
  <2>6. Core'
    BY <1>0, <1>2, <2>4, <2>5, KeysCleared DEF Written
  <2> QED
    BY <1>0, <1>2, <2>6, GoesOn DEF IInv, Relies, Editors
<1> QED
  BY <1>1, <1>2 DEF commit_full_slot

LEMMA LockedSlots ==
    /\ \A c \in Partly : c \in SlotContents /\ ~all_locked(c)
    /\ \A c \in Complete(Fitting) : c \in SlotContents /\ c.build # None
<1>1. Fitting \subseteq Builds
  BY DEF Fitting
<1>2. \A c \in Partly : c \in SlotContents /\ ~all_locked(c)
  BY <1>1 DEF Partly, SlotContents, all_locked
<1>3. \A c \in Complete(Fitting) : c \in SlotContents /\ c.build \in Builds
  BY <1>1 DEF Complete, SlotContents
<1> QED
  BY <1>2, <1>3, NoneIsNothing

\* A lock or a restore: the slot it wrote is typed and, if whole, has a build.
LEMMA LockStep ==
    ASSUME IInv, node \in {"apply_lock", "restore_superseded"},
           \/ Refuse(AfterRefusal)
           \/ /\ \E i \in Slots : \E c \in Partly \cup Complete(Fitting) : Write(i, c)
              /\ ClearPendingOnSuccess
              /\ GoTo("route_team_phase")
              /\ UNCHANGED <<slot_commit_error, bootstrap_intake_complete>>
    PROVE  IInv'
<1>0. Core
  BY DEF IInv
<1>1. CASE Refuse(AfterRefusal)
  BY <1>0, <1>1, RefusedIsCore, TurnEnds DEF IInv, AfterRefusal
<1>2. ASSUME NEW i \in Slots, NEW c \in Partly \cup Complete(Fitting), Write(i, c),
             ClearPendingOnSuccess, GoTo("route_team_phase"),
             UNCHANGED <<slot_commit_error, bootstrap_intake_complete>>
      PROVE  IInv'
  <2>1. Written
    BY <1>0, <1>2, LockedSlots, SlotWritten
  <2>2. Flags
    BY <1>0, <1>2, FlagsOf DEF Core, TypeOK
  <2>3. CASE pending_presentation = None
    <3>1. UNCHANGED screen
      BY <1>2, <2>3 DEF ClearPendingOnSuccess, ClearIfPending
    <3>2. pending_presentation' = None
          /\ pending_slot_intent' \in Intents \cup {None}
          /\ provisional_slot' \in Provisionals \cup {None}
      BY <1>0, <2>3, <3>1 DEF screen, Core, TypeOK
    <3>3. Core'
      BY <1>0, <2>1, <2>2, <3>2, ScreenGoes DEF Written
    <3> QED
      BY <1>2, <3>3, GoesOn DEF IInv, Relies, Editors
  <2>4. CASE pending_presentation # None
    <3>1. ClearPendingKeys
      BY <1>2, <2>4 DEF ClearPendingOnSuccess, ClearIfPending
    <3>2. Core'
      BY <1>0, <2>1, <2>2, <3>1, KeysCleared DEF Written
    <3> QED
      BY <1>2, <3>2, GoesOn DEF IInv, Relies, Editors
  <2> QED
    BY <2>3, <2>4
<1> QED
  BY <1>1, <1>2

LEMMA ApplyLockStep ==
    ASSUME IInv, apply_lock
    PROVE  IInv'
<1>1. Complete({b \in Fitting : ~KitConflict(b.kit)}) \subseteq Complete(Fitting)
  BY DEF Complete
<1>2. CASE Refuse(AfterRefusal)
  BY <1>2, LockStep DEF apply_lock
<1>3. CASE ~Refuse(AfterRefusal)
  <2>1. PICK i \in Slots :
           \E c \in (IF all_locked(team_draft[i]) THEN {}
                     ELSE Partly \cup Complete({b \in Fitting : ~KitConflict(b.kit)})) :
              Write(i, c)
    BY <1>3 DEF apply_lock, LockHandler
  <2>2. \E c \in Partly \cup Complete(Fitting) : Write(i, c)
    BY <1>1, <2>1
  <2>3. /\ ClearPendingOnSuccess
        /\ GoTo("route_team_phase")
        /\ UNCHANGED <<slot_commit_error, bootstrap_intake_complete>>
    BY <1>3 DEF apply_lock, LockHandler
  <2> QED
    BY <2>2, <2>3, LockStep DEF apply_lock
<1> QED
  BY <1>2, <1>3

LEMMA RestoreStep ==
    ASSUME IInv, restore_superseded
    PROVE  IInv'
<1>2. CASE Refuse(AfterRefusal)
  BY <1>2, LockStep DEF restore_superseded
<1>3. CASE ~Refuse(AfterRefusal)
  <2>1. PICK i \in Slots :
           \E c \in (IF all_locked(team_draft[i]) THEN {} ELSE Partly)
                    \cup (IF team_draft[i] = EmptySlot THEN {} ELSE Complete(Fitting)) :
              Write(i, c)
    BY <1>3 DEF restore_superseded, LockHandler
  <2>2. \E c \in Partly \cup Complete(Fitting) : Write(i, c)
    BY <2>1
  <2>3. /\ ClearPendingOnSuccess
        /\ GoTo("route_team_phase")
        /\ UNCHANGED <<slot_commit_error, bootstrap_intake_complete>>
    BY <1>3 DEF restore_superseded, LockHandler
  <2> QED
    BY <2>2, <2>3, LockStep DEF restore_superseded
<1> QED
  BY <1>2, <1>3

LEMMA EmptySlotFits == EmptySlot \in SlotContents /\ ~all_locked(EmptySlot)
BY DEF EmptySlot, SlotContents, all_locked

LEMMA UnlockStep ==
    ASSUME IInv, unlock_locked_slot
    PROVE  IInv'
<1>0. Core /\ node = "unlock_locked_slot"
  BY DEF IInv, unlock_locked_slot
<1>1. CASE Refuse(AfterRefusal)
  BY <1>0, <1>1, RefusedIsCore, TurnEnds DEF IInv, AfterRefusal
<1>2. ASSUME NEW i \in Slots \ OpenSlots, Write(i, EmptySlot), ClearPendingKeys,
             slot_commit_error' = FALSE, GoTo("route_team_phase"),
             UNCHANGED bootstrap_intake_complete
      PROVE  IInv'
  <2>1. Written
    BY <1>0, <1>2, EmptySlotFits, SlotWritten
  <2>2. Flags
    BY <1>0, <1>2, FlagsOf DEF Core, TypeOK
  <2>3. Core'
    BY <1>0, <1>2, <2>1, <2>2, KeysCleared DEF Written
  <2> QED
    BY <1>0, <1>2, <2>3, GoesOn DEF IInv, Relies, Editors
<1> QED
  BY <1>1, <1>2 DEF unlock_locked_slot

LEMMA ReviseStep ==
    ASSUME IInv, begin_locked_slot_revision
    PROVE  IInv'
<1>0. /\ Core /\ node = "begin_locked_slot_revision"
      /\ pending_presentation = None /\ ScreenIsKept /\ RefusalsPass
      /\ ~MayNotLose
  BY DEF IInv, NodeInv, begin_locked_slot_revision, ScreenOfNode, BuildIsKept, Editors
<1>1. CASE Refuse("END")
  BY <1>0, <1>1, RefusedIsCore, TurnEnds DEF IInv
<1>2. ASSUME NEW i \in Slots \ OpenSlots,
             pending_slot_intent' = Chosen(i),
             provisional_slot' = [slot |-> i, base |-> team_draft[i],
                                  build |-> team_draft[i].build],
             slot_commit_error' = FALSE,
             GoTo("apply_provisional_edit"),
             UNCHANGED <<team_draft, pending_presentation, bootstrap_intake_complete>>
      PROVE  IInv'
  <2>1. team_draft[i] \in SlotContents /\ team_draft[i].build # None
    BY <1>0 DEF Core, TypeOK, OpenSlots, LockedHoldsBuild
  <2>2. team_draft[i].build \in Builds
    BY <2>1 DEF SlotContents
  <2>3. Chosen(i) \in Intents /\ provisional_slot' \in Provisionals
    BY <1>2, <2>1, <2>2 DEF Chosen, Intents, Provisionals
  <2>4. Matched(pending_slot_intent', provisional_slot')
    BY <1>2, <2>3, NoneIsNothing DEF Matched, Chosen
  <2>5. Flags
    BY <1>0, <1>2, FlagsOf DEF Core, TypeOK
  <2>6. Core'
    BY <1>0, <1>2, <2>3, <2>5, TeamStays, ScreenGoes DEF Written
  <2>7. ScreenOfNode' /\ TeamOfNode' /\ RefusalsPass'
    BY <1>0, <1>2, <2>4 DEF GoTo, ScreenOfNode, TeamOfNode, RefusalsPass
  <2>8. ScreenIsKept'
    BY <1>0, <1>2 DEF GoTo, ScreenIsKept, Refusing
  <2>9. BuildIsKept'
    BY <1>0, <1>2 DEF GoTo, BuildIsKept, MayNotLose
  <2> QED
    BY <2>6, <2>7, <2>8, <2>9 DEF IInv, NodeInv
<1> QED
  BY <1>1, <1>2 DEF begin_locked_slot_revision

LEMMA ReopenedSlot ==
    ASSUME NEW c \in SlotContents, NEW d \in Reopened(c)
    PROVE  d \in SlotContents /\ (all_locked(d) => d = c)
<1>1. [locked |-> "some", build |-> None] \in SlotContents
      /\ ~all_locked([locked |-> "some", build |-> None])
  BY DEF SlotContents, all_locked
<1> QED
  BY <1>1, EmptySlotFits DEF Reopened

LEMMA ReconciledOpens ==
    ASSUME Core, Reconcile
    PROVE  OnlyOpens
BY ReopenedSlot DEF Core, TypeOK, Reconcile, OnlyOpens

LEMMA ReconcilingStep ==
    ASSUME IInv, ReconcilingHandler
    PROVE  IInv'
<1>1. Core /\ node \notin Relies
  BY DEF IInv, ReconcilingHandler, Relies, Editors
<1>2. Flags
  BY <1>1, FlagsOf DEF ReconcilingHandler, Core, TypeOK
<1>3. Core'
  BY <1>1, <1>2, ReconciledOpens, ScreenStays DEF ReconcilingHandler
<1> QED
  BY <1>1, <1>3, GoesOn DEF IInv, ReconcilingHandler

LEMMA CorrectionStep ==
    ASSUME IInv, handle_claim_correction
    PROVE  IInv'
<1>1. Core /\ node \notin Relies
  BY DEF IInv, handle_claim_correction, Relies, Editors
<1>2. OnlyOpens
  BY <1>1, ReconciledOpens, SameTeam DEF handle_claim_correction
<1>3. Flags
  BY <1>1, FlagsOf DEF handle_claim_correction, EndTurn, Core, TypeOK
<1>4. Core'
  BY <1>1, <1>2, <1>3, ScreenStays DEF handle_claim_correction
<1>5. CASE EndTurn
  BY <1>4, <1>5, TurnEnds DEF EndTurn, GoTo, IInv
<1>6. CASE GoTo("route_team_phase")
  BY <1>1, <1>4, <1>6, GoesOn DEF IInv, handle_claim_correction
<1> QED
  BY <1>5, <1>6 DEF handle_claim_correction

LEMMA RejectionStep ==
    ASSUME IInv, record_rejection
    PROVE  IInv'
<1>1. Core /\ node = "record_rejection" /\ turn_intent \in Passing
  BY DEF IInv, NodeInv, RefusalsPass, record_rejection, Passing
<1>2. CASE Refuse("route_team_phase")
  <2>1. Core' /\ node' = "route_team_phase" /\ UNCHANGED <<turn_intent, before>>
    BY <1>1, <1>2, RefusedIsCore
  <2> QED
    BY <1>1, <2>1, TurnGoesOn DEF IInv, Editors
<1>3. ASSUME NEW i \in Slots,
             NEW c \in {team_draft[i]} \cup
                       (IF team_draft[i].locked = "some"
                        THEN Reopened(team_draft[i]) ELSE {}),
             Write(i, c), GoTo("route_team_phase"),
             UNCHANGED <<screen, slot_commit_error, bootstrap_intake_complete>>
      PROVE  IInv'
  <2>1. team_draft \in [Slots -> SlotContents]
    BY <1>1 DEF Core, TypeOK
  <2>2. c \in SlotContents /\ (all_locked(c) => c = team_draft[i])
    BY <1>3, <2>1, ReopenedSlot
  <2>3. OnlyOpens
    BY <1>3, <2>1, <2>2 DEF Write, OnlyOpens
  <2>4. Flags
    BY <1>1, <1>3, FlagsOf DEF Core, TypeOK
  <2>5. Core'
    BY <1>1, <1>3, <2>3, <2>4, ScreenStays
  <2> QED
    BY <1>1, <1>3, <2>5, GoesOn DEF IInv, Relies, Editors
<1> QED
  BY <1>2, <1>3 DEF record_rejection

LEMMA ResetStep ==
    ASSUME IInv, reset_team
    PROVE  IInv'
<1>1. Core /\ node \notin Relies
  BY DEF IInv, reset_team, Relies, Editors
<1>2. Written
  BY EmptySlotFits DEF reset_team, Written, LockedHoldsBuild
<1>3. Flags
  BY <1>1, FlagsOf DEF reset_team, Core, TypeOK
<1>4. Core'
  BY <1>1, <1>2, <1>3, KeysCleared DEF Written, reset_team
<1> QED
  BY <1>1, <1>4, GoesOn DEF IInv, reset_team

-----------------------------------------------------------------------------
(* Discovery.                                                              *)

LEMMA InitializeStep ==
    ASSUME IInv, initialize
    PROVE  IInv'
<1>1. Core /\ node \notin Relies
  BY DEF IInv, initialize, Relies, Editors
<1>2. OnlyOpens /\ Flags
  BY <1>1, SameTeam, FlagsOf DEF initialize, Core, TypeOK
<1>3. Core'
  BY <1>1, <1>2, ScreenStays DEF initialize
<1> QED
  BY <1>1, <1>3, GoesOn DEF IInv, initialize

\* The number of locked slots tells whether some slot, or every slot, is open.
LEMMA SlotsAreFinite ==
    /\ IsFiniteSet(Slots) /\ Cardinality(Slots) = N
    /\ LockedCount \in 0 .. N
    /\ LockedCount = 0 => OpenSlots = Slots
    /\ LockedCount # N => OpenSlots # {}
<1>1. N \in Nat /\ N > 0
  BY SessionAssumption
<1>2. IsFiniteSet(Slots) /\ Cardinality(Slots) = N
  <2>1. 0 \in Int /\ N - 1 \in Int
    BY <1>1
  <2>2. IsFiniteSet(0 .. N - 1)
        /\ Cardinality(0 .. N - 1) = IF 0 > N - 1 THEN 0 ELSE N - 1 - 0 + 1
    BY <2>1, FS_Interval
  <2> QED
    BY <1>1, <2>2 DEF Slots
<1>3. OpenSlots \subseteq Slots
  BY DEF OpenSlots
<1>4. /\ IsFiniteSet(Slots \ OpenSlots)
      /\ LockedCount \in Nat /\ LockedCount <= N
  BY <1>2, FS_Subset, FS_CardinalityType DEF LockedCount
<1>5. LockedCount = 0 => OpenSlots = Slots
  BY <1>3, <1>4, FS_EmptySet DEF LockedCount
<1>6. LockedCount # N => OpenSlots # {}
  BY <1>2 DEF LockedCount
<1> QED
  BY <1>1, <1>2, <1>4, <1>5, <1>6

LEMMA TeamPhases ==
    /\ team_phase \in {"empty", "single_locked", "multi_locked", "complete"}
    /\ team_phase = "empty" => OpenSlots = Slots
    /\ team_phase \in {"single_locked", "multi_locked"} => OpenSlots # {}
<1>1. N \in Nat /\ N > 0 /\ LockedCount \in 0 .. N
  BY SessionAssumption, SlotsAreFinite
<1>2. team_phase \in {"empty", "single_locked", "multi_locked", "complete"}
  BY DEF team_phase
<1>3. team_phase = "empty" => LockedCount = 0
  BY <1>1 DEF team_phase
<1>4. team_phase \in {"single_locked", "multi_locked"} => LockedCount # N
  BY <1>1 DEF team_phase
<1> QED
  BY <1>2, <1>3, <1>4, SlotsAreFinite

LEMMA RouteStep ==
    ASSUME IInv, route_team_phase
    PROVE  IInv'
<1>0. Core /\ node \notin Relies /\ node # "END"
  BY DEF IInv, route_team_phase, Relies, Editors
<1>1. PICK n : /\ GoTo(n)
               /\ \/ n = "bootstrap_direction" /\ team_phase = "empty"
                  \/ n = "discover_single_locked" /\ team_phase = "single_locked"
                  \/ n = "discover_multi_locked" /\ team_phase = "multi_locked"
                  \/ n = "generate_team_review"
  BY TeamPhases DEF route_team_phase
<1>2. OnlyOpens /\ Flags
  BY <1>0, <1>1, SameTeam, FlagsOf DEF route_team_phase, Core, TypeOK
<1>3. Core'
  BY <1>0, <1>2, ScreenStays DEF route_team_phase
<1>4. node' = n /\ UNCHANGED <<turn_intent, before>>
  BY <1>1 DEF GoTo
<1>5. TeamOfNode'
  <2>1. OpenSlots' = OpenSlots
    BY DEF route_team_phase, OpenSlots
  <2> QED
    BY <1>1, <1>4, <2>1, TeamPhases DEF TeamOfNode
<1>6. ScreenOfNode' /\ ScreenIsKept'
  BY <1>1, <1>4 DEF ScreenOfNode, ScreenIsKept, Refusing, Editors
<1>7. RefusalsPass'
  <2>1. slot_commit_error' => turn_intent \in Passing
    BY <1>0, EarlierRefusal DEF route_team_phase
  <2> QED
    BY <1>1, <1>4, <2>1 DEF RefusalsPass
<1>8. BuildIsKept'
  <2>1. ~MayNotLose
    BY <1>0 DEF IInv, NodeInv, BuildIsKept, Relies
  <2> QED
    BY <1>4, <2>1 DEF BuildIsKept, MayNotLose
<1> QED
  BY <1>3, <1>5, <1>6, <1>7, <1>8 DEF IInv, NodeInv

LEMMA BootstrapResponseStep ==
    ASSUME IInv, record_bootstrap_response
    PROVE  IInv'
<1>1. Core /\ node \notin Relies
  BY DEF IInv, record_bootstrap_response, Relies, Editors
<1>2. Flags
  BY <1>1, FlagsOf DEF record_bootstrap_response, Core, TypeOK
<1>3. Core'
  BY <1>1, <1>2, TeamStays, ScreenGoes DEF Written, record_bootstrap_response, Core, TypeOK
<1> QED
  BY <1>1, <1>3, GoesOn DEF IInv, record_bootstrap_response

\* A discovery node puts an offer on screen, or takes the screen away.
LEMMA PresentStep ==
    ASSUME Core, NEW s \in {None} \cup Intakes \cup Offers, Present(s),
           OffersOpen(s, team_draft)
    PROVE  IInv'
<1>1. Flags /\ node' = "END"
  BY FlagsOf DEF Present, AfterDiscovery, Core, TypeOK
<1>2. Backs(pending_presentation', pending_slot_intent', provisional_slot')
  BY NothingToBack DEF Present
<1>3. s \in Shapes
  BY DEF Shapes
<1>4. OffersOpen(pending_presentation', team_draft')
  BY DEF Present
<1>5. pending_presentation' = s /\ pending_slot_intent' \in Intents \cup {None}
      /\ provisional_slot' \in Provisionals \cup {None}
  BY DEF Present, Core, TypeOK
<1>6. Core'
  BY <1>1, <1>2, <1>3, <1>4, <1>5, TeamStays, ScreenChanges DEF Written, Present
<1> QED
  BY <1>1, <1>6, TurnEnds DEF IInv

LEMMA OfferScreen ==
    ASSUME NEW kind \in {"candidate_selection", "completion_preference"},
           NEW i \in Slots, ~all_locked(team_draft[i])
    PROVE  /\ OfSlot(kind, i) \in Offers
           /\ OffersOpen(OfSlot(kind, i), team_draft)
BY DEF OfSlot, Offers, OffersOpen

LEMMA BootstrapStep ==
    ASSUME IInv, bootstrap_direction
    PROVE  IInv'
<1>1. Core /\ OpenSlots = Slots
  BY DEF IInv, NodeInv, TeamOfNode, bootstrap_direction
<1>2. CASE Present(Plain("bootstrap_intake"))
  <2>1. Plain("bootstrap_intake") \in Intakes
    BY DEF Intakes
  <2>2. OffersOpen(Plain("bootstrap_intake"), team_draft)
    BY <2>1, PlainScreen DEF OffersOpen, Plain
  <2> QED
    BY <1>1, <1>2, <2>1, <2>2, PresentStep
<1>3. CASE Present(OfSlot("candidate_selection", 0))
  <2>1. 0 \in Slots /\ ~all_locked(team_draft[0])
    BY <1>1, SessionAssumption DEF Slots, OpenSlots
  <2> QED
    BY <1>1, <1>3, <2>1, OfferScreen, PresentStep
<1> QED
  BY <1>2, <1>3 DEF bootstrap_direction

\* The first open slot is an open slot.
LEMMA FirstIsOpen ==
    ASSUME OpenSlots # {}
    PROVE  FirstOpen \in OpenSlots
<1>1. OpenSlots \subseteq Nat
  BY SessionAssumption DEF OpenSlots, Slots
<1>2. \E i \in OpenSlots : \A j \in OpenSlots : i <= j
  <2> DEFINE R == {ss \in Nat \X Nat : ss[1] < ss[2]}
  <2>0. IsWellFoundedOn(R, Nat)
    BY NatLessThanWellFounded, Zenon DEF OpToRel
  <2>1. PICK i \in OpenSlots : \A j \in OpenSlots : ~(<<j, i>> \in R)
    BY <1>1, <2>0, WFMin, Zenon
  <2>2. \A j \in Nat : j < i => <<j, i>> \in R
    BY <1>1, <2>1
  <2>3. \A j \in OpenSlots : ~(j < i)
    BY <1>1, <2>1, <2>2
  <2> QED
    BY <1>1, <2>3
<1> QED
  BY <1>2 DEF FirstOpen

LEMMA FillStep ==
    ASSUME Core, Fill
    PROVE  IInv'
<1>1. team_draft' \in [Slots -> SlotContents]
  BY DEF Fill
<1>2. \A i \in Slots : all_locked(team_draft'[i]) => team_draft'[i] = team_draft[i]
  BY DEF Fill, all_locked
<1>3. OnlyOpens
  BY <1>1, <1>2 DEF OnlyOpens
<1>4. Flags /\ node' = "END"
  BY FlagsOf DEF Fill, AfterDiscovery, Core, TypeOK
<1>5. Core'
  BY <1>3, <1>4, ScreenStays DEF Fill
<1> QED
  BY <1>4, <1>5, TurnEnds DEF IInv

LEMMA OfferStep ==
    ASSUME Core, OpenSlots # {}, OfferSlot
    PROVE  IInv'
<1>1. PICK kind \in {"candidate_selection", "completion_preference"} :
         Present(OfSlot(kind, FirstOpen))
  BY DEF OfferSlot
<1>2. FirstOpen \in Slots /\ ~all_locked(team_draft[FirstOpen])
  BY FirstIsOpen DEF OpenSlots
<1> QED
  BY <1>1, <1>2, OfferScreen, PresentStep

LEMMA DiscoverStep ==
    ASSUME IInv, discover_single_locked \/ discover_multi_locked
    PROVE  IInv'
<1>1. Core /\ OpenSlots # {}
  BY DEF IInv, NodeInv, TeamOfNode, discover_single_locked, discover_multi_locked
<1>2. OffersOpen(None, team_draft)
  BY NoScreen DEF OffersOpen
<1> QED
  BY <1>1, <1>2, FillStep, OfferStep, PresentStep
     DEF discover_single_locked, discover_multi_locked

\* Nodes that only show something.
LEMMA ShowStep ==
    ASSUME IInv, ShowAndEnd \/ compare_build_options
    PROVE  IInv' /\ node' = "END" /\ UNCHANGED <<screen, before, slot_commit_error>>
<1>1. Core /\ EndTurn
      /\ UNCHANGED <<screen, team_draft, slot_commit_error, bootstrap_intake_complete>>
  BY DEF IInv, ShowAndEnd, compare_build_options
<1>2. OnlyOpens /\ Flags /\ node' = "END" /\ UNCHANGED before
  BY <1>1, SameTeam, FlagsOf DEF EndTurn, Core, TypeOK
<1> QED
  BY <1>1, <1>2, ScreenStays, TurnEnds DEF IInv

LEMMA RefineStep ==
    ASSUME IInv, refine_provisional_slot
    PROVE  IInv'
<1>0. /\ Core /\ node = "refine_provisional_slot" /\ pending_presentation = None
      /\ pending_slot_intent \in Intents /\ turn_intent \in Passing
  BY DEF IInv, NodeInv, ScreenOfNode, refine_provisional_slot, Core, TypeOK, Passing
<1>1. ASSUME NEW b \in Fitting,
             Emit([slot |-> pending_slot_intent.slot,
                   base |-> pending_slot_intent.base, build |-> b]),
             EndTurn,
             UNCHANGED <<team_draft, pending_slot_intent, bootstrap_intake_complete>>
      PROVE  IInv'
  <2> DEFINE p == [slot |-> pending_slot_intent.slot,
                   base |-> pending_slot_intent.base, build |-> b]
  <2>1. p \in Provisionals /\ p.slot = pending_slot_intent.slot
        /\ p.base = pending_slot_intent.base
    BY <1>0, <1>1 DEF Provisionals, Intents, Fitting
  <2>2. Emit(p)
    BY <1>1
  <2> HIDE DEF p
  <2>3. Matched(pending_slot_intent, p)
    BY <1>0, <2>1, NoneIsNothing DEF Matched
  <2>4. ~ShowsABuild(pending_presentation)
    BY <1>0, NoScreen
  <2>5. EditStep
    BY <1>0, <1>1, <2>1, <2>2, <2>3, <2>4, EmittedStep
  <2> QED
    BY <2>5, TurnEnds DEF EditStep, IInv
<1>2. CASE /\ provisional_slot' = None
           /\ slot_commit_error' = TRUE
           /\ GoTo("route_team_phase")
           /\ UNCHANGED <<team_draft, pending_presentation,
                          pending_slot_intent, bootstrap_intake_complete>>
  <2>1. Flags /\ node' = "route_team_phase" /\ UNCHANGED <<turn_intent, before>>
    BY <1>0, <1>2, FlagsOf DEF Core, TypeOK
  <2>2. Core'
    BY <1>0, <1>2, <2>1, TeamStays, ScreenGoes DEF Written, Core, TypeOK
  <2> QED
    BY <1>0, <2>1, <2>2, TurnGoesOn DEF IInv, Editors
<1> QED
  BY <1>1, <1>2 DEF refine_provisional_slot

-----------------------------------------------------------------------------
(* Classifying a reply.                                                    *)

LEMMA Routes ==
    /\ Route("constraint") = "record_constraint"
    /\ Route("rejection") = "record_rejection"
    /\ Route("lock") = "apply_lock"
    /\ Route("archetype_change") = "handle_archetype_change"
    /\ Route("reset") = "reset_team"
    /\ Route("restore") = "restore_superseded"
    /\ Route("restore_constraint") = "restore_constraint"
    /\ Route("continue") = "route_team_phase"
    /\ Route("build_abandoned") = "route_team_phase"
    /\ Route("team_review") = "generate_team_review"
    /\ Route("bootstrap_response") = "record_bootstrap_response"
    /\ Route("pending_response") = "finish_pending_response"
    /\ Route("deferred") = "finish_pending_response"
    /\ Route("slot_candidate_selected") = "refine_provisional_slot"
    /\ Route("full_slot_confirmed") = "commit_full_slot"
    /\ Route("edit") = "apply_provisional_edit"
    /\ Route("select_build_option") = "apply_provisional_option"
    /\ Route("compare") = "compare_build_options"
    /\ Route("revise_locked_slot") = "begin_locked_slot_revision"
    /\ Route("repick_locked_slot") = "unlock_locked_slot"
    /\ Route("claim_correction") = "handle_claim_correction"
    /\ Route("resolve_spread_reallocation") = "resolve_spread_reallocation"
    /\ Route("resolve_spread_target_question") = "resolve_spread_target_question"
    /\ Route("resolve_item_moveset_conflict") = "resolve_item_moveset_conflict"
BY DEF Route

\* Nodes a reply is never routed to.
Inner == {"bootstrap_direction", "discover_single_locked", "discover_multi_locked"}

\* Nodes that rely on the screen.
OnScreen == Editors \cup {"refine_provisional_slot", "begin_locked_slot_revision"}

LEMMA ClassifiedFlags ==
    ASSUME Core, NEW intent, Classify(intent)
    PROVE  Flags /\ Written /\ UNCHANGED team_draft
BY TeamStays DEF Core, TypeOK, Classify, Flags, Shapes

LEMMA Classified ==
    ASSUME Core, NEW intent, Classify(intent),
           Route(intent) \in Refusing => pending_presentation' = pending_presentation,
           Route(intent) = "record_rejection" => intent = "rejection",
           Route(intent) \notin Inner,
           ScreenOfNode',
           \/ intent \in LosingABuild
           \/ ~ShowsABuild(pending_presentation)
           \/ Kind(pending_presentation) = "confirm_abandon_build"
           \/ /\ Route(intent) \in
                    Editors \cup {"compare_build_options", "finish_pending_response"}
              /\ KeepsBuild
    PROVE  NodeInv'
<1>1. /\ turn_intent' = intent /\ node' = Route(intent)
      /\ slot_commit_error' = FALSE /\ before' = pending_presentation
  BY DEF Classify
<1>2. TeamOfNode' /\ ScreenIsKept' /\ RefusalsPass'
  BY <1>1 DEF TeamOfNode, Inner, ScreenIsKept, RefusalsPass
<1>3. MayNotLose' => /\ ShowsABuild(pending_presentation)
                     /\ Kind(pending_presentation) # "confirm_abandon_build"
                     /\ intent \notin LosingABuild
  BY <1>1, KindOfShape DEF MayNotLose, Core
<1>4. BuildIsKept'
  BY <1>1, <1>3 DEF BuildIsKept, KeepsBuild
<1> QED
  BY <1>2, <1>4 DEF NodeInv

\* The screen may go, or stay, at a node that does not work on it.
LEMMA OffScreen ==
    ASSUME node' \notin OnScreen
    PROVE  ScreenOfNode'
BY DEF ScreenOfNode, OnScreen, Editors

LEMMA AnsweredStays ==
    ASSUME Core, NEW intent, Answer(intent)
    PROVE  Core' /\ Classify(intent) /\ UNCHANGED screen /\ KeepsBuild
<1>1. OnlyOpens /\ Flags
  BY ClassifiedFlags, SameTeam DEF Answer
<1> QED
  BY <1>1, ScreenStays DEF Answer, KeepsBuild, screen

LEMMA ClassifiedCleared ==
    ASSUME Core, NEW intent, Classify(intent), ClearPendingKeys
    PROVE  Core'
<1>1. Flags /\ Written
  BY ClassifiedFlags
<1> QED
  BY <1>1, KeysCleared DEF Written

\* A waiting build is not below an open kind other than its confirmation.
LEMMA NoBuildBelow ==
    ASSUME Core, Kind(pending_presentation) \in OpenKinds \cup {"bootstrap_intake"},
           Kind(pending_presentation) # "full_build_confirmation"
    PROVE  ~ShowsABuild(pending_presentation)
<1>1. pending_presentation \in {None} \cup Intakes \cup Offers
  BY KindOfShape DEF Core, OpenKinds
<1> QED
  BY <1>1, NoScreen, PlainScreen

LEMMA BlockedIntents ==
    /\ \A kind \in {"candidate_selection", "completion_preference"} :
          {"edit", "select_build_option", "compare", "revise_locked_slot",
           "repick_locked_slot"} \subseteq BLOCKED_ON_KIND(kind)
    /\ {"edit", "select_build_option", "compare"} \subseteq BLOCKED_ON_KIND("none")
    /\ {"lock", "revise_locked_slot", "repick_locked_slot"}
          \subseteq BLOCKED_ON_KIND("full_build_confirmation")
BY DEF BLOCKED_ON_KIND

\* An intent that clears the screen before its node runs.
LEMMA ClearedReply ==
    ASSUME Core, NEW intent \in ACTIONABLE_INTENTS \ DEFERRED_CLEAR_INTENTS,
           ~Gated(intent, Kind(pending_presentation)),
           Kind(pending_presentation) \in OpenKinds,
           Classify(intent), ClearIfPending
    PROVE  IInv'
<1>1. Core'
  <2>1. CASE pending_presentation = None
    <3>1. UNCHANGED screen
      BY <2>1 DEF ClearIfPending
    <3> QED
      BY <3>1, ClassifiedFlags, SameTeam, ScreenStays
  <2>2. CASE pending_presentation # None
    BY <2>2, ClassifiedCleared DEF ClearIfPending
  <2> QED
    BY <2>1, <2>2
<1>2. intent \in {"constraint", "rejection", "archetype_change", "reset",
                  "restore_constraint", "continue", "team_review"}
  BY DEF ACTIONABLE_INTENTS, DEFERRED_CLEAR_INTENTS
<1>3. intent \in LosingABuild \/ ~ShowsABuild(pending_presentation)
  BY <1>2, NoBuildBelow DEF LosingABuild, Gated
<1>4. /\ Route(intent) \notin OnScreen \cup Refusing \cup Inner
      /\ Route(intent) = "record_rejection" => intent = "rejection"
  BY <1>2, Routes DEF OnScreen, Refusing, Editors, Inner
<1>5. ScreenOfNode'
  BY <1>4, OffScreen DEF Classify
<1>6. NodeInv'
  BY <1>3, <1>4, <1>5, Classified
<1> QED
  BY <1>1, <1>6 DEF IInv

LEMMA UnclearedReply ==
    ASSUME Core, NEW intent \in LlmIntents,
           intent \notin ACTIONABLE_INTENTS \ DEFERRED_CLEAR_INTENTS,
           ~Gated(intent, Kind(pending_presentation)),
           Kind(pending_presentation) \in OpenKinds,
           Answer(intent)
    PROVE  IInv'
<1>1. Core' /\ Classify(intent) /\ UNCHANGED screen /\ KeepsBuild
  BY AnsweredStays
<1>2. intent \in {"lock", "restore", "edit", "select_build_option", "compare",
                  "revise_locked_slot", "repick_locked_slot", "claim_correction"}
  BY DEF LlmIntents, ACTIONABLE_INTENTS, DEFERRED_CLEAR_INTENTS
<1>3. intent \notin BLOCKED_ON_KIND(Kind(pending_presentation))
  BY DEF Gated
<1>4. pending_presentation' = pending_presentation /\ node' = Route(intent)
  BY <1>1 DEF screen, Classify
<1>5. CASE intent \in {"lock", "restore", "repick_locked_slot", "claim_correction"}
  <2>1. intent \in LosingABuild \/ ~ShowsABuild(pending_presentation)
    BY <1>3, <1>5, BlockedIntents, NoBuildBelow DEF LosingABuild
  <2>2. Route(intent) \notin OnScreen \cup Inner \cup {"record_rejection"}
    BY <1>5, Routes DEF OnScreen, Editors, Inner
  <2>3. ScreenOfNode'
    BY <1>4, <2>2, OffScreen
  <2>4. NodeInv'
    BY <1>1, <1>4, <2>1, <2>2, <2>3, Classified
  <2> QED
    BY <1>1, <2>4 DEF IInv
<1>6. CASE intent \in {"edit", "select_build_option", "compare"}
  <2>1. pending_presentation \in Confirmations
    BY <1>3, <1>6, BlockedIntents, KindOfShape DEF Core, OpenKinds
  <2>2. /\ Route(intent) \in {"apply_provisional_edit", "apply_provisional_option",
                              "compare_build_options"}
        /\ Route(intent) \notin Inner \cup {"record_rejection"}
    BY <1>6, Routes DEF Inner
  <2>3. ScreenOfNode'
    BY <1>4, <2>1, <2>2 DEF ScreenOfNode
  <2>4. NodeInv'
    BY <1>1, <1>4, <2>2, <2>3, Classified DEF Editors
  <2> QED
    BY <1>1, <2>4 DEF IInv
<1>7. CASE intent = "revise_locked_slot"
  <2>1. pending_presentation = None
    BY <1>3, <1>7, BlockedIntents, KindOfShape DEF Core, OpenKinds
  <2>2. Route(intent) = "begin_locked_slot_revision"
    BY <1>7, Routes
  <2>3. ScreenOfNode'
    BY <1>4, <2>1, <2>2 DEF ScreenOfNode
  <2>4. NodeInv'
    BY <1>1, <1>4, <2>1, <2>2, <2>3, NoScreen, Classified DEF Inner
  <2> QED
    BY <1>1, <2>4 DEF IInv
<1> QED
  BY <1>2, <1>5, <1>6, <1>7

LEMMA GapFillStep ==
    ASSUME Core, GapFill
    PROVE  IInv'
<1>1. PICK intent \in LlmIntents :
         /\ ~Gated(intent, Kind(pending_presentation))
         /\ IF intent \in ACTIONABLE_INTENTS \ DEFERRED_CLEAR_INTENTS
            THEN Classify(intent) /\ ClearIfPending
            ELSE Answer(intent)
  BY DEF GapFill
<1>2. Kind(pending_presentation) \in OpenKinds
  BY DEF GapFill
<1> QED
  BY <1>1, <1>2, ClearedReply, UnclearedReply

\* Back to the screen under a question, or on to a question over a build.
LEMMA ScreenAnswered ==
    ASSUME Core, NEW s \in Confirmations \cup Abandons \cup Targets,
           AnswerWith("pending_response", s),
           Backs(s, pending_slot_intent, provisional_slot),
           ShowsABuild(pending_presentation) =>
              ShowsABuild(s) /\ Bottom(s) = Bottom(pending_presentation)
    PROVE  IInv'
<1>1. /\ Classify("pending_response") /\ pending_presentation' = s
      /\ UNCHANGED <<pending_slot_intent, provisional_slot>>
  BY DEF AnswerWith
<1>2. Flags /\ UNCHANGED team_draft
  BY <1>1, ClassifiedFlags
<1>3. Backs(pending_presentation', pending_slot_intent', provisional_slot')
  BY <1>1
<1>4. provisional_slot' \in Provisionals \cup {None}
  BY <1>1 DEF Core, TypeOK
<1>5. Core'
  BY <1>1, <1>2, <1>3, <1>4, BuildOnScreen
<1>6. Route("pending_response") = "finish_pending_response"
  BY Routes
<1>7. ScreenOfNode'
  BY <1>1, <1>6, OffScreen DEF Classify, OnScreen, Editors
<1>8. KeepsBuild
  BY <1>1 DEF KeepsBuild
<1>9. NodeInv'
  BY <1>1, <1>6, <1>7, <1>8, Classified DEF Refusing, Editors, Inner
<1> QED
  BY <1>5, <1>9 DEF IInv

\* The screen goes with the reply.
LEMMA ScreenAnsweredAway ==
    ASSUME Core, NEW intent, AnswerWith(intent, None) \/ AnswerAndClear(intent),
           Route(intent) \notin OnScreen \cup Refusing \cup Inner \cup {"record_rejection"},
           \/ intent \in LosingABuild
           \/ ~ShowsABuild(pending_presentation)
           \/ Kind(pending_presentation) = "confirm_abandon_build"
    PROVE  IInv'
<1>1. Classify(intent)
  BY DEF AnswerWith, AnswerAndClear
<1>2. Core'
  <2>1. CASE AnswerAndClear(intent)
    BY <2>1, ClassifiedCleared DEF AnswerAndClear
  <2>2. CASE AnswerWith(intent, None)
    <3>1. /\ pending_presentation' = None
          /\ pending_slot_intent' \in Intents \cup {None}
          /\ provisional_slot' \in Provisionals \cup {None}
      BY <2>2 DEF AnswerWith, Core, TypeOK
    <3>2. Flags /\ Written
      BY <1>1, ClassifiedFlags
    <3> QED
      BY <3>1, <3>2, ScreenGoes DEF Written
  <2> QED
    BY <2>1, <2>2
<1>3. ScreenOfNode'
  BY <1>1, OffScreen DEF Classify
<1>4. NodeInv'
  BY <1>1, <1>3, Classified
<1> QED
  BY <1>2, <1>4 DEF IInv

\* An unclear reply, at any screen.
LEMMA KeptReply ==
    ASSUME Core, KeepScreen
    PROVE  IInv'
<1>1. Core' /\ Classify("pending_response") /\ KeepsBuild
  BY AnsweredStays DEF KeepScreen
<1>2. Route("pending_response") = "finish_pending_response"
  BY Routes
<1>3. ScreenOfNode'
  BY <1>1, <1>2, OffScreen DEF Classify, OnScreen, Editors
<1>4. NodeInv'
  BY <1>1, <1>2, <1>3, Classified DEF Refusing, Editors, Inner
<1> QED
  BY <1>1, <1>4 DEF IInv

LEMMA AbandonQuestion ==
    ASSUME Core, AskToAbandon
    PROVE  IInv'
<1> DEFINE q == Asking("confirm_abandon_build", pending_presentation)
<1>1. pending_presentation \in Confirmations /\ pending_presentation # None
  BY KindOfShape, NoneIsNothing DEF AskToAbandon, Core
<1>2. q \in Abandons /\ q.held = pending_presentation
  BY <1>1, AskedScreens DEF Held
<1>3. AnswerWith("pending_response", q)
  BY DEF AskToAbandon
<1> HIDE DEF q
<1>4. Bottom(q) = Bottom(pending_presentation) /\ ShowsABuild(q)
  BY <1>1, <1>2, QuestionScreen, BuildScreen
<1>5. Backs(q, pending_slot_intent, provisional_slot)
  <2>1. Backs(pending_presentation, pending_slot_intent, provisional_slot)
        /\ Waiting(pending_presentation) /\ ShowsABuild(pending_presentation)
    BY <1>1, BuildScreen DEF Core
  <2>2. Matched(pending_slot_intent, provisional_slot)
    BY <2>1 DEF Backs
  <2> QED
    BY <1>4, <2>1, <2>2, AskedIsBacked
<1> QED
  BY <1>2, <1>3, <1>4, <1>5, ScreenAnswered

\* Deferring a question goes back to what it held.
LEMMA HeldReply ==
    ASSUME Core, Interrupts(pending_presentation), pending_presentation.held # None,
           AnswerWith("pending_response", pending_presentation.held)
    PROVE  IInv'
<1>1. pending_presentation \in Abandons \cup Targets \cup Conflicts \cup Reallocations
  BY KindOfShape DEF Core
<1>2. /\ pending_presentation.held \in Confirmations \cup Targets
      /\ Bottom(pending_presentation.held) = Bottom(pending_presentation)
      /\ ShowsABuild(pending_presentation) <=> ShowsABuild(pending_presentation.held)
  BY <1>1, HeldScreen
<1>3. Backs(pending_presentation.held, pending_slot_intent, provisional_slot)
  <2>1. Backs(pending_presentation, pending_slot_intent, provisional_slot)
        /\ Waiting(pending_presentation)
    BY DEF Core, Waiting
  <2>2. Matched(pending_slot_intent, provisional_slot)
    BY <2>1 DEF Backs
  <2> QED
    BY <1>2, <2>1, <2>2, AskedIsBacked
<1> QED
  BY <1>2, <1>3, ScreenAnswered

LEMMA IntakeReply ==
    ASSUME Core, AnswerIntake
    PROVE  IInv'
<1>1. ~ShowsABuild(pending_presentation)
  BY NoBuildBelow DEF AnswerIntake
<1>2. Route("bootstrap_response")
        \notin OnScreen \cup Refusing \cup Inner \cup {"record_rejection"}
  BY Routes DEF OnScreen, Refusing, Editors, Inner
<1> QED
  BY <1>1, <1>2, ScreenAnsweredAway DEF AnswerIntake

\* Going on, or deferring, at an offer.
LEMMA OfferAnsweredAway ==
    ASSUME Core, NEW intent \in {"continue", "deferred"},
           Kind(pending_presentation) \in {"candidate_selection", "completion_preference"},
           AnswerWith(intent, None)
    PROVE  IInv'
<1>1. ~ShowsABuild(pending_presentation)
  BY NoBuildBelow DEF OpenKinds
<1>2. Route(intent) \notin OnScreen \cup Refusing \cup Inner \cup {"record_rejection"}
  BY Routes DEF OnScreen, Refusing, Editors, Inner
<1> QED
  BY <1>1, <1>2, ScreenAnsweredAway

LEMMA CandidatesReply ==
    ASSUME Core, AnswerCandidates
    PROVE  IInv'
<1>1. pending_presentation \in Offers /\ ~ShowsABuild(pending_presentation)
  BY KindOfShape, PlainScreen DEF AnswerCandidates, Core
<1>2. CASE \E intent \in {"deferred", "continue"} : AnswerWith(intent, None)
  BY <1>2, OfferAnsweredAway DEF AnswerCandidates
<1>3. CASE Answer("rejection")
  <2>1. Core' /\ Classify("rejection")
    BY <1>3, AnsweredStays
  <2>2. Route("rejection") = "record_rejection"
    BY Routes
  <2>3. ScreenOfNode'
    BY <2>1, <2>2, OffScreen DEF Classify, OnScreen, Editors
  <2>4. NodeInv'
    BY <1>1, <2>1, <2>2, <2>3, Classified DEF Refusing, Editors, Inner
  <2> QED
    BY <2>1, <2>4 DEF IInv
<1>4. CASE /\ Classify("slot_candidate_selected")
           /\ pending_presentation' = None
           /\ pending_slot_intent' = Chosen(pending_presentation.slot)
           /\ UNCHANGED provisional_slot
  <2>1. Chosen(pending_presentation.slot) \in Intents
    BY <1>1 DEF Offers, Chosen, Intents, Core, TypeOK
  <2>2. Flags /\ Written
    BY <1>4, ClassifiedFlags
  <2>3. provisional_slot' \in Provisionals \cup {None}
    BY <1>4 DEF Core, TypeOK
  <2>4. Core'
    BY <1>4, <2>1, <2>2, <2>3, ScreenGoes DEF Written
  <2>5. Route("slot_candidate_selected") = "refine_provisional_slot"
    BY Routes
  <2>6. ScreenOfNode'
    BY <1>4, <2>1, <2>5, NoneIsNothing DEF Classify, ScreenOfNode
  <2>7. NodeInv'
    BY <1>1, <1>4, <2>5, <2>6, Classified DEF Refusing, Editors, Inner
  <2> QED
    BY <2>4, <2>7 DEF IInv
<1> QED
  BY <1>2, <1>3, <1>4 DEF AnswerCandidates

LEMMA AbandonReply ==
    ASSUME Core, AnswerAbandon
    PROVE  IInv'
<1>1. /\ pending_presentation \in Abandons
      /\ Interrupts(pending_presentation) /\ pending_presentation.held # None
  <2>1. pending_presentation \in Abandons
    BY KindOfShape DEF AnswerAbandon, Core
  <2> QED
    BY <2>1, QuestionScreen, NoneIsNothing DEF Abandons
<1>2. CASE AnswerAndClear("continue")
  <2>1. Route("continue") \notin OnScreen \cup Refusing \cup Inner \cup {"record_rejection"}
    BY Routes DEF OnScreen, Refusing, Editors, Inner
  <2> QED
    BY <1>2, <2>1, ScreenAnsweredAway DEF AnswerAbandon
<1>3. CASE AnswerWith("pending_response", pending_presentation.held)
  BY <1>1, <1>3, HeldReply
<1> QED
  BY <1>2, <1>3 DEF AnswerAbandon

\* An answer for the question's own node.
LEMMA ResolvingReply ==
    ASSUME Core, NEW intent, Answer(intent),
           \/ /\ intent = "resolve_spread_reallocation"
              /\ pending_presentation \in Reallocations
           \/ /\ intent = "resolve_spread_target_question"
              /\ pending_presentation \in Targets
           \/ /\ intent = "resolve_item_moveset_conflict"
              /\ pending_presentation \in Conflicts
    PROVE  IInv'
<1>1. Core' /\ Classify(intent) /\ UNCHANGED screen /\ KeepsBuild
  BY AnsweredStays
<1>2. Route(intent) = intent
  BY Routes
<1>3. ScreenOfNode'
  BY <1>1, <1>2 DEF Classify, screen, ScreenOfNode
<1>4. NodeInv'
  BY <1>1, <1>2, <1>3, Classified DEF screen, Editors, Inner
<1> QED
  BY <1>1, <1>4 DEF IInv

LEMMA QuestionReply ==
    ASSUME Core, AnswerQuestion
    PROVE  IInv'
<1>1. /\ pending_presentation \in Targets \cup Conflicts \cup Reallocations
      /\ Interrupts(pending_presentation)
      /\ Kind(pending_presentation) = pending_presentation.kind
  <2>1. pending_presentation \in Targets \cup Conflicts \cup Reallocations
    BY KindOfShape DEF AnswerQuestion, Questions, Core
  <2> QED
    BY <2>1, QuestionScreen, ReallocationScreen
<1>2. CASE /\ pending_presentation.held # None
           /\ AnswerWith("pending_response", pending_presentation.held)
  BY <1>1, <1>2, HeldReply
<1>3. CASE pending_presentation.held = None /\ AnswerAndClear("pending_response")
  <2>1. ~ShowsABuild(pending_presentation)
    BY <1>1, <1>3, QuestionScreen, ReallocationScreen, NoScreen
  <2>2. Route("pending_response")
           \notin OnScreen \cup Refusing \cup Inner \cup {"record_rejection"}
    BY Routes DEF OnScreen, Refusing, Editors, Inner
  <2> QED
    BY <1>3, <2>1, <2>2, ScreenAnsweredAway
<1>4. CASE pending_presentation.kind = "spread_reallocation_question"
           /\ Answer("resolve_spread_reallocation")
  <2>1. pending_presentation \in Reallocations
    BY <1>1, <1>4, KindOfShape DEF Core
  <2> QED
    BY <1>4, <2>1, ResolvingReply
<1>5. CASE pending_presentation.kind = "spread_target_question"
           /\ Answer("resolve_spread_target_question")
  <2>1. pending_presentation \in Targets
    BY <1>1, <1>5, KindOfShape DEF Core
  <2> QED
    BY <1>5, <2>1, ResolvingReply
<1>6. CASE pending_presentation.kind = "item_moveset_conflict_question"
           /\ Answer("resolve_item_moveset_conflict")
  <2>1. pending_presentation \in Conflicts
    BY <1>1, <1>6, KindOfShape DEF Core
  <2> QED
    BY <1>6, <2>1, ResolvingReply
<1> QED
  BY <1>2, <1>3, <1>4, <1>5, <1>6 DEF AnswerQuestion

LEMMA ConfirmationReply ==
    ASSUME Core, AnswerConfirmation
    PROVE  IInv'
<1>1. CASE Answer("full_slot_confirmed")
  <2>1. Core' /\ Classify("full_slot_confirmed") /\ UNCHANGED screen
    BY <1>1, AnsweredStays
  <2>2. Route("full_slot_confirmed") = "commit_full_slot"
    BY Routes
  <2>3. ScreenOfNode'
    BY <2>1, <2>2, OffScreen DEF Classify, OnScreen, Editors
  <2>4. NodeInv'
    BY <2>1, <2>2, <2>3, Classified DEF screen, Inner, LosingABuild
  <2> QED
    BY <2>1, <2>4 DEF IInv
<1>2. CASE AnswerAndClear("build_abandoned")
  <2>1. Route("build_abandoned")
           \notin OnScreen \cup Refusing \cup Inner \cup {"record_rejection"}
    BY Routes DEF OnScreen, Refusing, Editors, Inner
  <2> QED
    BY <1>2, <2>1, ScreenAnsweredAway DEF LosingABuild
<1> QED
  BY <1>1, <1>2 DEF AnswerConfirmation

LEMMA ClassifyStep ==
    ASSUME IInv, classify_input
    PROVE  IInv' /\ before' = pending_presentation
<1>1. Core
  BY DEF IInv
<1>2. IInv'
  <2>1. CASE AnswerPreference
    BY <1>1, <2>1, OfferAnsweredAway DEF AnswerPreference
  <2> QED
    BY <1>1, <2>1, GapFillStep, AbandonQuestion, KeptReply, IntakeReply,
       CandidatesReply, AbandonReply, QuestionReply, ConfirmationReply
       DEF classify_input
<1>3. before' = pending_presentation
  BY DEF classify_input, GapFill, AskToAbandon, KeepScreen, AnswerIntake,
         AnswerPreference, AnswerCandidates, AnswerAbandon, AnswerQuestion,
         AnswerConfirmation, Answer, AnswerWith, AnswerAndClear, Classify
<1> QED
  BY <1>2, <1>3

-----------------------------------------------------------------------------
(* The inductive invariant.                                                *)

LEMMA NodeStep ==
    ASSUME IInv, RunNode
    PROVE  IInv'
<1>1. EditNode => IInv'
  BY EditNodeStep, TurnEnds DEF EditStep, IInv
<1> QED
  BY <1>1, InitializeStep, RouteStep, BootstrapStep, BootstrapResponseStep,
     DiscoverStep, ShowStep, RefineStep, CommitStep, ApplyLockStep, RestoreStep,
     UnlockStep, ReviseStep, ReconcilingStep, CorrectionStep, RejectionStep,
     ResetStep
     DEF RunNode, EditNode

LEMMA InitHolds ==
    ASSUME Init
    PROVE  IInv
<1>1. TypeOK /\ LockedHoldsBuild
  BY EmptySlotFits DEF Init, TypeOK, LockedHoldsBuild
<1>2. Backs(pending_presentation, pending_slot_intent, provisional_slot)
      /\ OffersOpen(pending_presentation, team_draft)
  BY NothingToBack, NoScreen DEF Init, OffersOpen
<1>3. Core
  BY <1>1, <1>2 DEF Init, Core, Shapes
<1>4. ScreenOfNode /\ TeamOfNode /\ ScreenIsKept /\ RefusalsPass
  BY DEF Init, ScreenOfNode, TeamOfNode, ScreenIsKept, RefusalsPass, Refusing, Editors
<1>5. BuildIsKept
  BY NoScreen DEF Init, BuildIsKept, MayNotLose
<1> QED
  BY <1>3, <1>4, <1>5 DEF IInv, NodeInv

LEMMA StutterKeeps ==
    ASSUME IInv, UNCHANGED vars
    PROVE  IInv'
<1>1. OnlyOpens /\ Flags
  BY SameTeam DEF IInv, Core, TypeOK, Flags, vars
<1>2. Core'
  BY <1>1, ScreenStays DEF IInv, vars, screen
<1>3. NodeInv'
  BY DEF IInv, NodeInv, vars, ScreenOfNode, TeamOfNode, OpenSlots, ScreenIsKept,
         RefusalsPass, BuildIsKept, MayNotLose
<1> QED
  BY <1>2, <1>3 DEF IInv

LEMMA SessionInvariant == Spec => []IInv
<1>1. Init => IInv
  BY InitHolds
<1>2. IInv /\ [Next]_vars => IInv'
  BY ClassifyStep, NodeStep, StutterKeeps DEF Next
<1> QED
  BY <1>1, <1>2, PTL DEF Spec

-----------------------------------------------------------------------------
(* What the invariant says between turns.                                  *)

LEMMA BackedScreens ==
    ASSUME IInv
    PROVE  ScreensAreBacked
<1>1. Core /\ TypeOK
  BY DEF IInv, Core
<1>2. QuestionsHoldABuild
  <2>1. SUFFICES ASSUME Interrupts(pending_presentation)
                 PROVE  /\ Kind(Bottom(pending_presentation))
                              \in {"none", "full_build_confirmation"}
                        /\ pending_presentation.kind = "confirm_abandon_build" =>
                              Kind(pending_presentation.held) = "full_build_confirmation"
    BY DEF QuestionsHoldABuild
  <2>2. pending_presentation \in Abandons \cup Targets \cup Conflicts \cup Reallocations
    BY <1>1, <2>1, KindOfShape DEF Core
  <2>3. Bottom(pending_presentation) \in Held
    BY <2>2, QuestionScreen, ReallocationScreen
  <2>4. pending_presentation.kind = "confirm_abandon_build" =>
           pending_presentation.held \in Confirmations
    BY <2>2, QuestionScreen, ReallocationScreen
  <2> QED
    BY <2>3, <2>4, NoScreen, BuildScreen DEF Held
<1>3. WaitingBuildIsBacked
  <2>1. Interrupts(pending_presentation) => Editing
    BY <1>1 DEF Core, Backs, Waiting, Matched, Editing
  <2>2. ASSUME Kind(Bottom(pending_presentation)) = "full_build_confirmation"
        PROVE  LET waiting == Bottom(pending_presentation)
               IN  /\ Editing
                   /\ pending_slot_intent.slot = waiting.shown.slot
                   /\ provisional_slot.slot = waiting.shown.slot
                   /\ provisional_slot.base = waiting.shown.base
                   /\ \/ provisional_slot = waiting.shown
                      \/ ~provisional_slot.build.fits
    <3>1. ShowsABuild(pending_presentation) /\ Waiting(pending_presentation)
      BY <1>1, <2>2, KindOfShape DEF Core
    <3> QED
      BY <1>1, <3>1 DEF Core, Backs, Matched, Editing
  <2> QED
    BY <2>1, <2>2 DEF WaitingBuildIsBacked
<1> QED
  BY <1>1, <1>2, <1>3 DEF ScreensAreBacked

\* Whatever node runs, a waiting build and every question on screen has the
\* slot intent and the provisional build its answers are applied to behind it
\* (classify_pending, the handlers of nodes.py): ScreensAreBacked, for any
\* number of slots and any kits.
THEOREM ScreensStayBacked == Spec => []ScreensAreBacked
<1>1. IInv => ScreensAreBacked
  BY BackedScreens
<1> QED
  BY <1>1, SessionInvariant, PTL

\* No turn leaves an offer (_discovery_screen, completion_preference) on
\* screen for a slot that is locked whole.
THEOREM OffersStayOpen == Spec => []OffersAreForOpenSlots
<1>1. IInv => OffersAreForOpenSlots
  BY DEF IInv, Core, OffersOpen, OffersAreForOpenSlots
<1> QED
  BY <1>1, SessionInvariant, PTL

-----------------------------------------------------------------------------
(* What no turn does.                                                      *)

\* The node an action runs at.
LEMMA NodeOf ==
    /\ classify_input => node = "END"
    /\ initialize => node = "initialize"
    /\ route_team_phase => node = "route_team_phase"
    /\ bootstrap_direction => node = "bootstrap_direction"
    /\ record_bootstrap_response => node = "record_bootstrap_response"
    /\ discover_single_locked => node = "discover_single_locked"
    /\ discover_multi_locked => node = "discover_multi_locked"
    /\ refine_provisional_slot => node = "refine_provisional_slot"
    /\ apply_provisional_edit => node = "apply_provisional_edit"
    /\ apply_provisional_option => node = "apply_provisional_option"
    /\ resolve_spread_reallocation => node = "resolve_spread_reallocation"
    /\ resolve_spread_target_question => node = "resolve_spread_target_question"
    /\ resolve_item_moveset_conflict => node = "resolve_item_moveset_conflict"
    /\ compare_build_options => node = "compare_build_options"
    /\ commit_full_slot => node = "commit_full_slot"
    /\ apply_lock => node = "apply_lock"
    /\ restore_superseded => node = "restore_superseded"
    /\ unlock_locked_slot => node = "unlock_locked_slot"
    /\ begin_locked_slot_revision => node = "begin_locked_slot_revision"
    /\ record_rejection => node = "record_rejection"
    /\ reset_team => node = "reset_team"
    /\ handle_claim_correction => node = "handle_claim_correction"
    /\ ReconcilingHandler => node \in {"record_constraint", "restore_constraint",
                                      "handle_archetype_change"}
    /\ ShowAndEnd => node \in {"finish_pending_response", "generate_team_review"}
<1>1. classify_input => node = "END"
  BY DEF classify_input
<1>2. initialize => node = "initialize"
  BY DEF initialize
<1>3. route_team_phase => node = "route_team_phase"
  BY DEF route_team_phase
<1>4. bootstrap_direction => node = "bootstrap_direction"
  BY DEF bootstrap_direction
<1>5. record_bootstrap_response => node = "record_bootstrap_response"
  BY DEF record_bootstrap_response
<1>6. discover_single_locked => node = "discover_single_locked"
  BY DEF discover_single_locked
<1>7. discover_multi_locked => node = "discover_multi_locked"
  BY DEF discover_multi_locked
<1>8. refine_provisional_slot => node = "refine_provisional_slot"
  BY DEF refine_provisional_slot
<1>9. apply_provisional_edit => node = "apply_provisional_edit"
  BY DEF apply_provisional_edit
<1>10. apply_provisional_option => node = "apply_provisional_option"
  BY DEF apply_provisional_option
<1>11. resolve_spread_reallocation => node = "resolve_spread_reallocation"
  BY DEF resolve_spread_reallocation
<1>12. resolve_spread_target_question => node = "resolve_spread_target_question"
  BY DEF resolve_spread_target_question
<1>13. resolve_item_moveset_conflict => node = "resolve_item_moveset_conflict"
  BY DEF resolve_item_moveset_conflict
<1>14. compare_build_options => node = "compare_build_options"
  BY DEF compare_build_options
<1>15. commit_full_slot => node = "commit_full_slot"
  BY DEF commit_full_slot
<1>16. apply_lock => node = "apply_lock"
  BY DEF apply_lock, LockHandler
<1>17. restore_superseded => node = "restore_superseded"
  BY DEF restore_superseded, LockHandler
<1>18. unlock_locked_slot => node = "unlock_locked_slot"
  BY DEF unlock_locked_slot
<1>19. begin_locked_slot_revision => node = "begin_locked_slot_revision"
  BY DEF begin_locked_slot_revision
<1>20. record_rejection => node = "record_rejection"
  BY DEF record_rejection
<1>21. reset_team => node = "reset_team"
  BY DEF reset_team
<1>22. handle_claim_correction => node = "handle_claim_correction"
  BY DEF handle_claim_correction
<1>23. ReconcilingHandler => node \in {"record_constraint", "restore_constraint",
                                     "handle_archetype_change"}
  BY DEF ReconcilingHandler
<1>24. ShowAndEnd => node \in {"finish_pending_response", "generate_team_review"}
  BY DEF ShowAndEnd
<1> QED
    BY <1>1, <1>2, <1>3, <1>4, <1>5, <1>6, <1>7, <1>8, <1>9, <1>10, <1>11,
     <1>12, <1>13, <1>14, <1>15, <1>16, <1>17, <1>18, <1>19, <1>20, <1>21,
     <1>22, <1>23, <1>24

LEMMA CommittedWasShown ==
    ASSUME IInv, Next, node = "commit_full_slot"
    PROVE  \A i \in Slots : team_draft'[i] # team_draft[i] =>
              /\ Kind(before) = "full_build_confirmation"
              /\ before.shown = [slot |-> i, base |-> pending_slot_intent.base,
                                 build |-> team_draft'[i].build]
              /\ team_draft[i] = pending_slot_intent.base
<1>1. SUFFICES ASSUME NEW i \in Slots, team_draft'[i] # team_draft[i]
               PROVE  /\ Kind(before) = "full_build_confirmation"
                      /\ before.shown = [slot |-> i, base |-> pending_slot_intent.base,
                                         build |-> team_draft'[i].build]
                      /\ team_draft[i] = pending_slot_intent.base
  OBVIOUS
<1>2. Core /\ pending_presentation = before
  BY DEF IInv, NodeInv, ScreenIsKept, Refusing
<1>3. commit_full_slot
  BY NodeOf DEF Next, RunNode
<1>4. /\ ~CommitRefused(pending_presentation, pending_slot_intent,
                        provisional_slot, team_draft)
      /\ Write(provisional_slot.slot,
               [locked |-> "all", build |-> provisional_slot.build])
  BY <1>1, <1>3 DEF commit_full_slot, Refuse
<1>5. /\ provisional_slot \in Provisionals
      /\ Kind(pending_presentation) = "full_build_confirmation"
      /\ pending_presentation.shown = provisional_slot
      /\ team_draft[provisional_slot.slot] = provisional_slot.base
  BY <1>2, <1>4 DEF CommitRefused, Core, TypeOK
<1>6. i = provisional_slot.slot /\ team_draft'[i].build = provisional_slot.build
  BY <1>1, <1>2, <1>4, <1>5 DEF Write, Core, TypeOK
<1>7. pending_slot_intent.base = provisional_slot.base
  <2>1. Waiting(pending_presentation)
    BY <1>5 DEF Waiting
  <2> QED
    BY <1>2, <2>1 DEF Core, Backs, Matched
<1>8. provisional_slot = [slot |-> provisional_slot.slot, base |-> provisional_slot.base,
                          build |-> provisional_slot.build]
  BY <1>5 DEF Provisionals
<1> QED
  BY <1>2, <1>5, <1>6, <1>7, <1>8

\* commit_full_slot locks the build of the screen the user confirmed, and only
\* over the contents that user chose to work on, whatever happened to the team
\* in between.
THEOREM OnlyShownCommits == Spec => OnlyShownBuildsCommit
<1>1. IInv /\ [Next]_vars =>
        [ node = "commit_full_slot" =>
          \A i \in Slots : team_draft'[i] # team_draft[i] =>
              /\ Kind(before) = "full_build_confirmation"
              /\ before.shown = [slot |-> i, base |-> pending_slot_intent.base,
                                 build |-> team_draft'[i].build]
              /\ team_draft[i] = pending_slot_intent.base ]_vars
  BY CommittedWasShown
<1> QED
  BY <1>1, SessionInvariant, PTL DEF Spec, OnlyShownBuildsCommit

\* A refusal that ends its turn leaves the screen the user answered.
LEMMA RefusalsEndOnTheScreen ==
    ASSUME IInv, Next, node # "END", node' = "END", slot_commit_error',
           turn_intent \notin {"slot_candidate_selected", "rejection"}
    PROVE  pending_presentation' = before
<1>1. ~slot_commit_error
  BY EarlierRefusal DEF Passing
<1>2. RunNode
  BY DEF Next, classify_input
<1>3. CASE EditNode
  <2>1. EditStep /\ node \in Editors
    BY <1>3, EditNodeStep
  <2>2. pending_presentation = before
    BY <2>1 DEF IInv, NodeInv, ScreenIsKept, Refusing
  <2> QED
    BY <2>1, <2>2 DEF EditStep
<1>4. CASE \/ commit_full_slot \/ apply_lock \/ restore_superseded
           \/ unlock_locked_slot \/ begin_locked_slot_revision
  <2>1. node \in Refusing
    BY <1>4, NodeOf DEF Refusing
  <2>2. pending_presentation = before
    BY <2>1 DEF IInv, NodeInv, ScreenIsKept
  <2>3. CASE commit_full_slot \/ unlock_locked_slot \/ begin_locked_slot_revision
    <3>1. Refuse("END")
      BY <1>1, <2>3 DEF commit_full_slot, unlock_locked_slot,
                        begin_locked_slot_revision, AfterRefusal, GoTo
    <3> QED
      BY <2>2, <3>1 DEF Refuse, screen
  <2>4. CASE apply_lock
    <3>1. Refuse("END")
      BY <1>1, <2>4 DEF apply_lock, LockHandler, AfterRefusal, GoTo
    <3> QED
      BY <2>2, <3>1 DEF Refuse, screen
  <2>5. CASE restore_superseded
    <3>1. Refuse("END")
      BY <1>1, <2>5 DEF restore_superseded, LockHandler, AfterRefusal, GoTo
    <3> QED
      BY <2>2, <3>1 DEF Refuse, screen
  <2> QED
    BY <1>4, <2>3, <2>4, <2>5
<1>5. CASE \/ initialize \/ route_team_phase \/ bootstrap_direction
           \/ record_bootstrap_response \/ discover_single_locked
           \/ discover_multi_locked \/ ShowAndEnd \/ compare_build_options
           \/ ReconcilingHandler \/ handle_claim_correction \/ reset_team
  BY <1>1, <1>5 DEF initialize, route_team_phase, bootstrap_direction,
     record_bootstrap_response, discover_single_locked, discover_multi_locked,
     ShowAndEnd, compare_build_options, ReconcilingHandler, handle_claim_correction,
     reset_team, Present, Fill, OfferSlot
<1>6. CASE refine_provisional_slot \/ record_rejection
  BY <1>6 DEF IInv, NodeInv, ScreenOfNode, RefusalsPass, refine_provisional_slot,
              record_rejection
<1> QED
  BY <1>2, <1>3, <1>4, <1>5, <1>6 DEF RunNode, EditNode

\* RefusedTurnKeepsScreen: the routers behind commit_full_slot, the locks, the
\* restores and the edits send a refusal to END with the screen untouched.
THEOREM RefusalKeepsScreen == Spec => RefusedTurnKeepsScreen
<1>1. IInv /\ [Next]_vars =>
        [ node # "END" /\ node' = "END" /\ slot_commit_error'
          /\ turn_intent \notin {"slot_candidate_selected", "rejection"}
          => pending_presentation' = before ]_vars
  BY RefusalsEndOnTheScreen
<1> QED
  BY <1>1, SessionInvariant, PTL DEF Spec, RefusedTurnKeepsScreen

LEMMA KeptBuildEnds ==
    ASSUME IInv, Next, node # "END", node' = "END",
           Kind(Bottom(before)) = "full_build_confirmation",
           Kind(before) # "confirm_abandon_build", turn_intent \notin LosingABuild
    PROVE  /\ Kind(Bottom(pending_presentation')) = "full_build_confirmation"
           /\ Bottom(pending_presentation').shown.slot = Bottom(before).shown.slot
<1>1. /\ node \in Editors \cup {"compare_build_options", "finish_pending_response"}
      /\ ShowsABuild(pending_presentation)
      /\ Bottom(pending_presentation).shown.slot = Bottom(before).shown.slot
  BY DEF IInv, NodeInv, BuildIsKept, MayNotLose
<1>2. EditNode \/ ShowAndEnd \/ compare_build_options
  BY <1>1, NodeOf DEF Next, RunNode, EditNode, Editors
<1>3. CASE EditNode
  BY <1>1, <1>3, EditNodeStep DEF EditStep, KeepsBuild, ShowsABuild
<1>4. CASE ShowAndEnd \/ compare_build_options
  <2>1. pending_presentation' = pending_presentation
    BY <1>4 DEF ShowAndEnd, compare_build_options, screen
  <2> QED
    BY <1>1, <2>1 DEF ShowsABuild
<1> QED
  BY <1>2, <1>3, <1>4

\* A build waiting for its confirmation is still waiting after every turn that
\* does not commit, drop or change something, for the same slot.
THEOREM WaitingBuildIsKept == Spec => WaitingBuildSurvives
<1>1. IInv /\ [Next]_vars =>
        [ node # "END" /\ node' = "END"
          /\ Kind(Bottom(before)) = "full_build_confirmation"
          /\ Kind(before) # "confirm_abandon_build"
          /\ turn_intent \notin LosingABuild
          => /\ Kind(Bottom(pending_presentation')) = "full_build_confirmation"
             /\ Bottom(pending_presentation').shown.slot = Bottom(before).shown.slot
        ]_vars
  BY KeptBuildEnds
<1> QED
  BY <1>1, SessionInvariant, PTL DEF Spec, WaitingBuildSurvives
=============================================================================
