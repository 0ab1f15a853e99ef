------------------------------ MODULE ArmTurn -------------------------------
(***************************************************************************)
(* A turn of the evaluation arm, where a model edits the team with tools   *)
(* and a guard decides which of them it may call (guard_parser.py,         *)
(* guard_allowed.py, guard_exec.py, harness.run_turn), with the run flags  *)
(* wrapper, draft and guard on.                                            *)
(*                                                                         *)
(* The parser reads the user's message as a sequence of sub-requests.      *)
(* What they ask for, the state, and what the arm asked the turn before,   *)
(* give the tools the turn may use; they are worked out again for every    *)
(* call.  A tool writes the draft of the team, locks it, shows candidates  *)
(* for a slot, or acts on the screen that is shown.                        *)
(*                                                                         *)
(* Of the seven attributes of a slot, species and item are kept: the two   *)
(* that have a clause over the team.                                       *)
(***************************************************************************)
EXTENDS Naturals, Sequences, FiniteSetsExt

CONSTANTS
    Species, Items,
    TeamSize,
    None,           \* no value, no screen
    Messages,       \* what the parser may make of a user's message
    Batches,        \* arguments of set_slot: sequences of requests
    Starts,         \* <<team, screen>> a conversation starts from
    MaxCalls,       \* MAX_TOOL_CALLS_PER_TURN
    MaxRounds       \* max_turns: answers of the model in a turn

ASSUME ArmAssumption ==
    /\ TeamSize \in Nat \ {0}
    /\ MaxCalls \in Nat \ {0} /\ MaxRounds \in Nat \ {0}
    /\ None \notin Species \cup Items

VARIABLES
    team,           \* team_draft
    screen,         \* pending_presentation with the build it proposes
    rejected,       \* species the user turned down
    asked,          \* _guard_pending_asked: the action asked about, or "none"
    message,        \* sub_requests of the turn; << >> between turns
    asked_before,   \* pending_asked as the turn began
    rounds,         \* turn_index
    calls           \* tool_call_count

state == <<team, screen, rejected>>
turn == <<message, asked_before, rounds>>
vars == <<state, asked, turn, calls>>

Slots == 1..TeamSize

\* The actions of the parser's schema.
Actions == {"none", "set_slot", "lock_fields", "unlock_fields", "unlock_slot",
            "select_option", "commit", "reject", "reset"}

Attr(values) == [value : values \cup {None}, locked : BOOLEAN]
Slot == [species : Attr(Species), item : Attr(Items)]
Teams == [Slots -> Slot]

Empty == [value |-> None, locked |-> FALSE]
EmptySlot == [species |-> Empty, item |-> Empty]
Draft(v) == [value |-> v, locked |-> FALSE]
Locked(v) == [value |-> v, locked |-> TRUE]

-----------------------------------------------------------------------------
(* Slots and clauses.                                                      *)

AllLocked(slot) == slot.species.locked /\ slot.item.locked
Blank(slot) == slot = EmptySlot

BlankSlots == {s \in Slots : Blank(team[s])}
HasAnchor == \E s \in Slots : AllLocked(team[s])

\* validate_team_value: the species and the item clause.
SpeciesFree(v, s, t) == \A o \in Slots \ {s} : t[o].species.value # v
ItemFree(v, s, t) == \A o \in Slots \ {s} : t[o].item.value # v

\* No species is in two slots, and no item.
SpeciesApart(t) ==
    \A s \in Slots : t[s].species.value # None => SpeciesFree(t[s].species.value, s, t)

Shares(t, s, o, item) == t[s].item.value = item /\ t[o].item.value = item

ItemsApart(t) == \A s \in Slots, o \in Slots, item \in Items : Shares(t, s, o, item) => s = o

\* A value that is locked is there.
LocksHoldValues(t) ==
    \A s \in Slots :
        /\ t[s].species.locked => t[s].species.value # None
        /\ t[s].item.locked => t[s].item.value # None

-----------------------------------------------------------------------------
(* What the parser, the model and a seed may hand to a turn.               *)

Classes == {"LOOKUP", "WRITE", "ASK", "HYPOTHETICAL", "READ_STATE", "PENDING_ANSWER",
            "READ_ONLY_REFUSE"}

SubRequests == [class : Classes, action : Actions, confirms : BOOLEAN, uncertain : BOOLEAN]

Requests ==
    [slot : Slots \cup {None}, species : Species \cup {None}, item : Items \cup {None},
     replace : BOOLEAN]

NoBuild == [species |-> None, item |-> None]

Screen ==
    [kind : {"candidates"}, slot : Slots, options : SUBSET Species, proposal : {NoBuild},
     made_for : Teams, stamped : BOOLEAN]
    \cup [kind : {"build"}, slot : Slots, options : SUBSET Items,
          proposal : [species : Species, item : Items], made_for : Teams, stamped : BOOLEAN]

ASSUME InputsAssumption ==
    /\ Messages \subseteq Seq(SubRequests) \ {<< >>}
    /\ Batches \subseteq Seq(Requests)
    /\ \A start \in Starts :
           /\ start[1] \in Teams /\ LocksHoldValues(start[1])
           /\ SpeciesApart(start[1]) /\ ItemsApart(start[1])
           /\ start[2] \in Screen \cup {None}

-----------------------------------------------------------------------------
(* The guard.                                                              *)

ScreenIsCurrent == screen # None /\ screen.stamped /\ screen.made_for = team

\* (for mutation) the stamp is not compared
FingerprintMatches_Any == screen # None

FingerprintMatches == ScreenIsCurrent

\* _normalize_sub
ClassOf(sub) == IF sub.uncertain THEN "ASK" ELSE sub.class

\* WRITE_ACTION_TOOLS as _write_tools_for_action narrows it.
WriteTools(action) ==
    CASE action \in {"set_slot", "unlock_fields", "unlock_slot"} -> {action}
      [] action = "lock_fields" ->
            {t \in {action} : \E s \in Slots : team[s].species.value # None \/ team[s].item.value # None}
      [] action = "select_option" -> {t \in {action} : FingerprintMatches}
      [] action = "reject" -> {t \in {"reject_pending", "reject_option", "reject_all"} : screen # None}
      [] action = "commit" -> {"commit_slot"}
      [] action = "reset" -> {"reset_team"}
      [] OTHER -> {}

\* A sub-request without an action answers what the arm asked.
ActionOf(sub) ==
    IF ClassOf(sub) = "PENDING_ANSWER" /\ sub.action = "none" THEN asked_before ELSE sub.action

Writes(sub) == ClassOf(sub) \in {"WRITE", "PENDING_ANSWER"}

\* _bundle_for_class; "read" stands for every tool that writes nothing.
ToolsFor(sub) ==
    {"read"}
    \cup {t \in {"show_candidates"} : /\ ClassOf(sub) \in {"LOOKUP", "HYPOTHETICAL", "WRITE", "PENDING_ANSWER"}
                                      /\ HasAnchor /\ BlankSlots # {}}
    \cup (IF Writes(sub) THEN WriteTools(ActionOf(sub)) ELSE {})

allowed_tools == UNION {ToolsFor(message[i]) : i \in DOMAIN message}

Confirms == \E i \in DOMAIN message : message[i].confirms

\* (for mutation) any question is taken for the question
replace_allowed_Any == TRUE

replace_allowed == Confirms \/ asked_before \in {"unlock_slot", "set_slot"}

\* guarded_dispatch up to the tool: a refused call changes nothing.
Called(tool, replace) ==
    /\ message # << >>
    /\ calls < MaxCalls
    /\ tool \in allowed_tools
    /\ replace => replace_allowed
    /\ calls' = calls + 1
    /\ UNCHANGED <<asked, turn>>

-----------------------------------------------------------------------------
(* set_slot: every request is checked on a copy of the team that has the   *)
(* requests before it, then all are written, or none.                      *)

\* Whether a write empties the slot first is read off the team before the call.
Written(req, s, t) ==
    LET base == IF req.replace /\ req.species # None /\ team[s].species.value # None
                THEN EmptySlot ELSE t[s]
        named == IF req.species # None THEN [base EXCEPT !.species = Draft(req.species)] ELSE base
        given == IF req.item # None THEN [named EXCEPT !.item = Draft(req.item)] ELSE named
    IN  [t EXCEPT ![s] = given]

\* The slots a request may be for: the first blank one no request has taken.
Target(req, p) ==
    LET open == {s \in Slots \ p.reserved : Blank(p.copy[s])}
    IN  IF req.slot # None THEN {req.slot} ELSE IF open = {} THEN {} ELSE {Min(open)}

Swaps(req, slot) ==
    req.species # None /\ slot.species.value # None /\ slot.species.value # req.species

\* (for mutation) every request is checked on the team as it is
Refused_Apart(req, s, t) ==
    \/ Swaps(req, team[s]) /\ ~req.replace
    \/ req.species # None /\ ~SpeciesFree(req.species, s, team)
    \/ req.item # None /\ ~ItemFree(req.item, s, team)

Refused(req, s, t) ==
    \/ Swaps(req, t[s]) /\ ~req.replace
    \/ req.species # None /\ ~SpeciesFree(req.species, s, t)
    \/ req.item # None /\ ~ItemFree(req.item, s, t)

\* The copy with a request that passed.
Copied(req, s, t) ==
    LET base == IF Swaps(req, t[s]) THEN EmptySlot ELSE t[s]
        named == IF req.species # None THEN [base EXCEPT !.species = Locked(req.species)] ELSE base
        given == IF req.item # None THEN [named EXCEPT !.item = Locked(req.item)] ELSE named
    IN  [t EXCEPT ![s] = given]

\* What a request makes of the copy, and its write of the team.
Checked(req, p) ==
    LET s == CHOOSE x \in Target(req, p) : TRUE
    IN  IF Target(req, p) = {} \/ Refused(req, s, p.copy)
        THEN [p EXCEPT !.ok = FALSE]
        ELSE [copy |-> Copied(req, s, p.copy), written |-> Written(req, s, p.written),
              reserved |-> p.reserved \cup {s}, ok |-> TRUE]

\* The whole call, up to a request that does not pass.
Projection(batch) ==
    LET p[i \in 0 .. Len(batch)] ==
            IF i = 0 THEN [copy |-> team, written |-> team, reserved |-> {}, ok |-> TRUE]
            ELSE IF p[i - 1].ok THEN Checked(batch[i], p[i - 1]) ELSE p[i - 1]
    IN  p[Len(batch)]

Write(batch) ==
    /\ Called("set_slot", \E i \in DOMAIN batch : batch[i].replace)
    /\ Projection(batch).ok
    /\ team' = Projection(batch).written
    /\ UNCHANGED <<screen, rejected>>

SetSlot == \E batch \in Batches : Write(batch)

\* The slots that a request replaces and one before it in the call is for: the
\* check takes the item to be gone with what was drafted, and the write, which
\* looks at the team before the call, keeps it.
Overlaid(batch) ==
    {s \in Slots : \E i, j \in DOMAIN batch :
         i < j /\ batch[j].replace /\ batch[j].slot = s /\ batch[i].slot \in {s, None}}

-----------------------------------------------------------------------------
(* draft_lock.py.                                                          *)

Fields == {"species", "item"}

LockFields ==
    \E s \in Slots, fields \in (SUBSET Fields) \ {{}} :
        /\ Called("lock_fields", FALSE)
        /\ \A f \in fields : team[s][f].value # None
        /\ team' = [team EXCEPT ![s] = [f \in Fields |-> IF f \in fields THEN Locked(@[f].value) ELSE @[f]]]
        /\ UNCHANGED <<screen, rejected>>

UnlockFields ==
    \E s \in Slots, fields \in (SUBSET Fields) \ {{}} :
        /\ Called("unlock_fields", FALSE)
        /\ team' = [team EXCEPT ![s] = [f \in Fields |-> IF f \in fields THEN Draft(@[f].value) ELSE @[f]]]
        /\ UNCHANGED <<screen, rejected>>

\* unlock_slot_draft; without replace it refuses and tells what the slot holds.
UnlockSlot ==
    \E s \in Slots :
        /\ Called("unlock_slot", TRUE)
        /\ ~Blank(team[s])
        /\ team' = [team EXCEPT ![s] = EmptySlot]
        /\ UNCHANGED <<screen, rejected>>

-----------------------------------------------------------------------------
(* Screens.                                                                *)

\* What discovery may come up with, less the rejected.
Offers == SUBSET (Species \ rejected)

ShowCandidates ==
    \E options \in Offers :
        /\ Called("show_candidates", FALSE)
        /\ screen' = [kind |-> "candidates", slot |-> Min(BlankSlots), options |-> options,
                      proposal |-> NoBuild, made_for |-> team, stamped |-> TRUE]
        /\ UNCHANGED <<team, rejected>>

\* _emit_full_build_confirmation; the options are changes of the item.
Proposal(species, item) ==
    [kind |-> "build", slot |-> screen.slot, options |-> Items,
     proposal |-> [species |-> species, item |-> item], made_for |-> team, stamped |-> FALSE]

\* refine_provisional_slot proposes a legal build or fails and keeps the screen.
PickCandidate ==
    /\ Called("select_option", FALSE)
    /\ screen.kind = "candidates"
    /\ ~AllLocked(team[screen.slot])
    /\ \E species \in screen.options, item \in Items :
           /\ SpeciesFree(species, screen.slot, team)
           /\ ItemFree(item, screen.slot, team)
           /\ screen' = Proposal(species, item)
    /\ UNCHANGED <<team, rejected>>

\* apply_provisional_option
PickChange ==
    /\ Called("select_option", FALSE)
    /\ screen.kind = "build"
    /\ ~AllLocked(team[screen.slot])
    /\ \E item \in screen.options : screen' = Proposal(screen.proposal.species, item)
    /\ UNCHANGED <<team, rejected>>

RejectPending ==
    /\ Called("reject_pending", FALSE)
    /\ screen' = None
    /\ UNCHANGED <<team, rejected>>

\* reject_option with record_rejection, which takes the species back if it
\* is not locked.
RejectOption ==
    /\ Called("reject_option", FALSE)
    /\ screen.kind = "candidates"
    /\ \E species \in screen.options : rejected' = rejected \cup {species}
    /\ team' = [team EXCEPT ![screen.slot].species = IF @.locked THEN @ ELSE Empty]
    /\ screen' = None

RejectAll ==
    /\ Called("reject_all", FALSE)
    /\ screen.kind = "candidates" /\ screen.options # {}
    /\ rejected' = rejected \cup screen.options
    /\ screen' = None
    /\ UNCHANGED team

\* commit_full_slot
CommitSlot ==
    /\ Called("commit_slot", FALSE)
    /\ screen # None /\ screen.kind = "build"
    /\ screen.made_for[screen.slot] = team[screen.slot]
    /\ SpeciesFree(screen.proposal.species, screen.slot, team)
    /\ ItemFree(screen.proposal.item, screen.slot, team)
    /\ team' = [team EXCEPT ![screen.slot] = [species |-> Locked(screen.proposal.species),
                                              item |-> Locked(screen.proposal.item)]]
    /\ screen' = None
    /\ UNCHANGED rejected

\* The rejected species outlive the team.
ResetTeam ==
    /\ Called("reset_team", FALSE)
    /\ team' = [s \in Slots |-> EmptySlot]
    /\ screen' = None
    /\ UNCHANGED rejected

\* Tools that look something up, and calls a tool itself refuses.
Read == Called("read", FALSE) /\ UNCHANGED state

Call ==
    \/ SetSlot \/ LockFields \/ UnlockFields \/ UnlockSlot
    \/ ShowCandidates \/ PickCandidate \/ PickChange
    \/ RejectPending \/ RejectOption \/ RejectAll \/ CommitSlot \/ ResetTeam
    \/ Read

-----------------------------------------------------------------------------
(* A turn.                                                                 *)

\* What a parser that raises is replaced by.
Unparsed == <<[class |-> "ASK", action |-> "none", confirms |-> FALSE, uncertain |-> TRUE]>>

\* parse_user_turn, and what the turn leaves as asked: the class as parsed
\* of the first sub-request decides, uncertain or not.
UserTurn ==
    /\ message = << >>
    /\ message' \in Messages \cup {Unparsed}
    /\ asked_before' = asked
    /\ asked' = CASE message'[1].class = "ASK" -> message'[1].action
                  [] message'[1].class = "PENDING_ANSWER" -> asked
                  [] OTHER -> "none"
    /\ UNCHANGED <<state, rounds, calls>>

EndTurn ==
    /\ asked' = IF message[1].class = "PENDING_ANSWER" THEN "none" ELSE asked
    /\ message' = << >>
    /\ asked_before' = "none"
    /\ rounds' = 0 /\ calls' = 0
    /\ UNCHANGED state

\* The model answers, fails or has used its time; a call over the cap ends
\* the turn as well.
Stop == message # << >> /\ EndTurn

\* The model has more calls to make.
\* (for mutation) the answers are not counted
GoOn_Uncounted ==
    /\ message # << >>
    /\ rounds' = (rounds + 1) % MaxRounds
    /\ UNCHANGED <<state, asked, message, asked_before, calls>>

GoOn ==
    /\ message # << >>
    /\ rounds + 1 < MaxRounds
    /\ rounds' = rounds + 1
    /\ UNCHANGED <<state, asked, message, asked_before, calls>>

Init ==
    /\ \E start \in Starts : team = start[1] /\ screen = start[2]
    /\ rejected = {}
    /\ asked = "none" /\ asked_before = "none"
    /\ message = << >>
    /\ rounds = 0 /\ calls = 0

Next == UserTurn \/ Call \/ GoOn \/ Stop

\* Every answer of the model has a deadline, and run_turn a number of answers.
Spec == Init /\ [][Next]_vars /\ WF_vars(GoOn \/ Stop)

-----------------------------------------------------------------------------
(* Properties.                                                             *)

\* The types; a value that is locked is there; no turn runs more tools than the cap.
TypeOK ==
    /\ team \in Teams
    /\ LocksHoldValues(team)
    /\ screen = None \/ screen \in Screen
    /\ rejected \subseteq Species
    /\ {asked, asked_before} \subseteq Actions
    /\ message \in Messages \cup {Unparsed, << >>}
    /\ rounds \in 0 .. MaxRounds - 1 /\ calls \in 0 .. MaxCalls

\* Whatever the order of drafts, locks, screens and commits, no species is
\* twice in the team (validate_team_value).
SpeciesClause == SpeciesApart(team)

\* Two slots come to share an item in one way only: in a call of set_slot that
\* replaces in one of them what the call itself has written there.
ItemsStayApart ==
    [][\A s \in Slots, o \in Slots, item \in Items :
          s # o /\ Shares(team', s, o, item)
          => \/ Shares(team, s, o, item)
             \/ \E batch \in Batches : Write(batch) /\ {s, o} \cap Overlaid(batch) # {}]_vars

\* A candidate screen never offers what was turned down, in this turn or
\* earlier, with the team reset in between or not.
OffersAreNotRejected ==
    screen # None /\ screen.kind = "candidates" => screen.options \cap rejected = {}

\* Teams, screens and turns keep their types, no species is twice in the team,
\* items come together in no other way than above, and no screen offers what
\* was turned down (tools.py, set_slot_tool.py, team_validation.py).
ArmIsSound == [](TypeOK /\ SpeciesClause /\ OffersAreNotRejected) /\ ItemsStayApart

\* A turn in which nothing was asked for with certainty that writes leaves
\* the team and the rejected species as they were (allowed_tools).
ReadOnlyTurnsWriteNothing ==
    [][(\A i \in DOMAIN message : ~(message[i].class \in {"WRITE", "PENDING_ANSWER"} /\ ~message[i].uncertain))
       => UNCHANGED <<team, rejected>>]_vars

\* A species that is held is replaced or wiped by set_slot and unlock_slot
\* only if the user confirmed it or the arm had asked for that action.
Lost(s) == team[s].species.value # None /\ team'[s].species.value # team[s].species.value

ReplacedOnlyIfAsked ==
    [][(\E s \in Slots : Lost(s))
       => \/ Confirms
          \/ asked_before \in {"set_slot", "unlock_slot"}
          \/ RejectOption \/ ResetTeam \/ CommitSlot]_vars

\* What the arm asked is answered in the next turn or forgotten: an old
\* question allows nothing later.
QuestionsLiveOneTurn ==
    [][message # << >> /\ message' = << >> /\ message[1].class # "ASK" => asked' = "none"]_vars

\* What is held is the user's: nothing is written in a turn that does not ask
\* for it, and nothing replaced that the user did not confirm or was not
\* asked about in the turn before (allowed_tools, replace_allowed).
UserDecides == ReadOnlyTurnsWriteNothing /\ ReplacedOnlyIfAsked /\ QuestionsLiveOneTurn

\* A build is proposed for the team its candidates were found for: a list
\* from before a change of the team is not picked from (OL10a).
PicksAreFromThisTeam ==
    [][screen' # screen /\ screen' # None /\ screen'.kind = "build"
       => screen.made_for = team]_vars

\* A slot that is not blank and gets another species as a locked one held
\* the same when the build was proposed (base_slot_fingerprint).
CommitsReplaceWhatWasSeen ==
    [][\A s \in Slots :
          team'[s].species.locked /\ team'[s].species.value # team[s].species.value
          => screen.slot = s /\ screen.made_for[s] = team[s]]_vars

\* A list or a build from before a change of the team is neither picked from
\* nor committed (the fingerprints of OL10a).
StaleScreensAreRefused == PicksAreFromThisTeam /\ CommitsReplaceWhatWasSeen

\* Every turn ends with an answer (max_turns, the deadline, the fallback reply).
TurnsEnd == message # << >> ~> message = << >>

-----------------------------------------------------------------------------
(* What the texts say.                                                     *)

\* No species and no item is twice in the team: the clauses set_slot checks.
TeamClauses == SpeciesApart(team) /\ ItemsApart(team)

\* "An earlier request that names the slot is not a confirmation"
\* (SET_SLOT_SPEC): what is held is lost only in a turn that confirms it.
ReplacedOnlyWhenConfirmed ==
    [][(\E s \in Slots : Lost(s)) => Confirms \/ RejectOption \/ ResetTeam \/ CommitSlot]_vars

\* "Attach OL10a fingerprint when a pending screen is created or refreshed"
\* (stamp_pending_team_fingerprint): a screen made for this team can be
\* picked from.
CurrentScreensCanBePicked ==
    screen # None /\ screen.made_for = team => FingerprintMatches

\* "Before clearing or overwriting a draft, tell the user what the draft
\* holds and ask; use replace=true only after they confirm" (prompt_guard.md):
\* a draft is lost only if the user confirmed, or reset the team.
DraftsAreNotWiped ==
    [][(\E s \in Slots : Lost(s) /\ ~team[s].species.locked) => replace_allowed \/ ResetTeam \/ CommitSlot]_vars
=============================================================================
