------------------------------- MODULE MCArm --------------------------------
(***************************************************************************)
(* Turns of the arm, explored twice: where slots are drafted and locked,   *)
(* and where candidates are shown and builds committed.  A behaviour is    *)
(* one of one part, on the same variables.  Two slots, two or three        *)
(* species, two items; a conversation starts from an empty team, from an   *)
(* anchor, or from a screen that is shown.  The properties are ArmTurn's   *)
(* own: they do not depend on what the parts differ in.                    *)
(***************************************************************************)
EXTENDS ArmTurn

CONSTANTS incineroar, garchomp, amoonguss, sitrus, leftovers

VARIABLE part     \* "drafts" or "screens"

TwoSpecies == {incineroar, garchomp}
MCSpecies == {incineroar, garchomp, amoonguss}
MCItems == {sitrus, leftovers}

Sub(class, action, confirms, uncertain) ==
    [class |-> class, action |-> action, confirms |-> confirms, uncertain |-> uncertain]

Sure(class, action) == <<Sub(class, action, FALSE, FALSE)>>

Req(slot, species, item, replace) ==
    [slot |-> slot, species |-> species, item |-> item, replace |-> replace]

EmptyTeam == [s \in 1..2 |-> EmptySlot]
Anchor == [EmptyTeam EXCEPT ![1] = [species |-> Locked(incineroar), item |-> Locked(sitrus)]]
BuildScreen ==
    [kind |-> "build", slot |-> 2, options |-> MCItems, proposal |-> [species |-> garchomp, item |-> leftovers],
     made_for |-> Anchor, stamped |-> TRUE]

MCStarts == {<<EmptyTeam, None>>, <<Anchor, None>>, <<Anchor, BuildScreen>>}

\* Drafting: slots are set, locked and unlocked, with confirmation or after a question.
DraftMessages ==
    {Sure("WRITE", a) : a \in {"set_slot", "lock_fields", "unlock_fields"}}
    \cup {Sure("ASK", "set_slot"), Sure("PENDING_ANSWER", "none"),
          <<Sub("WRITE", "set_slot", FALSE, TRUE)>>,
          <<Sub("WRITE", "unlock_slot", TRUE, FALSE)>>,
          <<Sub("LOOKUP", "none", FALSE, FALSE), Sub("WRITE", "reset", FALSE, FALSE)>>}

\* Screens: candidates are shown, picked, committed and turned down.
ScreenMessages ==
    {Sure("WRITE", a) : a \in {"set_slot", "select_option", "commit", "reject", "reset", "lock_fields"}}
    \cup {Sure("LOOKUP", "none"), <<Sub("WRITE", "select_option", FALSE, TRUE)>>,
          <<Sub("WRITE", "commit", FALSE, FALSE), Sub("LOOKUP", "none", FALSE, FALSE)>>}

\* Requests for one slot each, some for two, and one that drafts a slot and
\* replaces what it drafted.
DraftBatches ==
    {<<Req(s, sp, i, r)>> : s \in {1, 2, None}, sp \in TwoSpecies, i \in {sitrus, None}, r \in BOOLEAN}
    \cup {<<Req(None, incineroar, sitrus, FALSE), Req(None, garchomp, i, FALSE)>> : i \in {sitrus, leftovers}}
    \cup {<<Req(1, None, leftovers, FALSE), Req(2, None, sitrus, FALSE)>>,
          <<Req(1, incineroar, sitrus, FALSE), Req(1, garchomp, None, TRUE),
            Req(2, None, sitrus, FALSE)>>}

FewBatches == {<<Req(s, sp, leftovers, TRUE)>> : s \in {1, 2}, sp \in MCSpecies}
    \cup {<<Req(2, garchomp, None, FALSE)>>, <<Req(None, amoonguss, None, FALSE)>>}

MCMessages == DraftMessages \cup ScreenMessages
MCBatches == DraftBatches \cup FewBatches

\* Two species, one answer of the model to a turn.
Drafts == INSTANCE ArmTurn WITH
    Species <- TwoSpecies, Messages <- DraftMessages, Batches <- DraftBatches, MaxRounds <- 1

\* Three species, two answers to a turn.
Screens == INSTANCE ArmTurn WITH Messages <- ScreenMessages, Batches <- FewBatches

-----------------------------------------------------------------------------
ArmInit ==
    /\ part \in {"drafts", "screens"}
    /\ Init
    /\ part = "drafts" => screen = None

ArmNext ==
    /\ \/ part = "drafts"  /\ Drafts!Next
       \/ part = "screens" /\ Screens!Next
    /\ UNCHANGED part

\* The fairness of the parts: a turn that has begun goes on.
ArmSpec ==
    /\ ArmInit /\ [][ArmNext]_<<part, vars>>
    /\ WF_vars(part = "drafts" /\ (Drafts!GoOn \/ Drafts!Stop))
    /\ WF_vars(part = "screens" /\ (Screens!GoOn \/ Screens!Stop))
=============================================================================
