----------------------------- MODULE MCReplies ------------------------------
(***************************************************************************)
(* What one reply to a screen goes through: the text is resolved to an     *)
(* intent, a spread is completed or negotiated, and discovery offers the   *)
(* next slate of candidates.  They share no state: a behaviour is one of   *)
(* one part, and the variables of the others keep an initial state.        *)
(***************************************************************************)
EXTENDS SpreadDialogue, Sequences

CONSTANTS MaxOptions, MaxFilled,            \* IntentResolution
          EvInputs, Partials, Targets,      \* SpreadFill
          Found, FamilyOf, AllNeeds, SpeedNeed, FoundKits, RankedAs,
          CutTo, ShowUpTo, LockUpTo         \* CandidateSlate

VARIABLES part,
          said, screen, answer, result,                          \* IntentResolution
          algo, given, target, sp, need,                         \* SpreadFill
          kit, order, focus, gone, bans, locked, slate           \* CandidateSlate

reply  == <<said, screen, answer, result>>
filled == <<algo, given, target, sp, need>>
offer  == <<kit, order, focus, gone, bans, locked, slate>>

Points(a, b, c, d, e, f) ==
    [hp |-> a, atk |-> b, def |-> c, spa |-> d, spd |-> e, spe |-> f]

-----------------------------------------------------------------------------
(* The dialogue: six stats of at most 2 points each and a budget of 6; a   *)
(* difference of one point is corrected automatically.  The user names     *)
(* three stats; the others can only pay for them automatically.            *)

OfferedSpreads == {Points(2, 0, 0, 2, 0, 2), Points(0, 1, 2, 1, 2, 0)}
NamedStats == {"hp", "atk", "spe"}
NamedValues == {1, 2, 3}
NamedDeltas == {-1, 1}

-----------------------------------------------------------------------------
(* The intent: every text, and every record the schema accepts with at     *)
(* most two option ids and two filled value fields.                        *)

Intent == INSTANCE IntentResolution

-----------------------------------------------------------------------------
(* The completion, with the real numbers.  EV sources are sorted one way   *)
(* and the other; the sources below 508 EVs leave some unspent.            *)

EvValues == {0, 4, 12, 20, 44, 84, 100, 116, 156, 204, 236, 252}

EvTuples(total) ==
    UNION {UNION {UNION {UNION {
        {<<a, b, c, d, e, total - a - b - c - d - e>> :
            e \in {x \in EvValues : /\ x <= d
                                    /\ total - a - b - c - d - x \in 0 .. x}} :
        d \in {x \in EvValues : x <= c}} :
        c \in {x \in EvValues : x <= b}} :
        b \in {x \in EvValues : x <= a}} :
        a \in EvValues}

\* A source that gives two stats more than the rules of its game allow.
EvSources ==
    {Points(0, 256, 0, 0, 0, 252), Points(0, 4, 0, 0, 252, 256)} \cup
    UNION {{Points(t[1], t[2], t[3], t[4], t[5], t[6]),
            Points(t[6], t[5], t[4], t[3], t[2], t[1])} :
            t \in EvTuples(508) \cup EvTuples(510) \cup EvTuples(420)}

PartialSpreads ==
    {s \in [Stats -> {0, 2, 16, 31}] : Total(s) \in 1 .. 65}

RoleSpreads ==
    {Points(2, 32, 0, 0, 0, 32), Points(12, 16, 8, 16, 0, 14),
     Points(32, 0, 18, 0, 16, 0)}

Fill == INSTANCE SpreadFill WITH
    Cap <- 32, Budget <- 66, Grain <- 8, FullEvs <- 508, MaxEvs <- 252

-----------------------------------------------------------------------------
(* The slate: five species, the last two of one family; three options.  A  *)
(* species has one of two or three kits.                                   *)

SupportNeeds == {"trick_room", "screens"}

NoKit == [threat |-> FALSE, serves |-> {}, tiered |-> {}, sure |-> FALSE,
          gap |-> FALSE, benefits |-> "no"]
Serving(n, t) == [NoKit EXCEPT !.serves = n, !.tiered = t, !.sure = TRUE]

Counter == [NoKit EXCEPT !.threat = TRUE]
Setter  == [Serving({"trick_room"}, {"trick_room"}) EXCEPT !.threat = TRUE]
Passable == Serving({"trick_room"}, {})  \* an Acceptable setter
Screens == Serving(SupportNeeds, {"screens"})
Rainy   == [NoKit EXCEPT !.benefits = "strong"]
Backup  == [NoKit EXCEPT !.gap = TRUE, !.sure = TRUE]
Dual    == [Serving({"screens"}, {"screens"}) EXCEPT !.benefits = "strong"]
Vague   == [Serving(SupportNeeds, SupportNeeds) EXCEPT !.sure = FALSE]
Damp    == [Counter EXCEPT !.benefits = "weak"]

FiveSpecies == 1..5
Families == <<1, 2, 3, 4, 4>>
KitsFound == {<<Setter, b, c, d, e>> : b \in {Screens, Backup}, c \in {Passable, Dual, Damp},
                                       d \in {Vague, Rainy, Dual}, e \in {Counter, Passable}}

\* The support track is cut from one end, and selected from the same or the
\* other one.
Up == [i \in FiveSpecies |-> i]
Down == [i \in FiveSpecies |-> 6 - i]
Ranking(cut, select) ==
    [u \in {"cut", "select"} |-> [t \in {"A", "B", "C"} |->
        IF t # "B" THEN Up ELSE IF u = "cut" THEN cut ELSE select]]
Rankings == {Ranking(Up, Up), Ranking(Down, Up)}

Slate == INSTANCE CandidateSlate WITH
    Species <- Found, Lineage <- FamilyOf, Needs <- AllNeeds,
    TrickRoom <- SpeedNeed, Finds <- FoundKits, Orders <- RankedAs,
    CutSize <- CutTo, MaxShown <- ShowUpTo, MaxLocked <- LockUpTo, screen <- slate

\* The other game lets a build spend 510 EVs; a source that gives a stat more
\* than a stat may have is not held to that either.
SourcesAssumption ==
    \A g \in EvInputs : Fill!Total(g) <= 510 \/ \E k \in Stats : g[k] > 252

ASSUME RepliesAssumption ==
    /\ Intent!BoundsAssumption
    /\ Fill!FillAssumption /\ SourcesAssumption
    /\ Slate!FindsAssumption /\ Slate!BoundsAssumption

-----------------------------------------------------------------------------
RepliesInit ==
    /\ part \in {"dialogue", "intent", "fill", "slate"}
    /\ IF part = "fill" THEN Fill!Init
       ELSE given = (CHOOSE g \in EvInputs : TRUE) /\ Fill!CallEvs
    /\ IF part = "dialogue" THEN Init
       ELSE Init /\ spread = Points(2, 0, 0, 2, 0, 2) /\ kit_ok
    /\ IF part = "intent" THEN Intent!Init
       ELSE Intent!Init /\ screen = "none"
              /\ said = [option |-> FALSE, stat |-> "none", named |-> "none"]
    /\ IF part = "slate" THEN Slate!Init
       ELSE Slate!Init /\ <<kit, order>> = CHOOSE x \in FoundKits \X RankedAs : TRUE

RepliesNext ==
    \/ part = "dialogue" /\ Next /\ UNCHANGED <<part, reply, filled, offer>>
    \/ part = "intent" /\ Intent!Next /\ UNCHANGED <<part, vars, filled, offer>>
    \/ part = "fill" /\ Fill!Next /\ UNCHANGED <<part, vars, reply, offer>>
    \/ part = "slate" /\ Slate!Next /\ UNCHANGED <<part, vars, reply, filled>>

RepliesSpec == RepliesInit /\ [][RepliesNext]_<<part, vars, reply, filled, offer>>

-----------------------------------------------------------------------------
(* The properties of the parts; those of the dialogue are SpreadDialogue's *)
(* own.                                                                    *)

\* Of a reply that edits, selects and names a number nothing is lost on the
\* way to the intent: an edit has a value, it is not dropped for the option
\* beside it nor the option for the edit, and what the text says beats the
\* arithmetic of the model (turn_intent.py).
NothingIsDropped ==
    part = "intent" =>
        /\ Intent!TypeOK
        /\ Intent!EditsHaveAValue /\ Intent!EditIsNotDropped
        /\ Intent!SelectionIsNotDropped /\ Intent!TextBeatsArithmetic

\* A full source and a partial build end on the budget, a stat with more EVs
\* never with fewer points, and the role's spread is filled up to before
\* anything else (sp_convert.py, slot_fill.py).
FillIsFair ==
    part = "fill" =>
        Fill!TypeOK /\ Fill!EndsOnBudget /\ Fill!OrderIsKept /\ Fill!RoleComesFirst

\* No two options are of one family, none is of a rejected or a locked one or
\* offered for a banned need; a support slate is short only when nobody is
\* left, and repeats nothing while someone brings something new (slot_fill.py).
SlateIsSound ==
    part = "slate" =>
        /\ Slate!TypeOK
        /\ Slate!OptionsAreApart /\ Slate!BansHold
        /\ Slate!SupportIsFull /\ Slate!NewNeedsFirst
=============================================================================
