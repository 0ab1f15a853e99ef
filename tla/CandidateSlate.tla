---------------------------- MODULE CandidateSlate --------------------------
(***************************************************************************)
(* Which Pokemon a slot of a team with two or more locked members is       *)
(* offered, turn after turn (discover_multi_locked in recommender/nodes.py,*)
(* team_candidates.py, present_candidates in slot_fill.py): the merge of   *)
(* the discovered evidence, the cut and the ranking of each track, the     *)
(* selection of a default and its alternatives for the user's focus, and   *)
(* what rejections and bans of earlier turns keep out of the next slate.   *)
(*                                                                         *)
(* Tracks: A counters threats, B serves a support need of the team, C      *)
(* benefits from a condition the team sets up.  What the ranking compares  *)
(* is left out: each track has some order of the species, one for the cut, *)
(* where what the user prefers counts as well, and one for the selection,  *)
(* and every discovery may find others, for the team has changed.          *)
(***************************************************************************)
EXTENDS Naturals, FiniteSets, Sequences, Functions

CONSTANTS Species, Lineage,  \* the species, and the family of each
          Needs,             \* support needs, TrickRoom one of them
          TrickRoom,
          Finds,             \* the evidence discovery may find for each species
          Orders,            \* the rankings that are explored
          CutSize,           \* n_per_category: species a track keeps
          MaxShown,          \* the default and its alternatives
          MaxLocked          \* slots filled on the way

Tracks == {"A", "B", "C"}
Uses == {"cut", "select"}

Kits == [threat : BOOLEAN, serves : SUBSET Needs, tiered : SUBSET Needs,
         sure : BOOLEAN, gap : BOOLEAN, benefits : {"no", "weak", "strong"}]

FindsAssumption ==
  /\ TrickRoom \in Needs
  /\ Finds \subseteq [Species -> {k \in Kits : k.tiered \subseteq k.serves}]
  /\ DOMAIN Lineage = Species
  /\ Orders \subseteq [Uses -> [Tracks -> Seq(Species)]]
  /\ \A o \in Orders : \A u \in Uses, t \in Tracks : Range(o[u][t]) = Species
BoundsAssumption ==
  {CutSize, MaxShown, MaxLocked} \subseteq Nat \ {0}

VARIABLES kit,     \* what discovery finds for each species
          order,   \* the rankings of the next discovery, best first
          focus,   \* team_completion_preference
          gone,    \* the families the rejected rows name
          bans,    \* the needs the rejected rows ban
          locked,  \* the families of the locked members
          screen   \* what is pending

vars == <<kit, order, focus, gone, bans, locked, screen>>

Focuses == {"attacker", "support", "balanced"}
NoScreen == [kind |-> "none", options |-> <<>>]
Prompt   == [kind |-> "completion_preference", options |-> <<>>]
Proposal == [kind |-> "proposal", options |-> <<>>]   \* fill_team_draft's

----------------------------------------------------------------------------
(* Merge and tracks. *)

Eligible(g, l) == {s \in Species : Lineage[s] \notin g \union l}

\* A species that serves a need keeps the row of the need alone.
Benefits(s) == IF kit[s].serves # {} THEN "no" ELSE kit[s].benefits

On(t, s) == CASE t = "A" -> kit[s].threat
              [] t = "B" -> kit[s].serves # {} \/ kit[s].gap
              [] t = "C" -> Benefits(s) # "no"

Strong(t, s) == CASE t = "A" -> TRUE
                  [] t = "B" -> kit[s].sure
                  [] t = "C" -> Benefits(s) = "strong"

\* The members of S, in the order they have in q: SelectSeq as a function of the
\* index, which a proof can follow.
Only(q, S) ==
  LET r[i \in 0 .. Len(q)] ==
        IF i = 0 THEN <<>> ELSE IF q[i] \in S THEN Append(r[i - 1], q[i]) ELSE r[i - 1]
  IN  r[Len(q)]

RankedFrom(u, pool, t) == Only(order[u][t], {s \in pool : On(t, s)})

\* Every track is cut by itself, but B for a user who looks for support.
Cut(pool, t, f) ==
  LET r == RankedFrom("cut", pool, t)
  IN  IF t = "B" /\ f = "support" THEN Range(r)
      ELSE {r[i] : i \in 1..(IF Len(r) < CutSize THEN Len(r) ELSE CutSize)}

Ranked(pool, t) == Only(RankedFrom("select", pool, t), {s \in pool : Strong(t, s)})

----------------------------------------------------------------------------
(* Bans. *)

\* Tiers without commitment do not make a species diverse, but they do not
\* let it slip through a ban either.
Sticky(s) == IF kit[s].tiered # {} THEN kit[s].tiered ELSE kit[s].serves

\* Trick Room is banned as a main job only.
Banned(s, b) ==
  \E n \in b : IF n = TrickRoom THEN Sticky(s) = {TrickRoom} ELSE n \in kit[s].serves

----------------------------------------------------------------------------
(* Selection: options are picked best first, one of a family. *)

\* (for mutation) options may share a family.
ApartBySpecies(s, picks) == \A i \in DOMAIN picks : picks[i].species # s

Apart(s, picks) == \A i \in DOMAIN picks : Lineage[picks[i].species] # Lineage[s]

With(picks, s, t) == Append(picks, [species |-> s, track |-> t])

WithFirst(picks, ranked, t) ==
  LET free == Only(ranked, {s \in Species : Apart(s, picks)})
  IN  IF free = <<>> \/ Len(picks) >= MaxShown THEN picks ELSE With(picks, free[1], t)

Covered(picks) == UNION {kit[picks[i].species].tiered : i \in DOMAIN picks}

\* The picks with everybody who is apart from them, while there is room; if
\* fresh, only those with a tier for a need that no pick has one for.
WithAll(picks, ranked, t, fresh) ==
  LET p[i \in 0 .. Len(ranked)] ==
        IF i = 0 THEN picks
        ELSE IF /\ Apart(ranked[i], p[i - 1]) /\ Len(p[i - 1]) < MaxShown
                /\ fresh => ~ kit[ranked[i]].tiered \subseteq Covered(p[i - 1])
             THEN With(p[i - 1], ranked[i], t) ELSE p[i - 1]
  IN  p[Len(ranked)]

Attacker(a, c) ==
  IF a = <<>> \/ c = <<>> THEN WithAll(WithAll(<<>>, a, "A", FALSE), c, "C", FALSE)
  ELSE LET two   == WithFirst(With(<<>>, a[1], "A"), c, "C")
           three == WithFirst(two, Tail(a), "A")
       IN  IF three # two THEN three ELSE WithFirst(two, Tail(c), "C")

Balanced(a, b, c, banned) ==
  WithFirst(WithFirst(WithFirst(<<>>, a, "A"),
                      Only(b, {s \in Species : ~ Banned(s, banned)}), "B"), c, "C")

\* First those who bring something new.  The second pass of the code asks for
\* that as well, and for more, so that nothing is left for it.
Support(b, banned) ==
  LET free == Only(b, {s \in Species : ~ Banned(s, banned)})
  IN  WithAll(WithAll(<<>>, free, "B", TRUE), free, "B", FALSE)

Selected(pool, f, b) ==
  CASE f = "attacker" -> Attacker(Ranked(pool, "A"), Ranked(pool, "C"))
    [] f = "support"  -> Support(Ranked(pool, "B"), b)
    [] f = "balanced" ->
         Balanced(Ranked(pool, "A"), Ranked(pool, "B"), Ranked(pool, "C"), b)

\* An empty selection is the screen "No more candidates for this slot."
Slate(f, g, b, l) ==
  LET pool == UNION {Cut(Eligible(g, l), t, f) : t \in Tracks}
  IN  IF pool = {} THEN Proposal
      ELSE [kind |-> "candidate_selection", options |-> Selected(pool, f, b)]

\* The user is asked for a focus when it would change the ranking.
Discover ==
  /\ IF focus' = "none"
     THEN screen' \in {Prompt, Slate("balanced", gone', bans', locked')}
     ELSE screen' = Slate(focus', gone', bans', locked')
  /\ order' \in Orders

----------------------------------------------------------------------------
Init == /\ kit \in Finds /\ order \in Orders
        /\ focus = "none" /\ gone = {} /\ bans = {} /\ locked = {}
        /\ screen = NoScreen

Continue ==
  /\ screen.kind \in {"none", "proposal"}
  /\ UNCHANGED <<kit, focus, gone, bans, locked>> /\ Discover

AnswerFocus ==
  /\ screen = Prompt
  /\ focus' \in Focuses
  /\ UNCHANGED <<kit, gone, bans, locked>> /\ Discover

Choosing == screen.kind = "candidate_selection"
Shown == {screen.options[i].species : i \in DOMAIN screen.options}

Refocus ==
  /\ Choosing /\ focus' = "none" /\ screen' = Prompt
  /\ UNCHANGED <<kit, order, gone, bans, locked>>

\* "reject 2" or the name of any species.
Reject(s) ==
  /\ Choosing /\ gone' = gone \union {Lineage[s]}
  /\ UNCHANGED <<kit, focus, bans, locked>> /\ Discover

\* "reject 2, no screens"
RejectBecause(s, n) ==
  /\ Choosing /\ s \in Shown
  /\ gone' = gone \union {Lineage[s]} /\ bans' = bans \union {n}
  /\ UNCHANGED <<kit, focus, locked>> /\ Discover

\* "no more trick room"
RejectNeed(n) ==
  /\ Choosing /\ bans' = bans \union {n}
  /\ UNCHANGED <<kit, focus, gone, locked>> /\ Discover

Choose(s) ==
  /\ Choosing /\ s \in Shown /\ Cardinality(locked) < MaxLocked
  /\ locked' = locked \union {Lineage[s]} /\ screen' = NoScreen
  /\ UNCHANGED <<kit, order, focus, gone, bans>>

Defer ==
  /\ Choosing /\ screen' = NoScreen
  /\ UNCHANGED <<kit, order, focus, gone, bans, locked>>

Next == \/ Continue \/ AnswerFocus \/ Refocus \/ Defer
        \/ \E s \in Species : Reject(s) \/ Choose(s) \/ \E n \in Needs : RejectBecause(s, n)
        \/ \E n \in Needs : RejectNeed(n)

Spec == Init /\ [][Next]_vars

----------------------------------------------------------------------------
(* Properties. *)

TypeOK ==
  /\ kit \in Finds /\ order \in Orders
  /\ focus \in Focuses \union {"none"}
  /\ gone \subseteq Range(Lineage) /\ locked \subseteq Range(Lineage) /\ bans \subseteq Needs
  /\ screen.kind \in {"none", "completion_preference", "proposal", "candidate_selection"}
  /\ screen.options \in Seq([species : Species, track : Tracks])
  /\ Len(screen.options) <= MaxShown

\* However often the user rejects, bans, chooses and changes the focus: no two
\* options are of one family, none of a rejected or a locked one.
OptionsAreApart ==
  /\ \A s \in Shown : Lineage[s] \notin gone \union locked
  /\ \A i, j \in DOMAIN screen.options :
       Lineage[screen.options[i].species] = Lineage[screen.options[j].species] => i = j

\* A need the user has banned is not what an option is offered for, whatever
\* the focus: its tiers do not hide it.
BansHold ==
  \A i \in DOMAIN screen.options : screen.options[i].track = "B" =>
    LET s == screen.options[i].species
    IN  /\ (bans \ {TrickRoom}) \intersect kit[s].serves = {}
        /\ TrickRoom \in bans => kit[s].serves # {TrickRoom}

Supporting == focus = "support" /\ Choosing

\* Those support options that could still be added to the slate.
LeftOut ==
  {s \in Eligible(gone, locked) : /\ On("B", s) /\ Strong("B", s) /\ ~ Banned(s, bans)
                                  /\ Apart(s, screen.options)}

\* A support slate is short only when there is nobody else to offer.
SupportIsFull == Supporting /\ Len(screen.options) < MaxShown => LeftOut = {}

\* No support option repeats what the others bring while somebody who brings
\* something else is left out.
NewNeedsFirst ==
  Supporting =>
    \A i \in DOMAIN screen.options :
      kit[screen.options[i].species].tiered \subseteq Covered(SubSeq(screen.options, 1, i - 1))
        => \A s \in LeftOut : kit[s].tiered \subseteq Covered(screen.options)

----------------------------------------------------------------------------
(* What the source says of itself, and does not do. *)

\* "No more candidates for this slot." (slot_fill.py:1796).
NoMoreIsTrue ==
  (Choosing /\ screen.options = <<>>) =>
    \A s \in Eligible(gone, locked) :
      /\ focus # "support" => ~ On("A", s) /\ ~ (On("C", s) /\ Strong("C", s))
      /\ focus # "attacker" => ~ (On("B", s) /\ Strong("B", s) /\ ~ Banned(s, bans))

\* "Merge threat, anchored-need, and exact shared evidence by species ID."
\* (team_candidates.py:420): a species that benefits from a condition of the
\* team is a candidate for that, whatever else it serves.
EvidenceIsMerged ==
  (Choosing /\ focus = "attacker" /\ screen.options = <<>>) =>
    \A s \in Eligible(gone, locked) : kit[s].benefits # "strong"
=============================================================================
