--------------------------- MODULE Replies_proof ---------------------------
(***************************************************************************)
(* Proofs about what one reply goes through: the spread dialogue for every *)
(* budget, cap and set of offers, the intent for every record with any     *)
(* number of options and filled fields, the completion of a spread, with   *)
(* the numbers of the game, for every source and partial build, and the    *)
(* slate for any species, families, rankings and sizes.                    *)
(***************************************************************************)
EXTENDS MCReplies, FiniteSetTheorems, WellFoundedInduction, TLAPS

(***************************************************************************)
(* The invariant.  NamedStatsAreKept is not inductive: while the question  *)
(* which stat pays is pending, the named stats are right in the attempted  *)
(* spread and excluded from paying, and no named stat survives a question  *)
(* which stat was meant.  Nor is OneStatPays: a question is asked before   *)
(* any other stat has paid.                                                *)
(***************************************************************************)
NamedSoFar ==
    form = "partial" =>
        /\ Pending("full_build_confirmation") =>
              \A n \in asked : pending_presentation.shown[n[1]] = n[2]
        /\ Pending("spread_reallocation_question") =>
              \A n \in asked : /\ n[1] \in pending_presentation.excluded
                               /\ pending_presentation.attempted[n[1]] = n[2]
        /\ ~Pending("spread_target_question")

\* The stats that differ from the spread an edit was made on without having
\* been named.
Unnamed(s, names, from) == {t \in Stats : s[t] # from[t] /\ \A n \in names : n[1] # t}

PaidSoFar ==
    form # "none" =>
        /\ Pending("full_build_confirmation") =>
              \E t \in Stats : Unnamed(pending_presentation.shown, asked, base) \subseteq {t}
        /\ Pending("spread_reallocation_question") =>
              Unnamed(pending_presentation.attempted, asked, base) = {}

IInv == TypeOK /\ QuestionIsCurrent /\ NamedSoFar /\ PaidSoFar

Reallocations ==
    [kind : {"spread_reallocation_question"}, attempted : Spreads,
     diff : Int \ {0}, excluded : SUBSET Stats,
     held : Confirmations \cup TargetQuestions]

\* The sum of six integers is one.
LEMMA TotalType ==
    ASSUME NEW s \in [Stats -> Int]
    PROVE  Total(s) \in Int
BY SMT DEF Total, Stats

\* A spread in range is one of integers.
LEMMA SpreadsAreInts ==
    ASSUME NEW s \in Spreads
    PROVE  s \in [Stats -> Int]
BY SpreadAssumption, SMT DEF Spreads

\* A spread that passes the verification is legal.
LEMMA OnBudgetIsLegal ==
    ASSUME NEW s \in [Stats -> Int], OnBudget(s)
    PROVE  s \in LegalSpreads
<1>1. s \in Spreads
  BY SMT DEF OnBudget, StructurallyValid, Spreads
<1> QED
  BY <1>1 DEF OnBudget, LegalSpreads

\* Moving the difference onto one stat with room for it gives a legal spread
\* and changes no other stat.
LEMMA AdjustedIsLegal ==
    ASSUME NEW s \in Spreads, NEW t \in Stats,
           s[t] - (Total(s) - Budget) \in 0 .. Cap
    PROVE  /\ Adjusted(s, t, Total(s) - Budget) \in LegalSpreads
           /\ \A u \in Stats \ {t} : Adjusted(s, t, Total(s) - Budget)[u] = s[u]
<1> DEFINE d == Total(s) - Budget
           a == Adjusted(s, t, d)
<1>1. s \in [Stats -> Int]
  BY SpreadsAreInts
<1>2. d \in Int
  BY <1>1, TotalType, SpreadAssumption
<1>3. a = [u \in Stats |-> IF u = t THEN s[u] - d ELSE s[u]]
  <2>1. DOMAIN s = Stats
    BY <1>1
  <2> QED
    BY <2>1 DEF Adjusted
<1>4. a \in Spreads
  BY <1>1, <1>2, <1>3, SpreadAssumption, SMT DEF Spreads
<1>5. Total(a) = Total(s) - d
  <2>1. \A u \in Stats : s[u] \in Int /\ a[u] = IF u = t THEN s[u] - d ELSE s[u]
    BY <1>1, <1>3
  <2> HIDE DEF a, d
  <2> QED
    BY <1>2, <2>1, SMT DEF Total, Stats
<1>6. Total(a) = Budget
  BY <1>1, <1>5, TotalType, SpreadAssumption
<1> QED
  BY <1>3, <1>4, <1>6 DEF LegalSpreads

\* A legal spread on screen, with the named stats in it, keeps the invariant.
LEMMA EmitKeeps ==
    ASSUME NEW s \in LegalSpreads, Emit(s),
           asked' \in SUBSET (Stats \X Int), form' \in {"partial", "full", "none"},
           base' \in [Stats -> Int],
           form' = "partial" => \A n \in asked' : s[n[1]] = n[2],
           form' # "none" => \E t \in Stats : Unnamed(s, asked', base') \subseteq {t}
    PROVE  IInv'
<1>1. pending_presentation' = Confirmation(s)
  BY DEF Emit
<1>2. pending_presentation' \in Confirmations
  BY <1>1 DEF Confirmation, Confirmations
<1>3. TypeOK'
  BY <1>2 DEF TypeOK, Emit, LegalSpreads
<1>4. QuestionIsCurrent'
  BY <1>1 DEF QuestionIsCurrent, Pending, Confirmation
<1>5. NamedSoFar'
  BY <1>1 DEF NamedSoFar, Pending, Confirmation
<1>6. PaidSoFar'
  BY <1>1 DEF PaidSoFar, Pending, Confirmation
<1> QED
  BY <1>3, <1>4, <1>5, <1>6 DEF IInv

\* A refusal keeps the invariant.
LEMMA RefuseKeeps ==
    ASSUME IInv, Refuse
    PROVE  IInv'
BY DEF IInv, TypeOK, QuestionIsCurrent, NamedSoFar, PaidSoFar, Pending, Refuse

\* Whatever an edited spread leads to keeps the invariant, if the named stats
\* are right in it and protected, and no other stat has changed yet.
LEMMA VerifyKeeps ==
    ASSUME IInv, NEW s \in [Stats -> Int], NEW fits \in BOOLEAN,
           NEW excluded \in SUBSET Stats, NEW edited \in BOOLEAN,
           NEW names \in SUBSET (Stats \X Int),
           NEW how \in {"partial", "full", "none"}, NEW from \in [Stats -> Int],
           pending_presentation \in Confirmations \cup TargetQuestions,
           how = "partial" =>
               \A n \in names : n[1] \in excluded /\ s[n[1]] = n[2],
           how # "none" => Unnamed(s, names, from) = {},
           VerifyAndShow(s, fits, excluded, edited, names, how, from)
    PROVE  IInv'
<1> DEFINE d == Total(s) - Budget
<1>1. CASE OnBudget(s) /\ Emit(s) /\ Remember(names, how, from)
  <2>1. how # "none" => \E t \in Stats : Unnamed(s, names, from) \subseteq {t}
    BY DEF Stats
  <2> QED
    BY <1>1, <2>1, OnBudgetIsLegal, EmitKeeps DEF Remember
<1>2. CASE /\ StructurallyValid(s) /\ ~OnBudget(s)
           /\ HandleMismatch(s, fits, excluded)
           /\ Remember(names, how, from)
  <2>1. s \in Spreads
    BY <1>2, SMT DEF StructurallyValid, Spreads
  <2>2. d \in Int \ {0}
    BY <1>2, TotalType, SpreadAssumption DEF OnBudget
  <2>3. CASE \E t \in AutoStats(s, d, excluded) : Emit(Adjusted(s, t, d))
    <3>1. PICK t \in AutoStats(s, d, excluded) : Emit(Adjusted(s, t, d))
      BY <2>3
    <3>2. t \in Stats \ excluded /\ s[t] - d \in 0 .. Cap
      BY DEF AutoStats, WithRoom
    <3>3. /\ Adjusted(s, t, d) \in LegalSpreads
          /\ \A u \in Stats \ {t} : Adjusted(s, t, d)[u] = s[u]
      BY <2>1, <3>2, AdjustedIsLegal
    <3>4. form' = "partial" => \A n \in asked' : Adjusted(s, t, d)[n[1]] = n[2]
      BY <1>2, <3>2, <3>3 DEF Remember
    <3>5. form' # "none" => Unnamed(Adjusted(s, t, d), asked', base') \subseteq {t}
      BY <1>2, <3>3 DEF Remember, Unnamed
    <3> HIDE DEF d
    <3> QED
      BY <1>2, <3>1, <3>2, <3>3, <3>4, <3>5, EmitKeeps DEF Remember
  <2>4. CASE Ask(ReallocationQuestion(s, excluded, pending_presentation), s, fits)
    <3> DEFINE q == ReallocationQuestion(s, excluded, pending_presentation)
    <3>1. pending_presentation' = q /\ spread' = s /\ kit_ok' = fits
          /\ slot_commit_error' = FALSE
      BY <2>4 DEF Ask
    <3>2. q \in Reallocations
      BY <2>1, <2>2 DEF ReallocationQuestion, Reallocations
    <3>3. TypeOK'
      BY <1>2, <2>1, <3>1, <3>2 DEF TypeOK, Remember, Reallocations
    <3>4. QuestionIsCurrent'
      BY <3>1 DEF QuestionIsCurrent, ReallocationQuestion
    <3>5. NamedSoFar'
      BY <1>2, <3>1 DEF NamedSoFar, Pending, ReallocationQuestion, Remember
    <3>6. PaidSoFar'
      BY <1>2, <3>1 DEF PaidSoFar, Pending, ReallocationQuestion, Remember
    <3> QED
      BY <3>3, <3>4, <3>5, <3>6 DEF IInv
  <2> QED
    BY <1>2, <2>3, <2>4 DEF HandleMismatch
<1>3. CASE Refuse
  BY <1>3, RefuseKeeps
<1> QED
  BY <1>1, <1>2, <1>3 DEF VerifyAndShow

\* An edit of the stats in T.
Edited(from, T, s) == s \in [Stats -> Int] /\ \A t \in Stats \ T : s[t] = from[t]

\* A partial spread applied to integers gives integers, and changes the stats
\* it names only.
LEMMA PartialType ==
    ASSUME NEW s \in [Stats -> Int], NEW T \in SUBSET Stats
    PROVE  /\ \A v \in [T -> Values] :
                 Edited(s, T, ApplyPartialSpread(s, v, Nothing))
           /\ \A v \in [T -> Deltas] :
                 Edited(s, T, ApplyPartialSpread(s, Nothing, v))
<1>1. DOMAIN Nothing = {}
  BY DEF Nothing
<1>2. ASSUME NEW v \in [T -> Values]
      PROVE  Edited(s, T, ApplyPartialSpread(s, v, Nothing))
  <2>1. DOMAIN v = T /\ \A t \in T : v[t] \in Int
    BY SpreadAssumption
  <2>2. ASSUME NEW t \in Stats
        PROVE  (IF t \in DOMAIN v THEN v[t] ELSE s[t])
               + (IF t \in DOMAIN Nothing THEN Nothing[t] ELSE 0) \in Int
    BY <1>1, <2>1
  <2> QED
    BY <1>1, <2>1, <2>2 DEF ApplyPartialSpread, Edited
<1>3. ASSUME NEW v \in [T -> Deltas]
      PROVE  Edited(s, T, ApplyPartialSpread(s, Nothing, v))
  <2>1. DOMAIN v = T /\ \A t \in T : v[t] \in Int
    BY SpreadAssumption
  <2>2. ASSUME NEW t \in Stats
        PROVE  (IF t \in DOMAIN Nothing THEN Nothing[t] ELSE s[t])
               + (IF t \in DOMAIN v THEN v[t] ELSE 0) \in Int
    BY <1>1, <2>1
  <2> QED
    BY <1>1, <2>1, <2>2 DEF ApplyPartialSpread, Edited
<1> QED
  BY <1>2, <1>3

\* The stats an edit names, with their values, are pairs of the right type,
\* and no other stat has changed.
LEMMA NamedType ==
    ASSUME NEW from, NEW T \in SUBSET Stats, NEW s, Edited(from, T, s)
    PROVE  /\ Named(s, T) \in SUBSET (Stats \X Int)
           /\ \A n \in Named(s, T) : n[1] \in T /\ s[n[1]] = n[2]
           /\ Unnamed(s, Named(s, T), from) = {}
<1>1. s \in [Stats -> Int] /\ \A t \in Stats \ T : s[t] = from[t]
  BY DEF Edited
<1>2. \A t \in T : <<t, s[t]>> \in Named(s, T) /\ <<t, s[t]>>[1] = t
  BY DEF Named
<1>3. Unnamed(s, Named(s, T), from) = {}
  BY <1>1, <1>2 DEF Unnamed
<1> QED
  BY <1>1, <1>3 DEF Named

\* What is on offer is legal.
LEMMA OfferedIsLegal ==
    Offered \subseteq LegalSpreads
BY SpreadAssumption DEF LegalSpreads, Spreads

\* A confirmation on screen is one of the screens an edit may start from.
LEMMA ScreenKinds ==
    ASSUME TypeOK
    PROVE  /\ spread \in [Stats -> Int]
           /\ Pending("full_build_confirmation") => pending_presentation \in Confirmations
           /\ Pending("spread_target_question") => pending_presentation \in TargetQuestions
           /\ Pending("spread_reallocation_question") => pending_presentation \in Reallocations
BY SpreadsAreInts DEF TypeOK, Pending, Confirmations, TargetQuestions, Reallocations

-----------------------------------------------------------------------------
(* One lemma per node.                                                     *)

LEMMA EditPartialKeeps ==
    ASSUME IInv, EditPartial
    PROVE  IInv'
<1>1. PICK T \in SomeStats :
        \E s \in {ApplyPartialSpread(spread, v, Nothing) : v \in [T -> Values]}
                 \cup {ApplyPartialSpread(spread, Nothing, v) : v \in [T -> Deltas]} :
            VerifyAndShow(s, kit_ok, T, TRUE, Named(s, T), "partial", spread)
  BY DEF EditPartial
<1>2. T \in SUBSET Stats
  BY SpreadAssumption DEF SomeStats
<1>3. /\ TypeOK
      /\ spread \in [Stats -> Int]
      /\ pending_presentation \in Confirmations \cup TargetQuestions
  BY ScreenKinds DEF EditPartial, IInv
<1>4. PICK s : /\ Edited(spread, T, s)
               /\ VerifyAndShow(s, kit_ok, T, TRUE, Named(s, T), "partial", spread)
  BY <1>1, <1>2, <1>3, PartialType
<1>5. s \in [Stats -> Int] /\ kit_ok \in BOOLEAN
  BY <1>3, <1>4 DEF Edited, TypeOK
<1>6. /\ Named(s, T) \in SUBSET (Stats \X Int)
      /\ \A n \in Named(s, T) : n[1] \in T /\ s[n[1]] = n[2]
      /\ Unnamed(s, Named(s, T), spread) = {}
  BY <1>2, <1>4, NamedType
<1> QED
  BY <1>2, <1>3, <1>4, <1>5, <1>6, VerifyKeeps

\* A set of stats with at most one member has no two.
LEMMA AtMostOne ==
    ASSUME NEW D \in SUBSET Stats, Cardinality(D) <= 1, NEW x \in D, NEW y \in D
    PROVE  x = y
<1>1. IsFiniteSet(Stats)
  <2>1. Stats = {"hp"} \cup {"atk"} \cup {"def"} \cup {"spa"} \cup {"spd"} \cup {"spe"}
    BY DEF Stats
  <2> QED
    BY <2>1, FS_Singleton, FS_Union
<1>2. IsFiniteSet(D)
  BY <1>1, FS_Subset
<1>3. SUFFICES ASSUME x # y PROVE FALSE
  OBVIOUS
<1>4. Cardinality({x}) = 1 /\ IsFiniteSet({x})
  BY FS_Singleton
<1>5. Cardinality({x, y}) = 2 /\ {x, y} = {x} \cup {y}
  BY <1>3, <1>4, FS_AddElement
<1>6. {x, y} \subseteq D
  OBVIOUS
<1>7. Cardinality({x, y}) <= Cardinality(D)
  BY <1>2, <1>6, FS_Subset
<1>8. Cardinality(D) \in Nat
  BY <1>2, FS_CardinalityType
<1> QED
  BY <1>5, <1>7, <1>8

\* A full spread that differs in one stat at most has no two swapped: the stat
\* that differs is the one that was named.
LEMMA TrustworthyNamesAll ==
    ASSUME spread \in [Stats -> Int], NEW t \in Stats, NEW v \in Int,
           NEW s \in FullSpreads(t, v), Trustworthy(s)
    PROVE  Unnamed(s, {<<t, v>>}, spread) = {}
<1> DEFINE D == {u \in Stats : s[u] # spread[u]}
<1>1. PICK a \in Nameable \ {t}, b \in Nameable \ {t} :
        s = [spread EXCEPT ![t] = v, ![a] = spread[b], ![b] = spread[a]]
  BY DEF FullSpreads
<1>2. a \in Stats /\ b \in Stats
  BY SpreadAssumption
<1>3. Cardinality(D) <= 1
  BY DEF Trustworthy
<1>4. s[a] = spread[b] /\ s[b] = spread[a] /\ \A u \in Stats \ {t, a, b} : s[u] = spread[u]
  BY <1>1, <1>2
<1>5. spread[a] = spread[b]
  <2> SUFFICES ASSUME spread[a] # spread[b] PROVE FALSE
    OBVIOUS
  <2>1. a \in D /\ b \in D
    BY <1>2, <1>4
  <2> HIDE DEF D
  <2>2. D \in SUBSET Stats
    BY DEF D
  <2> QED
    BY <1>3, <2>1, <2>2, AtMostOne
<1>6. \A u \in Stats \ {t} : s[u] = spread[u]
  BY <1>4, <1>5
<1> QED
  BY <1>6 DEF Unnamed

LEMMA EditFullKeeps ==
    ASSUME IInv, EditFull
    PROVE  IInv'
<1>0. PICK t \in Nameable, v \in Values : \E s \in FullSpreads(t, v) :
        IF Trustworthy(s)
        THEN VerifyAndShow(s, kit_ok, {}, TRUE, {<<t, v>>}, "full", spread)
        ELSE /\ Ask(TargetQuestion(pending_presentation), spread, kit_ok)
             /\ Remember({}, "none", spread)
  BY DEF EditFull
<1>1. PICK s \in FullSpreads(t, v) :
        IF Trustworthy(s)
        THEN VerifyAndShow(s, kit_ok, {}, TRUE, {<<t, v>>}, "full", spread)
        ELSE /\ Ask(TargetQuestion(pending_presentation), spread, kit_ok)
             /\ Remember({}, "none", spread)
  BY <1>0
<1>2. t \in Stats /\ v \in Int
  BY SpreadAssumption
<1>3. /\ TypeOK
      /\ spread \in [Stats -> Int]
      /\ pending_presentation \in Confirmations
  BY ScreenKinds DEF EditFull, IInv
<1>4. s \in [Stats -> Int]
  <2>1. PICK a \in Nameable \ {t}, b \in Nameable \ {t} :
          s = [spread EXCEPT ![t] = v, ![a] = spread[b], ![b] = spread[a]]
    BY DEF FullSpreads
  <2>2. a \in Stats /\ b \in Stats
    BY SpreadAssumption
  <2> QED
    BY <1>2, <1>3, <2>1, <2>2
<1>5. CASE Trustworthy(s) /\ VerifyAndShow(s, kit_ok, {}, TRUE, {<<t, v>>}, "full", spread)
  <2>3. Unnamed(s, {<<t, v>>}, spread) = {}
    BY <1>1, <1>2, <1>3, <1>5, TrustworthyNamesAll
  <2>1. {<<t, v>>} \in SUBSET (Stats \X Int) /\ {} \in SUBSET Stats
    BY <1>2
  <2>2. kit_ok \in BOOLEAN
    BY <1>3 DEF TypeOK
  <2> QED
    BY <1>3, <1>4, <1>5, <2>1, <2>2, <2>3, VerifyKeeps
<1>6. CASE /\ Ask(TargetQuestion(pending_presentation), spread, kit_ok)
           /\ Remember({}, "none", spread)
  <2>1. pending_presentation' = TargetQuestion(pending_presentation)
    BY <1>6 DEF Ask
  <2>2. pending_presentation' \in TargetQuestions
    BY <1>3, <2>1 DEF TargetQuestion, TargetQuestions
  <2>3. TypeOK'
    BY <1>3, <1>6, <2>2 DEF TypeOK, Ask, Remember
  <2>4. QuestionIsCurrent' /\ NamedSoFar' /\ PaidSoFar'
    BY <1>6, <2>1 DEF QuestionIsCurrent, NamedSoFar, PaidSoFar, Pending, TargetQuestion,
                      Remember
  <2> QED
    BY <2>3, <2>4 DEF IInv
<1> QED
  BY <1>1, <1>5, <1>6

LEMMA RegenerateKeeps ==
    ASSUME IInv, Regenerate
    PROVE  IInv'
<1>1. PICK o \in Offered, t \in Nameable, v \in Values, fits \in BOOLEAN :
        VerifyAndShow([o EXCEPT ![t] = v], fits, {}, TRUE, {}, "full",
                      [o EXCEPT ![t] = v])
  BY DEF Regenerate
<1>2. o \in [Stats -> Int] /\ v \in Int
  BY OfferedIsLegal, SpreadsAreInts, SpreadAssumption DEF LegalSpreads
<1>3. [o EXCEPT ![t] = v] \in [Stats -> Int]
  BY <1>2
<1>4. pending_presentation \in Confirmations
  BY ScreenKinds DEF Regenerate, IInv
<1>5. Unnamed([o EXCEPT ![t] = v], {}, [o EXCEPT ![t] = v]) = {}
  BY DEF Unnamed
<1> QED
  BY <1>1, <1>3, <1>4, <1>5, VerifyKeeps

LEMMA EditOtherKeeps ==
    ASSUME IInv, EditOther
    PROVE  IInv'
<1>1. PICK fits \in BOOLEAN :
        VerifyAndShow(spread, fits, {}, FALSE, {}, "none", spread)
  BY DEF EditOther
<1>2. pending_presentation \in Confirmations /\ spread \in [Stats -> Int]
  BY ScreenKinds DEF EditOther, IInv
<1> QED
  BY <1>1, <1>2, VerifyKeeps

LEMMA SelectOptionKeeps ==
    ASSUME IInv, SelectOption
    PROVE  IInv'
<1>1. PICK o \in Offered \cup {spread}, T \in SomeStats \cup {{}}, fits \in BOOLEAN :
        \E s \in {ApplyPartialSpread(o, v, Nothing) : v \in [T -> Values]}
                 \cup {ApplyPartialSpread(o, Nothing, v) : v \in [T -> Deltas]} :
            VerifyAndShow(s, fits, T, T # {} \/ o # spread, Named(s, T), "partial", o)
  BY DEF SelectOption
<1>2. T \in SUBSET Stats
  BY SpreadAssumption DEF SomeStats
<1>3. pending_presentation \in Confirmations /\ spread \in [Stats -> Int]
  BY ScreenKinds DEF SelectOption, IInv
<1>4. o \in [Stats -> Int]
  BY <1>3, OfferedIsLegal, SpreadsAreInts DEF LegalSpreads
<1>5. PICK s : /\ Edited(o, T, s)
               /\ VerifyAndShow(s, fits, T, T # {} \/ o # spread, Named(s, T), "partial", o)
  BY <1>1, <1>2, <1>4, PartialType
<1>6. /\ s \in [Stats -> Int]
      /\ Named(s, T) \in SUBSET (Stats \X Int)
      /\ \A n \in Named(s, T) : n[1] \in T /\ s[n[1]] = n[2]
      /\ Unnamed(s, Named(s, T), o) = {}
  BY <1>2, <1>5, NamedType DEF Edited
<1>7. CASE T # {} \/ o # spread
  <2>1. VerifyAndShow(s, fits, T, TRUE, Named(s, T), "partial", o)
    BY <1>5, <1>7 DEF VerifyAndShow
  <2> QED
    BY <1>2, <1>3, <1>4, <1>6, <2>1, VerifyKeeps
<1>8. CASE ~(T # {} \/ o # spread)
  <2>1. VerifyAndShow(s, fits, T, FALSE, Named(s, T), "partial", o)
    BY <1>5, <1>8 DEF VerifyAndShow
  <2> QED
    BY <1>2, <1>3, <1>4, <1>6, <2>1, VerifyKeeps
<1> QED
  BY <1>7, <1>8

LEMMA AnswerTargetKeeps ==
    ASSUME IInv, AnswerTarget
    PROVE  IInv'
<1>1. PICK t \in Nameable :
        \E s \in {[spread EXCEPT ![t] = v] : v \in Values}
                 \cup {[spread EXCEPT ![t] = @ + v] : v \in Deltas} :
            VerifyAndShow(s, kit_ok, {t}, TRUE, Named(s, {t}), "partial", spread)
  BY DEF AnswerTarget
<1>2. {t} \in SUBSET Stats
  BY SpreadAssumption
<1>3. /\ TypeOK
      /\ spread \in [Stats -> Int]
      /\ pending_presentation \in TargetQuestions
  BY ScreenKinds DEF AnswerTarget, IInv
<1>4. PICK s : /\ Edited(spread, {t}, s)
               /\ VerifyAndShow(s, kit_ok, {t}, TRUE, Named(s, {t}), "partial", spread)
  <2>1. \A v \in Values : Edited(spread, {t}, [spread EXCEPT ![t] = v])
    BY <1>3, SpreadAssumption DEF Edited
  <2>2. \A v \in Deltas : Edited(spread, {t}, [spread EXCEPT ![t] = @ + v])
    BY <1>2, <1>3, SpreadAssumption DEF Edited
  <2> QED
    BY <1>1, <2>1, <2>2
<1>5. /\ Named(s, {t}) \in SUBSET (Stats \X Int)
      /\ \A n \in Named(s, {t}) : n[1] \in {t} /\ s[n[1]] = n[2]
      /\ Unnamed(s, Named(s, {t}), spread) = {}
  BY <1>2, <1>4, NamedType
<1>7. s \in [Stats -> Int]
  BY <1>4 DEF Edited
<1>6. kit_ok \in BOOLEAN
  BY <1>3 DEF TypeOK
<1> QED
  BY <1>2, <1>3, <1>4, <1>5, <1>6, <1>7, VerifyKeeps

LEMMA AnswerReallocationKeeps ==
    ASSUME IInv, AnswerReallocation
    PROVE  IInv'
<1> DEFINE d == Total(spread) - Budget
<1>1. /\ TypeOK
      /\ pending_presentation \in Reallocations
      /\ Pending("spread_reallocation_question")
      /\ pending_presentation.attempted = spread
      /\ pending_presentation.diff = d
  BY ScreenKinds DEF AnswerReallocation, IInv, QuestionIsCurrent
<1>2. PICK t \in Nameable \cap WithRoom(spread, d, pending_presentation.excluded) :
        IF OnBudget(Adjusted(spread, t, d)) /\ kit_ok
        THEN Emit(Adjusted(spread, t, d)) /\ UNCHANGED <<asked, form, base>>
        ELSE Refuse
  BY <1>1 DEF AnswerReallocation
<1>3. /\ t \in Stats \ pending_presentation.excluded
      /\ spread[t] - d \in 0 .. Cap
  BY <1>2 DEF WithRoom
<1>4. /\ Adjusted(spread, t, d) \in LegalSpreads
      /\ \A u \in Stats \ {t} : Adjusted(spread, t, d)[u] = spread[u]
  BY <1>1, <1>3, AdjustedIsLegal DEF TypeOK
<1> HIDE DEF d
<1>5. CASE Emit(Adjusted(spread, t, d)) /\ UNCHANGED <<asked, form, base>>
  <2>1. form' = "partial" => \A n \in asked' : Adjusted(spread, t, d)[n[1]] = n[2]
    <3> SUFFICES ASSUME form = "partial", NEW n \in asked
                 PROVE  Adjusted(spread, t, d)[n[1]] = n[2]
      BY <1>5
    <3>1. n[1] \in pending_presentation.excluded /\ spread[n[1]] = n[2]
      BY <1>1 DEF IInv, NamedSoFar
    <3>2. n[1] \in Stats
      BY <1>1 DEF TypeOK
    <3> QED
      BY <1>3, <1>4, <3>1, <3>2
  <2>2. form' # "none" => Unnamed(Adjusted(spread, t, d), asked', base') \subseteq {t}
    BY <1>1, <1>4, <1>5 DEF IInv, PaidSoFar, Unnamed
  <2> QED
    BY <1>1, <1>3, <1>4, <1>5, <2>1, <2>2, EmitKeeps DEF TypeOK
<1>6. CASE Refuse
  BY <1>6, RefuseKeeps
<1> QED
  BY <1>2, <1>5, <1>6

LEMMA DeferKeeps ==
    ASSUME IInv, Defer
    PROVE  IInv'
<1>1. /\ pending_presentation' = pending_presentation.held
      /\ Remember({}, "none", spread)
      /\ UNCHANGED <<spread, kit_ok, slot_commit_error>>
  BY DEF Defer
<1>2. TypeOK /\ spread \in [Stats -> Int]
  BY ScreenKinds DEF IInv
<1>3. pending_presentation \in TargetQuestions \cup Reallocations
  BY ScreenKinds DEF Defer, IInv
<1>4. pending_presentation' \in Confirmations \cup TargetQuestions
  BY <1>1, <1>3 DEF TargetQuestions, Reallocations
<1>5. TypeOK'
  BY <1>1, <1>2, <1>4 DEF TypeOK, Remember
<1>6. QuestionIsCurrent'
  BY <1>4 DEF QuestionIsCurrent, Pending, Confirmations, TargetQuestions
<1>7. NamedSoFar' /\ PaidSoFar'
  BY <1>1 DEF NamedSoFar, PaidSoFar, Remember
<1> QED
  BY <1>5, <1>6, <1>7 DEF IInv

LEMMA CommitKeeps ==
    ASSUME IInv, Commit
    PROVE  IInv'
<1>1. CASE \E o \in Offered : Emit(o) /\ Remember({}, "none", o)
  <2>1. PICK o \in Offered : Emit(o) /\ Remember({}, "none", o)
    BY <1>1
  <2>2. o \in LegalSpreads /\ o \in [Stats -> Int]
    BY OfferedIsLegal, SpreadsAreInts DEF LegalSpreads
  <2> QED
    BY <2>1, <2>2, EmitKeeps DEF Remember
<1>2. CASE Refuse
  BY <1>2, RefuseKeeps
<1> QED
  BY <1>1, <1>2 DEF Commit

-----------------------------------------------------------------------------
(* The theorems.                                                           *)

LEMMA InitIInv == Init => IInv
<1> SUFFICES ASSUME Init PROVE IInv
  OBVIOUS
<1>1. spread \in LegalSpreads /\ spread \in [Stats -> Int]
  BY OfferedIsLegal, SpreadsAreInts DEF Init, LegalSpreads
<1>2. pending_presentation \in Confirmations
  BY <1>1 DEF Init, Confirmation, Confirmations
<1>3. TypeOK
  BY <1>1, <1>2 DEF Init, TypeOK, LegalSpreads
<1>4. QuestionIsCurrent /\ NamedSoFar /\ PaidSoFar
  BY <1>2 DEF Init, QuestionIsCurrent, NamedSoFar, PaidSoFar, Pending, Confirmations
<1> QED
  BY <1>3, <1>4 DEF IInv

LEMMA NextKeepsIInv == IInv /\ [Next]_vars => IInv'
<1> SUFFICES ASSUME IInv, [Next]_vars PROVE IInv'
  OBVIOUS
<1>1. CASE UNCHANGED vars
  BY <1>1 DEF IInv, TypeOK, QuestionIsCurrent, NamedSoFar, PaidSoFar, Pending, vars
<1>2. CASE Next
  BY <1>2, EditPartialKeeps, EditFullKeeps, RegenerateKeeps, EditOtherKeeps,
     SelectOptionKeeps, AnswerTargetKeeps, AnswerReallocationKeeps, DeferKeeps,
     CommitKeeps DEF Next
<1> QED
  BY <1>1, <1>2

\* The invariant holds in every reachable state.
THEOREM Invariance == Spec => []IInv
BY InitIInv, NextKeepsIInv, PTL DEF Spec

\* Every confirmation the user can be shown, now or after "defer", has a
\* spread in range and on the budget, and the question which stat pays is
\* about the build its answer will change.
THEOREM DialogueStaysSound == Spec => []DialogueIsSound
<1>1. IInv => DialogueIsSound
  BY DEF IInv, DialogueIsSound
<1> QED
  BY <1>1, Invariance, PTL

\* An edit ends as it was asked for, at the cost of one other stat: neither the
\* correction nor an answer takes a named stat back or spends a second one
\* (_auto_reallocate_spread, resolve_spread_reallocation).
THEOREM EditsStayKept == Spec => []EditsAreKept
<1>1. ASSUME IInv
      PROVE  NamedStatsAreKept
  BY <1>1 DEF IInv, NamedSoFar, NamedStatsAreKept
<1>2. ASSUME IInv
      PROVE  OneStatPays
  <2> SUFFICES ASSUME Pending("full_build_confirmation"), form # "none"
               PROVE  Cardinality(Unnamed(pending_presentation.shown, asked, base)) <= 1
    BY DEF OneStatPays, Unnamed
  <2>1. PICK t \in Stats : Unnamed(pending_presentation.shown, asked, base) \subseteq {t}
    BY <1>2 DEF IInv, PaidSoFar
  <2>2. IsFiniteSet({t}) /\ Cardinality({t}) = 1
    BY FS_Singleton
  <2> QED
    BY <2>1, <2>2, FS_Subset
<1>3. IInv => EditsAreKept
  BY <1>1, <1>2 DEF EditsAreKept
<1> QED
  BY <1>3, Invariance, PTL

-----------------------------------------------------------------------------
(* From a reply to its intent (IntentResolution).  A turn is at most two   *)
(* steps, so the invariant says what the result was made of; the rest is   *)
(* what the repairs and the payloads do to a record the schema accepts.    *)

Extracted(x) ==
    /\ x \in Intent!Records /\ Intent!Accepted(x)
    /\ x.intent \in Intent!Edits => x.scope # "none"

IntentInv ==
    /\ said \in Intent!Texts /\ screen \in Intent!Screens
    /\ answer \in {Intent!NoAnswer, Intent!Unparsed, Intent!Late} \/ Extracted(answer)
    /\ \/ result = Intent!NoResult
       \/ answer \in {Intent!Unparsed, Intent!Late}
             /\ (result = Intent!Question \/ result = Intent!Recovered(said, screen))
       \/ Extracted(answer) /\ result = Intent!Resolved(Intent!Repaired(answer, said), said)

Shapes == [intent : Intent!Intents, options : Nat, field : Intent!Fields \union {"none"},
           text : {"none", "empty", "value"}, filled : SUBSET Intent!Slots,
           scope : Intent!Scopes \union {"none"}]

LEMMA RecordFacts ==
    ASSUME NEW x \in Intent!Records
    PROVE  /\ x \in Shapes
           /\ x.intent \in Intent!Intents /\ x.options \in Nat /\ x.options <= MaxOptions
           /\ x.field \in Intent!Fields \union {"none"} /\ x.text \in {"none", "empty", "value"}
           /\ x.filled \subseteq Intent!Slots /\ x.scope \in Intent!Scopes \union {"none"}
BY RepliesAssumption DEF Intent!Records, Intent!BoundsAssumption, Shapes

\* What the repairs leave: an edit that was accepted stays one, and what was
\* edit-shaped does too.
LEMMA RepairedFacts ==
    ASSUME NEW x, Extracted(x), NEW t \in Intent!Texts
    PROVE  LET r == Intent!Repaired(x, t)
           IN /\ r \in Shapes
              /\ r.intent = x.intent /\ r.options = x.options /\ r.scope = x.scope
              /\ r.field \in Intent!Fields \union {"none"} /\ r.text \in {"none", "empty", "value"}
              /\ r.filled \subseteq Intent!Slots
              /\ Intent!Accepted(r)
              /\ Intent!EditSignal(x) \/ (x.options > 0 /\ t.named # "none") => Intent!EditSignal(r)
              /\ r.field = "spread" /\ r.intent \in Intent!Edits /\ t.stat # "none" =>
                    r.filled \intersect Intent!Partial # {}
<1> DEFINE s == Intent!ReadStat(x, t)
           r == Intent!ReadField(s, t)
<1>1. /\ x.intent \in Intent!Intents /\ x.options \in Nat
      /\ x.field \in Intent!Fields \union {"none"} /\ x.text \in {"none", "empty", "value"}
      /\ x.filled \subseteq Intent!Slots /\ Intent!Accepted(x)
    BY RecordFacts DEF Extracted
<1>2. t.stat \in {"none"} \union Intent!Partial
      /\ t.named \in {"none", "item", "itemless", "nature"}
    BY DEF Intent!Texts
<1>3. /\ s.intent = x.intent /\ s.options = x.options /\ s.scope = x.scope
      /\ s.field = x.field /\ s.text = x.text
      /\ s.filled = IF x.field = "spread" /\ "full" \in x.filled
                       /\ x.filled \intersect Intent!Partial = {} /\ t.stat # "none"
                    THEN (x.filled \ {"full"}) \union {t.stat} ELSE x.filled
    BY RecordFacts DEF Intent!ReadStat, Extracted, Shapes
<1> DEFINE reads == /\ x.options > 0 /\ x.field = "none" /\ x.text # "value" /\ s.filled = {}
                    /\ t.named # "none"
<1>4. /\ r \in Shapes
      /\ r.intent = x.intent /\ r.options = x.options /\ r.scope = x.scope
      /\ r.filled = s.filled
      /\ r.field = IF reads THEN IF t.named = "itemless" THEN "item" ELSE t.named ELSE x.field
      /\ r.text = IF reads THEN IF t.named = "itemless" THEN "empty" ELSE "value" ELSE x.text
    <2>1. s \in Shapes
        <3>1. x \in Shapes
            BY RecordFacts DEF Extracted
        <3>2. CASE s = x
            BY <3>1, <3>2
        <3>3. CASE s = [x EXCEPT !.filled = (x.filled \ {"full"}) \union {t.stat}] /\ t.stat # "none"
            <4>1. (x.filled \ {"full"}) \union {t.stat} \subseteq Intent!Slots
                BY <1>1, <1>2, <3>3 DEF Intent!Slots, Intent!Partial
            <4> HIDE DEF s
            <4> QED BY <3>1, <3>3, <4>1 DEF Shapes
        <3> QED BY <3>2, <3>3 DEF Intent!ReadStat
    <2>2. s.options > 0 /\ s.field = "none" /\ s.text # "value" /\ s.filled = {}
              /\ t.named # "none" <=> reads
        BY <1>3
    <2> HIDE DEF s
    <2>3. CASE reads
        <3>1. r = [s EXCEPT !.field = IF t.named = "itemless" THEN "item" ELSE t.named,
                            !.text = IF t.named = "itemless" THEN "empty" ELSE "value"]
            BY <2>2, <2>3 DEF Intent!ReadField
        <3>2. /\ r.intent = s.intent /\ r.options = s.options /\ r.scope = s.scope
              /\ r.filled = s.filled
            BY <2>1, <3>1 DEF Shapes
        <3>3. r.field = IF t.named = "itemless" THEN "item" ELSE t.named
            BY <2>1, <3>1 DEF Shapes
        <3>4. r.text = IF t.named = "itemless" THEN "empty" ELSE "value"
            BY <2>1, <3>1 DEF Shapes
        <3>5. r \in Shapes
            BY <1>2, <2>1, <3>1 DEF Shapes, Intent!Fields
        <3> QED BY <1>3, <2>3, <3>2, <3>3, <3>4, <3>5
    <2>4. CASE ~ reads
        <3>1. r = s
            BY <2>2, <2>4 DEF Intent!ReadField
        <3> QED BY <1>3, <2>1, <2>4, <3>1
    <2> QED BY <2>3, <2>4
<1>5. s.filled \subseteq Intent!Slots
    BY <1>1, <1>2, <1>3 DEF Intent!Slots, Intent!Partial
<1>6. r.field \in Intent!Fields \union {"none"} /\ r.text \in {"none", "empty", "value"}
    BY <1>1, <1>2, <1>4 DEF Intent!Fields
<1>7. x.intent \in Intent!Edits => x.field \in Intent!Fields /\ Intent!SlotOk(x)
    BY <1>1 DEF Intent!Accepted, Intent!SlotOk, Intent!Fields
<1>8. x.intent \in Intent!Edits => r.field = x.field /\ r.text = x.text
    BY <1>4, <1>7 DEF Intent!Fields
<1> HIDE DEF r, s
<1>9. x.intent \in Intent!Edits => Intent!SlotOk(r)
    <2> SUFFICES ASSUME x.intent \in Intent!Edits PROVE Intent!SlotOk(r)
        OBVIOUS
    <2>1. CASE x.field # "spread"
        BY <1>3, <1>4, <1>7, <1>8, <2>1 DEF Intent!SlotOk, Intent!Fields
    <2>2. CASE x.field = "spread"
        <3>1. x.text = "none" /\ "moves" \notin x.filled /\ x.filled # {}
              /\ ~ (Intent!Partial \subseteq x.filled)
            BY <1>7, <2>2 DEF Intent!SlotOk
        <3>2. "moves" \notin s.filled /\ s.filled # {} /\ ~ (Intent!Partial \subseteq s.filled)
            BY <1>2, <1>3, <3>1 DEF Intent!Partial
        <3> QED BY <1>4, <1>8, <2>2, <3>1, <3>2 DEF Intent!SlotOk
    <2> QED BY <2>1, <2>2
<1>10. Intent!Accepted(r)
    BY <1>1, <1>4, <1>9 DEF Intent!Accepted
<1>11. Intent!EditSignal(x) \/ (x.options > 0 /\ t.named # "none") => Intent!EditSignal(r)
    <2>1. x.filled # {} => s.filled # {}
        BY <1>3
    <2>2. reads => r.field # "none"
        BY <1>2, <1>4
    <2>3. ~ reads => r.field = x.field /\ r.text = x.text
        BY <1>4
    <2> QED BY <1>1, <1>4, <2>1, <2>2, <2>3 DEF Intent!EditSignal
<1>12. r.field = "spread" /\ r.intent \in Intent!Edits /\ t.stat # "none" =>
           r.filled \intersect Intent!Partial # {}
    <2> SUFFICES ASSUME r.field = "spread", x.intent \in Intent!Edits, t.stat # "none"
                 PROVE  s.filled \intersect Intent!Partial # {}
        BY <1>4
    <2>1. x.field = "spread"
        BY <1>8
    <2>2. "moves" \notin x.filled /\ x.filled # {}
        BY <1>7, <2>1 DEF Intent!SlotOk
    <2>3. "full" \in x.filled \/ x.filled \intersect Intent!Partial # {}
        BY <1>1, <2>2 DEF Intent!Slots, Intent!Partial
    <2>4. t.stat \in Intent!Partial
        BY <1>2
    <2> QED BY <1>3, <2>1, <2>3, <2>4
<1>13. r = Intent!Repaired(x, t)
    BY DEF r, s, Intent!Repaired
<1> QED BY <1>4, <1>5, <1>6, <1>10, <1>11, <1>12, <1>13

\* A record as the shapes of a request are read from it, and what the intent and
\* the payload then owe to the answer it was repaired from.
Whole(r, t) ==
    /\ r \in Shapes /\ r.options <= MaxOptions /\ Intent!Accepted(r)
    /\ r.intent \in Intent!Edits => r.scope # "none"
    /\ r.field = "spread" /\ r.intent \in Intent!Edits /\ t.stat # "none" =>
          r.filled \intersect Intent!Partial # {}

Payloads == Intent!EditResults \union Intent!SelectResults \union Intent!CompareResults
                \union Intent!OtherResults

Valued(q) ==
    q \in Intent!EditResults =>
        /\ q.field = "item" => q.text # "none"
        /\ q.field = "nature" => q.text = "value"
        /\ q.field = "moves" => "moves" \in q.filled
        /\ q.field = "spread" => q.filled # {}

Honest(q, r, t) ==
    /\ q \in Payloads /\ Valued(q)
    /\ r.options > 0 /\ Intent!EditSignal(r) =>
          /\ q \notin Intent!CompareResults
          /\ q \in Intent!SelectResults => q.spread # {} \/ q.extra # "none"
    /\ r.options > 0 /\ q \in Intent!EditResults => ~ t.option
    /\ q \in Intent!EditResults /\ q.field = "spread" /\ t.stat # "none" =>
          q.filled \intersect Intent!Partial # {}

LEMMA QuestionIsHonest ==
    ASSUME NEW r, NEW t PROVE Honest(Intent!Question, r, t)
BY DEF Honest, Payloads, Valued, Intent!Question, Intent!OtherResults, Intent!EditResults,
       Intent!SelectResults, Intent!CompareResults, Intent!Edits

\* An edit that says its field, its scope and a value of that field.
Editing(r, t) ==
    /\ r \in Shapes /\ r.intent \in Intent!Edits
    /\ r.field \in Intent!Fields /\ r.scope \in Intent!Scopes
    /\ r.field = "item" => r.text # "none"
    /\ r.field = "nature" => r.text = "value"
    /\ r.field = "moves" => "moves" \in r.filled
    /\ r.field = "spread" => /\ r.filled \intersect Intent!Spreads # {}
                             /\ t.stat # "none" => r.filled \intersect Intent!Partial # {}

LEMMA EditPayload ==
    ASSUME NEW r, NEW t, Editing(r, t)
    PROVE  LET q == Intent!PayloadFor(r)
           IN /\ q \in Intent!EditResults /\ Valued(q)
              /\ q \notin Intent!CompareResults /\ q \notin Intent!SelectResults
              /\ q.field = "spread" /\ t.stat # "none" => q.filled \intersect Intent!Partial # {}
<1> DEFINE q == Intent!PayloadFor(r)
           kept == r.filled \intersect
                      (IF r.field = "spread" THEN Intent!Spreads ELSE {"moves"})
<1>1. /\ r.intent \in Intent!Edits /\ r.scope \in Intent!Scopes
      /\ r.field \in Intent!Fields /\ r.text \in {"none", "empty", "value"}
      /\ r.filled \subseteq Intent!Slots
    BY DEF Editing, Shapes
<1>2. q = [intent |-> r.intent, field |-> r.field, scope |-> r.scope, text |-> r.text,
           filled |-> kept]
    BY <1>1 DEF Intent!PayloadFor, Intent!Edits
<1>3. kept \subseteq Intent!Slots
    BY <1>1
<1>4. /\ r.field = "moves" => "moves" \in kept
      /\ r.field = "spread" => /\ kept # {}
                               /\ t.stat # "none" => kept \intersect Intent!Partial # {}
    BY DEF Editing, Intent!Spreads
<1> HIDE DEF q, kept
<1>5. /\ q.intent = r.intent /\ q.field = r.field /\ q.text = r.text /\ q.filled = kept
      /\ q \in Intent!EditResults
    BY <1>1, <1>2, <1>3 DEF Intent!EditResults
<1>6. q \notin Intent!CompareResults /\ q \notin Intent!SelectResults
    BY <1>1, <1>5 DEF Intent!CompareResults, Intent!SelectResults, Intent!Edits
<1>7. Valued(q)
    BY <1>4, <1>5 DEF Valued, Editing
<1>8. q.field = "spread" /\ t.stat # "none" => q.filled \intersect Intent!Partial # {}
    BY <1>4, <1>5
<1>9. QED
    BY <1>5, <1>6, <1>7, <1>8 DEF q

LEMMA AcceptedEdits ==
    ASSUME NEW r, NEW t, Whole(r, t), r.intent \in Intent!Edits
    PROVE  Editing(r, t) /\ r.field # "none"
<1>1. /\ r \in Shapes /\ Intent!SlotOk(r) /\ r.scope \in Intent!Scopes
      /\ r.field \in Intent!Fields /\ r.filled \subseteq Intent!Slots
    BY DEF Whole, Shapes, Intent!Accepted, Intent!SlotOk, Intent!Fields
<1>2. r.field = "spread" => /\ r.filled \intersect Intent!Spreads # {}
                            /\ t.stat # "none" => r.filled \intersect Intent!Partial # {}
    BY <1>1 DEF Whole, Intent!SlotOk, Intent!Slots, Intent!Spreads, Intent!Partial
<1>3. /\ r.field = "item" => r.text # "none"
      /\ r.field = "nature" => r.text = "value"
      /\ r.field = "moves" => "moves" \in r.filled
    BY <1>1 DEF Intent!SlotOk
<1> QED BY <1>1, <1>2, <1>3 DEF Editing, Intent!Fields

LEMMA SelectIsHonest ==
    ASSUME NEW r, NEW t, Whole(r, t), r.options > 0,
           Intent!Resolvable(r) \/ ~ Intent!EditSignal(r)
    PROVE  Honest(Intent!SelectPayload(r), r, t)
<1> DEFINE q == Intent!SelectPayload(r)
           spr == IF Intent!SelectPlusSpread(r) THEN r.filled \intersect Intent!Partial ELSE {}
           ext == IF Intent!SelectPlusField(r) THEN r.field ELSE "none"
<1>1. q = [intent |-> "select_build_option", options |-> r.options, spread |-> spr,
           extra |-> ext]
    BY DEF Intent!SelectPayload
<1>2. spr \subseteq Intent!Partial /\ ext \in Intent!Fields \union {"none"}
    BY DEF Intent!SelectPlusField
<1>3. r.options \in 1 .. MaxOptions
    BY RepliesAssumption DEF Whole, Shapes, Intent!BoundsAssumption
<1>4. Intent!EditSignal(r) => spr # {} \/ ext # "none"
    BY DEF Intent!Resolvable, Intent!SelectPlusSpread, Intent!SelectPlusField, Intent!Fields
<1> HIDE DEF q, spr, ext
<1>5. q.intent = "select_build_option" /\ q.spread = spr /\ q.extra = ext
      /\ q \in Intent!SelectResults
    BY <1>1, <1>2, <1>3 DEF Intent!SelectResults
<1>6. q \notin Intent!CompareResults /\ q \notin Intent!EditResults
    BY <1>5 DEF Intent!CompareResults, Intent!EditResults, Intent!Edits
<1>7. Honest(q, r, t)
    BY <1>4, <1>5, <1>6 DEF Honest, Payloads, Valued
<1> QED BY <1>7 DEF q

LEMMA OtherPayload ==
    ASSUME NEW r, r \in Shapes,
           r.intent \notin Intent!Edits \union {"select_build_option", "compare"}
    PROVE  LET q == Intent!PayloadFor(r)
           IN /\ q \in Intent!OtherResults
              /\ q \notin Intent!EditResults /\ q \notin Intent!SelectResults
              /\ q \notin Intent!CompareResults
<1> DEFINE q == Intent!PayloadFor(r)
<1>1. r.intent \in {"pending_response", "lock", "constraint"}
    BY DEF Shapes, Intent!Intents
<1>2. q = [intent |-> r.intent]
    BY DEF Intent!PayloadFor, Intent!Edits
<1> HIDE DEF q
<1>3. q.intent = r.intent /\ q \in Intent!OtherResults
    BY <1>1, <1>2 DEF Intent!OtherResults
<1>4. q \notin Intent!SelectResults /\ q \notin Intent!EditResults
          /\ q \notin Intent!CompareResults
    BY <1>1, <1>3 DEF Intent!SelectResults, Intent!EditResults, Intent!CompareResults,
                      Intent!Edits
<1>5. QED
    BY <1>3, <1>4 DEF q

LEMMA ComparePayload ==
    ASSUME NEW r, NEW t, Whole(r, t), r.intent = "compare"
    PROVE  LET q == Intent!PayloadFor(r)
           IN /\ q \in Intent!CompareResults /\ r.options > 0
              /\ q \notin Intent!EditResults /\ q \notin Intent!SelectResults
<1> DEFINE q == Intent!PayloadFor(r)
<1>1. q = [intent |-> "compare", options |-> r.options]
    BY DEF Intent!PayloadFor, Intent!Edits
<1>2. r.options \in 2 .. MaxOptions /\ r.options > 0
    BY RepliesAssumption DEF Whole, Shapes, Intent!Accepted, Intent!BoundsAssumption
<1> HIDE DEF q
<1>3. q.intent = "compare" /\ q \in Intent!CompareResults
    BY <1>1, <1>2 DEF Intent!CompareResults
<1>4. q \notin Intent!SelectResults /\ q \notin Intent!EditResults
    BY <1>3 DEF Intent!SelectResults, Intent!EditResults, Intent!Edits
<1>5. QED
    BY <1>2, <1>3, <1>4 DEF q

\* An option the text does not name is dropped, and the selection becomes the
\* edit beside it.
LEMMA HallucinatedIsHonest ==
    ASSUME NEW r, NEW t \in Intent!Texts, Whole(r, t), Intent!Hallucinated(r, t),
           ~ Intent!TwoRequests(r)
    PROVE  Honest(Intent!PayloadFor(Intent!WithoutOption(r)), r, t)
<1> DEFINE w == Intent!WithoutOption(r)
<1>1. /\ r.field \in {"item", "nature", "moves"} /\ r.options = 1 /\ ~ t.option
      /\ Intent!ValuePresent(r) /\ r.filled \intersect Intent!Spreads = {}
    BY DEF Intent!Hallucinated, Intent!SelectPlusField, Intent!Fields
<1>2. r \in Shapes /\ r.intent # "compare"
    BY <1>1 DEF Whole, Intent!TwoRequests, Intent!EditSignal
<1>3. /\ w \in Shapes /\ w.field = r.field /\ w.text = r.text /\ w.filled = r.filled
    BY <1>2 DEF Intent!WithoutOption, Shapes, Intent!Scopes, Intent!Intents, Intent!Edits
<1>4. w.intent = IF r.intent = "select_build_option" THEN "edit" ELSE r.intent
    BY <1>2 DEF Intent!WithoutOption, Shapes
<1>5. w.scope = IF r.scope = "none" THEN "field_only" ELSE r.scope
    BY <1>2 DEF Intent!WithoutOption, Shapes
<1> HIDE DEF w
<1>6. w.intent \notin {"select_build_option", "compare"}
    BY <1>2, <1>4
<1>7. w.scope \in Intent!Scopes
    BY <1>2, <1>5 DEF Shapes, Intent!Scopes
<1>8. CASE w.intent \in Intent!Edits
    <2>1. /\ w.field = "item" => w.text # "none"
          /\ w.field = "nature" => w.text = "value"
          /\ w.field = "moves" => "moves" \in w.filled
        BY <1>1, <1>3 DEF Intent!ValuePresent
    <2>2. Editing(w, t)
        BY <1>1, <1>3, <1>7, <1>8, <2>1 DEF Editing, Intent!Fields
    <2>3. Honest(Intent!PayloadFor(w), r, t)
        BY <1>1, <2>2, EditPayload DEF Honest, Payloads
    <2> QED BY <2>3 DEF w
<1>9. CASE w.intent \notin Intent!Edits
    <2>1. Honest(Intent!PayloadFor(w), r, t)
        BY <1>3, <1>6, <1>9, OtherPayload DEF Honest, Payloads, Valued
    <2> QED BY <2>1 DEF w
<1> QED BY <1>8, <1>9

LEMMA PayloadIsHonest ==
    ASSUME NEW r, NEW t, Whole(r, t), r.options > 0 => ~ Intent!EditSignal(r)
    PROVE  Honest(Intent!PayloadFor(r), r, t)
<1>1. r \in Shapes
    BY DEF Whole
<1>2. CASE r.intent \in Intent!Edits
    <2>1. Editing(r, t) /\ ~ (r.options > 0)
        BY <1>2, AcceptedEdits DEF Intent!EditSignal
    <2> QED BY <2>1, EditPayload DEF Honest, Payloads
<1>3. CASE r.intent = "select_build_option"
    <2>1. r.options > 0
        BY <1>3 DEF Whole, Shapes, Intent!Accepted
    <2>2. Intent!PayloadFor(r) = Intent!SelectPayload(r)
        BY <1>3 DEF Intent!PayloadFor, Intent!Edits
    <2> QED BY <2>1, <2>2, SelectIsHonest
<1>4. CASE r.intent = "compare"
    BY <1>4, ComparePayload DEF Honest, Payloads, Valued
<1>5. CASE r.intent \notin Intent!Edits \union {"select_build_option", "compare"}
    BY <1>1, <1>5, OtherPayload DEF Honest, Payloads, Valued
<1> QED BY <1>2, <1>3, <1>4, <1>5

LEMMA ResolvedIsHonest ==
    ASSUME NEW r, NEW t \in Intent!Texts, Whole(r, t)
    PROVE  Honest(Intent!Resolved(r, t), r, t)
<1>1. CASE Intent!TwoRequests(r)
    BY <1>1, QuestionIsHonest DEF Intent!Resolved
<1>2. CASE ~ Intent!TwoRequests(r) /\ Intent!Hallucinated(r, t)
    <2>1. Intent!Resolved(r, t) = Intent!PayloadFor(Intent!WithoutOption(r))
        BY <1>2 DEF Intent!Resolved
    <2> QED BY <1>2, <2>1, HallucinatedIsHonest
<1>3. CASE /\ ~ Intent!TwoRequests(r) /\ ~ Intent!Hallucinated(r, t)
           /\ r.options > 0 /\ Intent!Resolvable(r)
    <2>1. Intent!Resolved(r, t) = Intent!SelectPayload(r)
        BY <1>3 DEF Intent!Resolved
    <2> QED BY <1>3, <2>1, SelectIsHonest
<1>4. CASE /\ ~ Intent!TwoRequests(r) /\ ~ Intent!Hallucinated(r, t)
           /\ ~ (r.options > 0 /\ Intent!Resolvable(r))
    <2>1. Intent!Resolved(r, t) = Intent!PayloadFor(r)
        BY <1>4 DEF Intent!Resolved
    <2>2. r.options > 0 => ~ Intent!EditSignal(r)
        BY <1>4 DEF Intent!TwoRequests
    <2> QED BY <2>1, <2>2, PayloadIsHonest
<1> QED BY <1>1, <1>2, <1>3, <1>4

\* The property of one turn, said of the invariant's result.
LEMMA IntentIsHonest ==
    IntentInv => /\ Intent!TypeOK
                 /\ Intent!EditsHaveAValue /\ Intent!EditIsNotDropped
                 /\ Intent!SelectionIsNotDropped /\ Intent!TextBeatsArithmetic
<1> SUFFICES ASSUME IntentInv
             PROVE  /\ Intent!TypeOK
                    /\ Intent!EditsHaveAValue /\ Intent!EditIsNotDropped
                    /\ Intent!SelectionIsNotDropped /\ Intent!TextBeatsArithmetic
    OBVIOUS
<1>1. /\ said \in Intent!Texts /\ screen \in Intent!Screens
      /\ answer \in Intent!Records \union {Intent!NoAnswer, Intent!Unparsed, Intent!Late}
    BY DEF IntentInv, Extracted
<1>2. CASE result = Intent!NoResult
    <2>1. result \notin Intent!EditResults /\ result \notin Intent!SelectResults
          /\ result \notin Intent!CompareResults
        BY <1>2 DEF Intent!NoResult, Intent!EditResults, Intent!SelectResults,
                    Intent!CompareResults, Intent!Edits
    <2> QED BY <1>1, <1>2, <2>1 DEF Intent!TypeOK, Intent!EditsHaveAValue,
                    Intent!EditIsNotDropped, Intent!SelectionIsNotDropped,
                    Intent!TextBeatsArithmetic, Intent!Answered
<1>3. CASE answer \in {Intent!Unparsed, Intent!Late} /\ result = Intent!Question
    <2>1. /\ result \in Intent!OtherResults /\ result \notin Intent!EditResults
          /\ result \notin Intent!SelectResults /\ result \notin Intent!CompareResults
        BY <1>3 DEF Intent!Question, Intent!EditResults, Intent!SelectResults,
                    Intent!CompareResults, Intent!OtherResults, Intent!Edits
    <2> QED BY <1>1, <2>1 DEF Intent!TypeOK, Intent!EditsHaveAValue,
                    Intent!EditIsNotDropped, Intent!SelectionIsNotDropped,
                    Intent!TextBeatsArithmetic
<1>4. CASE /\ answer \in {Intent!Unparsed, Intent!Late} /\ said.named # "none"
           /\ result = [intent |-> "edit", scope |-> "field_only", filled |-> {},
                field |-> IF said.named = "itemless" THEN "item" ELSE said.named,
                text |-> IF said.named = "itemless" THEN "empty" ELSE "value"]
    <2>1. said.named \in {"item", "itemless", "nature"}
        BY <1>1, <1>4 DEF Intent!Texts
    <2>2. /\ result.intent = "edit" /\ result.field \in {"item", "nature"}
          /\ result.field = "nature" => result.text = "value"
          /\ result.text \in {"empty", "value"}
        BY <1>4, <2>1
    <2>3. result \in Intent!EditResults
        BY <1>4, <2>1 DEF Intent!EditResults, Intent!Edits, Intent!Fields, Intent!Scopes
    <2>4. answer \notin Intent!Records
        BY <1>4, RecordFacts DEF Intent!Unparsed, Intent!Late, Intent!Intents, Intent!Edits
    <2> QED BY <1>1, <2>2, <2>3, <2>4 DEF Intent!TypeOK, Intent!EditsHaveAValue,
                    Intent!EditIsNotDropped, Intent!SelectionIsNotDropped,
                    Intent!TextBeatsArithmetic, Intent!Answered
<1>5. CASE /\ Extracted(answer)
           /\ result = Intent!Resolved(Intent!Repaired(answer, said), said)
    <2> DEFINE r == Intent!Repaired(answer, said)
    <2>1. /\ Whole(r, said) /\ r.options = answer.options
          /\ answer.options > 0 /\ (Intent!EditSignal(answer) \/ said.named # "none")
                => Intent!EditSignal(r)
        <3>1. /\ answer.options <= MaxOptions
              /\ answer.intent \in Intent!Edits => answer.scope # "none"
            BY <1>5, RecordFacts DEF Extracted
        <3>2. /\ r \in Shapes /\ r.intent = answer.intent /\ r.options = answer.options
              /\ r.scope = answer.scope /\ Intent!Accepted(r)
              /\ Intent!EditSignal(answer) \/ (answer.options > 0 /\ said.named # "none")
                    => Intent!EditSignal(r)
              /\ r.field = "spread" /\ r.intent \in Intent!Edits /\ said.stat # "none" =>
                    r.filled \intersect Intent!Partial # {}
            BY <1>1, <1>5, RepairedFacts
        <3> HIDE DEF r
        <3> QED BY <3>1, <3>2 DEF Whole
    <2>2. Honest(result, r, said)
        BY <1>1, <1>5, <2>1, ResolvedIsHonest
    <2> HIDE DEF r
    <2>3. Intent!TypeOK
        BY <1>1, <2>2 DEF Honest, Payloads, Intent!TypeOK
    <2>4. Intent!EditsHaveAValue
        BY <2>2 DEF Honest, Valued, Intent!EditsHaveAValue, Intent!EditResults, Intent!Fields
    <2>5. Intent!EditIsNotDropped
        BY <2>1, <2>2 DEF Honest, Intent!EditIsNotDropped
    <2>6. Intent!SelectionIsNotDropped
        BY <2>1, <2>2 DEF Honest, Intent!SelectionIsNotDropped
    <2>7. Intent!TextBeatsArithmetic
        BY <2>2 DEF Honest, Intent!TextBeatsArithmetic
    <2> QED BY <2>3, <2>4, <2>5, <2>6, <2>7
<1> QED BY <1>2, <1>3, <1>4, <1>5 DEF IntentInv, Intent!Recovered

LEMMA IntentStep ==
    IntentInv /\ [Intent!Next]_Intent!vars => IntentInv'
<1> SUFFICES ASSUME IntentInv, [Intent!Next]_Intent!vars PROVE IntentInv'
    OBVIOUS
<1>1. CASE UNCHANGED Intent!vars
    BY <1>1 DEF IntentInv, Intent!vars
<1>2. CASE Intent!Extract
    <2>1. /\ answer = Intent!NoAnswer /\ UNCHANGED <<said, screen, result>>
          /\ answer' \in {Intent!Scoped(x) : x \in {y \in Intent!Records : Intent!Accepted(y)}}
                            \union {Intent!Unparsed, Intent!Late}
        BY <1>2 DEF Intent!Extract
    <2>2. ~ Extracted(answer) /\ answer \notin {Intent!Unparsed, Intent!Late}
        BY <2>1, RecordFacts DEF Extracted, Intent!NoAnswer, Intent!Unparsed, Intent!Late,
                                 Intent!Intents, Intent!Edits
    <2>3. result = Intent!NoResult
        BY <2>2 DEF IntentInv
    <2>4. ASSUME NEW x \in Intent!Records, Intent!Accepted(x)
          PROVE  Extracted(Intent!Scoped(x))
        <3>1. CASE ~ (x.intent \in Intent!Edits /\ x.scope = "none")
            BY <2>4, <3>1 DEF Extracted, Intent!Scoped
        <3>2. CASE x.intent \in Intent!Edits /\ x.scope = "none"
            <4> DEFINE y == [x EXCEPT !.scope = "field_only"]
            <4>1. /\ y \in Intent!Records /\ y.intent = x.intent /\ y.options = x.options
                  /\ y.field = x.field /\ y.text = x.text /\ y.filled = x.filled
                  /\ y.scope = "field_only"
                BY DEF Intent!Records, Intent!Scopes
            <4>2. Intent!Scoped(x) = y
                BY <3>2 DEF Intent!Scoped
            <4> HIDE DEF y
            <4>3. Intent!Accepted(y)
                BY <2>4, <4>1 DEF Intent!Accepted, Intent!SlotOk
            <4> QED BY <4>1, <4>2, <4>3 DEF Extracted
        <3> QED BY <3>1, <3>2
    <2>5. answer' \in {Intent!Unparsed, Intent!Late} \/ Extracted(answer)'
        BY <2>1, <2>4 DEF Extracted
    <2> QED BY <2>1, <2>3, <2>5 DEF IntentInv, Extracted
<1>3. CASE Intent!Fail
    BY <1>3 DEF IntentInv, Intent!Fail
<1>4. CASE Intent!Resolve
    BY <1>4 DEF IntentInv, Intent!Resolve, Intent!Screens, Extracted
<1> QED BY <1>1, <1>2, <1>3, <1>4 DEF Intent!Next

\* Of a reply that edits, selects and names a number nothing is lost on the way
\* to the intent, whatever record of the schema the model returns
\* (turn_intent.py).
THEOREM NothingGetsDropped == RepliesSpec => []NothingIsDropped
<1>1. RepliesInit => IntentInv
    BY DEF RepliesInit, Intent!Init, IntentInv
<1>2. IntentInv /\ [RepliesNext]_<<part, vars, reply, filled, offer>> => IntentInv'
    <2>1. [RepliesNext]_<<part, vars, reply, filled, offer>> => [Intent!Next]_Intent!vars
        BY Zenon DEF RepliesNext, reply, Intent!vars
    <2> QED BY <2>1, IntentStep
<1>3. IntentInv => NothingIsDropped
    BY IntentIsHonest DEF NothingIsDropped
<1> QED BY <1>1, <1>2, <1>3, PTL DEF RepliesSpec

-----------------------------------------------------------------------------
(* Completing a spread (SpreadFill).                                       *)

Rounds(k) == Fill!AtMost(32, Fill!Rounded(given[k]))

Converting ==
    /\ given \in EvInputs
    /\ \A k \in Stats : Rounds(k) <= sp[k]
    /\ \A j, k \in Stats : given[j] > given[k] => sp[j] >= sp[k]
    /\ Fill!Total(given) < 508 => need = 0 /\ \A k \in Stats : sp[k] = Rounds(k)
    /\ Fill!Total(given) >= 508 =>
          Fill!Total(sp) + need = 66 \/ \E k \in Stats : given[k] > 252

Allocating ==
    /\ given \in Partials /\ target \in Targets
    /\ \A k \in Stats : given[k] <= sp[k] /\ sp[k] <= Fill!AtLeast(given[k], target[k])
    /\ Fill!Total(sp) + need = 66

FillInv ==
    /\ Fill!TypeOK
    /\ algo = "evs_to_sp" => Converting
    /\ algo = "allocate_remainder" => Allocating

LEMMA SameStats ==
    /\ Fill!Stats = Stats
    /\ "hp" \in Stats /\ "atk" \in Stats /\ "def" \in Stats
    /\ "spa" \in Stats /\ "spd" \in Stats /\ "spe" \in Stats
    /\ \A k \in Stats : k \in {"hp", "atk", "def", "spa", "spd", "spe"}
BY DEF Fill!Stats, Stats

LEMMA TheInputs ==
    /\ \A g \in EvInputs : /\ g \in [Stats -> Nat]
                           /\ Fill!Total(g) <= 510 \/ \E k \in Stats : g[k] > 252
    /\ \A g \in Partials : g \in [Stats -> 0 .. 32] /\ Fill!Total(g) \in 1 .. 65
    /\ \A g \in Targets : g \in [Stats -> 0 .. 32] /\ Fill!Total(g) = 66
BY RepliesAssumption, SameStats DEF Fill!FillAssumption, SourcesAssumption

\* Python's rounding is half a grain off at most, so it keeps the order.
LEMMA RoundedIsNear ==
    ASSUME NEW ev \in Nat
    PROVE  LET r == Fill!Rounded(ev)
           IN r \in Nat /\ 8 * r <= ev + 4 /\ ev <= 8 * r + 4
BY DEF Fill!Rounded

LEMMA RoundedOnce ==
    ASSUME NEW g \in [Stats -> Nat], NEW k \in Stats
    PROVE  LET r == Fill!AtMost(32, Fill!Rounded(g[k]))
           IN /\ r \in 0 .. 32 /\ 8 * r <= g[k] + 4
              /\ g[k] >= 256 => r = 32
              /\ \A j \in Stats : g[j] > g[k] => Fill!AtMost(32, Fill!Rounded(g[j])) >= r
<1> DEFINE R(j) == Fill!Rounded(g[j])
<1>1. \A j \in Stats : g[j] \in Nat /\ R(j) \in Nat /\ 8 * R(j) <= g[j] + 4 /\ g[j] <= 8 * R(j) + 4
    BY RoundedIsNear
<1> HIDE DEF R
<1>2. LET r == Fill!AtMost(32, R(k))
      IN /\ r \in 0 .. 32 /\ 8 * r <= g[k] + 4
         /\ g[k] >= 256 => r = 32
    BY <1>1 DEF Fill!AtMost
<1>3. ASSUME NEW j \in Stats, g[j] > g[k]
      PROVE  Fill!AtMost(32, R(j)) >= Fill!AtMost(32, R(k))
    <2>1. R(j) >= R(k)
        BY <1>1, <1>3
    <2> QED BY <1>1, <2>1 DEF Fill!AtMost
<1> QED BY <1>2, <1>3 DEF R

LEMMA OneMore ==
    ASSUME NEW s \in [Stats -> 0 .. 32], NEW k \in Stats, s[k] < 32
    PROVE  LET t == [s EXCEPT ![k] = @ + 1]
           IN /\ t \in [Stats -> 0 .. 32]
              /\ Fill!Total(t) = Fill!Total(s) + 1
              /\ t[k] = s[k] + 1
              /\ \A j \in Stats : j # k => t[j] = s[j]
<1> DEFINE t == [s EXCEPT ![k] = @ + 1]
<1>1. t \in [Stats -> 0 .. 32] /\ t[k] = s[k] + 1 /\ \A j \in Stats : j # k => t[j] = s[j]
    OBVIOUS
<1> HIDE DEF t
<1>2. Fill!Total(t) = Fill!Total(s) + 1
    <2>1. \A j \in Stats : s[j] \in Int /\ t[j] \in Int
        BY <1>1
    <2>2. /\ s["hp"] \in Int /\ s["atk"] \in Int /\ s["def"] \in Int
          /\ s["spa"] \in Int /\ s["spd"] \in Int /\ s["spe"] \in Int
          /\ t["hp"] \in Int /\ t["atk"] \in Int /\ t["def"] \in Int
          /\ t["spa"] \in Int /\ t["spd"] \in Int /\ t["spe"] \in Int
        BY <2>1, SameStats
    <2>3. CASE k = "hp"
        <3>1. /\ t["hp"] = s["hp"] + 1
              /\ t["atk"] = s["atk"] /\ t["def"] = s["def"] /\ t["spa"] = s["spa"]
              /\ t["spd"] = s["spd"] /\ t["spe"] = s["spe"]
            BY <1>1, <2>3, SameStats
        <3> QED BY <2>2, <3>1 DEF Fill!Total
    <2>4. CASE k = "atk"
        <3>1. /\ t["atk"] = s["atk"] + 1
              /\ t["hp"] = s["hp"] /\ t["def"] = s["def"] /\ t["spa"] = s["spa"]
              /\ t["spd"] = s["spd"] /\ t["spe"] = s["spe"]
            BY <1>1, <2>4, SameStats
        <3> QED BY <2>2, <3>1 DEF Fill!Total
    <2>5. CASE k = "def"
        <3>1. /\ t["def"] = s["def"] + 1
              /\ t["hp"] = s["hp"] /\ t["atk"] = s["atk"] /\ t["spa"] = s["spa"]
              /\ t["spd"] = s["spd"] /\ t["spe"] = s["spe"]
            BY <1>1, <2>5, SameStats
        <3> QED BY <2>2, <3>1 DEF Fill!Total
    <2>6. CASE k = "spa"
        <3>1. /\ t["spa"] = s["spa"] + 1
              /\ t["hp"] = s["hp"] /\ t["atk"] = s["atk"] /\ t["def"] = s["def"]
              /\ t["spd"] = s["spd"] /\ t["spe"] = s["spe"]
            BY <1>1, <2>6, SameStats
        <3> QED BY <2>2, <3>1 DEF Fill!Total
    <2>7. CASE k = "spd"
        <3>1. /\ t["spd"] = s["spd"] + 1
              /\ t["hp"] = s["hp"] /\ t["atk"] = s["atk"] /\ t["def"] = s["def"]
              /\ t["spa"] = s["spa"] /\ t["spe"] = s["spe"]
            BY <1>1, <2>7, SameStats
        <3> QED BY <2>2, <3>1 DEF Fill!Total
    <2>8. CASE k = "spe"
        <3>1. /\ t["spe"] = s["spe"] + 1
              /\ t["hp"] = s["hp"] /\ t["atk"] = s["atk"] /\ t["def"] = s["def"]
              /\ t["spa"] = s["spa"] /\ t["spd"] = s["spd"]
            BY <1>1, <2>8, SameStats
        <3> DEFINE rest == s["hp"] + s["atk"] + s["def"] + s["spa"] + s["spd"]
        <3>2. rest \in Int /\ Fill!Total(s) = rest + s["spe"] /\ Fill!Total(t) = rest + t["spe"]
            BY <2>2, <3>1 DEF Fill!Total
        <3> HIDE DEF rest
        <3> QED BY <2>2, <3>1, <3>2
    <2> QED BY <2>3, <2>4, <2>5, <2>6, <2>7, <2>8, SameStats
<1> QED BY <1>1, <1>2 DEF t

LEMMA TotalIsNat ==
    ASSUME NEW s \in [Stats -> Nat] PROVE Fill!Total(s) \in Nat
<1>1. /\ s["hp"] \in Nat /\ s["atk"] \in Nat /\ s["def"] \in Nat
      /\ s["spa"] \in Nat /\ s["spd"] \in Nat /\ s["spe"] \in Nat
    BY SameStats
<1> QED BY <1>1 DEF Fill!Total

\* A source that spent its EVs, no stat of it over the rules, has three stats at
\* least; so they cannot all be full below the budget.
LEMMA SomeTaker ==
    ASSUME NEW g \in [Stats -> Nat], NEW s \in [Stats -> 0 .. 32],
           Fill!Total(g) >= 508, \A k \in Stats : g[k] <= 252,
           \A k \in Stats : g[k] > 0 => s[k] = 32
    PROVE  Fill!Total(s) >= 66
<1> DEFINE n(k) == IF g[k] = 0 THEN 0 ELSE 1
<1>1. \A k \in Stats : /\ g[k] \in Int /\ s[k] \in Int /\ n(k) \in Int
                       /\ g[k] <= 252 * n(k) /\ 32 * n(k) <= s[k]
    OBVIOUS
<1> HIDE DEF n
<1>2. g["hp"] \in Int /\ s["hp"] \in Int /\ n("hp") \in Int
      /\ g["hp"] <= 252 * n("hp") /\ 32 * n("hp") <= s["hp"]
    BY <1>1, SameStats
<1>3. g["atk"] \in Int /\ s["atk"] \in Int /\ n("atk") \in Int
      /\ g["atk"] <= 252 * n("atk") /\ 32 * n("atk") <= s["atk"]
    BY <1>1, SameStats
<1>4. g["def"] \in Int /\ s["def"] \in Int /\ n("def") \in Int
      /\ g["def"] <= 252 * n("def") /\ 32 * n("def") <= s["def"]
    BY <1>1, SameStats
<1>5. g["spa"] \in Int /\ s["spa"] \in Int /\ n("spa") \in Int
      /\ g["spa"] <= 252 * n("spa") /\ 32 * n("spa") <= s["spa"]
    BY <1>1, SameStats
<1>6. g["spd"] \in Int /\ s["spd"] \in Int /\ n("spd") \in Int
      /\ g["spd"] <= 252 * n("spd") /\ 32 * n("spd") <= s["spd"]
    BY <1>1, SameStats
<1>7. g["spe"] \in Int /\ s["spe"] \in Int /\ n("spe") \in Int
      /\ g["spe"] <= 252 * n("spe") /\ 32 * n("spe") <= s["spe"]
    BY <1>1, SameStats
<1> DEFINE m == n("hp") + n("atk") + n("def") + n("spa") + n("spd") + n("spe")
<1>8. m \in Int /\ Fill!Total(g) <= 252 * m /\ 32 * m <= Fill!Total(s)
      /\ Fill!Total(g) \in Int /\ Fill!Total(s) \in Int
    BY <1>2, <1>3, <1>4, <1>5, <1>6, <1>7 DEF Fill!Total
<1> HIDE DEF m
<1> QED BY <1>8

\* A spread on no stat below another, and with the same total, is that spread.
LEMMA SameTotal ==
    ASSUME NEW s \in [Stats -> 0 .. 32], NEW t \in [Stats -> 0 .. 32],
           \A k \in Stats : t[k] <= s[k]
    PROVE  /\ Fill!Total(t) <= Fill!Total(s)
           /\ Fill!Total(s) = Fill!Total(t) => s = t
<1>1. \A k \in Stats : s[k] \in 0 .. 32 /\ t[k] \in 0 .. 32
    OBVIOUS
<1>0. /\ s["hp"] \in Int /\ s["atk"] \in Int /\ s["def"] \in Int
      /\ s["spa"] \in Int /\ s["spd"] \in Int /\ s["spe"] \in Int
      /\ t["hp"] \in Int /\ t["atk"] \in Int /\ t["def"] \in Int
      /\ t["spa"] \in Int /\ t["spd"] \in Int /\ t["spe"] \in Int
    BY <1>1, SameStats
<1>2. /\ t["hp"] <= s["hp"] /\ t["atk"] <= s["atk"] /\ t["def"] <= s["def"]
      /\ t["spa"] <= s["spa"] /\ t["spd"] <= s["spd"] /\ t["spe"] <= s["spe"]
    BY SameStats
<1>3. Fill!Total(t) <= Fill!Total(s)
    BY <1>0, <1>2 DEF Fill!Total
<1>4. ASSUME Fill!Total(s) = Fill!Total(t) PROVE s = t
    <2>1. /\ s["hp"] = t["hp"] /\ s["atk"] = t["atk"] /\ s["def"] = t["def"]
          /\ s["spa"] = t["spa"] /\ s["spd"] = t["spd"] /\ s["spe"] = t["spe"]
        BY <1>0, <1>2, <1>4 DEF Fill!Total
    <2>2. \A k \in Stats : s[k] = t[k]
        BY <2>1, SameStats
    <2> QED BY <2>2
<1> QED BY <1>3, <1>4

LEMMA FillInit == Fill!Init => FillInv
<1> SUFFICES ASSUME Fill!Init PROVE FillInv
    OBVIOUS
<1>1. CASE Fill!CallEvs
    <2>1. /\ algo = "evs_to_sp" /\ given \in EvInputs
          /\ sp = [k \in Stats |-> Rounds(k)]
          /\ need = IF Fill!Total(given) < 508 THEN 0 ELSE Fill!AtLeast(0, 66 - Fill!Total(sp))
        BY <1>1, SameStats DEF Fill!CallEvs, Rounds
    <2>2. given \in [Stats -> Nat]
        BY <2>1, TheInputs
    <2>3. \A k \in Stats : /\ Rounds(k) \in 0 .. 32 /\ 8 * Rounds(k) <= given[k] + 4
                           /\ sp[k] = Rounds(k)
        BY <2>1, <2>2, RoundedOnce DEF Rounds
    <2>4. \A j, k \in Stats : given[j] > given[k] => Rounds(j) >= Rounds(k)
        BY <2>2, RoundedOnce DEF Rounds
    <2>5. sp \in [Stats -> 0 .. 32]
        BY <2>1, <2>3
    <2>6. Fill!Total(sp) \in Nat /\ Fill!Total(given) \in Nat
        BY <2>2, <2>5, TotalIsNat
    <2>7. Fill!Total(given) <= 510 => Fill!Total(sp) <= 66
        <3>1. \A k \in Stats : sp[k] \in Nat /\ given[k] \in Nat /\ 8 * sp[k] <= given[k] + 4
            BY <2>2, <2>3
        <3>2. /\ sp["hp"] \in Nat /\ given["hp"] \in Nat /\ 8 * sp["hp"] <= given["hp"] + 4
              /\ sp["atk"] \in Nat /\ given["atk"] \in Nat /\ 8 * sp["atk"] <= given["atk"] + 4
              /\ sp["def"] \in Nat /\ given["def"] \in Nat /\ 8 * sp["def"] <= given["def"] + 4
              /\ sp["spa"] \in Nat /\ given["spa"] \in Nat /\ 8 * sp["spa"] <= given["spa"] + 4
              /\ sp["spd"] \in Nat /\ given["spd"] \in Nat /\ 8 * sp["spd"] <= given["spd"] + 4
              /\ sp["spe"] \in Nat /\ given["spe"] \in Nat /\ 8 * sp["spe"] <= given["spe"] + 4
            BY <3>1, SameStats
        <3> QED BY <3>2 DEF Fill!Total
    <2>8. need \in 0 .. 66
        BY <2>1, <2>6 DEF Fill!AtLeast
    <2>9. Fill!Total(given) >= 508 =>
              Fill!Total(sp) + need = 66 \/ \E k \in Stats : given[k] > 252
        BY <2>1, <2>6, <2>7, TheInputs DEF Fill!AtLeast
    <2>10. Converting
        <3>1. \A k \in Stats : Rounds(k) <= sp[k]
            BY <2>3
        <3>2. \A j, k \in Stats : given[j] > given[k] => sp[j] >= sp[k]
            BY <2>3, <2>4
        <3>3. Fill!Total(given) < 508 => need = 0 /\ \A k \in Stats : sp[k] = Rounds(k)
            BY <2>1, <2>3
        <3> QED BY <2>1, <2>9, <3>1, <3>2, <3>3 DEF Converting
    <2> QED BY <2>1, <2>5, <2>8, <2>10, SameStats DEF FillInv, Fill!TypeOK
<1>2. CASE Fill!CallRemainder
    <2>1. /\ algo = "allocate_remainder" /\ given \in Partials /\ target \in Targets
          /\ sp = given /\ need = 66 - Fill!Total(given)
        BY <1>2 DEF Fill!CallRemainder
    <2>2. /\ sp \in [Stats -> 0 .. 32] /\ Fill!Total(sp) \in 1 .. 65
          /\ target \in [Stats -> 0 .. 32]
        BY <2>1, TheInputs
    <2>3. \A k \in Stats : given[k] <= sp[k] /\ sp[k] <= Fill!AtLeast(given[k], target[k])
        BY <2>1, <2>2 DEF Fill!AtLeast
    <2> QED BY <2>1, <2>2, <2>3, SameStats DEF FillInv, Fill!TypeOK, Allocating
<1> QED BY <1>1, <1>2 DEF Fill!Init

\* The point goes to the stat that has lost most, so never past one with more
\* EVs; and a source that keeps the rules never runs out of stats to raise.
LEMMA ConvertingStep ==
    ASSUME FillInv, algo = "evs_to_sp", Fill!Next
    PROVE  FillInv'
<1>1. /\ Fill!TypeOK /\ Converting /\ UNCHANGED <<algo, given, target>>
    BY DEF FillInv, Fill!Next, Fill!AddPoint, Fill!GiveUp
<1>2. /\ given \in EvInputs /\ given \in [Stats -> Nat] /\ sp \in [Stats -> 0 .. 32]
      /\ need \in 0 .. 66 /\ need > 0
    BY <1>1, TheInputs, SameStats
       DEF Converting, Fill!TypeOK, Fill!Next, Fill!AddPoint, Fill!GiveUp
<1>3. /\ ~ (Fill!Total(given) < 508) /\ Fill!Total(given) \in Nat /\ Fill!Total(sp) \in Nat
    <2>1. Fill!Total(given) \in Nat /\ sp \in [Stats -> Nat]
        BY <1>2, TotalIsNat
    <2> QED BY <1>1, <1>2, <2>1, TotalIsNat DEF Converting
<1>4. Fill!Takers = {k \in Stats : given[k] > 0 /\ sp[k] < 32}
    BY SameStats DEF Fill!Takers
<1>5. CASE Fill!GiveUp
    <2>1. sp' = sp /\ need' = 0 /\ Fill!Takers = {}
        BY <1>5 DEF Fill!GiveUp
    <2>2. \A k \in Stats : given[k] > 0 => sp[k] = 32
        <3>1. \A k \in Stats : sp[k] \in 0 .. 32 /\ ~ (given[k] > 0 /\ sp[k] < 32)
            BY <1>2, <1>4, <2>1
        <3> QED BY <3>1
    <2>3. \E k \in Stats : given[k] > 252
        <3> SUFFICES ASSUME \A k \in Stats : given[k] <= 252 PROVE FALSE
            BY <1>2
        <3>1. Fill!Total(sp) >= 66
            BY <1>2, <1>3, <2>2, SomeTaker
        <3>2. ~ \E k \in Stats : given[k] > 252
            BY <1>2
        <3>3. Fill!Total(sp) + need = 66
            BY <1>1, <1>3, <3>2 DEF Converting
        <3> QED BY <1>2, <1>3, <3>1, <3>3
    <2>4. \A k \in Stats : Rounds(k)' = Rounds(k)
        BY <1>1 DEF Rounds
    <2>5. /\ \A k \in Stats : Rounds(k)' <= sp'[k]
          /\ \A j, k \in Stats : given'[j] > given'[k] => sp'[j] >= sp'[k]
        BY <1>1, <2>1, <2>4 DEF Converting
    <2>6. Fill!Total(given)' = Fill!Total(given)
        BY <1>1 DEF Fill!Total
    <2>7. Converting'
        BY <1>1, <1>2, <1>3, <2>3, <2>5, <2>6 DEF Converting
    <2> QED BY <1>1, <2>1, <2>7 DEF FillInv, Fill!TypeOK
<1>6. CASE Fill!AddPoint
    <2>1. PICK w \in Fill!Worst : sp' = [sp EXCEPT ![w] = @ + 1]
        BY <1>6 DEF Fill!AddPoint
    <2>2. /\ w \in Stats /\ given[w] > 0 /\ sp[w] < 32 /\ need' = need - 1
          /\ \A j \in Stats : j # w /\ given[j] > 0 /\ sp[j] < 32 =>
                Fill!Loss(w) >= Fill!Loss(j)
        <3>1. w \in Fill!Takers
            BY DEF Fill!Worst
        <3>2. ASSUME NEW j \in Stats, j # w, given[j] > 0, sp[j] < 32
              PROVE  Fill!Loss(w) >= Fill!Loss(j)
            <4>1. j \in Fill!Takers \ {w}
                BY <1>4, <3>2
            <4>2. Fill!Weight(w) > Fill!Weight(j) \/ Fill!Weight(w) = Fill!Weight(j)
                BY <4>1 DEF Fill!Worst
            <4>3. Fill!Weight(w) = Fill!Loss(w) /\ Fill!Weight(j) = Fill!Loss(j)
                BY DEF Fill!Weight
            <4>4. Fill!Loss(w) \in Int /\ Fill!Loss(j) \in Int
                BY <1>2, <1>4, <3>1, <3>2 DEF Fill!Loss, Fill!AtMost
            <4> QED BY <4>2, <4>3, <4>4
        <3> QED BY <1>4, <1>6, <3>1, <3>2 DEF Fill!AddPoint
    <2>3. /\ sp' \in [Stats -> 0 .. 32] /\ Fill!Total(sp)' = Fill!Total(sp) + 1
          /\ sp'[w] = sp[w] + 1 /\ \A j \in Stats : j # w => sp'[j] = sp[j]
        <3>1. Fill!Total(sp)' = Fill!Total(sp')
            BY DEF Fill!Total
        <3> QED BY <1>2, <2>1, <2>2, <3>1, OneMore
    <2>4. \A k \in Stats : Rounds(k)' = Rounds(k) /\ Rounds(k) \in 0 .. 32
        BY <1>1, <1>2, RoundedOnce DEF Rounds
    <2>5. \A k \in Stats : Rounds(k)' <= sp'[k]
        BY <1>1, <1>2, <2>3, <2>4 DEF Converting
    <2>6. ASSUME NEW j \in Stats, NEW k \in Stats, given[j] > given[k]
          PROVE  sp'[j] >= sp'[k]
        <3>1. sp[j] \in 0 .. 32 /\ sp[k] \in 0 .. 32 /\ given[j] \in Nat /\ given[k] \in Nat
              /\ sp[j] >= sp[k] /\ j # k
            BY <1>1, <1>2, <2>6 DEF Converting
        <3>2. CASE k # w
            BY <2>3, <3>1, <3>2
        <3>3. CASE k = w
            <4>1. given[w] < 256
                <5>1. given[w] >= 256 => Rounds(w) = 32
                    BY <1>2, <2>2, RoundedOnce DEF Rounds
                <5> QED BY <1>1, <1>2, <2>2, <5>1 DEF Converting
            <4>2. SUFFICES ASSUME sp[j] = sp[w] PROVE FALSE
                BY <2>3, <3>1, <3>3
            <4>3. Fill!Loss(w) >= Fill!Loss(j)
                BY <2>2, <2>6, <3>1, <3>3, <4>2
            <4>4. Fill!Loss(j) > Fill!Loss(w)
                BY <2>6, <3>1, <3>3, <4>1, <4>2 DEF Fill!Loss, Fill!AtMost
            <4>5. Fill!Loss(w) \in Int /\ Fill!Loss(j) \in Int
                BY <3>1, <3>3 DEF Fill!Loss, Fill!AtMost
            <4> QED BY <4>3, <4>4, <4>5
        <3> QED BY <3>2, <3>3
    <2>7. Fill!Total(given)' = Fill!Total(given)
        BY <1>1 DEF Fill!Total
    <2>8. Fill!Total(sp)' + need' = 66 \/ \E k \in Stats : given[k] > 252
        BY <1>1, <1>2, <1>3, <2>2, <2>3 DEF Converting
    <2>9. Converting'
        BY <1>1, <1>2, <1>3, <2>5, <2>6, <2>7, <2>8 DEF Converting
    <2>10. need' \in 0 .. 66
        BY <1>2, <2>2
    <2> QED BY <1>1, <2>3, <2>9, <2>10, SameStats DEF FillInv, Fill!TypeOK
<1> QED BY <1>5, <1>6 DEF Fill!Next

\* While points are left the build is short of the role's spread somewhere, so
\* no point goes past it.
LEMMA AllocatingStep ==
    ASSUME FillInv, algo = "allocate_remainder", Fill!Next
    PROVE  FillInv'
<1>1. /\ Fill!TypeOK /\ Allocating /\ UNCHANGED <<algo, given, target>>
    BY DEF FillInv, Fill!Next, Fill!AddPoint, Fill!GiveUp
<1>2. /\ given \in Partials /\ given \in [Stats -> 0 .. 32]
      /\ target \in Targets /\ target \in [Stats -> 0 .. 32] /\ Fill!Total(target) = 66
      /\ sp \in [Stats -> 0 .. 32] /\ need \in 0 .. 66 /\ need > 0
    BY <1>1, TheInputs, SameStats
       DEF Allocating, Fill!TypeOK, Fill!Next, Fill!AddPoint, Fill!GiveUp
<1>3. Fill!Total(sp) \in Nat
    <2>1. sp \in [Stats -> Nat]
        BY <1>2
    <2> QED BY <2>1, TotalIsNat
<1> DEFINE deficits == {k \in Stats : sp[k] < 32 /\ target[k] > sp[k]}
<1>4. deficits # {}
    <2> SUFFICES ASSUME deficits = {} PROVE FALSE
        OBVIOUS
    <2>1. \A k \in Stats : target[k] <= sp[k]
        <3>1. \A k \in Stats : sp[k] \in 0 .. 32 /\ target[k] \in 0 .. 32
                               /\ ~ (sp[k] < 32 /\ target[k] > sp[k])
            BY <1>2
        <3> QED BY <3>1
    <2>2. Fill!Total(target) <= Fill!Total(sp)
        BY <1>2, <2>1, SameTotal
    <2> QED BY <1>1, <1>2, <1>3, <2>2 DEF Allocating
<1>5. Fill!Takers = deficits
    BY <1>4, SameStats DEF Fill!Takers
<1> HIDE DEF deficits
<1>6. ~ Fill!GiveUp
    BY <1>4, <1>5 DEF Fill!GiveUp
<1>7. Fill!AddPoint
    BY <1>6 DEF Fill!Next
<1>8. PICK w \in Fill!Worst : sp' = [sp EXCEPT ![w] = @ + 1]
    BY <1>7 DEF Fill!AddPoint
<1>9. /\ w \in Stats /\ sp[w] < 32 /\ target[w] > sp[w] /\ need' = need - 1
    BY <1>5, <1>7 DEF Fill!Worst, Fill!AddPoint, deficits
<1>10. /\ sp' \in [Stats -> 0 .. 32] /\ Fill!Total(sp)' = Fill!Total(sp) + 1
       /\ sp'[w] = sp[w] + 1 /\ \A j \in Stats : j # w => sp'[j] = sp[j]
    <2>1. Fill!Total(sp)' = Fill!Total(sp')
        BY DEF Fill!Total
    <2>2. w \in Stats /\ sp[w] < 32 /\ sp \in [Stats -> 0 .. 32]
        BY <1>2, <1>9
    <2> QED BY <1>8, <2>1, <2>2, OneMore
<1>11. ASSUME NEW k \in Stats
       PROVE  given[k] <= sp'[k] /\ sp'[k] <= Fill!AtLeast(given[k], target[k])
    <2>1. /\ given[k] <= sp[k] /\ sp[k] <= Fill!AtLeast(given[k], target[k])
          /\ given[k] \in 0 .. 32 /\ target[k] \in 0 .. 32 /\ sp[k] \in 0 .. 32
        BY <1>1, <1>2 DEF Allocating
    <2>2. CASE k # w
        BY <1>10, <2>1, <2>2
    <2>3. CASE k = w
        BY <1>9, <1>10, <2>1, <2>3 DEF Fill!AtLeast
    <2> QED BY <2>2, <2>3
<1>12. Fill!Total(sp)' + need' = 66
    BY <1>1, <1>2, <1>3, <1>9, <1>10 DEF Allocating
<1>13. Allocating'
    BY <1>1, <1>2, <1>11, <1>12 DEF Allocating
<1>14. need' \in 0 .. 66
    BY <1>2, <1>9
<1> QED BY <1>1, <1>10, <1>13, <1>14, SameStats DEF FillInv, Fill!TypeOK

LEMMA FillStep == FillInv /\ [Fill!Next]_Fill!vars => FillInv'
<1> SUFFICES ASSUME FillInv, [Fill!Next]_Fill!vars PROVE FillInv'
    OBVIOUS
<1>1. CASE UNCHANGED Fill!vars
    <2>1. UNCHANGED <<algo, given, target, sp, need>>
        BY <1>1 DEF Fill!vars
    <2> QED BY <2>1 DEF FillInv, Fill!TypeOK, Converting, Allocating, Rounds, Fill!Total
<1>2. algo \in {"evs_to_sp", "allocate_remainder"}
    BY DEF FillInv, Fill!TypeOK
<1> QED BY <1>1, <1>2, ConvertingStep, AllocatingStep

\* What the invariant says of a call that is done.
LEMMA FillIsSound ==
    FillInv => Fill!TypeOK /\ Fill!EndsOnBudget /\ Fill!OrderIsKept /\ Fill!RoleComesFirst
<1> SUFFICES ASSUME FillInv
             PROVE  Fill!TypeOK /\ Fill!EndsOnBudget /\ Fill!OrderIsKept /\ Fill!RoleComesFirst
    OBVIOUS
<1>1. Fill!TypeOK /\ algo \in {"evs_to_sp", "allocate_remainder"}
      /\ sp \in [Stats -> 0 .. 32] /\ need \in 0 .. 66
    BY SameStats DEF FillInv, Fill!TypeOK
<1>2. CASE algo = "evs_to_sp"
    <2>1. Converting /\ given \in [Stats -> Nat]
        BY <1>2, TheInputs DEF FillInv, Converting
    <2>2. Fill!Total(given) \in Nat /\ Fill!Total(sp) \in Nat
        <3>1. sp \in [Stats -> Nat]
            BY <1>1
        <3> QED BY <2>1, <3>1, TotalIsNat
    <2>3. Fill!EndsOnBudget
        <3>1. CASE Fill!Total(given) < 508
            BY <1>2, <2>1, <3>1, SameStats DEF Fill!EndsOnBudget, Converting, Rounds
        <3>2. CASE Fill!Total(given) >= 508
            BY <1>2, <2>1, <2>2, <3>2, SameStats DEF Fill!EndsOnBudget, Converting, Fill!Done
        <3> QED BY <2>2, <3>1, <3>2
    <2>4. Fill!OrderIsKept
        BY <2>1, SameStats DEF Fill!OrderIsKept, Converting
    <2> QED BY <1>1, <1>2, <2>3, <2>4 DEF Fill!RoleComesFirst
<1>3. CASE algo = "allocate_remainder"
    <2>1. /\ Allocating /\ given \in [Stats -> 0 .. 32] /\ target \in [Stats -> 0 .. 32]
          /\ Fill!Total(target) = 66
        BY <1>3, TheInputs DEF FillInv, Allocating
    <2>2. Fill!Total(sp) \in Nat
        <3>1. sp \in [Stats -> Nat]
            BY <1>1
        <3> QED BY <3>1, TotalIsNat
    <2>3. Fill!EndsOnBudget
        BY <1>3, <2>1, <2>2 DEF Fill!EndsOnBudget, Allocating, Fill!Done
    <2>4. \A k \in Stats : /\ sp[k] \in 0 .. 32 /\ given[k] \in 0 .. 32 /\ target[k] \in 0 .. 32
                           /\ given[k] <= sp[k] /\ sp[k] <= Fill!AtLeast(given[k], target[k])
        BY <1>1, <2>1 DEF Allocating
    <2>5. \A k \in Stats : sp[k] >= given[k] /\ ~ (sp[k] > Fill!AtLeast(given[k], target[k]))
        BY <2>4 DEF Fill!AtLeast
    <2>6. ASSUME Fill!Done, \A k \in Stats : given[k] <= target[k]
          PROVE  sp = target
        <3>1. \A k \in Stats : sp[k] <= target[k]
            BY <2>4, <2>6 DEF Fill!AtLeast
        <3>2. Fill!Total(sp) = Fill!Total(target)
            BY <2>1, <2>2, <2>6 DEF Allocating, Fill!Done
        <3> QED BY <1>1, <2>1, <3>1, <3>2, SameTotal
    <2>7. Fill!RoleComesFirst
        BY <2>5, <2>6, SameStats DEF Fill!RoleComesFirst
    <2> QED BY <1>1, <1>3, <2>3, <2>7 DEF Fill!OrderIsKept
<1> QED BY <1>1, <1>2, <1>3

\* A full source and a partial build end on the budget with the order of their
\* stats, for every source that keeps the rules of its game and every partial
\* build (sp_convert.py, slot_fill.py).
THEOREM FillsStayFair == RepliesSpec => []FillIsFair
<1>1. RepliesInit => FillInv
    <2>1. RepliesInit => Fill!Init
        BY Zenon DEF RepliesInit, Fill!Init
    <2> QED BY <2>1, FillInit
<1>2. FillInv /\ [RepliesNext]_<<part, vars, reply, filled, offer>> => FillInv'
    <2>1. [RepliesNext]_<<part, vars, reply, filled, offer>> => [Fill!Next]_Fill!vars
        BY Zenon DEF RepliesNext, filled, Fill!vars
    <2> QED BY <2>1, FillStep
<1>3. FillInv => FillIsFair
    BY FillIsSound DEF FillIsFair
<1> QED BY <1>1, <1>2, <1>3, PTL DEF RepliesSpec

-----------------------------------------------------------------------------
(* The slate.  Its selections run over rankings of any length.  What a     *)
(* recursive function over one leaves is found by an induction on the set  *)
(* of the numbers of members for which it holds.                           *)

\* The order of the naturals has no endless descent (WellFoundedInduction).
LEMMA Descends == \A x, y \in Nat : x < y => <<x, y>> \in OpToRel(<, Nat)
  BY DEF OpToRel

\* A set with 0 that has n + 1 whenever it has n has every natural.
LEMMA SetInduction ==
    ASSUME NEW S, 0 \in S, \A n \in Nat : n \in S => n + 1 \in S
    PROVE  Nat \subseteq S
  <1> SUFFICES ASSUME ~ (Nat \subseteq S)
               PROVE  FALSE
    OBVIOUS
  <1> DEFINE T == Nat \ S
  <1>1. T \subseteq Nat /\ T # {}
    OBVIOUS
  <1>2. PICK x \in T : \A y \in T : ~ (<<y, x>> \in OpToRel(<, Nat))
    BY <1>1, WFMin, NatLessThanWellFounded
  <1>3. x # 0 /\ x \in Nat
    OBVIOUS
  <1>4. x - 1 \in Nat /\ x - 1 < x /\ (x - 1) + 1 = x
    BY <1>3
  <1>5. x - 1 \in T
    BY <1>3, <1>4
  <1> QED
    BY <1>2, <1>3, <1>4, <1>5, Descends

-----------------------------------------------------------------------------
(* Only. *)

\* What Only has taken of the first n members of q.
OnlyFits(r, q, S, n) ==
    r = [i \in 0 .. n |->
            IF i = 0 THEN <<>> ELSE IF q[i] \in S THEN Append(r[i - 1], q[i]) ELSE r[i - 1]]

\* What the recursive function of Only says of its values.
LEMMA OnlySteps ==
    ASSUME NEW r, NEW q, NEW S, NEW n \in Nat, OnlyFits(r, q, S, n)
    PROVE  /\ r[0] = <<>>
           /\ \A i \in 1 .. n :
                  r[i] = IF q[i] \in S THEN Append(r[i - 1], q[i]) ELSE r[i - 1]
  <1> DEFINE step(i) == IF q[i] \in S THEN Append(r[i - 1], q[i]) ELSE r[i - 1]
             e(i) == IF i = 0 THEN <<>> ELSE step(i)
  <1>1. r = [i \in 0 .. n |-> e(i)]
    BY DEF OnlyFits
  <1> HIDE DEF e
  <1>2. \A i \in 0 .. n : r[i] = e(i)
    BY <1>1
  <1>3. \A i \in 1 .. n : i \in 0 .. n /\ e(i) = step(i)
    BY DEF e
  <1>4. 0 \in 0 .. n /\ e(0) = <<>>
    BY DEF e
  <1> QED
    BY <1>2, <1>3, <1>4

\* There is such a function for every number of members.
LEMMA OnlyFitExists == \A q, S : \A n \in Nat : \E r : OnlyFits(r, q, S, n)
  <1> TAKE q, S
  <1> DEFINE N == {n \in Nat : \E r : OnlyFits(r, q, S, n)}
  <1>1. 0 \in N
    <2>1. OnlyFits([i \in 0 .. 0 |-> <<>>], q, S, 0)
      BY DEF OnlyFits
    <2> QED
      BY <2>1
  <1>2. ASSUME NEW n \in Nat, n \in N
        PROVE  n + 1 \in N
    <2>1. PICK r : OnlyFits(r, q, S, n)
      BY <1>2
    <2> DEFINE last == IF q[n + 1] \in S THEN Append(r[n], q[n + 1]) ELSE r[n]
               g == [i \in 0 .. n + 1 |-> IF i = n + 1 THEN last ELSE r[i]]
    <2>2. /\ r[0] = <<>>
          /\ \A i \in 1 .. n :
                 r[i] = IF q[i] \in S THEN Append(r[i - 1], q[i]) ELSE r[i - 1]
      BY <2>1, OnlySteps
    <2>3. \A i \in 0 .. n : g[i] = r[i]
      OBVIOUS
    <2>4. \A i \in 0 .. n + 1 :
             g[i] = IF i = 0 THEN <<>>
                    ELSE IF q[i] \in S THEN Append(g[i - 1], q[i]) ELSE g[i - 1]
      <3> TAKE i \in 0 .. n + 1
      <3>1. CASE i = 0
        BY <3>1, <2>2, <2>3
      <3>2. CASE i \in 1 .. n
        <4>1. i - 1 \in 0 .. n /\ i \in 0 .. n
          BY <3>2
        <4> QED
          BY <4>1, <3>2, <2>2, <2>3
      <3>3. CASE i = n + 1
        <4>1. i - 1 = n /\ n \in 0 .. n
          BY <3>3
        <4> QED
          BY <4>1, <3>3, <2>3
      <3> QED
        BY <3>1, <3>2, <3>3
    <2> HIDE DEF last
    <2>5. OnlyFits(g, q, S, n + 1)
      BY <2>4 DEF OnlyFits
    <2> QED
      BY <2>5
  <1> HIDE DEF N
  <1>3. Nat \subseteq N
    BY <1>1, <1>2, SetInduction
  <1> QED
    BY <1>3 DEF N

\* Only has the members of q that are in S, and no others.
LEMMA OnlyHas ==
    ASSUME NEW A, NEW q \in Seq(A), NEW S, NEW o, o = Slate!Only(q, S)
    PROVE  /\ o \in Seq(A)
           /\ \A j \in DOMAIN o : o[j] \in S /\ \E i \in DOMAIN q : o[j] = q[i]
           /\ \A i \in DOMAIN q : q[i] \in S => \E j \in DOMAIN o : o[j] = q[i]
  <1> DEFINE r == CHOOSE f : OnlyFits(f, q, S, Len(q))
             Right(n) ==
                /\ r[n] \in Seq(A)
                /\ \A j \in DOMAIN r[n] : r[n][j] \in S /\ \E i \in 1 .. n : r[n][j] = q[i]
                /\ \A i \in 1 .. n : q[i] \in S => \E j \in DOMAIN r[n] : r[n][j] = q[i]
  <1>0. Len(q) \in Nat /\ DOMAIN q = 1 .. Len(q) /\ \A i \in 1 .. Len(q) : q[i] \in A
    OBVIOUS
  <1>1. OnlyFits(r, q, S, Len(q))
    BY <1>0, OnlyFitExists
  <1>2. o = r[Len(q)]
    BY DEF Slate!Only, OnlyFits
  <1> HIDE DEF r
  <1>3. /\ r[0] = <<>>
        /\ \A i \in 1 .. Len(q) :
               r[i] = IF q[i] \in S THEN Append(r[i - 1], q[i]) ELSE r[i - 1]
    BY <1>0, <1>1, OnlySteps
  <1> DEFINE N == {n \in Nat : n <= Len(q) => Right(n)}
  <1>4. 0 \in N
    <2>1. 1 .. 0 = {} /\ DOMAIN <<>> = {} /\ <<>> \in Seq(A)
      OBVIOUS
    <2>2. Right(0)
      BY <2>1, <1>3
    <2> HIDE DEF Right
    <2> QED
      BY <2>2
  <1>5. ASSUME NEW n \in Nat, n \in N
        PROVE  n + 1 \in N
    <2> SUFFICES ASSUME n + 1 <= Len(q)
                 PROVE  Right(n + 1)
      OBVIOUS
    <2>1. /\ n + 1 \in 1 .. Len(q) /\ (n + 1) - 1 = n /\ Right(n)
          /\ \A i \in 1 .. n + 1 : i \in 1 .. n \/ i = n + 1
          /\ 1 .. n \subseteq 1 .. n + 1 /\ n + 1 \in 1 .. n + 1
      BY <1>0, <1>5
    <2>2. r[n + 1] = IF q[n + 1] \in S THEN Append(r[n], q[n + 1]) ELSE r[n]
      BY <2>1, <1>3
    <2>3. CASE q[n + 1] \in S
      <3> DEFINE p == r[n]
                 x == q[n + 1]
                 w == Append(p, x)
      <3>1. r[n + 1] = w /\ p \in Seq(A) /\ x \in A
        BY <2>1, <2>2, <2>3, <1>0
      <3>2. /\ w \in Seq(A) /\ DOMAIN w = 1 .. Len(p) + 1 /\ w[Len(p) + 1] = x
            /\ DOMAIN p = 1 .. Len(p) /\ \A j \in 1 .. Len(p) : w[j] = p[j]
            /\ Len(p) \in Nat
        BY <3>1
      <3> HIDE DEF w
      <3>3. \A j \in DOMAIN w : w[j] \in S /\ \E i \in 1 .. n + 1 : w[j] = q[i]
        <4> TAKE j \in DOMAIN w
        <4>1. CASE j = Len(p) + 1
          BY <4>1, <3>2, <2>1, <2>3
        <4>2. CASE j \in DOMAIN p
          BY <4>2, <3>2, <2>1
        <4> QED
          BY <4>1, <4>2, <3>2
      <3>4. ASSUME NEW i \in 1 .. n + 1, q[i] \in S
            PROVE  \E j \in DOMAIN w : w[j] = q[i]
        <4>1. CASE i = n + 1
          BY <4>1, <3>2
        <4>2. CASE i \in 1 .. n
          <5>1. PICK j \in DOMAIN p : p[j] = q[i]
            BY <4>2, <3>4, <2>1
          <5>2. j \in DOMAIN w /\ w[j] = p[j]
            BY <5>1, <3>2
          <5> QED
            BY <5>1, <5>2
        <4> QED
          BY <4>1, <4>2, <2>1
      <3> QED
        BY <3>1, <3>2, <3>3, <3>4
    <2>4. CASE q[n + 1] \notin S
      BY <2>1, <2>2, <2>4
    <2> QED
      BY <2>3, <2>4
  <1> HIDE DEF N
  <1>6. Nat \subseteq N
    BY <1>4, <1>5, SetInduction
  <1>7. Right(Len(q))
    <2> HIDE DEF Right
    <2> QED
      BY <1>0, <1>6 DEF N
  <1> QED
    BY <1>0, <1>2, <1>7

-----------------------------------------------------------------------------
(* Picks. *)

Options == Seq([species : Found, track : Slate!Tracks])

\* What a selection must be: of the pool, of different families, and without
\* support options that are banned.
Fine(p, pool, b) ==
    /\ p \in Options /\ Len(p) <= ShowUpTo
    /\ \A i \in DOMAIN p : p[i].species \in pool
    /\ \A i \in DOMAIN p : p[i].track = "B" => ~ Slate!Banned(p[i].species, b)
    /\ \A i, j \in DOMAIN p : FamilyOf[p[i].species] = FamilyOf[p[j].species] => i = j

\* What With leaves, and the pick it adds.
LEMMA WithHas ==
    ASSUME NEW p \in Options, NEW s \in Found, NEW t \in Slate!Tracks, NEW w, w = Slate!With(p, s, t)
    PROVE  /\ w \in Options /\ Len(p) \in Nat
           /\ Len(w) = Len(p) + 1 /\ DOMAIN w = 1 .. Len(p) + 1 /\ DOMAIN p = 1 .. Len(p)
           /\ w[Len(p) + 1] = [species |-> s, track |-> t]
           /\ \A i \in DOMAIN p : i \in DOMAIN w /\ w[i] = p[i]
           /\ \A i \in DOMAIN w : i \in DOMAIN p \/ i = Len(p) + 1
  <1> DEFINE x == [species |-> s, track |-> t]
  <1>1. x \in [species : Found, track : Slate!Tracks]
    OBVIOUS
  <1> HIDE DEF x
  <1>2. w = Append(p, x)
    BY DEF Slate!With, x
  <1> QED
    BY <1>1, <1>2 DEF Options, x

\* A pick of the pool that is apart and not banned keeps a selection fine.
LEMMA WithIsFine ==
    ASSUME NEW pool \in SUBSET Found, NEW b, NEW p, Fine(p, pool, b), Len(p) < ShowUpTo,
           Slate!BoundsAssumption,
           NEW s \in pool, NEW t \in Slate!Tracks, Slate!Apart(s, p), t = "B" => ~ Slate!Banned(s, b)
    PROVE  Fine(Slate!With(p, s, t), pool, b)
  <1> DEFINE w == Slate!With(p, s, t)
  <1>0. p \in Options /\ ShowUpTo \in Nat /\ s \in Found
    BY DEF Fine, Slate!BoundsAssumption
  <1>a. /\ w \in Options /\ Len(p) \in Nat
        /\ Len(w) = Len(p) + 1
        /\ w[Len(p) + 1] = [species |-> s, track |-> t]
        /\ \A i \in DOMAIN p : w[i] = p[i]
        /\ \A i \in DOMAIN w : i \in DOMAIN p \/ i = Len(p) + 1
    <2>1. w = Slate!With(p, s, t)
      OBVIOUS
    <2> HIDE DEF w
    <2> QED
      BY <1>0, <2>1, WithHas
  <1> HIDE DEF w
  <1>1. /\ w \in Options /\ Len(p) \in Nat
        /\ Len(w) = Len(p) + 1
        /\ w[Len(p) + 1].species = s /\ w[Len(p) + 1].track = t
        /\ \A i \in DOMAIN p : w[i] = p[i]
        /\ \A i \in DOMAIN w : i \in DOMAIN p \/ i = Len(p) + 1
    BY <1>a
  <1> HIDE DEF w
  <1>2. Len(w) <= ShowUpTo
    BY <1>0, <1>1
  <1>3. \A i \in DOMAIN w :
            /\ w[i].species \in pool
            /\ w[i].track = "B" => ~ Slate!Banned(w[i].species, b)
    BY <1>1 DEF Fine
  <1>4. \A i, j \in DOMAIN w : FamilyOf[w[i].species] = FamilyOf[w[j].species] => i = j
    BY <1>1 DEF Fine, Slate!Apart
  <1> QED
    BY <1>1, <1>2, <1>3, <1>4 DEF Fine, w

\* No picks at all are fine.
LEMMA NothingIsFine ==
    ASSUME Slate!BoundsAssumption, NEW pool, NEW b
    PROVE  Fine(<<>>, pool, b)
  <1>1. <<>> \in Options /\ DOMAIN <<>> = {} /\ Len(<<>>) = 0 /\ ShowUpTo \in Nat
    BY DEF Options, Slate!BoundsAssumption
  <1> QED
    BY <1>1 DEF Fine

\* So does the best one that is apart (_pick_first_new_lineage).
LEMMA WithFirstIsFine ==
    ASSUME Slate!BoundsAssumption, NEW pool \in SUBSET Found, NEW b, NEW p, Fine(p, pool, b),
           NEW ranked \in Seq(pool), NEW t \in Slate!Tracks,
           t = "B" => \A i \in DOMAIN ranked : ~ Slate!Banned(ranked[i], b)
    PROVE  Fine(Slate!WithFirst(p, ranked, t), pool, b)
  <1> DEFINE free == Slate!Only(ranked, {s \in Found : Slate!Apart(s, p)})
  <1>1. /\ free \in Seq(pool)
        /\ \A j \in DOMAIN free :
               free[j] \in {s \in Found : Slate!Apart(s, p)} /\ \E i \in DOMAIN ranked : free[j] = ranked[i]
    <2> DEFINE S == {s \in Found : Slate!Apart(s, p)}
    <2>1. free = Slate!Only(ranked, S)
      OBVIOUS
    <2> HIDE DEF S, free
    <2>2. /\ free \in Seq(pool)
          /\ \A j \in DOMAIN free :
                 free[j] \in S /\ \E i \in DOMAIN ranked : free[j] = ranked[i]
      BY <2>1, OnlyHas
    <2> QED
      BY <2>2 DEF S
  <1>2. Len(p) \in Nat /\ ShowUpTo \in Nat
    BY DEF Fine, Options, Slate!BoundsAssumption
  <1> HIDE DEF free
  <1>3. CASE free = <<>> \/ Len(p) >= ShowUpTo
    BY <1>3 DEF Slate!WithFirst, free
  <1>4. CASE ~ (free = <<>> \/ Len(p) >= ShowUpTo)
    <2>1. 1 \in DOMAIN free /\ free[1] \in pool
      BY <1>1, <1>4
    <2>2. Slate!Apart(free[1], p) /\ \E i \in DOMAIN ranked : free[1] = ranked[i]
      BY <1>1, <2>1
    <2>3. Len(p) < ShowUpTo
      BY <1>2, <1>4
    <2>4. Fine(Slate!With(p, free[1], t), pool, b)
      BY <2>1, <2>2, <2>3, WithIsFine
    <2> QED
      BY <2>4, <1>4 DEF Slate!WithFirst, free
  <1> QED
    BY <1>3, <1>4

-----------------------------------------------------------------------------
(* WithAll. *)

\* Whether a pass takes a candidate.
Takes(s, p, fresh) ==
    /\ Slate!Apart(s, p) /\ Len(p) < ShowUpTo
    /\ fresh => ~ kit[s].tiered \subseteq Slate!Covered(p)

\* What a pass has picked after the first n candidates.
PassFits(p, picks, ranked, t, fresh, n) ==
    p = [i \in 0 .. n |->
            IF i = 0 THEN picks
            ELSE IF /\ Slate!Apart(ranked[i], p[i - 1]) /\ Len(p[i - 1]) < ShowUpTo
                    /\ fresh => ~ kit[ranked[i]].tiered \subseteq Slate!Covered(p[i - 1])
                 THEN Slate!With(p[i - 1], ranked[i], t) ELSE p[i - 1]]

\* What the recursive function of a pass says of its values.
LEMMA PassSteps ==
    ASSUME NEW p, NEW picks, NEW ranked, NEW t, NEW fresh, NEW n \in Nat,
           PassFits(p, picks, ranked, t, fresh, n)
    PROVE  /\ p[0] = picks
           /\ \A i \in 1 .. n :
                  p[i] = IF Takes(ranked[i], p[i - 1], fresh) THEN Slate!With(p[i - 1], ranked[i], t)
                         ELSE p[i - 1]
  <1> DEFINE step(i) == IF Takes(ranked[i], p[i - 1], fresh) THEN Slate!With(p[i - 1], ranked[i], t)
                        ELSE p[i - 1]
             e(i) == IF i = 0 THEN picks ELSE step(i)
  <1>1. p = [i \in 0 .. n |-> e(i)]
    BY Zenon DEF PassFits, Takes
  <1> HIDE DEF e
  <1>2. \A i \in 0 .. n : p[i] = e(i)
    BY <1>1
  <1>3. \A i \in 1 .. n : i \in 0 .. n /\ e(i) = step(i)
    <2> HIDE DEF step
    <2> QED
      BY DEF e
  <1>4. 0 \in 0 .. n /\ e(0) = picks
    BY DEF e
  <1> HIDE DEF step
  <1>5. p[0] = picks /\ \A i \in 1 .. n : p[i] = step(i)
    BY <1>2, <1>3, <1>4
  <1> QED
    BY <1>5 DEF step

\* There is such a function for every number of candidates.
LEMMA PassExists ==
    ASSUME NEW picks, NEW ranked, NEW t, NEW fresh
    PROVE  \A n \in Nat : \E p : PassFits(p, picks, ranked, t, fresh, n)
  <1> DEFINE N == {n \in Nat : \E p : PassFits(p, picks, ranked, t, fresh, n)}
             step(s, p) == IF Takes(s, p, fresh) THEN Slate!With(p, s, t) ELSE p
  <1>1. 0 \in N
    <2> DEFINE g == [i \in 0 .. 0 |-> picks]
    <2>1. \A i \in 0 .. 0 : i = 0
      OBVIOUS
    <2>2. PassFits(g, picks, ranked, t, fresh, 0)
      BY <2>1, Zenon DEF PassFits
    <2> QED
      BY <2>2
  <1>2. ASSUME NEW n \in Nat, n \in N
        PROVE  n + 1 \in N
    <2>1. PICK p : PassFits(p, picks, ranked, t, fresh, n)
      BY <1>2
    <2> DEFINE last == step(ranked[n + 1], p[n])
               g == [i \in 0 .. n + 1 |-> IF i = n + 1 THEN last ELSE p[i]]
    <2>2. p[0] = picks /\ \A i \in 1 .. n : p[i] = step(ranked[i], p[i - 1])
      BY <2>1, PassSteps
    <2> HIDE DEF step
    <2>3. \A i \in 0 .. n : g[i] = p[i]
      OBVIOUS
    <2>4. \A i \in 0 .. n + 1 : g[i] = IF i = 0 THEN picks ELSE step(ranked[i], g[i - 1])
      <3> TAKE i \in 0 .. n + 1
      <3>1. CASE i = 0
        BY <3>1, <2>2, <2>3
      <3>2. CASE i \in 1 .. n
        <4>1. i - 1 \in 0 .. n /\ i \in 0 .. n
          BY <3>2
        <4> QED
          BY <4>1, <3>2, <2>2, <2>3
      <3>3. CASE i = n + 1
        <4>1. i - 1 = n /\ n \in 0 .. n
          BY <3>3
        <4> QED
          BY <4>1, <3>3, <2>3
      <3> QED
        BY <3>1, <3>2, <3>3
    <2>5. g = [i \in 0 .. n + 1 |-> g[i]]
      OBVIOUS
    <2> HIDE DEF last, g
    <2>6. g = [i \in 0 .. n + 1 |-> IF i = 0 THEN picks ELSE step(ranked[i], g[i - 1])]
      BY <2>4, <2>5
    <2>7. PassFits(g, picks, ranked, t, fresh, n + 1)
      BY <2>6, Zenon DEF PassFits, step, Takes
    <2> QED
      BY <2>7
  <1> HIDE DEF N
  <1>3. Nat \subseteq N
    BY <1>1, <1>2, SetInduction
  <1> QED
    BY <1>3 DEF N

\* The needs the first k picks have tiers for.
CoveredTo(p, k) == UNION {kit[p[i].species].tiered : i \in 1 .. k}

\* What a pass over the first n candidates makes of p: it adds to it, if fresh
\* only what brings something new, and passes nobody over without a reason.
Grown(p, q, ranked, n, fresh) ==
    /\ p \in Options /\ q \in Options
    /\ Len(p) <= Len(q)
    /\ \A i \in DOMAIN p : q[i] = p[i]
    /\ fresh => \A i \in DOMAIN q :
                    i > Len(p) => ~ kit[q[i].species].tiered \subseteq CoveredTo(q, i - 1)
    /\ \A j \in 1 .. n :
           Slate!Apart(ranked[j], q) /\ Len(q) < ShowUpTo
           => fresh /\ kit[ranked[j]].tiered \subseteq Slate!Covered(q)

\* What all picks cover.
LEMMA CoveredInAll ==
    ASSUME NEW p \in Options
    PROVE  Slate!Covered(p) = CoveredTo(p, Len(p))
  <1>1. DOMAIN p = 1 .. Len(p)
    BY DEF Options
  <1> QED
    BY <1>1 DEF Slate!Covered, CoveredTo

\* It depends on the picks counted alone.
LEMMA CoveredToPrefix ==
    ASSUME NEW p, NEW q, NEW k, \A i \in 1 .. k : q[i] = p[i]
    PROVE  CoveredTo(q, k) = CoveredTo(p, k)
  BY DEF CoveredTo

\* More picks cover more.
LEMMA CoveredToGrows ==
    ASSUME NEW p, NEW j \in Nat, NEW k \in Nat, j <= k
    PROVE  CoveredTo(p, j) \subseteq CoveredTo(p, k)
  <1>1. 1 .. j \subseteq 1 .. k
    OBVIOUS
  <1> QED
    BY <1>1 DEF CoveredTo

\* One candidate more, taken or passed over.
LEMMA GrownSteps ==
    ASSUME Slate!BoundsAssumption,
           NEW p, NEW q, NEW ranked, NEW n \in Nat, NEW fresh \in BOOLEAN,
           Grown(p, q, ranked, n, fresh), NEW t \in Slate!Tracks,
           ranked[n + 1] \in Found, NEW w,
           w = IF Takes(ranked[n + 1], q, fresh) THEN Slate!With(q, ranked[n + 1], t) ELSE q
    PROVE  Grown(p, w, ranked, n + 1, fresh)
  <1> DEFINE s == ranked[n + 1]
  <1>0. /\ p \in Options /\ q \in Options /\ ShowUpTo \in Nat
        /\ Len(p) \in Nat /\ Len(q) \in Nat /\ Len(p) <= Len(q)
        /\ DOMAIN p = 1 .. Len(p) /\ DOMAIN q = 1 .. Len(q)
        /\ \A j \in 1 .. n + 1 : j \in 1 .. n \/ j = n + 1
    BY DEF Grown, Options, Slate!BoundsAssumption
  <1>1. CASE ~ Takes(s, q, fresh)
    <2>1. w = q
      BY <1>1
    <2>2. Slate!Apart(s, q) /\ Len(q) < ShowUpTo => fresh /\ kit[s].tiered \subseteq Slate!Covered(q)
      BY <1>1 DEF Takes
    <2>3. \A j \in 1 .. n + 1 :
              Slate!Apart(ranked[j], q) /\ Len(q) < ShowUpTo
              => fresh /\ kit[ranked[j]].tiered \subseteq Slate!Covered(q)
      BY <2>2, <1>0 DEF Grown
    <2> QED
      BY <2>1, <2>3 DEF Grown
  <1>2. CASE Takes(s, q, fresh)
    <2>1. w = Slate!With(q, s, t)
      BY <1>2
    <2>2. /\ w \in Options
          /\ Len(w) = Len(q) + 1 /\ DOMAIN w = 1 .. Len(q) + 1
          /\ w[Len(q) + 1] = [species |-> s, track |-> t]
          /\ \A i \in DOMAIN q : i \in DOMAIN w /\ w[i] = q[i]
          /\ \A i \in DOMAIN w : i \in DOMAIN q \/ i = Len(q) + 1
      BY <2>1, <1>0, WithHas
    <2>3. w[Len(q) + 1].species = s
      BY <2>2
    <2>4. \A k \in 0 .. Len(q) : CoveredTo(w, k) = CoveredTo(q, k)
      <3> TAKE k \in 0 .. Len(q)
      <3>1. \A i \in 1 .. k : w[i] = q[i]
        BY <1>0, <2>2
      <3> QED
        BY <3>1, CoveredToPrefix
    <2>5. Slate!Covered(q) = CoveredTo(q, Len(q)) /\ Slate!Covered(w) = CoveredTo(w, Len(q) + 1)
      BY <1>0, <2>2, CoveredInAll
    <2>6. Slate!Covered(q) \subseteq Slate!Covered(w)
      <3>1. CoveredTo(w, Len(q)) \subseteq CoveredTo(w, Len(q) + 1)
        BY <1>0, CoveredToGrows
      <3> QED
        BY <3>1, <2>4, <2>5, <1>0
    <2>7. \A j \in 1 .. n + 1 :
              Slate!Apart(ranked[j], w) /\ Len(w) < ShowUpTo
              => fresh /\ kit[ranked[j]].tiered \subseteq Slate!Covered(w)
      <3> SUFFICES ASSUME NEW j \in 1 .. n + 1, Slate!Apart(ranked[j], w), Len(w) < ShowUpTo
                   PROVE  fresh /\ kit[ranked[j]].tiered \subseteq Slate!Covered(w)
        OBVIOUS
      <3>1. j # n + 1
        BY <2>2, <2>3, <1>0 DEF Slate!Apart
      <3>2. j \in 1 .. n
        BY <3>1, <1>0
      <3>3. Slate!Apart(ranked[j], q) /\ Len(q) < ShowUpTo
        BY <2>2, <1>0 DEF Slate!Apart
      <3> QED
        BY <3>2, <3>3, <2>6 DEF Grown
    <2>8. ASSUME fresh, NEW i \in DOMAIN w, i > Len(p)
          PROVE  ~ kit[w[i].species].tiered \subseteq CoveredTo(w, i - 1)
      <3>1. CASE i \in DOMAIN q
        <4>1. ~ kit[q[i].species].tiered \subseteq CoveredTo(q, i - 1)
          BY <2>8, <3>1 DEF Grown
        <4>2. w[i] = q[i] /\ i - 1 \in 0 .. Len(q)
          BY <3>1, <2>2, <1>0
        <4> QED
          BY <4>1, <4>2, <2>4
      <3>2. CASE i = Len(q) + 1
        <4>1. ~ kit[s].tiered \subseteq Slate!Covered(q)
          BY <2>8, <1>2 DEF Takes
        <4>2. i - 1 = Len(q) /\ Len(q) \in 0 .. Len(q)
          BY <3>2, <1>0
        <4> QED
          BY <4>1, <4>2, <3>2, <2>3, <2>4, <2>5
      <3> QED
        BY <3>1, <3>2, <2>2
    <2>9. /\ Len(p) <= Len(w)
          /\ \A i \in DOMAIN p : w[i] = p[i]
      BY <2>2, <1>0 DEF Grown
    <2> QED
      BY <1>0, <2>2, <2>7, <2>8, <2>9 DEF Grown
  <1> QED
    BY <1>1, <1>2

\* A pass keeps a selection fine and passes nobody over without a reason.
LEMMA PassIsFine ==
    ASSUME Slate!BoundsAssumption, NEW pool \in SUBSET Found, NEW b, NEW picks, Fine(picks, pool, b),
           NEW ranked \in Seq(pool), NEW t \in Slate!Tracks, NEW fresh \in BOOLEAN,
           t = "B" => \A i \in DOMAIN ranked : ~ Slate!Banned(ranked[i], b)
    PROVE  /\ Fine(Slate!WithAll(picks, ranked, t, fresh), pool, b)
           /\ Grown(picks, Slate!WithAll(picks, ranked, t, fresh), ranked, Len(ranked), fresh)
  <1> DEFINE p == CHOOSE x : PassFits(x, picks, ranked, t, fresh, Len(ranked))
             Right(n) == Fine(p[n], pool, b) /\ Grown(picks, p[n], ranked, n, fresh)
  <1>0. /\ Len(ranked) \in Nat /\ DOMAIN ranked = 1 .. Len(ranked)
        /\ \A i \in 1 .. Len(ranked) : ranked[i] \in pool
        /\ picks \in Options
    BY DEF Fine
  <1>1. PassFits(p, picks, ranked, t, fresh, Len(ranked))
    BY <1>0, PassExists
  <1>2. Slate!WithAll(picks, ranked, t, fresh) = p[Len(ranked)]
    BY Zenon DEF Slate!WithAll, PassFits
  <1> HIDE DEF p
  <1>3. /\ p[0] = picks
        /\ \A i \in 1 .. Len(ranked) :
               p[i] = IF Takes(ranked[i], p[i - 1], fresh) THEN Slate!With(p[i - 1], ranked[i], t)
                      ELSE p[i - 1]
    BY <1>0, <1>1, PassSteps
  <1> DEFINE N == {n \in Nat : n <= Len(ranked) => Right(n)}
  <1>4. 0 \in N
    <2>1. Len(picks) \in Nat /\ DOMAIN picks = 1 .. Len(picks) /\ 1 .. 0 = {}
      BY <1>0 DEF Options
    <2>2. Grown(picks, picks, ranked, 0, fresh)
      BY <2>1, <1>0 DEF Grown
    <2>3. Right(0)
      BY <2>2, <1>3
    <2> HIDE DEF Right
    <2> QED
      BY <2>3
  <1>5. ASSUME NEW n \in Nat, n \in N
        PROVE  n + 1 \in N
    <2> SUFFICES ASSUME n + 1 <= Len(ranked)
                 PROVE  Right(n + 1)
      OBVIOUS
    <2> DEFINE s == ranked[n + 1]
    <2>1. /\ n + 1 \in 1 .. Len(ranked) /\ (n + 1) - 1 = n /\ n + 1 \in DOMAIN ranked
          /\ s \in pool /\ s \in Found
      BY <1>0
    <2>2. Fine(p[n], pool, b) /\ Grown(picks, p[n], ranked, n, fresh)
      BY <1>5, <1>0
    <2>3. p[n + 1] = IF Takes(s, p[n], fresh) THEN Slate!With(p[n], s, t) ELSE p[n]
      BY <2>1, <1>3
    <2>4. Grown(picks, p[n + 1], ranked, n + 1, fresh)
      BY <2>1, <2>2, <2>3, GrownSteps
    <2>5. CASE Takes(s, p[n], fresh)
      <3>1. Slate!Apart(s, p[n]) /\ Len(p[n]) < ShowUpTo /\ (t = "B" => ~ Slate!Banned(s, b))
        BY <2>5, <2>1 DEF Takes
      <3> QED
        BY <3>1, <2>1, <2>2, <2>3, <2>4, <2>5, WithIsFine
    <2>6. CASE ~ Takes(s, p[n], fresh)
      BY <2>2, <2>3, <2>4, <2>6
    <2> QED
      BY <2>5, <2>6
  <1> HIDE DEF N
  <1>6. Nat \subseteq N
    BY <1>4, <1>5, SetInduction
  <1>7. Right(Len(ranked))
    <2> HIDE DEF Right
    <2> QED
      BY <1>0, <1>6 DEF N
  <1> QED
    BY <1>2, <1>7

-----------------------------------------------------------------------------
(* The ranking of a track, and the selections. *)

\* Only, as a sequence over what is kept.
LEMMA OnlyOf ==
    ASSUME NEW A, NEW q \in Seq(A), NEW S, NEW B, \A s \in A : s \in S => s \in B,
           NEW o, o = Slate!Only(q, S)
    PROVE  /\ o \in Seq(B)
           /\ \A j \in DOMAIN o : o[j] \in S
           /\ \A i \in DOMAIN q : q[i] \in S => \E j \in DOMAIN o : o[j] = q[i]
  <1>1. /\ o \in Seq(A)
        /\ \A j \in DOMAIN o : o[j] \in S
        /\ \A i \in DOMAIN q : q[i] \in S => \E j \in DOMAIN o : o[j] = q[i]
    BY OnlyHas
  <1>2. Len(o) \in Nat /\ DOMAIN o = 1 .. Len(o) /\ \A j \in 1 .. Len(o) : o[j] \in A
    BY <1>1
  <1>3. \A j \in 1 .. Len(o) : o[j] \in B
    BY <1>1, <1>2
  <1>4. o = [j \in 1 .. Len(o) |-> o[j]]
    BY <1>1
  <1>5. o \in Seq(B)
    BY <1>2, <1>3, <1>4
  <1> QED
    BY <1>1, <1>5

\* The ranking of a track has everybody of the pool who is on it, and nobody else.
LEMMA RankedFromHas ==
    ASSUME Slate!FindsAssumption, order \in RankedAs, NEW pool \in SUBSET Found,
           NEW u \in Slate!Uses, NEW t \in Slate!Tracks, NEW r, r = Slate!RankedFrom(u, pool, t)
    PROVE  /\ r \in Seq(pool)
           /\ \A s \in pool : Slate!On(t, s) => \E j \in DOMAIN r : r[j] = s
  <1> DEFINE S == {s \in pool : Slate!On(t, s)}
             q == order[u][t]
  <1>1. /\ q \in Seq(Found)
        /\ \A s \in Found : \E i \in DOMAIN q : q[i] = s
    BY DEF Slate!FindsAssumption, Slate!Range
  <1>0. r = Slate!Only(q, S)
    BY DEF Slate!RankedFrom
  <1> HIDE DEF S, q
  <1>2. \A s \in Found : s \in S => s \in pool
    BY DEF S
  <1>3. /\ r \in Seq(pool)
        /\ \A i \in DOMAIN q : q[i] \in S => \E j \in DOMAIN r : r[j] = q[i]
    BY <1>0, <1>1, <1>2, OnlyOf
  <1>4. \A s \in pool : Slate!On(t, s) => \E j \in DOMAIN r : r[j] = s
    BY <1>1, <1>3 DEF S
  <1> QED
    BY <1>3, <1>4

\* The same of those with strong evidence.
LEMMA RankedHas ==
    ASSUME Slate!FindsAssumption, order \in RankedAs, NEW pool \in SUBSET Found, NEW t \in Slate!Tracks,
           NEW r, r = Slate!Ranked(pool, t)
    PROVE  /\ r \in Seq(pool)
           /\ \A s \in pool : Slate!On(t, s) /\ Slate!Strong(t, s) => \E j \in DOMAIN r : r[j] = s
  <1> DEFINE S == {s \in pool : Slate!Strong(t, s)}
             q == Slate!RankedFrom("select", pool, t)
  <1>1. /\ q \in Seq(pool)
        /\ \A s \in pool : Slate!On(t, s) => \E j \in DOMAIN q : q[j] = s
    BY RankedFromHas DEF Slate!Uses
  <1>0. r = Slate!Only(q, S)
    BY DEF Slate!Ranked
  <1> HIDE DEF S, q
  <1>2. \A s \in pool : s \in S => s \in pool
    OBVIOUS
  <1>3. /\ r \in Seq(pool)
        /\ \A i \in DOMAIN q : q[i] \in S => \E j \in DOMAIN r : r[j] = q[i]
    BY <1>0, <1>1, <1>2, OnlyOf
  <1>4. \A s \in pool : Slate!On(t, s) /\ Slate!Strong(t, s) => \E j \in DOMAIN r : r[j] = s
    BY <1>1, <1>3 DEF S
  <1> QED
    BY <1>3, <1>4

\* A cut keeps only what it is given, and B's, for support, all of the track.
LEMMA CutHas ==
    ASSUME Slate!FindsAssumption, Slate!BoundsAssumption,
           order \in RankedAs, NEW pool \in SUBSET Found, NEW t \in Slate!Tracks, NEW f
    PROVE  /\ Slate!Cut(pool, t, f) \subseteq pool
           /\ t = "B" /\ f = "support" => \A s \in pool : Slate!On(t, s) => s \in Slate!Cut(pool, t, f)
  <1> DEFINE r == Slate!RankedFrom("cut", pool, t)
             m == IF Len(r) < CutTo THEN Len(r) ELSE CutTo
  <1>1. /\ r \in Seq(pool)
        /\ \A s \in pool : Slate!On(t, s) => \E j \in DOMAIN r : r[j] = s
    BY RankedFromHas DEF Slate!Uses
  <1>2. Slate!Cut(pool, t, f) =
            IF t = "B" /\ f = "support" THEN Slate!Range(r) ELSE {r[i] : i \in 1 .. m}
    BY DEF Slate!Cut
  <1> HIDE DEF r
  <1>3. Slate!Range(r) \subseteq pool
    BY <1>1 DEF Slate!Range
  <1>4. {r[i] : i \in 1 .. m} \subseteq pool
    <2>1. Len(r) \in Nat /\ DOMAIN r = 1 .. Len(r) /\ CutTo \in Nat
      BY <1>1, Slate!BoundsAssumption DEF Slate!BoundsAssumption
    <2>2. 1 .. m \subseteq DOMAIN r
      BY <2>1
    <2> HIDE DEF m
    <2> QED
      BY <1>1, <2>2
  <1>5. \A s \in pool : Slate!On(t, s) => s \in Slate!Range(r)
    BY <1>1 DEF Slate!Range
  <1> QED
    BY <1>2, <1>3, <1>4, <1>5

\* The three selections.
LEMMA AttackerIsFine ==
    ASSUME Slate!BoundsAssumption, NEW pool \in SUBSET Found, NEW b,
           NEW a \in Seq(pool), NEW c \in Seq(pool)
    PROVE  Fine(Slate!Attacker(a, c), pool, b)
  <1>1. Fine(<<>>, pool, b)
    BY NothingIsFine
  <1>2. "A" # "B" /\ "C" # "B" /\ {"A", "C"} \subseteq Slate!Tracks /\ FALSE \in BOOLEAN
    BY DEF Slate!Tracks
  <1>3. CASE a = <<>> \/ c = <<>>
    <2>1. Fine(Slate!WithAll(<<>>, a, "A", FALSE), pool, b)
      BY <1>1, <1>2, PassIsFine
    <2>2. Fine(Slate!WithAll(Slate!WithAll(<<>>, a, "A", FALSE), c, "C", FALSE), pool, b)
      BY <2>1, <1>2, PassIsFine
    <2> QED
      BY <2>2, <1>3 DEF Slate!Attacker
  <1>4. CASE ~ (a = <<>> \/ c = <<>>)
    <2> DEFINE one   == Slate!With(<<>>, a[1], "A")
               two   == Slate!WithFirst(one, c, "C")
               three == Slate!WithFirst(two, Tail(a), "A")
               other == Slate!WithFirst(two, Tail(c), "C")
    <2>1. /\ a[1] \in pool /\ Tail(a) \in Seq(pool) /\ Tail(c) \in Seq(pool)
          /\ Len(<<>>) < ShowUpTo /\ DOMAIN <<>> = {}
      BY <1>4 DEF Slate!BoundsAssumption
    <2>2. Slate!Apart(a[1], <<>>)
      BY <2>1 DEF Slate!Apart
    <2>3. Fine(one, pool, b)
      BY <1>1, <1>2, <2>1, <2>2, WithIsFine
    <2> HIDE DEF one
    <2>4. Fine(two, pool, b)
      BY <1>2, <2>3, WithFirstIsFine
    <2> HIDE DEF two
    <2>5. Fine(three, pool, b) /\ Fine(other, pool, b)
      BY <1>2, <2>1, <2>4, WithFirstIsFine
    <2>6. Slate!Attacker(a, c) = IF three # two THEN three ELSE other
      BY <1>4, Zenon DEF Slate!Attacker, one, two
    <2> HIDE DEF three, other
    <2> QED
      BY <2>5, <2>6
  <1> QED
    BY <1>3, <1>4

\* The species that no ban keeps out.
Allowed(b) == {s \in Found : ~ Slate!Banned(s, b)}

\* What is left of a ranking without the banned.
LEMMA FreeOf ==
    ASSUME NEW pool \in SUBSET Found, NEW b, NEW q \in Seq(pool),
           NEW free, free = Slate!Only(q, Allowed(b))
    PROVE  /\ free \in Seq(pool)
           /\ \A i \in DOMAIN free : ~ Slate!Banned(free[i], b)
           /\ \A i \in DOMAIN q : ~ Slate!Banned(q[i], b) => \E j \in DOMAIN free : free[j] = q[i]
  <1>1. \A i \in DOMAIN q : q[i] \in Found
    OBVIOUS
  <1>2. /\ free \in Seq(pool)
        /\ \A j \in DOMAIN free : free[j] \in Allowed(b)
        /\ \A i \in DOMAIN q : q[i] \in Allowed(b) => \E j \in DOMAIN free : free[j] = q[i]
    BY OnlyHas
  <1> QED
    BY <1>1, <1>2 DEF Allowed

\* One of each track.
LEMMA BalancedIsFine ==
    ASSUME Slate!BoundsAssumption, NEW pool \in SUBSET Found, NEW bn,
           NEW a \in Seq(pool), NEW b \in Seq(pool), NEW c \in Seq(pool)
    PROVE  Fine(Slate!Balanced(a, b, c, bn), pool, bn)
  <1> DEFINE free == Slate!Only(b, Allowed(bn))
             one  == Slate!WithFirst(<<>>, a, "A")
             two  == Slate!WithFirst(one, free, "B")
  <1>1. Fine(<<>>, pool, bn)
    BY NothingIsFine
  <1>2. "A" # "B" /\ "C" # "B" /\ Slate!Tracks = {"A", "B", "C"}
    BY DEF Slate!Tracks
  <1>3. free \in Seq(pool) /\ \A i \in DOMAIN free : ~ Slate!Banned(free[i], bn)
    BY FreeOf
  <1>4. Slate!Balanced(a, b, c, bn) = Slate!WithFirst(two, c, "C")
    BY DEF Slate!Balanced, Allowed
  <1> HIDE DEF free
  <1>5. Fine(one, pool, bn)
    BY <1>1, <1>2, WithFirstIsFine
  <1> HIDE DEF one
  <1>6. Fine(two, pool, bn)
    BY <1>2, <1>3, <1>5, WithFirstIsFine
  <1> HIDE DEF two
  <1>7. Fine(Slate!WithFirst(two, c, "C"), pool, bn)
    BY <1>2, <1>6, WithFirstIsFine
  <1> QED
    BY <1>4, <1>7

\* What a support slate promises of the candidates that are not banned.
FullOf(o, S) == Len(o) < ShowUpTo => \A s \in S : ~ Slate!Apart(s, o)
NewFirst(o, S) ==
    \A i \in DOMAIN o :
        kit[o[i].species].tiered \subseteq CoveredTo(o, i - 1)
        => \A s \in S : Slate!Apart(s, o) => kit[s].tiered \subseteq Slate!Covered(o)

\* Two passes: an option that brings nothing new is of the second, and the first has
\* ended with room, so that whoever was left out brought nothing either.
LEMMA SupportIsFine ==
    ASSUME Slate!BoundsAssumption, NEW pool \in SUBSET Found, NEW bn, NEW b \in Seq(pool),
           NEW S, \A s \in S : ~ Slate!Banned(s, bn) /\ \E i \in DOMAIN b : b[i] = s
    PROVE  /\ Fine(Slate!Support(b, bn), pool, bn)
           /\ FullOf(Slate!Support(b, bn), S)
           /\ NewFirst(Slate!Support(b, bn), S)
  <1> DEFINE free == Slate!Only(b, Allowed(bn))
             one  == Slate!WithAll(<<>>, free, "B", TRUE)
             two  == Slate!WithAll(one, free, "B", FALSE)
  <1>1. Fine(<<>>, pool, bn)
    BY NothingIsFine
  <1>2. "B" \in Slate!Tracks
    BY DEF Slate!Tracks
  <1>4. Slate!Support(b, bn) = two
    BY DEF Slate!Support, Allowed
  <1>0. free = Slate!Only(b, Allowed(bn))
    OBVIOUS
  <1> HIDE DEF free
  <1>3. /\ free \in Seq(pool)
        /\ \A i \in DOMAIN free : ~ Slate!Banned(free[i], bn)
        /\ \A i \in DOMAIN b : ~ Slate!Banned(b[i], bn) => \E j \in DOMAIN free : free[j] = b[i]
    BY <1>0, FreeOf
  <1>5. Fine(one, pool, bn) /\ Grown(<<>>, one, free, Len(free), TRUE)
    BY <1>1, <1>2, <1>3, PassIsFine
  <1> HIDE DEF one
  <1>6. Fine(two, pool, bn) /\ Grown(one, two, free, Len(free), FALSE)
    BY <1>2, <1>3, <1>5, PassIsFine
  <1> HIDE DEF two
  <1>7. \A s \in S : \E j \in 1 .. Len(free) : free[j] = s
    BY <1>3
  <1>8. FullOf(two, S)
    BY <1>6, <1>7 DEF Grown, FullOf
  <1>9. NewFirst(two, S)
    <2> SUFFICES ASSUME NEW i \in DOMAIN two,
                        kit[two[i].species].tiered \subseteq CoveredTo(two, i - 1),
                        NEW s \in S, Slate!Apart(s, two)
                 PROVE  kit[s].tiered \subseteq Slate!Covered(two)
      BY DEF NewFirst
    <2>0. /\ one \in Options /\ two \in Options /\ ShowUpTo \in Nat
          /\ Len(one) \in Nat /\ Len(two) \in Nat /\ Len(one) <= Len(two) /\ Len(two) <= ShowUpTo
          /\ DOMAIN one = 1 .. Len(one) /\ DOMAIN two = 1 .. Len(two)
          /\ \A k \in DOMAIN one : two[k] = one[k]
          /\ Len(<<>>) = 0
      BY <1>6 DEF Grown, Fine, Options, Slate!BoundsAssumption
    <2>1. ASSUME i \in DOMAIN one
          PROVE  FALSE
      <3>1. ~ kit[one[i].species].tiered \subseteq CoveredTo(one, i - 1)
        BY <1>5, <2>0, <2>1 DEF Grown
      <3>2. \A k \in 1 .. i - 1 : two[k] = one[k]
        BY <2>0, <2>1
      <3>3. CoveredTo(two, i - 1) = CoveredTo(one, i - 1) /\ two[i] = one[i]
        BY <2>0, <2>1, <3>2, CoveredToPrefix
      <3> QED
        BY <3>1, <3>3
    <2>2. Len(one) < ShowUpTo
      BY <2>0, <2>1
    <2>3. Slate!Apart(s, one)
      BY <2>0 DEF Slate!Apart
    <2>4. PICK j \in 1 .. Len(free) : free[j] = s
      BY <1>7
    <2>5. kit[s].tiered \subseteq Slate!Covered(one)
      BY <1>5, <2>2, <2>3, <2>4 DEF Grown
    <2>6. Slate!Covered(one) \subseteq Slate!Covered(two)
      <3>1. CoveredTo(two, Len(one)) = CoveredTo(one, Len(one))
        BY <2>0, CoveredToPrefix
      <3>2. CoveredTo(two, Len(one)) \subseteq CoveredTo(two, Len(two))
        BY <2>0, CoveredToGrows
      <3> QED
        BY <2>0, <3>1, <3>2, CoveredInAll
    <2> QED
      BY <2>5, <2>6
  <1> QED
    BY <1>4, <1>6, <1>8, <1>9

-----------------------------------------------------------------------------
(* The screens. *)

\* Those a support slate may have.
Wanted(g, b, l) ==
    {s \in Slate!Eligible(g, l) : Slate!On("B", s) /\ Slate!Strong("B", s) /\ ~ Slate!Banned(s, b)}

\* What is true of a screen made for a focus, rejections, bans and members.
SoundFor(x, f, g, b, l) ==
    /\ x.kind \in {"none", "completion_preference", "proposal", "candidate_selection"}
    /\ x.kind # "candidate_selection" => x.options = <<>>
    /\ x.kind = "candidate_selection" =>
         /\ Fine(x.options, Slate!Eligible(g, l), b)
         /\ f = "support" =>
              /\ FullOf(x.options, Wanted(g, b, l))
              /\ NewFirst(x.options, Wanted(g, b, l))

\* A selection of a pool is one of a larger pool.
LEMMA FineWiden ==
    ASSUME NEW p, NEW b, NEW small, NEW large, small \subseteq large, Fine(p, small, b)
    PROVE  Fine(p, large, b)
  BY DEF Fine

\* The screens without options.
LEMMA NoOptionsAreSound ==
    ASSUME NEW f, NEW g, NEW b, NEW l
    PROVE  /\ SoundFor(Slate!NoScreen, f, g, b, l)
           /\ SoundFor(Slate!Prompt, f, g, b, l)
           /\ SoundFor(Slate!Proposal, f, g, b, l)
  BY DEF SoundFor, Slate!NoScreen, Slate!Prompt, Slate!Proposal

\* A slate is sound for what it is made for (present_candidates).
LEMMA SlateIsSoundFor ==
    ASSUME Slate!FindsAssumption, Slate!BoundsAssumption, order \in RankedAs,
           NEW f \in Slate!Focuses, NEW g, NEW b, NEW l
    PROVE  SoundFor(Slate!Slate(f, g, b, l), f, g, b, l)
  <1> DEFINE E == Slate!Eligible(g, l)
             pool == UNION {Slate!Cut(E, t, f) : t \in Slate!Tracks}
             o == Slate!Selected(pool, f, b)
             W == Wanted(g, b, l)
  <1>1. E \in SUBSET Found
    BY DEF Slate!Eligible
  <1>2. pool \subseteq E
    <2> HIDE DEF E
    <2> QED
      BY <1>1, CutHas
  <1>3. pool \in SUBSET Found
    BY <1>1, <1>2
  <1>4. f = "support" => \A s \in E : Slate!On("B", s) => s \in pool
    <2>1. "B" \in Slate!Tracks
      BY DEF Slate!Tracks
    <2> HIDE DEF E
    <2> QED
      BY <1>1, <2>1, CutHas
  <1>5. Slate!Slate(f, g, b, l) = IF pool = {} THEN Slate!Proposal
                            ELSE [kind |-> "candidate_selection", options |-> o]
    BY Zenon DEF Slate!Slate
  <1> HIDE DEF E, pool
  <1>6. "A" \in Slate!Tracks /\ "B" \in Slate!Tracks /\ "C" \in Slate!Tracks
    BY DEF Slate!Tracks
  <1>7. /\ Slate!Ranked(pool, "A") \in Seq(pool)
        /\ Slate!Ranked(pool, "B") \in Seq(pool)
        /\ Slate!Ranked(pool, "C") \in Seq(pool)
        /\ \A s \in pool : Slate!On("B", s) /\ Slate!Strong("B", s)
              => \E j \in DOMAIN Slate!Ranked(pool, "B") : Slate!Ranked(pool, "B")[j] = s
    BY <1>3, <1>6, RankedHas
  <1>8. Fine(o, pool, b) /\ (f = "support" => FullOf(o, W) /\ NewFirst(o, W))
    <2>1. CASE f = "attacker"
      <3>1. o = Slate!Attacker(Slate!Ranked(pool, "A"), Slate!Ranked(pool, "C"))
        BY <2>1 DEF Slate!Selected
      <3> QED
        BY <3>1, <2>1, <1>3, <1>7, AttackerIsFine
    <2>2. CASE f = "balanced"
      <3>1. o = Slate!Balanced(Slate!Ranked(pool, "A"), Slate!Ranked(pool, "B"),
                               Slate!Ranked(pool, "C"), b)
        BY <2>2 DEF Slate!Selected
      <3> QED
        BY <3>1, <2>2, <1>3, <1>7, BalancedIsFine
    <2>3. CASE f = "support"
      <3>1. o = Slate!Support(Slate!Ranked(pool, "B"), b)
        BY <2>3 DEF Slate!Selected
      <3>2. \A s \in W :
                /\ ~ Slate!Banned(s, b)
                /\ \E i \in DOMAIN Slate!Ranked(pool, "B") : Slate!Ranked(pool, "B")[i] = s
        BY <2>3, <1>4, <1>7 DEF Wanted, E
      <3> HIDE DEF o, W
      <3> QED
        BY <3>1, <3>2, <1>3, <1>7, SupportIsFine
    <2> QED
      BY <2>1, <2>2, <2>3 DEF Slate!Focuses
  <1>9. Fine(o, E, b)
    BY <1>2, <1>8, FineWiden
  <1> HIDE DEF o, W
  <1>10. CASE pool = {}
    BY <1>5, <1>10, NoOptionsAreSound
  <1>11. CASE pool # {}
    <2> DEFINE x == [kind |-> "candidate_selection", options |-> o]
    <2>1. Slate!Slate(f, g, b, l) = x
      BY <1>5, <1>11
    <2>2. x.kind = "candidate_selection" /\ x.options = o
      OBVIOUS
    <2> HIDE DEF x
    <2>3. SoundFor(x, f, g, b, l)
      BY <2>2, <1>8, <1>9 DEF SoundFor, E, W
    <2> QED
      BY <2>1, <2>3
  <1> QED
    BY <1>10, <1>11

-----------------------------------------------------------------------------
(* The invariant. *)

SlateInv ==
    /\ kit \in FoundKits /\ order \in RankedAs
    /\ focus \in Slate!Focuses \union {"none"}
    /\ gone \subseteq Slate!Range(FamilyOf) /\ locked \subseteq Slate!Range(FamilyOf)
    /\ bans \subseteq AllNeeds
    /\ SoundFor(slate, focus, gone, bans, locked)

\* The properties follow.
LEMMA SlateInvIsSound ==
    ASSUME Slate!FindsAssumption, Slate!BoundsAssumption, SlateInv
    PROVE  /\ Slate!TypeOK /\ Slate!OptionsAreApart /\ Slate!BansHold
           /\ Slate!SupportIsFull /\ Slate!NewNeedsFirst
  <1> DEFINE o == slate.options
  <1>1. /\ slate.kind \in {"none", "completion_preference", "proposal", "candidate_selection"}
        /\ ~ Slate!Choosing => o = <<>>
        /\ Slate!Choosing => Fine(o, Slate!Eligible(gone, locked), bans)
        /\ focus = "support" /\ Slate!Choosing =>
              FullOf(o, Wanted(gone, bans, locked)) /\ NewFirst(o, Wanted(gone, bans, locked))
    BY DEF SlateInv, SoundFor, Slate!Choosing
  <1> HIDE DEF o
  <1>2. Fine(o, Slate!Eligible(gone, locked), bans)
    BY <1>1, NothingIsFine
  <1>3. Slate!TypeOK
    BY <1>1, <1>2 DEF Slate!TypeOK, SlateInv, Fine, Options, o
  <1>4. Slate!OptionsAreApart
    BY <1>2 DEF Slate!OptionsAreApart, Fine, Slate!Shown, Slate!Eligible, o
  <1>5. Slate!BansHold
    <2>1. ASSUME NEW i \in DOMAIN o, o[i].track = "B", NEW s, s = o[i].species
          PROVE  /\ (bans \ {SpeedNeed}) \intersect kit[s].serves = {}
                 /\ SpeedNeed \in bans => kit[s].serves # {SpeedNeed}
      <3>1. ~ Slate!Banned(s, bans) /\ s \in Found
        BY <2>1, <1>2 DEF Fine, Slate!Eligible
      <3>2. \A n \in bans : n # SpeedNeed => n \notin kit[s].serves
        BY <3>1 DEF Slate!Banned
      <3>3. SpeedNeed \in bans => Slate!Sticky(s) # {SpeedNeed}
        BY <3>1 DEF Slate!Banned
      <3>4. kit[s].tiered \subseteq kit[s].serves
        BY <3>1 DEF SlateInv, Slate!FindsAssumption
      <3> QED
        BY <3>2, <3>3, <3>4 DEF Slate!Sticky
    <2> QED
      BY <2>1 DEF Slate!BansHold, o
  <1>6. Slate!LeftOut = {s \in Wanted(gone, bans, locked) : Slate!Apart(s, o)}
    BY DEF Slate!LeftOut, Wanted, o
  <1>7. Slate!SupportIsFull
    BY <1>1, <1>6 DEF Slate!SupportIsFull, Slate!Supporting, FullOf, o
  <1>8. Slate!NewNeedsFirst
    <2> SUFFICES ASSUME Slate!Supporting, NEW i \in DOMAIN o,
                        kit[o[i].species].tiered \subseteq Slate!Covered(SubSeq(o, 1, i - 1)),
                        NEW s \in Slate!LeftOut
                 PROVE  kit[s].tiered \subseteq Slate!Covered(o)
      BY DEF Slate!NewNeedsFirst, o
    <2> DEFINE h == SubSeq(o, 1, i - 1)
    <2>0. o \in Options /\ Len(o) \in Nat /\ DOMAIN o = 1 .. Len(o)
      BY <1>2 DEF Fine, Options
    <2>1. i - 1 \in Nat /\ 1 .. i - 1 \subseteq DOMAIN o
      BY <2>0
    <2>2. h = [k \in 1 .. (i - 1) |-> o[k]]
      BY <2>0, <2>1 DEF Options
    <2>3. DOMAIN h = 1 .. i - 1 /\ \A k \in 1 .. i - 1 : h[k] = o[k]
      BY <2>2
    <2> HIDE DEF h
    <2>4. Slate!Covered(h) = CoveredTo(o, i - 1)
      BY <2>3 DEF Slate!Covered, CoveredTo
    <2> QED
      BY <1>1, <1>6, <2>4 DEF Slate!Supporting, NewFirst, h
  <1> QED
    BY <1>3, <1>4, <1>5, <1>7, <1>8

\* The first screen.
LEMMA SlateInit ==
    ASSUME Slate!Init
    PROVE  SlateInv
  <1>1. SoundFor(Slate!NoScreen, focus, gone, bans, locked)
    BY NoOptionsAreSound
  <1> QED
    BY <1>1 DEF Slate!Init, SlateInv

\* A screen is sound for what it was made for whatever comes after it.
LEMMA SoundForKit ==
    ASSUME kit' = kit, SoundFor(slate', focus', gone', bans', locked')
    PROVE  SoundFor(slate, focus, gone, bans, locked)'
  <1>1. Wanted(gone, bans, locked)' = Wanted(gone', bans', locked')
    BY DEF Wanted, Slate!Eligible, Slate!On, Slate!Strong, Slate!Benefits, Slate!Banned, Slate!Sticky
  <1>2. Slate!Covered(slate.options)' = Slate!Covered(slate'.options)
    BY DEF Slate!Covered
  <1>3. \A k : CoveredTo(slate.options, k)' = CoveredTo(slate'.options, k)
    BY DEF CoveredTo
  <1>4. Slate!Eligible(gone, locked)' = Slate!Eligible(gone', locked')
    BY DEF Slate!Eligible
  <1>5. Fine(slate.options, Slate!Eligible(gone, locked), bans)'
        <=> Fine(slate'.options, Slate!Eligible(gone', locked'), bans')
    BY <1>4 DEF Fine, Slate!Banned, Slate!Sticky, Options
  <1>6. FullOf(slate.options, Wanted(gone, bans, locked))'
        <=> FullOf(slate'.options, Wanted(gone', bans', locked'))
    BY <1>1 DEF FullOf, Slate!Apart
  <1>7. NewFirst(slate.options, Wanted(gone, bans, locked))'
        <=> NewFirst(slate'.options, Wanted(gone', bans', locked'))
    BY <1>1, <1>2, <1>3 DEF NewFirst, Slate!Apart
  <1> QED
    BY <1>5, <1>6, <1>7 DEF SoundFor

\* Every reply is answered by a slate made for the state it leaves.
LEMMA SlateStep ==
    ASSUME Slate!FindsAssumption, Slate!BoundsAssumption, SlateInv, [Slate!Next]_Slate!vars
    PROVE  SlateInv'
  <1>1. CASE UNCHANGED Slate!vars
    <2>1. SoundFor(slate', focus', gone', bans', locked') /\ kit' = kit
      BY <1>1 DEF Slate!vars, SlateInv
    <2>2. SoundFor(slate, focus, gone, bans, locked)'
      BY <2>1, SoundForKit
    <2> QED
      BY <1>1, <2>2 DEF Slate!vars, SlateInv
  <1>2. CASE Slate!Next
    <2>1. /\ kit' = kit
          /\ focus' \in Slate!Focuses \union {"none"}
          /\ gone' \subseteq Slate!Range(FamilyOf) /\ locked' \subseteq Slate!Range(FamilyOf)
          /\ bans' \subseteq AllNeeds
      BY <1>2 DEF Slate!Next, Slate!Continue, Slate!AnswerFocus, Slate!Refocus, Slate!Defer,
            Slate!Reject, Slate!Choose, Slate!RejectBecause, Slate!RejectNeed, SlateInv,
            Slate!Focuses, Slate!Range, Slate!FindsAssumption
    <2>2. Slate!Discover \/ slate' \in {Slate!Prompt, Slate!NoScreen}
      BY <1>2 DEF Slate!Next, Slate!Continue, Slate!AnswerFocus, Slate!Refocus, Slate!Defer,
            Slate!Reject, Slate!Choose, Slate!RejectBecause, Slate!RejectNeed
    <2>3. order' \in RankedAs
      BY <1>2 DEF Slate!Next, Slate!Continue, Slate!AnswerFocus, Slate!Refocus, Slate!Defer,
            Slate!Reject, Slate!Choose, Slate!RejectBecause, Slate!RejectNeed, Slate!Discover,
            SlateInv
    <2>4. SoundFor(slate', focus', gone', bans', locked')
      <3>1. CASE slate' \in {Slate!Prompt, Slate!NoScreen}
        BY <3>1, NoOptionsAreSound
      <3>2. CASE Slate!Discover /\ focus' = "none" /\ slate' # Slate!Prompt
        <4>1. slate' = Slate!Slate("balanced", gone', bans', locked')
          BY <3>2 DEF Slate!Discover
        <4>2. SoundFor(slate', "balanced", gone', bans', locked')
          BY <4>1, SlateIsSoundFor DEF SlateInv, Slate!Focuses
        <4> QED
          BY <4>2, <3>2 DEF SoundFor
      <3>3. CASE Slate!Discover /\ focus' # "none"
        <4>1. slate' = Slate!Slate(focus', gone', bans', locked') /\ focus' \in Slate!Focuses
          BY <3>3, <2>1 DEF Slate!Discover
        <4> QED
          BY <4>1, SlateIsSoundFor DEF SlateInv
      <3> QED
        BY <2>2, <3>1, <3>2, <3>3
    <2>5. SoundFor(slate, focus, gone, bans, locked)'
      BY <2>1, <2>4, SoundForKit
    <2> QED
      BY <2>1, <2>3, <2>5 DEF SlateInv
  <1> QED
    BY <1>1, <1>2

\* No two options are of one family, none is of a rejected or a locked one or
\* offered for a banned need, and a support slate is short only when nobody is
\* left and repeats nothing while someone brings something new, for any
\* species, families, rankings, cuts and sizes (team_candidates.py,
\* slot_fill.py).
THEOREM SlatesStaySound == RepliesSpec => []SlateIsSound
  <1>0. Slate!FindsAssumption /\ Slate!BoundsAssumption
    BY RepliesAssumption
  <1>1. RepliesInit => SlateInv
    <2>1. RepliesInit => Slate!Init
      BY Zenon DEF RepliesInit, Slate!Init
    <2> QED
      BY <2>1, SlateInit
  <1>2. SlateInv /\ [RepliesNext]_<<part, vars, reply, filled, offer>> => SlateInv'
    <2>1. [RepliesNext]_<<part, vars, reply, filled, offer>> => [Slate!Next]_Slate!vars
      BY Zenon DEF RepliesNext, offer, Slate!vars
    <2> QED
      BY <1>0, <2>1, SlateStep
  <1>3. SlateInv => SlateIsSound
    BY <1>0, SlateInvIsSound DEF SlateIsSound
  <1> QED
    BY <1>1, <1>2, <1>3, PTL DEF RepliesSpec
=============================================================================
