----------------------------- MODULE SpreadFill -----------------------------
(***************************************************************************)
(* The two loops that complete a spread to SP_BUDGET point by point:       *)
(* sp_convert.evs_to_sp, which turns the EVs of another game into stat     *)
(* points, and recommend._allocate_remainder, which spends what a partial  *)
(* build leaves over.  Both add one point to the stat that is worst off,   *)
(* the first of them in a tie, until the need is met or no stat can take   *)
(* one.  A run of the machine is one call.                                 *)
(***************************************************************************)
EXTENDS Integers

CONSTANTS
    Cap,            \* most points of a stat (32)
    Budget,         \* SP_BUDGET (66)
    Grain,          \* EVs per point (8)
    FullEvs,        \* a source with this many EVs spent all of them (508)
    MaxEvs,         \* most EVs of a stat in the other game (252)
    EvInputs,       \* EVs a source may give
    Partials,       \* spreads a build may leave incomplete
    Targets         \* the values of _ROLE_SPREADS

Stats == {"hp", "atk", "def", "spa", "spd", "spe"}

\* The order of _STATS and _STAT_KEYS, which decides ties.
Rank == [hp |-> 1, atk |-> 2, def |-> 3, spa |-> 4, spd |-> 5, spe |-> 6]

Total(s) == s["hp"] + s["atk"] + s["def"] + s["spa"] + s["spd"] + s["spe"]

FillAssumption ==
    /\ Cap \in Nat
    /\ Budget \in Nat
    /\ Grain \in Nat \ {0}
    /\ FullEvs \in Nat
    /\ MaxEvs \in Nat
    /\ EvInputs \subseteq [Stats -> Nat]
    /\ Partials \subseteq {s \in [Stats -> 0 .. Cap] : Total(s) \in 1 .. Budget - 1}
    /\ Targets \subseteq {s \in [Stats -> 0 .. Cap] : Total(s) = Budget}

VARIABLES
    algo,       \* the function called
    given,      \* its argument
    target,     \* the role's spread (_allocate_remainder)
    sp,         \* the points so far
    need        \* how many are still to be added

vars == <<algo, given, target, sp, need>>

-----------------------------------------------------------------------------

AtMost(a, b) == IF a < b THEN a ELSE b
AtLeast(a, b) == IF a > b THEN a ELSE b

\* Python's round(): a tie goes to the even neighbour.
Rounded(ev) ==
    LET q == ev \div Grain
        r == ev % Grain
    IN  IF 2 * r > Grain \/ (2 * r = Grain /\ q % 2 = 1) THEN q + 1 ELSE q

\* evs_to_sp: how much of a point a stat has lost (in EVs).
Loss(k) == AtMost(Cap * Grain, given[k]) - Grain * sp[k]

\* The stats a point may go to, and the weight the largest of which takes it.
Takers ==
    IF algo = "evs_to_sp"
    THEN {k \in Stats : given[k] > 0 /\ sp[k] < Cap}
    ELSE LET deficits == {k \in Stats : sp[k] < Cap /\ target[k] > sp[k]}
         IN  IF deficits # {} THEN deficits ELSE {k \in Stats : sp[k] < Cap}

Weight(k) ==
    IF algo = "evs_to_sp" THEN Loss(k)
    ELSE IF \E j \in Stats : sp[j] < Cap /\ target[j] > sp[j]
         THEN target[k] - sp[k]
         ELSE Cap - sp[k]

Worst == {k \in Takers : \A j \in Takers \ {k} :
            \/ Weight(k) > Weight(j)
            \/ Weight(k) = Weight(j) /\ Rank[k] < Rank[j]}

AddPoint ==
    /\ need > 0
    /\ \E k \in Worst : sp' = [sp EXCEPT ![k] = @ + 1]
    /\ need' = need - 1
    /\ UNCHANGED <<algo, given, target>>

\* No stat can take a point: the loop is left with less than the budget.
GiveUp ==
    /\ need > 0
    /\ Takers = {}
    /\ need' = 0
    /\ UNCHANGED <<algo, given, target, sp>>

\* (for mutation) a source that spends exactly FullEvs is not taken for full
CallEvs_OffByOne ==
    /\ algo = "evs_to_sp"
    /\ given \in EvInputs
    /\ target = given
    /\ sp = [k \in Stats |-> AtMost(Cap, Rounded(given[k]))]
    /\ need = IF Total(given) <= FullEvs THEN 0 ELSE AtLeast(0, Budget - Total(sp))

CallEvs ==
    /\ algo = "evs_to_sp"
    /\ given \in EvInputs
    /\ target = given
    /\ sp = [k \in Stats |-> AtMost(Cap, Rounded(given[k]))]
    /\ need = IF Total(given) < FullEvs THEN 0 ELSE AtLeast(0, Budget - Total(sp))

CallRemainder ==
    /\ algo = "allocate_remainder"
    /\ given \in Partials
    /\ target \in Targets
    /\ sp = given
    /\ need = Budget - Total(given)

Init == CallEvs \/ CallRemainder

Next == AddPoint \/ GiveUp

Spec == Init /\ [][Next]_vars /\ WF_vars(Next)

-----------------------------------------------------------------------------
(* Properties                                                              *)

Done == need = 0

\* Type invariant: no stat ever has more than Cap points.
TypeOK ==
    /\ algo \in {"evs_to_sp", "allocate_remainder"}
    /\ sp \in [Stats -> 0 .. Cap]
    /\ need \in 0 .. Budget

\* A source that spent all its EVs, and a partial build, end exactly on the
\* budget, without which commit_full_slot would refuse the build much later.
\* A source that spent less keeps the points it has.  (The sources are pages
\* of a web site; one that breaks the rules of its game may end short.)
EndsOnBudget ==
    Done =>
        IF algo = "evs_to_sp" /\ Total(given) < FullEvs
        THEN \A k \in Stats : sp[k] = AtMost(Cap, Rounded(given[k]))
        ELSE \/ Total(sp) = Budget
             \/ algo = "evs_to_sp" /\ \E k \in Stats : given[k] > MaxEvs

\* The conversion does not turn the source's priorities around: a stat with
\* more EVs never ends with fewer points, whatever rounding and the cap did.
OrderIsKept ==
    algo = "evs_to_sp" =>
        \A j, k \in Stats : given[j] > given[k] => sp[j] >= sp[k]

\* A partial build that is short of its role's spread becomes that spread,
\* and any other is topped up to it before points go elsewhere.
RoleComesFirst ==
    algo = "allocate_remainder" =>
        /\ \A k \in Stats : sp[k] >= given[k]
        /\ (\E k \in Stats : sp[k] > AtLeast(given[k], target[k])) =>
              \A k \in Stats : sp[k] >= target[k]
        /\ Done /\ (\A k \in Stats : given[k] <= target[k]) => sp = target

\* Every call returns.
Returns == <>Done
=============================================================================
