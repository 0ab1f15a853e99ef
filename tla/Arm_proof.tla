------------------------------ MODULE Arm_proof ------------------------------
(***************************************************************************)
(* The evaluation arm, for any number of slots and calls, any species,     *)
(* items and messages, and any calls of set_slot: the user decides, stale  *)
(* screens are refused, nothing turned down is offered, no species is      *)
(* twice in the team, and two slots come to share an item only when a call *)
(* replaces what it has set itself.                                        *)
(*                                                                         *)
(* set_slot checks its requests on a copy and writes another team.  What   *)
(* relates the two (Faithful) holds after every request                    *)
(* (CheckedStaysFaithful); the writes keep the clauses because the copy    *)
(* does, value for value but for the items of overlaid slots.  From        *)
(* the first request to the last it is an induction, made here on the set  *)
(* of the numbers of requests for which it holds (SetInduction).  Every    *)
(* tool then does only what Permitted says, and the properties are read    *)
(* off it.                                                                 *)
(***************************************************************************)
EXTENDS ArmTurn, WellFoundedInduction, TLAPS

-----------------------------------------------------------------------------
(* The natural numbers.                                                    *)

\* The order of the naturals has no endless descent (WellFoundedInduction).
LEMMA Descends == \A x, y \in Nat : x < y => <<x, y>> \in OpToRel(<, Nat)
  BY DEF OpToRel

\* A nonempty set of naturals has a least member: what Min picks.
LEMMA MinIsInIt ==
    ASSUME NEW S \in SUBSET Nat, S # {}
    PROVE  Min(S) \in S
  <1>1. PICK x \in S : \A y \in S : ~ (<<y, x>> \in OpToRel(<, Nat))
    BY WFMin, NatLessThanWellFounded
  <1>2. \A y \in S : x <= y
    <2> TAKE y \in S
    <2>1. x \in Nat /\ y \in Nat
      OBVIOUS
    <2>2. ~ (y < x)
      BY <1>1, <2>1, Descends
    <2> QED
      BY <2>1, <2>2
  <1> QED
    BY <1>2 DEF Min

\* A set with 0 that has n + 1 whenever it has n has every natural.
LEMMA SetInduction ==
    ASSUME NEW S, 0 \in S, \A n \in Nat : n \in S => n + 1 \in S
    PROVE  Nat \subseteq S
  <1> SUFFICES ASSUME ~ (Nat \subseteq S)
               PROVE  FALSE
    OBVIOUS
  <1> DEFINE T == Nat \ S
  <1>1. T \subseteq Nat /\ T # {}
    OBVIOUS
  <1>2. PICK x \in T : \A y \in T : ~ (<<y, x>> \in OpToRel(<, Nat))
    BY <1>1, WFMin, NatLessThanWellFounded
  <1>3. x # 0 /\ x \in Nat
    OBVIOUS
  <1>4. x - 1 \in Nat /\ x - 1 < x /\ (x - 1) + 1 = x
    BY <1>3
  <1>5. x - 1 \in T
    BY <1>3, <1>4
  <1> QED
    BY <1>2, <1>3, <1>4, <1>5, Descends

-----------------------------------------------------------------------------
(* set_slot, request by request.                                           *)

\* What two slots of c share they share in t.
NothingNewShared(t, c) ==
    \A s, o \in Slots : \A item \in Items :
        s # o /\ Shares(c, s, o, item) => Shares(t, s, o, item)

\* What is true of the copy and of what is written after i requests of a batch.
Faithful(p, batch, i) ==
    /\ p \in [copy : Teams, written : Teams, reserved : SUBSET Slots, ok : BOOLEAN]
    /\ p.ok =>
         /\ SpeciesApart(team) => SpeciesApart(p.copy)
         /\ NothingNewShared(team, p.copy)
         /\ LocksHoldValues(p.written)
         /\ \A s \in Slots :
                /\ p.written[s].species.value = p.copy[s].species.value
                /\ s \notin Overlaid(batch) => p.written[s].item.value \in {p.copy[s].item.value, None}
                /\ p.written[s].species.locked => p.written[s].species = team[s].species
                /\ s \notin p.reserved => p.copy[s] = team[s] /\ p.written[s] = team[s]
                /\ s \in p.reserved => \E j \in 1 .. i : batch[j].slot \in {s, None}
         /\ (\A j \in 1 .. i : ~ batch[j].replace) =>
                \A s \in Slots :
                    team[s].species.value # None
                    => p.written[s].species.value = team[s].species.value

\* A request is for a slot of the team, and if it replaces in one that is not
\* overlaid, no request before it is for that one.
LEMMA TargetIsASlot ==
    ASSUME NEW batch \in Seq(Requests),
           NEW i \in DOMAIN batch, NEW p, Faithful(p, batch, i - 1), p.ok,
           NEW s \in Target(batch[i], p)
    PROVE  /\ s \in Slots
           /\ batch[i].slot \in {s, None}
           /\ s \notin Overlaid(batch) /\ batch[i].replace => s \notin p.reserved
  <1> DEFINE req == batch[i]
  <1>1. req \in Requests /\ i \in Nat /\ i >= 1
    OBVIOUS
  <1>2. req.slot \in Slots \cup {None}
    BY <1>1 DEF Requests
  <1>3. CASE req.slot # None
    <2>1. s = req.slot
      BY <1>3 DEF Target
    <2>2. ASSUME s \notin Overlaid(batch), req.replace, s \in p.reserved
          PROVE  FALSE
      <3>1. PICK j \in 1 .. (i - 1) : batch[j].slot \in {s, None}
        BY <2>2, <2>1, <1>2, <1>3 DEF Faithful
      <3>2. j \in DOMAIN batch /\ j < i
        BY <3>1, <1>1
      <3> QED
        BY <3>1, <3>2, <2>1, <2>2, <1>2, <1>3 DEF Overlaid
    <2> QED
      BY <2>1, <2>2, <1>2, <1>3
  <1>4. CASE req.slot = None
    <2> DEFINE open == {x \in Slots \ p.reserved : Blank(p.copy[x])}
    <2>1. open # {} /\ s = Min(open)
      BY <1>4 DEF Target
    <2>2. open \subseteq Nat
      BY DEF Slots
    <2>3. s \in open
      BY <2>1, <2>2, MinIsInIt
    <2> QED
      BY <2>3, <1>4
  <1> QED
    BY <1>3, <1>4

\* What Copied and Written leave in the slot of the request, and that they
\* leave the others alone.
LEMMA CopyOfARequest ==
    ASSUME ArmAssumption, NEW req \in Requests, NEW s \in Slots, NEW t \in Teams
    PROVE  LET c == Copied(req, s, t) IN
           /\ c \in Teams
           /\ \A o \in Slots \ {s} : c[o] = t[o]
           /\ c[s].species.value = IF req.species # None THEN req.species ELSE t[s].species.value
           /\ c[s].item.value =
                  IF req.item # None THEN req.item
                  ELSE IF Swaps(req, t[s]) THEN None ELSE t[s].item.value
  <1> DEFINE base == IF Swaps(req, t[s]) THEN EmptySlot ELSE t[s]
             named == IF req.species # None THEN [base EXCEPT !.species = Locked(req.species)] ELSE base
             given == IF req.item # None THEN [named EXCEPT !.item = Locked(req.item)] ELSE named
  <1>0. t[s] \in Slot /\ req.species \in Species \cup {None} /\ req.item \in Items \cup {None}
    BY DEF Teams, Requests
  <1>1. base \in Slot
    BY <1>0 DEF Slot, Attr, EmptySlot, Empty
  <1>2. /\ named \in Slot /\ named.item = base.item
        /\ req.species # None => named.species = Locked(req.species)
        /\ req.species = None => named = base
    BY <1>0, <1>1 DEF Slot, Attr, Locked
  <1>3. /\ given \in Slot /\ given.species = named.species
        /\ req.item # None => given.item = Locked(req.item)
        /\ req.item = None => given = named
    <2> HIDE DEF named
    <2> QED
      BY <1>0, <1>2 DEF Slot, Attr, Locked
  <1>4. Copied(req, s, t) = [t EXCEPT ![s] = given]
    BY DEF Copied
  <1>5. /\ req.species # None => given.species.value = req.species
        /\ req.item # None => given.item.value = req.item
    BY <1>2, <1>3 DEF Locked
  <1>6. req.species = None => given.species.value = t[s].species.value
    BY <1>2, <1>3 DEF Swaps
  <1>7. req.item = None => given.item.value = IF Swaps(req, t[s]) THEN None ELSE t[s].item.value
    BY <1>2, <1>3 DEF EmptySlot, Empty
  <1> HIDE DEF given
  <1>8. /\ [t EXCEPT ![s] = given] \in Teams
        /\ [t EXCEPT ![s] = given][s] = given
        /\ \A o \in Slots \ {s} : [t EXCEPT ![s] = given][o] = t[o]
    BY <1>3 DEF Teams
  <1> QED
    BY <1>4, <1>5, <1>6, <1>7, <1>8

LEMMA WriteOfARequest ==
    ASSUME ArmAssumption, NEW req \in Requests, NEW s \in Slots, NEW t \in Teams
    PROVE  LET w == Written(req, s, t)
               empties == req.replace /\ req.species # None /\ team[s].species.value # None
           IN
           /\ w \in Teams
           /\ \A o \in Slots \ {s} : w[o] = t[o]
           /\ w[s].species = IF req.species # None THEN Draft(req.species) ELSE t[s].species
           /\ w[s].item =
                  IF req.item # None THEN Draft(req.item)
                  ELSE IF empties THEN Empty ELSE t[s].item
  <1> DEFINE empties == req.replace /\ req.species # None /\ team[s].species.value # None
             base == IF empties THEN EmptySlot ELSE t[s]
             named == IF req.species # None THEN [base EXCEPT !.species = Draft(req.species)] ELSE base
             given == IF req.item # None THEN [named EXCEPT !.item = Draft(req.item)] ELSE named
  <1>0. t[s] \in Slot /\ req.species \in Species \cup {None} /\ req.item \in Items \cup {None}
    BY DEF Teams, Requests
  <1>1. base \in Slot /\ base.item = IF empties THEN Empty ELSE t[s].item
    BY <1>0 DEF Slot, Attr, EmptySlot, Empty
  <1>2. /\ named \in Slot /\ named.item = base.item
        /\ req.species # None => named.species = Draft(req.species)
        /\ req.species = None => named = t[s]
    BY <1>0, <1>1 DEF Slot, Attr, Draft
  <1>3. /\ given \in Slot /\ given.species = named.species
        /\ req.item # None => given.item = Draft(req.item)
        /\ req.item = None => given = named
    <2> HIDE DEF named
    <2> QED
      BY <1>0, <1>2 DEF Slot, Attr, Draft
  <1>4. Written(req, s, t) = [t EXCEPT ![s] = given]
    BY DEF Written
  <1>5. /\ given.species = IF req.species # None THEN Draft(req.species) ELSE t[s].species
        /\ given.item = IF req.item # None THEN Draft(req.item)
                        ELSE IF empties THEN Empty ELSE t[s].item
    BY <1>1, <1>2, <1>3
  <1> HIDE DEF given
  <1>8. /\ [t EXCEPT ![s] = given] \in Teams
        /\ [t EXCEPT ![s] = given][s] = given
        /\ \A o \in Slots \ {s} : [t EXCEPT ![s] = given][o] = t[o]
    BY <1>3 DEF Teams
  <1> QED
    BY <1>4, <1>5, <1>8

\* Species and items stay apart if one slot changes that keeps, drops or checks
\* its values.
LEMMA SpeciesSlotChange ==
    ASSUME NEW t, NEW c, NEW s \in Slots, SpeciesApart(t),
           \A o \in Slots \ {s} : c[o] = t[o],
           \/ c[s].species.value \in {t[s].species.value, None}
           \/ SpeciesFree(c[s].species.value, s, t)
    PROVE  SpeciesApart(c)
  <1>1. c[s].species.value # None => SpeciesFree(c[s].species.value, s, t)
    BY DEF SpeciesApart
  <1>2. c[s].species.value # None => SpeciesFree(c[s].species.value, s, c)
    BY <1>1 DEF SpeciesFree
  <1>3. ASSUME NEW o \in Slots \ {s}, c[o].species.value # None
        PROVE  SpeciesFree(c[o].species.value, o, c)
    <2>1. c[s].species.value # c[o].species.value
      BY <1>1, <1>3 DEF SpeciesFree
    <2>2. SpeciesFree(c[o].species.value, o, t)
      BY <1>3 DEF SpeciesApart
    <2> QED
      BY <2>1, <2>2, <1>3 DEF SpeciesFree
  <1> QED
    BY <1>2, <1>3 DEF SpeciesApart

LEMMA ItemSlotChange ==
    ASSUME ArmAssumption, NEW t, NEW c, NEW s \in Slots,
           \A o \in Slots \ {s} : c[o] = t[o],
           \/ c[s].item.value \in {t[s].item.value, None}
           \/ ItemFree(c[s].item.value, s, t)
    PROVE  NothingNewShared(t, c)
  <1> SUFFICES ASSUME NEW a \in Slots, NEW b \in Slots, NEW item \in Items,
                      a # b, c[a].item.value = item, c[b].item.value = item
               PROVE  t[a].item.value = item /\ t[b].item.value = item
    BY DEF NothingNewShared, Shares
  <1>1. item # None
    BY DEF ArmAssumption
  <1>2. CASE a # s /\ b # s
    BY <1>2
  <1>3. ASSUME NEW o \in Slots \ {s}, c[s].item.value = item, c[o].item.value = item
        PROVE  t[s].item.value = item /\ t[o].item.value = item
    BY <1>1, <1>3 DEF ItemFree
  <1> QED
    BY <1>2, <1>3

\* A team that holds what another holds, or less, in some of its slots.
LEMMA SpeciesOfSame ==
    ASSUME NEW t, NEW c, SpeciesApart(c),
           \A s \in Slots : t[s].species.value = c[s].species.value
    PROVE  SpeciesApart(t)
  BY DEF SpeciesApart, SpeciesFree

LEMMA ItemsOfLess ==
    ASSUME ArmAssumption, NEW t, NEW c, NEW w, NothingNewShared(t, c),
           NEW s \in Slots, NEW o \in Slots, NEW item \in Items, s # o, Shares(w, s, o, item),
           w[s].item.value \in {c[s].item.value, None}, w[o].item.value \in {c[o].item.value, None}
    PROVE  Shares(t, s, o, item)
  <1>1. item # None
    BY DEF ArmAssumption
  <1>2. Shares(c, s, o, item)
    BY <1>1 DEF Shares
  <1> QED
    BY <1>2 DEF NothingNewShared

\* One request more.
LEMMA CheckedStaysFaithful ==
    ASSUME ArmAssumption, team \in Teams,
           NEW batch \in Seq(Requests),
           NEW i \in DOMAIN batch, NEW p, Faithful(p, batch, i - 1), p.ok
    PROVE  Faithful(Checked(batch[i], p), batch, i)
  <1> DEFINE req == batch[i]
             s == CHOOSE x \in Target(req, p) : TRUE
             q == Checked(req, p)
             c == Copied(req, s, p.copy)
             w == Written(req, s, p.written)
  <1>1. /\ req \in Requests /\ i \in Nat /\ i >= 1
        /\ p \in [copy : Teams, written : Teams, reserved : SUBSET Slots, ok : BOOLEAN]
    BY DEF Faithful
  <1>2. CASE Target(req, p) = {} \/ Refused(req, s, p.copy)
    <2>1. q = [p EXCEPT !.ok = FALSE]
      BY <1>2 DEF Checked
    <2>2. ~ q.ok /\ q \in [copy : Teams, written : Teams, reserved : SUBSET Slots, ok : BOOLEAN]
      BY <2>1, <1>1
    <2> QED
      BY <2>2 DEF Faithful
  <1>3. CASE Target(req, p) # {} /\ ~ Refused(req, s, p.copy)
    <2>1. q = [copy |-> c, written |-> w, reserved |-> p.reserved \cup {s}, ok |-> TRUE]
      BY <1>3 DEF Checked
    <2>2. s \in Target(req, p)
      BY <1>3
    <2>3. /\ s \in Slots /\ req.slot \in {s, None}
          /\ s \notin Overlaid(batch) /\ req.replace => s \notin p.reserved
      BY <2>2, TargetIsASlot
    <2> HIDE DEF s
    <2>4. /\ c \in Teams
          /\ \A o \in Slots \ {s} : c[o] = p.copy[o]
          /\ c[s].species.value = IF req.species # None THEN req.species ELSE p.copy[s].species.value
          /\ c[s].item.value =
                 IF req.item # None THEN req.item
                 ELSE IF Swaps(req, p.copy[s]) THEN None ELSE p.copy[s].item.value
      BY <2>3, <1>1, CopyOfARequest
    <2> DEFINE empties == req.replace /\ req.species # None /\ team[s].species.value # None
    <2>5. /\ w \in Teams
          /\ \A o \in Slots \ {s} : w[o] = p.written[o]
          /\ w[s].species = IF req.species # None THEN Draft(req.species) ELSE p.written[s].species
          /\ w[s].item = IF req.item # None THEN Draft(req.item)
                         ELSE IF empties THEN Empty ELSE p.written[s].item
      BY <2>3, <1>1, WriteOfARequest
    <2>6. /\ q \in [copy : Teams, written : Teams, reserved : SUBSET Slots, ok : BOOLEAN]
          /\ q.copy = c /\ q.written = w /\ q.reserved = p.reserved \cup {s}
      BY <2>1, <2>3, <2>4, <2>5, <1>1
    <2> HIDE DEF c, w, q, empties
    <2>7. SpeciesApart(team) => SpeciesApart(c)
      <3>1. \/ c[s].species.value \in {p.copy[s].species.value, None}
            \/ SpeciesFree(c[s].species.value, s, p.copy)
        BY <2>4, <1>3 DEF Refused
      <3> QED
        BY <3>1, <2>3, <2>4, SpeciesSlotChange DEF Faithful
    <2>15. NothingNewShared(team, c)
      <3>1. \/ c[s].item.value \in {p.copy[s].item.value, None}
            \/ ItemFree(c[s].item.value, s, p.copy)
        BY <2>4, <1>3 DEF Refused
      <3>2. NothingNewShared(p.copy, c)
        BY <3>1, <2>3, <2>4, ItemSlotChange
      <3>3. NothingNewShared(team, p.copy)
        BY DEF Faithful
      <3> QED
        BY <3>2, <3>3 DEF NothingNewShared
    <2>8. LocksHoldValues(w)
      BY <2>5, <2>3 DEF LocksHoldValues, Faithful, Draft, Empty
    <2>9. w[s].species.value = c[s].species.value
      BY <2>3, <2>4, <2>5 DEF Draft, Faithful
    <2>14. ASSUME s \notin Overlaid(batch)
           PROVE  w[s].item.value \in {c[s].item.value, None}
      <3>2. CASE req.item # None
        BY <3>2, <2>4, <2>5 DEF Draft
      <3>3. CASE req.item = None /\ empties
        BY <3>3, <2>5 DEF Empty
      <3>4. CASE req.item = None /\ ~ empties
        <4>1. ~ Swaps(req, p.copy[s])
          <5> SUFFICES ASSUME Swaps(req, p.copy[s])
                       PROVE  FALSE
            OBVIOUS
          <5>1. req.replace
            BY <1>3 DEF Refused
          <5>2. p.copy[s] = team[s]
            BY <5>1, <2>3, <2>14 DEF Faithful
          <5> QED
            BY <5>1, <5>2, <3>4 DEF Swaps, empties
        <4>2. p.written[s].item.value \in {p.copy[s].item.value, None}
          BY <2>3, <2>14 DEF Faithful
        <4> QED
          BY <4>1, <4>2, <3>4, <2>4, <2>5
      <3> QED
        BY <3>2, <3>3, <3>4
    <2>10. \A o \in Slots :
             /\ w[o].species.value = c[o].species.value
             /\ o \notin Overlaid(batch) => w[o].item.value \in {c[o].item.value, None}
             /\ w[o].species.locked => w[o].species = team[o].species
      BY <2>9, <2>14, <2>3, <2>4, <2>5 DEF Faithful, Draft
    <2>11. \A o \in Slots :
             /\ o \notin p.reserved \cup {s} => c[o] = team[o] /\ w[o] = team[o]
             /\ o \in p.reserved \cup {s} => \E j \in 1 .. i : batch[j].slot \in {o, None}
      <3> TAKE o \in Slots
      <3>1. CASE o = s
        BY <3>1, <2>3, <1>1
      <3>2. CASE o # s /\ o \in p.reserved
        <4>1. PICK j \in 1 .. (i - 1) : batch[j].slot \in {o, None}
          BY <3>2 DEF Faithful
        <4>2. j \in 1 .. i
          BY <4>1, <1>1
        <4> QED
          BY <4>1, <4>2, <3>2
      <3>3. CASE o # s /\ o \notin p.reserved
        BY <3>3, <2>4, <2>5 DEF Faithful
      <3> QED
        BY <3>1, <3>2, <3>3
    <2>12. ASSUME \A j \in 1 .. i : ~ batch[j].replace,
                  NEW o \in Slots, team[o].species.value # None
           PROVE  w[o].species.value = team[o].species.value
      <3>1. ~ req.replace /\ \A j \in 1 .. (i - 1) : ~ batch[j].replace
        BY <2>12, <1>1
      <3>2. p.written[o].species.value = team[o].species.value
        BY <3>1, <2>12 DEF Faithful
      <3>3. CASE o # s
        BY <3>2, <3>3, <2>5
      <3>4. CASE o = s
        <4>1. ~ Swaps(req, p.copy[s])
          BY <3>1, <1>3 DEF Refused
        <4>2. p.copy[s].species.value = team[s].species.value
          BY <3>2, <3>4, <2>3 DEF Faithful
        <4> QED
          BY <4>1, <4>2, <3>2, <3>4, <2>5, <2>12 DEF Swaps, Draft
      <3> QED
        BY <3>3, <3>4
    <2>13. Faithful(q, batch, i)
      BY <2>6, <2>7, <2>15, <2>8, <2>10, <2>11, <2>12 DEF Faithful
    <2> QED
      BY <2>13 DEF q
  <1> QED
    BY <1>2, <1>3

\* f lists what the first n requests of a batch make of the team, one by one.
Fits(f, batch, n) ==
    f = [i \in 0 .. n |->
            IF i = 0 THEN [copy |-> team, written |-> team, reserved |-> {}, ok |-> TRUE]
            ELSE IF f[i - 1].ok THEN Checked(batch[i], f[i - 1]) ELSE f[i - 1]]

LEMMA FitSteps ==
    ASSUME NEW f, NEW batch, NEW n \in Nat, Fits(f, batch, n)
    PROVE  /\ \A i \in 1 .. n :
                  f[i] = IF f[i - 1].ok THEN Checked(batch[i], f[i - 1]) ELSE f[i - 1]
           /\ f[0] = [copy |-> team, written |-> team, reserved |-> {}, ok |-> TRUE]
  <1> DEFINE start == [copy |-> team, written |-> team, reserved |-> {}, ok |-> TRUE]
             step(i) == IF f[i - 1].ok THEN Checked(batch[i], f[i - 1]) ELSE f[i - 1]
             e(i) == IF i = 0 THEN start ELSE step(i)
  <1>1. f = [i \in 0 .. n |-> e(i)]
    BY DEF Fits
  <1> HIDE DEF e
  <1>2. \A i \in 0 .. n : f[i] = e(i)
    BY <1>1
  <1>3. \A i \in 1 .. n : i \in 0 .. n /\ e(i) = step(i)
    BY DEF e
  <1>4. 0 \in 0 .. n /\ e(0) = start
    BY DEF e
  <1> QED
    BY <1>2, <1>3, <1>4

LEMMA FitExists == \A batch : \A n \in Nat : \E f : Fits(f, batch, n)
  <1> TAKE batch
  <1> DEFINE start == [copy |-> team, written |-> team, reserved |-> {}, ok |-> TRUE]
             S == {n \in Nat : \E f : Fits(f, batch, n)}
  <1>1. 0 \in S
    <2>1. Fits([i \in 0 .. 0 |-> start], batch, 0)
      BY DEF Fits
    <2> QED
      BY <2>1
  <1>2. ASSUME NEW n \in Nat, n \in S
        PROVE  n + 1 \in S
    <2>1. PICK f : Fits(f, batch, n)
      BY <1>2
    <2> DEFINE last == IF f[n].ok THEN Checked(batch[n + 1], f[n]) ELSE f[n]
               g == [i \in 0 .. n + 1 |-> IF i = n + 1 THEN last ELSE f[i]]
    <2>2. /\ \A i \in 1 .. n : f[i] = IF f[i - 1].ok THEN Checked(batch[i], f[i - 1]) ELSE f[i - 1]
          /\ f[0] = start
      BY <2>1, FitSteps
    <2>3. \A i \in 0 .. n : g[i] = f[i]
      OBVIOUS
    <2>4. \A i \in 0 .. n + 1 :
             g[i] = IF i = 0 THEN start
                    ELSE IF g[i - 1].ok THEN Checked(batch[i], g[i - 1]) ELSE g[i - 1]
      <3> TAKE i \in 0 .. n + 1
      <3>1. CASE i = 0
        BY <3>1, <2>2, <2>3
      <3>2. CASE i \in 1 .. n
        <4>1. i - 1 \in 0 .. n /\ i \in 0 .. n
          BY <3>2
        <4> QED
          BY <4>1, <3>2, <2>2, <2>3
      <3>3. CASE i = n + 1
        <4>1. i - 1 = n /\ n \in 0 .. n
          BY <3>3
        <4> QED
          BY <4>1, <3>3, <2>3
      <3> QED
        BY <3>1, <3>2, <3>3
    <2> HIDE DEF last
    <2>5. Fits(g, batch, n + 1)
      BY <2>4 DEF Fits
    <2> QED
      BY <2>5
  <1> HIDE DEF S
  <1>3. Nat \subseteq S
    BY <1>1, <1>2, SetInduction
  <1> QED
    BY <1>3 DEF S

\* What holds after every request holds of the whole call.
LEMMA ProjectionIsFaithful ==
    ASSUME ArmAssumption, team \in Teams, LocksHoldValues(team),
           NEW batch \in Seq(Requests)
    PROVE  Faithful(Projection(batch), batch, Len(batch))
  <1> DEFINE start == [copy |-> team, written |-> team, reserved |-> {}, ok |-> TRUE]
             f == CHOOSE g : Fits(g, batch, Len(batch))
  <1>0. Len(batch) \in Nat /\ DOMAIN batch = 1 .. Len(batch)
    OBVIOUS
  <1>1. Fits(f, batch, Len(batch))
    BY <1>0, FitExists
  <1>2. Projection(batch) = f[Len(batch)]
    BY DEF Projection, Fits
  <1> HIDE DEF f
  <1>3. /\ \A i \in 1 .. Len(batch) :
               f[i] = IF f[i - 1].ok THEN Checked(batch[i], f[i - 1]) ELSE f[i - 1]
        /\ f[0] = start
    BY <1>0, <1>1, FitSteps
  <1> DEFINE S == {n \in Nat : n <= Len(batch) => Faithful(f[n], batch, n)}
  <1>4. 0 \in S
    <2>1. Faithful(start, batch, 0)
      BY DEF Faithful, NothingNewShared
    <2> QED
      BY <2>1, <1>3
  <1>5. ASSUME NEW n \in Nat, n \in S
        PROVE  n + 1 \in S
    <2> SUFFICES ASSUME n + 1 <= Len(batch)
                 PROVE  Faithful(f[n + 1], batch, n + 1)
      OBVIOUS
    <2>1. /\ n + 1 \in DOMAIN batch /\ n + 1 \in 1 .. Len(batch) /\ (n + 1) - 1 = n
          /\ Faithful(f[n], batch, n)
      BY <1>0, <1>5
    <2>2. f[n + 1] = IF f[n].ok THEN Checked(batch[n + 1], f[n]) ELSE f[n]
      BY <2>1, <1>3
    <2>3. CASE f[n].ok
      <3>1. Faithful(Checked(batch[n + 1], f[n]), batch, n + 1)
        BY <2>1, <2>3, CheckedStaysFaithful
      <3> QED
        BY <3>1, <2>2, <2>3
    <2>4. CASE ~ f[n].ok
      BY <2>1, <2>2, <2>4 DEF Faithful
    <2> QED
      BY <2>3, <2>4
  <1> HIDE DEF S
  <1>6. Nat \subseteq S
    BY <1>4, <1>5, SetInduction
  <1> QED
    BY <1>0, <1>2, <1>6 DEF S

-----------------------------------------------------------------------------
(* Calls.                                                                  *)

\* What ItemsStayApart says of one step.
NewlySharedIsOverlaid ==
    \A s \in Slots, o \in Slots, item \in Items :
        s # o /\ Shares(team', s, o, item)
        => \/ Shares(team, s, o, item)
           \/ \E batch \in Batches : Write(batch) /\ {s, o} \cap Overlaid(batch) # {}

\* It holds of a step after which nothing is shared that was not before.
LEMMA NothingNewIsOverlaid ==
    ASSUME NothingNewShared(team, team') PROVE NewlySharedIsOverlaid
  BY DEF NothingNewShared, NewlySharedIsOverlaid

LEMMA SlotChangeIsOverlaid ==
    ASSUME NEW s \in Slots, \A o \in Slots \ {s} : team'[o] = team[o],
           \/ team'[s].item.value \in {team[s].item.value, None}
           \/ ItemFree(team'[s].item.value, s, team)
    PROVE  NewlySharedIsOverlaid
  <1>1. NothingNewShared(team, team')
    BY ItemSlotChange, ArmAssumption
  <1> QED
    BY <1>1, NothingNewIsOverlaid

\* What a call of set_slot leaves: a typed team, species apart, items apart but
\* for the slots it overlays, locked species only where they were, and without
\* replace every species that was held.
LEMMA SetSlotWrites ==
    ASSUME ArmAssumption, InputsAssumption,
           team \in Teams, LocksHoldValues(team), SpeciesApart(team), SetSlot
    PROVE  /\ team' \in Teams /\ LocksHoldValues(team)'
           /\ SpeciesApart(team') /\ NewlySharedIsOverlaid
           /\ \A s \in Slots : team'[s].species.locked => team'[s].species = team[s].species
           /\ (\E s \in Slots : Lost(s)) => replace_allowed
           /\ "set_slot" \in allowed_tools
           /\ UNCHANGED <<screen, rejected>>
  <1>0. PICK batch \in Batches : Write(batch)
    BY Zenon DEF SetSlot
  <1>1. /\ Called("set_slot", \E i \in DOMAIN batch : batch[i].replace)
        /\ Projection(batch).ok
        /\ team' = Projection(batch).written
        /\ UNCHANGED <<screen, rejected>>
    BY <1>0, Zenon DEF Write
  <1> DEFINE p == Projection(batch)
  <1>2. batch \in Seq(Requests)
    BY DEF InputsAssumption
  <1>3. Faithful(p, batch, Len(batch)) /\ DOMAIN batch = 1 .. Len(batch)
    BY <1>2, ProjectionIsFaithful
  <1> HIDE DEF p
  <1>4. p.ok /\ team' = p.written
    BY <1>1 DEF p
  <1>5. team' \in Teams /\ LocksHoldValues(team)'
    BY <1>3, <1>4 DEF Faithful, LocksHoldValues
  <1>6. /\ SpeciesApart(p.copy) /\ NothingNewShared(team, p.copy)
        /\ \A s \in Slots :
              /\ p.written[s].species.value = p.copy[s].species.value
              /\ s \notin Overlaid(batch) => p.written[s].item.value \in {p.copy[s].item.value, None}
    BY <1>3, <1>4 DEF Faithful
  <1>7. SpeciesApart(team')
    BY <1>4, <1>6, SpeciesOfSame
  <1>8. \A s, o \in Slots : \A item \in Items :
            s # o /\ Shares(p.written, s, o, item)
            => Shares(team, s, o, item) \/ {s, o} \cap Overlaid(batch) # {}
    <2> SUFFICES ASSUME NEW s \in Slots, NEW o \in Slots, NEW item \in Items,
                        s # o, Shares(p.written, s, o, item),
                        s \notin Overlaid(batch), o \notin Overlaid(batch)
                 PROVE  Shares(team, s, o, item)
      OBVIOUS
    <2>1. /\ p.written[s].item.value \in {p.copy[s].item.value, None}
          /\ p.written[o].item.value \in {p.copy[o].item.value, None}
      BY <1>6
    <2> QED
      BY <1>6, <2>1, ItemsOfLess
  <1>9. NewlySharedIsOverlaid
    <2> SUFFICES ASSUME NEW s \in Slots, NEW o \in Slots, NEW item \in Items,
                        s # o, Shares(team', s, o, item), ~ Shares(team, s, o, item)
                 PROVE  \E b \in Batches : Write(b) /\ {s, o} \cap Overlaid(b) # {}
      BY DEF NewlySharedIsOverlaid
    <2>1. Shares(p.written, s, o, item)
      BY <1>4 DEF Shares
    <2>2. {s, o} \cap Overlaid(batch) # {}
      BY <2>1, <1>8
    <2> QED
      BY <2>2, <1>0, Zenon
  <1>10. \A s \in Slots : team'[s].species.locked => team'[s].species = team[s].species
    BY <1>3, <1>4 DEF Faithful
  <1>11. ASSUME NEW s \in Slots, Lost(s)
         PROVE  replace_allowed
    <2>1. ~ (\A j \in 1 .. Len(batch) : ~ batch[j].replace)
      BY <1>3, <1>4, <1>11 DEF Faithful, Lost
    <2>2. \E i \in DOMAIN batch : batch[i].replace
      BY <2>1, <1>3
    <2> QED
      BY <2>2, <1>1 DEF Called
  <1>12. "set_slot" \in allowed_tools
    BY <1>1 DEF Called
  <1> QED
    BY <1>1, <1>5, <1>7, <1>9, <1>10, <1>11, <1>12

-----------------------------------------------------------------------------
(* The inductive invariant.                                                *)

\* A turn that neither asks nor answers has no question left (run_turn forgets
\* it as the turn begins): what QuestionsLiveOneTurn needs.
NothingLeftAsked ==
    message # << >> /\ message[1].class \notin {"ASK", "PENDING_ANSWER"} => asked = "none"

ArmInv == TypeOK /\ SpeciesClause /\ OffersAreNotRejected /\ NothingLeftAsked

\* What a tool in allowed_tools tells of the turn and the state.
LEMMA ToolsNeedLeave ==
    ASSUME NEW tool \in allowed_tools
    PROVE  /\ tool \notin {"read", "show_candidates"} =>
                  \E i \in DOMAIN message :
                      message[i].class \in {"WRITE", "PENDING_ANSWER"} /\ ~ message[i].uncertain
           /\ tool = "select_option" => FingerprintMatches
           /\ tool \in {"reject_pending", "reject_option", "reject_all"} => screen # None
           /\ tool = "show_candidates" => BlankSlots # {}
  <1>1. PICK i \in DOMAIN message : tool \in ToolsFor(message[i])
    BY DEF allowed_tools
  <1> DEFINE sub == message[i]
  <1>2. CASE tool \in {"read", "show_candidates"}
    <2>1. tool = "show_candidates" => BlankSlots # {}
      <3>1. ASSUME NEW a, tool \in WriteTools(a)
            PROVE  tool # "show_candidates"
        BY <3>1 DEF WriteTools
      <3> QED
        BY <1>1, <3>1 DEF ToolsFor
    <2> QED
      BY <1>2, <2>1
  <1>3. CASE tool \notin {"read", "show_candidates"}
    <2>1. Writes(sub) /\ tool \in WriteTools(ActionOf(sub))
      BY <1>1, <1>3 DEF ToolsFor
    <2>2. sub.class \in {"WRITE", "PENDING_ANSWER"} /\ ~ sub.uncertain
      BY <2>1 DEF Writes, ClassOf
    <2>3. /\ tool = "select_option" => FingerprintMatches
          /\ tool \in {"reject_pending", "reject_option", "reject_all"} => screen # None
      BY <2>1 DEF WriteTools
    <2> QED
      BY <2>2, <2>3, <1>3
  <1> QED
    BY <1>2, <1>3

\* The fields of a screen.
LEMMA ScreenFields ==
    ASSUME screen \in Screen
    PROVE  /\ screen.slot \in Slots /\ screen.kind \in {"candidates", "build"}
           /\ screen.kind = "candidates" => screen.options \in SUBSET Species
           /\ screen.kind = "build" => /\ screen.options \in SUBSET Items
                                       /\ screen.proposal.species \in Species
                                       /\ screen.proposal.item \in Items
  BY DEF Screen

\* What one call may do: keep the types and the clauses, show what was not
\* turned down, and write, replace, pick and commit only with leave.
Permitted ==
    /\ team' \in Teams /\ LocksHoldValues(team)'
    /\ SpeciesApart(team') /\ NewlySharedIsOverlaid
    /\ screen' = None \/ screen' \in Screen
    /\ rejected' \subseteq Species
    /\ OffersAreNotRejected'
    /\ ~ UNCHANGED <<team, rejected>> =>
           \E i \in DOMAIN message :
               message[i].class \in {"WRITE", "PENDING_ANSWER"} /\ ~ message[i].uncertain
    /\ (\E s \in Slots : Lost(s)) => replace_allowed \/ RejectOption \/ ResetTeam \/ CommitSlot
    /\ screen' # screen /\ screen' # None /\ screen'.kind = "build" => screen.made_for = team
    /\ \A s \in Slots :
           team'[s].species.locked /\ team'[s].species.value # team[s].species.value
           => screen.slot = s /\ screen.made_for[s] = team[s]

\* The part of the invariant about the team and the screens.
Sound ==
    /\ ArmAssumption /\ InputsAssumption
    /\ team \in Teams /\ LocksHoldValues(team)
    /\ SpeciesApart(team)
    /\ screen = None \/ screen \in Screen
    /\ rejected \subseteq Species
    /\ OffersAreNotRejected

\* The draft written slot by slot.
LEMMA SetSlotIsPermitted == ASSUME Sound, SetSlot PROVE Permitted
  <1>1. /\ team' \in Teams /\ LocksHoldValues(team)'
        /\ SpeciesApart(team') /\ NewlySharedIsOverlaid
        /\ \A s \in Slots : team'[s].species.locked => team'[s].species = team[s].species
        /\ (\E s \in Slots : Lost(s)) => replace_allowed
        /\ "set_slot" \in allowed_tools
        /\ UNCHANGED <<screen, rejected>>
    BY SetSlotWrites DEF Sound
  <1>2. \E i \in DOMAIN message :
            message[i].class \in {"WRITE", "PENDING_ANSWER"} /\ ~ message[i].uncertain
    BY <1>1, ToolsNeedLeave
  <1>3. OffersAreNotRejected'
    BY <1>1 DEF Sound, OffersAreNotRejected
  <1> QED
    BY <1>1, <1>2, <1>3 DEF Permitted, Sound

\* A write of one slot that keeps or drops what it holds, and a locked species
\* only if it was held.
LEMMA SlotWriteIsPermitted ==
    ASSUME Sound, NEW tool, NEW r \in BOOLEAN, Called(tool, r),
           tool \notin {"read", "show_candidates"},
           NEW s \in Slots, NEW slot \in Slot, team' = [team EXCEPT ![s] = slot],
           slot.species.value \in {team[s].species.value, None},
           slot.item.value \in {team[s].item.value, None},
           slot.species.locked => slot.species.value # None,
           slot.item.locked => slot.item.value # None,
           slot.species.value # team[s].species.value => replace_allowed,
           UNCHANGED <<screen, rejected>>
    PROVE  Permitted
  <1>1. /\ team' \in Teams /\ team'[s] = slot
        /\ \A o \in Slots \ {s} : team'[o] = team[o]
    BY DEF Sound, Teams
  <1>2. LocksHoldValues(team)'
    BY <1>1 DEF LocksHoldValues, Sound
  <1>3. SpeciesApart(team') /\ NewlySharedIsOverlaid
    <2>1. SpeciesApart(team')
      BY <1>1, SpeciesSlotChange DEF Sound
    <2>2. \/ team'[s].item.value \in {team[s].item.value, None}
          \/ ItemFree(team'[s].item.value, s, team)
      BY <1>1
    <2> QED
      BY <1>1, <2>1, <2>2, SlotChangeIsOverlaid
  <1>4. \E i \in DOMAIN message :
            message[i].class \in {"WRITE", "PENDING_ANSWER"} /\ ~ message[i].uncertain
    BY ToolsNeedLeave DEF Called
  <1>5. \A o \in Slots : Lost(o) => replace_allowed
    BY <1>1 DEF Lost
  <1>6. \A o \in Slots :
            ~ (team'[o].species.locked /\ team'[o].species.value # team[o].species.value)
    BY <1>1
  <1>7. OffersAreNotRejected'
    BY DEF Sound, OffersAreNotRejected
  <1> QED
    BY <1>1, <1>2, <1>3, <1>4, <1>5, <1>6, <1>7 DEF Permitted, Sound

LEMMA LockFieldsIsPermitted == ASSUME Sound, LockFields PROVE Permitted
  <1>1. PICK s \in Slots, fields \in (SUBSET Fields) \ {{}} :
            /\ Called("lock_fields", FALSE)
            /\ \A f \in fields : team[s][f].value # None
            /\ team' = [team EXCEPT ![s] = [f \in Fields |-> IF f \in fields THEN Locked(@[f].value) ELSE @[f]]]
            /\ UNCHANGED <<screen, rejected>>
    BY DEF LockFields
  <1> DEFINE slot == [f \in Fields |-> IF f \in fields THEN Locked(team[s][f].value) ELSE team[s][f]]
  <1>2. team[s] \in Slot
    BY DEF Sound, Teams
  <1>3. slot \in Slot
    BY <1>2 DEF Slot, Attr, Locked, Fields
  <1>4. /\ slot.species.value = team[s].species.value /\ slot.item.value = team[s].item.value
        /\ slot.species.locked => slot.species.value # None
        /\ slot.item.locked => slot.item.value # None
    BY <1>1, <1>2 DEF Slot, Attr, Locked, Fields, Sound, LocksHoldValues
  <1>5. team' = [team EXCEPT ![s] = slot]
    BY <1>1
  <1> HIDE DEF slot
  <1> QED
    BY <1>1, <1>3, <1>4, <1>5, SlotWriteIsPermitted

LEMMA UnlockFieldsIsPermitted == ASSUME Sound, UnlockFields PROVE Permitted
  <1>1. PICK s \in Slots, fields \in (SUBSET Fields) \ {{}} :
            /\ Called("unlock_fields", FALSE)
            /\ team' = [team EXCEPT ![s] = [f \in Fields |-> IF f \in fields THEN Draft(@[f].value) ELSE @[f]]]
            /\ UNCHANGED <<screen, rejected>>
    BY DEF UnlockFields
  <1> DEFINE slot == [f \in Fields |-> IF f \in fields THEN Draft(team[s][f].value) ELSE team[s][f]]
  <1>2. team[s] \in Slot
    BY DEF Sound, Teams
  <1>3. slot \in Slot
    BY <1>2 DEF Slot, Attr, Draft, Fields
  <1>4. /\ slot.species.value = team[s].species.value /\ slot.item.value = team[s].item.value
        /\ slot.species.locked => slot.species.value # None
        /\ slot.item.locked => slot.item.value # None
    BY <1>1, <1>2 DEF Slot, Attr, Draft, Fields, Sound, LocksHoldValues
  <1>5. team' = [team EXCEPT ![s] = slot]
    BY <1>1
  <1> HIDE DEF slot
  <1> QED
    BY <1>1, <1>3, <1>4, <1>5, SlotWriteIsPermitted

LEMMA UnlockSlotIsPermitted == ASSUME Sound, UnlockSlot PROVE Permitted
  <1>1. PICK s \in Slots :
            /\ Called("unlock_slot", TRUE)
            /\ team' = [team EXCEPT ![s] = EmptySlot]
            /\ UNCHANGED <<screen, rejected>>
    BY DEF UnlockSlot
  <1>2. /\ EmptySlot \in Slot
        /\ EmptySlot.species.value = None /\ EmptySlot.item.value = None
        /\ ~ EmptySlot.species.locked /\ ~ EmptySlot.item.locked
    BY DEF EmptySlot, Empty, Slot, Attr
  <1>3. replace_allowed
    BY <1>1 DEF Called
  <1> QED
    BY <1>1, <1>2, <1>3, SlotWriteIsPermitted

\* A call that only changes the screen.
LEMMA ScreenChangeIsPermitted ==
    ASSUME Sound, UNCHANGED <<team, rejected>>, screen' = None \/ screen' \in Screen,
           OffersAreNotRejected',
           screen' # screen /\ screen' # None /\ screen'.kind = "build" => screen.made_for = team
    PROVE  Permitted
  <1>1. LocksHoldValues(team)' /\ SpeciesApart(team')
    BY DEF Sound, LocksHoldValues
  <1>2. NewlySharedIsOverlaid
    BY NothingNewIsOverlaid DEF NothingNewShared
  <1> QED
    BY <1>1, <1>2 DEF Sound, Permitted, Lost

LEMMA ShowCandidatesIsPermitted == ASSUME Sound, ShowCandidates PROVE Permitted
  <1>1. PICK options \in Offers :
            /\ Called("show_candidates", FALSE)
            /\ screen' = [kind |-> "candidates", slot |-> Min(BlankSlots), options |-> options,
                          proposal |-> NoBuild, made_for |-> team, stamped |-> TRUE]
            /\ UNCHANGED <<team, rejected>>
    BY DEF ShowCandidates
  <1>2. Min(BlankSlots) \in Slots
    <2>1. BlankSlots # {} /\ BlankSlots \in SUBSET Nat /\ BlankSlots \subseteq Slots
      BY <1>1, ToolsNeedLeave DEF Called, BlankSlots, Slots
    <2> QED
      BY <2>1, MinIsInIt
  <1>3. options \subseteq Species /\ options \cap rejected = {}
    BY DEF Offers
  <1>4. screen' \in Screen
    BY <1>1, <1>2, <1>3 DEF Screen, Sound
  <1>5. OffersAreNotRejected' /\ screen'.kind = "candidates"
    BY <1>1, <1>3 DEF OffersAreNotRejected
  <1> QED
    BY <1>1, <1>4, <1>5, ScreenChangeIsPermitted

\* A pick needs a screen whose stamp is the team's.
LEMMA PicksNeedTheStamp ==
    ASSUME Sound, Called("select_option", FALSE)
    PROVE  screen # None /\ screen \in Screen /\ screen.made_for = team
  BY ToolsNeedLeave DEF Called, FingerprintMatches, ScreenIsCurrent, Sound

\* The screen that proposes a build.
LEMMA ProposalIsAScreen ==
    ASSUME Sound, screen \in Screen, NEW species \in Species, NEW item \in Items,
           screen' = Proposal(species, item)
    PROVE  screen' \in Screen /\ screen'.kind = "build" /\ OffersAreNotRejected'
  <1>1. screen.slot \in Slots
    BY ScreenFields
  <1> QED
    BY <1>1 DEF Proposal, Screen, Sound, OffersAreNotRejected

LEMMA PickCandidateIsPermitted == ASSUME Sound, PickCandidate PROVE Permitted
  <1>1. PICK species \in screen.options, item \in Items : screen' = Proposal(species, item)
    BY DEF PickCandidate
  <1>2. screen \in Screen /\ screen.made_for = team
    BY PicksNeedTheStamp DEF PickCandidate
  <1>3. species \in Species
    BY <1>2, ScreenFields DEF PickCandidate
  <1>4. UNCHANGED <<team, rejected>>
    BY DEF PickCandidate
  <1> QED
    BY <1>1, <1>2, <1>3, <1>4, ProposalIsAScreen, ScreenChangeIsPermitted

LEMMA PickChangeIsPermitted == ASSUME Sound, PickChange PROVE Permitted
  <1>1. PICK item \in screen.options : screen' = Proposal(screen.proposal.species, item)
    BY DEF PickChange
  <1>2. screen \in Screen /\ screen.made_for = team
    BY PicksNeedTheStamp DEF PickChange
  <1>3. item \in Items /\ screen.proposal.species \in Species
    BY <1>2, ScreenFields DEF PickChange
  <1>4. UNCHANGED <<team, rejected>>
    BY DEF PickChange
  <1> QED
    BY <1>1, <1>2, <1>3, <1>4, ProposalIsAScreen, ScreenChangeIsPermitted

LEMMA RejectPendingIsPermitted == ASSUME Sound, RejectPending PROVE Permitted
  <1>1. screen' = None /\ UNCHANGED <<team, rejected>>
    BY DEF RejectPending
  <1> QED
    BY <1>1, ScreenChangeIsPermitted DEF OffersAreNotRejected

\* The rejection takes a species back that is not locked.
LEMMA RejectOptionIsPermitted == ASSUME Sound, RejectOption PROVE Permitted
  <1> DEFINE s == screen.slot
             slot == [team[s] EXCEPT !.species = IF @.locked THEN @ ELSE Empty]
  <1>1. /\ Called("reject_option", FALSE)
        /\ screen.kind = "candidates"
        /\ \E species \in screen.options : rejected' = rejected \cup {species}
        /\ team' = [team EXCEPT ![s] = slot]
        /\ screen' = None
    BY DEF RejectOption
  <1>2. screen # None /\ \E i \in DOMAIN message :
            message[i].class \in {"WRITE", "PENDING_ANSWER"} /\ ~ message[i].uncertain
    BY <1>1, ToolsNeedLeave DEF Called
  <1>3. s \in Slots /\ screen.options \subseteq Species
    BY <1>1, <1>2, ScreenFields DEF Sound
  <1>4. team[s] \in Slot
    BY <1>3 DEF Sound, Teams
  <1>5. /\ slot \in Slot /\ slot.item = team[s].item
        /\ slot.species \in {team[s].species, Empty}
    BY <1>4 DEF Slot, Attr, Empty
  <1> HIDE DEF s, slot
  <1>6. /\ team' \in Teams /\ team'[s] = slot
        /\ \A o \in Slots \ {s} : team'[o] = team[o]
    BY <1>1, <1>3, <1>5 DEF Sound, Teams
  <1>7. LocksHoldValues(team)'
    BY <1>3, <1>5, <1>6 DEF LocksHoldValues, Sound, Empty
  <1>8. SpeciesApart(team') /\ NewlySharedIsOverlaid
    <2>1. slot.species.value \in {team[s].species.value, None} /\ slot.item.value = team[s].item.value
      BY <1>5 DEF Empty
    <2>2. SpeciesApart(team')
      BY <2>1, <1>3, <1>6, SpeciesSlotChange DEF Sound
    <2>3. NewlySharedIsOverlaid
      BY <2>1, <1>3, <1>6, SlotChangeIsOverlaid
    <2> QED
      BY <2>2, <2>3
  <1>9. \A o \in Slots :
            ~ (team'[o].species.locked /\ team'[o].species.value # team[o].species.value)
    BY <1>3, <1>5, <1>6 DEF Empty
  <1>10. OffersAreNotRejected' /\ rejected' \subseteq Species
    BY <1>1, <1>3 DEF OffersAreNotRejected, Sound
  <1> QED
    BY <1>1, <1>2, <1>6, <1>7, <1>8, <1>9, <1>10 DEF Permitted

LEMMA RejectAllIsPermitted == ASSUME Sound, RejectAll PROVE Permitted
  <1>1. /\ Called("reject_all", FALSE) /\ screen.kind = "candidates"
        /\ rejected' = rejected \cup screen.options /\ screen' = None /\ UNCHANGED team
    BY DEF RejectAll
  <1>2. screen # None /\ \E i \in DOMAIN message :
            message[i].class \in {"WRITE", "PENDING_ANSWER"} /\ ~ message[i].uncertain
    BY <1>1, ToolsNeedLeave DEF Called
  <1>3. screen.options \subseteq Species
    BY <1>1, <1>2, ScreenFields DEF Sound
  <1>4. LocksHoldValues(team)' /\ SpeciesApart(team') /\ NewlySharedIsOverlaid
    BY <1>1, NothingNewIsOverlaid DEF Sound, LocksHoldValues, NothingNewShared
  <1>5. OffersAreNotRejected' /\ rejected' \subseteq Species
    BY <1>1, <1>3 DEF OffersAreNotRejected, Sound
  <1> QED
    BY <1>1, <1>2, <1>4, <1>5 DEF Permitted, Sound, Lost

\* A commit writes the build that was checked against the clauses, over the
\* contents it was proposed for.
LEMMA CommitSlotIsPermitted == ASSUME Sound, CommitSlot PROVE Permitted
  <1> DEFINE s == screen.slot
             slot == [species |-> Locked(screen.proposal.species), item |-> Locked(screen.proposal.item)]
  <1>1. /\ Called("commit_slot", FALSE)
        /\ screen # None /\ screen.kind = "build"
        /\ screen.made_for[s] = team[s]
        /\ SpeciesFree(screen.proposal.species, s, team)
        /\ ItemFree(screen.proposal.item, s, team)
        /\ team' = [team EXCEPT ![s] = slot]
        /\ screen' = None /\ UNCHANGED rejected
    BY DEF CommitSlot
  <1>2. \E i \in DOMAIN message :
            message[i].class \in {"WRITE", "PENDING_ANSWER"} /\ ~ message[i].uncertain
    BY <1>1, ToolsNeedLeave DEF Called
  <1>3. /\ s \in Slots /\ screen.proposal.species \in Species
        /\ screen.proposal.item \in Items
    BY <1>1, ScreenFields DEF Sound
  <1>4. /\ slot \in Slot
        /\ slot.species.value = screen.proposal.species /\ slot.item.value = screen.proposal.item
        /\ slot.species.value # None /\ slot.item.value # None
    BY <1>3 DEF Slot, Attr, Locked, Sound, ArmAssumption
  <1>5. /\ SpeciesFree(slot.species.value, s, team) /\ ItemFree(slot.item.value, s, team)
    BY <1>1, <1>4
  <1> HIDE DEF slot
  <1>6. /\ team' \in Teams /\ team'[s] = slot
        /\ \A o \in Slots \ {s} : team'[o] = team[o]
    BY <1>1, <1>3, <1>4 DEF Sound, Teams
  <1>7. LocksHoldValues(team)'
    BY <1>3, <1>4, <1>6 DEF LocksHoldValues, Sound
  <1>8. SpeciesApart(team') /\ NewlySharedIsOverlaid
    <2>1. SpeciesApart(team')
      BY <1>3, <1>5, <1>6, SpeciesSlotChange DEF Sound
    <2>2. NewlySharedIsOverlaid
      BY <1>3, <1>5, <1>6, SlotChangeIsOverlaid
    <2> QED
      BY <2>1, <2>2
  <1>9. \A o \in Slots : team'[o] # team[o] => screen.slot = o /\ screen.made_for[o] = team[o]
    BY <1>1, <1>6
  <1>10. OffersAreNotRejected'
    BY <1>1 DEF OffersAreNotRejected
  <1> QED
    BY <1>1, <1>2, <1>6, <1>7, <1>8, <1>9, <1>10 DEF Permitted, Sound

LEMMA ResetTeamIsPermitted == ASSUME Sound, ResetTeam PROVE Permitted
  <1>1. /\ Called("reset_team", FALSE) /\ team' = [s \in Slots |-> EmptySlot]
        /\ screen' = None /\ UNCHANGED rejected
    BY DEF ResetTeam
  <1>2. \E i \in DOMAIN message :
            message[i].class \in {"WRITE", "PENDING_ANSWER"} /\ ~ message[i].uncertain
    BY <1>1, ToolsNeedLeave DEF Called
  <1>3. /\ EmptySlot \in Slot
        /\ EmptySlot.species.value = None /\ EmptySlot.item.value = None
        /\ ~ EmptySlot.species.locked /\ ~ EmptySlot.item.locked
    BY DEF EmptySlot, Empty, Slot, Attr
  <1>4. team' \in Teams /\ \A s \in Slots : team'[s] = EmptySlot
    BY <1>1, <1>3 DEF Teams
  <1>5. LocksHoldValues(team)' /\ SpeciesApart(team')
    BY <1>3, <1>4 DEF LocksHoldValues, SpeciesApart
  <1>7. NothingNewShared(team, team')
    BY <1>3, <1>4 DEF NothingNewShared, Shares, Sound, ArmAssumption
  <1>8. NewlySharedIsOverlaid
    BY <1>7, NothingNewIsOverlaid
  <1>6. OffersAreNotRejected'
    BY <1>1 DEF OffersAreNotRejected
  <1> QED
    BY <1>1, <1>2, <1>3, <1>4, <1>5, <1>6, <1>8 DEF Permitted, Sound

\* Every call of a tool, whichever it is.
LEMMA CallIsPermitted == ASSUME Sound, Call PROVE Permitted
  <1>1. CASE SetSlot
    BY <1>1, SetSlotIsPermitted
  <1>2. CASE LockFields \/ UnlockFields \/ UnlockSlot
    BY <1>2, LockFieldsIsPermitted, UnlockFieldsIsPermitted, UnlockSlotIsPermitted
  <1>3. CASE ShowCandidates \/ PickCandidate \/ PickChange
    BY <1>3, ShowCandidatesIsPermitted, PickCandidateIsPermitted, PickChangeIsPermitted
  <1>4. CASE RejectPending \/ RejectOption \/ RejectAll
    BY <1>4, RejectPendingIsPermitted, RejectOptionIsPermitted, RejectAllIsPermitted
  <1>5. CASE CommitSlot \/ ResetTeam
    BY <1>5, CommitSlotIsPermitted, ResetTeamIsPermitted
  <1>6. CASE Read
    <2>1. UNCHANGED <<team, screen, rejected>>
      BY <1>6 DEF Read, state
    <2>2. OffersAreNotRejected'
      BY <2>1 DEF Sound, OffersAreNotRejected
    <2> QED
      BY <2>1, <2>2, ScreenChangeIsPermitted DEF Sound
  <1> QED
    BY <1>1, <1>2, <1>3, <1>4, <1>5, <1>6 DEF Call

\* A step that is not a call leaves the team, the screen and the rejected.
LEMMA IdleIsPermitted == ASSUME Sound, UNCHANGED state PROVE Permitted
  <1>1. UNCHANGED <<team, screen, rejected>>
    BY DEF state
  <1>2. OffersAreNotRejected'
    BY <1>1 DEF Sound, OffersAreNotRejected
  <1> QED
    BY <1>1, <1>2, ScreenChangeIsPermitted DEF Sound

LEMMA InvIsSound == ASSUME ArmAssumption, InputsAssumption, ArmInv PROVE Sound
  BY DEF ArmInv, TypeOK, SpeciesClause, Sound

LEMMA NextIsPermitted ==
    ASSUME ArmAssumption, InputsAssumption, ArmInv, [Next]_vars
    PROVE  Permitted
  <1>1. CASE Call
    BY <1>1, InvIsSound, CallIsPermitted
  <1>2. CASE ~ Call
    <2>1. UNCHANGED state
      BY <1>2 DEF Next, UserTurn, GoOn, Stop, EndTurn, vars, state
    <2> QED
      BY <2>1, InvIsSound, IdleIsPermitted
  <1> QED
    BY <1>1, <1>2

-----------------------------------------------------------------------------
(* The turn around the calls.                                              *)

\* The parts of the invariant about the turn.
TurnTypes ==
    /\ {asked, asked_before} \subseteq Actions
    /\ message \in Messages \cup {Unparsed, << >>}
    /\ rounds \in 0 .. MaxRounds - 1 /\ calls \in 0 .. MaxCalls

LEMMA MessagesStart ==
    ASSUME InputsAssumption, NEW m \in Messages \cup {Unparsed}
    PROVE  m # << >> /\ m[1] \in SubRequests
  <1>1. Unparsed \in Seq(SubRequests) \ {<< >>}
    BY DEF Unparsed, SubRequests, Classes, Actions
  <1>2. m \in Seq(SubRequests) \ {<< >>}
    BY <1>1 DEF InputsAssumption
  <1> QED
    BY <1>2

LEMMA TurnKeeps ==
    ASSUME ArmAssumption, InputsAssumption, TurnTypes, NothingLeftAsked, [Next]_vars
    PROVE  TurnTypes' /\ NothingLeftAsked'
  <1>0. /\ {asked, asked_before} \subseteq Actions /\ "none" \in Actions
        /\ message \in Messages \cup {Unparsed, << >>}
        /\ rounds \in 0 .. MaxRounds - 1 /\ calls \in 0 .. MaxCalls
        /\ MaxRounds \in Nat \ {0} /\ MaxCalls \in Nat \ {0}
    BY DEF TurnTypes, ArmAssumption, Actions
  <1>1. CASE UserTurn
    <2>1. /\ message' \in Messages \cup {Unparsed}
          /\ asked_before' = asked /\ rounds' = rounds /\ calls' = calls
          /\ asked' = CASE message'[1].class = "ASK" -> message'[1].action
                        [] message'[1].class = "PENDING_ANSWER" -> asked
                        [] OTHER -> "none"
      BY <1>1 DEF UserTurn
    <2>2. message'[1] \in SubRequests
      BY <2>1, MessagesStart
    <2>3. message'[1].action \in Actions
      BY <2>2 DEF SubRequests
    <2>4. /\ asked' \in Actions
          /\ message'[1].class \notin {"ASK", "PENDING_ANSWER"} => asked' = "none"
      BY <2>1, <2>3, <1>0
    <2>5. TurnTypes'
      BY <1>0, <2>1, <2>4 DEF TurnTypes
    <2>6. NothingLeftAsked'
      BY <2>4 DEF NothingLeftAsked
    <2> QED
      BY <2>5, <2>6
  <1>2. CASE Call
    <2>1. UNCHANGED <<asked, message, asked_before, rounds>> /\ calls < MaxCalls /\ calls' = calls + 1
      <3>1. ASSUME NEW tool, NEW r, Called(tool, r)
            PROVE  UNCHANGED <<asked, message, asked_before, rounds>> /\ calls < MaxCalls /\ calls' = calls + 1
        BY <3>1 DEF Called, turn
      <3> QED
        BY <1>2, <3>1 DEF Call, SetSlot, Write, LockFields, UnlockFields, UnlockSlot, ShowCandidates, PickCandidate,
           PickChange, RejectPending, RejectOption, RejectAll, CommitSlot, ResetTeam, Read
    <2> QED
      BY <1>0, <2>1 DEF TurnTypes, NothingLeftAsked
  <1>3. CASE GoOn
    BY <1>0, <1>3 DEF GoOn, TurnTypes, NothingLeftAsked
  <1>4. CASE Stop
    BY <1>0, <1>4 DEF Stop, EndTurn, TurnTypes, NothingLeftAsked
  <1>5. CASE UNCHANGED vars
    BY <1>5 DEF vars, turn, TurnTypes, NothingLeftAsked
  <1> QED
    BY <1>1, <1>2, <1>3, <1>4, <1>5 DEF Next

LEMMA ArmInit == ASSUME ArmAssumption, InputsAssumption, Init PROVE ArmInv
  <1>1. PICK start \in Starts : team = start[1] /\ screen = start[2]
    BY DEF Init
  <1>2. /\ team \in Teams /\ LocksHoldValues(team) /\ SpeciesApart(team)
        /\ screen = None \/ screen \in Screen
    BY <1>1 DEF InputsAssumption
  <1>3. /\ rejected = {} /\ asked = "none" /\ asked_before = "none"
        /\ message = << >> /\ rounds = 0 /\ calls = 0
    BY DEF Init
  <1>4. rounds \in 0 .. MaxRounds - 1 /\ calls \in 0 .. MaxCalls
    BY <1>3 DEF ArmAssumption
  <1> QED
    BY <1>2, <1>3, <1>4
    DEF ArmInv, TypeOK, SpeciesClause, OffersAreNotRejected, NothingLeftAsked, Actions

LEMMA ArmStep ==
    ASSUME ArmAssumption, InputsAssumption, ArmInv, [Next]_vars
    PROVE  ArmInv'
  <1>1. Permitted
    BY NextIsPermitted
  <1>2. TurnTypes' /\ NothingLeftAsked'
    BY TurnKeeps DEF ArmInv, TypeOK, TurnTypes
  <1> QED
    BY <1>1, <1>2 DEF ArmInv, TypeOK, SpeciesClause, SpeciesApart, SpeciesFree, TurnTypes, Permitted

-----------------------------------------------------------------------------
(* The theorems.                                                           *)

LEMMA ArmInvAlways == Spec => []ArmInv
  <1>1. Init => ArmInv
    BY ArmInit, ArmAssumption, InputsAssumption
  <1>2. ArmInv /\ [Next]_vars => ArmInv'
    BY ArmStep, ArmAssumption, InputsAssumption
  <1> QED
    BY <1>1, <1>2, PTL DEF Spec

\* Teams, screens and turns keep their types, no species is twice in the team,
\* two slots come to share an item only when a call of set_slot replaces what it
\* has itself written in one of them, and no screen offers what was turned down,
\* whatever the model calls and in whatever order (tools.py, set_slot_tool.py,
\* draft_lock.py, reject_option, reject_all).
THEOREM ArmStaysSound == Spec => ArmIsSound
  <1>1. ArmInv => TypeOK /\ SpeciesClause /\ OffersAreNotRejected
    BY DEF ArmInv
  <1>2. ArmInv /\ [Next]_vars =>
            [\A s \in Slots, o \in Slots, item \in Items :
                s # o /\ Shares(team', s, o, item)
                => \/ Shares(team, s, o, item)
                   \/ \E batch \in Batches : Write(batch) /\ {s, o} \cap Overlaid(batch) # {}]_vars
    BY NextIsPermitted, ArmAssumption, InputsAssumption DEF Permitted, NewlySharedIsOverlaid
  <1>3. Spec => [](TypeOK /\ SpeciesClause /\ OffersAreNotRejected)
    BY <1>1, ArmInvAlways, PTL
  <1>4. Spec => ItemsStayApart
    BY <1>2, ArmInvAlways, PTL DEF Spec, ItemsStayApart
  <1> QED
    BY <1>3, <1>4 DEF ArmIsSound

\* Nothing is written in a turn that asks for nothing, nothing held is replaced
\* unconfirmed and unasked, and a question is gone after the turn that answers
\* it (allowed_tools, replace_allowed, run_turn).
THEOREM UserStaysInCharge == Spec => UserDecides
  <1>1. ArmInv /\ [Next]_vars =>
            [(\A i \in DOMAIN message : ~(message[i].class \in {"WRITE", "PENDING_ANSWER"} /\ ~message[i].uncertain))
             => UNCHANGED <<team, rejected>>]_vars
    BY NextIsPermitted, ArmAssumption, InputsAssumption DEF Permitted
  <1>2. ArmInv /\ [Next]_vars =>
            [(\E s \in Slots : Lost(s))
             => \/ Confirms
                \/ asked_before \in {"set_slot", "unlock_slot"}
                \/ RejectOption \/ ResetTeam \/ CommitSlot]_vars
    BY NextIsPermitted, ArmAssumption, InputsAssumption DEF Permitted, replace_allowed
  <1>3. ArmInv /\ [Next]_vars =>
            [message # << >> /\ message' = << >> /\ message[1].class # "ASK" => asked' = "none"]_vars
    <2> SUFFICES ASSUME ArmInv, [Next]_vars, message # << >>, message' = << >>, message[1].class # "ASK"
                 PROVE  asked' = "none"
      OBVIOUS
    <2>1. Stop
      <3>1. ~ UserTurn /\ message' # message
        BY DEF UserTurn
      <3>2. ~ Call
        BY <3>1 DEF Call, SetSlot, Write, LockFields, UnlockFields, UnlockSlot, ShowCandidates, PickCandidate,
           PickChange, RejectPending, RejectOption, RejectAll, CommitSlot, ResetTeam, Read, Called, turn
      <3> QED
        BY <3>1, <3>2 DEF Next, GoOn, vars, turn
    <2> QED
      BY <2>1 DEF Stop, EndTurn, ArmInv, NothingLeftAsked
  <1>4. Spec => ReadOnlyTurnsWriteNothing
    BY <1>1, ArmInvAlways, PTL DEF Spec, ReadOnlyTurnsWriteNothing
  <1>5. Spec => ReplacedOnlyIfAsked
    BY <1>2, ArmInvAlways, PTL DEF Spec, ReplacedOnlyIfAsked
  <1>6. Spec => QuestionsLiveOneTurn
    BY <1>3, ArmInvAlways, PTL DEF Spec, QuestionsLiveOneTurn
  <1> QED
    BY <1>4, <1>5, <1>6 DEF UserDecides

\* A list or a build from before a change of the team is neither picked from
\* nor committed (pending_fingerprint_matches, commit_full_slot).
THEOREM StaleScreensStayRefused == Spec => StaleScreensAreRefused
  <1>1. ArmInv /\ [Next]_vars =>
            [screen' # screen /\ screen' # None /\ screen'.kind = "build"
             => screen.made_for = team]_vars
    BY NextIsPermitted, ArmAssumption, InputsAssumption DEF Permitted
  <1>2. ArmInv /\ [Next]_vars =>
            [\A s \in Slots :
                team'[s].species.locked /\ team'[s].species.value # team[s].species.value
                => screen.slot = s /\ screen.made_for[s] = team[s]]_vars
    BY NextIsPermitted, ArmAssumption, InputsAssumption DEF Permitted
  <1>3. Spec => PicksAreFromThisTeam
    BY <1>1, ArmInvAlways, PTL DEF Spec, PicksAreFromThisTeam
  <1>4. Spec => CommitsReplaceWhatWasSeen
    BY <1>2, ArmInvAlways, PTL DEF Spec, CommitsReplaceWhatWasSeen
  <1> QED
    BY <1>3, <1>4 DEF StaleScreensAreRefused
=============================================================================
