--------------------------- MODULE TeamDraft_proof ---------------------------
(***************************************************************************)
(* The requirement list and its undo log (ConstraintAxis), for any         *)
(* requirements, any number of axes and any length of the list; then the   *)
(* team draft over them, for any number of slots, any species, items and   *)
(* movesets and undo stacks of any length: Species Clause, Item Clause, a  *)
(* Mega next to its stone, and a species only ever there locked.           *)
(*                                                                         *)
(* The four invariants of the requirements are inductive together: that    *)
(* newest wins keeps the axes consistent (AxisAgrees) is a matter of       *)
(* Losers and Displaced alone, but that a restore finds its row needs the  *)
(* log to be faithful (LogRestorable), which a restore preserves only      *)
(* because no row is logged twice (LoggedAreInactive).                     *)
(*                                                                         *)
(* A turn first installs validated values in one slot (Install), then only *)
(* weakens the team: a reconciliation reopens attributes and a proposal    *)
(* fills empty ones without locking them (WeakenKeeps).  The clauses over  *)
(* a draft d are the conjunction Clauses(d); they are inductive together   *)
(* with the types.                                                         *)
(***************************************************************************)
EXTENDS TeamDraft, FiniteSetTheorems, TLAPS

-----------------------------------------------------------------------------
(* The requirements.                                                       *)

AxisInv == AxisTypeOK /\ AxisAgrees /\ LogRestorable /\ LoggedAreInactive

-----------------------------------------------------------------------------

\* What Last and Front return on a nonempty sequence.
LEMMA LastFront ==
    ASSUME NEW S, NEW s \in Seq(S), s # << >>
    PROVE  /\ Front(s) \in Seq(S)
           /\ Len(s) \in DOMAIN s
           /\ Len(Front(s)) = Len(s) - 1
           /\ \A k \in DOMAIN Front(s) : k \in DOMAIN s /\ k # Len(s) /\ Front(s)[k] = s[k]
           /\ Last(s) = s[Len(s)]
           /\ Last(s) \in S
  <1>1. Len(s) \in Nat \ {0}
    OBVIOUS
  <1>2. Front(s) = SubSeq(s, 1, Len(s) - 1)
    BY DEF Front
  <1>3. Last(s) = s[Len(s)]
    BY DEF Last
  <1> DEFINE n == Len(s)
  <1>4. n \in 1..n /\ n - 1 \in Nat /\ DOMAIN s = 1..n
    BY <1>1
  <1>5. /\ SubSeq(s, 1, n - 1) \in Seq(S)
        /\ Len(SubSeq(s, 1, n - 1)) = n - 1
        /\ \A k \in 1..(n - 1) : SubSeq(s, 1, n - 1)[k] = s[k]
    BY <1>1, <1>4
  <1>6. DOMAIN SubSeq(s, 1, n - 1) = 1..(n - 1)
    BY <1>5
  <1>7. \A k \in DOMAIN Front(s) : k \in DOMAIN s /\ k # Len(s) /\ Front(s)[k] = s[k]
    BY <1>1, <1>2, <1>4, <1>5, <1>6
  <1> QED
    BY <1>2, <1>3, <1>4, <1>5, <1>7

\* A set of rows of the list is finite, so the log grows by a sequence.
LEMMA RowsFinite ==
    ASSUME NEW cs \in Seq(Constraint), NEW I \in SUBSET DOMAIN cs
    PROVE  Cardinality(I) \in Nat
  <1>1. DOMAIN cs = 1..Len(cs) /\ Len(cs) \in Nat
    OBVIOUS
  <1>2. IsFiniteSet(1..Len(cs))
    BY <1>1, FS_Interval
  <1>3. IsFiniteSet(I)
    BY <1>1, <1>2, FS_Subset
  <1> QED
    BY <1>3, FS_CardinalityType

\* What Deactivate changes: the flag of the rows in I.
LEMMA DeactivateRows ==
    ASSUME NEW cs \in Seq(Constraint), NEW I
    PROVE  /\ Deactivate(cs, I) \in Seq(Constraint)
           /\ DOMAIN Deactivate(cs, I) = DOMAIN cs
           /\ \A i \in DOMAIN cs :
                /\ Deactivate(cs, I)[i].hard = cs[i].hard
                /\ Deactivate(cs, I)[i].kind = cs[i].kind
                /\ Deactivate(cs, I)[i].scope = cs[i].scope
                /\ Deactivate(cs, I)[i].value = cs[i].value
                /\ Deactivate(cs, I)[i].still_active = (cs[i].still_active /\ i \notin I)
  <1> DEFINE new == Deactivate(cs, I)
  <1>1. \A i \in DOMAIN cs : cs[i] \in Constraint
    OBVIOUS
  <1>2. DOMAIN new = DOMAIN cs
    BY DEF Deactivate
  <1>3. \A i \in DOMAIN cs :
          new[i] = IF i \in I THEN [cs[i] EXCEPT !.still_active = FALSE] ELSE cs[i]
    BY DEF Deactivate
  <1>4. \A i \in DOMAIN cs : new[i] \in Constraint
    BY <1>1, <1>3 DEF Constraint
  <1>5. DOMAIN cs = 1..Len(cs) /\ Len(cs) \in Nat
    OBVIOUS
  <1>6. new \in Seq(Constraint)
    <2>1. new = [i \in 1..Len(cs) |-> new[i]]
      BY <1>2, <1>5 DEF Deactivate
    <2> HIDE DEF new
    <2> QED
      BY <1>4, <1>5, <2>1
  <1>7. ASSUME NEW i \in DOMAIN cs
        PROVE  /\ new[i].hard = cs[i].hard
               /\ new[i].kind = cs[i].kind
               /\ new[i].scope = cs[i].scope
               /\ new[i].value = cs[i].value
    BY <1>1, <1>3 DEF Constraint
  <1>8. ASSUME NEW i \in DOMAIN cs
        PROVE  new[i].still_active = (cs[i].still_active /\ i \notin I)
    <2>1. cs[i] \in Constraint /\ cs[i].still_active \in BOOLEAN
      BY <1>1 DEF Constraint
    <2>2. CASE i \in I
      BY <1>3, <2>1, <2>2 DEF Constraint
    <2>3. CASE i \notin I
      BY <1>3, <2>1, <2>3, Zenon
    <2> QED
      BY <2>2, <2>3
  <1> QED
    BY <1>2, <1>6, <1>7, <1>8

\* What Logged adds: one snapshot of a row of I at each new position, and no
\* row twice.
LEMMA LoggedRows ==
    ASSUME NEW cs \in Seq(Constraint), NEW I \in SUBSET DOMAIN cs,
           NEW log \in Seq(LogEntry), NEW newLog, Logged(log, cs, I, newLog)
    PROVE  /\ newLog \in Seq(LogEntry)
           /\ \A k \in DOMAIN log : k \in DOMAIN newLog /\ newLog[k] = log[k]
           /\ \A k \in DOMAIN newLog \ DOMAIN log :
                \E i \in I : newLog[k] = SnapshotOf(cs, i)
           /\ \A k, l \in DOMAIN newLog \ DOMAIN log :
                newLog[k].constraint_index = newLog[l].constraint_index => k = l
  <1>1. Cardinality(I) \in Nat
    BY RowsFinite
  <1>2. PICK order \in [1..Cardinality(I) -> I] :
          /\ \A m, n \in DOMAIN order : m < n => order[m] < order[n]
          /\ newLog = log \o [m \in DOMAIN order |-> SnapshotOf(cs, order[m])]
    BY DEF Logged
  <1> DEFINE added == [m \in 1..Cardinality(I) |-> SnapshotOf(cs, order[m])]
  <1>3. DOMAIN order = 1..Cardinality(I)
    BY <1>2
  <1>increasing. \A m, n \in 1..Cardinality(I) : m < n => order[m] < order[n]
    BY <1>2, <1>3
  <1>4. newLog = log \o added
    BY <1>2, <1>3
  <1>5. \A i \in I : i \in Nat /\ cs[i] \in Constraint
    OBVIOUS
  <1>6. \A m \in 1..Cardinality(I) : order[m] \in I
    BY <1>2
  <1>7. \A m \in 1..Cardinality(I) : added[m] \in LogEntry /\ added[m].constraint_index = order[m]
    BY <1>5, <1>6 DEF SnapshotOf, LogEntry, Constraint
  <1>8. added \in Seq(LogEntry) /\ Len(added) = Cardinality(I)
    <2>1. added = [m \in 1..Cardinality(I) |-> added[m]]
      OBVIOUS
    <2> HIDE DEF added
    <2> QED
      BY <1>1, <1>7, <2>1
  <1> HIDE DEF added
  <1>9. newLog \in Seq(LogEntry) /\ Len(newLog) = Len(log) + Len(added)
    BY <1>4, <1>8
  <1>10. \A k \in DOMAIN log : k \in DOMAIN newLog /\ newLog[k] = log[k]
    BY <1>4, <1>8, <1>9
  <1>11. \A k \in DOMAIN newLog \ DOMAIN log :
            /\ k - Len(log) \in 1..Cardinality(I)
            /\ newLog[k] = added[k - Len(log)]
    BY <1>4, <1>8, <1>9
  <1>12. \A k \in DOMAIN newLog \ DOMAIN log : \E i \in I : newLog[k] = SnapshotOf(cs, i)
    BY <1>6, <1>11 DEF added
  <1>13. ASSUME NEW k \in DOMAIN newLog \ DOMAIN log, NEW l \in DOMAIN newLog \ DOMAIN log,
                newLog[k].constraint_index = newLog[l].constraint_index
         PROVE  k = l
    <2> DEFINE m == k - Len(log)
    <2> DEFINE n == l - Len(log)
    <2>1. m \in 1..Cardinality(I) /\ n \in 1..Cardinality(I)
      BY <1>11
    <2>2. order[m] = order[n] /\ order[m] \in Nat /\ order[n] \in Nat
      BY <1>5, <1>6, <1>7, <1>11, <1>13
    <2>3. ~(m < n) /\ ~(n < m)
      <3> HIDE DEF m, n
      <3> QED
        BY <1>increasing, <2>1, <2>2
    <2>4. k \in Nat /\ l \in Nat /\ Len(log) \in Nat
      BY <1>9
    <2> QED
      BY <2>3, <2>4
  <1> QED
    BY <1>9, <1>10, <1>12, <1>13

-----------------------------------------------------------------------------

\* A new requirement, replacing what it must, keeps the invariants, and takes
\* the axis of every requirement it replaces.
LEMMA SupersedeKeeps ==
    ASSUME AxisInv, NEW r \in Requirements, Supersede(r)
    PROVE  AxisInv' /\ HeldAxes(constraints) \subseteq HeldAxes(constraints')
  <1> DEFINE new  == build_constraint(r)
  <1> DEFINE lost == Losers(constraints, new)
  <1> DEFINE cs   == Deactivate(constraints, lost)
  <1>1. new \in Constraint /\ new.still_active
    BY AxisAssumption DEF build_constraint, Constraint, Requirement
  <1>2. constraints \in Seq(Constraint) /\ constraints_superseded \in Seq(LogEntry)
    BY DEF AxisInv, AxisTypeOK
  <1>3. lost \in SUBSET DOMAIN constraints
    BY DEF Losers
  <1>4. /\ constraints' = Append(cs, new)
        /\ Logged(constraints_superseded, constraints, lost, constraints_superseded')
    BY DEF Supersede
  <1>5. \A i \in lost : /\ Competes(new)
                         /\ constraints[i].still_active
                         /\ Competes(constraints[i])
                         /\ SameAxis(constraints[i], new)
    BY DEF Losers
  <1>6. \A i \in DOMAIN constraints \ lost :
          constraints[i].still_active /\ Competes(constraints[i]) /\ Competes(new)
            /\ SameAxis(constraints[i], new) => constraints[i].value = new.value
    BY DEF Losers
  <1> HIDE DEF new, lost
  <1>7. /\ cs \in Seq(Constraint)
        /\ DOMAIN cs = DOMAIN constraints
        /\ \A i \in DOMAIN constraints :
             /\ cs[i].hard = constraints[i].hard
             /\ cs[i].kind = constraints[i].kind
             /\ cs[i].scope = constraints[i].scope
             /\ cs[i].value = constraints[i].value
             /\ cs[i].still_active = (constraints[i].still_active /\ i \notin lost)
    BY <1>2, DeactivateRows
  <1> HIDE DEF cs
  <1>8. /\ constraints' \in Seq(Constraint)
        /\ DOMAIN constraints' = DOMAIN constraints \cup {Len(cs) + 1}
        /\ Len(cs) + 1 \notin DOMAIN constraints
        /\ \A i \in DOMAIN constraints : constraints'[i] = cs[i]
        /\ constraints'[Len(cs) + 1] = new
    BY <1>1, <1>4, <1>7
  <1>9. /\ constraints_superseded' \in Seq(LogEntry)
        /\ \A k \in DOMAIN constraints_superseded :
             /\ k \in DOMAIN constraints_superseded'
             /\ constraints_superseded'[k] = constraints_superseded[k]
        /\ \A k \in DOMAIN constraints_superseded' \ DOMAIN constraints_superseded :
             \E i \in lost : constraints_superseded'[k] = SnapshotOf(constraints, i)
        /\ \A k, l \in DOMAIN constraints_superseded' \ DOMAIN constraints_superseded :
             constraints_superseded'[k].constraint_index
               = constraints_superseded'[l].constraint_index => k = l
    BY <1>2, <1>3, <1>4, LoggedRows, Zenon
  <1>10. \A i \in DOMAIN constraints :
           /\ constraints'[i].hard = constraints[i].hard
           /\ constraints'[i].kind = constraints[i].kind
           /\ constraints'[i].scope = constraints[i].scope
           /\ constraints'[i].value = constraints[i].value
           /\ constraints'[i].still_active = (constraints[i].still_active /\ i \notin lost)
    BY <1>7, <1>8
  <1>11. AxisTypeOK'
    BY <1>8, <1>9 DEF AxisTypeOK
  <1>12. AxisAgrees'
    <2> SUFFICES ASSUME NEW i \in DOMAIN constraints', NEW j \in DOMAIN constraints',
                        constraints'[i].still_active, Competes(constraints'[i]),
                        constraints'[j].still_active, Competes(constraints'[j]),
                        SameAxis(constraints'[i], constraints'[j])
                 PROVE  constraints'[i].value = constraints'[j].value
      BY DEF AxisAgrees
    <2>1. CASE i \in DOMAIN constraints /\ j \in DOMAIN constraints
      <3>1. /\ constraints[i].still_active /\ Competes(constraints[i])
            /\ constraints[j].still_active /\ Competes(constraints[j])
            /\ SameAxis(constraints[i], constraints[j])
        BY <1>10, <2>1 DEF Competes, SameAxis
      <3>2. constraints[i].value = constraints[j].value
        BY <2>1, <3>1 DEF AxisInv, AxisAgrees
      <3> QED
        BY <1>10, <2>1, <3>2
    <2>2. ASSUME NEW m \in DOMAIN constraints,
                 constraints'[m].still_active, Competes(constraints'[m]),
                 Competes(new), SameAxis(constraints'[m], new)
          PROVE  constraints'[m].value = new.value
      <3>1. m \notin lost /\ constraints[m].still_active
        BY <1>10, <2>2
      <3>2. Competes(constraints[m]) /\ SameAxis(constraints[m], new)
        BY <1>10, <2>2 DEF Competes, SameAxis
      <3>3. constraints[m].value = new.value
        BY <1>6, <2>2, <3>1, <3>2
      <3> QED
        BY <1>10, <3>3
    <2>3. SameAxis(constraints'[j], constraints'[i])
      BY DEF SameAxis
    <2>4. CASE i \in DOMAIN constraints /\ j = Len(cs) + 1
      BY <1>8, <2>2, <2>4
    <2>5. CASE i = Len(cs) + 1 /\ j \in DOMAIN constraints
      BY <1>8, <2>2, <2>3, <2>5
    <2>6. CASE i = Len(cs) + 1 /\ j = Len(cs) + 1
      BY <2>6
    <2> QED
      BY <1>8, <2>1, <2>4, <2>5, <2>6
  <1>13. ASSUME NEW k \in DOMAIN constraints_superseded'
         PROVE  LET e == constraints_superseded'[k]
                    i == e.constraint_index
                IN  /\ i \in DOMAIN constraints
                    /\ SameAxis(constraints[i], e)
                    /\ constraints[i].value = e.value
                    /\ Competes(constraints[i])
                    /\ constraints[i].still_active => i \in lost
                    /\ k \in DOMAIN constraints_superseded => ~constraints[i].still_active
                    /\ k \notin DOMAIN constraints_superseded => constraints[i].still_active
    <2>1. CASE k \in DOMAIN constraints_superseded
      BY <1>9, <2>1 DEF AxisInv, LogRestorable, LoggedAreInactive, SnapshotMatches
    <2>2. CASE k \notin DOMAIN constraints_superseded
      <3>1. PICK i \in lost : constraints_superseded'[k] = SnapshotOf(constraints, i)
        BY <1>9, <2>2
      <3> QED
        BY <1>3, <1>5, <2>2, <3>1 DEF SnapshotOf, SameAxis
    <2> QED
      BY <2>1, <2>2
  <1>14. LogRestorable'
    BY <1>8, <1>10, <1>13 DEF LogRestorable, SnapshotMatches, SameAxis, Competes
  <1>15. LoggedAreInactive'
    <2>1. ASSUME NEW k \in DOMAIN constraints_superseded'
          PROVE  ~constraints'[constraints_superseded'[k].constraint_index].still_active
      BY <1>10, <1>13
    <2>2. ASSUME NEW k \in DOMAIN constraints_superseded',
                 NEW l \in DOMAIN constraints_superseded',
                 constraints_superseded'[k].constraint_index
                   = constraints_superseded'[l].constraint_index
          PROVE  k = l
      <3>1. k \in DOMAIN constraints_superseded <=> l \in DOMAIN constraints_superseded
        BY <1>13, <2>2
      <3>2. CASE k \in DOMAIN constraints_superseded
        BY <1>9, <2>2, <3>1, <3>2 DEF AxisInv, LoggedAreInactive
      <3>3. CASE k \notin DOMAIN constraints_superseded
        BY <1>9, <2>2, <3>1, <3>3
      <3> QED
        BY <3>2, <3>3
    <2> QED
      BY <2>1, <2>2 DEF LoggedAreInactive
  <1>16. ASSUME NEW i \in DOMAIN constraints, constraints[i].still_active,
                Competes(constraints[i])
         PROVE  \E j \in DOMAIN constraints' :
                  /\ constraints'[j].still_active
                  /\ Competes(constraints'[j])
                  /\ SameAxis(constraints[i], constraints'[j])
    <2>1. CASE i \in lost
      <3>1. SameAxis(constraints[i], new) /\ Competes(new)
        BY <1>5, <2>1
      <3> QED
        BY <1>1, <1>8, <3>1
    <2>2. CASE i \notin lost
      <3>1. /\ constraints'[i].still_active
            /\ Competes(constraints'[i])
            /\ SameAxis(constraints[i], constraints'[i])
        BY <1>10, <1>16, <2>2 DEF Competes, SameAxis
      <3> QED
        BY <1>8, <3>1
    <2> QED
      BY <2>1, <2>2
  <1>17. HeldAxes(constraints) \subseteq HeldAxes(constraints')
    BY <1>16 DEF HeldAxes, SameAxis
  <1> QED
    BY <1>11, <1>12, <1>14, <1>15, <1>17 DEF AxisInv

\* Restoring the newest snapshot swaps it with whatever holds its axis.
LEMMA RestoreKeeps ==
    ASSUME AxisInv, RestoreAxis
    PROVE  AxisInv' /\ HeldAxes(constraints) \subseteq HeldAxes(constraints')
  <1> DEFINE log   == constraints_superseded
  <1> DEFINE entry == LastEntry
  <1> DEFINE row   == entry.constraint_index
  <1> DEFINE base  == [constraints EXCEPT ![row].still_active = TRUE]
  <1> DEFINE out   == Displaced(constraints, entry)
  <1>1. constraints \in Seq(Constraint) /\ log \in Seq(LogEntry) /\ log # << >>
    BY DEF AxisInv, AxisTypeOK, RestoreAxis, CanRestoreConstraint
  <1>2. /\ Front(log) \in Seq(LogEntry)
        /\ Len(log) \in DOMAIN log
        /\ \A k \in DOMAIN Front(log) : k \in DOMAIN log /\ k # Len(log) /\ Front(log)[k] = log[k]
        /\ entry = log[Len(log)]
    BY <1>1, LastFront DEF LastEntry
  <1>3. /\ row \in DOMAIN constraints
        /\ SameAxis(constraints[row], entry)
        /\ Competes(constraints[row])
    BY <1>2 DEF AxisInv, LogRestorable, SnapshotMatches
  <1>4. constraints' = Deactivate(base, out) /\ log' = Front(log)
    BY DEF RestoreAxis, Swap
  <1>5. \A i \in DOMAIN constraints \ {row} :
          constraints[i].still_active /\ Competes(constraints[i])
            /\ SameAxis(constraints[i], entry) => i \in out
    BY AxisAssumption DEF Displaced, Competes
  <1>6. row \notin out
    BY DEF Displaced
  <1>7. /\ base \in Seq(Constraint)
        /\ DOMAIN base = DOMAIN constraints
        /\ \A i \in DOMAIN constraints :
             /\ base[i].hard = constraints[i].hard
             /\ base[i].kind = constraints[i].kind
             /\ base[i].scope = constraints[i].scope
             /\ base[i].value = constraints[i].value
             /\ i # row => base[i].still_active = constraints[i].still_active
        /\ base[row].still_active = TRUE
    <2> HIDE DEF row
    <2>1. \A i \in DOMAIN constraints : constraints[i] \in Constraint
      BY <1>1
    <2>2. /\ DOMAIN base = DOMAIN constraints
          /\ \A i \in DOMAIN constraints \ {row} : base[i] = constraints[i]
          /\ base[row] = [constraints[row] EXCEPT !.still_active = TRUE]
      BY <1>1, <1>3
    <2>3. [constraints[row] EXCEPT !.still_active = TRUE] \in Constraint
      BY <1>3, <2>1 DEF Constraint
    <2>4. base \in Seq(Constraint)
      BY <1>1, <1>3, <2>3
    <2> HIDE DEF base
    <2>7. /\ base[row].hard = constraints[row].hard
          /\ base[row].kind = constraints[row].kind
          /\ base[row].scope = constraints[row].scope
          /\ base[row].value = constraints[row].value
          /\ base[row].still_active = TRUE
      BY <1>3, <2>1, <2>2 DEF Constraint
    <2> QED
      BY <1>3, <2>2, <2>4, <2>7
  <1> HIDE DEF entry, row, base, out
  <1>8. /\ constraints' \in Seq(Constraint)
        /\ DOMAIN constraints' = DOMAIN constraints
        /\ \A i \in DOMAIN constraints :
             /\ constraints'[i].hard = constraints[i].hard
             /\ constraints'[i].kind = constraints[i].kind
             /\ constraints'[i].scope = constraints[i].scope
             /\ constraints'[i].value = constraints[i].value
    BY <1>4, <1>7, DeactivateRows
  <1>9. \A i \in DOMAIN constraints :
          /\ i # row => constraints'[i].still_active = (constraints[i].still_active /\ i \notin out)
          /\ i = row => constraints'[i].still_active
    <2>1. \A i \in DOMAIN constraints :
             constraints'[i].still_active = (base[i].still_active /\ i \notin out)
      BY <1>4, <1>7, DeactivateRows
    <2>2. constraints'[row].still_active
      BY <1>3, <1>6, <1>7, <2>1
    <2>3. ASSUME NEW i \in DOMAIN constraints, i # row
          PROVE  constraints'[i].still_active = (constraints[i].still_active /\ i \notin out)
      <3>1. base[i].still_active = constraints[i].still_active
        BY <1>7, <2>3
      <3>2. constraints'[i].still_active = (base[i].still_active /\ i \notin out)
        BY <2>1
      <3> QED
        BY <3>1, <3>2, Zenon
    <2> QED
      BY <2>2, <2>3
  <1>10. AxisTypeOK'
    BY <1>2, <1>4, <1>8 DEF AxisTypeOK
  <1>11. AxisAgrees'
    <2> SUFFICES ASSUME NEW i \in DOMAIN constraints, NEW j \in DOMAIN constraints,
                        constraints'[i].still_active, Competes(constraints'[i]),
                        constraints'[j].still_active, Competes(constraints'[j]),
                        SameAxis(constraints'[i], constraints'[j])
                 PROVE  constraints'[i].value = constraints'[j].value
      BY <1>8 DEF AxisAgrees
    <2>1. /\ Competes(constraints[i]) /\ Competes(constraints[j])
          /\ SameAxis(constraints[i], constraints[j])
      BY <1>8 DEF Competes, SameAxis
    <2>2. CASE i # row /\ j # row
      <3>1. constraints[i].still_active /\ constraints[j].still_active
        BY <1>9, <2>2
      <3>2. constraints[i].value = constraints[j].value
        BY <2>1, <3>1 DEF AxisInv, AxisAgrees
      <3> QED
        BY <1>8, <3>2
    <2>3. CASE i = row /\ j # row
      <3>1. SameAxis(constraints[j], entry)
        BY <1>3, <2>1, <2>3 DEF SameAxis
      <3> QED
        BY <1>5, <1>9, <2>1, <2>3, <3>1
    <2>4. CASE i # row /\ j = row
      <3>1. SameAxis(constraints[i], entry)
        BY <1>3, <2>1, <2>4 DEF SameAxis
      <3> QED
        BY <1>5, <1>9, <2>1, <2>4, <3>1
    <2> QED
      BY <2>2, <2>3, <2>4
  <1>12. ASSUME NEW k \in DOMAIN log'
         PROVE  /\ k \in DOMAIN log /\ log'[k] = log[k]
                /\ SnapshotMatches(constraints, log[k])
                /\ Competes(constraints[log[k].constraint_index])
                /\ ~constraints[log[k].constraint_index].still_active
                /\ log[k].constraint_index # row
    BY <1>2, <1>4 DEF AxisInv, LogRestorable, LoggedAreInactive, row
  <1>13. LogRestorable'
    BY <1>8, <1>12 DEF LogRestorable, SnapshotMatches, SameAxis, Competes
  <1>14. LoggedAreInactive'
    <2>1. ASSUME NEW k \in DOMAIN log'
          PROVE  ~constraints'[log'[k].constraint_index].still_active
      BY <1>9, <1>12 DEF SnapshotMatches
    <2>2. \A k, l \in DOMAIN log' :
             log'[k].constraint_index = log'[l].constraint_index => k = l
      BY <1>12 DEF AxisInv, LoggedAreInactive
    <2> QED
      BY <2>1, <2>2 DEF LoggedAreInactive
  <1>15. \A i \in out : SameAxis(constraints[i], entry)
    BY DEF out, Displaced
  <1>16. ASSUME NEW i \in DOMAIN constraints, constraints[i].still_active,
                Competes(constraints[i])
         PROVE  \E j \in DOMAIN constraints' :
                  /\ constraints'[j].still_active
                  /\ Competes(constraints'[j])
                  /\ SameAxis(constraints[i], constraints'[j])
    <2>1. CASE i \in out
      <3>1. SameAxis(constraints[i], constraints'[row])
        BY <1>3, <1>8, <1>15, <2>1 DEF SameAxis
      <3>2. constraints'[row].still_active /\ Competes(constraints'[row])
        BY <1>3, <1>8, <1>9 DEF Competes
      <3> QED
        BY <1>3, <1>8, <3>1, <3>2
    <2>2. CASE i \notin out
      <3>1. /\ constraints'[i].still_active
            /\ Competes(constraints'[i])
            /\ SameAxis(constraints[i], constraints'[i])
        BY <1>8, <1>9, <1>16, <2>2 DEF Competes, SameAxis
      <3> QED
        BY <1>8, <3>1
    <2> QED
      BY <2>1, <2>2
  <1>17. HeldAxes(constraints) \subseteq HeldAxes(constraints')
    BY <1>16 DEF HeldAxes, SameAxis
  <1> QED
    BY <1>10, <1>11, <1>13, <1>14, <1>17 DEF AxisInv

\* A reset forgets the log along with the list it points into.
LEMMA ResetKeeps ==
    ASSUME ResetRequirements
    PROVE  AxisInv'
  <1>1. PICK seed \in {<< >>} \cup {<<r>> : r \in Requirements} : ResetAxis(seed)
    BY DEF ResetRequirements
  <1>2. constraints_superseded' = << >>
    BY <1>1 DEF ResetAxis
  <1>3. \A r \in Requirements : build_constraint(r) \in Constraint
    BY AxisAssumption DEF build_constraint, Constraint, Requirement
  <1>4. \/ constraints' = << >>
        \/ \E r \in Requirements : constraints' = <<build_constraint(r)>>
    BY <1>1 DEF ResetAxis
  <1>5. AxisTypeOK'
    <2>1. CASE constraints' = << >>
      BY <1>2, <2>1 DEF AxisTypeOK
    <2>2. ASSUME NEW r \in Requirements, constraints' = <<build_constraint(r)>>
          PROVE  constraints' \in Seq(Constraint)
      <3>1. build_constraint(r) \in Constraint
        BY <1>3
      <3> QED
        BY <2>2, <3>1
    <2> QED
      BY <1>2, <1>4, <2>1, <2>2 DEF AxisTypeOK
  <1>6. \A i, j \in DOMAIN constraints' : i = j
    BY <1>4
  <1> QED
    BY <1>2, <1>5, <1>6 DEF AxisInv, AxisAgrees, LogRestorable, LoggedAreInactive

-----------------------------------------------------------------------------

\* The four invariants hold of every session, whatever is stated, restored and
\* reset, in any order.
THEOREM AxisSafety == AxisSpec => []AxisInv
  <1>1. AxisInit => AxisInv
    BY DEF AxisInit, AxisInv, AxisTypeOK, AxisAgrees, LogRestorable, LoggedAreInactive
  <1>2. AxisInv /\ [AxisNext]_axisVars => AxisInv'
    <2> SUFFICES ASSUME AxisInv, [AxisNext]_axisVars
                 PROVE  AxisInv'
      OBVIOUS
    <2>1. CASE \E r \in Requirements : RecordRequirement(r)
      BY <2>1, SupersedeKeeps DEF RecordRequirement
    <2>2. CASE RestoreAxis
      BY <2>2, RestoreKeeps
    <2>3. CASE ResetRequirements
      BY <2>3, ResetKeeps
    <2>4. CASE UNCHANGED axisVars
      BY <2>4 DEF axisVars, AxisInv, AxisTypeOK, AxisAgrees, LogRestorable,
                  LoggedAreInactive, SnapshotMatches
    <2> QED
      BY <2>1, <2>2, <2>3, <2>4 DEF AxisNext
  <1> QED
    BY <1>1, <1>2, PTL DEF AxisSpec

\* No two active hard requirements on one axis disagree; every snapshot in the
\* undo log can be restored, is inactive and waits there once.
THEOREM AxesStaySound == AxisSpec => []AxesAreSound
  <1>1. AxisInv => AxesAreSound
    BY DEF AxisInv, AxesAreSound
  <1> QED
    BY <1>1, AxisSafety, PTL

\* Replacing and restoring never leave an axis open: only a reset does.
THEOREM AxesStayHeld == AxisSpec => AxisNeverEmptied
  <1>1. AxisInv /\ [AxisNext]_axisVars
          => [ResetRequirements \/ HeldAxes(constraints) \subseteq HeldAxes(constraints')]_axisVars
    <2> SUFFICES ASSUME AxisInv, AxisNext
                 PROVE  ResetRequirements \/ HeldAxes(constraints) \subseteq HeldAxes(constraints')
      OBVIOUS
    <2>1. CASE \E r \in Requirements : RecordRequirement(r)
      BY <2>1, SupersedeKeeps DEF RecordRequirement
    <2>2. CASE RestoreAxis
      BY <2>2, RestoreKeeps
    <2>3. CASE ResetRequirements
      BY <2>3
    <2> QED
      BY <2>1, <2>2, <2>3 DEF AxisNext
  <1> QED
    BY <1>1, AxisSafety, PTL DEF AxisSpec, AxisNeverEmptied

-----------------------------------------------------------------------------
(* The draft.                                                              *)

AttrRecord == [value : AnyValue \cup {None}, locked : BOOLEAN]
SlotRecord == [SLOT_ATTRS -> AttrRecord]
Drafts     == [Slots -> SlotRecord]
Stacks     == [Slots -> [SLOT_ATTRS -> Seq(AnyValue)]]

\* SpeciesClause, ItemClause, SpeciesOnlyLocked and MegaHoldsItsStone of d.
DistinctSpecies(d) ==
    \A s, t \in Slots :
        /\ s # t
        /\ d[s].species.value # None
        /\ d[t].species.value # None
        => DexOf[d[s].species.value] # DexOf[d[t].species.value]

DistinctItems(d) ==
    \A s, t \in Slots :
        /\ s # t
        /\ d[s].item.locked
        /\ d[t].item.locked
        /\ d[s].item.value # None
        => d[s].item.value # d[t].item.value

StoneInSlot(slot) ==
    /\ slot.species.value # None
    /\ StoneOf[slot.species.value] # None
    /\ slot.item.locked
    /\ slot.item.value # None
    => slot.item.value = StoneOf[slot.species.value]

SpeciesLocked(slot) == slot.species.value # None => slot.species.locked

Clauses(d) ==
    /\ DistinctSpecies(d)
    /\ DistinctItems(d)
    /\ \A s \in Slots : StoneInSlot(d[s]) /\ SpeciesLocked(d[s])

TeamInv == TypeOK /\ AxisInv /\ Clauses(team_draft)

\* What a turn may leave of an attribute it did not lock.
Weaker(old, new, a) ==
    \/ new = old
    \/ new = NoAttr
    \/ a # "species" /\ ~new.locked

-----------------------------------------------------------------------------

\* Values for the attributes in A have the types of a draft.
LEMMA WithType ==
    ASSUME NEW A \in SUBSET SLOT_ATTRS, NEW B \in SUBSET A, NEW r \in Assignments(A),
           NEW slot \in SlotRecord
    PROVE  /\ With(slot, r, B) \in SlotRecord
           /\ \A a \in A : r[a] \in AnyValue /\ r[a] # None
           /\ \A a \in SLOT_ATTRS :
                With(slot, r, B)[a] = IF a \in B THEN Locked(r[a]) ELSE slot[a]
  <1>1. \A a \in A : r[a] \in AnyValue
    BY DEF Assignments
  <1>2. \A a \in A : r[a] # None
    BY <1>1, TeamAssumption
  <1>3. \A a \in B : Locked(r[a]) \in AttrRecord
    BY <1>1 DEF Locked, AttrRecord
  <1>4. \A a \in SLOT_ATTRS :
          With(slot, r, B)[a] = IF a \in B THEN Locked(r[a]) ELSE slot[a]
    BY DEF With
  <1>5. With(slot, r, B) \in SlotRecord
    BY <1>3 DEF With, SlotRecord
  <1> QED
    BY <1>1, <1>2, <1>4, <1>5

\* A complete build leaves nothing of the slot it replaces.
LEMMA BuildType ==
    ASSUME NEW b \in Assignments(SLOT_ATTRS), NEW slot
    PROVE  /\ With(slot, b, SLOT_ATTRS) \in SlotRecord
           /\ \A a \in SLOT_ATTRS : With(slot, b, SLOT_ATTRS)[a] = Locked(b[a])
  <1>1. \A a \in SLOT_ATTRS : b[a] \in AnyValue
    BY DEF Assignments
  <1>2. \A a \in SLOT_ATTRS : Locked(b[a]) \in AttrRecord
    BY <1>1 DEF Locked, AttrRecord
  <1> QED
    BY <1>2 DEF With, SlotRecord

\* Reopening keeps the types of the draft and of the undo stacks.
LEMMA ReopenType ==
    ASSUME NEW d \in Drafts, superseded \in Stacks,
           NEW P \in SUBSET {p \in Slots \X SLOT_ATTRS : d[p[1]][p[2]].value # None}
    PROVE  /\ Reopen(d, P) \in Drafts
           /\ Push(d, P) \in Stacks
           /\ \A s \in Slots, a \in SLOT_ATTRS : Weaker(d[s][a], Reopen(d, P)[s][a], a)
  <1>1. \A s \in Slots, a \in SLOT_ATTRS : d[s][a] \in AttrRecord
    BY DEF Drafts, SlotRecord
  <1>2. NoAttr \in AttrRecord
    BY DEF NoAttr, AttrRecord
  <1>3. Reopen(d, P) \in Drafts
    BY <1>1, <1>2 DEF Reopen, Drafts, SlotRecord
  <1>4. \A s \in Slots, a \in SLOT_ATTRS : <<s, a>> \in P => d[s][a].value \in AnyValue
    BY <1>1 DEF AttrRecord
  <1>5. \A s \in Slots, a \in SLOT_ATTRS : superseded[s][a] \in Seq(AnyValue)
    BY DEF Stacks
  <1>6. Push(d, P) \in Stacks
    BY <1>4, <1>5 DEF Push, Stacks
  <1>7. \A s \in Slots, a \in SLOT_ATTRS : Weaker(d[s][a], Reopen(d, P)[s][a], a)
    BY DEF Reopen, Weaker
  <1> QED
    BY <1>3, <1>6, <1>7

\* Reopening and proposing break no clause.
LEMMA WeakenKeeps ==
    ASSUME NEW d, NEW e, Clauses(d),
           \A s \in Slots, a \in SLOT_ATTRS : Weaker(d[s][a], e[s][a], a)
    PROVE  Clauses(e)
  <1>1. \A s \in Slots : \/ e[s].species = d[s].species
                         \/ e[s].species = NoAttr
    BY DEF Weaker, SLOT_ATTRS
  <1>2. \A s \in Slots : e[s].item.locked => e[s].item = d[s].item
    BY DEF Weaker, SLOT_ATTRS, NoAttr
  <1>3. NoAttr.value = None
    BY DEF NoAttr
  <1>4. DistinctSpecies(e)
    BY <1>1, <1>3 DEF Clauses, DistinctSpecies
  <1>5. DistinctItems(e)
    BY <1>2 DEF Clauses, DistinctItems
  <1>6. \A s \in Slots : SpeciesLocked(e[s])
    BY <1>1, <1>3 DEF Clauses, SpeciesLocked
  <1>7. \A s \in Slots : StoneInSlot(e[s])
    BY <1>1, <1>2, <1>3 DEF Clauses, StoneInSlot
  <1> QED
    BY <1>4, <1>5, <1>6, <1>7 DEF Clauses

\* Installing a slot whose new species and item were validated breaks none.
LEMMA Install ==
    ASSUME NEW d \in Drafts, Clauses(d), NEW s \in Slots, NEW slot \in SlotRecord,
           \/ slot.species = d[s].species
           \/ slot.species.locked /\ ~SpeciesClauseRefuses(d, s, slot.species.value),
           \/ slot.item = d[s].item
           \/ ~ItemClauseRefuses(d, s, slot.item.value),
           StoneInSlot(slot)
    PROVE  Clauses([d EXCEPT ![s] = slot])
  <1> DEFINE e == [d EXCEPT ![s] = slot]
  <1>1. e[s] = slot /\ \A t \in Slots \ {s} : e[t] = d[t]
    BY DEF Drafts
  <1> HIDE DEF e
  <1>2. \A t \in Slots \ {s} :
          /\ slot.species.value # None
          /\ d[t].species.value # None
          => DexOf[slot.species.value] # DexOf[d[t].species.value]
    BY DEF Clauses, DistinctSpecies, SpeciesClauseRefuses
  <1>3. DistinctSpecies(e)
    <2> SUFFICES ASSUME NEW t \in Slots, NEW u \in Slots, t # u,
                        e[t].species.value # None, e[u].species.value # None
                 PROVE  DexOf[e[t].species.value] # DexOf[e[u].species.value]
      BY DEF DistinctSpecies
    <2>1. CASE t = s
      BY <1>1, <1>2, <2>1
    <2>2. CASE u = s
      BY <1>1, <1>2, <2>2
    <2>3. CASE t # s /\ u # s
      BY <1>1, <2>3 DEF Clauses, DistinctSpecies
    <2> QED
      BY <2>1, <2>2, <2>3
  <1>4. \A t \in Slots \ {s} :
          /\ slot.item.locked /\ d[t].item.locked
          /\ slot.item.value # None \/ d[t].item.value # None
          => slot.item.value # d[t].item.value
    BY DEF Clauses, DistinctItems, ItemClauseRefuses
  <1>5. DistinctItems(e)
    <2> SUFFICES ASSUME NEW t \in Slots, NEW u \in Slots, t # u,
                        e[t].item.locked, e[u].item.locked, e[t].item.value # None
                 PROVE  e[t].item.value # e[u].item.value
      BY DEF DistinctItems
    <2>1. CASE t = s
      BY <1>1, <1>4, <2>1
    <2>2. CASE u = s
      BY <1>1, <1>4, <2>2
    <2>3. CASE t # s /\ u # s
      BY <1>1, <2>3 DEF Clauses, DistinctItems
    <2> QED
      BY <2>1, <2>2, <2>3
  <1>6. SpeciesLocked(slot)
    BY DEF SpeciesLocked, Clauses
  <1>7. \A t \in Slots : StoneInSlot(e[t]) /\ SpeciesLocked(e[t])
    BY <1>1, <1>6 DEF Clauses
  <1> QED
    BY <1>3, <1>5, <1>7 DEF Clauses, e

-----------------------------------------------------------------------------

\* TypeOK in the vocabulary of this module.
LEMMA TypeOKParts ==
    TypeOK <=> /\ AxisTypeOK
               /\ team_draft \in Drafts
               /\ superseded \in Stacks
               /\ rejected \subseteq Species
               /\ archetype \in Themes \cup {None}
               /\ slot_commit_error \in BOOLEAN
  BY DEF TypeOK, Drafts, SlotRecord, AttrRecord, Stacks

\* The same of the next state.
LEMMA TypeOKPartsNext ==
    ASSUME AxisTypeOK', team_draft' \in Drafts, superseded' \in Stacks,
           rejected' \subseteq Species, archetype' \in Themes \cup {None},
           slot_commit_error' \in BOOLEAN
    PROVE  TypeOK'
  BY DEF TypeOK, Drafts, SlotRecord, AttrRecord, Stacks

\* A turn that leaves the requirements alone leaves their invariants alone.
LEMMA AxisUnchanged ==
    ASSUME AxisInv, UNCHANGED axisVars
    PROVE  AxisInv'
  BY DEF axisVars, AxisInv, AxisTypeOK, AxisAgrees, LogRestorable,
         LoggedAreInactive, SnapshotMatches

\* A refused turn changes only the message.
LEMMA RefusedKeeps ==
    ASSUME TeamInv, Refused
    PROVE  TeamInv'
  <1>1. AxisInv'
    BY AxisUnchanged DEF Refused, TeamInv
  <1>2. TypeOK'
    BY DEF Refused, TeamInv, TypeOK, axisVars, draftVars, AxisTypeOK
  <1>3. Clauses(team_draft)'
    BY DEF Refused, TeamInv, draftVars
  <1> QED
    BY <1>1, <1>2, <1>3 DEF TeamInv

\* A reconciliation of a draft that keeps the clauses.
LEMMA ReopenAllKeeps ==
    ASSUME TypeOK, NEW d \in Drafts, Clauses(d),
           NEW P \in SUBSET {p \in Slots \X SLOT_ATTRS : d[p[1]][p[2]].value # None},
           ReopenAll(d, P)
    PROVE  /\ team_draft' \in Drafts
           /\ superseded' \in Stacks
           /\ Clauses(team_draft)'
  <1>1. superseded \in Stacks
    BY TypeOKParts
  <1>2. team_draft' = Reopen(d, P) /\ superseded' = Push(d, P)
    BY DEF ReopenAll
  <1>3. /\ Reopen(d, P) \in Drafts
        /\ Push(d, P) \in Stacks
        /\ \A s \in Slots, a \in SLOT_ATTRS : Weaker(d[s][a], Reopen(d, P)[s][a], a)
    BY <1>1, ReopenType
  <1>4. Clauses(team_draft')
    BY <1>2, <1>3, WeakenKeeps
  <1> QED
    BY <1>2, <1>3, <1>4

\* Every set of attributes a requirement reopens carries values.
LEMMA MismatchesPinned ==
    ASSUME NEW d \in Drafts, NEW c
    PROVE  ConstraintMismatches(d, c)
             \in SUBSET {p \in Slots \X SLOT_ATTRS : d[p[1]][p[2]].value # None}
  <1>1. CASE ~c.hard
    BY <1>1 DEF ConstraintMismatches
  <1>2. CASE c.hard /\ c.kind = NoDuplicateItems
    <2>1. ConstraintMismatches(d, c) = DuplicateHolders(d) \X {"item"}
      BY <1>2 DEF ConstraintMismatches
    <2>2. \A s \in DuplicateHolders(d) : s \in Slots /\ d[s]["item"].value # None
      BY DEF DuplicateHolders
    <2> QED
      BY <2>1, <2>2 DEF SLOT_ATTRS
  <1>3. CASE c.hard /\ c.kind # NoDuplicateItems
    <2>1. ConstraintMismatches(d, c)
            = {p \in Slots \X SLOT_ATTRS : Misfits(d[p[1]], c) /\ p[2] \in Pinned(d[p[1]])}
      BY <1>3 DEF ConstraintMismatches
    <2> QED
      BY <2>1 DEF Pinned
  <1> QED
    BY <1>1, <1>2, <1>3

-----------------------------------------------------------------------------

\* apply_lock: the slot it installs was validated, except that a batch may
\* leave out the item; a stone is never left out, since it clashes with no
\* moveset.
LEMMA LockKeeps ==
    ASSUME TeamInv, NEW s \in Slots, NEW r \in LockRequests, NEW batch \in BOOLEAN,
           apply_lock(s, r, batch)
    PROVE  TeamInv'
  <1>1. CASE LockRefused(s, r)
    BY <1>1, RefusedKeeps DEF apply_lock
  <1>2. CASE ~LockRefused(s, r)
    <2> DEFINE new  == DOMAIN r \ Blocked(team_draft[s], r, batch)
    <2> DEFINE slot == With(team_draft[s], r, new)
    <2> DEFINE both == DOMAIN r \cap {"species", "item"}
    <2> DEFINE asked == [team_draft EXCEPT ![s] = With(team_draft[s], r, both)]
    <2>1. /\ team_draft \in Drafts /\ team_draft[s] \in SlotRecord
          /\ superseded \in Stacks /\ rejected \subseteq Species
          /\ archetype \in Themes \cup {None} /\ AxisTypeOK
      BY TypeOKParts DEF TeamInv, Drafts
    <2>2. PICK A \in SUBSET SLOT_ATTRS : r \in Assignments(A)
      BY DEF LockRequests
    <2>3. DOMAIN r = A /\ both \in SUBSET A /\ new \in SUBSET A
      BY <2>2 DEF Assignments
    <2>4. PICK theme \in ThemeChoices(slot, new) :
            /\ ReopenAll([team_draft EXCEPT ![s] = slot],
                         {s} \X (KitMismatches(slot, new) \cup theme))
            /\ rejected' = StillRejected(team_draft')
            /\ Handled
            /\ UNCHANGED <<axisVars, archetype>>
      BY <1>2 DEF apply_lock
    <2>5. Blocked(team_draft[s], r, batch) \subseteq {"item", "moveset"}
      BY DEF Blocked
    <2>6. \A a \in both : ValidTeamValue(asked, s, a, r[a])
      BY <1>2 DEF LockRefused
    <2>7. /\ slot \in SlotRecord
          /\ \A a \in SLOT_ATTRS : slot[a] = IF a \in new THEN Locked(r[a]) ELSE team_draft[s][a]
      <3> HIDE DEF new
      <3> QED
        BY <2>1, <2>2, <2>3, WithType
    <2>8. \A a \in SLOT_ATTRS :
            asked[s][a] = IF a \in both THEN Locked(r[a]) ELSE team_draft[s][a]
      <3>1. asked[s] = With(team_draft[s], r, both)
        BY <2>1 DEF Drafts
      <3> HIDE DEF both, asked
      <3> QED
        BY <2>1, <2>2, <2>3, <3>1, WithType
    <2>9. \A t \in Slots \ {s} : asked[t] = team_draft[t]
      BY <2>1 DEF Drafts
    <2>10. \A v : Locked(v).value = v /\ Locked(v).locked
      BY DEF Locked
    <2>11. "species" \in SLOT_ATTRS /\ "item" \in SLOT_ATTRS /\ "moveset" \in SLOT_ATTRS
      BY DEF SLOT_ATTRS
    <2>12. "species" \in new <=> "species" \in A
      BY <2>3, <2>5
    <2>13. \/ slot.species = team_draft[s].species
           \/ slot.species.locked /\ ~SpeciesClauseRefuses(team_draft, s, slot.species.value)
      <3>1. CASE "species" \in A
        <4>1. ValidTeamValue(asked, s, "species", r["species"])
          BY <2>3, <2>6, <3>1
        <4>2. ~SpeciesClauseRefuses(asked, s, r["species"])
          BY <4>1 DEF ValidTeamValue
        <4>3. ~SpeciesClauseRefuses(team_draft, s, r["species"])
          BY <2>9, <4>2 DEF SpeciesClauseRefuses
        <4>4. slot.species = Locked(r["species"])
          BY <2>7, <2>11, <2>12, <3>1
        <4> QED
          BY <2>10, <4>3, <4>4
      <3>2. CASE "species" \notin A
        BY <2>7, <2>11, <2>12, <3>2
      <3> QED
        BY <3>1, <3>2
    <2>14. \/ slot.item = team_draft[s].item
           \/ ~ItemClauseRefuses(team_draft, s, slot.item.value)
      <3>1. CASE "item" \in new
        <4>1. ValidTeamValue(asked, s, "item", r["item"])
          BY <2>3, <2>6, <3>1
        <4>2. ~ItemClauseRefuses(asked, s, r["item"])
          BY <4>1 DEF ValidTeamValue
        <4>3. ~ItemClauseRefuses(team_draft, s, r["item"])
          BY <2>9, <4>2 DEF ItemClauseRefuses
        <4>4. slot.item = Locked(r["item"])
          BY <2>7, <2>11, <3>1
        <4> QED
          BY <2>10, <4>3, <4>4
      <3>2. CASE "item" \notin new
        BY <2>7, <2>11, <3>2
      <3> QED
        BY <3>1, <3>2
    <2>15. StoneInSlot(slot)
      <3> SUFFICES ASSUME slot.species.value # None, StoneOf[slot.species.value] # None,
                          slot.item.locked, slot.item.value # None
                   PROVE  slot.item.value = StoneOf[slot.species.value]
        BY DEF StoneInSlot
      <3>1. CASE "species" \in A
        <4>1. ValidTeamValue(asked, s, "species", r["species"])
          BY <2>3, <2>6, <3>1
        <4>2. slot.species = Locked(r["species"])
          BY <2>7, <2>11, <2>12, <3>1
        <4>3. asked[s].item.value = StoneOf[slot.species.value]
          BY <2>10, <4>1, <4>2 DEF ValidTeamValue, StoneRefusesSpecies
        <4>4. CASE "item" \in A \ new
          <5>1. "item" \in both /\ "item" \in Blocked(team_draft[s], r, batch)
            BY <2>3, <4>4
          <5>2. r["item"] = StoneOf[r["species"]]
            BY <2>8, <2>10, <2>11, <4>2, <4>3, <5>1
          <5>3. KitClash(With(team_draft[s], r, A))
            BY <2>3, <5>1 DEF Blocked
          <5>4. With(team_draft[s], r, A).item = Locked(r["item"])
            BY <2>1, <2>2, <2>11, <4>4, WithType
          <5>5. r["species"] \in Species
            BY <2>2, <3>1 DEF Assignments, ValuesOf
          <5>6. PICK m : <<r["item"], m>> \in Clashes
            BY <2>10, <5>3, <5>4 DEF KitClash
          <5> QED
            BY <5>2, <5>5, <5>6, TeamAssumption
        <4>5. CASE "item" \in new
          BY <2>3, <2>7, <2>8, <2>11, <4>3, <4>5
        <4>6. CASE "item" \notin A
          BY <2>3, <2>7, <2>8, <2>11, <4>3, <4>6
        <4> QED
          BY <2>3, <4>4, <4>5, <4>6
      <3>2. CASE "species" \notin A
        <4>1. slot.species = team_draft[s].species /\ asked[s].species = team_draft[s].species
          BY <2>3, <2>7, <2>8, <2>11, <2>12, <3>2
        <4>2. CASE "item" \in new
          <5>1. ValidTeamValue(asked, s, "item", r["item"])
            BY <2>3, <2>6, <4>2
          <5>2. slot.item = Locked(r["item"])
            BY <2>7, <2>11, <4>2
          <5> QED
            BY <2>10, <4>1, <5>1, <5>2 DEF ValidTeamValue, StoneRefusesItem
        <4>3. CASE "item" \notin new
          <5>1. slot.item = team_draft[s].item
            BY <2>7, <2>11, <4>3
          <5> QED
            BY <4>1, <5>1 DEF TeamInv, Clauses, StoneInSlot
        <4> QED
          BY <4>2, <4>3
      <3> QED
        BY <3>1, <3>2
    <2> DEFINE d == [team_draft EXCEPT ![s] = slot]
    <2> DEFINE P == {s} \X (KitMismatches(slot, new) \cup theme)
    <2>16. Clauses(d)
      <3> HIDE DEF slot
      <3> QED
        BY <2>1, <2>7, <2>13, <2>14, <2>15, Install DEF TeamInv
    <2>17. d \in Drafts /\ d[s] = slot
      BY <2>1, <2>7 DEF Drafts
    <2>18. P \in SUBSET {p \in Slots \X SLOT_ATTRS : d[p[1]][p[2]].value # None}
      <3>1. KitMismatches(slot, new) \subseteq Pinned(slot) /\ theme \subseteq Pinned(slot)
        BY DEF KitMismatches, ThemeChoices
      <3>2. \A b \in Pinned(slot) : b \in SLOT_ATTRS /\ d[s][b].value # None
        BY <2>17 DEF Pinned
      <3> HIDE DEF d, slot, new
      <3> QED
        BY <3>1, <3>2
    <2>19. team_draft' \in Drafts /\ superseded' \in Stacks /\ Clauses(team_draft)'
      <3> HIDE DEF d, slot, new
      <3>1. ReopenAll(d, P)
        BY <2>4 DEF d
      <3> QED
        BY <2>16, <2>17, <2>18, <3>1, ReopenAllKeeps DEF TeamInv
    <2>20. AxisInv'
      BY <2>4, AxisUnchanged DEF TeamInv
    <2>21. TypeOK'
      BY <2>1, <2>4, <2>19, <2>20, TypeOKPartsNext DEF StillRejected, Handled, AxisInv
    <2> QED
      BY <2>19, <2>20, <2>21 DEF TeamInv
  <1> QED
    BY <1>1, <1>2

\* commit_full_slot: the whole build was validated.
LEMMA CommitKeeps ==
    ASSUME TeamInv, NEW s \in Slots, NEW b \in Builds, commit_full_slot(s, b)
    PROVE  TeamInv'
  <1>1. CASE CommitRefused(s, b)
    BY <1>1, RefusedKeeps DEF commit_full_slot
  <1>2. CASE ~CommitRefused(s, b)
    <2> DEFINE slot == With(team_draft[s], b, SLOT_ATTRS)
    <2> DEFINE d == [team_draft EXCEPT ![s] = slot]
    <2>1. /\ team_draft \in Drafts /\ team_draft[s] \in SlotRecord
          /\ superseded \in Stacks /\ rejected \subseteq Species
          /\ archetype \in Themes \cup {None}
      BY TypeOKParts DEF TeamInv, Drafts
    <2>2. /\ team_draft' = d
          /\ Handled
          /\ UNCHANGED <<axisVars, superseded, rejected, archetype>>
      BY <1>2 DEF commit_full_slot
    <2>3. slot \in SlotRecord /\ \A a \in SLOT_ATTRS : slot[a] = Locked(b[a])
      BY <2>1, BuildType DEF Builds
    <2>4. /\ slot.species.locked /\ slot.species.value = b["species"]
          /\ slot.item.value = b["item"]
      <3> HIDE DEF slot
      <3>1. slot.species = Locked(b["species"]) /\ slot.item = Locked(b["item"])
        BY <2>3 DEF SLOT_ATTRS
      <3> QED
        BY <3>1 DEF Locked
    <2>5. /\ ValidTeamValue(d, s, "species", b["species"])
          /\ ValidTeamValue(d, s, "item", b["item"])
      BY <1>2 DEF CommitRefused
    <2>6. d[s] = slot /\ d \in Drafts /\ \A t \in Slots \ {s} : d[t] = team_draft[t]
      BY <2>1, <2>3 DEF Drafts
    <2> HIDE DEF d, slot
    <2>7. ~SpeciesClauseRefuses(team_draft, s, slot.species.value)
      BY <2>4, <2>5, <2>6 DEF ValidTeamValue, SpeciesClauseRefuses
    <2>8. ~ItemClauseRefuses(team_draft, s, slot.item.value)
      BY <2>4, <2>5, <2>6 DEF ValidTeamValue, ItemClauseRefuses
    <2>9. StoneInSlot(slot)
      BY <2>4, <2>5, <2>6 DEF ValidTeamValue, StoneRefusesSpecies, StoneInSlot
    <2>10. Clauses(d)
      BY <2>1, <2>3, <2>4, <2>7, <2>8, <2>9, Install DEF TeamInv, d
    <2>11. AxisInv'
      BY <2>2, AxisUnchanged DEF TeamInv
    <2>12. TypeOK'
      BY <2>1, <2>2, <2>6, <2>11, TypeOKPartsNext DEF Handled, AxisInv
    <2> QED
      BY <2>2, <2>10, <2>11, <2>12 DEF TeamInv
  <1> QED
    BY <1>1, <1>2

\* restore_superseded: the restored value is validated against the team of now.
LEMMA RestoreSupersededKeeps ==
    ASSUME TeamInv, NEW s \in Slots, NEW a \in SLOT_ATTRS, restore_superseded(s, a)
    PROVE  TeamInv'
  <1>1. CASE RestoreRefused(s, a)
    BY <1>1, RefusedKeeps DEF restore_superseded
  <1>2. CASE ~RestoreRefused(s, a)
    <2> DEFINE v == Last(superseded[s][a])
    <2> DEFINE slot == [team_draft[s] EXCEPT ![a] = Locked(v)]
    <2> DEFINE d == [team_draft EXCEPT ![s] = slot]
    <2>1. /\ team_draft \in Drafts /\ team_draft[s] \in SlotRecord
          /\ superseded \in Stacks /\ rejected \subseteq Species
          /\ archetype \in Themes \cup {None}
      BY TypeOKParts DEF TeamInv, Drafts
    <2>2. superseded[s][a] # << >> /\ ValidTeamValue(team_draft, s, a, v)
      BY <1>2 DEF RestoreRefused
    <2>3. superseded[s][a] \in Seq(AnyValue)
      BY <2>1 DEF Stacks
    <2>4. v \in AnyValue /\ Front(superseded[s][a]) \in Seq(AnyValue)
      BY <2>2, <2>3, LastFront
    <2>5. /\ team_draft' = [team_draft EXCEPT ![s][a] = Locked(v)]
          /\ superseded' = [superseded EXCEPT ![s][a] = Front(superseded[s][a])]
          /\ Handled
          /\ UNCHANGED <<axisVars, rejected, archetype>>
      BY <1>2 DEF restore_superseded
    <2>6. superseded' \in Stacks
      BY <2>1, <2>4, <2>5 DEF Stacks
    <2> HIDE DEF v
    <2>7. team_draft' = d
      BY <2>1, <2>5 DEF Drafts, SlotRecord
    <2>8. Locked(v) \in AttrRecord /\ Locked(v).value = v /\ Locked(v).locked
      BY <2>4 DEF Locked, AttrRecord
    <2>9. /\ slot \in SlotRecord
          /\ \A b \in SLOT_ATTRS : slot[b] = IF b = a THEN Locked(v) ELSE team_draft[s][b]
      BY <2>1, <2>8 DEF SlotRecord
    <2> HIDE DEF slot
    <2>10. d \in Drafts
      BY <2>1, <2>9 DEF Drafts
    <2>11. "species" \in SLOT_ATTRS /\ "item" \in SLOT_ATTRS
      BY DEF SLOT_ATTRS
    <2>12. \/ slot.species = team_draft[s].species
           \/ slot.species.locked /\ ~SpeciesClauseRefuses(team_draft, s, slot.species.value)
      BY <2>2, <2>8, <2>9, <2>11 DEF ValidTeamValue
    <2>13. \/ slot.item = team_draft[s].item
           \/ ~ItemClauseRefuses(team_draft, s, slot.item.value)
      BY <2>2, <2>8, <2>9, <2>11 DEF ValidTeamValue
    <2>14. StoneInSlot(slot)
      <3>1. CASE a = "species"
        <4>1. slot.species = Locked(v) /\ slot.item = team_draft[s].item
          BY <2>9, <2>11, <3>1
        <4>2. ~StoneRefusesSpecies(team_draft[s], v)
          BY <2>2, <3>1 DEF ValidTeamValue
        <4> QED
          BY <2>8, <4>1, <4>2 DEF StoneInSlot, StoneRefusesSpecies
      <3>2. CASE a = "item"
        <4>1. slot.item = Locked(v) /\ slot.species = team_draft[s].species
          BY <2>9, <2>11, <3>2
        <4>2. ~StoneRefusesItem(team_draft[s], v)
          BY <2>2, <3>2 DEF ValidTeamValue
        <4> QED
          BY <2>8, <4>1, <4>2 DEF StoneInSlot, StoneRefusesItem
      <3>3. CASE a # "species" /\ a # "item"
        <4>1. slot.species = team_draft[s].species /\ slot.item = team_draft[s].item
          BY <2>9, <2>11, <3>3
        <4> QED
          BY <4>1 DEF TeamInv, Clauses, StoneInSlot
      <3> QED
        BY <3>1, <3>2, <3>3
    <2>15. Clauses(d)
      BY <2>1, <2>9, <2>12, <2>13, <2>14, Install DEF TeamInv
    <2>16. AxisInv'
      BY <2>5, AxisUnchanged DEF TeamInv
    <2>17. TypeOK'
      BY <2>1, <2>5, <2>6, <2>7, <2>10, <2>16, TypeOKPartsNext DEF Handled, AxisInv
    <2> QED
      BY <2>7, <2>15, <2>16, <2>17 DEF TeamInv
  <1> QED
    BY <1>1, <1>2

-----------------------------------------------------------------------------

\* The turns that only weaken the team: they lock nothing.
LEMMA WeakeningKeeps ==
    ASSUME TeamInv, AxisInv', team_draft' \in Drafts, superseded' \in Stacks,
           rejected' \subseteq Species, archetype' \in Themes \cup {None},
           slot_commit_error' \in BOOLEAN,
           \A s \in Slots, a \in SLOT_ATTRS : Weaker(team_draft[s][a], team_draft'[s][a], a)
    PROVE  TeamInv'
  <1>1. Clauses(team_draft')
    BY WeakenKeeps DEF TeamInv
  <1>2. TypeOK'
    BY TypeOKPartsNext DEF AxisInv
  <1> QED
    BY <1>1, <1>2 DEF TeamInv

\* An empty slot is a slot.
LEMMA EmptySlot ==
    /\ empty_slot \in SlotRecord
    /\ \A a \in SLOT_ATTRS : empty_slot[a] = NoAttr
  BY DEF empty_slot, SlotRecord, NoAttr, AttrRecord

\* unlock_locked_slot, record_rejection and reset_team.
LEMMA ClearingKeeps ==
    ASSUME TeamInv,
           \/ \E s \in Slots : unlock_locked_slot(s)
           \/ \E v \in Rejectable, S \in {{}} \cup {{s} : s \in Slots} : record_rejection(v, S)
           \/ reset_team
    PROVE  TeamInv'
  <1>1. /\ team_draft \in Drafts /\ superseded \in Stacks /\ rejected \subseteq Species
        /\ archetype \in Themes \cup {None}
    BY TypeOKParts DEF TeamInv
  <1>2. CASE \E s \in Slots : unlock_locked_slot(s)
    <2>1. PICK s \in Slots : unlock_locked_slot(s)
      BY <1>2
    <2>2. CASE Refused
      BY <2>2, RefusedKeeps
    <2>3. CASE /\ team_draft' = [team_draft EXCEPT ![s] = empty_slot]
               /\ Handled
               /\ UNCHANGED <<axisVars, superseded, rejected, archetype>>
      <3>1. team_draft' \in Drafts
        BY <1>1, <2>3, EmptySlot DEF Drafts
      <3>2. \A t \in Slots, a \in SLOT_ATTRS : Weaker(team_draft[t][a], team_draft'[t][a], a)
        BY <1>1, <2>3, EmptySlot DEF Drafts, Weaker
      <3>3. AxisInv'
        BY <2>3, AxisUnchanged DEF TeamInv
      <3> QED
        BY <1>1, <2>3, <3>1, <3>2, <3>3, WeakeningKeeps DEF Handled
    <2> QED
      BY <2>1, <2>2, <2>3 DEF unlock_locked_slot
  <1>3. CASE \E v \in Rejectable, S \in {{}} \cup {{s} : s \in Slots} : record_rejection(v, S)
    <2>1. PICK v \in Rejectable, S \in {{}} \cup {{s} : s \in Slots} : record_rejection(v, S)
      BY <1>3
    <2>2. /\ rejected' = rejected \cup {v}
          /\ team_draft' = [s \in Slots |->
                IF s \in S /\ ~team_draft[s].species.locked
                THEN [team_draft[s] EXCEPT !.species = NoAttr]
                ELSE team_draft[s]]
          /\ Handled
          /\ UNCHANGED <<axisVars, superseded, archetype>>
      BY <2>1 DEF record_rejection
    <2>3. NoAttr \in AttrRecord
      BY DEF NoAttr, AttrRecord
    <2>4. team_draft' \in Drafts
      BY <1>1, <2>2, <2>3 DEF Drafts, SlotRecord
    <2>5. \A t \in Slots, a \in SLOT_ATTRS : Weaker(team_draft[t][a], team_draft'[t][a], a)
      BY <1>1, <2>2 DEF Drafts, SlotRecord, Weaker
    <2>6. AxisInv'
      BY <2>2, AxisUnchanged DEF TeamInv
    <2>7. rejected' \subseteq Species
      BY <1>1, <2>2, TeamAssumption
    <2> QED
      BY <1>1, <2>2, <2>4, <2>5, <2>6, <2>7, WeakeningKeeps DEF Handled
  <1>4. CASE reset_team
    <2>1. AxisInv'
      BY <1>4, ResetKeeps DEF reset_team
    <2>2. /\ team_draft' = [s \in Slots |-> empty_slot]
          /\ archetype' \in Themes \cup {None}
          /\ Handled
          /\ UNCHANGED <<superseded, rejected>>
      BY <1>4 DEF reset_team
    <2>3. team_draft' \in Drafts
      BY <2>2, EmptySlot DEF Drafts
    <2>4. \A t \in Slots, a \in SLOT_ATTRS : Weaker(team_draft[t][a], team_draft'[t][a], a)
      BY <2>2, EmptySlot DEF Weaker
    <2> QED
      BY <1>1, <2>1, <2>2, <2>3, <2>4, WeakeningKeeps DEF Handled
  <1> QED
    BY <1>2, <1>3, <1>4

\* record_constraint, restore_constraint and handle_archetype_change: what they
\* reopen was pinned.
LEMMA ReconcilingKeeps ==
    ASSUME TeamInv,
           \/ \E r \in Requirements : record_constraint(r)
           \/ restore_constraint
           \/ \E theme \in Themes : handle_archetype_change(theme)
    PROVE  TeamInv'
  <1>1. /\ team_draft \in Drafts /\ superseded \in Stacks /\ rejected \subseteq Species
        /\ archetype \in Themes \cup {None} /\ TypeOK /\ AxisInv /\ Clauses(team_draft)
    BY TypeOKParts DEF TeamInv
  <1>2. SUFFICES /\ AxisInv' /\ rejected' \subseteq Species
                 /\ archetype' \in Themes \cup {None} /\ slot_commit_error' \in BOOLEAN
                 /\ team_draft' \in Drafts /\ superseded' \in Stacks /\ Clauses(team_draft)'
    BY TypeOKPartsNext DEF TeamInv, AxisInv
  <1>3. CASE \E r \in Requirements : record_constraint(r)
    <2>1. PICK r \in Requirements : record_constraint(r)
      BY <1>3
    <2>2. AxisInv'
      BY <1>1, <2>1, SupersedeKeeps DEF record_constraint, RecordRequirement
    <2> DEFINE P == ConstraintMismatches(team_draft, build_constraint(r))
    <2>3. ReopenAll(team_draft, P) /\ Handled /\ UNCHANGED <<rejected, archetype>>
      BY <2>1 DEF record_constraint
    <2>4. P \in SUBSET {p \in Slots \X SLOT_ATTRS : team_draft[p[1]][p[2]].value # None}
      BY <1>1, MismatchesPinned
    <2> HIDE DEF P
    <2>5. team_draft' \in Drafts /\ superseded' \in Stacks /\ Clauses(team_draft)'
      BY <1>1, <2>3, <2>4, ReopenAllKeeps
    <2> QED
      BY <1>1, <2>2, <2>3, <2>5 DEF Handled
  <1>4. CASE restore_constraint
    <2>1. Handled /\ UNCHANGED <<rejected, archetype>>
      BY <1>4 DEF restore_constraint
    <2>2. CASE /\ RestoreAxis
               /\ ReopenAll(team_draft, ConstraintMismatches(team_draft,
                                          constraints'[LastEntry.constraint_index]))
      <3>1. AxisInv'
        BY <1>1, <2>2, RestoreKeeps
      <3> DEFINE P == ConstraintMismatches(team_draft, constraints'[LastEntry.constraint_index])
      <3>2. P \in SUBSET {p \in Slots \X SLOT_ATTRS : team_draft[p[1]][p[2]].value # None}
        BY <1>1, MismatchesPinned
      <3>3. ReopenAll(team_draft, P)
        BY <2>2
      <3> HIDE DEF P
      <3>4. team_draft' \in Drafts /\ superseded' \in Stacks /\ Clauses(team_draft)'
        BY <1>1, <3>2, <3>3, ReopenAllKeeps
      <3> QED
        BY <1>1, <2>1, <3>1, <3>4 DEF Handled
    <2>3. CASE UNCHANGED <<axisVars, team_draft, superseded>>
      BY <1>1, <2>1, <2>3, AxisUnchanged DEF Handled
    <2> QED
      BY <1>4, <2>2, <2>3 DEF restore_constraint
  <1>5. CASE \E theme \in Themes : handle_archetype_change(theme)
    <2>1. PICK P \in SUBSET {p \in Slots \X SLOT_ATTRS : p[2] \in Pinned(team_draft[p[1]])} :
            ReopenAll(team_draft, P)
      BY <1>5 DEF handle_archetype_change
    <2>2. P \in SUBSET {p \in Slots \X SLOT_ATTRS : team_draft[p[1]][p[2]].value # None}
      BY DEF Pinned
    <2>3. team_draft' \in Drafts /\ superseded' \in Stacks /\ Clauses(team_draft)'
      BY <1>1, <2>1, <2>2, ReopenAllKeeps
    <2>4. /\ archetype' \in Themes /\ Handled
          /\ UNCHANGED <<axisVars, rejected>>
      BY <1>5 DEF handle_archetype_change
    <2>5. AxisInv'
      BY <1>1, <2>4, AxisUnchanged
    <2> QED
      BY <1>1, <2>3, <2>4, <2>5 DEF Handled
  <1> QED
    BY <1>3, <1>4, <1>5

\* fill_team_draft: a proposal fills what is empty, never the species, and
\* locks nothing.
LEMMA FillKeeps ==
    ASSUME TeamInv, fill_team_draft
    PROVE  TeamInv'
  <1>1. /\ team_draft \in Drafts /\ superseded \in Stacks /\ rejected \subseteq Species
        /\ archetype \in Themes \cup {None} /\ slot_commit_error \in BOOLEAN
    BY TypeOKParts DEF TeamInv
  <1>2. /\ team_draft' \in [Slots -> UNION {Proposals(team_draft[s]) : s \in Slots}]
        /\ \A s \in Slots : team_draft'[s] \in Proposals(team_draft[s])
        /\ slot_commit_error' \in {slot_commit_error, FALSE}
        /\ UNCHANGED <<axisVars, superseded, rejected, archetype>>
    BY DEF fill_team_draft
  <1>3. ASSUME NEW s \in Slots
        PROVE  /\ team_draft'[s] \in SlotRecord
               /\ \A a \in SLOT_ATTRS : Weaker(team_draft[s][a], team_draft'[s][a], a)
    <2>1. team_draft[s] \in SlotRecord
      BY <1>1 DEF Drafts
    <2>2. CASE all_locked(team_draft[s])
      BY <1>2, <2>1, <2>2 DEF Proposals, Weaker
    <2>3. CASE ~all_locked(team_draft[s])
      <3>A. PICK A \in SUBSET Fillable(team_draft[s]) :
              \E r \in Assignments(A) : team_draft'[s] = Proposed(team_draft[s], r)
        BY <1>2, <2>3 DEF Proposals
      <3>1. PICK r \in Assignments(A) : team_draft'[s] = Proposed(team_draft[s], r)
        BY <3>A
      <3>2. DOMAIN r = A /\ \A a \in A : r[a] \in AnyValue
        BY DEF Assignments
      <3>3. \A a \in A : [value |-> r[a], locked |-> FALSE] \in AttrRecord
        BY <3>2 DEF AttrRecord
      <3>4. team_draft'[s] \in SlotRecord
        BY <2>1, <3>1, <3>2, <3>3 DEF Proposed, SlotRecord
      <3>5. "species" \notin A
        BY TeamAssumption DEF Fillable
      <3>6. \A a \in SLOT_ATTRS :
              team_draft'[s][a] = IF a \in A THEN [value |-> r[a], locked |-> FALSE]
                                            ELSE team_draft[s][a]
        BY <3>1, <3>2 DEF Proposed
      <3>7. \A a \in SLOT_ATTRS : Weaker(team_draft[s][a], team_draft'[s][a], a)
        <4> TAKE a \in SLOT_ATTRS
        <4>1. CASE a \in A
          <5>1. a # "species"
            BY <3>5, <4>1
          <5>2. team_draft'[s][a] = [value |-> r[a], locked |-> FALSE]
            BY <3>6, <4>1
          <5>3. ~team_draft'[s][a].locked
            BY <5>2
          <5> QED
            BY <5>1, <5>3 DEF Weaker
        <4>2. CASE a \notin A
          BY <3>6, <4>2 DEF Weaker
        <4> QED
          BY <4>1, <4>2
      <3> QED
        BY <3>4, <3>7
    <2> QED
      BY <2>2, <2>3
  <1>4. team_draft' \in Drafts
    BY <1>2, <1>3 DEF Drafts
  <1>5. AxisInv'
    BY <1>2, AxisUnchanged DEF TeamInv
  <1> QED
    BY <1>1, <1>2, <1>3, <1>4, <1>5, WeakeningKeeps

-----------------------------------------------------------------------------

\* Types and clauses hold of every session, whatever turns it is made of.
THEOREM TeamSafety == Spec => []TeamInv
  <1>1. Init => TeamInv
    <2> SUFFICES ASSUME Init
                 PROVE  TeamInv
      OBVIOUS
    <2>1. AxisInv
      BY DEF Init, AxisInit, AxisInv, AxisTypeOK, AxisAgrees, LogRestorable, LoggedAreInactive
    <2>2. team_draft \in Drafts /\ \A s \in Slots : team_draft[s] = empty_slot
      BY EmptySlot DEF Init, Drafts
    <2>3. superseded \in Stacks
      BY DEF Init, Stacks
    <2>4. TypeOK
      BY <2>1, <2>2, <2>3, TypeOKParts DEF Init, AxisInv
    <2>5. \A s \in Slots : /\ team_draft[s].species.value = None
                            /\ team_draft[s].item.locked = FALSE
      BY <2>2 DEF empty_slot, NoAttr, SLOT_ATTRS
    <2>6. Clauses(team_draft)
      BY <2>5 DEF Clauses, DistinctSpecies, DistinctItems, StoneInSlot, SpeciesLocked
    <2> QED
      BY <2>1, <2>4, <2>6 DEF TeamInv
  <1>2. TeamInv /\ [Next]_vars => TeamInv'
    <2> SUFFICES ASSUME TeamInv, [Next]_vars
                 PROVE  TeamInv'
      OBVIOUS
    <2>1. CASE \E s \in Slots, r \in LockRequests, batch \in BOOLEAN : apply_lock(s, r, batch)
      BY <2>1, LockKeeps
    <2>2. CASE \E s \in Slots, b \in Builds : commit_full_slot(s, b)
      BY <2>2, CommitKeeps
    <2>3. CASE \E s \in Slots : unlock_locked_slot(s)
      BY <2>3, ClearingKeeps
    <2>4. CASE \E r \in Requirements : record_constraint(r)
      BY <2>4, ReconcilingKeeps
    <2>5. CASE handle_claim_correction
      <3>1. CASE \E r \in Requirements : record_constraint(r)
        BY <3>1, ReconcilingKeeps
      <3>2. CASE Handled /\ UNCHANGED <<axisVars, draftVars>>
        <4>1. AxisInv'
          BY <3>2, AxisUnchanged DEF TeamInv
        <4>2. TypeOK'
          BY <3>2 DEF TeamInv, TypeOK, Handled, axisVars, draftVars, AxisTypeOK
        <4> QED
          BY <3>2, <4>1, <4>2 DEF TeamInv, draftVars
      <3> QED
        BY <2>5, <3>1, <3>2 DEF handle_claim_correction
    <2>6. CASE restore_constraint
      BY <2>6, ReconcilingKeeps
    <2>7. CASE \E theme \in Themes : handle_archetype_change(theme)
      BY <2>7, ReconcilingKeeps
    <2>8. CASE \E v \in Rejectable, S \in {{}} \cup {{s} : s \in Slots} : record_rejection(v, S)
      BY <2>8, ClearingKeeps
    <2>9. CASE \E s \in Slots, a \in SLOT_ATTRS : restore_superseded(s, a)
      BY <2>9, RestoreSupersededKeeps
    <2>10. CASE reset_team
      BY <2>10, ClearingKeeps
    <2>11. CASE bad_slot
      BY <2>11, RefusedKeeps DEF bad_slot
    <2>12. CASE fill_team_draft
      BY <2>12, FillKeeps
    <2>13. CASE UNCHANGED vars
      <3>1. AxisInv'
        BY <2>13, AxisUnchanged DEF TeamInv, vars
      <3>2. TypeOK'
        BY <2>13 DEF TeamInv, TypeOK, vars, axisVars, draftVars, AxisTypeOK
      <3> QED
        BY <2>13, <3>1, <3>2 DEF TeamInv, vars, draftVars
    <2> QED
      BY <2>1, <2>2, <2>3, <2>4, <2>5, <2>6, <2>7, <2>8, <2>9, <2>10, <2>11, <2>12, <2>13
      DEF Next
  <1> QED
    BY <1>1, <1>2, PTL DEF Spec

\* The clauses hold of the team whatever its writers do in which order.
THEOREM DraftStaysSound == Spec => []DraftIsSound
  <1>1. ASSUME TeamInv
        PROVE  DraftIsSound
    <2>1. TypeOK
      BY <1>1 DEF TeamInv
    <2>2. SpeciesClause /\ ItemClause
      BY <1>1 DEF TeamInv, Clauses, DistinctSpecies, DistinctItems, SpeciesClause, ItemClause
    <2>3. MegaHoldsItsStone /\ SpeciesOnlyLocked
      BY <1>1 DEF TeamInv, Clauses, StoneInSlot, SpeciesLocked, MegaHoldsItsStone,
                  SpeciesOnlyLocked
    <2> QED
      BY <2>1, <2>2, <2>3 DEF DraftIsSound
  <1> QED
    BY <1>1, TeamSafety, PTL

\* The requirements and their undo log stay sound through every turn of the
\* session, those that reconcile the team included.
THEOREM RequirementsStaySound == Spec => []AxesAreSound
  <1>1. TeamInv => AxesAreSound
    BY DEF TeamInv, AxisInv, AxesAreSound
  <1> QED
    BY <1>1, TeamSafety, PTL

-----------------------------------------------------------------------------
(* What a turn may never do: make a kit unplayable, lose a pinned value *)

\* A lock turn locks the attributes in new, then reopens those that clash and
\* some that do not fit the theme.
LocksAnd(s, r, slot, new, theme) ==
    /\ new \subseteq DOMAIN r
    /\ \A a \in DOMAIN r : r[a] \in ValuesOf(a)
    /\ \A a \in SLOT_ATTRS : slot[a] = IF a \in new THEN Locked(r[a]) ELSE team_draft[s][a]
    /\ ReopenAll([team_draft EXCEPT ![s] = slot],
                 {s} \X (KitMismatches(slot, new) \cup theme))

LEMMA LockDraft ==
    ASSUME TeamInv, NEW s \in Slots, NEW r \in LockRequests, NEW batch \in BOOLEAN,
           apply_lock(s, r, batch), ~LockRefused(s, r)
    PROVE  \E slot \in SlotRecord, new \in SUBSET SLOT_ATTRS, theme \in SUBSET SLOT_ATTRS :
              LocksAnd(s, r, slot, new, theme)
  <1> DEFINE new  == DOMAIN r \ Blocked(team_draft[s], r, batch)
  <1> DEFINE slot == With(team_draft[s], r, new)
  <1>1. PICK A \in SUBSET SLOT_ATTRS : r \in Assignments(A)
    BY DEF LockRequests
  <1>2. DOMAIN r = A /\ new \in SUBSET A
    BY <1>1 DEF Assignments
  <1>v. \A a \in DOMAIN r : r[a] \in ValuesOf(a)
    BY <1>1 DEF Assignments
  <1>3. team_draft[s] \in SlotRecord
    BY TypeOKParts DEF TeamInv, Drafts
  <1>4. /\ slot \in SlotRecord
        /\ \A a \in SLOT_ATTRS :
              slot[a] = IF a \in new THEN Locked(r[a]) ELSE team_draft[s][a]
    <2> HIDE DEF new
    <2>1. r \in Assignments(A) /\ new \in SUBSET A
      BY <1>1, <1>2
    <2>2. With(team_draft[s], r, new) \in SlotRecord
      BY <1>3, <2>1, WithType
    <2>3. \A a \in SLOT_ATTRS : With(team_draft[s], r, new)[a]
                                = IF a \in new THEN Locked(r[a]) ELSE team_draft[s][a]
      BY DEF With
    <2> QED
      BY <2>2, <2>3
  <1>5. PICK theme \in ThemeChoices(slot, new) :
          ReopenAll([team_draft EXCEPT ![s] = slot],
                    {s} \X (KitMismatches(slot, new) \cup theme))
    BY DEF apply_lock
  <1>6. theme \in SUBSET SLOT_ATTRS
    BY DEF ThemeChoices, Pinned
  <1>7. LocksAnd(s, r, slot, new, theme)
    <2> HIDE DEF slot, new
    <2> QED
      BY <1>2, <1>v, <1>5, <1>4 DEF LocksAnd
  <1> HIDE DEF slot, new
  <1> QED
    BY <1>1, <1>2, <1>6, <1>4, <1>7

\* A reconciliation never makes a kit clash.
LEMMA ReopenClash ==
    ASSUME NEW d \in Drafts, NEW P, ReopenAll(d, P), NEW s \in Slots, KitClash(team_draft'[s])
    PROVE  /\ <<s, "item">> \notin P /\ <<s, "moveset">> \notin P
           /\ team_draft'[s].item = d[s].item /\ team_draft'[s].moveset = d[s].moveset
           /\ KitClash(d[s])
  <1>1. \A a \in SLOT_ATTRS :
          team_draft'[s][a] = IF <<s, a>> \in P THEN NoAttr ELSE d[s][a]
    BY DEF ReopenAll, Reopen
  <1>2. "item" \in SLOT_ATTRS /\ "moveset" \in SLOT_ATTRS
    BY DEF SLOT_ATTRS
  <1>3. ~NoAttr.locked
    BY DEF NoAttr
  <1> QED
    BY <1>1, <1>2, <1>3 DEF KitClash

\* What the slots a reconciliation leaves alone, and the empty ones, look like.
LEMMA LockKeepsKit ==
    ASSUME TeamInv, NEW s \in Slots, NEW r \in LockRequests, NEW batch \in BOOLEAN,
           apply_lock(s, r, batch), NEW t \in Slots, KitClash(team_draft'[t])
    PROVE  KitClash(team_draft[t])
  <1>1. CASE LockRefused(s, r)
    BY <1>1 DEF apply_lock, Refused, draftVars
  <1>2. CASE ~LockRefused(s, r)
    <2>1. PICK slot \in SlotRecord, new \in SUBSET SLOT_ATTRS, theme \in SUBSET SLOT_ATTRS :
              LocksAnd(s, r, slot, new, theme)
      BY <1>2, LockDraft
    <2> DEFINE d == [team_draft EXCEPT ![s] = slot]
               P == {s} \X (KitMismatches(slot, new) \cup theme)
    <2>2. team_draft \in Drafts /\ d \in Drafts /\ d[s] = slot /\ (t # s => d[t] = team_draft[t])
      BY TypeOKParts DEF TeamInv, Drafts
    <2>3. ReopenAll(d, P)
      BY <2>1 DEF LocksAnd
    <2> HIDE DEF d, P
    <2>4. KitClash(d[t]) /\ <<t, "item">> \notin P /\ <<t, "moveset">> \notin P
      BY <2>2, <2>3, ReopenClash
    <2>5. CASE t # s
      BY <2>2, <2>4, <2>5
    <2>6. CASE t = s
      <3>1. KitClash(slot) /\ "item" \notin KitMismatches(slot, new)
            /\ "moveset" \notin KitMismatches(slot, new)
        BY <2>2, <2>4, <2>6 DEF P
      <3>2. "item" \in Pinned(slot) /\ "moveset" \in Pinned(slot)
        BY <3>1, TeamAssumption DEF KitClash, Pinned, SLOT_ATTRS, AnyValue
      <3>3. ~ \E a \in new : a # "item"
        BY <3>1, <3>2 DEF KitMismatches
      <3>4. ~ \E a \in new : a # "moveset"
        BY <3>1, <3>2 DEF KitMismatches
      <3>5. new = {}
        BY <3>3, <3>4
      <3>6. slot["item"] = team_draft[s]["item"] /\ slot["moveset"] = team_draft[s]["moveset"]
        BY <2>1, <3>5 DEF SLOT_ATTRS, LocksAnd
      <3> QED
        BY <2>6, <3>1, <3>6 DEF KitClash
    <2> QED
      BY <2>5, <2>6
  <1> QED
    BY <1>1, <1>2

\* A proposal leaves alone what is locked, and locks nothing.
LEMMA ProposalKeeps ==
    ASSUME TeamInv, fill_team_draft, NEW s \in Slots, NEW a \in SLOT_ATTRS
    PROVE  \/ team_draft'[s][a] = team_draft[s][a]
           \/ ~team_draft[s][a].locked /\ ~team_draft'[s][a].locked
  <1>1. team_draft'[s] \in Proposals(team_draft[s])
    BY DEF fill_team_draft
  <1>2. CASE all_locked(team_draft[s])
    BY <1>1, <1>2 DEF Proposals
  <1>3. CASE ~all_locked(team_draft[s])
    <2>1. PICK A \in SUBSET Fillable(team_draft[s]) :
            \E r \in Assignments(A) : team_draft'[s] = Proposed(team_draft[s], r)
      BY <1>1, <1>3 DEF Proposals
    <2>r. PICK r \in Assignments(A) : team_draft'[s] = Proposed(team_draft[s], r)
      BY <2>1
    <2>2. DOMAIN r = A
      BY <2>r DEF Assignments
    <2>3. team_draft'[s][a] = IF a \in A THEN [value |-> r[a], locked |-> FALSE]
                                         ELSE team_draft[s][a]
      BY <2>r, <2>2 DEF Proposed
    <2>4. a \in A => team_draft[s][a] = NoAttr
      BY <2>1 DEF Fillable
    <2> QED
      BY <2>3, <2>4 DEF NoAttr
  <1> QED
    BY <1>2, <1>3

\* The handlers that reopen what a requirement or a theme no longer allows.
LEMMA ReconcilingDraft ==
    ASSUME TeamInv,
           \/ \E r \in Requirements : record_constraint(r)
           \/ restore_constraint
           \/ \E theme \in Themes : handle_archetype_change(theme)
    PROVE  \/ UNCHANGED <<team_draft, superseded>>
           \/ \E P : ReopenAll(team_draft, P)
  BY DEF record_constraint, restore_constraint, handle_archetype_change

\* Locks, batches, commits, proposals and reconciliations never produce a kit
\* that cannot be played; only a restore does (reconcile.py, commit_full_slot).
THEOREM KitStays == Spec => KitStaysPlayable
  <1> DEFINE Stays == \A s \in Slots : KitClash(team_draft'[s]) => KitClash(team_draft[s])
  <1>1. ASSUME TeamInv, Next
        PROVE  Stays \/ \E s \in Slots, a \in SLOT_ATTRS : restore_superseded(s, a)
    <2>0. /\ team_draft \in Drafts
          /\ "species" \in SLOT_ATTRS /\ "item" \in SLOT_ATTRS /\ "moveset" \in SLOT_ATTRS
      BY <1>1, TypeOKParts DEF TeamInv, SLOT_ATTRS
    <2>e. ~empty_slot.item.locked
      BY <2>0 DEF empty_slot, NoAttr
    <2>1. CASE \E s \in Slots, r \in LockRequests, batch \in BOOLEAN : apply_lock(s, r, batch)
      BY <1>1, <2>1, LockKeepsKit
    <2>2. CASE \E s \in Slots, b \in Builds : commit_full_slot(s, b)
      <3>1. PICK s \in Slots, b \in Builds : commit_full_slot(s, b)
        BY <2>2
      <3>2. CASE Refused
        BY <3>2 DEF Refused, draftVars
      <3>3. CASE ~CommitRefused(s, b)
                 /\ team_draft' = [team_draft EXCEPT ![s] = With(@, b, SLOT_ATTRS)]
        <4>1. ~KitClash(With(team_draft[s], b, SLOT_ATTRS))
          BY <3>3 DEF CommitRefused
        <4> QED
          BY <2>0, <3>3, <4>1 DEF Drafts
      <3> QED
        BY <3>1, <3>2, <3>3 DEF commit_full_slot
    <2>3. CASE \E s \in Slots : unlock_locked_slot(s)
      <3>1. PICK s \in Slots : \/ team_draft' = team_draft
                               \/ team_draft' = [team_draft EXCEPT ![s] = empty_slot]
        BY <2>3 DEF unlock_locked_slot, Refused, draftVars
      <3> QED
        BY <2>0, <2>e, <3>1 DEF Drafts, KitClash
    <2>4. CASE \/ \E r \in Requirements : record_constraint(r)
               \/ restore_constraint
               \/ \E theme \in Themes : handle_archetype_change(theme)
      BY <1>1, <2>0, <2>4, ReconcilingDraft, ReopenClash
    <2>5. CASE handle_claim_correction
      <3>1. CASE \E r \in Requirements : record_constraint(r)
        BY <2>4, <3>1
      <3> QED
        BY <2>5, <3>1 DEF handle_claim_correction, draftVars
    <2>6. CASE \E v \in Rejectable, S \in {{}} \cup {{s} : s \in Slots} : record_rejection(v, S)
      <3>1. PICK v \in Rejectable, S \in {{}} \cup {{s} : s \in Slots} : record_rejection(v, S)
        BY <2>6
      <3>2. \A s \in Slots : /\ team_draft'[s].item = team_draft[s].item
                             /\ team_draft'[s].moveset = team_draft[s].moveset
        BY <2>0, <3>1 DEF record_rejection, Drafts, SlotRecord
      <3> QED
        BY <3>2 DEF KitClash
    <2>7. CASE reset_team
      BY <2>e, <2>7 DEF reset_team, KitClash
    <2>8. CASE bad_slot
      BY <2>8 DEF bad_slot, Refused, draftVars
    <2>9. CASE fill_team_draft
      <3>1. \A s \in Slots, a \in {"item", "moveset"} :
              \/ team_draft'[s][a] = team_draft[s][a]
              \/ ~team_draft'[s][a].locked
        BY <1>1, <2>0, <2>9, ProposalKeeps
      <3> QED
        BY <3>1 DEF KitClash
    <2> QED
      BY <1>1, <2>1, <2>2, <2>3, <2>4, <2>5, <2>6, <2>7, <2>8, <2>9 DEF Next
  <1>2. ASSUME TeamInv, [Next]_vars
        PROVE  [\/ \A s \in Slots : KitClash(team_draft'[s]) => KitClash(team_draft[s])
                \/ \E s \in Slots, a \in SLOT_ATTRS : restore_superseded(s, a)]_vars
    BY <1>1, <1>2
  <1> QED
    BY <1>2, TeamSafety, PTL DEF Spec, KitStaysPlayable

\* What a reconciliation reopens goes on its undo stack.
LEMMA ReopenLogged ==
    ASSUME TeamInv, NEW d \in Drafts, NEW P, ReopenAll(d, P),
           NEW s \in Slots, NEW a \in SLOT_ATTRS
    PROVE  \/ team_draft'[s][a] = d[s][a]
           \/ superseded'[s][a] = Append(superseded[s][a], d[s][a].value)
  BY DEF ReopenAll, Reopen, Push

LEMMA LockRecoverable ==
    ASSUME TeamInv, NEW s \in Slots, NEW r \in LockRequests, NEW batch \in BOOLEAN,
           apply_lock(s, r, batch)
    PROVE  Recoverable
  <1>1. CASE LockRefused(s, r)
    BY <1>1 DEF apply_lock, Refused, draftVars, Recoverable, Pinned
  <1>2. CASE ~LockRefused(s, r)
    <2>1. PICK slot \in SlotRecord, new \in SUBSET SLOT_ATTRS, theme \in SUBSET SLOT_ATTRS :
              LocksAnd(s, r, slot, new, theme)
      BY <1>2, LockDraft
    <2> DEFINE d == [team_draft EXCEPT ![s] = slot]
               P == {s} \X (KitMismatches(slot, new) \cup theme)
    <2>2. d \in Drafts /\ d[s] = slot /\ \A t \in Slots \ {s} : d[t] = team_draft[t]
      BY TypeOKParts DEF TeamInv, Drafts
    <2>3. ReopenAll(d, P)
      BY <2>1 DEF LocksAnd
    <2>4. \A t \in Slots \ {s}, a \in SLOT_ATTRS : <<t, a>> \notin P
      OBVIOUS
    <2> HIDE DEF d, P
    <2> SUFFICES ASSUME NEW t \in Slots, NEW a \in Pinned(team_draft[t])
                 PROVE  \/ team_draft'[t][a].locked
                        \/ superseded'[t][a] = Append(superseded[t][a], team_draft[t][a].value)
                        \/ \E v \in ValuesOf(a) :
                              /\ superseded'[t][a] = Append(superseded[t][a], v)
                              /\ \E q \in LockRequests, b \in BOOLEAN :
                                    a \in DOMAIN q /\ q[a] = v /\ apply_lock(t, q, b)
      BY DEF Recoverable
    <2>5. a \in SLOT_ATTRS /\ team_draft[t][a].locked
      BY DEF Pinned
    <2>6. \/ team_draft'[t][a] = d[t][a]
          \/ superseded'[t][a] = Append(superseded[t][a], d[t][a].value)
      BY <2>2, <2>3, <2>5, ReopenLogged
    <2>7. CASE t # s \/ a \notin new
      <3>1. d[t][a] = team_draft[t][a]
        BY <2>1, <2>2, <2>5, <2>7 DEF LocksAnd
      <3> QED
        BY <2>5, <2>6, <3>1
    <2>8. CASE t = s /\ a \in new
      <3>1. d[t][a] = Locked(r[a])
        BY <2>1, <2>2, <2>5, <2>8 DEF LocksAnd
      <3>2. Locked(r[a]).locked /\ Locked(r[a]).value = r[a]
        BY DEF Locked
      <3>3. r[a] \in ValuesOf(a) /\ a \in DOMAIN r
        BY <2>1, <2>8 DEF LocksAnd
      <3> QED
        BY <2>6, <2>8, <3>1, <3>2, <3>3
    <2> QED
      BY <2>7, <2>8
  <1> QED
    BY <1>1, <1>2

\* Nothing the user pinned disappears without a way back, whatever is locked,
\* committed, required, themed, rejected, restored or proposed, unless a repick
\* or a reset wiped it on request (the superseded stacks of reconcile.py).
THEOREM PinnedStaysRecoverable == Spec => PinnedIsRecoverable
  <1>1. ASSUME TeamInv, Next
        PROVE  Kept
    <2>0. team_draft \in Drafts /\ "species" \in SLOT_ATTRS
      BY <1>1, TypeOKParts DEF TeamInv, SLOT_ATTRS
    <2>s. ASSUME \A s \in Slots, a \in SLOT_ATTRS :
                    team_draft[s][a].locked => team_draft'[s][a].locked
          PROVE  Kept
      BY <2>s DEF Kept, Recoverable, Pinned
    <2>1. CASE \E s \in Slots, r \in LockRequests, batch \in BOOLEAN : apply_lock(s, r, batch)
      BY <1>1, <2>1, LockRecoverable DEF Kept
    <2>2. CASE \E s \in Slots, b \in Builds : commit_full_slot(s, b)
      <3>1. PICK s \in Slots, b \in Builds : commit_full_slot(s, b)
        BY <2>2
      <3>2. CASE Refused
        BY <2>s, <3>2 DEF Refused, draftVars
      <3>3. CASE team_draft' = [team_draft EXCEPT ![s] = With(@, b, SLOT_ATTRS)]
        <4>1. \A a \in SLOT_ATTRS : team_draft'[s][a] = Locked(b[a])
          <5>1. b \in Assignments(SLOT_ATTRS)
            BY <3>1 DEF Builds
          <5>2. team_draft'[s] = With(team_draft[s], b, SLOT_ATTRS)
            BY <2>0, <3>3 DEF Drafts
          <5> QED
            BY <5>1, <5>2, BuildType
        <4>2. \A t \in Slots \ {s} : team_draft'[t] = team_draft[t]
          BY <2>0, <3>3 DEF Drafts
        <4>3. \A a \in SLOT_ATTRS : team_draft'[s][a].locked
          <5>1. \A v : Locked(v).locked
            BY DEF Locked
          <5> QED
            BY <4>1, <5>1
        <4> QED
          BY <2>s, <4>2, <4>3
      <3> QED
        BY <3>1, <3>2, <3>3 DEF commit_full_slot
    <2>3. CASE (\E s \in Slots : unlock_locked_slot(s)) \/ reset_team
      BY <2>3 DEF Kept
    <2>4. CASE \/ \E r \in Requirements : record_constraint(r)
               \/ restore_constraint
               \/ \E theme \in Themes : handle_archetype_change(theme)
      <3>1. CASE UNCHANGED <<team_draft, superseded>>
        BY <2>s, <3>1
      <3>2. CASE \E P : ReopenAll(team_draft, P)
        BY <1>1, <2>0, <3>2, ReopenLogged DEF Kept, Recoverable, Pinned
      <3> QED
        BY <1>1, <2>4, <3>1, <3>2, ReconcilingDraft
    <2>5. CASE handle_claim_correction
      <3>1. CASE \E r \in Requirements : record_constraint(r)
        BY <2>4, <3>1
      <3> QED
        BY <2>5, <2>s, <3>1 DEF handle_claim_correction, draftVars
    <2>6. CASE \E v \in Rejectable, S \in {{}} \cup {{s} : s \in Slots} : record_rejection(v, S)
      <3>1. PICK v \in Rejectable, S \in {{}} \cup {{s} : s \in Slots} : record_rejection(v, S)
        BY <2>6
      <3>2. \A s \in Slots, a \in SLOT_ATTRS :
              \/ team_draft'[s][a] = team_draft[s][a]
              \/ a = "species" /\ ~team_draft[s].species.locked
        BY <2>0, <3>1 DEF record_rejection, Drafts, SlotRecord
      <3> QED
        BY <2>s, <3>2
    <2>7. CASE \E s \in Slots, a \in SLOT_ATTRS : restore_superseded(s, a)
      <3>1. PICK s \in Slots, a \in SLOT_ATTRS : restore_superseded(s, a)
        BY <2>7
      <3>2. CASE Refused
        BY <2>s, <3>2 DEF Refused, draftVars
      <3>3. CASE team_draft' = [team_draft EXCEPT ![s][a] = Locked(Last(superseded[s][a]))]
        <4>1. \A t \in Slots, b \in SLOT_ATTRS :
                team_draft'[t][b] = IF t = s /\ b = a THEN Locked(Last(superseded[s][a]))
                                                     ELSE team_draft[t][b]
          BY <2>0, <3>3 DEF Drafts, SlotRecord
        <4>2. Locked(Last(superseded[s][a])).locked
          BY DEF Locked
        <4> QED
          BY <2>s, <4>1, <4>2
      <3> QED
        BY <3>1, <3>2, <3>3 DEF restore_superseded
    <2>8. CASE bad_slot
      BY <2>s, <2>8 DEF bad_slot, Refused, draftVars
    <2>9. CASE fill_team_draft
      BY <1>1, <2>s, <2>9, ProposalKeeps
    <2> QED
      BY <1>1, <2>1, <2>2, <2>3, <2>4, <2>5, <2>6, <2>7, <2>8, <2>9 DEF Next
  <1>2. ASSUME TeamInv, [Next]_vars
        PROVE  [Kept]_vars
    BY <1>1, <1>2
  <1> QED
    BY <1>2, TeamSafety, PTL DEF Spec, PinnedIsRecoverable

-----------------------------------------------------------------------------
(* A requirement takes hold in the turn that states or restores it *)

\* A requirement on abilities is only stated where slots have one.
Grounded(cs) ==
    \A i \in DOMAIN cs : cs[i].kind = "ability" => "ability" \in OtherAttrs

\* Every row but row keeps its kind and is at most deactivated.
OnlyActivates(row) ==
    \A i \in DOMAIN constraints' \ {row} :
        /\ i \in DOMAIN constraints
        /\ constraints'[i].kind = constraints[i].kind
        /\ constraints'[i].still_active => constraints[i].still_active

\* A new requirement is the last row.
LEMMA RecordedRow ==
    ASSUME AxisInv, NEW r \in Requirements, Supersede(r)
    PROVE  /\ Len(constraints) + 1 \in DOMAIN constraints'
           /\ constraints'[Len(constraints) + 1] = build_constraint(r)
           /\ OnlyActivates(Len(constraints) + 1)
  <1> DEFINE cs == Deactivate(constraints, Losers(constraints, build_constraint(r)))
  <1>1. constraints \in Seq(Constraint)
    BY DEF AxisInv, AxisTypeOK
  <1>2. /\ cs \in Seq(Constraint)
        /\ DOMAIN cs = DOMAIN constraints
        /\ \A i \in DOMAIN constraints :
             /\ cs[i].kind = constraints[i].kind
             /\ cs[i].still_active => constraints[i].still_active
    BY <1>1, DeactivateRows
  <1>3. constraints' = Append(cs, build_constraint(r))
    BY DEF Supersede
  <1> HIDE DEF cs
  <1>4. Len(cs) = Len(constraints)
    BY <1>1, <1>2
  <1>5. /\ DOMAIN constraints' = DOMAIN cs \cup {Len(cs) + 1}
        /\ constraints'[Len(cs) + 1] = build_constraint(r)
        /\ \A i \in DOMAIN cs : constraints'[i] = cs[i]
    BY <1>2, <1>3
  <1> QED
    BY <1>2, <1>4, <1>5 DEF OnlyActivates

\* A restore activates the row its snapshot names.
LEMMA RestoredRow ==
    ASSUME AxisInv, RestoreAxis
    PROVE  /\ LastEntry.constraint_index \in DOMAIN constraints
           /\ constraints'[LastEntry.constraint_index].kind
                = constraints[LastEntry.constraint_index].kind
           /\ constraints'[LastEntry.constraint_index].hard
           /\ OnlyActivates(LastEntry.constraint_index)
  <1> DEFINE row  == LastEntry.constraint_index
  <1> DEFINE base == [constraints EXCEPT ![row].still_active = TRUE]
  <1> DEFINE out  == Displaced(constraints, LastEntry)
  <1>1. /\ constraints \in Seq(Constraint)
        /\ constraints_superseded \in Seq(LogEntry)
        /\ constraints_superseded # << >>
    BY DEF AxisInv, AxisTypeOK, RestoreAxis, CanRestoreConstraint
  <1>2. /\ Len(constraints_superseded) \in DOMAIN constraints_superseded
        /\ LastEntry = constraints_superseded[Len(constraints_superseded)]
    BY <1>1, LastFront DEF LastEntry
  <1>3. row \in DOMAIN constraints /\ Competes(constraints[row])
    BY <1>2 DEF AxisInv, LogRestorable, SnapshotMatches
  <1>4. constraints' = Deactivate(base, out)
    BY DEF RestoreAxis, Swap
  <1>5. /\ base \in Seq(Constraint)
        /\ DOMAIN base = DOMAIN constraints
        /\ \A i \in DOMAIN constraints :
             /\ base[i].kind = constraints[i].kind
             /\ base[i].hard = constraints[i].hard
             /\ i # row => base[i] = constraints[i]
    <2>1. \A i \in DOMAIN constraints : constraints[i] \in Constraint
      BY <1>1
    <2>2. [constraints[row] EXCEPT !.still_active = TRUE] \in Constraint
      BY <1>3, <2>1 DEF Constraint
    <2>3. /\ DOMAIN base = DOMAIN constraints
          /\ base[row] = [constraints[row] EXCEPT !.still_active = TRUE]
          /\ \A i \in DOMAIN constraints \ {row} : base[i] = constraints[i]
      BY <1>1, <1>3
    <2>4. base \in Seq(Constraint)
      BY <1>1, <1>3, <2>2
    <2>5. base[row].kind = constraints[row].kind /\ base[row].hard = constraints[row].hard
      BY <1>3, <2>1, <2>3 DEF Constraint
    <2> QED
      BY <2>3, <2>4, <2>5
  <1> HIDE DEF base, out, row
  <1>6. /\ DOMAIN constraints' = DOMAIN base
        /\ \A i \in DOMAIN base :
             /\ constraints'[i].hard = base[i].hard
             /\ constraints'[i].kind = base[i].kind
             /\ constraints'[i].still_active => base[i].still_active
    BY <1>4, <1>5, DeactivateRows
  <1>7. OnlyActivates(row)
    BY <1>5, <1>6 DEF OnlyActivates
  <1>8. constraints'[row].kind = constraints[row].kind /\ constraints'[row].hard
    BY <1>3, <1>5, <1>6 DEF Competes
  <1> QED
    BY <1>3, <1>7, <1>8 DEF row

\* What a hard requirement reopens is enough: a slot that misfits has a locked
\* species, item or ability to lose, and loses it.
LEMMA ReopenedFits ==
    ASSUME NEW d \in Drafts, \A s \in Slots : SpeciesLocked(d[s]),
           NEW c, c.hard, c.kind = "ability" => "ability" \in OtherAttrs,
           ReopenAll(d, ConstraintMismatches(d, c))
    PROVE  \A s \in Slots : ~Misfits(team_draft'[s], c)
  <1> TAKE s \in Slots
  <1> DEFINE P == ConstraintMismatches(d, c)
  <1>1. CASE c.kind = NoDuplicateItems
    BY <1>1, TeamAssumption DEF Misfits
  <1>2. CASE c.kind # NoDuplicateItems
    <2>1. \A a \in SLOT_ATTRS :
            <<s, a>> \in P <=> Misfits(d[s], c) /\ d[s][a].locked /\ d[s][a].value # None
      BY <1>2 DEF ConstraintMismatches, Pinned
    <2>2. \A a \in SLOT_ATTRS : team_draft'[s][a] = IF <<s, a>> \in P THEN NoAttr ELSE d[s][a]
      BY DEF ReopenAll, Reopen
    <2>3. team_draft'[s] = [a \in SLOT_ATTRS |-> IF <<s, a>> \in P THEN NoAttr ELSE d[s][a]]
      BY DEF ReopenAll, Reopen
    <2> HIDE DEF P
    <2>4. CASE ~Misfits(d[s], c)
      <3>1. d[s] \in SlotRecord
        BY DEF Drafts
      <3>2. team_draft'[s] = d[s]
        BY <2>1, <2>3, <2>4, <3>1 DEF SlotRecord
      <3> QED
        BY <2>4, <3>2
    <2>5. CASE Misfits(d[s], c)
      <3>1. NoAttr.value = None /\ ~NoAttr.locked
        BY DEF NoAttr
      <3>2. \A a \in SLOT_ATTRS :
              ~team_draft'[s][a].locked \/ team_draft'[s][a].value = None
        BY <2>1, <2>2, <2>5, <3>1
      <3>3. "species" \in SLOT_ATTRS /\ "item" \in SLOT_ATTRS
        BY DEF SLOT_ATTRS
      <3>4. team_draft'[s].species.value = None
        BY <2>1, <2>2, <2>5, <3>1, <3>3 DEF SpeciesLocked
      <3>5. ~MisfitsType(team_draft'[s], c)
        BY <3>4 DEF MisfitsType
      <3>6. ~MisfitsItem(team_draft'[s], c)
        BY <3>2, <3>3 DEF MisfitsItem
      <3>7. c.kind = "ability" => ~MisfitsAbility(team_draft'[s], c)
        BY <3>2, <3>4 DEF MisfitsAbility, SLOT_ATTRS
      <3> QED
        BY <3>5, <3>6, <3>7 DEF Misfits
    <2> QED
      BY <2>4, <2>5
  <1> QED
    BY <1>1, <1>2

\* An empty slot misfits nothing.
LEMMA EmptyFits ==
    ASSUME NEW c, c.kind = "ability" => "ability" \in OtherAttrs
    PROVE  ~Misfits(empty_slot, c)
  <1>1. /\ empty_slot.species = NoAttr /\ empty_slot.item = NoAttr
        /\ c.kind = "ability" => empty_slot["ability"] = NoAttr
    BY EmptySlot DEF SLOT_ATTRS
  <1>2. NoAttr.value = None /\ ~NoAttr.locked
    BY DEF NoAttr
  <1> QED
    BY <1>1, <1>2 DEF Misfits, MisfitsType, MisfitsItem, MisfitsAbility

\* record_constraint, from a requirement stated or a claim corrected.
LEMMA RecordTakesHold ==
    ASSUME TeamInv, Grounded(constraints), NEW r \in Requirements, record_constraint(r)
    PROVE  Grounded(constraints') /\ TakesHold
  <1> DEFINE row == Len(constraints) + 1
  <1> DEFINE new == build_constraint(r)
  <1>1. /\ row \in DOMAIN constraints' /\ constraints'[row] = new /\ OnlyActivates(row)
    BY RecordedRow DEF TeamInv, record_constraint, RecordRequirement
  <1>2. new.kind = "ability" => "ability" \in OtherAttrs
    BY TeamAssumption DEF build_constraint
  <1>3. ReopenAll(team_draft, ConstraintMismatches(team_draft, new))
    BY DEF record_constraint
  <1>4. team_draft \in Drafts /\ \A s \in Slots : SpeciesLocked(team_draft[s])
    BY TypeOKParts DEF TeamInv, Clauses
  <1> HIDE DEF row, new
  <1>5. new.hard => \A s \in Slots : ~Misfits(team_draft'[s], new)
    BY <1>2, <1>3, <1>4, ReopenedFits
  <1>6. Grounded(constraints')
    BY <1>1, <1>2 DEF Grounded, OnlyActivates
  <1>7. TakesHold
    BY <1>1, <1>5 DEF TakesHold, OnlyActivates
  <1> QED
    BY <1>6, <1>7

\* restore_constraint.
LEMMA RestoreTakesHold ==
    ASSUME TeamInv, Grounded(constraints), RestoreAxis,
           ReopenAll(team_draft, ConstraintMismatches(team_draft,
                                   constraints'[LastEntry.constraint_index]))
    PROVE  Grounded(constraints') /\ TakesHold
  <1> DEFINE row == LastEntry.constraint_index
  <1>1. /\ row \in DOMAIN constraints
        /\ constraints'[row].kind = constraints[row].kind
        /\ constraints'[row].hard
        /\ OnlyActivates(row)
    BY RestoredRow DEF TeamInv
  <1>2. constraints'[row].kind = "ability" => "ability" \in OtherAttrs
    BY <1>1 DEF Grounded
  <1>4. team_draft \in Drafts /\ \A s \in Slots : SpeciesLocked(team_draft[s])
    BY TypeOKParts DEF TeamInv, Clauses
  <1>5. \A s \in Slots : ~Misfits(team_draft'[s], constraints'[row])
    BY <1>1, <1>2, <1>4, ReopenedFits
  <1> HIDE DEF row
  <1>6. Grounded(constraints')
    BY <1>1, <1>2 DEF Grounded, OnlyActivates
  <1>7. TakesHold
    BY <1>1, <1>5 DEF TakesHold, OnlyActivates
  <1> QED
    BY <1>6, <1>7

\* No slot keeps a pinned species, item or ability that misfits a hard
\* requirement stated or restored in this turn (reconcile_on_constraint_change
\* after record_constraint, handle_claim_correction, restore_constraint and
\* reset_team), for any requirements and any number of slots.
THEOREM RequirementsTakeHold == Spec => RequirementTakesHold
  <1>1. Init => Grounded(constraints)
    BY DEF Init, AxisInit, Grounded
  <1>2. ASSUME TeamInv, Grounded(constraints), [Next]_vars
        PROVE  Grounded(constraints)' /\ [TakesHold]_vars
    <2>1. CASE UNCHANGED constraints
      BY <1>2, <2>1 DEF Grounded, TakesHold
    <2>2. CASE \E r \in Requirements : record_constraint(r)
      BY <1>2, <2>2, RecordTakesHold
    <2>3. CASE restore_constraint
      <3>1. CASE UNCHANGED axisVars
        BY <2>1, <3>1 DEF axisVars
      <3> QED
        BY <1>2, <2>3, <3>1, RestoreTakesHold DEF restore_constraint
    <2>4. CASE reset_team
      <3>1. PICK seed \in {<< >>} \cup {<<r>> : r \in Requirements} : ResetAxis(seed)
        BY <2>4 DEF reset_team, ResetRequirements
      <3>2. \A i \in DOMAIN seed : seed[i] \in Requirements
        BY <3>1
      <3>3. Grounded(constraints')
        BY <3>1, <3>2, TeamAssumption DEF ResetAxis, Grounded, build_constraint
      <3>4. \A s \in Slots : team_draft'[s] = empty_slot
        BY <2>4 DEF reset_team
      <3> QED
        BY <3>3, <3>4, EmptyFits DEF TakesHold, Grounded
    <2>5. CASE handle_claim_correction
      <3>1. CASE UNCHANGED axisVars
        BY <2>1, <3>1 DEF axisVars
      <3> QED
        BY <2>2, <2>5, <3>1 DEF handle_claim_correction
    <2>6. CASE \/ \E s \in Slots, r \in LockRequests, batch \in BOOLEAN :
                    apply_lock(s, r, batch)
               \/ \E s \in Slots, b \in Builds : commit_full_slot(s, b)
               \/ \E s \in Slots : unlock_locked_slot(s)
               \/ \E theme \in Themes : handle_archetype_change(theme)
               \/ \E v \in Rejectable, S \in {{}} \cup {{s} : s \in Slots} :
                    record_rejection(v, S)
               \/ \E s \in Slots, a \in SLOT_ATTRS : restore_superseded(s, a)
               \/ bad_slot
               \/ fill_team_draft
      <3>1. UNCHANGED axisVars
        BY <2>6 DEF apply_lock, commit_full_slot, unlock_locked_slot,
                    handle_archetype_change, record_rejection, restore_superseded,
                    bad_slot, fill_team_draft, Refused
      <3> QED
        BY <2>1, <3>1 DEF axisVars
    <2>7. CASE UNCHANGED vars
      BY <2>1, <2>7 DEF vars, axisVars
    <2> QED
      BY <1>2, <2>2, <2>3, <2>4, <2>5, <2>6, <2>7 DEF Next
  <1> QED
    BY <1>1, <1>2, TeamSafety, PTL DEF Spec, RequirementTakesHold
=============================================================================
