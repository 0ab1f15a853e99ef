---------------------------- MODULE Stores_proof ----------------------------
(***************************************************************************)
(* The stores, for any caps, sessions, contexts, builds and spreads.       *)
(*                                                                         *)
(* The memos: what a session has is a sequence without repetitions, the    *)
(* sessions that have a memo stand in the order in which they were used    *)
(* last, and an entry is added only where no entry has its key.            *)
(*                                                                         *)
(* The files, with one writer at a time: what it is about to put still     *)
(* fits the row it will replace, since nothing changes between its look at *)
(* the file and its write.                                                 *)
(***************************************************************************)
EXTENDS MCStores, FiniteSetTheorems, TLAPS

-----------------------------------------------------------------------------
(* The memos (MatchupMemo).  A memo and the list of sessions are sequences *)
(* without repetitions; what matters of one is what is in it and what      *)
(* comes before what.                                                      *)

Distinct(s) == \A i, j \in 1 .. Len(s) : s[i] = s[j] => i = j

Before(s, x, y) == \E i, j \in 1 .. Len(s) : i < j /\ s[i] = x /\ s[j] = y

LEMMA InSeq == ASSUME NEW S, NEW s \in Seq(S) PROVE ToSet(s) = {s[i] : i \in 1 .. Len(s)}
BY DEF ToSet

LEMMA OneRemoved ==
    ASSUME NEW S, NEW s \in Seq(S), NEW k \in 1 .. Len(s)
    PROVE  /\ RemoveAt(s, k) \in Seq(S)
           /\ Len(RemoveAt(s, k)) = Len(s) - 1
           /\ \A j \in 1 .. Len(s) - 1 :
                 RemoveAt(s, k)[j] = IF j < k THEN s[j] ELSE s[j + 1]
<1> DEFINE a == SubSeq(s, 1, k - 1)
           b == SubSeq(s, k + 1, Len(s))
<1>1. a \in Seq(S) /\ Len(a) = k - 1 /\ \A j \in 1 .. k - 1 : a[j] = s[j]
    OBVIOUS
<1>2. b \in Seq(S) /\ Len(b) = Len(s) - k /\ \A j \in 1 .. Len(s) - k : b[j] = s[k + j]
    OBVIOUS
<1>3. RemoveAt(s, k) = a \o b
    BY DEF RemoveAt
<1> HIDE DEF a, b
<1>4. /\ a \o b \in Seq(S) /\ Len(a \o b) = Len(s) - 1
      /\ \A j \in 1 .. Len(s) - 1 : (a \o b)[j] = IF j <= Len(a) THEN a[j] ELSE b[j - Len(a)]
    <2>1. a \in Seq(S) /\ b \in Seq(S)
        BY <1>1, <1>2
    <2>2. /\ a \o b \in Seq(S) /\ Len(a \o b) = Len(a) + Len(b)
          /\ \A j \in 1 .. Len(a) + Len(b) :
                (a \o b)[j] = IF j <= Len(a) THEN a[j] ELSE b[j - Len(a)]
        BY <2>1
    <2>3. Len(a) + Len(b) = Len(s) - 1
        BY <1>1, <1>2
    <2> QED BY <2>2, <2>3
<1>5. ASSUME NEW j \in 1 .. Len(s) - 1
      PROVE  (a \o b)[j] = IF j < k THEN s[j] ELSE s[j + 1]
    <2>1. CASE j < k
        BY <1>1, <1>4, <2>1
    <2>2. CASE ~ (j < k)
        <3>1. j - Len(a) \in 1 .. Len(s) - k /\ ~ (j <= Len(a)) /\ k + (j - Len(a)) = j + 1
            BY <1>1, <2>2
        <3> QED BY <1>2, <1>4, <2>2, <3>1
    <2> QED BY <2>1, <2>2
<1> QED BY <1>3, <1>4, <1>5

\* Taking one element out leaves the rest in its order.
LEMMA WithoutIt ==
    ASSUME NEW S, NEW s \in Seq(S), Distinct(s), NEW x
    PROVE  /\ Without(s, x) \in Seq(S) /\ Distinct(Without(s, x))
           /\ ToSet(Without(s, x)) = ToSet(s) \ {x}
           /\ Len(Without(s, x)) = IF x \in ToSet(s) THEN Len(s) - 1 ELSE Len(s)
           /\ \A y, z : Before(Without(s, x), y, z) =>
                            Before(s, y, z) /\ y # x /\ z # x
           /\ \A y, z : Before(s, y, z) /\ y # x /\ z # x =>
                            Before(Without(s, x), y, z)
<1>1. CASE x \notin ToSet(s)
    <2>1. Without(s, x) = s
        BY <1>1 DEF Without
    <2>2. \A y, z : Before(s, y, z) => y # x /\ z # x
        BY <1>1, InSeq DEF Before
    <2> QED BY <1>1, <2>1, <2>2
<1>2. CASE x \in ToSet(s)
    <2> DEFINE k == CHOOSE i \in DOMAIN s : s[i] = x
               r == RemoveAt(s, k)
    <2>1. k \in 1 .. Len(s) /\ s[k] = x
        <3>1. \E i \in DOMAIN s : s[i] = x
            BY <1>2 DEF ToSet
        <3>2. k \in DOMAIN s /\ s[k] = x
            BY <3>1, Zenon
        <3> QED BY <3>2
    <2>2. Without(s, x) = r
        BY <1>2 DEF Without
    <2> HIDE DEF k
    <2>3. r \in Seq(S) /\ Len(r) = Len(s) - 1 /\ Len(s) \in Nat
          /\ \A j \in 1 .. Len(s) - 1 : r[j] = IF j < k THEN s[j] ELSE s[j + 1]
        BY <2>1, OneRemoved
    <2> HIDE DEF r
    <2> DEFINE at(j) == IF j < k THEN j ELSE j + 1
               to(i) == IF i < k THEN i ELSE i - 1
    <2>4. \A j \in 1 .. Len(r) : at(j) \in 1 .. Len(s) /\ at(j) # k /\ s[at(j)] = r[j]
        BY <2>1, <2>3
    <2>5. \A i \in 1 .. Len(s) : i # k => to(i) \in 1 .. Len(r) /\ at(to(i)) = i
        BY <2>1, <2>3
    <2>6. \A i, j \in 1 .. Len(r) : (at(i) = at(j) => i = j) /\ (i < j => at(i) < at(j))
        BY <2>1, <2>3
    <2>7. \A i, j \in 1 .. Len(s) : i < j /\ i # k /\ j # k => to(i) < to(j)
        BY <2>1, <2>3
    <2>8. \A i \in 1 .. Len(s) : i # k => s[i] # x
        BY <2>1 DEF Distinct
    <2> HIDE DEF at, to
    <2>9. \A j \in 1 .. Len(r) : r[j] # x
        BY <2>4, <2>8
    <2>10. Distinct(r)
        BY <2>4, <2>6 DEF Distinct
    <2>11. ToSet(r) = ToSet(s) \ {x}
        <3>1. \A y \in ToSet(r) : y \in ToSet(s) \ {x}
            BY <2>3, <2>4, <2>9, InSeq
        <3>2. ASSUME NEW y \in ToSet(s) \ {x} PROVE y \in ToSet(r)
            <4>1. PICK i \in 1 .. Len(s) : s[i] = y
                BY InSeq
            <4>2. i # k
                BY <2>1, <4>1
            <4>3. to(i) \in 1 .. Len(r) /\ r[to(i)] = y
                BY <2>4, <2>5, <4>1, <4>2
            <4> QED BY <2>3, <4>3, InSeq
        <3> QED BY <3>1, <3>2
    <2>12. ASSUME NEW y, NEW z, Before(r, y, z)
           PROVE  Before(s, y, z) /\ y # x /\ z # x
        <3>1. PICK i, j \in 1 .. Len(r) : i < j /\ r[i] = y /\ r[j] = z
            BY <2>12 DEF Before
        <3>2. at(i) \in 1 .. Len(s) /\ at(j) \in 1 .. Len(s) /\ at(i) < at(j)
              /\ s[at(i)] = y /\ s[at(j)] = z
            BY <2>4, <2>6, <3>1
        <3> QED BY <2>9, <3>1, <3>2 DEF Before
    <2>13. ASSUME NEW y, NEW z, Before(s, y, z), y # x, z # x
           PROVE  Before(r, y, z)
        <3>1. PICK i, j \in 1 .. Len(s) : i < j /\ s[i] = y /\ s[j] = z
            BY <2>13 DEF Before
        <3>2. i # k /\ j # k
            BY <2>1, <2>13, <3>1
        <3>3. to(i) \in 1 .. Len(r) /\ to(j) \in 1 .. Len(r) /\ to(i) < to(j)
            BY <2>5, <2>7, <3>1, <3>2
        <3>4. r[to(i)] = y /\ r[to(j)] = z
            BY <2>4, <2>5, <3>1, <3>2, <3>3
        <3> QED BY <3>3, <3>4 DEF Before
    <2> QED BY <1>2, <2>2, <2>3, <2>10, <2>11, <2>12, <2>13
<1> QED BY <1>1, <1>2

LEMMA Appended ==
    ASSUME NEW S, NEW s \in Seq(S), Distinct(s), NEW x \in S, x \notin ToSet(s)
    PROVE  LET a == Append(s, x)
           IN /\ a \in Seq(S) /\ Len(a) = Len(s) + 1 /\ a[Len(a)] = x /\ Distinct(a)
              /\ ToSet(a) = ToSet(s) \union {x}
              /\ \A y, z : Before(a, y, z) =>
                    Before(s, y, z) \/ (z = x /\ y \in ToSet(s))
              /\ \A y, z : Before(s, y, z) \/ (z = x /\ y \in ToSet(s)) =>
                    Before(a, y, z)
<1> DEFINE a == Append(s, x)
<1>1. a \in Seq(S) /\ Len(a) = Len(s) + 1 /\ a[Len(s) + 1] = x /\ Len(s) \in Nat
      /\ \A i \in 1 .. Len(s) : a[i] = s[i]
    OBVIOUS
<1> HIDE DEF a
<1>2. \A i \in 1 .. Len(s) : s[i] # x /\ s[i] \in ToSet(s)
    BY InSeq
<1>3. Distinct(a)
    BY <1>1, <1>2 DEF Distinct
<1>4. ToSet(a) = ToSet(s) \union {x}
    <2>1. ASSUME NEW y \in ToSet(a) PROVE y \in ToSet(s) \union {x}
        <3>1. PICK i \in 1 .. Len(a) : a[i] = y
            BY <1>1, InSeq
        <3> QED BY <1>1, <1>2, <3>1
    <2>2. ASSUME NEW y \in ToSet(s) PROVE y \in ToSet(a)
        <3>1. PICK i \in 1 .. Len(s) : s[i] = y
            BY InSeq
        <3>2. i \in 1 .. Len(a) /\ a[i] = y
            BY <1>1, <3>1
        <3> QED BY <1>1, <3>2, InSeq
    <2>3. x \in ToSet(a)
        BY <1>1, InSeq
    <2> QED BY <2>1, <2>2, <2>3
<1>5. ASSUME NEW y, NEW z, Before(a, y, z)
      PROVE  Before(s, y, z) \/ (z = x /\ y \in ToSet(s))
    <2>1. PICK i, j \in 1 .. Len(a) : i < j /\ a[i] = y /\ a[j] = z
        BY <1>5 DEF Before
    <2>2. i \in 1 .. Len(s) /\ s[i] = y /\ y \in ToSet(s)
        BY <1>1, <1>2, <2>1
    <2>3. CASE j = Len(s) + 1
        BY <1>1, <2>1, <2>2, <2>3
    <2>4. CASE j \in 1 .. Len(s)
        BY <1>1, <2>1, <2>2, <2>4 DEF Before
    <2> QED BY <1>1, <2>1, <2>3, <2>4
<1>6. ASSUME NEW y, NEW z, Before(s, y, z) PROVE Before(a, y, z)
    BY <1>1, <1>6 DEF Before
<1>7. ASSUME NEW y \in ToSet(s) PROVE Before(a, y, x)
    <2>1. PICK i \in 1 .. Len(s) : s[i] = y
        BY InSeq
    <2>2. i \in 1 .. Len(a) /\ Len(s) + 1 \in 1 .. Len(a) /\ i < Len(s) + 1
          /\ a[i] = y /\ a[Len(s) + 1] = x
        BY <1>1, <2>1
    <2> QED BY <2>2 DEF Before
<1> QED BY <1>1, <1>3, <1>4, <1>5, <1>6, <1>7 DEF a

\* x was used: it comes after all others, and they keep their order.
LEMMA MovedToEnd ==
    ASSUME NEW S, NEW s \in Seq(S), Distinct(s), NEW x \in S
    PROVE  LET e == ToEnd(s, x)
           IN /\ e \in Seq(S) /\ Distinct(e) /\ e[Len(e)] = x
              /\ Len(e) = IF x \in ToSet(s) THEN Len(s) ELSE Len(s) + 1
              /\ ToSet(e) = ToSet(s) \union {x}
              /\ \A y, z : Before(e, y, z) =>
                    \/ Before(s, y, z) /\ y # x /\ z # x
                    \/ z = x /\ y # x /\ y \in ToSet(s)
              /\ \A y, z : Before(s, y, z) /\ y # x /\ z # x => Before(e, y, z)
              /\ \A y \in ToSet(s) \ {x} : Before(e, y, x)
<1> DEFINE w == Without(s, x)
<1>1. w \in Seq(S) /\ Distinct(w) /\ ToSet(w) = ToSet(s) \ {x} /\ Len(s) \in Nat
      /\ Len(w) = IF x \in ToSet(s) THEN Len(s) - 1 ELSE Len(s)
    BY WithoutIt
<1>2. /\ \A y, z : Before(w, y, z) => Before(s, y, z) /\ y # x /\ z # x
      /\ \A y, z : Before(s, y, z) /\ y # x /\ z # x => Before(w, y, z)
    BY WithoutIt
<1> DEFINE e == Append(w, x)
<1> HIDE DEF w
<1>3. /\ e \in Seq(S) /\ Len(e) = Len(w) + 1 /\ e[Len(e)] = x /\ Distinct(e)
      /\ ToSet(e) = ToSet(w) \union {x}
    BY <1>1, Appended
<1>4. /\ \A y, z : Before(e, y, z) => Before(w, y, z) \/ (z = x /\ y \in ToSet(w))
      /\ \A y, z : Before(w, y, z) \/ (z = x /\ y \in ToSet(w)) => Before(e, y, z)
    BY <1>1, Appended
<1> HIDE DEF e
<1>5. ToEnd(s, x) = e
    BY DEF ToEnd, w, e
<1>6. Len(e) = IF x \in ToSet(s) THEN Len(s) ELSE Len(s) + 1
    BY <1>1, <1>3
<1> QED BY <1>1, <1>2, <1>3, <1>4, <1>5, <1>6

LEMMA FirstDropped ==
    ASSUME NEW S, NEW s \in Seq(S), Distinct(s), Len(s) > 0
    PROVE  LET t == Tail(s)
           IN /\ t \in Seq(S) /\ Len(t) = Len(s) - 1 /\ Distinct(t)
              /\ ToSet(t) = ToSet(s) \ {s[1]}
              /\ \A y, z : Before(t, y, z) => Before(s, y, z)
<1> DEFINE t == Tail(s)
<1>1. t \in Seq(S) /\ Len(t) = Len(s) - 1 /\ Len(s) \in Nat
      /\ \A i \in 1 .. Len(t) : t[i] = s[i + 1]
    OBVIOUS
<1> HIDE DEF t
<1>2. \A i \in 1 .. Len(t) : i + 1 \in 1 .. Len(s) /\ t[i] = s[i + 1] /\ s[i + 1] # s[1]
    BY <1>1 DEF Distinct
<1>3. Distinct(t)
    BY <1>1, <1>2 DEF Distinct
<1>4. ToSet(t) = ToSet(s) \ {s[1]}
    <2>1. \A y \in ToSet(t) : y \in ToSet(s) \ {s[1]}
        BY <1>1, <1>2, InSeq
    <2>2. ASSUME NEW y \in ToSet(s) \ {s[1]} PROVE y \in ToSet(t)
        <3>1. PICK i \in 1 .. Len(s) : s[i] = y
            BY InSeq
        <3>2. i - 1 \in 1 .. Len(t) /\ t[i - 1] = y
            <4>1. i # 1
                BY <3>1
            <4>2. i - 1 \in 1 .. Len(t) /\ (i - 1) + 1 = i
                BY <1>1, <4>1
            <4> QED BY <1>1, <3>1, <4>2
        <3> QED BY <1>1, <3>2, InSeq
    <2> QED BY <2>1, <2>2
<1>5. ASSUME NEW y, NEW z, Before(t, y, z) PROVE Before(s, y, z)
    <2>1. PICK i, j \in 1 .. Len(t) : i < j /\ t[i] = y /\ t[j] = z
        BY <1>5 DEF Before
    <2>2. i + 1 \in 1 .. Len(s) /\ j + 1 \in 1 .. Len(s) /\ i + 1 < j + 1
          /\ s[i + 1] = y /\ s[j + 1] = z
        BY <1>2, <2>1
    <2> QED BY <2>2 DEF Before
<1> QED BY <1>1, <1>3, <1>4, <1>5 DEF t

-----------------------------------------------------------------------------
\* The sessions with a memo are among the ones that were used, in the order
\* they were used last.
Sessions ==
    /\ order \in Seq(Threads) /\ Distinct(order) /\ Len(order) <= MaxLive
    /\ used \in Seq(Threads) /\ Distinct(used)
    /\ ToSet(order) \subseteq ToSet(used)
    /\ \A y, z : Before(order, y, z) => Before(used, y, z)

Counts == [hits : Nat, misses : Nat]

\* A memo: an entry per key, as many as were ever stored or as it may hold.
Sound(m) ==
    /\ m.entries \in Seq(Results) /\ Distinct(m.entries)
    /\ \A e, f \in ToSet(m.entries) : SameKey(e.of, f.of) => e = f
    /\ m.stats \in Counts
    /\ Len(m.entries) = IF m.stats.misses < MaxEntries THEN m.stats.misses ELSE MaxEntries

Memos ==
    /\ entries \in [Owners -> Seq(Results)] /\ stats \in [Owners -> Counts]
    /\ \A o \in Owners : Sound(Kept(o))
    /\ \A o \in Owners : o \notin ToSet(order) \union {Default} =>
            entries[o] = <<>> /\ stats[o] = Blank

Contexts ==
    /\ bound \in [Workers -> Owners]
    /\ asked \in [Workers -> Requests \union {None}]
    /\ answer \in [Workers -> [request : Requests, result : Results] \union {None}]
    /\ AnswersAreRight
    /\ calls \in Nat /\ calls <= MaxCalls

MemoInv == Sessions /\ Memos /\ Contexts

LEMMA TouchedInOrder ==
    ASSUME Sessions, NEW t \in Threads
    PROVE  /\ Touched(t) \in Seq(Threads) /\ Distinct(Touched(t)) /\ Len(Touched(t)) <= MaxLive
           /\ t \in ToSet(Touched(t)) /\ ToSet(Touched(t)) \subseteq ToSet(order) \union {t}
           /\ \A y, z : Before(Touched(t), y, z) =>
                  \/ Before(order, y, z) /\ y # t /\ z # t
                  \/ z = t /\ y # t /\ y \in ToSet(order)
           /\ \A x \in ToSet(order) \ ToSet(Touched(t)) :
                  t \notin ToSet(order) /\ Len(order) = MaxLive /\ x = order[1]
<1>0. /\ order \in Seq(Threads) /\ Distinct(order) /\ Len(order) <= MaxLive /\ Len(order) \in Nat
      /\ MaxLive \in Nat /\ MaxLive >= 1
    BY BoundsAssumption DEF Sessions
<1>1. CASE Resident(t)
    <2>1. Touched(t) = ToEnd(order, t) /\ t \in ToSet(order)
        BY <1>1 DEF Touched, Resident
    <2> QED BY <1>0, <2>1, MovedToEnd
<1>2. CASE ~ Resident(t)
    <2> DEFINE left == IF Len(order) >= MaxLive THEN Tail(order) ELSE order
    <2>1. t \notin ToSet(order) /\ Touched(t) = Append(left, t)
        BY <1>2 DEF Touched, Resident
    <2>2. /\ left \in Seq(Threads) /\ Distinct(left) /\ Len(left) < MaxLive
          /\ ToSet(left) \subseteq ToSet(order)
          /\ \A y, z : Before(left, y, z) => Before(order, y, z)
          /\ \A x \in ToSet(order) \ ToSet(left) : Len(order) = MaxLive /\ x = order[1]
        <3>1. CASE Len(order) >= MaxLive
            BY <1>0, <3>1, FirstDropped
        <3>2. CASE ~ (Len(order) >= MaxLive)
            BY <1>0, <3>2
        <3> QED BY <3>1, <3>2
    <2> HIDE DEF left
    <2> DEFINE a == Append(left, t)
    <2>3. /\ a \in Seq(Threads) /\ Len(a) = Len(left) + 1 /\ Distinct(a)
          /\ ToSet(a) = ToSet(left) \union {t}
          /\ \A y, z : Before(a, y, z) => Before(left, y, z) \/ (z = t /\ y \in ToSet(left))
        BY <2>1, <2>2, Appended
    <2> HIDE DEF a
    <2>4. \A y, z : Before(order, y, z) => y \in ToSet(order) /\ z \in ToSet(order)
        BY <1>0, InSeq DEF Before
    <2>5. Len(a) <= MaxLive
        BY <1>0, <2>2, <2>3
    <2> QED BY <2>1, <2>2, <2>3, <2>4, <2>5 DEF a
<1> QED BY <1>1, <1>2

\* The sessions after an operation on t's memo.
LEMMA UsedInOrder ==
    ASSUME Sessions, NEW t \in Threads, order' = Touched(t), used' = ToEnd(used, t)
    PROVE  Sessions'
<1>1. /\ order' \in Seq(Threads) /\ Distinct(order') /\ Len(order') <= MaxLive
      /\ ToSet(order') \subseteq ToSet(order) \union {t}
      /\ \A y, z : Before(order', y, z) =>
             \/ Before(order, y, z) /\ y # t /\ z # t
             \/ z = t /\ y # t /\ y \in ToSet(order)
    BY TouchedInOrder
<1>2. /\ used' \in Seq(Threads) /\ Distinct(used') /\ ToSet(used') = ToSet(used) \union {t}
      /\ \A y, z : Before(used, y, z) /\ y # t /\ z # t => Before(used', y, z)
      /\ \A y \in ToSet(used) \ {t} : Before(used', y, t)
    <2>1. used \in Seq(Threads) /\ Distinct(used)
        BY DEF Sessions
    <2> QED BY <2>1, MovedToEnd
<1> QED BY <1>1, <1>2 DEF Sessions

LEMMA BlankIsSound == Sound(Dropped(Default)) /\ Blank \in Counts
<1>1. <<>> \in Seq(Results) /\ Len(<<>>) = 0
    OBVIOUS
<1>2. ToSet(<<>>) = {}
    BY DEF ToSet
<1> QED BY <1>1, <1>2, BoundsAssumption DEF Sound, Dropped, Blank, Counts, Distinct

\* What an operation on o's memo leaves of the memos.
LEMMA UseSound ==
    ASSUME Sessions, Memos, NEW o \in Owners, NEW mine, Sound(mine), Use(o, mine)
    PROVE  /\ Sessions' /\ Memos'
           /\ entries'[o] = mine.entries
           /\ \A p \in Owners : p # o => entries'[p] = <<>> \/ entries'[p] = entries[p]
<1> DEFINE left == IF o = Default THEN ToSet(order) ELSE ToSet(Touched(o))
           After(p) == IF p = o THEN mine
                       ELSE IF p \in ToSet(order) \ left THEN Dropped(p)
                       ELSE [entries |-> entries[p], stats |-> stats[p]]
<1>1. /\ order' = IF o = Default THEN order ELSE Touched(o)
      /\ entries' = [p \in Owners |-> After(p).entries]
      /\ stats' = [p \in Owners |-> After(p).stats]
      /\ used' = IF o = Default THEN used ELSE ToEnd(used, o)
    BY Zenon DEF Use
<1>2. Sessions' /\ left = ToSet(order')
    <2>1. CASE o = Default
        BY <1>1, <2>1 DEF Sessions
    <2>2. CASE o # Default
        <3>1. o \in Threads
            BY <2>2 DEF Owners
        <3> QED BY <1>1, <2>2, <3>1, UsedInOrder
    <2> QED BY <2>1, <2>2
<1>3. o # Default => o \in ToSet(order') /\ ToSet(order') \subseteq ToSet(order) \union {o}
    BY <1>1, TouchedInOrder DEF Owners
<1>4. o = Default => order' = order
    BY <1>1
<1> HIDE DEF left
<1>5. \A p \in Owners : Sound(After(p)) /\ After(p).entries \in Seq(Results) /\ After(p).stats \in Counts
    <2> SUFFICES ASSUME NEW p \in Owners
                 PROVE  Sound(After(p))
        BY DEF Sound
    <2>1. Sound(Dropped(p))
        BY BlankIsSound DEF Dropped
    <2>2. Sound([entries |-> entries[p], stats |-> stats[p]])
        BY DEF Memos, Kept
    <2> QED BY <2>1, <2>2
<1>6. \A p \in Owners : p \notin ToSet(order') \union {Default} =>
            After(p).entries = <<>> /\ After(p).stats = Blank
    <2> SUFFICES ASSUME NEW p \in Owners, p \notin ToSet(order') \union {Default}
                 PROVE  After(p).entries = <<>> /\ After(p).stats = Blank
        OBVIOUS
    <2>1. p # o
        BY <1>3
    <2>2. CASE p \in ToSet(order)
        BY <1>2, <2>1, <2>2 DEF Dropped
    <2>3. CASE p \notin ToSet(order)
        BY <2>1, <2>3 DEF Memos
    <2> QED BY <2>2, <2>3
<1>7. /\ After(o) = mine
      /\ \A p \in Owners : p # o => After(p).entries = <<>> \/ After(p).entries = entries[p]
    BY DEF Dropped
<1> HIDE DEF After
<1>8. \A p \in Owners : entries'[p] = After(p).entries /\ stats'[p] = After(p).stats
    BY <1>1
<1>9. entries' \in [Owners -> Seq(Results)] /\ stats' \in [Owners -> Counts]
    BY <1>1, <1>5
<1>10. \A p \in Owners : Sound(Kept(p))'
    BY <1>5, <1>8 DEF Kept, Sound
<1>11. Memos'
    BY <1>6, <1>8, <1>9, <1>10 DEF Memos
<1> QED BY <1>2, <1>7, <1>8, <1>11

\* What a session has stored comes from its own work, and an answer from the
\* memo of the session that asked.
Separate ==
    /\ \A o \in Owners : \A e \in ToSet(entries'[o]) \ ToSet(entries[o]) : bound[e.by] = o
    /\ \A w \in Workers :
          answer'[w] # answer[w] => answer'[w].result \in ToSet(entries'[bound[w]])

FirstStays ==
    \A o \in Owners : \A e \in ToSet(entries[o]), f \in ToSet(entries'[o]) :
        SameKey(e.of, f.of) => e = f

\* Operations that add nothing.
LEMMA NothingNew ==
    ASSUME Memos, \A o \in Owners : entries'[o] = <<>> \/ ToSet(entries'[o]) = ToSet(entries[o])
    PROVE  /\ \A o \in Owners : \A e \in ToSet(entries'[o]) \ ToSet(entries[o]) : bound[e.by] = o
           /\ FirstStays
<1>1. ToSet(<<>>) = {}
    BY DEF ToSet
<1>2. \A o \in Owners : ToSet(entries'[o]) \subseteq ToSet(entries[o])
    BY <1>1
<1>3. \A o \in Owners : \A e, f \in ToSet(entries[o]) : SameKey(e.of, f.of) => e = f
    BY DEF Memos, Sound, Kept
<1> QED BY <1>2, <1>3 DEF FirstStays

LEMMA HitSound ==
    ASSUME Memos, NEW o \in Owners, NEW r \in Requests, Matching(entries[o], r) # {}
    PROVE  /\ Sound(Hit(o, r).memo) /\ ToSet(Hit(o, r).memo.entries) = ToSet(entries[o])
           /\ Hit(o, r).result \in ToSet(entries[o]) /\ Hit(o, r).result \in Results
           /\ Hit(o, r).result.of = r
<1> DEFINE k == CHOOSE i \in Matching(entries[o], r) : TRUE
           e == entries[o][k]
           m == [entries |-> ToEnd(entries[o], e), stats |-> [stats[o] EXCEPT !.hits = @ + 1]]
<1>1. k \in Matching(entries[o], r)
    BY Zenon
<1> HIDE DEF k
<1>2. entries[o] \in Seq(Results) /\ stats[o] \in Counts /\ Sound(Kept(o))
    BY DEF Memos
<1>3. k \in 1 .. Len(entries[o]) /\ e.of = r
    BY <1>1, <1>2 DEF Matching, SameKey
<1>4. e \in ToSet(entries[o]) /\ e \in Results
    BY <1>2, <1>3, InSeq
<1> HIDE DEF e
<1>5. /\ ToEnd(entries[o], e) \in Seq(Results) /\ Distinct(ToEnd(entries[o], e))
      /\ Len(ToEnd(entries[o], e)) = Len(entries[o])
      /\ ToSet(ToEnd(entries[o], e)) = ToSet(entries[o])
    <2>1. Distinct(entries[o])
        BY <1>2 DEF Sound, Kept
    <2> DEFINE t == ToEnd(entries[o], e)
    <2>2. /\ t \in Seq(Results) /\ Distinct(t)
          /\ Len(t) = IF e \in ToSet(entries[o]) THEN Len(entries[o]) ELSE Len(entries[o]) + 1
          /\ ToSet(t) = ToSet(entries[o]) \union {e}
        BY <1>2, <1>4, <2>1, MovedToEnd
    <2>3. ToSet(entries[o]) \union {e} = ToSet(entries[o])
        BY <1>4
    <2> HIDE DEF t
    <2> QED BY <1>4, <2>2, <2>3 DEF t
<1>6. m.stats \in Counts /\ m.stats.misses = stats[o].misses
    BY <1>2 DEF Counts
<1>7. Sound(m)
    BY <1>2, <1>5, <1>6 DEF Sound, Kept
<1>8. Hit(o, r) = [result |-> e, memo |-> m]
    BY DEF Hit, e, k
<1> HIDE DEF m
<1> QED BY <1>3, <1>4, <1>5, <1>7, <1>8 DEF m

LEMMA BindSound ==
    ASSUME MemoInv, NEW w \in Workers, NEW o \in Owners, Bind(w, o)
    PROVE  MemoInv' /\ Separate /\ FirstStays
<1>1. Sessions' /\ Memos' /\ \A p \in Owners : entries'[p] = <<>> \/ entries'[p] = entries[p]
    <2>1. CASE o = Default
        BY <2>1 DEF Bind, MemoInv, Sessions, Memos, Kept
    <2>2. CASE o # Default
        <3>1. Use(o, Kept(o)) /\ Sound(Kept(o))
            BY <2>2 DEF Bind, MemoInv, Memos
        <3>2. Kept(o).entries = entries[o]
            BY DEF Kept
        <3> HIDE DEF Kept
        <3> QED BY <3>1, <3>2, UseSound DEF MemoInv
    <2> QED BY <2>1, <2>2
<1>2. Contexts' /\ answer' = answer
    BY DEF Bind, MemoInv, Contexts, AnswersAreRight
<1> QED BY <1>1, <1>2, NothingNew DEF MemoInv, Separate

\* The call returns r's result e to w.
LEMMA Returned ==
    ASSUME Contexts, NEW w \in Workers, NEW r \in Requests, NEW e \in Results, e.of = r,
           Return(w, r, e), UNCHANGED bound, calls' \in Nat, calls' <= MaxCalls
    PROVE  Contexts' /\ (\A v \in Workers : v # w => answer'[v] = answer[v])
           /\ answer'[w].result = e
<1> DEFINE a == [request |-> r, result |-> e]
<1>1. a \in [request : Requests, result : Results] /\ a.result = e /\ a.request = r
    OBVIOUS
<1>2. asked' = [asked EXCEPT ![w] = None] /\ answer' = [answer EXCEPT ![w] = a]
    BY DEF Return
<1> HIDE DEF a
<1>3. asked' \in [Workers -> Requests \union {None}]
    BY <1>2 DEF Contexts
<1>4. /\ answer' \in [Workers -> [request : Requests, result : Results] \union {None}]
      /\ answer'[w] = a /\ \A v \in Workers : v # w => answer'[v] = answer[v]
    BY <1>1, <1>2 DEF Contexts
<1>5. AnswersAreRight'
    BY <1>1, <1>4 DEF Contexts, AnswersAreRight
<1> QED BY <1>1, <1>3, <1>4, <1>5 DEF Contexts

LEMMA LookUpSound ==
    ASSUME MemoInv, NEW w \in Workers, NEW r \in Requests, LookUp(w, r)
    PROVE  MemoInv' /\ Separate /\ FirstStays
<1> DEFINE o == bound[w]
<1>1. o \in Owners /\ Sessions /\ Memos /\ Contexts
    BY DEF MemoInv, Contexts
<1>2. calls' \in Nat /\ calls' <= MaxCalls /\ UNCHANGED bound
    <2>1. calls < MaxCalls /\ calls' = calls + 1 /\ UNCHANGED bound /\ calls \in Nat
        BY <1>1 DEF LookUp, Contexts
    <2> QED BY <2>1, BoundsAssumption
<1>3. CASE Matching(entries[o], r) # {}
    <2> DEFINE h == Hit(o, r)
    <2>1. Use(o, h.memo) /\ Return(w, r, h.result)
        BY <1>3 DEF LookUp
    <2>2. /\ Sound(h.memo) /\ ToSet(h.memo.entries) = ToSet(entries[o])
          /\ h.result \in ToSet(entries[o]) /\ h.result \in Results /\ h.result.of = r
        BY <1>1, <1>3, HitSound
    <2> HIDE DEF h, o
    <2>3. /\ Sessions' /\ Memos' /\ entries'[o] = h.memo.entries
          /\ \A p \in Owners : p # o => entries'[p] = <<>> \/ entries'[p] = entries[p]
        BY <1>1, <2>1, <2>2, UseSound
    <2>4. Contexts' /\ (\A v \in Workers : v # w => answer'[v] = answer[v])
          /\ answer'[w].result = h.result
        BY <1>1, <1>2, <2>1, <2>2, Returned
    <2>5. \A p \in Owners : entries'[p] = <<>> \/ ToSet(entries'[p]) = ToSet(entries[p])
        BY <2>2, <2>3
    <2>6. \A v \in Workers : answer'[v] # answer[v] => answer'[v].result \in ToSet(entries'[bound[v]])
        BY <2>2, <2>3, <2>4 DEF o
    <2> QED BY <1>1, <2>3, <2>4, <2>5, <2>6, NothingNew DEF MemoInv, Separate
<1>4. CASE Matching(entries[o], r) = {}
    <2>1. Use(o, Kept(o)) /\ asked' = [asked EXCEPT ![w] = r] /\ UNCHANGED answer
        BY <1>4 DEF LookUp
    <2>2. Sound(Kept(o)) /\ Kept(o).entries = entries[o]
        BY <1>1 DEF Memos, Kept
    <2> HIDE DEF o
    <2>3. Sessions' /\ Memos' /\ \A p \in Owners : entries'[p] = <<>> \/ entries'[p] = entries[p]
        BY <1>1, <2>1, <2>2, UseSound
    <2>4. Contexts'
        BY <1>1, <1>2, <2>1 DEF Contexts, AnswersAreRight
    <2> QED BY <1>1, <2>1, <2>3, <2>4, NothingNew DEF MemoInv, Separate
<1> QED BY <1>3, <1>4

LEMMA StoreSound ==
    ASSUME MemoInv, NEW w \in Workers, Store(w)
    PROVE  MemoInv' /\ Separate /\ FirstStays
<1> DEFINE o == bound[w]
           r == asked[w]
<1>1. o \in Owners /\ r \in Requests /\ Sessions /\ Memos /\ Contexts
    BY DEF MemoInv, Contexts, Store
<1>2. calls' \in Nat /\ calls' <= MaxCalls /\ UNCHANGED bound
    BY <1>1 DEF Store, Contexts
<1>3. CASE Matching(entries[o], r) # {}
    <2> DEFINE h == Hit(o, r)
    <2>1. Use(o, h.memo) /\ Return(w, r, h.result)
        BY <1>3 DEF Store
    <2>2. /\ Sound(h.memo) /\ ToSet(h.memo.entries) = ToSet(entries[o])
          /\ h.result \in ToSet(entries[o]) /\ h.result \in Results /\ h.result.of = r
        BY <1>1, <1>3, HitSound
    <2> HIDE DEF h, o, r
    <2>3. /\ Sessions' /\ Memos' /\ entries'[o] = h.memo.entries
          /\ \A p \in Owners : p # o => entries'[p] = <<>> \/ entries'[p] = entries[p]
        BY <1>1, <2>1, <2>2, UseSound
    <2>4. Contexts' /\ (\A v \in Workers : v # w => answer'[v] = answer[v])
          /\ answer'[w].result = h.result
        BY <1>1, <1>2, <2>1, <2>2, Returned
    <2>5. \A p \in Owners : entries'[p] = <<>> \/ ToSet(entries'[p]) = ToSet(entries[p])
        BY <2>2, <2>3
    <2>6. \A v \in Workers : answer'[v] # answer[v] => answer'[v].result \in ToSet(entries'[bound[v]])
        BY <2>2, <2>3, <2>4 DEF o
    <2> QED BY <1>1, <2>3, <2>4, <2>5, <2>6, NothingNew DEF MemoInv, Separate
<1>4. CASE Matching(entries[o], r) = {}
    <2> DEFINE mine == [of |-> r, by |-> w]
               longer == Append(entries[o], mine)
               kept == IF Len(longer) > MaxEntries THEN Tail(longer) ELSE longer
               m == [entries |-> kept, stats |-> [stats[o] EXCEPT !.misses = @ + 1]]
    <2>1. Use(o, m) /\ Return(w, r, mine)
        BY <1>4 DEF Store
    <2>2. mine \in Results /\ mine.of = r /\ mine.by = w
        BY <1>1 DEF Results
    <2>3. entries[o] \in Seq(Results) /\ stats[o] \in Counts /\ Sound(Kept(o))
        BY <1>1 DEF Memos
    <2>4. \A e \in ToSet(entries[o]) : e.of # r
        <3>1. \A i \in 1 .. Len(entries[o]) : entries[o][i].of # r
            BY <1>4, <2>3 DEF Matching, SameKey
        <3> QED BY <2>3, <3>1, InSeq
    <2> HIDE DEF mine, o, r
    <2>5. /\ longer \in Seq(Results) /\ Len(longer) = Len(entries[o]) + 1
          /\ longer[Len(longer)] = mine
          /\ Distinct(longer) /\ ToSet(longer) = ToSet(entries[o]) \union {mine}
        <3>1. Distinct(entries[o]) /\ mine \notin ToSet(entries[o])
            BY <2>2, <2>3, <2>4 DEF Sound, Kept
        <3> QED BY <2>2, <2>3, <3>1, Appended
    <2> HIDE DEF longer
    <2>6. /\ kept \in Seq(Results) /\ Distinct(kept) /\ mine \in ToSet(kept)
          /\ ToSet(kept) \subseteq ToSet(entries[o]) \union {mine}
          /\ Len(kept) = IF Len(longer) > MaxEntries THEN Len(longer) - 1 ELSE Len(longer)
        <3>1. CASE Len(longer) > MaxEntries
            <4>1. Len(longer) > 1
                BY <2>5, <3>1, BoundsAssumption
            <4>2. longer[1] # mine
                BY <2>5, <4>1 DEF Distinct
            <4>3. /\ Tail(longer) \in Seq(Results) /\ Len(Tail(longer)) = Len(longer) - 1
                  /\ Distinct(Tail(longer)) /\ ToSet(Tail(longer)) = ToSet(longer) \ {longer[1]}
                BY <2>5, <4>1, FirstDropped
            <4> QED BY <2>5, <3>1, <4>2, <4>3
        <3>2. CASE ~ (Len(longer) > MaxEntries)
            BY <2>5, <3>2
        <3> QED BY <3>1, <3>2
    <2> HIDE DEF kept
    <2>7. m.stats \in Counts /\ m.stats.misses = stats[o].misses + 1 /\ m.entries = kept
        BY <2>3 DEF Counts
    <2>8. \A e, f \in ToSet(kept) : SameKey(e.of, f.of) => e = f
        <3>1. \A e, f \in ToSet(entries[o]) : SameKey(e.of, f.of) => e = f
            BY <2>3 DEF Sound, Kept
        <3> QED BY <2>2, <2>4, <2>6, <3>1 DEF SameKey
    <2>9. Len(kept) = IF m.stats.misses < MaxEntries THEN m.stats.misses ELSE MaxEntries
        <3>1. Len(entries[o]) = IF stats[o].misses < MaxEntries THEN stats[o].misses ELSE MaxEntries
            BY <2>3 DEF Sound, Kept
        <3>2. stats[o].misses \in Nat /\ MaxEntries \in Nat /\ MaxEntries >= 1
            BY <2>3, BoundsAssumption DEF Counts
        <3> QED BY <2>5, <2>6, <2>7, <3>1, <3>2
    <2> HIDE DEF m
    <2>10. Sound(m)
        BY <2>6, <2>7, <2>8, <2>9 DEF Sound
    <2>11. /\ Sessions' /\ Memos' /\ entries'[o] = kept
           /\ \A p \in Owners : p # o => entries'[p] = <<>> \/ entries'[p] = entries[p]
        BY <1>1, <2>1, <2>7, <2>10, UseSound
    <2>12. Contexts' /\ (\A v \in Workers : v # w => answer'[v] = answer[v])
           /\ answer'[w].result = mine
        BY <1>1, <1>2, <2>1, <2>2, Returned
    <2>13. ToSet(<<>>) = {}
        BY DEF ToSet
    <2>14. \A p \in Owners : \A e \in ToSet(entries'[p]) \ ToSet(entries[p]) : bound[e.by] = p
        BY <2>2, <2>6, <2>11, <2>13 DEF o
    <2>15. \A v \in Workers : answer'[v] # answer[v] => answer'[v].result \in ToSet(entries'[bound[v]])
        BY <2>6, <2>11, <2>12 DEF o
    <2>16. FirstStays
        <3>1. \A p \in Owners : \A e, f \in ToSet(entries[p]) : SameKey(e.of, f.of) => e = f
            BY <1>1 DEF Memos, Sound, Kept
        <3> QED BY <2>2, <2>4, <2>6, <2>11, <2>13, <3>1 DEF FirstStays, SameKey
    <2> QED BY <2>11, <2>12, <2>14, <2>15, <2>16 DEF MemoInv, Separate
<1> QED BY <1>3, <1>4

LEMMA FailSound ==
    ASSUME MemoInv, NEW w \in Workers, Fail(w)
    PROVE  MemoInv' /\ Separate /\ FirstStays
<1>1. Sessions' /\ Memos' /\ entries' = entries /\ answer' = answer
    BY DEF Fail, MemoInv, Sessions, Memos, Kept
<1>2. Contexts'
    BY DEF Fail, MemoInv, Contexts, AnswersAreRight
<1>3. Memos
    BY DEF MemoInv
<1> QED BY <1>1, <1>2, <1>3, NothingNew DEF MemoInv, Separate

LEMMA ReleaseSound ==
    ASSUME MemoInv, NEW t \in Threads, Release(t)
    PROVE  MemoInv' /\ Separate /\ FirstStays
<1>1. /\ order' = Without(order, t) /\ entries' = [entries EXCEPT ![t] = <<>>]
      /\ stats' = [stats EXCEPT ![t] = Blank] /\ UNCHANGED <<bound, asked, answer, used, calls>>
    BY DEF Release
<1>2. Sessions /\ Memos /\ t \in Owners
    BY DEF MemoInv, Owners
<1>3. /\ order' \in Seq(Threads) /\ Distinct(order') /\ ToSet(order') = ToSet(order) \ {t}
      /\ Len(order') = IF t \in ToSet(order) THEN Len(order) - 1 ELSE Len(order)
      /\ \A y, z : Before(order', y, z) => Before(order, y, z)
    BY <1>1, <1>2, WithoutIt DEF Sessions
<1>4. Sessions'
    <2>1. Len(order') <= MaxLive
        BY <1>2, <1>3, BoundsAssumption DEF Sessions
    <2> QED BY <1>1, <1>2, <1>3, <2>1 DEF Sessions
<1>5. /\ entries' \in [Owners -> Seq(Results)] /\ stats' \in [Owners -> Counts]
      /\ entries'[t] = <<>> /\ stats'[t] = Blank
      /\ \A p \in Owners : p # t => entries'[p] = entries[p] /\ stats'[p] = stats[p]
    BY <1>1, <1>2, BlankIsSound DEF Memos
<1>6. ASSUME NEW p \in Owners PROVE Sound(Kept(p))'
    <2>1. CASE p = t
        BY <1>5, <2>1, BlankIsSound DEF Sound, Kept, Dropped
    <2>2. CASE p # t
        BY <1>2, <1>5, <2>2 DEF Memos, Sound, Kept
    <2> QED BY <2>1, <2>2
<1>7. Memos'
    BY <1>2, <1>3, <1>5, <1>6 DEF Memos
<1>8. Contexts'
    BY <1>1 DEF MemoInv, Contexts, AnswersAreRight
<1>9. \A p \in Owners : entries'[p] = <<>> \/ entries'[p] = entries[p]
    BY <1>5
<1> QED BY <1>1, <1>2, <1>4, <1>7, <1>8, <1>9, NothingNew DEF MemoInv, Separate

LEMMA ClearSound ==
    ASSUME MemoInv, NEW w \in Workers, Clear(w)
    PROVE  MemoInv' /\ Separate /\ FirstStays
<1>1. /\ order' = <<>> /\ entries' = [o \in Owners |-> <<>>] /\ stats' = [o \in Owners |-> Blank]
      /\ bound' = [bound EXCEPT ![w] = Default] /\ UNCHANGED <<asked, answer, used, calls>>
    BY DEF Clear
<1>2. Sessions /\ Memos /\ Contexts
    BY DEF MemoInv
<1>3. Sessions'
    <2>1. ToSet(<<>>) = {} /\ Distinct(<<>>) /\ \A y, z : ~ Before(<<>>, y, z)
        BY DEF ToSet, Distinct, Before
    <2>2. <<>> \in Seq(Threads) /\ Len(<<>>) <= MaxLive
        BY BoundsAssumption
    <2> QED BY <1>1, <1>2, <2>1, <2>2 DEF Sessions
<1>4. Memos'
    <2>1. \A p \in Owners : Sound(Kept(p))'
        BY <1>1, BlankIsSound DEF Sound, Kept, Dropped
    <2>2. entries' \in [Owners -> Seq(Results)] /\ stats' \in [Owners -> Counts]
        BY <1>1, BlankIsSound
    <2> QED BY <1>1, <2>1, <2>2 DEF Memos
<1>5. Contexts'
    <2>1. Default \in Owners
        BY DEF Owners
    <2> QED BY <1>1, <1>2, <2>1 DEF Contexts, AnswersAreRight
<1>6. \A p \in Owners : entries'[p] = <<>>
    BY <1>1
<1> QED BY <1>1, <1>2, <1>3, <1>4, <1>5, <1>6, NothingNew DEF MemoInv, Separate

LEMMA MemoStep == MemoInv /\ [Next]_vars => MemoInv' /\ (UNCHANGED vars \/ (Separate /\ FirstStays))
<1> SUFFICES ASSUME MemoInv, [Next]_vars
             PROVE  MemoInv' /\ (UNCHANGED vars \/ (Separate /\ FirstStays))
    OBVIOUS
<1>1. CASE UNCHANGED vars
    <2>1. UNCHANGED <<order, entries, stats, bound, asked, answer, used, calls>>
        BY <1>1 DEF vars
    <2>2. MemoInv'
        BY <2>1 DEF MemoInv, Sessions, Memos, Contexts, AnswersAreRight, Kept
    <2> QED BY <1>1, <2>2
<1>2. CASE Next
    <2>1. CASE \E w \in Workers :
                   \/ \E o \in Owners : Bind(w, o)
                   \/ \E r \in Requests : LookUp(w, r)
                   \/ Store(w) \/ Fail(w) \/ Clear(w)
        BY <1>2, <2>1, BindSound, LookUpSound, StoreSound, FailSound, ClearSound
    <2>2. CASE \E t \in Threads : Release(t)
        BY <1>2, <2>2, ReleaseSound
    <2> QED BY <1>2, <2>1, <2>2 DEF Next
<1> QED BY <1>1, <1>2

LEMMA MemoInit == Init => MemoInv
<1> SUFFICES ASSUME Init PROVE MemoInv
    OBVIOUS
<1> USE DEF Init
<1>1. Sessions
    <2>1. ToSet(<<>>) = {} /\ Distinct(<<>>) /\ \A y, z : ~ Before(<<>>, y, z)
        BY DEF ToSet, Distinct, Before
    <2>2. <<>> \in Seq(Threads) /\ Len(<<>>) <= MaxLive
        BY BoundsAssumption
    <2> QED BY <2>1, <2>2 DEF Sessions
<1>2. Memos
    <2>1. \A p \in Owners : Sound(Kept(p))
        BY BlankIsSound DEF Sound, Kept, Dropped
    <2> QED BY <2>1, BlankIsSound DEF Memos
<1>3. Contexts
    BY BoundsAssumption DEF Contexts, AnswersAreRight, Owners
<1> QED BY <1>1, <1>2, <1>3 DEF MemoInv

LEMMA MemoRun == StoresSpec => []MemoInv
<1>1. StoresInit => MemoInv
    BY MemoInit DEF StoresInit
<1>2. [StoresNext]_<<part, vars, builds>> => [Next]_vars
    BY DEF StoresNext
<1>3. MemoInv /\ [StoresNext]_<<part, vars, builds>> => MemoInv'
    BY <1>2, MemoStep
<1> QED BY <1>1, <1>3, PTL DEF StoresSpec

\* The memos stay bounded and count truly, and every lookup answers for the
\* builds and the field it was asked about, for any caps, sessions and
\* contexts (_memo_get, _memo_put).
THEOREM MemosStayRight == StoresSpec => []MemosAreRight
<1>1. ASSUME MemoInv PROVE MemosAreRight
    <2>1. Sessions /\ Memos /\ Contexts
        BY <1>1 DEF MemoInv
    <2>2. IsInjective(order)
        BY <2>1 DEF Sessions, IsInjective, Distinct
    <2>3. \A o \in Owners : Len(entries[o]) <= MaxEntries /\ entries[o] \in Seq(Results)
                            /\ stats[o] \in Counts
        <3> SUFFICES ASSUME NEW o \in Owners PROVE Len(entries[o]) <= MaxEntries
            BY <2>1 DEF Memos
        <3>1. Len(entries[o]) = IF stats[o].misses < MaxEntries THEN stats[o].misses ELSE MaxEntries
            BY <2>1 DEF Memos, Sound, Kept
        <3>2. stats[o].misses \in Nat
            BY <2>1 DEF Memos, Counts
        <3> QED BY <3>1, <3>2, BoundsAssumption
    <2>4. TypeOK
        BY <2>1, <2>2, <2>3 DEF TypeOK, Sessions, Memos, Contexts, Counts
    <2>5. MissesAreInserts
        BY <2>1 DEF MissesAreInserts, Memos, Sound, Kept
    <2> QED BY <2>1, <2>4, <2>5 DEF MemosAreRight, Contexts
<1> QED BY <1>1, MemoRun, PTL

\* x and then all of s and y were used: as many positions come after x as s
\* is long.
LEMMA ManyAfter ==
    ASSUME NEW S, NEW s \in Seq(S), Distinct(s), Len(s) > 0,
           NEW u \in Seq(S), Distinct(u), NEW y, y \notin ToSet(s),
           \A k \in 2 .. Len(s) : Before(u, s[1], s[k]), Before(u, s[1], y)
    PROVE  Cardinality({i \in DOMAIN u : \E j \in DOMAIN u : u[j] = s[1] /\ i > j}) >= Len(s)
<1> DEFINE later == {i \in DOMAIN u : \E j \in DOMAIN u : u[j] = s[1] /\ i > j}
           who(k) == IF k = Len(s) THEN y ELSE s[k + 1]
           place(k) == CHOOSE i \in later : u[i] = who(k)
           f == [k \in 1 .. Len(s) |-> place(k)]
<1>1. ASSUME NEW k \in 1 .. Len(s) PROVE \E i \in later : u[i] = who(k)
    <2>1. Before(u, s[1], who(k))
        BY <1>1
    <2>2. PICK j, i \in 1 .. Len(u) : j < i /\ u[j] = s[1] /\ u[i] = who(k)
        BY <2>1 DEF Before
    <2>3. i \in later
        BY <2>2
    <2> QED BY <2>2, <2>3
<1>2. \A k \in 1 .. Len(s) : place(k) \in later /\ u[place(k)] = who(k)
    BY <1>1, Zenon
<1> HIDE DEF place
<1>3. \A k, l \in 1 .. Len(s) : who(k) = who(l) => k = l
    <2>1. \A k \in 1 .. Len(s) : s[k] \in ToSet(s)
        BY InSeq
    <2> QED BY <2>1 DEF Distinct
<1> HIDE DEF who, later
<1>4. f \in Injection(1 .. Len(s), later)
    <2>1. f \in [1 .. Len(s) -> later]
        BY <1>2
    <2>2. \A k, l \in 1 .. Len(s) : f[k] = f[l] => k = l
        BY <1>2, <1>3
    <2> QED BY <2>1, <2>2 DEF Injection, IsInjective
<1>5. IsFiniteSet(later)
    <2>1. later \subseteq 1 .. Len(u) /\ Len(u) \in Int /\ 1 \in Int
        BY DEF later
    <2>2. IsFiniteSet(1 .. Len(u))
        BY <2>1, FS_Interval, Zenon
    <2> QED BY <2>1, <2>2, FS_Subset
<1>6. Cardinality(1 .. Len(s)) = Len(s)
    <2>1. 1 \in Int /\ Len(s) \in Int
        OBVIOUS
    <2>2. Cardinality(1 .. Len(s)) = IF 1 > Len(s) THEN 0 ELSE Len(s) - 1 + 1
        BY <2>1, FS_Interval, Zenon
    <2> QED BY <2>2
<1>7. Cardinality(1 .. Len(s)) <= Cardinality(later)
    BY <1>4, <1>5, FS_Injection
<1>8. Cardinality(later) \in Nat /\ Len(s) \in Nat
    BY <1>5, FS_CardinalityType
<1>9. Cardinality(later) >= Len(s)
    BY <1>6, <1>7, <1>8
<1> QED BY <1>9 DEF later

InTurn ==
    \A t \in Threads :
        Resident(t) /\ t \notin ToSet(order') =>
            \/ Release(t) \/ \E w \in Workers : Clear(w)
            \/ Cardinality({i \in DOMAIN used' : \E j \in DOMAIN used' :
                                used'[j] = t /\ i > j}) >= MaxLive

LEMMA TurnKept == MemoInv /\ [Next]_vars => InTurn
<1> SUFFICES ASSUME MemoInv, [Next]_vars, NEW t \in Threads, t \in ToSet(order), t \notin ToSet(order'),
                    ~ Release(t), \A w \in Workers : ~ Clear(w)
             PROVE  Cardinality({i \in DOMAIN used' : \E j \in DOMAIN used' :
                                     used'[j] = t /\ i > j}) >= MaxLive
    BY DEF InTurn, Resident
<1>1. Sessions
    BY DEF MemoInv
<1>2. PICK o \in Threads : order' = Touched(o) /\ used' = ToEnd(used, o)
    <2>1. ASSUME NEW p \in Owners, NEW mine, Use(p, mine)
          PROVE  \E o \in Threads : order' = Touched(o) /\ used' = ToEnd(used, o)
        <3>1. p # Default => order' = Touched(p) /\ used' = ToEnd(used, p)
            BY <2>1, Zenon DEF Use
        <3>2. p = Default => order' = order
            BY <2>1, Zenon DEF Use
        <3> QED BY <3>1, <3>2 DEF Owners
    <2>2. ASSUME NEW w \in Workers, NEW p \in Owners, Bind(w, p)
          PROVE  \E o \in Threads : order' = Touched(o) /\ used' = ToEnd(used, o)
        <3>1. p # Default
            BY <2>2 DEF Bind
        <3> QED BY <2>1, <2>2, <3>1 DEF Bind
    <2>3. \A w \in Workers : bound[w] \in Owners
        BY DEF MemoInv, Contexts
    <2>4. ASSUME NEW w \in Workers, NEW r \in Requests, LookUp(w, r)
          PROVE  \E o \in Threads : order' = Touched(o) /\ used' = ToEnd(used, o)
        BY <2>1, <2>3, <2>4 DEF LookUp
    <2>5. ASSUME NEW w \in Workers, Store(w)
          PROVE  \E o \in Threads : order' = Touched(o) /\ used' = ToEnd(used, o)
        BY <2>1, <2>3, <2>5 DEF Store
    <2>6. ASSUME NEW w \in Workers, Fail(w) PROVE FALSE
        BY <2>6 DEF Fail
    <2>7. ASSUME NEW r \in Threads, Release(r) PROVE FALSE
        <3>1. order' = Without(order, r) /\ r # t
            BY <2>7 DEF Release
        <3>2. ToSet(order') = ToSet(order) \ {r}
            BY <1>1, <3>1, WithoutIt DEF Sessions
        <3> QED BY <3>1, <3>2
    <2>8. order' # order
        OBVIOUS
    <2> QED BY <2>2, <2>4, <2>5, <2>6, <2>7, <2>8 DEF Next, vars
<1>3. o \notin ToSet(order) /\ Len(order) = MaxLive /\ t = order[1]
    BY <1>1, <1>2, TouchedInOrder
<1>4. /\ order \in Seq(Threads) /\ Distinct(order) /\ used \in Seq(Threads) /\ Distinct(used)
      /\ ToSet(order) \subseteq ToSet(used)
      /\ \A y, z : Before(order, y, z) => Before(used, y, z)
    BY <1>1 DEF Sessions
<1>5. Len(order) > 0
    BY <1>3, BoundsAssumption
<1>6. \A k \in 1 .. Len(order) : order[k] \in ToSet(order) /\ order[k] # o
    BY <1>3, <1>4, InSeq
<1>7. \A k \in 2 .. Len(order) : Before(order, order[1], order[k])
    BY <1>4, <1>5 DEF Before
<1> DEFINE u == ToEnd(used, o)
<1>8. /\ u \in Seq(Threads) /\ Distinct(u)
      /\ \A y, z : Before(used, y, z) /\ y # o /\ z # o => Before(u, y, z)
      /\ \A y \in ToSet(used) \ {o} : Before(u, y, o)
    BY <1>4, MovedToEnd
<1> HIDE DEF u
<1>9. \A k \in 2 .. Len(order) : Before(u, order[1], order[k])
    BY <1>4, <1>5, <1>6, <1>7, <1>8
<1>10. Before(u, order[1], o)
    BY <1>4, <1>5, <1>6, <1>8
<1>11. Cardinality({i \in DOMAIN u : \E j \in DOMAIN u : u[j] = order[1] /\ i > j}) >= Len(order)
    BY <1>3, <1>4, <1>5, <1>8, <1>9, <1>10, ManyAfter
<1> QED BY <1>2, <1>3, <1>11 DEF u

\* Sessions are never mixed, a memo is dropped only after MaxLive other
\* sessions were used, and the first result of a key stays, for any caps
\* (_ensure_thread_memo, _memo_put).
THEOREM MemosStayKept == StoresSpec => MemosAreKept
<1>1. [StoresNext]_<<part, vars, builds>> => [Next]_vars
    BY DEF StoresNext
<1>2. MemoInv /\ [StoresNext]_<<part, vars, builds>> =>
        [Separate]_vars /\ [InTurn]_vars /\ [FirstStays]_vars
    BY <1>1, MemoStep, TurnKept
<1>3. StoresSpec => [][Separate]_vars /\ [][InTurn]_vars /\ [][FirstStays]_vars
    BY <1>2, MemoRun, PTL DEF StoresSpec
<1>4. [][Separate]_vars => SessionsAreSeparate
    BY DEF SessionsAreSeparate, Separate
<1>5. [][InTurn]_vars => DroppedInTurn
    BY DEF DroppedInTurn, InTurn
<1>6. [][FirstStays]_vars => FirstResultStays
    BY DEF FirstResultStays, FirstStays
<1> QED BY <1>3, <1>4, <1>5, <1>6 DEF MemosAreKept

-----------------------------------------------------------------------------
(* The files of resolved builds (ResolvedBuilds).  Nothing locks a file,   *)
(* so what a writer saw when it decided has to be true when it writes: with *)
(* one writer at a time the rows do not change under it.                   *)

Jobs == [pc : {"put", "write"}, file : Resolved!Files, key : Keys, row : Resolved!Rows,
         seen : [Keys -> Resolved!Rows \union {None}] \union {None}]

File == [Keys -> Resolved!Rows \union {None}]

\* new may take old's place.
Succeeds(old, new) ==
    Resolved!IsWriteup(old) /\ ~old.thin /\ new # old =>
        /\ old.src = "native" => new.src \in {"native", "computed"}
        /\ old.src = "primary" => new.src # "secondary"

\* What the writer is about to put still fits the file it will put it in.
JobFits(j) ==
    LET old == rows[j.file][j.key]
    IN /\ j.row.nature = None
       /\ j.row.src # "computed" => j.file \in Resolved!FetchedFor(j.row.src)
       /\ Succeeds(old, j.row)
       /\ j.pc = "write" => /\ j.seen = rows[j.file]
                            /\ Resolved!Present(old) /\ old.verified => j.row.verified

WritersKeepToFiles ==
    \A f \in Resolved!Files, k \in Keys :
        Resolved!IsWriteup(rows[f][k]) => f \in Resolved!FetchedFor(rows[f][k].src)

BuildsInv ==
    /\ rows \in [Resolved!Files -> File]
    /\ WritersKeepToFiles
    /\ Resolved!NatureFitsSpread
    /\ job \in [{Writer} -> Jobs \union {None}]
    /\ job[Writer] # None => JobFits(job[Writer])

\* Nothing else of the invariant depends on the files.
LEMMA PutFits ==
    ASSUME BuildsInv, NEW f \in Resolved!Files, NEW k \in Keys, NEW row \in Resolved!Rows,
           Resolved!Put(Writer, f, k, row), UNCHANGED rows,
           row.nature = None, row.src # "computed" => f \in Resolved!FetchedFor(row.src),
           Succeeds(rows[f][k], row)
    PROVE  BuildsInv'
<1> DEFINE j == [pc |-> "put", file |-> f, key |-> k, row |-> row, seen |-> None]
<1>1. job' = [job EXCEPT ![Writer] = j] /\ job \in [{Writer} -> Jobs \union {None}]
    BY DEF Resolved!Put, BuildsInv
<1>2. j \in Jobs
    BY DEF Jobs
<1>3. job' \in [{Writer} -> Jobs \union {None}] /\ job'[Writer] = j
    BY <1>1, <1>2
<1>4. JobFits(j)'
    BY DEF JobFits, Succeeds
<1> QED BY <1>3, <1>4 DEF BuildsInv, WritersKeepToFiles, Resolved!NatureFitsSpread,
               Resolved!Present, Resolved!IsWriteup

LEMMA RecommendSound ==
    ASSUME BuildsInv, NEW f \in Resolved!Files, NEW k \in Keys, Resolved!Recommend(Writer, f, k)
    PROVE  BuildsInv'
<1>1. PICK adapted \in Keys, s \in Spreads, calc \in BOOLEAN, confirmed \in BOOLEAN :
        Resolved!Put(Writer, f, adapted,
                     [src |-> "computed", thin |-> TRUE, spread |-> s, nature |-> None,
                      verified |-> calc, confirmed |-> confirmed])
    BY DEF Resolved!Recommend
<1> DEFINE row == [src |-> "computed", thin |-> TRUE, spread |-> s, nature |-> None,
                   verified |-> calc, confirmed |-> confirmed]
<1>2. row \in Resolved!Rows /\ row.nature = None /\ row.src = "computed"
    BY DEF Resolved!Rows, Resolved!Sources
<1>3. Succeeds(rows[f][adapted], row)
    BY <1>2 DEF Succeeds
<1>4. UNCHANGED rows /\ Resolved!Put(Writer, f, adapted, row)
    BY <1>1 DEF Resolved!Recommend
<1> HIDE DEF row
<1> QED BY <1>2, <1>3, <1>4, PutFits

LEMMA WriteupSound ==
    ASSUME BuildsInv, NEW f \in Resolved!Files, NEW k \in Keys,
           NEW src \in Resolved!Sources \ {"computed"}, Resolved!Writeup(Writer, f, k, src)
    PROVE  BuildsInv'
<1>1. PICK thin \in BOOLEAN, s \in Spreads \union {Short} :
        Resolved!Put(Writer, f, k,
                     [src |-> src, thin |-> thin, spread |-> s, nature |-> None,
                      verified |-> FALSE, confirmed |-> FALSE])
    BY DEF Resolved!Writeup
<1> DEFINE row == [src |-> src, thin |-> thin, spread |-> s, nature |-> None,
                   verified |-> FALSE, confirmed |-> FALSE]
<1>2. row \in Resolved!Rows /\ row.nature = None /\ row.src = src
    BY DEF Resolved!Rows
<1>3. UNCHANGED rows /\ f \in Resolved!FetchedFor(src) /\ (src # "native" => ~ Resolved!HasNative)
      /\ Resolved!MayReplace(src, rows[f][k])
    BY DEF Resolved!Writeup
<1>4. Succeeds(rows[f][k], row)
    BY <1>2, <1>3 DEF Succeeds, Resolved!HasNative, Resolved!MayReplace, Resolved!Sources,
                      Resolved!IsWriteup, Resolved!FetchedFor
<1>5. Resolved!Put(Writer, f, k, row)
    BY <1>1
<1> HIDE DEF row
<1> QED BY <1>2, <1>3, <1>4, <1>5, PutFits

LEMMA RefreshSound ==
    ASSUME BuildsInv, NEW k \in Keys, Resolved!Refresh(Writer, k)
    PROVE  BuildsInv'
<1> DEFINE old == rows["mb"][k]
<1>1. PICK s \in Spreads :
        Resolved!Put(Writer, "mb", k,
                     [old EXCEPT !.spread = s, !.nature = None, !.verified = FALSE])
    BY DEF Resolved!Refresh
<1> DEFINE row == [old EXCEPT !.spread = s, !.nature = None, !.verified = FALSE]
<1>2. UNCHANGED rows /\ Resolved!IsWriteup(old) /\ old \in Resolved!Rows
    BY DEF Resolved!Refresh, BuildsInv, File, Resolved!Files, Resolved!IsWriteup,
           Resolved!Present
<1>3. row.src = old.src /\ row.nature = None /\ row \in Resolved!Rows
    BY <1>2 DEF Resolved!Rows
<1>4. Succeeds(old, row)
    BY <1>3 DEF Succeeds
<1>5. Resolved!Put(Writer, "mb", k, row)
    BY <1>1
<1> HIDE DEF row, old
<1> QED BY <1>2, <1>3, <1>4, <1>5, PutFits DEF old, Resolved!Files, Resolved!FetchedFor

\* The row is decided on when the file is read again: the file does not
\* change between that and the write.
LEMMA LoadSound == ASSUME BuildsInv, Resolved!Load(Writer) PROVE BuildsInv'
<1> DEFINE j == job[Writer]
           old == rows[j.file][j.key]
           new == [j EXCEPT !.pc = "write", !.seen = rows[j.file]]
<1>1. j \in Jobs /\ JobFits(j) /\ job \in [{Writer} -> Jobs \union {None}] /\ UNCHANGED rows
    BY DEF Resolved!Load, Resolved!At, BuildsInv
<1>2. rows[j.file] \in File
    BY <1>1 DEF BuildsInv, Jobs
<1>3. new \in Jobs /\ new.file = j.file /\ new.key = j.key /\ new.row = j.row
      /\ new.pc = "write" /\ new.seen = rows[j.file]
    BY <1>1, <1>2 DEF Jobs, File
<1>4. PICK n \in Jobs : n = new
    BY <1>3
<1>5. CASE Resolved!Present(old) /\ old.verified /\ ~ j.row.verified
    <2>1. job' = [job EXCEPT ![Writer] = None]
        BY <1>5 DEF Resolved!Load
    <2>2. job' \in [{Writer} -> Jobs \union {None}] /\ job'[Writer] = None
        BY <1>1, <2>1
    <2> QED BY <1>1, <2>2 DEF BuildsInv, WritersKeepToFiles, Resolved!NatureFitsSpread,
               Resolved!Present, Resolved!IsWriteup
<1>6. CASE ~ (Resolved!Present(old) /\ old.verified /\ ~ j.row.verified)
    <2>1. job' = [job EXCEPT ![Writer] = new]
        BY <1>6 DEF Resolved!Load
    <2>2. job' \in [{Writer} -> Jobs \union {None}] /\ job'[Writer] = n
        BY <1>1, <1>4, <2>1
    <2>3. JobFits(n)'
        <3> HIDE DEF new, j
        <3> QED BY <1>1, <1>3, <1>4, <1>6 DEF JobFits, Succeeds, Resolved!IsWriteup, Resolved!Present
    <2> HIDE DEF new, j
    <2> QED BY <1>1, <2>2, <2>3 DEF BuildsInv, WritersKeepToFiles, Resolved!NatureFitsSpread,
               Resolved!Present, Resolved!IsWriteup
<1> QED BY <1>5, <1>6

\* What a write leaves in the file it writes.
LEMMA Written ==
    ASSUME BuildsInv, Resolved!Write(Writer)
    PROVE  LET j == job[Writer]
           IN /\ j \in Jobs /\ j.pc = "write" /\ JobFits(j)
              /\ rows' \in [Resolved!Files -> File]
              /\ \A f \in Resolved!Files, k \in Keys :
                    rows'[f][k] = IF f = j.file /\ k = j.key THEN j.row ELSE rows[f][k]
              /\ job' \in [{Writer} -> Jobs \union {None}] /\ job'[Writer] = None
<1> DEFINE j == job[Writer]
           file == [j.seen EXCEPT ![j.key] = j.row]
<1>1. j \in Jobs /\ j.pc = "write" /\ JobFits(j) /\ job \in [{Writer} -> Jobs \union {None}]
    BY DEF Resolved!Write, Resolved!At, BuildsInv
<1>2. rows \in [Resolved!Files -> File] /\ j.seen = rows[j.file] /\ j.file \in Resolved!Files
      /\ j.key \in Keys /\ j.row \in Resolved!Rows
    BY <1>1 DEF JobFits, BuildsInv, Jobs
<1>3. rows' = [rows EXCEPT ![j.file] = file] /\ job' = [job EXCEPT ![Writer] = None]
    BY DEF Resolved!Write
<1>4. file \in File /\ \A k \in Keys : file[k] = IF k = j.key THEN j.row ELSE rows[j.file][k]
    <2> HIDE DEF j
    <2> QED BY <1>2 DEF File
<1>5. rows' \in [Resolved!Files -> File] /\ rows'[j.file] = file
      /\ \A f \in Resolved!Files : f # j.file => rows'[f] = rows[f]
    <2> HIDE DEF j, file
    <2> QED BY <1>2, <1>3, <1>4
<1>6. job' \in [{Writer} -> Jobs \union {None}] /\ job'[Writer] = None
    BY <1>1, <1>3
<1> HIDE DEF file, j
<1> QED BY <1>1, <1>4, <1>5, <1>6 DEF j

LEMMA WriteSound == ASSUME BuildsInv, Resolved!Write(Writer) PROVE BuildsInv'
<1> DEFINE j == job[Writer]
<1>1. j \in Jobs /\ JobFits(j) /\ rows' \in [Resolved!Files -> File]
      /\ job' \in [{Writer} -> Jobs \union {None}] /\ job'[Writer] = None
    BY Written
<1>2. \A f \in Resolved!Files, k \in Keys :
        rows'[f][k] = IF f = j.file /\ k = j.key THEN j.row ELSE rows[f][k]
    BY Written
<1> HIDE DEF j
<1>3. WritersKeepToFiles'
    BY <1>1, <1>2 DEF BuildsInv, JobFits, WritersKeepToFiles, Resolved!IsWriteup, Resolved!Present
<1>4. Resolved!NatureFitsSpread'
    BY <1>1, <1>2 DEF BuildsInv, JobFits, Resolved!NatureFitsSpread, Resolved!Present
<1> QED BY <1>1, <1>3, <1>4 DEF BuildsInv

\* What a maintainer's edit leaves.
LEMMA Tied ==
    ASSUME BuildsInv, NEW g \in Resolved!Files, NEW k \in Keys, Resolved!TieNature(g, k)
    PROVE  LET old == rows[g][k]
               new == [old EXCEPT !.nature = old.spread]
           IN /\ old \in Resolved!Rows /\ new \in Resolved!Rows
              /\ new.src = old.src /\ new.verified = old.verified /\ new.thin = old.thin
              /\ new.nature = new.spread
              /\ rows' \in [Resolved!Files -> File]
              /\ \A f \in Resolved!Files, l \in Keys :
                    rows'[f][l] = IF f = g /\ l = k THEN new ELSE rows[f][l]
<1> DEFINE old == rows[g][k]
           new == [old EXCEPT !.nature = old.spread]
<1>1. rows \in [Resolved!Files -> File] /\ old \in Resolved!Rows
    BY DEF Resolved!TieNature, BuildsInv, File, Resolved!Files, Resolved!IsWriteup,
           Resolved!Present
<1>2. new \in Resolved!Rows /\ new.src = old.src /\ new.verified = old.verified
      /\ new.thin = old.thin /\ new.nature = new.spread
    BY <1>1 DEF Resolved!Rows
<1>3. rows' = [rows EXCEPT ![g] = [rows[g] EXCEPT ![k] = new]]
    BY DEF Resolved!TieNature
<1>5. [rows[g] EXCEPT ![k] = new] \in File
      /\ \A l \in Keys : [rows[g] EXCEPT ![k] = new][l] = IF l = k THEN new ELSE rows[g][l]
    <2> HIDE DEF new, old
    <2> QED BY <1>1, <1>2 DEF File
<1>6. rows' \in [Resolved!Files -> File]
      /\ \A f \in Resolved!Files, l \in Keys :
            rows'[f][l] = IF f = g /\ l = k THEN new ELSE rows[f][l]
    <2> HIDE DEF new, old
    <2> QED BY <1>1, <1>3, <1>5
<1> QED BY <1>1, <1>2, <1>6

LEMMA TieNatureSound ==
    ASSUME BuildsInv, NEW g \in Resolved!Files, NEW k \in Keys, Resolved!TieNature(g, k)
    PROVE  BuildsInv'
<1> DEFINE new == [rows[g][k] EXCEPT !.nature = rows[g][k].spread]
<1>1. job[Writer] = None /\ UNCHANGED job
    BY DEF Resolved!TieNature
<1>2. /\ rows' \in [Resolved!Files -> File] /\ new.nature = new.spread
      /\ new.src = rows[g][k].src /\ Resolved!IsWriteup(rows[g][k])
    BY Tied DEF Resolved!TieNature
<1>3. \A f \in Resolved!Files, l \in Keys :
        rows'[f][l] = IF f = g /\ l = k THEN new ELSE rows[f][l]
    BY Tied
<1> HIDE DEF new
<1>4. WritersKeepToFiles'
    BY <1>2, <1>3 DEF BuildsInv, WritersKeepToFiles, Resolved!IsWriteup, Resolved!Present
<1>5. Resolved!NatureFitsSpread'
    BY <1>2, <1>3 DEF BuildsInv, WritersKeepToFiles, Resolved!NatureFitsSpread,
               Resolved!Present, Resolved!IsWriteup
<1> QED BY <1>1, <1>2, <1>4, <1>5 DEF BuildsInv

LEMMA BuildsStep == BuildsInv /\ [Resolved!Next]_builds => BuildsInv'
<1> SUFFICES ASSUME BuildsInv, [Resolved!Next]_builds PROVE BuildsInv'
    OBVIOUS
<1>1. CASE UNCHANGED builds
    BY <1>1 DEF builds, BuildsInv, WritersKeepToFiles, JobFits, Succeeds, Resolved!NatureFitsSpread,
                Resolved!Present, Resolved!IsWriteup
<1>2. CASE Resolved!Next
    BY <1>2, RecommendSound, WriteupSound, RefreshSound, LoadSound, WriteSound, TieNatureSound,
           BuildsAssumption
       DEF Resolved!Next
<1> QED BY <1>1, <1>2

LEMMA BuildsInit == Resolved!Init => BuildsInv
BY DEF Resolved!Init, BuildsInv, WritersKeepToFiles, File, Resolved!Files,
       Resolved!NatureFitsSpread, Resolved!IsWriteup, Resolved!Present

\* The part of a behaviour that is not its own changes nothing in the files.
LEMMA BuildsPart == [StoresNext]_<<part, vars, builds>> => [Resolved!Next]_builds
BY DEF StoresNext, builds

LEMMA BuildsRun == StoresSpec => []BuildsInv
<1>1. StoresInit => BuildsInv
    BY BuildsInit DEF StoresInit
<1>2. BuildsInv /\ [StoresNext]_<<part, vars, builds>> => BuildsInv'
    BY BuildsStep, BuildsPart
<1> QED BY <1>1, <1>2, PTL DEF StoresSpec

\* The files stay well typed and no writer leaves a nature beside a spread it
\* was not tied to, for any builds and spreads (put_resolved_build).
THEOREM BuildsStaySound == StoresSpec => []BuildsAreSound
<1>1. BuildsInv => BuildsAreSound
    BY DEF BuildsInv, WritersKeepToFiles, BuildsAreSound, Resolved!TypeOK, File, Jobs
<1> QED BY <1>1, BuildsRun, PTL

\* A row that changes becomes a row that may take its place.
LEMMA RowsChange ==
    ASSUME BuildsInv, [Resolved!Next]_builds, NEW f \in Resolved!Files, NEW k \in Keys,
           rows'[f][k] # rows[f][k]
    PROVE  /\ rows'[f][k] \in Resolved!Rows
           /\ rows[f][k] # None /\ rows[f][k].verified => rows'[f][k].verified
           /\ Succeeds(rows[f][k], rows'[f][k])
<1>1. CASE Resolved!Write(Writer)
    <2> DEFINE j == job[Writer]
    <2>1. j \in Jobs /\ j.pc = "write" /\ JobFits(j) /\ f = j.file /\ k = j.key
          /\ rows'[f][k] = j.row
        BY <1>1, Written
    <2> HIDE DEF j
    <2> QED BY <2>1 DEF JobFits, Jobs, Resolved!Present
<1>2. ASSUME NEW g \in Resolved!Files, NEW l \in Keys, Resolved!TieNature(g, l)
      PROVE  /\ rows'[f][k] \in Resolved!Rows
             /\ rows[f][k] # None /\ rows[f][k].verified => rows'[f][k].verified
             /\ Succeeds(rows[f][k], rows'[f][k])
    <2> DEFINE old == rows[g][l]
               new == [old EXCEPT !.nature = old.spread]
    <2>1. new \in Resolved!Rows /\ new.src = old.src /\ new.verified = old.verified
        BY <1>2, Tied
    <2>2. f = g /\ k = l /\ rows'[f][k] = new
        BY <1>2, Tied
    <2> HIDE DEF new
    <2> QED BY <2>1, <2>2 DEF Succeeds
<1>3. UNCHANGED rows \/ Resolved!Write(Writer)
      \/ \E g \in Resolved!Files, l \in Keys : Resolved!TieNature(g, l)
    BY DEF Resolved!Next, Resolved!Recommend, Resolved!Writeup, Resolved!Refresh, Resolved!Load,
           builds
<1> QED BY <1>1, <1>2, <1>3

\* No writer replaces a verified row or one that says more, and what can be
\* looked up stays so, for any builds and spreads (put_resolved_build,
\* put_writeup, get_resolved_build).
THEOREM RowsOnlyGetBetter == StoresSpec => RowsOnlyImprove
<1> DEFINE kept ==
        \A f \in Resolved!Files, k \in Keys :
            Resolved!Present(rows[f][k]) /\ rows[f][k].verified =>
                Resolved!Present(rows'[f][k]) /\ rows'[f][k].verified
<1> DEFINE substance ==
        \A f \in Resolved!Files, k \in Keys :
            LET old == rows[f][k]
                new == rows'[f][k]
            IN Resolved!IsWriteup(old) /\ ~old.thin /\ new # old =>
                /\ old.src = "native" => new.src \in {"native", "computed"}
                /\ old.src = "primary" => new.src # "secondary"
<1> DEFINE knowledge ==
        \A f \in Resolved!Files, k \in Keys :
            Resolved!Lookup(f, k) # None => Resolved!Lookup(f, k)' # None
<1>1. BuildsInv /\ [Resolved!Next]_builds => kept
    BY RowsChange, BuildsAssumption DEF Resolved!Present
<1>2. BuildsInv /\ [Resolved!Next]_builds => substance
    BY RowsChange DEF Succeeds
<1>3. BuildsInv /\ [Resolved!Next]_builds => knowledge
    <2> SUFFICES ASSUME BuildsInv, [Resolved!Next]_builds, NEW f \in Resolved!Files, NEW k \in Keys,
                        Resolved!Lookup(f, k) # None
                 PROVE  Resolved!Lookup(f, k)' # None
        OBVIOUS
    <2>1. \A g \in Resolved!Files : rows[g][k] # None => rows'[g][k] # None
        BY RowsChange, BuildsAssumption
    <2> QED BY <2>1 DEF Resolved!Lookup, Resolved!Files
<1>4. BuildsInv /\ [StoresNext]_<<part, vars, builds>> =>
        [kept]_builds /\ [substance]_builds /\ [knowledge]_builds
    BY <1>1, <1>2, <1>3, BuildsPart
<1>5. StoresSpec => [][kept]_builds /\ [][substance]_builds /\ [][knowledge]_builds
    BY <1>4, BuildsRun, PTL DEF StoresSpec
<1> QED BY <1>5 DEF RowsOnlyImprove, Resolved!VerifiedRowsStay, Resolved!SubstanceStays,
                    Resolved!KnowledgeStays, Resolved!vars, builds
=============================================================================
