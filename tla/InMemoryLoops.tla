---------------------------- MODULE InMemoryLoops ----------------------------
(***************************************************************************)
(* What loops of the in-memory repository and of its provider do as a      *)
(* whole.  A deletion takes one row for each entry of its ledger, and      *)
(* nothing else, for every ledger and whatever is in the tables: that its  *)
(* order has every entry once is counted, the rest is an induction over    *)
(* the entries.  And the relations of an orderly contract, resolved one    *)
(* after the other, leave a dataset that is accepted.                      *)
(***************************************************************************)
EXTENDS InMemoryProofs

-----------------------------------------------------------------------------
(* The order of a deletion has every entry of the ledger, once *)

Precedes(v, w) == v.rank < w.rank \/ (v.rank = w.rank /\ v.ordinal > w.ordinal)

\* How many entries come before this one.
Place(entries, w) == Cardinality({v \in entries : Precedes(v, w)})

\* Entries are distinct, and there are no more than the ledger is long.
LEMMA EntriesAreDistinct ==
  ASSUME NEW ledger, IsLedger(ledger)
  PROVE  /\ \A v, w \in Range(ledger) : v.ordinal = w.ordinal => v = w
         /\ \A w \in Range(ledger) : w.rank \in Int /\ w.ordinal \in Int
         /\ IsFiniteSet(Range(ledger)) /\ Cardinality(Range(ledger)) <= Len(ledger)
<1> DEFINE n == Len(ledger)
           entries == Range(ledger)
<1>1. n \in Nat /\ DOMAIN ledger = 1 .. n /\ ledger = [i \in 1 .. n |-> ledger[i]]
  BY DEF IsLedger
<1>2. \A i \in 1 .. n : ledger[i].rank \in Int /\ ledger[i].ordinal = i - 1
  BY <1>1 DEF IsLedger
<1>3. \A w \in entries : \E i \in 1 .. n : w = ledger[i]
  BY <1>1 DEF Range
<1>4. \A i \in 1 .. n : ledger[i] \in entries
  BY <1>1 DEF Range
<1> HIDE DEF n, entries
<1>5. ledger \in Surjection(1 .. n, entries)
  BY <1>1, <1>3, <1>4 DEF Surjection
<1>6. IsFiniteSet(1 .. n) /\ Cardinality(1 .. n) = n
  BY <1>1, FS_Interval
<1>7. IsFiniteSet(entries) /\ Cardinality(entries) <= n
  BY <1>5, <1>6, FS_Surjection
<1>8. \A v, w \in entries : v.ordinal = w.ordinal => v = w
  <2> SUFFICES ASSUME NEW v \in entries, NEW w \in entries, v.ordinal = w.ordinal
               PROVE  v = w
    OBVIOUS
  <2>1. PICK i \in 1 .. n : v = ledger[i]
    BY <1>3
  <2>2. PICK j \in 1 .. n : w = ledger[j]
    BY <1>3
  <2>3. i - 1 = j - 1
    BY <1>2, <2>1, <2>2
  <2> QED
    BY <2>1, <2>2, <2>3
<1>9. \A w \in entries : w.rank \in Int /\ w.ordinal \in Int
  BY <1>2, <1>3
<1> QED
  BY <1>7, <1>8, <1>9 DEF n, entries

\* An entry that precedes another has fewer before it.
LEMMA PlacesAreDistinct ==
  ASSUME NEW ledger, IsLedger(ledger)
  PROVE  /\ \A w \in Range(ledger) : Place(Range(ledger), w) \in 0 .. Len(ledger) - 1
         /\ \A v, w \in Range(ledger) :
               /\ Place(Range(ledger), v) = Place(Range(ledger), w) => v = w
               /\ Precedes(v, w) => Place(Range(ledger), v) < Place(Range(ledger), w)
<1> DEFINE n == Len(ledger)
           entries == Range(ledger)
           Earlier(w) == {v \in entries : Precedes(v, w)}
<1>1. /\ \A v, w \in entries : v.ordinal = w.ordinal => v = w
      /\ \A w \in entries : w.rank \in Int /\ w.ordinal \in Int
      /\ IsFiniteSet(entries) /\ Cardinality(entries) <= n
  BY EntriesAreDistinct
<1>2. n \in Nat
  BY DEF IsLedger
<1> HIDE DEF n, entries
<1>3. ASSUME NEW w \in entries
      PROVE  /\ IsFiniteSet(Earlier(w)) /\ w \notin Earlier(w)
             /\ Cardinality(Earlier(w)) \in 0 .. n - 1
  <2>1. w \notin Earlier(w)
    BY <1>1 DEF Precedes
  <2>2. Earlier(w) \in SUBSET (entries \ {w})
    BY <2>1
  <2>3. /\ IsFiniteSet(entries \ {w}) /\ Cardinality(entries \ {w}) = Cardinality(entries) - 1
        /\ Cardinality(entries) \in Nat
    BY <1>1, FS_RemoveElement, FS_CardinalityType
  <2>4. /\ IsFiniteSet(Earlier(w)) /\ Cardinality(Earlier(w)) \in Nat
        /\ Cardinality(Earlier(w)) <= Cardinality(entries \ {w})
    BY <2>2, <2>3, FS_Subset, FS_CardinalityType
  <2> HIDE DEF Earlier
  <2> QED
    BY <1>1, <1>2, <2>1, <2>3, <2>4
<1>4. ASSUME NEW v \in entries, NEW w \in entries, Precedes(v, w)
      PROVE  Cardinality(Earlier(v)) < Cardinality(Earlier(w))
  <2>1. \A u \in entries : Precedes(u, v) => Precedes(u, w)
    BY <1>1, <1>4 DEF Precedes
  <2>2. Earlier(v) \cup {v} \in SUBSET Earlier(w)
    BY <1>4, <2>1
  <2>3. /\ IsFiniteSet(Earlier(v)) /\ v \notin Earlier(v) /\ Cardinality(Earlier(v)) \in 0 .. n - 1
        /\ IsFiniteSet(Earlier(w)) /\ Cardinality(Earlier(w)) \in 0 .. n - 1
    BY <1>3
  <2> HIDE DEF Earlier
  <2>4. Cardinality(Earlier(v) \cup {v}) = Cardinality(Earlier(v)) + 1
    BY <2>3, FS_AddElement
  <2>5. Cardinality(Earlier(v) \cup {v}) <= Cardinality(Earlier(w))
    BY <2>2, <2>3, FS_Subset
  <2> QED
    BY <1>2, <2>3, <2>4, <2>5
<1>5. \A v, w \in entries : v # w => Precedes(v, w) \/ Precedes(w, v)
  BY <1>1 DEF Precedes
<1>6. \A v, w \in entries : Cardinality(Earlier(v)) = Cardinality(Earlier(w)) => v = w
  <2>1. \A w \in entries : Cardinality(Earlier(w)) \in Int
    BY <1>2, <1>3
  <2> HIDE DEF Earlier
  <2> QED
    BY <1>4, <1>5, <2>1
<1>7. \A w : Place(entries, w) = Cardinality(Earlier(w))
  BY DEF Place
<1> HIDE DEF Earlier
<1> QED
  BY <1>3, <1>4, <1>6, <1>7 DEF n, entries

\* The order has every entry of the ledger at a place of its own, and no other.
Permutes(at, order, ledger, n) ==
    /\ at \in [1 .. n -> 1 .. n]
    /\ \A i \in 1 .. n : order[at[i]] = ledger[i]
    /\ \A i, j \in 1 .. n : at[i] = at[j] => i = j
    /\ \A k \in 1 .. n : \E i \in 1 .. n : at[i] = k

\* Entries of lower rank come first.
InOrder(at, ledger, n) ==
    \A i, j \in 1 .. n : ledger[i].rank < ledger[j].rank => at[i] < at[j]

\* The places of the entries are all there are.
LEMMA DeleteOrderIsAll ==
  ASSUME NEW g, IsLedger(written[g])
  PROVE  \E at : /\ Permutes(at, DeleteOrder(g), written[g], Len(written[g]))
                 /\ InOrder(at, written[g], Len(written[g]))
<1> DEFINE ledger == written[g]
           n == Len(ledger)
           entries == Range(ledger)
           at == [i \in 1 .. n |-> Place(entries, ledger[i]) + 1]
           order == DeleteOrder(g)
<1>1. n \in Nat /\ DOMAIN ledger = 1 .. n
  BY DEF IsLedger
<1>2. \A i \in 1 .. n : ledger[i] \in entries /\ ledger[i].ordinal = i - 1
  BY <1>1 DEF Range, IsLedger
<1>3. /\ \A w \in entries : Place(entries, w) \in 0 .. n - 1
      /\ \A v, w \in entries : /\ Place(entries, v) = Place(entries, w) => v = w
                               /\ Precedes(v, w) => Place(entries, v) < Place(entries, w)
  BY PlacesAreDistinct
<1>4. \A k \in 1 .. n : order[k] = CHOOSE w \in entries : Place(entries, w) = k - 1
  BY <1>1 DEF DeleteOrder, Place, Precedes
<1> HIDE DEF entries, ledger, n, order
<1>5. \A i \in 1 .. n : at[i] = Place(entries, ledger[i]) + 1 /\ at[i] \in 1 .. n
  BY <1>1, <1>2, <1>3
<1>6. at \in [1 .. n -> 1 .. n]
  BY <1>5
<1>7. \A i \in 1 .. n : Place(entries, ledger[i]) = at[i] - 1
  BY <1>1, <1>2, <1>3, <1>5
<1> HIDE DEF at
<1>8. \A i, j \in 1 .. n : at[i] = at[j] => i = j
  <2> SUFFICES ASSUME NEW i \in 1 .. n, NEW j \in 1 .. n, at[i] = at[j]
               PROVE  i = j
    OBVIOUS
  <2>1. ledger[i] = ledger[j]
    BY <1>2, <1>3, <1>7
  <2>2. i - 1 = j - 1
    BY <1>2, <2>1
  <2> QED
    BY <2>2
<1>9. ASSUME NEW i \in 1 .. n
      PROVE  order[at[i]] = ledger[i]
  <2>1. order[at[i]] = CHOOSE w \in entries : Place(entries, w) = at[i] - 1
    BY <1>4, <1>5
  <2>2. ledger[i] \in entries /\ Place(entries, ledger[i]) = at[i] - 1
    BY <1>2, <1>7
  <2>3. \A w \in entries : Place(entries, w) = at[i] - 1 => w = ledger[i]
    BY <1>3, <2>2
  <2> QED
    BY <2>1, <2>2, <2>3
<1>10. \A k \in 1 .. n : \E i \in 1 .. n : at[i] = k
  <2>1. at \in Injection(1 .. n, 1 .. n)
    BY <1>6, <1>8 DEF Injection, IsInjective
  <2>2. IsFiniteSet(1 .. n)
    BY <1>1, FS_Interval
  <2>3. at \in Surjection(1 .. n, 1 .. n)
    BY <2>1, <2>2, FS_Injection
  <2> QED
    BY <2>3 DEF Surjection
<1>11. Permutes(at, order, ledger, n)
  BY <1>6, <1>8, <1>9, <1>10 DEF Permutes
<1>12. InOrder(at, ledger, n)
  <2> SUFFICES ASSUME NEW i \in 1 .. n, NEW j \in 1 .. n, ledger[i].rank < ledger[j].rank
               PROVE  at[i] < at[j]
    BY DEF InOrder
  <2>1. Place(entries, ledger[i]) < Place(entries, ledger[j])
    BY <1>2, <1>3 DEF Precedes
  <2> QED
    BY <1>1, <1>5, <1>7, <2>1
<1> QED
  BY <1>11, <1>12 DEF order, ledger, n

-----------------------------------------------------------------------------
(* One row less *)

\* The first n places are these numbers, in their order.
Enumerates(place, n, left) ==
    /\ \A i \in 1 .. n : place[i] \in left
    /\ \A i, j \in 1 .. n : i < j => place[i] < place[j]
    /\ \A y \in left : \E j \in 1 .. n : place[j] = y

Without(place, n, x) == [j \in 1 .. n - 1 |-> IF j < x THEN place[j] ELSE place[j + 1]]

\* To leave out one number keeps the others and their order.
LEMMA WithoutOne ==
  ASSUME NEW n \in Nat, NEW x \in 1 .. n, NEW left \in SUBSET Int, NEW place,
         Enumerates(place, n, left)
  PROVE  Enumerates(Without(place, n, x), n - 1, left \ {place[x]})
<1> DEFINE there == Without(place, n, x)
<1>0. \A j \in 1 .. n - 1 : there[j] = IF j < x THEN place[j] ELSE place[j + 1]
  BY DEF Without
<1> HIDE DEF there
<1> USE DEF Enumerates
<1>1. \A i \in 1 .. n : place[i] \in Int
  OBVIOUS
<1>2. \A i, j \in 1 .. n : i # j => place[i] # place[j]
  BY <1>1
<1>3. \A j \in 1 .. n - 1 : j \in 1 .. n /\ j + 1 \in 1 .. n
  OBVIOUS
<1>4. \A j \in 1 .. n - 1 : there[j] \in left \ {place[x]}
  BY <1>0, <1>2, <1>3
<1>5. ASSUME NEW i \in 1 .. n - 1, NEW j \in 1 .. n - 1, i < j
      PROVE  there[i] < there[j]
  <2>1. PICK k \in 1 .. n : there[i] = place[k] /\ k = IF i < x THEN i ELSE i + 1
    BY <1>0, <1>3
  <2>2. PICK l \in 1 .. n : there[j] = place[l] /\ l = IF j < x THEN j ELSE j + 1
    BY <1>0, <1>3
  <2>3. k < l
    BY <1>5, <2>1, <2>2
  <2> QED
    BY <2>1, <2>2, <2>3
<1>6. ASSUME NEW y \in left \ {place[x]}
      PROVE  \E j \in 1 .. n - 1 : there[j] = y
  <2>1. PICK j \in 1 .. n : place[j] = y
    OBVIOUS
  <2>2. CASE j < x
    <3>1. j \in 1 .. n - 1 /\ there[j] = place[j]
      BY <1>0, <2>2
    <3> QED
      BY <2>1, <3>1
  <2>3. CASE j > x
    <3>1. j - 1 \in 1 .. n - 1 /\ ~(j - 1 < x) /\ (j - 1) + 1 = j
      BY <2>3
    <3>2. there[j - 1] = place[(j - 1) + 1]
      BY <1>0, <3>1
    <3> QED
      BY <2>1, <3>1, <3>2
  <2>4. j # x
    BY <2>1
  <2> QED
    BY <2>2, <2>3, <2>4
<1> QED
  BY <1>4, <1>5, <1>6 DEF there

\* If one more is gone of what is left, what is left is still in its order.
LEMMA RestAfterRemoval ==
  ASSUME NEW Row, NEW now \in Seq(Row), NEW after \in Seq(Row), NEW gone,
         NEW place \in [DOMAIN after -> DOMAIN now \ gone],
         Enumerates(place, Len(after), DOMAIN now \ gone),
         \A i \in DOMAIN after : after[i] = now[place[i]],
         NEW x \in DOMAIN after
  PROVE  IsRest(RemoveAt(after, x), now, gone \cup {place[x]})
<1> DEFINE less == RemoveAt(after, x)
           n == Len(after)
           there == Without(place, n, x)
           left == DOMAIN now \ gone
<1>1. n \in Nat /\ x \in 1 .. n /\ DOMAIN after = 1 .. n /\ left \in SUBSET Int
  OBVIOUS
<1>2. DOMAIN less = 1 .. n - 1 /\ \A j \in 1 .. n - 1 : less[j] = IF j < x THEN after[j] ELSE after[j + 1]
  <2>1. less \in Seq(Row) /\ Len(less) = n - 1
    BY RemoveAtProperties
  <2>2. \A j \in DOMAIN less : less[j] = IF j < x THEN after[j] ELSE after[j + 1]
    BY RemoveAtProperties
  <2> HIDE DEF less, n
  <2>3. DOMAIN less = 1 .. n - 1
    BY <2>1
  <2> QED
    BY <2>2, <2>3
<1>3. Enumerates(place, n, left) /\ \A i \in 1 .. n : after[i] = now[place[i]]
  OBVIOUS
<1>4. /\ there = [j \in 1 .. n - 1 |-> there[j]]
      /\ \A j \in 1 .. n - 1 : there[j] = IF j < x THEN place[j] ELSE place[j + 1]
  BY DEF Without
<1>5. Enumerates(there, n - 1, left \ {place[x]})
  <2> HIDE DEF n, left
  <2> QED
    BY <1>1, <1>3, WithoutOne
<1> HIDE DEF less, n, there, left
<1>6. left \ {place[x]} = DOMAIN now \ (gone \cup {place[x]})
  BY DEF left
<1>7. there \in [DOMAIN less -> DOMAIN now \ (gone \cup {place[x]})]
  <2>1. \A j \in 1 .. n - 1 : there[j] \in DOMAIN now \ (gone \cup {place[x]})
    BY <1>5, <1>6 DEF Enumerates
  <2> QED
    BY <1>2, <1>4, <2>1
<1>8. \A j \in 1 .. n - 1 : less[j] = now[there[j]]
  <2> SUFFICES ASSUME NEW j \in 1 .. n - 1
               PROVE  less[j] = now[there[j]]
    OBVIOUS
  <2>1. j \in 1 .. n /\ j + 1 \in 1 .. n
    BY <1>1
  <2>2. CASE j < x
    <3>1. less[j] = after[j] /\ there[j] = place[j]
      BY <1>2, <1>4, <2>2
    <3> QED
      BY <1>3, <2>1, <3>1
  <2>3. CASE ~(j < x)
    <3>1. less[j] = after[j + 1] /\ there[j] = place[j + 1]
      BY <1>2, <1>4, <2>3
    <3> QED
      BY <1>3, <2>1, <3>1
  <2> QED
    BY <2>2, <2>3
<1>9. /\ \A i, j \in DOMAIN less : i < j => there[i] < there[j]
      /\ \A y \in DOMAIN now \ (gone \cup {place[x]}) : \E j \in DOMAIN less : there[j] = y
  BY <1>2, <1>5, <1>6 DEF Enumerates
<1>10. \A j \in DOMAIN less : less[j] = now[there[j]]
  BY <1>2, <1>8
<1>11. IsRest(less, now, gone \cup {place[x]})
  BY <1>7, <1>9, <1>10 DEF IsRest
<1> QED
  BY <1>11 DEF less

\* This row goes: the only one with the key of the entry, and no row refers to it.
Deletes(x, w, cur, after) ==
    /\ after = [cur EXCEPT ![w.table] = RemoveAt(@, x)]
    /\ x \in DOMAIN cur[w.table]
    /\ HasKey(cur[w.table][x], w)
    /\ \A j \in DOMAIN cur[w.table] : HasKey(cur[w.table][j], w) => j = x
    /\ ~HasReference(cur, w.table, cur[w.table][x])

\* An entry that is not refused deletes such a row.
LEMMA DeletedRow ==
  ASSUME NEW cur, IsDatabase(cur), NEW w, w.table \in AllTables, NEW next,
         next = DeleteRow([staged |-> cur, code |-> "ok"], w), next.code = "ok"
  PROVE  \E x : Deletes(x, w, cur, next.staged)
<1> DEFINE matches == Matches(cur, w)
           x == CHOOSE i \in matches : TRUE
           after == [cur EXCEPT ![w.table] = RemoveAt(@, x)]
<1>1. next = [staged |-> after, code |-> "ok"] /\ Cardinality(matches) = 1
      /\ ~HasReference(cur, w.table, cur[w.table][x])
  BY DEF DeleteRow
<1>2. matches = {j \in DOMAIN cur[w.table] : HasKey(cur[w.table][j], w)}
  BY DEF Matches, HasKey
<1>3. \E y : matches = {y}
  <2>1. cur[w.table] \in Seq(Range(cur[w.table]))
    BY DEF IsDatabase, IsTable
  <2>2. DOMAIN cur[w.table] = 1 .. Len(cur[w.table]) /\ Len(cur[w.table]) \in Nat
    BY <2>1
  <2>3. IsFiniteSet(DOMAIN cur[w.table])
    BY <2>2, FS_Interval
  <2>4. IsFiniteSet(matches)
    BY <1>2, <2>3, FS_Subset
  <2> HIDE DEF matches
  <2> QED
    BY <1>1, <2>4, FS_Singleton
<1>4. matches = {x}
  <2> HIDE DEF matches
  <2> QED
    BY <1>3
<1>5. x \in matches
  BY <1>4
<1> HIDE DEF matches, x
<1>6. x \in DOMAIN cur[w.table] /\ HasKey(cur[w.table][x], w)
  BY <1>2, <1>5
<1>7. \A j \in DOMAIN cur[w.table] : HasKey(cur[w.table][j], w) => j = x
  BY <1>2, <1>4
<1>8. next.staged = after
  <2> HIDE DEF after
  <2> QED
    BY <1>1
<1> QED
  BY <1>1, <1>6, <1>7, <1>8 DEF Deletes

\* The row that is deleted is none that a row left behind refers to.
LEMMA DeleteKeepsReferred ==
  ASSUME scene \in Scenes, NEW now, NEW cur, IsDatabase(cur), KeepsReferred(now, cur),
         NEW w, w.table \in AllTables, NEW x, NEW after, Deletes(x, w, cur, after)
  PROVE  KeepsReferred(now, after)
<1> DEFINE table == w.table
<1>1. /\ \A t \in AllTables : t # table => after[t] = cur[t]
      /\ after[table] = RemoveAt(cur[table], x)
      /\ x \in DOMAIN cur[table] /\ ~HasReference(cur, table, cur[table][x])
  BY DEF IsDatabase, Deletes
<1>2. cur[table] \in Seq(Range(cur[table]))
  BY DEF IsDatabase, IsTable
<1> HIDE DEF table
<1>3. Range(after[table]) = {cur[table][j] : j \in DOMAIN cur[table] \ {x}}
  BY <1>1, <1>2, RangeOfRemoveAt
<1>4. \A t \in AllTables : Range(after[t]) \subseteq Range(cur[t])
  BY <1>1, <1>3 DEF Range
<1>5. ASSUME NEW fk \in catalog.foreign, NEW row \in Range(after[fk.from[1]]),
             NEW target \in Range(now[fk.to[1]]), target[fk.to[2]] = row[fk.from[2]]
      PROVE  \E other \in Range(after[fk.to[1]]) : other[fk.to[2]] = row[fk.from[2]]
  <2>1. fk.from[1] \in AllTables /\ fk.to[1] \in AllTables
    BY ConstraintsAreOfTables
  <2>2. row \in Range(cur[fk.from[1]])
    BY <1>4, <2>1
  <2>3. PICK other \in Range(cur[fk.to[1]]) : other[fk.to[2]] = row[fk.from[2]]
    BY <1>5, <2>2 DEF KeepsReferred
  <2>4. CASE fk.to[1] # table
    BY <1>1, <2>1, <2>3, <2>4
  <2>5. CASE fk.to[1] = table
    <3>1. other # cur[table][x]
      BY <1>1, <2>2, <2>3, <2>5 DEF HasReference
    <3>2. other \in Range(after[table])
      BY <1>3, <2>3, <2>5, <3>1 DEF Range
    <3> QED
      BY <2>3, <2>5, <3>2
  <2> QED
    BY <2>4, <2>5
<1> QED
  BY <1>5 DEF KeepsReferred

\* The first entries of an order.
FirstOf(order, k) == [i \in 1 .. k |-> order[i]]

\* The rows that an order names are in the tables, each once, and one more.
LEMMA DeleteKeepsTakes ==
  ASSUME NEW now, IsDatabase(now), NEW cur, IsDatabase(cur), NEW order, NEW k \in Nat,
         \A i \in 1 .. k + 1 : order[i].table \in AllTables,
         NEW took, Takes(took, FirstOf(order, k), now, cur),
         NEW x, NEW after, Deletes(x, order[k + 1], cur, after)
  PROVE  \E more : Takes(more, FirstOf(order, k + 1), now, after)
<1> DEFINE w == order[k + 1]
           table == w.table
           Gone(t) == {took[i] : i \in {j \in 1 .. k : order[j].table = t}}
<1>1. /\ \A t \in AllTables : t # table => after[t] = cur[t]
      /\ after[table] = RemoveAt(cur[table], x)
      /\ table \in AllTables
      /\ x \in DOMAIN cur[table] /\ HasKey(cur[table][x], w)
      /\ \A j \in DOMAIN cur[table] : HasKey(cur[table][j], w) => j = x
  <2>1. Deletes(x, w, cur, after) /\ table \in AllTables
    OBVIOUS
  <2> HIDE DEF table, w
  <2>2. table = w.table
    BY DEF table
  <2>3. after = [cur EXCEPT ![table] = RemoveAt(@, x)]
    BY <2>1, <2>2 DEF Deletes
  <2>4. cur = [t \in AllTables |-> cur[t]]
    BY DEF IsDatabase
  <2>5. /\ \A t \in AllTables : t # table => after[t] = cur[t]
        /\ after[table] = RemoveAt(cur[table], x)
    BY <2>1, <2>3, <2>4
  <2> QED
    BY <2>1, <2>2, <2>5 DEF Deletes
<1>2. /\ cur[table] \in Seq(Range(cur[table])) /\ now[table] \in Seq(Range(now[table]))
  BY <1>1 DEF IsDatabase, IsTable
<1>3. Range(after[table]) = {cur[table][j] : j \in DOMAIN cur[table] \ {x}}
  BY <1>1, <1>2, RangeOfRemoveAt
<1>4. \A t \in AllTables : Range(after[t]) \subseteq Range(cur[t])
  BY <1>1, <1>3 DEF Range
<1>5. /\ \A i \in 1 .. k : took[i] \in DOMAIN now[order[i].table] /\ HasKey(now[order[i].table][took[i]], order[i])
      /\ \A i, j \in 1 .. k : i # j /\ order[i].table = order[j].table => took[i] # took[j]
      /\ \A t \in AllTables : IsRest(cur[t], now[t], Gone(t))
      /\ \A i \in 1 .. k : \A row \in Range(cur[order[i].table]) : ~HasKey(row, order[i])
  <2>1. DOMAIN FirstOf(order, k) = 1 .. k /\ \A i \in 1 .. k : FirstOf(order, k)[i] = order[i]
    BY DEF FirstOf
  <2>2. \A t : Gone(t) = {took[i] : i \in {j \in DOMAIN FirstOf(order, k) : FirstOf(order, k)[j].table = t}}
    BY <2>1
  <2> HIDE DEF Gone
  <2> QED
    BY <2>1, <2>2 DEF Takes
<1>6. PICK place \in [DOMAIN cur[table] -> DOMAIN now[table] \ Gone(table)] :
         /\ \A i, j \in DOMAIN cur[table] : i < j => place[i] < place[j]
         /\ \A i \in DOMAIN now[table] \ Gone(table) : \E j \in DOMAIN cur[table] : place[j] = i
         /\ \A i \in DOMAIN cur[table] : cur[table][i] = now[table][place[i]]
  <2> HIDE DEF Gone
  <2> QED
    BY <1>1, <1>5 DEF IsRest
<1> DEFINE more == [i \in 1 .. k + 1 |-> IF i = k + 1 THEN place[x] ELSE took[i]]
           Lost(t) == {more[i] : i \in {j \in 1 .. k + 1 : order[j].table = t}}
<1>7. IsRest(after[table], now[table], Gone(table) \cup {place[x]})
  <2> DEFINE Row == Range(cur[table]) \cup Range(now[table])
             gone == Gone(table)
             rest == cur[table]
             old == now[table]
  <2>1. rest \in Seq(Row) /\ old \in Seq(Row)
    BY <1>2
  <2> HIDE DEF Gone, Row, table
  <2>2. DOMAIN rest = 1 .. Len(rest)
    BY <2>1
  <2>3. Enumerates(place, Len(rest), DOMAIN old \ gone)
    BY <1>6, <2>2 DEF Enumerates
  <2>4. place \in [DOMAIN rest -> DOMAIN old \ gone] /\ x \in DOMAIN rest
        /\ \A i \in DOMAIN rest : rest[i] = old[place[i]]
    BY <1>1, <1>6 DEF table
  <2> HIDE DEF rest, old, gone
  <2>5. IsRest(RemoveAt(rest, x), old, gone \cup {place[x]})
    BY <2>1, <2>3, <2>4, RestAfterRemoval
  <2> QED
    BY <1>1, <2>5 DEF rest, old, gone
<1>8. /\ \A i \in 1 .. k : more[i] = took[i] /\ i \in 1 .. k + 1
      /\ more[k + 1] = place[x] /\ k + 1 \in 1 .. k + 1
      /\ \A i \in 1 .. k + 1 : i = k + 1 \/ i \in 1 .. k
  OBVIOUS
<1>9. /\ Lost(table) = Gone(table) \cup {place[x]}
      /\ \A t : t # table => Lost(t) = Gone(t)
  <2>1. {j \in 1 .. k + 1 : order[j].table = table} = {j \in 1 .. k : order[j].table = table} \cup {k + 1}
    BY <1>8
  <2>2. \A t : t # table => {j \in 1 .. k + 1 : order[j].table = t} = {j \in 1 .. k : order[j].table = t}
    BY <1>8
  <2> HIDE DEF more
  <2> QED
    BY <1>8, <2>1, <2>2
<1>10. place[x] \in DOMAIN now[table] \ Gone(table) /\ cur[table][x] = now[table][place[x]]
  <2> HIDE DEF Gone
  <2> QED
    BY <1>1, <1>6
<1> HIDE DEF more, Gone, Lost
<1>11. \A i \in 1 .. k + 1 : /\ more[i] \in DOMAIN now[order[i].table]
                             /\ HasKey(now[order[i].table][more[i]], order[i])
  <2> SUFFICES ASSUME NEW i \in 1 .. k + 1
               PROVE  /\ more[i] \in DOMAIN now[order[i].table]
                      /\ HasKey(now[order[i].table][more[i]], order[i])
    OBVIOUS
  <2>1. CASE i \in 1 .. k
    BY <1>5, <1>8, <2>1
  <2>2. CASE i = k + 1
    <3>1. more[i] = place[x] /\ order[i].table = table /\ order[i] = w
      BY <1>8, <2>2
    <3> QED
      BY <1>1, <1>10, <3>1
  <2> QED
    BY <1>8, <2>1, <2>2
<1>12. \A i, j \in 1 .. k + 1 : i # j /\ order[i].table = order[j].table => more[i] # more[j]
  <2>1. \A i \in 1 .. k : order[i].table = table => took[i] # place[x]
    BY <1>10 DEF Gone
  <2> QED
    BY <1>5, <1>8, <2>1
<1>13. \A t \in AllTables : IsRest(after[t], now[t], Lost(t))
  <2> SUFFICES ASSUME NEW t \in AllTables
               PROVE  IsRest(after[t], now[t], Lost(t))
    OBVIOUS
  <2>1. CASE t = table
    BY <1>7, <1>9, <2>1
  <2>2. CASE t # table
    <3>1. after[t] = cur[t] /\ Lost(t) = Gone(t)
      BY <1>1, <1>9, <2>2
    <3> QED
      BY <1>5, <3>1
  <2> QED
    BY <2>1, <2>2
<1>14. \A i \in 1 .. k + 1 : \A row \in Range(after[order[i].table]) : ~HasKey(row, order[i])
  <2>1. \A row \in Range(after[table]) : ~HasKey(row, w)
    BY <1>1, <1>3
  <2>2. \A i \in 1 .. k : \A row \in Range(after[order[i].table]) : ~HasKey(row, order[i])
    BY <1>4, <1>5, <1>8
  <2> QED
    BY <1>8, <2>1, <2>2
<1>15. Takes(more, FirstOf(order, k + 1), now, after)
  <2> DEFINE part == FirstOf(order, k + 1)
  <2>1. DOMAIN part = 1 .. k + 1 /\ \A i \in 1 .. k + 1 : part[i] = order[i]
    BY DEF FirstOf
  <2> HIDE DEF part
  <2>2. \A t : Lost(t) = {more[i] : i \in {j \in DOMAIN part : part[j].table = t}}
    BY <2>1 DEF Lost
  <2>3. Takes(more, part, now, after)
    BY <1>11, <1>12, <1>13, <1>14, <2>1, <2>2 DEF Takes
  <2> QED
    BY <2>3 DEF part
<1> QED
  BY <1>15

-----------------------------------------------------------------------------
(* All entries *)

\* Nothing is gone, nothing is taken.
LEMMA NothingTaken ==
  ASSUME NEW now, NEW order
  PROVE  Takes(<< >>, FirstOf(order, 0), now, now) /\ KeepsReferred(now, now)
<1>1. DOMAIN FirstOf(order, 0) = {}
  BY DEF FirstOf
<1>2. ASSUME NEW s PROVE IsRest(s, s, {})
  <2> DEFINE place == [i \in DOMAIN s |-> i]
  <2>1. /\ place \in [DOMAIN s -> DOMAIN s \ {}]
        /\ \A i \in DOMAIN s : place[i] = i
    OBVIOUS
  <2> HIDE DEF place
  <2> QED
    BY <2>1 DEF IsRest
<1>3. \A t : {<< >>[i] : i \in {j \in DOMAIN FirstOf(order, 0) : FirstOf(order, 0)[j].table = t}} = {}
  BY <1>1
<1>4. Takes(<< >>, FirstOf(order, 0), now, now)
  BY <1>1, <1>2, <1>3 DEF Takes
<1>5. KeepsReferred(now, now)
  BY DEF KeepsReferred
<1> QED
  BY <1>4, <1>5

\* The same entries in another order have the same rows.
LEMMA TakesInOrder ==
  ASSUME NEW now, NEW after, NEW order, NEW ledger, NEW n \in Nat, DOMAIN ledger = 1 .. n,
         NEW took, Takes(took, FirstOf(order, n), now, after),
         NEW at, Permutes(at, order, ledger, n)
  PROVE  Takes([i \in 1 .. n |-> took[at[i]]], ledger, now, after)
<1> DEFINE mine == [i \in 1 .. n |-> took[at[i]]]
           part == FirstOf(order, n)
<1>1. /\ DOMAIN part = 1 .. n /\ \A i \in 1 .. n : part[i] = order[i]
      /\ \A i \in 1 .. n : mine[i] = took[at[i]]
      /\ Takes(took, part, now, after)
  BY DEF FirstOf
<1> HIDE DEF mine, part
<1>2. /\ \A i \in 1 .. n : at[i] \in 1 .. n /\ mine[i] = took[at[i]] /\ order[at[i]] = ledger[i]
      /\ \A i, j \in 1 .. n : i # j => at[i] # at[j]
      /\ \A k \in 1 .. n : \E i \in 1 .. n : at[i] = k
  BY <1>1 DEF Permutes
<1>3. ASSUME NEW t
      PROVE  {mine[i] : i \in {j \in DOMAIN ledger : ledger[j].table = t}}
                = {took[i] : i \in {j \in DOMAIN part : part[j].table = t}}
  <2>1. ASSUME NEW i \in 1 .. n, ledger[i].table = t
        PROVE  \E k \in 1 .. n : part[k].table = t /\ took[k] = mine[i]
    <3>1. at[i] \in 1 .. n /\ mine[i] = took[at[i]] /\ order[at[i]] = ledger[i]
      BY <1>2
    <3>2. part[at[i]] = order[at[i]]
      BY <1>1, <3>1
    <3> QED
      BY <2>1, <3>1, <3>2
  <2>2. ASSUME NEW k \in 1 .. n, part[k].table = t
        PROVE  \E i \in 1 .. n : ledger[i].table = t /\ took[k] = mine[i]
    <3>1. PICK i \in 1 .. n : at[i] = k
      BY <1>2
    <3>2. mine[i] = took[k] /\ ledger[i] = order[k] /\ part[k] = order[k]
      BY <1>1, <1>2, <3>1
    <3> QED
      BY <2>2, <3>2
  <2> QED
    BY <1>1, <2>1, <2>2
<1>4. \A t \in AllTables :
         IsRest(after[t], now[t], {mine[i] : i \in {j \in DOMAIN ledger : ledger[j].table = t}})
  <2>1. \A t \in AllTables :
           IsRest(after[t], now[t], {took[i] : i \in {j \in DOMAIN part : part[j].table = t}})
    BY <1>1 DEF Takes
  <2> QED
    BY <1>3, <2>1
<1>5. /\ \A i \in 1 .. n : took[i] \in DOMAIN now[order[i].table] /\ HasKey(now[order[i].table][took[i]], order[i])
      /\ \A i, j \in 1 .. n : i # j /\ order[i].table = order[j].table => took[i] # took[j]
      /\ \A i \in 1 .. n : \A row \in Range(after[order[i].table]) : ~HasKey(row, order[i])
  BY <1>1 DEF Takes
<1>6. \A i \in 1 .. n : mine[i] \in DOMAIN now[ledger[i].table] /\ HasKey(now[ledger[i].table][mine[i]], ledger[i])
  BY <1>2, <1>5
<1>7. \A i, j \in 1 .. n : i # j /\ ledger[i].table = ledger[j].table => mine[i] # mine[j]
  <2> SUFFICES ASSUME NEW i \in 1 .. n, NEW j \in 1 .. n, i # j, ledger[i].table = ledger[j].table
               PROVE  mine[i] # mine[j]
    OBVIOUS
  <2>1. at[i] \in 1 .. n /\ at[j] \in 1 .. n /\ at[i] # at[j] /\ order[at[i]].table = order[at[j]].table
    BY <1>2
  <2>2. took[at[i]] # took[at[j]]
    BY <1>5, <2>1
  <2> QED
    BY <1>2, <2>2
<1>8. \A i \in 1 .. n : \A row \in Range(after[ledger[i].table]) : ~HasKey(row, ledger[i])
  BY <1>2, <1>5
<1>9. Takes(mine, ledger, now, after)
  BY <1>4, <1>6, <1>7, <1>8 DEF Takes
<1> QED
  BY <1>9 DEF mine

\* The loop of delete().
LEMMA RemovedIsExact ==
  ASSUME scene \in Scenes, NEW tenant \in Tenants, IsDatabase(rows[tenant]),
         NEW g \in GenIds, IsLedger(written[g]), Removed(tenant, g).code = "ok"
  PROVE  /\ \E took \in [DOMAIN written[g] -> UNION {DOMAIN rows[tenant][t] : t \in AllTables}] :
               Takes(took, written[g], rows[tenant], Removed(tenant, g).staged)
         /\ KeepsReferred(rows[tenant], Removed(tenant, g).staged)
<1> DEFINE ledger == written[g]
           order == DeleteOrder(g)
           now == rows[tenant]
           base == [staged |-> now, code |-> "ok"]
           n == Len(ledger)
<1>1. n \in Nat /\ DOMAIN ledger = 1 .. n /\ DOMAIN order = 1 .. n
  BY DEF DeleteOrder, IsLedger
<1>2. PICK at : Permutes(at, order, ledger, n)
  BY DeleteOrderIsAll
<1>3. \A k \in 1 .. n : order[k].table \in AllTables
  <2>1. \A i \in 1 .. n : ledger[i].table \in AllTables
    BY <1>1 DEF IsLedger
  <2> HIDE DEF ledger, order, n
  <2> QED
    BY <1>2, <2>1 DEF Permutes
<1>4. Removed(tenant, g) = FoldLeft(DeleteRow, base, order)
  BY DEF Removed
<1> HIDE DEF n, order, ledger
<1>5. PICK run : Run(run, "delete", base, order, n) /\ FoldLeft(DeleteRow, base, order) = run[n]
  <2> HIDE DEF base
  <2> QED
    BY <1>1, FoldDelete
<1> DEFINE Exact(k) == /\ IsReduced(run[k])
                       /\ run[k].code = "ok" =>
                             /\ \E took : Takes(took, FirstOf(order, k), now, run[k].staged)
                             /\ KeepsReferred(now, run[k].staged)
           S == {k \in 0 .. n : Exact(k)}
<1>6. 0 \in S
  <2>1. run[0] = base /\ 0 \in 0 .. n
    BY <1>1, <1>5 DEF Run
  <2>2. IsReduced(base) /\ base.staged = now
    BY DEF IsReduced
  <2> HIDE DEF base, now
  <2>3. Takes(<< >>, FirstOf(order, 0), now, now) /\ KeepsReferred(now, now)
    BY NothingTaken
  <2> QED
    BY <2>1, <2>2, <2>3
<1>7. ASSUME NEW k \in 0 .. n - 1, k \in S
      PROVE  k + 1 \in S
  <2> HIDE DEF base, now
  <2>1. k + 1 \in 1 .. n /\ k + 1 \in 0 .. n /\ (k + 1) - 1 = k /\ k \in Nat
    BY <1>1
  <2>2. run[k + 1] = DeleteRow(run[k], order[k + 1])
    BY <1>5, <2>1 DEF Run, Step
  <2>3. IsReduced(run[k + 1])
    BY <1>7, <2>2, DeleteKeepsTypes
  <2>4. ASSUME run[k + 1].code = "ok"
        PROVE  /\ \E took : Takes(took, FirstOf(order, k + 1), now, run[k + 1].staged)
               /\ KeepsReferred(now, run[k + 1].staged)
    <3> DEFINE cur == run[k].staged
               w == order[k + 1]
    <3>1. run[k].code = "ok"
      <4>1. CASE run[k].code # "ok"
        <5>1. run[k + 1] = run[k]
          BY <2>2, <4>1 DEF DeleteRow
        <5> QED
          BY <2>4, <4>1, <5>1
      <4> QED
        BY <4>1
    <3>2. run[k] = [staged |-> cur, code |-> "ok"] /\ IsDatabase(cur)
      BY <1>7, <3>1 DEF IsReduced
    <3>3. PICK took : Takes(took, FirstOf(order, k), now, cur)
      BY <1>7, <3>1
    <3>4. KeepsReferred(now, cur)
      BY <1>7, <3>1
    <3>5. w.table \in AllTables
      BY <1>3, <2>1
    <3> HIDE DEF cur, w
    <3>6. PICK x : Deletes(x, w, cur, run[k + 1].staged)
      <4>1. run[k + 1] = DeleteRow([staged |-> cur, code |-> "ok"], w)
        BY <2>2, <3>2 DEF w
      <4> QED
        BY <2>4, <3>2, <3>5, <4>1, DeletedRow
    <3>7. KeepsReferred(now, run[k + 1].staged)
      BY <3>2, <3>4, <3>5, <3>6, DeleteKeepsReferred
    <3>8. \A i \in 1 .. k + 1 : order[i].table \in AllTables
      BY <1>1, <1>3, <2>1
    <3>9. \E more : Takes(more, FirstOf(order, k + 1), now, run[k + 1].staged)
      <4>1. Deletes(x, order[k + 1], cur, run[k + 1].staged) /\ IsDatabase(now)
        BY <3>6 DEF w, now
      <4> QED
        BY <2>1, <3>2, <3>3, <3>8, <4>1, DeleteKeepsTakes
    <3> QED
      BY <3>7, <3>9
  <2> QED
    BY <2>1, <2>3, <2>4
<1>8. n \in S
  <2> HIDE DEF S
  <2>1. 0 .. n \subseteq S
    BY <1>1, <1>6, <1>7, Induction
  <2> QED
    BY <1>1, <2>1
<1>9. run[n] = Removed(tenant, g)
  BY <1>4, <1>5
<1> HIDE DEF now
<1>10. PICK took : Takes(took, FirstOf(order, n), now, Removed(tenant, g).staged)
  BY <1>8, <1>9
<1>11. Takes([i \in 1 .. n |-> took[at[i]]], ledger, now, Removed(tenant, g).staged)
  BY <1>1, <1>2, <1>10, TakesInOrder
<1>12. KeepsReferred(now, Removed(tenant, g).staged)
  BY <1>8, <1>9
<1>13. \A i \in 1 .. n : took[at[i]] \in UNION {DOMAIN now[t] : t \in AllTables}
  <2> DEFINE mine == [i \in 1 .. n |-> took[at[i]]]
  <2>1. \A i \in 1 .. n : mine[i] = took[at[i]]
    OBVIOUS
  <2> HIDE DEF mine
  <2>2. \A i \in 1 .. n : mine[i] \in DOMAIN now[ledger[i].table]
    BY <1>1, <1>11 DEF Takes, mine
  <2>3. \A i \in 1 .. n : ledger[i].table \in AllTables
    BY <1>2, <1>3 DEF Permutes
  <2> QED
    BY <2>1, <2>2, <2>3
<1>14. [i \in 1 .. n |-> took[at[i]]] \in [DOMAIN ledger -> UNION {DOMAIN now[t] : t \in AllTables}]
  <2>1. [i \in 1 .. n |-> took[at[i]]] \in [1 .. n -> UNION {DOMAIN now[t] : t \in AllTables}]
    BY <1>13
  <2> QED
    BY <1>1, <2>1
<1> QED
  BY <1>11, <1>12, <1>14 DEF now, ledger

\* A deletion takes for each entry of its ledger one row that has its key, and
\* nothing else, leaves no row with such a key, and takes nothing that a row left
\* behind refers to: for every catalog, contract and ledger, and whatever the owner
\* of the tables has done to them (in_memory.py:255-305).
THEOREM SpecDeletionIsExact == Spec => DeletionIsExact
<1>1. ASSUME KeyInv, RowInv, NEW p \in Procs, NEW tenant \in Tenants, NEW g \in GenIds,
             Delete(p, tenant, g), ~UNCHANGED store
      PROVE  \A h \in GenIds : DeletedExactly(h)
  <2> DEFINE now == rows[tenant]
             after == Removed(tenant, g).staged
  <2>1. /\ Known(tenant, g) /\ Removed(tenant, g).code = "ok"
        /\ rows' = [rows EXCEPT ![tenant] = after] /\ generations' = Deleted(g)
    BY <1>1 DEF Delete
  <2>2. generations[g].slot[1] = tenant /\ rows'[tenant] = after
    BY <1>1, <2>1 DEF Known, RowInv
  <2>3. \A h \in GenIds : h # g => generations'[h] = generations[h]
    BY <1>1, <2>1 DEF Deleted, KeyInv
  <2>4. /\ scene \in Scenes /\ IsDatabase(now) /\ IsLedger(written[g])
    BY <1>1 DEF KeyInv, RowInv
  <2>5. /\ \E took \in [DOMAIN written[g] -> UNION {DOMAIN now[t] : t \in AllTables}] :
              Takes(took, written[g], now, after)
        /\ KeepsReferred(now, after)
    BY <2>1, <2>4, RemovedIsExact
  <2> HIDE DEF now, after
  <2>6. DeletedExactly(g)
    BY <2>2, <2>5 DEF now, DeletedExactly
  <2>7. \A h \in GenIds : h # g => DeletedExactly(h)
    BY <2>3 DEF DeletedExactly
  <2> QED
    BY <2>6, <2>7
<1>2. ASSUME KeyInv, NEW p \in Procs, Commit(p)
      PROVE  \A h \in GenIds : DeletedExactly(h)
  <2>1. CASE UNCHANGED generations
    BY <2>1 DEF DeletedExactly
  <2>2. CASE \E g \in Absent : Publish(g, req[p].slot, req[p].content, Inserted(req[p].slot[1], req[p].content))
    <3>1. \A h \in GenIds : generations'[h].state = "DELETED" => generations'[h] = generations[h]
      BY <1>2, <2>2 DEF Publish, KeyInv
    <3> QED
      BY <3>1 DEF DeletedExactly
  <2> QED
    BY <1>2, <2>1, <2>2 DEF Commit, store
<1>3. ASSUME UNCHANGED generations
      PROVE  \A h \in GenIds : DeletedExactly(h)
  BY <1>3 DEF DeletedExactly
<1>4. ASSUME KeyInv, RowInv, [Next]_vars
      PROVE  \A h \in GenIds : DeletedExactly(h)
  <2>1. CASE UNCHANGED vars
    BY <1>3, <2>1 DEF vars, store
  <2>2. ASSUME NEW p \in Procs,
               \/ \E slot \in Slots, content \in scene.contents : Post(p, slot, content)
               \/ Late(p)
               \/ \E tenant \in Tenants, g \in GenIds : Get(p, tenant, g)
        PROVE  \A h \in GenIds : DeletedExactly(h)
    BY <1>3, <2>2 DEF Post, Late, Get, store
  <2>3. ASSUME NEW p \in Procs, NEW tenant \in Tenants, NEW g \in GenIds, Delete(p, tenant, g)
        PROVE  \A h \in GenIds : DeletedExactly(h)
    BY <1>1, <1>3, <1>4, <2>3 DEF store
  <2>4. ASSUME NEW p \in Procs, Commit(p)
        PROVE  \A h \in GenIds : DeletedExactly(h)
    BY <1>2, <1>4, <2>4
  <2>5. ASSUME NEW tenant \in Tenants, NEW table \in TablesOf(catalog), SeedRows(tenant, table)
        PROVE  \A h \in GenIds : DeletedExactly(h)
    BY <1>3, <2>5 DEF SeedRows
  <2> QED
    BY <1>4, <2>1, <2>2, <2>3, <2>4, <2>5 DEF Next
<1>5. KeyInv /\ RowInv /\ [Next]_vars => [\A g \in GenIds : DeletedExactly(g)]_vars
  BY <1>4
<1> QED
  BY <1>5, KeysAreInStep, RowsAreTyped, PTL DEF Spec, DeletionIsExact

-----------------------------------------------------------------------------
(* Which contracts yield rows *)

\* Every value of a field is one that the validator accepts, alone and with others.
GoodColumn(contract, dataset, t, f) ==
    /\ \A i \in 1 .. contract.count[t] :
          IF dataset[t][i][f] = None THEN <<t, f>> \in contract.nullable
          ELSE Fits(dataset[t][i][f], contract.spec[<<t, f>>].type)
    /\ <<t, f>> \in contract.unique =>
          \A i, j \in 1 .. contract.count[t] :
              i # j /\ dataset[t][i][f] = dataset[t][j][f] => dataset[t][i][f] = None

\* Every row that refers has a target.
Holds(contract, dataset, rel) ==
    \A i \in 1 .. contract.count[rel.from[1]] : \E j \in 1 .. contract.count[rel.to[1]] :
        dataset[rel.to[1]][j][rel.to[2]] = dataset[rel.from[1]][i][rel.from[2]]

\* Where a relation of a contract starts and ends.
LEMMA RelationFields ==
  ASSUME NEW contract, ValidContract(contract), NEW rel \in Range(contract.relations)
  PROVE  /\ rel.from = <<rel.from[1], rel.from[2]>> /\ rel.to = <<rel.to[1], rel.to[2]>>
         /\ rel.from[1] \in RecordTypes(contract) /\ rel.from[2] \in Fields
         /\ rel.to[1] \in RecordTypes(contract) /\ rel.to[2] \in Fields
         /\ contract.spec[rel.from].type = contract.spec[rel.to].type
         /\ rel.to \in contract.unique
<1>1. /\ rel.from \in DOMAIN contract.spec /\ rel.to \in DOMAIN contract.spec
      /\ contract.spec[rel.from].type = contract.spec[rel.to].type /\ rel.to \in contract.unique
      /\ DOMAIN contract.spec = RecordTypes(contract) \X Fields
  BY DEF ValidContract
<1> QED
  BY <1>1

\* The target of a row.
Target(contract, rel, i) == ((i - 1) % contract.count[rel.to[1]]) + 1

\* There is one, and if there are enough each row has its own.
LEMMA TargetIsThere ==
  ASSUME NEW contract, ValidContract(contract), NEW rel \in Range(contract.relations),
         NEW i \in 1 .. contract.count[rel.from[1]]
  PROVE  /\ Target(contract, rel, i) \in 1 .. contract.count[rel.to[1]]
         /\ i <= contract.count[rel.to[1]] => Target(contract, rel, i) = i
<1> DEFINE n == contract.count[rel.to[1]]
           m == contract.count[rel.from[1]]
<1>1. n \in Nat \ {0} /\ m \in Nat \ {0}
  BY RelationFields DEF ValidContract
<1> HIDE DEF n
<1>2. i - 1 \in Nat /\ i \in Nat
  BY <1>1
<1>3. (i - 1) % n \in 0 .. n - 1
  BY <1>1, <1>2
<1>4. i <= n => (i - 1) % n = i - 1
  BY <1>1, <1>2
<1> HIDE DEF m
<1>5. ((i - 1) % n) + 1 \in 1 .. n
  BY <1>1, <1>3
<1>6. i <= n => ((i - 1) % n) + 1 = i
  BY <1>2, <1>4
<1> QED
  BY <1>5, <1>6 DEF n, Target

\* What a relation makes of each value.
LEMMA ResolveValue ==
  ASSUME NEW contract, ValidContract(contract), NEW dataset, IsDataset(contract, dataset),
         NEW rel \in Range(contract.relations),
         NEW t \in RecordTypes(contract), NEW f \in Fields, NEW i \in 1 .. contract.count[t]
  PROVE  Resolve(dataset, rel)[t][i][f] =
            IF <<t, f>> = rel.from THEN dataset[rel.to[1]][Target(contract, rel, i)][rel.to[2]]
            ELSE dataset[t][i][f]
<1> DEFINE from == rel.from[1]
           targets == dataset[rel.to[1]]
           value(j) == targets[((j - 1) % Len(targets)) + 1][rel.to[2]]
           column == [j \in DOMAIN dataset[from] |-> [dataset[from][j] EXCEPT ![rel.from[2]] = value(j)]]
           after == Resolve(dataset, rel)
           mine == Target(contract, rel, i)
<1>1. /\ rel.from = <<from, rel.from[2]>> /\ from \in RecordTypes(contract) /\ rel.from[2] \in Fields
      /\ rel.to[1] \in RecordTypes(contract)
  BY RelationFields
<1>2. Len(targets) = contract.count[rel.to[1]]
  <2>1. targets = [j \in 1 .. contract.count[rel.to[1]] |-> targets[j]]
    BY <1>1 DEF IsDataset
  <2>2. contract.count[rel.to[1]] \in Nat
    BY <1>1 DEF ValidContract
  <2> DEFINE m == contract.count[rel.to[1]]
             E == {targets[j] : j \in 1 .. m}
  <2>3. \A j \in 1 .. m : targets[j] \in E
    OBVIOUS
  <2> HIDE DEF targets, m, E
  <2>4. targets \in [1 .. m -> E] /\ m \in Nat /\ DOMAIN targets = 1 .. m
    BY <2>1, <2>2, <2>3 DEF m
  <2>5. targets \in Seq(E)
    BY <2>4
  <2>6. Len(targets) = m
    BY <2>4, <2>5
  <2> QED
    BY <2>6 DEF m
<1>3. /\ after = [dataset EXCEPT ![from] = column]
      /\ DOMAIN dataset = RecordTypes(contract)
      /\ DOMAIN dataset[from] = 1 .. contract.count[from]
  BY <1>1 DEF Resolve, IsDataset
<1>4. after[t] = IF t = from THEN column ELSE dataset[t]
  <2> HIDE DEF column, after
  <2> QED
    BY <1>3
<1>5. CASE t # from
  BY <1>1, <1>4, <1>5
<1>6. CASE t = from
  <2>1. i \in DOMAIN dataset[from] /\ DOMAIN dataset[from][i] = Fields
    <3>1. i \in DOMAIN dataset[from]
      BY <1>3, <1>6
    <3>2. dataset[from][i] = [g \in Fields |-> dataset[from][i][g]]
      BY <1>1, <1>6 DEF IsDataset, IsRow
    <3>3. DOMAIN dataset[from][i] = Fields
      BY <3>2
    <3> QED
      BY <3>1, <3>3
  <2>2. column[i] = [dataset[from][i] EXCEPT ![rel.from[2]] = value(i)]
    BY <2>1
  <2>3. value(i) = targets[mine][rel.to[2]]
    BY <1>2 DEF Target
  <2> HIDE DEF column, value, targets, mine, after
  <2>4. after[t][i] = [dataset[from][i] EXCEPT ![rel.from[2]] = value(i)]
    BY <1>4, <1>6, <2>2
  <2>5. after[t][i][f] = IF f = rel.from[2] THEN value(i) ELSE dataset[from][i][f]
    BY <2>1, <2>4
  <2>6. f = rel.from[2] <=> <<t, f>> = rel.from
    BY <1>1, <1>6
  <2>7. after[t][i][f] = IF <<t, f>> = rel.from THEN targets[mine][rel.to[2]] ELSE dataset[t][i][f]
    BY <1>6, <2>3, <2>5, <2>6
  <2> QED
    BY <2>7 DEF after, targets, mine
<1> QED
  BY <1>5, <1>6

\* A relation from a field to itself changes nothing.
LEMMA ResolveSelf ==
  ASSUME NEW contract, ValidContract(contract), NEW dataset, IsDataset(contract, dataset),
         NEW rel \in Range(contract.relations), rel.from = rel.to,
         NEW t \in RecordTypes(contract), NEW f \in Fields, NEW i \in 1 .. contract.count[t]
  PROVE  Resolve(dataset, rel)[t][i][f] = dataset[t][i][f]
<1>1. CASE <<t, f>> # rel.from
  BY <1>1, ResolveValue
<1>2. CASE <<t, f>> = rel.from
  <2>1. rel.from[1] = t /\ rel.to[1] = t /\ rel.to[2] = f
    BY <1>2
  <2>2. i <= contract.count[t]
    BY DEF ValidContract
  <2>3. Target(contract, rel, i) = i
    BY <2>1, <2>2, TargetIsThere
  <2>4. Resolve(dataset, rel)[t][i][f] = dataset[rel.to[1]][Target(contract, rel, i)][rel.to[2]]
    BY <1>2, ResolveValue
  <2> QED
    BY <2>1, <2>3, <2>4
<1> QED
  BY <1>1, <1>2

\* A field whose values stay is as good as it was.
LEMMA SameColumn ==
  ASSUME NEW contract, NEW dataset, NEW after, NEW t, NEW f, GoodColumn(contract, dataset, t, f),
         \A i \in 1 .. contract.count[t] : after[t][i][f] = dataset[t][i][f]
  PROVE  GoodColumn(contract, after, t, f)
BY DEF GoodColumn

\* A field that refers to one with good values gets good values, if there are
\* targets enough and it may be NULL where they may.
LEMMA ResolveIsGood ==
  ASSUME NEW contract, ValidContract(contract), NEW dataset, IsDataset(contract, dataset),
         NEW rel \in Range(contract.relations),
         rel.from \in contract.unique => contract.count[rel.from[1]] <= contract.count[rel.to[1]],
         rel.to \in contract.nullable => rel.from \in contract.nullable,
         GoodColumn(contract, dataset, rel.to[1], rel.to[2])
  PROVE  GoodColumn(contract, Resolve(dataset, rel), rel.from[1], rel.from[2])
<1> DEFINE t == rel.from[1]
           f == rel.from[2]
           after == Resolve(dataset, rel)
           value(i) == dataset[rel.to[1]][i][rel.to[2]]
           n == contract.count[rel.to[1]]
           at(i) == Target(contract, rel, i)
<1>1. /\ rel.from = <<t, f>> /\ rel.to = <<rel.to[1], rel.to[2]>>
      /\ t \in RecordTypes(contract) /\ f \in Fields /\ rel.to[1] \in RecordTypes(contract)
      /\ contract.spec[<<t, f>>].type = contract.spec[rel.to].type /\ rel.to \in contract.unique
  BY RelationFields
<1>2. contract.count[t] \in Nat /\ n \in Nat
  BY <1>1 DEF ValidContract
<1>3. \A i \in 1 .. contract.count[t] : after[t][i][f] = value(at(i))
  BY <1>1, ResolveValue
<1>4. \A i \in 1 .. contract.count[t] : at(i) \in 1 .. n /\ (i <= n => at(i) = i)
  BY TargetIsThere
<1>5. /\ \A i \in 1 .. n : IF value(i) = None THEN rel.to \in contract.nullable
                           ELSE Fits(value(i), contract.spec[rel.to].type)
      /\ \A i, j \in 1 .. n : i # j /\ value(i) = value(j) => value(i) = None
  BY <1>1 DEF GoodColumn
<1> HIDE DEF after, value, n, at
<1>6. ASSUME NEW i \in 1 .. contract.count[t]
      PROVE  IF after[t][i][f] = None THEN <<t, f>> \in contract.nullable
             ELSE Fits(after[t][i][f], contract.spec[<<t, f>>].type)
  <2>1. IF value(at(i)) = None THEN rel.to \in contract.nullable
        ELSE Fits(value(at(i)), contract.spec[rel.to].type)
    BY <1>4, <1>5
  <2> QED
    BY <1>1, <1>3, <2>1
<1>7. ASSUME <<t, f>> \in contract.unique,
             NEW i \in 1 .. contract.count[t], NEW j \in 1 .. contract.count[t],
             i # j, after[t][i][f] = after[t][j][f]
      PROVE  after[t][i][f] = None
  <2>1. contract.count[t] <= n
    BY <1>1, <1>7 DEF n
  <2>2. i <= n /\ j <= n
    BY <1>2, <2>1
  <2>3. at(i) = i /\ at(j) = j /\ i \in 1 .. n /\ j \in 1 .. n
    BY <1>4, <2>2
  <2>4. after[t][i][f] = value(i) /\ after[t][j][f] = value(j)
    BY <1>3, <2>3
  <2> QED
    BY <1>5, <1>7, <2>3, <2>4
<1>8. GoodColumn(contract, after, t, f)
  BY <1>6, <1>7 DEF GoodColumn
<1> QED
  BY <1>8 DEF after

\* A relation holds once it is resolved.
LEMMA ResolveHolds ==
  ASSUME NEW contract, ValidContract(contract), NEW dataset, IsDataset(contract, dataset),
         NEW rel \in Range(contract.relations)
  PROVE  Holds(contract, Resolve(dataset, rel), rel)
<1> DEFINE after == Resolve(dataset, rel)
<1>1. /\ rel.from = <<rel.from[1], rel.from[2]>> /\ rel.to = <<rel.to[1], rel.to[2]>>
      /\ rel.from[1] \in RecordTypes(contract) /\ rel.from[2] \in Fields
      /\ rel.to[1] \in RecordTypes(contract) /\ rel.to[2] \in Fields
  BY RelationFields
<1>2. CASE rel.from = rel.to
  BY <1>2 DEF Holds
<1>3. CASE rel.from # rel.to
  <2> SUFFICES ASSUME NEW i \in 1 .. contract.count[rel.from[1]]
               PROVE  \E j \in 1 .. contract.count[rel.to[1]] :
                         after[rel.to[1]][j][rel.to[2]] = after[rel.from[1]][i][rel.from[2]]
    BY DEF Holds
  <2> DEFINE j == Target(contract, rel, i)
  <2>1. j \in 1 .. contract.count[rel.to[1]]
    BY TargetIsThere
  <2>2. after[rel.from[1]][i][rel.from[2]] = dataset[rel.to[1]][j][rel.to[2]]
    BY <1>1, ResolveValue
  <2> HIDE DEF j
  <2>3. after[rel.to[1]][j][rel.to[2]] = dataset[rel.to[1]][j][rel.to[2]]
    BY <1>1, <1>3, <2>1, ResolveValue
  <2> QED
    BY <2>1, <2>2, <2>3
<1> QED
  BY <1>2, <1>3

\* ... and as long as neither of its fields is overwritten.
LEMMA HoldsStays ==
  ASSUME NEW contract, ValidContract(contract), NEW dataset, IsDataset(contract, dataset),
         NEW rel \in Range(contract.relations), NEW held \in Range(contract.relations),
         Holds(contract, dataset, held), held.from # rel.from, held.to # rel.from
  PROVE  Holds(contract, Resolve(dataset, rel), held)
<1> DEFINE after == Resolve(dataset, rel)
<1>1. /\ held.from = <<held.from[1], held.from[2]>> /\ held.to = <<held.to[1], held.to[2]>>
      /\ held.from[1] \in RecordTypes(contract) /\ held.from[2] \in Fields
      /\ held.to[1] \in RecordTypes(contract) /\ held.to[2] \in Fields
  BY RelationFields
<1>2. \A i \in 1 .. contract.count[held.from[1]] :
         after[held.from[1]][i][held.from[2]] = dataset[held.from[1]][i][held.from[2]]
  BY <1>1, ResolveValue
<1>3. \A j \in 1 .. contract.count[held.to[1]] :
         after[held.to[1]][j][held.to[2]] = dataset[held.to[1]][j][held.to[2]]
  BY <1>1, ResolveValue
<1> HIDE DEF after
<1>4. Holds(contract, after, held)
  BY <1>2, <1>3 DEF Holds
<1> QED
  BY <1>4 DEF after

\* No relation that is still to be resolved overwrites this field.
Settled(contract, t, f, k) ==
    \A i \in k + 1 .. Len(contract.relations) :
        contract.relations[i].from = <<t, f>> => contract.relations[i].to = <<t, f>>

\* A field that no relation overwrites is drawn from a distribution that suits it.
LEMMA DrawIsSuited ==
  ASSUME NEW contract, ValidContract(contract), Satisfiable(contract),
         NEW t \in RecordTypes(contract), NEW f \in Fields, Settled(contract, t, f, 0)
  PROVE  LET spec == contract.spec[<<t, f>>]
             numeric == spec.type \in {"integer", "number"}
         IN  /\ spec.type \in Types /\ spec.draw \in Draws
             /\ \A value \in spec.listed : IF value = None THEN <<t, f>> \in contract.nullable
                                           ELSE Fits(value, spec.type)
             /\ spec.draw \in {"normal", "sequence"} => numeric
             /\ spec.draw = "uuid" => spec.type = "string"
             /\ <<t, f>> \in contract.unique /\ contract.count[t] > 1 =>
                   /\ spec.draw # "constant"
                   /\ ~(spec.type = "integer" /\ spec.draw = "normal")
                   /\ spec.type = "boolean" /\ spec.draw = "default" => contract.count[t] = 2
<1> DEFINE spec == contract.spec[<<t, f>>]
           relations == contract.relations
<1>1. <<t, f>> \in DOMAIN contract.spec /\ spec.type \in Types /\ spec.draw \in Draws
  BY DEF ValidContract
<1>2. ~\E rel \in Range(relations) : rel.from = <<t, f>> /\ rel.to # <<t, f>>
  <2>1. relations \in Seq(Range(relations))
    BY DEF ValidContract
  <2>2. \A i \in 0 + 1 .. Len(relations) : relations[i].from = <<t, f>> => relations[i].to = <<t, f>>
    BY DEF Settled
  <2> HIDE DEF relations
  <2>3. DOMAIN relations = 0 + 1 .. Len(relations)
    BY <2>1
  <2> QED
    BY <2>2, <2>3 DEF Range
<1>3. /\ spec.draw = "normal" => spec.type \in {"integer", "number"}
      /\ spec.draw = "sequence" => spec.type \in {"integer", "number"}
      /\ spec.draw = "uuid" => spec.type = "string"
      /\ <<t, f>> \in contract.unique /\ contract.count[<<t, f>>[1]] > 1 =>
            /\ spec.draw # "constant"
            /\ ~(spec.type = "integer" /\ spec.draw = "normal")
            /\ spec.type = "boolean" /\ spec.draw = "default" => contract.count[<<t, f>>[1]] = 2
      /\ \A value \in spec.listed : IF value = None THEN <<t, f>> \in contract.nullable
                                    ELSE Fits(value, spec.type)
  BY <1>1, <1>2 DEF Satisfiable
<1> HIDE DEF spec
<1> QED
  BY <1>1, <1>3 DEF spec

\* What is drawn for such a field has its type.
LEMMA DrawFits ==
  ASSUME NEW content, ValidContent(content), Satisfiable(content.contract),
         NEW t \in RecordTypes(content.contract), NEW f \in Fields, Settled(content.contract, t, f, 0),
         NEW i \in 1 .. content.contract.count[t], <<t, f, i>> \notin content.nulls
  PROVE  Fits(Draw(content, t, f, i), content.contract.spec[<<t, f>>].type)
<1> DEFINE spec == content.contract.spec[<<t, f>>]
           value == Draw(content, t, f, i)
<1>1. /\ spec.type \in Types /\ spec.draw \in Draws
      /\ spec.draw \in {"normal", "sequence"} => spec.type \in {"integer", "number"}
      /\ spec.draw = "uuid" => spec.type = "string"
      /\ \A listed \in spec.listed \ {None} : Fits(listed, spec.type)
  BY DrawIsSuited DEF ValidContent
<1>2. /\ spec.draw \in {"normal", "default"} => value[1] = spec.type
      /\ spec.draw = "sequence" => value[1] = "integer"
      /\ spec.draw = "uuid" => value[1] = "string"
      /\ spec.draw = "constant" => value[1] = content.picked[<<t, f, i>>][1]
  BY DEF Draw
<1>3. spec.draw = "constant" => content.picked[<<t, f, i>>] \in spec.listed \ {None}
  BY DEF ValidContent
<1> HIDE DEF spec, value
<1>4. spec.draw = "constant" => Fits(value, spec.type)
  <2> HAVE spec.draw = "constant"
  <2> DEFINE listed == content.picked[<<t, f, i>>]
  <2>1. Fits(listed, spec.type) /\ value[1] = listed[1]
    BY <1>1, <1>2, <1>3
  <2> HIDE DEF listed
  <2> QED
    BY <2>1 DEF Fits
<1>5. spec.draw # "constant" => Fits(value, spec.type)
  <2> HAVE spec.draw # "constant"
  <2>1. value[1] = spec.type \/ (value[1] = "integer" /\ spec.type \in {"integer", "number"})
    BY <1>1, <1>2 DEF Draws
  <2> QED
    BY <2>1 DEF Fits
<1>6. Fits(value, spec.type)
  BY <1>4, <1>5
<1> QED
  BY <1>6 DEF spec, value

\* ... and differs from row to row if the field is unique.
LEMMA DrawsDiffer ==
  ASSUME NEW content, ValidContent(content), Satisfiable(content.contract),
         NEW t \in RecordTypes(content.contract), NEW f \in Fields, Settled(content.contract, t, f, 0),
         <<t, f>> \in content.contract.unique,
         NEW i \in 1 .. content.contract.count[t], NEW j \in 1 .. content.contract.count[t], i # j
  PROVE  Draw(content, t, f, i) # Draw(content, t, f, j)
<1> DEFINE spec == content.contract.spec[<<t, f>>]
           n == content.contract.count[t]
           one == Draw(content, t, f, i)
           other == Draw(content, t, f, j)
<1>1. n \in Nat /\ n > 1
  <2>1. n \in Nat
    BY DEF ValidContent, ValidContract
  <2> QED
    BY <2>1
<1>2. /\ spec.type \in Types /\ spec.draw \in Draws
      /\ spec.draw # "constant" /\ ~(spec.type = "integer" /\ spec.draw = "normal")
      /\ spec.draw = "normal" => spec.type = "number"
      /\ spec.type = "boolean" /\ spec.draw = "default" => n = 2
  BY <1>1, DrawIsSuited DEF ValidContent
<1>3. CASE spec.draw = "sequence"
  <2>1. one = <<"integer", <<"nth", i>>>> /\ other = <<"integer", <<"nth", j>>>>
    BY <1>3 DEF Draw
  <2> HIDE DEF one, other
  <2>2. one # other
    BY <2>1
  <2> QED
    BY <2>2 DEF one, other
<1>4. CASE spec.draw \in {"uuid", "normal"} \/ (spec.draw = "default" /\ spec.type = "string")
  <2>1. /\ one[2] = <<content.seed, t, f, i>>
        /\ other[2] = <<content.seed, t, f, j>>
    BY <1>2, <1>4 DEF Draw
  <2> HIDE DEF one, other
  <2>2. one # other
    BY <2>1
  <2> QED
    BY <2>2 DEF one, other
<1>5. CASE spec.draw = "default" /\ spec.type = "boolean"
  <2>1. one[2] = <<"nth", i % 2>> /\ other[2] = <<"nth", j % 2>>
    BY <1>5 DEF Draw
  <2>2. i \in 1 .. 2 /\ j \in 1 .. 2
    BY <1>2, <1>5
  <2>3. i % 2 # j % 2
    BY <2>2
  <2> HIDE DEF one, other
  <2>4. one # other
    BY <2>1, <2>3
  <2> QED
    BY <2>4 DEF one, other
<1>6. CASE spec.draw = "default" /\ spec.type \notin {"string", "boolean"}
  <2>1. one[2] = <<t, f, i>> /\ other[2] = <<t, f, j>>
    BY <1>6 DEF Draw
  <2> HIDE DEF one, other
  <2>2. one # other
    BY <2>1
  <2> QED
    BY <2>2 DEF one, other
<1> QED
  BY <1>2, <1>3, <1>4, <1>5, <1>6 DEF Draws

\* What is drawn is good before the first relation is resolved.
LEMMA DrawnIsGood ==
  ASSUME NEW content, ValidContent(content), Satisfiable(content.contract),
         NEW t \in RecordTypes(content.contract), NEW f \in Fields, Settled(content.contract, t, f, 0)
  PROVE  GoodColumn(content.contract, Values(content), t, f)
<1> DEFINE contract == content.contract
           n == contract.count[t]
           value(i) == Values(content)[t][i][f]
<1>1. \A i \in 1 .. n : value(i) = IF <<t, f, i>> \in content.nulls THEN None ELSE Draw(content, t, f, i)
  BY DEF Values
<1>2. \A i \in 1 .. n : <<t, f, i>> \notin content.nulls => Draw(content, t, f, i) # None
  BY DEF ValidContent
<1>3. \A i : <<t, f, i>> \in content.nulls => <<t, f>> \in contract.nullable
  <2>1. None \in contract.spec[<<t, f>>].listed => <<t, f>> \in contract.nullable
    BY DrawIsSuited DEF ValidContent
  <2> QED
    BY <2>1 DEF ValidContent
<1>4. \A i \in 1 .. n : <<t, f, i>> \notin content.nulls =>
         Fits(Draw(content, t, f, i), contract.spec[<<t, f>>].type)
  BY DrawFits
<1>5. <<t, f>> \in contract.unique =>
         \A i, j \in 1 .. n : i # j => Draw(content, t, f, i) # Draw(content, t, f, j)
  BY DrawsDiffer
<1> HIDE DEF n, value, contract
<1>6. ASSUME NEW i \in 1 .. n
      PROVE  IF value(i) = None THEN <<t, f>> \in contract.nullable
             ELSE Fits(value(i), contract.spec[<<t, f>>].type)
  <2>1. CASE <<t, f, i>> \in content.nulls
    <3>1. value(i) = None /\ <<t, f>> \in contract.nullable
      BY <1>1, <1>3, <2>1
    <3> QED
      BY <3>1
  <2>2. CASE <<t, f, i>> \notin content.nulls
    <3>1. value(i) = Draw(content, t, f, i) /\ value(i) # None
      BY <1>1, <1>2, <2>2
    <3>2. Fits(Draw(content, t, f, i), contract.spec[<<t, f>>].type)
      BY <1>4, <2>2
    <3> QED
      BY <3>1, <3>2
  <2> QED
    BY <2>1, <2>2
<1>7. <<t, f>> \in contract.unique =>
         \A i, j \in 1 .. n : i # j /\ value(i) = value(j) => value(i) = None
  BY <1>1, <1>2, <1>5
<1> QED
  BY <1>6, <1>7 DEF GoodColumn, contract, n, value

\* After k relations: they hold, and what no other overwrites is good.
Resolved(contract, dataset, k) ==
    /\ IsDataset(contract, dataset)
    /\ \A t \in RecordTypes(contract), f \in Fields :
          Settled(contract, t, f, k) => GoodColumn(contract, dataset, t, f)
    /\ \A i \in 1 .. k : Holds(contract, dataset, contract.relations[i])

\* One relation of an orderly contract.
LEMMA ResolveOne ==
  ASSUME NEW contract, ValidContract(contract), Orderly(contract),
         NEW k \in 0 .. Len(contract.relations) - 1, NEW dataset, Resolved(contract, dataset, k)
  PROVE  Resolved(contract, Resolve(dataset, contract.relations[k + 1]), k + 1)
<1> DEFINE relations == contract.relations
           n == Len(relations)
           rel == relations[k + 1]
           after == Resolve(dataset, rel)
<1>1. relations \in Seq(Range(relations))
  BY DEF ValidContract
<1>2. /\ n \in Nat /\ DOMAIN relations = 1 .. n /\ k \in Nat
      /\ k + 1 \in 1 .. n /\ \A i \in 1 .. n : relations[i] \in Range(relations)
  <2> HIDE DEF relations
  <2>1. n \in Nat /\ DOMAIN relations = 1 .. n
    BY <1>1
  <2>2. \A i \in 1 .. n : relations[i] \in Range(relations)
    BY <2>1 DEF Range
  <2>3. k \in 0 .. n - 1
    BY DEF relations
  <2> HIDE DEF n
  <2> QED
    BY <2>1, <2>2, <2>3
<1>3. /\ \A i, j \in 1 .. n : i < j => relations[i].to # relations[j].from
                                    /\ relations[i].from # relations[j].from
      /\ rel.from \in contract.unique => contract.count[rel.from[1]] <= contract.count[rel.to[1]]
      /\ rel.to \in contract.nullable => rel.from \in contract.nullable
  BY <1>2 DEF Orderly
<1>4. rel \in Range(contract.relations)
  BY <1>2
<1>5. IsDataset(contract, dataset) /\ IsDataset(contract, after)
  BY ResolveKeepsDataset DEF Resolved
<1>6. /\ rel.from = <<rel.from[1], rel.from[2]>> /\ rel.to = <<rel.to[1], rel.to[2]>>
      /\ rel.to[1] \in RecordTypes(contract) /\ rel.to[2] \in Fields
  BY <1>4, RelationFields
<1> HIDE DEF n, rel, after
<1>7. ASSUME NEW t \in RecordTypes(contract), NEW f \in Fields, Settled(contract, t, f, k + 1)
      PROVE  GoodColumn(contract, after, t, f)
  <2>1. \A i \in k + 1 .. n : i # k + 1 => i \in (k + 1) + 1 .. n
    BY <1>2
  <2>2. CASE rel.from # <<t, f>> \/ rel.to = <<t, f>>
    <3>1. Settled(contract, t, f, k)
      BY <1>7, <2>1, <2>2 DEF Settled, n, rel
    <3>2. GoodColumn(contract, dataset, t, f)
      BY <3>1 DEF Resolved
    <3>3. \A i \in 1 .. contract.count[t] : after[t][i][f] = dataset[t][i][f]
      BY <1>4, <1>5, <2>2, ResolveValue, ResolveSelf DEF after
    <3> QED
      BY <3>2, <3>3, SameColumn
  <2>3. CASE rel.from = <<t, f>> /\ rel.to # <<t, f>>
    <3>1. Settled(contract, rel.to[1], rel.to[2], k)
      <4>1. \A i \in (k + 1) + 1 .. n : relations[i].from # rel.to
        <5>1. \A i \in (k + 1) + 1 .. n : i \in 1 .. n /\ k + 1 < i
          BY <1>2
        <5> QED
          BY <1>2, <1>3, <5>1 DEF rel
      <4>2. relations[k + 1].from # rel.to
        BY <2>3 DEF rel
      <4>3. \A i \in k + 1 .. n : relations[i].from # rel.to
        BY <2>1, <4>1, <4>2
      <4> QED
        BY <1>6, <4>3 DEF Settled, n
    <3>2. GoodColumn(contract, dataset, rel.to[1], rel.to[2])
      BY <1>6, <3>1 DEF Resolved
    <3>3. GoodColumn(contract, after, rel.from[1], rel.from[2])
      BY <1>3, <1>4, <1>5, <3>2, ResolveIsGood DEF after
    <3> QED
      BY <2>3, <3>3
  <2> QED
    BY <2>2, <2>3
<1>8. ASSUME NEW i \in 1 .. k + 1
      PROVE  Holds(contract, after, relations[i])
  <2>1. CASE i = k + 1
    BY <1>4, <1>5, <2>1, ResolveHolds DEF after, rel
  <2>2. CASE i # k + 1
    <3>1. i \in 1 .. k /\ i \in 1 .. n /\ i < k + 1
      BY <1>2, <2>2
    <3>2. Holds(contract, dataset, relations[i]) /\ relations[i] \in Range(contract.relations)
      BY <1>2, <3>1 DEF Resolved
    <3>3. relations[i].from # rel.from /\ relations[i].to # rel.from
      BY <1>2, <1>3, <3>1 DEF rel
    <3> QED
      BY <1>4, <1>5, <3>2, <3>3, HoldsStays DEF after
  <2> QED
    BY <2>1, <2>2
<1>9. Resolved(contract, after, k + 1)
  BY <1>5, <1>7, <1>8 DEF Resolved
<1> QED
  BY <1>9 DEF after, rel

\* All of them.
LEMMA GeneratedIsResolved ==
  ASSUME NEW content, ValidContent(content), Orderly(content.contract), Satisfiable(content.contract)
  PROVE  Resolved(content.contract, Generated(content), Len(content.contract.relations))
<1> DEFINE contract == content.contract
           relations == contract.relations
           n == Len(relations)
<1>1. ValidContract(contract) /\ relations \in Seq(Range(relations))
  BY DEF ValidContent, ValidContract
<1>2. n \in Nat /\ DOMAIN relations = 1 .. n
  <2> HIDE DEF relations
  <2> QED
    BY <1>1
<1>3. PICK run : /\ Run(run, "resolve", Values(content), relations, n)
                 /\ FoldLeft(Resolve, Values(content), relations) = run[n]
  <2> HIDE DEF n, relations
  <2> QED
    BY <1>2, FoldResolve
<1> DEFINE S == {k \in 0 .. n : Resolved(contract, run[k], k)}
<1>4. 0 \in S
  <2>1. run[0] = Values(content)
    BY <1>3 DEF Run
  <2>2. IsDataset(contract, Values(content))
    BY ValuesAreDataset
  <2>3. \A t \in RecordTypes(contract), f \in Fields :
           Settled(contract, t, f, 0) => GoodColumn(contract, Values(content), t, f)
    BY DrawnIsGood
  <2> QED
    BY <1>2, <2>1, <2>2, <2>3 DEF Resolved
<1>5. ASSUME NEW k \in 0 .. n - 1, k \in S
      PROVE  k + 1 \in S
  <2>1. k + 1 \in 1 .. n /\ k + 1 \in 0 .. n /\ (k + 1) - 1 = k
    BY <1>2
  <2>2. run[k + 1] = Resolve(run[k], relations[k + 1])
    BY <1>3, <2>1 DEF Run, Step
  <2>3. Resolved(contract, run[k + 1], k + 1)
    BY <1>1, <1>5, <2>2, ResolveOne
  <2> QED
    BY <2>1, <2>3
<1>6. n \in S
  <2> HIDE DEF S
  <2>1. 0 .. n \subseteq S
    BY <1>2, <1>4, <1>5, Induction
  <2> QED
    BY <1>2, <2>1
<1> QED
  BY <1>3, <1>6 DEF Generated

\* A dataset all of whose relations are resolved is accepted.
LEMMA ResolvedIsAccepted ==
  ASSUME NEW contract, ValidContract(contract), NEW dataset,
         Resolved(contract, dataset, Len(contract.relations))
  PROVE  Accepted(contract, dataset)
<1> DEFINE relations == contract.relations
           n == Len(relations)
<1>1. relations \in Seq(Range(relations)) /\ \A t \in RecordTypes(contract) : contract.count[t] \in Nat
  BY DEF ValidContract
<1>2. n \in Nat /\ DOMAIN relations = 1 .. n /\ n + 1 .. n = {}
  <2> HIDE DEF relations
  <2> QED
    BY <1>1
<1>3. \A t \in RecordTypes(contract) : DOMAIN dataset[t] = 1 .. contract.count[t]
  BY DEF Resolved, IsDataset
<1>4. ASSUME NEW t \in RecordTypes(contract), NEW f \in Fields
      PROVE  LET column == [i \in DOMAIN dataset[t] |-> dataset[t][i][f]]
             IN  /\ \A value \in Range(column) :
                       IF value = None THEN <<t, f>> \in contract.nullable
                       ELSE Fits(value, contract.spec[<<t, f>>].type)
                 /\ <<t, f>> \in contract.unique =>
                       \A i, j \in DOMAIN column :
                           i # j /\ column[i] = column[j] => column[i] = None
  <2> DEFINE column == [i \in DOMAIN dataset[t] |-> dataset[t][i][f]]
             m == contract.count[t]
  <2>1. Settled(contract, t, f, n)
    BY <1>2 DEF Settled
  <2>2. GoodColumn(contract, dataset, t, f)
    BY <2>1 DEF Resolved
  <2>3. DOMAIN column = 1 .. m /\ \A i \in 1 .. m : column[i] = dataset[t][i][f]
    BY <1>3
  <2> HIDE DEF column
  <2>4. \A value \in Range(column) : \E i \in 1 .. m : value = dataset[t][i][f]
    BY <2>3 DEF Range
  <2>5. \A value \in Range(column) :
           IF value = None THEN <<t, f>> \in contract.nullable
           ELSE Fits(value, contract.spec[<<t, f>>].type)
    BY <2>2, <2>4 DEF GoodColumn
  <2>6. <<t, f>> \in contract.unique =>
           \A i, j \in DOMAIN column : i # j /\ column[i] = column[j] => column[i] = None
    BY <2>2, <2>3 DEF GoodColumn
  <2> QED
    BY <2>5, <2>6 DEF column
<1>5. ASSUME NEW rel \in Range(contract.relations), NEW row \in Range(dataset[rel.from[1]])
      PROVE  \E target \in Range(dataset[rel.to[1]]) : target[rel.to[2]] = row[rel.from[2]]
  <2>1. rel.from[1] \in RecordTypes(contract) /\ rel.to[1] \in RecordTypes(contract)
    BY RelationFields
  <2>2. PICK k \in 1 .. n : rel = relations[k]
    BY <1>2 DEF Range
  <2>3. Holds(contract, dataset, rel)
    BY <2>2 DEF Resolved
  <2>4. PICK i \in 1 .. contract.count[rel.from[1]] : row = dataset[rel.from[1]][i]
    BY <1>3, <2>1 DEF Range
  <2>5. PICK j \in 1 .. contract.count[rel.to[1]] :
           dataset[rel.to[1]][j][rel.to[2]] = dataset[rel.from[1]][i][rel.from[2]]
    BY <2>3 DEF Holds
  <2>6. dataset[rel.to[1]][j] \in Range(dataset[rel.to[1]])
    BY <1>3, <2>1 DEF Range
  <2> QED
    BY <2>4, <2>5, <2>6
<1> QED
  BY <1>4, <1>5 DEF Accepted

\* A contract whose relations are listed so that no value is overwritten after it
\* was copied, and whose distributions fit its fields, is never refused by the
\* service's own validator: whatever its fields, counts and relations
\* (providers/deterministic.py:111-142, dataset.py:67-121).
THEOREM SpecOrderlyContractsGenerate == Spec => []OrderlyContractsGenerate
<1>1. ASSUME NEW content, ValidContent(content), Orderly(content.contract), Satisfiable(content.contract)
      PROVE  Outcome(content) # "CONTRACT_INVALID"
  <2>1. Accepted(content.contract, Generated(content))
    BY <1>1, GeneratedIsResolved, ResolvedIsAccepted DEF ValidContent
  <2>2. Selection(content) # "CONTRACT_INVALID"
    BY <1>1 DEF Selection, Satisfiable
  <2> QED
    BY <2>1, <2>2 DEF Outcome
<1>2. KeyInv => OrderlyContractsGenerate
  BY <1>1, SceneAssumption DEF KeyInv, OrderlyContractsGenerate
<1> QED
  BY <1>2, KeysAreInStep, PTL
=============================================================================
