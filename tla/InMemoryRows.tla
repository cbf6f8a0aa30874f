---------------------------- MODULE InMemoryRows ----------------------------
(***************************************************************************)
(* Whose rows are in the tables of a tenant nobody else writes to: for     *)
(* every row there is one row of a dataset of a committed generation that  *)
(* it is the copy of, and for every such row one copy.  An insertion adds  *)
(* a copy for each row of its dataset; an entry of a ledger finds the copy *)
(* it was written for, because that is there, has the key, and no other    *)
(* has.  So a generation can be deleted: what refers to a row of it is a   *)
(* copy of its own, of lower rank, and gone before.  And a dataset fits:   *)
(* what a row refers to is inserted before it, and its keys are not those  *)
(* of another seed.                                                        *)
(***************************************************************************)
EXTENDS InMemoryLoops

-----------------------------------------------------------------------------
(* The rows of a dataset, in the order they are inserted *)

\* Element j of a flat sequence is element at[j][2] of sequence at[j][1]; the
\* sequences follow each other.
Listed(at, flat, seqs, n) ==
    /\ \A j \in 1 .. Len(flat) :
          /\ at[j] = <<at[j][1], at[j][2]>>
          /\ at[j][1] \in 1 .. n /\ at[j][2] \in 1 .. Len(seqs[at[j][1]])
          /\ flat[j] = seqs[at[j][1]][at[j][2]]
    /\ \A i, j \in 1 .. Len(flat) : /\ at[i] = at[j] => i = j
                                    /\ i < j => at[i][1] <= at[j][1]
    /\ \A a \in 1 .. n : \A b \in 1 .. Len(seqs[a]) : \E j \in 1 .. Len(flat) : at[j] = <<a, b>>

\* One more sequence.
LEMMA ListedMore ==
  ASSUME NEW E, NEW n \in Nat, NEW seqs, \A a \in 1 .. n + 1 : seqs[a] \in Seq(E),
         NEW flat \in Seq(E), NEW at, Listed(at, flat, seqs, n)
  PROVE  \E more : Listed(more, flat \o seqs[n + 1], seqs, n + 1)
<1> DEFINE m == Len(flat)
           last == seqs[n + 1]
           k == Len(last)
           all == flat \o last
           more == [j \in 1 .. m + k |-> IF j <= m THEN at[j] ELSE <<n + 1, j - m>>]
<1>1. m \in Nat /\ k \in Nat /\ last \in Seq(E) /\ n + 1 \in 1 .. n + 1
  <2>1. n + 1 \in 1 .. n + 1
    OBVIOUS
  <2> QED
    BY <2>1
<1>2. /\ Len(all) = m + k
      /\ \A j \in 1 .. m + k : all[j] = IF j <= m THEN flat[j] ELSE last[j - m]
  BY <1>1, ConcatProperties
<1>3. \A j \in 1 .. m + k : more[j] = IF j <= m THEN at[j] ELSE <<n + 1, j - m>>
  OBVIOUS
<1>4. /\ \A j \in 1 .. m : /\ at[j] = <<at[j][1], at[j][2]>>
                           /\ at[j][1] \in 1 .. n /\ at[j][2] \in 1 .. Len(seqs[at[j][1]])
                           /\ flat[j] = seqs[at[j][1]][at[j][2]]
      /\ \A i, j \in 1 .. m : /\ at[i] = at[j] => i = j
                              /\ i < j => at[i][1] <= at[j][1]
      /\ \A a \in 1 .. n : \A b \in 1 .. Len(seqs[a]) : \E j \in 1 .. m : at[j] = <<a, b>>
  BY DEF Listed
<1> HIDE DEF m, k, all, more
<1>5. \A j \in 1 .. m + k : \/ j \in 1 .. m /\ more[j] = at[j] /\ all[j] = flat[j]
                            \/ /\ j \notin 1 .. m /\ j - m \in 1 .. k
                               /\ more[j] = <<n + 1, j - m>> /\ all[j] = last[j - m]
  <2> SUFFICES ASSUME NEW j \in 1 .. m + k
               PROVE  \/ j \in 1 .. m /\ more[j] = at[j] /\ all[j] = flat[j]
                      \/ /\ j \notin 1 .. m /\ j - m \in 1 .. k
                         /\ more[j] = <<n + 1, j - m>> /\ all[j] = last[j - m]
    OBVIOUS
  <2> HIDE DEF last
  <2>1. CASE j <= m
    <3>1. j \in 1 .. m
      BY <1>1, <2>1
    <3> QED
      BY <1>2, <1>3, <2>1, <3>1
  <2>2. CASE ~(j <= m)
    <3>1. j \notin 1 .. m /\ j - m \in 1 .. k
      BY <1>1, <2>2
    <3> QED
      BY <1>2, <1>3, <2>2, <3>1
  <2> QED
    BY <2>1, <2>2
<1>6. ASSUME NEW j \in 1 .. m + k
      PROVE  /\ more[j] = <<more[j][1], more[j][2]>>
             /\ more[j][1] \in 1 .. n + 1 /\ more[j][2] \in 1 .. Len(seqs[more[j][1]])
             /\ all[j] = seqs[more[j][1]][more[j][2]]
  <2>1. CASE j \in 1 .. m /\ more[j] = at[j] /\ all[j] = flat[j]
    <3>1. more[j][1] \in 1 .. n + 1
      BY <1>4, <2>1
    <3> QED
      BY <1>4, <2>1, <3>1
  <2>2. CASE j - m \in 1 .. k /\ more[j] = <<n + 1, j - m>> /\ all[j] = last[j - m]
    <3>1. more[j][1] = n + 1 /\ more[j][2] = j - m
      BY <2>2
    <3> QED
      BY <1>1, <2>2, <3>1 DEF k
  <2> QED
    BY <1>5, <2>1, <2>2
<1>7. ASSUME NEW i \in 1 .. m + k, NEW j \in 1 .. m + k
      PROVE  /\ more[i] = more[j] => i = j
             /\ i < j => more[i][1] <= more[j][1]
  <2>1. CASE i \in 1 .. m /\ j \in 1 .. m
    <3>1. more[i] = at[i] /\ more[j] = at[j]
      BY <1>5, <2>1
    <3> QED
      BY <1>4, <2>1, <3>1
  <2>2. CASE i \in 1 .. m /\ j \notin 1 .. m
    <3>1. more[i] = at[i] /\ more[j] = <<n + 1, j - m>> /\ at[i][1] \in 1 .. n
      BY <1>4, <1>5, <2>2
    <3>2. more[j][1] = n + 1 /\ more[i][1] \in 1 .. n
      BY <3>1
    <3> QED
      BY <3>2
  <2>3. CASE i \notin 1 .. m /\ j \in 1 .. m
    <3>1. more[j] = at[j] /\ more[i] = <<n + 1, i - m>> /\ at[j][1] \in 1 .. n
      BY <1>4, <1>5, <2>3
    <3>2. more[i][1] = n + 1 /\ more[j][1] \in 1 .. n
      BY <3>1
    <3>3. ~(i < j)
      BY <1>1, <2>3
    <3> QED
      BY <3>2, <3>3
  <2>4. CASE i \notin 1 .. m /\ j \notin 1 .. m
    <3>1. more[i] = <<n + 1, i - m>> /\ more[j] = <<n + 1, j - m>>
      BY <1>5, <2>4
    <3>2. more[i][1] = n + 1 /\ more[j][1] = n + 1 /\ more[i][2] = i - m /\ more[j][2] = j - m
      BY <3>1
    <3> QED
      BY <1>1, <3>2
  <2> QED
    BY <2>1, <2>2, <2>3, <2>4
<1>8. ASSUME NEW a \in 1 .. n + 1, NEW b \in 1 .. Len(seqs[a])
      PROVE  \E j \in 1 .. m + k : more[j] = <<a, b>>
  <2>1. CASE a \in 1 .. n
    <3>1. PICK j \in 1 .. m : at[j] = <<a, b>>
      BY <1>4, <2>1
    <3>2. j \in 1 .. m + k
      BY <1>1
    <3>3. more[j] = at[j]
      BY <1>5, <3>2
    <3> QED
      BY <3>1, <3>2, <3>3
  <2>2. CASE a = n + 1
    <3>1. b \in 1 .. k
      BY <2>2 DEF k
    <3>2. m + b \in 1 .. m + k /\ m + b \notin 1 .. m /\ (m + b) - m = b
      BY <1>1, <3>1
    <3>3. more[m + b] = <<n + 1, (m + b) - m>>
      BY <1>5, <3>2
    <3> QED
      BY <2>2, <3>2, <3>3
  <2> QED
    BY <2>1, <2>2
<1> HIDE DEF last
<1>9. 1 .. m + k = 1 .. Len(all)
  BY <1>2
<1>10. \A j \in 1 .. Len(all) : /\ more[j] = <<more[j][1], more[j][2]>>
                                /\ more[j][1] \in 1 .. n + 1 /\ more[j][2] \in 1 .. Len(seqs[more[j][1]])
                                /\ all[j] = seqs[more[j][1]][more[j][2]]
  BY <1>6, <1>9
<1>11. \A i, j \in 1 .. Len(all) : /\ more[i] = more[j] => i = j
                                   /\ i < j => more[i][1] <= more[j][1]
  BY <1>7, <1>9
<1>12. \A a \in 1 .. n + 1 : \A b \in 1 .. Len(seqs[a]) : \E j \in 1 .. Len(all) : more[j] = <<a, b>>
  BY <1>8, <1>9
<1>13. Listed(more, all, seqs, n + 1)
  BY <1>10, <1>11, <1>12 DEF Listed
<1> QED
  BY <1>13 DEF all, last

\* All of them.
LEMMA FlattenPlaces ==
  ASSUME NEW E, NEW seqs \in Seq(Seq(E))
  PROVE  \E at : Listed(at, FlattenSeq(seqs), seqs, Len(seqs))
<1> DEFINE n == Len(seqs)
<1>1. n \in Nat /\ \A i \in 1 .. n : seqs[i] \in Seq(E)
  OBVIOUS
<1>2. PICK flatten : /\ n # 0 => FlattenSeq(seqs) = flatten[n]
                     /\ \A i \in 1 .. n : flatten[i] = IF i = 1 THEN seqs[i] ELSE flatten[i - 1] \o seqs[i]
  BY <1>1, FlattenRuns
<1>3. n = 0 => seqs = << >>
  OBVIOUS
<1> HIDE DEF n
<1> DEFINE flat(k) == IF k = 0 THEN << >> ELSE flatten[k]
           S == {k \in 0 .. n : flat(k) \in Seq(E) /\ \E at : Listed(at, flat(k), seqs, k)}
<1>4. 0 \in S
  <2>1. << >> \in Seq(E) /\ Len(<< >>) = 0
    OBVIOUS
  <2>2. Listed(<< >>, << >>, seqs, 0)
    BY <2>1 DEF Listed
  <2> QED
    BY <1>1, <2>1, <2>2
<1>5. ASSUME NEW k \in 0 .. n - 1, k \in S
      PROVE  k + 1 \in S
  <2>1. k + 1 \in 1 .. n /\ k + 1 \in 0 .. n /\ (k + 1) - 1 = k /\ k \in Nat /\ k + 1 # 0
    BY <1>1
  <2>2. flat(k) \in Seq(E) /\ \E at : Listed(at, flat(k), seqs, k)
    BY <1>5
  <2>3. \A i \in 1 .. k + 1 : seqs[i] \in Seq(E)
    BY <1>1, <2>1
  <2>4. flat(k + 1) = flat(k) \o seqs[k + 1]
    <3>1. PICK i \in 1 .. n : i = k + 1
      BY <2>1
    <3>2. flat(k + 1) = flatten[i]
      BY <2>1, <3>1
    <3>3. CASE k = 0
      <4>1. flat(k) = << >> /\ flatten[i] = seqs[i]
        BY <1>2, <3>1, <3>3
      <4>2. << >> \o seqs[i] = seqs[i]
        BY <1>1, ConcatEmptySeq
      <4> QED
        BY <3>1, <3>2, <4>1, <4>2
    <3>4. CASE k # 0
      <4>1. i # 1 /\ i - 1 = k
        BY <2>1, <3>1, <3>4
      <4>2. flatten[i] = flatten[i - 1] \o seqs[i]
        BY <1>2, <4>1
      <4> QED
        BY <3>1, <3>2, <3>4, <4>1, <4>2
    <3> QED
      BY <3>3, <3>4
  <2> HIDE DEF flat
  <2>5. seqs[k + 1] \in Seq(E)
    BY <1>1, <2>1
  <2>6. flat(k + 1) \in Seq(E)
    BY <2>2, <2>4, <2>5, ConcatProperties
  <2>7. \E at : Listed(at, flat(k + 1), seqs, k + 1)
    BY <2>1, <2>2, <2>3, <2>4, ListedMore
  <2> QED
    BY <2>1, <2>6, <2>7
<1>6. n \in S
  <2> HIDE DEF S
  <2>1. 0 .. n \subseteq S
    BY <1>1, <1>4, <1>5, Induction
  <2> QED
    BY <1>1, <2>1
<1>7. FlattenSeq(seqs) = flat(n)
  <2>1. CASE n = 0
    <3>1. seqs = << >>
      BY <1>3, <2>1
    <3>2. FlattenSeq(seqs) = << >>
      BY <3>1 DEF FlattenSeq
    <3> QED
      BY <2>1, <3>2
  <2>2. CASE n # 0
    BY <1>2, <2>2
  <2> QED
    BY <2>1, <2>2
<1> HIDE DEF flat
<1> QED
  BY <1>6, <1>7 DEF n

\* The record types that are inserted last are deleted first.
Ranked(t, rank, plan) == \E k \in 1 .. Len(plan) : plan[k] = t /\ rank = Len(plan) - k

\* Where in a dataset the rows are from that are inserted: each row is inserted, once.
Placed(place, content) ==
    LET contract == content.contract
        new == InsertOrder(content)
    IN  /\ DOMAIN place = 1 .. Len(new)
        /\ \A j \in 1 .. Len(new) :
              LET row == Generated(content)[place[j][1]][place[j][2]]
              IN  /\ place[j] = <<place[j][1], place[j][2]>>
                  /\ place[j][1] \in RecordTypes(contract)
                  /\ place[j][2] \in 1 .. contract.count[place[j][1]]
                  /\ new[j].table = contract.dest[place[j][1]] /\ new[j].row = row
                  /\ new[j].key = [f \in contract.keys[place[j][1]] |-> row[f]]
        /\ \A j \in 1 .. Len(new) : Ranked(place[j][1], new[j].rank, contract.plan)
        /\ \A i, j \in 1 .. Len(new) : place[i] = place[j] => i = j
        /\ \A i, j \in 1 .. Len(new) : i < j => new[i].rank >= new[j].rank
        /\ \A t \in RecordTypes(contract) : \A i \in 1 .. contract.count[t] :
              \E j \in 1 .. Len(new) : place[j] = <<t, i>>

\* The plan has every record type once.
LEMMA InsertOrderIsPlaced ==
  ASSUME NEW content, ValidContract(content.contract)
  PROVE  \E place : Placed(place, content)
<1> DEFINE contract == content.contract
           plan == contract.plan
           dataset == Generated(content)
           Entry(k, row) ==
            [table |-> contract.dest[plan[k]], row |-> row,
             key |-> [f \in contract.keys[plan[k]] |-> row[f]],
             types |-> [f \in Fields |-> contract.spec[<<plan[k], f>>].type],
             rank |-> Len(plan) - k]
           Entries(k) == [i \in DOMAIN dataset[plan[k]] |-> Entry(k, dataset[plan[k]][i])]
           seqs == [k \in DOMAIN plan |-> Entries(k)]
           E == UNION {{Entries(k)[i] : i \in DOMAIN dataset[plan[k]]} : k \in DOMAIN plan}
           new == InsertOrder(content)
<1>1. IsDataset(contract, dataset)
  BY GeneratedIsDataset
<1>2. new = FlattenSeq(seqs)
  BY DEF InsertOrder, Ordered
<1>3. \A k \in DOMAIN plan : \A i \in DOMAIN dataset[plan[k]] :
         LET row == dataset[plan[k]][i]
         IN  /\ Entries(k)[i].table = contract.dest[plan[k]] /\ Entries(k)[i].row = row
             /\ Entries(k)[i].key = [f \in contract.keys[plan[k]] |-> row[f]]
             /\ Entries(k)[i].rank = Len(plan) - k
  OBVIOUS
<1>4. \A k \in DOMAIN plan : Entries(k) = [i \in DOMAIN dataset[plan[k]] |-> Entries(k)[i]]
  OBVIOUS
<1> HIDE DEF Entries, dataset, new
<1>5. /\ plan \in Seq(RecordTypes(contract)) /\ \A t \in RecordTypes(contract) : contract.count[t] \in Nat
      /\ IsInjective(plan) /\ Range(plan) = RecordTypes(contract)
  BY DEF ValidContract
<1> DEFINE m == Len(plan)
           types == RecordTypes(contract)
<1> HIDE DEF plan, contract
<1>6. m \in Nat /\ DOMAIN plan = 1 .. m
  BY <1>5
<1>7. /\ \A i, j \in 1 .. m : plan[i] = plan[j] => i = j
      /\ \A t \in types : \E k \in 1 .. m : plan[k] = t
  <2> HIDE DEF m
  <2> QED
    BY <1>5, <1>6 DEF IsInjective, Range
<1>8. \A k \in 1 .. m : /\ plan[k] \in types /\ contract.count[plan[k]] \in Nat
                        /\ DOMAIN dataset[plan[k]] = 1 .. contract.count[plan[k]]
  BY <1>1, <1>5, <1>6 DEF IsDataset
<1> HIDE DEF m, types
<1>9. ASSUME NEW k \in 1 .. m
      PROVE  Entries(k) \in Seq(E) /\ Len(Entries(k)) = contract.count[plan[k]]
  <2> DEFINE n == contract.count[plan[k]]
             entries == Entries(k)
  <2>1. \A i \in 1 .. n : entries[i] \in E
    BY <1>6, <1>8
  <2>2. entries = [i \in 1 .. n |-> entries[i]] /\ n \in Nat
    BY <1>4, <1>6, <1>8
  <2> HIDE DEF E, entries, n
  <2>3. entries \in [1 .. n -> E]
    BY <2>1, <2>2
  <2>4. entries \in Seq(E) /\ Len(entries) = n
    BY <2>2, <2>3
  <2> QED
    BY <2>4 DEF entries, n
<1>10. seqs \in Seq(Seq(E)) /\ Len(seqs) = m /\ \A k \in 1 .. m : seqs[k] = Entries(k)
  <2> HIDE DEF E
  <2> QED
    BY <1>6, <1>9
<1> HIDE DEF E, seqs
<1>11. PICK at : Listed(at, new, seqs, m)
  BY <1>2, <1>10, FlattenPlaces
<1> DEFINE place == [j \in 1 .. Len(new) |-> <<plan[at[j][1]], at[j][2]>>]
<1>12. /\ DOMAIN place = 1 .. Len(new)
       /\ \A j \in 1 .. Len(new) : place[j] = <<plan[at[j][1]], at[j][2]>>
  OBVIOUS
<1>13. \A j \in 1 .. Len(new) : /\ at[j] = <<at[j][1], at[j][2]>> /\ at[j][1] \in 1 .. m
                                /\ at[j][2] \in 1 .. Len(seqs[at[j][1]])
                                /\ new[j] = seqs[at[j][1]][at[j][2]]
  BY <1>11 DEF Listed
<1> HIDE DEF place
<1>14. ASSUME NEW j \in 1 .. Len(new)
       PROVE  LET row == dataset[place[j][1]][place[j][2]]
              IN  /\ place[j] = <<place[j][1], place[j][2]>>
                  /\ place[j][1] \in types /\ place[j][2] \in 1 .. contract.count[place[j][1]]
                  /\ new[j].table = contract.dest[place[j][1]] /\ new[j].row = row
                  /\ new[j].key = [f \in contract.keys[place[j][1]] |-> row[f]]
                  /\ place[j][1] = plan[at[j][1]] /\ new[j].rank = m - at[j][1]
  <2> DEFINE k == at[j][1]
             i == at[j][2]
  <2>1. k \in 1 .. m /\ place[j] = <<plan[k], i>>
    BY <1>12, <1>13
  <2>2. i \in 1 .. contract.count[plan[k]] /\ new[j] = Entries(k)[i]
    BY <1>9, <1>10, <1>13
  <2> HIDE DEF k, i
  <2>3. place[j][1] = plan[k] /\ place[j][2] = i
    BY <2>1
  <2>4. /\ new[j].table = contract.dest[plan[k]] /\ new[j].row = dataset[plan[k]][i]
        /\ new[j].key = [f \in contract.keys[plan[k]] |-> dataset[plan[k]][i][f]]
        /\ new[j].rank = m - k
    <3>1. k \in DOMAIN plan /\ i \in DOMAIN dataset[plan[k]]
      BY <1>6, <1>8, <2>1, <2>2
    <3>2. /\ Entries(k)[i].table = contract.dest[plan[k]] /\ Entries(k)[i].row = dataset[plan[k]][i]
          /\ Entries(k)[i].key = [f \in contract.keys[plan[k]] |-> dataset[plan[k]][i][f]]
          /\ Entries(k)[i].rank = m - k
      BY <1>3, <3>1 DEF m
    <3> QED
      BY <2>2, <3>2
  <2> QED
    BY <1>8, <2>1, <2>2, <2>3, <2>4 DEF k
<1>15. ASSUME NEW i \in 1 .. Len(new), NEW j \in 1 .. Len(new), place[i] = place[j]
       PROVE  i = j
  <2>1. plan[at[i][1]] = plan[at[j][1]] /\ at[i][2] = at[j][2]
    BY <1>12, <1>15
  <2>2. at[i][1] = at[j][1]
    BY <1>7, <1>13, <2>1
  <2>3. at[i] = at[j]
    BY <1>13, <2>1, <2>2
  <2> QED
    BY <1>11, <2>3 DEF Listed
<1>16. ASSUME NEW t \in types, NEW i \in 1 .. contract.count[t]
       PROVE  \E j \in 1 .. Len(new) : place[j] = <<t, i>>
  <2>1. PICK k \in 1 .. m : plan[k] = t
    BY <1>7
  <2>2. i \in 1 .. Len(seqs[k])
    BY <1>9, <1>10, <2>1
  <2>3. PICK j \in 1 .. Len(new) : at[j] = <<k, i>>
    BY <1>11, <2>2 DEF Listed
  <2>4. at[j][1] = k /\ at[j][2] = i
    BY <2>3
  <2> QED
    BY <1>12, <2>1, <2>4
<1>17. \A j \in 1 .. Len(new) : Ranked(place[j][1], new[j].rank, plan)
  BY <1>13, <1>14 DEF Ranked, m
<1>18. ASSUME NEW i \in 1 .. Len(new), NEW j \in 1 .. Len(new), i < j
       PROVE  new[i].rank >= new[j].rank
  <2>1. at[i][1] <= at[j][1] /\ at[i][1] \in Nat /\ at[j][1] \in Nat
    BY <1>6, <1>11, <1>13, <1>18 DEF Listed
  <2>2. new[i].rank = m - at[i][1] /\ new[j].rank = m - at[j][1]
    BY <1>14
  <2> QED
    BY <1>6, <2>1, <2>2
<1>19. Placed(place, content)
  BY <1>12, <1>14, <1>15, <1>16, <1>17, <1>18 DEF Placed, dataset, contract, new, types, plan
<1> QED
  BY <1>19

-----------------------------------------------------------------------------
(* Whose rows are in a table *)

\* The rows are those of these copies, one each.
IsOrigin(origin, s, domain, copies, val) ==
    /\ origin \in [domain -> copies]
    /\ \A i, j \in domain : origin[i] = origin[j] => i = j
    /\ \A c \in copies : \E i \in domain : origin[i] = c
    /\ \A i \in domain : s[i] = val[origin[i]]

Stands(s, copies, val) == \E origin : IsOrigin(origin, s, DOMAIN s, copies, val)

\* Only what the rows of the copies are matters.
LEMMA StandsForSame ==
  ASSUME NEW s, NEW copies, NEW val, Stands(s, copies, val), NEW other,
         \A c \in copies : other[c] = val[c]
  PROVE  Stands(s, copies, other)
BY DEF Stands, IsOrigin

\* A row more.
LEMMA StandsAppend ==
  ASSUME NEW Row, NEW s \in Seq(Row), NEW copies, NEW val, Stands(s, copies, val),
         NEW c, c \notin copies, NEW row \in Row, row = val[c]
  PROVE  Stands(Append(s, row), copies \cup {c}, val)
<1> DEFINE n == Len(s)
           more == Append(s, row)
<1>1. n \in Nat /\ DOMAIN s = 1 .. n
  OBVIOUS
<1>2. DOMAIN more = 1 .. n + 1 /\ \A i \in 1 .. n : more[i] = s[i]
  BY AppendProperties
<1>3. more[n + 1] = row
  BY AppendProperties
<1> HIDE DEF n, more
<1>4. PICK origin : IsOrigin(origin, s, 1 .. n, copies, val)
  BY <1>1 DEF Stands
<1> DEFINE there == [i \in 1 .. n + 1 |-> IF i = n + 1 THEN c ELSE origin[i]]
<1>5. /\ n + 1 \in 1 .. n + 1 /\ n + 1 \notin 1 .. n
      /\ \A i \in 1 .. n + 1 : i = n + 1 \/ i \in 1 .. n
      /\ \A i \in 1 .. n : i \in 1 .. n + 1
  BY <1>1
<1>6. there[n + 1] = c /\ \A i \in 1 .. n : there[i] = origin[i]
  BY <1>5
<1>7. there = [i \in 1 .. n + 1 |-> there[i]]
  OBVIOUS
<1> HIDE DEF there
<1>8. there \in [1 .. n + 1 -> copies \cup {c}]
  <2>1. \A i \in 1 .. n + 1 : there[i] \in copies \cup {c}
    BY <1>4, <1>5, <1>6 DEF IsOrigin
  <2> QED
    BY <1>7, <2>1
<1>9. \A i, j \in 1 .. n + 1 : there[i] = there[j] => i = j
  BY <1>4, <1>5, <1>6 DEF IsOrigin
<1>10. \A d \in copies \cup {c} : \E i \in 1 .. n + 1 : there[i] = d
  BY <1>4, <1>5, <1>6 DEF IsOrigin
<1>11. \A i \in 1 .. n + 1 : more[i] = val[there[i]]
  BY <1>2, <1>3, <1>4, <1>5, <1>6 DEF IsOrigin
<1>12. IsOrigin(there, more, 1 .. n + 1, copies \cup {c}, val)
  BY <1>8, <1>9, <1>10, <1>11 DEF IsOrigin
<1>13. Stands(more, copies \cup {c}, val)
  BY <1>2, <1>12 DEF Stands
<1> QED
  BY <1>13 DEF more

\* A row less: if it is the only one that is equal to that of a copy, it is that copy's.
LEMMA StandsRemove ==
  ASSUME NEW Row, NEW s \in Seq(Row), NEW copies, NEW val, Stands(s, copies, val),
         NEW x \in DOMAIN s, NEW c \in copies, \A j \in DOMAIN s : s[j] = val[c] => j = x
  PROVE  Stands(RemoveAt(s, x), copies \ {c}, val)
<1> DEFINE n == Len(s)
           less == RemoveAt(s, x)
<1>1. n \in Nat /\ DOMAIN s = 1 .. n /\ x \in 1 .. n
  OBVIOUS
<1>2. DOMAIN less = 1 .. n - 1 /\ \A j \in 1 .. n - 1 : less[j] = IF j < x THEN s[j] ELSE s[j + 1]
  <2>1. less \in Seq(Row) /\ Len(less) = n - 1
    BY RemoveAtProperties
  <2>2. \A j \in DOMAIN less : less[j] = IF j < x THEN s[j] ELSE s[j + 1]
    BY RemoveAtProperties
  <2> HIDE DEF less, n
  <2>3. DOMAIN less = 1 .. n - 1
    BY <2>1
  <2> QED
    BY <2>2, <2>3
<1> HIDE DEF n, less
<1>3. PICK origin : IsOrigin(origin, s, 1 .. n, copies, val)
  BY <1>1 DEF Stands
<1>4. origin[x] = c
  BY <1>1, <1>3 DEF IsOrigin
<1> DEFINE there == Without(origin, n, x)
<1>5. there = [j \in 1 .. n - 1 |-> there[j]]
  BY DEF Without
<1>6. \A j \in 1 .. n - 1 : there[j] = origin[IF j < x THEN j ELSE j + 1]
  BY DEF Without
<1> HIDE DEF there
<1> DEFINE old(j) == IF j < x THEN j ELSE j + 1
<1>7. \A j \in 1 .. n - 1 : old(j) \in (1 .. n) \ {x}
  BY <1>1
<1>8. \A i, j \in 1 .. n - 1 : old(i) = old(j) => i = j
  BY <1>1
<1>9. ASSUME NEW k \in (1 .. n) \ {x}
      PROVE  \E j \in 1 .. n - 1 : old(j) = k
  <2>1. CASE k < x
    <3>1. k \in 1 .. n - 1 /\ old(k) = k
      BY <1>1, <2>1
    <3> QED
      BY <3>1
  <2>2. CASE k > x
    <3>1. k - 1 \in 1 .. n - 1 /\ old(k - 1) = k
      BY <1>1, <2>2
    <3> QED
      BY <3>1
  <2> QED
    BY <1>1, <2>1, <2>2
<1>10. \A j \in 1 .. n - 1 : there[j] = origin[old(j)] /\ less[j] = s[old(j)]
  BY <1>2, <1>6
<1> HIDE DEF old
<1>11. there \in [1 .. n - 1 -> copies \ {c}]
  <2>1. \A j \in 1 .. n - 1 : there[j] \in copies \ {c}
    BY <1>1, <1>3, <1>4, <1>7, <1>10 DEF IsOrigin
  <2> QED
    BY <1>5, <2>1
<1>12. \A i, j \in 1 .. n - 1 : there[i] = there[j] => i = j
  BY <1>3, <1>7, <1>8, <1>10 DEF IsOrigin
<1>13. ASSUME NEW d \in copies \ {c}
       PROVE  \E j \in 1 .. n - 1 : there[j] = d
  <2>1. PICK k \in 1 .. n : origin[k] = d
    BY <1>3 DEF IsOrigin
  <2>2. PICK j \in 1 .. n - 1 : old(j) = k
    BY <1>4, <1>9, <2>1
  <2> QED
    BY <1>10, <2>1, <2>2
<1>14. \A j \in 1 .. n - 1 : less[j] = val[there[j]]
  BY <1>3, <1>7, <1>10 DEF IsOrigin
<1>15. IsOrigin(there, less, 1 .. n - 1, copies \ {c}, val)
  BY <1>11, <1>12, <1>13, <1>14 DEF IsOrigin
<1>16. Stands(less, copies \ {c}, val)
  BY <1>2, <1>15 DEF Stands
<1> QED
  BY <1>16 DEF less

Count(s, row) == Cardinality({i \in DOMAIN s : s[i] = row})

CountOfCopies(copies, val, row) == Cardinality({c \in copies : val[c] = row})

\* So there are as many of each row.
LEMMA StandsCounts ==
  ASSUME NEW Row, NEW s \in Seq(Row), NEW copies, NEW val, Stands(s, copies, val), NEW row
  PROVE  Count(s, row) = CountOfCopies(copies, val, row)
<1> DEFINE found == {i \in DOMAIN s : s[i] = row}
           same == {c \in copies : val[c] = row}
<1>1. Len(s) \in Nat /\ DOMAIN s = 1 .. Len(s)
  OBVIOUS
<1>2. IsFiniteSet(found)
  <2>1. IsFiniteSet(DOMAIN s) /\ found \in SUBSET DOMAIN s
    BY <1>1, FS_Interval
  <2> HIDE DEF found
  <2> QED
    BY <2>1, FS_Subset
<1>3. PICK origin : IsOrigin(origin, s, DOMAIN s, copies, val)
  BY DEF Stands
<1> DEFINE there == [i \in found |-> origin[i]]
<1>4. there \in [found -> same] /\ \A i \in found : there[i] = origin[i]
  BY <1>3 DEF IsOrigin
<1>5. \A i, j \in found : there[i] = there[j] => i = j
  BY <1>3, <1>4 DEF IsOrigin
<1>6. \A c \in same : \E i \in found : there[i] = c
  BY <1>3, <1>4 DEF IsOrigin
<1> HIDE DEF found, same, there
<1>7. there \in Bijection(found, same)
  BY <1>4, <1>5, <1>6 DEF Bijection, Injection, Surjection, IsInjective
<1>8. Cardinality(found) = Cardinality(same)
  BY <1>2, <1>7, FS_Bijection DEF ExistsBijection
<1> QED
  BY <1>8 DEF found, same, Count, CountOfCopies

-----------------------------------------------------------------------------
(* An insertion *)

\* The first k entries of a ledger are of the first k rows that were inserted.
Entered(ledger, new, k) ==
    /\ Len(ledger) = k
    /\ \A j \in 1 .. k : /\ ledger[j].table = new[j].table /\ ledger[j].key = new[j].key
                          /\ ledger[j].rank = new[j].rank

\* What the first k rows are copies of, in a table.
Those(new, id, table, k) == {id[j] : j \in {i \in 1 .. k : new[i].table = table}}

\* The rows are of new copies.
Fresh(new, id, val, copies, n) ==
    /\ \A i, j \in 1 .. n : id[i] = id[j] => i = j
    /\ \A j \in 1 .. n : val[id[j]] = new[j].row
    /\ \A t \in AllTables : \A j \in 1 .. n : id[j] \notin copies[t]

\* The first k rows are there, and in the ledger.
There(acc, new, id, val, copies, k) ==
    /\ Entered(acc.ledger, new, k)
    /\ \A t \in AllTables : Stands(acc.staged[t], copies[t] \cup Those(new, id, t, k), val)

\* A row that is not refused is appended, and so is its entry.
LEMMA InsertedRow ==
  ASSUME scene \in Scenes, NEW acc, IsWritten(acc), NEW new, IsRow(new.row), new.rank \in Int,
         NEW next, next = Insert(acc, new), next.code = "ok"
  PROVE  /\ acc.code = "ok" /\ new.table \in AllTables
         /\ next.staged = [acc.staged EXCEPT ![new.table] = Append(@, new.row)]
         /\ \E entry : /\ next.ledger = Append(acc.ledger, entry)
                       /\ entry.table = new.table /\ entry.key = new.key
                       /\ entry.rank = new.rank
<1> DEFINE entry == [table |-> new.table, key |-> new.key, rank |-> new.rank, ordinal |-> Len(acc.ledger)]
           staged == [acc.staged EXCEPT ![new.table] = Append(@, new.row)]
           ledger == Append(acc.ledger, entry)
<1>1. acc = [staged |-> acc.staged, ledger |-> acc.ledger, code |-> acc.code]
  BY DEF IsWritten
<1>2. Stage(acc, new) = [staged |-> staged, ledger |-> ledger, code |-> acc.code]
  <2>1. Stage(acc, new) = [acc EXCEPT !.staged = staged, !.ledger = ledger]
    BY <1>1 DEF Stage
  <2> HIDE DEF staged, ledger
  <2> QED
    BY <1>1, <2>1
<1>3. acc.code = "ok" /\ Declared(new) /\ next = Stage(acc, new)
  <2>1. CASE acc.code # "ok"
    BY <2>1 DEF Insert
  <2>2. ASSUME NEW code, code # "ok", next = [acc EXCEPT !.code = code]
        PROVE  FALSE
    BY <1>1, <2>2
  <2> QED
    BY <2>1, <2>2 DEF Insert
<1>4. new.table \in AllTables
  BY <1>3, ConstraintsAreOfTables DEF Declared
<1>5. entry.table = new.table /\ entry.key = new.key /\ entry.rank = new.rank
  OBVIOUS
<1> HIDE DEF staged, entry
<1>6. next.staged = staged /\ next.ledger = ledger
  BY <1>2, <1>3
<1> QED
  BY <1>3, <1>4, <1>5, <1>6 DEF staged

\* One row of the loop: one more in its table.
LEMMA InsertKeepsStands ==
  ASSUME scene \in Scenes, NEW acc, IsWritten(acc), NEW new, NEW n \in Nat, NEW k \in 0 .. n - 1,
         IsRow(new[k + 1].row), new[k + 1].rank \in Int,
         NEW next, next = Insert(acc, new[k + 1]), next.code = "ok",
         NEW id, NEW val, NEW copies, Fresh(new, id, val, copies, n), There(acc, new, id, val, copies, k)
  PROVE  There(next, new, id, val, copies, k + 1)
<1> DEFINE one == new[k + 1]
           table == one.table
<1>1. IsRow(one.row) /\ one.rank \in Int /\ next = Insert(acc, one)
  OBVIOUS
<1>2. /\ table \in AllTables
      /\ next.staged = [acc.staged EXCEPT ![table] = Append(@, one.row)]
      /\ \E entry : /\ next.ledger = Append(acc.ledger, entry)
                    /\ entry.table = one.table /\ entry.key = one.key /\ entry.rank = one.rank
  <2> HIDE DEF one
  <2> QED
    BY <1>1, InsertedRow
<1>3. PICK entry : /\ next.ledger = Append(acc.ledger, entry)
                   /\ entry.table = one.table /\ entry.key = one.key /\ entry.rank = one.rank
  BY <1>2
<1>4. /\ \A i \in 1 .. k + 1 : i = k + 1 \/ i \in 1 .. k
      /\ \A i \in 1 .. k : i \in 1 .. k + 1
      /\ k + 1 \in 1 .. k + 1 /\ k \in Nat
  OBVIOUS
<1>5. Entered(next.ledger, new, k + 1)
  <2> DEFINE E == Range(acc.ledger) \cup {entry}
             ledger == acc.ledger
  <2>1. ledger \in Seq(E) /\ entry \in E
    BY DEF IsWritten, IsLedger
  <2>2. /\ Len(ledger) = k
        /\ \A j \in 1 .. k : /\ ledger[j].table = new[j].table /\ ledger[j].key = new[j].key
                              /\ ledger[j].rank = new[j].rank
    BY DEF There, Entered
  <2> HIDE DEF E, ledger
  <2>3. /\ Len(Append(ledger, entry)) = k + 1 /\ Append(ledger, entry)[k + 1] = entry
        /\ \A j \in 1 .. k : Append(ledger, entry)[j] = ledger[j]
    BY <2>1, <2>2, AppendProperties
  <2>4. next.ledger = Append(ledger, entry)
    BY <1>3 DEF ledger
  <2>5. \A j \in 1 .. k + 1 : /\ next.ledger[j].table = new[j].table /\ next.ledger[j].key = new[j].key
                               /\ next.ledger[j].rank = new[j].rank
    BY <1>3, <1>4, <2>2, <2>3, <2>4
  <2> QED
    BY <2>3, <2>4, <2>5 DEF Entered
<1>6. ASSUME NEW t \in AllTables
      PROVE  Stands(next.staged[t], copies[t] \cup Those(new, id, t, k + 1), val)
  <2> DEFINE before == copies[t] \cup Those(new, id, t, k)
             s == acc.staged[t]
  <2>1. Stands(s, before, val)
    BY DEF There
  <2>2. CASE t # table
    <3>1. Those(new, id, t, k + 1) = Those(new, id, t, k)
      BY <1>4, <2>2 DEF Those
    <3>2. next.staged[t] = s
      BY <1>2, <2>2 DEF IsWritten, IsDatabase
    <3> QED
      BY <2>1, <3>1, <3>2
  <2>3. CASE t = table
    <3>1. Those(new, id, t, k + 1) = Those(new, id, t, k) \cup {id[k + 1]}
      BY <1>4, <2>3 DEF Those
    <3>2. next.staged[t] = Append(s, one.row)
      BY <1>2, <2>3 DEF IsWritten, IsDatabase
    <3>3. id[k + 1] \notin before /\ one.row = val[id[k + 1]]
      <4>1. k + 1 \in 1 .. n /\ \A i \in 1 .. k : i \in 1 .. n /\ i # k + 1
        OBVIOUS
      <4> QED
        BY <4>1 DEF Those, Fresh
    <3>4. s \in Seq(Range(s) \cup {one.row})
      BY DEF IsWritten, IsDatabase, IsTable
    <3> DEFINE Row == Range(s) \cup {one.row}
    <3>5. s \in Seq(Row) /\ one.row \in Row
      BY <3>4
    <3> HIDE DEF Row, s, before
    <3>6. Stands(Append(s, one.row), before \cup {id[k + 1]}, val)
      BY <2>1, <3>3, <3>5, StandsAppend
    <3>7. before \cup {id[k + 1]} = copies[t] \cup Those(new, id, t, k + 1)
      BY <3>1 DEF before
    <3> QED
      BY <3>2, <3>6, <3>7
  <2> QED
    BY <2>2, <2>3
<1> QED
  BY <1>5, <1>6 DEF There

\* A dataset that is not refused: its rows are in the tables, and its ledger has them.
LEMMA InsertedStands ==
  ASSUME scene \in Scenes, NEW content \in scene.contents, NEW tenant \in Tenants,
         IsDatabase(rows[tenant]), Inserted(tenant, content).code = "ok",
         NEW new, new = InsertOrder(content), NEW n, n = Len(new),
         NEW id, NEW val, NEW copies, Fresh(new, id, val, copies, n),
         \A t \in AllTables : Stands(rows[tenant][t], copies[t], val)
  PROVE  There(Inserted(tenant, content), new, id, val, copies, n)
<1> DEFINE base == [staged |-> rows[tenant], ledger |-> << >>, code |-> "ok"]
<1>1. new \in Seq(Range(new)) /\ \A e \in Range(new) : IsRow(e.row) /\ e.rank \in Int
  BY InsertOrderType
<1>2. Inserted(tenant, content) = FoldLeft(Insert, base, new)
  BY DEF Inserted
<1>3. n \in Nat /\ DOMAIN new = 1 .. n
  BY <1>1
<1>4. PICK run : Run(run, "insert", base, new, n) /\ FoldLeft(Insert, base, new) = run[n]
  <2> HIDE DEF base
  <2> QED
    BY <1>3, FoldInsert
<1> DEFINE Done(k) == There(run[k], new, id, val, copies, k)
           S == {k \in 0 .. n : IsWritten(run[k]) /\ (run[k].code = "ok" => Done(k))}
<1>5. 0 \in S
  <2>1. run[0] = base /\ 0 \in 0 .. n
    BY <1>3, <1>4 DEF Run
  <2>2. IsWritten(base) /\ base.staged = rows[tenant] /\ base.ledger = << >>
    <3>1. IsLedger(<< >>)
      BY DEF IsLedger
    <3>2. base = [staged |-> base.staged, ledger |-> base.ledger, code |-> base.code]
      OBVIOUS
    <3>3. base.staged = rows[tenant] /\ base.ledger = << >>
      OBVIOUS
    <3> HIDE DEF base
    <3> QED
      BY <3>1, <3>2, <3>3 DEF IsWritten
  <2>3. Entered(<< >>, new, 0)
    BY DEF Entered
  <2>4. \A t \in AllTables : copies[t] \cup Those(new, id, t, 0) = copies[t]
    BY DEF Those
  <2> HIDE DEF base
  <2> QED
    BY <2>1, <2>2, <2>3, <2>4 DEF There
<1>6. ASSUME NEW k \in 0 .. n - 1, k \in S
      PROVE  k + 1 \in S
  <2>1. k + 1 \in 1 .. n /\ k + 1 \in 0 .. n /\ (k + 1) - 1 = k /\ k \in Nat
        /\ \A i \in 1 .. k : i \in 1 .. n /\ i # k + 1
    BY <1>3
  <2>2. run[k + 1] = Insert(run[k], new[k + 1])
    BY <1>4, <2>1 DEF Run, Step
  <2>3. IsRow(new[k + 1].row) /\ new[k + 1].rank \in Int
    BY <1>1, <1>3, <2>1 DEF Range
  <2>4. IsWritten(run[k]) /\ IsWritten(run[k + 1])
    BY <1>6, <2>2, <2>3, InsertKeepsTypes
  <2>5. ASSUME run[k + 1].code = "ok"
        PROVE  Done(k + 1)
    <3>1. run[k].code = "ok"
      <4> DEFINE acc == run[k]
                 one == new[k + 1]
                 next == run[k + 1]
      <4>1. IsWritten(acc) /\ IsRow(one.row) /\ one.rank \in Int
            /\ next = Insert(acc, one) /\ next.code = "ok"
        BY <2>2, <2>3, <2>4, <2>5
      <4> HIDE DEF acc, one, next
      <4>2. acc.code = "ok"
        BY <4>1, InsertedRow
      <4> QED
        BY <4>2 DEF acc
    <3>2. Done(k)
      BY <1>6, <3>1
    <3> DEFINE acc == run[k]
               next == run[k + 1]
    <3>3. IsWritten(acc) /\ next = Insert(acc, new[k + 1]) /\ next.code = "ok"
      BY <2>2, <2>4, <2>5
    <3>4. There(acc, new, id, val, copies, k)
      BY <3>2
    <3> HIDE DEF acc, next
    <3>5. There(next, new, id, val, copies, k + 1)
      BY <1>3, <2>1, <2>3, <3>3, <3>4, InsertKeepsStands
    <3> QED
      BY <3>5 DEF next
  <2> QED
    BY <2>1, <2>4, <2>5
<1>7. n \in S
  <2> HIDE DEF S
  <2>1. 0 .. n \subseteq S
    BY <1>3, <1>5, <1>6, Induction
  <2> QED
    BY <1>3, <2>1
<1> HIDE DEF base
<1> QED
  BY <1>2, <1>4, <1>7

-----------------------------------------------------------------------------
(* A deletion *)

\* The rows are of copies that are there, and have the keys of their entries.
Kept(new, id, val, copies, n) ==
    /\ \A i, j \in 1 .. n : id[i] = id[j] => i = j
    /\ \A j \in 1 .. n : val[id[j]] = new[j].row /\ HasKey(new[j].row, new[j])
    /\ \A j \in 1 .. n : id[j] \in copies[new[j].table]

\* The rows of all tables are those of the copies that each should have.
AllStand(staged, copies, val) == \A t \in AllTables : Stands(staged[t], copies[t], val)

\* The row that is deleted is that of the copy that the entry was written for: its
\* row is there, and has the key, and there is only one such row.
LEMMA DeleteKeepsStands ==
  ASSUME NEW cur, IsDatabase(cur), NEW w, w.table \in AllTables, NEW x, NEW after,
         Deletes(x, w, cur, after), NEW copies, NEW val, AllStand(cur, copies, val),
         NEW c \in copies[w.table], HasKey(val[c], w)
  PROVE  \A t \in AllTables : Stands(after[t], IF t = w.table THEN copies[t] \ {c} ELSE copies[t], val)
<1> DEFINE table == w.table
           s == cur[table]
<1>1. /\ \A t \in AllTables : t # table => after[t] = cur[t]
      /\ after[table] = RemoveAt(s, x) /\ x \in DOMAIN s
      /\ \A j \in DOMAIN s : HasKey(s[j], w) => j = x
  BY DEF IsDatabase, Deletes
<1>2. s \in Seq(Range(s))
  BY DEF IsDatabase, IsTable
<1>3. Stands(s, copies[table], val) /\ c \in copies[table]
  BY DEF AllStand
<1>4. \A j \in DOMAIN s : s[j] = val[c] => j = x
  BY <1>1
<1> HIDE DEF s
<1>5. Stands(RemoveAt(s, x), copies[table] \ {c}, val)
  BY <1>1, <1>2, <1>3, <1>4, StandsRemove
<1> QED
  BY <1>1, <1>5 DEF AllStand

\* The copies whose entries are among the first k of an order, in a table.
Gone(new, id, at, table, k, n) == {id[i] : i \in {j \in 1 .. n : at[j] <= k /\ new[j].table = table}}

\* The copy of the next entry goes with it.
LEMMA OneMoreGone ==
  ASSUME NEW n \in Nat, NEW new, NEW id, NEW val, NEW copies, Kept(new, id, val, copies, n),
         NEW order, NEW ledger, NEW at, Permutes(at, order, ledger, n),
         NEW k \in 0 .. n - 1, NEW next, next = k + 1, NEW i \in 1 .. n, at[i] = next
  PROVE  /\ id[i] \notin Gone(new, id, at, new[i].table, k, n)
         /\ \A t, c : c \in Gone(new, id, at, t, next, n)
                         <=> c \in Gone(new, id, at, t, k, n) \/ (t = new[i].table /\ c = id[i])
<1>1. /\ \A j \in 1 .. n : at[j] <= k + 1 <=> at[j] <= k \/ j = i
      /\ ~(at[i] <= k)
  <2>1. \A j \in 1 .. n : at[j] \in Int /\ (at[j] = k + 1 <=> j = i)
    <3>1. /\ \A j \in 1 .. n : at[j] \in 1 .. n
          /\ \A j \in 1 .. n : at[j] = at[i] => j = i
      BY DEF Permutes
    <3> QED
      BY <3>1
  <2>2. \A a \in Int : a <= k + 1 <=> a <= k \/ a = k + 1
    OBVIOUS
  <2> QED
    BY <2>1, <2>2
<1>2. id[i] \notin Gone(new, id, at, new[i].table, k, n)
  BY <1>1 DEF Gone, Kept
<1>3. \A t, m, c : c \in Gone(new, id, at, t, m, n) <=> \E j \in 1 .. n : at[j] <= m /\ new[j].table = t /\ c = id[j]
  BY DEF Gone
<1> QED
  BY <1>1, <1>2, <1>3

\* After k entries the rows are those of the copies that are left.
LeftAfter(staged, new, id, val, copies, at, k, n) ==
    \A t \in AllTables : Stands(staged[t], copies[t] \ Gone(new, id, at, t, k, n), val)

\* The entries are of the rows.
EntriesOf(ledger, new, n) ==
    \A i \in 1 .. n : /\ ledger[i].table \in AllTables
                      /\ ledger[i].table = new[i].table /\ ledger[i].key = new[i].key

\* One row of the loop.
LEMMA RemovedOne ==
  ASSUME NEW n \in Nat, NEW new, NEW id, NEW val, NEW copies, Kept(new, id, val, copies, n),
         NEW order, NEW ledger, EntriesOf(ledger, new, n), NEW at, Permutes(at, order, ledger, n),
         NEW k \in 0 .. n - 1, NEW last, last = k + 1,
         NEW acc, IsReduced(acc), acc.code = "ok", LeftAfter(acc.staged, new, id, val, copies, at, k, n),
         NEW next, next = DeleteRow(acc, order[last]), next.code = "ok"
  PROVE  LeftAfter(next.staged, new, id, val, copies, at, last, n)
<1> DEFINE cur == acc.staged
           w == order[last]
           left == [t \in AllTables |-> copies[t] \ Gone(new, id, at, t, k, n)]
<1>1. acc = [staged |-> cur, code |-> "ok"] /\ IsDatabase(cur)
  BY DEF IsReduced
<1>2. PICK i \in 1 .. n : at[i] = last
  <2>1. last \in 1 .. n
    OBVIOUS
  <2> QED
    BY <2>1 DEF Permutes
<1>3. w = ledger[i] /\ w.table = new[i].table /\ w.key = new[i].key /\ w.table \in AllTables
  <2>1. w = ledger[i]
    BY <1>2 DEF Permutes
  <2> HIDE DEF w
  <2> QED
    BY <2>1 DEF EntriesOf
<1> HIDE DEF w
<1>4. id[i] \notin Gone(new, id, at, new[i].table, k, n)
  BY <1>2, OneMoreGone
<1>5. ASSUME NEW t, NEW c
      PROVE  c \in Gone(new, id, at, t, last, n)
                <=> c \in Gone(new, id, at, t, k, n) \/ (t = new[i].table /\ c = id[i])
  BY <1>2, OneMoreGone
<1>6. id[i] \in left[w.table] /\ HasKey(val[id[i]], w)
  <2>1. id[i] \in copies[w.table] /\ HasKey(val[id[i]], new[i])
    BY <1>3 DEF Kept
  <2> QED
    BY <1>3, <1>4, <2>1 DEF HasKey
<1>7. AllStand(cur, left, val)
  BY DEF LeftAfter, AllStand
<1>8. next = DeleteRow([staged |-> cur, code |-> "ok"], w) /\ next.code = "ok"
  BY <1>1 DEF w
<1>9. ASSUME NEW t \in AllTables
      PROVE  copies[t] \ Gone(new, id, at, t, last, n) = IF t = w.table THEN left[t] \ {id[i]} ELSE left[t]
  <2>1. left[t] = copies[t] \ Gone(new, id, at, t, k, n)
    OBVIOUS
  <2> HIDE DEF left
  <2> QED
    BY <1>3, <1>5, <2>1
<1> HIDE DEF cur, left
<1>10. PICK x, after : Deletes(x, w, cur, after) /\ after = next.staged
  BY <1>1, <1>3, <1>8, DeletedRow
<1>11. \A t \in AllTables :
          Stands(after[t], IF t = w.table THEN left[t] \ {id[i]} ELSE left[t], val)
  BY <1>1, <1>3, <1>6, <1>7, <1>10, DeleteKeepsStands
<1> QED
  BY <1>9, <1>10, <1>11 DEF LeftAfter

\* A generation that is deleted: its rows are gone, and no others.
LEMMA RemovedStands ==
  ASSUME NEW tenant \in Tenants, IsDatabase(rows[tenant]), NEW g \in GenIds, IsLedger(written[g]),
         Removed(tenant, g).code = "ok", NEW n, n = Len(written[g]),
         NEW new, Entered(written[g], new, n),
         NEW id, NEW val, NEW copies, Kept(new, id, val, copies, n),
         \A t \in AllTables : Stands(rows[tenant][t], copies[t], val)
  PROVE  \A t \in AllTables :
            Stands(Removed(tenant, g).staged[t], copies[t] \ Those(new, id, t, n), val)
<1> DEFINE ledger == written[g]
           order == DeleteOrder(g)
           base == [staged |-> rows[tenant], code |-> "ok"]
<1>1. n \in Nat /\ DOMAIN ledger = 1 .. n /\ DOMAIN order = 1 .. n
  BY DEF DeleteOrder, IsLedger
<1>2. PICK at : Permutes(at, order, ledger, n)
  BY DeleteOrderIsAll
<1>3. EntriesOf(ledger, new, n)
  BY <1>1 DEF IsLedger, Entered, EntriesOf
<1>4. Removed(tenant, g) = FoldLeft(DeleteRow, base, order)
  BY DEF Removed
<1> HIDE DEF order, ledger
<1>5. PICK run : Run(run, "delete", base, order, n) /\ FoldLeft(DeleteRow, base, order) = run[n]
  <2> HIDE DEF base
  <2> QED
    BY <1>1, FoldDelete
<1>6. /\ \A i \in 1 .. n : at[i] \in 1 .. n /\ order[at[i]] = ledger[i]
      /\ \A i, j \in 1 .. n : at[i] = at[j] => i = j
      /\ \A k \in 1 .. n : \E i \in 1 .. n : at[i] = k
  BY <1>2 DEF Permutes
<1> DEFINE Left(k) == LeftAfter(run[k].staged, new, id, val, copies, at, k, n)
           S == {k \in 0 .. n : IsReduced(run[k]) /\ (run[k].code = "ok" => Left(k))}
<1>7. 0 \in S
  <2>1. run[0] = base /\ 0 \in 0 .. n
    BY <1>1, <1>5 DEF Run
  <2>2. \A t : Gone(new, id, at, t, 0, n) = {}
    BY <1>1, <1>6 DEF Gone
  <2>3. IsReduced(base) /\ base.staged = rows[tenant]
    BY DEF IsReduced
  <2>4. \A t : copies[t] \ Gone(new, id, at, t, 0, n) = copies[t]
    BY <2>2
  <2> HIDE DEF base
  <2> QED
    BY <2>1, <2>3, <2>4 DEF LeftAfter
<1>8. ASSUME NEW k \in 0 .. n - 1, k \in S
      PROVE  k + 1 \in S
  <2>1. k + 1 \in 1 .. n /\ k + 1 \in 0 .. n /\ (k + 1) - 1 = k /\ k \in Nat
    BY <1>1
  <2>2. run[k + 1] = DeleteRow(run[k], order[k + 1])
    BY <1>5, <2>1 DEF Run, Step
  <2>3. IsReduced(run[k]) /\ IsReduced(run[k + 1])
    BY <1>8, <2>2, DeleteKeepsTypes
  <2>4. ASSUME run[k + 1].code = "ok"
        PROVE  Left(k + 1)
    <3>1. run[k].code = "ok"
      <4>1. CASE run[k].code # "ok"
        <5>1. run[k + 1] = run[k]
          BY <2>2, <4>1 DEF DeleteRow
        <5> QED
          BY <2>4, <4>1, <5>1
      <4> QED
        BY <4>1
    <3> DEFINE acc == run[k]
               next == run[k + 1]
               last == k + 1
    <3>2. /\ IsReduced(acc) /\ acc.code = "ok" /\ LeftAfter(acc.staged, new, id, val, copies, at, k, n)
          /\ next = DeleteRow(acc, order[last]) /\ next.code = "ok" /\ last = k + 1
      BY <1>8, <2>2, <2>3, <2>4, <3>1
    <3> HIDE DEF acc, next, last, S
    <3>3. LeftAfter(next.staged, new, id, val, copies, at, last, n)
      BY <1>1, <1>2, <1>3, <3>2, RemovedOne, SMTT(60)
    <3> QED
      BY <3>3 DEF next, last
  <2> QED
    BY <2>1, <2>3, <2>4
<1>9. n \in S
  <2> HIDE DEF S
  <2>1. 0 .. n \subseteq S
    BY <1>1, <1>7, <1>8, Induction
  <2> QED
    BY <1>1, <2>1
<1>10. \A t : Gone(new, id, at, t, n, n) = Those(new, id, t, n)
  <2>1. \A t : {j \in 1 .. n : at[j] <= n /\ new[j].table = t} = {j \in 1 .. n : new[j].table = t}
    BY <1>1, <1>6
  <2> QED
    BY <2>1 DEF Those, Gone
<1>11. run[n] = Removed(tenant, g)
  BY <1>4, <1>5
<1> QED
  BY <1>9, <1>10, <1>11 DEF LeftAfter

-----------------------------------------------------------------------------
(* The rows of a generation, as they are inserted *)

CopyAt(g, place) == [j \in DOMAIN place |-> <<g, place[j][1], place[j][2]>>]

\* The rows that are inserted are the copies of the generation.
LEMMA CopiesAreInserted ==
  ASSUME NEW content, NEW place, Placed(place, content), NEW g,
         NEW new, new = InsertOrder(content), NEW n, n = Len(new),
         NEW id, id = CopyAt(g, place)
  PROVE  /\ \A i, j \in 1 .. n : id[i] = id[j] => i = j
         /\ \A j \in 1 .. n : /\ id[j] \in CopiesOf(g, content)
                              /\ new[j].table = content.contract.dest[id[j][2]]
                              /\ new[j].row = Generated(content)[id[j][2]][id[j][3]]
                              /\ HasKey(new[j].row, new[j])
         /\ \A t : Those(new, id, t, n) = {c \in CopiesOf(g, content) : content.contract.dest[c[2]] = t}
<1> DEFINE contract == content.contract
           dataset == Generated(content)
<1>1. DOMAIN place = 1 .. n
  BY DEF Placed
<1>2. \A j \in 1 .. n : id[j] = <<g, place[j][1], place[j][2]>>
  BY <1>1 DEF CopyAt
<1>3. \A j \in 1 .. n : id[j][1] = g /\ id[j][2] = place[j][1] /\ id[j][3] = place[j][2]
  BY <1>2
<1>4. /\ \A j \in 1 .. n :
            LET row == dataset[place[j][1]][place[j][2]]
            IN  /\ place[j] = <<place[j][1], place[j][2]>>
                /\ place[j][1] \in RecordTypes(contract)
                /\ place[j][2] \in 1 .. contract.count[place[j][1]]
                /\ new[j].table = contract.dest[place[j][1]] /\ new[j].row = row
                /\ new[j].key = [f \in contract.keys[place[j][1]] |-> row[f]]
      /\ \A i, j \in 1 .. n : place[i] = place[j] => i = j
      /\ \A t \in RecordTypes(contract) : \A i \in 1 .. contract.count[t] :
            \E j \in 1 .. n : place[j] = <<t, i>>
  <2>1. \A j \in 1 .. n :
            LET row == dataset[place[j][1]][place[j][2]]
            IN  /\ place[j] = <<place[j][1], place[j][2]>>
                /\ place[j][1] \in RecordTypes(contract)
                /\ place[j][2] \in 1 .. contract.count[place[j][1]]
                /\ new[j].table = contract.dest[place[j][1]] /\ new[j].row = row
                /\ new[j].key = [f \in contract.keys[place[j][1]] |-> row[f]]
    BY DEF Placed
  <2>2. \A i, j \in 1 .. n : place[i] = place[j] => i = j
    BY DEF Placed
  <2>3. \A t \in RecordTypes(contract) : \A i \in 1 .. contract.count[t] :
            \E j \in 1 .. n : place[j] = <<t, i>>
    BY DEF Placed
  <2> QED
    BY <2>1, <2>2, <2>3
<1> HIDE DEF dataset
<1>5. \A j \in 1 .. n : place[j] = <<place[j][1], place[j][2]>>
  BY <1>4
<1>6. \A c : c \in CopiesOf(g, content) <=>
                \E t \in RecordTypes(contract) : \E i \in 1 .. contract.count[t] : c = <<g, t, i>>
  BY DEF CopiesOf
<1> HIDE DEF contract
<1>7. ASSUME NEW i \in 1 .. n, NEW j \in 1 .. n, id[i] = id[j]
      PROVE  i = j
  <2>1. place[i][1] = place[j][1] /\ place[i][2] = place[j][2]
    BY <1>3, <1>7
  <2>2. place[i] = place[j]
    BY <1>5, <2>1
  <2> QED
    BY <1>4, <2>2
<1>8. ASSUME NEW j \in 1 .. n
      PROVE  /\ id[j] \in CopiesOf(g, content) /\ new[j].table = contract.dest[id[j][2]]
             /\ new[j].row = dataset[id[j][2]][id[j][3]] /\ HasKey(new[j].row, new[j])
  <2> DEFINE row == dataset[place[j][1]][place[j][2]]
  <2>1. /\ place[j][1] \in RecordTypes(contract)
        /\ place[j][2] \in 1 .. contract.count[place[j][1]]
        /\ new[j].table = contract.dest[place[j][1]] /\ new[j].row = row
        /\ new[j].key = [f \in contract.keys[place[j][1]] |-> row[f]]
    BY <1>4
  <2>2. id[j] \in CopiesOf(g, content)
    BY <1>2, <1>6, <2>1
  <2>3. new[j].row = dataset[id[j][2]][id[j][3]]
    BY <1>3, <2>1
  <2> HIDE DEF row
  <2>4. HasKey(new[j].row, new[j])
    BY <2>1 DEF HasKey
  <2> QED
    BY <1>3, <2>1, <2>2, <2>3, <2>4
<1>9. ASSUME NEW t
      PROVE  Those(new, id, t, n) = {c \in CopiesOf(g, content) : contract.dest[c[2]] = t}
  <2>1. ASSUME NEW c \in CopiesOf(g, content), contract.dest[c[2]] = t
        PROVE  \E j \in 1 .. n : new[j].table = t /\ c = id[j]
    <3>1. PICK u \in RecordTypes(contract) : \E i \in 1 .. contract.count[u] : c = <<g, u, i>>
      BY <1>6
    <3>2. PICK i \in 1 .. contract.count[u] : c = <<g, u, i>>
      BY <3>1
    <3>3. PICK j \in 1 .. n : place[j] = <<u, i>>
      BY <1>4
    <3>4. place[j][1] = u /\ place[j][2] = i /\ c[2] = u
      BY <3>2, <3>3
    <3>5. c = id[j] /\ new[j].table = contract.dest[u]
      BY <1>2, <1>4, <3>2, <3>4
    <3> QED
      BY <2>1, <3>4, <3>5
  <2> QED
    BY <1>8, <2>1 DEF Those
<1> QED
  BY <1>7, <1>8, <1>9 DEF contract, dataset

-----------------------------------------------------------------------------
(* Rows of a tenant nobody else writes to *)

Drawn(tenant) == [copy \in Copies(tenant) |-> RowOf(copy)]

\* Its committed generations have their rows in its ledgers and in its tables, where
\* there are no others.
OwnRows(tenant) ==
    /\ \A g \in Committed(tenant) :
          LET content == generations[g].content
          IN  /\ content \in scene.contents
              /\ Entered(written[g], InsertOrder(content), Len(InsertOrder(content)))
    /\ \A table \in AllTables :
          Stands(rows[tenant][table], CopiesOfTable(tenant, table), Drawn(tenant))

CopyInv == \A tenant \in Tenants \ seeded : OwnRows(tenant)

\* A copy is one of a committed generation.
LEMMA CopiesAreOf ==
  ASSUME NEW tenant
  PROVE  \A c \in Copies(tenant) : c[1] \in Committed(tenant) /\ c \in CopiesOf(c[1], generations[c[1]].content)
<1> SUFFICES ASSUME NEW c \in Copies(tenant)
             PROVE  c[1] \in Committed(tenant) /\ c \in CopiesOf(c[1], generations[c[1]].content)
  OBVIOUS
<1>1. PICK g \in Committed(tenant) : c \in CopiesOf(g, generations[g].content)
  BY DEF Copies
<1>2. \E t, i : c = <<g, t, i>>
  BY <1>1 DEF CopiesOf
<1>3. c[1] = g
  BY <1>2
<1> QED
  BY <1>1, <1>3

\* No rows of no generations.
LEMMA InitCopies == Init => CopyInv
<1> SUFFICES ASSUME Init, NEW tenant \in Tenants
             PROVE  OwnRows(tenant)
  BY DEF CopyInv
<1>1. Committed(tenant) = {}
  BY DEF Init, Committed, NoResult
<1>2. Copies(tenant) = {}
  BY <1>1 DEF Copies
<1>3. ASSUME NEW table \in AllTables
      PROVE  Stands(rows[tenant][table], CopiesOfTable(tenant, table), Drawn(tenant))
  <2>1. rows[tenant][table] = << >>
    BY DEF Init
  <2>2. CopiesOfTable(tenant, table) = {}
    BY <1>2 DEF CopiesOfTable
  <2>3. IsOrigin(<< >>, << >>, DOMAIN << >>, {}, Drawn(tenant))
    BY DEF IsOrigin
  <2> QED
    BY <2>1, <2>2, <2>3 DEF Stands
<1> QED
  BY <1>1, <1>3 DEF OwnRows

\* What another tenant does, and what changes no rows.
LEMMA OthersKeepRows ==
  ASSUME NEW tenant, OwnRows(tenant), UNCHANGED scene, rows'[tenant] = rows[tenant],
         Committed(tenant)' = Committed(tenant),
         \A h \in Committed(tenant) : generations'[h] = generations[h] /\ written'[h] = written[h]
  PROVE  OwnRows(tenant)'
<1>1. Copies(tenant)' = Copies(tenant)
  BY DEF Copies
<1>2. \A c \in Copies(tenant) : generations'[c[1]] = generations[c[1]]
  BY CopiesAreOf
<1>3. \A c \in Copies(tenant) : RowOf(c)' = RowOf(c)
  BY <1>2 DEF RowOf
<1>4. Drawn(tenant)' = Drawn(tenant)
  BY <1>1, <1>3 DEF Drawn
<1>5. \A table : CopiesOfTable(tenant, table)' = CopiesOfTable(tenant, table)
  BY <1>1, <1>2 DEF CopiesOfTable
<1> QED
  BY <1>4, <1>5 DEF OwnRows

\* A generation that a commit publishes adds its rows.
LEMMA PublishKeepsOwn ==
  ASSUME KeyInv, RowInv, NEW g \in Absent, NEW slot \in Slots, NEW content \in scene.contents,
         NEW tenant, tenant = slot[1], OwnRows(tenant), Inserted(tenant, content).code = "ok",
         Publish(g, slot, content, Inserted(tenant, content)), UNCHANGED scene
  PROVE  OwnRows(tenant)'
<1> DEFINE done == Inserted(tenant, content)
           new == InsertOrder(content)
           n == Len(new)
           val == Drawn(tenant)'
           copies == [t \in AllTables |-> CopiesOfTable(tenant, t)]
<1>1. /\ generations' = [generations EXCEPT ![g] =
             [state |-> "COMMITTED", slot |-> slot, content |-> content]]
      /\ written' = [written EXCEPT ![g] = done.ledger]
      /\ rows' = [rows EXCEPT ![tenant] = done.staged]
  BY DEF Publish
<1>2. g \in GenIds /\ tenant \in Tenants /\ scene \in Scenes /\ IsDatabase(rows[tenant])
  BY DEF Absent, Slots, KeyInv, RowInv
<1> HIDE DEF done, new, n
<1>3. /\ generations'[g] = [state |-> "COMMITTED", slot |-> slot, content |-> content]
      /\ \A h \in GenIds : h # g => generations'[h] = generations[h]
  BY <1>1, <1>2 DEF KeyInv
<1>4. /\ written'[g] = done.ledger /\ \A h \in GenIds : h # g => written'[h] = written[h]
      /\ rows'[tenant] = done.staged
  BY <1>1, <1>2 DEF RowInv
<1>5. g \notin Committed(tenant) /\ Committed(tenant) \subseteq GenIds
  BY DEF Absent, Committed
<1>6. Committed(tenant)' = Committed(tenant) \cup {g}
  BY <1>2, <1>3 DEF Committed
<1>7. Copies(tenant)' = Copies(tenant) \cup CopiesOf(g, content)
  <2>1. \A h \in Committed(tenant) : generations'[h] = generations[h]
    BY <1>3, <1>5
  <2>2. generations'[g].content = content
    BY <1>3
  <2> QED
    BY <1>6, <2>1, <2>2 DEF Copies
<1>8. \A c \in Copies(tenant) : c[1] # g /\ generations'[c[1]] = generations[c[1]]
  BY <1>3, <1>5, CopiesAreOf
<1>9. \A c \in CopiesOf(g, content) : c[1] = g
  <2>1. \A c \in CopiesOf(g, content) : \E t, i : c = <<g, t, i>>
    BY DEF CopiesOf
  <2> QED
    BY <2>1
<1>10. \A t : CopiesOfTable(tenant, t)' =
                 CopiesOfTable(tenant, t) \cup {c \in CopiesOf(g, content) : content.contract.dest[c[2]] = t}
  <2>1. \A c \in CopiesOf(g, content) : generations'[c[1]].content = content
    BY <1>3, <1>9
  <2> QED
    BY <1>7, <1>8, <2>1 DEF CopiesOfTable
<1>11. /\ \A c \in Copies(tenant) : val[c] = Drawn(tenant)[c]
       /\ \A c \in CopiesOf(g, content) : val[c] = Generated(content)[c[2]][c[3]]
  <2>1. \A c \in Copies(tenant)' : val[c] = RowOf(c)'
    BY DEF Drawn
  <2>2. \A c \in Copies(tenant) : RowOf(c)' = RowOf(c)
    BY <1>8 DEF RowOf
  <2>3. \A c \in CopiesOf(g, content) : RowOf(c)' = Generated(content)[c[2]][c[3]]
    <3>1. \A c \in CopiesOf(g, content) : generations'[c[1]].content = content
      BY <1>3, <1>9
    <3> QED
      BY <3>1 DEF RowOf
  <2>4. \A c \in Copies(tenant) : Drawn(tenant)[c] = RowOf(c)
    BY DEF Drawn
  <2> QED
    BY <1>7, <2>1, <2>2, <2>3, <2>4
<1>12. PICK place : Placed(place, content)
  BY <1>2, InsertOrderIsPlaced, SceneAssumption DEF ValidContent
<1> DEFINE id == CopyAt(g, place)
<1>13. /\ \A i, j \in 1 .. n : id[i] = id[j] => i = j
       /\ \A j \in 1 .. n : /\ id[j] \in CopiesOf(g, content)
                            /\ new[j].row = Generated(content)[id[j][2]][id[j][3]]
       /\ \A t : Those(new, id, t, n) = {c \in CopiesOf(g, content) : content.contract.dest[c[2]] = t}
  <2>1. new = InsertOrder(content) /\ n = Len(new) /\ id = CopyAt(g, place)
    BY DEF new, n
  <2> HIDE DEF id
  <2> QED
    BY <1>12, <2>1, CopiesAreInserted
<1> HIDE DEF id, val
<1>14. \A t \in AllTables : copies[t] = CopiesOfTable(tenant, t) /\ copies[t] \subseteq Copies(tenant)
  BY DEF CopiesOfTable
<1> HIDE DEF copies
<1>15. Fresh(new, id, val, copies, n)
  <2>1. \A t \in AllTables : \A j \in 1 .. n : id[j] \notin copies[t]
    BY <1>8, <1>9, <1>13, <1>14
  <2> QED
    BY <1>11, <1>13, <2>1 DEF Fresh
<1>16. \A t \in AllTables : Stands(rows[tenant][t], copies[t], val)
  <2> SUFFICES ASSUME NEW t \in AllTables
               PROVE  Stands(rows[tenant][t], copies[t], val)
    OBVIOUS
  <2>1. Stands(rows[tenant][t], copies[t], Drawn(tenant))
    BY <1>14 DEF OwnRows
  <2>2. \A c \in copies[t] : val[c] = Drawn(tenant)[c]
    BY <1>11, <1>14
  <2> QED
    BY <2>1, <2>2, StandsForSame
<1>17. There(done, new, id, val, copies, n)
  BY <1>2, <1>15, <1>16, InsertedStands DEF done, new, n
<1>18. ASSUME NEW h \in Committed(tenant)'
       PROVE  LET what == generations'[h].content
              IN  /\ what \in scene.contents
                  /\ Entered(written'[h], InsertOrder(what), Len(InsertOrder(what)))
  <2>1. CASE h = g
    <3>1. generations'[h].content = content /\ written'[h] = done.ledger
      BY <1>3, <1>4, <2>1
    <3>2. Entered(done.ledger, new, n)
      BY <1>17 DEF There
    <3> QED
      BY <3>1, <3>2 DEF new, n
  <2>2. CASE h # g
    <3>1. h \in Committed(tenant) /\ generations'[h] = generations[h] /\ written'[h] = written[h]
      BY <1>3, <1>4, <1>5, <1>6, <2>2
    <3> QED
      BY <3>1 DEF OwnRows
  <2> QED
    BY <2>1, <2>2
<1>19. ASSUME NEW t \in AllTables
       PROVE  Stands(rows'[tenant][t], CopiesOfTable(tenant, t)', val)
  <2>1. Stands(done.staged[t], copies[t] \cup Those(new, id, t, n), val)
    BY <1>17 DEF There
  <2>2. CopiesOfTable(tenant, t)' = copies[t] \cup Those(new, id, t, n)
    BY <1>10, <1>13, <1>14
  <2> QED
    BY <1>4, <2>1, <2>2
<1> QED
  BY <1>18, <1>19 DEF OwnRows, val

\* The copies of a generation are among those of its tenant, and have the keys of its
\* ledger.
LEMMA OwnIsKept ==
  ASSUME KeyInv, RowInv, NEW tenant \in Tenants, OwnRows(tenant), NEW g \in Committed(tenant),
         NEW content, content = generations[g].content, NEW new, new = InsertOrder(content),
         NEW n, n = Len(new), NEW place, Placed(place, content), NEW id, id = CopyAt(g, place),
         NEW val, val = Drawn(tenant), NEW copies, copies = [t \in AllTables |-> CopiesOfTable(tenant, t)]
  PROVE  /\ Entered(written[g], new, n) /\ n = Len(written[g]) /\ Kept(new, id, val, copies, n)
         /\ \A t : Those(new, id, t, n) = {c \in CopiesOf(g, content) : content.contract.dest[c[2]] = t}
<1>1. g \in GenIds /\ IsLedger(written[g]) /\ Entered(written[g], new, n)
  BY DEF Committed, RowInv, OwnRows
<1>2. n = Len(written[g]) /\ DOMAIN written[g] = 1 .. n
  <2>1. Len(written[g]) \in Nat /\ DOMAIN written[g] = 1 .. Len(written[g])
    BY <1>1 DEF IsLedger
  <2> QED
    BY <1>1, <2>1 DEF Entered
<1>3. /\ \A i, j \in 1 .. n : id[i] = id[j] => i = j
      /\ \A j \in 1 .. n : /\ id[j] \in CopiesOf(g, content)
                           /\ new[j].table = content.contract.dest[id[j][2]]
                           /\ new[j].row = Generated(content)[id[j][2]][id[j][3]]
                           /\ HasKey(new[j].row, new[j])
      /\ \A t : Those(new, id, t, n) = {c \in CopiesOf(g, content) : content.contract.dest[c[2]] = t}
  BY CopiesAreInserted
<1>4. \A c \in CopiesOf(g, content) : c[1] = g
  <2>1. \A c \in CopiesOf(g, content) : \E t, i : c = <<g, t, i>>
    BY DEF CopiesOf
  <2> QED
    BY <2>1
<1>5. \A c \in CopiesOf(g, content) : c \in Copies(tenant) /\ val[c] = Generated(content)[c[2]][c[3]]
  <2>1. \A c \in CopiesOf(g, content) : c \in Copies(tenant)
    BY DEF Copies
  <2>2. \A c \in CopiesOf(g, content) : val[c] = RowOf(c) /\ RowOf(c) = Generated(content)[c[2]][c[3]]
    BY <1>4, <2>1 DEF Drawn, RowOf
  <2> QED
    BY <2>1, <2>2
<1>6. ASSUME NEW j \in 1 .. n
      PROVE  id[j] \in copies[new[j].table]
  <2>1. new[j].table \in AllTables
    BY <1>1, <1>2 DEF IsLedger, Entered
  <2>2. id[j] \in Copies(tenant) /\ id[j][1] = g
    BY <1>3, <1>4, <1>5
  <2>3. generations[id[j][1]].content.contract.dest[id[j][2]] = new[j].table
    BY <1>3, <2>2
  <2> QED
    BY <2>1, <2>2, <2>3 DEF CopiesOfTable
<1>7. Kept(new, id, val, copies, n)
  BY <1>3, <1>5, <1>6 DEF Kept
<1> QED
  BY <1>1, <1>2, <1>3, <1>7

\* A generation that is deleted takes its rows with it.
LEMMA DeleteKeepsOwn ==
  ASSUME KeyInv, RowInv, NEW g \in GenIds, NEW tenant \in Tenants, OwnRows(tenant),
         generations[g].state = "COMMITTED", generations[g].slot[1] = tenant,
         Removed(tenant, g).code = "ok",
         rows' = [rows EXCEPT ![tenant] = Removed(tenant, g).staged],
         generations' = Deleted(g), UNCHANGED <<scene, written>>
  PROVE  OwnRows(tenant)'
<1> DEFINE done == Removed(tenant, g)
           content == generations[g].content
           new == InsertOrder(content)
           n == Len(new)
           val == Drawn(tenant)
           copies == [t \in AllTables |-> CopiesOfTable(tenant, t)]
<1>1. g \in Committed(tenant) /\ scene \in Scenes /\ IsDatabase(rows[tenant]) /\ IsLedger(written[g])
  BY DEF Committed, KeyInv, RowInv
<1>2. content \in scene.contents /\ Entered(written[g], new, n)
  BY <1>1 DEF OwnRows
<1> HIDE DEF done, content, new, n
<1>3. /\ generations'[g].state = "DELETED"
      /\ \A h \in GenIds : h # g => generations'[h] = generations[h]
  BY DEF Deleted, KeyInv
<1>4. rows'[tenant] = done.staged
  BY DEF RowInv, done
<1>5. Committed(tenant)' = Committed(tenant) \ {g} /\ Committed(tenant) \subseteq GenIds
  BY <1>3 DEF Committed
<1>6. \A c \in CopiesOf(g, content) : c[1] = g
  <2>1. \A c \in CopiesOf(g, content) : \E t, i : c = <<g, t, i>>
    BY DEF CopiesOf
  <2> QED
    BY <2>1
<1>7. Copies(tenant)' = Copies(tenant) \ CopiesOf(g, content)
  <2>1. \A h \in Committed(tenant)' : generations'[h] = generations[h]
    BY <1>3, <1>5
  <2>2. Copies(tenant)' = UNION {CopiesOf(h, generations[h].content) : h \in Committed(tenant) \ {g}}
    BY <1>5, <2>1 DEF Copies
  <2>3. \A h : \A c \in CopiesOf(h, generations[h].content) : c[1] = h
    <3>1. \A h : \A c \in CopiesOf(h, generations[h].content) : \E t, i : c = <<h, t, i>>
      BY DEF CopiesOf
    <3> QED
      BY <3>1
  <2>4. Copies(tenant) = UNION {CopiesOf(h, generations[h].content) : h \in Committed(tenant)}
    BY DEF Copies
  <2>5. \A c : c \in Copies(tenant)' <=> c \in Copies(tenant) /\ c[1] # g
    <3> DEFINE Theirs(h) == CopiesOf(h, generations[h].content)
    <3>1. /\ Copies(tenant)' = UNION {Theirs(h) : h \in Committed(tenant) \ {g}}
          /\ Copies(tenant) = UNION {Theirs(h) : h \in Committed(tenant)}
          /\ \A h : \A c \in Theirs(h) : c[1] = h
      BY <2>2, <2>3, <2>4
    <3> HIDE DEF Theirs
    <3> QED
      BY <3>1
  <2>6. \A c \in Copies(tenant) : c[1] = g => c \in CopiesOf(g, content)
    BY CopiesAreOf DEF content
  <2> QED
    BY <1>6, <2>5, <2>6
<1>8. \A c \in Copies(tenant)' : c \in Copies(tenant) /\ generations'[c[1]] = generations[c[1]]
  <2>1. \A c \in Copies(tenant) : c[1] \in Committed(tenant) /\ c \in CopiesOf(c[1], generations[c[1]].content)
    BY CopiesAreOf
  <2>2. \A c \in Copies(tenant) : c[1] = g => c \in CopiesOf(g, content)
    BY <2>1 DEF content
  <2> QED
    BY <1>3, <1>5, <1>7, <2>1, <2>2
<1>9. \A t : CopiesOfTable(tenant, t)' =
                CopiesOfTable(tenant, t) \ {c \in CopiesOf(g, content) : content.contract.dest[c[2]] = t}
  <2>1. \A c \in CopiesOf(g, content) : generations[c[1]].content = content
    BY <1>6 DEF content
  <2> QED
    BY <1>7, <1>8, <2>1 DEF CopiesOfTable
<1>10. \A c \in Copies(tenant)' : Drawn(tenant)'[c] = val[c]
  <2>1. \A c \in Copies(tenant)' : Drawn(tenant)'[c] = RowOf(c)'
    BY DEF Drawn
  <2>2. \A c \in Copies(tenant)' : RowOf(c)' = RowOf(c)
    BY <1>8 DEF RowOf
  <2>3. \A c \in Copies(tenant) : val[c] = RowOf(c)
    BY DEF Drawn
  <2> QED
    BY <1>8, <2>1, <2>2, <2>3
<1>11. PICK place : Placed(place, content)
  BY <1>1, <1>2, InsertOrderIsPlaced, SceneAssumption DEF ValidContent
<1>12. PICK id : id = CopyAt(g, place)
  OBVIOUS
<1>13. /\ Entered(written[g], new, n) /\ n = Len(written[g]) /\ Kept(new, id, val, copies, n)
       /\ \A t : Those(new, id, t, n) = {c \in CopiesOf(g, content) : content.contract.dest[c[2]] = t}
  <2>1. /\ content = generations[g].content /\ new = InsertOrder(content) /\ n = Len(new)
        /\ val = Drawn(tenant) /\ copies = [t \in AllTables |-> CopiesOfTable(tenant, t)]
    BY DEF content, new, n
  <2> HIDE DEF val, copies
  <2>2. g \in Committed(tenant) /\ Placed(place, content) /\ id = CopyAt(g, place)
    BY <1>1, <1>11, <1>12
  <2> QED
    BY <2>1, <2>2, OwnIsKept
<1> HIDE DEF val
<1>14. \A t \in AllTables : copies[t] = CopiesOfTable(tenant, t)
  OBVIOUS
<1> HIDE DEF copies
<1>15. \A t \in AllTables : Stands(rows[tenant][t], copies[t], val)
  BY <1>14 DEF OwnRows, val
<1>16. \A t \in AllTables : Stands(done.staged[t], copies[t] \ Those(new, id, t, n), val)
  BY <1>1, <1>2, <1>13, <1>15, RemovedStands DEF done
<1>17. ASSUME NEW t \in AllTables
       PROVE  Stands(rows'[tenant][t], CopiesOfTable(tenant, t)', Drawn(tenant)')
  <2>1. CopiesOfTable(tenant, t)' = copies[t] \ Those(new, id, t, n)
    BY <1>9, <1>13, <1>14
  <2>2. \A c \in CopiesOfTable(tenant, t)' : Drawn(tenant)'[c] = val[c]
    BY <1>10 DEF CopiesOfTable
  <2>3. Stands(done.staged[t], CopiesOfTable(tenant, t)', val)
    BY <1>16, <2>1
  <2>4. Stands(done.staged[t], CopiesOfTable(tenant, t)', Drawn(tenant)')
    BY <2>2, <2>3, StandsForSame
  <2> QED
    BY <1>4, <2>4
<1>18. ASSUME NEW h \in Committed(tenant)'
       PROVE  LET what == generations'[h].content
              IN  /\ what \in scene.contents
                  /\ Entered(written[h], InsertOrder(what), Len(InsertOrder(what)))
  <2>1. h \in Committed(tenant) /\ generations'[h] = generations[h]
    BY <1>3, <1>5
  <2> QED
    BY <2>1 DEF OwnRows
<1> QED
  BY <1>17, <1>18 DEF OwnRows

\* Whatever a thread does, and until somebody else writes to the tables.
LEMMA NextKeepsCopies ==
  ASSUME KeyInv, RowInv, CopyInv, [Next]_vars
  PROVE  CopyInv'
<1> SUFFICES ASSUME NEW tenant \in Tenants, tenant \notin seeded'
             PROVE  OwnRows(tenant)'
  BY DEF CopyInv
<1>1. seeded \subseteq seeded' /\ UNCHANGED scene
  BY DEF Next, Post, Late, Commit, Get, Delete, SeedRows, vars
<1>2. OwnRows(tenant)
  BY <1>1 DEF CopyInv
<1>3. ASSUME UNCHANGED <<generations, written>>, rows'[tenant] = rows[tenant]
      PROVE  OwnRows(tenant)'
  <2>1. Committed(tenant)' = Committed(tenant)
    BY <1>3 DEF Committed
  <2> QED
    BY <1>1, <1>2, <1>3, <2>1, OthersKeepRows
<1>4. ASSUME NEW p \in Procs, Commit(p), ~UNCHANGED store
      PROVE  OwnRows(tenant)'
  <2> DEFINE slot == req[p].slot
             content == req[p].content
             done == Inserted(slot[1], content)
  <2>1. slot \in Slots /\ content \in scene.contents
    BY <1>4 DEF Commit, KeyInv
  <2>2. done.code = "ok" /\ \E g \in Absent : Publish(g, slot, content, done)
    BY <1>4 DEF Commit
  <2>3. PICK g \in Absent : Publish(g, slot, content, done)
    BY <2>2
  <2> HIDE DEF slot, content
  <2>4. CASE tenant = slot[1]
    BY <1>1, <1>2, <2>1, <2>2, <2>3, <2>4, PublishKeepsOwn
  <2>5. CASE tenant # slot[1]
    <3>1. /\ generations' = [generations EXCEPT ![g] =
                 [state |-> "COMMITTED", slot |-> slot, content |-> content]]
          /\ written' = [written EXCEPT ![g] = done.ledger]
          /\ rows' = [rows EXCEPT ![slot[1]] = done.staged]
      BY <2>3 DEF Publish
    <3> HIDE DEF done
    <3>2. g \in GenIds /\ g \notin Committed(tenant) /\ Committed(tenant) \subseteq GenIds
      BY DEF Absent, Committed
    <3>3. /\ generations'[g].slot[1] # tenant
          /\ \A h \in GenIds : h # g => generations'[h] = generations[h] /\ written'[h] = written[h]
      BY <2>5, <3>1, <3>2 DEF KeyInv, RowInv
    <3>4. rows'[tenant] = rows[tenant]
      BY <2>5, <3>1 DEF RowInv
    <3>5. Committed(tenant)' = Committed(tenant)
      BY <3>2, <3>3 DEF Committed
    <3>6. \A h \in Committed(tenant) : generations'[h] = generations[h] /\ written'[h] = written[h]
      BY <3>2, <3>3
    <3> QED
      BY <1>1, <1>2, <3>4, <3>5, <3>6, OthersKeepRows
  <2> QED
    BY <2>4, <2>5
<1>5. ASSUME NEW p \in Procs, NEW other \in Tenants, NEW g \in GenIds, Delete(p, other, g), ~UNCHANGED store
      PROVE  OwnRows(tenant)'
  <2>1. /\ generations[g].state = "COMMITTED" /\ generations[g].slot[1] = other
        /\ Removed(other, g).code = "ok" /\ rows' = [rows EXCEPT ![other] = Removed(other, g).staged]
        /\ generations' = Deleted(g) /\ UNCHANGED written
    BY <1>5 DEF Delete, Known
  <2>2. CASE tenant = other
    BY <1>1, <1>2, <2>1, <2>2, DeleteKeepsOwn
  <2>3. CASE tenant # other
    <3>1. rows'[tenant] = rows[tenant]
      BY <2>1, <2>3 DEF RowInv
    <3>2. /\ generations'[g].slot[1] = other
          /\ \A h \in GenIds : h # g => generations'[h] = generations[h]
      BY <2>1 DEF Deleted, KeyInv
    <3>3. g \notin Committed(tenant) /\ Committed(tenant) \subseteq GenIds
      BY <2>1, <2>3 DEF Committed
    <3>4. Committed(tenant)' = Committed(tenant)
      BY <2>3, <3>2, <3>3 DEF Committed
    <3>5. \A h \in Committed(tenant) : generations'[h] = generations[h] /\ written'[h] = written[h]
      BY <2>1, <3>2, <3>3
    <3> QED
      BY <1>1, <1>2, <3>1, <3>4, <3>5, OthersKeepRows
  <2> QED
    BY <2>2, <2>3
<1>6. ASSUME NEW other \in Tenants, NEW table \in TablesOf(catalog), SeedRows(other, table)
      PROVE  OwnRows(tenant)'
  <2>1. /\ \E now : rows' = [rows EXCEPT ![other][table] = now]
        /\ seeded' = seeded \cup {other} /\ UNCHANGED <<generations, written>>
    BY <1>6 DEF SeedRows
  <2>2. rows'[tenant] = rows[tenant]
    BY <2>1 DEF RowInv
  <2> QED
    BY <1>3, <2>1, <2>2
<1>7. ASSUME NEW p \in Procs,
             \/ \E slot \in Slots, content \in scene.contents : Post(p, slot, content)
             \/ Late(p)
             \/ \E other \in Tenants, g \in GenIds : Get(p, other, g)
      PROVE  UNCHANGED store
  BY <1>7 DEF Post, Late, Get
<1>8. UNCHANGED store => OwnRows(tenant)'
  BY <1>3 DEF store
<1>9. UNCHANGED vars => UNCHANGED store
  BY DEF vars
<1> QED
  BY <1>4, <1>5, <1>6, <1>7, <1>8, <1>9 DEF Next

\* The rows of a tenant nobody else writes to are the datasets of its committed
\* generations, each row as often as they have it, however many of them share a
\* table, and even where several rows have one key: the only row that a ledger
\* entry finds is the one it was written for (in_memory.py:93-173, 255-309).
THEOREM SpecRowsAreDatasets == Spec => []RowsAreDatasets
<1>1. KeyInv /\ RowInv /\ CopyInv /\ [Next]_vars => CopyInv'
  BY NextKeepsCopies
<1>2. ASSUME RowInv, CopyInv, NEW tenant \in Tenants \ seeded, NEW table \in AllTables, NEW row
      PROVE  LET now == rows[tenant][table]
             IN  Cardinality({i \in DOMAIN now : now[i] = row})
                    = Cardinality({copy \in CopiesOfTable(tenant, table) : RowOf(copy) = row})
  <2> DEFINE now == rows[tenant][table]
             copies == CopiesOfTable(tenant, table)
             val == Drawn(tenant)
  <2>1. now \in Seq(Range(now)) /\ Stands(now, copies, val)
    BY <1>2 DEF RowInv, IsDatabase, IsTable, CopyInv, OwnRows
  <2>2. \A c \in copies : val[c] = RowOf(c)
    BY DEF CopiesOfTable, Drawn
  <2>3. {c \in copies : val[c] = row} = {c \in copies : RowOf(c) = row}
    BY <2>2
  <2> HIDE DEF now, copies, val
  <2>4. Count(now, row) = CountOfCopies(copies, val, row)
    BY <2>1, StandsCounts
  <2> QED
    BY <2>3, <2>4 DEF now, copies, Count, CountOfCopies
<1>3. RowInv /\ CopyInv => RowsAreDatasets
  BY <1>2 DEF RowsAreDatasets
<1> QED
  BY <1>1, <1>3, InitCopies, KeysAreInStep, RowsAreTyped, PTL DEF Spec

-----------------------------------------------------------------------------
(* What is stored was accepted, and no key is taken twice *)

\* Only datasets that were accepted wait for their commit, and are stored.
OutcomeInv ==
    /\ \A p \in Procs : req[p] # NoRequest => Outcome(req[p].content) = "ok"
    /\ \A g \in GenIds \ Absent : Outcome(generations[g].content) = "ok"

\* The tables have no key twice, but for what somebody else wrote.
UniqueInv == \A tenant \in Tenants \ seeded : KeysHold(rows[tenant])

\* Whatever a thread does: a dataset that is refused is forgotten.
LEMMA NextKeepsOutcomes ==
  ASSUME KeyInv, OutcomeInv, [Next]_vars
  PROVE  OutcomeInv'
<1>1. ASSUME NEW p \in Procs, NEW slot \in Slots, NEW content \in scene.contents, Post(p, slot, content)
      PROVE  OutcomeInv'
  <2>1. UNCHANGED generations /\ Absent' = Absent
    BY <1>1 DEF Post, store, Absent
  <2>2. ASSUME NEW q \in Procs, req'[q] # NoRequest
        PROVE  Outcome(req'[q].content) = "ok"
    <3>1. CASE req'[q] = req[q]
      BY <2>2, <3>1 DEF OutcomeInv
    <3>2. CASE req' = [req EXCEPT ![p] = [slot |-> slot, content |-> content]] /\ Outcome(content) = "ok"
      BY <2>2, <3>2 DEF OutcomeInv, KeyInv
    <3> QED
      BY <1>1, <3>1, <3>2 DEF Post
  <2> QED
    BY <2>1, <2>2 DEF OutcomeInv
<1>2. ASSUME NEW p \in Procs, Late(p) \/ Commit(p)
      PROVE  \A q \in Procs : req'[q] # NoRequest => Outcome(req'[q].content) = "ok"
  <2>1. req' = [req EXCEPT ![p] = NoRequest]
    BY <1>2 DEF Late, Commit
  <2> QED
    BY <2>1 DEF OutcomeInv, KeyInv
<1>3. ASSUME NEW p \in Procs, Late(p)
      PROVE  OutcomeInv'
  <2>1. UNCHANGED generations /\ Absent' = Absent
    BY <1>3 DEF Late, store, Absent
  <2> QED
    BY <1>2, <1>3, <2>1 DEF OutcomeInv
<1>4. ASSUME NEW p \in Procs, Commit(p)
      PROVE  OutcomeInv'
  <2> DEFINE slot == req[p].slot
             content == req[p].content
             done == Inserted(slot[1], content)
  <2>1. CASE UNCHANGED store
    <3>1. UNCHANGED generations /\ Absent' = Absent
      BY <2>1 DEF store, Absent
    <3> QED
      BY <1>2, <1>4, <3>1 DEF OutcomeInv
  <2>2. CASE \E g \in Absent : Publish(g, slot, content, done)
    <3>1. PICK g \in Absent : Publish(g, slot, content, done)
      BY <2>2
    <3>2. Outcome(content) = "ok"
      BY <1>4 DEF Commit, OutcomeInv
    <3> HIDE DEF slot, content, done
    <3>3. g \in GenIds /\ generations' = [generations EXCEPT ![g] =
                             [state |-> "COMMITTED", slot |-> slot, content |-> content]]
      BY <3>1 DEF Publish, Absent
    <3>4. generations'[g].content = content /\ \A h \in GenIds : h # g => generations'[h] = generations[h]
      BY <3>3 DEF KeyInv
    <3>5. \A h \in GenIds : h # g /\ h \notin Absent' => h \notin Absent
      BY <3>4 DEF Absent
    <3>6. \A h \in (GenIds \ Absent)' : Outcome(generations'[h].content) = "ok"
      BY <3>2, <3>4, <3>5 DEF OutcomeInv
    <3> QED
      BY <1>2, <1>4, <3>6 DEF OutcomeInv
  <2> QED
    BY <1>4, <2>1, <2>2 DEF Commit
<1>5. ASSUME NEW p \in Procs, NEW tenant \in Tenants, NEW g \in GenIds, Get(p, tenant, g)
      PROVE  OutcomeInv'
  BY <1>5 DEF Get, store, OutcomeInv, Absent
<1>6. ASSUME NEW p \in Procs, NEW tenant \in Tenants, NEW g \in GenIds, Delete(p, tenant, g)
      PROVE  OutcomeInv'
  <2>1. CASE UNCHANGED store
    BY <1>6, <2>1 DEF Delete, store, OutcomeInv, Absent
  <2>2. CASE generations' = Deleted(g)
    <3>1. \A h \in GenIds : /\ generations'[h].content = generations[h].content
                            /\ generations[h].state = "ABSENT" => h = g \/ generations'[h].state = "ABSENT"
      BY <2>2 DEF Deleted, KeyInv
    <3>2. g \notin Absent \/ generations' = generations
      BY <1>6, <2>2 DEF Delete, Known, store
    <3>3. \A h \in GenIds : h \notin Absent' => h \notin Absent
      BY <3>1, <3>2 DEF Absent
    <3> QED
      BY <1>6, <3>1, <3>3 DEF Delete, OutcomeInv
  <2> QED
    BY <1>6, <2>1, <2>2 DEF Delete
<1>7. ASSUME NEW tenant \in Tenants, NEW table \in TablesOf(catalog), SeedRows(tenant, table)
      PROVE  OutcomeInv'
  BY <1>7 DEF SeedRows, OutcomeInv, Absent
<1>8. CASE UNCHANGED vars
  BY <1>8 DEF vars, store, OutcomeInv, Absent
<1> QED
  BY <1>1, <1>3, <1>4, <1>5, <1>6, <1>7, <1>8 DEF Next

\* A dataset that is written takes no key that is taken.
LEMMA InsertedKeys ==
  ASSUME scene \in Scenes, NEW content \in scene.contents, NEW tenant \in Tenants,
         IsDatabase(rows[tenant]), KeysHold(rows[tenant])
  PROVE  KeysHold(Inserted(tenant, content).staged)
<1> DEFINE new == InsertOrder(content)
           n == Len(new)
           base == [staged |-> rows[tenant], ledger |-> << >>, code |-> "ok"]
<1>1. new \in Seq(Range(new)) /\ \A e \in Range(new) : IsRow(e.row) /\ e.rank \in Int
  BY InsertOrderType
<1>2. Inserted(tenant, content) = FoldLeft(Insert, base, new)
  BY DEF Inserted
<1> HIDE DEF new
<1>3. n \in Nat /\ DOMAIN new = 1 .. n
  BY <1>1
<1> HIDE DEF n
<1>4. PICK run : Run(run, "insert", base, new, n) /\ FoldLeft(Insert, base, new) = run[n]
  <2> HIDE DEF base
  <2> QED
    BY <1>3, FoldInsert
<1> DEFINE S == {k \in 0 .. n : IsWritten(run[k]) /\ KeysHold(run[k].staged)}
<1>5. 0 \in S
  <2>1. run[0] = base /\ 0 \in 0 .. n
    BY <1>3, <1>4 DEF Run
  <2>2. IsLedger(<< >>)
    BY DEF IsLedger
  <2>3. base = [staged |-> base.staged, ledger |-> base.ledger, code |-> base.code]
        /\ base.staged = rows[tenant] /\ base.ledger = << >>
    OBVIOUS
  <2> HIDE DEF base
  <2> QED
    BY <2>1, <2>2, <2>3 DEF IsWritten
<1>6. ASSUME NEW k \in 0 .. n - 1, k \in S
      PROVE  k + 1 \in S
  <2>1. k + 1 \in 1 .. n /\ k + 1 \in 0 .. n /\ (k + 1) - 1 = k
    BY <1>3
  <2> DEFINE acc == run[k]
             one == new[k + 1]
             next == run[k + 1]
  <2>2. next = Insert(acc, one)
    BY <1>4, <2>1 DEF Run, Step
  <2>3. IsRow(one.row) /\ one.rank \in Int
    BY <1>1, <1>3, <2>1 DEF Range
  <2>4. IsWritten(acc) /\ KeysHold(acc.staged)
    BY <1>6
  <2> HIDE DEF acc, one, next
  <2>5. IsWritten(next)
    BY <2>2, <2>3, <2>4, InsertKeepsTypes
  <2>6. KeysHold(next.staged)
    <3>1. CASE next = acc
      BY <2>4, <3>1
    <3>2. ASSUME NEW code, next = [acc EXCEPT !.code = code]
          PROVE  KeysHold(next.staged)
      <4>1. next.staged = acc.staged
        BY <2>4, <3>2 DEF IsWritten
      <4> QED
        BY <2>4, <4>1
    <3>3. CASE next = Stage(acc, one) /\ next.code = "ok" /\ ~Taken(acc.staged, one.table, one.row)
      <4>1. one.table \in AllTables /\ next.staged = [acc.staged EXCEPT ![one.table] = Append(@, one.row)]
        <5>1. IsWritten(acc) /\ IsRow(one.row) /\ one.rank \in Int /\ next = Insert(acc, one) /\ next.code = "ok"
          BY <2>2, <2>3, <2>4, <3>3
        <5> HIDE DEF S, base
        <5> QED
          BY <5>1, InsertedRow
      <4> DEFINE Row == Stock(acc.staged) \cup {one.row}
      <4>2. acc.staged \in Databases(Row) /\ one.row \in Row
        BY <2>4, DatabaseOfStock DEF IsWritten
      <4> HIDE DEF Row
      <4> QED
        BY <2>4, <3>3, <4>1, <4>2, KeysAfterInsert
    <3>4. \/ next = acc
          \/ \E code : next = [acc EXCEPT !.code = code]
          \/ /\ next = Stage(acc, one) /\ acc.code = "ok"
             /\ ~Taken(acc.staged, one.table, one.row)
      BY <2>2 DEF Insert
    <3>5. Stage(acc, one).code = acc.code
      BY <2>4 DEF Stage, IsWritten
    <3> QED
      BY <3>1, <3>2, <3>3, <3>4, <3>5
  <2> QED
    BY <2>1, <2>5, <2>6 DEF next
<1>7. n \in S
  <2> HIDE DEF S
  <2>1. 0 .. n \subseteq S
    BY <1>3, <1>5, <1>6, Induction
  <2> QED
    BY <1>3, <2>1
<1> HIDE DEF base
<1> QED
  BY <1>2, <1>4, <1>7

\* A row that goes brings no key.
LEMMA DeletedKeys ==
  ASSUME scene \in Scenes, NEW cur, IsDatabase(cur), KeysHold(cur),
         NEW w, w.table \in AllTables, NEW x, NEW after, Deletes(x, w, cur, after)
  PROVE  KeysHold(after)
<1> DEFINE table == w.table
           Row == Stock(cur) \cup {}
<1>1. cur \in Databases(Row)
  BY DatabaseOfStock
<1>2. table \in AllTables /\ x \in DOMAIN cur[table] /\ after = [cur EXCEPT ![table] = RemoveAt(@, x)]
  BY DEF Deletes
<1> HIDE DEF table, Row
<1> QED
  BY <1>1, <1>2, KeysAfterDelete

\* Nor does a ledger.
LEMMA RemovedKeys ==
  ASSUME scene \in Scenes, NEW tenant \in Tenants, IsDatabase(rows[tenant]), NEW g \in GenIds,
         IsLedger(written[g]), KeysHold(rows[tenant])
  PROVE  KeysHold(Removed(tenant, g).staged)
<1> DEFINE ledger == written[g]
           order == DeleteOrder(g)
           base == [staged |-> rows[tenant], code |-> "ok"]
           n == Len(ledger)
<1>1. n \in Nat /\ DOMAIN ledger = 1 .. n /\ DOMAIN order = 1 .. n
  BY DEF DeleteOrder, IsLedger
<1>2. PICK at : Permutes(at, order, ledger, n)
  BY DeleteOrderIsAll
<1>3. \A i \in 1 .. n : ledger[i].table \in AllTables
  BY <1>1 DEF IsLedger
<1>4. Removed(tenant, g) = FoldLeft(DeleteRow, base, order)
  BY DEF Removed
<1> HIDE DEF order, ledger, n
<1>5. PICK run : Run(run, "delete", base, order, n) /\ FoldLeft(DeleteRow, base, order) = run[n]
  <2> HIDE DEF base
  <2> QED
    BY <1>1, FoldDelete
<1>6. \A k \in 1 .. n : order[k].table \in AllTables
  BY <1>2, <1>3 DEF Permutes
<1> DEFINE S == {k \in 0 .. n : IsReduced(run[k]) /\ KeysHold(run[k].staged)}
<1>7. 0 \in S
  <2>1. run[0] = base /\ 0 \in 0 .. n
    BY <1>1, <1>5 DEF Run
  <2>2. base = [staged |-> base.staged, code |-> base.code] /\ base.staged = rows[tenant]
    OBVIOUS
  <2> HIDE DEF base
  <2> QED
    BY <2>1, <2>2 DEF IsReduced
<1>8. ASSUME NEW k \in 0 .. n - 1, k \in S
      PROVE  k + 1 \in S
  <2>1. k + 1 \in 1 .. n /\ k + 1 \in 0 .. n /\ (k + 1) - 1 = k
    BY <1>1
  <2> DEFINE acc == run[k]
             w == order[k + 1]
             next == run[k + 1]
  <2>2. next = DeleteRow(acc, w) /\ w.table \in AllTables
    BY <1>5, <1>6, <2>1 DEF Run, Step
  <2>3. IsReduced(acc) /\ KeysHold(acc.staged)
    BY <1>8
  <2> HIDE DEF acc, w, next
  <2>4. IsReduced(next)
    BY <2>2, <2>3, DeleteKeepsTypes
  <2>5. KeysHold(next.staged)
    <3>1. CASE next.code = "ok"
      <4>1. CASE acc.code # "ok"
        BY <2>2, <2>3, <4>1 DEF DeleteRow
      <4>2. CASE acc.code = "ok"
        <5> DEFINE cur == acc.staged
        <5>1. IsDatabase(cur) /\ KeysHold(cur) /\ acc = [staged |-> cur, code |-> "ok"]
          BY <2>3, <4>2 DEF IsReduced
        <5> HIDE DEF cur
        <5>2. \E x : Deletes(x, w, cur, next.staged)
          BY <2>2, <3>1, <5>1, DeletedRow
        <5> QED
          BY <2>2, <5>1, <5>2, DeletedKeys
      <4> QED
        BY <4>1, <4>2
    <3>2. CASE next.code # "ok"
      <4>1. next = acc \/ \E code : next = [acc EXCEPT !.code = code]
        <5>1. DeleteRow(acc, w).code = acc.code \/ DeleteRow(acc, w) = [acc EXCEPT !.code = "DELETE_CONFLICT"]
          BY <2>3 DEF DeleteRow, IsReduced
        <5>2. acc.code # "ok" => DeleteRow(acc, w) = acc
          BY DEF DeleteRow
        <5> QED
          BY <2>2, <3>2, <5>1, <5>2
      <4>2. next.staged = acc.staged
        BY <2>3, <4>1 DEF IsReduced
      <4> QED
        BY <2>3, <4>2
    <3> QED
      BY <3>1, <3>2
  <2> QED
    BY <2>1, <2>4, <2>5 DEF next
<1>9. n \in S
  <2> HIDE DEF S
  <2>1. 0 .. n \subseteq S
    BY <1>1, <1>7, <1>8, Induction
  <2> QED
    BY <1>1, <2>1
<1> HIDE DEF base
<1> QED
  BY <1>4, <1>5, <1>9

\* Whatever a thread does.
LEMMA NextKeepsUnique ==
  ASSUME KeyInv, RowInv, UniqueInv, [Next]_vars
  PROVE  UniqueInv'
<1> SUFFICES ASSUME NEW tenant \in Tenants, tenant \notin seeded'
             PROVE  KeysHold(rows[tenant])'
  BY DEF UniqueInv
<1>1. seeded \subseteq seeded' /\ UNCHANGED scene
  BY DEF Next, Post, Late, Commit, Get, Delete, SeedRows, vars
<1>2. KeysHold(rows[tenant]) /\ scene \in Scenes
  BY <1>1 DEF UniqueInv, KeyInv
<1>3. UNCHANGED catalog
  BY <1>1 DEF catalog
<1>4. ASSUME NEW staged, KeysHold(staged), rows'[tenant] = staged
      PROVE  KeysHold(rows[tenant])'
  BY <1>3, <1>4 DEF KeysHold
<1>5. rows'[tenant] = rows[tenant] => KeysHold(rows[tenant])'
  BY <1>2, <1>4
<1>6. ASSUME NEW p \in Procs, Commit(p), rows'[tenant] # rows[tenant]
      PROVE  KeysHold(rows[tenant])'
  <2> DEFINE slot == req[p].slot
             content == req[p].content
             done == Inserted(slot[1], content)
  <2>1. slot \in Slots /\ content \in scene.contents
    BY <1>6 DEF Commit, KeyInv
  <2>2. \E g \in Absent : Publish(g, slot, content, done)
    BY <1>6 DEF Commit, store
  <2>3. rows' = [rows EXCEPT ![slot[1]] = done.staged]
    BY <2>2 DEF Publish
  <2> HIDE DEF slot, content, done
  <2>4. tenant = slot[1] /\ rows'[tenant] = done.staged
    BY <1>6, <2>3 DEF RowInv
  <2>5. KeysHold(done.staged)
    BY <1>2, <2>1, <2>4, InsertedKeys DEF RowInv, done
  <2> QED
    BY <1>4, <2>4, <2>5
<1>7. ASSUME NEW p \in Procs, NEW other \in Tenants, NEW g \in GenIds, Delete(p, other, g),
             rows'[tenant] # rows[tenant]
      PROVE  KeysHold(rows[tenant])'
  <2>1. rows' = [rows EXCEPT ![other] = Removed(other, g).staged]
    BY <1>7 DEF Delete, store
  <2>2. tenant = other /\ rows'[tenant] = Removed(tenant, g).staged
    BY <1>7, <2>1 DEF RowInv
  <2>3. KeysHold(Removed(tenant, g).staged)
    BY <1>2, RemovedKeys DEF RowInv
  <2> QED
    BY <1>4, <2>2, <2>3
<1>8. ASSUME NEW other \in Tenants, NEW table \in TablesOf(catalog), SeedRows(other, table)
      PROVE  rows'[tenant] = rows[tenant]
  <2>1. /\ \E now : rows' = [rows EXCEPT ![other][table] = now]
        /\ seeded' = seeded \cup {other}
    BY <1>8 DEF SeedRows
  <2> QED
    BY <2>1 DEF RowInv
<1>9. ASSUME \/ \E p \in Procs :
                   \/ \E slot \in Slots, content \in scene.contents : Post(p, slot, content)
                   \/ Late(p)
                   \/ \E other \in Tenants, g \in GenIds : Get(p, other, g)
             \/ UNCHANGED vars
      PROVE  rows'[tenant] = rows[tenant]
  BY <1>9 DEF Post, Late, Get, store, vars
<1> QED
  BY <1>5, <1>6, <1>7, <1>8, <1>9 DEF Next

\* Both hold of the empty store.
LEMMA InitUnique == Init => OutcomeInv /\ UniqueInv
<1> SUFFICES ASSUME Init
             PROVE  OutcomeInv /\ UniqueInv
  OBVIOUS
<1>1. OutcomeInv
  BY DEF Init, OutcomeInv, Absent, NoResult
<1>2. \A tenant \in Tenants : rows[tenant] = [t \in AllTables |-> << >>] /\ scene \in Scenes
  BY DEF Init
<1>3. ASSUME NEW tenant \in Tenants
      PROVE  KeysHold(rows[tenant])
  BY <1>2, ConstraintsAreOfTables, KeysHoldOfRows
<1> QED
  BY <1>1, <1>3 DEF UniqueInv

-----------------------------------------------------------------------------
(* What an accepted dataset brings along *)

\* Values are NULL only where they may be, what is unique differs, and what is
\* referred to is there.
Sound(contract, dataset) ==
    /\ \A t \in RecordTypes(contract), f \in Fields : \A i \in 1 .. contract.count[t] :
          dataset[t][i][f] = None => <<t, f>> \in contract.nullable
    /\ \A t \in RecordTypes(contract), f \in Fields : <<t, f>> \in contract.unique =>
          \A i, j \in 1 .. contract.count[t] :
             i # j /\ dataset[t][i][f] = dataset[t][j][f] => dataset[t][i][f] = None
    /\ \A rel \in Range(contract.relations) : \A i \in 1 .. contract.count[rel.from[1]] :
          dataset[rel.from[1]][i][rel.from[2]] # None =>
             \E m \in 1 .. contract.count[rel.to[1]] :
                dataset[rel.to[1]][m][rel.to[2]] = dataset[rel.from[1]][i][rel.from[2]]

\* That is what was accepted.
LEMMA AcceptedIsSound ==
  ASSUME NEW content, ValidContent(content), Outcome(content) = "ok"
  PROVE  Sound(content.contract, Generated(content))
<1> DEFINE contract == content.contract
           dataset == Generated(content)
<1>1. ValidContract(contract) /\ IsDataset(contract, dataset)
  BY GeneratedIsDataset DEF ValidContent
<1>2. Accepted(contract, dataset)
  BY DEF Outcome
<1> HIDE DEF contract, dataset
<1>3. \A t \in RecordTypes(contract) : DOMAIN dataset[t] = 1 .. contract.count[t]
  BY <1>1 DEF IsDataset
<1>4. ASSUME NEW t \in RecordTypes(contract), NEW f \in Fields
      PROVE  /\ \A i \in 1 .. contract.count[t] :
                   dataset[t][i][f] = None => <<t, f>> \in contract.nullable
             /\ <<t, f>> \in contract.unique =>
                   \A i, j \in 1 .. contract.count[t] :
                      i # j /\ dataset[t][i][f] = dataset[t][j][f] => dataset[t][i][f] = None
  <2> DEFINE column == [i \in DOMAIN dataset[t] |-> dataset[t][i][f]]
  <2>1. /\ \A value \in Range(column) : value = None => <<t, f>> \in contract.nullable
        /\ <<t, f>> \in contract.unique =>
              \A i, j \in DOMAIN column : i # j /\ column[i] = column[j] => column[i] = None
    BY <1>2 DEF Accepted
  <2>2. DOMAIN column = 1 .. contract.count[t] /\ \A i \in DOMAIN column : column[i] = dataset[t][i][f]
    BY <1>3
  <2> HIDE DEF column
  <2>3. \A i \in DOMAIN column : column[i] \in Range(column)
    BY DEF Range
  <2> QED
    BY <2>1, <2>2, <2>3
<1>5. ASSUME NEW rel \in Range(contract.relations), NEW i \in 1 .. contract.count[rel.from[1]],
             dataset[rel.from[1]][i][rel.from[2]] # None
      PROVE  \E m \in 1 .. contract.count[rel.to[1]] :
                dataset[rel.to[1]][m][rel.to[2]] = dataset[rel.from[1]][i][rel.from[2]]
  <2>1. rel.from[1] \in RecordTypes(contract) /\ rel.to[1] \in RecordTypes(contract)
    BY <1>1, RelationFields
  <2>2. dataset[rel.from[1]][i] \in Range(dataset[rel.from[1]])
    BY <1>3, <2>1 DEF Range
  <2>3. PICK target \in Range(dataset[rel.to[1]]) : target[rel.to[2]] = dataset[rel.from[1]][i][rel.from[2]]
    BY <1>2, <1>5, <2>2 DEF Accepted
  <2> QED
    BY <1>3, <2>1, <2>3 DEF Range
<1> QED
  BY <1>4, <1>5 DEF Sound, contract, dataset

\* One record type is before another in a plan.
Before(u, t, plan) == \E a, b \in 1 .. Len(plan) : a < b /\ plan[a] = u /\ plan[b] = t

\* Where a foreign key starts at a table of a contract that covers it, its target is
\* in the dataset itself, of a record type that the plan has before.
LEMMA TargetOfRow ==
  ASSUME NEW content, ValidContent(content), Outcome(content) = "ok",
         NEW contract, contract = content.contract, NEW dataset, dataset = Generated(content),
         Covers(contract), NEW fk \in catalog.foreign,
         NEW t \in RecordTypes(contract), contract.dest[t] = fk.from[1],
         NEW i \in 1 .. contract.count[t], dataset[t][i][fk.from[2]] # None
  PROVE  /\ fk.to = <<fk.to[1], fk.to[2]>> /\ fk.to[2] \in Fields
         /\ \E u \in RecordTypes(contract) : \E m \in 1 .. contract.count[u] :
               /\ contract.dest[u] = fk.to[1] /\ Before(u, t, contract.plan)
               /\ dataset[u][m][fk.to[2]] = dataset[t][i][fk.from[2]]
<1>1. ValidContract(contract) /\ DOMAIN contract.dest = RecordTypes(contract)
  BY DEF ValidContent, ValidContract
<1>2. fk.from[1] \in Range(contract.dest)
  BY <1>1 DEF Range
<1>3. PICK rel \in Range(contract.relations) :
         /\ fk.from[1] # fk.to[1]
         /\ <<contract.dest[rel.from[1]], rel.from[2]>> = fk.from
         /\ <<contract.dest[rel.to[1]], rel.to[2]>> = fk.to
  BY <1>2 DEF Covers
<1>4. /\ rel.from[1] \in RecordTypes(contract) /\ rel.to[1] \in RecordTypes(contract)
      /\ rel.to[2] \in Fields
  BY <1>1, RelationFields
<1>5. /\ contract.dest[rel.from[1]] = fk.from[1] /\ rel.from[2] = fk.from[2]
      /\ contract.dest[rel.to[1]] = fk.to[1] /\ rel.to[2] = fk.to[2]
      /\ fk.to = <<fk.to[1], fk.to[2]>>
  BY <1>3
<1>6. rel.from[1] = t
  BY <1>1, <1>4, <1>5 DEF Covers, IsInjective
<1>7. PICK m \in 1 .. contract.count[rel.to[1]] :
         dataset[rel.to[1]][m][rel.to[2]] = dataset[rel.from[1]][i][rel.from[2]]
  <2>1. Sound(contract, dataset)
    BY AcceptedIsSound
  <2>2. i \in 1 .. contract.count[rel.from[1]] /\ dataset[rel.from[1]][i][rel.from[2]] # None
    BY <1>5, <1>6
  <2> QED
    BY <2>1, <2>2 DEF Sound
<1>8. Before(rel.to[1], t, contract.plan)
  <2>1. PICK a, b \in DOMAIN contract.plan : /\ a <= b /\ contract.plan[a] = rel.to[1]
                                             /\ contract.plan[b] = rel.from[1]
    BY <1>1 DEF ValidContract
  <2>2. DOMAIN contract.plan = 1 .. Len(contract.plan) /\ Len(contract.plan) \in Nat
    BY <1>1 DEF ValidContract
  <2>3. a # b
    BY <1>3, <1>5, <2>1
  <2>4. a < b
    BY <2>1, <2>2, <2>3
  <2> QED
    BY <1>6, <2>1, <2>2, <2>4 DEF Before
<1> QED
  BY <1>4, <1>5, <1>6, <1>7, <1>8

\* The key of a row that its ledger entry has is not NULL.
LEMMA KeyIsThere ==
  ASSUME NEW content, ValidContent(content), Outcome(content) = "ok",
         NEW contract, contract = content.contract,
         NEW t \in RecordTypes(contract), NEW i \in 1 .. contract.count[t], NEW f \in contract.keys[t]
  PROVE  Generated(content)[t][i][f] # None
<1>1. f \in Fields /\ <<t, f>> \notin contract.nullable
  BY DEF ValidContent, ValidContract
<1>2. Sound(contract, Generated(content))
  BY AcceptedIsSound
<1> QED
  BY <1>1, <1>2 DEF Sound

\* A record type that the plan has before is of a higher rank.
LEMMA RanksDescend ==
  ASSUME NEW contract, ValidContract(contract), NEW u, NEW t, Before(u, t, contract.plan),
         NEW high, NEW low, Ranked(u, high, contract.plan), Ranked(t, low, contract.plan)
  PROVE  low < high
<1> DEFINE plan == contract.plan
           n == Len(plan)
<1>1. n \in Nat /\ DOMAIN plan = 1 .. n /\ \A a, b \in DOMAIN plan : plan[a] = plan[b] => a = b
  BY DEF ValidContract, IsInjective
<1>2. PICK a, b \in 1 .. n : a < b /\ plan[a] = u /\ plan[b] = t
  BY DEF Before
<1>3. PICK k \in 1 .. n : plan[k] = u /\ high = n - k
  BY DEF Ranked
<1>4. PICK m \in 1 .. n : plan[m] = t /\ low = n - m
  BY DEF Ranked
<1> HIDE DEF plan, n
<1>5. k = a /\ m = b
  BY <1>1, <1>2, <1>3, <1>4
<1> QED
  BY <1>1, <1>2, <1>3, <1>4, <1>5

-----------------------------------------------------------------------------
(* A deletion that is not refused *)

\* The committed generations of a tenant have what the catalog asks for.
Complete(tenant) ==
    \A g \in Committed(tenant) :
        LET content == generations[g].content
        IN  /\ ValidContent(content) /\ Outcome(content) = "ok"
            /\ Covers(content.contract) /\ Identified(content.contract)
            /\ ReferredIsThere(content.contract)

\* A column has no value twice.
Distinct(s, column) ==
    \A i, j \in DOMAIN s : s[i][column] = s[j][column] /\ s[i][column] # None => i = j

\* A unique one.
LEMMA UniqueIsDistinct ==
  ASSUME NEW staged, KeysHold(staged), NEW key \in catalog.unique
  PROVE  Distinct(staged[key[1]], key[2])
BY KeysHoldOfRows DEF Distinct

\* Of two copies with the same value in such a column there is one row.
LEMMA UniqueCopy ==
  ASSUME NEW s, NEW column, Distinct(s, column), NEW copies, NEW val, Stands(s, copies, val),
         NEW c, c \in copies, NEW d, d \in copies, NEW value, value # None,
         val[c][column] = value, val[d][column] = value
  PROVE  c = d
<1>1. PICK origin : IsOrigin(origin, s, DOMAIN s, copies, val)
  BY DEF Stands
<1>2. PICK i \in DOMAIN s : origin[i] = c /\ s[i] = val[c]
  BY <1>1 DEF IsOrigin
<1>3. PICK j \in DOMAIN s : origin[j] = d /\ s[j] = val[d]
  BY <1>1 DEF IsOrigin
<1>4. i = j
  BY <1>2, <1>3 DEF Distinct
<1> QED
  BY <1>2, <1>3, <1>4

\* What refers to a row of a tenant is a row of its own generation, of a record type
\* that the plan has later.
LEMMA ReferredFromOwn ==
  ASSUME scene \in Scenes, NEW tenant \in Tenants, Complete(tenant), KeysHold(rows[tenant]),
         \A t \in AllTables : Stands(rows[tenant][t], CopiesOfTable(tenant, t), Drawn(tenant)),
         NEW fk \in catalog.foreign,
         NEW c \in CopiesOfTable(tenant, fk.to[1]), NEW d \in CopiesOfTable(tenant, fk.from[1]),
         RowOf(d)[fk.from[2]] = RowOf(c)[fk.to[2]]
  PROVE  d[1] = c[1] /\ Before(c[2], d[2], generations[c[1]].content.contract.plan)
<1> DEFINE h == c[1]
           theirs == generations[h].content
           g == d[1]
           content == generations[g].content
           contract == content.contract
<1>1. /\ c \in Copies(tenant) /\ theirs.contract.dest[c[2]] = fk.to[1]
      /\ d \in Copies(tenant) /\ contract.dest[d[2]] = fk.from[1]
  BY DEF CopiesOfTable
<1>2. h \in Committed(tenant) /\ c \in CopiesOf(h, theirs) /\ g \in Committed(tenant) /\ d \in CopiesOf(g, content)
  BY <1>1, CopiesAreOf
<1>3. \A e, what : \A x \in CopiesOf(e, what) :
         /\ x = <<e, x[2], x[3]>> /\ x[2] \in RecordTypes(what.contract)
         /\ x[3] \in 1 .. what.contract.count[x[2]]
  <2> SUFFICES ASSUME NEW e, NEW what, NEW x \in CopiesOf(e, what)
               PROVE  /\ x = <<e, x[2], x[3]>> /\ x[2] \in RecordTypes(what.contract)
                      /\ x[3] \in 1 .. what.contract.count[x[2]]
    OBVIOUS
  <2>1. PICK t \in RecordTypes(what.contract) : \E i \in 1 .. what.contract.count[t] : x = <<e, t, i>>
    BY DEF CopiesOf
  <2>2. PICK i \in 1 .. what.contract.count[t] : x = <<e, t, i>>
    BY <2>1
  <2>3. x[2] = t /\ x[3] = i
    BY <2>2
  <2> QED
    BY <2>2, <2>3
<1>4. /\ c = <<h, c[2], c[3]>> /\ c[2] \in RecordTypes(theirs.contract) /\ c[3] \in 1 .. theirs.contract.count[c[2]]
      /\ d = <<g, d[2], d[3]>> /\ d[2] \in RecordTypes(contract) /\ d[3] \in 1 .. contract.count[d[2]]
  BY <1>2, <1>3
<1>5. /\ ValidContent(content) /\ Outcome(content) = "ok" /\ Covers(contract)
      /\ ValidContent(theirs) /\ Outcome(theirs) = "ok" /\ ReferredIsThere(theirs.contract)
  BY <1>2 DEF Complete
<1>6. /\ RowOf(c) = Generated(theirs)[c[2]][c[3]] /\ RowOf(d) = Generated(content)[d[2]][d[3]]
      /\ RowOf(c) = Drawn(tenant)[c] /\ RowOf(d) = Drawn(tenant)[d]
  BY <1>1 DEF RowOf, Drawn
<1> DEFINE t == d[2]
           i == d[3]
           dataset == Generated(content)
<1> HIDE DEF h, theirs, g, content, contract, dataset, t, i
<1>7. fk.to \in catalog.unique /\ fk.to \in TablesOf(catalog) \X Fields /\ fk.to[1] \in AllTables
  BY ConstraintsAreOfTables, SceneAssumption DEF catalog
<1>8. fk.to = <<fk.to[1], fk.to[2]>> /\ fk.to[2] \in Fields
  BY <1>7
<1>9. RowOf(c)[fk.to[2]] # None
  <2>1. RowOf(c)[fk.to[2]] = None => <<c[2], fk.to[2]>> \in theirs.contract.nullable
    <3>1. Sound(theirs.contract, Generated(theirs))
      BY <1>5, AcceptedIsSound
    <3> QED
      BY <1>4, <1>6, <1>8, <3>1 DEF Sound
  <2>2. <<theirs.contract.dest[<<c[2], fk.to[2]>>[1]], <<c[2], fk.to[2]>>[2]>> = fk.to
    BY <1>1, <1>8 DEF theirs, h
  <2> QED
    BY <1>5, <2>1, <2>2 DEF ReferredIsThere
<1>10. PICK u \in RecordTypes(contract) : \E m \in 1 .. contract.count[u] :
          /\ contract.dest[u] = fk.to[1] /\ Before(u, t, contract.plan)
          /\ dataset[u][m][fk.to[2]] = dataset[t][i][fk.from[2]]
  <2>1. /\ contract = content.contract /\ dataset = Generated(content) /\ t \in RecordTypes(contract)
        /\ contract.dest[t] = fk.from[1] /\ i \in 1 .. contract.count[t]
        /\ dataset[t][i][fk.from[2]] # None
    BY <1>1, <1>4, <1>6, <1>9 DEF contract, dataset, t, i, g, content
  <2> QED
    BY <1>5, <2>1, TargetOfRow
<1>11. PICK m \in 1 .. contract.count[u] :
          /\ contract.dest[u] = fk.to[1] /\ Before(u, t, contract.plan)
          /\ dataset[u][m][fk.to[2]] = dataset[t][i][fk.from[2]]
  BY <1>10
<1> DEFINE e == <<g, u, m>>
<1>12. e \in CopiesOfTable(tenant, fk.to[1]) /\ RowOf(e) = dataset[u][m] /\ RowOf(e) = Drawn(tenant)[e]
  <2>1. e[1] = g /\ e[2] = u /\ e[3] = m
    OBVIOUS
  <2>2. e \in CopiesOf(g, content)
    BY <1>11 DEF CopiesOf, contract
  <2>3. e \in Copies(tenant)
    BY <1>2, <2>2 DEF Copies, content
  <2> HIDE DEF e
  <2>4. generations[e[1]].content.contract.dest[e[2]] = fk.to[1]
    BY <1>11, <2>1 DEF contract, content
  <2>5. RowOf(e) = dataset[u][m]
    BY <2>1 DEF RowOf, dataset, content
  <2> QED
    BY <2>3, <2>4, <2>5 DEF CopiesOfTable, Drawn
<1>13. c = e
  <2>1. RowOf(e)[fk.to[2]] = RowOf(c)[fk.to[2]]
    BY <1>6, <1>11, <1>12 DEF dataset, t, i
  <2> DEFINE copies == CopiesOfTable(tenant, fk.to[1])
             val == Drawn(tenant)
             s == rows[tenant][fk.to[1]]
             column == fk.to[2]
             value == RowOf(c)[column]
  <2>2. /\ Distinct(s, column) /\ Stands(s, copies, val) /\ c \in copies /\ e \in copies
        /\ val[c][column] = value /\ val[e][column] = value /\ value # None
    BY <1>6, <1>7, <1>9, <1>12, <2>1, UniqueIsDistinct
  <2> HIDE DEF copies, val, e, s, column, value
  <2> QED
    BY <2>2, UniqueCopy
<1>14. c[1] = g /\ c[2] = u
  BY <1>13
<1> HIDE DEF e
<1> QED
  BY <1>11, <1>14 DEF g, h, t, contract, content

\* No row that is left refers to this copy's.
Unreferred(c, table, left, val) ==
    \A fk \in catalog.foreign : fk.to[1] = table =>
        \A d \in left[fk.from[1]] : val[d][fk.from[2]] # val[c][fk.to[2]]

\* An entry whose row is there, has a key that is unique, and is not referred to.
LEMMA EntryIsDeleted ==
  ASSUME scene \in Scenes, NEW cur, IsDatabase(cur), KeysHold(cur), NEW w, w.table \in AllTables,
         NEW left, NEW val, AllStand(cur, left, val), NEW c, c \in left[w.table], HasKey(val[c], w),
         NEW f \in DOMAIN w.key, <<w.table, f>> \in catalog.unique, w.key[f] # None,
         Unreferred(c, w.table, left, val)
  PROVE  DeleteRow([staged |-> cur, code |-> "ok"], w).code = "ok"
<1> DEFINE table == w.table
           s == cur[table]
           key == <<table, f>>
           matches == Matches(cur, w)
<1>1. PICK origin : IsOrigin(origin, s, DOMAIN s, left[table], val)
  BY DEF AllStand, Stands
<1>2. PICK x \in DOMAIN s : s[x] = val[c]
  BY <1>1 DEF IsOrigin
<1>3. matches = {j \in DOMAIN s : HasKey(s[j], w)}
  BY DEF Matches, HasKey
<1>4. Distinct(s, f)
  <2>1. key \in catalog.unique /\ key[1] = table /\ key[2] = f
    OBVIOUS
  <2> HIDE DEF key
  <2>2. Distinct(cur[key[1]], key[2])
    BY <2>1, UniqueIsDistinct
  <2> QED
    BY <2>1, <2>2
<1>5. matches = {x}
  <2>1. x \in matches
    BY <1>2, <1>3
  <2>2. ASSUME NEW j \in matches
        PROVE  j = x
    <3>1. j \in DOMAIN s /\ s[j][f] = w.key[f] /\ s[x][f] = w.key[f]
      BY <1>2, <1>3 DEF HasKey
    <3> QED
      BY <1>4, <3>1 DEF Distinct
  <2> HIDE DEF matches
  <2> QED
    BY <2>1, <2>2
<1>6. Cardinality(matches) = 1 /\ (CHOOSE i \in matches : TRUE) = x
  BY <1>5, FS_Singleton
<1>7. ~HasReference(cur, table, s[x])
  <2> SUFFICES ASSUME NEW fk \in catalog.foreign, fk.to[1] = table,
                      NEW other \in Range(cur[fk.from[1]]), other[fk.from[2]] = s[x][fk.to[2]]
               PROVE  FALSE
    BY DEF HasReference
  <2>1. fk.from[1] \in AllTables
    BY ConstraintsAreOfTables
  <2>2. PICK there : IsOrigin(there, cur[fk.from[1]], DOMAIN cur[fk.from[1]], left[fk.from[1]], val)
    BY <2>1 DEF AllStand, Stands
  <2>3. PICK d \in left[fk.from[1]] : other = val[d]
    BY <2>2 DEF IsOrigin, Range
  <2> QED
    BY <1>2, <2>3 DEF Unreferred
<1> HIDE DEF matches, s
<1>8. ~(Cardinality(Matches(cur, w)) # 1 \/ HasReference(cur, table, s[CHOOSE i \in Matches(cur, w) : TRUE]))
  BY <1>6, <1>7 DEF matches
<1> QED
  BY <1>8 DEF DeleteRow, s

\* Every row has a key with a unique column, and is referred to only from rows of lower
\* rank that are written with it.
Identifying(new, n) ==
    \A i \in 1 .. n : \E f \in DOMAIN new[i].key :
        <<new[i].table, f>> \in catalog.unique /\ new[i].key[f] # None

ReferredLower(new, id, val, copies, n) ==
    \A i \in 1 .. n, fk \in catalog.foreign : fk.to[1] = new[i].table =>
        \A d \in copies[fk.from[1]] : val[d][fk.from[2]] = val[id[i]][fk.to[2]] =>
            \E j \in 1 .. n : id[j] = d /\ new[j].table = fk.from[1] /\ new[j].rank < new[i].rank

\* What refers to the row of the next entry is gone.
LEMMA ReferrersAreGone ==
  ASSUME NEW n \in Nat, NEW new, NEW id, NEW val, NEW copies, ReferredLower(new, id, val, copies, n),
         NEW order, NEW ledger, Entered(ledger, new, n), NEW at, Permutes(at, order, ledger, n),
         InOrder(at, ledger, n), NEW k \in 0 .. n - 1, NEW last, last = k + 1,
         NEW left, \A t \in AllTables : left[t] = copies[t] \ Gone(new, id, at, t, k, n),
         NEW i \in 1 .. n, at[i] = last, scene \in Scenes
  PROVE  Unreferred(id[i], new[i].table, left, val)
<1> SUFFICES ASSUME NEW fk \in catalog.foreign, fk.to[1] = new[i].table,
                    NEW d \in left[fk.from[1]], val[d][fk.from[2]] = val[id[i]][fk.to[2]]
             PROVE  FALSE
  BY DEF Unreferred
<1>1. d \in copies[fk.from[1]] /\ d \notin Gone(new, id, at, fk.from[1], k, n)
  BY ConstraintsAreOfTables
<1>2. PICK j \in 1 .. n : id[j] = d /\ new[j].table = fk.from[1] /\ new[j].rank < new[i].rank
  BY <1>1 DEF ReferredLower
<1>3. at[j] < at[i] /\ at[j] \in Int
  BY <1>2 DEF InOrder, Entered, Permutes
<1>4. at[j] <= k
  BY <1>3
<1> QED
  BY <1>1, <1>2, <1>4 DEF Gone

\* One row of the loop is not refused.
LEMMA NextIsDeleted ==
  ASSUME scene \in Scenes, NEW n \in Nat, NEW new, NEW id, NEW val, NEW copies, Kept(new, id, val, copies, n),
         Identifying(new, n), ReferredLower(new, id, val, copies, n),
         NEW order, NEW ledger, EntriesOf(ledger, new, n), Entered(ledger, new, n),
         NEW at, Permutes(at, order, ledger, n), InOrder(at, ledger, n),
         NEW k \in 0 .. n - 1, NEW last, last = k + 1,
         NEW acc, IsReduced(acc), acc.code = "ok", KeysHold(acc.staged),
         LeftAfter(acc.staged, new, id, val, copies, at, k, n),
         NEW next, next = DeleteRow(acc, order[last])
  PROVE  next.code = "ok" /\ KeysHold(next.staged)
<1> DEFINE cur == acc.staged
           w == order[last]
           left == [t \in AllTables |-> copies[t] \ Gone(new, id, at, t, k, n)]
<1>1. acc = [staged |-> cur, code |-> "ok"] /\ IsDatabase(cur) /\ KeysHold(cur)
  BY DEF IsReduced
<1>2. PICK i \in 1 .. n : at[i] = last
  <2>1. last \in 1 .. n
    OBVIOUS
  <2>2. \A m \in 1 .. n : \E i \in 1 .. n : at[i] = m
    BY DEF Permutes
  <2> QED
    BY <2>1, <2>2
<1>3. w = ledger[i] /\ w.table = new[i].table /\ w.key = new[i].key /\ w.table \in AllTables
  <2>1. w = ledger[i]
    BY <1>2 DEF Permutes
  <2> HIDE DEF w
  <2> QED
    BY <2>1 DEF EntriesOf
<1>4. next = DeleteRow([staged |-> cur, code |-> "ok"], w)
  BY <1>1
<1> HIDE DEF w
<1>5. id[i] \notin Gone(new, id, at, new[i].table, k, n)
  BY <1>2, OneMoreGone
<1>6. id[i] \in left[w.table] /\ HasKey(val[id[i]], w)
  <2>1. id[i] \in copies[w.table] /\ HasKey(val[id[i]], new[i])
    BY <1>3 DEF Kept
  <2> QED
    BY <1>3, <1>5, <2>1 DEF HasKey
<1>7. AllStand(cur, left, val)
  BY DEF LeftAfter, AllStand
<1>8. \A t \in AllTables : left[t] = copies[t] \ Gone(new, id, at, t, k, n)
  OBVIOUS
<1> HIDE DEF cur, left
<1>9. Unreferred(id[i], w.table, left, val)
  BY <1>2, <1>3, <1>8, ReferrersAreGone
<1>10. PICK f \in DOMAIN w.key : <<w.table, f>> \in catalog.unique /\ w.key[f] # None
  BY <1>3 DEF Identifying
<1> DEFINE c == id[i]
<1>11. c \in left[w.table] /\ HasKey(val[c], w) /\ Unreferred(c, w.table, left, val)
  BY <1>6, <1>9
<1> HIDE DEF c
<1>12. next.code = "ok"
  BY <1>1, <1>3, <1>4, <1>7, <1>10, <1>11, EntryIsDeleted
<1>13. PICK x, after : Deletes(x, w, cur, after) /\ after = next.staged
  BY <1>1, <1>3, <1>4, <1>12, DeletedRow
<1>14. KeysHold(after)
  BY <1>1, <1>3, <1>13, DeletedKeys
<1> QED
  BY <1>12, <1>13, <1>14

\* Nor is the whole ledger.
LEMMA RemovedSucceeds ==
  ASSUME scene \in Scenes, NEW tenant \in Tenants, IsDatabase(rows[tenant]), KeysHold(rows[tenant]),
         NEW g \in GenIds, IsLedger(written[g]), NEW n, n = Len(written[g]),
         NEW new, Entered(written[g], new, n), Identifying(new, n),
         NEW id, NEW val, NEW copies, Kept(new, id, val, copies, n),
         ReferredLower(new, id, val, copies, n), AllStand(rows[tenant], copies, val)
  PROVE  Removed(tenant, g).code = "ok"
<1> DEFINE ledger == written[g]
           order == DeleteOrder(g)
           base == [staged |-> rows[tenant], code |-> "ok"]
<1>1. n \in Nat /\ DOMAIN ledger = 1 .. n /\ DOMAIN order = 1 .. n
  BY DEF DeleteOrder, IsLedger
<1>2. PICK at : Permutes(at, order, ledger, n) /\ InOrder(at, ledger, n)
  BY DeleteOrderIsAll
<1>3. EntriesOf(ledger, new, n) /\ Entered(ledger, new, n)
  BY <1>1 DEF IsLedger, Entered, EntriesOf
<1>4. Removed(tenant, g) = FoldLeft(DeleteRow, base, order)
  BY DEF Removed
<1> HIDE DEF order, ledger
<1>5. PICK run : Run(run, "delete", base, order, n) /\ FoldLeft(DeleteRow, base, order) = run[n]
  <2> HIDE DEF base
  <2> QED
    BY <1>1, FoldDelete
<1> DEFINE Good(acc, k) == /\ IsReduced(acc) /\ acc.code = "ok" /\ KeysHold(acc.staged)
                           /\ LeftAfter(acc.staged, new, id, val, copies, at, k, n)
           S == {k \in 0 .. n : Good(run[k], k)}
<1>6. 0 \in S
  <2>1. run[0] = base /\ 0 \in 0 .. n
    BY <1>1, <1>5 DEF Run
  <2>2. \A t : Gone(new, id, at, t, 0, n) = {}
    BY <1>1, <1>2 DEF Gone, Permutes
  <2>3. IsReduced(base) /\ base.staged = rows[tenant] /\ base.code = "ok"
    BY DEF IsReduced
  <2> HIDE DEF base
  <2>4. LeftAfter(base.staged, new, id, val, copies, at, 0, n)
    BY <2>2, <2>3 DEF LeftAfter, AllStand
  <2> QED
    BY <2>1, <2>3, <2>4
<1>7. ASSUME NEW k \in 0 .. n - 1, k \in S
      PROVE  k + 1 \in S
  <2>1. k + 1 \in 1 .. n /\ k + 1 \in 0 .. n /\ (k + 1) - 1 = k
    BY <1>1
  <2> DEFINE acc == run[k]
             next == run[k + 1]
             last == k + 1
  <2>2. next = DeleteRow(acc, order[last]) /\ last = k + 1
    BY <1>5, <2>1 DEF Run, Step
  <2>3. IsReduced(acc) /\ acc.code = "ok" /\ KeysHold(acc.staged)
        /\ LeftAfter(acc.staged, new, id, val, copies, at, k, n)
    BY <1>7
  <2> HIDE DEF acc, next, last, S, Good
  <2>4. next.code = "ok" /\ KeysHold(next.staged)
    BY <1>1, <1>2, <1>3, <2>2, <2>3, NextIsDeleted, SMTT(60)
  <2>5. LeftAfter(next.staged, new, id, val, copies, at, last, n)
    BY <1>1, <1>2, <1>3, <2>2, <2>3, <2>4, RemovedOne, SMTT(60)
  <2>6. IsReduced(next)
    BY <2>2, <2>3, DeleteKeepsTypes
  <2>7. Good(next, last)
    BY <2>4, <2>5, <2>6 DEF Good
  <2> QED
    BY <2>1, <2>7 DEF next, last, S
<1>8. n \in S
  <2> HIDE DEF S
  <2>1. 0 .. n \subseteq S
    BY <1>1, <1>6, <1>7, Induction
  <2> QED
    BY <1>1, <2>1
<1> HIDE DEF base
<1> QED
  BY <1>4, <1>5, <1>8

\* The rows of a generation have keys that identify them, if the contract asks for some.
LEMMA PlacedIsIdentifying ==
  ASSUME NEW content, ValidContent(content), Outcome(content) = "ok", Identified(content.contract),
         NEW place, Placed(place, content), NEW new, new = InsertOrder(content), NEW n, n = Len(new)
  PROVE  Identifying(new, n)
<1> SUFFICES ASSUME NEW j \in 1 .. n
             PROVE  \E f \in DOMAIN new[j].key : <<new[j].table, f>> \in catalog.unique /\ new[j].key[f] # None
  BY DEF Identifying
<1> DEFINE contract == content.contract
           t == place[j][1]
           i == place[j][2]
           row == Generated(content)[t][i]
<1>1. /\ t \in RecordTypes(contract) /\ i \in 1 .. contract.count[t]
      /\ new[j].table = contract.dest[t] /\ new[j].key = [f \in contract.keys[t] |-> row[f]]
  BY DEF Placed
<1>2. PICK f \in contract.keys[t] : <<contract.dest[t], f>> \in catalog.unique
  BY <1>1 DEF Identified
<1>3. row[f] # None
  <2> HIDE DEF t, i
  <2> QED
    BY <1>1, <1>2, KeyIsThere
<1> HIDE DEF row, t, i, contract
<1>4. f \in DOMAIN new[j].key /\ new[j].key[f] = row[f]
  BY <1>1, <1>2
<1> QED
  BY <1>1, <1>2, <1>3, <1>4

\* What refers to the rows of a generation is deleted with it, and before them.
LEMMA OwnIsReferredLower ==
  ASSUME KeyInv, RowInv, NEW tenant \in Tenants, OwnRows(tenant), KeysHold(rows[tenant]), Complete(tenant),
         NEW g \in Committed(tenant), NEW content, content = generations[g].content,
         NEW new, new = InsertOrder(content), NEW n, n = Len(new), NEW place, Placed(place, content),
         NEW id, id = CopyAt(g, place), NEW val, val = Drawn(tenant),
         NEW copies, copies = [t \in AllTables |-> CopiesOfTable(tenant, t)],
         Kept(new, id, val, copies, n)
  PROVE  ReferredLower(new, id, val, copies, n)
<1>1. SUFFICES ASSUME NEW i \in 1 .. n, NEW fk \in catalog.foreign, fk.to[1] = new[i].table,
                      NEW d \in copies[fk.from[1]], val[d][fk.from[2]] = val[id[i]][fk.to[2]]
               PROVE  \E j \in 1 .. n : /\ id[j] = d /\ new[j].table = fk.from[1]
                                        /\ new[j].rank < new[i].rank
  BY DEF ReferredLower
<1> DEFINE c == id[i]
           plan == content.contract.plan
<1>2. scene \in Scenes /\ fk.from[1] \in AllTables /\ fk.to[1] \in AllTables
  BY ConstraintsAreOfTables DEF KeyInv
<1>3. c \in CopiesOfTable(tenant, fk.to[1]) /\ d \in CopiesOfTable(tenant, fk.from[1])
  BY <1>1, <1>2 DEF Kept
<1>4. RowOf(d)[fk.from[2]] = RowOf(c)[fk.to[2]]
  BY <1>1, <1>3 DEF CopiesOfTable, Drawn
<1>5. DOMAIN place = 1 .. n
  BY DEF Placed
<1>6. \A j \in 1 .. n : id[j][1] = g /\ id[j][2] = place[j][1]
  <2>1. \A j \in 1 .. n : id[j] = <<g, place[j][1], place[j][2]>>
    BY <1>5 DEF CopyAt
  <2> QED
    BY <2>1
<1>7. c[1] = g
  BY <1>6
<1> HIDE DEF c
<1>8. d[1] = g /\ Before(c[2], d[2], plan)
  BY <1>2, <1>3, <1>4, <1>7, ReferredFromOwn DEF OwnRows
<1>9. d \in Copies(tenant) /\ content.contract.dest[d[2]] = fk.from[1]
  BY <1>3, <1>8 DEF CopiesOfTable
<1>10. d \in CopiesOf(g, content)
  BY <1>8, <1>9, CopiesAreOf
<1>11. d \in Those(new, id, fk.from[1], n)
  <2>1. \A t : Those(new, id, t, n) = {x \in CopiesOf(g, content) : content.contract.dest[x[2]] = t}
    BY CopiesAreInserted
  <2> QED
    BY <1>9, <1>10, <2>1
<1>12. PICK j \in 1 .. n : id[j] = d /\ new[j].table = fk.from[1]
  BY <1>11 DEF Those
<1>13. Ranked(d[2], new[j].rank, plan) /\ Ranked(c[2], new[i].rank, plan)
  BY <1>6, <1>12 DEF Placed, c
<1>14. ValidContract(content.contract)
  BY DEF Complete, ValidContent
<1>15. new[j].rank < new[i].rank
  BY <1>8, <1>13, <1>14, RanksDescend
<1> QED
  BY <1>12, <1>15

\* Such a generation can be deleted.
LEMMA OwnIsDeletable ==
  ASSUME KeyInv, RowInv, NEW tenant \in Tenants, OwnRows(tenant), KeysHold(rows[tenant]), Complete(tenant),
         NEW g \in Committed(tenant)
  PROVE  Removed(tenant, g).code = "ok"
<1> DEFINE content == generations[g].content
           new == InsertOrder(content)
           n == Len(new)
           val == Drawn(tenant)
           copies == [t \in AllTables |-> CopiesOfTable(tenant, t)]
<1>1. /\ scene \in Scenes /\ IsDatabase(rows[tenant]) /\ g \in GenIds /\ IsLedger(written[g])
      /\ ValidContent(content) /\ Outcome(content) = "ok" /\ Identified(content.contract)
  BY DEF KeyInv, RowInv, Committed, Complete
<1>2. content = generations[g].content /\ new = InsertOrder(content) /\ n = Len(new)
      /\ val = Drawn(tenant) /\ copies = [t \in AllTables |-> CopiesOfTable(tenant, t)]
  OBVIOUS
<1>3. AllStand(rows[tenant], copies, val)
  BY DEF AllStand, OwnRows
<1> HIDE DEF content, new, n, val, copies
<1>4. PICK place : Placed(place, content)
  BY <1>1, InsertOrderIsPlaced DEF ValidContent
<1>5. PICK id : id = CopyAt(g, place)
  OBVIOUS
<1>6. /\ Entered(written[g], new, n) /\ n = Len(written[g]) /\ Kept(new, id, val, copies, n)
      /\ \A t : Those(new, id, t, n) = {c \in CopiesOf(g, content) : content.contract.dest[c[2]] = t}
  BY <1>2, <1>4, <1>5, OwnIsKept
<1>7. Identifying(new, n)
  BY <1>1, <1>2, <1>4, PlacedIsIdentifying
<1>8. ReferredLower(new, id, val, copies, n)
  BY <1>2, <1>4, <1>5, <1>6, OwnIsReferredLower
<1> QED
  BY <1>1, <1>3, <1>6, <1>7, <1>8, RemovedSucceeds

\* Nothing but a change of its rows by somebody else keeps a generation from being
\* deleted, if the contracts of its tenant's generations declare what the catalog
\* requires and have keys that identify rows: whatever other generations and threads
\* there are, each entry of its ledger finds its row, and only that, and what refers
\* to it has gone before (in_memory.py:255-309).
THEOREM SpecUntouchedIsDeletable == Spec => []UntouchedIsDeletable
<1>1. KeyInv /\ OutcomeInv /\ [Next]_vars => OutcomeInv'
  BY NextKeepsOutcomes
<1>2. KeyInv /\ RowInv /\ UniqueInv /\ [Next]_vars => UniqueInv'
  BY NextKeepsUnique
<1>3. KeyInv /\ RowInv /\ CopyInv /\ [Next]_vars => CopyInv'
  BY NextKeepsCopies
<1>4. ASSUME KeyInv, RowInv, CopyInv, OutcomeInv, UniqueInv, NEW tenant \in Tenants \ seeded,
             \A g \in Committed(tenant) :
                LET contract == generations[g].content.contract
                IN  Covers(contract) /\ Identified(contract) /\ ReferredIsThere(contract),
             NEW g \in Committed(tenant)
      PROVE  Removed(tenant, g).code = "ok"
  <2>1. OwnRows(tenant) /\ KeysHold(rows[tenant])
    BY <1>4 DEF CopyInv, UniqueInv
  <2>2. \A h \in Committed(tenant) : /\ h \in GenIds \ Absent
                                      /\ ValidContent(generations[h].content)
    BY <1>4, <2>1, SceneAssumption DEF OwnRows, Committed, Absent, KeyInv
  <2>3. Complete(tenant)
    BY <1>4, <2>2 DEF Complete, OutcomeInv
  <2> QED
    BY <1>4, <2>1, <2>3, OwnIsDeletable
<1>5. KeyInv /\ RowInv /\ CopyInv /\ OutcomeInv /\ UniqueInv => UntouchedIsDeletable
  BY <1>4 DEF UntouchedIsDeletable
<1> QED
  BY <1>1, <1>2, <1>3, <1>5, InitUnique, InitCopies, KeysAreInStep, RowsAreTyped, PTL DEF Spec

-----------------------------------------------------------------------------
(* What is accepted fits *)

\* What a foreign key requires of a row is inserted before it.
ReferredEarlier(new, n) ==
    \A j \in 1 .. n, fk \in catalog.foreign :
        (fk.from[1] = new[j].table /\ new[j].row[fk.from[2]] # None) =>
            \E i \in 1 .. n : /\ i < j /\ new[i].table = fk.to[1]
                              /\ new[i].row[fk.to[2]] = new[j].row[fk.from[2]]

\* No key of a row is that of a copy that is there or was inserted before it.
KeysAreNew(new, val, copies, n) ==
    \A j \in 1 .. n, key \in catalog.unique :
        (key[1] = new[j].table /\ new[j].row[key[2]] # None) =>
            /\ \A d \in copies[key[1]] : val[d][key[2]] # new[j].row[key[2]]
            /\ \A i \in 1 .. n : i < j /\ new[i].table = key[1] =>
                                    new[i].row[key[2]] # new[j].row[key[2]]

\* Such a row finds what it refers to and takes no key.
LEMMA RowFits ==
  ASSUME scene \in Scenes, NEW acc, NEW new, NEW n \in Nat, NEW k \in 0 .. n - 1,
         NEW last, last = k + 1, new[last].table \in AllTables,
         NEW id, NEW val, NEW copies, Fresh(new, id, val, copies, n), There(acc, new, id, val, copies, k),
         ReferredEarlier(new, n), KeysAreNew(new, val, copies, n)
  PROVE  /\ Refers(acc.staged, new[last].table, new[last].row)
         /\ ~Taken(acc.staged, new[last].table, new[last].row)
<1> DEFINE row == new[last].row
           table == new[last].table
<1>1. /\ last \in 1 .. n /\ \A i \in 1 .. n : i < last => i \in 1 .. k
      /\ \A i \in 1 .. k : i \in 1 .. n /\ i < last
  OBVIOUS
<1>2. \A j \in 1 .. n : val[id[j]] = new[j].row
  BY DEF Fresh
<1>3. \A t \in AllTables : Stands(acc.staged[t], copies[t] \cup Those(new, id, t, k), val)
  BY DEF There
<1>4. ASSUME NEW fk \in catalog.foreign, fk.from[1] = table, row[fk.from[2]] # None
      PROVE  \E target \in Range(acc.staged[fk.to[1]]) : target[fk.to[2]] = row[fk.from[2]]
  <2>1. PICK i \in 1 .. n : /\ i < last /\ new[i].table = fk.to[1]
                            /\ new[i].row[fk.to[2]] = row[fk.from[2]]
    BY <1>1, <1>4 DEF ReferredEarlier
  <2> DEFINE t == fk.to[1]
             s == acc.staged[t]
             all == copies[t] \cup Those(new, id, t, k)
  <2>2. t \in AllTables
    BY ConstraintsAreOfTables
  <2>3. id[i] \in all
    BY <1>1, <2>1 DEF Those
  <2>4. Stands(s, all, val)
    BY <1>3, <2>2
  <2> HIDE DEF t, s, all
  <2>5. PICK x \in DOMAIN s : s[x] = val[id[i]]
    BY <2>3, <2>4 DEF Stands, IsOrigin
  <2>6. s[x] = new[i].row /\ s[x] \in Range(s)
    BY <1>2, <2>5 DEF Range
  <2> QED
    BY <2>1, <2>6 DEF s, t
<1>5. ASSUME NEW key \in catalog.unique, key[1] = table, row[key[2]] # None,
             NEW other \in Range(acc.staged[table])
      PROVE  other[key[2]] # row[key[2]]
  <2> DEFINE s == acc.staged[table]
             those == Those(new, id, table, k)
  <2>1. Stands(s, copies[table] \cup those, val) /\ other \in Range(s)
    BY <1>3, <1>5
  <2> HIDE DEF s, those
  <2>2. PICK c \in copies[table] \cup those : other = val[c]
    BY <2>1 DEF Stands, IsOrigin, Range
  <2>3. CASE c \in copies[table]
    BY <1>1, <1>5, <2>2, <2>3 DEF KeysAreNew
  <2>4. CASE c \in those
    <3>1. PICK i \in 1 .. k : c = id[i] /\ new[i].table = table
      BY <2>4 DEF those, Those
    <3>2. i \in 1 .. n /\ i < last /\ other = new[i].row
      BY <1>1, <1>2, <2>2, <3>1
    <3> QED
      BY <1>1, <1>5, <3>1, <3>2 DEF KeysAreNew
  <2> QED
    BY <2>2, <2>3, <2>4
<1> QED
  BY <1>4, <1>5 DEF Refers, Taken

\* So the dataset is not refused for what is there.
LEMMA DatasetFits ==
  ASSUME scene \in Scenes, NEW content \in scene.contents, NEW tenant \in Tenants,
         IsDatabase(rows[tenant]), NEW new, new = InsertOrder(content), NEW n, n = Len(new),
         NEW id, NEW val, NEW copies, Fresh(new, id, val, copies, n), AllStand(rows[tenant], copies, val),
         ReferredEarlier(new, n), KeysAreNew(new, val, copies, n)
  PROVE  Inserted(tenant, content).code # "DESTINATION_CONFLICT"
<1> DEFINE base == [staged |-> rows[tenant], ledger |-> << >>, code |-> "ok"]
<1>1. new \in Seq(Range(new)) /\ \A e \in Range(new) : IsRow(e.row) /\ e.rank \in Int
  BY InsertOrderType
<1>2. Inserted(tenant, content) = FoldLeft(Insert, base, new)
  BY DEF Inserted
<1>3. n \in Nat /\ DOMAIN new = 1 .. n
  BY <1>1
<1>4. PICK run : Run(run, "insert", base, new, n) /\ FoldLeft(Insert, base, new) = run[n]
  <2> HIDE DEF base
  <2> QED
    BY <1>3, FoldInsert
<1> DEFINE Good(acc, k) == /\ IsWritten(acc) /\ acc.code # "DESTINATION_CONFLICT"
                           /\ acc.code = "ok" => There(acc, new, id, val, copies, k)
           S == {k \in 0 .. n : Good(run[k], k)}
<1>5. 0 \in S
  <2>1. run[0] = base /\ 0 \in 0 .. n
    BY <1>3, <1>4 DEF Run
  <2>2. base.staged = rows[tenant] /\ base.ledger = << >> /\ base.code = "ok"
        /\ base = [staged |-> base.staged, ledger |-> base.ledger, code |-> base.code]
    OBVIOUS
  <2>3. IsLedger(<< >>) /\ Entered(<< >>, new, 0)
    BY DEF IsLedger, Entered
  <2>4. \A t \in AllTables : copies[t] \cup Those(new, id, t, 0) = copies[t]
    BY DEF Those
  <2> HIDE DEF base
  <2>5. IsWritten(base)
    BY <2>2, <2>3 DEF IsWritten
  <2>6. There(base, new, id, val, copies, 0)
    BY <2>2, <2>3, <2>4 DEF There, AllStand
  <2> QED
    BY <2>1, <2>2, <2>5, <2>6
<1>6. ASSUME NEW k \in 0 .. n - 1, k \in S
      PROVE  k + 1 \in S
  <2> DEFINE last == k + 1
             acc == run[k]
             next == run[last]
             one == new[last]
  <2>1. last \in 1 .. n /\ last \in 0 .. n /\ last - 1 = k
    BY <1>3
  <2>2. next = Insert(acc, one)
    BY <1>4, <2>1 DEF Run, Step
  <2>3. IsRow(one.row) /\ one.rank \in Int
    BY <1>1, <1>3, <2>1 DEF Range
  <2>4. Good(acc, k)
    BY <1>6
  <2> HIDE DEF S, base, next, acc
  <2>5. IsWritten(next)
    BY <2>2, <2>3, <2>4, InsertKeepsTypes
  <2>6. next.code = "ok" => There(next, new, id, val, copies, last)
    <3>1. next.code = "ok" => acc.code = "ok"
      BY <2>2, <2>4 DEF Insert
    <3> QED
      BY <1>3, <2>2, <2>3, <2>4, <3>1, InsertKeepsStands
  <2>7. next.code # "DESTINATION_CONFLICT"
    <3>1. CASE acc.code # "ok" \/ ~Declared(one)
      BY <2>2, <2>4, <3>1 DEF Insert, IsWritten
    <3>2. CASE acc.code = "ok" /\ Declared(one)
      <4>1. There(acc, new, id, val, copies, k)
        BY <2>4, <3>2
      <4>2. new[last].table \in AllTables
        BY <3>2, ConstraintsAreOfTables DEF Declared
      <4> HIDE DEF last
      <4>3. Refers(acc.staged, new[last].table, new[last].row) /\ ~Taken(acc.staged, new[last].table, new[last].row)
        BY <1>3, <4>1, <4>2, RowFits DEF last
      <4> QED
        BY <2>2, <2>4, <3>2, <4>3 DEF Insert, Stage, IsWritten
    <3> QED
      BY <3>1, <3>2
  <2> QED
    BY <2>1, <2>5, <2>6, <2>7 DEF next, S
<1>7. n \in S
  <2> HIDE DEF S
  <2>1. 0 .. n \subseteq S
    BY <1>3, <1>5, <1>6, Induction
  <2> QED
    BY <1>3, <2>1
<1> HIDE DEF base
<1> QED
  BY <1>2, <1>4, <1>7

-----------------------------------------------------------------------------
(* Values of another seed *)

\* Every value is NULL or was drawn, for this cell or another.
IsDrawn(content, dataset) ==
    \A t \in RecordTypes(content.contract), f \in Fields : \A i \in 1 .. content.contract.count[t] :
        \/ dataset[t][i][f] = None
        \/ \E u \in RecordTypes(content.contract), h \in Fields : \E m : dataset[t][i][f] = Draw(content, u, h, m)

\* A relation copies what is there.
LEMMA ResolveKeepsDrawn ==
  ASSUME NEW content, NEW contract, contract = content.contract, ValidContract(contract),
         NEW dataset, IsDataset(contract, dataset), IsDrawn(content, dataset),
         NEW rel \in Range(contract.relations)
  PROVE  IsDrawn(content, Resolve(dataset, rel))
<1> SUFFICES ASSUME NEW t \in RecordTypes(contract), NEW f \in Fields, NEW i \in 1 .. contract.count[t]
             PROVE  \/ Resolve(dataset, rel)[t][i][f] = None
                    \/ \E u \in RecordTypes(contract), h \in Fields : \E m :
                          Resolve(dataset, rel)[t][i][f] = Draw(content, u, h, m)
  BY DEF IsDrawn
<1>1. CASE <<t, f>> # rel.from
  <2>1. Resolve(dataset, rel)[t][i][f] = dataset[t][i][f]
    BY <1>1, ResolveValue
  <2> QED
    BY <2>1 DEF IsDrawn
<1>2. CASE <<t, f>> = rel.from
  <2> DEFINE to == rel.to
             j == Target(contract, rel, i)
  <2>1. Resolve(dataset, rel)[t][i][f] = dataset[to[1]][j][to[2]]
    BY <1>2, ResolveValue
  <2>2. rel.from[1] = t
    BY <1>2
  <2>3. to[1] \in RecordTypes(contract) /\ to[2] \in Fields /\ j \in 1 .. contract.count[to[1]]
    BY <2>2, TargetIsThere, RelationFields
  <2> HIDE DEF to, j
  <2> QED
    BY <2>1, <2>3 DEF IsDrawn
<1> QED
  BY <1>1, <1>2

LEMMA GeneratedIsDrawn ==
  ASSUME NEW content, ValidContract(content.contract)
  PROVE  IsDrawn(content, Generated(content))
<1> DEFINE contract == content.contract
           relations == contract.relations
           n == Len(relations)
<1>1. relations \in Seq(Range(relations))
  BY DEF ValidContract
<1>2. n \in Nat /\ DOMAIN relations = 1 .. n
  <2> HIDE DEF relations
  <2> QED
    BY <1>1
<1>3. PICK run : /\ Run(run, "resolve", Values(content), relations, n)
                 /\ FoldLeft(Resolve, Values(content), relations) = run[n]
  <2> HIDE DEF n, relations
  <2> QED
    BY <1>2, FoldResolve
<1>4. run[0] = Values(content)
  BY <1>3 DEF Run
<1>5. IsDataset(contract, Values(content)) /\ IsDrawn(content, Values(content))
  BY ValuesAreDataset DEF Values, IsDrawn
<1> DEFINE S == {k \in 0 .. n : IsDataset(contract, run[k]) /\ IsDrawn(content, run[k])}
<1>6. 0 \in S
  BY <1>2, <1>4, <1>5
<1>7. \A k \in 1 .. n : relations[k] \in Range(relations)
  BY <1>2 DEF Range
<1>8. ASSUME NEW k \in 0 .. n - 1, k \in S
      PROVE  k + 1 \in S
  <2> DEFINE next == run[k + 1]
             rel == relations[k + 1]
  <2>1. k + 1 \in 1 .. n /\ k + 1 \in 0 .. n /\ (k + 1) - 1 = k
    BY <1>2
  <2>2. next = Resolve(run[k], rel) /\ rel \in Range(contract.relations)
    BY <1>3, <1>7, <2>1 DEF Run, Step
  <2>3. IsDataset(contract, run[k]) /\ IsDrawn(content, run[k])
    BY <1>8
  <2>4. ValidContract(contract) /\ contract = content.contract
    OBVIOUS
  <2> HIDE DEF next, rel, contract
  <2>5. IsDataset(contract, next)
    BY <2>2, <2>3, ResolveKeepsDataset
  <2>6. IsDrawn(content, next)
    BY <2>2, <2>3, <2>4, ResolveKeepsDrawn
  <2> QED
    BY <2>1, <2>5, <2>6 DEF next
<1>9. n \in S
  <2> HIDE DEF S
  <2>1. 0 .. n \subseteq S
    BY <1>2, <1>6, <1>8, Induction
  <2> QED
    BY <1>2, <2>1
<1> QED
  BY <1>3, <1>9 DEF Generated

\* What is drawn of a contract whose values depend on the seed has it in it,
LEMMA DrawHasSeed ==
  ASSUME NEW content, ValidContract(content.contract), SeedBound(content.contract),
         NEW t \in RecordTypes(content.contract), NEW f \in Fields, NEW i
  PROVE  Draw(content, t, f, i)[2] = <<content.seed, t, f, i>>
<1> DEFINE specs == content.contract.spec
           spec == specs[<<t, f>>]
<1>1. <<t, f>> \in DOMAIN specs /\ spec.type \in Types /\ spec.draw \in Draws
  BY DEF ValidContract
<1>2. \/ spec.draw = "uuid"
      \/ spec.draw = "default" /\ spec.type = "string"
      \/ spec.draw = "normal" /\ spec.type = "number"
  <2> HIDE DEF spec
  <2>1. spec \in Range(content.contract.spec)
    BY <1>1 DEF Range, spec
  <2> QED
    BY <2>1 DEF SeedBound
<1> HIDE DEF spec
<1>3. CASE spec.draw = "uuid"
  BY <1>3 DEF Draw, spec
<1>4. CASE spec.draw = "default" /\ spec.type = "string"
  BY <1>4 DEF Draw, spec
<1>5. CASE spec.draw = "normal" /\ spec.type = "number"
  BY <1>5 DEF Draw, spec
<1> QED
  BY <1>2, <1>3, <1>4, <1>5

\* and what is drawn of any has no other.
LEMMA DrawHasNoOther ==
  ASSUME NEW content, ValidContract(content.contract),
         NEW t \in RecordTypes(content.contract), NEW f \in Fields, NEW i,
         NEW seed, seed # content.seed, NEW u, NEW h, NEW m
  PROVE  Draw(content, t, f, i)[2] # <<seed, u, h, m>>
<1> DEFINE specs == content.contract.spec
           spec == specs[<<t, f>>]
           other == <<seed, u, h, m>>
           token == Draw(content, t, f, i)[2]
<1>1. spec.type \in Types /\ spec.draw \in Draws
  BY DEF ValidContract
<1> HIDE DEF spec
<1> DEFINE value == content.picked[<<t, f, i>>][2]
<1>2. \/ token = <<"listed", value>> \/ token = <<"nth", i>> \/ token = <<content.seed, t, f, i>>
      \/ token = <<"rounded">> \/ token = <<"nth", i % 2>> \/ token = <<t, f, i>>
  BY <1>1 DEF Draw, spec, Draws, Types
<1> HIDE DEF token
<1>3. Len(other) = 4 /\ other[1] = seed
  OBVIOUS
<1> HIDE DEF other
<1>4. token # other
  <2>1. Len(<<"listed", value>>) = 2 /\ Len(<<"rounded">>) = 1 /\ Len(<<"nth", i>>) = 2
        /\ Len(<<"nth", i % 2>>) = 2 /\ Len(<<t, f, i>>) = 3
    OBVIOUS
  <2>2. <<content.seed, t, f, i>>[1] = content.seed
    OBVIOUS
  <2> QED
    BY <1>2, <1>3, <2>1, <2>2
<1> QED
  BY <1>4 DEF token, other

\* Datasets of two seeds share no value, if those of one depend on it.
LEMMA SeedsDiffer ==
  ASSUME NEW content, ValidContract(content.contract), SeedBound(content.contract),
         NEW other, ValidContract(other.contract), other.seed # content.seed,
         NEW t \in RecordTypes(content.contract), NEW f \in Fields, NEW i \in 1 .. content.contract.count[t],
         NEW u \in RecordTypes(other.contract), NEW h \in Fields, NEW m \in 1 .. other.contract.count[u],
         Generated(content)[t][i][f] # None
  PROVE  Generated(other)[u][m][h] # Generated(content)[t][i][f]
<1> SUFFICES ASSUME Generated(other)[u][m][h] = Generated(content)[t][i][f]
             PROVE  FALSE
  OBVIOUS
<1> DEFINE value == Generated(content)[t][i][f]
<1>1. PICK a \in RecordTypes(content.contract), b \in Fields : \E c : value = Draw(content, a, b, c)
  BY GeneratedIsDrawn DEF IsDrawn
<1>2. PICK x \in RecordTypes(other.contract), y \in Fields : \E z : value = Draw(other, x, y, z)
  BY GeneratedIsDrawn DEF IsDrawn
<1> HIDE DEF value
<1>3. PICK c : value = Draw(content, a, b, c)
  BY <1>1
<1>4. PICK z : value = Draw(other, x, y, z)
  BY <1>2
<1>5. value[2] = <<content.seed, a, b, c>>
  BY <1>3, DrawHasSeed
<1>6. value[2] # <<content.seed, a, b, c>>
  BY <1>4, DrawHasNoOther
<1> QED
  BY <1>5, <1>6

-----------------------------------------------------------------------------
(* An accepted dataset in the tables of its tenant *)

\* Of a dataset that declares what the catalog requires, a row comes after what it
\* refers to,
LEMMA AcceptedIsReferredEarlier ==
  ASSUME NEW content, ValidContent(content), Outcome(content) = "ok", Covers(content.contract),
         NEW place, Placed(place, content), NEW new, new = InsertOrder(content), NEW n, n = Len(new)
  PROVE  ReferredEarlier(new, n)
<1> SUFFICES ASSUME NEW j \in 1 .. n, NEW fk \in catalog.foreign,
                    fk.from[1] = new[j].table, new[j].row[fk.from[2]] # None
             PROVE  \E i \in 1 .. n : /\ i < j /\ new[i].table = fk.to[1]
                                      /\ new[i].row[fk.to[2]] = new[j].row[fk.from[2]]
  BY DEF ReferredEarlier
<1> DEFINE contract == content.contract
           plan == contract.plan
           dataset == Generated(content)
           t == place[j][1]
           i == place[j][2]
<1>1. /\ t \in RecordTypes(contract) /\ i \in 1 .. contract.count[t]
      /\ new[j].table = contract.dest[t] /\ new[j].row = dataset[t][i]
      /\ Ranked(t, new[j].rank, plan)
  BY DEF Placed
<1>2. contract = content.contract /\ dataset = Generated(content) /\ plan = contract.plan /\ ValidContract(contract)
  BY DEF ValidContent
<1> HIDE DEF t, i, dataset, contract, plan
<1>3. contract.dest[t] = fk.from[1] /\ dataset[t][i][fk.from[2]] # None /\ Covers(contract)
  BY <1>1, <1>2
<1>4. PICK u \in RecordTypes(contract) : \E m \in 1 .. contract.count[u] :
         /\ contract.dest[u] = fk.to[1] /\ Before(u, t, contract.plan)
         /\ dataset[u][m][fk.to[2]] = dataset[t][i][fk.from[2]]
  <2>1. /\ contract = content.contract /\ dataset = Generated(content) /\ t \in RecordTypes(contract)
        /\ contract.dest[t] = fk.from[1] /\ i \in 1 .. contract.count[t]
        /\ dataset[t][i][fk.from[2]] # None
    BY <1>1, <1>2, <1>3
  <2>2. ValidContent(content) /\ Outcome(content) = "ok" /\ Covers(contract)
    BY <1>2
  <2> QED
    BY <2>1, <2>2, TargetOfRow, SMTT(60)
<1>5. PICK m \in 1 .. contract.count[u] :
         /\ contract.dest[u] = fk.to[1] /\ Before(u, t, contract.plan)
         /\ dataset[u][m][fk.to[2]] = dataset[t][i][fk.from[2]]
  BY <1>4
<1>6. PICK x \in 1 .. n : place[x] = <<u, m>>
  BY <1>2 DEF Placed
<1>7. new[x].table = contract.dest[u] /\ new[x].row = dataset[u][m] /\ Ranked(u, new[x].rank, plan)
  <2>1. place[x][1] = u /\ place[x][2] = m
    BY <1>6
  <2>2. /\ new[x].table = content.contract.dest[place[x][1]]
        /\ new[x].row = Generated(content)[place[x][1]][place[x][2]]
        /\ Ranked(place[x][1], new[x].rank, content.contract.plan)
    BY DEF Placed
  <2> QED
    BY <1>2, <2>1, <2>2
<1>8. new[j].rank < new[x].rank
  BY <1>1, <1>2, <1>5, <1>7, RanksDescend
<1>9. x < j
  <2>1. plan \in Seq(RecordTypes(contract))
    BY <1>2 DEF ValidContract
  <2>2. new[j].rank \in Int /\ new[x].rank \in Int
    BY <1>1, <1>7, <2>1 DEF Ranked
  <2>3. j < x => new[j].rank >= new[x].rank
    BY DEF Placed
  <2>4. x \in Int /\ j \in Int /\ x # j
    BY <1>8, <2>2
  <2> QED
    BY <1>8, <2>2, <2>3, <2>4
<1> QED
  BY <1>1, <1>5, <1>7, <1>9

\* and has its keys for itself,
LEMMA AcceptedIsDistinct ==
  ASSUME scene \in Scenes, NEW content, ValidContent(content), Outcome(content) = "ok", Covers(content.contract),
         NEW place, Placed(place, content), NEW new, new = InsertOrder(content), NEW n, n = Len(new),
         NEW j \in 1 .. n, NEW key \in catalog.unique, key[1] = new[j].table, new[j].row[key[2]] # None,
         NEW i \in 1 .. n, i # j, new[i].table = key[1]
  PROVE  new[i].row[key[2]] # new[j].row[key[2]]
<1> DEFINE contract == content.contract
           dataset == Generated(content)
           t == place[j][1]
           u == place[i][1]
           a == place[j][2]
           b == place[i][2]
           f == key[2]
<1>1. /\ t \in RecordTypes(contract) /\ a \in 1 .. contract.count[t] /\ place[j] = <<t, a>>
      /\ u \in RecordTypes(contract) /\ b \in 1 .. contract.count[u] /\ place[i] = <<u, b>>
      /\ new[j].table = contract.dest[t] /\ new[j].row = dataset[t][a]
      /\ new[i].table = contract.dest[u] /\ new[i].row = dataset[u][b]
      /\ place[i] # place[j]
  BY DEF Placed
<1>2. key = <<key[1], f>> /\ f \in Fields
  BY SceneAssumption DEF catalog
<1>3. ValidContract(contract) /\ Sound(contract, dataset) /\ Covers(contract)
  BY AcceptedIsSound DEF ValidContent
<1> HIDE DEF contract, dataset, t, u, a, b, f
<1>4. u = t
  <2>1. DOMAIN contract.dest = RecordTypes(contract) /\ IsInjective(contract.dest)
    BY <1>3 DEF ValidContract, Covers
  <2> QED
    BY <1>1, <2>1 DEF IsInjective
<1>5. a # b
  BY <1>1, <1>4
<1>6. <<t, f>> \in contract.unique
  <2> DEFINE field == <<t, f>>
  <2>1. field \in DOMAIN contract.spec
    BY <1>1, <1>2, <1>3 DEF ValidContract
  <2>2. <<contract.dest[field[1]], field[2]>> \in catalog.unique
    BY <1>1, <1>2
  <2> HIDE DEF field
  <2>3. field \in contract.unique
    BY <1>3, <2>1, <2>2 DEF Covers
  <2> QED
    BY <2>3 DEF field
<1>7. dataset[t][a][f] # None
  BY <1>1 DEF f
<1>8. dataset[t][b][f] # dataset[t][a][f]
  BY <1>1, <1>2, <1>3, <1>4, <1>5, <1>6, <1>7 DEF Sound
<1> QED
  BY <1>1, <1>4, <1>8 DEF f

\* also among those of other seeds.
LEMMA AcceptedIsNew ==
  ASSUME scene \in Scenes, NEW content, ValidContent(content), Outcome(content) = "ok", Covers(content.contract),
         NEW place, Placed(place, content), NEW new, new = InsertOrder(content), NEW n, n = Len(new),
         NEW tenant, OwnRows(tenant),
         \A g \in Committed(tenant) : /\ generations[g].content.seed # content.seed
                                      /\ SeedBound(content.contract),
         NEW val, \A c \in Copies(tenant) : val[c] = RowOf(c),
         NEW copies, copies = [t \in AllTables |-> CopiesOfTable(tenant, t)]
  PROVE  KeysAreNew(new, val, copies, n)
<1> SUFFICES ASSUME NEW j \in 1 .. n, NEW key \in catalog.unique,
                    key[1] = new[j].table, new[j].row[key[2]] # None
             PROVE  /\ \A d \in copies[key[1]] : val[d][key[2]] # new[j].row[key[2]]
                    /\ \A i \in 1 .. n : i < j /\ new[i].table = key[1] =>
                                            new[i].row[key[2]] # new[j].row[key[2]]
  BY DEF KeysAreNew
<1>1. ASSUME NEW d \in copies[key[1]]
      PROVE  val[d][key[2]] # new[j].row[key[2]]
  <2> DEFINE other == generations[d[1]].content
             f == key[2]
             t == place[j][1]
             i == place[j][2]
             u == d[2]
             m == d[3]
  <2>1. key[1] \in AllTables /\ f \in Fields
    BY ConstraintsAreOfTables, SceneAssumption DEF catalog
  <2>2. d \in Copies(tenant)
    BY <1>1, <2>1 DEF CopiesOfTable
  <2>3. d[1] \in Committed(tenant) /\ d \in CopiesOf(d[1], other)
    BY <2>2, CopiesAreOf
  <2>4. u \in RecordTypes(other.contract) /\ m \in 1 .. other.contract.count[u]
    <3> HIDE DEF other
    <3>1. \E x \in RecordTypes(other.contract) : \E y \in 1 .. other.contract.count[x] :
             d[2] = x /\ d[3] = y
      BY <2>3 DEF CopiesOf
    <3> QED
      BY <3>1
  <2>5. val[d] = Generated(other)[u][m]
    BY <2>2 DEF RowOf
  <2>6. /\ t \in RecordTypes(content.contract) /\ i \in 1 .. content.contract.count[t]
        /\ new[j].row = Generated(content)[t][i]
    BY DEF Placed
  <2>7. other.seed # content.seed /\ SeedBound(content.contract) /\ other \in scene.contents
    BY <2>3 DEF OwnRows
  <2>8. ValidContract(other.contract) /\ ValidContract(content.contract)
    BY <2>7, SceneAssumption DEF ValidContent
  <2> HIDE DEF other, f, t, i, u, m
  <2>9. Generated(content)[t][i][f] # None
    BY <2>6 DEF f
  <2>10. Generated(other)[u][m][f] # Generated(content)[t][i][f]
    BY <2>1, <2>4, <2>6, <2>7, <2>8, <2>9, SeedsDiffer
  <2> QED
    BY <2>5, <2>6, <2>10 DEF f
<1>2. ASSUME NEW i \in 1 .. n, i < j, new[i].table = key[1]
      PROVE  new[i].row[key[2]] # new[j].row[key[2]]
  <2>1. i # j
    BY <1>2
  <2> QED
    BY <1>2, <2>1, AcceptedIsDistinct
<1> QED
  BY <1>1, <1>2

\* So nothing there makes it conflict.
LEMMA AcceptedIsInserted ==
  ASSUME KeyInv, RowInv, NEW tenant \in Tenants, OwnRows(tenant), NEW content \in scene.contents,
         Outcome(content) = "ok", Covers(content.contract),
         \A g \in Committed(tenant) : /\ generations[g].content.seed # content.seed
                                      /\ SeedBound(content.contract)
  PROVE  Inserted(tenant, content).code # "DESTINATION_CONFLICT"
<1> DEFINE new == InsertOrder(content)
           n == Len(new)
           own == CopiesOf(None, content)
           copies == [t \in AllTables |-> CopiesOfTable(tenant, t)]
           val == [c \in Copies(tenant) \cup own |->
                      IF c[1] = None THEN Generated(content)[c[2]][c[3]] ELSE RowOf(c)]
<1>1. scene \in Scenes /\ IsDatabase(rows[tenant]) /\ ValidContent(content)
  BY SceneAssumption DEF KeyInv, RowInv
<1>2. PICK place : Placed(place, content)
  BY <1>1, InsertOrderIsPlaced DEF ValidContent
<1>3. PICK id : id = CopyAt(None, place)
  OBVIOUS
<1>4. new = InsertOrder(content) /\ n = Len(new) /\ copies = [t \in AllTables |-> CopiesOfTable(tenant, t)]
  OBVIOUS
<1>5. \A c \in Copies(tenant) : c[1] # None
  BY CopiesAreOf, IdAssumption DEF Committed
<1>6. \A c \in own : c[1] = None
  <2>1. \A c \in own : \E t, i : c = <<None, t, i>>
    BY DEF CopiesOf
  <2> QED
    BY <2>1
<1>7. /\ \A c \in Copies(tenant) : val[c] = RowOf(c)
      /\ \A c \in own : val[c] = Generated(content)[c[2]][c[3]]
  BY <1>5, <1>6
<1> HIDE DEF new, n, copies, val
<1>8. Fresh(new, id, val, copies, n)
  <2>1. /\ \A i, j \in 1 .. n : id[i] = id[j] => i = j
        /\ \A j \in 1 .. n : /\ id[j] \in own
                             /\ new[j].row = Generated(content)[id[j][2]][id[j][3]]
    BY <1>2, <1>3, <1>4, CopiesAreInserted
  <2>2. \A t \in AllTables : \A c \in copies[t] : c[1] # None
    BY <1>4, <1>5 DEF CopiesOfTable
  <2> QED
    BY <1>6, <1>7, <2>1, <2>2 DEF Fresh
<1>9. AllStand(rows[tenant], copies, val)
  <2> SUFFICES ASSUME NEW t \in AllTables
               PROVE  Stands(rows[tenant][t], copies[t], val)
    BY DEF AllStand
  <2>1. copies[t] = CopiesOfTable(tenant, t) /\ \A c \in copies[t] : c \in Copies(tenant)
    BY <1>4 DEF CopiesOfTable
  <2>2. \A c \in copies[t] : val[c] = Drawn(tenant)[c]
    BY <1>7, <2>1 DEF Drawn
  <2>3. Stands(rows[tenant][t], copies[t], Drawn(tenant))
    BY <2>1 DEF OwnRows
  <2> QED
    BY <2>2, <2>3, StandsForSame
<1>10. ReferredEarlier(new, n)
  BY <1>1, <1>2, <1>4, AcceptedIsReferredEarlier
<1>11. KeysAreNew(new, val, copies, n)
  BY <1>1, <1>2, <1>4, <1>7, AcceptedIsNew
<1> QED
  BY <1>1, <1>4, <1>8, <1>9, <1>10, <1>11, DatasetFits

\* A dataset that was accepted fits the tables: a commit that fails for what is there
\* (in_memory.py:139, 199) met the same seed again, values that other seeds yield too, a
\* row of the application, or a constraint its contract does not declare.
THEOREM SpecAcceptedFits == Spec => AcceptedFits
<1> DEFINE Fitting(p) ==
              (/\ req[p] # NoRequest /\ req'[p] = NoRequest
               /\ answer' = "DESTINATION_CONFLICT") =>
                  LET tenant == req[p].slot[1]
                      content == req[p].content
                  IN  \/ ~Covers(content.contract)
                      \/ tenant \in seeded
                      \/ \E g \in Committed(tenant) :
                            \/ generations[g].content.seed = content.seed
                            \/ ~SeedBound(content.contract)
<1>1. KeyInv /\ OutcomeInv /\ [Next]_vars => OutcomeInv'
  BY NextKeepsOutcomes
<1>2. KeyInv /\ RowInv /\ CopyInv /\ [Next]_vars => CopyInv'
  BY NextKeepsCopies
<1>3. ASSUME KeyInv, RowInv, CopyInv, OutcomeInv, Next, NEW p \in Procs,
             req[p] # NoRequest, req'[p] = NoRequest, answer' = "DESTINATION_CONFLICT"
      PROVE  Fitting(p)
  <2> DEFINE tenant == req[p].slot[1]
             content == req[p].content
  <2>1. tenant \in Tenants /\ content \in scene.contents /\ Outcome(content) = "ok"
    BY <1>3 DEF KeyInv, OutcomeInv, Slots
  <2>2. Inserted(tenant, content).code = "DESTINATION_CONFLICT"
    <3>1. PICK q \in Procs : Commit(q) \/ Late(q)
      <4>1. ASSUME NEW q \in Procs, NEW slot \in Slots, NEW asked \in scene.contents, Post(q, slot, asked)
            PROVE  FALSE
        BY <1>3, <4>1 DEF Post, KeyInv, NoRequest
      <4>2. ~(req' = req)
        BY <1>3
      <4> QED
        BY <1>3, <4>1, <4>2 DEF Next, Get, Delete, SeedRows
    <3>2. req' = [req EXCEPT ![q] = NoRequest]
      BY <3>1 DEF Commit, Late
    <3>3. q = p
      BY <1>3, <3>2 DEF KeyInv
    <3>4. Commit(p)
      BY <1>3, <3>1, <3>3 DEF Late
    <3>5. answer' = Inserted(tenant, content).code
      <4>1. Replayed(req[p].slot, content) # "DESTINATION_CONFLICT"
        BY DEF Replayed
      <4>2. \A g, done : Publish(g, req[p].slot, content, done) => answer' = "CREATED"
        BY DEF Publish
      <4> QED
        BY <1>3, <3>4, <4>1, <4>2 DEF Commit
    <3> QED
      BY <1>3, <3>5
  <2> HIDE DEF tenant, content
  <2>3. \/ ~Covers(content.contract)
        \/ tenant \in seeded
        \/ \E g \in Committed(tenant) : \/ generations[g].content.seed = content.seed
                                        \/ ~SeedBound(content.contract)
    <3>1. tenant \notin seeded => OwnRows(tenant)
      BY <1>3, <2>1 DEF CopyInv
    <3> QED
      BY <1>3, <2>1, <2>2, <3>1, AcceptedIsInserted
  <2> QED
    BY <2>3 DEF tenant, content
<1>4. KeyInv /\ RowInv /\ CopyInv /\ OutcomeInv /\ [Next]_vars => [\A p \in Procs : Fitting(p)]_vars
  BY <1>3
<1> HIDE DEF Fitting
<1>5. Spec => [][\A p \in Procs : Fitting(p)]_vars
  BY <1>1, <1>2, <1>4, InitUnique, InitCopies, KeysAreInStep, RowsAreTyped, PTL DEF Spec
<1> QED
  BY <1>5 DEF AcceptedFits, Fitting
=============================================================================
