--------------------------- MODULE InMemoryProofs ---------------------------
(***************************************************************************)
(* What holds of the in-memory repository for every catalog, contract and  *)
(* number of threads: keys and generations stay in step, rows have their   *)
(* fields, and the double writes, deletes and refuses what a server would. *)
(* The last is shown of one row, and then of datasets and ledgers by       *)
(* induction over their rows: the theorems of the library are about        *)
(* operators, Induction is about a set of numbers.                         *)
(***************************************************************************)
EXTENDS InMemoryProperties, FiniteSetTheorems, SequenceTheorems, WellFoundedInduction, TLAPS

-----------------------------------------------------------------------------
(* Loops: a fold is the last value of a run, one element after the other.     *)

\* A set of numbers that has 0, and with a number the next one, has all up to n.
LEMMA Induction ==
  ASSUME NEW n \in Nat, NEW S, 0 \in S, \A k \in 0 .. n - 1 : k \in S => k + 1 \in S
  PROVE  0 .. n \subseteq S
<1> DEFINE T == {k \in Nat : k \in 0 .. n /\ k \notin S}
<1>1. SUFFICES ASSUME T # {} PROVE FALSE
  OBVIOUS
<1>2. PICK x \in T : \A y \in T : ~(<<y, x>> \in OpToRel(<, Nat))
  <2>1. T \subseteq Nat
    OBVIOUS
  <2> HIDE DEF T
  <2> QED
    BY <1>1, <2>1, NatLessThanWellFounded, WFMin
<1>3. x \in 0 .. n /\ x # 0 /\ x \in Nat
  OBVIOUS
<1>4. x - 1 \in 0 .. n - 1 /\ x - 1 \in Nat
  BY <1>3
<1>5. x - 1 \in T
  <2>1. x - 1 \notin S
    BY <1>3, <1>4
  <2> QED
    BY <1>4, <2>1
<1>6. <<x - 1, x>> \in OpToRel(<, Nat)
  <2>1. <<x - 1, x>> \in Nat \X Nat /\ x - 1 < x
    BY <1>3, <1>4
  <2> QED
    BY <2>1 DEF OpToRel
<1> QED
  BY <1>2, <1>5, <1>6

\* The loops of the repository and of what it is compared with.
Step(loop, acc, x) ==
    IF loop = "insert" THEN Insert(acc, x)
    ELSE IF loop = "sql_insert" THEN SqlInsert(acc, x)
    ELSE IF loop = "delete" THEN DeleteRow(acc, x)
    ELSE IF loop = "sql_delete" THEN SqlDelete(acc, x)
    ELSE Resolve(acc, x)

\* The greatest of a set of numbers up to n that has n.
LEMMA LastIsMax ==
  ASSUME NEW n \in Nat, NEW s \in SUBSET (1 .. n), n \in s
  PROVE  Max(s) = n
<1>1. \A y \in s : n >= y
  OBVIOUS
<1>2. \A x \in s : (\A y \in s : x >= y) => x = n
  OBVIOUS
<1> QED
  BY <1>1, <1>2 DEF Max

\* What a fold is the last value of.
Iterates(g, loop, base, seq, n) ==
    g = [s \in SUBSET (1 .. n) |->
            IF s = {} THEN base ELSE Step(loop, g[s \ {Max(s)}], seq[Max(s)])]

\* The recursion of a fold has a solution: n is the last to be added.
LEMMA IterationExists ==
  ASSUME NEW loop, NEW base, NEW seq, NEW n \in Nat
  PROVE  \E g : Iterates(g, loop, base, seq, n)
<1> DEFINE S == {k \in 0 .. n : \E g : Iterates(g, loop, base, seq, k)}
<1>1. 0 \in S
  <2> DEFINE g == [s \in SUBSET (1 .. 0) |-> base]
  <2>1. Iterates(g, loop, base, seq, 0)
    <3>1. \A s \in SUBSET (1 .. 0) : s = {}
      OBVIOUS
    <3> QED
      BY <3>1 DEF Iterates
  <2> QED
    BY <2>1
<1>2. ASSUME NEW k \in 0 .. n - 1, k \in S
      PROVE  k + 1 \in S
  <2>1. PICK g : Iterates(g, loop, base, seq, k)
    BY <1>2
  <2> DEFINE m == k + 1
             h == [s \in SUBSET (1 .. m) |->
                      IF m \in s THEN Step(loop, g[s \ {m}], seq[m]) ELSE g[s]]
  <2>2. m \in 0 .. n /\ m \in Nat /\ k \in Nat
    OBVIOUS
  <2>3. \A s \in SUBSET (1 .. m) : m \notin s => s \in SUBSET (1 .. k)
    BY <2>2
  <2>4. \A s \in SUBSET (1 .. k) : g[s] = IF s = {} THEN base ELSE Step(loop, g[s \ {Max(s)}], seq[Max(s)])
    BY <2>1 DEF Iterates
  <2>5. \A s \in SUBSET (1 .. m) : h[s] = IF m \in s THEN Step(loop, g[s \ {m}], seq[m]) ELSE g[s]
    OBVIOUS
  <2> HIDE DEF h
  <2>6. ASSUME NEW s \in SUBSET (1 .. m)
        PROVE  h[s] = IF s = {} THEN base ELSE Step(loop, h[s \ {Max(s)}], seq[Max(s)])
    <3>1. CASE m \in s
      <4>1. Max(s) = m /\ s # {}
        BY <2>2, <3>1, LastIsMax
      <4>2. s \ {m} \in SUBSET (1 .. m) /\ m \notin s \ {m}
        OBVIOUS
      <4>3. h[s \ {m}] = g[s \ {m}]
        BY <2>5, <4>2
      <4> QED
        BY <2>5, <3>1, <4>1, <4>3
    <3>2. CASE m \notin s
      <4>1. s \in SUBSET (1 .. k)
        BY <2>3, <3>2
      <4>2. s \ {Max(s)} \in SUBSET (1 .. m) /\ m \notin s \ {Max(s)}
        BY <3>2
      <4>3. h[s \ {Max(s)}] = g[s \ {Max(s)}]
        BY <2>5, <4>2
      <4> QED
        BY <2>4, <2>5, <3>2, <4>1, <4>3
    <3> QED
      BY <3>1, <3>2
  <2>7. Iterates(h, loop, base, seq, m)
    <3>1. h = [s \in SUBSET (1 .. m) |-> h[s]]
      BY DEF h
    <3> QED
      BY <2>6, <3>1 DEF Iterates
  <2> QED
    BY <2>2, <2>7
<1>3. n \in S
  <2> HIDE DEF S
  <2> QED
    BY <1>1, <1>2, Induction
<1> QED
  BY <1>3

\* The values of an iteration, one element after the other.
Run(run, loop, base, seq, n) ==
    /\ run \in [0 .. n -> {run[k] : k \in 0 .. n}]
    /\ run[0] = base
    /\ \A k \in 1 .. n : run[k] = Step(loop, run[k - 1], seq[k])

\* A solution goes through its values for 1 .. 0, 1 .. 1 and so on.
LEMMA IterationRuns ==
  ASSUME NEW loop, NEW base, NEW seq, NEW n \in Nat, NEW g, Iterates(g, loop, base, seq, n)
  PROVE  \E run : Run(run, loop, base, seq, n) /\ run[n] = g[1 .. n]
<1> DEFINE run == [k \in 0 .. n |-> g[1 .. k]]
<1>1. run[0] = base
  <2>1. 1 .. 0 = {} /\ 1 .. 0 \in SUBSET (1 .. n) /\ 0 \in 0 .. n
    OBVIOUS
  <2>2. g[1 .. 0] = base
    BY <2>1 DEF Iterates
  <2> QED
    BY <2>1, <2>2
<1>2. ASSUME NEW k \in 1 .. n
      PROVE  run[k] = Step(loop, run[k - 1], seq[k])
  <2>1. /\ k \in 0 .. n /\ k - 1 \in 0 .. n /\ k \in Nat /\ k \in 1 .. k
        /\ 1 .. k \in SUBSET (1 .. n) /\ 1 .. k # {}
    OBVIOUS
  <2>5. (1 .. k) \ {k} = 1 .. (k - 1)
    <3>1. \A x : x \in (1 .. k) \ {k} <=> x \in 1 .. (k - 1)
      OBVIOUS
    <3> QED
      BY <3>1
  <2>2. Max(1 .. k) = k
    BY <2>1, LastIsMax
  <2>3. g[1 .. k] = Step(loop, g[(1 .. k) \ {Max(1 .. k)}], seq[Max(1 .. k)])
    BY <2>1 DEF Iterates
  <2>4. run[k] = g[1 .. k] /\ run[k - 1] = g[1 .. (k - 1)]
    BY <2>1
  <2> HIDE DEF run
  <2> QED
    BY <2>1, <2>2, <2>3, <2>4, <2>5
<1>3. run \in [0 .. n -> {run[k] : k \in 0 .. n}]
  OBVIOUS
<1>4. run[n] = g[1 .. n]
  OBVIOUS
<1> HIDE DEF run
<1> QED
  BY <1>1, <1>2, <1>3, <1>4 DEF Run

\* Each of the five folds is such a run.
LEMMA FoldInsert ==
  ASSUME NEW base, NEW seq, NEW n \in Nat, DOMAIN seq = 1 .. n
  PROVE  \E run : Run(run, "insert", base, seq, n) /\ FoldLeft(Insert, base, seq) = run[n]
<1> DEFINE g == CHOOSE g : g = [s \in SUBSET (1 .. n) |->
                 IF s = {} THEN base ELSE Insert(g[s \ {Max(s)}], seq[Max(s)])]
<1>1. FoldLeft(Insert, base, seq) = g[1 .. n]
  BY DEF FoldLeft, MapThenFoldSet
<1>2. \A h : Iterates(h, "insert", base, seq, n) <=>
         h = [s \in SUBSET (1 .. n) |->
                 IF s = {} THEN base ELSE Insert(h[s \ {Max(s)}], seq[Max(s)])]
  BY DEF Iterates, Step
<1>3. Iterates(g, "insert", base, seq, n)
  BY <1>2, IterationExists
<1> HIDE DEF g
<1>4. PICK run : Run(run, "insert", base, seq, n) /\ run[n] = g[1 .. n]
  BY <1>3, IterationRuns
<1> QED
  BY <1>1, <1>4

\* The statements of an insertion.
LEMMA FoldSqlInsert ==
  ASSUME NEW base, NEW seq, NEW n \in Nat, DOMAIN seq = 1 .. n
  PROVE  \E run : Run(run, "sql_insert", base, seq, n) /\ FoldLeft(SqlInsert, base, seq) = run[n]
<1> DEFINE g == CHOOSE g : g = [s \in SUBSET (1 .. n) |->
                 IF s = {} THEN base ELSE SqlInsert(g[s \ {Max(s)}], seq[Max(s)])]
<1>1. FoldLeft(SqlInsert, base, seq) = g[1 .. n]
  BY DEF FoldLeft, MapThenFoldSet
<1>2. \A h : Iterates(h, "sql_insert", base, seq, n) <=>
         h = [s \in SUBSET (1 .. n) |->
                 IF s = {} THEN base ELSE SqlInsert(h[s \ {Max(s)}], seq[Max(s)])]
  BY DEF Iterates, Step
<1>3. Iterates(g, "sql_insert", base, seq, n)
  BY <1>2, IterationExists
<1> HIDE DEF g
<1>4. PICK run : Run(run, "sql_insert", base, seq, n) /\ run[n] = g[1 .. n]
  BY <1>3, IterationRuns
<1> QED
  BY <1>1, <1>4

\* The loop of delete().
LEMMA FoldDelete ==
  ASSUME NEW base, NEW seq, NEW n \in Nat, DOMAIN seq = 1 .. n
  PROVE  \E run : Run(run, "delete", base, seq, n) /\ FoldLeft(DeleteRow, base, seq) = run[n]
<1> DEFINE g == CHOOSE g : g = [s \in SUBSET (1 .. n) |->
                 IF s = {} THEN base ELSE DeleteRow(g[s \ {Max(s)}], seq[Max(s)])]
<1>1. FoldLeft(DeleteRow, base, seq) = g[1 .. n]
  BY DEF FoldLeft, MapThenFoldSet
<1>2. \A h : Iterates(h, "delete", base, seq, n) <=>
         h = [s \in SUBSET (1 .. n) |->
                 IF s = {} THEN base ELSE DeleteRow(h[s \ {Max(s)}], seq[Max(s)])]
  BY DEF Iterates, Step
<1>3. Iterates(g, "delete", base, seq, n)
  BY <1>2, IterationExists
<1> HIDE DEF g
<1>4. PICK run : Run(run, "delete", base, seq, n) /\ run[n] = g[1 .. n]
  BY <1>3, IterationRuns
<1> QED
  BY <1>1, <1>4

\* The statements of a deletion.
LEMMA FoldSqlDelete ==
  ASSUME NEW base, NEW seq, NEW n \in Nat, DOMAIN seq = 1 .. n
  PROVE  \E run : Run(run, "sql_delete", base, seq, n) /\ FoldLeft(SqlDelete, base, seq) = run[n]
<1> DEFINE g == CHOOSE g : g = [s \in SUBSET (1 .. n) |->
                 IF s = {} THEN base ELSE SqlDelete(g[s \ {Max(s)}], seq[Max(s)])]
<1>1. FoldLeft(SqlDelete, base, seq) = g[1 .. n]
  BY DEF FoldLeft, MapThenFoldSet
<1>2. \A h : Iterates(h, "sql_delete", base, seq, n) <=>
         h = [s \in SUBSET (1 .. n) |->
                 IF s = {} THEN base ELSE SqlDelete(h[s \ {Max(s)}], seq[Max(s)])]
  BY DEF Iterates, Step
<1>3. Iterates(g, "sql_delete", base, seq, n)
  BY <1>2, IterationExists
<1> HIDE DEF g
<1>4. PICK run : Run(run, "sql_delete", base, seq, n) /\ run[n] = g[1 .. n]
  BY <1>3, IterationRuns
<1> QED
  BY <1>1, <1>4

\* The relations of a contract.
LEMMA FoldResolve ==
  ASSUME NEW base, NEW seq, NEW n \in Nat, DOMAIN seq = 1 .. n
  PROVE  \E run : Run(run, "resolve", base, seq, n) /\ FoldLeft(Resolve, base, seq) = run[n]
<1> DEFINE g == CHOOSE g : g = [s \in SUBSET (1 .. n) |->
                 IF s = {} THEN base ELSE Resolve(g[s \ {Max(s)}], seq[Max(s)])]
<1>1. FoldLeft(Resolve, base, seq) = g[1 .. n]
  BY DEF FoldLeft, MapThenFoldSet
<1>2. \A h : Iterates(h, "resolve", base, seq, n) <=>
         h = [s \in SUBSET (1 .. n) |->
                 IF s = {} THEN base ELSE Resolve(h[s \ {Max(s)}], seq[Max(s)])]
  BY DEF Iterates, Step
<1>3. Iterates(g, "resolve", base, seq, n)
  BY <1>2, IterationExists
<1> HIDE DEF g
<1>4. PICK run : Run(run, "resolve", base, seq, n) /\ run[n] = g[1 .. n]
  BY <1>3, IterationRuns
<1> QED
  BY <1>1, <1>4

\* The recursion of FlattenSeq has a solution, too.
LEMMA FlattenRuns ==
  ASSUME NEW seqs, NEW n \in Nat, Len(seqs) = n
  PROVE  \E flatten : /\ n # 0 => FlattenSeq(seqs) = flatten[n]
                      /\ \A i \in 1 .. n : flatten[i] = IF i = 1 THEN seqs[i] ELSE flatten[i - 1] \o seqs[i]
<1> DEFINE Flat(f, k) == f = [i \in 1 .. k |-> IF i = 1 THEN seqs[i] ELSE f[i - 1] \o seqs[i]]
           S == {k \in 0 .. n : \E f : Flat(f, k)}
<1>1. n \in Nat
  OBVIOUS
<1>2. \E f : Flat(f, 0)
  <2> DEFINE f == [i \in 1 .. 0 |-> << >>]
  <2>1. Flat(f, 0)
    OBVIOUS
  <2> QED
    BY <2>1
<1>3. ASSUME NEW k \in 0 .. n - 1, \E f : Flat(f, k)
      PROVE  \E f : Flat(f, k + 1)
  <2>1. PICK f : Flat(f, k)
    BY <1>3
  <2> DEFINE last == IF k + 1 = 1 THEN seqs[k + 1] ELSE f[k] \o seqs[k + 1]
             h == [i \in 1 .. k + 1 |-> IF i = k + 1 THEN last ELSE f[i]]
  <2>2. \A i \in 1 .. k : f[i] = IF i = 1 THEN seqs[i] ELSE f[i - 1] \o seqs[i]
    BY <2>1
  <2>3. \A i \in 1 .. k + 1 : h[i] = IF i = k + 1 THEN last ELSE f[i]
    OBVIOUS
  <2>4. h = [i \in 1 .. k + 1 |-> h[i]]
    OBVIOUS
  <2> HIDE DEF h, last
  <2>5. k \in Nat
    BY <1>1
  <2>6. ASSUME NEW i \in 1 .. k + 1
        PROVE  h[i] = IF i = 1 THEN seqs[i] ELSE h[i - 1] \o seqs[i]
    <3>1. CASE i = k + 1 /\ i = 1
      BY <2>3, <3>1 DEF last
    <3>2. CASE i = k + 1 /\ i # 1
      <4>1. i - 1 \in 1 .. k + 1 /\ i - 1 # k + 1 /\ i - 1 = k
        BY <2>5, <3>2
      <4>2. h[i - 1] = f[k]
        BY <2>3, <4>1
      <4> QED
        BY <2>3, <3>2, <4>2 DEF last
    <3>3. CASE i # k + 1
      <4>1. i \in 1 .. k /\ h[i] = f[i]
        BY <2>3, <2>5, <3>3
      <4>2. CASE i = 1
        BY <2>2, <4>1, <4>2
      <4>3. CASE i # 1
        <5>1. i - 1 \in 1 .. k + 1 /\ i - 1 # k + 1
          BY <2>5, <4>1, <4>3
        <5>2. h[i - 1] = f[i - 1]
          BY <2>3, <5>1
        <5> QED
          BY <2>2, <4>1, <4>3, <5>2
      <4> QED
        BY <4>2, <4>3
    <3> QED
      BY <3>1, <3>2, <3>3
  <2>7. [i \in 1 .. k + 1 |-> h[i]] =
           [i \in 1 .. k + 1 |-> IF i = 1 THEN seqs[i] ELSE h[i - 1] \o seqs[i]]
    BY <2>6
  <2>8. Flat(h, k + 1)
    BY <2>4, <2>7
  <2> HIDE DEF Flat
  <2> QED
    BY <2>8
<1> HIDE DEF Flat
<1>4. n \in S
  <2>1. 0 \in S
    BY <1>1, <1>2
  <2>2. \A k \in 0 .. n - 1 : k \in S => k + 1 \in S
    BY <1>1, <1>3
  <2> HIDE DEF S
  <2>3. 0 .. n \subseteq S
    BY <1>1, <2>1, <2>2, Induction
  <2> QED
    BY <1>1, <2>3
<1> DEFINE flatten == CHOOSE f : Flat(f, n)
<1>5. Flat(flatten, n)
  BY <1>4
<1>6. FlattenSeq(seqs) = IF n = 0 THEN seqs ELSE flatten[n]
  BY DEF FlattenSeq, Flat
<1> HIDE DEF flatten
<1>7. \A i \in 1 .. n : flatten[i] = IF i = 1 THEN seqs[i] ELSE flatten[i - 1] \o seqs[i]
  BY <1>5 DEF Flat
<1> QED
  BY <1>6, <1>7

\* To flatten sequences yields a sequence of what is in them.
LEMMA FlattenType ==
  ASSUME NEW E, NEW seqs \in Seq(Seq(E))
  PROVE  FlattenSeq(seqs) \in Seq(E)
<1> DEFINE n == Len(seqs)
<1>1. n \in Nat /\ \A i \in 1 .. n : seqs[i] \in Seq(E)
  OBVIOUS
<1>2. PICK flatten : /\ n # 0 => FlattenSeq(seqs) = flatten[n]
                     /\ \A i \in 1 .. n : flatten[i] = IF i = 1 THEN seqs[i] ELSE flatten[i - 1] \o seqs[i]
  BY <1>1, FlattenRuns
<1> HIDE DEF n
<1> DEFINE T == {k \in 0 .. n : k # 0 => flatten[k] \in Seq(E)}
<1>3. n \in T
  <2>1. 0 \in T
    BY <1>1
  <2>2. ASSUME NEW k \in 0 .. n - 1, k \in T
        PROVE  k + 1 \in T
    <3>1. k + 1 \in 1 .. n /\ k + 1 \in 0 .. n /\ (k + 1) - 1 = k
      BY <1>1
    <3>2. CASE k = 0
      BY <1>1, <1>2, <3>1, <3>2
    <3>3. CASE k # 0
      <4>0. PICK i \in 1 .. n : i = k + 1
        BY <3>1
      <4>4. i # 1 /\ i - 1 = k
        BY <1>1, <3>1, <3>3, <4>0
      <4>5. flatten[i] = flatten[i - 1] \o seqs[i]
        BY <1>2, <4>4
      <4>1. flatten[k + 1] = flatten[k] \o seqs[k + 1]
        BY <4>0, <4>4, <4>5
      <4>2. flatten[k] \in Seq(E) /\ seqs[k + 1] \in Seq(E)
        BY <1>1, <2>2, <3>1, <3>3
      <4>3. flatten[k] \o seqs[k + 1] \in Seq(E)
        BY <4>2, ConcatProperties
      <4> QED
        BY <3>1, <4>1, <4>3
    <3> QED
      BY <3>2, <3>3
  <2> HIDE DEF T
  <2>3. 0 .. n \subseteq T
    BY <1>1, <2>1, <2>2, Induction
  <2> QED
    BY <1>1, <2>3
<1>4. CASE n = 0
  <2>1. seqs = << >>
    BY <1>4 DEF n
  <2>2. FlattenSeq(seqs) = << >>
    BY <2>1 DEF FlattenSeq
  <2> QED
    BY <2>2
<1>5. CASE n # 0
  BY <1>2, <1>3, <1>5
<1> QED
  BY <1>4, <1>5

-----------------------------------------------------------------------------
(* Datasets *)

\* A row has its fields.
IsRow(row) == row = [f \in Fields |-> row[f]]

\* A dataset has the rows the contract asks for.
IsDataset(contract, dataset) ==
    /\ DOMAIN dataset = RecordTypes(contract)
    /\ \A t \in RecordTypes(contract) :
          /\ dataset[t] = [i \in 1 .. contract.count[t] |-> dataset[t][i]]
          /\ \A i \in 1 .. contract.count[t] : IsRow(dataset[t][i])

\* A relation changes one field of some rows.
LEMMA ResolveKeepsDataset ==
  ASSUME NEW contract, NEW dataset, IsDataset(contract, dataset), NEW rel
  PROVE  IsDataset(contract, Resolve(dataset, rel))
<1> DEFINE targets == dataset[rel.to[1]]
           value(i) == targets[((i - 1) % Len(targets)) + 1][rel.to[2]]
           column == [i \in DOMAIN dataset[rel.from[1]] |->
                        [dataset[rel.from[1]][i] EXCEPT ![rel.from[2]] = value(i)]]
           after == [dataset EXCEPT ![rel.from[1]] = column]
<1>1. Resolve(dataset, rel) = after
  BY DEF Resolve
<1>2. /\ DOMAIN after = RecordTypes(contract)
      /\ \A t \in RecordTypes(contract) : after[t] = IF t = rel.from[1] THEN column ELSE dataset[t]
  BY DEF IsDataset
<1>3. column = [i \in DOMAIN dataset[rel.from[1]] |-> column[i]]
  OBVIOUS
<1>4. ASSUME NEW i \in DOMAIN dataset[rel.from[1]], IsRow(dataset[rel.from[1]][i])
      PROVE  IsRow(column[i])
  <2> HIDE DEF targets
  <2> DEFINE row == dataset[rel.from[1]][i]
  <2>1. column[i] = [row EXCEPT ![rel.from[2]] = value(i)]
    OBVIOUS
  <2>2. row = [f \in Fields |-> row[f]]
    BY <1>4 DEF IsRow
  <2> HIDE DEF row, value
  <2>3. DOMAIN row = Fields
    BY <2>2
  <2>4. [row EXCEPT ![rel.from[2]] = value(i)] =
           [f \in Fields |-> IF f = rel.from[2] THEN value(i) ELSE row[f]]
    BY <2>3
  <2> QED
    BY <2>1, <2>4 DEF IsRow
<1> HIDE DEF column, after
<1> QED
  BY <1>1, <1>2, <1>3, <1>4 DEF IsDataset

\* What is drawn has the rows the contract asks for.
LEMMA ValuesAreDataset ==
  ASSUME NEW content
  PROVE  IsDataset(content.contract, Values(content))
<1> DEFINE contract == content.contract
<1>1. DOMAIN Values(content) = RecordTypes(contract)
  BY DEF Values
<1>2. ASSUME NEW t \in RecordTypes(contract)
      PROVE  /\ Values(content)[t] = [i \in 1 .. contract.count[t] |-> Values(content)[t][i]]
             /\ \A i \in 1 .. contract.count[t] : IsRow(Values(content)[t][i])
  <2> DEFINE cell(i, f) == IF <<t, f, i>> \in content.nulls THEN None ELSE Draw(content, t, f, i)
  <2>1. Values(content)[t] = [i \in 1 .. contract.count[t] |-> [f \in Fields |-> cell(i, f)]]
    BY DEF Values
  <2> HIDE DEF cell, contract
  <2> QED
    BY <2>1 DEF IsRow
<1> QED
  BY <1>1, <1>2 DEF IsDataset

\* What is generated has the rows the contract asks for, whatever its relations.
LEMMA GeneratedIsDataset ==
  ASSUME NEW content, ValidContract(content.contract)
  PROVE  IsDataset(content.contract, Generated(content))
<1> DEFINE contract == content.contract
           relations == contract.relations
           n == Len(relations)
<1>1. relations \in Seq(Range(relations))
  BY DEF ValidContract
<1>2. n \in Nat /\ DOMAIN relations = 1 .. n
  <2> HIDE DEF relations
  <2> QED
    BY <1>1
<1>3. PICK run : /\ Run(run, "resolve", Values(content), relations, n)
                 /\ FoldLeft(Resolve, Values(content), relations) = run[n]
  <2> HIDE DEF n, relations
  <2> QED
    BY <1>2, FoldResolve
<1>4. IsDataset(contract, run[0])
  BY <1>3, ValuesAreDataset DEF Run
<1> DEFINE S == {k \in 0 .. n : IsDataset(contract, run[k])}
<1> HIDE DEF contract, relations, n
<1>5. ASSUME NEW k \in 0 .. n - 1, k \in S
      PROVE  k + 1 \in S
  <2>1. k + 1 \in 1 .. n /\ k + 1 \in 0 .. n /\ (k + 1) - 1 = k
    BY <1>2
  <2>2. run[k + 1] = Resolve(run[k], relations[k + 1])
    BY <1>3, <2>1 DEF Run, Step
  <2> QED
    BY <1>5, <2>1, <2>2, ResolveKeepsDataset
<1>6. n \in S
  <2>1. 0 \in S
    BY <1>2, <1>4
  <2> HIDE DEF S
  <2>2. 0 .. n \subseteq S
    BY <1>2, <1>5, <2>1, Induction
  <2> QED
    BY <1>2, <2>2
<1> QED
  BY <1>3, <1>6 DEF Generated, contract, relations

-----------------------------------------------------------------------------
(* Keys *)

\* What a thread holds between lookup and commit is a POST, keys and generations
\* name each other, and the content of a key is that of its generation.
KeyInv ==
    /\ scene \in Scenes
    /\ generations \in [GenIds -> [state : {"ABSENT", "COMMITTED", "DELETED"},
                                   slot : Slots \cup {None}, content : scene.contents \cup {None}]]
    /\ idempotency \in [Slots -> GenIds \cup {None}]
    /\ request_digests \in [Slots -> scene.contents \cup {None}]
    /\ req \in [Procs -> [slot : Slots, content : scene.contents] \cup {NoRequest}]
    /\ \A g \in GenIds \ Absent : generations[g].slot \in Slots
    /\ \A slot \in Slots : idempotency[slot] # None =>
          /\ idempotency[slot] \notin Absent
          /\ generations[idempotency[slot]].slot = slot
    /\ KeyIsBound

\* What a key names, it names for good, with the content it was first used for.
KeysStay ==
    \A slot \in Slots : idempotency[slot] # None =>
        /\ idempotency'[slot] = idempotency[slot]
        /\ request_digests'[slot] = request_digests[slot]

\* No key is used and no generation stored.
LEMMA InitKeys == Init => KeyInv
BY DEF Init, KeyInv, NoResult, NoRequest, KeyIsBound, Absent

\* A generation that a commit publishes is new, and so is its key.
LEMMA PublishKeepsKeys ==
  ASSUME KeyInv, NEW g \in Absent, NEW slot \in Slots, NEW content \in scene.contents, NEW done,
         idempotency[slot] = None, Publish(g, slot, content, done), UNCHANGED scene,
         req' \in [Procs -> [slot : Slots, content : scene.contents] \cup {NoRequest}]
  PROVE  KeyInv' /\ KeysStay
<1> USE IdAssumption
<1>1. g \in GenIds
  BY DEF Absent
<1>2. /\ generations' \in [GenIds -> [state : {"ABSENT", "COMMITTED", "DELETED"},
                                slot : Slots \cup {None}, content : scene.contents \cup {None}]]
      /\ generations'[g] = [state |-> "COMMITTED", slot |-> slot, content |-> content]
      /\ \A h \in GenIds : h # g => generations'[h] = generations[h]
  BY <1>1 DEF Publish, KeyInv
<1>3. /\ idempotency' \in [Slots -> GenIds \cup {None}]
      /\ idempotency'[slot] = g
      /\ \A other \in Slots : other # slot => idempotency'[other] = idempotency[other]
  BY <1>1 DEF Publish, KeyInv
<1>4. /\ request_digests' \in [Slots -> scene.contents \cup {None}]
      /\ request_digests'[slot] = content
      /\ \A other \in Slots : other # slot => request_digests'[other] = request_digests[other]
  BY DEF Publish, KeyInv
<1>5. Absent' = Absent \ {g}
  BY <1>1, <1>2 DEF Absent
<1>6. \A h \in (GenIds \ Absent)' : h # g => h \in GenIds \ Absent /\ generations[h].slot # slot
  BY <1>5 DEF KeyInv, KeyIsBound
<1>7. KeyIsBound'
  BY <1>1, <1>2, <1>3, <1>4, <1>6 DEF KeyInv, KeyIsBound
<1>8. \A other \in Slots : idempotency'[other] # None =>
         /\ idempotency'[other] \notin Absent'
         /\ generations'[idempotency'[other]].slot = other
  BY <1>1, <1>2, <1>3, <1>5 DEF KeyInv
<1>9. \A h \in (GenIds \ Absent)' : generations'[h].slot \in Slots
  BY <1>2, <1>6 DEF KeyInv
<1>10. KeysStay
  BY <1>3, <1>4 DEF KeysStay
<1> QED
  BY <1>2, <1>3, <1>4, <1>7, <1>8, <1>9, <1>10 DEF KeyInv

\* A deletion changes the state of a generation and nothing that keys refer to.
LEMMA DeleteKeepsKeys ==
  ASSUME KeyInv, NEW g \in GenIds, generations[g].state = "COMMITTED",
         generations' = Deleted(g), UNCHANGED <<scene, idempotency, request_digests, req>>
  PROVE  KeyInv' /\ KeysStay
<1>1. /\ generations' \in [GenIds -> [state : {"ABSENT", "COMMITTED", "DELETED"},
                                slot : Slots \cup {None}, content : scene.contents \cup {None}]]
      /\ \A h \in GenIds : /\ generations'[h].slot = generations[h].slot
                           /\ generations'[h].content = generations[h].content
                           /\ generations'[h].state = "ABSENT" <=> generations[h].state = "ABSENT"
  BY DEF Deleted, KeyInv
<1>2. Absent' = Absent
  BY <1>1 DEF Absent
<1> QED
  BY <1>1, <1>2, IdAssumption DEF KeyInv, KeyIsBound, KeysStay

\* All other steps leave the dictionaries alone.
LEMMA IdleKeepsKeys ==
  ASSUME KeyInv, UNCHANGED <<scene, generations, idempotency, request_digests>>,
         req' \in [Procs -> [slot : Slots, content : scene.contents] \cup {NoRequest}]
  PROVE  KeyInv' /\ KeysStay
BY DEF KeyInv, KeyIsBound, KeysStay, Absent

\* Whatever a thread or the owner of a table does.
LEMMA NextKeepsKeys ==
  ASSUME KeyInv, [Next]_vars
  PROVE  KeyInv' /\ KeysStay
<1>1. ASSUME NEW p \in Procs, NEW slot \in Slots, NEW content \in scene.contents, Post(p, slot, content)
      PROVE  KeyInv' /\ KeysStay
  <2>1. req' \in [Procs -> [slot : Slots, content : scene.contents] \cup {NoRequest}]
    BY <1>1 DEF Post, KeyInv
  <2> QED
    BY <1>1, <2>1, IdleKeepsKeys DEF Post, store
<1>2. ASSUME NEW p \in Procs, Late(p)
      PROVE  KeyInv' /\ KeysStay
  <2>1. req' \in [Procs -> [slot : Slots, content : scene.contents] \cup {NoRequest}]
    BY <1>2 DEF Late, KeyInv
  <2> QED
    BY <1>2, <2>1, IdleKeepsKeys DEF Late, store
<1>3. ASSUME NEW p \in Procs, Commit(p)
      PROVE  KeyInv' /\ KeysStay
  <2> DEFINE slot == req[p].slot
             done == Inserted(slot[1], req[p].content)
  <2>1. /\ req' \in [Procs -> [slot : Slots, content : scene.contents] \cup {NoRequest}]
        /\ slot \in Slots /\ req[p].content \in scene.contents
    BY <1>3 DEF Commit, KeyInv
  <2>2. CASE UNCHANGED store
    BY <1>3, <2>1, <2>2, IdleKeepsKeys DEF Commit, store
  <2>3. CASE idempotency[slot] = None /\ \E g \in Absent : Publish(g, slot, req[p].content, done)
    <3>1. PICK g \in Absent : Publish(g, slot, req[p].content, done)
      BY <2>3
    <3>2. UNCHANGED scene
      BY <1>3 DEF Commit
    <3> HIDE DEF slot, done
    <3> QED
      BY <2>1, <2>3, <3>1, <3>2, PublishKeepsKeys
  <2> QED
    BY <1>3, <2>2, <2>3 DEF Commit
<1>4. ASSUME NEW p \in Procs, NEW tenant \in Tenants, NEW g \in GenIds, Get(p, tenant, g)
      PROVE  KeyInv' /\ KeysStay
  BY <1>4, IdleKeepsKeys DEF Get, store, KeyInv
<1>5. ASSUME NEW p \in Procs, NEW tenant \in Tenants, NEW g \in GenIds, Delete(p, tenant, g)
      PROVE  KeyInv' /\ KeysStay
  <2>1. CASE UNCHANGED store
    BY <1>5, <2>1, IdleKeepsKeys DEF Delete, store, KeyInv
  <2>2. CASE /\ generations[g].state = "COMMITTED" /\ generations' = Deleted(g)
             /\ UNCHANGED <<idempotency, request_digests>>
    BY <1>5, <2>2, DeleteKeepsKeys DEF Delete
  <2> QED
    BY <1>5, <2>1, <2>2 DEF Delete
<1>6. ASSUME NEW tenant \in Tenants, NEW table \in TablesOf(catalog), SeedRows(tenant, table)
      PROVE  KeyInv' /\ KeysStay
  BY <1>6, IdleKeepsKeys DEF SeedRows, KeyInv
<1>7. CASE UNCHANGED vars
  BY <1>7, IdleKeepsKeys DEF vars, store, KeyInv
<1> QED
  BY <1>1, <1>2, <1>3, <1>4, <1>5, <1>6, <1>7 DEF Next

\* Keys and generations name each other, however lookups, commits and deletions of
\* any number of threads interleave (in_memory.py:59-87, 162-173).
THEOREM KeysAreInStep == Spec => []KeyInv
BY InitKeys, NextKeepsKeys, PTL DEF Spec

\* Every stored generation is the one its key names, with the content it was
\* asked for: two racing POSTs of a key never both write.
THEOREM SpecKeyIsBound == Spec => []KeyIsBound
<1>1. KeyInv => KeyIsBound
  BY DEF KeyInv
<1> QED
  BY <1>1, KeysAreInStep, PTL

\* A key is never given to another generation or content, not by a commit that
\* raced it, and not by the deletion of what it names.
THEOREM KeysAreForGood == Spec => [][KeysStay]_vars
<1>1. KeyInv /\ [Next]_vars => [KeysStay]_vars
  BY NextKeepsKeys
<1> QED
  BY <1>1, KeysAreInStep, PTL DEF Spec

-----------------------------------------------------------------------------
(* One row *)

\* A database of any rows whatsoever.
Databases(Row) == [AllTables -> Seq(Row)]

\* Columns of constraints are of tables that are there.
LEMMA ConstraintsAreOfTables ==
  ASSUME scene \in Scenes
  PROVE  /\ TablesOf(catalog) \subseteq AllTables
         /\ \A key \in catalog.unique : key[1] \in AllTables
         /\ \A fk \in catalog.foreign : /\ fk.from[1] \in AllTables
                                        /\ fk.to[1] \in AllTables
                                        /\ fk.to \in catalog.unique
<1>1. TablesOf(catalog) \subseteq AllTables
  BY DEF AllTables, catalog
<1>2. \A column \in DOMAIN catalog.types : column[1] \in AllTables
  BY <1>1 DEF TablesOf
<1> QED
  BY <1>1, <1>2, SceneAssumption DEF catalog

\* KeysHold without its columns.
LEMMA KeysHoldOfRows ==
  ASSUME NEW staged
  PROVE  KeysHold(staged) <=>
            \A key \in catalog.unique : \A i, j \in DOMAIN staged[key[1]] :
               (i # j /\ staged[key[1]][i][key[2]] = staged[key[1]][j][key[2]]) =>
                  staged[key[1]][i][key[2]] = None
BY DEF KeysHold

\* One more.
LEMMA RangeOfAppend ==
  ASSUME NEW Row, NEW s \in Seq(Row), NEW row \in Row
  PROVE  Range(Append(s, row)) = Range(s) \cup {row}
BY AppendProperties DEF Range

\* All but one element are left, in their order.
LEMMA RemoveAtProperties ==
  ASSUME NEW Row, NEW s \in Seq(Row), NEW i \in DOMAIN s
  PROVE  /\ RemoveAt(s, i) \in Seq(Row)
         /\ Len(RemoveAt(s, i)) = Len(s) - 1
         /\ \A j \in DOMAIN RemoveAt(s, i) :
               RemoveAt(s, i)[j] = IF j < i THEN s[j] ELSE s[j + 1]
<1> DEFINE front == SubSeq(s, 1, i - 1)
           back == SubSeq(s, i + 1, Len(s))
<1>1. Len(s) \in Nat /\ i \in 1 .. Len(s)
  OBVIOUS
<1>2. /\ front \in Seq(Row) /\ Len(front) = i - 1
      /\ \A j \in 1 .. i - 1 : front[j] = s[j]
  BY <1>1, SubSeqProperties
<1>3. /\ back \in Seq(Row) /\ Len(back) = Len(s) - i
      /\ \A j \in 1 .. Len(s) - i : back[j] = s[i + j]
  BY <1>1, SubSeqProperties
<1>4. RemoveAt(s, i) = front \o back
  BY DEF RemoveAt
<1> HIDE DEF front, back
<1>5. RemoveAt(s, i) \in Seq(Row)
  BY <1>2, <1>3, <1>4, ConcatProperties
<1>6. Len(RemoveAt(s, i)) = Len(s) - 1
  <2>1. Len(front \o back) = Len(front) + Len(back)
    BY <1>2, <1>3, ConcatProperties
  <2> QED
    BY <1>1, <1>2, <1>3, <1>4, <2>1
<1>7. ASSUME NEW j \in 1 .. Len(s) - 1
      PROVE  RemoveAt(s, i)[j] = IF j < i THEN s[j] ELSE s[j + 1]
  <2>1. j \in 1 .. Len(front) + Len(back)
    BY <1>1, <1>2, <1>3
  <2>2. (front \o back)[j] = IF j <= Len(front) THEN front[j] ELSE back[j - Len(front)]
    BY <1>2, <1>3, <2>1, ConcatProperties
  <2>3. CASE j < i
    <3>1. j <= Len(front) /\ j \in 1 .. i - 1
      BY <1>1, <1>2, <2>3
    <3> QED
      BY <1>2, <1>4, <2>2, <2>3, <3>1
  <2>4. CASE ~(j < i)
    <3>1. /\ ~(j <= Len(front)) /\ j - Len(front) \in 1 .. Len(s) - i
          /\ i + (j - Len(front)) = j + 1
      BY <1>1, <1>2, <2>4
    <3>2. back[j - Len(front)] = s[j + 1]
      BY <1>3, <3>1
    <3> QED
      BY <1>4, <2>2, <2>4, <3>1, <3>2
  <2> QED
    BY <2>3, <2>4
<1>8. DOMAIN RemoveAt(s, i) = 1 .. Len(s) - 1
  BY <1>1, <1>5, <1>6
<1> QED
  BY <1>5, <1>6, <1>7, <1>8

\* One less.
LEMMA RangeOfRemoveAt ==
  ASSUME NEW Row, NEW s \in Seq(Row), NEW i \in DOMAIN s
  PROVE  Range(RemoveAt(s, i)) = {s[j] : j \in DOMAIN s \ {i}}
<1> DEFINE t == RemoveAt(s, i)
<1>1. /\ t \in Seq(Row) /\ Len(t) = Len(s) - 1
      /\ \A j \in DOMAIN t : t[j] = IF j < i THEN s[j] ELSE s[j + 1]
  BY RemoveAtProperties
<1> HIDE DEF t
<1>2. DOMAIN t = 1 .. Len(s) - 1 /\ DOMAIN s = 1 .. Len(s) /\ Len(s) \in Nat
  BY <1>1
<1>3. ASSUME NEW j \in DOMAIN s \ {i}
      PROVE  s[j] \in Range(t)
  <2>1. CASE j < i
    BY <1>1, <1>2, <2>1 DEF Range
  <2>2. CASE j > i
    <3>1. j - 1 \in DOMAIN t /\ t[j - 1] = s[j]
      BY <1>1, <1>2, <2>2
    <3> QED
      BY <3>1 DEF Range
  <2> QED
    BY <1>2, <2>1, <2>2
<1>4. ASSUME NEW j \in DOMAIN t
      PROVE  \E k \in DOMAIN s \ {i} : t[j] = s[k]
  BY <1>1, <1>2
<1> QED
  BY <1>3, <1>4 DEF Range, t

\* A foreign key that holds of the table after the row is written has its target
\* before, unless it is the row itself.
LEMMA ReferencesAfterInsert ==
  ASSUME scene \in Scenes, NEW Row, NEW staged \in Databases(Row),
         NEW table \in AllTables, NEW row \in Row,
         ReferencesHold(staged), ~RefersToItself(table, row)
  PROVE  ReferencesHold([staged EXCEPT ![table] = Append(@, row)]) <=> Refers(staged, table, row)
<1> DEFINE after == [staged EXCEPT ![table] = Append(@, row)]
<1>1. \A t \in AllTables : Range(after[t]) = IF t = table THEN Range(staged[t]) \cup {row}
                                             ELSE Range(staged[t])
  <2> SUFFICES ASSUME NEW t \in AllTables
               PROVE  Range(after[t]) = IF t = table THEN Range(staged[t]) \cup {row}
                                        ELSE Range(staged[t])
    OBVIOUS
  <2>1. staged[t] \in Seq(Row)
    BY DEF Databases
  <2>2. CASE t = table
    <3>1. after[t] = Append(staged[t], row)
      BY <2>2 DEF Databases
    <3> HIDE DEF after
    <3>2. Range(after[t]) = Range(staged[t]) \cup {row}
      BY <2>1, <3>1, RangeOfAppend
    <3> QED
      BY <2>2, <3>2
  <2>3. CASE t # table
    <3>1. after[t] = staged[t]
      BY <2>3 DEF Databases
    <3> QED
      BY <2>3, <3>1
  <2> QED
    BY <2>2, <2>3
<1> HIDE DEF after
<1>2. ASSUME ReferencesHold(after)
      PROVE  Refers(staged, table, row)
  <2>1. SUFFICES ASSUME NEW fk \in catalog.foreign, fk.from[1] = table, row[fk.from[2]] # None
                 PROVE  \E target \in Range(staged[fk.to[1]]) : target[fk.to[2]] = row[fk.from[2]]
    BY DEF Refers
  <2>2. PICK target \in Range(after[fk.to[1]]) : target[fk.to[2]] = row[fk.from[2]]
    BY <1>1, <1>2, <2>1 DEF ReferencesHold
  <2>3. ~(target = row /\ fk.to[1] = table)
    BY <2>1, <2>2 DEF RefersToItself
  <2> QED
    BY <1>1, <2>2, <2>3, ConstraintsAreOfTables
<1>3. ASSUME Refers(staged, table, row)
      PROVE  ReferencesHold(after)
  <2>1. SUFFICES ASSUME NEW fk \in catalog.foreign, NEW other \in Range(after[fk.from[1]]),
                        other[fk.from[2]] # None
                 PROVE  \E target \in Range(after[fk.to[1]]) : target[fk.to[2]] = other[fk.from[2]]
    BY DEF ReferencesHold
  <2>2. fk.from[1] \in AllTables /\ fk.to[1] \in AllTables
    BY ConstraintsAreOfTables
  <2>3. \E target \in Range(staged[fk.to[1]]) : target[fk.to[2]] = other[fk.from[2]]
    BY <1>1, <1>3, <2>1, <2>2 DEF ReferencesHold, Refers
  <2> QED
    BY <1>1, <2>2, <2>3
<1> QED
  BY <1>2, <1>3 DEF after

\* Unique keys hold of the table after the row is written if the row brings no
\* key that is taken.
LEMMA KeysAfterInsert ==
  ASSUME scene \in Scenes, NEW Row, NEW staged \in Databases(Row),
         NEW table \in AllTables, NEW row \in Row, KeysHold(staged)
  PROVE  KeysHold([staged EXCEPT ![table] = Append(@, row)]) <=> ~Taken(staged, table, row)
<1> DEFINE after == [staged EXCEPT ![table] = Append(@, row)]
           n == Len(staged[table])
<1>1. staged[table] \in Seq(Row) /\ n \in Nat /\ DOMAIN staged[table] = 1 .. n
  BY DEF Databases
<1>2. /\ \A t \in AllTables : t # table => after[t] = staged[t]
      /\ DOMAIN after[table] = 1 .. n + 1
      /\ after[table][n + 1] = row
      /\ \A i \in 1 .. n : after[table][i] = staged[table][i]
  BY <1>1, AppendProperties DEF Databases
<1> HIDE DEF after, n
<1>3. ASSUME KeysHold(after), Taken(staged, table, row)
      PROVE  FALSE
  <2>1. PICK key \in catalog.unique, other \in Range(staged[table]) :
           key[1] = table /\ row[key[2]] # None /\ other[key[2]] = row[key[2]]
    BY <1>3 DEF Taken
  <2>2. PICK i \in 1 .. n : staged[table][i] = other
    BY <1>1, <2>1 DEF Range
  <2>3. i \in DOMAIN after[table] /\ n + 1 \in DOMAIN after[table] /\ i # n + 1
    BY <1>1, <1>2
  <2>4. after[table][i][key[2]] = after[table][n + 1][key[2]]
    BY <1>2, <2>1, <2>2
  <2> QED
    BY <1>2, <1>3, <2>1, <2>3, <2>4, KeysHoldOfRows
<1>4. ASSUME ~Taken(staged, table, row)
      PROVE  KeysHold(after)
  <2>1. SUFFICES ASSUME NEW key \in catalog.unique,
                        NEW i \in DOMAIN after[key[1]], NEW j \in DOMAIN after[key[1]], i # j,
                        after[key[1]][i][key[2]] = after[key[1]][j][key[2]]
                 PROVE  after[key[1]][i][key[2]] = None
    BY KeysHoldOfRows
  <2>2. CASE key[1] # table
    <3>1. after[key[1]] = staged[key[1]]
      BY <1>2, <2>2, ConstraintsAreOfTables
    <3> QED
      BY <2>1, <3>1, KeysHoldOfRows
  <2>3. CASE key[1] = table /\ i \in 1 .. n /\ j \in 1 .. n
    <3>1. /\ i \in DOMAIN staged[key[1]] /\ after[key[1]][i] = staged[key[1]][i]
          /\ j \in DOMAIN staged[key[1]] /\ after[key[1]][j] = staged[key[1]][j]
      BY <1>1, <1>2, <2>3
    <3>2. staged[key[1]][i][key[2]] = staged[key[1]][j][key[2]] => staged[key[1]][i][key[2]] = None
      BY <2>1, <3>1, KeysHoldOfRows
    <3> QED
      BY <2>1, <3>1, <3>2
  <2>4. CASE key[1] = table /\ (i = n + 1 \/ j = n + 1)
    <3>1. \A k \in 1 .. n : staged[table][k] \in Range(staged[table])
      BY <1>1 DEF Range
    <3>2. \A k \in 1 .. n : row[key[2]] # None => after[table][k][key[2]] # row[key[2]]
      BY <1>2, <1>4, <2>4, <3>1 DEF Taken
    <3>3. CASE i = n + 1
      <4>1. j \in 1 .. n
        BY <1>1, <1>2, <2>1, <2>4, <3>3
      <4>2. row[key[2]] = after[table][j][key[2]]
        BY <1>2, <2>1, <2>4, <3>3
      <4>3. row[key[2]] = None
        BY <3>2, <4>1, <4>2
      <4> QED
        BY <1>2, <2>4, <3>3, <4>3
    <3>4. CASE j = n + 1
      <4>1. i \in 1 .. n
        BY <1>1, <1>2, <2>1, <2>4, <3>4
      <4>2. after[table][i][key[2]] = row[key[2]]
        BY <1>2, <2>1, <2>4, <3>4
      <4>3. row[key[2]] = None
        BY <3>2, <4>1, <4>2
      <4> QED
        BY <2>4, <4>2, <4>3
    <3> QED
      BY <2>4, <3>3, <3>4
  <2> QED
    BY <1>1, <1>2, <2>1, <2>2, <2>3, <2>4
<1> QED
  BY <1>3, <1>4 DEF after

\* The double takes a row exactly if a server does, with the same error, and both
\* have the same rows then, whose keys and references hold, if they held before,
\* the row does not refer to itself and no required column of it is NULL
\* (in_memory.py:105-143, 196-205).
THEOREM InsertIsSqlInsert ==
  ASSUME scene \in Scenes, NEW Row, NEW staged \in Databases(Row), NEW ledger,
         NEW new, new.row \in Row,
         ReferencesHold(staged), KeysHold(staged),
         ~RefersToItself(new.table, new.row),
         \A f \in Fields : <<new.table, f>> \in catalog.required => new.row[f] # None
  PROVE  LET mine == Insert([staged |-> staged, ledger |-> ledger, code |-> "ok"], new)
             sql == SqlInsert([staged |-> staged, code |-> "ok"], new)
         IN  /\ mine.code = sql.code /\ mine.staged = sql.staged
             /\ ReferencesHold(mine.staged) /\ KeysHold(mine.staged)
<1> DEFINE after == [staged EXCEPT ![new.table] = Append(@, new.row)]
           mine == Insert([staged |-> staged, ledger |-> ledger, code |-> "ok"], new)
           sql == SqlInsert([staged |-> staged, code |-> "ok"], new)
<1>1. CASE ~Declared(new)
  <2>1. mine.code = "DESTINATION_INVALID" /\ mine.staged = staged
    BY <1>1 DEF Insert
  <2>2. sql.code = "DESTINATION_INVALID" /\ sql.staged = staged
    BY <1>1 DEF SqlInsert
  <2> QED
    BY <2>1, <2>2
<1>2. CASE Declared(new)
  <2>1. new.table \in AllTables
    BY <1>2, ConstraintsAreOfTables DEF Declared
  <2>2. (ReferencesHold(after) /\ KeysHold(after))
        <=> (Refers(staged, new.table, new.row) /\ ~Taken(staged, new.table, new.row))
    BY <2>1, ReferencesAfterInsert, KeysAfterInsert
  <2>3. CASE Refers(staged, new.table, new.row) /\ ~Taken(staged, new.table, new.row)
    <3>1. mine.code = "ok" /\ mine.staged = after
      BY <1>2, <2>3 DEF Insert, Stage
    <3>2. sql.code = "ok" /\ sql.staged = after
      BY <1>2, <2>2, <2>3 DEF SqlInsert
    <3> HIDE DEF mine, sql, after
    <3> QED
      BY <2>2, <2>3, <3>1, <3>2 DEF mine, sql
  <2>4. CASE ~(Refers(staged, new.table, new.row) /\ ~Taken(staged, new.table, new.row))
    <3>1. mine.code = "DESTINATION_CONFLICT" /\ mine.staged = staged
      BY <1>2, <2>4 DEF Insert
    <3>2. sql.code = "DESTINATION_CONFLICT" /\ sql.staged = staged
      BY <1>2, <2>2, <2>4 DEF SqlInsert
    <3> QED
      BY <3>1, <3>2
  <2> QED
    BY <2>3, <2>4
<1> QED
  BY <1>1, <1>2

-----------------------------------------------------------------------------
(* One row less *)

\* If keys and references hold, no row refers to itself and no NULL to a NULL,
\* then to look for a row that refers to the one that goes is to look for a
\* reference that is left without its target.
LEMMA ReferencesAfterDelete ==
  ASSUME scene \in Scenes, NEW Row, NEW staged \in Databases(Row),
         NEW table \in AllTables, NEW i \in DOMAIN staged[table],
         ReferencesHold(staged), KeysHold(staged), ~NullRefersToNull(staged),
         ~RefersToItself(table, staged[table][i])
  PROVE  ReferencesHold([staged EXCEPT ![table] = RemoveAt(@, i)])
            <=> ~HasReference(staged, table, staged[table][i])
<1> DEFINE after == [staged EXCEPT ![table] = RemoveAt(@, i)]
           row == staged[table][i]
<1>1. /\ Range(after[table]) = {staged[table][j] : j \in DOMAIN staged[table] \ {i}}
      /\ \A t \in AllTables : t # table => after[t] = staged[t]
  <2>1. staged[table] \in Seq(Row) /\ after[table] = RemoveAt(staged[table], i)
    BY DEF Databases
  <2>2. \A t \in AllTables : t # table => after[t] = staged[t]
    BY DEF Databases
  <2> HIDE DEF after
  <2> QED
    BY <2>1, <2>2, RangeOfRemoveAt
<1>2. \A t \in AllTables : Range(after[t]) \subseteq Range(staged[t])
  BY <1>1 DEF Range
<1>3. \A other \in Range(staged[table]) : other = row \/ other \in Range(after[table])
  BY <1>1 DEF Range
<1>4. row \in Range(staged[table])
  BY DEF Range
<1> HIDE DEF after, row
<1>5. ASSUME ReferencesHold(after), HasReference(staged, table, row)
      PROVE  FALSE
  <2>0. PICK fk \in catalog.foreign :
           fk.to[1] = table /\ \E other \in Range(staged[fk.from[1]]) : other[fk.from[2]] = row[fk.to[2]]
    BY <1>5 DEF HasReference
  <2>1. PICK other \in Range(staged[fk.from[1]]) :
           fk.to[1] = table /\ other[fk.from[2]] = row[fk.to[2]]
    BY <2>0
  <2>2. fk.from[1] \in AllTables /\ fk.to \in catalog.unique
    BY ConstraintsAreOfTables
  <2>3. other[fk.from[2]] # None
    BY <1>4, <2>1 DEF NullRefersToNull
  <2>4. ~(fk.from[1] = table /\ other = row)
    BY <2>1, <2>3 DEF RefersToItself, row
  <2>5. other \in Range(after[fk.from[1]])
    BY <1>1, <1>3, <2>1, <2>2, <2>4
  <2>6. PICK target \in Range(after[table]) : target[fk.to[2]] = other[fk.from[2]]
    BY <1>5, <2>1, <2>3, <2>5 DEF ReferencesHold
  <2>7. PICK j \in DOMAIN staged[table] \ {i} : target = staged[table][j]
    BY <1>1, <2>6
  <2>8. staged[fk.to[1]][j][fk.to[2]] = staged[fk.to[1]][i][fk.to[2]]
    BY <2>1, <2>6, <2>7 DEF row
  <2>9. staged[fk.to[1]][j][fk.to[2]] = None
    BY <2>1, <2>2, <2>7, <2>8, KeysHoldOfRows
  <2> QED
    BY <2>1, <2>3, <2>6, <2>7, <2>9
<1>6. ASSUME ~HasReference(staged, table, row)
      PROVE  ReferencesHold(after)
  <2>1. SUFFICES ASSUME NEW fk \in catalog.foreign, NEW other \in Range(after[fk.from[1]]),
                        other[fk.from[2]] # None
                 PROVE  \E target \in Range(after[fk.to[1]]) : target[fk.to[2]] = other[fk.from[2]]
    BY DEF ReferencesHold
  <2>2. fk.from[1] \in AllTables /\ fk.to[1] \in AllTables
    BY ConstraintsAreOfTables
  <2>3. other \in Range(staged[fk.from[1]])
    BY <1>2, <2>2
  <2>4. PICK target \in Range(staged[fk.to[1]]) : target[fk.to[2]] = other[fk.from[2]]
    BY <2>1, <2>3 DEF ReferencesHold
  <2>5. ~(fk.to[1] = table /\ target = row)
    BY <1>6, <2>3, <2>4 DEF HasReference
  <2>6. target \in Range(after[fk.to[1]])
    BY <1>1, <1>3, <2>2, <2>4, <2>5
  <2> QED
    BY <2>4, <2>6
<1> QED
  BY <1>5, <1>6 DEF after, row

\* What is unique stays so when a row goes.
LEMMA KeysAfterDelete ==
  ASSUME scene \in Scenes, NEW Row, NEW staged \in Databases(Row),
         NEW table \in AllTables, NEW i \in DOMAIN staged[table], KeysHold(staged)
  PROVE  KeysHold([staged EXCEPT ![table] = RemoveAt(@, i)])
<1> DEFINE after == [staged EXCEPT ![table] = RemoveAt(@, i)]
           place(j) == IF j < i THEN j ELSE j + 1
<1>1. staged[table] \in Seq(Row) /\ after[table] = RemoveAt(staged[table], i)
  BY DEF Databases
<1>2. \A t \in AllTables : t # table => after[t] = staged[t]
  BY DEF Databases
<1> HIDE DEF after
<1>3. /\ after[table] \in Seq(Row) /\ Len(after[table]) = Len(staged[table]) - 1
      /\ \A j \in DOMAIN after[table] :
            after[table][j] = IF j < i THEN staged[table][j] ELSE staged[table][j + 1]
  BY <1>1, RemoveAtProperties
<1>4. \A j \in DOMAIN after[table] :
         place(j) \in DOMAIN staged[table] /\ after[table][j] = staged[table][place(j)]
  BY <1>1, <1>3
<1>5. \A j, k \in DOMAIN after[table] : j # k => place(j) # place(k)
  BY <1>1, <1>3
<1> HIDE DEF place
<1>6. SUFFICES ASSUME NEW key \in catalog.unique,
                      NEW j \in DOMAIN after[key[1]], NEW k \in DOMAIN after[key[1]], j # k,
                      after[key[1]][j][key[2]] = after[key[1]][k][key[2]]
               PROVE  after[key[1]][j][key[2]] = None
  BY KeysHoldOfRows DEF after
<1>7. CASE key[1] # table
  <2>1. after[key[1]] = staged[key[1]]
    BY <1>2, <1>7, ConstraintsAreOfTables
  <2> QED
    BY <1>6, <2>1, KeysHoldOfRows
<1>8. CASE key[1] = table
  <2>1. /\ place(j) \in DOMAIN staged[table] /\ after[table][j] = staged[table][place(j)]
        /\ place(k) \in DOMAIN staged[table] /\ after[table][k] = staged[table][place(k)]
        /\ place(j) # place(k)
    BY <1>4, <1>5, <1>6, <1>8
  <2>2. staged[table][place(j)][key[2]] = staged[table][place(k)][key[2]]
           => staged[table][place(j)][key[2]] = None
    BY <1>8, <2>1, KeysHoldOfRows
  <2> QED
    BY <1>6, <1>8, <2>1, <2>2
<1> QED
  BY <1>7, <1>8

\* Nothing is added when a row goes.
LEMMA RangesAfterDelete ==
  ASSUME NEW Row, NEW staged \in Databases(Row),
         NEW table \in AllTables, NEW i \in DOMAIN staged[table]
  PROVE  \A t \in AllTables :
            Range([staged EXCEPT ![table] = RemoveAt(@, i)][t]) \subseteq Range(staged[t])
<1> DEFINE after == [staged EXCEPT ![table] = RemoveAt(@, i)]
<1>1. staged[table] \in Seq(Row) /\ after[table] = RemoveAt(staged[table], i)
  BY DEF Databases
<1>2. \A t \in AllTables : t # table => after[t] = staged[t]
  BY DEF Databases
<1> HIDE DEF after
<1>3. Range(after[table]) \subseteq Range(staged[table])
  <2>1. Range(after[table]) = {staged[table][j] : j \in DOMAIN staged[table] \ {i}}
    BY <1>1, RangeOfRemoveAt
  <2>2. \A j \in DOMAIN staged[table] : staged[table][j] \in Range(staged[table])
    BY DEF Range
  <2> QED
    BY <2>1, <2>2
<1>4. \A t \in AllTables : Range(after[t]) \subseteq Range(staged[t])
  BY <1>2, <1>3
<1> QED
  BY <1>4 DEF after

\* For an entry of a ledger the double deletes a row exactly if a server does, the
\* same one, and keys and references hold afterwards if they held before, no
\* row refers to itself and no NULL to a NULL (in_memory.py:279-305).
THEOREM DeleteIsSqlDelete ==
  ASSUME scene \in Scenes, NEW Row, NEW staged \in Databases(Row),
         NEW w, ReferencesHold(staged), KeysHold(staged), ~NullRefersToNull(staged),
         \A t \in AllTables : \A row \in Range(staged[t]) : ~RefersToItself(t, row)
  PROVE  LET mine == DeleteRow([staged |-> staged, code |-> "ok"], w)
             sql == SqlDelete([staged |-> staged, code |-> "ok"], w)
         IN  /\ mine = sql
             /\ ReferencesHold(mine.staged) /\ KeysHold(mine.staged)
             /\ \A t \in AllTables : Range(mine.staged[t]) \subseteq Range(staged[t])
<1> DEFINE acc == [staged |-> staged, code |-> "ok"]
           matches == Matches(staged, w)
           i == CHOOSE i \in matches : TRUE
           after == [staged EXCEPT ![w.table] = RemoveAt(@, i)]
           mine == DeleteRow(acc, w)
           sql == SqlDelete(acc, w)
           refused == [staged |-> staged, code |-> "DELETE_CONFLICT"]
<1>1. CASE Cardinality(matches) # 1
  <2>1. mine = refused
    BY <1>1 DEF DeleteRow
  <2>2. sql = refused
    BY <1>1 DEF SqlDelete
  <2> HIDE DEF mine, sql
  <2> QED
    BY <2>1, <2>2 DEF mine, sql
<1>2. CASE Cardinality(matches) = 1
  <2>1. i \in matches
    <3>1. matches # {}
      BY <1>2, FS_EmptySet
    <3> HIDE DEF matches
    <3> QED
      BY <3>1
  <2>2. i \in DOMAIN staged[w.table]
    BY <2>1 DEF Matches
  <2>3. staged[w.table][i] \in Range(staged[w.table])
    BY <2>2 DEF Range
  <2> HIDE DEF i
  <2>4. /\ ReferencesHold(after) <=> ~HasReference(staged, w.table, staged[w.table][i])
        /\ KeysHold(after)
        /\ \A t \in AllTables : Range(after[t]) \subseteq Range(staged[t])
    <3>1. CASE w.table \in AllTables
      <4>1. ReferencesHold(after) <=> ~HasReference(staged, w.table, staged[w.table][i])
        BY <2>2, <2>3, <3>1, ReferencesAfterDelete
      <4>2. KeysHold(after)
        BY <2>2, <3>1, KeysAfterDelete
      <4>3. \A t \in AllTables : Range(after[t]) \subseteq Range(staged[t])
        BY <2>2, <3>1, RangesAfterDelete
      <4> QED
        BY <4>1, <4>2, <4>3
    <3>2. CASE w.table \notin AllTables
      <4>1. after = staged
        BY <3>2 DEF Databases
      <4>2. ~HasReference(staged, w.table, staged[w.table][i])
        BY <3>2, ConstraintsAreOfTables DEF HasReference
      <4> HIDE DEF after
      <4> QED
        BY <4>1, <4>2
    <3> QED
      BY <3>1, <3>2
  <2>6. CASE HasReference(staged, w.table, staged[w.table][i])
    <3>1. mine = refused
      BY <1>2, <2>6 DEF DeleteRow, i
    <3>2. sql = refused
      BY <1>2, <2>4, <2>6 DEF SqlDelete, i
    <3> HIDE DEF mine, sql
    <3> QED
      BY <3>1, <3>2 DEF mine, sql
  <2>7. CASE ~HasReference(staged, w.table, staged[w.table][i])
    <3>1. mine = [staged |-> after, code |-> "ok"]
      BY <1>2, <2>7 DEF DeleteRow, i
    <3>2. sql = [staged |-> after, code |-> "ok"]
      BY <1>2, <2>4, <2>7 DEF SqlDelete, i
    <3> HIDE DEF mine, sql, after
    <3> QED
      BY <2>4, <2>7, <3>1, <3>2 DEF mine, sql
  <2> QED
    BY <2>6, <2>7
<1> QED
  BY <1>1, <1>2

\* A sequence is one of its own elements.
LEMMA SequenceOfItsRange ==
  ASSUME NEW E, NEW s, s \in Seq(E)
  PROVE  s \in Seq(Range(s)) /\ Range(s) \subseteq E
<1>1. Len(s) \in Nat /\ DOMAIN s = 1 .. Len(s) /\ s = [i \in 1 .. Len(s) |-> s[i]]
  OBVIOUS
<1>2. \A i \in 1 .. Len(s) : s[i] \in Range(s) /\ s[i] \in E
  BY <1>1 DEF Range
<1>3. s \in [1 .. Len(s) -> Range(s)]
  BY <1>1, <1>2
<1>4. s \in Seq(Range(s))
  BY <1>1, <1>3
<1> QED
  BY <1>1, <1>2, <1>4 DEF Range

\* What is written is a sequence of entries with rows.
LEMMA InsertOrderType ==
  ASSUME scene \in Scenes, NEW content \in scene.contents
  PROVE  /\ InsertOrder(content) \in Seq(Range(InsertOrder(content)))
         /\ \A new \in Range(InsertOrder(content)) : IsRow(new.row) /\ new.rank \in Int
<1> DEFINE contract == content.contract
           plan == contract.plan
           dataset == Generated(content)
           Entry(k, row) ==
            [table |-> contract.dest[plan[k]], row |-> row,
             key |-> [f \in contract.keys[plan[k]] |-> row[f]],
             types |-> [f \in Fields |-> contract.spec[<<plan[k], f>>].type],
             rank |-> Len(plan) - k]
           Entries(k) == [i \in DOMAIN dataset[plan[k]] |-> Entry(k, dataset[plan[k]][i])]
           seqs == [k \in DOMAIN plan |-> Entries(k)]
           E == UNION {{Entries(k)[i] : i \in DOMAIN dataset[plan[k]]} : k \in DOMAIN plan}
<1>1. ValidContract(contract)
  BY SceneAssumption DEF ValidContent
<1>2. IsDataset(contract, dataset)
  BY <1>1, GeneratedIsDataset
<1>3. InsertOrder(content) = FlattenSeq(seqs)
  BY DEF InsertOrder, Ordered
<1>4. \A k \in DOMAIN plan : \A i \in DOMAIN dataset[plan[k]] :
          Entries(k)[i].row = dataset[plan[k]][i] /\ Entries(k)[i].rank = Len(plan) - k
  OBVIOUS
<1>5. \A k \in DOMAIN plan : DOMAIN Entries(k) = DOMAIN dataset[plan[k]]
  OBVIOUS
<1>6. \A k \in DOMAIN plan : Entries(k) = [i \in DOMAIN dataset[plan[k]] |-> Entries(k)[i]]
  OBVIOUS
<1> HIDE DEF Entries, dataset
<1>7. plan \in Seq(RecordTypes(contract)) /\ \A t \in RecordTypes(contract) : contract.count[t] \in Nat
  BY <1>1 DEF ValidContract
<1> HIDE DEF plan, contract
<1>8. Len(plan) \in Nat /\ DOMAIN plan = 1 .. Len(plan)
  BY <1>7
<1>9. \A k \in DOMAIN plan : /\ plan[k] \in RecordTypes(contract)
                             /\ DOMAIN dataset[plan[k]] = 1 .. contract.count[plan[k]]
                             /\ contract.count[plan[k]] \in Nat
  BY <1>2, <1>7 DEF IsDataset
<1>10. ASSUME NEW k \in DOMAIN plan
       PROVE  Entries(k) \in Seq(E)
  <2>1. \A i \in 1 .. contract.count[plan[k]] : Entries(k)[i] \in E
    BY <1>9
  <2>2. Entries(k) \in [1 .. contract.count[plan[k]] -> E]
    <3> HIDE DEF E
    <3> QED
      BY <1>6, <1>9, <2>1
  <2> HIDE DEF E
  <2> QED
    BY <1>9, <2>2
<1>11. seqs \in Seq(Seq(E))
  <2> HIDE DEF E
  <2> QED
    BY <1>8, <1>10
<1>12. InsertOrder(content) \in Seq(E)
  <2> HIDE DEF E, seqs
  <2> QED
    BY <1>3, <1>11, FlattenType
<1>13. ASSUME NEW new \in E
       PROVE  IsRow(new.row) /\ new.rank \in Int
  <2>1. PICK k \in DOMAIN plan : new \in {Entries(k)[i] : i \in DOMAIN dataset[plan[k]]}
    OBVIOUS
  <2>2. PICK i \in DOMAIN dataset[plan[k]] : new = Entries(k)[i]
    BY <2>1
  <2>3. IsRow(dataset[plan[k]][i])
    BY <1>2, <1>9 DEF IsDataset
  <2>4. new.rank \in Int
    BY <1>4, <1>8, <2>2
  <2> QED
    BY <1>4, <2>2, <2>3, <2>4
<1> HIDE DEF E
<1>14. /\ InsertOrder(content) \in Seq(Range(InsertOrder(content)))
       /\ Range(InsertOrder(content)) \subseteq E
  BY <1>12, SequenceOfItsRange
<1> QED
  BY <1>13, <1>14

-----------------------------------------------------------------------------
(* Types *)

IsTable(s) == s \in Seq(Range(s)) /\ \A row \in Range(s) : IsRow(row)

IsDatabase(staged) ==
    /\ staged = [t \in AllTables |-> staged[t]]
    /\ \A t \in AllTables : IsTable(staged[t])

\* A row more, with its fields.
LEMMA AppendKeepsTable ==
  ASSUME NEW s, IsTable(s), NEW row, IsRow(row)
  PROVE  IsTable(Append(s, row))
<1> DEFINE Row == Range(s) \cup {row}
<1>1. s \in Seq(Row) /\ row \in Row
  BY DEF IsTable
<1> HIDE DEF Row
<1>2. Append(s, row) \in Seq(Row) /\ Range(Append(s, row)) = Range(s) \cup {row}
  BY <1>1, AppendProperties, RangeOfAppend
<1>3. Append(s, row) \in Seq(Range(Append(s, row)))
  BY <1>2, SequenceOfItsRange
<1> QED
  BY <1>2, <1>3 DEF IsTable

\* A row less.
LEMMA RemoveKeepsTable ==
  ASSUME NEW s, IsTable(s), NEW i \in DOMAIN s
  PROVE  IsTable(RemoveAt(s, i))
<1>1. s \in Seq(Range(s))
  BY DEF IsTable
<1>2. RemoveAt(s, i) \in Seq(Range(s))
  BY <1>1, RemoveAtProperties
<1>3. RemoveAt(s, i) \in Seq(Range(RemoveAt(s, i))) /\ Range(RemoveAt(s, i)) \subseteq Range(s)
  BY <1>2, SequenceOfItsRange
<1> QED
  BY <1>3 DEF IsTable

\* A ledger names tables that are there, and counts its entries.
IsLedger(ledger) ==
    /\ ledger \in Seq(Range(ledger))
    /\ \A i \in DOMAIN ledger :
          ledger[i].table \in AllTables /\ ledger[i].rank \in Int /\ ledger[i].ordinal = i - 1

\* One row more, and the ledger with it.
IsWritten(acc) ==
    /\ acc = [staged |-> acc.staged, ledger |-> acc.ledger, code |-> acc.code]
    /\ IsDatabase(acc.staged)
    /\ IsLedger(acc.ledger)

\* A row of a dataset, taken or refused.
LEMMA InsertKeepsTypes ==
  ASSUME scene \in Scenes, NEW acc, IsWritten(acc), NEW new, IsRow(new.row), new.rank \in Int
  PROVE  IsWritten(Insert(acc, new))
<1>1. CASE Insert(acc, new) = Stage(acc, new) /\ Declared(new)
  <2> DEFINE entry == [table |-> new.table, key |-> new.key, rank |-> new.rank, ordinal |-> Len(acc.ledger)]
             staged == [acc.staged EXCEPT ![new.table] = Append(@, new.row)]
             ledger == Append(acc.ledger, entry)
  <2>0. acc = [staged |-> acc.staged, ledger |-> acc.ledger, code |-> acc.code]
    BY DEF IsWritten
  <2>1. Stage(acc, new) = [staged |-> staged, ledger |-> ledger, code |-> acc.code]
    <3>1. Stage(acc, new) = [acc EXCEPT !.staged = staged, !.ledger = ledger]
      BY <2>0 DEF Stage
    <3> HIDE DEF staged, ledger
    <3> QED
      BY <2>0, <3>1
  <2>2. new.table \in AllTables
    BY <1>1, ConstraintsAreOfTables DEF Declared
  <2>3. IsLedger(ledger)
    <3>1. /\ entry.table = new.table /\ entry.rank = new.rank /\ entry.ordinal = Len(acc.ledger)
          /\ acc.ledger \in Seq(Range(acc.ledger) \cup {entry})
          /\ entry \in Range(acc.ledger) \cup {entry}
      BY DEF IsWritten, IsLedger
    <3> HIDE DEF entry
    <3>2. /\ ledger \in Seq(Range(acc.ledger) \cup {entry})
          /\ DOMAIN acc.ledger = 1 .. Len(acc.ledger) /\ Len(acc.ledger) \in Nat
          /\ DOMAIN ledger = 1 .. Len(acc.ledger) + 1
          /\ \A i \in 1 .. Len(acc.ledger) : ledger[i] = acc.ledger[i]
          /\ ledger[Len(acc.ledger) + 1] = entry
      BY <3>1, AppendProperties
    <3>3. ledger \in Seq(Range(ledger))
      BY <3>2, SequenceOfItsRange
    <3> HIDE DEF ledger
    <3>4. ASSUME NEW i \in DOMAIN ledger
          PROVE  ledger[i].table \in AllTables /\ ledger[i].rank \in Int /\ ledger[i].ordinal = i - 1
      <4>1. CASE i \in 1 .. Len(acc.ledger)
        BY <3>2, <4>1 DEF IsWritten, IsLedger
      <4>2. CASE i = Len(acc.ledger) + 1
        BY <2>2, <3>1, <3>2, <4>2
      <4> QED
        BY <3>2, <4>1, <4>2
    <3> QED
      BY <3>3, <3>4 DEF IsLedger
  <2>4. IsDatabase(staged)
    <3>1. staged = [t \in AllTables |-> IF t = new.table THEN Append(acc.staged[t], new.row) ELSE acc.staged[t]]
      BY DEF IsWritten, IsDatabase
    <3>2. \A t \in AllTables : IsTable(acc.staged[t])
      BY DEF IsWritten, IsDatabase
    <3> HIDE DEF staged
    <3> QED
      BY <3>1, <3>2, AppendKeepsTable DEF IsDatabase
  <2> HIDE DEF staged, ledger
  <2> QED
    BY <1>1, <2>1, <2>3, <2>4 DEF IsWritten
<1>2. CASE \E code : Insert(acc, new) = [acc EXCEPT !.code = code]
  <2>1. PICK code : Insert(acc, new) = [acc EXCEPT !.code = code]
    BY <1>2
  <2>2. Insert(acc, new) = [staged |-> acc.staged, ledger |-> acc.ledger, code |-> code]
    BY <2>1 DEF IsWritten
  <2> QED
    BY <2>2 DEF IsWritten
<1>3. CASE Insert(acc, new) = acc
  BY <1>3
<1> QED
  BY <1>1, <1>2, <1>3 DEF Insert

\* All rows of a dataset.
LEMMA InsertedType ==
  ASSUME scene \in Scenes, NEW content \in scene.contents, NEW tenant \in Tenants, IsDatabase(rows[tenant])
  PROVE  IsWritten(Inserted(tenant, content))
<1> DEFINE new == InsertOrder(content)
           base == [staged |-> rows[tenant], ledger |-> << >>, code |-> "ok"]
           n == Len(new)
<1>1. new \in Seq(Range(new)) /\ \A e \in Range(new) : IsRow(e.row) /\ e.rank \in Int
  BY InsertOrderType
<1>2. Inserted(tenant, content) = FoldLeft(Insert, base, new)
  BY DEF Inserted
<1> HIDE DEF new
<1>3. n \in Nat /\ DOMAIN new = 1 .. n
  BY <1>1
<1> HIDE DEF n
<1>4. PICK run : Run(run, "insert", base, new, n) /\ FoldLeft(Insert, base, new) = run[n]
  <2> HIDE DEF base
  <2> QED
    BY <1>3, FoldInsert
<1> DEFINE S == {k \in 0 .. n : IsWritten(run[k])}
<1>5. 0 \in S
  <2>1. run[0] = base /\ 0 \in 0 .. n
    BY <1>3, <1>4 DEF Run
  <2>2. IsLedger(<< >>)
    BY DEF IsLedger
  <2>3. base = [staged |-> base.staged, ledger |-> base.ledger, code |-> base.code]
    OBVIOUS
  <2>4. base.staged = rows[tenant] /\ base.ledger = << >>
    OBVIOUS
  <2> HIDE DEF base
  <2>5. IsWritten(base)
    BY <2>2, <2>3, <2>4 DEF IsWritten
  <2> QED
    BY <2>1, <2>5
<1>6. ASSUME NEW k \in 0 .. n - 1, k \in S
      PROVE  k + 1 \in S
  <2>1. k + 1 \in 1 .. n /\ k + 1 \in 0 .. n /\ (k + 1) - 1 = k
    BY <1>3
  <2>2. run[k + 1] = Insert(run[k], new[k + 1])
    BY <1>4, <2>1 DEF Run, Step
  <2>3. IsRow(new[k + 1].row) /\ new[k + 1].rank \in Int
    BY <1>1, <1>3, <2>1 DEF Range
  <2> QED
    BY <1>6, <2>1, <2>2, <2>3, InsertKeepsTypes
<1>7. n \in S
  <2> HIDE DEF S
  <2>2. 0 .. n \subseteq S
    BY <1>3, <1>5, <1>6, Induction
  <2> QED
    BY <1>3, <2>2
<1> QED
  BY <1>2, <1>4, <1>7

\* One row less.
IsReduced(acc) == acc = [staged |-> acc.staged, code |-> acc.code] /\ IsDatabase(acc.staged)

\* An entry of a ledger, found or not.
LEMMA DeleteKeepsTypes ==
  ASSUME NEW acc, IsReduced(acc), NEW w
  PROVE  IsReduced(DeleteRow(acc, w))
<1> DEFINE matches == Matches(acc.staged, w)
           i == CHOOSE i \in matches : TRUE
           staged == [acc.staged EXCEPT ![w.table] = RemoveAt(@, i)]
<1>1. CASE DeleteRow(acc, w) = [acc EXCEPT !.staged[w.table] = RemoveAt(@, i)] /\ Cardinality(matches) = 1
  <2>1. acc = [staged |-> acc.staged, code |-> acc.code]
    BY DEF IsReduced
  <2>2. DeleteRow(acc, w) = [staged |-> staged, code |-> acc.code]
    <3>1. DeleteRow(acc, w) = [acc EXCEPT !.staged = staged]
      BY <1>1, <2>1
    <3> HIDE DEF staged
    <3> QED
      BY <2>1, <3>1
  <2>3. i \in DOMAIN acc.staged[w.table]
    <3>1. matches # {}
      BY <1>1, FS_EmptySet
    <3>2. matches \subseteq DOMAIN acc.staged[w.table]
      BY DEF Matches
    <3> HIDE DEF matches
    <3> QED
      BY <3>1, <3>2
  <2>4. IsDatabase(staged)
    <3> HIDE DEF i
    <3>1. staged = [t \in AllTables |-> IF t = w.table THEN RemoveAt(acc.staged[t], i) ELSE acc.staged[t]]
      BY DEF IsReduced, IsDatabase
    <3>2. \A t \in AllTables : IsTable(acc.staged[t])
      BY DEF IsReduced, IsDatabase
    <3>3. \A t \in AllTables : IsTable(staged[t])
      <4> SUFFICES ASSUME NEW t \in AllTables PROVE IsTable(staged[t])
        OBVIOUS
      <4>1. CASE t = w.table
        <5>1. staged[t] = RemoveAt(acc.staged[t], i) /\ i \in DOMAIN acc.staged[t]
          BY <2>3, <3>1, <4>1
        <5> HIDE DEF staged
        <5> QED
          BY <3>2, <5>1, RemoveKeepsTable
      <4>2. CASE t # w.table
        <5>1. staged[t] = acc.staged[t]
          BY <3>1, <4>2
        <5> HIDE DEF staged
        <5> QED
          BY <3>2, <5>1
      <4> QED
        BY <4>1, <4>2
    <3>4. staged = [t \in AllTables |-> staged[t]]
      BY <3>1
    <3> HIDE DEF staged
    <3> QED
      BY <3>3, <3>4 DEF IsDatabase
  <2> HIDE DEF staged
  <2> QED
    BY <2>2, <2>4 DEF IsReduced
<1>2. CASE \E code : DeleteRow(acc, w) = [acc EXCEPT !.code = code]
  <2>1. PICK code : DeleteRow(acc, w) = [acc EXCEPT !.code = code]
    BY <1>2
  <2>2. DeleteRow(acc, w) = [staged |-> acc.staged, code |-> code]
    BY <2>1 DEF IsReduced
  <2> QED
    BY <2>2 DEF IsReduced
<1>3. CASE DeleteRow(acc, w) = acc
  BY <1>3
<1> QED
  BY <1>1, <1>2, <1>3 DEF DeleteRow

\* All entries of a ledger.
LEMMA RemovedType ==
  ASSUME NEW tenant \in Tenants, IsDatabase(rows[tenant]),
         NEW g \in GenIds, written[g] \in Seq(Range(written[g]))
  PROVE  IsReduced(Removed(tenant, g))
<1> DEFINE order == DeleteOrder(g)
           base == [staged |-> rows[tenant], code |-> "ok"]
           n == Len(written[g])
<1>1. n \in Nat /\ DOMAIN order = 1 .. n
  BY DEF DeleteOrder
<1>2. Removed(tenant, g) = FoldLeft(DeleteRow, base, order)
  BY DEF Removed
<1> HIDE DEF n, order
<1>3. PICK run : Run(run, "delete", base, order, n) /\ FoldLeft(DeleteRow, base, order) = run[n]
  <2> HIDE DEF base
  <2> QED
    BY <1>1, FoldDelete
<1> DEFINE S == {k \in 0 .. n : IsReduced(run[k])}
<1>4. 0 \in S
  <2>1. run[0] = base /\ 0 \in 0 .. n
    BY <1>1, <1>3 DEF Run
  <2> QED
    BY <2>1 DEF IsReduced
<1>5. ASSUME NEW k \in 0 .. n - 1, k \in S
      PROVE  k + 1 \in S
  <2>1. k + 1 \in 1 .. n /\ k + 1 \in 0 .. n /\ (k + 1) - 1 = k
    BY <1>1
  <2>2. run[k + 1] = DeleteRow(run[k], order[k + 1])
    BY <1>3, <2>1 DEF Run, Step
  <2> QED
    BY <1>5, <2>1, <2>2, DeleteKeepsTypes
<1>6. n \in S
  <2> HIDE DEF S
  <2>1. 0 .. n \subseteq S
    BY <1>1, <1>4, <1>5, Induction
  <2> QED
    BY <1>1, <2>1
<1> QED
  BY <1>2, <1>3, <1>6

\* Rows have their fields, ledgers are sequences.
RowInv ==
    /\ rows = [t \in Tenants |-> rows[t]]
    /\ \A t \in Tenants : IsDatabase(rows[t])
    /\ written = [g \in GenIds |-> written[g]]
    /\ \A g \in GenIds : IsLedger(written[g])
    /\ seeded \in SUBSET Tenants

\* All tables are empty.
LEMMA InitRows == Init => RowInv
<1>1. << >> \in Seq(Range(<< >>)) /\ Range(<< >>) = {}
  BY DEF Range
<1> QED
  BY <1>1 DEF Init, RowInv, IsDatabase, IsTable, IsLedger

\* What the owner of a table leaves of it is a table.
LEMMA ReseededIsTable ==
  ASSUME RowInv, scene \in Scenes, NEW tenant \in Tenants, NEW table \in AllTables,
         NEW now \in Reseeded(tenant, table)
  PROVE  IsTable(now)
<1> DEFINE before == rows[tenant][table]
           targets == {row["id"] : row \in UNION {Range(rows[tenant][t]) : t \in AllTables}}
           drawn == {n.row : n \in {m \in UNION {Range(InsertOrder(content)) : content \in scene.contents} :
                                     m.table = table}}
<1>6. now \in {RemoveAt(before, i) : i \in DOMAIN before}
              \cup {Append(before, row) : row \in drawn}
              \cup {Append(before, [f \in Fields |-> IF f = "id" THEN App ELSE v]) : v \in targets}
              \cup UNION {{[before EXCEPT ![i]["ref"] = v] : v \in targets} : i \in DOMAIN before}
  BY DEF Reseeded
<1>1. IsTable(before)
  BY DEF RowInv, IsDatabase
<1> HIDE DEF before
<1>2. CASE \E i \in DOMAIN before : now = RemoveAt(before, i)
  BY <1>1, <1>2, RemoveKeepsTable
<1>3. CASE \E content \in scene.contents : \E new \in Range(InsertOrder(content)) : now = Append(before, new.row)
  BY <1>1, <1>3, AppendKeepsTable, InsertOrderType
<1>4. CASE \E v : now = Append(before, [f \in Fields |-> IF f = "id" THEN App ELSE v])
  <2>1. PICK v : now = Append(before, [f \in Fields |-> IF f = "id" THEN App ELSE v])
    BY <1>4
  <2>2. IsRow([f \in Fields |-> IF f = "id" THEN App ELSE v])
    BY DEF IsRow
  <2> QED
    BY <1>1, <2>1, <2>2, AppendKeepsTable
<1>5. CASE \E i \in DOMAIN before : \E v : now = [before EXCEPT ![i]["ref"] = v]
  <2>1. PICK i \in DOMAIN before : \E v : now = [before EXCEPT ![i]["ref"] = v]
    BY <1>5
  <2>2. PICK v : now = [before EXCEPT ![i]["ref"] = v]
    BY <2>1
  <2> DEFINE row == [before[i] EXCEPT !["ref"] = v]
             Row == Range(before) \cup {row}
  <2>3. IsRow(before[i])
    BY <1>1 DEF IsTable, Range
  <2>4. IsRow(row)
    <3> DEFINE old == before[i]
    <3>1. old = [f \in Fields |-> old[f]]
      BY <2>3 DEF IsRow
    <3> HIDE DEF old
    <3>2. [old EXCEPT !["ref"] = v] = [f \in Fields |-> IF f = "ref" THEN v ELSE old[f]]
      BY <3>1
    <3> QED
      BY <3>2 DEF old, IsRow
  <2>5. now = [before EXCEPT ![i] = row]
    BY <2>2
  <2> HIDE DEF row
  <2>6. before \in Seq(Row) /\ row \in Row
    BY <1>1 DEF IsTable
  <2>7. \A r \in Row : IsRow(r)
    BY <1>1, <2>4 DEF IsTable
  <2> HIDE DEF Row
  <2>8. now \in Seq(Row)
    BY <2>5, <2>6
  <2>9. now \in Seq(Range(now)) /\ Range(now) \subseteq Row
    BY <2>8, SequenceOfItsRange
  <2> QED
    BY <2>7, <2>9 DEF IsTable
<1>7. \A row \in drawn : \E content \in scene.contents : \E new \in Range(InsertOrder(content)) : row = new.row
  OBVIOUS
<1> HIDE DEF targets, drawn
<1>8. CASE now \in {RemoveAt(before, i) : i \in DOMAIN before}
  BY <1>2, <1>8
<1>9. CASE now \in {Append(before, row) : row \in drawn}
  BY <1>3, <1>7, <1>9
<1>10. CASE now \in {Append(before, [f \in Fields |-> IF f = "id" THEN App ELSE v]) : v \in targets}
  BY <1>4, <1>10
<1>11. CASE now \in UNION {{[before EXCEPT ![i]["ref"] = v] : v \in targets} : i \in DOMAIN before}
  BY <1>5, <1>11
<1> QED
  BY <1>6, <1>8, <1>9, <1>10, <1>11

\* A commit, a deletion or a seeding leaves tables and ledgers.
LEMMA NextKeepsRows ==
  ASSUME KeyInv, RowInv, [Next]_vars
  PROVE  RowInv'
<1> USE DEF KeyInv
<1>1. CASE UNCHANGED <<rows, written, seeded>>
  BY <1>1 DEF RowInv, IsDatabase, IsTable, IsLedger
<1>2. ASSUME NEW p \in Procs, Commit(p), ~UNCHANGED store
      PROVE  RowInv'
  <2> DEFINE slot == req[p].slot
             content == req[p].content
             done == Inserted(slot[1], content)
  <2>1. slot \in Slots /\ content \in scene.contents /\ slot[1] \in Tenants
    BY <1>2 DEF Commit, KeyInv, Slots
  <2>2. PICK g \in Absent : Publish(g, slot, content, done)
    BY <1>2 DEF Commit
  <2>3. UNCHANGED seeded /\ g \in GenIds
    BY <1>2 DEF Commit, Absent
  <2>4. IsWritten(done)
    <3> HIDE DEF slot, content
    <3> QED
      BY <2>1, InsertedType DEF RowInv
  <2> HIDE DEF slot, content, done
  <2>5. /\ rows' = [t \in Tenants |-> IF t = slot[1] THEN done.staged ELSE rows[t]]
        /\ written' = [h \in GenIds |-> IF h = g THEN done.ledger ELSE written[h]]
    BY <2>2 DEF Publish, RowInv
  <2>6. \A t \in Tenants : IsDatabase(rows'[t])
    BY <2>4, <2>5 DEF RowInv, IsWritten
  <2>7. \A h \in GenIds : IsLedger(written'[h])
    BY <2>4, <2>5 DEF RowInv, IsWritten
  <2>8. rows' = [t \in Tenants |-> rows'[t]] /\ written' = [h \in GenIds |-> written'[h]]
    BY <2>5
  <2>9. \A t \in Tenants : IsDatabase(rows[t])'
    BY <2>6 DEF IsDatabase, IsTable
  <2>10. \A h \in GenIds : IsLedger(written[h])'
    BY <2>7 DEF IsLedger
  <2> QED
    BY <2>3, <2>8, <2>9, <2>10 DEF RowInv
<1>3. ASSUME NEW p \in Procs, NEW tenant \in Tenants, NEW g \in GenIds, Delete(p, tenant, g), ~UNCHANGED store
      PROVE  RowInv'
  <2>1. rows' = [rows EXCEPT ![tenant] = Removed(tenant, g).staged] /\ UNCHANGED <<written, seeded>>
    BY <1>3 DEF Delete
  <2>2. IsDatabase(Removed(tenant, g).staged)
    BY RemovedType DEF RowInv, IsReduced, IsLedger
  <2>3. rows' = [t \in Tenants |-> IF t = tenant THEN Removed(tenant, g).staged ELSE rows[t]]
    BY <2>1 DEF RowInv
  <2>4. rows' = [t \in Tenants |-> rows'[t]] /\ \A t \in Tenants : IsDatabase(rows'[t])
    BY <2>2, <2>3 DEF RowInv
  <2>5. \A t \in Tenants : IsDatabase(rows[t])'
    BY <2>4 DEF IsDatabase, IsTable
  <2> QED
    BY <2>1, <2>4, <2>5 DEF RowInv
<1>4. ASSUME NEW tenant \in Tenants, NEW table \in TablesOf(catalog), SeedRows(tenant, table)
      PROVE  RowInv'
  <2>1. table \in AllTables
    BY ConstraintsAreOfTables
  <2>2. PICK now \in Reseeded(tenant, table) : rows' = [rows EXCEPT ![tenant][table] = now]
    BY <1>4 DEF SeedRows
  <2>3. IsTable(now)
    BY <2>1, ReseededIsTable
  <2> DEFINE staged == [rows[tenant] EXCEPT ![table] = now]
  <2>4. IsDatabase(rows[tenant])
    BY DEF RowInv
  <2>5. IsDatabase(staged)
    BY <2>3, <2>4 DEF IsDatabase
  <2>6. rows' = [t \in Tenants |-> IF t = tenant THEN staged ELSE rows[t]]
    BY <2>2 DEF RowInv
  <2> HIDE DEF staged
  <2>7. rows' = [t \in Tenants |-> rows'[t]] /\ \A t \in Tenants : IsDatabase(rows'[t])
    BY <2>5, <2>6 DEF RowInv
  <2>8. \A t \in Tenants : IsDatabase(rows[t])'
    BY <2>7 DEF IsDatabase, IsTable
  <2> QED
    BY <1>4, <2>7, <2>8 DEF RowInv, SeedRows
<1>5. ASSUME NEW p \in Procs,
             \/ \E slot \in Slots, content \in scene.contents : Post(p, slot, content)
             \/ Late(p)
             \/ \E tenant \in Tenants, g \in GenIds : Get(p, tenant, g)
      PROVE  UNCHANGED <<rows, written, seeded>>
  BY <1>5 DEF Post, Late, Get, store
<1>6. \A p \in Procs : Commit(p) => UNCHANGED seeded
  BY DEF Commit
<1>7. \A p \in Procs, tenant \in Tenants, g \in GenIds : Delete(p, tenant, g) => UNCHANGED seeded
  BY DEF Delete
<1>8. UNCHANGED store => UNCHANGED <<rows, written>>
  BY DEF store
<1>9. UNCHANGED vars => UNCHANGED <<rows, written, seeded>>
  BY DEF vars, store
<1> QED
  BY <1>1, <1>2, <1>3, <1>4, <1>5, <1>6, <1>7, <1>8, <1>9 DEF Next

\* Rows have their fields for good.
LEMMA RowsAreTyped == Spec => []RowInv
<1>1. Init => RowInv
  BY InitRows
<1>2. KeyInv /\ RowInv /\ [Next]_vars => RowInv'
  BY NextKeepsRows
<1> QED
  BY <1>1, <1>2, KeysAreInStep, PTL DEF Spec

\* Every variable keeps its type: each row that a dataset, the owner of a table or
\* a deletion leaves in the tables has exactly its fields.
THEOREM SpecTypeOK == Spec => []TypeOK
<1>1. ASSUME RowInv
      PROVE  \A tenant \in Tenants :
                /\ DOMAIN rows[tenant] = AllTables
                /\ \A t \in AllTables : \A row \in Range(rows[tenant][t]) : DOMAIN row = Fields
  <2> SUFFICES ASSUME NEW tenant \in Tenants
               PROVE  /\ DOMAIN rows[tenant] = AllTables
                      /\ \A t \in AllTables : \A row \in Range(rows[tenant][t]) : DOMAIN row = Fields
    OBVIOUS
  <2>1. rows[tenant] = [t \in AllTables |-> rows[tenant][t]]
    BY <1>1 DEF RowInv, IsDatabase
  <2>2. DOMAIN rows[tenant] = AllTables
    BY <2>1
  <2>3. \A t \in AllTables : \A row \in Range(rows[tenant][t]) : row = [f \in Fields |-> row[f]]
    BY <1>1 DEF RowInv, IsDatabase, IsTable, IsRow
  <2>4. \A t \in AllTables : \A row \in Range(rows[tenant][t]) : DOMAIN row = Fields
    BY <2>3
  <2> QED
    BY <2>2, <2>4
<1>2. ASSUME KeyInv
      PROVE  req \in [Procs -> [slot : Slots \cup {None}, content : scene.contents \cup {None}]]
  <2>1. NoRequest \in [slot : Slots \cup {None}, content : scene.contents \cup {None}]
    BY DEF NoRequest
  <2>2. [slot : Slots, content : scene.contents] \subseteq [slot : Slots \cup {None}, content : scene.contents \cup {None}]
    OBVIOUS
  <2> HIDE DEF NoRequest
  <2> QED
    BY <1>2, <2>1, <2>2 DEF KeyInv
<1>3. KeyInv /\ RowInv => TypeOK
  BY <1>1, <1>2 DEF TypeOK, KeyInv, RowInv
<1> QED
  BY <1>3, KeysAreInStep, RowsAreTyped, PTL

-----------------------------------------------------------------------------
(* Whole datasets and ledgers *)

\* All rows of a database.
Stock(staged) == UNION {Range(staged[t]) : t \in AllTables}

\* A database is one of its own rows.
LEMMA DatabaseOfStock ==
  ASSUME NEW staged, IsDatabase(staged), NEW more
  PROVE  staged \in Databases(Stock(staged) \cup more)
<1> DEFINE Row == Stock(staged) \cup more
<1>1. \A t \in AllTables : staged[t] \in Seq(Range(staged[t])) /\ Range(staged[t]) \subseteq Row
  BY DEF IsDatabase, IsTable, Stock
<1> HIDE DEF Row
<1>2. \A t \in AllTables : staged[t] \in Seq(Row)
  BY <1>1
<1>3. staged = [t \in AllTables |-> staged[t]]
  BY DEF IsDatabase
<1>4. staged \in Databases(Row)
  BY <1>2, <1>3 DEF Databases
<1> QED
  BY <1>4 DEF Row

\* The double and a server are at the same point of a dataset.
SameWrites(mine, sql) ==
    /\ IsWritten(mine)
    /\ sql = [staged |-> sql.staged, code |-> sql.code]
    /\ mine.code = sql.code
    /\ mine.code = "ok" =>
          mine.staged = sql.staged /\ ReferencesHold(mine.staged) /\ KeysHold(mine.staged)

\* One row of a dataset, on both sides.
LEMMA InsertKeepsSame ==
  ASSUME scene \in Scenes, NEW mine, NEW sql, SameWrites(mine, sql),
         NEW new, IsRow(new.row), new.rank \in Int, ~RefersToItself(new.table, new.row),
         \A f \in Fields : <<new.table, f>> \in catalog.required => new.row[f] # None
  PROVE  SameWrites(Insert(mine, new), SqlInsert(sql, new))
<1>1. IsWritten(Insert(mine, new))
  BY InsertKeepsTypes DEF SameWrites
<1>2. SqlInsert(sql, new) = [staged |-> SqlInsert(sql, new).staged, code |-> SqlInsert(sql, new).code]
  <2> DEFINE after == [sql.staged EXCEPT ![new.table] = Append(@, new.row)]
  <2>1. sql = [staged |-> sql.staged, code |-> sql.code]
    BY DEF SameWrites
  <2>2. \/ SqlInsert(sql, new) = sql
        \/ SqlInsert(sql, new) = [sql EXCEPT !.code = "DESTINATION_INVALID"]
        \/ SqlInsert(sql, new) = [sql EXCEPT !.code = "DESTINATION_CONFLICT"]
        \/ SqlInsert(sql, new) = [sql EXCEPT !.staged = after]
    BY DEF SqlInsert
  <2> HIDE DEF after
  <2> QED
    BY <2>1, <2>2
<1>3. CASE mine.code # "ok"
  <2>1. Insert(mine, new) = mine /\ SqlInsert(sql, new) = sql
    BY <1>3 DEF Insert, SqlInsert, SameWrites
  <2> QED
    BY <2>1
<1>4. CASE mine.code = "ok"
  <2> DEFINE staged == mine.staged
             ledger == mine.ledger
             Row == Stock(staged) \cup {new.row}
  <2>1. mine = [staged |-> staged, ledger |-> ledger, code |-> "ok"]
    BY <1>4 DEF SameWrites, IsWritten
  <2>2. sql = [staged |-> staged, code |-> "ok"]
    BY <1>4 DEF SameWrites
  <2>3. staged \in Databases(Row) /\ new.row \in Row /\ ReferencesHold(staged) /\ KeysHold(staged)
    BY <1>4, DatabaseOfStock DEF SameWrites, IsWritten
  <2> HIDE DEF Row, staged, ledger
  <2>4. /\ Insert(mine, new).code = SqlInsert(sql, new).code
        /\ Insert(mine, new).staged = SqlInsert(sql, new).staged
        /\ ReferencesHold(Insert(mine, new).staged) /\ KeysHold(Insert(mine, new).staged)
    BY <2>1, <2>2, <2>3, InsertIsSqlInsert
  <2> QED
    BY <1>1, <1>2, <2>4 DEF SameWrites
<1> QED
  BY <1>3, <1>4

\* The double writes and refuses what a server would, with the same error, for
\* every dataset and whatever is in the tables, but for the differences that
\* InsertsAgree names (in_memory.py:105-143).
THEOREM SpecInsertsAgree == Spec => []InsertsAgree
<1>1. ASSUME KeyInv, RowInv, NEW tenant \in Tenants, NEW content \in scene.contents,
             ReferencesHold(rows[tenant]), KeysHold(rows[tenant]),
             \A e \in Range(InsertOrder(content)) :
                /\ ~RefersToItself(e.table, e.row)
                /\ \A f \in Fields : <<e.table, f>> \in catalog.required => e.row[f] # None
      PROVE  LET mine == Inserted(tenant, content)
                 sql == FoldLeft(SqlInsert, [staged |-> rows[tenant], code |-> "ok"], InsertOrder(content))
             IN  mine.code = sql.code /\ (mine.code = "ok" => mine.staged = sql.staged)
  <2> DEFINE new == InsertOrder(content)
             mine0 == [staged |-> rows[tenant], ledger |-> << >>, code |-> "ok"]
             sql0 == [staged |-> rows[tenant], code |-> "ok"]
             n == Len(new)
  <2>1. new \in Seq(Range(new)) /\ \A e \in Range(new) : IsRow(e.row) /\ e.rank \in Int
    BY <1>1, InsertOrderType DEF KeyInv
  <2>2. Inserted(tenant, content) = FoldLeft(Insert, mine0, new)
    BY DEF Inserted
  <2>3. \A e \in Range(new) : /\ ~RefersToItself(e.table, e.row)
                              /\ \A f \in Fields : <<e.table, f>> \in catalog.required => e.row[f] # None
    BY <1>1
  <2> HIDE DEF new
  <2>4. n \in Nat /\ DOMAIN new = 1 .. n
    BY <2>1
  <2>5. SameWrites(mine0, sql0)
    <3>1. IsLedger(<< >>) /\ IsDatabase(rows[tenant])
      BY <1>1 DEF RowInv, IsLedger
    <3>2. /\ mine0 = [staged |-> mine0.staged, ledger |-> mine0.ledger, code |-> mine0.code]
          /\ mine0.staged = rows[tenant] /\ mine0.ledger = << >> /\ mine0.code = "ok"
          /\ sql0 = [staged |-> sql0.staged, code |-> sql0.code]
          /\ sql0.staged = rows[tenant] /\ sql0.code = "ok"
      OBVIOUS
    <3> HIDE DEF mine0, sql0
    <3> QED
      BY <1>1, <3>1, <3>2 DEF SameWrites, IsWritten
  <2> HIDE DEF n, mine0
  <2>6. PICK mine : Run(mine, "insert", mine0, new, n) /\ FoldLeft(Insert, mine0, new) = mine[n]
    BY <2>4, FoldInsert
  <2>7. PICK sql : Run(sql, "sql_insert", sql0, new, n) /\ FoldLeft(SqlInsert, sql0, new) = sql[n]
    <3> HIDE DEF sql0
    <3> QED
      BY <2>4, FoldSqlInsert
  <2> DEFINE S == {k \in 0 .. n : SameWrites(mine[k], sql[k])}
  <2>8. 0 \in S
    <3> HIDE DEF sql0
    <3> QED
      BY <2>4, <2>5, <2>6, <2>7 DEF Run
  <2>9. ASSUME NEW k \in 0 .. n - 1, k \in S
        PROVE  k + 1 \in S
    <3>1. k + 1 \in 1 .. n /\ k + 1 \in 0 .. n /\ (k + 1) - 1 = k
      BY <2>4
    <3>2. mine[k + 1] = Insert(mine[k], new[k + 1]) /\ sql[k + 1] = SqlInsert(sql[k], new[k + 1])
      BY <2>6, <2>7, <3>1 DEF Run, Step
    <3>3. new[k + 1] \in Range(new)
      BY <2>4, <3>1 DEF Range
    <3>4. SameWrites(mine[k + 1], sql[k + 1])
      BY <1>1, <2>1, <2>3, <2>9, <3>2, <3>3, InsertKeepsSame DEF KeyInv
    <3> QED
      BY <3>1, <3>4
  <2>10. n \in S
    <3> HIDE DEF S
    <3>1. 0 .. n \subseteq S
      BY <2>4, <2>8, <2>9, Induction
    <3> QED
      BY <2>4, <3>1
  <2> QED
    BY <2>2, <2>6, <2>7, <2>10 DEF SameWrites, new, sql0
<1>2. KeyInv /\ RowInv => InsertsAgree
  BY <1>1 DEF InsertsAgree
<1> QED
  BY <1>2, KeysAreInStep, RowsAreTyped, PTL

\* The double and a server are at the same point of a ledger.
SameDeletes(mine, sql) ==
    /\ mine = sql
    /\ IsReduced(mine)
    /\ mine.code = "ok" =>
          /\ ReferencesHold(mine.staged) /\ KeysHold(mine.staged)
          /\ ~NullRefersToNull(mine.staged)
          /\ \A t \in AllTables : \A row \in Range(mine.staged[t]) : ~RefersToItself(t, row)

\* One entry of a ledger, on both sides.
LEMMA DeleteKeepsSame ==
  ASSUME scene \in Scenes, NEW mine, NEW sql, SameDeletes(mine, sql), NEW w
  PROVE  SameDeletes(DeleteRow(mine, w), SqlDelete(sql, w))
<1>1. CASE mine.code # "ok"
  <2>1. DeleteRow(mine, w) = mine /\ SqlDelete(sql, w) = sql
    BY <1>1 DEF DeleteRow, SqlDelete, SameDeletes
  <2> QED
    BY <2>1
<1>2. CASE mine.code = "ok"
  <2> DEFINE staged == mine.staged
             after == DeleteRow(mine, w).staged
             Row == Stock(staged) \cup {}
  <2>1. mine = [staged |-> staged, code |-> "ok"] /\ sql = mine
    BY <1>2 DEF SameDeletes, IsReduced
  <2>2. staged \in Databases(Row)
    BY DatabaseOfStock DEF SameDeletes, IsReduced
  <2>3. /\ ReferencesHold(staged) /\ KeysHold(staged) /\ ~NullRefersToNull(staged)
        /\ \A t \in AllTables : \A row \in Range(staged[t]) : ~RefersToItself(t, row)
    BY <1>2 DEF SameDeletes
  <2>4. IsReduced(DeleteRow(mine, w))
    BY DeleteKeepsTypes DEF SameDeletes
  <2> HIDE DEF Row, staged
  <2>5. /\ DeleteRow(mine, w) = SqlDelete(sql, w)
        /\ ReferencesHold(after) /\ KeysHold(after)
        /\ \A t \in AllTables : Range(after[t]) \subseteq Range(staged[t])
    BY <2>1, <2>2, <2>3, DeleteIsSqlDelete
  <2> HIDE DEF after
  <2>6. ~NullRefersToNull(after)
    BY <2>3, <2>5, ConstraintsAreOfTables DEF NullRefersToNull
  <2>7. \A t \in AllTables : \A row \in Range(after[t]) : ~RefersToItself(t, row)
    BY <2>3, <2>5
  <2> QED
    BY <2>4, <2>5, <2>6, <2>7 DEF SameDeletes, after
<1> QED
  BY <1>1, <1>2

\* The double deletes and refuses what a server would, for every ledger and whatever
\* is in the tables, but for the differences that DeletesAgree names
\* (in_memory.py:255-305).
THEOREM SpecDeletesAgree == Spec => []DeletesAgree
<1>1. ASSUME KeyInv, RowInv, NEW tenant \in Tenants, NEW g \in GenIds,
             ReferencesHold(rows[tenant]), KeysHold(rows[tenant]), ~NullRefersToNull(rows[tenant]),
             \A t \in AllTables : \A row \in Range(rows[tenant][t]) : ~RefersToItself(t, row)
      PROVE  Removed(tenant, g) = FoldLeft(SqlDelete, [staged |-> rows[tenant], code |-> "ok"], DeleteOrder(g))
  <2> DEFINE order == DeleteOrder(g)
             base == [staged |-> rows[tenant], code |-> "ok"]
             n == Len(written[g])
  <2>1. n \in Nat /\ DOMAIN order = 1 .. n
    BY <1>1 DEF DeleteOrder, RowInv
  <2>2. Removed(tenant, g) = FoldLeft(DeleteRow, base, order)
    BY DEF Removed
  <2>3. SameDeletes(base, base)
    <3>1. base = [staged |-> base.staged, code |-> base.code] /\ base.staged = rows[tenant]
      OBVIOUS
    <3> HIDE DEF base
    <3> QED
      BY <1>1, <3>1 DEF SameDeletes, IsReduced, RowInv
  <2> HIDE DEF order, n
  <2>4. PICK mine : Run(mine, "delete", base, order, n) /\ FoldLeft(DeleteRow, base, order) = mine[n]
    <3> HIDE DEF base
    <3> QED
      BY <2>1, FoldDelete
  <2>5. PICK sql : Run(sql, "sql_delete", base, order, n) /\ FoldLeft(SqlDelete, base, order) = sql[n]
    <3> HIDE DEF base
    <3> QED
      BY <2>1, FoldSqlDelete
  <2> DEFINE S == {k \in 0 .. n : SameDeletes(mine[k], sql[k])}
  <2>6. 0 \in S
    <3> HIDE DEF base
    <3> QED
      BY <2>1, <2>3, <2>4, <2>5 DEF Run
  <2>7. ASSUME NEW k \in 0 .. n - 1, k \in S
        PROVE  k + 1 \in S
    <3>1. k + 1 \in 1 .. n /\ k + 1 \in 0 .. n /\ (k + 1) - 1 = k
      BY <2>1
    <3>2. mine[k + 1] = DeleteRow(mine[k], order[k + 1]) /\ sql[k + 1] = SqlDelete(sql[k], order[k + 1])
      BY <2>4, <2>5, <3>1 DEF Run, Step
    <3> QED
      BY <1>1, <2>7, <3>1, <3>2, DeleteKeepsSame DEF KeyInv
  <2>8. n \in S
    <3> HIDE DEF S
    <3>1. 0 .. n \subseteq S
      BY <2>1, <2>6, <2>7, Induction
    <3> QED
      BY <2>1, <3>1
  <2> QED
    BY <2>2, <2>4, <2>5, <2>8 DEF SameDeletes, order
<1>2. KeyInv /\ RowInv => DeletesAgree
  BY <1>1 DEF DeletesAgree, Committed
<1> QED
  BY <1>2, KeysAreInStep, RowsAreTyped, PTL
=============================================================================
