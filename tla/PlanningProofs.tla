--------------------------- MODULE PlanningProofs ---------------------------
(***************************************************************************)
(* For any record types, any order of them and any relations: a contract   *)
(* is accepted exactly if its relations have no cycle, one that was        *)
(* accepted is planned, and the plan puts parents before children.         *)
(*                                                                         *)
(* The loop invariant says what a record type still waits for.  While the  *)
(* children of a record type are looked at, those before `next' have been  *)
(* told that it is sorted and those after it have not.  Each step leaves   *)
(* fewer steps, so the loops end.                                          *)
(***************************************************************************)
EXTENDS Planning, FiniteSetTheorems, TLAPS

\* The part of the inner loop that is behind.
Seen == {Scanned[i] : i \in 1 .. next - 1}

\* The record types n has been told of.
Told(n) == IF n \in Seen THEN Range(done) ELSE Range(done) \ {current}

\* The relations among S have no cycle.
AcyclicOn(S) == \A T \in SUBSET S : T # {} => \E n \in T : Parents(n) \cap T = {}

\* What both loops keep, at every position of the inner one.
LoopInv ==
    /\ IsInjective(done) /\ IsInjective(ready)
    /\ Range(done) \cap Range(ready) = {}
    /\ current \in Range(done) \cup {None}
    /\ \A n \in RecordTypes : Queued(n) => Parents(n) \subseteq Range(done)
    /\ \A n \in RecordTypes : pending[n] = Parents(n) \ Told(n)
    /\ \A n \in RecordTypes : (n \in Seen \/ current # None) /\ pending[n] = {} => Queued(n)
    /\ AcyclicOn(Range(done))

\* The invariant.
PInv ==
    /\ TypeOK
    /\ phase \in Loops => LoopInv
    /\ AcceptedIsPlanned

-----------------------------------------------------------------------------

\* Sequences without repetition, as queues.
LEMMA AppendNew ==
  ASSUME NEW S, NEW s \in Seq(S), NEW e \in S
  PROVE  /\ Append(s, e) \in Seq(S)
         /\ Range(Append(s, e)) = Range(s) \cup {e}
         /\ IsInjective(s) /\ e \notin Range(s) => IsInjective(Append(s, e))
<1>1. /\ Append(s, e) \in Seq(S) /\ DOMAIN Append(s, e) = 1 .. Len(s) + 1
      /\ \A i \in 1 .. Len(s) : Append(s, e)[i] = s[i]
      /\ Append(s, e)[Len(s) + 1] = e
      /\ Len(s) \in Nat /\ DOMAIN s = 1 .. Len(s)
  OBVIOUS
<1>2. 1 .. Len(s) + 1 = (1 .. Len(s)) \cup {Len(s) + 1}
  BY <1>1
<1>3. Range(Append(s, e)) = Range(s) \cup {e}
  BY <1>1, <1>2 DEF Range
<1>4. ASSUME IsInjective(s), e \notin Range(s)
      PROVE  IsInjective(Append(s, e))
  <2> DEFINE t == Append(s, e)
  <2> SUFFICES ASSUME NEW i \in 1 .. Len(s) + 1, NEW j \in 1 .. Len(s) + 1, t[i] = t[j]
               PROVE  i = j
    BY <1>1 DEF IsInjective
  <2>1. \A k \in 1 .. Len(s) : t[k] \in Range(s)
    BY <1>1 DEF Range
  <2> HIDE DEF t
  <2>2. CASE i \in 1 .. Len(s) /\ j \in 1 .. Len(s)
    BY <1>1, <1>4, <2>2 DEF IsInjective, t
  <2>3. CASE i = Len(s) + 1 /\ j \in 1 .. Len(s)
    BY <1>1, <1>4, <2>1, <2>3 DEF t
  <2>4. CASE i \in 1 .. Len(s) /\ j = Len(s) + 1
    BY <1>1, <1>4, <2>1, <2>4 DEF t
  <2> QED BY <1>2, <2>2, <2>3, <2>4
<1> QED BY <1>1, <1>3, <1>4

LEMMA TailOfNew ==
  ASSUME NEW S, NEW s \in Seq(S), s # << >>, IsInjective(s)
  PROVE  /\ Tail(s) \in Seq(S) /\ Head(s) \in S
         /\ Head(s) \in Range(s) /\ Range(Tail(s)) = Range(s) \ {Head(s)}
         /\ IsInjective(Tail(s))
<1>1. /\ Tail(s) \in Seq(S) /\ Head(s) = s[1] /\ DOMAIN s = 1 .. Len(s)
      /\ Len(s) \in Nat /\ 1 \in 1 .. Len(s)
      /\ DOMAIN Tail(s) = 1 .. Len(s) - 1
      /\ \A i \in 1 .. Len(s) - 1 : Tail(s)[i] = s[i + 1]
  OBVIOUS
<1>2. \A i, j \in 1 .. Len(s) : s[i] = s[j] => i = j
  BY <1>1 DEF IsInjective
<1>3. IsInjective(Tail(s))
  <2> SUFFICES ASSUME NEW i \in 1 .. Len(s) - 1, NEW j \in 1 .. Len(s) - 1, s[i + 1] = s[j + 1]
               PROVE  i = j
    BY <1>1 DEF IsInjective
  <2>1. i + 1 \in 1 .. Len(s) /\ j + 1 \in 1 .. Len(s)
    BY <1>1
  <2> QED BY <1>2, <2>1
<1>4. Head(s) \in S /\ Head(s) \in Range(s)
  BY <1>1 DEF Range
<1>5. ASSUME NEW e \in Range(Tail(s))
      PROVE  e \in Range(s) \ {Head(s)}
  <2>1. PICK i \in 1 .. Len(s) - 1 : e = s[i + 1]
    BY <1>1 DEF Range
  <2>2. i + 1 \in 1 .. Len(s) /\ i + 1 # 1
    BY <1>1
  <2> QED BY <1>1, <1>2, <2>1, <2>2 DEF Range
<1>6. ASSUME NEW e \in Range(s) \ {Head(s)}
      PROVE  e \in Range(Tail(s))
  <2>1. PICK i \in 1 .. Len(s) : e = s[i]
    BY <1>1 DEF Range
  <2>2. i - 1 \in 1 .. Len(s) - 1 /\ s[i] = s[(i - 1) + 1]
    BY <1>1, <2>1
  <2> QED BY <1>1, <2>1, <2>2 DEF Range
<1> QED BY <1>1, <1>3, <1>4, <1>5, <1>6

\* An order lists all record types, once each: orders are of one length, and a
\* sequence without repetition that is as long lists them all.
LEMMA OrderLength ==
  ASSUME NEW q, IsOrder(q), NEW s \in Seq(RecordTypes), IsInjective(s)
  PROVE  /\ Len(s) <= Len(q)
         /\ Len(s) = Len(q) <=> Range(s) = RecordTypes
<1>1. q \in Seq(RecordTypes) /\ Len(q) \in Nat /\ Len(s) \in Nat
  BY DEF IsOrder
<1>2. /\ IsFiniteSet(1 .. Len(q)) /\ Cardinality(1 .. Len(q)) = Len(q)
      /\ Cardinality(1 .. Len(s)) = Len(s)
  <2>1. \A n \in Nat : IsFiniteSet(1 .. n) /\ Cardinality(1 .. n) = IF 1 > n THEN 0 ELSE n - 1 + 1
    BY FS_Interval
  <2>2. \A n \in Nat : (IF 1 > n THEN 0 ELSE n - 1 + 1) = n
    OBVIOUS
  <2> QED BY <1>1, <2>1, <2>2
<1>3. q \in Bijection(1 .. Len(q), RecordTypes)
  <2>1. q \in [1 .. Len(q) -> RecordTypes] /\ DOMAIN q = 1 .. Len(q)
    BY <1>1
  <2>2. IsInjective(q)
    BY <2>1 DEF IsOrder, IsInjective
  <2>3. \A n \in RecordTypes : \E i \in 1 .. Len(q) : q[i] = n
    BY DEF IsOrder
  <2> QED BY <2>1, <2>2, <2>3 DEF Bijection, Injection, Surjection
<1>4. IsFiniteSet(RecordTypes) /\ Cardinality(RecordTypes) = Len(q)
  BY <1>2, <1>3, FS_Bijection DEF ExistsBijection
<1>5. s \in Injection(1 .. Len(s), RecordTypes)
  BY <1>1 DEF Injection
<1>6. /\ Len(s) <= Len(q)
      /\ Len(s) = Len(q) <=> s \in Surjection(1 .. Len(s), RecordTypes)
  BY <1>2, <1>4, <1>5, FS_Injection
<1>7. s \in Surjection(1 .. Len(s), RecordTypes) <=> Range(s) = RecordTypes
  <2>1. s \in [1 .. Len(s) -> RecordTypes]
    BY <1>1
  <2> QED BY <2>1 DEF Surjection, Range
<1> QED BY <1>6, <1>7

\* So every record type is somewhere in what is scanned, at one place.
LEMMA ScannedIsOrder ==
  ASSUME TypeOK
  PROVE  /\ IsOrder(Scanned) /\ Scanned \in Seq(RecordTypes)
         /\ Len(Scanned) = Len(order) /\ Len(order) \in Nat
<1>1. IsOrder(order) /\ IsOrder(Sorted)
  BY PlanningAssumption DEF TypeOK
<1>2. Len(Sorted) = Len(order)
  <2>1. Sorted \in Seq(RecordTypes) /\ DOMAIN Sorted = 1 .. Len(Sorted)
    BY <1>1 DEF IsOrder
  <2>2. IsInjective(Sorted)
    BY <1>1, <2>1 DEF IsOrder, IsInjective
  <2>3. \A i \in 1 .. Len(Sorted) : Sorted[i] \in RecordTypes
    BY <2>1
  <2>4. Range(Sorted) = RecordTypes
    <3>1. \A n \in RecordTypes : \E i \in 1 .. Len(Sorted) : Sorted[i] = n
      BY <1>1 DEF IsOrder
    <3>2. Range(Sorted) = {Sorted[i] : i \in 1 .. Len(Sorted)}
      BY <2>1 DEF Range
    <3> QED BY <2>3, <3>1, <3>2
  <2> QED BY <1>1, <2>1, <2>2, <2>4, OrderLength
<1>3. order \in Seq(RecordTypes) /\ Len(order) \in Nat /\ Sorted \in Seq(RecordTypes)
  BY <1>1 DEF IsOrder
<1>4. Scanned = order \/ Scanned = Sorted
  BY DEF Scanned
<1> QED BY <1>1, <1>2, <1>3, <1>4

\* When the inner loop is through, it has seen them all.
LEMMA SeenAll ==
  ASSUME TypeOK, next > Len(Scanned)
  PROVE  Seen = RecordTypes
<1>1. /\ Scanned \in Seq(RecordTypes) /\ Len(Scanned) \in Nat
      /\ \A n \in RecordTypes : \E i \in 1 .. Len(Scanned) : Scanned[i] = n
      /\ next = Len(Scanned) + 1
  <2>1. IsOrder(Scanned) /\ Len(Scanned) = Len(order) /\ Len(order) \in Nat
    BY ScannedIsOrder
  <2>2. next \in 1 .. Len(order) + 1
    BY DEF TypeOK
  <2>3. next = Len(Scanned) + 1
    BY <2>1, <2>2
  <2> QED BY <2>1, <2>3 DEF IsOrder
<1>2. Seen = {Scanned[i] : i \in 1 .. Len(Scanned)}
  BY <1>1 DEF Seen
<1>3. \A i \in 1 .. Len(Scanned) : Scanned[i] \in RecordTypes
  BY <1>1
<1> QED BY <1>1, <1>2, <1>3

\* What is sorted has no cycle, and a record type that comes after its parents
\* closes none.
LEMMA AcyclicAdd ==
  ASSUME NEW S \in SUBSET RecordTypes, AcyclicOn(S), \A m \in S : Parents(m) \subseteq S,
         NEW n \in RecordTypes \ S, Parents(n) \subseteq S
  PROVE  AcyclicOn(S \cup {n})
<1> SUFFICES ASSUME NEW T \in SUBSET (S \cup {n}), T # {}
             PROVE  \E m \in T : Parents(m) \cap T = {}
  BY DEF AcyclicOn
<1>1. CASE T \cap S = {}
  BY <1>1
<1>2. CASE T \cap S # {}
  <2>1. PICK m \in T \cap S : Parents(m) \cap (T \cap S) = {}
    BY <1>2 DEF AcyclicOn
  <2>2. Parents(m) \subseteq S
    BY <2>1
  <2> QED BY <2>1, <2>2
<1> QED BY <1>1, <1>2

\* A loop that runs out of record types whose parents are sorted has met a cycle.
LEMMA StuckIsCyclic ==
  ASSUME TypeOK, LoopInv, next > Len(Scanned), ready = << >>, Len(done) # Len(order)
  PROVE  ~Acyclic
<1> DEFINE S == RecordTypes \ Range(done)
<1>1. S # {}
  <2>1. Range(done) \subseteq RecordTypes
    BY DEF TypeOK, Range
  <2>2. Range(done) # RecordTypes
    BY OrderLength, PlanningAssumption DEF TypeOK, LoopInv
  <2> QED BY <2>1, <2>2
<1>2. ASSUME NEW n \in S
      PROVE  Parents(n) \cap S # {}
  <2>1. Range(ready) = {}
    BY DEF Range
  <2>2. n \in Seen /\ Told(n) = Range(done)
    BY SeenAll DEF Told
  <2>3. ~Queued(n)
    BY <2>1 DEF Queued
  <2>4. pending[n] = Parents(n) \ Range(done) /\ pending[n] # {}
    BY <2>2, <2>3 DEF LoopInv
  <2> QED BY <2>4 DEF Parents
<1> QED BY <1>1, <1>2 DEF Acyclic

-----------------------------------------------------------------------------

\* A loop starts with nothing sorted and everything to wait for.
LEMMA InitInv == Init => PInv
<1> SUFFICES ASSUME Init PROVE PInv
  OBVIOUS
<1>1. Range(<< >>) = {} /\ IsInjective(<< >>) /\ << >> \in Seq(RecordTypes)
  BY DEF Range, IsInjective
<1>2. Len(order) \in Nat
  BY PlanningAssumption DEF Init, IsOrder
<1>3. TypeOK
  BY <1>1, <1>2 DEF Init, TypeOK, Loops, Parents
<1>4. Seen = {}
  BY DEF Init, Seen
<1>5. LoopInv
  BY <1>1, <1>4 DEF Init, LoopInv, Told, Queued, AcyclicOn, Parents
<1> QED BY <1>3, <1>5 DEF PInv, AcceptedIsPlanned, Init

LEMMA VisitInv ==
  ASSUME PInv, Visit
  PROVE  PInv'
<1>1. /\ TypeOK /\ LoopInv /\ phase \in Loops /\ next <= Len(Scanned)
      /\ UNCHANGED <<order, relations, phase, done, current>> /\ next' = next + 1
  BY DEF PInv, Visit
<1>2. PICK n : n = Scanned[next]
  OBVIOUS
<1>3. /\ n \in RecordTypes /\ next \in 1 .. Len(Scanned)
      /\ Len(Scanned) = Len(order) /\ Len(order) \in Nat
  <2>1. Scanned \in Seq(RecordTypes) /\ Len(Scanned) = Len(order) /\ Len(order) \in Nat
    BY <1>1, ScannedIsOrder
  <2>2. next \in 1 .. Len(Scanned)
    BY <1>1, <2>1 DEF TypeOK
  <2> QED BY <1>2, <2>1, <2>2
<1>4. Scanned' = Scanned /\ Seen' = Seen \cup {n} /\ n \notin Seen
  <2>1. Scanned' = Scanned
    BY <1>1 DEF Scanned
  <2>2. 1 .. next' - 1 = (1 .. next - 1) \cup {next}
    BY <1>1, <1>3
  <2>3. Seen' = Seen \cup {n}
    BY <1>2, <2>1, <2>2 DEF Seen
  <2>4. \A i, j \in 1 .. Len(Scanned) : Scanned[i] = Scanned[j] => i = j
    BY <1>1, ScannedIsOrder DEF IsOrder
  <2>5. \A i \in 1 .. next - 1 : Scanned[i] # n
    BY <1>2, <1>3, <2>4
  <2> QED BY <2>1, <2>3, <2>5 DEF Seen
<1>5. /\ Range(done)' = Range(done) /\ \A m \in RecordTypes : Parents(m)' = Parents(m)
      /\ Range(done) \subseteq RecordTypes /\ \A m \in RecordTypes : Parents(m) \subseteq RecordTypes
  BY <1>1 DEF Range, Parents, TypeOK
<1>6. /\ Told(n)' = Range(done)
      /\ \A m \in RecordTypes \ {n} : Told(m)' = Told(m)
  BY <1>1, <1>4, <1>5 DEF Told
<1>7. pending[n] = Parents(n) \ (Range(done) \ {current})
  BY <1>1, <1>3, <1>4 DEF LoopInv, Told
<1> DEFINE left == pending[n] \ {current}
<1>8. /\ \/ /\ current = None \/ n \in Children(current)
            /\ pending' = [pending EXCEPT ![n] = left]
            /\ ready' = IF left = {} /\ ~Queued(n) THEN Append(ready, n) ELSE ready
         \/ /\ current # None /\ n \notin Children(current)
            /\ UNCHANGED <<pending, ready>>
  BY <1>2 DEF Visit
<1>9. /\ pending' \in [RecordTypes -> SUBSET RecordTypes]
      /\ pending'[n] = Parents(n) \ Range(done)
      /\ \A m \in RecordTypes \ {n} : pending'[m] = pending[m]
  <2>1. pending \in [RecordTypes -> SUBSET RecordTypes] /\ current \in Range(done) \cup {None}
    BY <1>1 DEF TypeOK, LoopInv
  <2>2. CASE pending' = [pending EXCEPT ![n] = left]
    <3>1. left = Parents(n) \ Range(done)
      BY <1>5, <1>7, <1>3, <2>1, PlanningAssumption
    <3> QED BY <1>3, <1>5, <2>1, <2>2, <3>1
  <2>3. CASE current # None /\ n \notin Children(current) /\ UNCHANGED pending
    <3>1. current \notin Parents(n)
      BY <1>3, <2>3 DEF Children
    <3> QED BY <1>7, <2>1, <2>3, <3>1
  <2> QED BY <1>8, <2>2, <2>3
<1>10. /\ ready' \in Seq(RecordTypes) /\ IsInjective(ready')
       /\ Range(done) \cap Range(ready') = {}
       /\ \A m \in RecordTypes \ {n} : Queued(m)' <=> Queued(m)
       /\ Queued(n)' => Parents(n) \subseteq Range(done)
       /\ pending'[n] = {} => Queued(n)'
  <2>1. /\ ready \in Seq(RecordTypes) /\ IsInjective(ready) /\ Range(done) \cap Range(ready) = {}
        /\ Queued(n) => Parents(n) \subseteq Range(done)
    BY <1>1, <1>3 DEF TypeOK, LoopInv
  <2>2. CASE left = {} /\ ~Queued(n) /\ ready' = Append(ready, n) /\ pending' = [pending EXCEPT ![n] = left]
    <3>1. /\ ready' \in Seq(RecordTypes) /\ Range(ready') = Range(ready) \cup {n}
          /\ n \notin Range(ready) => IsInjective(ready')
      BY <1>3, <2>1, <2>2, AppendNew
    <3>2. n \notin Range(ready) /\ n \notin Range(done)
      BY <2>2 DEF Queued
    <3>3. pending'[n] = {}
      BY <1>1, <1>3, <2>2 DEF TypeOK
    <3>4. Range(ready)' = Range(ready')
      BY DEF Range
    <3> QED BY <1>5, <1>9, <2>1, <3>1, <3>2, <3>3, <3>4 DEF Queued
  <2>3. CASE UNCHANGED ready /\ (pending'[n] = {} => Queued(n))
    <3>1. Range(ready)' = Range(ready) /\ Range(ready') = Range(ready) /\ IsInjective(ready')
      BY <2>1, <2>3
    <3> QED BY <1>5, <2>1, <2>3, <3>1 DEF Queued
  <2>4. CASE ~(left = {} /\ ~Queued(n)) /\ UNCHANGED ready /\ pending' = [pending EXCEPT ![n] = left]
    <3>1. pending'[n] = left
      BY <1>1, <1>3, <2>4 DEF TypeOK
    <3> QED BY <2>3, <2>4, <3>1
  <2>5. CASE current # None /\ UNCHANGED <<pending, ready>>
    BY <1>1, <1>3, <2>3, <2>5 DEF LoopInv
  <2> QED BY <1>8, <2>2, <2>4, <2>5
<1>11. TypeOK'
  <2>1. next' \in 1 .. Len(order') + 1
    BY <1>1, <1>3
  <2> QED BY <1>1, <1>9, <1>10, <2>1 DEF TypeOK
<1>12. LoopInv'
  <2>1. \A m \in RecordTypes : Queued(m)' => Parents(m)' \subseteq Range(done)'
    BY <1>1, <1>5, <1>10 DEF LoopInv
  <2>2. \A m \in RecordTypes : pending'[m] = Parents(m)' \ Told(m)'
    BY <1>1, <1>5, <1>6, <1>9 DEF LoopInv
  <2>3. \A m \in RecordTypes : (m \in Seen' \/ current' # None) /\ pending'[m] = {} => Queued(m)'
    BY <1>1, <1>4, <1>9, <1>10 DEF LoopInv
  <2>4. AcyclicOn(Range(done))'
    BY <1>1, <1>5 DEF LoopInv, AcyclicOn, Parents
  <2>5. IsInjective(done') /\ current' \in Range(done)' \cup {None}
    BY <1>1, <1>5 DEF LoopInv
  <2>6. Range(done)' \cap Range(ready)' = {}
    BY <1>5, <1>10
  <2> QED BY <1>10, <2>1, <2>2, <2>3, <2>4, <2>5, <2>6 DEF LoopInv
<1>13. AcceptedIsPlanned'
  BY <1>1 DEF PInv, AcceptedIsPlanned, Acyclic, Parents
<1> QED BY <1>11, <1>12, <1>13 DEF PInv

LEMMA PopInv ==
  ASSUME PInv, Pop
  PROVE  PInv'
<1>1. /\ TypeOK /\ LoopInv /\ phase \in Loops /\ next > Len(Scanned) /\ ready # << >>
      /\ UNCHANGED <<order, relations, phase, pending>> /\ next' = 1
      /\ current' = Head(ready) /\ ready' = Tail(ready) /\ done' = Append(done, Head(ready))
  BY DEF PInv, Pop
<1>2. PICK h : h = Head(ready)
  OBVIOUS
<1>3. /\ ready \in Seq(RecordTypes) /\ done \in Seq(RecordTypes)
      /\ IsInjective(ready) /\ IsInjective(done) /\ Range(done) \cap Range(ready) = {}
      /\ Range(done) \subseteq RecordTypes
  <2>1. ready \in Seq(RecordTypes) /\ done \in Seq(RecordTypes)
    BY <1>1 DEF TypeOK
  <2>2. Range(done) \subseteq RecordTypes
    BY <2>1 DEF Range
  <2> QED BY <1>1, <2>1, <2>2 DEF LoopInv
<1>4. /\ ready' \in Seq(RecordTypes) /\ IsInjective(ready')
      /\ h \in RecordTypes /\ h \in Range(ready) /\ Range(ready') = Range(ready) \ {h}
  BY <1>1, <1>2, <1>3, TailOfNew
<1>5. h \notin Range(done)
  BY <1>3, <1>4
<1>6. done' \in Seq(RecordTypes) /\ IsInjective(done') /\ Range(done') = Range(done) \cup {h}
  BY <1>1, <1>2, <1>3, <1>4, <1>5, AppendNew
<1>7. /\ Range(ready)' = Range(ready') /\ Range(done)' = Range(done')
      /\ \A n \in RecordTypes : Parents(n)' = Parents(n) /\ (Queued(n)' <=> Queued(n))
  <2>1. Range(ready)' = Range(ready') /\ Range(done)' = Range(done')
    BY DEF Range
  <2> QED BY <1>1, <1>4, <1>6, <2>1 DEF Parents, Queued
<1>8. Seen' = {}
  <2>1. 1 .. next' - 1 = {}
    BY <1>1
  <2> QED BY <2>1 DEF Seen
<1>9. /\ Seen = RecordTypes
      /\ \A n \in RecordTypes : Told(n) = Range(done) /\ Told(n)' = Range(done)
  <2>1. Seen = RecordTypes
    BY <1>1, SeenAll
  <2>2. Range(done') \ {h} = Range(done)
    BY <1>5, <1>6
  <2> QED BY <1>1, <1>2, <1>7, <1>8, <2>1, <2>2 DEF Told
<1>10. TypeOK'
  <2>1. next' \in 1 .. Len(order') + 1
    BY <1>1, ScannedIsOrder
  <2> QED BY <1>1, <1>2, <1>4, <1>6, <2>1 DEF TypeOK
<1>11. \A n \in RecordTypes : Queued(n) => Parents(n) \subseteq Range(done)
  BY <1>1 DEF LoopInv
<1>12. AcyclicOn(Range(done'))
  <2>1. \A m \in Range(done) : Parents(m) \subseteq Range(done)
    BY <1>3, <1>11 DEF Queued
  <2>2. Parents(h) \subseteq Range(done)
    BY <1>4, <1>11 DEF Queued
  <2>3. AcyclicOn(Range(done))
    BY <1>1 DEF LoopInv
  <2> QED BY <1>3, <1>4, <1>5, <1>6, <2>1, <2>2, <2>3, AcyclicAdd
<1>13. LoopInv'
  <2>1. \A n \in RecordTypes : Queued(n)' => Parents(n)' \subseteq Range(done)'
    BY <1>6, <1>7, <1>11
  <2>2. \A n \in RecordTypes : pending'[n] = Parents(n)' \ Told(n)'
    BY <1>1, <1>7, <1>9 DEF LoopInv
  <2>3. \A n \in RecordTypes : (n \in Seen' \/ current' # None) /\ pending'[n] = {} => Queued(n)'
    BY <1>1, <1>7, <1>9 DEF LoopInv
  <2>4. AcyclicOn(Range(done))'
    BY <1>1, <1>6, <1>7, <1>12 DEF AcyclicOn, Parents
  <2>5. current' \in Range(done)' \cup {None} /\ Range(done)' \cap Range(ready)' = {}
    BY <1>1, <1>2, <1>3, <1>4, <1>6, <1>7
  <2> QED BY <1>4, <1>6, <2>1, <2>2, <2>3, <2>4, <2>5 DEF LoopInv
<1>14. AcceptedIsPlanned'
  BY <1>1 DEF PInv, AcceptedIsPlanned, Acyclic, Parents
<1> QED BY <1>10, <1>13, <1>14 DEF PInv

\* The validator accepts what it has sorted, and that has no cycle; the planner
\* does not run out of record types, as only a cycle could stop it.
LEMMA FinishInv ==
  ASSUME PInv, Finish
  PROVE  PInv'
<1>1. /\ TypeOK /\ LoopInv /\ phase \in Loops /\ next > Len(Scanned) /\ ready = << >>
      /\ UNCHANGED <<order, relations, ready>>
  BY DEF PInv, Finish
<1>2. Acyclic' <=> Acyclic
  BY <1>1 DEF Acyclic, Parents
<1>3. Len(done) = Len(order) => Acyclic
  <2> SUFFICES ASSUME Len(done) = Len(order) PROVE Acyclic
    OBVIOUS
  <2>1. Range(done) = RecordTypes
    BY <1>1, OrderLength, PlanningAssumption DEF TypeOK, LoopInv
  <2> QED BY <1>1, <2>1 DEF LoopInv, AcyclicOn, Acyclic
<1>4. Len(done) # Len(order) => ~Acyclic
  BY <1>1, StuckIsCyclic
<1>5. CASE /\ phase = "validate" /\ Len(done) = Len(order) /\ phase' = "plan"
           /\ pending' = [n \in RecordTypes |-> Parents(n)]
           /\ done' = << >> /\ current' = None /\ next' = 1
  <2>1. Range(<< >>) = {} /\ IsInjective(<< >>) /\ << >> \in Seq(RecordTypes)
    BY DEF Range, IsInjective
  <2>2. Range(done)' = {} /\ Range(ready)' = {}
    BY <1>1, <1>5, <2>1 DEF Range
  <2>3. TypeOK'
    <3>1. next' \in 1 .. Len(order') + 1
      BY <1>1, <1>5, ScannedIsOrder
    <3>2. \A n \in RecordTypes : Parents(n) \subseteq RecordTypes
      BY DEF Parents
    <3> QED BY <1>1, <1>5, <2>1, <3>1, <3>2 DEF TypeOK, Loops
  <2>4. Seen' = {}
    <3>1. 1 .. next' - 1 = {}
      BY <1>5
    <3> QED BY <3>1 DEF Seen
  <2>5. LoopInv'
    BY <1>1, <1>5, <2>1, <2>2, <2>4 DEF LoopInv, Told, Queued, AcyclicOn, Parents
  <2>6. AcceptedIsPlanned'
    BY <1>2, <1>3, <1>5 DEF AcceptedIsPlanned
  <2> QED BY <2>3, <2>5, <2>6 DEF PInv
<1>6. CASE phase = "validate" /\ Len(done) # Len(order) /\ phase' = "rejected"
           /\ UNCHANGED <<pending, done, current, next>>
  BY <1>1, <1>2, <1>4, <1>6 DEF PInv, TypeOK, AcceptedIsPlanned, Loops
<1>7. CASE phase = "plan" /\ phase' = (IF Len(done) = Len(order) THEN "planned" ELSE "failed")
           /\ UNCHANGED <<pending, done, current, next>>
  <2>1. Acyclic /\ Len(done) = Len(order)
    BY <1>4, <1>7 DEF PInv, AcceptedIsPlanned
  <2> QED BY <1>1, <1>2, <1>7, <2>1 DEF PInv, TypeOK, AcceptedIsPlanned, Loops
<1> QED BY <1>5, <1>6, <1>7 DEF Finish

LEMMA StutterInv == ASSUME PInv, UNCHANGED vars PROVE PInv'
<1>1. TypeOK'
  BY DEF PInv, TypeOK, vars
<1>2. AcceptedIsPlanned'
  BY DEF PInv, AcceptedIsPlanned, Acyclic, Parents, vars
<1>3. ASSUME phase' \in Loops
      PROVE  LoopInv'
  BY <1>3 DEF PInv, LoopInv, Seen, Scanned, Told, Queued, AcyclicOn, Parents, Range, vars
<1> QED BY <1>1, <1>2, <1>3 DEF PInv

\* The invariant holds in every reachable state.
LEMMA Invariance == Spec => []PInv
<1>1. PInv /\ [Next]_vars => PInv'
  BY VisitInv, PopInv, FinishInv, StutterInv DEF Next
<1> QED BY <1>1, InitInv, PTL DEF Spec

-----------------------------------------------------------------------------

\* Every variable keeps its type, for any number of record types and any order.
THEOREM SpecTypeOK == Spec => []TypeOK
<1>1. PInv => TypeOK
  BY DEF PInv
<1> QED BY <1>1, Invariance, PTL

\* A contract is accepted exactly if its relations have no cycle, and the planner,
\* which looks at children in another order, sorts what the validator sorted:
\* for every contract, not just for those of four record types.
\* (models.py:184-201, planning.py:27-39)
THEOREM SpecAcceptedIsPlanned == Spec => []AcceptedIsPlanned
<1>1. PInv => AcceptedIsPlanned
  BY DEF PInv
<1> QED BY <1>1, Invariance, PTL

\* A step of the planner adds a record type whose parents were added before.
LEMMA PlanStep ==
  ASSUME PInv, [Next]_vars
  PROVE  [Plan!Next]_<<relations, IF phase \in {"plan", "planned", "failed"} THEN done ELSE << >> >>
<1> DEFINE plan == IF phase \in {"plan", "planned", "failed"} THEN done ELSE << >>
<1> SUFFICES Plan!Next \/ UNCHANGED <<relations, plan>>
  OBVIOUS
<1>1. CASE Visit
  BY <1>1 DEF Visit
<1>2. CASE Pop /\ phase # "plan"
  BY <1>2 DEF Pop, Loops
<1>3. CASE Pop /\ phase = "plan"
  <2>1. /\ ready \in Seq(RecordTypes) /\ ready # << >> /\ IsInjective(ready)
        /\ Range(done) \cap Range(ready) = {} /\ phase \in Loops /\ LoopInv
    BY <1>3 DEF PInv, TypeOK, LoopInv, Loops, Pop
  <2>2. Head(ready) \in RecordTypes /\ Head(ready) \in Range(ready)
    BY <2>1, TailOfNew
  <2>3. Head(ready) \notin Range(done) /\ Parents(Head(ready)) \subseteq Range(done)
    BY <2>1, <2>2 DEF LoopInv, Queued
  <2>4. plan = done /\ plan' = Append(done, Head(ready)) /\ relations' = relations
    BY <1>3 DEF Pop
  <2>5. Plan!Add(Head(ready))
    BY <2>3, <2>4 DEF Plan!Add, Plan!ParentsOf, Plan!Range, Range, Parents
  <2> QED BY <2>2, <2>5 DEF Plan!Next
<1>4. CASE Finish
  BY <1>4 DEF Finish, Loops
<1>5. CASE UNCHANGED vars
  BY <1>5 DEF vars
<1> QED BY <1>1, <1>2, <1>3, <1>4, <1>5 DEF Next

\* The planner implements DependencyOrder: a row's record type is inserted after
\* all those it refers to. (planning.py:28-37)
THEOREM SpecImplementsOrder == Spec => ImplementsOrder
<1>1. Init => Plan!Init
  BY DEF Init, Plan!Init
<1>2. PInv /\ [Next]_vars =>
         [Plan!Next]_<<relations, IF phase \in {"plan", "planned", "failed"} THEN done ELSE << >> >>
  BY PlanStep
<1> QED BY <1>1, <1>2, Invariance, PTL DEF Spec, ImplementsOrder, Plan!Spec

-----------------------------------------------------------------------------
(* How long it takes *)

\* What is left of the inner and the outer loop, and of both sorts: a sort pops at
\* most every record type, and runs through all of them after each and at first.
LeftInLoop == (Len(order) - Len(done)) * (Len(order) + 1) + (Len(order) + 1 - next) + 1

OneSort == Len(order) * (Len(order) + 1) + Len(order) + 1

StepsLeft == CASE phase = "validate" -> OneSort + LeftInLoop
               [] phase = "plan" -> LeftInLoop
               [] OTHER -> 0

\* The length of the queues is bounded by that of the contract.
LEMMA DoneIsShort ==
  ASSUME PInv, phase \in Loops
  PROVE  /\ Len(order) \in Nat /\ Len(done) \in 0 .. Len(order) /\ next \in 1 .. Len(order) + 1
         /\ Len(Scanned) = Len(order)
<1>1. TypeOK /\ LoopInv
  BY DEF PInv
<1>2. IsOrder(order) /\ done \in Seq(RecordTypes) /\ IsInjective(done)
  BY <1>1, PlanningAssumption DEF TypeOK, LoopInv
<1>3. Len(done) <= Len(order)
  BY <1>2, OrderLength
<1>4. Len(done) \in Nat /\ Len(order) \in Nat /\ Len(Scanned) = Len(order)
  BY <1>1, <1>2, ScannedIsOrder
<1> QED
  BY <1>1, <1>3, <1>4 DEF TypeOK

\* There is never less than nothing left.
LEMMA StepsAreLeft ==
  ASSUME PInv
  PROVE  StepsLeft \in Nat /\ (phase \in Loops => LeftInLoop \in Nat \ {0})
<1> DEFINE m == Len(order)
           d == Len(done)
<1>1. CASE phase \in Loops
  <2>1. m \in Nat /\ d \in 0 .. m /\ next \in 1 .. m + 1
    BY <1>1, DoneIsShort
  <2>2. (m - d) * (m + 1) \in Nat /\ m * (m + 1) \in Nat
    <3>1. \A a, b \in Nat : a * b \in Nat
      OBVIOUS
    <3>2. m - d \in Nat /\ m + 1 \in Nat
      BY <2>1
    <3> QED
      BY <2>1, <3>1, <3>2
  <2>3. LeftInLoop \in Nat \ {0} /\ OneSort \in Nat
    <3> DEFINE x == (m - d) * (m + 1)
               y == m * (m + 1)
    <3>1. LeftInLoop = x + (m + 1 - next) + 1 /\ OneSort = y + m + 1
      BY DEF LeftInLoop, OneSort
    <3>2. x \in Nat /\ y \in Nat
      BY <2>2
    <3> HIDE DEF x, y, m, d
    <3> QED
      BY <2>1, <3>1, <3>2
  <2> QED
    BY <1>1, <2>3 DEF StepsLeft, Loops
<1>2. CASE phase \notin Loops
  BY <1>2 DEF StepsLeft, Loops
<1> QED
  BY <1>1, <1>2

\* Each step leaves less: both sorts end after a number of steps that is quadratic in
\* the record types, whatever the relations are, cyclic or not. (With the fairness of
\* FairSpec this is why PlanningEnds holds: Next can be taken until they end.)
\* (models.py:191-197, planning.py:28-37)
THEOREM SpecStepsEnd == Spec => [][StepsLeft' \in Nat /\ StepsLeft' < StepsLeft]_vars
<1>1. ASSUME PInv, PInv', Visit
      PROVE  StepsLeft' < StepsLeft
  <2>1. /\ phase \in Loops /\ next <= Len(Scanned) /\ next' = next + 1
        /\ UNCHANGED <<order, phase, done>>
    BY <1>1 DEF Visit
  <2>2. next \in Int /\ Len(order) \in Nat
    BY <1>1, <2>1, DoneIsShort
  <2> DEFINE x == (Len(order) - Len(done)) * (Len(order) + 1)
             m == Len(order)
  <2>3. x' = x /\ m' = m /\ OneSort' = OneSort /\ LeftInLoop = x + (m + 1 - next) + 1
        /\ LeftInLoop' = x' + (m' + 1 - next') + 1
    BY <2>1 DEF OneSort, LeftInLoop
  <2>4. x \in Int /\ OneSort \in Int
    BY <1>1, <2>1, DoneIsShort DEF OneSort
  <2> HIDE DEF x, m
  <2>5. LeftInLoop' = LeftInLoop - 1 /\ LeftInLoop \in Int
    BY <2>1, <2>2, <2>3, <2>4 DEF m
  <2> QED
    BY <2>1, <2>3, <2>4, <2>5 DEF StepsLeft, Loops
<1>2. ASSUME PInv, PInv', Pop
      PROVE  StepsLeft' < StepsLeft
  <2>1. /\ phase \in Loops /\ next > Len(Scanned) /\ next' = 1 /\ ready # << >>
        /\ UNCHANGED <<order, phase>> /\ done' = Append(done, Head(ready))
    BY <1>2 DEF Pop
  <2> DEFINE m == Len(order)
             d == Len(done)
             x == (m - d) * (m + 1)
             y == (m - (d + 1)) * (m + 1)
  <2>2. /\ m \in Nat /\ d \in Nat /\ next = m + 1
    BY <1>2, <2>1, DoneIsShort
  <2>3. Len(done') = d + 1
    BY <1>2, <2>1, TailOfNew DEF PInv, TypeOK, LoopInv
  <2>4. x \in Int /\ y \in Int /\ y = x - (m + 1)
    <3> HIDE DEF m, d
    <3>1. \A a, b \in Int : (a - 1) * b = a * b - b
      OBVIOUS
    <3>2. m - (d + 1) = (m - d) - 1 /\ m - d \in Int /\ m + 1 \in Int
      BY <2>2
    <3> QED
      BY <2>2, <3>1, <3>2
  <2>5. LeftInLoop = x + (m + 1 - next) + 1 /\ LeftInLoop' = y + (m + 1 - 1) + 1 /\ OneSort' = OneSort
    BY <2>1, <2>3 DEF LeftInLoop, OneSort
  <2>6. OneSort \in Int
    BY <2>2 DEF OneSort
  <2> HIDE DEF x, y, m, d
  <2>7. LeftInLoop' = LeftInLoop - 1 /\ LeftInLoop \in Int
    BY <2>2, <2>4, <2>5
  <2> QED
    BY <2>1, <2>5, <2>6, <2>7 DEF StepsLeft, Loops
<1>3. ASSUME PInv, PInv', Finish
      PROVE  StepsLeft' < StepsLeft
  <2>1. phase \in Loops /\ UNCHANGED order
    BY <1>3 DEF Finish
  <2>2. LeftInLoop \in Nat \ {0} /\ StepsLeft \in Nat
    BY <1>3, <2>1, StepsAreLeft
  <2>3. CASE phase' = "plan"
    <3>1. phase = "validate" /\ done' = << >> /\ next' = 1
      BY <1>3, <2>3 DEF Finish
    <3> DEFINE m == Len(order)
               y == m * (m + 1)
    <3>2. m \in Nat /\ y \in Int
      BY <1>3, <2>1, DoneIsShort
    <3>3. Len(<< >>) = 0 /\ m - 0 = m
      BY <3>2
    <3>4. LeftInLoop' = y + (m + 1 - 1) + 1 /\ OneSort = y + m + 1
      BY <2>1, <3>1, <3>3 DEF LeftInLoop, OneSort
    <3> HIDE DEF m, y
    <3>5. LeftInLoop' = OneSort /\ OneSort \in Int
      BY <3>2, <3>4
    <3> QED
      BY <2>2, <2>3, <3>1, <3>5 DEF StepsLeft
  <2>4. CASE phase' # "plan"
    <3>1. phase' \in {"rejected", "planned", "failed"}
      BY <1>3, <2>4 DEF Finish
    <3>2. StepsLeft' = 0
      BY <3>1 DEF StepsLeft
    <3>3. StepsLeft > 0
      <4>1. OneSort \in Nat
        <5> DEFINE m == Len(order)
        <5>1. m \in Nat
          BY <1>3, <2>1, DoneIsShort
        <5>2. m * (m + 1) \in Nat
          <6> HIDE DEF m
          <6> QED
            BY <5>1
        <5> QED
          BY <5>1, <5>2 DEF OneSort
      <4> QED
        BY <2>1, <2>2, <4>1 DEF StepsLeft, Loops
    <3> QED
      BY <3>2, <3>3
  <2> QED
    BY <2>3, <2>4
<1>4. PInv /\ [Next]_vars => PInv'
  BY VisitInv, PopInv, FinishInv, StutterInv DEF Next
<1>5. PInv' => (StepsLeft \in Nat)'
  <2>1. PInv => StepsLeft \in Nat
    BY StepsAreLeft
  <2> QED
    BY <2>1, PTL
<1>6. PInv /\ PInv' /\ [Next]_vars => [StepsLeft' \in Nat /\ StepsLeft' < StepsLeft]_vars
  BY <1>1, <1>2, <1>3, <1>5 DEF Next
<1> QED
  BY <1>4, <1>6, Invariance, PTL DEF Spec
=============================================================================
