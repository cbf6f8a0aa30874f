------------------------------ MODULE Planning ------------------------------
(***************************************************************************)
(* The order in which a dataset is inserted and deleted.  The validator of *)
(* GenerationContract (contracts/models.py) accepts a contract if it can   *)
(* sort its record types along the relations; plan_destinations            *)
(* (destinations/planning.py) sorts them again, in its own way, inside the *)
(* transaction that inserts the rows, and raises if it cannot.             *)
(*                                                                         *)
(* Both are the same loop but for the order in which the children of a     *)
(* record type are looked at: by name in the validator, in the order of    *)
(* the contract in the planner.                                            *)
(***************************************************************************)
EXTENDS Integers, Sequences, FiniteSets, Functions

CONSTANTS
    RecordTypes,
    Sorted,       \* the record types by name
    Orders,       \* orders in which a contract may list them
    None

\* record_type values are unique.
IsOrder(q) ==
    /\ q \in Seq(RecordTypes)
    /\ \A n \in RecordTypes : \E i \in 1 .. Len(q) : q[i] = n
    /\ \A i, j \in 1 .. Len(q) : q[i] = q[j] => i = j

ASSUME PlanningAssumption ==
    /\ None \notin RecordTypes
    /\ IsOrder(Sorted)
    /\ \A q \in Orders : IsOrder(q)

VARIABLES
    order,      \* the record types as the contract lists them
    relations,  \* its relations, <<child, parent>>
    phase,      \* which loop runs, or how they ended
    pending,    \* [RecordTypes -> parents not sorted yet]
    ready,      \* queue of record types whose parents are sorted
    done,       \* visited in the validator, insert in the planner
    current,    \* the record type popped last
    next        \* the position the inner loop has come to

vars == <<order, relations, phase, pending, ready, done, current, next>>

\* A record type may refer to itself; such a relation is no edge.
Parents(n) == {m \in RecordTypes : m # n /\ <<n, m>> \in relations}
Children(m) == {n \in RecordTypes : m \in Parents(n)}

Loops == {"validate", "plan"}

\* Every variable keeps its type.
TypeOK ==
    /\ order \in Orders
    /\ relations \in SUBSET (RecordTypes \X RecordTypes)
    /\ phase \in Loops \cup {"planned", "rejected", "failed"}
    /\ pending \in [RecordTypes -> SUBSET RecordTypes]
    /\ ready \in Seq(RecordTypes)
    /\ done \in Seq(RecordTypes)
    /\ current \in RecordTypes \cup {None}
    /\ next \in 1 .. Len(order) + 1

\* Both loops start with all parents pending and nothing sorted.
Init ==
    /\ order \in Orders
    /\ relations \in SUBSET (RecordTypes \X RecordTypes)
    /\ phase = "validate"
    /\ pending = [n \in RecordTypes |-> Parents(n)]
    /\ ready = << >> /\ done = << >>
    /\ current = None /\ next = 1

\* What the inner loop runs through: first, to fill the queue, the contract.
Scanned == IF phase = "plan" \/ current = None THEN order ELSE Sorted

Queued(n) == n \in Range(ready) \/ n \in Range(done)

\* Fault: a child joins the queue after the first of its parents.
VisitEager ==
    /\ phase \in Loops
    /\ next <= Len(Scanned)
    /\ LET n == Scanned[next]
       IN  \/ /\ IF current = None THEN pending[n] = {} ELSE n \in Children(current)
              /\ pending' = [pending EXCEPT ![n] = @ \ {current}]
              /\ ready' = IF Queued(n) THEN ready ELSE Append(ready, n)
           \/ /\ IF current = None THEN pending[n] # {} ELSE n \notin Children(current)
              /\ UNCHANGED <<pending, ready>>
    /\ next' = next + 1
    /\ UNCHANGED <<order, relations, phase, done, current>>

\* One record type in the inner loop: a child of current waits for one parent
\* less, and joins the queue if it waits for none.
Visit ==
    /\ phase \in Loops
    /\ next <= Len(Scanned)
    /\ LET n == Scanned[next]
           left == pending[n] \ {current}
       IN  \/ /\ current = None \/ n \in Children(current)
              /\ pending' = [pending EXCEPT ![n] = left]
              /\ ready' = IF left = {} /\ ~Queued(n) THEN Append(ready, n) ELSE ready
           \/ /\ current # None /\ n \notin Children(current)
              /\ UNCHANGED <<pending, ready>>
    /\ next' = next + 1
    /\ UNCHANGED <<order, relations, phase, done, current>>

\* Fault: the inner loop counts from zero.
PopFromZero ==
    /\ phase \in Loops
    /\ next > Len(Scanned)
    /\ ready # << >>
    /\ current' = Head(ready)
    /\ ready' = Tail(ready)
    /\ done' = Append(done, Head(ready))
    /\ next' = 0
    /\ UNCHANGED <<order, relations, phase, pending>>

Pop ==
    /\ phase \in Loops
    /\ next > Len(Scanned)
    /\ ready # << >>
    /\ current' = Head(ready)
    /\ ready' = Tail(ready)
    /\ done' = Append(done, Head(ready))
    /\ next' = 1
    /\ UNCHANGED <<order, relations, phase, pending>>

\* Fault: the validator does not count what it sorted.
FinishUncounted ==
    /\ phase \in Loops
    /\ next > Len(Scanned)
    /\ ready = << >>
    /\ phase' = IF phase = "validate" THEN "plan" ELSE "planned"
    /\ pending' = [n \in RecordTypes |-> Parents(n)]
    /\ done' = << >>
    /\ current' = None /\ next' = 1
    /\ UNCHANGED <<order, relations, ready>>

\* Fault: the loop runs until everything is sorted, not until the queue is empty.
FinishWhenSorted ==
    /\ phase \in Loops
    /\ next > Len(Scanned)
    /\ Len(done) = Len(order)
    /\ phase' = IF phase = "validate" THEN "plan" ELSE "planned"
    /\ pending' = [n \in RecordTypes |-> Parents(n)]
    /\ done' = IF phase = "validate" THEN << >> ELSE done
    /\ current' = None /\ next' = 1
    /\ UNCHANGED <<order, relations, ready>>

\* The queue is empty.  An accepted contract is stored with the request, and
\* planned when its rows are inserted; done is then insert_order.
Finish ==
    /\ phase \in Loops
    /\ next > Len(Scanned)
    /\ ready = << >>
    /\ \/ /\ phase = "validate" /\ Len(done) = Len(order)
          /\ phase' = "plan"
          /\ pending' = [n \in RecordTypes |-> Parents(n)]
          /\ done' = << >>
          /\ current' = None /\ next' = 1
       \/ /\ phase = "validate" /\ Len(done) # Len(order)
          /\ phase' = "rejected"
          /\ UNCHANGED <<pending, done, current, next>>
       \/ /\ phase = "plan"
          /\ phase' = IF Len(done) = Len(order) THEN "planned" ELSE "failed"
          /\ UNCHANGED <<pending, done, current, next>>
    /\ UNCHANGED <<order, relations, ready>>

Next == Visit \/ Pop \/ Finish

Spec == Init /\ [][Next]_vars

-----------------------------------------------------------------------------

\* A graph is acyclic if every nonempty set of record types has one without a
\* parent in the set.
Acyclic ==
    \A S \in SUBSET RecordTypes : S # {} => \E n \in S : Parents(n) \cap S = {}

\* A contract is accepted exactly if its relations have no cycle, and a contract
\* that was accepted is planned: the error of planning.py:39, which nothing
\* handles inside the transaction, is never raised.
AcceptedIsPlanned ==
    /\ phase \in {"plan", "planned"} => Acyclic
    /\ phase = "rejected" => ~Acyclic
    /\ phase # "failed"

\* Rows are inserted after the rows they refer to: the plan grows as
\* DependencyOrder says, also while it is unfinished; deletion runs through it
\* backwards. (planning.py:28-37)
Plan == INSTANCE DependencyOrder WITH
            relations <- relations,
            insert_order <- IF phase \in {"plan", "planned", "failed"} THEN done ELSE << >>
ImplementsOrder == Plan!Spec

\* The loops only walk finite queues.
Fairness == WF_vars(Next)
FairSpec == Spec /\ Fairness

\* Validation and planning end.
PlanningEnds == <>(phase \in {"planned", "rejected"})
=============================================================================
