--------------------------- MODULE DependencyOrder ---------------------------
(***************************************************************************)
(* What a DestinationPlan (destinations/planning.py) promises of its       *)
(* insert_order: record types join it one at a time, each after all those  *)
(* it refers to, in an order that is otherwise open.                       *)
(***************************************************************************)
EXTENDS Sequences, Functions

CONSTANT RecordTypes

VARIABLES
    relations,     \* <<child, parent>>, never changed
    insert_order

\* A record type that refers to itself need not wait for itself.
ParentsOf(n) == {m \in RecordTypes : m # n /\ <<n, m>> \in relations}

Init == insert_order = << >>

\* The next record type: a new one whose parents are all there.
Add(n) ==
    /\ n \notin Range(insert_order)
    /\ ParentsOf(n) \subseteq Range(insert_order)
    /\ insert_order' = Append(insert_order, n)
    /\ UNCHANGED relations

Next == \E n \in RecordTypes : Add(n)

Spec == Init /\ [][Next]_<<relations, insert_order>>
=============================================================================
