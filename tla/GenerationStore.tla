--------------------------- MODULE GenerationStore ---------------------------
(***************************************************************************)
(* What GenerationRepository (persistence/models.py) promises, without     *)
(* processes, sessions, locks or retries: a store in which a generation    *)
(* and all its destination rows appear in one step, at most one generation *)
(* per tenant and idempotency key, and in which a deletion removes exactly *)
(* the rows its ledger names, in one step.                                 *)
(***************************************************************************)
EXTENDS Integers, Sequences, Functions

CONSTANTS Slots, Digests, RowIds, Parent, Dataset, GenIds, None, App

VARIABLES generations, generation_rows, rows

storeVars == <<generations, generation_rows, rows>>

Init ==
    /\ generations = [g \in GenIds |-> [state |-> "ABSENT", slot |-> None, digest |-> None]]
    /\ generation_rows = [g \in GenIds |-> << >>]
    /\ rows = [r \in RowIds |-> None]

\* A tenant's key that names no generation yet gets one, with all its rows.
Commit(g, slot, d) ==
    /\ generations[g].state = "ABSENT"
    /\ \A h \in GenIds : generations[h].state # "ABSENT" => generations[h].slot # slot
    /\ \A r \in Range(Dataset[d]) : rows[r] = None
    /\ generations' = [generations EXCEPT ![g] =
                         [state |-> "COMMITTED", slot |-> slot, digest |-> d]]
    /\ generation_rows' = [generation_rows EXCEPT ![g] = Dataset[d]]
    /\ rows' = [r \in RowIds |-> IF r \in Range(Dataset[d]) THEN g ELSE rows[r]]

\* All the rows of the ledger are there and no row outside it refers to them.
Delete(g) ==
    /\ generations[g].state = "COMMITTED"
    /\ \A r \in Range(generation_rows[g]) : rows[r] # None
    /\ \A c \in RowIds : (rows[c] # None /\ Parent[c] \in Range(generation_rows[g]))
                            => c \in Range(generation_rows[g])
    /\ generations' = [generations EXCEPT ![g].state = "DELETED"]
    /\ rows' = [r \in RowIds |-> IF r \in Range(generation_rows[g]) THEN None ELSE rows[r]]
    /\ UNCHANGED generation_rows

\* The application inserts, changes or deletes one row of its own tables.
Application(r) ==
    /\ \/ /\ rows[r] = None
          /\ Parent[r] # None => rows[Parent[r]] # None
          /\ rows' = [rows EXCEPT ![r] = App]
       \/ /\ rows[r] # None
          /\ rows' = [rows EXCEPT ![r] = App]
       \/ /\ \A c \in RowIds : Parent[c] = r => rows[c] = None
          /\ rows' = [rows EXCEPT ![r] = None]
    /\ UNCHANGED <<generations, generation_rows>>

Next ==
    \/ \E g \in GenIds, slot \in Slots, d \in Digests : Commit(g, slot, d)
    \/ \E g \in GenIds : Delete(g)
    \/ \E r \in RowIds : Application(r)

Spec == Init /\ [][Next]_storeVars
=============================================================================
