------------------------- MODULE InMemoryRepository -------------------------
(***************************************************************************)
(* The service on InMemoryGenerationRepository (persistence/in_memory.py), *)
(* the implementation of GenerationRepository that the repository's tests  *)
(* run, with threads and with seed_rows as the application.  Every method  *)
(* holds one lock, so a method is one step; the lock is free between       *)
(* find_idempotent and commit.                                             *)
(*                                                                         *)
(* Unlike in Database, rows carry the values of their fields, so keys and  *)
(* references are what the contract and the catalog say they are.  A field *)
(* is mapped to the column of its name.                                    *)
(***************************************************************************)
EXTENDS Dataset, FiniteSets, TLC

CONSTANTS
    Procs, Tenants, Keys, GenIds,
    Scenes,   \* [catalog, contents, threads, seeds]: what is asked for, by how
              \* many threads at once, and whether rows are seeded
    App       \* the key the application puts into its rows

\* A catalog is [types: [<<table, column>> -> type], required and unique: sets
\* of <<table, column>>, foreign: set of [from, to], both <<table, column>>].
\* Keys are of columns that are there and that rows have: one that no row has is
\* NULL in all of them, and its key never violated.  What is referred to is unique.
TablesOf(catalog) == {column[1] : column \in DOMAIN catalog.types}

AllTables == UNION {TablesOf(s.catalog) : s \in Scenes}
Slots == Tenants \X Keys

ASSUME SceneAssumption ==
    \A s \in Scenes :
        /\ \A content \in s.contents : ValidContent(content)
        /\ s.catalog.unique \subseteq DOMAIN s.catalog.types \cap (TablesOf(s.catalog) \X Fields)
        /\ \A fk \in s.catalog.foreign : /\ fk.from \in DOMAIN s.catalog.types
                                       /\ fk.to \in s.catalog.unique
        /\ s.threads \in Nat /\ s.seeds \in BOOLEAN

ASSUME IdAssumption == None \notin GenIds

VARIABLES
    scene,            \* what this behaviour is about
    rows,             \* [Tenants -> [AllTables -> Seq of rows]]
    generations,      \* [GenIds -> result]
    idempotency,      \* [Slots -> generation id]
    request_digests,  \* [Slots -> content]
    written,          \* [GenIds -> ledger]
    seeded,           \* tenants whose rows somebody else has changed
    req,              \* [Procs -> the POST between its lookup and its commit]
    answer            \* the outcome of the last request that was answered

store == <<rows, generations, idempotency, request_digests, written>>
vars == <<scene, store, seeded, req, answer>>

catalog == scene.catalog

NoResult == [state |-> "ABSENT", slot |-> None, content |-> None]
NoRequest == [slot |-> None, content |-> None]

Init ==
    /\ scene \in Scenes
    /\ rows = [t \in Tenants |-> [table \in AllTables |-> << >>]]
    /\ generations = [g \in GenIds |-> NoResult]
    /\ idempotency = [slot \in Slots |-> None]
    /\ request_digests = [slot \in Slots |-> None]
    /\ written = [g \in GenIds |-> << >>]
    /\ seeded = {}
    /\ req = [p \in Procs |-> NoRequest]
    /\ answer = "none"

-----------------------------------------------------------------------------
(* POST *)

Absent == {g \in GenIds : generations[g].state = "ABSENT"}

UnderWay == Cardinality({p \in Procs : req[p] # NoRequest})

\* Bounds: every POST under way can have an id, and a scene has its threads.
Free == UnderWay < Cardinality(Absent) /\ UnderWay < scene.threads

Replayed(slot, content) ==
    IF request_digests[slot] = content THEN "REPLAYED" ELSE "IDEMPOTENCY_KEY_REUSED"

\* create_generation up to commit(): the lookup, and the dataset or a refusal.
Post(p, slot, content) ==
    /\ req[p] = NoRequest
    /\ \/ /\ idempotency[slot] # None
          /\ answer' = Replayed(slot, content)
          /\ UNCHANGED req
       \/ /\ idempotency[slot] = None
          /\ Outcome(content) # "ok"
          /\ answer' = Outcome(content)
          /\ UNCHANGED req
       \/ /\ idempotency[slot] = None
          /\ Outcome(content) = "ok"
          /\ Free
          /\ req' = [req EXCEPT ![p] = [slot |-> slot, content |-> content]]
          /\ answer' = "none"
    /\ UNCHANGED <<scene, store, seeded>>

\* The rows of a dataset, record type by record type, each with what its ledger
\* entry says of it but the ordinal.
Ordered(content, plan) ==
    LET dataset == Generated(content)
        Entry(k, row) ==
            [table |-> content.contract.dest[plan[k]], row |-> row,
             key |-> [f \in content.contract.keys[plan[k]] |-> row[f]],
             types |-> [f \in Fields |-> content.contract.spec[<<plan[k], f>>].type],
             rank |-> Len(plan) - k]
    IN  FlattenSeq([k \in DOMAIN plan |->
            [i \in DOMAIN dataset[plan[k]] |-> Entry(k, dataset[plan[k]][i])]])

\* Fault: the rows in delete order.
InsertOrderReversed(content) == Ordered(content, Reverse(content.contract.plan))

InsertOrder(content) == Ordered(content, content.contract.plan)

\* The catalog has the table, and what is written has its required columns, of
\* their types; a required column may be NULL.
Declared(new) ==
    /\ new.table \in TablesOf(catalog)
    /\ \A column \in catalog.required : column[1] = new.table => column[2] \in Fields
    /\ \A f \in Fields : catalog.types[<<new.table, f>>] = new.types[f]

\* _enforce_database_write: what a foreign key requires is already staged.
Refers(staged, table, row) ==
    \A fk \in catalog.foreign : (fk.from[1] = table /\ row[fk.from[2]] # None) =>
        \E target \in Range(staged[fk.to[1]]) : target[fk.to[2]] = row[fk.from[2]]

\* Fault: NULL is a value like others.
TakenEvenNull(staged, table, row) ==
    \E key \in catalog.unique : /\ key[1] = table
                                /\ \E other \in Range(staged[table]) : other[key[2]] = row[key[2]]

\* _conflicts
Taken(staged, table, row) ==
    \E key \in catalog.unique : /\ key[1] = table /\ row[key[2]] # None
                                /\ \E other \in Range(staged[table]) : other[key[2]] = row[key[2]]

Stage(acc, new) ==
    [acc EXCEPT !.staged[new.table] = Append(@, new.row),
                !.ledger = Append(@, [table |-> new.table, key |-> new.key,
                                      rank |-> new.rank, ordinal |-> Len(@)])]

\* Fault: a row whose key is taken is left out.
InsertOrSkip(acc, new) ==
    IF acc.code # "ok" \/ Taken(acc.staged, new.table, new.row) THEN acc
    ELSE IF ~Declared(new) THEN [acc EXCEPT !.code = "DESTINATION_INVALID"]
    ELSE IF ~Refers(acc.staged, new.table, new.row) THEN [acc EXCEPT !.code = "DESTINATION_CONFLICT"]
    ELSE Stage(acc, new)

\* One row of the loop of commit(), on the staged copy.
Insert(acc, new) ==
    IF acc.code # "ok" THEN acc
    ELSE IF ~Declared(new) THEN [acc EXCEPT !.code = "DESTINATION_INVALID"]
    ELSE IF ~Refers(acc.staged, new.table, new.row) \/ Taken(acc.staged, new.table, new.row)
         THEN [acc EXCEPT !.code = "DESTINATION_CONFLICT"]
    ELSE Stage(acc, new)

Inserted(tenant, content) ==
    FoldLeft(Insert, [staged |-> rows[tenant], ledger |-> << >>, code |-> "ok"],
             InsertOrder(content))

\* Past the deadline nothing is committed.
Late(p) ==
    /\ req[p] # NoRequest
    /\ req' = [req EXCEPT ![p] = NoRequest]
    /\ answer' = "DEPENDENCY_UNAVAILABLE"
    /\ UNCHANGED <<scene, store, seeded>>

\* Everything a successful commit() replaces.
Publish(g, slot, content, done) ==
    /\ rows' = [rows EXCEPT ![slot[1]] = done.staged]
    /\ generations' = [generations EXCEPT ![g] =
          [state |-> "COMMITTED", slot |-> slot, content |-> content]]
    /\ idempotency' = [idempotency EXCEPT ![slot] = g]
    /\ request_digests' = [request_digests EXCEPT ![slot] = content]
    /\ written' = [written EXCEPT ![g] = done.ledger]
    /\ answer' = "CREATED"

\* Fault: commit() trusts the lookup of create_generation.
CommitUnchecked(p) ==
    LET done == Inserted(req[p].slot[1], req[p].content)
    IN  /\ req[p] # NoRequest
        /\ done.code = "ok"
        /\ \E g \in Absent : Publish(g, req[p].slot, req[p].content, done)
        /\ req' = [req EXCEPT ![p] = NoRequest]
        /\ UNCHANGED <<scene, seeded>>

\* commit(): the key again, the rows on a copy, and everything at once.
Commit(p) ==
    LET slot == req[p].slot
        done == Inserted(slot[1], req[p].content)
    IN  /\ req[p] # NoRequest
        /\ req' = [req EXCEPT ![p] = NoRequest]
        /\ \/ /\ idempotency[slot] # None
              /\ answer' = Replayed(slot, req[p].content)
              /\ UNCHANGED store
           \/ /\ idempotency[slot] = None /\ done.code # "ok"
              /\ answer' = done.code
              /\ UNCHANGED store
           \/ /\ idempotency[slot] = None /\ done.code = "ok"
              /\ \E g \in Absent : Publish(g, slot, req[p].content, done)
        /\ UNCHANGED <<scene, seeded>>

-----------------------------------------------------------------------------
(* GET and DELETE *)

\* The dictionaries are keyed by tenant and generation.
Known(tenant, g) == g \notin Absent /\ generations[g].slot[1] = tenant

Get(p, tenant, g) ==
    /\ req[p] = NoRequest
    /\ answer' = IF Known(tenant, g) THEN "OK" ELSE "GENERATION_NOT_FOUND"
    /\ UNCHANGED <<scene, store, seeded, req>>

\* Fault: references from other tables are not looked for.
HasReferenceHere(staged, table, row) ==
    \E fk \in catalog.foreign :
        /\ fk.to[1] = table /\ fk.from[1] = table
        /\ \E other \in Range(staged[table]) : other[fk.from[2]] = row[fk.to[2]]

\* _has_reference: NULL counts as equal to NULL, and a row may refer to itself.
HasReference(staged, table, row) ==
    \E fk \in catalog.foreign :
        /\ fk.to[1] = table
        /\ \E other \in Range(staged[fk.from[1]]) : other[fk.from[2]] = row[fk.to[2]]

\* Fault: the ledger in the order it was written.
DeleteOrderWritten(g) == written[g]

\* By rank, and the rows of a record type from the last to the first.
DeleteOrder(g) ==
    LET ledger == Range(written[g])
        Before(w) == {v \in ledger :
                         v.rank < w.rank \/ (v.rank = w.rank /\ v.ordinal > w.ordinal)}
    IN  [k \in DOMAIN written[g] |-> CHOOSE w \in ledger : Cardinality(Before(w)) = k - 1]

Matches(staged, w) ==
    {i \in DOMAIN staged[w.table] : \A f \in DOMAIN w.key : staged[w.table][i][f] = w.key[f]}

\* Fault: the first of several rows with the key is deleted.
DeleteFirst(acc, w) ==
    LET matches == Matches(acc.staged, w)
        i == CHOOSE i \in matches : \A j \in matches : i <= j
    IN  IF acc.code # "ok" THEN acc
        ELSE IF matches = {} \/ HasReference(acc.staged, w.table, acc.staged[w.table][i])
             THEN [acc EXCEPT !.code = "DELETE_CONFLICT"]
        ELSE [acc EXCEPT !.staged[w.table] = RemoveAt(@, i)]

\* One row of the loop of delete(), on the staged copy.
DeleteRow(acc, w) ==
    LET matches == Matches(acc.staged, w)
        i == CHOOSE i \in matches : TRUE
    IN  IF acc.code # "ok" THEN acc
        ELSE IF \/ Cardinality(matches) # 1
                \/ HasReference(acc.staged, w.table, acc.staged[w.table][i])
             THEN [acc EXCEPT !.code = "DELETE_CONFLICT"]
        ELSE [acc EXCEPT !.staged[w.table] = RemoveAt(@, i)]

Removed(tenant, g) ==
    FoldLeft(DeleteRow, [staged |-> rows[tenant], code |-> "ok"], DeleteOrder(g))

\* Fault: the generation goes with its rows.
Forgotten(g) == [generations EXCEPT ![g] = None]

\* The result stays, with its new state.
Deleted(g) == [generations EXCEPT ![g].state = "DELETED"]

\* delete(): all of the ledger on a copy, or nothing.
Delete(p, tenant, g) ==
    /\ req[p] = NoRequest
    /\ \/ /\ ~Known(tenant, g)
          /\ answer' = "GENERATION_NOT_FOUND"
          /\ UNCHANGED store
       \/ /\ Known(tenant, g) /\ generations[g].state = "DELETED"
          /\ answer' = "OK"
          /\ UNCHANGED store
       \/ /\ Known(tenant, g) /\ generations[g].state = "COMMITTED"
          /\ Removed(tenant, g).code # "ok"
          /\ answer' = "DELETE_CONFLICT"
          /\ UNCHANGED store
       \/ /\ Known(tenant, g) /\ generations[g].state = "COMMITTED"
          /\ Removed(tenant, g).code = "ok"
          /\ rows' = [rows EXCEPT ![tenant] = Removed(tenant, g).staged]
          /\ generations' = Deleted(g)
          /\ answer' = "OK"
          /\ UNCHANGED <<idempotency, request_digests, written>>
    /\ UNCHANGED <<scene, seeded, req>>

-----------------------------------------------------------------------------
(* The application *)

\* What tests seed a table with: its rows less one, with one that a dataset has
\* too, with one of their own or one changed, so that it refers to a row that is
\* there.
Reseeded(tenant, table) ==
    LET now == rows[tenant][table]
        targets == {row["id"] : row \in UNION {Range(rows[tenant][t]) : t \in AllTables}}
        drawn == {n.row : n \in {m \in UNION {Range(InsertOrder(content)) : content \in scene.contents} :
                                     m.table = table}}
    IN  {RemoveAt(now, i) : i \in DOMAIN now}
        \cup {Append(now, row) : row \in drawn}
        \cup {Append(now, [f \in Fields |-> IF f = "id" THEN App ELSE v]) : v \in targets}
        \cup UNION {{[now EXCEPT ![i]["ref"] = v] : v \in targets} : i \in DOMAIN now}

\* Bound: a tenant's rows are seeded once, if the scene says so.
SeedRows(tenant, table) ==
    /\ scene.seeds /\ tenant \notin seeded
    /\ \E now \in Reseeded(tenant, table) : rows' = [rows EXCEPT ![tenant][table] = now]
    /\ seeded' = seeded \cup {tenant}
    /\ UNCHANGED <<scene, generations, idempotency, request_digests, written, req, answer>>

Next ==
    \/ \E p \in Procs :
          \/ \E slot \in Slots, content \in scene.contents : Post(p, slot, content)
          \/ Late(p)
          \/ Commit(p)
          \/ \E tenant \in Tenants, g \in GenIds : Get(p, tenant, g) \/ Delete(p, tenant, g)
    \/ \E tenant \in Tenants, table \in TablesOf(catalog) : SeedRows(tenant, table)

Spec == Init /\ [][Next]_vars
=============================================================================
