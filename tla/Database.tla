------------------------------ MODULE Database ------------------------------
(***************************************************************************)
(* The KingbaseES database as the service uses it: the two tables of       *)
(* migration 0003 (generations and generation_rows), the caller's          *)
(* destination tables, and the server side of the transactions that        *)
(* src/juntai_synthetic_data/persistence/sql_repository.py opens.      *)
(*                                                                         *)
(* A session runs at most one transaction.  Its writes stay private in     *)
(* tx[s] until the server executes COMMIT, and the locks it took (advisory *)
(* lock, row lock of SELECT ... FOR UPDATE, row locks of its inserts and   *)
(* deletes) are held until it ends.  A session outlives its client: after  *)
(* a broken connection the server may still execute a COMMIT it received,  *)
(* or notice and roll back.                                                *)
(***************************************************************************)
EXTENDS Integers, Sequences, FiniteSets, Functions

CONSTANTS
    Procs,        \* service processes; each serves one request at a time
    Sessions,     \* server sessions (max_connections)
    Tenants, Keys, Digests,
    RowIds,       \* <<table, key>> of every destination row considered
    Parent,       \* [RowIds -> RowIds \cup {None}]: the row a foreign key refers to;
                  \* None also if that is the row itself, which constrains nothing
    Dataset,      \* [Digests -> Seq(RowIds)]: rows generated, in insert order
    GenIds,       \* the values uuid4 draws
    LockIds,
    AdvisoryKey,  \* [Slots -> LockIds]: SHA-256 prefix of tenant and key
    AppOps,       \* which statements the owning application issues
    None, App

\* An idempotency key is scoped to its tenant: UNIQUE (tenant_id, idempotency_key).
Slots == Tenants \X Keys

ASSUME DatabaseAssumption ==
    /\ AdvisoryKey \in [Slots -> LockIds]
    /\ Parent \in [RowIds -> RowIds \cup {None}]
    /\ \A r \in RowIds : Parent[r] # r
    /\ Dataset \in [Digests -> Seq(RowIds)]
    /\ None \notin GenIds \cup RowIds \cup LockIds \cup Procs \cup Sessions
    /\ None \notin Tenants \cup Digests \cup Slots
    /\ App \notin GenIds \cup {None}

VARIABLES
    generations,      \* [GenIds -> row of juntai_synthetic_data.generations]
    generation_rows,  \* [GenIds -> its written-key ledger, by insert_ordinal]
    rows,             \* [RowIds -> who wrote the row that is there, or None]
    access,           \* [RowIds -> what the destination answers a statement]
    tx                \* [Sessions -> server session]

dbVars == <<generations, generation_rows, rows, access, tx>>

NoGeneration == [state |-> "ABSENT", slot |-> None, digest |-> None]

GenerationRow ==
    [state  : {"ABSENT", "COMMITTED", "DELETED"},
     slot   : Slots \cup {None},
     digest : Digests \cup {None}]

Access == {"ok", "DESTINATION_INVALID", "DESTINATION_FORBIDDEN"}

\* new/slot/digest/ledger: the evidence rows inserted; upd: the generation
\* locked FOR UPDATE; ins/del: destination rows inserted and deleted so far.
Session ==
    [st     : {"closed", "open", "commit", "done"},
     client : Procs \cup {None},
     lock   : LockIds \cup {None},
     upd    : GenIds \cup {None},
     new    : GenIds \cup {None},
     slot   : Slots \cup {None},
     digest : Digests \cup {None},
     ledger : Seq(RowIds),
     ins    : SUBSET RowIds,
     del    : SUBSET RowIds]

Blank(st, client) ==
    [st |-> st, client |-> client, lock |-> None, upd |-> None, new |-> None,
     slot |-> None, digest |-> None, ledger |-> << >>, ins |-> {}, del |-> {}]

Closed == Blank("closed", None)

DbTypeOK ==
    /\ generations \in [GenIds -> GenerationRow]
    /\ generation_rows \in [GenIds -> Seq(RowIds)]
    /\ rows \in [RowIds -> GenIds \cup {App, None}]
    /\ access \in [RowIds -> Access]
    /\ tx \in [Sessions -> Session]

DbInit ==
    /\ generations = [g \in GenIds |-> NoGeneration]
    /\ generation_rows = [g \in GenIds |-> << >>]
    /\ rows = [r \in RowIds |-> None]
    /\ access = [r \in RowIds |-> "ok"]
    /\ tx = [s \in Sessions |-> Closed]

-----------------------------------------------------------------------------
(* Reads and locks *)

\* Fault: a deleted generation frees its key (WHERE state = 'COMMITTED').
ExistingCommitted(slot) ==
    {g \in GenIds : generations[g].state = "COMMITTED" /\ generations[g].slot = slot}

\* The committed generation of a tenant's idempotency key (READ COMMITTED:
\* every statement sees what is committed when it starts).
Existing(slot) ==
    {g \in GenIds : generations[g].state # "ABSENT" /\ generations[g].slot = slot}

Others(s) == Sessions \ {s}

Held(s) == tx[s].ins \cup tx[s].del

\* Does session s see row r: committed or its own, and not deleted by itself?
Sees(s, r) == (rows[r] # None \/ r \in tx[s].ins) /\ r \notin tx[s].del

Children(r) == {c \in RowIds : Parent[c] = r}

\* Whom an INSERT of r waits for: the unique index waits for a transaction that
\* inserted or deleted r, the foreign key for one that deleted its parent.
InsertBlockers(s, r) ==
    {t \in Others(s) : r \in Held(t) \/ Parent[r] \in tx[t].del}

\* Whom a DELETE of r waits for; a row it cannot see makes it wait for nobody.
DeleteBlockers(s, r) ==
    IF rows[r] = None THEN {}
    ELSE {t \in Others(s) : r \in tx[t].del \/ Children(r) \cap Held(t) # {}}

LockFree(s, lock) == \A t \in Others(s) : tx[t].lock # lock

-----------------------------------------------------------------------------
(* What the server does by itself *)

\* COMMIT: all the writes of the transaction become visible together and all
\* its locks are released.  The answer goes to the client, if it is still there.
ServerCommit(s) ==
    /\ tx[s].st = "commit"
    /\ generations' =
         [g \in GenIds |->
            IF g = tx[s].new
            THEN [state |-> "COMMITTED", slot |-> tx[s].slot, digest |-> tx[s].digest]
            ELSE IF g = tx[s].upd THEN [generations[g] EXCEPT !.state = "DELETED"]
            ELSE generations[g]]
    /\ generation_rows' =
         [g \in GenIds |-> IF g = tx[s].new THEN tx[s].ledger ELSE generation_rows[g]]
    /\ rows' =
         [r \in RowIds |-> IF r \in tx[s].ins THEN tx[s].new
                           ELSE IF r \in tx[s].del THEN None
                           ELSE rows[r]]
    /\ tx' = [tx EXCEPT ![s] = IF tx[s].client = None THEN Closed
                               ELSE Blank("done", tx[s].client)]
    /\ UNCHANGED access

\* The server notices that the client of an unfinished transaction is gone.
ServerAbort(s) ==
    /\ tx[s].st \in {"open", "commit"}
    /\ tx[s].client = None
    /\ tx' = [tx EXCEPT ![s] = Closed]
    /\ UNCHANGED <<generations, generation_rows, rows, access>>

\* The sessions after process p lost its connection (or died): a finished
\* transaction is over, an unfinished one has no client any more.
Detached(p) ==
    [s \in Sessions |->
        IF tx[s].client # p THEN tx[s]
        ELSE IF tx[s].st = "done" THEN Closed
        ELSE [tx[s] EXCEPT !.client = None]]

-----------------------------------------------------------------------------
(* The application that owns the destination tables, one statement at a time *)

AppInsert(r) ==
    /\ "insert" \in AppOps
    /\ rows[r] = None
    /\ Parent[r] # None => rows[Parent[r]] # None
    /\ \A t \in Sessions : r \notin Held(t) /\ Parent[r] \notin tx[t].del
    /\ rows' = [rows EXCEPT ![r] = App]
    /\ UNCHANGED <<generations, generation_rows, access, tx>>

\* An update of columns outside the key: the content is the application's now.
AppUpdate(r) ==
    /\ "update" \in AppOps
    /\ rows[r] \in GenIds
    /\ \A t \in Sessions : r \notin Held(t)
    /\ rows' = [rows EXCEPT ![r] = App]
    /\ UNCHANGED <<generations, generation_rows, access, tx>>

AppDelete(r) ==
    /\ "delete" \in AppOps
    /\ rows[r] # None
    /\ \A c \in Children(r) : rows[c] = None
    /\ \A t \in Sessions : Held(t) \cap ({r} \cup Children(r)) = {}
    /\ rows' = [rows EXCEPT ![r] = None]
    /\ UNCHANGED <<generations, generation_rows, access, tx>>

\* A destination table or a grant on it is altered; DDL waits for row locks.
AppAlter(r) ==
    /\ "alter" \in AppOps
    /\ \A t \in Sessions : r \notin Held(t)
    /\ \E a \in Access \ {access[r]} : access' = [access EXCEPT ![r] = a]
    /\ UNCHANGED <<generations, generation_rows, rows, tx>>

DbNext ==
    \/ \E s \in Sessions : ServerCommit(s) \/ ServerAbort(s)
    \/ \E r \in RowIds : AppInsert(r) \/ AppUpdate(r) \/ AppDelete(r) \/ AppAlter(r)
=============================================================================
