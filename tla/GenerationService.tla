-------------------------- MODULE GenerationService --------------------------
(***************************************************************************)
(* service.py over persistence/sql_repository.py: POST, GET and DELETE of  *)
(* /v1/generations, served by several processes against one database.      *)
(*                                                                         *)
(* A process serves one request at a time: the handlers of api/routes.py   *)
(* call the synchronous service on the event loop.  pc[p] is the statement *)
(* it executes next, one action per database statement, so that two        *)
(* processes interleave wherever the server lets them.                     *)
(***************************************************************************)
EXTENDS Database

CONSTANTS
    ClientOps,      \* the requests clients send, a subset of {"post", "get", "delete"}
    Refusal,        \* [Digests -> ErrorCode of policy or provider, or "none"]
    RetryAttempts   \* retry_attempts of SqlGenerationRepository

ASSUME ServiceAssumption ==
    /\ RetryAttempts \in 1 .. 10
    /\ Refusal \in [Digests -> {"none", "PROVIDER_UNSUPPORTED", "CONTRACT_INVALID",
                                "OUTPUT_LIMIT_EXCEEDED"}]

VARIABLES
    pc,       \* [Procs -> next statement]
    req,      \* [Procs -> the request served, or the last one]
    attempt,  \* [Procs -> iteration of the loop in _retry]
    handled,  \* [Procs -> destination rows written or deleted in this attempt]
    answer,   \* [Procs -> what the client of req[p] was told]
    issued    \* [GenIds -> the slot of the call that drew the id, or None]

serviceVars == <<pc, req, attempt, handled, answer, issued>>
vars == <<generations, generation_rows, rows, access, tx,
          pc, req, attempt, handled, answer, issued>>

ErrorCode ==
    {"CONTRACT_INVALID", "PROVIDER_UNSUPPORTED", "OUTPUT_LIMIT_EXCEEDED",
     "DESTINATION_INVALID", "DESTINATION_FORBIDDEN", "DESTINATION_CONFLICT",
     "DEPENDENCY_UNAVAILABLE", "IDEMPOTENCY_KEY_REUSED",
     "GENERATION_NOT_FOUND", "DELETE_CONFLICT"}

\* 201, 200 of a replayed POST, and 200 of GET and DELETE.
Success == {"CREATED", "REPLAYED", "OK"}

Request ==
    [op : {"none", "post", "get", "delete"},
     tenant : Tenants \cup {None}, key : Keys \cup {None},
     digest : Digests \cup {None}, gen : GenIds \cup {None}]

\* state is the "state" of the GenerationResult in the body of a success.
Answer ==
    [code : Success \cup ErrorCode \cup {"none"}, gen : GenIds \cup {None},
     state : {"ABSENT", "COMMITTED", "DELETED"}]

Refused(code) == [code |-> code, gen |-> None, state |-> "ABSENT"]
NoAnswer == Refused("none")
NoRequest == [op |-> "none", tenant |-> None, key |-> None, digest |-> None, gen |-> None]

Slot(p) == <<req[p].tenant, req[p].key>>

Labels == {"idle", "find", "generate", "connect", "lock", "recheck", "insert",
           "select", "delete", "commit", "get"}

ServiceTypeOK ==
    /\ pc \in [Procs -> Labels]
    /\ req \in [Procs -> Request]
    /\ attempt \in [Procs -> 1 .. RetryAttempts]
    /\ handled \in [Procs -> Seq(RowIds)]
    /\ answer \in [Procs -> Answer]
    /\ issued \in [GenIds -> Slots \cup {None}]

\* Every variable keeps its type.
TypeOK == DbTypeOK /\ ServiceTypeOK

Init ==
    /\ DbInit
    /\ pc = [p \in Procs |-> "idle"]
    /\ req = [p \in Procs |-> NoRequest]
    /\ attempt = [p \in Procs |-> 1]
    /\ handled = [p \in Procs |-> << >>]
    /\ answer = [p \in Procs |-> NoAnswer]
    /\ issued = [g \in GenIds |-> None]

-----------------------------------------------------------------------------
(* Control flow *)

Goto(p, label) == pc' = [pc EXCEPT ![p] = label]

Reply(p, a) ==
    /\ Goto(p, "idle")
    /\ answer' = [answer EXCEPT ![p] = a]
    /\ handled' = [handled EXCEPT ![p] = << >>]
    /\ UNCHANGED <<req, attempt, issued>>

\* Leaving `with connection.transaction()`, by return or exception, ends the
\* transaction of session s: nothing it wrote stays, all its locks are free.
ReplyAndClose(p, s, a) ==
    /\ tx' = [tx EXCEPT ![s] = Closed]
    /\ Reply(p, a)
    /\ UNCHANGED <<generations, generation_rows, rows, access>>

\* Bound: a POST is accepted only while an unused generation id is left for it.
IdsLeft ==
    Cardinality({g \in GenIds : issued[g] = None})
        > Cardinality({p \in Procs : pc[p] \in {"find", "generate"}})

Accept(p, r, label) ==
    /\ pc[p] = "idle"
    /\ r.op \in ClientOps
    /\ Goto(p, label)
    /\ req' = [req EXCEPT ![p] = r]
    /\ attempt' = [attempt EXCEPT ![p] = 1]
    /\ answer' = [answer EXCEPT ![p] = NoAnswer]
    /\ UNCHANGED <<generations, generation_rows, rows, access, tx, handled, issued>>

AcceptPost(p) ==
    /\ IdsLeft
    /\ \E t \in Tenants, k \in Keys, d \in Digests :
          Accept(p, [op |-> "post", tenant |-> t, key |-> k, digest |-> d, gen |-> None],
                 "find")

AcceptGet(p) ==
    \E t \in Tenants, g \in GenIds :
        Accept(p, [op |-> "get", tenant |-> t, key |-> None, digest |-> None, gen |-> g],
               "get")

AcceptDelete(p) ==
    \E t \in Tenants, g \in GenIds :
        Accept(p, [op |-> "delete", tenant |-> t, key |-> None, digest |-> None, gen |-> g],
               "connect")

-----------------------------------------------------------------------------
(* POST: create_generation and SqlGenerationRepository.commit *)

\* Fault: the digest of the request is not compared.
ReplayedWhatever(p, g) == [code |-> "REPLAYED", gen |-> g, state |-> generations[g].state]

\* What an existing generation of the key means for the request.
Replayed(p, g) ==
    IF generations[g].digest = req[p].digest
    THEN [code |-> "REPLAYED", gen |-> g, state |-> generations[g].state]
    ELSE Refused("IDEMPOTENCY_KEY_REUSED")

\* find_idempotent in a transaction of its own, before anything is generated.
FindIdempotent(p) ==
    /\ pc[p] = "find"
    /\ \/ /\ Existing(Slot(p)) = {}
          /\ Goto(p, "generate")
          /\ UNCHANGED <<req, attempt, handled, answer, issued>>
       \/ \E g \in Existing(Slot(p)) : Reply(p, Replayed(p, g))
    /\ UNCHANGED dbVars

\* Policy, provider selection and generation either refuse the request, run
\* past maximum_runtime_seconds, or yield the dataset and a new id.
Generate(p) ==
    /\ pc[p] = "generate"
    /\ \/ /\ Refusal[req[p].digest] # "none"
          /\ Reply(p, Refused(Refusal[req[p].digest]))
       \/ /\ Refusal[req[p].digest] = "none"
          /\ Reply(p, Refused("DEPENDENCY_UNAVAILABLE"))
       \/ /\ Refusal[req[p].digest] = "none"
          /\ \E g \in GenIds :
                /\ issued[g] = None
                /\ issued' = [issued EXCEPT ![g] = Slot(p)]
                /\ req' = [req EXCEPT ![p].gen = g]
          /\ Goto(p, "connect")
          /\ attempt' = [attempt EXCEPT ![p] = 1]
          /\ UNCHANGED <<handled, answer>>
    /\ UNCHANGED dbVars

\* An attempt of commit() or delete() opens a connection and a transaction.
Connect(p) ==
    /\ pc[p] = "connect"
    /\ \E s \in Sessions :
          /\ tx[s].st = "closed"
          /\ tx' = [tx EXCEPT ![s] = Blank("open", p)]
    /\ Goto(p, IF req[p].op = "post" THEN "lock" ELSE "select")
    /\ handled' = [handled EXCEPT ![p] = << >>]
    /\ UNCHANGED <<generations, generation_rows, rows, access, req, attempt, answer, issued>>

\* Fault: commit() takes no lock.
NoLock(p, s) ==
    /\ pc[p] = "lock"
    /\ tx' = [tx EXCEPT ![s].lock = AdvisoryKey[Slot(p)]]
    /\ Goto(p, "recheck")
    /\ UNCHANGED <<generations, generation_rows, rows, access,
                   req, attempt, handled, answer, issued>>

\* SELECT pg_advisory_xact_lock(...)
AcquireLock(p, s) ==
    /\ pc[p] = "lock"
    /\ LockFree(s, AdvisoryKey[Slot(p)])
    /\ tx' = [tx EXCEPT ![s].lock = AdvisoryKey[Slot(p)]]
    /\ Goto(p, "recheck")
    /\ UNCHANGED <<generations, generation_rows, rows, access,
                   req, attempt, handled, answer, issued>>

\* Fault: commit() trusts the lookup of create_generation.
NoRecheck(p, s) ==
    /\ pc[p] = "recheck"
    /\ Goto(p, "insert")
    /\ UNCHANGED <<generations, generation_rows, rows, access, tx,
                   req, attempt, handled, answer, issued>>

\* Fault: the second lookup runs on a connection of its own, which takes the lock.
RecheckElsewhere(p, s) ==
    /\ pc[p] = "recheck"
    /\ \A t \in Sessions : tx[t].lock # AdvisoryKey[Slot(p)]
    /\ Existing(Slot(p)) = {}
    /\ Goto(p, "insert")
    /\ UNCHANGED <<generations, generation_rows, rows, access, tx,
                   req, attempt, handled, answer, issued>>

\* The second lookup, under the lock.
Recheck(p, s) ==
    /\ pc[p] = "recheck"
    /\ \/ /\ Existing(Slot(p)) = {}
          /\ Goto(p, "insert")
          /\ UNCHANGED <<generations, generation_rows, rows, access, tx,
                         req, attempt, handled, answer, issued>>
       \/ \E g \in Existing(Slot(p)) : ReplyAndClose(p, s, Replayed(p, g))

\* The row the INSERT loop of p comes to next.
ToInsert(p) == Dataset[req[p].digest][Len(handled[p]) + 1]

\* How the database answers the INSERT of row r in session s.
InsertOutcome(s, r) ==
    IF access[r] # "ok" THEN access[r]
    ELSE IF Sees(s, r) \/ (Parent[r] # None /\ ~Sees(s, Parent[r]))
         THEN "DESTINATION_CONFLICT"
    ELSE "ok"

\* Fault: INSERT ... ON CONFLICT DO NOTHING.
InsertRowOrSkip(p, s) ==
    /\ pc[p] = "insert"
    /\ Len(handled[p]) < Len(Dataset[req[p].digest])
    /\ InsertBlockers(s, ToInsert(p)) = {}
    /\ tx' = [tx EXCEPT ![s].ins = IF rows[ToInsert(p)] = None THEN @ \cup {ToInsert(p)} ELSE @]
    /\ handled' = [handled EXCEPT ![p] = Append(@, ToInsert(p))]
    /\ UNCHANGED <<generations, generation_rows, rows, access, pc, req, attempt, answer, issued>>

\* Fault: each INSERT commits by itself (an autocommit connection).
InsertRowAutocommit(p, s) ==
    /\ pc[p] = "insert"
    /\ Len(handled[p]) < Len(Dataset[req[p].digest])
    /\ InsertBlockers(s, ToInsert(p)) = {}
    /\ InsertOutcome(s, ToInsert(p)) = "ok"
    /\ rows' = [rows EXCEPT ![ToInsert(p)] = req[p].gen]
    /\ handled' = [handled EXCEPT ![p] = Append(@, ToInsert(p))]
    /\ UNCHANGED <<generations, generation_rows, access, tx, pc, req, attempt, answer, issued>>

\* One INSERT of the loop over plan.insert_order, and its ledger entry.
InsertRow(p, s) ==
    /\ pc[p] = "insert"
    /\ Len(handled[p]) < Len(Dataset[req[p].digest])
    /\ InsertBlockers(s, ToInsert(p)) = {}
    /\ \/ /\ InsertOutcome(s, ToInsert(p)) = "ok"
          /\ tx' = [tx EXCEPT ![s].ins = @ \cup {ToInsert(p)}]
          /\ handled' = [handled EXCEPT ![p] = Append(@, ToInsert(p))]
          /\ UNCHANGED <<generations, generation_rows, rows, access,
                         pc, req, attempt, answer, issued>>
       \/ /\ InsertOutcome(s, ToInsert(p)) # "ok"
          /\ ReplyAndClose(p, s, Refused(InsertOutcome(s, ToInsert(p))))

\* Fault: the last written key is missing from the ledger.
WriteShortLedger(p, s) ==
    /\ pc[p] = "insert"
    /\ Len(handled[p]) = Len(Dataset[req[p].digest])
    /\ Existing(Slot(p)) = {}
    /\ tx' = [tx EXCEPT ![s] = [@ EXCEPT !.st = "commit", !.new = req[p].gen,
                                         !.slot = Slot(p), !.digest = req[p].digest,
                                         !.ledger = SubSeq(handled[p], 1, Len(handled[p]) - 1)]]
    /\ Goto(p, "commit")
    /\ UNCHANGED <<generations, generation_rows, rows, access,
                   req, attempt, handled, answer, issued>>

\* The generation and its ledger are inserted, read back, and COMMIT is sent.
\* UNIQUE (tenant_id, idempotency_key) waits for a transaction that inserts the
\* same key and fails if the key is there.
WriteEvidence(p, s) ==
    /\ pc[p] = "insert"
    /\ Len(handled[p]) = Len(Dataset[req[p].digest])
    /\ \A t \in Others(s) : tx[t].slot # Slot(p)
    /\ IF Existing(Slot(p)) = {}
       THEN /\ tx' = [tx EXCEPT ![s] = [@ EXCEPT !.st = "commit",
                                                 !.new = req[p].gen,
                                                 !.slot = Slot(p),
                                                 !.digest = req[p].digest,
                                                 !.ledger = handled[p]]]
            /\ Goto(p, "commit")
            /\ UNCHANGED <<generations, generation_rows, rows, access,
                           req, attempt, handled, answer, issued>>
       ELSE ReplyAndClose(p, s, Refused("DESTINATION_CONFLICT"))

-----------------------------------------------------------------------------
(* GET and DELETE *)

\* Fault: the generation is looked up by its id alone.
VisibleToAll(p) == generations[req[p].gen].state # "ABSENT"

\* WHERE tenant_id = ... AND generation_id = ...: another tenant's is not there.
Visible(p) ==
    /\ generations[req[p].gen].state # "ABSENT"
    /\ generations[req[p].gen].slot[1] = req[p].tenant

Found(p) == [code |-> "OK", gen |-> req[p].gen, state |-> generations[req[p].gen].state]

Get(p) ==
    /\ pc[p] = "get"
    /\ Reply(p, IF Visible(p) THEN Found(p) ELSE Refused("GENERATION_NOT_FOUND"))
    /\ UNCHANGED dbVars

\* Fault: SELECT without FOR UPDATE.
SelectOnly(p, s) ==
    /\ pc[p] = "select"
    /\ \/ /\ ~Visible(p)
          /\ ReplyAndClose(p, s, Refused("GENERATION_NOT_FOUND"))
       \/ /\ Visible(p)
          /\ generations[req[p].gen].state = "DELETED"
          /\ ReplyAndClose(p, s, Found(p))
       \/ /\ Visible(p)
          /\ generations[req[p].gen].state = "COMMITTED"
          /\ tx' = [tx EXCEPT ![s].upd = req[p].gen]
          /\ Goto(p, "delete")
          /\ UNCHANGED <<generations, generation_rows, rows, access,
                         req, attempt, handled, answer, issued>>

\* SELECT ... FOR UPDATE, which waits for another transaction that holds the
\* generation and then reads its current state; then the ledger is fetched.
SelectForUpdate(p, s) ==
    /\ pc[p] = "select"
    /\ Visible(p) => \A t \in Others(s) : tx[t].upd # req[p].gen
    /\ \/ /\ ~Visible(p)
          /\ ReplyAndClose(p, s, Refused("GENERATION_NOT_FOUND"))
       \/ /\ Visible(p)
          /\ generations[req[p].gen].state = "DELETED"
          /\ ReplyAndClose(p, s, Found(p))
       \/ /\ Visible(p)
          /\ generations[req[p].gen].state = "COMMITTED"
          /\ tx' = [tx EXCEPT ![s].upd = req[p].gen]
          /\ Goto(p, "delete")
          /\ UNCHANGED <<generations, generation_rows, rows, access,
                         req, attempt, handled, answer, issued>>

\* ORDER BY delete_rank, insert_ordinal DESC: the ledger backwards.
ToDelete(p) ==
    LET written == generation_rows[req[p].gen]
    IN  written[Len(written) - Len(handled[p])]

\* Fault: the row count of DELETE is not looked at.
DeleteOutcomeUncounted(s, r) ==
    IF access[r] = "DESTINATION_FORBIDDEN" THEN access[r]
    ELSE IF access[r] = "DESTINATION_INVALID" \/ \E c \in Children(r) : Sees(s, c)
         THEN "DELETE_CONFLICT"
    ELSE "ok"

\* How the database answers the DELETE of row r, by its key alone, in session s.
DeleteOutcome(s, r) ==
    IF access[r] = "DESTINATION_FORBIDDEN" THEN access[r]
    ELSE IF \/ access[r] = "DESTINATION_INVALID"
            \/ ~Sees(s, r)
            \/ \E c \in Children(r) : Sees(s, c)
         THEN "DELETE_CONFLICT"
    ELSE "ok"

DeleteRow(p, s) ==
    /\ pc[p] = "delete"
    /\ Len(handled[p]) < Len(generation_rows[req[p].gen])
    /\ DeleteBlockers(s, ToDelete(p)) = {}
    /\ \/ /\ DeleteOutcome(s, ToDelete(p)) = "ok"
          /\ tx' = [tx EXCEPT ![s].del = @ \cup {ToDelete(p)}]
          /\ handled' = [handled EXCEPT ![p] = Append(@, ToDelete(p))]
          /\ UNCHANGED <<generations, generation_rows, rows, access,
                         pc, req, attempt, answer, issued>>
       \/ /\ DeleteOutcome(s, ToDelete(p)) # "ok"
          /\ ReplyAndClose(p, s, Refused(DeleteOutcome(s, ToDelete(p))))

\* UPDATE ... SET state = 'DELETED', read back, and COMMIT is sent.
MarkDeleted(p, s) ==
    /\ pc[p] = "delete"
    /\ Len(handled[p]) = Len(generation_rows[req[p].gen])
    /\ tx' = [tx EXCEPT ![s].st = "commit"]
    /\ Goto(p, "commit")
    /\ UNCHANGED <<generations, generation_rows, rows, access,
                   req, attempt, handled, answer, issued>>

-----------------------------------------------------------------------------
(* The end of a transaction, and failures *)

\* The acknowledgement of COMMIT arrives: the result read back is returned.
Ack(p, s) ==
    /\ pc[p] = "commit"
    /\ tx[s].st = "done"
    /\ ReplyAndClose(p, s,
         IF req[p].op = "post"
         THEN [code |-> "CREATED", gen |-> req[p].gen, state |-> "COMMITTED"]
         ELSE [code |-> "OK", gen |-> req[p].gen, state |-> "DELETED"])

\* Fault: one attempt too many.
RetryOnceMore(p) ==
    \/ /\ attempt[p] <= RetryAttempts
       /\ attempt' = [attempt EXCEPT ![p] = @ + 1]
       /\ Goto(p, IF pc[p] \in {"find", "get"} THEN pc[p] ELSE "connect")
       /\ handled' = [handled EXCEPT ![p] = << >>]
       /\ UNCHANGED <<req, answer, issued>>
    \/ /\ attempt[p] > RetryAttempts
       /\ Reply(p, Refused("DEPENDENCY_UNAVAILABLE"))

\* _retry: one of the _TRANSIENT errors ends the attempt; the whole operation
\* is tried again, or DEPENDENCY_UNAVAILABLE after the last attempt.
RetryOrGiveUp(p) ==
    \/ /\ attempt[p] < RetryAttempts
       /\ attempt' = [attempt EXCEPT ![p] = @ + 1]
       /\ Goto(p, IF pc[p] \in {"find", "get"} THEN pc[p] ELSE "connect")
       /\ handled' = [handled EXCEPT ![p] = << >>]
       /\ UNCHANGED <<req, answer, issued>>
    \/ /\ attempt[p] = RetryAttempts
       /\ Reply(p, Refused("DEPENDENCY_UNAVAILABLE"))

\* OperationalError at any statement, the connect and COMMIT included.
ConnectionLost(p) ==
    /\ pc[p] \notin {"idle", "generate"}
    /\ tx' = Detached(p)
    /\ RetryOrGiveUp(p)
    /\ UNCHANGED <<generations, generation_rows, rows, access>>

\* Whom session s of process p waits for, at a statement on a destination row.
WaitsFor(s) ==
    UNION {CASE pc[p] = "insert" /\ Len(handled[p]) < Len(Dataset[req[p].digest])
                    -> InsertBlockers(s, ToInsert(p))
             [] pc[p] = "delete" /\ Len(handled[p]) < Len(generation_rows[req[p].gen])
                    -> DeleteBlockers(s, ToDelete(p))
             [] OTHER -> {}
           : p \in {q \in Procs : tx[s].client = q}}

\* DeadlockDetected: the server rolls back one session of a cycle of waits.
DeadlockDetected(p, s) ==
    /\ \E C \in SUBSET Sessions :
          /\ s \in C
          /\ \A t \in C : WaitsFor(t) \cap C # {}
          /\ \A t \in C : \E u \in C : t \in WaitsFor(u)
    /\ tx' = [tx EXCEPT ![s] = Closed]
    /\ RetryOrGiveUp(p)
    /\ UNCHANGED <<generations, generation_rows, rows, access>>

\* The process dies and is restarted; its client hears nothing.
Crash(p) ==
    /\ pc[p] # "idle"
    /\ tx' = Detached(p)
    /\ Goto(p, "idle")
    /\ handled' = [handled EXCEPT ![p] = << >>]
    /\ UNCHANGED <<generations, generation_rows, rows, access, req, attempt, answer, issued>>

-----------------------------------------------------------------------------

\* The statements of p inside the transaction of its session s.
InTransaction(p, s) ==
    /\ tx[s].client = p
    /\ \/ AcquireLock(p, s) \/ Recheck(p, s) \/ InsertRow(p, s) \/ WriteEvidence(p, s)
       \/ SelectForUpdate(p, s) \/ DeleteRow(p, s) \/ MarkDeleted(p, s)
       \/ Ack(p, s) \/ DeadlockDetected(p, s)

AcceptRequest(p) == AcceptPost(p) \/ AcceptGet(p) \/ AcceptDelete(p)

Serve(p) ==
    \/ FindIdempotent(p) \/ Generate(p) \/ Connect(p) \/ Get(p)
    \/ \E s \in Sessions : InTransaction(p, s)

ServiceNext ==
    \E p \in Procs : AcceptRequest(p) \/ Serve(p) \/ ConnectionLost(p) \/ Crash(p)

Next == ServiceNext \/ (DbNext /\ UNCHANGED serviceVars)

Spec == Init /\ [][Next]_vars
=============================================================================
