------------------------ MODULE GenerationProperties ------------------------
(***************************************************************************)
(* What POST, GET and DELETE of /v1/generations must do, whatever the      *)
(* interleaving of processes and the failures of connections.              *)
(***************************************************************************)
EXTENDS GenerationService

Stored(g) == generations[g].state # "ABSENT"

\* A tenant's idempotency key names at most one generation: the lookup of
\* service.py:61 is repeated under the advisory lock of sql_repository.py:183.
OneGenerationPerKey ==
    \A g, h \in GenIds :
        (Stored(g) /\ Stored(h) /\ generations[g].slot = generations[h].slot) => g = h

\* A success is told only of what is durable, and stays true: the generation is
\* stored for the tenant that asked; for a POST it has the key and the content
\* of the request; after a DELETE it is DELETED.  A key is called reused only if
\* it names a generation with other content.  (routes.py:65-67, 85, 103)
AnswersAreTrue ==
    \A p \in Procs : pc[p] = "idle" =>
        /\ answer[p].code \in Success =>
              /\ Stored(answer[p].gen)
              /\ generations[answer[p].gen].slot[1] = req[p].tenant
              /\ req[p].op = "post" => /\ generations[answer[p].gen].slot = Slot(p)
                                       /\ generations[answer[p].gen].digest = req[p].digest
              /\ req[p].op = "delete" => generations[answer[p].gen].state = "DELETED"
        /\ answer[p].code = "IDEMPOTENCY_KEY_REUSED" =>
              \E g \in Existing(Slot(p)) : generations[g].digest # req[p].digest

\* A destination row written by a generation is there only together with its
\* evidence: the generation is COMMITTED and its ledger names the row.
RowsHaveEvidence ==
    \A r \in RowIds : rows[r] \in GenIds =>
        /\ generations[rows[r]].state = "COMMITTED"
        /\ r \in Range(generation_rows[rows[r]])

\* The ledger of a generation names exactly the rows of its dataset, in insert
\* order, although it is collected row by row over attempts that may fail.
LedgerIsDataset ==
    \A g \in GenIds : Stored(g) => generation_rows[g] = Dataset[generations[g].digest]

\* As long as the application neither changes nor deletes rows, a COMMITTED
\* generation has every row of its ledger in the destination.
CommittedRowsArePresent ==
    AppOps \cap {"update", "delete"} = {} =>
        \A g \in GenIds : generations[g].state = "COMMITTED" =>
            \A r \in Range(generation_rows[g]) : rows[r] = g

\* A POST that failed with anything but DEPENDENCY_UNAVAILABLE left nothing: no
\* generation has its id, and no transaction of an earlier attempt, whose COMMIT
\* may still be under way, can add one later.
RefusedPostIsGone ==
    \A p \in Procs :
        (/\ pc[p] = "idle" /\ req[p].op = "post" /\ req[p].gen # None
         /\ answer[p].code \in ErrorCode \ {"DEPENDENCY_UNAVAILABLE"}) =>
            /\ ~Stored(req[p].gen)
            /\ \A s \in Sessions : tx[s].new # req[p].gen

\* DESTINATION_CONFLICT is never the answer to a POST whose own key is already
\* committed, by a racing request or by its own attempt whose acknowledgement
\* was lost: such a POST is a replay.
ConflictIsNotAReplay ==
    [][\A p \in Procs :
          (/\ answer'[p].code = "DESTINATION_CONFLICT"
           /\ answer[p].code # "DESTINATION_CONFLICT")
              => Existing(Slot(p)) = {}]_vars

\* DELETE_CONFLICT is answered only of a generation that is still COMMITTED, and
\* only if a row of its ledger is missing, its table has changed, or a row that
\* is none of its own refers to it: never because of a concurrent deletion, or
\* because of an attempt of one's own whose acknowledgement was lost.
\* (sql_repository.py:317-355)
DeleteConflictIsReal ==
    [][\A p \in Procs :
          (/\ answer'[p].code = "DELETE_CONFLICT"
           /\ answer[p].code # "DELETE_CONFLICT") =>
              LET g == req[p].gen
                  ledger == Range(generation_rows[g])
              IN  /\ generations[g].state = "COMMITTED"
                  /\ \E r \in ledger :
                        \/ rows[r] = None
                        \/ access[r] = "DESTINATION_INVALID"
                        \/ \E c \in RowIds \ ledger : Parent[c] = r /\ rows[c] # None]_vars

\* The committed tables behave like the atomic store: every step of the service
\* and of the server is one Commit, one Delete, one application statement, or
\* leaves them alone.
Store == INSTANCE GenerationStore WITH
             generations <- generations,
             generation_rows <- generation_rows,
             rows <- rows
ImplementsStore == Store!Spec

-----------------------------------------------------------------------------
(* The inductive invariant: what the lock, the row locks and the control state *)
(* of the processes together guarantee.                                        *)

InPost == {"find", "generate", "lock", "recheck", "insert"}
InDelete == {"select", "delete"}

\* A process executes the statements of the operation it was asked for.
RequestShape ==
    \A p \in Procs :
        /\ pc[p] # "idle" => req[p].op # "none"
        /\ pc[p] \in InPost => req[p].op = "post"
        /\ pc[p] \in InDelete => req[p].op = "delete"
        /\ pc[p] = "get" => req[p].op = "get"
        /\ pc[p] \in {"connect", "commit"} => req[p].op \in {"post", "delete"}
        /\ req[p].op = "post" => req[p].tenant \in Tenants /\ req[p].key \in Keys
                                    /\ req[p].digest \in Digests
        /\ req[p].op \in {"get", "delete"} => req[p].tenant \in Tenants /\ req[p].gen \in GenIds
        /\ pc[p] \in {"connect", "lock", "recheck", "insert", "commit"} => req[p].gen \in GenIds
        /\ (req[p].op = "post" /\ req[p].gen # None) => issued[req[p].gen] = Slot(p)

\* Locks exclude each other, and a process has one session.
Exclusive ==
    \A s, t \in Sessions : s # t =>
        /\ tx[s].client # None => tx[s].client # tx[t].client
        /\ tx[s].lock # None => tx[s].lock # tx[t].lock
        /\ tx[s].upd # None => tx[s].upd # tx[t].upd
        /\ Held(s) \cap Held(t) = {}

\* Uncommitted writes fit what is committed, and no row that refers to a row
\* being deleted is left or on its way.
WritesFit ==
    \A s \in Sessions :
        /\ \A r \in tx[s].ins : rows[r] = None
        /\ \A r \in tx[s].del : rows[r] # None
        /\ \A r \in tx[s].del, c \in RowIds : Parent[c] = r =>
              /\ rows[c] = None \/ c \in tx[s].del
              /\ \A t \in Sessions \ {s} : c \notin tx[t].ins
        /\ tx[s].upd # None => generations[tx[s].upd].state = "COMMITTED"

\* A transaction whose COMMIT is under way carries a whole generation with its
\* ledger, under the lock of a key that names none, or a whole deletion.
CommitIsWhole ==
    \A s \in Sessions : tx[s].st = "commit" =>
        \/ /\ tx[s].new \in GenIds /\ tx[s].slot \in Slots /\ tx[s].digest \in Digests
           /\ issued[tx[s].new] = tx[s].slot
           /\ tx[s].lock = AdvisoryKey[tx[s].slot]
           /\ Existing(tx[s].slot) = {}
           /\ tx[s].ledger = Dataset[tx[s].digest]
           /\ tx[s].ins = Range(tx[s].ledger)
           /\ tx[s].upd = None /\ tx[s].del = {}
        \/ /\ tx[s].new = None
           /\ tx[s].upd \in GenIds
           /\ tx[s].del = Range(generation_rows[tx[s].upd])
           /\ tx[s].ins = {}

\* Sessions that are not committing have written no evidence, and a session
\* without a transaction holds nothing.
SessionShape ==
    \A s \in Sessions :
        /\ tx[s].st = "closed" => tx[s] = Closed
        /\ tx[s].st = "done" => tx[s] = Blank("done", tx[s].client)
        /\ tx[s].st = "open" => tx[s].new = None

\* What session s of process p has done when p is at a statement.
ServingAt(p, s) ==
    /\ pc[p] \in {"lock", "recheck", "insert", "select", "delete", "commit"}
    /\ pc[p] = "commit" => tx[s].st \in {"commit", "done"}
    /\ pc[p] \in {"lock", "select"} => tx[s] = Blank("open", p)
    /\ pc[p] = "recheck" => tx[s] = [Blank("open", p) EXCEPT !.lock = AdvisoryKey[Slot(p)]]
    /\ pc[p] = "insert" =>
          /\ tx[s].st = "open" /\ tx[s].upd = None /\ tx[s].del = {}
          /\ tx[s].lock = AdvisoryKey[Slot(p)]
          /\ Existing(Slot(p)) = {}
          /\ tx[s].ins = Range(handled[p])
    /\ pc[p] = "delete" =>
          /\ tx[s].st = "open" /\ tx[s].upd = req[p].gen
          /\ tx[s].lock = None
          /\ tx[s].ins = {} /\ tx[s].del = Range(handled[p])

Serving == \A p \in Procs, s \in Sessions : tx[s].client = p => ServingAt(p, s)

\* The loops of commit() and delete() have done a prefix of their work.
LoopShape ==
    \A p \in Procs :
        /\ pc[p] \notin {"insert", "delete", "commit"} => handled[p] = << >>
        /\ pc[p] = "insert" =>
              /\ Len(handled[p]) <= Len(Dataset[req[p].digest])
              /\ \A i \in 1 .. Len(handled[p]) : handled[p][i] = Dataset[req[p].digest][i]
        /\ pc[p] = "delete" =>
              LET written == generation_rows[req[p].gen] IN
              /\ Stored(req[p].gen)
              /\ Len(handled[p]) <= Len(written)
              /\ \A i \in 1 .. Len(handled[p]) : handled[p][i] = written[Len(written) + 1 - i]

\* A stored generation belongs to the key its id was drawn for.
StoredShape ==
    \A g \in GenIds : Stored(g) =>
        /\ generations[g].slot \in Slots /\ generations[g].digest \in Digests
        /\ issued[g] = generations[g].slot

IInv ==
    /\ TypeOK
    /\ RequestShape
    /\ Exclusive
    /\ WritesFit
    /\ CommitIsWhole
    /\ SessionShape
    /\ Serving
    /\ LoopShape
    /\ StoredShape
    /\ OneGenerationPerKey
    /\ RowsHaveEvidence
    /\ LedgerIsDataset

-----------------------------------------------------------------------------
(* Liveness *)

\* A process goes on with its request; the lock queues of the server are fair,
\* so a statement that can run again and again is run; the server finishes the
\* COMMIT it received or notices that a client is gone.  Nothing is assumed of
\* clients, of connections, or of the application.
Fairness ==
    /\ \A p \in Procs :
          /\ WF_vars(FindIdempotent(p) \/ Generate(p) \/ Get(p))
          /\ SF_vars(Connect(p))
          /\ \A s \in Sessions : SF_vars(InTransaction(p, s))
    /\ \A s \in Sessions :
          WF_vars((ServerCommit(s) \/ ServerAbort(s)) /\ UNCHANGED serviceVars)

FairSpec == Spec /\ Fairness

\* Every accepted request ends: retries are bounded, deadlocks are broken, and
\* no lock outlives its transaction.
EveryRequestEnds == \A p \in Procs : pc[p] # "idle" ~> pc[p] = "idle"

-----------------------------------------------------------------------------
(* What the documentation says and the code does not do *)

\* documentation/reference/api-and-lifecycle.md:13: a POST that ultimately
\* failed left neither application rows nor evidence.
FailedPostLeavesNothing ==
    \A p \in Procs :
        (/\ pc[p] = "idle" /\ req[p].op = "post" /\ req[p].gen # None
         /\ answer[p].code \in ErrorCode) => ~Stored(req[p].gen)

\* README.md:18 and documentation/workflows/recover-and-delete.md:9: DELETE
\* removes only rows that generation wrote, and fails if one was changed.
DeletesOnlyOwnRows ==
    [][\A g \in GenIds :
          (generations[g].state = "COMMITTED" /\ generations'[g].state = "DELETED") =>
              \A r \in RowIds : (rows[r] # None /\ rows'[r] = None) => rows[r] = g]_vars
=============================================================================
