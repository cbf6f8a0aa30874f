------------------------------ MODULE Migration ------------------------------
(***************************************************************************)
(* `juntai-synthetic-data migrate [--check]`: apply_migrations of          *)
(* src/juntai_synthetic_data/migration.py and its exit codes in cli.py *)
(* run by several operators or deployments against one database, perhaps   *)
(* from images that ship different migration sets.                         *)
(*                                                                         *)
(* An invocation is one transaction under one advisory lock.  Its DDL and  *)
(* its ledger rows stay private until the server executes COMMIT; a        *)
(* transaction whose client is gone goes on as an orphan until the server  *)
(* commits it (if COMMIT was sent) or rolls it back.                       *)
(***************************************************************************)
EXTENDS Integers, Sequences, FiniteSets, Functions

CONSTANTS
    Procs,           \* invocations under way at the same time
    Images,          \* sequences of migrations, what load_migrations returns
    AdoptingImages,  \* those whose manifest authorizes adoption of the baseline
    CheckFlags,      \* is --check given? a subset of BOOLEAN
    Supported,       \* is the server KingbaseES V009R001C010? a subset of BOOLEAN
    InitialSchemas,  \* subset of [Tables -> TableState]
    InitialLedgers,  \* subset of SUBSET Migrations
    OperatorSteps    \* bound: statements of other owners on these tables

LegacyTables == {"jobs", "job_transitions"}
WorkerTables == {"job_attempts", "worker_outbox", "worker_result_inbox",
                 "worker_cleanup_evidence"}
GenerationTables == {"generations", "generation_rows"}
Tables == LegacyTables \cup WorkerTables \cup GenerationTables

\* "ok": the columns, row security, policies and indexes the migration creates;
\* "altered": any other table of that name.
TableState == {"none", "altered", "ok"}

Schema == [Tables -> TableState]

Ids == {"0001_jobs", "0002_worker_protocol", "0003_synchronous_generations"}

Migrations == [id : Ids, checksum : {"released", "edited"}]

IdsOf(set) == {m.id : m \in set}

\* The order of the identifiers.
Position ==
    [id \in Ids |-> CASE id = "0001_jobs" -> 1
                      [] id = "0002_worker_protocol" -> 2
                      [] id = "0003_synchronous_generations" -> 3]

\* load_migrations: identifiers are unique and ordered, the set is not empty;
\* the manifest entry with releasedBaselineAdoption is that of 0001.
ASSUME MigrationAssumption ==
    /\ CheckFlags \subseteq BOOLEAN /\ Supported \subseteq BOOLEAN
    /\ InitialSchemas \subseteq Schema
    /\ \A l \in InitialLedgers : l \subseteq Migrations
    /\ OperatorSteps \in Nat
    /\ \A i \in Images :
          /\ i \in Seq(Migrations) /\ i # << >>
          /\ \A j, k \in DOMAIN i : j < k => Position[i[j].id] < Position[i[k].id]
    /\ AdoptingImages \subseteq Images
    /\ \A i \in AdoptingImages : i[1].id = "0001_jobs"

VARIABLES
    schema,     \* [Tables -> TableState], committed
    ledger,     \* committed rows of schema_migrations
    pc,         \* [Procs -> next statement]
    run,        \* [Procs -> local state of apply_migrations]
    session,    \* [Procs -> transaction of the invocation]
    orphans,    \* transactions whose client is gone
    exit,       \* [Procs -> exit code of the last invocation]
    interfered  \* statements other owners have executed

vars == <<schema, ledger, pc, run, session, orphans, exit, interfered>>

\* ddl: what became of the tables created, altered or dropped; recorded: the
\* ledger rows inserted.
Session ==
    [st : {"none", "open", "commit", "done"}, locked : BOOLEAN,
     ddl : [Tables -> TableState \cup {"untouched"}],
     recorded : SUBSET Migrations]

Blank(st) ==
    [st |-> st, locked |-> FALSE, ddl |-> [t \in Tables |-> "untouched"], recorded |-> {}]

NoSession == Blank("none")

ShapeState == {"absent", "partial", "complete"}

\* ledger and legacy are the local copies apply_migrations reads and updates;
\* code is the exit code it will return once its transaction is committed.
Run ==
    [image : Images, check : BOOLEAN, ledger : SUBSET Migrations, legacy : ShapeState,
     applied : SUBSET Ids, adopted : SUBSET Ids, code : {"0", "5"}]

\* none: still running, or killed.  2 (configuration) is given before any of this.
Exits == {"none", "0", "3", "4", "5"}

\* Every variable keeps its type.
TypeOK ==
    /\ schema \in Schema
    /\ ledger \subseteq Migrations
    /\ pc \in [Procs -> {"idle", "lock", "inspect", "apply", "commit"}]
    /\ run \in [Procs -> Run]
    /\ session \in [Procs -> Session]
    /\ orphans \subseteq Session
    /\ exit \in [Procs -> Exits]
    /\ interfered \in 0 .. OperatorSteps

Init ==
    /\ schema \in InitialSchemas
    /\ ledger \in InitialLedgers
    /\ pc = [p \in Procs |-> "idle"]
    /\ \E i \in Images :
          run = [p \in Procs |-> [image |-> i, check |-> FALSE, ledger |-> {},
                                  legacy |-> "absent", applied |-> {}, adopted |-> {},
                                  code |-> "0"]]
    /\ session = [p \in Procs |-> NoSession]
    /\ orphans = {}
    /\ exit = [p \in Procs |-> "none"]
    /\ interfered = 0

-----------------------------------------------------------------------------
(* What the database contains, as the transaction of p sees it *)

\* The tables with DDL ddl on top of what is committed.
Overlay(ddl) == [t \in Tables |-> IF ddl[t] = "untouched" THEN schema[t] ELSE ddl[t]]

View(p) == Overlay(session[p].ddl)

\* _legacy_state and _generation_state: none of the tables, all of them as
\* released, or anything else.
Shape(tables, view) ==
    IF \A t \in tables : view[t] = "none" THEN "absent"
    ELSE IF \A t \in tables : view[t] = "ok" THEN "complete"
    ELSE "partial"

LegacyState(view) == Shape(LegacyTables, view)
GenerationState(view) == Shape(GenerationTables, view)

\* _worker_protocol_state # "absent" is all that is asked of it.
WorkerAbsent(view) == \A t \in WorkerTables : view[t] = "none"

\* Is the SQL of a migration sure to fail: on a policy of 0001, or a table of 0002
\* or of 0003, that is already there, or for want of a jobs table to alter.
SqlFails(id, view) ==
    CASE id = "0001_jobs" -> \E t \in LegacyTables : view[t] = "ok"
      [] id = "0002_worker_protocol" -> \/ view["jobs"] = "none"
                                        \/ \E t \in WorkerTables : view[t] # "none"
      [] id = "0003_synchronous_generations" -> \E t \in GenerationTables : view[t] # "none"

\* The DDL of a migration on top of ddl.  0001 creates its tables IF NOT EXISTS:
\* it takes an altered one, and puts row security, policy and index on it, which
\* completes those that lacked nothing else.  0003 drops what 0001 and 0002
\* created IF EXISTS: where there is no table it locks no name.
SqlEffect(id, ddl, view, completed) ==
    CASE id = "0001_jobs" ->
            [t \in Tables |-> IF t \notin LegacyTables THEN ddl[t]
                              ELSE IF view[t] = "none" \/ t \in completed THEN "ok"
                              ELSE view[t]]
      [] id = "0002_worker_protocol" ->
            [t \in Tables |-> IF t \in WorkerTables THEN "ok"
                              ELSE IF t = "jobs" THEN view[t] ELSE ddl[t]]
      [] id = "0003_synchronous_generations" ->
            [t \in Tables |-> IF t \in GenerationTables THEN "ok"
                              ELSE IF ddl[t] = "untouched" /\ schema[t] = "none"
                              THEN "untouched" ELSE "none"]

-----------------------------------------------------------------------------
(* The end of an invocation *)

Goto(p, label) == pc' = [pc EXCEPT ![p] = label]

\* Fault: a refusal leaves the transaction, and its lock, open.
FailOnly(p, code) ==
    /\ Goto(p, "idle")
    /\ exit' = [exit EXCEPT ![p] = code]
    /\ UNCHANGED <<schema, ledger, run, session, orphans, interfered>>

\* Fault: the error is handled inside the transaction block, which commits.
FailAndCommit(p, code) ==
    /\ Goto(p, "idle")
    /\ exit' = [exit EXCEPT ![p] = code]
    /\ schema' = Overlay(session[p].ddl)
    /\ ledger' = ledger \cup session[p].recorded
    /\ session' = [session EXCEPT ![p] = NoSession]
    /\ UNCHANGED <<run, orphans, interfered>>

\* Leaving the transaction block by an exception rolls back and unlocks.
Fail(p, code) ==
    /\ Goto(p, "idle")
    /\ session' = [session EXCEPT ![p] = NoSession]
    /\ exit' = [exit EXCEPT ![p] = code]
    /\ UNCHANGED <<schema, ledger, run, orphans, interfered>>

\* Returning from it sends COMMIT.
SendCommit(p) ==
    /\ Goto(p, "commit")
    /\ session' = [session EXCEPT ![p].st = "commit"]
    /\ UNCHANGED <<schema, ledger, orphans, exit, interfered>>

-----------------------------------------------------------------------------
(* apply_migrations *)

\* Connect, begin, and check the product and version of the server.
Start(p) ==
    /\ pc[p] = "idle"
    /\ \E i \in Images, c \in CheckFlags, supported \in Supported :
          /\ run' = [run EXCEPT ![p] = [image |-> i, check |-> c, ledger |-> {},
                                        legacy |-> "absent", applied |-> {}, adopted |-> {},
                                        code |-> "0"]]
          /\ IF supported
             THEN /\ Goto(p, "lock")
                  /\ session' = [session EXCEPT ![p] = Blank("open")]
                  /\ exit' = [exit EXCEPT ![p] = "none"]
             ELSE /\ exit' = [exit EXCEPT ![p] = "3"]
                  /\ UNCHANGED <<pc, session>>
    /\ UNCHANGED <<schema, ledger, orphans, interfered>>

LockFree(p) ==
    /\ \A q \in Procs \ {p} : ~session[q].locked
    /\ \A o \in orphans : ~o.locked

\* Fault: no lock.
NoLock(p) ==
    /\ pc[p] = "lock"
    /\ Goto(p, "inspect")
    /\ UNCHANGED <<schema, ledger, run, session, orphans, exit, interfered>>

\* SELECT pg_advisory_xact_lock(...)
AcquireLock(p) ==
    /\ pc[p] = "lock"
    /\ LockFree(p)
    /\ session' = [session EXCEPT ![p].locked = TRUE]
    /\ Goto(p, "inspect")
    /\ UNCHANGED <<schema, ledger, run, orphans, exit, interfered>>

\* Fault: checksums are not compared.
IncompatibleIds(image) ==
    \/ ~(IdsOf(ledger) \subseteq IdsOf(Range(image)))
    \/ /\ "0003_synchronous_generations" \in IdsOf(ledger)
       /\ GenerationState(schema) # "complete" \/ LegacyState(schema) # "absent"
    \/ /\ ledger # {} /\ "0003_synchronous_generations" \notin IdsOf(ledger)
       /\ LegacyState(schema) # "complete"

\* The ledger names migrations the image lacks or has edited, or the schema is
\* not what the ledger says.
Incompatible(image) ==
    \/ \E m \in ledger : m \notin Range(image)
    \/ /\ "0003_synchronous_generations" \in IdsOf(ledger)
       /\ GenerationState(schema) # "complete" \/ LegacyState(schema) # "absent"
    \/ /\ ledger # {} /\ "0003_synchronous_generations" \notin IdsOf(ledger)
       /\ LegacyState(schema) # "complete"

PendingIn(image, known) == {m \in Range(image) : m.id \notin IdsOf(known)}

\* apply refuses to repair tables or to adopt an untracked generation schema.
Unrepairable ==
    \/ LegacyState(schema) = "partial" \/ GenerationState(schema) = "partial"
    \/ ledger = {} /\ GenerationState(schema) = "complete"

\* Under the lock: schema and ledger are read and compared; --check ends here.
Inspect(p) ==
    /\ pc[p] = "inspect"
    /\ LET image == run[p].image
           pending == PendingIn(image, ledger)
       IN  \/ /\ \/ Incompatible(image)
                 \/ run[p].check /\ pending = {} /\ GenerationState(schema) # "complete"
                 \/ ~run[p].check /\ Unrepairable
              /\ Fail(p, "3")
           \/ /\ ~Incompatible(image)
              /\ run[p].check
              /\ pending = {} => GenerationState(schema) = "complete"
              /\ run' = [run EXCEPT ![p].code = IF pending = {} THEN "0" ELSE "5"]
              /\ SendCommit(p)
           \/ /\ ~Incompatible(image)
              /\ ~run[p].check
              /\ ~Unrepairable
              /\ run' = [run EXCEPT ![p].ledger = ledger, ![p].legacy = LegacyState(schema)]
              /\ Goto(p, "apply")
              /\ UNCHANGED <<schema, ledger, session, orphans, exit, interfered>>

\* The first pending migration, in the order of the image.
NextPending(p) ==
    CHOOSE m \in PendingIn(run[p].image, run[p].ledger) :
        \A n \in PendingIn(run[p].image, run[p].ledger) :
            \E j, k \in DOMAIN run[p].image :
                j <= k /\ run[p].image[j] = m /\ run[p].image[k] = n

\* Fault: every migration of an untracked legacy schema is taken for adopted.
IsLegacy(p) == run[p].applied = {} /\ run[p].legacy = "complete"

\* The released 1.0.0 schema without a ledger is adopted, not created.
IsBaseline(p) ==
    /\ run[p].applied = {} /\ run[p].adopted = {}
    /\ run[p].legacy = "complete"
    /\ run[p].ledger = {}

\* The next migration is adopted or run, and recorded, and the legacy tables are
\* looked at again.
RecordNext(p, completed) ==
    LET m == NextPending(p)
        ddl == IF IsBaseline(p) THEN session[p].ddl
               ELSE SqlEffect(m.id, session[p].ddl, View(p), completed)
    IN  /\ IF IsBaseline(p) THEN run[p].image \in AdoptingImages ELSE ~SqlFails(m.id, View(p))
        /\ session' = [session EXCEPT ![p].ddl = ddl, ![p].recorded = @ \cup {m}]
        /\ run' = [run EXCEPT
                      ![p].ledger = @ \cup {m},
                      ![p].legacy = LegacyState(Overlay(ddl)),
                      ![p].applied = IF IsBaseline(p) THEN @ ELSE @ \cup {m.id},
                      ![p].adopted = IF IsBaseline(p) THEN @ \cup {m.id} ELSE @]
        /\ UNCHANGED <<schema, ledger, pc, orphans, exit, interfered>>

\* One iteration of the loop over pending.  SQL that is not sure to fail may fail
\* still: on a policy, a column or a constraint of an altered table, or on
\* something that depends on a table to drop.
ApplyOne(p) ==
    /\ pc[p] = "apply"
    /\ PendingIn(run[p].image, run[p].ledger) # {}
    /\ \/ IsBaseline(p) /\ run[p].image \notin AdoptingImages /\ Fail(p, "3")
       \/ ~IsBaseline(p) /\ Fail(p, "4")
       \/ \E completed \in SUBSET LegacyTables : RecordNext(p, completed)

\* The schema after the last migration is what the ledger promises.
Verified(p) ==
    IF "0003_synchronous_generations" \in IdsOf(run[p].ledger)
    THEN /\ GenerationState(View(p)) = "complete"
         /\ LegacyState(View(p)) = "absent" /\ WorkerAbsent(View(p))
    ELSE LegacyState(View(p)) = "complete"

Verify(p) ==
    /\ pc[p] = "apply"
    /\ PendingIn(run[p].image, run[p].ledger) = {}
    /\ \/ Verified(p) /\ SendCommit(p) /\ UNCHANGED run
       \/ ~Verified(p) /\ Fail(p, "3")

\* The acknowledgement of COMMIT arrives and the result is printed.
Ack(p) ==
    /\ pc[p] = "commit"
    /\ session[p].st = "done"
    /\ Goto(p, "idle")
    /\ session' = [session EXCEPT ![p] = NoSession]
    /\ exit' = [exit EXCEPT ![p] = run[p].code]
    /\ UNCHANGED <<schema, ledger, run, orphans, interfered>>

-----------------------------------------------------------------------------
(* The server, failures, and other owners of the schema *)

CommitOf(s) ==
    /\ schema' = Overlay(s.ddl)
    /\ ledger' = ledger \cup s.recorded

ServerCommit(p) ==
    /\ session[p].st = "commit"
    /\ CommitOf(session[p])
    /\ session' = [session EXCEPT ![p] = Blank("done")]
    /\ UNCHANGED <<pc, run, orphans, exit, interfered>>

\* The transaction that p leaves behind, if it holds the lock still.
Abandon(p) ==
    /\ orphans' = IF session[p].locked THEN orphans \cup {session[p]} ELSE orphans
    /\ session' = [session EXCEPT ![p] = NoSession]

\* Fault: the error reaches the interpreter, which exits with 1.
BrokenUncaught(p) ==
    /\ pc[p] # "idle"
    /\ exit' = [exit EXCEPT ![p] = "1"]
    /\ Goto(p, "idle")
    /\ Abandon(p)
    /\ UNCHANGED <<schema, ledger, run, interfered>>

\* psycopg.Error at any statement or at COMMIT, or the process is killed.
Broken(p) ==
    /\ pc[p] # "idle"
    /\ \E code \in {"4", "none"} : exit' = [exit EXCEPT ![p] = code]
    /\ Goto(p, "idle")
    /\ Abandon(p)
    /\ UNCHANGED <<schema, ledger, run, interfered>>

OrphanCommit(o) ==
    /\ o.st = "commit"
    /\ CommitOf(o)
    /\ orphans' = orphans \ {o}
    /\ UNCHANGED <<pc, run, session, exit, interfered>>

OrphanAbort(o) ==
    /\ orphans' = orphans \ {o}
    /\ UNCHANGED <<schema, ledger, pc, run, session, exit, interfered>>

\* Someone creates, alters or drops a table that no transaction holds.
Interfere(t) ==
    /\ interfered < OperatorSteps
    /\ \A s \in Range(session) \cup orphans : s.ddl[t] = "untouched"
    /\ \E state \in TableState \ {schema[t]} : schema' = [schema EXCEPT ![t] = state]
    /\ interfered' = interfered + 1
    /\ UNCHANGED <<ledger, pc, run, session, orphans, exit>>

Invoke(p) ==
    AcquireLock(p) \/ Inspect(p) \/ ApplyOne(p) \/ Verify(p) \/ Ack(p)

Next ==
    \/ \E p \in Procs : Start(p) \/ Invoke(p) \/ ServerCommit(p) \/ Broken(p)
    \/ \E o \in orphans : OrphanCommit(o) \/ OrphanAbort(o)
    \/ \E t \in Tables : Interfere(t)

Spec == Init /\ [][Next]_vars
=============================================================================
