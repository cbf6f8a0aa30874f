------------------------- MODULE MigrationProperties -------------------------
(* What MIGRATIONS.md promises of the migration command. *)
EXTENDS Migration

\* The tables are those that the migrations with these ids create.
Consistent(ids, view) ==
    IF "0003_synchronous_generations" \in ids
    THEN /\ GenerationState(view) = "complete"
         /\ LegacyState(view) = "absent" /\ WorkerAbsent(view)
    ELSE /\ ids # {} => LegacyState(view) = "complete"
         /\ "0002_worker_protocol" \in ids => \A t \in WorkerTables : view[t] = "ok"

\* What the SQL of a migration creates, and what it drops for good.
TablesOf ==
    [id \in Ids |-> CASE id = "0001_jobs" -> LegacyTables
                      [] id = "0002_worker_protocol" -> WorkerTables
                      [] id = "0003_synchronous_generations" -> GenerationTables]

DroppedBy ==
    [id \in Ids |-> IF id = "0003_synchronous_generations"
                    THEN LegacyTables \cup WorkerTables ELSE {}]

\* However invocations of different images interleave, fail and die, what is
\* committed goes through the steps of MigrationHistory: an invocation commits
\* all its image's migrations with their ledger rows, on top of what the one
\* before it left, or none of its DDL.  Only a table that another owner has put
\* in the way of 0001, while an invocation was under way, is ever overwritten,
\* and that table was not a released one.  (MIGRATIONS.md:35-38,
\* migration.py:513-580, 0001_jobs.sql:3-28)
History == INSTANCE MigrationHistory WITH
               schema <- schema, ledger <- ledger, interfered <- interfered,
               Creates <- TablesOf, Drops <- DroppedBy, Reused <- LegacyTables,
               Baseline <- "0001_jobs"
ImplementsHistory == History!Spec

\* If nobody else changes the tables, a ledger that grows describes the tables
\* that are there: adoption records only the baseline it found, and nothing of
\* the withdrawn schema survives 0003.
MigratedIsConsistent ==
    [][(OperatorSteps = 0 /\ ledger' # ledger) => Consistent(IdsOf(ledger), schema)']_vars

\* "Idempotent": of concurrent and repeated invocations, at most one reports to
\* have applied or adopted a migration.
AppliedOnce ==
    \A p, q \in Procs :
        (p # q /\ exit[p] = "0" /\ exit[q] = "0") =>
            (run[p].applied \cup run[p].adopted) \cap (run[q].applied \cup run[q].adopted) = {}

\* Exit code 0 means that every migration of the image is recorded, with the
\* image's checksum, whatever other images have done since; and a migration
\* that was reported applied is one of them.
ExitZeroIsCurrent ==
    \A p \in Procs : exit[p] = "0" =>
        /\ Range(run[p].image) \subseteq ledger
        /\ run[p].applied \cup run[p].adopted \subseteq IdsOf(ledger)

-----------------------------------------------------------------------------

\* The server grants a free lock again and again to whoever waits, and ends the
\* transactions whose clients are gone.
Fairness ==
    /\ \A p \in Procs :
          /\ SF_vars(AcquireLock(p))
          /\ WF_vars(Inspect(p) \/ ApplyOne(p) \/ Verify(p) \/ Ack(p))
          /\ WF_vars(ServerCommit(p))
    /\ WF_vars(\E o \in orphans : OrphanCommit(o) \/ OrphanAbort(o))

FairSpec == Spec /\ Fairness

\* Every invocation ends, although all of them want one lock and any of them
\* may die holding it.
EveryInvocationEnds == \A p \in Procs : pc[p] # "idle" ~> pc[p] = "idle"

-----------------------------------------------------------------------------

\* MIGRATIONS.md:40: --check is a compatibility check, and an incompatible state
\* is reported by exit code 3.  So where one invocation of an image reports only
\* pending migrations, another does not find the state incompatible.
CheckPredictsApply ==
    \A p, q \in Procs :
        (/\ run[p].check /\ exit[p] = "5"
         /\ ~run[q].check /\ run[q].image = run[p].image) => exit[q] # "3"
=============================================================================
