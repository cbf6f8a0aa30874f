# TLA+ models of Juntai Synthetic Data Generation

A service that generates rows from a contract, commits them to tables of an
application together with its own evidence in one database transaction, and
later deletes exactly those rows. These modules model the part of it that is
hard to test: several service processes, a database that waits, rolls back and
commits after its client is gone, retries, an application that uses the same
tables, the command that migrates the service's own schema, and the workflows
that release a version.

Paths below are relative to the package `src/juntai_synthetic_data` unless they
start with `documentation/`, `migrations/`, `scripts/`, `.github/` or name a file
of the repository root.

## 1. Inventory

| Component | State | Operations | Interacts with |
|---|---|---|---|
| Generation service (`service.py`) | none between requests; locals of a request | `create_generation`, `get_generation`, `delete_generation` | routes call it; it calls repository, policy, registry, provider |
| SQL repository (`persistence/sql_repository.py`, protocol in `persistence/models.py`) | none; everything is in the database | `find_idempotent`, `commit`, `get`, `delete`, each inside `_retry` | one connection and one transaction per attempt |
| Database (KingbaseES; tables of `migrations/0003_synchronous_generations.sql`) | `generations`, `generation_rows`, destination tables, locks | statements, COMMIT, rollback, deadlock detection | all service processes and the owning application |
| In-memory repository (`persistence/in_memory.py`) | rows, generations, keys, written rows under one `RLock` | same protocol | tests only |
| Destination planning (`destinations/planning.py`) | local queue | `plan_destinations` | called in the transaction of `commit` |
| Contract model (`contracts/models.py`) | none | validation of a request, the sort of record types | before the service sees a request |
| Provider, dataset validation (`providers/deterministic.py`, `dataset.py`) | none | `generate`, `validate_generated_dataset` | called by the service |
| Registry and policy (`providers/registry.py`, `policy/engine.py`) | none | `select`, `evaluate` | called by the service |
| HTTP routes and authorization (`api/routes.py`, `api/auth.py`, `runtime_auth.py`, `iam_contract.py`) | none | POST, GET, DELETE; tenant of a request | event loop of a process; IAM library |
| Migration command (`migration.py`, `cli.py`) | `schema_migrations`, the tables of all migrations | `migrate [--check]` | one transaction under one advisory lock |
| Release (`.github/workflows/publish.yml`, `release-service.yml`, `release-documentation.yml`, and the scripts they run) | commits, image tags, git tags, drafts and releases; nothing of a run outlives it | build an image, push evidence, a run of either release | git, the image registry and GitHub releases, which overlapping runs share |
| Acceptance suite (`scripts/real_kes_acceptance.py`, `run-real-kes-acceptance.sh`) | a container and two volumes | one run that leaves an evidence file | a licensed database |
| Startup, OpenAPI, telemetry | files and names | straight-line checks | none |

What is hard here, and what makes each part correct:

* **POST.** The key is looked up three times by different transactions, the
  outcome of COMMIT may be unknown, and an attempt may run while the previous
  one is still being committed. Correct means: one generation per tenant and
  key, rows and evidence together or not at all, every answer true, a refused
  request gone for good.
* **DELETE.** It counts rows that the application may have touched, against
  concurrent deletes and its own earlier attempt. Correct means: all of the
  ledger or nothing, no false conflict, the key stays bound.
* **Waiting.** Advisory lock, row locks, unique-index waits, a session that
  outlives its client. Correct means: every request ends.
* **Planning.** Two sorts of the same graph, in two modules, visit children in
  different orders. Correct means: what one accepts the other can plan.
* **Migration.** Concurrent invocations of different images, adoption of an
  untracked schema, death at any statement. Correct means: all or nothing, each
  migration once, the ledger describes the tables.
* **The double.** The repository's tests run on the in-memory repository. Correct
  means: it keeps keys, rows and ledgers in step between threads, and accepts
  and refuses what a server would.
* **Release.** Two git tags and two releases, written by runs that overlap, die
  at any step and are started again; images that are built again in between;
  evidence that names what it likes; a documented commit that is written down in
  five places. Correct means: a release is of one piece, the two agree, nothing
  published moves, and a run finishes what earlier ones left.

`PROJECT.json` lists every hazard at its line, with the properties that would
catch it.

## 2. Modules

```
Database            tables, sessions, locks, COMMIT, the application   (external server)
  GenerationService   POST, GET, DELETE, statement by statement
    GenerationProperties  properties, IInv, fairness;  Store == INSTANCE GenerationStore
      MCGeneration          instances for TLC
      GenerationProofs      IInv is inductive;  Spec => Store!Spec
        GenerationAnswers     what clients are told is true; what keeps requests going
GenerationStore     what GenerationRepository promises: atomic Commit and Delete
Migration           apply_migrations and its exit codes
  MigrationProperties  History == INSTANCE MigrationHistory;  MCMigration
    MigrationProofs      LockInv is inductive;  Spec => History!Spec
MigrationHistory    what an upgrade promises: one step, whole, in the order of images
Planning            the two sorts;  Plan == INSTANCE DependencyOrder
  MCPlanning
  PlanningProofs      the loop invariant;  Spec => Plan!Spec
DependencyOrder     what a plan promises: parents first
Dataset             select(), generate() and validate_generated_dataset, as operators
  InMemoryRepository  the service on the in-memory repository
    InMemoryProperties, MCInMemory
      InMemoryProofs      keys, types, agreement with a server, by induction over rows
        InMemoryLoops       what a deletion takes; which contracts generate
          InMemoryRows        whose rows are in the tables; what can be deleted, what fits
Release             the three workflows, step by step
  ReleaseProperties, MCRelease
    ReleaseProofs       RInv and TagInv are inductive
```

### Database, GenerationService

`pc[p]` is the statement process `p` executes next; a process serves one request
at a time because the handlers of `api/routes.py` call the synchronous service on
the event loop. One action is one database statement, so processes interleave
wherever the server lets them. `tx[s]` is a server session: its writes are
private until `ServerCommit`, its locks are held until it ends.

| Action | Code |
|---|---|
| `AcceptPost`, `AcceptGet`, `AcceptDelete` | the handlers of `api/routes.py` |
| `FindIdempotent`, `Generate` | `service.py:61-89` |
| `Connect`, `AcquireLock`, `Recheck`, `InsertRow`, `WriteEvidence`, `Ack` | `sql_repository.py:175-282` |
| `Get` | `sql_repository.py:150-167` |
| `SelectForUpdate`, `DeleteRow`, `MarkDeleted` | `sql_repository.py:309-369` |
| `ConnectionLost`, `DeadlockDetected` | the errors of `_TRANSIENT`, `_retry` at 74-87 |
| `ServerCommit`, `ServerAbort` | the server, also after the client is gone |
| `AppInsert`, `AppUpdate`, `AppDelete`, `AppAlter` | the application that owns the destination |

Abstractions:

* A row is its table and key (`RowIds`); `rows[r]` says who wrote what is there.
  A request's content is its digest, and the rows it generates are `Dataset` of
  that digest, in the insert order of the plan. Generation is deterministic, so
  this is a function. Two rows of one dataset may be the same `RowIds` element:
  the second INSERT then conflicts, as on a unique index on the key. Destination
  tables without one are not modelled.
* The errors of an INSERT or DELETE that repeat cannot cure are `access`: the
  destination is wrong, or forbidden. Errors outside the mapping of the
  repository roll back like those and differ only in the status of the answer.
* Policy, registry, provider and dataset validation end in `Refusal`, a constant
  of the content; the comparison with the deadline is a nondeterministic choice.
* The ledger rows and the generation row are inserted by one action: nobody sees
  them before COMMIT, and the only statement among them that can wait or fail is
  the insert of the generation (`UNIQUE (tenant_id, idempotency_key)`).
* Back-off times, digests of the result and timestamps are left out.
* The server runs READ COMMITTED, the default of the connector in `runtime.py`.

Definitions whose comment starts with "Fault:" are never used by the
specification: each is a mutated form of the definition below it, and shows that
a property notices the fault.

### GenerationStore

`GenerationRepository` as its callers understand it: `Commit`, `Delete`, one
statement of the application; no processes, sessions, locks or retries.
`Delete` removes the rows its ledger names whoever wrote what is there now,
because that is what the code does (see finding 2). The mapping is the identity
on the three tables: sessions and processes are the detail that is hidden.

### Migration

One invocation is `Start`, `AcquireLock`, `Inspect`, `ApplyOne` per pending
migration, `Verify`, `Ack`; `Fail` is leaving the transaction by an exception.
Tables are absent, as released, or altered, which is what `_legacy_state`,
`_generation_state` and `_worker_protocol_state` tell apart. `Broken` is a
`psycopg.Error` at any statement or the death of the process; what it leaves on
the server is an orphan, which commits if COMMIT had been sent. `Interfere` is
someone else changing a table. Images differ in the migrations they ship, their
checksums, and whether their manifest authorizes the adoption of a baseline.

`ApplyOne` looks at the SQL of each migration. `SqlFails` is what is sure to fail:
a policy of 0001 that is there, a table of 0002 or 0003 that is, no table to alter.
`SqlEffect` is what the rest does: 0001 creates its tables `IF NOT EXISTS`, so it
takes an altered one, and puts row security, policy and index on it, which may be
all that it lacked (`completed`); 0003 drops `IF EXISTS`. On an altered table any
statement may fail, which is the other outcome of `ApplyOne`. DDL holds the tables
it touches until the transaction ends, and no name of a table that is not there, so
`Interfere` may come between `Inspect` and each migration.

`MigrationHistory` has no invocations, locks or transactions: an upgrade is one
step from what the one before it left, and it runs all pending migrations or
adopts the first and runs the others. That `Migration` implements it says that no
death of an invocation, no orphan and no second invocation shows in the schema.
`Reshape` says how far other owners may show in it: where they have interfered, a
table that is created only if there is none may be one of theirs, though never a
released one, and one of theirs may stand where a table was dropped (see "Also reached").

### Planning

The two loops run one after the other on one contract, one action per element of
the inner loop. `phase` ends as `rejected`, `planned`, or `failed` (the
`ValueError` of `planning.py:39`). Record types are model values: all that
matters of a name is its place in `sorted()`, the constant `Sorted`.
`DependencyOrder` is what the repository needs of `insert_order`; the mapping is
`done` while the planner runs, and nothing before.

### Dataset, InMemoryRepository

`Dataset` has no state. `Selection` is what the registry and the first compatible
provider say of the contract, `Generated` is `generate()`: a value for every cell,
then the relations one after the other, each overwriting the field it starts at.
`Accepted` is what `validate_generated_dataset` checks of the result that can
fail. `ValidContract` is what `contracts/models.py` and the planner leave of the
contracts.

`InMemoryRepository` is the service on the repository that the tests of `src/`
run, with several threads. Each of its methods holds one `RLock`, so a method is
one action (`Commit`, `Get`, `Delete`), and `Post` is what `create_generation`
does before `commit`, the lookup included: the lock is free in between. `Late` is
the deadline. `SeedRows` stands for the owner of the tables, as `seed_rows` does
in the tests. The staged copy is the accumulator of a fold over the rows. A
behaviour has one scene, fixed at `Init`: a catalog, what is asked for, by how
many threads, and whether rows are seeded.

`InMemoryProperties` also has `SqlInsert` and `SqlDelete`, what
`SqlGenerationRepository` gets of a server for one statement. `InsertsAgree` and
`DeletesAgree` compare the double with them and name where it differs: it takes
NULL in a required column, takes NULL as equal to NULL when it deletes, and tests
rows for references one by one, so that a row that refers to itself is never
deleted. A type that does not match the catalog's is compared as the double does;
what a server would coerce is not modelled.

Abstractions:

* A value is its type and a token that names what it depends on: seed and cell
  (strings, UUIDs, real numbers), the cell alone (what is counted from an offset
  that may be the same for another seed), the index alone (a sequence), nothing
  (a rounded number), or which of two values of its type was listed. Values that
  the code makes equal are equal here; values that are equal only by chance are not.
* What a constant or a choice lists is returned as it is (`listed`, `picked`): two
  values of each type, whatever the type of the field, and NULL in a choice. A text
  counts as a date where its field is a date's, a string elsewhere.
* A record type has two fields, which any key, relation, unique or foreign key
  may use, and a field is mapped to the column of its name. The insert order is
  part of the contract; `Planning` says which orders the planner yields.
* Of a provider's manifest the class and the distributions are compared.

### Release

The constants of the workflows (version, tag names, reviewed digests) are those
of one version. `main` is the sequence of merged commits; a commit is its place
in it, so an ancestor of main is a smaller number, and `Unmerged` is a commit of
none. `tags`, `drafts` and `releases` are what git and GitHub hold; `job[j]` is a
run of `release-service.yml`, `docjob[d]` one of `release-documentation.yml`.

| Action | Code |
|---|---|
| `PushSource`, `PushEvidence` | merges; `Accepted` is what `scripts/compose_real_kes_evidence.py` takes over from the environment of an acceptance run |
| `PublishImage` | `publish.yml`; run again, it moves the image tag |
| `Verify`, `Resolve`, `Compose` | `release-service.yml:36-91` with `scripts/generate_service_release.py` and `scripts/generate_documentation_contracts.py` |
| `Look`, `Push`, `Grep` | `ensure_tag` for either tag, and the message of the first (103-126) |
| `Draft`, `Publish` | `gh release create` and the publication of its draft (127-143) |
| `StartDocs`, `ComposeDocs` | `release-documentation.yml:30-112` with `scripts/generate_documentation_contracts.py`, `generate_documentation_publication.py`, `generate_documentation_release_evidence.py` |
| `DraftDocs`, `UploadDocs`, `PublishDocs` | `gh release create` makes the draft and uploads to it, `gh release edit` publishes a draft of the tag (113-128) |
| `Start`, `Die`, `DieDocs` | a run starts, is started again, is lost or cancelled |

Abstractions:

* An acceptance run is the evidence file it leaves: a `Submission`, which need not
  be true. What the suite asserts of a server is stated by the other modules.
* Files are what they were made from: `ServiceAssets` and `DocAssets` name the
  source, image, evidence and documents that the scripts write into the assets.
* The documented commit is a value of its own in each of the places it is written
  down (`Documented`): in the contracts, in `documentation/manifest.yaml`, in
  `release-documentation.yml:24` (ancestor check and notes), in
  `generate_documentation_publication.py:16` (source binding) and in
  `generate_documentation_release_evidence.py:12` (manifest and provenance).
  `ComposeDocs` compares those that the code compares.
* A draft of the documentation is being uploaded, whole, or left by a run that died
  in between; how much of it was uploaded is left out. The draft of a service
  release is published by the same `gh release create` that uploads to it, and by
  nothing else, so there a draft that was left is only in the way.
* Two pushes of the same evidence file are not modelled (`completedAt` differs).
* GitHub publishes one release per tag, and refuses a push of a tag that exists.

## 3. Runs

Bounds are the constants of each `.cfg`. `IdsLeft` bounds the number of POSTs by
the generation ids; no other counter is unbounded. Deadlock is not checked where
clients may stop sending requests (generation, in-memory), the algorithm ends
(planning), or the bounds on commits and builds are used up (release).

| Run | Question | Why the bounds are enough |
|---|---|---|
| `PostRace` | Racing, retried and crashing POSTs of one key, two contents | 2 processes and 3 sessions leave room for two live transactions and an orphan; 2 attempts let an attempt overlap its predecessor; 3 ids let both processes and a later request draw one |
| `OpposedRows` | Two keys, the same rows in opposite order; does every request end? | 2 rows and 2 processes are the smallest deadlock; one attempt, because a retry starts from the state a new request starts from |
| `ChangedRows` | The application changes rows around POSTs of two keys and concurrent DELETEs | insert, change, delete and re-insert of a row under a ledger key; parent and child; 2 processes delete the same generation; also runs the inductive invariant |
| `Refusals` | Two tenants on one advisory lock; refused requests; destination tables and grants that change | one collision is the worst case of the 64-bit prefix; 2 rows: an error at the first, at the second, and after; one process and the transactions it left behind |
| `ConcurrentMigrations` | Two invocations, two images, every released schema with every ledger; do they end? | more invocations add nothing to a single lock |
| `DriftedMigrations` | Drifted schemas, edited images, interference | 2 statements of others, before and during an invocation |
| `PlansOfFour` | All graphs over 4 record types, self relations included | 4 types are the smallest diamond; validator and planner visit children in different orders |
| `InMemory` | Which accepted contracts yield rows, do these fit the tables, are they all that is deleted, and does the double agree with a server? | some 1400 scenes: every contract over two record types with up to two relations and three sets of nullable fields; every type with every distribution, with constants and choices of its own type, of others, and of NULL, for a key, for what refers to it, for a field that refers to itself, and for one that is neither key nor reference, nullable or not; keys of one and two fields; shared and unknown tables; nine catalogs; pairs of contents with other seeds, the same seed, too many bytes, no provider. 2 threads, 2 ids and 2 keys race in the scenes of two contents; the rows are seeded once, before, between or after |
| `Release` | Overlapping, dying and repeated runs of both releases, good and bad evidence | 2 service runs race for the tags, and each is started again any number of times, for any push; 4 commits: a source, evidence for it, a second source or evidence, and one more; each way in which evidence can be wrong is one submission of `MCRelease`, the publication or the notes naming another commit among them; commit 1 is built twice, because a rebuild between acceptance and release is the case |
| `FailedPost`, `ChangedRowDeleted`, `CheckAgainstApply` | The findings below | |

Symmetry (permutations of processes, sessions, ids) is used in safety runs only.

**Fairness.** `OpposedRows` assumes that a process goes on, that a
statement which can run again and again is run (the server's lock queues are
first come first served, `SF` of `InTransaction` and `Connect`), and that the
server finishes a COMMIT or notices a client that is gone. Nothing is assumed of
clients, the application or the network. `ConcurrentMigrations` assumes the same
of its one lock, and `PlansOfFour` that a loop goes on. `Release` assumes none:
runners are lost and nobody need start a run again. That work can be resumed is
stated as safety, `RerunsFinish`: a run whose push is in order never fails. It
says what order is: no other evidence, no newer image, no draft left behind.

### Findings

1. `FailedPost`: a POST answered 503 may be committed (`sql_repository.py:79`),
   contrary to `documentation/reference/api-and-lifecycle.md:13`.
2. `ChangedRowDeleted`: DELETE compares keys only (`sql_repository.py:349`) and
   removes changed or re-inserted rows, contrary to
   `documentation/workflows/recover-and-delete.md:9`.
3. `CheckAgainstApply`: `--check` reports pending (5) for schemas that apply
   refuses as incompatible (3) (`migration.py:537`), contrary to `MIGRATIONS.md:40`.

### Also reached

The models of the passing runs also reach three states that a reader may not
expect. They are written down here and have no run of their own:
`migration.py:550-551` ("refusing repair") is about what was inspected, which the
first is not, and `README.md:62-63` (the documentation publication "binds the exact
merged service source commit, checksums, SBOM, in-toto provenance") can be read
against the other two, but not as a promise about an edit that was forgotten or a
run that died.

* A jobs table that another owner creates after `Inspect`, under a schema the
  migration has found empty, is taken for the one of `0001_jobs.sql:3`
  (`IF NOT EXISTS`), gets its row security, policy and index, is altered by 0002 and
  dropped by `0003_synchronous_generations.sql:6`, and the upgrade commits.
  `Reshape` in `MigrationHistory` is what can be said of it, and `DriftedMigrations`
  has it.
* Manifest and provenance of the documentation name another source than the one
  the release binds, and the notes another one that was merged: of the notes only
  an ancestor check is made (`release-documentation.yml:47`), and what
  `generate_documentation_release_evidence.py:12` names is compared with nothing. At
  this commit the three literals are equal; the case is a version that changes one
  and forgets another, `InOrder2` in `MCRelease`. So `ReleasesAgree` says nothing of
  manifest and provenance, and of the notes that their commit was merged.
* A draft of the documentation that was left half uploaded is published and locked
  by the `gh release edit` of a later run (`release-documentation.yml:127`), whose own
  draft stays. It has what was uploaded, of the right commit, and lacks the rest.

## 4. Proofs

All proofs are checked by TLAPS for every value of the constants.

`GenerationProofs` starts from `DatabaseAssumption` (types of the constants; `None`
and `App` are nothing else; no row refers to itself) and `ServiceAssumption`
(1 to 10 attempts, as the constructor demands). Nothing is assumed of the
datasets or of the number of processes, sessions, tenants, keys or rows.

* `Invariance`: `Spec => []IInv`. The properties are not inductive: that no key
  is used twice depends on the lock being held from the recheck until COMMIT is
  executed, by a session whose client may be gone; that rows agree with evidence
  depends on what each process has done at each statement and on the row locks
  which keep committed and uncommitted writes apart. `IInv` says just that:
  `RequestShape`, `LoopShape` and `Serving` (control state), `Exclusive` and
  `WritesFit` (locks), `CommitIsWhole` and `SessionShape` (transactions),
  `StoredShape` (ids). One lemma per action shows that it is kept; the two
  longest are for the server's COMMIT.
* `TypeCorrect`, `KeyNamesOneGeneration`, `EvidenceAndRows`, `LedgerIsWhole` follow
  from it.
* `Refinement`: `Spec => Store!Spec`. With `IInv`, the COMMIT of an insertion is
  `Commit`, that of a deletion is `Delete` (its preconditions are those that the
  row locks protect), a statement of the application is `Application`, and all
  other steps leave the tables alone.
* `CommittedRows`: what the store keeps, the service keeps. A row belongs to one
  generation, so neither a `Commit` nor a `Delete` touches the rows of another.

`GenerationAnswers` starts from `IInv` and what else a step leaves alone
(`Undisturbed`).

* `ClientsAreToldTheTruth`: `Spec => []AnswerInv`. What a client may be told
  depends on transactions it no longer knows of: an attempt that lost its
  connection may have left a COMMIT that the server still executes. So `AnswerInv`
  says of every process at every step which content its key may yet bring
  (`OwnContent`), what it has read and may still answer (`Promised`, `Honest`),
  and that no id is drawn twice (`DrawnOnce`).
  `AnswersAreAlwaysTrue` and `RefusedPostsAreGone` follow, and from them that a
  POST of a key which names a generation is not told of a conflict
  (`ConflictsAreNotReplays`).
* `LedgersAreOrderly`: a ledger names rows once and after those that they refer
  to, so a deletion that stops at a row does so for a cause outside it
  (`DeleteConflictsAreReal`).
* `SpecDeadlocksAreOfRows`: of all the waits there are (advisory lock, `FOR UPDATE`,
  rows, the unique key of the evidence) a circle has only those for destination
  rows, so it is one that `DeadlockDetected` sees, which looks at nothing else.
  Who waits for a lock or `FOR UPDATE` has taken nothing yet
  (`BeginnersHoldNothing`); the unique key never makes anyone wait, because who
  inserts it has its advisory lock (`EvidenceNeverWaits`, with `SlotInv`).
* `SpecAdvances`: each step of a request, of its failures and of the server for it
  leaves less ahead of it in the lexicographic order of stage, attempts, statements
  and rows, which is well-founded; every other step leaves it as it is. It needs
  that nobody changes a ledger that is being read (`LedgerStays`). Both are the
  safety half of `EveryRequestEnds`.

`MigrationProofs`, from `MigrationAssumption` (every image has revisions and they
are in the order of the history; an image that adopts tables has `0001_jobs`),
for any number of invocations and images:

* `LockInv`: one session holds the advisory lock, whether its client lives or not
  (`Exclusive`). In the loop its copies agree with what it has executed and
  recorded, and what it inspected holds still (`LoopAt`); a COMMIT under way, an
  orphan's too, carries all that was pending or nothing (`Committing`); what is
  reported is in that COMMIT or in the ledger, and no two invocations report the
  same (`ReportAt`, `Disjoint`). Between two statements of the holder tables and
  ledger disagree, so none of the properties is inductive without it.
* `SpecTypeOK`, `SpecAppliedOnce`, `SpecExitZeroIsCurrent`,
  `SpecMigratedIsConsistent` follow, and `SpecImplementsHistory`:
  `Spec => History!Spec`.
* The safety half of `EveryInvocationEnds`: an invocation takes at most eight steps,
  and nobody sets it back (`SpecAdvances`, by counting the identifiers that are not
  recorded); whoever waits for the lock waits for one that does not wait
  (`SpecNobodyWaitsInVain`).

`InMemoryProofs`, from `SceneAssumption` (types of the scenes; references are of
columns of the catalog, keys of those that rows may have: `_conflicts` skips a key
with a column that a row has not, in_memory.py:98) and `IdAssumption` (no id is null),
for any scenes, tables, datasets and threads. (`ValidContract` and `ValidContent`
say what the models of contracts and distributions make sure of: no record type is
empty, relations name fields of one type, NULL is drawn only of fields that are
nullable or list it.)

* `SpecKeyIsBound` and `KeysAreForGood` from `KeyInv`; `SpecTypeOK` from `RowInv`,
  which says what rows and ledgers are made of.
* `InsertIsSqlInsert` and `DeleteIsSqlDelete` compare double and server for one row
  or ledger entry, in tables whose keys and references hold, which both preserve.
  `SpecInsertsAgree` and `SpecDeletesAgree` lift them to whole datasets and
  ledgers: `FoldInsert`, `FoldDelete` and their like turn the folds of the
  model into runs (a function from lengths to tables), and `Induction` goes
  through a run. It is derived from the well-foundedness of the naturals for a
  set of numbers, because the library's induction theorems take an operator.

`InMemoryLoops`, from the same:

* `SpecDeletionIsExact`: a deletion takes one row for each entry of its ledger, no
  two the same, and nothing else. `DeleteOrderIsAll` counts: no two entries have the
  same number of others before them, so the order has each once. Along the run of
  `Removed`, `Takes` says which positions of the tables at the beginning the entries
  so far took; `RestAfterRemoval` moves it over one more row that goes.
* That each entry has exactly one match *in the tables at the beginning* is not so:
  record types may share a table and have other key fields, and then the key of one
  may match a row of the other that is deleted before (the last contract of `Shared`
  in `MCInMemory`; TLC found it when the proof did not go through). What holds, and
  is stated, is that there is one match when its turn comes, and none in the end.
* `SpecOrderlyContractsGenerate`: after `k` relations (`Resolved`) these hold, and
  every field that no later relation overwrites (`Settled`) has values the
  validator accepts (`GoodColumn`). A field starts with what is drawn
  (`DrawnIsGood`), and gets its values from a field that is settled already
  because the contract is `Orderly`; each row has a target of its own if there
  are enough (`TargetIsThere`). A constant or a choice fits by hypothesis only:
  `Satisfiable` asks that all it lists fits its field, because nothing refuses it
  before the rows exist (providers/deterministic.py:46, 91-96). The proof found a gap in `Satisfiable`: a contract
  may relate a field to itself (contracts/models.py:185 forbids cycles of record
  types only), which overwrites nothing, so such a field has to be drawn well. The
  scenes of `Reflexive` have it.

`InMemoryRows`, from the same:

* `SpecRowsAreDatasets`: that rows are counted right is not inductive, because the
  count alone does not say which rows a deletion takes. `CopyInv` does: in the
  tables of a tenant nobody else writes to, the positions of each table are in
  bijection with the *copies* of its committed generations (generation, record type,
  index), each with the row of its dataset (`Stands`), and each ledger names the keys
  of the copies in insert order (`Entered`). An insertion appends one copy after
  the other (`InsertKeepsStands`; `InsertOrderIsPlaced` says that `FlattenSeq` lists
  each row of the dataset once). A deletion takes an entry's only match, and the row
  of the copy the entry was written for is there and matches; so what goes is a row
  of that copy's value, and the bijection is kept without it (`StandsRemove`), also
  where equal rows of two generations share a key. The counts follow (`StandsCounts`).
* `SpecUntouchedIsDeletable`: besides `CopyInv` it needs that what is stored was
  accepted by the validator (`OutcomeInv`) and that no key is taken twice
  (`UniqueInv`). Take the entry whose turn it is. The row of its copy is there, and
  as the key of the entry has a unique column, no other row matches. If a copy that
  is left referred to it, then its own contract would declare that relation
  (`Covers`), so its dataset has a target with the same value (`TargetOfRow`); values
  of a unique column are those of one copy (`UniqueCopy`), hence the target *is* the
  copy, the one that refers is of the same generation, and comes later in the plan
  (`ReferredFromOwn`). Then its rank is lower (`RanksDescend`), and `DeleteOrderIsAll`
  says that it has gone before (`ReferrersAreGone`). `NextIsDeleted` is one entry of
  the loop, `RemovedSucceeds` all of them.
* `SpecAcceptedFits`: a row finds what it refers to, because the target that the
  validator saw has a higher rank and is inserted earlier (`ReferredEarlier`), and
  takes no key (`KeysAreNew`): within the dataset the validator has compared them
  (`AcceptedIsDistinct`); in another, each value is one that was drawn, for this
  cell or for the one at the end of its relations (`GeneratedIsDrawn`, by induction
  over them), and a value that depends on its seed is drawn of no other seed
  (`SeedsDiffer`). `RowFits` is one row of the loop, `DatasetFits` all of them.

`ReleaseProofs`, from `ReleaseAssumption` (types; `None` is no submission and no
tag), for any number of runs, commits, builds and pushes of evidence:

* `RInv` adds to the properties what each run knows at its step (`JobFacts`,
  `DocFacts`): past `Resolve` that the image is of the source, past `Compose` that
  the documents are, past the tags that these point at its own targets, past
  `Grep` that the service tag has its own evidence in its message. None of this
  is taken back by what others do, because `Forward` holds of every step: commits
  and tags stay, builds count upwards. `ReleaseIsBound` alone is not inductive:
  at `Publish` nothing is compared, the release is right because of what was
  compared eight steps before.
* `SpecTypeOK`, `SpecReleaseIsBound`, `SpecReleasesAgree` follow, and
  `SpecNeverMoved` step by step.
* `TagInv` says for whose push a tag was made, that no two runs have one push at
  once, and that a run which found no tag competes for it with runs of other
  pushes only. With it, a run whose push is the only one, in order and current,
  passes every check: `SpecRerunsFinish`.

`PlanningProofs`, from `PlanningAssumption` (orders list each record type once),
for any record types, orders and relations, cyclic ones too:

* `LoopInv` says what a record type waits for in the middle of the inner loop:
  those before `next` have been told of `current`, the others not yet (`Told`). A
  record type that waits for nothing is queued, and what is sorted has no cycle;
  so a loop that runs dry early has met one (`StuckIsCyclic`).
* `SpecAcceptedIsPlanned` and the refinement `SpecImplementsOrder` follow. That
  both sorts end at the same length is counted with the theorems on cardinality.
* `SpecStepsEnd`: each step leaves fewer of `StepsLeft`, a number quadratic in the
  record types, for relations with cycles too: the safety half of `PlanningEnds`.

Every invariant, action property and refinement of the passing runs is proved. Only
model-checked are the liveness properties (`EveryRequestEnds`, `EveryInvocationEnds`,
`PlanningEnds`), which need fairness and ENABLED, out of reach of the prover, and the
three properties that the findings refute. Of the liveness properties the safety half
is proved: steps lead to the end, whoever else takes which. What is left to TLC is
that steps are taken: that fairness is enough for each lock to be granted in the end.

## 5. Plan

All of it is done, but for what 6 leaves.

1. `Database`, `GenerationService`, `GenerationProperties`: the core, with the
   store it implements. Runs and findings above.
2. `GenerationProofs`.
3. `Migration`, its properties, and the history it implements.
4. `Planning`, and the order it implements.
5. `Dataset`: which accepted contracts yield a dataset. Shown: those whose
   relations copy no value that a later one overwrites (`Orderly`) and whose
   distributions fit (`Satisfiable`); others may be refused once their rows exist.
6. `InMemoryRepository`, compared with a server row by row. Left: that it
   implements `GenerationStore` too, and three record types.
7. `Release`.
8. `ReleaseProofs`, `PlanningProofs`.
9. `GenerationAnswers`, `MigrationProofs`, `InMemoryProofs`, `InMemoryLoops`,
   `InMemoryRows`.
10. `UntouchedIsDeletable` and `AcceptedFits`, in `InMemoryRows`.

### Not modelled

* Authorization: a library decides; its result is the tenant of a request.
* Request parsing: value checks without state. Startup, OpenAPI, telemetry:
  straight-line code and static documents.
* Time: the deadline is a nondeterministic choice, back-off is left out.
* The acceptance suite, whose phases repeat what the other modules state, and its
  host: `run-real-kes-acceptance.sh` names its container and volumes after
  nothing, so that two runs on one host share them, and docker resolves the name
  of the image in every phase. `Accepted` lets evidence say anything instead.
* A release that cannot go on: a run that dies between the two tags, followed by
  other evidence, or a draft left behind, keeps every later run from finishing.
  No wrong service release is published, and no document promises otherwise;
  `RerunsFinish` excludes both by name.
