--------------------------- MODULE MigrationProofs ---------------------------
(***************************************************************************)
(* For any number of invocations, any images whose migrations are ordered, *)
(* and any schema to begin with: what the advisory lock buys.  The session *)
(* that holds it, or the orphan that does, is the only one with DDL and    *)
(* ledger rows of its own, so what it read under the lock still holds when *)
(* it commits, and its COMMIT is one upgrade of MigrationHistory.          *)
(***************************************************************************)
EXTENDS MigrationProperties, FiniteSetTheorems, TLAPS

\* A transaction that has the lock and has done nothing yet.
Opened == [Blank("open") EXCEPT !.locked = TRUE]

\* Where a process is says what its session has done.
ShapeAt(p) ==
    /\ pc[p] = "idle" => session[p] = NoSession
    /\ pc[p] = "lock" => session[p] = Blank("open")
    /\ pc[p] = "inspect" => session[p] = Opened
    /\ pc[p] = "apply" => session[p].st = "open" /\ session[p].locked
    /\ pc[p] = "commit" => \/ session[p] = Blank("done")
                           \/ session[p].st = "commit" /\ session[p].locked
    /\ pc[p] # "idle" => exit[p] = "none"

\* The advisory lock has one holder, and a transaction left behind has it.
Exclusive ==
    /\ \A p, q \in Procs : session[p].locked /\ session[q].locked => p = q
    /\ \A o \in orphans : o.locked /\ \A p \in Procs : ~session[p].locked
    /\ \A o, q \in orphans : o = q

Created(executed) == UNION {TablesOf[id] : id \in executed}
Dropped(executed) == UNION {DroppedBy[id] : id \in executed}

\* A table of another owner that came in the way of 0001.
Taken(t) == t \in LegacyTables /\ schema[t] = "altered" /\ interfered > 0

\* What table t may be once these migrations are executed.
After(executed, t) ==
    IF t \in Dropped(executed) THEN {"none"}
    ELSE IF t \in Created(executed) THEN {"ok", schema[t]} \ {"none"}
    ELSE {schema[t]}

\* The DDL of a session is that of the executed migrations.  What they create was
\* not there, or was taken; what they drop may have come after the drop.
Executed(ddl, executed) ==
    /\ \A t \in Created(executed) : schema[t] = "none" \/ Taken(t)
    /\ \A t \in Tables :
          IF ddl[t] = "untouched"
          THEN /\ t \notin Created(executed)
               /\ t \in Dropped(executed) => schema[t] = "none" \/ interfered > 0
          ELSE ddl[t] \in After(executed, t)

\* Session s is on its way from the committed state to the image: what it has
\* recorded was pending, and was executed but for an adopted baseline.
Upgrading(s, image, executed) ==
    /\ ledger \subseteq Range(image)
    /\ s.recorded \subseteq Range(image)
    /\ IdsOf(s.recorded) \cap IdsOf(ledger) = {}
    /\ executed \subseteq IdsOf(s.recorded)
    /\ IdsOf(s.recorded) \subseteq executed \cup {"0001_jobs"}
    /\ executed # IdsOf(s.recorded) => ledger = {}
    /\ Executed(s.ddl, executed)

Changed(p) == run[p].applied \cup run[p].adopted

\* If nobody else changes them, the legacy tables are those of the ledger.
LegacyIsRecorded ==
    (OperatorSteps = 0 /\ ledger # {} /\ "0003_synchronous_generations" \notin IdsOf(ledger)) =>
        LegacyState(schema) = "complete"

\* In the loop the local copies agree with the database the session sees, and
\* what Inspect found there holds still.
LoopAt(p) ==
    pc[p] = "apply" =>
        /\ Upgrading(session[p], run[p].image, run[p].applied)
        /\ run[p].ledger = ledger \cup session[p].recorded
        /\ Changed(p) = IdsOf(session[p].recorded)
        /\ run[p].code = "0"
        /\ "0003_synchronous_generations" \in run[p].applied =>
              PendingIn(run[p].image, run[p].ledger) = {}
        /\ LegacyIsRecorded
        /\ interfered = 0 => LegacyState(schema) # "partial"

\* What a session has created, and not dropped again, is as released.
Completed(s, executed) ==
    \A t \in Created(executed) \ Dropped(executed) : s.ddl[t] = "ok"

\* A COMMIT under way carries all that was pending, or nothing.
Whole(s) ==
    \E image \in Images, executed \in SUBSET Ids :
        /\ Upgrading(s, image, executed)
        /\ s.recorded # {} => s.recorded = Range(image) \ ledger
        /\ Completed(s, executed)
        /\ (OperatorSteps = 0 /\ s.recorded # {}) =>
              Consistent(IdsOf(ledger \cup s.recorded), Overlay(s.ddl))

Committing ==
    /\ \A p \in Procs : session[p].st = "commit" => Whole(session[p])
    /\ \A o \in orphans : o.st = "commit" => Whole(o)

\* The COMMIT of p is executed, and exit code 0 is told or will be.
Settled(p) ==
    /\ run[p].code = "0"
    /\ \/ exit[p] = "0"
       \/ pc[p] = "commit" /\ session[p].st = "done"

\* What an invocation is to report is in the transaction it commits, or in the
\* ledger.
ReportAt(p) ==
    /\ exit[p] = "0" => run[p].code = "0"
    /\ pc[p] \in {"lock", "inspect"} => Changed(p) = {} /\ run[p].code = "0"
    /\ pc[p] = "commit" /\ session[p].st = "commit" =>
          /\ Changed(p) = IdsOf(session[p].recorded)
          /\ run[p].code = "0" => Range(run[p].image) \subseteq ledger \cup session[p].recorded
    /\ Settled(p) =>
          /\ Range(run[p].image) \subseteq ledger
          /\ Changed(p) \subseteq IdsOf(ledger)

\* No two invocations report the same migration.
Disjoint ==
    \A p, q \in Procs :
        p # q /\ Settled(p) /\ Settled(q) => Changed(p) \cap Changed(q) = {}

\* The inductive invariant.
LockInv ==
    /\ TypeOK
    /\ \A p \in Procs : ShapeAt(p)
    /\ Exclusive
    /\ \A p \in Procs : LoopAt(p)
    /\ Committing
    /\ \A p \in Procs : ReportAt(p)
    /\ Disjoint

-----------------------------------------------------------------------------
(* Images and their migrations *)

\* There are three positions.
LEMMA PositionType == \A m \in Migrations : m.id \in Ids /\ Position[m.id] \in 1 .. 3
<1>1. \A m \in Migrations : m.id \in Ids
  BY DEF Migrations
<1>2. ASSUME NEW id \in Ids PROVE Position[id] \in 1 .. 3
  BY DEF Position, Ids
<1> QED BY <1>1, <1>2

\* In an image an identifier names one migration.
LEMMA ImageIsUnique ==
  ASSUME NEW image \in Images
  PROVE  /\ \A m \in Range(image) : m \in Migrations
         /\ \A m, n \in Range(image) : m.id = n.id => m = n
<1>1. image \in Seq(Migrations)
  BY MigrationAssumption
<1>2. \A j, k \in DOMAIN image : j < k => Position[image[j].id] < Position[image[k].id]
  BY MigrationAssumption
<1>3. \A j \in DOMAIN image : image[j] \in Migrations /\ Position[image[j].id] \in 1 .. 3
  BY <1>1, PositionType
<1>4. ASSUME NEW j \in DOMAIN image, NEW k \in DOMAIN image, image[j].id = image[k].id
      PROVE  j = k
  <2>1. j \in Nat /\ k \in Nat
    BY <1>1
  <2> QED BY <1>2, <1>3, <1>4, <2>1
<1> QED BY <1>3, <1>4 DEF Range

\* What is pending is in the image and not recorded.
LEMMA PendingType ==
  ASSUME NEW image \in Images, NEW known, NEW m \in PendingIn(image, known)
  PROVE  m \in Range(image) /\ m \in Migrations /\ m.id \in Ids /\ m.id \notin IdsOf(known)
BY ImageIsUnique DEF PendingIn, Migrations

\* The migration that comes next is pending, and none that is pending has a
\* lower identifier.
LEMMA NextPendingIsFirst ==
  ASSUME NEW p \in Procs, run[p].image \in Images,
         PendingIn(run[p].image, run[p].ledger) # {}
  PROVE  /\ NextPending(p) \in PendingIn(run[p].image, run[p].ledger)
         /\ \A n \in PendingIn(run[p].image, run[p].ledger) :
               Position[NextPending(p).id] <= Position[n.id]
<1> DEFINE image == run[p].image
           P == PendingIn(run[p].image, run[p].ledger)
           First(m) == \A n \in P : \E j, k \in DOMAIN image :
                          j <= k /\ image[j] = m /\ image[k] = n
<1>1. /\ image \in Seq(Migrations)
      /\ \A j, k \in DOMAIN image : j < k => Position[image[j].id] < Position[image[k].id]
  BY MigrationAssumption
<1>2. /\ \A j \in DOMAIN image : j \in Nat /\ image[j] \in Migrations
      /\ \A m \in P : \E j \in DOMAIN image : image[j] = m
  BY <1>1 DEF PendingIn, Range
<1>3. \A m \in Migrations : Position[m.id] \in 1 .. 3
  BY PositionType
<1>4. \E m \in P : \A n \in P : Position[m.id] <= Position[n.id]
  <2>1. \A m \in P : Position[m.id] \in 1 .. 3
    BY <1>2, <1>3
  <2>2. CASE \E m \in P : Position[m.id] = 1
    BY <2>1, <2>2
  <2>3. CASE /\ ~ \E m \in P : Position[m.id] = 1
             /\ \E m \in P : Position[m.id] = 2
    BY <2>1, <2>3
  <2>4. CASE /\ ~ \E m \in P : Position[m.id] = 1
             /\ ~ \E m \in P : Position[m.id] = 2
    <3>1. \A m \in P : Position[m.id] = 3
      BY <2>1, <2>4
    <3>2. PICK m : m \in P
      OBVIOUS
    <3> QED BY <3>1, <3>2
  <2> QED BY <2>2, <2>3, <2>4
<1>5. \E m \in P : First(m)
  <2>1. PICK m \in P : \A n \in P : Position[m.id] <= Position[n.id]
    BY <1>4
  <2>2. ASSUME NEW n \in P PROVE \E j, k \in DOMAIN image : j <= k /\ image[j] = m /\ image[k] = n
    <3>1. PICK j \in DOMAIN image : image[j] = m
      BY <1>2
    <3>2. PICK k \in DOMAIN image : image[k] = n
      BY <1>2
    <3>3. Position[m.id] \in 1 .. 3 /\ Position[n.id] \in 1 .. 3 /\ j \in Nat /\ k \in Nat
      BY <1>2, <1>3, <3>1, <3>2
    <3>4. j <= k
      BY <1>1, <2>1, <3>1, <3>2, <3>3
    <3> QED BY <3>1, <3>2, <3>4
  <2> QED BY <2>1, <2>2
<1>6. NextPending(p) \in P /\ First(NextPending(p))
  <2>1. NextPending(p) = CHOOSE m \in P : First(m)
    BY DEF NextPending
  <2> HIDE DEF First, P
  <2> QED BY <1>5, <2>1
<1>7. ASSUME NEW n \in P PROVE Position[NextPending(p).id] <= Position[n.id]
  <2>1. First(NextPending(p))
    BY <1>6
  <2>2. PICK j \in DOMAIN image, k \in DOMAIN image :
            j <= k /\ image[j] = NextPending(p) /\ image[k] = n
    BY <2>1
  <2>3. /\ j \in Nat /\ k \in Nat
        /\ Position[image[j].id] \in 1 .. 3 /\ Position[image[k].id] \in 1 .. 3
    BY <1>2, <1>3
  <2>4. CASE j = k
    BY <2>2, <2>3, <2>4
  <2>5. CASE j < k
    BY <1>1, <2>2, <2>3, <2>5
  <2> QED BY <2>2, <2>3, <2>4, <2>5
<1> QED BY <1>6, <1>7

\* Only 0001 is adopted.
LEMMA BaselineIsFirst ==
  ASSUME NEW p \in Procs, run[p].image \in AdoptingImages, run[p].ledger = {},
         PendingIn(run[p].image, run[p].ledger) # {}
  PROVE  NextPending(p).id = "0001_jobs"
<1> DEFINE image == run[p].image
<1>1. image \in Images /\ image \in Seq(Migrations) /\ image # << >> /\ image[1].id = "0001_jobs"
  BY MigrationAssumption
<1>2. image[1] \in Range(image)
  <2>1. Len(image) \in Nat /\ Len(image) # 0 /\ DOMAIN image = 1 .. Len(image)
    BY <1>1
  <2> QED BY <2>1 DEF Range
<1>3. image[1] \in PendingIn(image, run[p].ledger)
  BY <1>2 DEF PendingIn, IdsOf
<1>4. Position[NextPending(p).id] <= Position[image[1].id]
  BY <1>1, <1>3, NextPendingIsFirst
<1>5. NextPending(p).id \in Ids
  BY <1>1, NextPendingIsFirst, PendingType
<1> QED BY <1>1, <1>4, <1>5 DEF Position, Ids

\* Nothing is pending after 0003.
LEMMA LastIsLast ==
  ASSUME NEW p \in Procs, run[p].image \in Images,
         PendingIn(run[p].image, run[p].ledger) # {},
         NextPending(p).id = "0003_synchronous_generations"
  PROVE  PendingIn(run[p].image, run[p].ledger \cup {NextPending(p)}) = {}
<1> SUFFICES ASSUME NEW n \in PendingIn(run[p].image, run[p].ledger \cup {NextPending(p)})
             PROVE  FALSE
  OBVIOUS
<1>1. n \in PendingIn(run[p].image, run[p].ledger) /\ n.id # NextPending(p).id
  BY DEF PendingIn, IdsOf
<1>2. n.id \in Ids /\ Position[NextPending(p).id] <= Position[n.id]
  BY <1>1, NextPendingIsFirst, PendingType
<1> QED BY <1>1, <1>2 DEF Position, Ids

\* Once nothing is pending, the rows recorded are those the ledger lacked.
LEMMA NothingPending ==
  ASSUME NEW image \in Images, NEW known, NEW recorded,
         known \subseteq Range(image), recorded \subseteq Range(image),
         IdsOf(recorded) \cap IdsOf(known) = {},
         PendingIn(image, known \cup recorded) = {}
  PROVE  recorded = Range(image) \ known
<1>1. ASSUME NEW m \in Range(image), m \notin known PROVE m \in recorded
  <2>1. m.id \in IdsOf(known \cup recorded)
    BY DEF PendingIn
  <2>2. PICK n \in known \cup recorded : n.id = m.id
    BY <2>1 DEF IdsOf
  <2> QED BY <1>1, <2>2, ImageIsUnique
<1>2. ASSUME NEW m \in recorded PROVE m \notin known
  BY DEF IdsOf
<1> QED BY <1>1, <1>2

-----------------------------------------------------------------------------
(* DDL *)

\* The tables of a migration are tables.
LEMMA TablesOfType ==
  /\ \A id \in Ids : TablesOf[id] \in SUBSET Tables /\ DroppedBy[id] \in SUBSET Tables
  /\ TablesOf["0001_jobs"] = LegacyTables /\ DroppedBy["0001_jobs"] = {}
  /\ TablesOf["0002_worker_protocol"] = WorkerTables /\ DroppedBy["0002_worker_protocol"] = {}
  /\ TablesOf["0003_synchronous_generations"] = GenerationTables
  /\ DroppedBy["0003_synchronous_generations"] = LegacyTables \cup WorkerTables
BY DEF TablesOf, DroppedBy, Ids, Tables

\* The three groups of tables do not overlap.
LEMMA TablesApart ==
  /\ LegacyTables \cap WorkerTables = {}
  /\ GenerationTables \cap (LegacyTables \cup WorkerTables) = {}
  /\ "jobs" \in LegacyTables
BY DEF LegacyTables, WorkerTables, GenerationTables

\* One more migration creates and drops its tables.
LEMMA OneMore ==
  ASSUME NEW executed, NEW id
  PROVE  /\ Created(executed \cup {id}) = Created(executed) \cup TablesOf[id]
         /\ Dropped(executed \cup {id}) = Dropped(executed) \cup DroppedBy[id]
BY DEF Created, Dropped

\* What a session sees is what its executed migrations make of the tables, but
\* for a table that came after the drop.
LEMMA SeesExecuted ==
  ASSUME NEW ddl, NEW executed, Executed(ddl, executed), NEW t \in Tables
  PROVE  /\ Overlay(ddl)[t] \in After(executed, t) \cup {schema[t]}
         /\ t \notin Dropped(executed) => Overlay(ddl)[t] \in After(executed, t)
<1>1. Overlay(ddl)[t] = IF ddl[t] = "untouched" THEN schema[t] ELSE ddl[t]
  BY DEF Overlay
<1>2. CASE ddl[t] = "untouched"
  BY <1>1, <1>2 DEF Executed, After
<1>3. CASE ddl[t] # "untouched"
  BY <1>1, <1>3 DEF Executed
<1> QED BY <1>2, <1>3

\* Nothing executed, nothing changed.
LEMMA NothingExecuted ==
  ASSUME schema \in Schema, NEW ddl, Executed(ddl, {})
  PROVE  Overlay(ddl) = schema
<1>1. \A t \in Tables : After({}, t) = {schema[t]}
  BY DEF After, Created, Dropped
<1>2. \A t \in Tables : Overlay(ddl)[t] = schema[t]
  BY <1>1, SeesExecuted
<1> QED BY <1>2 DEF Schema, Overlay

\* An untouched transaction has executed nothing.
LEMMA BlankExecuted == Executed([t \in Tables |-> "untouched"], {})
BY DEF Executed, Created, Dropped

\* Executing a migration whose SQL does not fail, before 0003, creates tables
\* that nobody has, or takes some that came in the way, and drops what it should.
LEMMA ExecuteOne ==
  ASSUME schema \in Schema, NEW ddl, NEW executed \in SUBSET Ids, NEW id \in Ids,
         Executed(ddl, executed), "0003_synchronous_generations" \notin executed,
         id \notin executed, interfered \in Nat,
         interfered = 0 => LegacyState(schema) # "partial",
         ~SqlFails(id, Overlay(ddl)), NEW completed
  PROVE  Executed(SqlEffect(id, ddl, Overlay(ddl), completed), executed \cup {id})
<1> DEFINE view == Overlay(ddl)
           more == executed \cup {id}
           effect == SqlEffect(id, ddl, view, completed)
<1>1. Dropped(executed) = {}
  <2>1. \A i \in executed : DroppedBy[i] = {}
    BY DEF DroppedBy, Ids
  <2> QED BY <2>1 DEF Dropped
<1>2. \A t \in Tables : view[t] \in After(executed, t)
  BY <1>1, SeesExecuted
<1>3. /\ Created(more) = Created(executed) \cup TablesOf[id]
      /\ Dropped(more) = DroppedBy[id]
  <2>1. /\ Created(executed \cup {id}) = Created(executed) \cup TablesOf[id]
        /\ Dropped(executed \cup {id}) = Dropped(executed) \cup DroppedBy[id]
    BY OneMore
  <2>2. {} \cup DroppedBy[id] = DroppedBy[id]
    OBVIOUS
  <2> QED BY <1>1, <2>1, <2>2
<1>4. \A t \in TablesOf[id] : t \in Tables /\ t \notin Created(executed)
  <2>1. \A i \in executed : TablesOf[i] \cap TablesOf[id] = {}
    BY TablesApart DEF TablesOf, Ids
  <2> QED BY <2>1, TablesOfType DEF Created
<1>5. \A t \in TablesOf[id] : view[t] = schema[t]
  BY <1>1, <1>2, <1>4 DEF After
<1>6. \A t \in TablesOf[id] : schema[t] = "none" \/ Taken(t)
  <2>1. CASE id = "0001_jobs"
    <3>1. \A t \in LegacyTables : schema[t] \in {"none", "altered"}
      BY <1>4, <1>5, <2>1, TablesOfType DEF SqlFails, Schema, TableState
    <3>2. (\E t \in LegacyTables : schema[t] = "altered") => LegacyState(schema) = "partial"
      BY <3>1 DEF LegacyState, Shape
    <3> QED BY <2>1, <3>1, <3>2, TablesOfType DEF Taken
  <2>2. CASE id # "0001_jobs"
    <3>1. \A t \in TablesOf[id] : view[t] = "none"
      BY <2>2, TablesOfType DEF SqlFails, Ids
    <3> QED BY <1>5, <3>1
  <2> QED BY <2>1, <2>2
<1>7. \A t \in Created(more) : schema[t] = "none" \/ Taken(t)
  BY <1>3, <1>6 DEF Executed
<1>8. \A t \in Tables : schema[t] \in {"none", "altered", "ok"}
  BY DEF Schema, TableState
<1>9. ASSUME NEW t \in Tables
      PROVE  IF effect[t] = "untouched"
             THEN /\ t \notin Created(more)
                  /\ t \in Dropped(more) => schema[t] = "none" \/ interfered > 0
             ELSE effect[t] \in After(more, t)
  <2>1. IF ddl[t] = "untouched" THEN t \notin Created(executed)
        ELSE ddl[t] \in After(executed, t)
    BY DEF Executed
  <2>2. CASE id = "0001_jobs"
    <3>1. effect[t] = IF t \notin LegacyTables THEN ddl[t]
                      ELSE IF view[t] = "none" \/ t \in completed THEN "ok" ELSE view[t]
      BY <2>2 DEF SqlEffect
    <3>2. CASE t \in LegacyTables
      <4>1. view[t] = schema[t] /\ t \in Created(more) /\ Dropped(more) = {}
        BY <1>3, <1>5, <2>2, <3>2, TablesOfType
      <4> QED BY <1>8, <3>1, <3>2, <4>1 DEF After
    <3>3. CASE t \notin LegacyTables
      <4>1. (t \in Created(more)) = (t \in Created(executed)) /\ Dropped(more) = {}
        BY <1>3, <2>2, <3>3, TablesOfType
      <4> QED BY <1>1, <2>1, <3>1, <3>3, <4>1 DEF After
    <3> QED BY <3>2, <3>3
  <2>3. CASE id = "0002_worker_protocol"
    <3>1. effect[t] = IF t \in WorkerTables THEN "ok" ELSE IF t = "jobs" THEN view[t] ELSE ddl[t]
      BY <2>3 DEF SqlEffect
    <3>2. view[t] \in After(executed, t) /\ view[t] # "untouched"
      BY <1>1, <1>2, <1>8 DEF After
    <3>3. CASE t \in WorkerTables
      <4>1. t \in Created(more) /\ Dropped(more) = {}
        BY <1>3, <2>3, <3>3, TablesOfType
      <4> QED BY <3>1, <3>3, <4>1 DEF After
    <3>4. CASE t \notin WorkerTables
      <4>1. (t \in Created(more)) = (t \in Created(executed)) /\ Dropped(more) = {}
        BY <1>3, <2>3, <3>4, TablesOfType
      <4> QED BY <1>1, <2>1, <3>1, <3>2, <3>4, <4>1 DEF After
    <3> QED BY <3>3, <3>4
  <2>4. CASE id = "0003_synchronous_generations"
    <3>1. effect[t] = IF t \in GenerationTables THEN "ok"
                      ELSE IF ddl[t] = "untouched" /\ schema[t] = "none" THEN "untouched" ELSE "none"
      BY <2>4 DEF SqlEffect
    <3>2. CASE t \in GenerationTables
      <4>1. t \in Created(more) /\ t \notin Dropped(more)
        BY <1>3, <2>4, <3>2, TablesOfType, TablesApart
      <4> QED BY <3>1, <3>2, <4>1 DEF After
    <3>3. CASE t \notin GenerationTables
      <4>1. /\ (t \in Created(more)) = (t \in Created(executed))
            /\ t \in Dropped(more)
        BY <1>3, <2>4, <3>3, TablesOfType DEF Tables
      <4> QED BY <2>1, <3>1, <3>3, <4>1 DEF After
    <3> QED BY <3>2, <3>3
  <2> QED BY <2>2, <2>3, <2>4 DEF Ids
<1> QED BY <1>7, <1>9 DEF Executed

\* DDL on top of committed tables yields tables.
LEMMA OverlayType ==
  ASSUME schema \in Schema, NEW ddl \in [Tables -> TableState \cup {"untouched"}]
  PROVE  Overlay(ddl) \in Schema
BY DEF Overlay, Schema

\* The DDL of a migration is DDL.
LEMMA EffectType ==
  ASSUME NEW ddl \in [Tables -> TableState \cup {"untouched"}], NEW view \in Schema, NEW id \in Ids,
         NEW completed
  PROVE  SqlEffect(id, ddl, view, completed) \in [Tables -> TableState \cup {"untouched"}]
<1>1. CASE id = "0001_jobs"
  BY <1>1 DEF SqlEffect, TableState, Schema
<1>2. CASE id = "0002_worker_protocol"
  BY <1>2 DEF SqlEffect, TableState, Schema
<1>3. CASE id = "0003_synchronous_generations"
  BY <1>3 DEF SqlEffect, TableState
<1> QED BY <1>1, <1>2, <1>3 DEF Ids

\* A statement of another owner, on a table that no session has touched, is in
\* no session's way.
LEMMA InterfereExecuted ==
  ASSUME schema \in Schema, NEW t \in Tables, NEW state, schema' = [schema EXCEPT ![t] = state],
         interfered \in Nat, interfered' = interfered + 1,
         NEW ddl, NEW executed \in SUBSET Ids, ddl[t] = "untouched", Executed(ddl, executed)
  PROVE  Executed(ddl, executed)'
<1>1. t \notin Created(executed) /\ interfered' > 0
  BY DEF Executed
<1>2. Created(executed)' = Created(executed) /\ Dropped(executed)' = Dropped(executed)
  BY DEF Created, Dropped
<1>3. \A q \in Tables \ {t} : schema'[q] = schema[q]
  BY DEF Schema
<1>4. \A q \in Tables \ {t} : After(executed, q)' = After(executed, q)
  BY <1>2, <1>3 DEF After
<1>5. ASSUME NEW q \in Created(executed)
      PROVE  schema'[q] = "none" \/ Taken(q)'
  <2>1. q \in Tables \ {t}
    BY <1>1, TablesOfType DEF Created
  <2> QED BY <1>1, <1>3, <2>1 DEF Executed, Taken
<1>6. ASSUME NEW q \in Tables
      PROVE  IF ddl[q] = "untouched"
             THEN /\ q \notin Created(executed)
                  /\ q \in Dropped(executed) => schema'[q] = "none" \/ interfered' > 0
             ELSE ddl[q] \in After(executed, q)'
  <2>1. CASE q = t
    BY <1>1, <2>1
  <2>2. CASE q # t
    BY <1>1, <1>4, <2>2 DEF Executed
  <2> QED BY <2>1, <2>2
<1> QED BY <1>2, <1>5, <1>6 DEF Executed

-----------------------------------------------------------------------------
(* What one process does leaves the others where they were *)

\* Another process in its loop is not disturbed.
LEMMA LoopFrame ==
  ASSUME NEW q \in Procs, LoopAt(q),
         UNCHANGED <<schema, ledger, interfered, pc[q], run[q], session[q]>>
  PROVE  LoopAt(q)'
BY DEF LoopAt, Upgrading, Executed, Taken, Created, Dropped, After, Changed, LegacyIsRecorded,
       LegacyState, Shape

\* Nor is a COMMIT under way.
LEMMA WholeFrame ==
  ASSUME NEW s, Whole(s), UNCHANGED <<schema, ledger, interfered>>
  PROVE  Whole(s)'
<1>1. Overlay(s.ddl)' = Overlay(s.ddl)
  BY DEF Overlay
<1>2. \A ids : Consistent(ids, Overlay(s.ddl))' = Consistent(ids, Overlay(s.ddl))
  BY <1>1 DEF Consistent, GenerationState, LegacyState, WorkerAbsent, Shape
<1>3. \A image \in Images, executed \in SUBSET Ids :
         /\ Upgrading(s, image, executed)' = Upgrading(s, image, executed)
         /\ Completed(s, executed)' = Completed(s, executed)
  BY DEF Upgrading, Completed, Executed, Taken, Created, Dropped, After
<1> QED BY <1>2, <1>3 DEF Whole

\* A statement of p that writes nothing committed keeps the invariant, if p is
\* where its session is, takes the lock only when it is free, sends a COMMIT
\* that is whole, and reports no success that was not settled.
LEMMA Frame ==
  ASSUME LockInv, NEW p \in Procs, TypeOK', UNCHANGED <<schema, ledger, interfered>>,
         \A q \in Procs \ {p} : UNCHANGED <<pc[q], run[q], session[q], exit[q]>>,
         \/ orphans' \subseteq orphans
         \/ /\ orphans' = orphans \cup {session[p]}
            /\ session[p].locked /\ ~session'[p].locked,
         session'[p].locked => session[p].locked \/ LockFree(p),
         ShapeAt(p)', LoopAt(p)', ReportAt(p)',
         session'[p].st = "commit" => Whole(session[p])',
         Settled(p)' => Settled(p) /\ UNCHANGED run[p]
  PROVE  LockInv'
<1>1. ASSUME NEW q \in Procs, q # p
      PROVE  ShapeAt(q)' /\ LoopAt(q)' /\ ReportAt(q)' /\ Settled(q)' = Settled(q)
  <2>1. UNCHANGED <<pc[q], run[q], session[q], exit[q]>>
    BY <1>1
  <2>2. ShapeAt(q) /\ LoopAt(q) /\ ReportAt(q)
    BY DEF LockInv
  <2>3. LoopAt(q)'
    BY <2>1, <2>2, LoopFrame
  <2>4. ShapeAt(q)'
    BY <2>1, <2>2 DEF ShapeAt
  <2>5. Settled(q)' = Settled(q)
    BY <2>1 DEF Settled
  <2>6. ReportAt(q)'
    BY <2>1, <2>2, <2>5 DEF ReportAt, Changed
  <2> QED BY <2>3, <2>4, <2>5, <2>6
<1>2. Exclusive'
  <2>1. ASSUME NEW q \in Procs, session'[q].locked, NEW r \in Procs, session'[r].locked
        PROVE  q = r
    BY <2>1 DEF LockInv, Exclusive, LockFree
  <2>2. ASSUME NEW o \in orphans'
        PROVE  o.locked /\ \A q \in Procs : ~session'[q].locked
    BY DEF LockInv, Exclusive, LockFree
  <2>3. ASSUME NEW o \in orphans', NEW r \in orphans'
        PROVE  o = r
    BY DEF LockInv, Exclusive
  <2> QED BY <2>1, <2>2, <2>3 DEF Exclusive
<1>3. Committing'
  <2>1. ASSUME NEW q \in Procs, session'[q].st = "commit" PROVE Whole(session[q])'
    <3>1. CASE q = p
      BY <2>1, <3>1
    <3>2. CASE q # p
      <4>1. session'[q] = session[q] /\ Whole(session[q])
        BY <2>1, <3>2 DEF LockInv, Committing
      <4>2. PICK s : s = session[q]
        OBVIOUS
      <4>3. Whole(s)'
        BY <4>1, <4>2, WholeFrame
      <4> QED BY <4>1, <4>2, <4>3
    <3> QED BY <3>1, <3>2
  <2>2. ASSUME NEW o \in orphans', o.st = "commit" PROVE Whole(o)'
    <3>1. Whole(o)
      BY <2>2 DEF LockInv, Committing
    <3> QED BY <3>1, WholeFrame
  <2> QED BY <2>1, <2>2 DEF Committing
<1>4. Disjoint'
  <2> SUFFICES ASSUME NEW q \in Procs, NEW r \in Procs, q # r, Settled(q)', Settled(r)'
               PROVE  Changed(q)' \cap Changed(r)' = {}
    BY DEF Disjoint
  <2>1. Settled(q) /\ Settled(r)
    BY <1>1
  <2>2. Changed(q)' = Changed(q) /\ Changed(r)' = Changed(r)
    BY DEF Changed
  <2> QED BY <2>1, <2>2 DEF LockInv, Disjoint
<1> QED BY <1>1, <1>2, <1>3, <1>4 DEF LockInv

\* The sessions of a process are well typed.
LEMMA BlankType ==
  ASSUME NEW st \in {"none", "open", "commit", "done"}
  PROVE  /\ Blank(st) \in Session
         /\ Blank(st).st = st /\ ~Blank(st).locked /\ Blank(st).recorded = {}
         /\ Blank(st).ddl = [t \in Tables |-> "untouched"]
BY DEF Blank, Session

LEMMA OpenedType ==
  /\ Opened \in Session
  /\ Opened.st = "open" /\ Opened.locked /\ Opened.recorded = {}
  /\ Opened.ddl = [t \in Tables |-> "untouched"]
BY DEF Opened, Blank, Session

\* A refusal that rolls back keeps the invariant.
LEMMA FailInv ==
  ASSUME LockInv, NEW p \in Procs, NEW code \in {"3", "4"}, Fail(p, code)
  PROVE  LockInv'
<1>1. /\ pc' = [pc EXCEPT ![p] = "idle"] /\ session' = [session EXCEPT ![p] = NoSession]
      /\ exit' = [exit EXCEPT ![p] = code]
      /\ UNCHANGED <<schema, ledger, run, orphans, interfered>>
  BY DEF Fail, Goto
<1>2. TypeOK'
  BY <1>1, BlankType DEF LockInv, TypeOK, NoSession, Exits
<1>3. pc'[p] = "idle" /\ session'[p] = NoSession /\ exit'[p] = code
  BY <1>1 DEF LockInv, TypeOK
<1>4. ~NoSession.locked /\ NoSession.st = "none"
  BY BlankType DEF NoSession
<1>5. ShapeAt(p)' /\ LoopAt(p)' /\ ReportAt(p)' /\ ~Settled(p)'
  BY <1>3 DEF ShapeAt, LoopAt, ReportAt, Settled, NoSession, Blank
<1>6. \A q \in Procs \ {p} : UNCHANGED <<pc[q], run[q], session[q], exit[q]>>
  BY <1>1 DEF LockInv, TypeOK
<1> QED BY <1>1, <1>2, <1>3, <1>4, <1>5, <1>6, Frame

\* So does a new invocation.
LEMMA StartInv ==
  ASSUME LockInv, NEW p \in Procs, Start(p)
  PROVE  LockInv'
<1>1. PICK i \in Images, c \in CheckFlags, supported \in Supported :
         /\ run' = [run EXCEPT ![p] = [image |-> i, check |-> c, ledger |-> {},
                                       legacy |-> "absent", applied |-> {}, adopted |-> {},
                                       code |-> "0"]]
         /\ \/ /\ pc' = [pc EXCEPT ![p] = "lock"]
               /\ session' = [session EXCEPT ![p] = Blank("open")]
               /\ exit' = [exit EXCEPT ![p] = "none"]
            \/ exit' = [exit EXCEPT ![p] = "3"] /\ UNCHANGED <<pc, session>>
  BY DEF Start, Goto
<1>2. pc[p] = "idle" /\ UNCHANGED <<schema, ledger, orphans, interfered>>
  BY DEF Start
<1>3. run' \in [Procs -> Run]
  BY <1>1, MigrationAssumption DEF LockInv, TypeOK, Run, ShapeState
<1>4. TypeOK'
  BY <1>1, <1>2, <1>3, BlankType DEF LockInv, TypeOK, Exits
<1>5. /\ Changed(p)' = {} /\ run'[p].code = "0"
      /\ \/ pc'[p] = "lock" /\ session'[p] = Blank("open") /\ exit'[p] = "none"
         \/ pc'[p] = "idle" /\ session'[p] = NoSession /\ exit'[p] = "3"
  BY <1>1, <1>2 DEF LockInv, TypeOK, ShapeAt, Changed
<1>6. ~session'[p].locked /\ session'[p].st \in {"none", "open"}
  BY <1>5, BlankType DEF NoSession
<1>7. ShapeAt(p)' /\ LoopAt(p)' /\ ReportAt(p)' /\ ~Settled(p)'
  BY <1>5 DEF ShapeAt, LoopAt, ReportAt, Settled
<1>8. \A q \in Procs \ {p} : UNCHANGED <<pc[q], run[q], session[q], exit[q]>>
  BY <1>1 DEF LockInv, TypeOK
<1> QED BY <1>2, <1>4, <1>6, <1>7, <1>8, Frame

\* The lock is taken only when it is free.
LEMMA AcquireLockInv ==
  ASSUME LockInv, NEW p \in Procs, AcquireLock(p)
  PROVE  LockInv'
<1>1. /\ pc[p] = "lock" /\ LockFree(p) /\ pc' = [pc EXCEPT ![p] = "inspect"]
      /\ session' = [session EXCEPT ![p].locked = TRUE]
      /\ UNCHANGED <<schema, ledger, run, orphans, exit, interfered>>
  BY DEF AcquireLock, Goto
<1>2. session[p] = Blank("open") /\ exit[p] = "none"
  BY <1>1 DEF LockInv, ShapeAt
<1>3. session' = [session EXCEPT ![p] = Opened]
  BY <1>1, <1>2 DEF Opened
<1>4. TypeOK'
  <2>1. session' \in [Procs -> Session]
    BY <1>3, OpenedType DEF LockInv, TypeOK
  <2>2. pc' \in [Procs -> {"idle", "lock", "inspect", "apply", "commit"}]
    BY <1>1 DEF LockInv, TypeOK
  <2> QED BY <1>1, <2>1, <2>2 DEF LockInv, TypeOK
<1>5. pc'[p] = "inspect" /\ session'[p] = Opened /\ exit'[p] = "none"
  BY <1>1, <1>2, <1>3 DEF LockInv, TypeOK
<1>6. ShapeAt(p)' /\ LoopAt(p)' /\ ReportAt(p)' /\ ~Settled(p)'
  BY <1>1, <1>5 DEF LockInv, ShapeAt, LoopAt, ReportAt, Settled, Changed
<1>7. \A q \in Procs \ {p} : UNCHANGED <<pc[q], run[q], session[q], exit[q]>>
  BY <1>1, <1>3 DEF LockInv, TypeOK
<1> QED BY <1>1, <1>4, <1>5, <1>6, <1>7, OpenedType, Frame

\* So does the acknowledgement: what is reported was settled by COMMIT.
LEMMA AckInv ==
  ASSUME LockInv, NEW p \in Procs, Ack(p)
  PROVE  LockInv'
<1>1. /\ pc[p] = "commit" /\ session[p].st = "done" /\ pc' = [pc EXCEPT ![p] = "idle"]
      /\ session' = [session EXCEPT ![p] = NoSession]
      /\ exit' = [exit EXCEPT ![p] = run[p].code]
      /\ UNCHANGED <<schema, ledger, run, orphans, interfered>>
  BY DEF Ack, Goto
<1>2. run[p].code \in {"0", "5"}
  BY DEF LockInv, TypeOK, Run
<1>3. TypeOK'
  BY <1>1, <1>2, BlankType DEF LockInv, TypeOK, NoSession, Exits
<1>4. pc'[p] = "idle" /\ session'[p] = NoSession /\ exit'[p] = run[p].code /\ run'[p] = run[p]
  BY <1>1 DEF LockInv, TypeOK
<1>5. Settled(p)' => Settled(p)
  BY <1>1, <1>4 DEF Settled
<1>6. ShapeAt(p)' /\ LoopAt(p)'
  BY <1>4 DEF ShapeAt, LoopAt
<1>7. ReportAt(p)'
  BY <1>1, <1>4, <1>5 DEF LockInv, ReportAt, Changed
<1>8. \A q \in Procs \ {p} : UNCHANGED <<pc[q], run[q], session[q], exit[q]>>
  BY <1>1 DEF LockInv, TypeOK
<1>9. ~NoSession.locked /\ NoSession.st = "none"
  BY BlankType DEF NoSession
<1> QED BY <1>1, <1>3, <1>4, <1>5, <1>6, <1>7, <1>8, <1>9, Frame

\* A broken connection or a crash leaves a transaction behind with its lock.
LEMMA BrokenInv ==
  ASSUME LockInv, NEW p \in Procs, Broken(p)
  PROVE  LockInv'
<1>1. PICK code \in {"4", "none"} : exit' = [exit EXCEPT ![p] = code]
  BY DEF Broken
<1>2. /\ pc' = [pc EXCEPT ![p] = "idle"]
      /\ orphans' = IF session[p].locked THEN orphans \cup {session[p]} ELSE orphans
      /\ session' = [session EXCEPT ![p] = NoSession]
      /\ UNCHANGED <<schema, ledger, run, interfered>>
  BY DEF Broken, Goto, Abandon
<1>3. TypeOK'
  BY <1>1, <1>2, BlankType DEF LockInv, TypeOK, NoSession, Exits
<1>4. pc'[p] = "idle" /\ session'[p] = NoSession /\ exit'[p] = code
  BY <1>1, <1>2 DEF LockInv, TypeOK
<1>5. ~NoSession.locked /\ NoSession.st = "none"
  BY BlankType DEF NoSession
<1>6. ShapeAt(p)' /\ LoopAt(p)' /\ ReportAt(p)' /\ ~Settled(p)'
  BY <1>4 DEF ShapeAt, LoopAt, ReportAt, Settled
<1>7. \A q \in Procs \ {p} : UNCHANGED <<pc[q], run[q], session[q], exit[q]>>
  BY <1>1, <1>2 DEF LockInv, TypeOK
<1>8. \/ orphans' \subseteq orphans
      \/ /\ orphans' = orphans \cup {session[p]}
         /\ session[p].locked /\ ~session'[p].locked
  BY <1>2, <1>4, <1>5
<1> QED BY <1>2, <1>3, <1>4, <1>5, <1>6, <1>7, <1>8, Frame

-----------------------------------------------------------------------------
(* Under the lock *)

\* A session with nothing recorded that found the ledger in its image.
LEMMA NothingRecorded ==
  ASSUME NEW s, NEW image, s.recorded = {}, s.ddl = [t \in Tables |-> "untouched"],
         ledger \subseteq Range(image)
  PROVE  Upgrading(s, image, {})
BY BlankExecuted DEF Upgrading, IdsOf

\* What is read under the lock, and the answer of --check.
LEMMA InspectInv ==
  ASSUME LockInv, NEW p \in Procs, Inspect(p)
  PROVE  LockInv'
<1> DEFINE image == run[p].image
           pending == PendingIn(image, ledger)
<1>1. /\ pc[p] = "inspect" /\ session[p] = Opened /\ exit[p] = "none"
      /\ Changed(p) = {} /\ run[p].code = "0" /\ image \in Images
  BY DEF Inspect, LockInv, ShapeAt, ReportAt, TypeOK, Run
<1>2. CASE Fail(p, "3")
  BY <1>2, FailInv
<1>3. ~Incompatible(image) =>
         /\ ledger \subseteq Range(image)
         /\ LegacyIsRecorded
  BY DEF Incompatible, LegacyIsRecorded
<1>4. CASE /\ ~Incompatible(image)
           /\ run' = [run EXCEPT ![p].code = IF pending = {} THEN "0" ELSE "5"]
           /\ SendCommit(p)
  <2> DEFINE code == IF pending = {} THEN "0" ELSE "5"
             sent == [Opened EXCEPT !.st = "commit"]
  <2>1. /\ pc' = [pc EXCEPT ![p] = "commit"] /\ session' = [session EXCEPT ![p] = sent]
        /\ UNCHANGED <<schema, ledger, orphans, exit, interfered>>
    BY <1>1, <1>4 DEF SendCommit, Goto
  <2>2. /\ sent \in Session /\ sent.st = "commit" /\ sent.locked /\ sent.recorded = {}
        /\ sent.ddl = [t \in Tables |-> "untouched"]
    BY OpenedType DEF Session
  <2>3. run' = [run EXCEPT ![p] = [run[p] EXCEPT !.code = code]]
        /\ [run[p] EXCEPT !.code = code] \in Run
    BY <1>4 DEF LockInv, TypeOK, Run
  <2> HIDE DEF sent
  <2>4. TypeOK'
    BY <2>1, <2>2, <2>3 DEF LockInv, TypeOK
  <2>5. pc'[p] = "commit" /\ session'[p] = sent /\ exit'[p] = "none" /\ run'[p].code = code
        /\ run'[p].image = image /\ Changed(p)' = {}
    BY <1>1, <2>1, <2>3 DEF LockInv, TypeOK, Changed, Run
  <2>6. ShapeAt(p)' /\ LoopAt(p)' /\ ~Settled(p)'
    BY <2>2, <2>5 DEF ShapeAt, LoopAt, Settled
  <2>7. ReportAt(p)'
    <3>1. IdsOf(sent.recorded) = {}
      BY <2>2 DEF IdsOf
    <3>2. code = "0" => Range(image) \subseteq ledger
      <4> SUFFICES ASSUME pending = {} PROVE Range(image) \subseteq ledger
        OBVIOUS
      <4>1. PendingIn(image, ledger \cup {}) = {}
        BY DEF PendingIn, IdsOf
      <4>2. IdsOf({}) \cap IdsOf(ledger) = {}
        BY DEF IdsOf
      <4>3. {} = Range(image) \ ledger
        BY <1>1, <1>3, <1>4, <4>1, <4>2, NothingPending
      <4> QED BY <4>3
    <3> QED BY <2>1, <2>2, <2>5, <2>6, <3>1, <3>2 DEF ReportAt
  <2>8. Whole(session[p])'
    <3>1. Upgrading(sent, image, {})
      BY <1>3, <1>4, <2>2, NothingRecorded
    <3>2. Completed(sent, {})
      BY DEF Completed, Created
    <3>3. Whole(sent)
      BY <1>1, <2>2, <3>1, <3>2 DEF Whole
    <3>4. PICK s : s = sent
      OBVIOUS
    <3>5. Whole(s)'
      BY <2>1, <3>3, <3>4, WholeFrame
    <3> QED BY <2>5, <3>4, <3>5
  <2>9. \A q \in Procs \ {p} : UNCHANGED <<pc[q], run[q], session[q], exit[q]>>
    BY <2>1, <2>3 DEF LockInv, TypeOK
  <2>10. session[p].locked
    BY <1>1, OpenedType
  <2> QED BY <2>1, <2>4, <2>6, <2>7, <2>8, <2>9, <2>10, Frame
<1>5. CASE /\ ~Incompatible(image) /\ ~Unrepairable
           /\ run' = [run EXCEPT ![p].ledger = ledger, ![p].legacy = LegacyState(schema)]
           /\ Goto(p, "apply")
           /\ UNCHANGED <<schema, ledger, session, orphans, exit, interfered>>
  <2> DEFINE read == [run[p] EXCEPT !.ledger = ledger, !.legacy = LegacyState(schema)]
  <2>1. LegacyState(schema) \in ShapeState
    BY DEF LegacyState, Shape, ShapeState
  <2>2. run' = [run EXCEPT ![p] = read] /\ read \in Run
    BY <1>5, <2>1 DEF LockInv, TypeOK, Run
  <2>3. /\ read.image = image /\ read.ledger = ledger /\ read.applied = run[p].applied
        /\ read.adopted = run[p].adopted /\ read.code = "0"
    BY <1>1 DEF LockInv, TypeOK, Run
  <2> HIDE DEF read
  <2>4. TypeOK'
    BY <1>5, <2>2 DEF LockInv, TypeOK, Goto
  <2>5. pc'[p] = "apply" /\ session'[p] = Opened /\ exit'[p] = "none" /\ run'[p] = read
    BY <1>1, <1>5, <2>2 DEF LockInv, TypeOK, Goto
  <2>6. ShapeAt(p)' /\ ~Settled(p)' /\ ReportAt(p)'
    BY <2>5, OpenedType DEF ShapeAt, Settled, ReportAt
  <2>7. LoopAt(p)'
    <3>1. read.applied = {} /\ Changed(p)' = {} /\ IdsOf(Opened.recorded) = {}
      BY <1>1, <2>3, <2>5, OpenedType DEF Changed, IdsOf
    <3>2. Upgrading(Opened, image, {})
      BY <1>3, <1>5, OpenedType, NothingRecorded
    <3>3. Upgrading(session'[p], run'[p].image, run'[p].applied)
      BY <2>3, <2>5, <3>1, <3>2
    <3>4. Upgrading(session[p], run[p].image, run[p].applied)'
      BY <1>5, <3>3 DEF Upgrading, Executed, Taken, Created, Dropped, After
    <3>5. LegacyIsRecorded' /\ (LegacyState(schema) # "partial")'
      BY <1>3, <1>5 DEF LegacyIsRecorded, LegacyState, Shape, Unrepairable
    <3>6. run'[p].ledger = ledger' \cup session'[p].recorded
      BY <1>5, <2>3, <2>5, OpenedType
    <3> QED BY <2>3, <2>5, <3>1, <3>4, <3>5, <3>6 DEF LoopAt
  <2>8. \A q \in Procs \ {p} : UNCHANGED <<pc[q], run[q], session[q], exit[q]>>
    BY <1>5, <2>2 DEF LockInv, TypeOK, Goto
  <2>9. session[p].locked /\ session'[p].st # "commit"
    BY <1>1, <2>5, OpenedType
  <2> QED BY <1>5, <2>4, <2>6, <2>7, <2>8, <2>9, Frame
<1> QED BY <1>2, <1>4, <1>5 DEF Inspect

\* One more row is recorded.
LEMMA RecordOne ==
  ASSUME NEW recorded, NEW m
  PROVE  IdsOf(recorded \cup {m}) = IdsOf(recorded) \cup {m.id}
BY DEF IdsOf

\* One iteration of the loop is one more step towards the image.
LEMMA ApplyStep ==
  ASSUME LockInv, NEW p \in Procs, pc[p] = "apply",
         NEW m \in PendingIn(run[p].image, run[p].ledger),
         NEW ddl, NEW executed, NEW completed,
         \/ /\ ddl = session[p].ddl /\ executed = run[p].applied
            /\ m.id = "0001_jobs" /\ run[p].ledger = {}
         \/ /\ ddl = SqlEffect(m.id, session[p].ddl, View(p), completed)
            /\ executed = run[p].applied \cup {m.id}
            /\ ~SqlFails(m.id, View(p))
  PROVE  Upgrading([session[p] EXCEPT !.ddl = ddl, !.recorded = @ \cup {m}],
                   run[p].image, executed)
<1> DEFINE s == session[p]
           image == run[p].image
           next == [s EXCEPT !.ddl = ddl, !.recorded = @ \cup {m}]
<1>1. /\ Upgrading(s, image, run[p].applied) /\ run[p].ledger = ledger \cup s.recorded
      /\ "0003_synchronous_generations" \in run[p].applied =>
            PendingIn(image, run[p].ledger) = {}
      /\ interfered = 0 => LegacyState(schema) # "partial"
  BY DEF LockInv, LoopAt
<1>2. image \in Images /\ s \in Session /\ run[p].applied \in SUBSET Ids /\ schema \in Schema
  BY DEF LockInv, TypeOK, Run
<1>3. m \in Range(image) /\ m.id \in Ids /\ m.id \notin IdsOf(ledger \cup s.recorded)
  BY <1>1, <1>2, PendingType
<1>4. next.ddl = ddl /\ next.recorded = s.recorded \cup {m}
  BY <1>2 DEF Session
<1>5. IdsOf(next.recorded) = IdsOf(s.recorded) \cup {m.id} /\ m.id \notin IdsOf(ledger)
  BY <1>3, <1>4, RecordOne DEF IdsOf
<1>6. Executed(ddl, executed)
  <2>1. Executed(s.ddl, run[p].applied)
    BY <1>1 DEF Upgrading
  <2>2. "0003_synchronous_generations" \notin run[p].applied
    BY <1>1
  <2>3. m.id \notin run[p].applied
    BY <1>1, <1>3 DEF Upgrading, IdsOf
  <2>4. interfered \in Nat
    BY MigrationAssumption DEF LockInv, TypeOK
  <2> QED BY <1>1, <1>2, <1>3, <2>1, <2>2, <2>3, <2>4, ExecuteOne DEF View
<1>7. /\ executed \subseteq IdsOf(next.recorded)
      /\ IdsOf(next.recorded) \subseteq executed \cup {"0001_jobs"}
      /\ executed # IdsOf(next.recorded) => ledger = {}
  BY <1>1, <1>5 DEF Upgrading
<1> HIDE DEF next
<1>8. /\ ledger \subseteq Range(image) /\ next.recorded \subseteq Range(image)
      /\ IdsOf(next.recorded) \cap IdsOf(ledger) = {}
  <2>1. /\ ledger \subseteq Range(image) /\ s.recorded \subseteq Range(image)
        /\ IdsOf(s.recorded) \cap IdsOf(ledger) = {}
    BY <1>1 DEF Upgrading
  <2> HIDE DEF s, image
  <2> QED BY <1>3, <1>4, <1>5, <2>1
<1>9. Upgrading(next, image, executed)
  BY <1>4, <1>6, <1>7, <1>8 DEF Upgrading
<1> QED BY <1>9 DEF next

\* A migration that is recorded keeps the invariant.
LEMMA RecordInv ==
  ASSUME LockInv, NEW p \in Procs, NEW completed,
         pc[p] = "apply", PendingIn(run[p].image, run[p].ledger) # {},
         RecordNext(p, completed)
  PROVE  LockInv'
<1> DEFINE s == session[p]
           m == NextPending(p)
           ddl == IF IsBaseline(p) THEN s.ddl
                  ELSE SqlEffect(m.id, s.ddl, View(p), completed)
           next == [s EXCEPT !.ddl = ddl, !.recorded = @ \cup {m}]
           applied == IF IsBaseline(p) THEN run[p].applied ELSE run[p].applied \cup {m.id}
           adopted == IF IsBaseline(p) THEN run[p].adopted \cup {m.id} ELSE run[p].adopted
           done == [run[p] EXCEPT !.ledger = @ \cup {m}, !.legacy = LegacyState(Overlay(ddl)),
                                  !.applied = applied, !.adopted = adopted]
<1>1. /\ pc[p] = "apply"
      /\ PendingIn(run[p].image, run[p].ledger) # {}
      /\ IF IsBaseline(p) THEN run[p].image \in AdoptingImages ELSE ~SqlFails(m.id, View(p))
      /\ session' = [session EXCEPT ![p] = next]
      /\ run' = [run EXCEPT ![p] = done]
      /\ UNCHANGED <<schema, ledger, pc, orphans, exit, interfered>>
  <2>1. IF IsBaseline(p) THEN run[p].image \in AdoptingImages ELSE ~SqlFails(m.id, View(p))
    BY DEF RecordNext
  <2>2. session' = [session EXCEPT ![p] = next]
    BY DEF RecordNext
  <2>3. run' = [run EXCEPT ![p] = done]
    BY DEF RecordNext
  <2>4. UNCHANGED <<schema, ledger, pc, orphans, exit, interfered>>
    BY DEF RecordNext
  <2> QED BY <2>1, <2>2, <2>3, <2>4
<1>2. /\ s \in Session /\ run[p] \in Run /\ run[p].image \in Images /\ schema \in Schema
      /\ s.st = "open" /\ s.locked /\ exit[p] = "none"
  BY <1>1 DEF LockInv, TypeOK, ShapeAt, Run
<1>3. /\ m \in PendingIn(run[p].image, run[p].ledger)
      /\ m \in Migrations /\ m.id \in Ids
  BY <1>1, <1>2, NextPendingIsFirst, PendingType
<1>4. IsBaseline(p) => m.id = "0001_jobs" /\ run[p].ledger = {}
  BY <1>1, BaselineIsFirst DEF IsBaseline
<1>5. ddl \in [Tables -> TableState \cup {"untouched"}]
  <2>1. s.ddl \in [Tables -> TableState \cup {"untouched"}] /\ View(p) \in Schema
    BY <1>2, OverlayType DEF Session, View
  <2> QED BY <1>3, <2>1, EffectType
<1>6. Upgrading(next, run[p].image, applied)
  BY <1>1, <1>3, <1>4, ApplyStep
<1> HIDE DEF ddl, m
<1>7. /\ next \in Session /\ next.st = "open" /\ next.locked
      /\ next.recorded = s.recorded \cup {m}
  BY <1>2, <1>3, <1>5 DEF Session
<1>8. LegacyState(Overlay(ddl)) \in ShapeState
  BY DEF LegacyState, Shape, ShapeState
<1>9. done \in Run
  BY <1>2, <1>3, <1>8 DEF Run
<1>10. /\ done.image = run[p].image /\ done.ledger = run[p].ledger \cup {m}
       /\ done.applied = applied /\ done.adopted = adopted /\ done.code = run[p].code
  BY <1>2 DEF Run
<1> HIDE DEF next, done
<1>11. TypeOK'
  BY <1>1, <1>7, <1>9 DEF LockInv, TypeOK
<1>12. pc'[p] = "apply" /\ session'[p] = next /\ exit'[p] = "none" /\ run'[p] = done
  BY <1>1, <1>2 DEF LockInv, TypeOK
<1>13. ShapeAt(p)' /\ ~Settled(p)' /\ ReportAt(p)'
  BY <1>7, <1>12 DEF ShapeAt, Settled, ReportAt
<1>14. LoopAt(p)'
  <2>1. LoopAt(p)
    BY DEF LockInv
  <2>2. Changed(p) = IdsOf(s.recorded) /\ run[p].code = "0" /\ LegacyIsRecorded
        /\ run[p].ledger = ledger \cup s.recorded
        /\ (interfered = 0 => LegacyState(schema) # "partial")
    BY <1>1, <2>1 DEF LoopAt
  <2>3. Upgrading(session[p], run[p].image, run[p].applied)'
    <3>1. Upgrading(session'[p], run'[p].image, run'[p].applied)
      BY <1>6, <1>10, <1>12
    <3> QED BY <1>1, <3>1 DEF Upgrading, Executed, Taken, Created, Dropped, After
  <2>4. Changed(p)' = IdsOf(next.recorded)
    <3>1. Changed(p)' = Changed(p) \cup {m.id}
      BY <1>10, <1>12 DEF Changed
    <3> QED BY <1>7, <2>2, <3>1, RecordOne
  <2>5. done.ledger = ledger \cup next.recorded
    BY <1>7, <1>10, <2>2
  <2>6. "0003_synchronous_generations" \in done.applied =>
           PendingIn(done.image, done.ledger) = {}
    <3>1. "0003_synchronous_generations" \notin run[p].applied
      BY <1>1, <2>1 DEF LoopAt
    <3>2. CASE m.id = "0003_synchronous_generations"
      BY <1>1, <1>2, <1>10, <3>2, LastIsLast DEF m
    <3>3. CASE m.id # "0003_synchronous_generations"
      BY <1>10, <3>1, <3>3
    <3> QED BY <3>2, <3>3
  <2>7. LegacyIsRecorded' /\ (interfered = 0 => LegacyState(schema) # "partial")'
    BY <1>1, <2>2 DEF LegacyIsRecorded, LegacyState, Shape
  <2>8. (PendingIn(run[p].image, run[p].ledger))' = PendingIn(done.image, done.ledger)
    BY <1>12 DEF PendingIn
  <2> QED BY <1>1, <1>10, <1>12, <2>2, <2>3, <2>4, <2>5, <2>6, <2>7, <2>8 DEF LoopAt
<1>15. \A q \in Procs \ {p} : UNCHANGED <<pc[q], run[q], session[q], exit[q]>>
  BY <1>1 DEF LockInv, TypeOK
<1>16. session'[p].st # "commit"
  BY <1>7, <1>12
<1> QED BY <1>1, <1>2, <1>11, <1>13, <1>14, <1>15, <1>16, Frame

\* The loop keeps the invariant.
LEMMA ApplyOneInv ==
  ASSUME LockInv, NEW p \in Procs, ApplyOne(p)
  PROVE  LockInv'
<1>1. CASE \E code \in {"3", "4"} : Fail(p, code)
  BY <1>1, FailInv
<1>2. CASE ~ \E code \in {"3", "4"} : Fail(p, code)
  <2>1. ~Fail(p, "3") /\ ~Fail(p, "4") /\ pc[p] = "apply"
        /\ PendingIn(run[p].image, run[p].ledger) # {}
    BY <1>2 DEF ApplyOne
  <2>2. PICK completed \in SUBSET LegacyTables : RecordNext(p, completed)
    BY <2>1 DEF ApplyOne
  <2> QED BY <2>1, <2>2, RecordInv
<1> QED BY <1>1, <1>2

\* The schema that passes the verification after the loop is that of its
\* ledger, if nobody else changes tables: of the worker tables nothing is asked
\* there, but 0002 has just created them, or the ledger had a gap below 0002
\* that its legacy tables do not allow.
LEMMA VerifiedIsConsistent ==
  ASSUME LockInv, NEW p \in Procs, pc[p] = "apply", Verified(p), OperatorSteps = 0,
         session[p].recorded # {}
  PROVE  Consistent(IdsOf(ledger \cup session[p].recorded), Overlay(session[p].ddl))
<1> DEFINE s == session[p]
           executed == run[p].applied
           ids == IdsOf(ledger \cup s.recorded)
<1>1. /\ Upgrading(s, run[p].image, executed) /\ run[p].ledger = ledger \cup s.recorded
      /\ LegacyIsRecorded
  BY DEF LockInv, LoopAt
<1>2. ids = IdsOf(ledger) \cup IdsOf(s.recorded)
  BY DEF IdsOf
<1>3. CASE "0003_synchronous_generations" \in ids
  BY <1>1, <1>3 DEF Verified, View, Consistent
<1>4. CASE "0003_synchronous_generations" \notin ids
  <2>1. LegacyState(Overlay(s.ddl)) = "complete"
    BY <1>1, <1>4 DEF Verified, View
  <2>2. ASSUME "0002_worker_protocol" \in ids, NEW t \in WorkerTables
        PROVE  Overlay(s.ddl)[t] = "ok"
    <3>1. t \notin Dropped(executed) => Overlay(s.ddl)[t] \in After(executed, t)
      BY <1>1, SeesExecuted DEF Upgrading, Tables
    <3>2. Dropped(executed) = {}
      <4>1. executed \subseteq Ids /\ "0003_synchronous_generations" \notin executed
        BY <1>1, <1>2, <1>4 DEF Upgrading, LockInv, TypeOK, Run
      <4>2. \A i \in executed : DroppedBy[i] = {}
        BY <4>1 DEF DroppedBy
      <4> QED BY <4>2 DEF Dropped
    <3>3. "0002_worker_protocol" \in executed
      <4>1. CASE "0002_worker_protocol" \in IdsOf(s.recorded)
        BY <1>1, <4>1 DEF Upgrading
      <4>2. CASE "0002_worker_protocol" \notin IdsOf(s.recorded)
        <5>1. "0002_worker_protocol" \in IdsOf(ledger) /\ ledger # {}
          BY <1>2, <2>2, <4>2 DEF IdsOf
        <5>2. executed = IdsOf(s.recorded)
          BY <1>1, <5>1 DEF Upgrading
        <5>3. "0001_jobs" \in executed
          <6>1. PICK n \in s.recorded : TRUE
            OBVIOUS
          <6>2. n.id \in IdsOf(s.recorded) /\ n.id \in Ids
            <7>1. s.recorded \subseteq Migrations
              BY DEF LockInv, TypeOK, Session
            <7> QED BY <6>1, <7>1 DEF IdsOf, Migrations
          <6> QED BY <1>2, <1>4, <4>2, <5>2, <6>2 DEF Ids
        <5>4. schema["jobs"] = "none"
          <6>1. "jobs" \in Created(executed)
            BY <5>3, TablesOfType, TablesApart DEF Created
          <6>2. interfered = 0
            BY DEF LockInv, TypeOK
          <6> QED BY <1>1, <6>1, <6>2 DEF Upgrading, Executed, Taken
        <5>5. LegacyState(schema) = "complete"
          BY <1>1, <1>2, <1>4, <5>1 DEF LegacyIsRecorded
        <5> QED BY <5>4, <5>5 DEF LegacyState, Shape, LegacyTables
      <4> QED BY <4>1, <4>2
    <3>4. t \in Created(executed) /\ t \notin LegacyTables
      BY <3>3, TablesOfType, TablesApart DEF Created
    <3>5. schema[t] = "none"
      BY <1>1, <3>4 DEF Upgrading, Executed, Taken
    <3> QED BY <3>1, <3>2, <3>4, <3>5 DEF After
  <2> QED BY <1>4, <2>1, <2>2 DEF Consistent
<1> QED BY <1>3, <1>4

\* The schema that passes the verification has what was created as released: an
\* altered table that 0001 took is completed or dropped.
LEMMA VerifiedIsCompleted ==
  ASSUME LockInv, NEW p \in Procs, pc[p] = "apply", Verified(p)
  PROVE  Completed(session[p], run[p].applied)
<1> DEFINE s == session[p]
           executed == run[p].applied
<1>1. Executed(s.ddl, executed) /\ executed \in SUBSET Ids
  BY DEF LockInv, LoopAt, Upgrading, TypeOK, Run
<1> SUFFICES ASSUME NEW t \in Created(executed), t \notin Dropped(executed)
             PROVE  s.ddl[t] = "ok"
  BY DEF Completed
<1>2. t \in Tables
  BY <1>1, TablesOfType DEF Created
<1>3. s.ddl[t] # "untouched" /\ s.ddl[t] \in {"ok", schema[t]} \ {"none"}
  BY <1>1, <1>2 DEF Executed, After
<1>4. Overlay(s.ddl)[t] = s.ddl[t]
  BY <1>2, <1>3 DEF Overlay
<1>5. CASE t \in LegacyTables
  <2>1. Overlay(s.ddl)[t] \in {"none", "ok"}
    BY <1>5 DEF Verified, View, LegacyState, Shape
  <2> QED BY <1>3, <1>4, <2>1
<1>6. CASE t \notin LegacyTables
  BY <1>1, <1>3, <1>6 DEF Executed, Taken
<1> QED BY <1>5, <1>6

\* COMMIT is sent when nothing is pending and the schema is verified.
LEMMA VerifyInv ==
  ASSUME LockInv, NEW p \in Procs, Verify(p)
  PROVE  LockInv'
<1> DEFINE s == session[p]
           image == run[p].image
           sent == [s EXCEPT !.st = "commit"]
<1>1. CASE Fail(p, "3")
  BY <1>1, FailInv
<1>2. CASE Verified(p) /\ SendCommit(p) /\ UNCHANGED run
  <2>1. /\ pc[p] = "apply" /\ PendingIn(image, run[p].ledger) = {}
        /\ pc' = [pc EXCEPT ![p] = "commit"] /\ session' = [session EXCEPT ![p] = sent]
        /\ UNCHANGED <<schema, ledger, orphans, exit, interfered, run>>
    BY <1>2 DEF Verify, SendCommit, Goto
  <2>2. s \in Session /\ image \in Images /\ s.locked /\ exit[p] = "none"
        /\ run[p].applied \in SUBSET Ids
    BY <2>1 DEF LockInv, TypeOK, ShapeAt, Run
  <2>3. /\ sent \in Session /\ sent.st = "commit" /\ sent.locked
        /\ sent.recorded = s.recorded /\ sent.ddl = s.ddl
    BY <2>2 DEF Session
  <2> HIDE DEF sent
  <2>4. /\ Upgrading(s, image, run[p].applied) /\ run[p].ledger = ledger \cup s.recorded
        /\ Changed(p) = IdsOf(s.recorded) /\ run[p].code = "0"
    BY <2>1 DEF LockInv, LoopAt
  <2>5. s.recorded = Range(image) \ ledger
    BY <2>1, <2>2, <2>4, NothingPending DEF Upgrading
  <2>6. TypeOK'
    BY <2>1, <2>3 DEF LockInv, TypeOK
  <2>7. pc'[p] = "commit" /\ session'[p] = sent /\ exit'[p] = "none" /\ run'[p] = run[p]
    BY <2>1, <2>2 DEF LockInv, TypeOK
  <2>8. ShapeAt(p)' /\ LoopAt(p)' /\ ~Settled(p)'
    BY <2>3, <2>7 DEF ShapeAt, LoopAt, Settled
  <2>9. ReportAt(p)'
    <3>1. Range(image) \subseteq ledger \cup s.recorded
      BY <2>5
    <3> QED BY <2>1, <2>3, <2>4, <2>7, <2>8, <3>1 DEF ReportAt, Changed
  <2>10. Whole(session[p])'
    <3>1. Upgrading(sent, image, run[p].applied)
      BY <2>3, <2>4 DEF Upgrading
    <3>2. (OperatorSteps = 0 /\ s.recorded # {}) =>
             Consistent(IdsOf(ledger \cup s.recorded), Overlay(s.ddl))
      BY <1>2, <2>1, VerifiedIsConsistent
    <3>3. Completed(sent, run[p].applied)
      BY <1>2, <2>1, <2>3, VerifiedIsCompleted DEF Completed
    <3>4. Whole(sent)
      BY <2>2, <2>3, <2>5, <3>1, <3>2, <3>3 DEF Whole
    <3>5. PICK c : c = sent
      OBVIOUS
    <3>6. Whole(c)'
      BY <2>1, <3>4, <3>5, WholeFrame
    <3> QED BY <2>7, <3>5, <3>6
  <2>11. \A q \in Procs \ {p} : UNCHANGED <<pc[q], run[q], session[q], exit[q]>>
    BY <2>1 DEF LockInv, TypeOK
  <2> QED BY <2>1, <2>2, <2>6, <2>8, <2>9, <2>10, <2>11, Frame
<1> QED BY <1>1, <1>2 DEF Verify

-----------------------------------------------------------------------------
(* COMMIT, orphans and other owners *)

\* A COMMIT leaves nobody with the lock, and no other COMMIT under way.  What
\* it adds to the ledger was not there, so the reports stay apart.
LEMMA CommitFrame ==
  ASSUME LockInv, NEW s \in Session, Whole(s), CommitOf(s),
         UNCHANGED <<pc, run, exit, interfered>>,
         session' \in [Procs -> Session], orphans' = {},
         \A q \in Procs :
            \/ session'[q] = session[q] /\ ~session[q].locked
            \/ /\ session'[q] = Blank("done") /\ session[q] = s
               /\ pc[q] = "commit" /\ s.st = "commit" /\ s.locked
  PROVE  LockInv'
<1>1. ledger \subseteq ledger' /\ ledger' = ledger \cup s.recorded /\ IdsOf(ledger) \subseteq IdsOf(ledger')
  BY DEF CommitOf, IdsOf
<1>2. TypeOK'
  <2>1. schema' \in Schema
    BY OverlayType DEF CommitOf, LockInv, TypeOK, Session
  <2>2. ledger' \subseteq Migrations
    BY <1>1 DEF LockInv, TypeOK, Session
  <2> QED BY <2>1, <2>2 DEF LockInv, TypeOK
<1>3. ASSUME NEW q \in Procs
      PROVE  ~session'[q].locked /\ session'[q].st # "commit" /\ ShapeAt(q)' /\ LoopAt(q)'
  <2>1. ShapeAt(q)
    BY DEF LockInv
  <2>2. CASE session'[q] = session[q] /\ ~session[q].locked
    <3>1. session[q].st # "commit" /\ pc[q] \notin {"inspect", "apply"}
      <4>1. pc[q] \in {"idle", "lock", "inspect", "apply", "commit"}
        BY DEF LockInv, TypeOK
      <4> QED BY <2>1, <2>2, <4>1, OpenedType, BlankType DEF ShapeAt, NoSession
    <3>2. ShapeAt(q)'
      BY <2>1, <2>2 DEF ShapeAt
    <3> QED BY <2>2, <3>1, <3>2 DEF LoopAt
  <2>3. CASE session'[q] = Blank("done") /\ pc[q] = "commit"
    BY <2>1, <2>3, BlankType DEF ShapeAt, LoopAt
  <2> QED BY <2>2, <2>3
<1>4. \A p, q \in Procs : session[p] = s /\ session[q] = s /\ s.locked => p = q
  BY DEF LockInv, Exclusive
<1>5. ASSUME NEW q \in Procs, Settled(q)'
      PROVE  /\ Range(run[q].image) \subseteq ledger'
             /\ \/ Settled(q) /\ Changed(q) \subseteq IdsOf(ledger)
                \/ /\ session[q] = s /\ s.locked /\ Changed(q) = IdsOf(s.recorded)
                   /\ Changed(q) \cap IdsOf(ledger) = {}
  <2>1. ReportAt(q) /\ ShapeAt(q)
    BY DEF LockInv
  <2>2. CASE session'[q] = session[q]
    BY <1>1, <1>5, <2>1, <2>2 DEF Settled, ReportAt
  <2>3. CASE session[q] = s /\ pc[q] = "commit" /\ s.st = "commit" /\ s.locked
    <3>1. run[q].code = "0"
      BY <1>5 DEF Settled
    <3>2. Range(run[q].image) \subseteq ledger' /\ Changed(q) = IdsOf(s.recorded)
      BY <1>1, <2>1, <2>3, <3>1 DEF ReportAt
    <3>3. IdsOf(s.recorded) \cap IdsOf(ledger) = {}
      BY DEF Whole, Upgrading
    <3> QED BY <2>3, <3>2, <3>3
  <2> QED BY <2>2, <2>3
<1>6. ASSUME NEW q \in Procs PROVE ReportAt(q)'
  <2>1. ReportAt(q)
    BY DEF LockInv
  <2>2. Changed(q)' = Changed(q)
    BY DEF Changed
  <2>3. IdsOf(s.recorded) \subseteq IdsOf(ledger')
    BY <1>1 DEF IdsOf
  <2>4. Settled(q)' => Range(run[q].image) \subseteq ledger' /\ Changed(q) \subseteq IdsOf(ledger')
    BY <1>1, <1>5, <2>3
  <2> QED BY <1>3, <2>1, <2>2, <2>4 DEF ReportAt, IdsOf
<1>7. Disjoint'
  <2> SUFFICES ASSUME NEW q \in Procs, NEW r \in Procs, q # r, Settled(q)', Settled(r)'
               PROVE  Changed(q) \cap Changed(r) = {}
    BY DEF Disjoint, Changed
  <2>1. CASE Settled(q) /\ Settled(r)
    BY <2>1 DEF LockInv, Disjoint
  <2>2. CASE ~(Settled(q) /\ Settled(r))
    BY <1>4, <1>5, <2>2
  <2> QED BY <2>1, <2>2
<1>8. Exclusive' /\ Committing'
  BY <1>3 DEF Exclusive, Committing
<1> QED BY <1>2, <1>3, <1>6, <1>7, <1>8 DEF LockInv

\* The server commits an invocation.
LEMMA ServerCommitInv ==
  ASSUME LockInv, NEW p \in Procs, ServerCommit(p)
  PROVE  Whole(session[p]) /\ LockInv'
<1> PICK s : s = session[p]
  OBVIOUS
<1>1. /\ s.st = "commit" /\ CommitOf(s) /\ session' = [session EXCEPT ![p] = Blank("done")]
      /\ UNCHANGED <<pc, run, orphans, exit, interfered>>
  BY DEF ServerCommit
<1>2. s \in Session /\ Whole(s) /\ s.locked /\ pc[p] = "commit"
  <2>1. ShapeAt(p) /\ pc[p] \in {"idle", "lock", "inspect", "apply", "commit"}
    BY DEF LockInv, TypeOK
  <2>2. pc[p] = "commit" /\ s.locked
    BY <1>1, <2>1, OpenedType, BlankType DEF ShapeAt, NoSession
  <2> QED BY <1>1, <2>2 DEF LockInv, TypeOK, Committing
<1>3. /\ session' \in [Procs -> Session]
      /\ session'[p] = Blank("done")
      /\ \A q \in Procs \ {p} : session'[q] = session[q] /\ ~session[q].locked
  BY <1>1, <1>2, BlankType DEF LockInv, TypeOK, Exclusive
<1>4. orphans' = {}
  BY <1>1, <1>2 DEF LockInv, Exclusive
<1>5. \A q \in Procs :
         \/ session'[q] = session[q] /\ ~session[q].locked
         \/ /\ session'[q] = Blank("done") /\ session[q] = s
            /\ pc[q] = "commit" /\ s.st = "commit" /\ s.locked
  BY <1>1, <1>2, <1>3
<1> QED BY <1>1, <1>2, <1>3, <1>4, <1>5, CommitFrame

\* The server commits a transaction whose client is gone.
LEMMA OrphanCommitInv ==
  ASSUME LockInv, NEW o \in orphans, OrphanCommit(o)
  PROVE  Whole(o) /\ LockInv'
<1>1. /\ o.st = "commit" /\ CommitOf(o) /\ orphans' = orphans \ {o}
      /\ UNCHANGED <<pc, run, session, exit, interfered>>
  BY DEF OrphanCommit
<1>2. o \in Session /\ Whole(o)
  BY <1>1 DEF LockInv, TypeOK, Committing
<1>3. orphans' = {} /\ \A q \in Procs : ~session[q].locked
  BY <1>1 DEF LockInv, Exclusive
<1>4. session' \in [Procs -> Session]
  BY <1>1 DEF LockInv, TypeOK
<1> QED BY <1>1, <1>2, <1>3, <1>4, CommitFrame

\* Or it rolls it back.
LEMMA OrphanAbortInv ==
  ASSUME LockInv, NEW o \in orphans, OrphanAbort(o)
  PROVE  LockInv'
<1>1. /\ orphans' = orphans \ {o}
      /\ UNCHANGED <<schema, ledger, pc, run, session, exit, interfered>>
  BY DEF OrphanAbort
<1>2. TypeOK' /\ Exclusive'
  BY <1>1 DEF LockInv, TypeOK, Exclusive
<1>3. ASSUME NEW q \in Procs PROVE ShapeAt(q)' /\ LoopAt(q)' /\ ReportAt(q)'
  <2>1. ShapeAt(q) /\ LoopAt(q) /\ ReportAt(q)
    BY DEF LockInv
  <2>2. UNCHANGED <<pc[q], run[q], session[q], exit[q], schema, ledger, interfered>>
    BY <1>1
  <2> QED BY <2>1, <2>2, LoopFrame DEF ShapeAt, ReportAt, Settled, Changed
<1>4. Committing'
  <2>1. ASSUME NEW q \in Procs, session[q].st = "commit" PROVE Whole(session[q])'
    <3>1. PICK s : s = session[q]
      OBVIOUS
    <3>2. Whole(s)'
      BY <1>1, <2>1, <3>1, WholeFrame DEF LockInv, Committing
    <3>3. session'[q] = s
      BY <1>1, <3>1
    <3> QED BY <3>2, <3>3
  <2>2. ASSUME NEW q \in orphans', q.st = "commit" PROVE Whole(q)'
    BY <1>1, <2>2, WholeFrame DEF LockInv, Committing
  <2> QED BY <1>1, <2>1, <2>2 DEF Committing
<1>5. Disjoint'
  BY <1>1 DEF LockInv, Disjoint, Settled, Changed
<1> QED BY <1>2, <1>3, <1>4, <1>5 DEF LockInv

\* A statement of another owner changes no table that a session has touched.
LEMMA InterfereInv ==
  ASSUME LockInv, NEW t \in Tables, Interfere(t)
  PROVE  LockInv'
<1>1. PICK state \in TableState : schema' = [schema EXCEPT ![t] = state]
  BY DEF Interfere
<1>2. /\ interfered < OperatorSteps /\ interfered' = interfered + 1
      /\ \A s \in Range(session) \cup orphans : s.ddl[t] = "untouched"
      /\ UNCHANGED <<ledger, pc, run, session, orphans, exit>>
  BY DEF Interfere
<1>3. OperatorSteps \in Nat /\ interfered \in 0 .. OperatorSteps /\ schema \in Schema
  BY MigrationAssumption DEF LockInv, TypeOK
<1>4. OperatorSteps # 0
  BY <1>2, <1>3
<1>5. TypeOK'
  <2>1. schema' \in Schema
    BY <1>1, <1>3 DEF Schema
  <2>2. interfered' \in 0 .. OperatorSteps
    BY <1>2, <1>3
  <2> QED BY <1>2, <2>1, <2>2 DEF LockInv, TypeOK
<1>6. ASSUME NEW s \in Range(session) \cup orphans, NEW image \in Images,
             NEW executed \in SUBSET Ids, Upgrading(s, image, executed)
      PROVE  Upgrading(s, image, executed)'
  <2>1. PICK ddl : ddl = s.ddl
    OBVIOUS
  <2>2. Executed(ddl, executed) /\ ddl[t] = "untouched"
    BY <1>2, <1>6, <2>1 DEF Upgrading
  <2>3. Executed(ddl, executed)'
    <3>1. interfered \in Nat
      BY <1>3
    <3> QED BY <1>1, <1>2, <1>3, <2>2, <3>1, InterfereExecuted
  <2>4. Executed(s.ddl, executed)'
    BY <2>1, <2>3
  <2>5. /\ ledger' \subseteq Range(image) /\ s.recorded \subseteq Range(image)
        /\ IdsOf(s.recorded) \cap IdsOf(ledger') = {} /\ executed \subseteq IdsOf(s.recorded)
        /\ IdsOf(s.recorded) \subseteq executed \cup {"0001_jobs"}
        /\ executed # IdsOf(s.recorded) => ledger' = {}
    BY <1>2, <1>6 DEF Upgrading
  <2> QED BY <2>4, <2>5 DEF Upgrading
<1>7. ASSUME NEW s \in Range(session) \cup orphans, Whole(s)
      PROVE  Whole(s)'
  <2>1. PICK image \in Images, executed \in SUBSET Ids :
           /\ Upgrading(s, image, executed)
           /\ s.recorded # {} => s.recorded = Range(image) \ ledger
           /\ Completed(s, executed)
    BY <1>7 DEF Whole
  <2>2. Upgrading(s, image, executed)'
    BY <1>6, <2>1
  <2>3. (s.recorded # {} => s.recorded = Range(image) \ ledger)'
    BY <1>2, <2>1
  <2>4. Completed(s, executed)'
    BY <2>1 DEF Completed, Created, Dropped
  <2> QED BY <1>4, <2>2, <2>3, <2>4 DEF Whole
<1>8. ASSUME NEW q \in Procs PROVE ShapeAt(q)' /\ ReportAt(q)' /\ LoopAt(q)'
  <2>1. ShapeAt(q) /\ ReportAt(q) /\ LoopAt(q)
    BY DEF LockInv
  <2>2. ShapeAt(q)' /\ ReportAt(q)'
    BY <1>2, <2>1 DEF ShapeAt, ReportAt, Settled, Changed
  <2>3. PICK s : s = session[q]
    OBVIOUS
  <2>4. s \in Range(session) /\ run[q].image \in Images /\ run[q].applied \in SUBSET Ids
    BY <2>3 DEF LockInv, TypeOK, Range, Run
  <2>5. pc[q] = "apply" => Upgrading(s, run[q].image, run[q].applied)'
    <3>1. PICK image \in Images, executed \in SUBSET Ids :
             image = run[q].image /\ executed = run[q].applied
      BY <2>4
    <3>2. pc[q] = "apply" => Upgrading(s, image, executed)'
      BY <1>6, <2>1, <2>3, <2>4, <3>1 DEF LoopAt
    <3> QED BY <1>2, <3>1, <3>2
  <2>6. session'[q] = s /\ UNCHANGED <<pc[q], run[q], ledger>>
    BY <1>2, <2>3
  <2>7. LoopAt(q)'
    <3>1. interfered' # 0
      BY <1>2, <1>3
    <3> QED BY <1>4, <2>1, <2>3, <2>5, <2>6, <3>1 DEF LoopAt, Changed, LegacyIsRecorded
  <2> QED BY <2>2, <2>7
<1>9. Committing'
  <2>1. ASSUME NEW q \in Procs, session[q].st = "commit" PROVE Whole(session[q])'
    <3>1. PICK s : s = session[q]
      OBVIOUS
    <3>2. s \in Range(session) /\ Whole(s)
      BY <2>1, <3>1 DEF LockInv, TypeOK, Range, Committing
    <3>3. Whole(s)' /\ session'[q] = s
      BY <1>2, <1>7, <3>1, <3>2
    <3> QED BY <3>3
  <2>2. ASSUME NEW o \in orphans, o.st = "commit" PROVE Whole(o)'
    BY <1>7, <2>2 DEF LockInv, Committing
  <2> QED BY <1>2, <2>1, <2>2 DEF Committing
<1>10. Exclusive' /\ Disjoint'
  BY <1>2 DEF LockInv, Exclusive, Disjoint, Settled, Changed
<1> QED BY <1>5, <1>8, <1>9, <1>10 DEF LockInv

-----------------------------------------------------------------------------
(* What follows from the invariant *)

\* Nothing is under way to begin with.
LEMMA InitInv == Init => LockInv
<1> SUFFICES ASSUME Init PROVE LockInv
  OBVIOUS
<1>1. PICK i \in Images :
         run = [p \in Procs |-> [image |-> i, check |-> FALSE, ledger |-> {},
                                 legacy |-> "absent", applied |-> {}, adopted |-> {},
                                 code |-> "0"]]
  BY DEF Init
<1>2. /\ schema \in Schema /\ ledger \subseteq Migrations
      /\ pc = [p \in Procs |-> "idle"] /\ session = [p \in Procs |-> NoSession]
      /\ orphans = {} /\ exit = [p \in Procs |-> "none"] /\ interfered = 0
  BY MigrationAssumption DEF Init
<1>3. NoSession \in Session /\ ~NoSession.locked /\ NoSession.st = "none"
  BY BlankType DEF NoSession
<1>4. TypeOK
  <2>1. run \in [Procs -> Run]
    BY <1>1 DEF Run, ShapeState
  <2>2. interfered \in 0 .. OperatorSteps
    BY <1>2, MigrationAssumption
  <2> QED BY <1>2, <1>3, <2>1, <2>2 DEF TypeOK, Exits
<1>5. \A p \in Procs : ShapeAt(p) /\ LoopAt(p) /\ ReportAt(p) /\ ~Settled(p)
  BY <1>2, <1>3 DEF ShapeAt, LoopAt, ReportAt, Settled
<1>6. Exclusive /\ Committing /\ Disjoint
  BY <1>2, <1>3, <1>5 DEF Exclusive, Committing, Disjoint
<1> QED BY <1>4, <1>5, <1>6 DEF LockInv

\* Every step keeps the invariant.
LEMMA NextInv == LockInv /\ [Next]_vars => LockInv'
<1> SUFFICES ASSUME LockInv, [Next]_vars PROVE LockInv'
  OBVIOUS
<1>1. ASSUME NEW p \in Procs, Start(p) \/ Invoke(p) \/ ServerCommit(p) \/ Broken(p)
      PROVE  LockInv'
  BY <1>1, StartInv, AcquireLockInv, InspectInv, ApplyOneInv, VerifyInv, AckInv,
     ServerCommitInv, BrokenInv DEF Invoke
<1>2. ASSUME NEW o \in orphans, OrphanCommit(o) \/ OrphanAbort(o)
      PROVE  LockInv'
  BY <1>2, OrphanCommitInv, OrphanAbortInv
<1>3. ASSUME NEW t \in Tables, Interfere(t)
      PROVE  LockInv'
  BY <1>3, InterfereInv
<1>4. CASE UNCHANGED vars
  <2>1. UNCHANGED <<schema, ledger, pc, run, session, orphans, exit, interfered>>
    BY <1>4 DEF vars
  <2>2. TypeOK' /\ Exclusive' /\ Disjoint'
    BY <2>1 DEF LockInv, TypeOK, Exclusive, Disjoint, Settled, Changed
  <2>3. ASSUME NEW q \in Procs PROVE ShapeAt(q)' /\ LoopAt(q)' /\ ReportAt(q)'
    BY <2>1, LoopFrame DEF LockInv, ShapeAt, ReportAt, Settled, Changed
  <2>4. Committing'
    <3>1. ASSUME NEW s, Whole(s) PROVE Whole(s)'
      BY <2>1, <3>1, WholeFrame
    <3> QED BY <2>1, <3>1 DEF LockInv, Committing
  <2> QED BY <2>2, <2>3, <2>4 DEF LockInv
<1> QED BY <1>1, <1>2, <1>3, <1>4 DEF Next

\* The invariant holds of every behaviour of the migration command: whoever
\* holds the advisory lock works from what is committed now.
THEOREM SpecLockInv == Spec => []LockInv
BY InitInv, NextInv, PTL DEF Spec

\* Every variable keeps its type: in particular an invocation records and
\* reports only migrations that there are.
THEOREM SpecTypeOK == Spec => []TypeOK
<1>1. LockInv => TypeOK
  BY DEF LockInv
<1> QED BY <1>1, SpecLockInv, PTL

\* An invocation that has exited with 0 has settled what it reported.
LEMMA ReportsAreApart == LockInv => AppliedOnce
<1> SUFFICES ASSUME LockInv, NEW p \in Procs, NEW q \in Procs, p # q,
                    exit[p] = "0", exit[q] = "0"
             PROVE  Changed(p) \cap Changed(q) = {}
  BY DEF AppliedOnce, Changed
<1>1. Settled(p) /\ Settled(q)
  BY DEF LockInv, ReportAt, Settled
<1> QED BY <1>1 DEF LockInv, Disjoint

\* However many invocations run, retry and die, no two report the same
\* migration applied or adopted (MIGRATIONS.md, apply_migrations).
THEOREM SpecAppliedOnce == Spec => []AppliedOnce
BY SpecLockInv, ReportsAreApart, PTL

\* Exit code 0 is told of a ledger that has the whole image, and keeps it.
LEMMA ReportsAreRecorded == LockInv => ExitZeroIsCurrent
<1> SUFFICES ASSUME LockInv, NEW p \in Procs, exit[p] = "0"
             PROVE  /\ Range(run[p].image) \subseteq ledger
                    /\ Changed(p) \subseteq IdsOf(ledger)
  BY DEF ExitZeroIsCurrent, Changed
<1>1. ReportAt(p) /\ Settled(p)
  BY DEF LockInv, ReportAt, Settled
<1> QED BY <1>1 DEF ReportAt

\* Whatever other images do meanwhile, exit code 0 means that every migration
\* of the image is recorded as the image has it (cli.py, apply_migrations).
THEOREM SpecExitZeroIsCurrent == Spec => []ExitZeroIsCurrent
BY SpecLockInv, ReportsAreRecorded, PTL

\* A step that writes a committed table is a COMMIT, of what the lock protected,
\* or the statement of another owner.
LEMMA WritersAreCommits ==
  ASSUME LockInv, [Next]_vars
  PROVE  \/ \E s \in Session : Whole(s) /\ CommitOf(s) /\ UNCHANGED interfered
         \/ \E t \in Tables : Interfere(t)
         \/ UNCHANGED <<schema, ledger, interfered>>
<1>1. ASSUME NEW p \in Procs, Start(p) \/ AcquireLock(p) \/ Ack(p) \/ Broken(p)
      PROVE  UNCHANGED <<schema, ledger, interfered>>
  BY <1>1 DEF Start, AcquireLock, Ack, Broken
<1>2. ASSUME NEW p \in Procs, Inspect(p) \/ ApplyOne(p) \/ Verify(p)
      PROVE  UNCHANGED <<schema, ledger, interfered>>
  <2>1. ASSUME NEW code, Fail(p, code) PROVE UNCHANGED <<schema, ledger, interfered>>
    BY <2>1 DEF Fail
  <2>2. SendCommit(p) => UNCHANGED <<schema, ledger, interfered>>
    BY DEF SendCommit
  <2>3. CASE Inspect(p)
    BY <2>1, <2>2, <2>3 DEF Inspect
  <2>4. CASE ApplyOne(p)
    BY <2>1, <2>4 DEF ApplyOne, RecordNext
  <2>5. CASE Verify(p)
    BY <2>1, <2>2, <2>5 DEF Verify
  <2> QED BY <1>2, <2>3, <2>4, <2>5
<1>3. ASSUME NEW p \in Procs, ServerCommit(p)
      PROVE  \E s \in Session : Whole(s) /\ CommitOf(s) /\ UNCHANGED interfered
  <2>1. Whole(session[p]) /\ session[p] \in Session
    BY <1>3, ServerCommitInv DEF LockInv, TypeOK
  <2>2. CommitOf(session[p]) /\ UNCHANGED interfered
    BY <1>3 DEF ServerCommit
  <2> QED BY <2>1, <2>2
<1>4. ASSUME NEW o \in orphans, OrphanCommit(o)
      PROVE  \E s \in Session : Whole(s) /\ CommitOf(s) /\ UNCHANGED interfered
  <2>1. Whole(o) /\ o \in Session
    BY <1>4, OrphanCommitInv DEF LockInv, TypeOK
  <2>2. CommitOf(o) /\ UNCHANGED interfered
    BY <1>4 DEF OrphanCommit
  <2> QED BY <2>1, <2>2
<1>5. ASSUME NEW o \in orphans, OrphanAbort(o)
      PROVE  UNCHANGED <<schema, ledger, interfered>>
  BY <1>5 DEF OrphanAbort
<1>6. CASE UNCHANGED vars
  BY <1>6 DEF vars
<1> QED BY <1>1, <1>2, <1>3, <1>4, <1>5, <1>6 DEF Next, Invoke

\* What a COMMIT leaves is consistent with the ledger it leaves.
LEMMA CommitIsConsistent ==
  ASSUME LockInv, [Next]_vars, OperatorSteps = 0, ledger' # ledger
  PROVE  Consistent(IdsOf(ledger), schema)'
<1>1. OperatorSteps \in Nat /\ interfered \in 0 .. OperatorSteps
  BY MigrationAssumption DEF LockInv, TypeOK
<1>2. \A t \in Tables : ~Interfere(t)
  BY <1>1 DEF Interfere
<1>3. PICK s \in Session : Whole(s) /\ CommitOf(s)
  BY <1>2, WritersAreCommits
<1>4. s.recorded # {}
  BY <1>3 DEF CommitOf
<1>5. Consistent(IdsOf(ledger \cup s.recorded), Overlay(s.ddl))
  BY <1>3, <1>4 DEF Whole
<1>6. schema' = Overlay(s.ddl) /\ IdsOf(ledger') = IdsOf(ledger \cup s.recorded)
  BY <1>3 DEF CommitOf, IdsOf
<1> QED BY <1>5, <1>6 DEF Consistent, GenerationState, LegacyState, WorkerAbsent, Shape, IdsOf

\* If nobody else changes the tables, a ledger that grows describes them: what
\* Inspect read under the lock holds still when the server commits.
THEOREM SpecMigratedIsConsistent == Spec => MigratedIsConsistent
<1>1. LockInv /\ [Next]_vars =>
         [(OperatorSteps = 0 /\ ledger' # ledger) => Consistent(IdsOf(ledger), schema)']_vars
  BY CommitIsConsistent
<1> QED BY <1>1, SpecLockInv, PTL DEF Spec, MigratedIsConsistent

-----------------------------------------------------------------------------
(* The migration command implements MigrationHistory *)

\* The two modules agree on these operators.
LEMMA HistoryOperators ==
  /\ \A image : History!Range(image) = Range(image)
  /\ \A set : History!IdsOf(set) = IdsOf(set)
BY DEF History!Range, Range, History!IdsOf, IdsOf

\* A COMMIT is one upgrade to an image, or changes nothing.
LEMMA CommitIsUpgrade ==
  ASSUME LockInv, NEW s \in Session, Whole(s), CommitOf(s), UNCHANGED interfered
  PROVE  (\E image \in Images : History!Upgrade(image)) \/ UNCHANGED History!historyVars
<1>1. PICK image \in Images, executed \in SUBSET Ids :
         /\ Upgrading(s, image, executed)
         /\ s.recorded # {} => s.recorded = Range(image) \ ledger
         /\ Completed(s, executed)
  BY DEF Whole
<1>2. schema \in Schema /\ Executed(s.ddl, executed)
  BY <1>1 DEF LockInv, TypeOK, Upgrading
<1>3. schema' = Overlay(s.ddl) /\ ledger' = ledger \cup s.recorded
  BY DEF CommitOf
<1>4. CASE s.recorded = {}
  <2>1. executed = {}
    BY <1>1, <1>4 DEF Upgrading, IdsOf
  <2>2. schema' = schema
    BY <1>1, <1>2, <2>1, NothingExecuted DEF Upgrading, CommitOf
  <2> QED BY <1>3, <1>4, <2>2 DEF History!historyVars
<1>5. CASE s.recorded # {}
  <2> DEFINE pending == IdsOf(Range(image) \ ledger)
             created == Created(executed)
             dropped == Dropped(executed)
             taken == {t \in created : schema[t] # "none"}
             kept == {t \in dropped : s.ddl[t] = "untouched" /\ schema[t] # "none"}
  <2>1. pending = IdsOf(s.recorded) /\ pending # {} /\ ledger \subseteq Range(image)
        /\ ledger' = Range(image)
    BY <1>1, <1>3, <1>5 DEF Upgrading, IdsOf
  <2>2. executed \in {pending, pending \ {"0001_jobs"}} /\ (executed # pending => ledger = {})
    BY <1>1, <2>1 DEF Upgrading
  <2>3. created \subseteq Tables /\ dropped \subseteq Tables
    BY TablesOfType DEF Created, Dropped
  <2>4. taken \subseteq created \cap LegacyTables /\ (taken # {} => interfered > 0)
    BY <1>2 DEF Executed, Taken
  <2>5. kept \subseteq dropped \ created /\ (kept # {} => interfered > 0)
    BY <1>2, <2>3 DEF Executed
  <2>6. \A t \in created : schema[t] = IF t \in taken THEN "altered" ELSE "none"
    BY <1>2 DEF Executed, Taken
  <2>7. ASSUME NEW t \in Tables
        PROVE  Overlay(s.ddl)[t] = IF t \in dropped \ kept THEN "none"
                                   ELSE IF t \in created THEN "ok" ELSE schema[t]
    <3>1. Overlay(s.ddl)[t] = IF s.ddl[t] = "untouched" THEN schema[t] ELSE s.ddl[t]
      BY DEF Overlay
    <3>2. IF s.ddl[t] = "untouched" THEN t \notin created ELSE s.ddl[t] \in After(executed, t)
      BY <1>2 DEF Executed
    <3>3. CASE t \in dropped
      BY <3>1, <3>2, <3>3 DEF After
    <3>4. CASE t \notin dropped /\ t \in created
      BY <1>1, <3>1, <3>2, <3>4 DEF Completed
    <3>5. CASE t \notin dropped /\ t \notin created
      BY <3>1, <3>2, <3>5 DEF After
    <3> QED BY <3>3, <3>4, <3>5
  <2>8. schema' = [t \in Tables |-> IF t \in dropped \ kept THEN "none"
                                   ELSE IF t \in created THEN "ok" ELSE schema[t]]
    BY <1>3, <2>7 DEF Overlay
  <2> HIDE DEF taken, kept
  <2>9. taken \in SUBSET (created \cap LegacyTables) /\ kept \in SUBSET (dropped \ created)
        /\ (taken \cup kept # {} => interfered > 0)
    BY <2>4, <2>5
  <2> HIDE DEF created, dropped, pending
  <2>10. History!Reshape(created, dropped)
    BY <2>6, <2>8, <2>9 DEF History!Reshape
  <2>11. /\ created = UNION {TablesOf[id] : id \in executed}
         /\ dropped = UNION {DroppedBy[id] : id \in executed}
    BY DEF created, dropped, Created, Dropped
  <2>12. /\ pending = History!IdsOf(History!Range(image) \ ledger)
         /\ ledger \subseteq History!Range(image) /\ ledger' = History!Range(image)
    BY <2>1, HistoryOperators DEF pending
  <2>13. History!Upgrade(image)
    BY <2>1, <2>2, <2>10, <2>11, <2>12 DEF History!Upgrade
  <2> QED BY <2>13
<1> QED BY <1>4, <1>5

\* Whatever the invocations do, what is committed goes through the steps of
\* MigrationHistory, for any number of them and any images.
THEOREM SpecImplementsHistory == Spec => ImplementsHistory
<1>1. Init => History!Init
  BY DEF Init, History!Init
<1>2. LockInv /\ [Next]_vars => [History!Next]_(History!historyVars)
  <2> SUFFICES ASSUME LockInv, [Next]_vars PROVE [History!Next]_(History!historyVars)
    OBVIOUS
  <2>1. ASSUME NEW s \in Session, Whole(s), CommitOf(s), UNCHANGED interfered
        PROVE  [History!Next]_(History!historyVars)
    BY <2>1, CommitIsUpgrade DEF History!Next
  <2>2. ASSUME NEW t \in Tables, Interfere(t)
        PROVE  History!Next
    <3>1. History!OtherOwner(t)
      BY <2>2 DEF Interfere, History!OtherOwner, TableState
    <3> QED BY <3>1 DEF History!Next
  <2>3. CASE UNCHANGED <<schema, ledger, interfered>>
    BY <2>3 DEF History!historyVars
  <2> QED BY <2>1, <2>2, <2>3, WritersAreCommits
<1> QED BY <1>1, <1>2, SpecLockInv, PTL DEF Spec, ImplementsHistory, History!Spec

-----------------------------------------------------------------------------
(* How long it takes *)

\* Identifiers the loop has not recorded yet.
Unrecorded(known) == Ids \ IdsOf(known)

\* What is left of an invocation: its statements, the COMMIT of the server and the
\* acknowledgement, and one iteration for each migration not recorded.
StepsAhead(p) ==
    CASE pc[p] = "lock" -> 8
      [] pc[p] = "inspect" -> 7
      [] pc[p] = "apply" -> Cardinality(Unrecorded(run[p].ledger)) + 3
      [] pc[p] = "commit" -> IF session[p].st = "commit" THEN 2 ELSE 1
      [] OTHER -> 0

\* There are three identifiers, so at most three iterations.
LEMMA UnrecordedType ==
  ASSUME NEW known
  PROVE  IsFiniteSet(Unrecorded(known)) /\ Cardinality(Unrecorded(known)) \in 0 .. 3
<1> DEFINE one == {"0001_jobs"}
           two == one \cup {"0002_worker_protocol"}
           three == two \cup {"0003_synchronous_generations"}
<1>1. IsFiniteSet(one) /\ Cardinality(one) = 1
  BY FS_Singleton
<1>2. IsFiniteSet(two) /\ Cardinality(two) = 2
  <2>1. "0002_worker_protocol" \notin one
    OBVIOUS
  <2> HIDE DEF one
  <2> QED
    BY <1>1, <2>1, FS_AddElement
<1>3. IsFiniteSet(three) /\ Cardinality(three) = 3
  <2>1. "0003_synchronous_generations" \notin two
    OBVIOUS
  <2> HIDE DEF two
  <2> QED
    BY <1>2, <2>1, FS_AddElement
<1>4. Ids = three
  BY DEF Ids
<1> HIDE DEF three
<1>5. Unrecorded(known) \in SUBSET three
  BY <1>4 DEF Unrecorded
<1>6. IsFiniteSet(Unrecorded(known)) /\ Cardinality(Unrecorded(known)) <= 3
  BY <1>3, <1>5, FS_Subset
<1> QED
  BY <1>6, FS_CardinalityType

\* A migration that is recorded is one of those left.
LEMMA OneLess ==
  ASSUME NEW known, NEW m, m.id \in Ids, m.id \notin IdsOf(known)
  PROVE  Cardinality(Unrecorded(known \cup {m})) = Cardinality(Unrecorded(known)) - 1
<1> DEFINE left == Unrecorded(known)
<1>1. m.id \in left /\ Unrecorded(known \cup {m}) = left \ {m.id}
  BY RecordOne DEF Unrecorded
<1>2. IsFiniteSet(left)
  BY UnrecordedType
<1> HIDE DEF left
<1>3. Cardinality(left \ {m.id}) = Cardinality(left) - 1
  BY <1>1, <1>2, FS_RemoveElement
<1> QED
  BY <1>1, <1>3 DEF left

\* An invocation under way has something left, and at most eight steps.
LEMMA AheadType ==
  ASSUME LockInv, NEW p \in Procs
  PROVE  StepsAhead(p) \in 0 .. 8 /\ (pc[p] # "idle" => StepsAhead(p) > 0)
<1>1. pc[p] \in {"idle", "lock", "inspect", "apply", "commit"}
  BY DEF LockInv, TypeOK
<1>2. Cardinality(Unrecorded(run[p].ledger)) + 3 \in 3 .. 6
  BY UnrecordedType
<1> QED
  BY <1>1, <1>2 DEF StepsAhead

\* Each of its own steps takes an invocation forward, whoever takes it.
LEMMA OwnStepIsAhead ==
  ASSUME LockInv, LockInv', NEW p \in Procs, pc[p] # "idle",
         Invoke(p) \/ ServerCommit(p) \/ Broken(p)
  PROVE  StepsAhead(p)' < StepsAhead(p)
<1>1. /\ pc \in [Procs -> {"idle", "lock", "inspect", "apply", "commit"}]
      /\ run \in [Procs -> Run] /\ session \in [Procs -> Session] /\ ShapeAt(p)
  BY DEF LockInv, TypeOK
<1>2. StepsAhead(p) \in 0 .. 8 /\ StepsAhead(p) > 0
  BY AheadType
<1>3. CASE pc'[p] = "idle"
  <2>1. StepsAhead(p)' = 0
    BY <1>3 DEF StepsAhead
  <2> QED
    BY <1>2, <2>1
<1>4. CASE AcquireLock(p)
  BY <1>1, <1>4 DEF AcquireLock, Goto, StepsAhead
<1>5. CASE Inspect(p) /\ pc'[p] # "idle"
  <2>1. pc[p] = "inspect" /\ StepsAhead(p) = 7 /\ pc'[p] \in {"apply", "commit"}
    BY <1>1, <1>5 DEF Inspect, Fail, SendCommit, Goto, StepsAhead
  <2>2. Cardinality(Unrecorded(run'[p].ledger)) + 3 \in 3 .. 6
    BY UnrecordedType
  <2>3. StepsAhead(p)' \in 1 .. 6
    BY <2>1, <2>2 DEF StepsAhead
  <2> QED
    BY <2>1, <2>3
<1>6. CASE ApplyOne(p) /\ pc'[p] # "idle"
  <2> DEFINE m == NextPending(p)
             known == run[p].ledger
  <2>1. /\ pc[p] = "apply" /\ pc'[p] = "apply" /\ PendingIn(run[p].image, known) # {}
        /\ run'[p].ledger = known \cup {m}
    <3>1. pc[p] = "apply" /\ PendingIn(run[p].image, known) # {}
      BY <1>6 DEF ApplyOne
    <3>2. PICK completed \in SUBSET LegacyTables : RecordNext(p, completed)
      BY <1>1, <1>6 DEF ApplyOne, Fail, Goto
    <3>3. pc' = pc /\ run'[p].ledger = known \cup {m}
      BY <1>1, <3>2 DEF RecordNext, Run
    <3> QED BY <3>1, <3>3
  <2>2. m.id \in Ids /\ m.id \notin IdsOf(known)
    <3>1. run[p].image \in Images
      BY <1>1 DEF Run
    <3> QED
      BY <2>1, <3>1, NextPendingIsFirst, PendingType
  <2>3. StepsAhead(p) = Cardinality(Unrecorded(known)) + 3
        /\ StepsAhead(p)' = Cardinality(Unrecorded(known \cup {m})) + 3
    BY <2>1 DEF StepsAhead
  <2> HIDE DEF m, known
  <2>4. /\ Cardinality(Unrecorded(known \cup {m})) = Cardinality(Unrecorded(known)) - 1
        /\ Cardinality(Unrecorded(known)) \in 0 .. 3
    BY <2>2, OneLess, UnrecordedType
  <2> QED
    BY <2>3, <2>4
<1>7. CASE Verify(p) /\ pc'[p] # "idle"
  <2>1. pc[p] = "apply" /\ pc'[p] = "commit"
    BY <1>1, <1>7 DEF Verify, Fail, SendCommit, Goto
  <2>2. StepsAhead(p) \in 3 .. 6 /\ StepsAhead(p)' \in 1 .. 2
    BY <2>1, UnrecordedType DEF StepsAhead
  <2> QED
    BY <2>2
<1>8. CASE Ack(p) \/ Broken(p)
  <2>1. pc'[p] = "idle"
    BY <1>1, <1>8 DEF Ack, Broken, Goto
  <2> QED
    BY <1>3, <2>1
<1>9. CASE ServerCommit(p)
  <2>1. session[p].st = "commit" /\ session'[p] = Blank("done") /\ pc'[p] = pc[p]
    BY <1>1, <1>9 DEF ServerCommit
  <2>2. pc[p] = "commit"
    BY <1>1, <2>1 DEF ShapeAt, NoSession, Blank, Opened
  <2> QED
    BY <2>1, <2>2 DEF StepsAhead, Blank
<1> QED
  BY <1>3, <1>4, <1>5, <1>6, <1>7, <1>8, <1>9 DEF Invoke

\* What is left to whom, and what it is read from.
Place(p) == <<pc[p], run[p], session[p]>>

\* Nobody else moves an invocation, forward or back.
LEMMA OthersStay ==
  ASSUME LockInv, [Next]_vars, NEW p \in Procs, pc[p] # "idle"
  PROVE  \/ Invoke(p) \/ ServerCommit(p) \/ Broken(p)
         \/ Place(p)' = Place(p)
<1>1. /\ pc \in [Procs -> {"idle", "lock", "inspect", "apply", "commit"}]
      /\ run \in [Procs -> Run] /\ session \in [Procs -> Session]
  BY DEF LockInv, TypeOK
<1>2. ASSUME NEW q \in Procs, q # p, Start(q) \/ Invoke(q) \/ ServerCommit(q) \/ Broken(q)
      PROVE  Place(p)' = Place(p)
  <2>1. CASE Start(q)
    BY <1>1, <1>2, <2>1 DEF Start, Goto, Place
  <2>2. CASE AcquireLock(q)
    BY <1>1, <1>2, <2>2 DEF AcquireLock, Goto, Place
  <2>3. CASE Inspect(q)
    BY <1>1, <1>2, <2>3 DEF Inspect, Fail, SendCommit, Goto, Place
  <2>4. CASE ApplyOne(q)
    BY <1>1, <1>2, <2>4 DEF ApplyOne, RecordNext, Fail, Goto, Place
  <2>5. CASE Verify(q)
    BY <1>1, <1>2, <2>5 DEF Verify, Fail, SendCommit, Goto, Place
  <2>6. CASE Ack(q)
    BY <1>1, <1>2, <2>6 DEF Ack, Goto, Place
  <2>7. CASE ServerCommit(q)
    BY <1>1, <1>2, <2>7 DEF ServerCommit, Place
  <2>8. CASE Broken(q)
    BY <1>1, <1>2, <2>8 DEF Broken, Abandon, Goto, Place
  <2> QED
    BY <1>2, <2>1, <2>2, <2>3, <2>4, <2>5, <2>6, <2>7, <2>8 DEF Invoke
<1>3. ~Start(p)
  BY DEF Start
<1>4. ASSUME NEW o \in orphans, OrphanCommit(o) \/ OrphanAbort(o)
      PROVE  Place(p)' = Place(p)
  BY <1>4 DEF OrphanCommit, OrphanAbort, Place
<1>5. ASSUME NEW t \in Tables, Interfere(t)
      PROVE  Place(p)' = Place(p)
  BY <1>5 DEF Interfere, Place
<1>6. CASE UNCHANGED vars
  BY <1>6 DEF vars, Place
<1> QED
  BY <1>2, <1>3, <1>4, <1>5, <1>6 DEF Next

\* An invocation that moves has less ahead of it, and nobody else moves it.
Advances ==
    [][\A p \in Procs : pc[p] # "idle" =>
           /\ StepsAhead(p) \in 1 .. 8
           /\ Place(p)' # Place(p) => StepsAhead(p)' < StepsAhead(p)]_vars

\* An invocation ends after at most eight steps of its own and of the server for it,
\* whatever the images, and however many others start, wait or die in the meantime:
\* no step of theirs sets it back.  (migration.py:494-594)
THEOREM SpecAdvances == Spec => Advances
<1>1. LockInv /\ LockInv' /\ [Next]_vars =>
        [\A p \in Procs : pc[p] # "idle" =>
           /\ StepsAhead(p) \in 1 .. 8
           /\ Place(p)' # Place(p) => StepsAhead(p)' < StepsAhead(p)]_vars
  <2> SUFFICES ASSUME LockInv, LockInv', [Next]_vars, NEW p \in Procs, pc[p] # "idle"
               PROVE  /\ StepsAhead(p) \in 1 .. 8
                      /\ Place(p)' # Place(p) => StepsAhead(p)' < StepsAhead(p)
    OBVIOUS
  <2>1. StepsAhead(p) \in 1 .. 8
    BY AheadType
  <2>2. Place(p)' # Place(p) => StepsAhead(p)' < StepsAhead(p)
    BY OthersStay, OwnStepIsAhead
  <2> QED
    BY <2>1, <2>2
<1> QED
  BY <1>1, SpecLockInv, PTL DEF Spec, Advances

\* Whoever waits for the lock could have it, or waits for one that does not wait: an
\* invocation that inspects, applies or commits, or the orphan of one.
NobodyWaitsInVain ==
    \A p \in Procs : pc[p] = "lock" =>
        \/ LockFree(p)
        \/ \E q \in Procs \ {p} :
              session[q].locked /\ pc[q] \in {"inspect", "apply", "commit"}
        \/ \E o \in orphans : o.locked

\* There is no circle of invocations waiting for one lock; and the one that has it
\* ends by itself (SpecAdvances), or is ended by the server.  (migration.py:514)
THEOREM SpecNobodyWaitsInVain == Spec => []NobodyWaitsInVain
<1>1. LockInv => NobodyWaitsInVain
  <2> SUFFICES ASSUME LockInv, NEW p \in Procs, pc[p] = "lock", ~LockFree(p),
                      NEW q \in Procs \ {p}, session[q].locked
               PROVE  pc[q] \in {"inspect", "apply", "commit"}
    BY DEF NobodyWaitsInVain, LockFree
  <2>1. pc[q] \in {"idle", "lock", "inspect", "apply", "commit"} /\ ShapeAt(q)
    BY DEF LockInv, TypeOK
  <2> QED
    BY <2>1 DEF ShapeAt, NoSession, Blank
<1> QED
  BY <1>1, SpecLockInv, PTL
=============================================================================
