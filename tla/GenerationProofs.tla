-------------------------- MODULE GenerationProofs --------------------------
(***************************************************************************)
(* The inductive invariant IInv of GenerationProperties is one of the      *)
(* service, for every number of processes, sessions, tenants, keys and     *)
(* rows: one lemma per action shows that it is kept, and type correctness, *)
(* the uniqueness of keys and the agreement of rows, ledger and generation *)
(* follow from it.  With it, every step is one of the atomic store or none *)
(* that the store sees; so what the store keeps, the service keeps.        *)
(***************************************************************************)
EXTENDS GenerationProperties, TLAPS

\* The server session a new connection opens is well typed.
LEMMA BlankType ==
  ASSUME NEW st \in {"closed", "open", "commit", "done"}, NEW c \in Procs \cup {None}
  PROVE  Blank(st, c) \in Session
BY DEF Blank, Session

\* So is a session slot without a transaction.
LEMMA ClosedType == Closed \in Session
BY BlankType DEF Closed

\* The answer built from an error code is well typed.
LEMMA RefusedType ==
  ASSUME NEW code \in ErrorCode
  PROVE  Refused(code) \in Answer
BY DEF Refused, Answer

\* The inductive invariant holds of the empty store with every process idle.
LEMMA InitInv == Init => IInv
<1> SUFFICES ASSUME Init PROVE IInv OBVIOUS
<1>1. TypeOK
  <2>1. generations \in [GenIds -> GenerationRow]
    BY DEF Init, DbInit, NoGeneration, GenerationRow
  <2>2. /\ generation_rows \in [GenIds -> Seq(RowIds)]
        /\ rows \in [RowIds -> GenIds \cup {App, None}]
        /\ access \in [RowIds -> Access]
    BY DEF Init, DbInit, Access
  <2>3. tx \in [Sessions -> Session]
    BY ClosedType DEF Init, DbInit
  <2>4. ServiceTypeOK
    BY ServiceAssumption
    DEF Init, ServiceTypeOK, Labels, Request, NoRequest, Answer, NoAnswer, Refused
  <2> QED BY <2>1, <2>2, <2>3, <2>4 DEF TypeOK, DbTypeOK
<1>2. \A g \in GenIds : ~Stored(g)
  BY DEF Init, DbInit, NoGeneration, Stored
<1>3. RequestShape /\ LoopShape
  BY DEF Init, RequestShape, LoopShape, InPost, InDelete, NoRequest
<1>4. Exclusive /\ WritesFit /\ CommitIsWhole /\ SessionShape /\ Serving
  BY DatabaseAssumption DEF Init, DbInit, Closed, Blank, Exclusive, Held, WritesFit, CommitIsWhole, SessionShape, Serving
<1>5. StoredShape /\ OneGenerationPerKey /\ LedgerIsDataset
  BY <1>2 DEF StoredShape, OneGenerationPerKey, LedgerIsDataset
<1>6. RowsHaveEvidence
  BY DatabaseAssumption DEF RowsHaveEvidence, Init, DbInit
<1> QED BY <1>1, <1>3, <1>4, <1>5, <1>6 DEF IInv

\* A session none of whose business changed is where it was.
LEMMA ServingFrame ==
  ASSUME NEW p \in Procs, NEW s \in Sessions, ServingAt(p, s),
         UNCHANGED <<pc[p], req[p], handled[p], tx[s]>>,
         (pc[p] = "insert" /\ Existing(Slot(p)) = {}) => Existing(Slot(p))' = {}
  PROVE  ServingAt(p, s)'
<1>1. Slot(p)' = Slot(p)
  BY DEF Slot
<1>2. Range(handled[p])' = Range(handled[p])
  BY DEF Range
<1> QED BY <1>1, <1>2 DEF ServingAt, Blank

\* A process that answers outside any transaction (find_idempotent, get, a
\* refused generation) keeps the invariant.
LEMMA ReplyInv ==
  ASSUME IInv, NEW p \in Procs, NEW a \in Answer,
         pc[p] \in {"find", "generate", "get", "connect"}, Reply(p, a), UNCHANGED dbVars
  PROVE  IInv'
<1> USE DEF Reply, Goto, dbVars
<1>1. TypeOK'
  BY DEF IInv, TypeOK, DbTypeOK, ServiceTypeOK, Labels
<1>2. RequestShape'
  BY DEF IInv, TypeOK, ServiceTypeOK, RequestShape, InPost, InDelete, Slot
<1>3. Exclusive' /\ WritesFit' /\ CommitIsWhole' /\ SessionShape'
  BY DEF IInv, Exclusive, WritesFit, CommitIsWhole, SessionShape, Held, Existing, Stored
<1>4. Serving'
  <2> SUFFICES ASSUME NEW q \in Procs, NEW t \in Sessions, tx'[t].client = q
               PROVE  ServingAt(q, t)'
    BY DEF Serving
  <2>1. ServingAt(q, t)
    BY DEF IInv, Serving
  <2>2. q # p
    BY <2>1 DEF ServingAt
  <2>3. UNCHANGED <<pc[q], req[q], handled[q], tx[t]>>
    BY <2>2 DEF IInv, TypeOK, ServiceTypeOK
  <2>4. Existing(Slot(q))' = Existing(Slot(q))
    BY <2>3 DEF Existing, Slot
  <2> QED BY <2>1, <2>3, <2>4, ServingFrame
<1>5. LoopShape'
  BY DEF IInv, TypeOK, ServiceTypeOK, LoopShape, Stored
<1>6. StoredShape' /\ OneGenerationPerKey' /\ RowsHaveEvidence' /\ LedgerIsDataset'
  BY DEF IInv, StoredShape, OneGenerationPerKey, RowsHaveEvidence, LedgerIsDataset, Stored
<1> QED BY <1>1, <1>2, <1>3, <1>4, <1>5, <1>6 DEF IInv

\* A process that answers by leaving the transaction block keeps it: what the
\* session held is simply free again.
LEMMA ReplyAndCloseInv ==
  ASSUME IInv, NEW p \in Procs, NEW s \in Sessions, NEW a \in Answer,
         tx[s].client = p, ReplyAndClose(p, s, a)
  PROVE  IInv'
<1> USE DEF ReplyAndClose, Reply, Goto
<1>1. TypeOK'
  BY ClosedType DEF IInv, TypeOK, DbTypeOK, ServiceTypeOK, Labels
<1>2. RequestShape'
  BY DEF IInv, TypeOK, ServiceTypeOK, RequestShape, InPost, InDelete, Slot
<1>3. Exclusive' /\ WritesFit' /\ CommitIsWhole' /\ SessionShape'
  BY DatabaseAssumption DEF IInv, TypeOK, DbTypeOK, Exclusive, WritesFit, CommitIsWhole, SessionShape, Held, Existing, Stored, Closed, Blank
<1>4. Serving'
  <2> SUFFICES ASSUME NEW q \in Procs, NEW t \in Sessions, tx'[t].client = q
               PROVE  ServingAt(q, t)'
    BY DEF Serving
  <2>1. t # s
    BY DatabaseAssumption DEF IInv, TypeOK, DbTypeOK, Closed, Blank
  <2>2. tx'[t] = tx[t] /\ q # p
    BY <2>1, DatabaseAssumption DEF IInv, TypeOK, DbTypeOK, Exclusive
  <2>3. ServingAt(q, t)
    BY <2>2 DEF IInv, Serving
  <2>4. UNCHANGED <<pc[q], req[q], handled[q], tx[t]>>
    BY <2>2 DEF IInv, TypeOK, ServiceTypeOK
  <2>5. Existing(Slot(q))' = Existing(Slot(q))
    BY <2>4 DEF Existing, Slot
  <2> QED BY <2>3, <2>4, <2>5, ServingFrame
<1>5. LoopShape'
  <2> SUFFICES ASSUME NEW q \in Procs PROVE LoopShape!(q)'
    BY DEF LoopShape
  <2>1. LoopShape!(q)
    BY DEF IInv, LoopShape
  <2>2. CASE q = p
    BY <2>2 DEF IInv, TypeOK, ServiceTypeOK
  <2>3. CASE q # p
    <3>1. UNCHANGED <<pc[q], req[q], handled[q], generations, generation_rows>>
      BY <2>3 DEF IInv, TypeOK, ServiceTypeOK
    <3> QED BY <2>1, <3>1 DEF Stored
  <2> QED BY <2>2, <2>3
<1>6. StoredShape' /\ OneGenerationPerKey' /\ RowsHaveEvidence' /\ LedgerIsDataset'
  BY DEF IInv, StoredShape, OneGenerationPerKey, RowsHaveEvidence, LedgerIsDataset, Stored
<1> QED BY <1>1, <1>2, <1>3, <1>4, <1>5, <1>6 DEF IInv

\* A statement of process p in its session s leaves the other sessions alone.
LEMMA ServingStatement ==
  ASSUME IInv, NEW p \in Procs, NEW s \in Sessions, tx[s].client = p,
         \A t \in Sessions \ {s} : tx'[t] = tx[t],
         \A q \in Procs \ {p} : UNCHANGED <<pc[q], req[q], handled[q]>>,
         UNCHANGED generations,
         tx'[s].client = p => ServingAt(p, s)',
         tx'[s].client \in {p, None}
  PROVE  Serving'
<1> SUFFICES ASSUME NEW q \in Procs, NEW t \in Sessions, tx'[t].client = q
             PROVE  ServingAt(q, t)'
  BY DEF Serving
<1>1. CASE t = s
  BY <1>1, DatabaseAssumption
<1>2. CASE t # s
  <2>1. tx'[t] = tx[t] /\ q # p
    BY <1>2, DatabaseAssumption DEF IInv, Exclusive
  <2>2. ServingAt(q, t)
    BY <2>1 DEF IInv, Serving
  <2>3. UNCHANGED <<pc[q], req[q], handled[q], tx[t]>>
    BY <2>1
  <2>4. Existing(Slot(q))' = Existing(Slot(q))
    BY <2>3 DEF Existing, Slot
  <2> QED BY <2>2, <2>3, <2>4, ServingFrame
<1> QED BY <1>1, <1>2

\* A process that takes a request keeps the invariant.
LEMMA AcceptInv ==
  ASSUME IInv, NEW p \in Procs, NEW r \in Request, NEW label \in {"find", "get", "connect"},
         Accept(p, r, label),
         r.tenant \in Tenants,
         label = "find" => r.op = "post" /\ r.key \in Keys /\ r.digest \in Digests /\ r.gen = None,
         label = "get" => r.op = "get" /\ r.gen \in GenIds,
         label = "connect" => r.op = "delete" /\ r.gen \in GenIds
  PROVE  IInv'
<1> USE DEF Accept, Goto
<1>1. TypeOK'
  BY ServiceAssumption DEF IInv, TypeOK, DbTypeOK, ServiceTypeOK, Labels, Answer, NoAnswer, Refused
<1>2. RequestShape'
  <2> SUFFICES ASSUME NEW q \in Procs PROVE RequestShape!(q)'
    BY DEF RequestShape
  <2>1. CASE q = p
    <3>1. req'[p] = r /\ pc'[p] = label
      BY DEF IInv, TypeOK, ServiceTypeOK
    <3>2. r.op \in {"post", "get", "delete"}
      OBVIOUS
    <3>3. None \notin GenIds
      BY DatabaseAssumption
    <3> QED BY <2>1, <3>1, <3>2, <3>3 DEF InPost, InDelete
  <2>2. CASE q # p
    <3>1. UNCHANGED <<pc[q], req[q], issued>>
      BY <2>2 DEF IInv, TypeOK, ServiceTypeOK
    <3>2. Slot(q)' = Slot(q)
      BY <3>1 DEF Slot
    <3>3. RequestShape!(q)
      BY DEF IInv, RequestShape
    <3> QED BY <3>1, <3>2, <3>3
  <2> QED BY <2>1, <2>2
<1>3. Exclusive' /\ WritesFit' /\ CommitIsWhole' /\ SessionShape'
  BY DEF IInv, Exclusive, WritesFit, CommitIsWhole, SessionShape, Held, Existing, Stored
<1>4. Serving'
  <2> SUFFICES ASSUME NEW q \in Procs, NEW t \in Sessions, tx'[t].client = q
               PROVE  ServingAt(q, t)'
    BY DEF Serving
  <2>1. ServingAt(q, t)
    BY DEF IInv, Serving
  <2>2. q # p
    BY <2>1 DEF ServingAt
  <2>3. UNCHANGED <<pc[q], req[q], handled[q], tx[t]>>
    BY <2>2 DEF IInv, TypeOK, ServiceTypeOK
  <2>4. Existing(Slot(q))' = Existing(Slot(q))
    BY <2>3 DEF Existing, Slot
  <2> QED BY <2>1, <2>3, <2>4, ServingFrame
<1>5. LoopShape'
  BY DEF IInv, TypeOK, ServiceTypeOK, LoopShape, Stored
<1>6. StoredShape' /\ OneGenerationPerKey' /\ RowsHaveEvidence' /\ LedgerIsDataset'
  BY DEF IInv, StoredShape, OneGenerationPerKey, RowsHaveEvidence, LedgerIsDataset, Stored
<1> QED BY <1>1, <1>2, <1>3, <1>4, <1>5, <1>6 DEF IInv

\* Drawing the generation's id, or refusing, keeps the invariant.
LEMMA GenerateInv ==
  ASSUME IInv, NEW p \in Procs, Generate(p)
  PROVE  IInv'
<1>1. CASE \E a \in Answer : Reply(p, a)
  BY <1>1, ReplyInv DEF Generate
<1>2. CASE ~ \E a \in Answer : Reply(p, a)
  <2>1. Refusal[req[p].digest] # "none" => Refused(Refusal[req[p].digest]) \in Answer
    BY ServiceAssumption, RefusedType DEF IInv, RequestShape, InPost, Generate, ErrorCode
  <2>2. Refused("DEPENDENCY_UNAVAILABLE") \in Answer
    BY RefusedType DEF ErrorCode
  <2>3. PICK g \in GenIds : /\ issued[g] = None
                            /\ issued' = [issued EXCEPT ![g] = Slot(p)]
                            /\ req' = [req EXCEPT ![p].gen = g]
    BY <1>2, <2>1, <2>2 DEF Generate
  <2>4. /\ pc[p] = "generate" /\ pc' = [pc EXCEPT ![p] = "connect"]
        /\ attempt' = [attempt EXCEPT ![p] = 1]
        /\ UNCHANGED <<handled, answer, generations, generation_rows, rows, access, tx>>
    BY <1>2, <2>1, <2>2 DEF Generate, Goto, dbVars
  <2>5. req[p].op = "post" /\ Slot(p) \in Slots
    BY <2>4 DEF IInv, RequestShape, InPost, Slot, Slots
  <2> DEFINE r == [req[p] EXCEPT !.gen = g]
  <2>51. r \in Request /\ r.op = "post" /\ r.gen = g /\ <<r.tenant, r.key>> = Slot(p)
         /\ r.tenant \in Tenants /\ r.key \in Keys /\ r.digest \in Digests
    BY <2>4, <2>5 DEF IInv, TypeOK, ServiceTypeOK, RequestShape, Request, Slot
  <2>52. req' = [req EXCEPT ![p] = r]
    BY <2>3
  <2> HIDE DEF r
  <2>6. TypeOK'
    <3>1. req' \in [Procs -> Request]
      BY <2>51, <2>52 DEF IInv, TypeOK, ServiceTypeOK
    <3>2. issued' \in [GenIds -> Slots \cup {None}]
      BY <2>3, <2>5 DEF IInv, TypeOK, ServiceTypeOK
    <3>3. pc' \in [Procs -> Labels] /\ attempt' \in [Procs -> 1 .. RetryAttempts]
      BY <2>4, ServiceAssumption DEF IInv, TypeOK, ServiceTypeOK, Labels
    <3> QED BY <2>4, <3>1, <3>2, <3>3 DEF IInv, TypeOK, DbTypeOK, ServiceTypeOK
  <2>7. RequestShape'
    <3> SUFFICES ASSUME NEW q \in Procs PROVE RequestShape!(q)'
      BY DEF RequestShape
    <3>1. CASE q = p
      <4>1. req'[p] = r /\ pc'[p] = "connect"
        BY <2>4, <2>52 DEF IInv, TypeOK, ServiceTypeOK
      <4>2. issued'[g] = Slot(p) /\ Slot(p)' = Slot(p)
        BY <2>3, <2>51, <4>1 DEF IInv, TypeOK, ServiceTypeOK, Slot
      <4> QED BY <3>1, <4>1, <4>2, <2>51 DEF InPost, InDelete
    <3>2. CASE q # p
      <4>1. UNCHANGED <<pc[q], req[q]>> /\ Slot(q)' = Slot(q)
        BY <3>2, <2>4, <2>52 DEF IInv, TypeOK, ServiceTypeOK, Slot
      <4>2. (req[q].op = "post" /\ req[q].gen # None) =>
                req[q].gen \in GenIds /\ issued[req[q].gen] \in Slots
        <5>1. req[q] \in Request
          BY DEF IInv, TypeOK, ServiceTypeOK
        <5>2. req[q].gen \in GenIds \cup {None}
          BY <5>1 DEF Request
        <5>3. req[q].op = "post" => Slot(q) \in Slots
          BY DEF IInv, RequestShape, Slot, Slots
        <5> QED BY <5>2, <5>3 DEF IInv, RequestShape
      <4>3. (req[q].op = "post" /\ req[q].gen # None) => issued'[req[q].gen] = issued[req[q].gen]
        BY <4>2, <2>3, DatabaseAssumption DEF IInv, TypeOK, ServiceTypeOK
      <4> QED BY <4>1, <4>3 DEF IInv, RequestShape, InPost, InDelete
    <3> QED BY <3>1, <3>2
  <2>8. Exclusive' /\ WritesFit' /\ SessionShape'
    BY <2>4 DEF IInv, Exclusive, WritesFit, SessionShape, Held
  <2>9. CommitIsWhole'
    BY <2>3, <2>4, DatabaseAssumption DEF IInv, TypeOK, ServiceTypeOK, CommitIsWhole, Existing
  <2>10. Serving'
    <3> SUFFICES ASSUME NEW q \in Procs, NEW t \in Sessions, tx'[t].client = q
                 PROVE  ServingAt(q, t)'
      BY DEF Serving
    <3>1. ServingAt(q, t)
      BY <2>4 DEF IInv, Serving
    <3>2. q # p
      BY <2>4, <3>1 DEF ServingAt
    <3>3. UNCHANGED <<pc[q], req[q], handled[q], tx[t]>>
      BY <2>3, <2>4, <3>2 DEF IInv, TypeOK, ServiceTypeOK
    <3>4. Existing(Slot(q))' = Existing(Slot(q))
      BY <2>4, <3>3 DEF Existing, Slot
    <3> QED BY <3>1, <3>3, <3>4, ServingFrame
  <2>11. LoopShape'
    BY <2>3, <2>4 DEF IInv, TypeOK, ServiceTypeOK, LoopShape, Stored
  <2>12. StoredShape'
    BY <2>3, <2>4, DatabaseAssumption DEF IInv, TypeOK, ServiceTypeOK, StoredShape, Stored
  <2>13. OneGenerationPerKey' /\ RowsHaveEvidence' /\ LedgerIsDataset'
    BY <2>4 DEF IInv, OneGenerationPerKey, RowsHaveEvidence, LedgerIsDataset, Stored
  <2> QED BY <2>6, <2>7, <2>8, <2>9, <2>10, <2>11, <2>12, <2>13 DEF IInv
<1> QED BY <1>1, <1>2

\* The answer of a replay is well typed.
LEMMA ReplayedType ==
  ASSUME IInv, NEW p \in Procs, NEW g \in GenIds
  PROVE  Replayed(p, g) \in Answer
<1>1. generations[g].state \in {"ABSENT", "COMMITTED", "DELETED"}
  BY DEF IInv, TypeOK, DbTypeOK, GenerationRow
<1> QED BY <1>1, RefusedType DEF Replayed, Answer, Success, ErrorCode

\* The first lookup of create_generation keeps the invariant.
LEMMA FindIdempotentInv ==
  ASSUME IInv, NEW p \in Procs, FindIdempotent(p)
  PROVE  IInv'
<1>1. CASE \E g \in Existing(Slot(p)) : Reply(p, Replayed(p, g))
  BY <1>1, ReplayedType, ReplyInv DEF FindIdempotent, Existing
<1>2. CASE /\ Goto(p, "generate")
           /\ UNCHANGED <<req, attempt, handled, answer, issued>>
  <2> USE DEF FindIdempotent, Goto, dbVars
  <2>1. TypeOK'
    BY <1>2 DEF IInv, TypeOK, DbTypeOK, ServiceTypeOK, Labels
  <2>2. RequestShape'
    BY <1>2 DEF IInv, TypeOK, ServiceTypeOK, RequestShape, InPost, InDelete, Slot
  <2>3. Exclusive' /\ WritesFit' /\ CommitIsWhole' /\ SessionShape'
    BY <1>2 DEF IInv, Exclusive, WritesFit, CommitIsWhole, SessionShape, Held, Existing, Stored
  <2>4. Serving'
    <3> SUFFICES ASSUME NEW q \in Procs, NEW t \in Sessions, tx'[t].client = q
                 PROVE  ServingAt(q, t)'
      BY DEF Serving
    <3>1. ServingAt(q, t)
      BY DEF IInv, Serving
    <3>2. q # p
      BY <3>1 DEF ServingAt
    <3>3. UNCHANGED <<pc[q], req[q], handled[q], tx[t]>>
      BY <1>2, <3>2 DEF IInv, TypeOK, ServiceTypeOK
    <3>4. Existing(Slot(q))' = Existing(Slot(q))
      BY <3>3 DEF Existing, Slot
    <3> QED BY <3>1, <3>3, <3>4, ServingFrame
  <2>5. LoopShape'
    BY <1>2 DEF IInv, TypeOK, ServiceTypeOK, LoopShape, Stored
  <2>6. StoredShape' /\ OneGenerationPerKey' /\ RowsHaveEvidence' /\ LedgerIsDataset'
    BY <1>2 DEF IInv, StoredShape, OneGenerationPerKey, RowsHaveEvidence, LedgerIsDataset, Stored
  <2> QED BY <2>1, <2>2, <2>3, <2>4, <2>5, <2>6 DEF IInv
<1> QED BY <1>1, <1>2 DEF FindIdempotent

\* GET keeps the invariant.
LEMMA GetInv ==
  ASSUME IInv, NEW p \in Procs, Get(p)
  PROVE  IInv'
<1>1. Refused("GENERATION_NOT_FOUND") \in Answer
  BY RefusedType DEF ErrorCode
<1>2. Found(p) \in Answer
  BY DEF IInv, TypeOK, DbTypeOK, GenerationRow, RequestShape, Get, Found, Answer, Success
<1> QED BY <1>1, <1>2, ReplyInv DEF Get

\* Opening a transaction keeps the invariant: a closed session holds nothing.
LEMMA ConnectInv ==
  ASSUME IInv, NEW p \in Procs, Connect(p)
  PROVE  IInv'
<1> USE DEF Connect, Goto
<1>1. PICK s \in Sessions : tx[s].st = "closed" /\ tx' = [tx EXCEPT ![s] = Blank("open", p)]
  OBVIOUS
<1>2. /\ tx[s] = Closed
      /\ tx'[s] = Blank("open", p)
      /\ \A t \in Sessions \ {s} : tx'[t] = tx[t]
      /\ \A t \in Sessions : tx[t].client # p
  BY <1>1 DEF IInv, TypeOK, DbTypeOK, SessionShape, Serving, ServingAt
<1>3. TypeOK'
  BY <1>1, BlankType DEF IInv, TypeOK, DbTypeOK, ServiceTypeOK, Labels
<1>4. RequestShape'
  BY DEF IInv, TypeOK, ServiceTypeOK, RequestShape, InPost, InDelete, Slot
<1>5. Exclusive' /\ WritesFit' /\ CommitIsWhole' /\ SessionShape'
  <2>1. Exclusive'
    BY <1>2, DatabaseAssumption DEF IInv, Exclusive, Held, Blank
  <2>2. WritesFit'
    BY <1>2 DEF IInv, WritesFit, Blank
  <2>3. CommitIsWhole'
    BY <1>2 DEF IInv, CommitIsWhole, Existing, Blank
  <2>4. SessionShape'
    BY <1>2 DEF IInv, SessionShape, Blank
  <2> QED BY <2>1, <2>2, <2>3, <2>4
<1>6. Serving'
  <2> SUFFICES ASSUME NEW q \in Procs, NEW t \in Sessions, tx'[t].client = q
               PROVE  ServingAt(q, t)'
    BY DEF Serving
  <2>1. CASE t = s
    <3>1. q = p
      BY <1>2, <2>1 DEF Blank
    <3>2. pc'[p] \in {"lock", "select"}
      BY DEF IInv, TypeOK, ServiceTypeOK
    <3> QED BY <1>2, <2>1, <3>1, <3>2 DEF ServingAt
  <2>2. CASE t # s
    <3>1. q # p /\ tx'[t] = tx[t] /\ ServingAt(q, t)
      BY <1>2, <2>2 DEF IInv, Serving
    <3>3. UNCHANGED <<pc[q], req[q], handled[q], tx[t]>>
      BY <3>1 DEF IInv, TypeOK, ServiceTypeOK
    <3>4. Existing(Slot(q))' = Existing(Slot(q))
      BY <3>3 DEF Existing, Slot
    <3> QED BY <3>1, <3>3, <3>4, ServingFrame
  <2> QED BY <2>1, <2>2
<1>7. LoopShape'
  BY DEF IInv, TypeOK, ServiceTypeOK, LoopShape, Stored
<1>8. StoredShape' /\ OneGenerationPerKey' /\ RowsHaveEvidence' /\ LedgerIsDataset'
  BY DEF IInv, StoredShape, OneGenerationPerKey, RowsHaveEvidence, LedgerIsDataset, Stored
<1> QED BY <1>3, <1>4, <1>5, <1>6, <1>7, <1>8 DEF IInv

\* The advisory lock of commit() keeps the invariant: LockFree is what makes
\* Exclusive survive.
LEMMA AcquireLockInv ==
  ASSUME IInv, NEW p \in Procs, NEW s \in Sessions, tx[s].client = p, AcquireLock(p, s)
  PROVE  IInv'
<1> USE DEF AcquireLock, Goto
<1> DEFINE new == [Blank("open", p) EXCEPT !.lock = AdvisoryKey[Slot(p)]]
<1>1. req[p].op = "post" /\ Slot(p) \in Slots /\ AdvisoryKey[Slot(p)] \in LockIds
  BY DatabaseAssumption DEF IInv, RequestShape, InPost, Slot, Slots
<1>2. tx[s] = Blank("open", p)
  BY DEF IInv, Serving, ServingAt
<1>3. /\ tx'[s] = new
      /\ \A t \in Sessions \ {s} : tx'[t] = tx[t]
      /\ tx' \in [Sessions -> Session]
  <2>1. new \in Session
    <3>1. Blank("open", p) \in Session
      BY BlankType
    <3> QED BY <1>1, <3>1 DEF Session
  <2>2. tx' = [tx EXCEPT ![s] = new]
    BY <1>2
  <2> HIDE DEF new
  <2> QED BY <2>1, <2>2 DEF IInv, TypeOK, DbTypeOK
<1>4. TypeOK'
  BY <1>3 DEF IInv, TypeOK, DbTypeOK, ServiceTypeOK, Labels
<1>5. RequestShape'
  BY <1>1 DEF IInv, TypeOK, ServiceTypeOK, RequestShape, InPost, InDelete, Slot
<1>6. WritesFit' /\ CommitIsWhole' /\ SessionShape'
  BY <1>2, <1>3, DatabaseAssumption DEF IInv, WritesFit, CommitIsWhole, SessionShape, Existing, Stored, Blank
<1>7. Exclusive'
  BY <1>1, <1>2, <1>3, DatabaseAssumption DEF IInv, Exclusive, Held, Blank, LockFree, Others
<1>8. Serving'
  <2>1. ServingAt(p, s)'
    BY <1>3 DEF IInv, TypeOK, ServiceTypeOK, ServingAt, Slot
  <2>2. \A q \in Procs \ {p} : UNCHANGED <<pc[q], req[q], handled[q]>>
    BY DEF IInv, TypeOK, ServiceTypeOK
  <2>3. tx'[s].client = p
    BY <1>3 DEF Blank
  <2> QED BY <1>3, <2>1, <2>2, <2>3, ServingStatement
<1>9. LoopShape'
  BY DEF IInv, TypeOK, ServiceTypeOK, LoopShape, Stored
<1>10. StoredShape' /\ OneGenerationPerKey' /\ RowsHaveEvidence' /\ LedgerIsDataset'
  BY DEF IInv, StoredShape, OneGenerationPerKey, RowsHaveEvidence, LedgerIsDataset, Stored
<1> QED BY <1>4, <1>5, <1>6, <1>7, <1>8, <1>9, <1>10 DEF IInv

\* The lookup under the lock keeps the invariant and establishes that the key
\* names no generation, which holds as long as the lock does.
LEMMA RecheckInv ==
  ASSUME IInv, NEW p \in Procs, NEW s \in Sessions, tx[s].client = p, Recheck(p, s)
  PROVE  IInv'
<1>1. CASE \E g \in Existing(Slot(p)) : ReplyAndClose(p, s, Replayed(p, g))
  BY <1>1, ReplayedType, ReplyAndCloseInv DEF Existing
<1>2. CASE /\ Existing(Slot(p)) = {}
           /\ Goto(p, "insert")
           /\ UNCHANGED <<generations, generation_rows, rows, access, tx,
                          req, attempt, handled, answer, issued>>
  <2> USE DEF Recheck, Goto
  <2>1. TypeOK'
    BY <1>2 DEF IInv, TypeOK, DbTypeOK, ServiceTypeOK, Labels
  <2>2. RequestShape'
    BY <1>2 DEF IInv, TypeOK, ServiceTypeOK, RequestShape, InPost, InDelete, Slot
  <2>3. Exclusive' /\ WritesFit' /\ CommitIsWhole' /\ SessionShape'
    BY <1>2 DEF IInv, Exclusive, WritesFit, CommitIsWhole, SessionShape, Held, Existing, Stored
  <2>4. handled[p] = << >>
    BY DEF IInv, LoopShape
  <2>5. Serving'
    <3>1. tx[s] = [Blank("open", p) EXCEPT !.lock = AdvisoryKey[Slot(p)]]
      BY DEF IInv, Serving, ServingAt
    <3>2. Existing(Slot(p))' = {}
      BY <1>2 DEF Existing, Slot
    <3>3. Range(handled[p])' = {}
      BY <1>2, <2>4 DEF Range
    <3>4. ServingAt(p, s)'
      BY <1>2, <3>1, <3>2, <3>3 DEF IInv, TypeOK, ServiceTypeOK, ServingAt, Slot, Blank
    <3>5. \A q \in Procs \ {p} : UNCHANGED <<pc[q], req[q], handled[q]>>
      BY <1>2 DEF IInv, TypeOK, ServiceTypeOK
    <3> QED BY <1>2, <3>4, <3>5, ServingStatement
  <2>6. LoopShape'
    <3>1. Len(handled[p]) = 0 /\ Len(Dataset[req[p].digest]) \in Nat
      BY <2>4, DatabaseAssumption DEF IInv, RequestShape, InPost
    <3> QED BY <1>2, <3>1 DEF IInv, TypeOK, ServiceTypeOK, LoopShape, Stored
  <2>7. StoredShape' /\ OneGenerationPerKey' /\ RowsHaveEvidence' /\ LedgerIsDataset'
    BY <1>2 DEF IInv, StoredShape, OneGenerationPerKey, RowsHaveEvidence, LedgerIsDataset, Stored
  <2> QED BY <2>1, <2>2, <2>3, <2>5, <2>6, <2>7 DEF IInv
<1> QED BY <1>1, <1>2 DEF Recheck

\* What Append does to the length, the elements and the range of a sequence.
LEMMA AppendRange ==
  ASSUME NEW q \in Seq(RowIds), NEW r \in RowIds
  PROVE  /\ Append(q, r) \in Seq(RowIds)
         /\ Len(Append(q, r)) = Len(q) + 1
         /\ \A i \in 1 .. Len(q) : Append(q, r)[i] = q[i]
         /\ Append(q, r)[Len(q) + 1] = r
         /\ Range(Append(q, r)) = Range(q) \cup {r}
BY DEF Range

\* One INSERT keeps the invariant: the row is new, nobody else holds it, and its
\* parent is not being deleted.
LEMMA InsertRowInv ==
  ASSUME IInv, NEW p \in Procs, NEW s \in Sessions, tx[s].client = p, InsertRow(p, s)
  PROVE  IInv'
<1> DEFINE r == ToInsert(p)
<1>1. req[p].op = "post" /\ Slot(p) \in Slots /\ req[p].digest \in Digests
      /\ handled[p] \in Seq(RowIds) /\ Dataset[req[p].digest] \in Seq(RowIds)
      /\ tx[s] \in Session
  BY DatabaseAssumption DEF IInv, TypeOK, DbTypeOK, ServiceTypeOK, RequestShape, InPost, Slot, Slots, InsertRow
<1>2. r \in RowIds /\ r = Dataset[req[p].digest][Len(handled[p]) + 1]
  BY <1>1 DEF InsertRow, ToInsert
<1>3. CASE InsertOutcome(s, r) = "ok"
  <2> DEFINE new == [tx[s] EXCEPT !.ins = tx[s].ins \cup {r}]
  <2>1. /\ tx' = [tx EXCEPT ![s] = new]
        /\ handled' = [handled EXCEPT ![p] = Append(handled[p], r)]
        /\ UNCHANGED <<generations, generation_rows, rows, access,
                       pc, req, attempt, answer, issued>>
        /\ InsertBlockers(s, r) = {}
        /\ Len(handled[p]) < Len(Dataset[req[p].digest])
        /\ pc[p] = "insert"
    BY <1>3 DEF InsertRow
  <2>2. rows[r] = None
    <3>1. rows[r] # None => Sees(s, r)
      <4>1. tx[s].del = {}
        BY <2>1 DEF IInv, Serving, ServingAt
      <4> QED BY <4>1 DEF Sees
    <3> QED BY <1>3, <3>1, <1>2 DEF InsertOutcome
  <2>3. \A t \in Sessions \ {s} : r \notin Held(t)
    BY <2>1 DEF InsertBlockers, Others
  <2> HIDE DEF r
  <2>4. /\ new \in Session /\ new.client = p /\ new.lock = tx[s].lock /\ new.upd = tx[s].upd
        /\ new.del = tx[s].del /\ new.ins = tx[s].ins \cup {r} /\ new.st = tx[s].st
        /\ new.new = tx[s].new /\ new.slot = tx[s].slot
    BY <1>1, <1>2 DEF Session
  <2>5. tx[s].st = "open" /\ tx[s].upd = None /\ tx[s].del = {} /\ tx[s].ins = Range(handled[p])
        /\ tx[s].lock = AdvisoryKey[Slot(p)] /\ Existing(Slot(p)) = {} /\ tx[s].new = None
    BY <2>1 DEF IInv, Serving, ServingAt, SessionShape
  <2> HIDE DEF new
  <2>6. tx'[s] = new /\ (\A t \in Sessions \ {s} : tx'[t] = tx[t]) /\ tx' \in [Sessions -> Session]
    BY <2>1, <2>4 DEF IInv, TypeOK, DbTypeOK
  <2>7. handled' \in [Procs -> Seq(RowIds)] /\ handled'[p] = Append(handled[p], r)
        /\ \A q \in Procs \ {p} : handled'[q] = handled[q]
    BY <1>1, <1>2, <2>1 DEF IInv, TypeOK, ServiceTypeOK
  <2>8. TypeOK'
    BY <2>1, <2>6, <2>7 DEF IInv, TypeOK, DbTypeOK, ServiceTypeOK
  <2>9. RequestShape'
    BY <2>1 DEF IInv, RequestShape, Slot
  <2>10. Exclusive'
    BY <2>3, <2>4, <2>5, <2>6 DEF IInv, Exclusive, Held
  <2>11. WritesFit'
    <3> SUFFICES ASSUME NEW t \in Sessions PROVE WritesFit!(t)'
      BY DEF WritesFit
    <3>1. CASE t = s
      BY <2>1, <2>2, <2>4, <2>5, <2>6, <3>1 DEF IInv, WritesFit
    <3>2. CASE t # s
      <4>1. Parent[r] \notin tx[t].del
        BY <2>1, <3>2 DEF InsertBlockers, Others
      <4>2. tx'[t] = tx[t] /\ WritesFit!(t)
        BY <2>6, <3>2 DEF IInv, WritesFit
      <4>3. \A q \in tx[t].del, c \in RowIds : Parent[c] = q =>
               \A u \in Sessions \ {t} : c \notin tx'[u].ins
        BY <2>4, <2>6, <4>1, <4>2
      <4> QED BY <2>1, <4>2, <4>3
    <3> QED BY <3>1, <3>2
  <2>111. SessionShape'
    BY <2>4, <2>5, <2>6 DEF IInv, SessionShape
  <2>12. CommitIsWhole'
    BY <2>1, <2>4, <2>5, <2>6 DEF IInv, CommitIsWhole, Existing
  <2>13. Serving'
    <3>1. Slot(p)' = Slot(p) /\ Existing(Slot(p))' = {}
      BY <2>1, <2>5 DEF Slot, Existing
    <3>2. Range(handled[p])' = Range(handled[p]) \cup {r}
      BY <1>1, <1>2, <2>7, AppendRange
    <3>3. ServingAt(p, s)'
      BY <2>1, <2>4, <2>5, <2>6, <3>1, <3>2 DEF ServingAt
    <3>4. \A q \in Procs \ {p} : UNCHANGED <<pc[q], req[q], handled[q]>>
      BY <2>1, <2>7
    <3> QED BY <2>1, <2>4, <2>6, <3>3, <3>4, ServingStatement
  <2>14. LoopShape'
    <3> SUFFICES ASSUME NEW q \in Procs PROVE LoopShape!(q)'
      BY DEF LoopShape
    <3>1. CASE q = p
      <4>1. \A i \in 1 .. Len(handled[p]) : handled[p][i] = Dataset[req[p].digest][i]
        BY <2>1 DEF IInv, LoopShape
      <4>2. Len(handled[p]) \in Nat /\ Len(Dataset[req[p].digest]) \in Nat
        BY <1>1
      <4>3. \A i \in 1 .. Len(handled'[p]) : handled'[p][i] = Dataset[req[p].digest][i]
        <5>1. /\ Len(handled'[p]) = Len(handled[p]) + 1
              /\ \A i \in 1 .. Len(handled[p]) : handled'[p][i] = handled[p][i]
              /\ handled'[p][Len(handled[p]) + 1] = Dataset[req[p].digest][Len(handled[p]) + 1]
          BY <1>1, <1>2, <2>7, AppendRange
        <5> SUFFICES ASSUME NEW i \in 1 .. Len(handled'[p])
                     PROVE  handled'[p][i] = Dataset[req[p].digest][i]
          OBVIOUS
        <5>2. i \in 1 .. Len(handled[p]) \/ i = Len(handled[p]) + 1
          BY <4>2, <5>1
        <5> QED BY <4>1, <5>1, <5>2
      <4>4. Len(handled'[p]) <= Len(Dataset[req[p].digest])
        BY <1>1, <1>2, <2>1, <2>7, <4>2, AppendRange
      <4> QED BY <2>1, <3>1, <4>3, <4>4
    <3>2. CASE q # p
      <4>1. handled'[q] = handled[q]
        BY <2>7, <3>2
      <4>2. UNCHANGED <<pc, req, generations, generation_rows>>
        BY <2>1
      <4>3. LoopShape!(q)
        BY DEF IInv, LoopShape
      <4> QED BY <4>1, <4>2, <4>3 DEF Stored
    <3> QED BY <3>1, <3>2
  <2>15. StoredShape' /\ OneGenerationPerKey' /\ RowsHaveEvidence' /\ LedgerIsDataset'
    BY <2>1 DEF IInv, StoredShape, OneGenerationPerKey, RowsHaveEvidence, LedgerIsDataset, Stored
  <2> QED BY <2>8, <2>9, <2>10, <2>11, <2>111, <2>12, <2>13, <2>14, <2>15 DEF IInv
<1>4. CASE InsertOutcome(s, r) # "ok"
  <2>1. InsertOutcome(s, r) \in ErrorCode
    BY <1>2, <1>4 DEF InsertOutcome, ErrorCode, IInv, TypeOK, DbTypeOK, Access
  <2>2. ReplyAndClose(p, s, Refused(InsertOutcome(s, r)))
    BY <1>4 DEF InsertRow
  <2> QED BY <2>1, <2>2, RefusedType, ReplyAndCloseInv
<1> QED BY <1>3, <1>4

\* Sequences of the same length and elements are the same.
LEMMA SameElements ==
  ASSUME NEW a \in Seq(RowIds), NEW b \in Seq(RowIds), Len(a) = Len(b),
         \A i \in 1 .. Len(a) : a[i] = b[i]
  PROVE  a = b
OBVIOUS

\* A session stays well typed when the evidence is written.
LEMMA EvidenceType ==
  ASSUME NEW w \in Session, NEW g \in GenIds, NEW slot \in Slots, NEW d \in Digests,
         NEW ledger \in Seq(RowIds)
  PROVE  [w EXCEPT !.st = "commit", !.new = g, !.slot = slot,
                   !.digest = d, !.ledger = ledger] \in Session
BY DEF Session

\* Sending COMMIT of a generation keeps the invariant: the dataset is complete.
LEMMA WriteEvidenceInv ==
  ASSUME IInv, NEW p \in Procs, NEW s \in Sessions, tx[s].client = p, WriteEvidence(p, s)
  PROVE  IInv'
<1> DEFINE new == [tx[s] EXCEPT !.st = "commit", !.new = req[p].gen, !.slot = Slot(p),
                                !.digest = req[p].digest, !.ledger = handled[p]]
<1>1. /\ req[p].op = "post" /\ Slot(p) \in Slots /\ req[p].digest \in Digests
      /\ req[p].gen \in GenIds /\ issued[req[p].gen] = Slot(p)
      /\ handled[p] \in Seq(RowIds) /\ Dataset[req[p].digest] \in Seq(RowIds)
      /\ tx[s] \in Session
  BY DatabaseAssumption DEF IInv, TypeOK, DbTypeOK, ServiceTypeOK, RequestShape, InPost, Slot, Slots, WriteEvidence
<1>2. tx[s].st = "open" /\ tx[s].upd = None /\ tx[s].del = {} /\ tx[s].ins = Range(handled[p])
      /\ tx[s].lock = AdvisoryKey[Slot(p)] /\ Existing(Slot(p)) = {} /\ tx[s].new = None
  BY DEF IInv, Serving, ServingAt, SessionShape, WriteEvidence
<1>3. /\ tx' = [tx EXCEPT ![s] = new]
      /\ pc' = [pc EXCEPT ![p] = "commit"]
      /\ UNCHANGED <<generations, generation_rows, rows, access,
                     req, attempt, handled, answer, issued>>
      /\ pc[p] = "insert" /\ Len(handled[p]) = Len(Dataset[req[p].digest])
  BY <1>2 DEF WriteEvidence, Goto
<1>4. handled[p] = Dataset[req[p].digest]
  BY <1>1, <1>3, SameElements DEF IInv, LoopShape
<1>5. /\ new \in Session /\ new.client = p /\ new.lock = tx[s].lock /\ new.upd = tx[s].upd
      /\ new.del = tx[s].del /\ new.ins = tx[s].ins /\ new.st = "commit"
      /\ new.new = req[p].gen /\ new.slot = Slot(p) /\ new.digest = req[p].digest
      /\ new.ledger = handled[p]
  <2>1. /\ new.client = p /\ new.lock = tx[s].lock /\ new.upd = tx[s].upd
        /\ new.del = tx[s].del /\ new.ins = tx[s].ins /\ new.st = "commit"
        /\ new.new = req[p].gen /\ new.slot = Slot(p) /\ new.digest = req[p].digest
        /\ new.ledger = handled[p]
    BY <1>1 DEF Session
  <2>2. new \in Session
    BY <1>1, EvidenceType
  <2> QED BY <2>1, <2>2
<1> HIDE DEF new
<1>6. tx'[s] = new /\ (\A t \in Sessions \ {s} : tx'[t] = tx[t]) /\ tx' \in [Sessions -> Session]
  BY <1>3, <1>5 DEF IInv, TypeOK, DbTypeOK
<1>7. TypeOK'
  BY <1>3, <1>6 DEF IInv, TypeOK, DbTypeOK, ServiceTypeOK, Labels
<1>8. RequestShape'
  BY <1>1, <1>3 DEF IInv, TypeOK, ServiceTypeOK, RequestShape, InPost, InDelete, Slot
<1>9. Exclusive'
  BY <1>5, <1>6 DEF IInv, Exclusive, Held
<1>10. WritesFit' /\ SessionShape'
  BY <1>3, <1>5, <1>6 DEF IInv, WritesFit, SessionShape
<1>11. CommitIsWhole'
  <2> SUFFICES ASSUME NEW t \in Sessions PROVE CommitIsWhole!(t)'
    BY DEF CommitIsWhole
  <2>1. CASE t = s
    <3>1. Existing(tx[s].slot)' = {}
      BY <1>2, <1>3, <1>5, <1>6 DEF Existing
    <3>2. tx'[s].ins = Range(tx[s].ledger)'
      BY <1>2, <1>5, <1>6 DEF Range
    <3> QED BY <1>1, <1>2, <1>3, <1>4, <1>5, <1>6, <2>1, <3>1, <3>2
  <2>2. CASE t # s
    BY <1>3, <1>6, <2>2 DEF IInv, CommitIsWhole, Existing
  <2> QED BY <2>1, <2>2
<1>12. Serving'
  <2>1. ServingAt(p, s)'
    BY <1>3, <1>5, <1>6 DEF IInv, TypeOK, ServiceTypeOK, ServingAt
  <2>2. \A q \in Procs \ {p} : UNCHANGED <<pc[q], req[q], handled[q]>>
    BY <1>3 DEF IInv, TypeOK, ServiceTypeOK
  <2> QED BY <1>3, <1>5, <1>6, <2>1, <2>2, ServingStatement
<1>13. LoopShape'
  BY <1>3 DEF IInv, TypeOK, ServiceTypeOK, LoopShape, Stored
<1>14. StoredShape' /\ OneGenerationPerKey' /\ RowsHaveEvidence' /\ LedgerIsDataset'
  BY <1>3 DEF IInv, StoredShape, OneGenerationPerKey, RowsHaveEvidence, LedgerIsDataset, Stored
<1> QED BY <1>7, <1>8, <1>9, <1>10, <1>11, <1>12, <1>13, <1>14 DEF IInv

\* SELECT ... FOR UPDATE of delete() keeps the invariant.
LEMMA SelectForUpdateInv ==
  ASSUME IInv, NEW p \in Procs, NEW s \in Sessions, tx[s].client = p, SelectForUpdate(p, s)
  PROVE  IInv'
<1>1. req[p].gen \in GenIds /\ pc[p] = "select" /\ tx[s] = Blank("open", p)
  BY DEF IInv, RequestShape, InDelete, Serving, ServingAt, SelectForUpdate
<1>2. CASE \E a \in Answer : ReplyAndClose(p, s, a)
  BY <1>2, ReplyAndCloseInv
<1>3. CASE ~ \E a \in Answer : ReplyAndClose(p, s, a)
  <2> DEFINE new == [Blank("open", p) EXCEPT !.upd = req[p].gen]
  <2>1. Refused("GENERATION_NOT_FOUND") \in Answer /\ Found(p) \in Answer
    BY <1>1, RefusedType DEF ErrorCode, Found, Answer, Success, IInv, TypeOK, DbTypeOK, GenerationRow
  <2>2. /\ Visible(p) /\ generations[req[p].gen].state = "COMMITTED"
        /\ \A t \in Others(s) : tx[t].upd # req[p].gen
        /\ tx' = [tx EXCEPT ![s].upd = req[p].gen]
        /\ pc' = [pc EXCEPT ![p] = "delete"]
        /\ UNCHANGED <<generations, generation_rows, rows, access,
                       req, attempt, handled, answer, issued>>
    BY <1>3, <2>1 DEF SelectForUpdate, Goto
  <2>3. new \in Session
    <3>1. Blank("open", p) \in Session
      BY BlankType
    <3> QED BY <1>1, <3>1 DEF Session
  <2>4. tx' = [tx EXCEPT ![s] = new]
    BY <1>1, <2>2
  <2>5. /\ new.st = "open" /\ new.client = p /\ new.lock = None /\ new.upd = req[p].gen
        /\ new.new = None /\ new.ins = {} /\ new.del = {}
    BY DEF Blank
  <2> HIDE DEF new
  <2>6. tx'[s] = new /\ (\A t \in Sessions \ {s} : tx'[t] = tx[t]) /\ tx' \in [Sessions -> Session]
    BY <2>3, <2>4 DEF IInv, TypeOK, DbTypeOK
  <2>7. handled[p] = << >>
    BY <1>1 DEF IInv, LoopShape
  <2>8. TypeOK'
    BY <2>2, <2>6 DEF IInv, TypeOK, DbTypeOK, ServiceTypeOK, Labels
  <2>9. RequestShape'
    BY <1>1, <2>2 DEF IInv, TypeOK, ServiceTypeOK, RequestShape, InPost, InDelete, Slot
  <2>10. Exclusive'
    BY <1>1, <2>2, <2>5, <2>6, DatabaseAssumption DEF IInv, Exclusive, Held, Blank, Others
  <2>11. WritesFit' /\ SessionShape'
    <3>1. WritesFit'
      <4> SUFFICES ASSUME NEW t \in Sessions PROVE WritesFit!(t)'
        BY DEF WritesFit
      <4>1. CASE t = s
        BY <2>2, <2>5, <2>6, <4>1
      <4>2. CASE t # s
        BY <2>2, <2>5, <2>6, <4>2 DEF IInv, WritesFit
      <4> QED BY <4>1, <4>2
    <3>2. SessionShape'
      BY <2>5, <2>6 DEF IInv, SessionShape
    <3> QED BY <3>1, <3>2
  <2>12. CommitIsWhole'
    <3> SUFFICES ASSUME NEW t \in Sessions, tx'[t].st = "commit" PROVE CommitIsWhole!(t)'
      BY DEF CommitIsWhole
    <3>1. tx'[t] = tx[t]
      BY <2>5, <2>6
    <3> QED BY <2>2, <3>1 DEF IInv, CommitIsWhole, Existing
  <2>13. Serving'
    <3>1. Range(handled[p])' = {}
      BY <2>2, <2>7 DEF Range
    <3>2. ServingAt(p, s)'
      BY <2>2, <2>5, <2>6, <3>1 DEF IInv, TypeOK, ServiceTypeOK, ServingAt
    <3>3. \A q \in Procs \ {p} : UNCHANGED <<pc[q], req[q], handled[q]>>
      BY <2>2 DEF IInv, TypeOK, ServiceTypeOK
    <3> QED BY <2>2, <2>5, <2>6, <3>2, <3>3, ServingStatement
  <2>14. LoopShape'
    <3>1. Len(handled[p]) = 0 /\ Len(generation_rows[req[p].gen]) \in Nat
      BY <1>1, <2>7 DEF IInv, TypeOK, DbTypeOK
    <3> QED BY <2>2, <2>7, <3>1 DEF IInv, TypeOK, ServiceTypeOK, LoopShape, Stored
  <2>15. StoredShape' /\ OneGenerationPerKey' /\ RowsHaveEvidence' /\ LedgerIsDataset'
    BY <2>2 DEF IInv, StoredShape, OneGenerationPerKey, RowsHaveEvidence, LedgerIsDataset, Stored
  <2> QED BY <2>8, <2>9, <2>10, <2>11, <2>12, <2>13, <2>14, <2>15 DEF IInv
<1> QED BY <1>2, <1>3

\* The index of the ledger's rest, counted from its end, is one of the ledger.
LEMMA Countdown ==
  ASSUME NEW m \in Nat, NEW n \in Nat, n < m
  PROVE  m - n \in 1 .. m
OBVIOUS

\* One DELETE of a ledger row keeps the invariant: the row is there, and no row
\* that refers to it is, or is on its way.
LEMMA DeleteRowInv ==
  ASSUME IInv, NEW p \in Procs, NEW s \in Sessions, tx[s].client = p, DeleteRow(p, s)
  PROVE  IInv'
<1> DEFINE written == generation_rows[req[p].gen]
           r == ToDelete(p)
<1>1. req[p].gen \in GenIds /\ handled[p] \in Seq(RowIds) /\ written \in Seq(RowIds)
      /\ tx[s] \in Session
  BY DEF IInv, TypeOK, DbTypeOK, ServiceTypeOK, RequestShape, InDelete, DeleteRow
<1>2. r \in RowIds /\ r = written[Len(written) - Len(handled[p])]
  <2>1. Len(handled[p]) \in Nat /\ Len(written) \in Nat /\ Len(handled[p]) < Len(written)
    BY <1>1 DEF DeleteRow
  <2>3. Len(written) - Len(handled[p]) \in 1 .. Len(written)
    BY <2>1, Countdown
  <2>4. r = written[Len(written) - Len(handled[p])]
    BY DEF ToDelete
  <2> HIDE DEF r, written
  <2> QED BY <1>1, <2>3, <2>4
<1>3. CASE DeleteOutcome(s, r) = "ok"
  <2> DEFINE new == [tx[s] EXCEPT !.del = tx[s].del \cup {r}]
  <2>1. /\ tx' = [tx EXCEPT ![s] = new]
        /\ handled' = [handled EXCEPT ![p] = Append(handled[p], r)]
        /\ UNCHANGED <<generations, generation_rows, rows, access,
                       pc, req, attempt, answer, issued>>
        /\ DeleteBlockers(s, r) = {}
        /\ Len(handled[p]) < Len(written)
        /\ pc[p] = "delete"
    BY <1>3 DEF DeleteRow
  <2>2. /\ tx[s].st = "open" /\ tx[s].upd = req[p].gen /\ tx[s].lock = None
        /\ tx[s].ins = {} /\ tx[s].del = Range(handled[p]) /\ tx[s].new = None
    BY <2>1 DEF IInv, Serving, ServingAt, SessionShape
  <2>3. rows[r] # None
    BY <1>3, <2>2 DEF DeleteOutcome, Sees
  <2>4. \A t \in Sessions \ {s} : r \notin Held(t)
    BY <2>1, <2>3 DEF DeleteBlockers, Others, IInv, WritesFit, Held
  <2>41. \A c \in Children(r) : /\ rows[c] = None \/ c \in tx[s].del
                                /\ \A t \in Sessions \ {s} : c \notin tx[t].ins
    BY <1>3, <2>1, <2>2, <2>3
    DEF DeleteOutcome, Sees, DeleteBlockers, Others, Children, Held
  <2> HIDE DEF r, written
  <2>5. /\ new \in Session /\ new.client = p /\ new.lock = tx[s].lock /\ new.upd = tx[s].upd
        /\ new.ins = tx[s].ins /\ new.del = tx[s].del \cup {r} /\ new.st = tx[s].st
        /\ new.new = tx[s].new
    BY <1>1, <1>2 DEF Session
  <2> HIDE DEF new
  <2>6. tx'[s] = new /\ (\A t \in Sessions \ {s} : tx'[t] = tx[t]) /\ tx' \in [Sessions -> Session]
    BY <2>1, <2>5 DEF IInv, TypeOK, DbTypeOK
  <2>7. handled' \in [Procs -> Seq(RowIds)] /\ handled'[p] = Append(handled[p], r)
        /\ \A q \in Procs \ {p} : handled'[q] = handled[q]
    BY <1>1, <1>2, <2>1 DEF IInv, TypeOK, ServiceTypeOK
  <2>8. TypeOK'
    BY <2>1, <2>6, <2>7 DEF IInv, TypeOK, DbTypeOK, ServiceTypeOK
  <2>9. RequestShape'
    BY <2>1 DEF IInv, RequestShape, Slot
  <2>10. Exclusive'
    BY <2>4, <2>5, <2>6 DEF IInv, Exclusive, Held
  <2>11. WritesFit' /\ SessionShape'
    <3>1. WritesFit'
      <4> SUFFICES ASSUME NEW t \in Sessions PROVE WritesFit!(t)'
        BY DEF WritesFit
      <4>1. CASE t = s
        BY <2>1, <2>2, <2>3, <2>41, <2>5, <2>6, <4>1 DEF IInv, WritesFit, Children
      <4>2. CASE t # s
        BY <2>1, <2>2, <2>5, <2>6, <4>2 DEF IInv, WritesFit
      <4> QED BY <4>1, <4>2
    <3>2. SessionShape'
      BY <2>2, <2>5, <2>6 DEF IInv, SessionShape
    <3> QED BY <3>1, <3>2
  <2>12. CommitIsWhole'
    <3> SUFFICES ASSUME NEW t \in Sessions, tx'[t].st = "commit" PROVE CommitIsWhole!(t)'
      BY DEF CommitIsWhole
    <3>1. tx'[t] = tx[t]
      BY <2>2, <2>5, <2>6
    <3> QED BY <2>1, <3>1 DEF IInv, CommitIsWhole, Existing
  <2>13. Serving'
    <3>1. Range(handled[p])' = Range(handled[p]) \cup {r}
      BY <1>1, <1>2, <2>7, AppendRange
    <3>2. ServingAt(p, s)'
      BY <2>1, <2>2, <2>5, <2>6, <3>1 DEF ServingAt
    <3>3. \A q \in Procs \ {p} : UNCHANGED <<pc[q], req[q], handled[q]>>
      BY <2>1, <2>7
    <3> QED BY <2>1, <2>5, <2>6, <3>2, <3>3, ServingStatement
  <2>14. LoopShape'
    <3> SUFFICES ASSUME NEW q \in Procs PROVE LoopShape!(q)'
      BY DEF LoopShape
    <3>1. CASE q = p
      <4>1. Stored(req[p].gen) /\
            \A i \in 1 .. Len(handled[p]) : handled[p][i] = written[Len(written) + 1 - i]
        BY <2>1 DEF IInv, LoopShape, written
      <4>2. Len(handled[p]) \in Nat /\ Len(written) \in Nat
        BY <1>1
      <4>3. \A i \in 1 .. Len(handled'[p]) : handled'[p][i] = written[Len(written) + 1 - i]
        <5>1. /\ Len(handled'[p]) = Len(handled[p]) + 1
              /\ \A i \in 1 .. Len(handled[p]) : handled'[p][i] = handled[p][i]
              /\ handled'[p][Len(handled[p]) + 1] = written[Len(written) - Len(handled[p])]
          BY <1>1, <1>2, <2>7, AppendRange
        <5>2. \A i \in 1 .. Len(handled'[p]) :
                 i \in 1 .. Len(handled[p]) \/ i = Len(handled[p]) + 1
          BY <4>2, <5>1
        <5>3. Len(written) + 1 - (Len(handled[p]) + 1) = Len(written) - Len(handled[p])
          BY <4>2
        <5> QED BY <4>1, <5>1, <5>2, <5>3
      <4>4. Len(handled'[p]) <= Len(written)
        BY <1>1, <1>2, <2>1, <2>7, <4>2, AppendRange
      <4> QED BY <2>1, <3>1, <4>1, <4>3, <4>4 DEF written, Stored
    <3>2. CASE q # p
      <4>1. handled'[q] = handled[q] /\ UNCHANGED <<pc, req, generations, generation_rows>>
        BY <2>1, <2>7, <3>2
      <4>2. LoopShape!(q)
        BY DEF IInv, LoopShape
      <4> QED BY <4>1, <4>2 DEF Stored
    <3> QED BY <3>1, <3>2
  <2>15. StoredShape' /\ OneGenerationPerKey' /\ RowsHaveEvidence' /\ LedgerIsDataset'
    BY <2>1 DEF IInv, StoredShape, OneGenerationPerKey, RowsHaveEvidence, LedgerIsDataset, Stored
  <2> QED BY <2>8, <2>9, <2>10, <2>11, <2>12, <2>13, <2>14, <2>15 DEF IInv
<1>4. CASE DeleteOutcome(s, r) # "ok"
  <2>1. DeleteOutcome(s, r) \in ErrorCode
    BY <1>2, <1>4 DEF DeleteOutcome, ErrorCode
  <2>2. ReplyAndClose(p, s, Refused(DeleteOutcome(s, r)))
    BY <1>4 DEF DeleteRow
  <2> QED BY <2>1, <2>2, RefusedType, ReplyAndCloseInv
<1> QED BY <1>3, <1>4

\* A sequence and its reverse have the same elements.
LEMMA ReversedRange ==
  ASSUME NEW a \in Seq(RowIds), NEW b \in Seq(RowIds), Len(a) = Len(b),
         \A i \in 1 .. Len(a) : a[i] = b[Len(b) + 1 - i]
  PROVE  Range(a) = Range(b)
<1>1. \A i \in 1 .. Len(b) : b[i] = a[Len(b) + 1 - i] /\ Len(b) + 1 - i \in 1 .. Len(a)
  <2> TAKE i \in 1 .. Len(b)
  <2>1. Len(b) + 1 - i \in 1 .. Len(a) /\ Len(b) + 1 - (Len(b) + 1 - i) = i
    OBVIOUS
  <2> QED BY <2>1
<1>2. Range(a) \subseteq Range(b)
  <2>1. \A i \in 1 .. Len(a) : Len(b) + 1 - i \in 1 .. Len(b)
    OBVIOUS
  <2>2. \A i \in 1 .. Len(a) : a[i] \in Range(b)
    <3> TAKE i \in 1 .. Len(a)
    <3> DEFINE j == Len(b) + 1 - i
    <3>1. j \in DOMAIN b /\ a[i] = b[j]
      BY <2>1
    <3> QED BY <3>1 DEF Range
  <2>3. \A x \in Range(a) : \E i \in 1 .. Len(a) : x = a[i]
    BY DEF Range
  <2> QED BY <2>2, <2>3
<1>3. Range(b) \subseteq Range(a)
  BY <1>1 DEF Range
<1> QED BY <1>2, <1>3

\* Sending COMMIT of a deletion keeps the invariant: the whole ledger is deleted.
LEMMA MarkDeletedInv ==
  ASSUME IInv, NEW p \in Procs, NEW s \in Sessions, tx[s].client = p, MarkDeleted(p, s)
  PROVE  IInv'
<1> DEFINE new == [tx[s] EXCEPT !.st = "commit"]
<1>1. req[p].op = "delete" /\ req[p].gen \in GenIds /\ handled[p] \in Seq(RowIds)
      /\ generation_rows[req[p].gen] \in Seq(RowIds) /\ tx[s] \in Session
  BY DEF IInv, TypeOK, DbTypeOK, ServiceTypeOK, RequestShape, InDelete, MarkDeleted
<1>2. /\ tx[s].st = "open" /\ tx[s].upd = req[p].gen /\ tx[s].lock = None
      /\ tx[s].ins = {} /\ tx[s].del = Range(handled[p]) /\ tx[s].new = None
  BY DEF IInv, Serving, ServingAt, SessionShape, MarkDeleted
<1>3. /\ tx' = [tx EXCEPT ![s] = new]
      /\ pc' = [pc EXCEPT ![p] = "commit"]
      /\ UNCHANGED <<generations, generation_rows, rows, access,
                     req, attempt, handled, answer, issued>>
      /\ pc[p] = "delete" /\ Len(handled[p]) = Len(generation_rows[req[p].gen])
  BY DEF MarkDeleted, Goto
<1>4. Range(handled[p]) = Range(generation_rows[req[p].gen])
  BY <1>1, <1>3, ReversedRange DEF IInv, LoopShape
<1>5. /\ new \in Session /\ new.client = p /\ new.lock = tx[s].lock /\ new.upd = tx[s].upd
      /\ new.del = tx[s].del /\ new.ins = tx[s].ins /\ new.st = "commit"
      /\ new.new = None
  BY <1>1, <1>2 DEF Session
<1> HIDE DEF new
<1>6. tx'[s] = new /\ (\A t \in Sessions \ {s} : tx'[t] = tx[t]) /\ tx' \in [Sessions -> Session]
  BY <1>3, <1>5 DEF IInv, TypeOK, DbTypeOK
<1>7. TypeOK'
  BY <1>3, <1>6 DEF IInv, TypeOK, DbTypeOK, ServiceTypeOK, Labels
<1>8. RequestShape'
  BY <1>1, <1>3 DEF IInv, TypeOK, ServiceTypeOK, RequestShape, InPost, InDelete, Slot
<1>9. Exclusive'
  BY <1>5, <1>6 DEF IInv, Exclusive, Held
<1>10. WritesFit' /\ SessionShape'
  BY <1>3, <1>5, <1>6 DEF IInv, WritesFit, SessionShape
<1>11. CommitIsWhole'
  <2> SUFFICES ASSUME NEW t \in Sessions, tx'[t].st = "commit" PROVE CommitIsWhole!(t)'
    BY DEF CommitIsWhole
  <2>1. CASE t = s
    <3>1. Range(generation_rows[tx[s].upd])' = Range(generation_rows[req[p].gen])
      BY <1>2, <1>3, <1>5, <1>6 DEF Range
    <3> QED BY <1>1, <1>2, <1>4, <1>5, <1>6, <2>1, <3>1
  <2>2. CASE t # s
    BY <1>3, <1>6, <2>2 DEF IInv, CommitIsWhole, Existing
  <2> QED BY <2>1, <2>2
<1>12. Serving'
  <2>1. ServingAt(p, s)'
    BY <1>3, <1>5, <1>6 DEF IInv, TypeOK, ServiceTypeOK, ServingAt
  <2>2. \A q \in Procs \ {p} : UNCHANGED <<pc[q], req[q], handled[q]>>
    BY <1>3 DEF IInv, TypeOK, ServiceTypeOK
  <2> QED BY <1>3, <1>5, <1>6, <2>1, <2>2, ServingStatement
<1>13. LoopShape'
  BY <1>3 DEF IInv, TypeOK, ServiceTypeOK, LoopShape, Stored
<1>14. StoredShape' /\ OneGenerationPerKey' /\ RowsHaveEvidence' /\ LedgerIsDataset'
  BY <1>3 DEF IInv, StoredShape, OneGenerationPerKey, RowsHaveEvidence, LedgerIsDataset, Stored
<1> QED BY <1>7, <1>8, <1>9, <1>10, <1>11, <1>12, <1>13, <1>14 DEF IInv

\* The acknowledgement of COMMIT keeps the invariant.
LEMMA AckInv ==
  ASSUME IInv, NEW p \in Procs, NEW s \in Sessions, tx[s].client = p, Ack(p, s)
  PROVE  IInv'
<1>1. req[p].gen \in GenIds
  BY DEF IInv, RequestShape, Ack
<1>2. PICK a \in Answer : ReplyAndClose(p, s, a)
  BY <1>1 DEF Ack, Answer, Success
<1> QED BY <1>2, ReplyAndCloseInv

\* Process p has left its transaction for a label outside of any.
Left(p) ==
  /\ \E label \in {"idle", "find", "get", "connect"} :
        /\ pc' = [pc EXCEPT ![p] = label]
        /\ label = "find" => pc[p] = "find"
        /\ label = "get" => pc[p] = "get"
        /\ label = "connect" => pc[p] \notin {"idle", "find", "generate", "get"}
  /\ handled' = [handled EXCEPT ![p] = << >>]
  /\ attempt' \in [Procs -> 1 .. RetryAttempts]
  /\ answer' \in [Procs -> Answer]
  /\ UNCHANGED <<req, issued, generations, generation_rows, rows, access>>

\* If p has left its sessions and what the sessions hold still fits, the
\* invariant holds: nothing else is said of a session without a client.
LEMMA LeftInv ==
  ASSUME IInv, NEW p \in Procs, Left(p),
         tx' \in [Sessions -> Session],
         \A t \in Sessions : /\ tx'[t].client # p
                             /\ tx'[t].client # None => tx'[t] = tx[t],
         Exclusive', WritesFit', CommitIsWhole', SessionShape'
  PROVE  IInv'
<1> USE DEF Left
<1>1. TypeOK'
  BY DEF IInv, TypeOK, DbTypeOK, ServiceTypeOK, Labels
<1>2. RequestShape'
  <2> SUFFICES ASSUME NEW q \in Procs PROVE RequestShape!(q)'
    BY DEF RequestShape
  <2>1. RequestShape!(q) /\ Slot(q)' = Slot(q)
    BY DEF IInv, RequestShape, Slot
  <2>2. CASE q = p
    BY <2>1, <2>2 DEF IInv, TypeOK, ServiceTypeOK, Labels, InPost, InDelete
  <2>3. CASE q # p
    BY <2>1, <2>3 DEF IInv, TypeOK, ServiceTypeOK, InPost, InDelete
  <2> QED BY <2>2, <2>3
<1>3. Serving'
  <2> SUFFICES ASSUME NEW q \in Procs, NEW t \in Sessions, tx'[t].client = q
               PROVE  ServingAt(q, t)'
    BY DEF Serving
  <2>1. q # p /\ tx'[t] = tx[t]
    BY DatabaseAssumption
  <2>2. ServingAt(q, t)
    BY <2>1 DEF IInv, Serving
  <2>3. UNCHANGED <<pc[q], req[q], handled[q], tx[t]>>
    BY <2>1 DEF IInv, TypeOK, ServiceTypeOK
  <2>4. Existing(Slot(q))' = Existing(Slot(q))
    BY <2>3 DEF Existing, Slot
  <2> QED BY <2>2, <2>3, <2>4, ServingFrame
<1>4. LoopShape'
  BY DEF IInv, TypeOK, ServiceTypeOK, LoopShape, Stored
<1>5. StoredShape' /\ OneGenerationPerKey' /\ RowsHaveEvidence' /\ LedgerIsDataset'
  BY DEF IInv, StoredShape, OneGenerationPerKey, RowsHaveEvidence, LedgerIsDataset, Stored
<1> QED BY <1>1, <1>2, <1>3, <1>4, <1>5 DEF IInv

\* A retry, and the answer after the last attempt, leave p outside any session.
LEMMA RetryLeaves ==
  ASSUME IInv, NEW p \in Procs, pc[p] \notin {"idle", "generate"}, RetryOrGiveUp(p),
         UNCHANGED <<generations, generation_rows, rows, access>>
  PROVE  Left(p)
<1>1. attempt[p] \in 1 .. RetryAttempts /\ RetryAttempts \in 1 .. 10
  BY ServiceAssumption DEF IInv, TypeOK, ServiceTypeOK
<1>2. CASE attempt[p] < RetryAttempts /\ attempt' = [attempt EXCEPT ![p] = @ + 1]
           /\ Goto(p, IF pc[p] \in {"find", "get"} THEN pc[p] ELSE "connect")
           /\ handled' = [handled EXCEPT ![p] = << >>]
           /\ UNCHANGED <<req, answer, issued>>
  <2>1. attempt[p] + 1 \in 1 .. RetryAttempts
    BY <1>1, <1>2
  <2>2. attempt' \in [Procs -> 1 .. RetryAttempts]
    BY <1>2, <2>1 DEF IInv, TypeOK, ServiceTypeOK
  <2> QED BY <1>2, <2>2 DEF Left, Goto, IInv, TypeOK, ServiceTypeOK
<1>3. CASE Reply(p, Refused("DEPENDENCY_UNAVAILABLE"))
  <2>1. Refused("DEPENDENCY_UNAVAILABLE") \in Answer
    BY RefusedType DEF ErrorCode
  <2> QED BY <1>3, <2>1 DEF Left, Reply, Goto, IInv, TypeOK, ServiceTypeOK
<1> QED BY <1>2, <1>3 DEF RetryOrGiveUp

\* Losing the client of a session changes nothing the session holds.
LEMMA DetachedInv ==
  ASSUME IInv, NEW p \in Procs, tx' = Detached(p),
         UNCHANGED <<generations, generation_rows, rows, issued>>
  PROVE  /\ tx' \in [Sessions -> Session]
         /\ \A t \in Sessions : /\ tx'[t].client # p
                                /\ tx'[t].client # None => tx'[t] = tx[t]
         /\ Exclusive' /\ WritesFit' /\ CommitIsWhole' /\ SessionShape'
<1>1. ASSUME NEW t \in Sessions
      PROVE  \/ tx[t].client # p /\ tx'[t] = tx[t]
             \/ tx[t].client = p /\ tx[t].st = "done" /\ tx'[t] = Closed
             \/ /\ tx[t].client = p /\ tx[t].st # "done"
                /\ tx'[t] = [tx[t] EXCEPT !.client = None]
  BY DEF Detached
<1>2. ASSUME NEW t \in Sessions
      PROVE  /\ tx'[t] \in Session
             /\ tx'[t].client # p
             /\ tx'[t].client # None => tx'[t] = tx[t]
             /\ tx'[t].lock = tx[t].lock /\ tx'[t].upd = tx[t].upd
             /\ tx'[t].ins = tx[t].ins /\ tx'[t].del = tx[t].del
             /\ tx'[t].new = tx[t].new
             /\ tx[t].st # "done" \/ tx[t].client # p =>
                   /\ tx'[t].st = tx[t].st
                   /\ tx'[t].slot = tx[t].slot /\ tx'[t].digest = tx[t].digest
                   /\ tx'[t].ledger = tx[t].ledger
             /\ tx'[t].st = "closed" => tx'[t] = Closed
             /\ tx'[t].st = "done" => tx'[t] = tx[t]
             /\ tx'[t].st \in {"open", "commit"} => tx[t].st = tx'[t].st
  <2>1. tx[t] \in Session
    BY DEF IInv, TypeOK, DbTypeOK
  <2>2. CASE tx[t].client # p /\ tx'[t] = tx[t]
    BY <2>1, <2>2 DEF IInv, SessionShape
  <2>3. CASE tx[t].client = p /\ tx[t].st = "done" /\ tx'[t] = Closed
    <3>1. tx[t] = Blank("done", p)
      BY <2>3 DEF IInv, SessionShape
    <3> QED BY <2>3, <3>1, ClosedType, DatabaseAssumption DEF Closed, Blank
  <2>4. CASE /\ tx[t].client = p /\ tx[t].st # "done"
             /\ tx'[t] = [tx[t] EXCEPT !.client = None]
    <3>1. Closed.client = None /\ p # None
      BY DatabaseAssumption DEF Closed, Blank
    <3>2. tx[t].st # "closed"
      BY <2>4, <3>1 DEF IInv, SessionShape
    <3>3. /\ tx'[t] \in Session /\ tx'[t].client = None
          /\ tx'[t].lock = tx[t].lock /\ tx'[t].upd = tx[t].upd
          /\ tx'[t].ins = tx[t].ins /\ tx'[t].del = tx[t].del
          /\ tx'[t].new = tx[t].new /\ tx'[t].st = tx[t].st
          /\ tx'[t].slot = tx[t].slot /\ tx'[t].digest = tx[t].digest
          /\ tx'[t].ledger = tx[t].ledger
      BY <2>1, <2>4 DEF Session
    <3> QED BY <2>4, <3>1, <3>2, <3>3
  <2> QED BY <1>1, <2>2, <2>3, <2>4
<1>3. tx' \in [Sessions -> Session]
  BY <1>2 DEF Detached
<1>4. Exclusive'
  BY <1>2 DEF IInv, Exclusive, Held
<1>5. WritesFit'
  BY <1>2 DEF IInv, WritesFit
<1>6. CommitIsWhole'
  <2> SUFFICES ASSUME NEW t \in Sessions, tx'[t].st = "commit" PROVE CommitIsWhole!(t)'
    BY DEF CommitIsWhole
  <2>1. tx[t].st = "commit"
    BY <1>2
  <2>2. Existing(tx[t].slot)' = Existing(tx[t].slot) /\ Range(tx[t].ledger)' = Range(tx[t].ledger)
    BY <1>2, <2>1 DEF Existing
  <2> QED BY <1>2, <2>1, <2>2 DEF IInv, CommitIsWhole
<1>7. SessionShape'
  <2> SUFFICES ASSUME NEW t \in Sessions PROVE SessionShape!(t)'
    BY DEF SessionShape
  <2>1. tx'[t].st = "open" => tx[t].st = "open"
    BY <1>2
  <2> QED BY <1>2, <2>1 DEF IInv, SessionShape
<1> QED BY <1>2, <1>3, <1>4, <1>5, <1>6, <1>7

\* A lost connection, at any statement, keeps the invariant.
LEMMA ConnectionLostInv ==
  ASSUME IInv, NEW p \in Procs, ConnectionLost(p)
  PROVE  IInv'
<1>1. Left(p)
  BY RetryLeaves DEF ConnectionLost
<1> QED BY <1>1, DetachedInv, LeftInv DEF ConnectionLost, Left

\* So does the death of a process, at any statement.
LEMMA CrashInv ==
  ASSUME IInv, NEW p \in Procs, Crash(p)
  PROVE  IInv'
<1>1. Left(p)
  BY DEF Crash, Left, Goto, IInv, TypeOK, ServiceTypeOK
<1> QED BY <1>1, DetachedInv, LeftInv DEF Crash, Left

\* A session that is closed frees what it held.
LEMMA ClosingInv ==
  ASSUME IInv, NEW s \in Sessions, tx' = [tx EXCEPT ![s] = Closed],
         UNCHANGED <<generations, generation_rows, rows, issued>>
  PROVE  /\ tx' \in [Sessions -> Session]
         /\ Exclusive' /\ WritesFit' /\ CommitIsWhole' /\ SessionShape'
<1>1. tx' \in [Sessions -> Session] /\ tx'[s] = Closed
      /\ \A t \in Sessions \ {s} : tx'[t] = tx[t]
  BY ClosedType DEF IInv, TypeOK, DbTypeOK
<1>2. Exclusive' /\ WritesFit'
  BY <1>1, DatabaseAssumption DEF IInv, Exclusive, WritesFit, Held, Closed, Blank
<1>3. CommitIsWhole'
  <2> SUFFICES ASSUME NEW t \in Sessions, tx'[t].st = "commit" PROVE CommitIsWhole!(t)'
    BY DEF CommitIsWhole
  <2>1. tx'[t] = tx[t]
    BY <1>1 DEF Closed, Blank
  <2> QED BY <2>1 DEF IInv, CommitIsWhole, Existing
<1>4. SessionShape'
  BY <1>1 DEF IInv, SessionShape, Closed, Blank
<1> QED BY <1>1, <1>2, <1>3, <1>4

\* The victim of a deadlock keeps the invariant.
LEMMA DeadlockDetectedInv ==
  ASSUME IInv, NEW p \in Procs, NEW s \in Sessions, tx[s].client = p, DeadlockDetected(p, s)
  PROVE  IInv'
<1>1. pc[p] \notin {"idle", "generate"}
  BY DEF IInv, Serving, ServingAt
<1>2. Left(p)
  BY <1>1, RetryLeaves DEF DeadlockDetected
<1>3. \A t \in Sessions : /\ tx'[t].client # p
                          /\ tx'[t].client # None => tx'[t] = tx[t]
  BY DatabaseAssumption DEF DeadlockDetected, IInv, TypeOK, DbTypeOK, Exclusive, Closed, Blank
<1>4. /\ tx' \in [Sessions -> Session]
      /\ Exclusive' /\ WritesFit' /\ CommitIsWhole' /\ SessionShape'
  BY <1>2, ClosingInv DEF DeadlockDetected, Left
<1>5. UNCHANGED <<generations, generation_rows, rows, access>>
  BY DEF DeadlockDetected
<1> QED BY <1>2, <1>3, <1>4, <1>5, LeftInv

\* The server that rolls back an abandoned transaction keeps the invariant.
LEMMA ServerAbortInv ==
  ASSUME IInv, NEW s \in Sessions, ServerAbort(s), UNCHANGED serviceVars
  PROVE  IInv'
<1> USE DEF ServerAbort, serviceVars
<1>1. /\ tx' \in [Sessions -> Session]
      /\ Exclusive' /\ WritesFit' /\ CommitIsWhole' /\ SessionShape'
  BY ClosingInv
<1>2. TypeOK'
  BY <1>1 DEF IInv, TypeOK, DbTypeOK, ServiceTypeOK
<1>3. RequestShape' /\ LoopShape'
  BY DEF IInv, RequestShape, LoopShape, Slot, Stored
<1>4. Serving'
  <2> SUFFICES ASSUME NEW q \in Procs, NEW t \in Sessions, tx'[t].client = q
               PROVE  ServingAt(q, t)'
    BY DEF Serving
  <2>1. tx'[t] = tx[t]
    BY DatabaseAssumption DEF IInv, TypeOK, DbTypeOK, Closed, Blank
  <2>2. ServingAt(q, t)
    BY <2>1 DEF IInv, Serving
  <2>3. Existing(Slot(q))' = Existing(Slot(q))
    BY DEF Existing, Slot
  <2> QED BY <2>1, <2>2, <2>3, ServingFrame
<1>5. StoredShape' /\ OneGenerationPerKey' /\ RowsHaveEvidence' /\ LedgerIsDataset'
  BY DEF IInv, StoredShape, OneGenerationPerKey, RowsHaveEvidence, LedgerIsDataset, Stored
<1> QED BY <1>1, <1>2, <1>3, <1>4, <1>5 DEF IInv

\* The application writes one row that no transaction holds.
LEMMA ApplicationInv ==
  ASSUME IInv, NEW r \in RowIds, NEW by \in {App, None},
         rows' = [rows EXCEPT ![r] = by],
         \A t \in Sessions : r \notin Held(t),
         rows[r] # None \/ by = None \/ \A t \in Sessions : Parent[r] \notin tx[t].del,
         UNCHANGED <<generations, generation_rows, access, tx>>, UNCHANGED serviceVars
  PROVE  IInv'
<1> USE DEF serviceVars
<1>1. TypeOK'
  BY DEF IInv, TypeOK, DbTypeOK, ServiceTypeOK
<1>2. RequestShape' /\ LoopShape' /\ Exclusive' /\ SessionShape'
  BY DEF IInv, RequestShape, LoopShape, Exclusive, SessionShape, Slot, Stored, Held
<1>3. WritesFit'
  BY DEF IInv, TypeOK, DbTypeOK, WritesFit, Held
<1>4. CommitIsWhole'
  BY DEF IInv, CommitIsWhole, Existing
<1>5. Serving'
  <2> SUFFICES ASSUME NEW q \in Procs, NEW t \in Sessions, tx'[t].client = q
               PROVE  ServingAt(q, t)'
    BY DEF Serving
  <2>1. ServingAt(q, t)
    BY DEF IInv, Serving
  <2>2. Existing(Slot(q))' = Existing(Slot(q))
    BY DEF Existing, Slot
  <2> QED BY <2>1, <2>2, ServingFrame
<1>6. StoredShape' /\ OneGenerationPerKey' /\ LedgerIsDataset'
  BY DEF IInv, StoredShape, OneGenerationPerKey, LedgerIsDataset, Stored
<1>7. RowsHaveEvidence'
  BY DatabaseAssumption DEF IInv, TypeOK, DbTypeOK, RowsHaveEvidence
<1> QED BY <1>1, <1>2, <1>3, <1>4, <1>5, <1>6, <1>7 DEF IInv

\* A change of a destination table or grant keeps the invariant.
LEMMA AppAlterInv ==
  ASSUME IInv, NEW r \in RowIds, AppAlter(r), UNCHANGED serviceVars
  PROVE  IInv'
<1> USE DEF serviceVars, AppAlter
<1>1. TypeOK'
  BY DEF IInv, TypeOK, DbTypeOK, ServiceTypeOK
<1>2. RequestShape' /\ LoopShape' /\ Exclusive' /\ SessionShape' /\ WritesFit' /\ CommitIsWhole'
  BY DEF IInv, RequestShape, LoopShape, Exclusive, SessionShape, WritesFit, CommitIsWhole,
         Slot, Stored, Held, Existing
<1>3. Serving'
  <2> SUFFICES ASSUME NEW q \in Procs, NEW t \in Sessions, tx'[t].client = q
               PROVE  ServingAt(q, t)'
    BY DEF Serving
  <2>1. ServingAt(q, t)
    BY DEF IInv, Serving
  <2>2. Existing(Slot(q))' = Existing(Slot(q))
    BY DEF Existing, Slot
  <2> QED BY <2>1, <2>2, ServingFrame
<1>4. StoredShape' /\ OneGenerationPerKey' /\ LedgerIsDataset' /\ RowsHaveEvidence'
  BY DEF IInv, StoredShape, OneGenerationPerKey, LedgerIsDataset, RowsHaveEvidence, Stored
<1> QED BY <1>1, <1>2, <1>3, <1>4 DEF IInv

\* What COMMIT of a session that carries a generation does to the tables.
LEMMA CommitInsert ==
  ASSUME IInv, NEW s \in Sessions, ServerCommit(s), tx[s].new # None
  PROVE  /\ tx[s].new \in GenIds /\ tx[s].slot \in Slots /\ tx[s].digest \in Digests
         /\ issued[tx[s].new] = tx[s].slot /\ Existing(tx[s].slot) = {}
         /\ ~Stored(tx[s].new)
         /\ tx[s].lock = AdvisoryKey[tx[s].slot] /\ AdvisoryKey[tx[s].slot] # None
         /\ tx[s].del = {} /\ tx[s].ins = Range(Dataset[tx[s].digest])
         /\ generations' = [generations EXCEPT ![tx[s].new] =
                [state |-> "COMMITTED", slot |-> tx[s].slot, digest |-> tx[s].digest]]
         /\ generation_rows' = [generation_rows EXCEPT ![tx[s].new] = Dataset[tx[s].digest]]
         /\ rows' = [r \in RowIds |-> IF r \in tx[s].ins THEN tx[s].new ELSE rows[r]]
<1>1. /\ tx[s].new \in GenIds /\ tx[s].slot \in Slots /\ tx[s].digest \in Digests
      /\ issued[tx[s].new] = tx[s].slot
      /\ tx[s].lock = AdvisoryKey[tx[s].slot]
      /\ Existing(tx[s].slot) = {}
      /\ tx[s].ledger = Dataset[tx[s].digest]
      /\ tx[s].ins = Range(tx[s].ledger)
      /\ tx[s].upd = None /\ tx[s].del = {}
  BY DEF ServerCommit, IInv, CommitIsWhole
<1>2. ~Stored(tx[s].new)
  BY <1>1 DEF IInv, StoredShape, Stored, Existing
<1>3. AdvisoryKey[tx[s].slot] # None
  BY <1>1, DatabaseAssumption
<1>4. generations' = [generations EXCEPT ![tx[s].new] =
                [state |-> "COMMITTED", slot |-> tx[s].slot, digest |-> tx[s].digest]]
  BY <1>1, DatabaseAssumption DEF ServerCommit, IInv, TypeOK, DbTypeOK
<1>5. generation_rows' = [generation_rows EXCEPT ![tx[s].new] = Dataset[tx[s].digest]]
  BY <1>1 DEF ServerCommit, IInv, TypeOK, DbTypeOK
<1>6. rows' = [r \in RowIds |-> IF r \in tx[s].ins THEN tx[s].new ELSE rows[r]]
  BY <1>1 DEF ServerCommit
<1> QED BY <1>1, <1>2, <1>3, <1>4, <1>5, <1>6

\* What COMMIT of a session that carries a deletion does to the tables.
LEMMA CommitDelete ==
  ASSUME IInv, NEW s \in Sessions, ServerCommit(s), tx[s].new = None
  PROVE  /\ tx[s].upd \in GenIds /\ generations[tx[s].upd].state = "COMMITTED"
         /\ tx[s].ins = {} /\ tx[s].del = Range(generation_rows[tx[s].upd])
         /\ generations' = [generations EXCEPT ![tx[s].upd] =
                              [generations[tx[s].upd] EXCEPT !.state = "DELETED"]]
         /\ UNCHANGED generation_rows
         /\ rows' = [r \in RowIds |-> IF r \in tx[s].del THEN None ELSE rows[r]]
<1>1. /\ tx[s].upd \in GenIds
      /\ tx[s].del = Range(generation_rows[tx[s].upd])
      /\ tx[s].ins = {}
  BY DatabaseAssumption DEF ServerCommit, IInv, CommitIsWhole
<1>2. generations[tx[s].upd].state = "COMMITTED"
  BY <1>1, DatabaseAssumption DEF IInv, WritesFit
<1>3. generations' = [generations EXCEPT ![tx[s].upd] =
                              [generations[tx[s].upd] EXCEPT !.state = "DELETED"]]
  BY <1>1, DatabaseAssumption DEF ServerCommit, IInv, TypeOK, DbTypeOK
<1>4. UNCHANGED generation_rows
  BY <1>1, DatabaseAssumption DEF ServerCommit, IInv, TypeOK, DbTypeOK
<1>5. rows' = [r \in RowIds |-> IF r \in tx[s].del THEN None ELSE rows[r]]
  BY <1>1 DEF ServerCommit
<1> QED BY <1>1, <1>2, <1>3, <1>4, <1>5

\* COMMIT of a session ends it and leaves the other sessions alone.
LEMMA CommitLeavesOthers ==
  ASSUME IInv, NEW s \in Sessions, ServerCommit(s)
  PROVE  /\ tx' \in [Sessions -> Session]
         /\ \A t \in Sessions \ {s} : tx'[t] = tx[t]
         /\ tx'[s] = (IF tx[s].client = None THEN Closed ELSE Blank("done", tx[s].client))
         /\ tx'[s].client = tx[s].client /\ tx'[s].st \notin {"open", "commit"}
         /\ tx'[s].lock = None /\ tx'[s].upd = None /\ tx'[s].ins = {} /\ tx'[s].del = {}
         /\ Exclusive' /\ SessionShape'
<1>1. tx[s].client \in Procs \cup {None}
  BY DEF IInv, TypeOK, DbTypeOK, Session
<1>2. /\ tx' \in [Sessions -> Session]
      /\ \A t \in Sessions \ {s} : tx'[t] = tx[t]
      /\ tx'[s] = (IF tx[s].client = None THEN Closed ELSE Blank("done", tx[s].client))
  BY <1>1, BlankType, ClosedType DEF ServerCommit, IInv, TypeOK, DbTypeOK
<1>3. /\ tx'[s].client = tx[s].client /\ tx'[s].st \notin {"open", "commit"}
      /\ tx'[s].lock = None /\ tx'[s].upd = None /\ tx'[s].ins = {} /\ tx'[s].del = {}
  BY <1>2 DEF Closed, Blank
<1>4. Exclusive'
  BY <1>2, <1>3 DEF IInv, Exclusive, Held
<1>5. SessionShape'
  <2> SUFFICES ASSUME NEW t \in Sessions PROVE SessionShape!(t)'
    BY DEF SessionShape
  <2>1. CASE t = s
    <3>1. CASE tx[s].client = None
      BY <1>2, <2>1, <3>1 DEF Closed, Blank
    <3>2. CASE tx[s].client # None
      <4>1. tx'[t] = Blank("done", tx'[t].client)
        BY <1>2, <1>3, <2>1, <3>2
      <4>2. tx'[t].st = "done"
        BY <4>1 DEF Blank
      <4> QED BY <4>1, <4>2
    <3> QED BY <3>1, <3>2
  <2>2. CASE t # s
    BY <1>2, <2>2 DEF IInv, SessionShape
  <2> QED BY <2>1, <2>2
<1> QED BY <1>2, <1>3, <1>4, <1>5

\* COMMIT of a generation keeps the invariant: its key names none, by the lock,
\* and no other session counts on the rows it inserts being absent.
LEMMA ServerCommitInsertInv ==
  ASSUME IInv, NEW s \in Sessions, ServerCommit(s), tx[s].new # None, UNCHANGED serviceVars
  PROVE  IInv'
<1>0. PICK g \in GenIds, slot \in Slots, d \in Digests :
         tx[s].new = g /\ tx[s].slot = slot /\ tx[s].digest = d
  BY CommitInsert
<1>1. /\ g \in GenIds /\ slot \in Slots /\ d \in Digests
      /\ issued[g] = slot /\ Existing(slot) = {} /\ ~Stored(g)
      /\ tx[s].lock = AdvisoryKey[slot] /\ AdvisoryKey[slot] # None
      /\ tx[s].del = {} /\ tx[s].ins = Range(Dataset[d])
      /\ generations' = [generations EXCEPT ![g] =
                [state |-> "COMMITTED", slot |-> slot, digest |-> d]]
      /\ generation_rows' = [generation_rows EXCEPT ![g] = Dataset[d]]
      /\ rows' = [r \in RowIds |-> IF r \in tx[s].ins THEN g ELSE rows[r]]
  BY <1>0, CommitInsert
<1>2. /\ tx' \in [Sessions -> Session]
      /\ \A t \in Sessions \ {s} : tx'[t] = tx[t]
      /\ tx'[s].client = tx[s].client /\ tx'[s].st \notin {"open", "commit"}
      /\ tx'[s].lock = None /\ tx'[s].upd = None /\ tx'[s].ins = {} /\ tx'[s].del = {}
      /\ Exclusive' /\ SessionShape'
  BY CommitLeavesOthers
<1>3. UNCHANGED <<access, pc, req, attempt, handled, answer, issued>> /\ tx[s].st = "commit"
  BY DEF ServerCommit, serviceVars
<1>4. /\ generations'[g] = [state |-> "COMMITTED", slot |-> slot, digest |-> d]
      /\ \A h \in GenIds \ {g} : generations'[h] = generations[h]
      /\ generation_rows'[g] = Dataset[d]
      /\ \A h \in GenIds \ {g} : generation_rows'[h] = generation_rows[h]
      /\ Stored(g)' /\ \A h \in GenIds \ {g} : Stored(h)' = Stored(h)
  <2>1. /\ generations'[g] = [state |-> "COMMITTED", slot |-> slot, digest |-> d]
        /\ \A h \in GenIds \ {g} : generations'[h] = generations[h]
    <3>1. generations \in [GenIds -> GenerationRow]
      BY DEF IInv, TypeOK, DbTypeOK
    <3> DEFINE row == [state |-> "COMMITTED", slot |-> slot, digest |-> d]
    <3>2. g \in GenIds /\ generations' = [generations EXCEPT ![g] = row]
      BY <1>1
    <3> HIDE DEF row
    <3>3. generations'[g] = row /\ \A h \in GenIds \ {g} : generations'[h] = generations[h]
      BY <3>1, <3>2
    <3> QED BY <3>3 DEF row
  <2>2. /\ generation_rows'[g] = Dataset[d]
        /\ \A h \in GenIds \ {g} : generation_rows'[h] = generation_rows[h]
    BY <1>1 DEF IInv, TypeOK, DbTypeOK
  <2> QED BY <2>1, <2>2 DEF Stored
<1>5. \A k \in Slots \ {slot} : Existing(k)' = Existing(k)
  BY <1>1, <1>4 DEF Existing, Stored
<1>6. TypeOK'
  <2>1. generations' \in [GenIds -> GenerationRow]
    BY <1>1 DEF IInv, TypeOK, DbTypeOK, GenerationRow
  <2>2. generation_rows' \in [GenIds -> Seq(RowIds)]
    BY <1>1, DatabaseAssumption DEF IInv, TypeOK, DbTypeOK
  <2>3. rows' \in [RowIds -> GenIds \cup {App, None}]
    BY <1>1 DEF IInv, TypeOK, DbTypeOK
  <2> QED BY <1>2, <1>3, <2>1, <2>2, <2>3 DEF IInv, TypeOK, DbTypeOK, ServiceTypeOK
<1>7. RequestShape'
  BY <1>3 DEF IInv, RequestShape, Slot
<1>8. WritesFit'
  <2> SUFFICES ASSUME NEW t \in Sessions PROVE WritesFit!(t)'
    BY DEF WritesFit
  <2>1. CASE t = s
    BY <1>2, <2>1
  <2>2. CASE t # s
    <3>1. tx'[t] = tx[t] /\ tx[t].ins \in SUBSET RowIds /\ tx[t].del \in SUBSET RowIds
          /\ tx[t].upd \in GenIds \cup {None}
      BY <1>2, <2>2 DEF IInv, TypeOK, DbTypeOK, Session
    <3>2. Held(s) \cap Held(t) = {}
      BY <2>2 DEF IInv, Exclusive
    <3>3. (\A r \in tx[t].ins : rows'[r] = None) /\ (\A r \in tx[t].del : rows'[r] # None)
      BY <1>1, <3>1, <3>2 DEF IInv, WritesFit, Held
    <3>4. tx[t].upd # None => generations'[tx[t].upd].state = "COMMITTED"
      BY <1>1, <1>4, <3>1 DEF IInv, WritesFit, Stored
    <3>5. \A r \in tx[t].del, c \in RowIds : Parent[c] = r =>
              /\ rows'[c] = None \/ c \in tx[t].del
              /\ \A u \in Sessions \ {t} : c \notin tx'[u].ins
      BY <1>1, <1>2, <2>2, <3>1 DEF IInv, WritesFit
    <3> QED BY <3>1, <3>3, <3>4, <3>5
  <2> QED BY <2>1, <2>2
\* The lock of the key keeps every other transaction off it.
<1>9. ASSUME NEW t \in Sessions \ {s}, NEW k \in Slots, tx[t].lock = AdvisoryKey[k]
      PROVE  k # slot
  BY <1>1, <1>9 DEF IInv, Exclusive
<1>10. CommitIsWhole'
  <2> SUFFICES ASSUME NEW t \in Sessions, tx'[t].st = "commit" PROVE CommitIsWhole!(t)'
    BY DEF CommitIsWhole
  <2>1. t # s /\ tx'[t] = tx[t] /\ CommitIsWhole!(t)
    BY <1>2 DEF IInv, CommitIsWhole
  <2>2. CASE tx[t].new # None
    <3>1. tx[t].slot \in Slots /\ tx[t].slot # slot /\ Existing(tx[t].slot) = {}
      BY <1>9, <2>1, <2>2
    <3>2. Existing(tx[t].slot)' = {}
      <4>1. \A k \in Slots \ {slot} : Existing(k)' = {h \in GenIds : generations'[h].state # "ABSENT" /\ generations'[h].slot = k}
        BY DEF Existing
      <4> QED BY <1>5, <2>1, <3>1, <4>1 DEF Existing
    <3> QED BY <1>3, <2>1, <2>2, <3>2
  <2>3. CASE tx[t].new = None
    <3>1. tx[t].upd \in GenIds /\ generations[tx[t].upd].state = "COMMITTED"
      BY <2>1, <2>3, DatabaseAssumption DEF IInv, WritesFit
    <3>2. tx[t].upd # g
      BY <1>1, <3>1 DEF Stored
    <3> QED BY <1>4, <2>1, <2>3, <3>1, <3>2, DatabaseAssumption
  <2> QED BY <2>2, <2>3
<1>11. Serving'
  <2> SUFFICES ASSUME NEW q \in Procs, NEW t \in Sessions, tx'[t].client = q
               PROVE  ServingAt(q, t)'
    BY DEF Serving
  <2>1. ServingAt(q, t)
    BY <1>2 DEF IInv, Serving
  <2>2. CASE t = s
    <3>1. pc[q] = "commit"
      BY <1>1, <1>3, <2>1, <2>2 DEF ServingAt, Blank
    <3>2. tx'[s].st = "done"
      BY <1>2, <2>2, CommitLeavesOthers, DatabaseAssumption DEF Blank
    <3> QED BY <1>3, <2>2, <3>1, <3>2 DEF ServingAt
  <2>3. CASE t # s
    <3>1. (pc[q] = "insert" /\ Existing(Slot(q)) = {}) => Existing(Slot(q))' = {}
      <4>1. SUFFICES ASSUME pc[q] = "insert", Existing(Slot(q)) = {}
                     PROVE  Existing(Slot(q))' = {}
        OBVIOUS
      <4>2. Slot(q) \in Slots /\ tx[t].lock = AdvisoryKey[Slot(q)]
        BY <2>1, <4>1 DEF ServingAt, IInv, RequestShape, InPost, Slot, Slots
      <4>3. Slot(q) # slot /\ Slot(q)' = Slot(q)
        BY <1>3, <1>9, <2>3, <4>2 DEF Slot
      <4> QED BY <1>4, <1>1, <4>1, <4>2, <4>3 DEF Existing, Stored
    <3> QED BY <1>2, <1>3, <2>1, <2>3, <3>1, ServingFrame
  <2> QED BY <2>2, <2>3
<1>12. LoopShape'
  <2> SUFFICES ASSUME NEW q \in Procs PROVE LoopShape!(q)'
    BY DEF LoopShape
  <2>1. LoopShape!(q)
    BY DEF IInv, LoopShape
  <2>2. pc[q] = "delete" =>
          /\ req[q].gen \in GenIds \ {g}
          /\ generation_rows'[req[q].gen] = generation_rows[req[q].gen]
          /\ Stored(req[q].gen)' = Stored(req[q].gen)
    BY <1>1, <1>3, <1>4, <2>1 DEF IInv, RequestShape, InDelete
  <2>3. UNCHANGED <<pc[q], req[q], handled[q]>>
    BY <1>3
  <2>4. CASE pc[q] = "delete"
    <3> DEFINE g0 == req[q].gen
    <3>1. pc'[q] = "delete" /\ handled'[q] = handled[q] /\ req'[q].gen = g0
      BY <2>3, <2>4
    <3>2. generation_rows'[g0] = generation_rows[g0] /\ Stored(g0)' = Stored(g0)
      BY <2>2, <2>4
    <3> QED BY <2>1, <2>4, <3>1, <3>2
  <2>5. CASE pc[q] # "delete"
    BY <2>1, <2>3, <2>5
  <2> QED BY <2>4, <2>5
<1>13. StoredShape'
  BY <1>1, <1>3, <1>4 DEF IInv, StoredShape
<1>14. OneGenerationPerKey'
  BY <1>1, <1>4 DEF IInv, OneGenerationPerKey, Existing, Stored
<1>15. RowsHaveEvidence'
  <2> SUFFICES ASSUME NEW r \in RowIds, rows'[r] \in GenIds
               PROVE  /\ generations'[rows'[r]].state = "COMMITTED"
                      /\ r \in Range(generation_rows'[rows'[r]])
    BY DEF RowsHaveEvidence
  <2>1. CASE r \in tx[s].ins
    BY <1>1, <1>4, <2>1
  <2>2. CASE r \notin tx[s].ins
    <3>1. rows'[r] = rows[r] /\ generations[rows[r]].state = "COMMITTED"
          /\ r \in Range(generation_rows[rows[r]])
      BY <1>1, <2>2 DEF IInv, RowsHaveEvidence
    <3>2. rows[r] # g
      BY <1>1, <3>1 DEF Stored
    <3> QED BY <1>4, <3>1, <3>2
  <2> QED BY <2>1, <2>2
<1>16. LedgerIsDataset'
  BY <1>1, <1>4 DEF IInv, LedgerIsDataset
<1> QED BY <1>2, <1>6, <1>7, <1>8, <1>10, <1>11, <1>12, <1>13, <1>14, <1>15, <1>16 DEF IInv

\* COMMIT of a deletion keeps the invariant: no row of another generation goes,
\* and no other session counts on the rows it deletes being there.
LEMMA ServerCommitDeleteInv ==
  ASSUME IInv, NEW s \in Sessions, ServerCommit(s), tx[s].new = None, UNCHANGED serviceVars
  PROVE  IInv'
<1>0. PICK g \in GenIds : tx[s].upd = g
  BY CommitDelete
<1>1. /\ generations[g].state = "COMMITTED"
      /\ tx[s].ins = {} /\ tx[s].del = Range(generation_rows[g])
      /\ generations' = [generations EXCEPT ![g] = [generations[g] EXCEPT !.state = "DELETED"]]
      /\ UNCHANGED generation_rows
      /\ rows' = [r \in RowIds |-> IF r \in tx[s].del THEN None ELSE rows[r]]
  BY <1>0, CommitDelete
<1>2. /\ tx' \in [Sessions -> Session]
      /\ \A t \in Sessions \ {s} : tx'[t] = tx[t]
      /\ tx'[s].client = tx[s].client /\ tx'[s].st \notin {"open", "commit"}
      /\ tx'[s].lock = None /\ tx'[s].upd = None /\ tx'[s].ins = {} /\ tx'[s].del = {}
      /\ Exclusive' /\ SessionShape'
  BY CommitLeavesOthers
<1>3. UNCHANGED <<access, pc, req, attempt, handled, answer, issued>> /\ tx[s].st = "commit"
  BY DEF ServerCommit, serviceVars
<1>4. /\ generations' \in [GenIds -> GenerationRow]
      /\ generations'[g].state = "DELETED"
      /\ \A h \in GenIds \ {g} : generations'[h] = generations[h]
      /\ \A h \in GenIds : /\ generations'[h].slot = generations[h].slot
                           /\ generations'[h].digest = generations[h].digest
                           /\ Stored(h)' = Stored(h)
  <2>1. generations \in [GenIds -> GenerationRow] /\ generations[g] \in GenerationRow
    BY DEF IInv, TypeOK, DbTypeOK
  <2> DEFINE row == [generations[g] EXCEPT !.state = "DELETED"]
  <2>2. row \in GenerationRow /\ row.state = "DELETED" /\ row.slot = generations[g].slot
        /\ row.digest = generations[g].digest
    BY <2>1 DEF GenerationRow
  <2>3. generations' = [generations EXCEPT ![g] = row]
    BY <1>1
  <2> HIDE DEF row
  <2> QED BY <1>1, <2>1, <2>2, <2>3 DEF Stored
<1>5. ASSUME NEW k \in Slots PROVE Existing(k)' = Existing(k)
  BY <1>4 DEF Existing, Stored
<1>6. TypeOK'
  <2>1. rows' \in [RowIds -> GenIds \cup {App, None}]
    BY <1>1 DEF IInv, TypeOK, DbTypeOK
  <2> QED BY <1>1, <1>2, <1>3, <1>4, <2>1 DEF IInv, TypeOK, DbTypeOK, ServiceTypeOK
<1>7. RequestShape'
  BY <1>3 DEF IInv, RequestShape, Slot
<1>8. WritesFit'
  <2> SUFFICES ASSUME NEW t \in Sessions PROVE WritesFit!(t)'
    BY DEF WritesFit
  <2>1. CASE t = s
    BY <1>2, <2>1
  <2>2. CASE t # s
    <3>1. tx'[t] = tx[t] /\ tx[t].ins \in SUBSET RowIds /\ tx[t].del \in SUBSET RowIds
          /\ tx[t].upd \in GenIds \cup {None}
      BY <1>2, <2>2 DEF IInv, TypeOK, DbTypeOK, Session
    <3>2. Held(s) \cap Held(t) = {}
      BY <2>2 DEF IInv, Exclusive
    <3>3. (\A r \in tx[t].ins : rows'[r] = None) /\ (\A r \in tx[t].del : rows'[r] # None)
      BY <1>1, <3>1, <3>2 DEF IInv, WritesFit, Held
    <3>4. tx[t].upd # None => generations'[tx[t].upd].state = "COMMITTED"
      <4>1. tx[t].upd # g
        BY <1>0, <2>2, DatabaseAssumption DEF IInv, Exclusive
      <4> QED BY <1>4, <3>1, <4>1 DEF IInv, WritesFit
    <3>5. \A r \in tx[t].del, c \in RowIds : Parent[c] = r =>
              /\ rows'[c] = None \/ c \in tx[t].del
              /\ \A u \in Sessions \ {t} : c \notin tx'[u].ins
      BY <1>1, <1>2, <2>2, <3>1 DEF IInv, WritesFit
    <3> QED BY <3>1, <3>3, <3>4, <3>5
  <2> QED BY <2>1, <2>2
<1>9. CommitIsWhole'
  <2> SUFFICES ASSUME NEW t \in Sessions, tx'[t].st = "commit" PROVE CommitIsWhole!(t)'
    BY DEF CommitIsWhole
  <2>1. t # s /\ tx'[t] = tx[t] /\ CommitIsWhole!(t)
    BY <1>2 DEF IInv, CommitIsWhole
  <2>2. tx[t].slot \in Slots /\ Existing(tx[t].slot) = {} => Existing(tx[t].slot)' = {}
    BY <1>4, <2>1 DEF Existing, Stored
  <2> QED BY <1>1, <1>3, <2>1, <2>2
<1>10. Serving'
  <2> SUFFICES ASSUME NEW q \in Procs, NEW t \in Sessions, tx'[t].client = q
               PROVE  ServingAt(q, t)'
    BY DEF Serving
  <2>1. ServingAt(q, t)
    BY <1>2 DEF IInv, Serving
  <2>2. CASE t = s
    <3>1. pc[q] = "commit"
      BY <1>0, <1>3, <2>1, <2>2, DatabaseAssumption DEF ServingAt, Blank
    <3>2. tx'[s].st = "done"
      BY <1>2, <2>2, CommitLeavesOthers, DatabaseAssumption DEF Blank
    <3> QED BY <1>3, <2>2, <3>1, <3>2 DEF ServingAt
  <2>3. CASE t # s
    <3>1. (pc[q] = "insert" /\ Existing(Slot(q)) = {}) => Existing(Slot(q))' = {}
      BY <1>3, <1>4 DEF Existing, Slot, Stored
    <3> QED BY <1>2, <1>3, <2>1, <2>3, <3>1, ServingFrame
  <2> QED BY <2>2, <2>3
<1>11. LoopShape'
  <2> SUFFICES ASSUME NEW q \in Procs PROVE LoopShape!(q)'
    BY DEF LoopShape
  <2>1. LoopShape!(q)
    BY DEF IInv, LoopShape
  <2>2. pc[q] = "delete" => req[q].gen \in GenIds
    BY DEF IInv, RequestShape, InDelete
  <2> QED BY <1>1, <1>3, <1>4, <2>1, <2>2
<1>12. StoredShape' /\ LedgerIsDataset'
  BY <1>1, <1>3, <1>4 DEF IInv, StoredShape, LedgerIsDataset
<1>13. OneGenerationPerKey'
  BY <1>4 DEF IInv, OneGenerationPerKey
<1>14. RowsHaveEvidence'
  <2> SUFFICES ASSUME NEW r \in RowIds, rows'[r] \in GenIds
               PROVE  /\ generations'[rows'[r]].state = "COMMITTED"
                      /\ r \in Range(generation_rows'[rows'[r]])
    BY DEF RowsHaveEvidence
  <2>1. r \notin tx[s].del /\ rows'[r] = rows[r]
    BY <1>1, DatabaseAssumption
  <2>2. generations[rows[r]].state = "COMMITTED" /\ r \in Range(generation_rows[rows[r]])
    BY <2>1 DEF IInv, RowsHaveEvidence
  <2>3. rows[r] # g
    BY <1>1, <2>1, <2>2
  <2> QED BY <1>1, <1>4, <2>1, <2>2, <2>3
<1> QED BY <1>2, <1>6, <1>7, <1>8, <1>9, <1>10, <1>11, <1>12, <1>13, <1>14 DEF IInv

\* What the server and the application do keeps the invariant.
LEMMA DatabaseStep ==
  ASSUME IInv, DbNext, UNCHANGED serviceVars
  PROVE  IInv'
<1>1. CASE \E s \in Sessions : ServerCommit(s)
  BY <1>1, ServerCommitInsertInv, ServerCommitDeleteInv
<1>2. CASE \E s \in Sessions : ServerAbort(s)
  BY <1>2, ServerAbortInv
<1>3. ASSUME NEW r \in RowIds, AppInsert(r) PROVE IInv'
  BY <1>3, ApplicationInv DEF AppInsert
<1>4. ASSUME NEW r \in RowIds, AppUpdate(r) PROVE IInv'
  BY <1>4, ApplicationInv, DatabaseAssumption DEF AppUpdate
<1>5. ASSUME NEW r \in RowIds, AppDelete(r) PROVE IInv'
  BY <1>5, ApplicationInv DEF AppDelete
<1>6. ASSUME NEW r \in RowIds, AppAlter(r) PROVE IInv'
  BY <1>6, AppAlterInv
<1> QED BY <1>1, <1>2, <1>3, <1>4, <1>5, <1>6 DEF DbNext

\* What the processes and failures do keeps the invariant.
LEMMA ServiceStep ==
  ASSUME IInv, NEW p \in Procs, AcceptRequest(p) \/ Serve(p) \/ ConnectionLost(p) \/ Crash(p)
  PROVE  IInv'
<1>1. CASE AcceptPost(p)
  BY <1>1, AcceptInv DEF AcceptPost, Request
<1>2. CASE AcceptGet(p)
  BY <1>2, AcceptInv DEF AcceptGet, Request
<1>3. CASE AcceptDelete(p)
  BY <1>3, AcceptInv DEF AcceptDelete, Request
<1>4. CASE FindIdempotent(p) \/ Generate(p) \/ Connect(p) \/ Get(p)
  BY <1>4, FindIdempotentInv, GenerateInv, ConnectInv, GetInv
<1>5. CASE \E s \in Sessions : InTransaction(p, s)
  <2> SUFFICES ASSUME NEW s \in Sessions, InTransaction(p, s) PROVE IInv'
    BY <1>5
  <2> QED BY AcquireLockInv, RecheckInv, InsertRowInv, WriteEvidenceInv, SelectForUpdateInv,
             DeleteRowInv, MarkDeletedInv, AckInv, DeadlockDetectedInv DEF InTransaction
<1>6. CASE ConnectionLost(p) \/ Crash(p)
  BY <1>6, ConnectionLostInv, CrashInv
<1> QED BY <1>1, <1>2, <1>3, <1>4, <1>5, <1>6 DEF AcceptRequest, Serve

\* A stuttering step keeps the invariant.
LEMMA StutterInv ==
  ASSUME IInv, UNCHANGED vars
  PROVE  IInv'
<1>1. TypeOK' /\ RequestShape' /\ Exclusive' /\ WritesFit' /\ SessionShape' /\ LoopShape'
  BY DEF vars, IInv, TypeOK, DbTypeOK, ServiceTypeOK, RequestShape, Exclusive, WritesFit,
         SessionShape, LoopShape, Slot, Held, Stored
<1>2. CommitIsWhole' /\ StoredShape' /\ OneGenerationPerKey' /\ RowsHaveEvidence' /\ LedgerIsDataset'
  BY DEF vars, IInv, CommitIsWhole, StoredShape, OneGenerationPerKey, RowsHaveEvidence,
         LedgerIsDataset, Existing, Stored
<1>3. Serving'
  BY DEF vars, IInv, Serving, ServingAt, Slot, Existing
<1> QED BY <1>1, <1>2, <1>3 DEF IInv

\* The inductive invariant holds of every instance of the service.
THEOREM Invariance == Spec => []IInv
<1>1. Init => IInv
  BY InitInv
<1>2. IInv /\ [Next]_vars => IInv'
  BY DatabaseStep, ServiceStep, StutterInv DEF Next, ServiceNext
<1> QED BY <1>1, <1>2, PTL DEF Spec

\* Every variable keeps its type.
THEOREM TypeCorrect == Spec => []TypeOK
<1>1. IInv => TypeOK
  BY DEF IInv
<1> QED BY <1>1, Invariance, PTL

\* A tenant's idempotency key names at most one generation, for any number of
\* processes, sessions and retries, and any advisory lock function, collisions
\* included.
THEOREM KeyNamesOneGeneration == Spec => []OneGenerationPerKey
<1>1. IInv => OneGenerationPerKey
  BY DEF IInv
<1> QED BY <1>1, Invariance, PTL

\* No destination row of a generation outlives or precedes its evidence.
THEOREM EvidenceAndRows == Spec => []RowsHaveEvidence
<1>1. IInv => RowsHaveEvidence
  BY DEF IInv
<1> QED BY <1>1, Invariance, PTL

\* The ledger, collected row by row over attempts that may fail, is the dataset.
THEOREM LedgerIsWhole == Spec => []LedgerIsDataset
<1>1. IInv => LedgerIsDataset
  BY DEF IInv
<1> QED BY <1>1, Invariance, PTL

-----------------------------------------------------------------------------
(* The service implements the atomic store of GenerationStore: the step in    *)
(* which the server executes COMMIT is one Commit or one Delete of the store, *)
(* a statement of the application is one of the store's, and every other step *)
(* leaves the tables alone.                                                   *)

tables == <<generations, generation_rows, rows>>

\* The empty tables are those of the store.
LEMMA StoreInit == Init => Store!Init
BY DEF Init, DbInit, NoGeneration, Store!Init

\* What a process does before COMMIT, or outside a transaction, is private.
LEMMA ServiceIsPrivate ==
  ASSUME ServiceNext
  PROVE  UNCHANGED tables
<1>1. PICK p \in Procs : AcceptRequest(p) \/ Serve(p) \/ ConnectionLost(p) \/ Crash(p)
  BY DEF ServiceNext
<1>2. CASE AcceptRequest(p)
  BY <1>2 DEF AcceptRequest, AcceptPost, AcceptGet, AcceptDelete, Accept, tables
<1>3. CASE FindIdempotent(p) \/ Generate(p) \/ Connect(p) \/ Get(p)
  BY <1>3 DEF FindIdempotent, Generate, Connect, Get, dbVars, tables
<1>4. ASSUME NEW s \in Sessions, InTransaction(p, s)
      PROVE  UNCHANGED tables
  <2>1. CASE AcquireLock(p, s) \/ Recheck(p, s) \/ SelectForUpdate(p, s) \/ MarkDeleted(p, s)
    BY <2>1 DEF AcquireLock, Recheck, SelectForUpdate, MarkDeleted, ReplyAndClose, tables
  <2>2. CASE InsertRow(p, s) \/ WriteEvidence(p, s) \/ DeleteRow(p, s)
    BY <2>2 DEF InsertRow, WriteEvidence, DeleteRow, ReplyAndClose, tables
  <2>3. CASE Ack(p, s) \/ DeadlockDetected(p, s)
    BY <2>3 DEF Ack, DeadlockDetected, ReplyAndClose, tables
  <2> QED BY <1>4, <2>1, <2>2, <2>3 DEF InTransaction
<1>5. CASE ConnectionLost(p) \/ Crash(p)
  BY <1>5 DEF ConnectionLost, Crash, tables
<1> QED BY <1>1, <1>2, <1>3, <1>4, <1>5 DEF Serve

\* COMMIT of a generation is one Commit of the store: the lock keeps the key
\* free, and the rows it inserts are absent until then.
LEMMA InsertIsCommit ==
  ASSUME IInv, NEW s \in Sessions, ServerCommit(s), tx[s].new # None
  PROVE  Store!Commit(tx[s].new, tx[s].slot, tx[s].digest)
<1>1. PICK g \in GenIds, slot \in Slots, d \in Digests :
         tx[s].new = g /\ tx[s].slot = slot /\ tx[s].digest = d
  BY CommitInsert
<1>2. /\ generations[g].state = "ABSENT"
      /\ \A h \in GenIds : generations[h].state # "ABSENT" => generations[h].slot # slot
  BY <1>1, CommitInsert DEF Stored, Existing
<1>3. tx[s].ins = Range(Dataset[d])
  BY <1>1, CommitInsert
<1>4. \A r \in Range(Dataset[d]) : rows[r] = None
  BY <1>3 DEF IInv, WritesFit
<1>5. /\ generations' = [generations EXCEPT ![g] =
                           [state |-> "COMMITTED", slot |-> slot, digest |-> d]]
      /\ generation_rows' = [generation_rows EXCEPT ![g] = Dataset[d]]
  BY <1>1, CommitInsert
<1>6. rows' = [r \in RowIds |-> IF r \in Range(Dataset[d]) THEN g ELSE rows[r]]
  <2>1. \A r : r \in tx[s].ins <=> r \in Range(Dataset[d])
    BY <1>3
  <2>2. rows' = [r \in RowIds |-> IF r \in tx[s].ins THEN g ELSE rows[r]]
    <3>1. rows' = [r \in RowIds |-> IF r \in tx[s].ins THEN tx[s].new ELSE rows[r]]
      BY CommitInsert
    <3> QED BY <1>1, <3>1
  <2> QED BY <2>1, <2>2
<1>7. Store!Range(Dataset[d]) = Range(Dataset[d])
  BY DEF Range, Store!Range
<1>8. Store!Commit(g, slot, d)
  BY <1>2, <1>4, <1>5, <1>6, <1>7 DEF Store!Commit
<1> QED BY <1>1, <1>8

\* COMMIT of a deletion is one Delete of the store: the row locks of its deletes
\* keep every row of the ledger there, and every reference to it away.
LEMMA DeleteIsDelete ==
  ASSUME IInv, NEW s \in Sessions, ServerCommit(s), tx[s].new = None
  PROVE  Store!Delete(tx[s].upd)
<1>1. PICK g \in GenIds : tx[s].upd = g /\ generations[g].state = "COMMITTED"
  BY CommitDelete
<1>2. /\ tx[s].ins = {} /\ tx[s].del = Range(generation_rows[g])
      /\ generations' = [generations EXCEPT ![g] = [generations[g] EXCEPT !.state = "DELETED"]]
      /\ UNCHANGED generation_rows
  BY <1>1, CommitDelete
<1>3. \A r \in Range(generation_rows[g]) : r \in RowIds /\ rows[r] # None
  BY <1>2 DEF IInv, WritesFit, TypeOK, DbTypeOK, Session
<1>4. \A c \in RowIds : (rows[c] # None /\ Parent[c] \in Range(generation_rows[g]))
                          => c \in Range(generation_rows[g])
  BY <1>2, <1>3 DEF IInv, WritesFit
<1>5. rows' = [r \in RowIds |-> IF r \in Range(generation_rows[g]) THEN None ELSE rows[r]]
  BY <1>2 DEF ServerCommit
<1>6. Store!Range(generation_rows[g]) = Range(generation_rows[g])
  BY DEF Range, Store!Range
<1>7. Store!Delete(g)
  BY <1>1, <1>2, <1>3, <1>4, <1>5, <1>6 DEF Store!Delete
<1> QED BY <1>1, <1>7

\* A step of the server or of the application is one of the store.
LEMMA DatabaseIsStore ==
  ASSUME IInv, DbNext
  PROVE  Store!Next \/ UNCHANGED tables
<1>1. CASE \E s \in Sessions : ServerCommit(s)
  <2>1. PICK s \in Sessions : ServerCommit(s)
    BY <1>1
  <2>2. CASE tx[s].new # None
    BY <2>1, <2>2, InsertIsCommit, CommitInsert DEF Store!Next
  <2>3. CASE tx[s].new = None
    BY <2>1, <2>3, DeleteIsDelete, CommitDelete DEF Store!Next
  <2> QED BY <2>2, <2>3
<1>2. CASE \E s \in Sessions : ServerAbort(s)
  BY <1>2 DEF ServerAbort, tables
<1>3. ASSUME NEW r \in RowIds, AppInsert(r) \/ AppUpdate(r) \/ AppDelete(r)
      PROVE  Store!Next
  <2>1. Store!Application(r)
    <3>1. CASE AppInsert(r)
      BY <3>1 DEF AppInsert, Store!Application
    <3>2. CASE AppUpdate(r)
      BY <3>2, DatabaseAssumption DEF AppUpdate, Store!Application
    <3>3. CASE AppDelete(r)
      BY <3>3 DEF AppDelete, Children, Store!Application
    <3> QED BY <1>3, <3>1, <3>2, <3>3
  <2> QED BY <2>1 DEF Store!Next
<1>4. CASE \E r \in RowIds : AppAlter(r)
  BY <1>4 DEF AppAlter, tables
<1> QED BY <1>1, <1>2, <1>3, <1>4 DEF DbNext

\* The service implements the atomic store.
THEOREM Refinement == Spec => ImplementsStore
<1>1. Init => Store!Init
  BY StoreInit
<1>2. IInv /\ [Next]_vars => [Store!Next]_(Store!storeVars)
  <2> SUFFICES ASSUME IInv, [Next]_vars
               PROVE  Store!Next \/ UNCHANGED tables
    BY DEF Store!storeVars, tables
  <2>1. CASE ServiceNext
    BY <2>1, ServiceIsPrivate
  <2>2. CASE DbNext /\ UNCHANGED serviceVars
    BY <2>2, DatabaseIsStore
  <2>3. CASE UNCHANGED vars
    BY <2>3 DEF vars, tables
  <2> QED BY <2>1, <2>2, <2>3 DEF Next
<1> QED BY <1>1, <1>2, Invariance, PTL DEF Spec, ImplementsStore, Store!Spec

-----------------------------------------------------------------------------
(* What follows for the service from the store it implements. *)

\* A new generation comes with all its rows, none of them another's.
LEMMA CommitKeepsRows ==
  ASSUME TypeOK, CommittedRowsArePresent,
         NEW g \in GenIds, NEW slot \in Slots, NEW d \in Digests, Store!Commit(g, slot, d)
  PROVE  CommittedRowsArePresent'
<1> SUFFICES ASSUME AppOps \cap {"update", "delete"} = {}, NEW h \in GenIds,
                    generations'[h].state = "COMMITTED", NEW r \in Range(generation_rows'[h])
             PROVE  rows'[r] = h
  BY DEF CommittedRowsArePresent, Range
<1>1. /\ generations[g].state = "ABSENT"
      /\ \A q \in Range(Dataset[d]) : rows[q] = None
      /\ generations' = [generations EXCEPT ![g] =
                           [state |-> "COMMITTED", slot |-> slot, digest |-> d]]
      /\ generation_rows' = [generation_rows EXCEPT ![g] = Dataset[d]]
      /\ rows' = [q \in RowIds |-> IF q \in Range(Dataset[d]) THEN g ELSE rows[q]]
  BY DEF Store!Commit, Store!Range, Range
<1>2. r \in RowIds
  <2>1. generation_rows'[h] \in Seq(RowIds)
    BY <1>1, DatabaseAssumption DEF TypeOK, DbTypeOK
  <2> QED BY <2>1 DEF Range
<1>3. CASE h = g
  BY <1>1, <1>2, <1>3 DEF TypeOK, DbTypeOK
<1>4. CASE h # g
  <2>1. generations[h].state = "COMMITTED" /\ r \in Range(generation_rows[h])
    BY <1>1, <1>4 DEF TypeOK, DbTypeOK
  <2>2. rows[r] = h
    BY <2>1 DEF CommittedRowsArePresent
  <2>3. rows[r] # None
    BY <2>2, DatabaseAssumption
  <2> QED BY <1>1, <1>2, <2>2, <2>3
<1> QED BY <1>3, <1>4

\* The rows a deletion takes are its own generation's alone: a row is of one
\* generation, so no other has it in its ledger.
LEMMA DeleteKeepsRows ==
  ASSUME TypeOK, CommittedRowsArePresent, NEW g \in GenIds, Store!Delete(g)
  PROVE  CommittedRowsArePresent'
<1> SUFFICES ASSUME AppOps \cap {"update", "delete"} = {}, NEW h \in GenIds,
                    generations'[h].state = "COMMITTED", NEW r \in Range(generation_rows'[h])
             PROVE  rows'[r] = h
  BY DEF CommittedRowsArePresent, Range
<1>1. /\ generations[g].state = "COMMITTED"
      /\ generations' = [generations EXCEPT ![g].state = "DELETED"]
      /\ rows' = [q \in RowIds |-> IF q \in Range(generation_rows[g]) THEN None ELSE rows[q]]
      /\ generation_rows' = generation_rows
  BY DEF Store!Delete, Store!Range, Range
<1>2. h # g /\ generations[h].state = "COMMITTED"
  BY <1>1 DEF TypeOK, DbTypeOK
<1>3. rows[r] = h /\ \A q \in Range(generation_rows[g]) : rows[q] = g
  BY <1>1, <1>2 DEF CommittedRowsArePresent
<1>4. r \in RowIds
  <2>1. generation_rows[h] \in Seq(RowIds)
    BY DEF TypeOK, DbTypeOK
  <2> QED BY <1>1, <2>1 DEF Range
<1> QED BY <1>1, <1>2, <1>3, <1>4

\* An application that only inserts takes no row from a generation.
LEMMA DatabaseKeepsRows ==
  ASSUME IInv, CommittedRowsArePresent, DbNext
  PROVE  CommittedRowsArePresent'
<1>1. CASE \E s \in Sessions : ServerCommit(s)
  <2>1. PICK s \in Sessions : ServerCommit(s)
    BY <1>1
  <2>2. CASE tx[s].new # None
    BY <2>1, <2>2, InsertIsCommit, CommitInsert, CommitKeepsRows DEF IInv
  <2>3. CASE tx[s].new = None
    BY <2>1, <2>3, DeleteIsDelete, CommitDelete, DeleteKeepsRows DEF IInv
  <2> QED BY <2>2, <2>3
<1>2. CASE \E s \in Sessions : ServerAbort(s)
  BY <1>2 DEF ServerAbort, CommittedRowsArePresent, Range
<1>3. CASE \E r \in RowIds : AppInsert(r)
  <2>1. PICK r \in RowIds : AppInsert(r)
    BY <1>3
  <2>2. /\ rows[r] = None /\ rows' = [rows EXCEPT ![r] = App]
        /\ UNCHANGED <<generations, generation_rows>>
    BY <2>1 DEF AppInsert
  <2>3. \A q \in RowIds \ {r} : rows'[q] = rows[q]
    BY <2>2 DEF IInv, TypeOK, DbTypeOK
  <2>4. \A g \in GenIds : \A q \in Range(generation_rows[g]) : q \in RowIds
    BY DEF IInv, TypeOK, DbTypeOK, Range
  <2>5. \A g \in GenIds : g # None
    BY DatabaseAssumption
  <2> QED BY <2>2, <2>3, <2>4, <2>5 DEF CommittedRowsArePresent, Range
<1>4. CASE \E r \in RowIds : AppUpdate(r) \/ AppDelete(r)
  BY <1>4 DEF AppUpdate, AppDelete, CommittedRowsArePresent
<1>5. CASE \E r \in RowIds : AppAlter(r)
  BY <1>5 DEF AppAlter, CommittedRowsArePresent, Range
<1> QED BY <1>1, <1>2, <1>3, <1>4, <1>5 DEF DbNext

\* A COMMITTED generation has all its rows, for any number of generations whose
\* datasets overlap, as long as the application only inserts.
\* (sql_repository.py:203-282, 340-369)
THEOREM CommittedRows == Spec => []CommittedRowsArePresent
<1>1. Init => CommittedRowsArePresent
  BY DEF Init, DbInit, NoGeneration, CommittedRowsArePresent
<1>2. IInv /\ CommittedRowsArePresent /\ [Next]_vars => CommittedRowsArePresent'
  <2> SUFFICES ASSUME IInv, CommittedRowsArePresent, [Next]_vars
               PROVE  CommittedRowsArePresent'
    OBVIOUS
  <2>1. CASE DbNext
    BY <2>1, DatabaseKeepsRows
  <2>2. CASE UNCHANGED tables
    BY <2>2 DEF tables, CommittedRowsArePresent, Range
  <2>3. CASE ServiceNext
    BY <2>2, <2>3, ServiceIsPrivate
  <2>4. CASE UNCHANGED vars
    BY <2>2, <2>4 DEF vars, dbVars, tables
  <2> QED BY <2>1, <2>3, <2>4 DEF Next
<1> QED BY <1>1, <1>2, Invariance, PTL DEF Spec
=============================================================================
