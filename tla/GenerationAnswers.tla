-------------------------- MODULE GenerationAnswers --------------------------
(***************************************************************************)
(* What the clients of the service are told is true, for every value of    *)
(* the constants.  Two invariants are added to IInv: AnswerInv relates     *)
(* what a process is about to answer, or has answered, to what is          *)
(* committed or under way; OrderInv says that a ledger names a row once,   *)
(* and a parent before its children.  Then what keeps a request going:     *)
(* deadlocks are those the server sees, and no step sets a request back.   *)
(***************************************************************************)
EXTENDS GenerationProofs

\* An id is drawn once, for one POST.
DrawnOnce ==
    \A p, q \in Procs :
        (/\ p # q /\ req[p].op = "post" /\ req[q].op = "post"
         /\ req[p].gen # None) => req[q].gen # req[p].gen

\* What is stored, or on its way, under the id of a POST has its content.
OwnContent(p) ==
    (req[p].op = "post" /\ req[p].gen # None) =>
        /\ Stored(req[p].gen) => generations[req[p].gen].digest = req[p].digest
        /\ \A s \in Sessions : tx[s].new = req[p].gen => tx[s].digest = req[p].digest

\* The generation that p is to announce is that of its request.
Announced(p) ==
    /\ Stored(req[p].gen)
    /\ req[p].op = "post" => /\ generations[req[p].gen].slot = Slot(p)
                             /\ generations[req[p].gen].digest = req[p].digest
    /\ req[p].op = "delete" => /\ generations[req[p].gen].slot[1] = req[p].tenant
                               /\ generations[req[p].gen].state = "DELETED"

\* What session s of p deletes belongs to the tenant that asked, what it commits
\* is what p is to announce, and once it is committed it can be announced.
Promised(p, s) ==
    /\ pc[p] = "delete" => generations[req[p].gen].slot[1] = req[p].tenant
    /\ pc[p] = "commit" /\ tx[s].st = "commit" =>
          /\ req[p].op = "post" => /\ tx[s].new = req[p].gen /\ tx[s].slot = Slot(p)
                                   /\ tx[s].digest = req[p].digest
          /\ req[p].op = "delete" => /\ tx[s].new = None /\ tx[s].upd = req[p].gen
                                     /\ generations[req[p].gen].slot[1] = req[p].tenant
    /\ pc[p] = "commit" /\ tx[s].st = "done" => Announced(p)

\* What p has, will and may have told its client is true: an id is drawn after the
\* lookup of the key, and nothing is told before the request ends.
Honest(p) ==
    /\ req[p].op = "post" /\ pc[p] \in {"find", "generate"} => req[p].gen = None
    /\ OwnContent(p)
    /\ \A s \in Sessions : tx[s].client = p => Promised(p, s)
    /\ pc[p] # "idle" => answer[p].code = "none"
    /\ answer[p].code \in Success => answer[p].gen \in GenIds
    /\ AnswersAreTrue!(p)
    /\ RefusedPostIsGone!(p)

AnswerInv == DrawnOnce /\ \A p \in Procs : Honest(p)

\* A row is named once, and after the row it refers to.
Orderly(ledger) ==
    \A i, j \in DOMAIN ledger :
        /\ ledger[i] = ledger[j] => i = j
        /\ Parent[ledger[i]] = ledger[j] => j < i

OrderInv ==
    /\ \A p \in Procs : pc[p] = "insert" => Orderly(handled[p])
    /\ \A s \in Sessions : tx[s].new # None => Orderly(Dataset[tx[s].digest])
    /\ \A g \in GenIds : Stored(g) => Orderly(Dataset[generations[g].digest])
    /\ \A s \in Sessions : \A r \in tx[s].ins :
          Parent[r] # None => rows[Parent[r]] # None \/ Parent[r] \in tx[s].ins

-----------------------------------------------------------------------------
(* What a step leaves alone *)

\* No evidence is written and no row inserted: sessions go on or end.
Quiet ==
  \A s \in Sessions :
     /\ tx'[s].new # None => tx'[s].new = tx[s].new /\ tx'[s].digest = tx[s].digest
     /\ tx'[s].ins \in {tx[s].ins, {}}

\* Neither has a session that begins, or has ended.
LEMMA BlankIsQuiet ==
  ASSUME NEW st, NEW c
  PROVE  Blank(st, c).new = None /\ Blank(st, c).ins = {} /\ Blank(st, c).client = c
         /\ Blank(st, c).st = st
BY DEF Blank

\* A session that ends, or that changes none of this, is quiet.
LEMMA OneIsQuiet ==
  ASSUME IInv, NEW s \in Sessions, NEW new,
         tx' = [tx EXCEPT ![s] = new],
         \/ new.new = None /\ new.ins = {}
         \/ new.new = tx[s].new /\ new.digest = tx[s].digest /\ new.ins = tx[s].ins
  PROVE  Quiet
BY DEF IInv, TypeOK, DbTypeOK, Quiet

\* Nothing at all is quiet.
LEMMA SameIsQuiet == UNCHANGED tx => Quiet
BY DEF Quiet

\* So is a process that loses its sessions.
LEMMA DetachedIsQuiet ==
  ASSUME IInv, NEW p \in Procs, tx' = Detached(p)
  PROVE  Quiet
<1> SUFFICES ASSUME NEW s \in Sessions
             PROVE  /\ tx'[s].new # None => tx'[s].new = tx[s].new /\ tx'[s].digest = tx[s].digest
                    /\ tx'[s].ins \in {tx[s].ins, {}}
  BY DEF Quiet
<1>1. tx[s] \in Session
  BY DEF IInv, TypeOK, DbTypeOK
<1>2. Closed.new = None /\ Closed.ins = {}
  BY BlankIsQuiet DEF Closed
<1>3. /\ [tx[s] EXCEPT !.client = None].new = tx[s].new
      /\ [tx[s] EXCEPT !.client = None].digest = tx[s].digest
      /\ [tx[s] EXCEPT !.client = None].ins = tx[s].ins
  BY <1>1 DEF Session
<1>4. tx'[s] \in {tx[s], Closed, [tx[s] EXCEPT !.client = None]}
  BY DEF Detached
<1> QED BY <1>2, <1>3, <1>4

\* One INSERT succeeds.
Inserts(p, s) == InsertRow(p, s) /\ InsertOutcome(s, ToInsert(p)) = "ok"

\* Statements other than INSERT are quiet.
LEMMA StatementIsQuiet ==
  ASSUME IInv, NEW p \in Procs, NEW s \in Sessions, tx[s].client = p, InTransaction(p, s)
  PROVE  Quiet \/ Inserts(p, s) \/ WriteEvidence(p, s)
<1>1. tx[s] \in Session
  BY DEF IInv, TypeOK, DbTypeOK
<1>2. Closed.new = None /\ Closed.ins = {}
  BY BlankIsQuiet DEF Closed
<1>3. ASSUME NEW a, ReplyAndClose(p, s, a) PROVE Quiet
  BY <1>2, <1>3, OneIsQuiet DEF ReplyAndClose
<1>4. CASE AcquireLock(p, s)
  <2>1. tx' = [tx EXCEPT ![s] = [tx[s] EXCEPT !.lock = AdvisoryKey[Slot(p)]]]
    BY <1>4 DEF AcquireLock
  <2> QED BY <1>1, <2>1, OneIsQuiet DEF Session
<1>5. CASE Recheck(p, s)
  BY <1>3, <1>5, SameIsQuiet DEF Recheck
<1>6. CASE InsertRow(p, s)
  BY <1>3, <1>6 DEF InsertRow, Inserts
<1>7. CASE SelectForUpdate(p, s)
  <2>1. \/ \E a : ReplyAndClose(p, s, a)
        \/ tx' = [tx EXCEPT ![s] = [tx[s] EXCEPT !.upd = req[p].gen]]
    BY <1>7 DEF SelectForUpdate
  <2> QED BY <1>1, <1>3, <2>1, OneIsQuiet DEF Session
<1>8. CASE DeleteRow(p, s)
  <2>1. \/ \E a : ReplyAndClose(p, s, a)
        \/ tx' = [tx EXCEPT ![s] = [tx[s] EXCEPT !.del = @ \cup {ToDelete(p)}]]
    BY <1>8 DEF DeleteRow
  <2> QED BY <1>1, <1>3, <2>1, OneIsQuiet DEF Session
<1>9. CASE MarkDeleted(p, s)
  <2>1. tx' = [tx EXCEPT ![s] = [tx[s] EXCEPT !.st = "commit"]]
    BY <1>9 DEF MarkDeleted
  <2> QED BY <1>1, <2>1, OneIsQuiet DEF Session
<1>10. CASE Ack(p, s)
  BY <1>3, <1>10 DEF Ack
<1>11. CASE DeadlockDetected(p, s)
  BY <1>2, <1>11, OneIsQuiet DEF DeadlockDetected
<1> QED BY <1>4, <1>5, <1>6, <1>7, <1>8, <1>9, <1>10, <1>11 DEF InTransaction

\* So is every other step of a process.
LEMMA ServiceIsQuiet ==
  ASSUME IInv, NEW p \in Procs, AcceptRequest(p) \/ Serve(p) \/ ConnectionLost(p) \/ Crash(p)
  PROVE  \/ Quiet
         \/ \E s \in Sessions : tx[s].client = p /\ (Inserts(p, s) \/ WriteEvidence(p, s))
<1>1. CASE AcceptRequest(p)
  BY <1>1, SameIsQuiet DEF AcceptRequest, AcceptPost, AcceptGet, AcceptDelete, Accept
<1>2. CASE FindIdempotent(p) \/ Generate(p) \/ Get(p)
  BY <1>2, SameIsQuiet DEF FindIdempotent, Generate, Get, dbVars
<1>3. CASE Connect(p)
  <2>1. PICK s \in Sessions : tx' = [tx EXCEPT ![s] = Blank("open", p)]
    BY <1>3 DEF Connect
  <2>2. Blank("open", p).new = None /\ Blank("open", p).ins = {}
    BY DEF Blank
  <2>3. Quiet
    BY <2>1, <2>2, OneIsQuiet
  <2> QED BY <2>3
<1>4. CASE \E s \in Sessions : InTransaction(p, s)
  <2>1. PICK s \in Sessions : InTransaction(p, s)
    BY <1>4
  <2>2. tx[s].client = p
    BY <2>1 DEF InTransaction
  <2> QED BY <2>1, <2>2, StatementIsQuiet
<1>5. CASE ConnectionLost(p) \/ Crash(p)
  BY <1>5, DetachedIsQuiet DEF ConnectionLost, Crash
<1>6. Serve(p) => \/ FindIdempotent(p) \/ Generate(p) \/ Connect(p) \/ Get(p)
                  \/ \E s \in Sessions : InTransaction(p, s)
  BY DEF Serve
<1> QED BY <1>1, <1>2, <1>3, <1>4, <1>5, <1>6

-----------------------------------------------------------------------------
(* The order of a ledger *)

\* A quiet step that keeps the tables keeps the order, if it begins no loop but
\* with an empty hand.
LEMMA OrderFrame ==
  ASSUME OrderInv, Quiet, UNCHANGED <<generations, rows>>,
         \A p \in Procs : pc'[p] = "insert" =>
            handled'[p] = << >> \/ (pc[p] = "insert" /\ handled'[p] = handled[p])
  PROVE  OrderInv'
<1>1. Orderly(<< >>)
  BY DEF Orderly
<1>2. ASSUME NEW p \in Procs, pc'[p] = "insert" PROVE Orderly(handled'[p])
  BY <1>1, <1>2 DEF OrderInv
<1>3. \A s \in Sessions : tx'[s].new # None => Orderly(Dataset[tx'[s].digest])
  BY DEF OrderInv, Quiet
<1>4. \A g \in GenIds : Stored(g)' => Orderly(Dataset[generations'[g].digest])
  BY DEF OrderInv, Stored
<1>5. \A s \in Sessions : \A r \in tx'[s].ins :
         Parent[r] # None => rows'[Parent[r]] # None \/ Parent[r] \in tx'[s].ins
  BY DEF OrderInv, Quiet
<1> QED BY <1>2, <1>3, <1>4, <1>5 DEF OrderInv, Orderly

\* Where a step of p leads to the loop over the dataset.
LEMMA LoopBegins ==
  ASSUME IInv, NEW p \in Procs, AcceptRequest(p) \/ Serve(p) \/ ConnectionLost(p) \/ Crash(p)
  PROVE  \/ \A q \in Procs : pc'[q] = "insert" =>
               handled'[q] = << >> \/ (pc[q] = "insert" /\ handled'[q] = handled[q])
         \/ \E s \in Sessions : tx[s].client = p /\ Inserts(p, s)
<1> DEFINE Goal == \A q \in Procs : pc'[q] = "insert" =>
                      handled'[q] = << >> \/ (pc[q] = "insert" /\ handled'[q] = handled[q])
<1>1. pc \in [Procs -> Labels] /\ handled \in [Procs -> Seq(RowIds)]
  BY DEF IInv, TypeOK, ServiceTypeOK
<1>2. ASSUME NEW label, label # "insert", pc' = [pc EXCEPT ![p] = label],
             handled' = [handled EXCEPT ![p] = << >>] \/ UNCHANGED handled
      PROVE  Goal
  BY <1>1, <1>2
<1>3. ASSUME NEW a, Reply(p, a) PROVE Goal
  BY <1>2, <1>3 DEF Reply, Goto
<1>4. ASSUME NEW s \in Sessions, NEW a, ReplyAndClose(p, s, a) PROVE Goal
  BY <1>3, <1>4 DEF ReplyAndClose
<1>5. CASE AcceptRequest(p)
  <2>1. \E label \in {"find", "get", "connect"} : pc' = [pc EXCEPT ![p] = label] /\ UNCHANGED handled
    BY <1>5 DEF AcceptRequest, AcceptPost, AcceptGet, AcceptDelete, Accept, Goto
  <2> QED BY <1>2, <2>1
<1>6. CASE FindIdempotent(p) \/ Generate(p) \/ Get(p)
  <2>1. \/ \E label \in {"generate", "connect"} : pc' = [pc EXCEPT ![p] = label] /\ UNCHANGED handled
        \/ \E a : Reply(p, a)
    BY <1>6 DEF FindIdempotent, Generate, Get, Goto
  <2> QED BY <1>2, <1>3, <2>1
<1>7. CASE Connect(p)
  <2>1. \E label \in {"lock", "select"} : pc' = [pc EXCEPT ![p] = label]
    BY <1>7 DEF Connect, Goto
  <2> QED BY <1>2, <1>7, <2>1 DEF Connect
<1>8. ASSUME NEW s \in Sessions, InTransaction(p, s), ~Inserts(p, s) PROVE Goal
  <2>1. CASE AcquireLock(p, s)
    BY <1>2, <2>1 DEF AcquireLock, Goto
  <2>2. CASE Recheck(p, s)
    <3>1. handled[p] = << >>
      BY <2>2 DEF Recheck, IInv, LoopShape
    <3> QED BY <1>1, <1>4, <2>2, <3>1 DEF Recheck, Goto
  <2>3. CASE InsertRow(p, s)
    BY <1>4, <1>8, <2>3 DEF InsertRow, Inserts
  <2>4. CASE WriteEvidence(p, s)
    BY <1>2, <1>4, <2>4 DEF WriteEvidence, Goto
  <2>5. CASE SelectForUpdate(p, s)
    BY <1>2, <1>4, <2>5 DEF SelectForUpdate, Goto
  <2>6. CASE DeleteRow(p, s)
    BY <1>1, <1>4, <2>6 DEF DeleteRow
  <2>7. CASE MarkDeleted(p, s)
    BY <1>2, <2>7 DEF MarkDeleted, Goto
  <2>8. CASE Ack(p, s)
    BY <1>4, <2>8 DEF Ack
  <2>9. CASE DeadlockDetected(p, s)
    <3>1. pc[p] \notin {"idle", "generate"}
      BY <1>8 DEF IInv, Serving, ServingAt, InTransaction
    <3>2. Left(p)
      BY <2>9, <3>1, RetryLeaves DEF DeadlockDetected
    <3> QED BY <1>2, <3>2 DEF Left
  <2> QED BY <1>8, <2>1, <2>2, <2>3, <2>4, <2>5, <2>6, <2>7, <2>8, <2>9 DEF InTransaction
<1>9. CASE ConnectionLost(p)
  <2>1. Left(p)
    BY <1>9, RetryLeaves DEF ConnectionLost
  <2> QED BY <1>2, <2>1 DEF Left
<1>10. CASE Crash(p)
  BY <1>2, <1>10 DEF Crash, Goto
<1>11. Serve(p) => \/ FindIdempotent(p) \/ Generate(p) \/ Connect(p) \/ Get(p)
                   \/ \E s \in Sessions : tx[s].client = p /\ InTransaction(p, s)
  BY DEF Serve, InTransaction
<1>12. CASE \E s \in Sessions : tx[s].client = p /\ InTransaction(p, s)
  <2>1. PICK s \in Sessions : tx[s].client = p /\ InTransaction(p, s)
    BY <1>12
  <2> QED BY <1>8, <2>1
<1> QED BY <1>5, <1>6, <1>7, <1>9, <1>10, <1>11, <1>12

\* One more row, that is not there yet and whose parent is, keeps the order.
LEMMA AppendIsOrderly ==
  ASSUME NEW written \in Seq(RowIds), Orderly(written), NEW r \in RowIds,
         r \notin Range(written),
         \A i \in DOMAIN written : Parent[written[i]] # r
  PROVE  Orderly(Append(written, r))
<1> DEFINE longer == Append(written, r)
<1>1. /\ Len(written) \in Nat /\ DOMAIN written = 1 .. Len(written)
      /\ DOMAIN longer = 1 .. (Len(written) + 1)
      /\ longer[Len(written) + 1] = r
      /\ \A i \in 1 .. Len(written) : longer[i] = written[i] /\ longer[i] # r /\ Parent[longer[i]] # r
  BY DEF Range
<1>2. Parent[r] # r
  BY DatabaseAssumption
<1> HIDE DEF longer
<1>3. ASSUME NEW i \in DOMAIN longer, NEW j \in DOMAIN longer
      PROVE  (longer[i] = longer[j] => i = j) /\ (Parent[longer[i]] = longer[j] => j < i)
  <2>1. CASE i <= Len(written) /\ j <= Len(written)
    BY <1>1, <2>1 DEF Orderly
  <2>2. CASE i = Len(written) + 1 \/ j = Len(written) + 1
    BY <1>1, <1>2, <2>2
  <2> QED BY <1>1, <2>1, <2>2
<1>4. Orderly(longer)
  BY <1>3 DEF Orderly
<1> QED BY <1>4 DEF longer

\* INSERT keeps the order: the unique index refuses a row that is there, the
\* foreign key a row whose parent is not.
LEMMA InsertOrder ==
  ASSUME IInv, OrderInv, NEW p \in Procs, NEW s \in Sessions, tx[s].client = p, Inserts(p, s)
  PROVE  OrderInv'
<1> DEFINE r == ToInsert(p)
<1>1. /\ handled[p] \in Seq(RowIds) /\ Dataset[req[p].digest] \in Seq(RowIds) /\ tx[s] \in Session
      /\ pc[p] = "insert" /\ Len(handled[p]) < Len(Dataset[req[p].digest])
  BY DatabaseAssumption DEF IInv, TypeOK, DbTypeOK, ServiceTypeOK, RequestShape, InPost, Inserts, InsertRow
<1>2. r \in RowIds
  BY <1>1 DEF ToInsert
<1>3. /\ tx' = [tx EXCEPT ![s] = [tx[s] EXCEPT !.ins = @ \cup {r}]]
      /\ handled' = [handled EXCEPT ![p] = Append(handled[p], r)]
      /\ UNCHANGED <<generations, rows, pc>>
  BY DEF Inserts, InsertRow
<1>4. tx[s].ins = Range(handled[p]) /\ tx[s].del = {}
  BY <1>1 DEF IInv, Serving, ServingAt
<1>5. ~Sees(s, r) /\ (Parent[r] # None => Sees(s, Parent[r]))
  BY DEF Inserts, InsertOutcome
<1> HIDE DEF r
<1>6. /\ \A t \in Sessions \ {s} : tx'[t] = tx[t]
      /\ tx'[s].ins = tx[s].ins \cup {r} /\ tx'[s].new = tx[s].new /\ tx'[s].digest = tx[s].digest
  BY <1>1, <1>3 DEF IInv, TypeOK, DbTypeOK, Session
<1>7. handled'[p] = Append(handled[p], r) /\ \A q \in Procs \ {p} : handled'[q] = handled[q]
  BY <1>3 DEF IInv, TypeOK, ServiceTypeOK
<1>8. Orderly(handled'[p])
  <2>1. r \notin Range(handled[p]) /\ rows[r] = None
    BY <1>4, <1>5 DEF Sees
  <2>2. ASSUME NEW i \in DOMAIN handled[p] PROVE Parent[handled[p][i]] # r
    <3>1. handled[p][i] \in tx[s].ins
      BY <1>4 DEF Range
    <3>2. r # None
      BY <1>2, DatabaseAssumption
    <3> QED BY <1>4, <2>1, <3>1, <3>2 DEF OrderInv
  <2>3. Orderly(handled[p])
    BY <1>1 DEF OrderInv
  <2>4. Orderly(Append(handled[p], r))
    BY <1>1, <1>2, <2>1, <2>2, <2>3, AppendIsOrderly
  <2> QED BY <1>7, <2>4
<1>9. \A q \in Procs : pc[q] = "insert" => Orderly(handled'[q])
  BY <1>7, <1>8 DEF OrderInv
<1>10. \A t \in Sessions : tx'[t].new # None => Orderly(Dataset[tx'[t].digest])
  BY <1>6 DEF OrderInv
<1>11. \A g \in GenIds : Stored(g)' => Orderly(Dataset[generations'[g].digest])
  BY <1>3 DEF OrderInv, Stored
<1>12. \A t \in Sessions : \A c \in tx'[t].ins :
          Parent[c] # None => rows[Parent[c]] # None \/ Parent[c] \in tx'[t].ins
  BY <1>4, <1>5, <1>6 DEF OrderInv, Sees
<1> QED BY <1>3, <1>9, <1>10, <1>11, <1>12 DEF OrderInv, Orderly

\* What a process does keeps the order.
LEMMA ServiceOrder ==
  ASSUME IInv, OrderInv, NEW p \in Procs,
         AcceptRequest(p) \/ Serve(p) \/ ConnectionLost(p) \/ Crash(p)
  PROVE  OrderInv'
<1>1. UNCHANGED tables
  BY ServiceIsPrivate DEF ServiceNext
<1>3. CASE /\ Quiet
           /\ \A q \in Procs : pc'[q] = "insert" =>
                 handled'[q] = << >> \/ (pc[q] = "insert" /\ handled'[q] = handled[q])
  BY <1>1, <1>3, OrderFrame DEF tables
<1>4. ASSUME NEW s \in Sessions, tx[s].client = p, WriteEvidence(p, s)
      PROVE  OrderInv'
  <2>1. /\ req[p].digest \in Digests /\ Slot(p) \in Slots /\ req[p].gen \in GenIds
        /\ handled[p] \in Seq(RowIds) /\ Dataset[req[p].digest] \in Seq(RowIds)
        /\ tx[s] \in Session /\ Existing(Slot(p)) = {} /\ tx[s].client = p
    BY <1>4, DatabaseAssumption
    DEF IInv, TypeOK, DbTypeOK, ServiceTypeOK, RequestShape, InPost, Slot, Slots, WriteEvidence,
        Serving, ServingAt
  <2> DEFINE new == [tx[s] EXCEPT !.st = "commit", !.new = req[p].gen, !.slot = Slot(p),
                                  !.digest = req[p].digest, !.ledger = handled[p]]
  <2>2. /\ tx' = [tx EXCEPT ![s] = new] /\ pc' = [pc EXCEPT ![p] = "commit"]
        /\ UNCHANGED <<generations, rows, handled>>
        /\ pc[p] = "insert" /\ Len(handled[p]) = Len(Dataset[req[p].digest])
    BY <1>4, <2>1 DEF WriteEvidence, Goto
  <2>3. new.ins = tx[s].ins /\ new.digest = req[p].digest
    BY <2>1 DEF Session
  <2> HIDE DEF new
  <2>4. handled[p] = Dataset[req[p].digest]
    BY <2>1, <2>2, SameElements DEF IInv, LoopShape
  <2>5. tx'[s] = new /\ \A t \in Sessions \ {s} : tx'[t] = tx[t]
    BY <2>2 DEF IInv, TypeOK, DbTypeOK
  <2>6. Orderly(Dataset[req[p].digest])
    BY <2>2, <2>4 DEF OrderInv
  <2>7. \A t \in Sessions : tx'[t].new # None => Orderly(Dataset[tx'[t].digest])
    BY <2>3, <2>5, <2>6 DEF OrderInv
  <2>8. \A q \in Procs : pc'[q] = "insert" => Orderly(handled'[q])
    BY <2>2 DEF OrderInv, IInv, TypeOK, ServiceTypeOK
  <2>9. \A g \in GenIds : Stored(g)' => Orderly(Dataset[generations'[g].digest])
    BY <2>2 DEF OrderInv, Stored
  <2>10. \A t \in Sessions : \A c \in tx'[t].ins :
            Parent[c] # None => rows'[Parent[c]] # None \/ Parent[c] \in tx'[t].ins
    BY <2>2, <2>3, <2>5 DEF OrderInv
  <2> QED BY <2>7, <2>8, <2>9, <2>10 DEF OrderInv, Orderly
<1>5. CASE ~ \E s \in Sessions : tx[s].client = p /\ (Inserts(p, s) \/ WriteEvidence(p, s))
  <2>1. Quiet
    BY <1>5, ServiceIsQuiet
  <2>2. \A q \in Procs : pc'[q] = "insert" =>
            handled'[q] = << >> \/ (pc[q] = "insert" /\ handled'[q] = handled[q])
    BY <1>5, LoopBegins
  <2> QED BY <1>3, <2>1, <2>2
<1>6. CASE \E s \in Sessions : tx[s].client = p /\ (Inserts(p, s) \/ WriteEvidence(p, s))
  <2>1. PICK s \in Sessions : tx[s].client = p /\ (Inserts(p, s) \/ WriteEvidence(p, s))
    BY <1>6
  <2>2. CASE Inserts(p, s)
    BY <2>1, <2>2, InsertOrder
  <2>3. CASE WriteEvidence(p, s)
    BY <1>4, <2>1, <2>3
  <2> QED BY <2>1, <2>2, <2>3
<1> QED BY <1>5, <1>6

\* COMMIT keeps the order: it removes no parent of a row on its way.
LEMMA CommitOrder ==
  ASSUME IInv, OrderInv, NEW s \in Sessions, ServerCommit(s), UNCHANGED serviceVars
  PROVE  OrderInv'
<1>1. /\ \A t \in Sessions \ {s} : tx'[t] = tx[t]
      /\ tx'[s].new = None /\ tx'[s].ins = {}
  <2>1. tx'[s] = (IF tx[s].client = None THEN Closed ELSE Blank("done", tx[s].client))
    BY CommitLeavesOthers
  <2> QED BY <2>1, CommitLeavesOthers DEF Closed, Blank
<1>2. \A q \in Procs : pc'[q] = "insert" => Orderly(handled'[q])
  BY DEF serviceVars, OrderInv
<1>3. \A t \in Sessions : tx'[t].new # None => Orderly(Dataset[tx'[t].digest])
  BY <1>1 DEF OrderInv
<1>4. CASE tx[s].new # None
  <2>1. PICK g \in GenIds, d \in Digests : tx[s].new = g /\ tx[s].digest = d
    BY <1>4, CommitInsert
  <2>2. generations' = [generations EXCEPT ![g] =
              [state |-> "COMMITTED", slot |-> tx[s].slot, digest |-> d]]
    BY <1>4, <2>1, CommitInsert
  <2>3. Orderly(Dataset[d])
    BY <1>4, <2>1 DEF OrderInv
  <2>4. generations'[g].digest = d /\ \A h \in GenIds \ {g} : generations'[h] = generations[h]
    BY <2>2 DEF IInv, TypeOK, DbTypeOK
  <2>5. \A h \in GenIds : Stored(h)' => Orderly(Dataset[generations'[h].digest])
    BY <2>3, <2>4 DEF OrderInv, Stored
  <2>6. \A r \in RowIds : rows[r] # None => rows'[r] # None
    <3>1. rows' = [r \in RowIds |-> IF r \in tx[s].ins THEN tx[s].new ELSE rows[r]]
      BY <1>4, CommitInsert
    <3> QED BY <1>4, <3>1
  <2>7. \A t \in Sessions : \A c \in tx'[t].ins :
            Parent[c] # None => rows'[Parent[c]] # None \/ Parent[c] \in tx'[t].ins
    <3>1. \A t \in Sessions : \A c \in tx[t].ins : Parent[c] \in RowIds \cup {None}
      BY DatabaseAssumption DEF IInv, TypeOK, DbTypeOK, Session
    <3> QED BY <1>1, <2>6, <3>1 DEF OrderInv
  <2> QED BY <1>2, <1>3, <2>5, <2>7 DEF OrderInv, Orderly
<1>5. CASE tx[s].new = None
  <2>1. PICK g \in GenIds : tx[s].upd = g /\ generations[g].state = "COMMITTED"
    BY <1>5, CommitDelete
  <2>2. generations' = [generations EXCEPT ![g] = [generations[g] EXCEPT !.state = "DELETED"]]
    BY <1>5, <2>1, CommitDelete
  <2>3. \A h \in GenIds : generations'[h].digest = generations[h].digest
                          /\ (h # g => generations'[h] = generations[h])
    BY <2>2 DEF IInv, TypeOK, DbTypeOK, GenerationRow
  <2>4. \A h \in GenIds : Stored(h)' => Orderly(Dataset[generations'[h].digest])
    BY <2>1, <2>3 DEF OrderInv, Stored
  <2>5. ASSUME NEW t \in Sessions, NEW c \in tx'[t].ins, Parent[c] # None
        PROVE  rows'[Parent[c]] # None \/ Parent[c] \in tx'[t].ins
    <3>1. t # s /\ tx'[t] = tx[t]
      BY <1>1
    <3>2. c \in RowIds /\ Parent[c] \in RowIds
      BY <2>5, <3>1, DatabaseAssumption DEF IInv, TypeOK, DbTypeOK, Session
    <3>3. Parent[c] \notin tx[s].del
      BY <3>1, <3>2 DEF IInv, WritesFit
    <3>4. rows'[Parent[c]] = rows[Parent[c]]
      <4>1. rows' = [r \in RowIds |-> IF r \in tx[s].del THEN None ELSE rows[r]]
        BY <1>5, CommitDelete
      <4> QED BY <3>2, <3>3, <4>1
    <3> QED BY <2>5, <3>1, <3>4 DEF OrderInv
  <2> QED BY <1>2, <1>3, <2>4, <2>5 DEF OrderInv, Orderly
<1> QED BY <1>4, <1>5

\* So does what the server and the application do.
LEMMA DatabaseOrder ==
  ASSUME IInv, OrderInv, DbNext, UNCHANGED serviceVars
  PROVE  OrderInv'
<1>1. ASSUME NEW s \in Sessions, ServerAbort(s) PROVE OrderInv'
  <2>1. Closed.new = None /\ Closed.ins = {}
    BY DEF Closed, Blank
  <2>2. Quiet
    BY <1>1, <2>1, OneIsQuiet DEF ServerAbort
  <2> QED BY <1>1, <2>2, OrderFrame DEF ServerAbort, serviceVars
<1>2. ASSUME NEW r \in RowIds, AppInsert(r) \/ AppUpdate(r) \/ AppDelete(r) \/ AppAlter(r)
      PROVE  OrderInv'
  <2>1. UNCHANGED <<pc, handled, tx, generations>>
    BY <1>2 DEF serviceVars, AppInsert, AppUpdate, AppDelete, AppAlter
  <2>2. ASSUME NEW t \in Sessions, NEW c \in tx[t].ins, Parent[c] # None
        PROVE  rows'[Parent[c]] # None \/ Parent[c] \in tx[t].ins
    <3>1. c \in RowIds /\ Parent[c] \in RowIds
      BY <2>2, DatabaseAssumption DEF IInv, TypeOK, DbTypeOK, Session
    <3>2. rows[Parent[c]] # None \/ Parent[c] \in tx[t].ins
      BY <2>2 DEF OrderInv
    <3>3. CASE AppInsert(r) \/ AppUpdate(r) \/ AppAlter(r)
      BY <3>1, <3>2, <3>3, DatabaseAssumption
      DEF AppInsert, AppUpdate, AppAlter, IInv, TypeOK, DbTypeOK
    <3>4. CASE AppDelete(r)
      <4>1. Parent[c] # r
        BY <3>1, <3>4 DEF AppDelete, Held, Children
      <4> QED BY <3>1, <3>2, <3>4, <4>1 DEF AppDelete, IInv, TypeOK, DbTypeOK
    <3> QED BY <1>2, <3>3, <3>4
  <2> QED BY <2>1, <2>2 DEF OrderInv, Orderly, Stored
<1> QED BY <1>1, <1>2, CommitOrder DEF DbNext

\* The order of ledgers is an invariant of the service.
THEOREM LedgersAreOrderly == Spec => []OrderInv
<1>1. Init => OrderInv
  BY DEF Init, DbInit, OrderInv, Closed, Blank, Stored, NoGeneration
<1>2. IInv /\ OrderInv /\ [Next]_vars => OrderInv'
  <2> SUFFICES ASSUME IInv, OrderInv, [Next]_vars PROVE OrderInv'
    OBVIOUS
  <2>1. CASE UNCHANGED vars
    BY <2>1 DEF vars, OrderInv, Orderly, Stored
  <2>2. CASE DbNext /\ UNCHANGED serviceVars
    BY <2>2, DatabaseOrder
  <2>3. CASE ServiceNext
    BY <2>3, ServiceOrder DEF ServiceNext
  <2> QED BY <2>1, <2>2, <2>3 DEF Next
<1> QED BY <1>1, <1>2, Invariance, PTL DEF Spec

-----------------------------------------------------------------------------
(* Who is told of a conflict *)

\* A process answers its own client only.
LEMMA ServesItsOwn ==
  ASSUME IInv, NEW p \in Procs, AcceptRequest(p) \/ Serve(p) \/ ConnectionLost(p) \/ Crash(p)
  PROVE  \A q \in Procs \ {p} : UNCHANGED <<pc[q], req[q], answer[q]>>
<1> DEFINE Own == \A q \in Procs \ {p} : UNCHANGED <<pc[q], req[q], answer[q]>>
<1>1. /\ pc \in [Procs -> Labels] /\ req \in [Procs -> Request] /\ answer \in [Procs -> Answer]
  BY DEF IInv, TypeOK, ServiceTypeOK
<1>2. ASSUME NEW label, Goto(p, label), UNCHANGED <<req, answer>> PROVE Own
  BY <1>1, <1>2 DEF Goto
<1>3. ASSUME NEW a, Reply(p, a) PROVE Own
  BY <1>1, <1>3 DEF Reply, Goto
<1>4. ASSUME NEW s \in Sessions, NEW a, ReplyAndClose(p, s, a) PROVE Own
  BY <1>3, <1>4 DEF ReplyAndClose
<1>5. CASE AcceptRequest(p)
  <2>1. \E label, r : /\ pc' = [pc EXCEPT ![p] = label] /\ req' = [req EXCEPT ![p] = r]
                      /\ answer' = [answer EXCEPT ![p] = NoAnswer]
    BY <1>5 DEF AcceptRequest, AcceptPost, AcceptGet, AcceptDelete, Accept, Goto
  <2> QED BY <1>1, <2>1
<1>6. CASE FindIdempotent(p) \/ Get(p)
  BY <1>2, <1>3, <1>6 DEF FindIdempotent, Get
<1>7. CASE Generate(p)
  <2>1. \/ \E a : Reply(p, a)
        \/ \E g : /\ pc' = [pc EXCEPT ![p] = "connect"]
                  /\ req' = [req EXCEPT ![p].gen = g] /\ UNCHANGED answer
    BY <1>7 DEF Generate, Goto
  <2> QED BY <1>1, <1>3, <2>1
<1>8. CASE Connect(p)
  BY <1>2, <1>8 DEF Connect
<1>9. ASSUME NEW s \in Sessions, InTransaction(p, s) PROVE Own
  <2>1. CASE AcquireLock(p, s) \/ Recheck(p, s) \/ WriteEvidence(p, s)
    BY <1>2, <1>4, <2>1 DEF AcquireLock, Recheck, WriteEvidence
  <2>2. CASE SelectForUpdate(p, s) \/ MarkDeleted(p, s) \/ Ack(p, s)
    BY <1>2, <1>4, <2>2 DEF SelectForUpdate, MarkDeleted, Ack
  <2>3. CASE InsertRow(p, s) \/ DeleteRow(p, s)
    BY <1>4, <2>3 DEF InsertRow, DeleteRow
  <2>4. CASE DeadlockDetected(p, s)
    BY <1>2, <1>3, <2>4 DEF DeadlockDetected, RetryOrGiveUp
  <2> QED BY <1>9, <2>1, <2>2, <2>3, <2>4 DEF InTransaction
<1>10. CASE ConnectionLost(p) \/ Crash(p)
  BY <1>2, <1>3, <1>10 DEF ConnectionLost, Crash, RetryOrGiveUp
<1>11. CASE \E s \in Sessions : InTransaction(p, s)
  BY <1>9, <1>11
<1>12. Serve(p) => \/ FindIdempotent(p) \/ Generate(p) \/ Connect(p) \/ Get(p)
                   \/ \E s \in Sessions : InTransaction(p, s)
  BY DEF Serve
<1> QED BY <1>5, <1>6, <1>7, <1>8, <1>10, <1>11, <1>12

\* What a client is told, in a step of the process that serves it.
LEMMA Speaker ==
  ASSUME IInv, [Next]_vars, NEW p \in Procs, answer'[p] # answer[p]
  PROVE  AcceptRequest(p) \/ Serve(p) \/ ConnectionLost(p)
<1>1. ~UNCHANGED vars /\ ~(DbNext /\ UNCHANGED serviceVars)
  BY DEF vars, serviceVars
<1>2. PICK q \in Procs : AcceptRequest(q) \/ Serve(q) \/ ConnectionLost(q) \/ Crash(q)
  BY <1>1 DEF Next, ServiceNext
<1>3. q = p
  BY <1>2, ServesItsOwn
<1>4. ~Crash(q)
  BY <1>3 DEF Crash
<1> QED BY <1>2, <1>3, <1>4

Conflicts == {"DESTINATION_CONFLICT", "DELETE_CONFLICT"}

\* Only INSERT and DELETE are answered by a conflict: under the lock the key of a
\* POST is still free when its evidence is written.
LEMMA ConflictTold ==
  ASSUME IInv, NEW p \in Procs, AcceptRequest(p) \/ Serve(p) \/ ConnectionLost(p),
         answer'[p] # answer[p], answer'[p].code \in Conflicts
  PROVE  \E s \in Sessions :
            /\ tx[s].client = p
            /\ \/ InsertRow(p, s) /\ answer'[p].code = InsertOutcome(s, ToInsert(p))
               \/ DeleteRow(p, s) /\ answer'[p].code = DeleteOutcome(s, ToDelete(p))
<1>1. answer \in [Procs -> Answer]
  BY DEF IInv, TypeOK, ServiceTypeOK
<1>2. ASSUME NEW a, Reply(p, a) PROVE a.code \in Conflicts /\ answer'[p] = a
  BY <1>1, <1>2 DEF Reply
<1>3. ASSUME NEW code, Reply(p, Refused(code)) PROVE code \in Conflicts /\ answer'[p].code = code
  BY <1>2, <1>3 DEF Refused
<1>4. ASSUME NEW g, Reply(p, Replayed(p, g)) PROVE FALSE
  BY <1>2, <1>4 DEF Replayed, Refused, Conflicts
<1>5. ~AcceptRequest(p)
  BY <1>1 DEF AcceptRequest, AcceptPost, AcceptGet, AcceptDelete, Accept, NoAnswer, Refused, Conflicts
<1>6. ~FindIdempotent(p)
  BY <1>4 DEF FindIdempotent
<1>7. ~Generate(p)
  <2>1. Generate(p) => Refusal[req[p].digest] \notin Conflicts
    BY ServiceAssumption DEF Generate, IInv, RequestShape, InPost, Conflicts
  <2> QED BY <1>3, <2>1 DEF Generate, Conflicts
<1>8. ~Connect(p)
  BY DEF Connect
<1>9. ~Get(p)
  BY <1>2 DEF Get, Found, Refused, Conflicts
<1>10. ~RetryOrGiveUp(p)
  BY <1>3 DEF RetryOrGiveUp, Conflicts
<1>11. PICK s \in Sessions : InTransaction(p, s) /\ tx[s].client = p
  BY <1>5, <1>6, <1>7, <1>8, <1>9, <1>10 DEF Serve, ConnectionLost, InTransaction
<1>12. ASSUME NEW a, ReplyAndClose(p, s, a) PROVE a.code \in Conflicts /\ answer'[p] = a
  BY <1>2, <1>12 DEF ReplyAndClose
<1>13. ~AcquireLock(p, s) /\ ~MarkDeleted(p, s)
  BY DEF AcquireLock, MarkDeleted
<1>14. ~Recheck(p, s)
  BY <1>4 DEF Recheck, ReplyAndClose
<1>15. ~WriteEvidence(p, s)
  BY <1>11 DEF WriteEvidence, IInv, Serving, ServingAt
<1>16. ~SelectForUpdate(p, s)
  BY <1>12 DEF SelectForUpdate, Found, Refused, Conflicts
<1>17. ~Ack(p, s)
  BY <1>12 DEF Ack, Conflicts
<1>18. ~DeadlockDetected(p, s)
  BY <1>10 DEF DeadlockDetected
<1>19. InsertRow(p, s) => answer'[p].code = InsertOutcome(s, ToInsert(p))
  BY <1>12 DEF InsertRow, Refused
<1>20. DeleteRow(p, s) => answer'[p].code = DeleteOutcome(s, ToDelete(p))
  BY <1>12 DEF DeleteRow, Refused
<1> QED BY <1>11, <1>13, <1>14, <1>15, <1>16, <1>17, <1>18, <1>19, <1>20 DEF InTransaction

\* A ledger of m rows is read backwards: after k rows comes row m - k, and the
\* rows read are those that come after it.
LEMMA Backwards ==
  ASSUME NEW m \in Nat, NEW k \in Nat, k < m
  PROVE  /\ \A i \in 1 .. k : m + 1 - i \in 1 .. m /\ m + 1 - i # m - k
         /\ \A j \in 1 .. m : m - k < j => m + 1 - j \in 1 .. k /\ m + 1 - (m + 1 - j) = j
OBVIOUS

\* The loop of a deletion is at a row of the ledger.
LEMMA ToDeleteType ==
  ASSUME IInv, NEW p \in Procs, pc[p] = "delete",
         Len(handled[p]) < Len(generation_rows[req[p].gen])
  PROVE  ToDelete(p) \in RowIds
<1> DEFINE written == generation_rows[req[p].gen]
           done == handled[p]
<1>1. written \in Seq(RowIds) /\ done \in Seq(RowIds)
  BY DEF IInv, TypeOK, DbTypeOK, ServiceTypeOK, RequestShape, InDelete
<1>2. ToDelete(p) = written[Len(written) - Len(done)] /\ Len(done) < Len(written)
  BY DEF ToDelete
<1> HIDE DEF written, done
<1>3. Len(written) \in Nat /\ Len(done) \in Nat
  BY <1>1
<1>4. Len(written) - Len(done) \in 1 .. Len(written)
  BY <1>2, <1>3, Countdown
<1> QED BY <1>1, <1>2, <1>4

\* A POST that INSERT refuses holds the lock of a key that is free.
LEMMA ConflictHasFreeKey ==
  ASSUME IInv, [Next]_vars, NEW p \in Procs,
         answer'[p].code = "DESTINATION_CONFLICT", answer[p].code # "DESTINATION_CONFLICT"
  PROVE  Existing(Slot(p)) = {}
<1>1. PICK s \in Sessions :
         /\ tx[s].client = p
         /\ \/ InsertRow(p, s)
            \/ DeleteRow(p, s) /\ DeleteOutcome(s, ToDelete(p)) = "DESTINATION_CONFLICT"
  BY Speaker, ConflictTold DEF Conflicts
<1>2. CASE InsertRow(p, s)
  BY <1>1, <1>2 DEF InsertRow, IInv, Serving, ServingAt
<1>3. CASE DeleteRow(p, s) /\ DeleteOutcome(s, ToDelete(p)) = "DESTINATION_CONFLICT"
  <2>1. ToDelete(p) \in RowIds
    BY <1>3, ToDeleteType DEF DeleteRow
  <2>2. access[ToDelete(p)] # "DESTINATION_CONFLICT"
    BY <2>1 DEF IInv, TypeOK, DbTypeOK, Access
  <2> QED BY <1>3, <2>2 DEF DeleteOutcome
<1> QED BY <1>1, <1>2, <1>3

\* DESTINATION_CONFLICT is never the answer to a POST whose own key names a
\* generation, for any schedule of retries and lost acknowledgements.
THEOREM ConflictsAreNotReplays == Spec => ConflictIsNotAReplay
<1>1. IInv /\ [Next]_vars =>
         [\A p \in Procs :
            (/\ answer'[p].code = "DESTINATION_CONFLICT"
             /\ answer[p].code # "DESTINATION_CONFLICT") => Existing(Slot(p)) = {}]_vars
  BY ConflictHasFreeKey
<1> QED BY <1>1, Invariance, PTL DEF Spec, ConflictIsNotAReplay

\* The row that a deletion comes to is the last of the ledger it has not deleted,
\* and none that is left of the ledger refers to it.
LEMMA NextToDelete ==
  ASSUME IInv, OrderInv, NEW p \in Procs, pc[p] = "delete",
         Len(handled[p]) < Len(generation_rows[req[p].gen])
  PROVE  /\ ToDelete(p) \in RowIds
         /\ ToDelete(p) \in Range(generation_rows[req[p].gen])
         /\ ToDelete(p) \notin Range(handled[p])
         /\ \A c \in Range(generation_rows[req[p].gen]) :
               Parent[c] = ToDelete(p) => c \in Range(handled[p])
<1> DEFINE written == generation_rows[req[p].gen]
           done == handled[p]
           n == Len(written) - Len(done)
<1>1. /\ req[p].gen \in GenIds /\ written \in Seq(RowIds) /\ done \in Seq(RowIds)
      /\ Stored(req[p].gen) /\ Len(done) <= Len(written)
      /\ \A i \in 1 .. Len(done) : done[i] = written[Len(written) + 1 - i]
  BY DEF IInv, TypeOK, DbTypeOK, ServiceTypeOK, RequestShape, InDelete, LoopShape
<1>2. Orderly(written)
  BY <1>1 DEF OrderInv, IInv, LedgerIsDataset
<1>3. ToDelete(p) = written[n] /\ Len(done) < Len(written)
  BY DEF ToDelete
<1> HIDE DEF written, done
<1>4. /\ Len(written) \in Nat /\ Len(done) \in Nat
      /\ DOMAIN written = 1 .. Len(written) /\ DOMAIN done = 1 .. Len(done)
  BY <1>1
<1>5. n \in 1 .. Len(written)
  BY <1>3, <1>4, Countdown
<1>6. ASSUME NEW i \in 1 .. Len(done) PROVE done[i] # written[n]
  <2>1. done[i] = written[Len(written) + 1 - i]
    BY <1>1
  <2>2. Len(written) + 1 - i \in 1 .. Len(written) /\ Len(written) + 1 - i # n
    BY <1>3, <1>4, Backwards
  <2> QED BY <1>2, <1>4, <1>5, <2>1, <2>2 DEF Orderly
<1>7. ASSUME NEW k \in 1 .. Len(written), Parent[written[k]] = written[n]
      PROVE  written[k] \in Range(done)
  <2>1. n < k
    BY <1>2, <1>4, <1>5, <1>7 DEF Orderly
  <2>2. Len(written) + 1 - k \in 1 .. Len(done)
        /\ Len(written) + 1 - (Len(written) + 1 - k) = k
    BY <1>3, <1>4, <2>1, Backwards
  <2>3. done[Len(written) + 1 - k] = written[k]
    BY <1>1, <2>2
  <2> QED BY <1>4, <2>2, <2>3 DEF Range
<1> HIDE DEF n
<1>8. written[n] \in RowIds /\ written[n] \in Range(written)
  BY <1>1, <1>4, <1>5 DEF Range
<1>9. written[n] \notin Range(done)
  BY <1>4, <1>6 DEF Range
<1>10. \A c \in Range(written) : Parent[c] = written[n] => c \in Range(done)
  BY <1>4, <1>7 DEF Range
<1> QED BY <1>3, <1>8, <1>9, <1>10 DEF written, done

\* A DELETE that is refused of a row met a row that is gone, a table that has
\* changed, or a row of somebody else.
LEMMA ConflictIsReal ==
  ASSUME IInv, OrderInv, [Next]_vars, NEW p \in Procs,
         answer'[p].code = "DELETE_CONFLICT", answer[p].code # "DELETE_CONFLICT"
  PROVE  LET g == req[p].gen
             ledger == Range(generation_rows[g])
         IN  /\ generations[g].state = "COMMITTED"
             /\ \E r \in ledger :
                   \/ rows[r] = None
                   \/ access[r] = "DESTINATION_INVALID"
                   \/ \E c \in RowIds \ ledger : Parent[c] = r /\ rows[c] # None
<1> DEFINE r == ToDelete(p)
           ledger == Range(generation_rows[req[p].gen])
<1>1. PICK s \in Sessions :
         /\ tx[s].client = p
         /\ \/ InsertRow(p, s) /\ InsertOutcome(s, ToInsert(p)) = "DELETE_CONFLICT"
            \/ DeleteRow(p, s) /\ DeleteOutcome(s, r) = "DELETE_CONFLICT"
  BY Speaker, ConflictTold DEF Conflicts
<1>2. ~InsertRow(p, s) \/ InsertOutcome(s, ToInsert(p)) # "DELETE_CONFLICT"
  <2> SUFFICES ASSUME InsertRow(p, s) PROVE InsertOutcome(s, ToInsert(p)) # "DELETE_CONFLICT"
    OBVIOUS
  <2>1. handled[p] \in Seq(RowIds) /\ Dataset[req[p].digest] \in Seq(RowIds)
    BY DatabaseAssumption DEF IInv, TypeOK, ServiceTypeOK, RequestShape, InPost, InsertRow
  <2>2. ToInsert(p) \in RowIds
    BY <2>1 DEF InsertRow, ToInsert
  <2> QED BY <2>2 DEF InsertOutcome, IInv, TypeOK, DbTypeOK, Access
<1>3. /\ pc[p] = "delete" /\ Len(handled[p]) < Len(generation_rows[req[p].gen])
      /\ DeleteOutcome(s, r) = "DELETE_CONFLICT"
  BY <1>1, <1>2 DEF DeleteRow
<1>4. /\ tx[s].upd = req[p].gen /\ tx[s].ins = {} /\ tx[s].del = Range(handled[p])
      /\ req[p].gen \in GenIds
  BY <1>1, <1>3 DEF IInv, Serving, ServingAt, RequestShape, InDelete
<1>5. generations[req[p].gen].state = "COMMITTED"
  BY <1>4, DatabaseAssumption DEF IInv, WritesFit
<1>6. /\ r \in RowIds /\ r \in ledger /\ r \notin tx[s].del
      /\ \A c \in ledger : Parent[c] = r => c \in tx[s].del
  BY <1>3, <1>4, NextToDelete
<1> HIDE DEF r, ledger
<1>7. \/ access[r] = "DESTINATION_INVALID"
      \/ rows[r] = None
      \/ \E c \in Children(r) : rows[c] # None /\ c \notin tx[s].del
  BY <1>3, <1>4, <1>6 DEF DeleteOutcome, Sees
<1>8. \E x \in ledger :
         \/ rows[x] = None
         \/ access[x] = "DESTINATION_INVALID"
         \/ \E c \in RowIds \ ledger : Parent[c] = x /\ rows[c] # None
  BY <1>6, <1>7 DEF Children
<1> QED BY <1>5, <1>8 DEF ledger

\* DELETE_CONFLICT always has a cause in the destination: a row gone, a table
\* changed, or a foreign row that refers to one of the ledger.
THEOREM DeleteConflictsAreReal == Spec => DeleteConflictIsReal
<1>1. IInv /\ OrderInv /\ [Next]_vars =>
         [\A p \in Procs :
            (/\ answer'[p].code = "DELETE_CONFLICT"
             /\ answer[p].code # "DELETE_CONFLICT") =>
                LET g == req[p].gen
                    ledger == Range(generation_rows[g])
                IN  /\ generations[g].state = "COMMITTED"
                    /\ \E r \in ledger :
                          \/ rows[r] = None
                          \/ access[r] = "DESTINATION_INVALID"
                          \/ \E c \in RowIds \ ledger : Parent[c] = r /\ rows[c] # None]_vars
  BY ConflictIsReal
<1> QED BY <1>1, Invariance, LedgersAreOrderly, PTL DEF Spec, DeleteConflictIsReal

-----------------------------------------------------------------------------
(* Answers are true *)

\* What a step may do to generations and sessions without touching what process
\* q knows: stored generations stay, each with its content and a deletion for
\* good; a new one was written as evidence before, and no evidence is written
\* under the id that q drew.
Undisturbed(q) ==
    /\ \A g \in GenIds : Stored(g) =>
          /\ Stored(g)'
          /\ generations'[g].slot = generations[g].slot
          /\ generations'[g].digest = generations[g].digest
          /\ generations[g].state = "DELETED" => generations'[g].state = "DELETED"
    /\ \A g \in GenIds : Stored(g)' =>
          Stored(g) \/ \E s \in Sessions : tx[s].new = g /\ generations'[g].digest = tx[s].digest
    /\ (req[q].op = "post" /\ req[q].gen # None) =>
          \A s \in Sessions : tx'[s].new = req[q].gen =>
             tx[s].new = req[q].gen /\ tx'[s].digest = tx[s].digest

\* A step that leaves the tables alone and writes no evidence disturbs nobody.
LEMMA QuietDisturbsNobody ==
  ASSUME IInv, Quiet, UNCHANGED generations, NEW q \in Procs
  PROVE  Undisturbed(q)
BY DatabaseAssumption DEF Undisturbed, Quiet, Stored

\* A request that goes on knows what it knew.
LEMMA ContentStays ==
  ASSUME IInv, NEW q \in Procs, OwnContent(q), Undisturbed(q), req'[q] = req[q]
  PROVE  OwnContent(q)'
<1> SUFFICES ASSUME req[q].op = "post", req[q].gen # None PROVE OwnContent(q)'
  BY DEF OwnContent
<1>1. req[q].gen \in GenIds
  BY DEF IInv, TypeOK, ServiceTypeOK, Request
<1>2. PICK g \in GenIds : g = req[q].gen
  BY <1>1
<1>3. Stored(g)' => generations'[g].digest = req[q].digest
  BY <1>2 DEF OwnContent, Undisturbed
<1>4. \A s \in Sessions : tx'[s].new = g => tx'[s].digest = req[q].digest
  BY <1>2 DEF OwnContent, Undisturbed
<1> QED BY <1>2, <1>3, <1>4 DEF OwnContent, Stored

\* What was told stays true.
LEMMA AnswerStays ==
  ASSUME IInv, NEW q \in Procs, Honest(q), Undisturbed(q),
         UNCHANGED <<pc[q], req[q], answer[q]>>
  PROVE  AnswersAreTrue!(q)' /\ RefusedPostIsGone!(q)'
<1>1. AnswersAreTrue!(q) /\ RefusedPostIsGone!(q)
      /\ (answer[q].code \in Success => answer[q].gen \in GenIds)
  BY DEF Honest
<1>2. req[q].gen \in GenIds \cup {None}
  BY DEF IInv, TypeOK, ServiceTypeOK, Request
<1>3. ASSUME pc[q] = "idle", answer[q].code \in Success
      PROVE  /\ Stored(answer[q].gen)'
             /\ generations'[answer[q].gen].slot[1] = req[q].tenant
             /\ req[q].op = "post" => /\ generations'[answer[q].gen].slot = Slot(q)
                                      /\ generations'[answer[q].gen].digest = req[q].digest
             /\ req[q].op = "delete" => generations'[answer[q].gen].state = "DELETED"
  BY <1>1, <1>3 DEF Undisturbed
<1>4. ASSUME pc[q] = "idle", answer[q].code = "IDEMPOTENCY_KEY_REUSED"
      PROVE  \E g \in GenIds : /\ Stored(g)' /\ generations'[g].slot = Slot(q)
                               /\ generations'[g].digest # req[q].digest
  <2>1. PICK g \in GenIds : /\ Stored(g) /\ generations[g].slot = Slot(q)
                            /\ generations[g].digest # req[q].digest
    BY <1>1, <1>4 DEF Existing, Stored
  <2> QED BY <2>1 DEF Undisturbed
<1>5. AnswersAreTrue!(q)'
  BY <1>3, <1>4 DEF Stored, Slot, Existing
<1>6. ASSUME /\ pc[q] = "idle" /\ req[q].op = "post" /\ req[q].gen # None
             /\ answer[q].code \in ErrorCode \ {"DEPENDENCY_UNAVAILABLE"}
      PROVE  /\ generations'[req[q].gen].state = "ABSENT"
             /\ \A s \in Sessions : tx'[s].new # req[q].gen
  BY <1>1, <1>2, <1>6 DEF Undisturbed, Stored
<1>7. RefusedPostIsGone!(q)'
  BY <1>6 DEF Stored
<1> QED BY <1>5, <1>7

\* So who is not disturbed, and is promised as much, stays honest.
LEMMA BystanderIsHonest ==
  ASSUME IInv, NEW q \in Procs, Honest(q), Undisturbed(q),
         UNCHANGED <<pc[q], req[q], answer[q]>>,
         \A s \in Sessions : tx'[s].client = q => Promised(q, s)'
  PROVE  Honest(q)'
<1>1. OwnContent(q)' /\ AnswersAreTrue!(q)' /\ RefusedPostIsGone!(q)'
  BY ContentStays, AnswerStays DEF Honest
<1> QED BY <1>1 DEF Honest

\* A promise about a session that is left alone is kept.
LEMMA PromiseStays ==
  ASSUME IInv, NEW q \in Procs, NEW s \in Sessions, tx[s].client = q, Promised(q, s),
         Undisturbed(q), UNCHANGED <<pc[q], req[q], tx[s]>>
  PROVE  Promised(q, s)'
<1>1. Slot(q)' = Slot(q)
  BY DEF Slot
<1>2. ASSUME pc[q] = "delete"
      PROVE  req[q].gen \in GenIds /\ Stored(req[q].gen)
  BY <1>2 DEF IInv, RequestShape, InDelete, LoopShape
<1>3. ASSUME pc[q] = "commit"
      PROVE  req[q].gen \in GenIds
  BY <1>3 DEF IInv, RequestShape
<1>4. ASSUME pc[q] = "commit", tx[s].st = "commit", req[q].op = "delete"
      PROVE  Stored(req[q].gen)
  <2>1. tx[s].upd = req[q].gen /\ req[q].gen \in GenIds
    BY <1>3, <1>4 DEF Promised
  <2>2. generations[req[q].gen].state = "COMMITTED"
    BY <2>1, DatabaseAssumption DEF IInv, WritesFit
  <2> QED BY <2>2 DEF Stored
<1>5. pc[q] = "delete" => generations'[req[q].gen].slot[1] = req[q].tenant
  BY <1>2 DEF Promised, Undisturbed
<1>6. (pc[q] = "commit" /\ tx[s].st = "commit" /\ req[q].op = "delete") =>
         generations'[req[q].gen].slot[1] = req[q].tenant
  BY <1>3, <1>4 DEF Promised, Undisturbed
<1>7. (pc[q] = "commit" /\ tx[s].st = "done") => Announced(q)'
  <2> SUFFICES ASSUME pc[q] = "commit", tx[s].st = "done" PROVE Announced(q)'
    OBVIOUS
  <2>1. Announced(q) /\ req[q].gen \in GenIds
    BY <1>3 DEF Promised
  <2>2. PICK g \in GenIds : g = req[q].gen
    BY <2>1
  <2>3. /\ Stored(g)'
        /\ req[q].op = "post" => /\ generations'[g].slot = Slot(q)
                                 /\ generations'[g].digest = req[q].digest
        /\ req[q].op = "delete" => /\ generations'[g].slot[1] = req[q].tenant
                                   /\ generations'[g].state = "DELETED"
    BY <2>1, <2>2 DEF Announced, Undisturbed
  <2> QED BY <1>1, <2>2, <2>3 DEF Announced, Stored
<1> QED BY <1>1, <1>5, <1>6, <1>7 DEF Promised

-----------------------------------------------------------------------------
(* The process that moves *)

\* A step that neither answers nor promises anything.
LEMMA GoesOn ==
  ASSUME IInv, NEW p \in Procs, Honest(p), Undisturbed(p), UNCHANGED <<req[p], answer[p]>>,
         pc[p] # "idle", pc'[p] \notin {"idle", "delete", "commit"},
         pc'[p] \in {"find", "generate"} => pc[p] \in {"find", "generate"}
  PROVE  Honest(p)'
<1>1. OwnContent(p)'
  BY ContentStays DEF Honest
<1>2. \A s \in Sessions : tx'[s].client = p => Promised(p, s)'
  BY DEF Promised
<1>3. AnswersAreTrue!(p)' /\ RefusedPostIsGone!(p)'
  OBVIOUS
<1> QED BY <1>1, <1>2, <1>3 DEF Honest

\* An answer that is true when it is given.
LEMMA AnswersTruly ==
  ASSUME IInv, NEW p \in Procs, Honest(p), pc[p] # "idle", NEW a, Reply(p, a),
         UNCHANGED generations, Quiet,
         a.code \in Success =>
            /\ a.gen \in GenIds /\ Stored(a.gen)
            /\ generations[a.gen].slot[1] = req[p].tenant
            /\ req[p].op = "post" => /\ generations[a.gen].slot = Slot(p)
                                     /\ generations[a.gen].digest = req[p].digest
            /\ req[p].op = "delete" => generations[a.gen].state = "DELETED",
         a.code = "IDEMPOTENCY_KEY_REUSED" =>
            \E g \in Existing(Slot(p)) : generations[g].digest # req[p].digest,
         (/\ req[p].op = "post" /\ req[p].gen # None
          /\ a.code \in ErrorCode \ {"DEPENDENCY_UNAVAILABLE"}) =>
            ~Stored(req[p].gen) /\ \A s \in Sessions : tx[s].new # req[p].gen
  PROVE  Honest(p)'
<1>1. pc'[p] = "idle" /\ answer'[p] = a /\ req'[p] = req[p]
  BY DEF Reply, Goto, IInv, TypeOK, ServiceTypeOK
<1>2. OwnContent(p)'
  BY <1>1, QuietDisturbsNobody, ContentStays DEF Honest
<1>3. \A s \in Sessions : tx'[s].client = p => Promised(p, s)'
  BY <1>1 DEF Promised
<1>4. AnswersAreTrue!(p)'
  BY <1>1 DEF Stored, Slot, Existing
<1>5. RefusedPostIsGone!(p)'
  <2>1. req[p].gen # None => \A s \in Sessions : tx'[s].new = req[p].gen => tx[s].new = req[p].gen
    BY DEF Quiet
  <2> QED BY <1>1, <2>1 DEF Stored
<1> QED BY <1>1, <1>2, <1>3, <1>4, <1>5 DEF Honest

\* A session that p closes is quiet.
LEMMA ClosingIsQuiet ==
  ASSUME IInv, NEW s \in Sessions, tx' = [tx EXCEPT ![s] = Closed]
  PROVE  Quiet
<1>1. Closed.new = None /\ Closed.ins = {}
  BY BlankIsQuiet DEF Closed
<1> QED BY <1>1, OneIsQuiet

\* Evidence that is written is under the lock of its key, on its way to COMMIT.
LEMMA EvidenceIsCommitting ==
  ASSUME IInv, NEW s \in Sessions, tx[s].new # None
  PROVE  /\ tx[s].st = "commit" /\ tx[s].new \in GenIds
         /\ tx[s].slot \in Slots /\ issued[tx[s].new] = tx[s].slot
         /\ tx[s].lock = AdvisoryKey[tx[s].slot] /\ AdvisoryKey[tx[s].slot] # None
         /\ Existing(tx[s].slot) = {}
<1>1. tx[s].st \in {"closed", "open", "commit", "done"}
  BY DEF IInv, TypeOK, DbTypeOK, Session
<1>2. tx[s].st = "commit"
  <2>1. Closed.new = None /\ Blank("done", tx[s].client).new = None
    BY BlankIsQuiet DEF Closed
  <2>2. /\ tx[s].st = "closed" => tx[s] = Closed
        /\ tx[s].st = "done" => tx[s] = Blank("done", tx[s].client)
        /\ tx[s].st = "open" => tx[s].new = None
    BY DEF IInv, SessionShape
  <2>3. tx[s].st # "closed" /\ tx[s].st # "done" /\ tx[s].st # "open"
    BY <2>1, <2>2
  <2> QED BY <1>1, <2>3
<1>3. /\ tx[s].new \in GenIds /\ tx[s].slot \in Slots /\ issued[tx[s].new] = tx[s].slot
      /\ tx[s].lock = AdvisoryKey[tx[s].slot] /\ Existing(tx[s].slot) = {}
  BY <1>2 DEF IInv, CommitIsWhole
<1> QED BY <1>2, <1>3, DatabaseAssumption

\* The key of a POST that has drawn an id.
LEMMA OwnSlot ==
  ASSUME IInv, NEW p \in Procs, req[p].op = "post", req[p].gen # None
  PROVE  /\ req[p].gen \in GenIds /\ Slot(p) \in Slots /\ issued[req[p].gen] = Slot(p)
         /\ Stored(req[p].gen) => req[p].gen \in Existing(Slot(p))
<1>1. req[p].gen \in GenIds
  BY DEF IInv, TypeOK, ServiceTypeOK, Request
<1>2. Slot(p) \in Slots /\ issued[req[p].gen] = Slot(p)
  BY DEF IInv, RequestShape, Slot, Slots
<1>3. Stored(req[p].gen) => generations[req[p].gen].slot = Slot(p)
  BY <1>1, <1>2 DEF IInv, StoredShape
<1> QED BY <1>1, <1>2, <1>3 DEF Existing, Stored

\* A key that names a generation of other content names none of p's own.
LEMMA KeyIsTaken ==
  ASSUME IInv, NEW p \in Procs, Honest(p), req[p].op = "post", req[p].gen # None,
         NEW g \in Existing(Slot(p)), generations[g].digest # req[p].digest
  PROVE  ~Stored(req[p].gen) /\ \A s \in Sessions : tx[s].new # req[p].gen
<1>1. g \in GenIds /\ Stored(g) /\ generations[g].slot = Slot(p)
  BY DEF Existing, Stored
<1>2. ~Stored(req[p].gen)
  <2> SUFFICES ASSUME Stored(req[p].gen) PROVE FALSE
    OBVIOUS
  <2>1. req[p].gen \in GenIds /\ generations[req[p].gen].slot = Slot(p)
    BY OwnSlot DEF Existing
  <2>2. req[p].gen = g
    BY <1>1, <2>1 DEF IInv, OneGenerationPerKey
  <2> QED BY <2>2 DEF Honest, OwnContent
<1>3. ASSUME NEW s \in Sessions, tx[s].new = req[p].gen PROVE FALSE
  <2>1. tx[s].slot = Slot(p) /\ Existing(tx[s].slot) = {}
    BY <1>3, OwnSlot, EvidenceIsCommitting
  <2> QED BY <2>1
<1> QED BY <1>2, <1>3

\* While p is at INSERT its key is free, and nobody else is to take it.
LEMMA KeyIsHeld ==
  ASSUME IInv, NEW p \in Procs, NEW s \in Sessions, tx[s].client = p, pc[p] = "insert"
  PROVE  ~Stored(req[p].gen) /\ \A t \in Sessions : tx[t].new # req[p].gen
<1>1. /\ req[p].op = "post" /\ req[p].gen \in GenIds /\ req[p].gen # None
      /\ tx[s].st = "open" /\ tx[s].lock = AdvisoryKey[Slot(p)] /\ Existing(Slot(p)) = {}
  <2>1. req[p].op = "post" /\ req[p].gen \in GenIds
    BY DEF IInv, RequestShape, InPost
  <2>2. ServingAt(p, s)
    BY DEF IInv, Serving
  <2> QED BY <2>1, <2>2, DatabaseAssumption DEF ServingAt
<1>2. ~Stored(req[p].gen)
  BY <1>1, OwnSlot
<1>3. ASSUME NEW t \in Sessions, tx[t].new = req[p].gen PROVE FALSE
  <2>1. /\ tx[t].slot = Slot(p) /\ tx[t].lock = AdvisoryKey[Slot(p)] /\ tx[t].lock # None
        /\ tx[t].st = "commit"
    BY <1>1, <1>3, OwnSlot, EvidenceIsCommitting
  <2>2. t = s
    BY <1>1, <2>1 DEF IInv, Exclusive
  <2> QED BY <1>1, <2>1, <2>2
<1> QED BY <1>2, <1>3

\* The codes of INSERT and DELETE say nothing of a generation.
LEMMA OutcomeCodes ==
  ASSUME IInv, NEW p \in Procs, NEW s \in Sessions, InTransaction(p, s)
  PROVE  /\ InsertRow(p, s) => InsertOutcome(s, ToInsert(p)) \notin
                                  Success \cup {"IDEMPOTENCY_KEY_REUSED"}
         /\ DeleteRow(p, s) => DeleteOutcome(s, ToDelete(p)) \notin
                                  Success \cup {"IDEMPOTENCY_KEY_REUSED"}
<1>1. ASSUME InsertRow(p, s)
      PROVE  InsertOutcome(s, ToInsert(p)) \notin Success \cup {"IDEMPOTENCY_KEY_REUSED"}
  <2>1. handled[p] \in Seq(RowIds) /\ Dataset[req[p].digest] \in Seq(RowIds)
    BY <1>1, DatabaseAssumption DEF IInv, TypeOK, ServiceTypeOK, RequestShape, InPost, InsertRow
  <2>2. ToInsert(p) \in RowIds
    BY <1>1, <2>1 DEF InsertRow, ToInsert
  <2> QED BY <2>2 DEF InsertOutcome, IInv, TypeOK, DbTypeOK, Access, Success
<1>2. DeleteRow(p, s) => DeleteOutcome(s, ToDelete(p)) \notin Success \cup {"IDEMPOTENCY_KEY_REUSED"}
  BY DEF DeleteOutcome, Success
<1> QED BY <1>1, <1>2

\* What an existing generation of the key means is told truly.
LEMMA ReplayIsTrue ==
  ASSUME IInv, NEW p \in Procs, Honest(p), pc[p] \in {"find", "recheck"},
         NEW g \in Existing(Slot(p)), Reply(p, Replayed(p, g)), UNCHANGED generations, Quiet
  PROVE  Honest(p)'
<1>1. /\ g \in GenIds /\ Stored(g) /\ generations[g].slot = Slot(p)
      /\ req[p].op = "post" /\ Slot(p)[1] = req[p].tenant
  BY DEF Existing, Stored, IInv, RequestShape, InPost, Slot
<1>2. CASE generations[g].digest = req[p].digest
  <2>1. PICK a : a = [code |-> "REPLAYED", gen |-> g, state |-> generations[g].state]
    OBVIOUS
  <2>2. Reply(p, a) /\ a.code = "REPLAYED" /\ a.gen = g
    BY <1>2, <2>1 DEF Replayed
  <2> QED BY <1>1, <1>2, <2>2, AnswersTruly DEF Success, ErrorCode
<1>3. CASE generations[g].digest # req[p].digest
  <2>1. PICK a : a = Refused("IDEMPOTENCY_KEY_REUSED")
    OBVIOUS
  <2>2. Reply(p, a) /\ a.code = "IDEMPOTENCY_KEY_REUSED"
    BY <1>3, <2>1 DEF Replayed, Refused
  <2>3. a.code \notin Success
    BY <2>2 DEF Success
  <2>4. req[p].gen # None => ~Stored(req[p].gen) /\ \A s \in Sessions : tx[s].new # req[p].gen
    BY <1>1, <1>3, KeyIsTaken
  <2> QED BY <1>3, <2>2, <2>3, <2>4, AnswersTruly
<1> QED BY <1>2, <1>3

\* An error that comes before an id is drawn, that is no POST's, or that leaves
\* the outcome open.
LEMMA ErrorIsTrue ==
  ASSUME IInv, NEW p \in Procs, Honest(p), pc[p] # "idle", NEW code, Reply(p, Refused(code)),
         UNCHANGED generations, Quiet,
         code \notin Success \cup {"IDEMPOTENCY_KEY_REUSED"},
         \/ req[p].op # "post" \/ req[p].gen = None \/ code = "DEPENDENCY_UNAVAILABLE"
         \/ ~Stored(req[p].gen) /\ \A s \in Sessions : tx[s].new # req[p].gen
  PROVE  Honest(p)'
<1>1. PICK a : a = Refused(code)
  OBVIOUS
<1>2. Reply(p, a) /\ a.code = code
  BY <1>1 DEF Refused
<1> QED BY <1>2, AnswersTruly

\* A retry, and the last answer of a request that found no server.
LEMMA RetryIsHonest ==
  ASSUME IInv, NEW p \in Procs, Honest(p), pc[p] \notin {"idle", "generate"}, RetryOrGiveUp(p),
         UNCHANGED generations, Quiet
  PROVE  Honest(p)'
<1>1. CASE Reply(p, Refused("DEPENDENCY_UNAVAILABLE"))
  BY <1>1, ErrorIsTrue DEF Success
<1>2. CASE ~Reply(p, Refused("DEPENDENCY_UNAVAILABLE"))
  <2>1. /\ pc' = [pc EXCEPT ![p] = IF pc[p] \in {"find", "get"} THEN pc[p] ELSE "connect"]
        /\ UNCHANGED <<req, answer>>
    BY <1>2 DEF RetryOrGiveUp, Goto
  <2>2. pc'[p] = (IF pc[p] \in {"find", "get"} THEN pc[p] ELSE "connect")
    BY <2>1 DEF IInv, TypeOK, ServiceTypeOK
  <2> QED BY <2>1, <2>2, QuietDisturbsNobody, GoesOn
<1> QED BY <1>1, <1>2

\* A request that comes in knows nothing.
LEMMA AcceptIsHonest ==
  ASSUME IInv, NEW p \in Procs, Honest(p), AcceptRequest(p)
  PROVE  Honest(p)'
<1>1. PICK label, r : /\ Accept(p, r, label) /\ label \in {"find", "get", "connect"}
                      /\ r.op = "post" => r.gen = None
  <2>1. CASE AcceptPost(p)
    <3>1. PICK t \in Tenants, k \in Keys, d \in Digests :
             Accept(p, [op |-> "post", tenant |-> t, key |-> k, digest |-> d, gen |-> None], "find")
      BY <2>1 DEF AcceptPost
    <3> QED BY <3>1
  <2>2. CASE AcceptGet(p)
    <3>1. PICK t \in Tenants, g \in GenIds :
             Accept(p, [op |-> "get", tenant |-> t, key |-> None, digest |-> None, gen |-> g], "get")
      BY <2>2 DEF AcceptGet
    <3> QED BY <3>1
  <2>3. CASE AcceptDelete(p)
    <3>1. PICK t \in Tenants, g \in GenIds :
             Accept(p, [op |-> "delete", tenant |-> t, key |-> None, digest |-> None, gen |-> g],
                    "connect")
      BY <2>3 DEF AcceptDelete
    <3> QED BY <3>1
  <2> QED BY <2>1, <2>2, <2>3 DEF AcceptRequest
<1>2. pc'[p] = label /\ req'[p] = r /\ answer'[p] = NoAnswer
  BY <1>1 DEF Accept, Goto, IInv, TypeOK, ServiceTypeOK
<1>3. NoAnswer.code = "none" /\ "none" \notin Success
  BY DEF NoAnswer, Refused, Success
<1>4. OwnContent(p)'
  BY <1>1, <1>2 DEF OwnContent
<1>5. \A s \in Sessions : tx'[s].client = p => Promised(p, s)'
  BY <1>1, <1>2 DEF Promised
<1>6. AnswersAreTrue!(p)' /\ RefusedPostIsGone!(p)'
  BY <1>1, <1>2
<1> QED BY <1>1, <1>2, <1>3, <1>4, <1>5, <1>6 DEF Honest

\* The id that generation draws is nobody's yet.
LEMMA GenerateIsHonest ==
  ASSUME IInv, NEW p \in Procs, Honest(p), Generate(p)
  PROVE  Honest(p)'
<1>1. /\ pc[p] = "generate" /\ req[p].op = "post" /\ req[p].gen = None
      /\ UNCHANGED <<generations, tx>>
  BY DEF Generate, IInv, RequestShape, InPost, Honest, dbVars
<1>2. Quiet
  BY <1>1, SameIsQuiet
<1>3. CASE \E code : Reply(p, Refused(code)) /\ code \notin Success \cup {"IDEMPOTENCY_KEY_REUSED"}
  BY <1>1, <1>2, <1>3, ErrorIsTrue
<1>4. CASE \E g \in GenIds : /\ issued[g] = None /\ req' = [req EXCEPT ![p].gen = g]
                             /\ Goto(p, "connect") /\ UNCHANGED answer
  <2>1. PICK g \in GenIds : /\ issued[g] = None /\ req' = [req EXCEPT ![p].gen = g]
                            /\ Goto(p, "connect") /\ UNCHANGED answer
    BY <1>4
  <2>2. pc'[p] = "connect" /\ req'[p] = [req[p] EXCEPT !.gen = g] /\ answer'[p] = answer[p]
    BY <2>1 DEF Goto, IInv, TypeOK, ServiceTypeOK
  <2>3. req'[p].gen = g
    BY <2>2 DEF IInv, TypeOK, ServiceTypeOK, Request
  <2>4. ~Stored(g) /\ \A s \in Sessions : tx[s].new # g
    <3>1. ~Stored(g)
      BY <2>1, DatabaseAssumption DEF IInv, StoredShape
    <3>2. g # None
      BY DatabaseAssumption
    <3>3. \A s \in Sessions : tx[s].new # g
      BY <2>1, <3>2, EvidenceIsCommitting, DatabaseAssumption
    <3> QED BY <3>1, <3>3
  <2>5. OwnContent(p)'
    BY <1>1, <2>3, <2>4 DEF OwnContent, Stored
  <2>6. \A s \in Sessions : tx'[s].client = p => Promised(p, s)'
    BY <2>2 DEF Promised
  <2>7. AnswersAreTrue!(p)' /\ RefusedPostIsGone!(p)'
    BY <2>2
  <2> QED BY <1>1, <2>2, <2>5, <2>6, <2>7 DEF Honest
<1>5. \/ \E code : Reply(p, Refused(code)) /\ code \notin Success \cup {"IDEMPOTENCY_KEY_REUSED"}
      \/ \E g \in GenIds : /\ issued[g] = None /\ req' = [req EXCEPT ![p].gen = g]
                           /\ Goto(p, "connect") /\ UNCHANGED answer
  <2>1. Refusal[req[p].digest] \notin Success \cup {"IDEMPOTENCY_KEY_REUSED"}
    BY <1>1, ServiceAssumption DEF IInv, RequestShape, Success
  <2>2. "DEPENDENCY_UNAVAILABLE" \notin Success \cup {"IDEMPOTENCY_KEY_REUSED"}
    BY DEF Success
  <2>3. \/ Reply(p, Refused(Refusal[req[p].digest]))
        \/ Reply(p, Refused("DEPENDENCY_UNAVAILABLE"))
        \/ \E g \in GenIds : /\ issued[g] = None /\ req' = [req EXCEPT ![p].gen = g]
                             /\ Goto(p, "connect") /\ UNCHANGED answer
    BY DEF Generate
  <2> QED BY <2>1, <2>2, <2>3
<1> QED BY <1>3, <1>4, <1>5

\* GET tells what it sees.
LEMMA GetIsHonest ==
  ASSUME IInv, NEW p \in Procs, Honest(p), Get(p)
  PROVE  Honest(p)'
<1>1. /\ pc[p] = "get" /\ req[p].op = "get" /\ req[p].gen \in GenIds
      /\ UNCHANGED <<generations, tx>>
  BY DEF Get, IInv, RequestShape, dbVars
<1>2. Quiet
  BY <1>1, SameIsQuiet
<1>3. CASE Visible(p)
  <2>1. PICK a : a = Found(p)
    OBVIOUS
  <2>2. Reply(p, a) /\ a.code = "OK" /\ a.gen = req[p].gen
    BY <1>3, <2>1 DEF Get, Found
  <2>3. Stored(a.gen) /\ generations[a.gen].slot[1] = req[p].tenant
    BY <1>3, <2>2 DEF Visible, Stored
  <2> QED BY <1>1, <1>2, <2>2, <2>3, AnswersTruly
<1>4. CASE ~Visible(p)
  BY <1>1, <1>2, <1>4, ErrorIsTrue DEF Get, Success
<1> QED BY <1>3, <1>4

\* Evidence is written under the id of the request, with its key and content.
LEMMA EvidenceIsHonest ==
  ASSUME IInv, NEW p \in Procs, NEW s \in Sessions, Honest(p), tx[s].client = p,
         WriteEvidence(p, s)
  PROVE  Honest(p)'
<1>1. /\ pc[p] = "insert" /\ req[p].op = "post" /\ Existing(Slot(p)) = {}
      /\ tx[s] \in Session /\ answer[p].code = "none"
  BY DEF WriteEvidence, IInv, TypeOK, DbTypeOK, RequestShape, InPost, Serving, ServingAt, Honest
<1> DEFINE new == [tx[s] EXCEPT !.st = "commit", !.new = req[p].gen, !.slot = Slot(p),
                                !.digest = req[p].digest, !.ledger = handled[p]]
<1>2. /\ tx' = [tx EXCEPT ![s] = new] /\ Goto(p, "commit")
      /\ UNCHANGED <<generations, req, answer>>
  BY <1>1 DEF WriteEvidence
<1>3. /\ new.st = "commit" /\ new.new = req[p].gen /\ new.slot = Slot(p)
      /\ new.digest = req[p].digest /\ new.client = p
  BY <1>1 DEF Session
<1> HIDE DEF new
<1>4. /\ tx'[s] = new /\ \A t \in Sessions \ {s} : tx'[t] = tx[t] /\ tx'[t].client # p
      /\ pc'[p] = "commit"
  BY <1>2, DatabaseAssumption DEF IInv, TypeOK, DbTypeOK, ServiceTypeOK, Goto, Exclusive
<1>5. OwnContent(p)'
  BY <1>2, <1>3, <1>4 DEF Honest, OwnContent, Stored
<1>6. Promised(p, s)'
  BY <1>1, <1>2, <1>3, <1>4 DEF Promised, Slot
<1>7. \A t \in Sessions : tx'[t].client = p => Promised(p, t)'
  BY <1>4, <1>6
<1>8. answer'[p].code = "none" /\ "none" \notin Success
  BY <1>1, <1>2 DEF Success
<1>9. AnswersAreTrue!(p)' /\ RefusedPostIsGone!(p)'
  BY <1>4
<1> QED BY <1>1, <1>2, <1>4, <1>5, <1>7, <1>8, <1>9 DEF Honest

\* SELECT ... FOR UPDATE finds a generation of the tenant, or tells what it sees.
LEMMA SelectIsHonest ==
  ASSUME IInv, NEW p \in Procs, NEW s \in Sessions, Honest(p), tx[s].client = p,
         SelectForUpdate(p, s)
  PROVE  Honest(p)'
<1>1. /\ pc[p] = "select" /\ req[p].op = "delete" /\ req[p].gen \in GenIds
      /\ UNCHANGED generations /\ tx[s] \in Session
  BY DEF SelectForUpdate, ReplyAndClose, IInv, TypeOK, DbTypeOK, RequestShape, InDelete
<1>2. CASE ReplyAndClose(p, s, Refused("GENERATION_NOT_FOUND"))
  <2>1. Quiet
    BY <1>2, ClosingIsQuiet DEF ReplyAndClose
  <2> QED BY <1>1, <1>2, <2>1, ErrorIsTrue DEF ReplyAndClose, Success
<1>3. CASE Visible(p) /\ generations[req[p].gen].state = "DELETED" /\ ReplyAndClose(p, s, Found(p))
  <2>1. Quiet
    BY <1>3, ClosingIsQuiet DEF ReplyAndClose
  <2>2. PICK a : a = Found(p)
    OBVIOUS
  <2>3. Reply(p, a) /\ a.code = "OK" /\ a.gen = req[p].gen
    BY <1>3, <2>2 DEF ReplyAndClose, Found
  <2>4. Stored(a.gen) /\ generations[a.gen].slot[1] = req[p].tenant
    BY <1>3, <2>3 DEF Visible, Stored
  <2> QED BY <1>1, <1>3, <2>1, <2>3, <2>4, AnswersTruly
<1>4. CASE /\ Visible(p) /\ tx' = [tx EXCEPT ![s].upd = req[p].gen] /\ Goto(p, "delete")
           /\ UNCHANGED <<req, answer>>
  <2>1. pc'[p] = "delete" /\ answer'[p].code = "none" /\ "none" \notin Success
    BY <1>1, <1>4 DEF Goto, Honest, IInv, TypeOK, ServiceTypeOK, Success
  <2>2. tx' = [tx EXCEPT ![s] = [tx[s] EXCEPT !.upd = req[p].gen]]
    BY <1>4
  <2>3. Quiet
    BY <1>1, <2>2, OneIsQuiet DEF Session
  <2>4. OwnContent(p)'
    BY <1>1, <1>4, <2>3, QuietDisturbsNobody, ContentStays DEF Honest
  <2>5. \A t \in Sessions : tx'[t].client = p => Promised(p, t)'
    BY <1>1, <1>4, <2>1 DEF Promised, Visible
  <2>6. AnswersAreTrue!(p)' /\ RefusedPostIsGone!(p)'
    BY <2>1
  <2> QED BY <1>1, <1>4, <2>1, <2>4, <2>5, <2>6 DEF Honest
<1>5. \/ ReplyAndClose(p, s, Refused("GENERATION_NOT_FOUND"))
      \/ Visible(p) /\ generations[req[p].gen].state = "DELETED" /\ ReplyAndClose(p, s, Found(p))
      \/ /\ Visible(p) /\ tx' = [tx EXCEPT ![s].upd = req[p].gen] /\ Goto(p, "delete")
         /\ UNCHANGED <<req, answer>>
  BY DEF SelectForUpdate
<1> QED BY <1>2, <1>3, <1>4, <1>5

\* DELETE of a row keeps the promise, or is refused.
LEMMA DeleteRowIsHonest ==
  ASSUME IInv, NEW p \in Procs, NEW s \in Sessions, Honest(p), tx[s].client = p,
         DeleteRow(p, s)
  PROVE  Honest(p)'
<1>1. /\ pc[p] = "delete" /\ req[p].op = "delete" /\ req[p].gen \in GenIds
      /\ UNCHANGED generations /\ tx[s] \in Session
      /\ generations[req[p].gen].slot[1] = req[p].tenant
  BY DEF DeleteRow, ReplyAndClose, IInv, TypeOK, DbTypeOK, RequestShape, InDelete, Honest, Promised
<1>2. CASE DeleteOutcome(s, ToDelete(p)) # "ok"
  <2>1. /\ Reply(p, Refused(DeleteOutcome(s, ToDelete(p)))) /\ tx' = [tx EXCEPT ![s] = Closed]
    BY <1>2 DEF DeleteRow, ReplyAndClose
  <2>2. DeleteOutcome(s, ToDelete(p)) \notin Success \cup {"IDEMPOTENCY_KEY_REUSED"}
    BY OutcomeCodes DEF InTransaction
  <2>3. PICK code : code = DeleteOutcome(s, ToDelete(p))
    OBVIOUS
  <2> QED BY <1>1, <2>1, <2>2, <2>3, ClosingIsQuiet, ErrorIsTrue
<1>3. CASE DeleteOutcome(s, ToDelete(p)) = "ok"
  <2>1. /\ tx' = [tx EXCEPT ![s] = [tx[s] EXCEPT !.del = @ \cup {ToDelete(p)}]]
        /\ UNCHANGED <<pc, req, answer>>
    BY <1>3 DEF DeleteRow
  <2>2. Quiet
    BY <1>1, <2>1, OneIsQuiet DEF Session
  <2>3. \A t \in Sessions : tx'[t].client = p => Promised(p, t)'
    BY <1>1, <2>1 DEF Promised
  <2> QED BY <1>1, <2>1, <2>2, <2>3, QuietDisturbsNobody, BystanderIsHonest
<1> QED BY <1>2, <1>3

\* The deletion that is about to be committed is the one that was asked for.
LEMMA MarkIsHonest ==
  ASSUME IInv, NEW p \in Procs, NEW s \in Sessions, Honest(p), tx[s].client = p,
         MarkDeleted(p, s)
  PROVE  Honest(p)'
<1>1. /\ pc[p] = "delete" /\ req[p].op = "delete" /\ req[p].gen \in GenIds
      /\ UNCHANGED <<generations, req, answer>> /\ tx[s] \in Session
      /\ generations[req[p].gen].slot[1] = req[p].tenant
      /\ tx[s].new = None /\ tx[s].upd = req[p].gen /\ answer[p].code = "none"
  BY DEF MarkDeleted, IInv, TypeOK, DbTypeOK, RequestShape, InDelete, Honest, Promised,
         SessionShape, Serving, ServingAt
<1>2. tx' = [tx EXCEPT ![s] = [tx[s] EXCEPT !.st = "commit"]]
  BY DEF MarkDeleted
<1>3. Quiet
  BY <1>1, <1>2, OneIsQuiet DEF Session
<1>4. /\ pc'[p] = "commit" /\ \A t \in Sessions \ {s} : tx'[t].client # p
      /\ tx'[s].st = "commit" /\ tx'[s].new = None /\ tx'[s].upd = req[p].gen
  <2>1. pc'[p] = "commit"
    BY DEF MarkDeleted, Goto, IInv, TypeOK, ServiceTypeOK
  <2>2. \A t \in Sessions \ {s} : tx[t].client # p /\ tx'[t] = tx[t]
    BY <1>2, DatabaseAssumption DEF IInv, TypeOK, DbTypeOK, Exclusive
  <2>3. tx'[s] = [tx[s] EXCEPT !.st = "commit"]
    BY <1>2 DEF IInv, TypeOK, DbTypeOK
  <2>4. tx'[s].st = "commit" /\ tx'[s].new = None /\ tx'[s].upd = req[p].gen
    BY <1>1, <2>3 DEF Session
  <2> QED BY <2>1, <2>2, <2>4
<1>5. Promised(p, s)'
  BY <1>1, <1>4 DEF Promised
<1>6. \A t \in Sessions : tx'[t].client = p => Promised(p, t)'
  BY <1>4, <1>5
<1>7. OwnContent(p)'
  BY <1>1, <1>3, QuietDisturbsNobody, ContentStays DEF Honest
<1>8. AnswersAreTrue!(p)' /\ RefusedPostIsGone!(p)'
  BY <1>4
<1>9. "none" \notin Success
  BY DEF Success
<1> QED BY <1>1, <1>4, <1>6, <1>7, <1>8, <1>9 DEF Honest

\* The acknowledgement of COMMIT announces what was promised.
LEMMA AckIsHonest ==
  ASSUME IInv, NEW p \in Procs, NEW s \in Sessions, Honest(p), tx[s].client = p, Ack(p, s)
  PROVE  Honest(p)'
<1>1. /\ pc[p] = "commit" /\ req[p].op \in {"post", "delete"} /\ req[p].gen \in GenIds
      /\ Announced(p) /\ Slot(p)[1] = req[p].tenant
  BY DEF Ack, IInv, RequestShape, Honest, Promised, Slot
<1>2. PICK a : a = IF req[p].op = "post"
                   THEN [code |-> "CREATED", gen |-> req[p].gen, state |-> "COMMITTED"]
                   ELSE [code |-> "OK", gen |-> req[p].gen, state |-> "DELETED"]
  OBVIOUS
<1>3. ReplyAndClose(p, s, a) /\ a.gen = req[p].gen /\ a.code \in {"CREATED", "OK"}
  BY <1>2 DEF Ack
<1>4. Quiet /\ UNCHANGED generations /\ Reply(p, a)
  BY <1>3, ClosingIsQuiet DEF ReplyAndClose
<1>5. a.code \notin ErrorCode
  BY <1>3 DEF ErrorCode
<1> QED BY <1>1, <1>3, <1>4, <1>5, AnswersTruly DEF Announced

\* Every statement of a transaction.
LEMMA StatementIsHonest ==
  ASSUME IInv, NEW p \in Procs, NEW s \in Sessions, Honest(p), InTransaction(p, s)
  PROVE  Honest(p)'
<1>1. tx[s].client = p /\ tx[s] \in Session /\ pc[p] # "idle"
  BY DEF InTransaction, IInv, TypeOK, DbTypeOK, Serving, ServingAt
<1>2. CASE AcquireLock(p, s)
  <2>1. tx' = [tx EXCEPT ![s] = [tx[s] EXCEPT !.lock = AdvisoryKey[Slot(p)]]]
        /\ pc'[p] = "recheck" /\ UNCHANGED <<generations, req, answer>>
    BY <1>2 DEF AcquireLock, Goto, IInv, TypeOK, ServiceTypeOK
  <2>2. Quiet
    BY <1>1, <2>1, OneIsQuiet DEF Session
  <2> QED BY <1>1, <2>1, <2>2, QuietDisturbsNobody, GoesOn
<1>3. CASE Recheck(p, s)
  <2>1. CASE pc'[p] = "insert" /\ UNCHANGED <<generations, tx, req, answer>>
    BY <1>1, <2>1, SameIsQuiet, QuietDisturbsNobody, GoesOn
  <2>2. CASE \E g \in Existing(Slot(p)) : ReplyAndClose(p, s, Replayed(p, g))
    <3>1. PICK g \in Existing(Slot(p)) : ReplyAndClose(p, s, Replayed(p, g))
      BY <2>2
    <3>2. Reply(p, Replayed(p, g)) /\ UNCHANGED generations /\ Quiet
      BY <3>1, ClosingIsQuiet DEF ReplyAndClose
    <3> QED BY <1>3, <3>2, ReplayIsTrue DEF Recheck
  <2> QED BY <1>3, <2>1, <2>2 DEF Recheck, Goto, IInv, TypeOK, ServiceTypeOK
<1>4. CASE InsertRow(p, s)
  <2>1. CASE InsertOutcome(s, ToInsert(p)) = "ok"
    <3>1. /\ tx' = [tx EXCEPT ![s] = [tx[s] EXCEPT !.ins = @ \cup {ToInsert(p)}]]
          /\ UNCHANGED <<generations, pc, req, answer>> /\ pc[p] = "insert"
      BY <1>4, <2>1 DEF InsertRow
    <3>2. \A t \in Sessions : tx'[t].new = tx[t].new /\ tx'[t].digest = tx[t].digest
      BY <1>1, <3>1 DEF IInv, TypeOK, DbTypeOK, Session
    <3>3. Undisturbed(p)
      BY <3>1, <3>2 DEF Undisturbed, Stored
    <3> QED BY <1>1, <3>1, <3>3, GoesOn
  <2>2. CASE InsertOutcome(s, ToInsert(p)) # "ok"
    <3>1. PICK code : code = InsertOutcome(s, ToInsert(p))
      OBVIOUS
    <3>2. /\ Reply(p, Refused(code)) /\ tx' = [tx EXCEPT ![s] = Closed] /\ UNCHANGED generations
          /\ pc[p] = "insert"
      BY <1>4, <2>2, <3>1 DEF InsertRow, ReplyAndClose
    <3>3. code \notin Success \cup {"IDEMPOTENCY_KEY_REUSED"}
      BY <1>4, <3>1, OutcomeCodes
    <3>4. ~Stored(req[p].gen) /\ \A t \in Sessions : tx[t].new # req[p].gen
      BY <1>1, <3>2, KeyIsHeld
    <3> QED BY <1>1, <3>2, <3>3, <3>4, ClosingIsQuiet, ErrorIsTrue
  <2> QED BY <2>1, <2>2
<1>5. CASE DeadlockDetected(p, s)
  <2>1. /\ pc[p] \notin {"idle", "generate"} /\ Quiet /\ UNCHANGED generations
        /\ RetryOrGiveUp(p)
    BY <1>1, <1>5, ClosingIsQuiet DEF DeadlockDetected, IInv, Serving, ServingAt
  <2> QED BY <2>1, RetryIsHonest
<1> QED BY <1>1, <1>2, <1>3, <1>4, <1>5, EvidenceIsHonest, SelectIsHonest, DeleteRowIsHonest,
           MarkIsHonest, AckIsHonest DEF InTransaction

\* Every step of a process.
LEMMA MoverIsHonest ==
  ASSUME IInv, NEW p \in Procs, Honest(p),
         AcceptRequest(p) \/ Serve(p) \/ ConnectionLost(p) \/ Crash(p)
  PROVE  Honest(p)'
<1>1. CASE FindIdempotent(p)
  <2>1. pc[p] = "find" /\ UNCHANGED <<generations, tx>> /\ Quiet
    BY <1>1, SameIsQuiet DEF FindIdempotent, dbVars
  <2>2. CASE pc'[p] = "generate" /\ UNCHANGED <<req, answer>>
    BY <2>1, <2>2, QuietDisturbsNobody, GoesOn
  <2>3. CASE \E g \in Existing(Slot(p)) : Reply(p, Replayed(p, g))
    BY <2>1, <2>3, ReplayIsTrue
  <2> QED BY <1>1, <2>2, <2>3 DEF FindIdempotent, Goto, IInv, TypeOK, ServiceTypeOK
<1>2. CASE Connect(p)
  <2>1. PICK s \in Sessions : tx' = [tx EXCEPT ![s] = Blank("open", p)]
    BY <1>2 DEF Connect
  <2>2. Quiet
    <3>1. Blank("open", p).new = None /\ Blank("open", p).ins = {}
      BY BlankIsQuiet
    <3> QED BY <2>1, <3>1, OneIsQuiet
  <2>3. /\ pc[p] = "connect" /\ UNCHANGED <<generations, req, answer>>
        /\ pc'[p] \in {"lock", "select"}
    BY <1>2 DEF Connect, Goto, IInv, TypeOK, ServiceTypeOK
  <2> QED BY <2>2, <2>3, QuietDisturbsNobody, GoesOn
<1>3. CASE ConnectionLost(p)
  <2>1. /\ pc[p] \notin {"idle", "generate"} /\ Quiet /\ UNCHANGED generations
        /\ RetryOrGiveUp(p)
    BY <1>3, DetachedIsQuiet DEF ConnectionLost
  <2> QED BY <2>1, RetryIsHonest
<1>4. CASE Crash(p)
  <2>1. /\ pc[p] # "idle" /\ pc'[p] = "idle" /\ Quiet /\ UNCHANGED <<generations, req, answer>>
    BY <1>4, DetachedIsQuiet DEF Crash, Goto, IInv, TypeOK, ServiceTypeOK
  <2>2. OwnContent(p)'
    BY <2>1, QuietDisturbsNobody, ContentStays DEF Honest
  <2>3. answer'[p].code = "none" /\ "none" \notin Success /\ "none" \notin ErrorCode
    BY <2>1 DEF Honest, Success, ErrorCode
  <2>4. \A s \in Sessions : tx'[s].client = p => Promised(p, s)'
    BY <2>1 DEF Promised
  <2>5. AnswersAreTrue!(p)' /\ RefusedPostIsGone!(p)'
    BY <2>3
  <2> QED BY <2>1, <2>2, <2>3, <2>4, <2>5 DEF Honest
<1>5. CASE \E s \in Sessions : InTransaction(p, s)
  BY <1>5, StatementIsHonest
<1>6. Serve(p) => \/ FindIdempotent(p) \/ Generate(p) \/ Connect(p) \/ Get(p)
                  \/ \E s \in Sessions : InTransaction(p, s)
  BY DEF Serve
<1> QED BY <1>1, <1>2, <1>3, <1>4, <1>5, <1>6, AcceptIsHonest, GenerateIsHonest, GetIsHonest

-----------------------------------------------------------------------------
(* The others *)

\* Statements keep to the session of their process.
LEMMA KeepsToItsSession ==
  ASSUME IInv, NEW p \in Procs, NEW s \in Sessions, InTransaction(p, s)
  PROVE  /\ \A t \in Sessions \ {s} : tx'[t] = tx[t]
         /\ tx'[s].client \in {p, None}
<1> DEFINE Kept == /\ \A t \in Sessions \ {s} : tx'[t] = tx[t]
                   /\ tx'[s].client \in {p, None}
<1>1. tx[s].client = p /\ tx[s] \in Session /\ tx \in [Sessions -> Session]
  BY DEF InTransaction, IInv, TypeOK, DbTypeOK
<1>2. ASSUME NEW new, tx' = [tx EXCEPT ![s] = new], new.client \in {p, None} PROVE Kept
  BY <1>1, <1>2
<1>3. tx' = [tx EXCEPT ![s] = Closed] => Kept
  <2>1. Closed.client = None
    BY BlankIsQuiet DEF Closed
  <2> QED BY <1>2, <2>1
<1>4. UNCHANGED tx => Kept
  BY <1>1
<1>5. CASE AcquireLock(p, s)
  <2>1. tx' = [tx EXCEPT ![s] = [tx[s] EXCEPT !.lock = AdvisoryKey[Slot(p)]]]
    BY <1>5 DEF AcquireLock
  <2> QED BY <1>1, <1>2, <2>1 DEF Session
<1>6. CASE Recheck(p, s)
  BY <1>3, <1>4, <1>6 DEF Recheck, ReplyAndClose
<1>7. CASE InsertRow(p, s)
  <2>1. \/ tx' = [tx EXCEPT ![s] = [tx[s] EXCEPT !.ins = @ \cup {ToInsert(p)}]]
        \/ tx' = [tx EXCEPT ![s] = Closed]
    BY <1>7 DEF InsertRow, ReplyAndClose
  <2> QED BY <1>1, <1>2, <1>3, <2>1 DEF Session
<1>8. CASE WriteEvidence(p, s)
  <2>1. \/ tx' = [tx EXCEPT ![s] = [tx[s] EXCEPT !.st = "commit", !.new = req[p].gen,
                                                 !.slot = Slot(p), !.digest = req[p].digest,
                                                 !.ledger = handled[p]]]
        \/ tx' = [tx EXCEPT ![s] = Closed]
    BY <1>8 DEF WriteEvidence, ReplyAndClose
  <2> QED BY <1>1, <1>2, <1>3, <2>1 DEF Session
<1>9. CASE SelectForUpdate(p, s)
  <2>1. \/ tx' = [tx EXCEPT ![s] = [tx[s] EXCEPT !.upd = req[p].gen]]
        \/ tx' = [tx EXCEPT ![s] = Closed]
    BY <1>9 DEF SelectForUpdate, ReplyAndClose
  <2> QED BY <1>1, <1>2, <1>3, <2>1 DEF Session
<1>10. CASE DeleteRow(p, s)
  <2>1. \/ tx' = [tx EXCEPT ![s] = [tx[s] EXCEPT !.del = @ \cup {ToDelete(p)}]]
        \/ tx' = [tx EXCEPT ![s] = Closed]
    BY <1>10 DEF DeleteRow, ReplyAndClose
  <2> QED BY <1>1, <1>2, <1>3, <2>1 DEF Session
<1>11. CASE MarkDeleted(p, s)
  <2>1. tx' = [tx EXCEPT ![s] = [tx[s] EXCEPT !.st = "commit"]]
    BY <1>11 DEF MarkDeleted
  <2> QED BY <1>1, <1>2, <2>1 DEF Session
<1>12. CASE Ack(p, s) \/ DeadlockDetected(p, s)
  BY <1>3, <1>12 DEF Ack, ReplyAndClose, DeadlockDetected
<1> QED BY <1>5, <1>6, <1>7, <1>8, <1>9, <1>10, <1>11, <1>12 DEF InTransaction

\* A process touches no session of another.
LEMMA KeepsToItsSessions ==
  ASSUME IInv, NEW p \in Procs, AcceptRequest(p) \/ Serve(p) \/ ConnectionLost(p) \/ Crash(p),
         NEW q \in Procs \ {p}, NEW s \in Sessions, tx'[s].client = q
  PROVE  tx'[s] = tx[s]
<1>1. q # None
  BY DatabaseAssumption
<1>2. CASE AcceptRequest(p) \/ FindIdempotent(p) \/ Generate(p) \/ Get(p)
  BY <1>2 DEF AcceptRequest, AcceptPost, AcceptGet, AcceptDelete, Accept, FindIdempotent,
              Generate, Get, dbVars
<1>3. CASE Connect(p)
  <2>1. PICK t \in Sessions : tx' = [tx EXCEPT ![t] = Blank("open", p)]
    BY <1>3 DEF Connect
  <2>2. Blank("open", p).client = p
    BY BlankIsQuiet
  <2> QED BY <2>1, <2>2 DEF IInv, TypeOK, DbTypeOK
<1>4. CASE \E t \in Sessions : InTransaction(p, t)
  <2>1. PICK t \in Sessions : InTransaction(p, t)
    BY <1>4
  <2> QED BY <1>1, <2>1, KeepsToItsSession
<1>5. CASE ConnectionLost(p) \/ Crash(p)
  <2>1. tx' = Detached(p)
    BY <1>5 DEF ConnectionLost, Crash
  <2>2. Closed.client = None /\ tx[s] \in Session
    BY BlankIsQuiet DEF Closed, IInv, TypeOK, DbTypeOK
  <2>3. tx'[s] \in {tx[s], Closed, [tx[s] EXCEPT !.client = None]}
    BY <2>1 DEF Detached
  <2> QED BY <1>1, <2>2, <2>3 DEF Session
<1>6. Serve(p) => \/ FindIdempotent(p) \/ Generate(p) \/ Connect(p) \/ Get(p)
                  \/ \E t \in Sessions : InTransaction(p, t)
  BY DEF Serve
<1> QED BY <1>2, <1>3, <1>4, <1>5, <1>6

\* Nor does it write evidence under an id that another drew.
LEMMA DisturbsNoOther ==
  ASSUME IInv, DrawnOnce, NEW p \in Procs,
         AcceptRequest(p) \/ Serve(p) \/ ConnectionLost(p) \/ Crash(p),
         NEW q \in Procs \ {p}
  PROVE  Undisturbed(q)
<1>1. UNCHANGED generations
  BY ServiceIsPrivate DEF ServiceNext, tables
<1>2. CASE Quiet
  BY <1>1, <1>2, QuietDisturbsNobody
<1>3. CASE \E s \in Sessions : tx[s].client = p /\ Inserts(p, s)
  <2>1. PICK s \in Sessions : Inserts(p, s)
    BY <1>3
  <2>2. tx' = [tx EXCEPT ![s] = [tx[s] EXCEPT !.ins = @ \cup {ToInsert(p)}]]
    BY <2>1 DEF Inserts, InsertRow
  <2>3. \A t \in Sessions : tx'[t].new = tx[t].new /\ tx'[t].digest = tx[t].digest
    BY <2>2 DEF IInv, TypeOK, DbTypeOK, Session
  <2> QED BY <1>1, <2>3 DEF Undisturbed, Stored
<1>4. CASE \E s \in Sessions : tx[s].client = p /\ WriteEvidence(p, s)
  <2>1. PICK s \in Sessions : tx[s].client = p /\ WriteEvidence(p, s)
    BY <1>4
  <2>2. /\ req[p].op = "post" /\ req[p].gen \in GenIds /\ Existing(Slot(p)) = {}
        /\ tx[s] \in Session /\ req[p].gen # None
    BY <2>1, DatabaseAssumption
    DEF WriteEvidence, IInv, TypeOK, DbTypeOK, RequestShape, InPost, Serving, ServingAt
  <2>3. tx' = [tx EXCEPT ![s] = [tx[s] EXCEPT !.st = "commit", !.new = req[p].gen,
                                              !.slot = Slot(p), !.digest = req[p].digest,
                                              !.ledger = handled[p]]]
    BY <2>1, <2>2 DEF WriteEvidence
  <2>4. tx'[s].new = req[p].gen /\ \A t \in Sessions \ {s} : tx'[t] = tx[t]
    BY <2>2, <2>3 DEF IInv, TypeOK, DbTypeOK, Session
  <2>5. req[q].op = "post" => req[q].gen # req[p].gen
    BY <2>2 DEF DrawnOnce
  <2> QED BY <1>1, <2>4, <2>5 DEF Undisturbed, Stored
<1> QED BY <1>2, <1>3, <1>4, ServiceIsQuiet

\* An id is drawn that nobody has drawn.
LEMMA DrawsOnce ==
  ASSUME IInv, DrawnOnce, NEW p \in Procs,
         AcceptRequest(p) \/ Serve(p) \/ ConnectionLost(p) \/ Crash(p)
  PROVE  DrawnOnce'
<1>1. \A q \in Procs \ {p} : req'[q] = req[q]
  BY ServesItsOwn
<1>2. ASSUME req'[p].op = "post", req'[p].gen # None, req'[p] # req[p]
      PROVE  req'[p].gen \in GenIds /\ issued[req'[p].gen] = None
  <2>1. ~AcceptRequest(p)
    <3> SUFFICES ASSUME AcceptRequest(p) PROVE FALSE
      OBVIOUS
    <3>1. CASE AcceptPost(p)
      <4>1. PICK t \in Tenants, k \in Keys, d \in Digests :
               req' = [req EXCEPT ![p] = [op |-> "post", tenant |-> t, key |-> k,
                                          digest |-> d, gen |-> None]]
        <5>1. PICK t \in Tenants, k \in Keys, d \in Digests :
                 Accept(p, [op |-> "post", tenant |-> t, key |-> k, digest |-> d, gen |-> None],
                        "find")
          BY <3>1 DEF AcceptPost
        <5>2. req' = [req EXCEPT ![p] = [op |-> "post", tenant |-> t, key |-> k,
                                         digest |-> d, gen |-> None]]
          BY <5>1 DEF Accept
        <5> QED BY <5>2
      <4> QED BY <1>2, <4>1 DEF IInv, TypeOK, ServiceTypeOK
    <3>2. CASE AcceptGet(p)
      <4>1. PICK t \in Tenants, g \in GenIds :
               req' = [req EXCEPT ![p] = [op |-> "get", tenant |-> t, key |-> None,
                                          digest |-> None, gen |-> g]]
        BY <3>2 DEF AcceptGet, Accept
      <4> QED BY <1>2, <4>1 DEF IInv, TypeOK, ServiceTypeOK
    <3>3. CASE AcceptDelete(p)
      <4>1. PICK t \in Tenants, g \in GenIds :
               req' = [req EXCEPT ![p] = [op |-> "delete", tenant |-> t, key |-> None,
                                          digest |-> None, gen |-> g]]
        BY <3>3 DEF AcceptDelete, Accept
      <4> QED BY <1>2, <4>1 DEF IInv, TypeOK, ServiceTypeOK
    <3> QED BY <3>1, <3>2, <3>3 DEF AcceptRequest
  <2>2. Generate(p)
    <3>1. ~FindIdempotent(p) /\ ~Connect(p) /\ ~Get(p) /\ ~ConnectionLost(p) /\ ~Crash(p)
      BY <1>2 DEF FindIdempotent, Connect, Get, ConnectionLost, Crash, RetryOrGiveUp, Reply
    <3>2. \A s \in Sessions : ~InTransaction(p, s)
      BY <1>2 DEF InTransaction, AcquireLock, Recheck, InsertRow, WriteEvidence, SelectForUpdate,
                  DeleteRow, MarkDeleted, Ack, DeadlockDetected, RetryOrGiveUp, ReplyAndClose, Reply
    <3> QED BY <2>1, <3>1, <3>2 DEF Serve
  <2>3. PICK g \in GenIds : issued[g] = None /\ req' = [req EXCEPT ![p] = [req[p] EXCEPT !.gen = g]]
    BY <1>2, <2>2 DEF Generate, Reply
  <2>4. req'[p].gen = g
    BY <2>3 DEF IInv, TypeOK, ServiceTypeOK, Request
  <2> QED BY <2>3, <2>4
<1>3. ASSUME NEW q \in Procs \ {p}, req[q].op = "post", req[q].gen # None
      PROVE  issued[req[q].gen] # None
  BY <1>3, OwnSlot, DatabaseAssumption
<1>4. ASSUME NEW q \in Procs \ {p}, req'[p].op = "post", req[q].op = "post", req[q].gen # None
      PROVE  req'[p].gen # req[q].gen
  BY <1>2, <1>3, <1>4 DEF DrawnOnce
<1> QED BY <1>1, <1>4 DEF DrawnOnce

\* What a process does keeps every process honest.
LEMMA ServiceIsHonest ==
  ASSUME IInv, AnswerInv, NEW p \in Procs,
         AcceptRequest(p) \/ Serve(p) \/ ConnectionLost(p) \/ Crash(p)
  PROVE  AnswerInv'
<1>1. DrawnOnce'
  BY DrawsOnce DEF AnswerInv
<1>2. Honest(p)'
  BY MoverIsHonest DEF AnswerInv
<1>3. ASSUME NEW q \in Procs \ {p} PROVE Honest(q)'
  <2>1. UNCHANGED <<pc[q], req[q], answer[q]>> /\ Honest(q) /\ Undisturbed(q)
    BY ServesItsOwn, DisturbsNoOther DEF AnswerInv
  <2>2. ASSUME NEW s \in Sessions, tx'[s].client = q PROVE Promised(q, s)'
    <3>1. tx'[s] = tx[s]
      BY <2>2, KeepsToItsSessions
    <3>2. Promised(q, s)
      BY <2>1, <2>2, <3>1 DEF Honest
    <3> QED BY <2>1, <2>2, <3>1, <3>2, PromiseStays
  <2> QED BY <2>1, <2>2, BystanderIsHonest
<1> QED BY <1>1, <1>2, <1>3 DEF AnswerInv

\* COMMIT disturbs nobody.
LEMMA CommitDisturbsNobody ==
  ASSUME IInv, NEW s \in Sessions, ServerCommit(s), NEW q \in Procs
  PROVE  Undisturbed(q)
<1>1. /\ \A t \in Sessions \ {s} : tx'[t] = tx[t]
      /\ tx'[s].new = None
  <2>1. tx'[s] = (IF tx[s].client = None THEN Closed ELSE Blank("done", tx[s].client))
    BY CommitLeavesOthers
  <2> QED BY <2>1, CommitLeavesOthers, BlankIsQuiet DEF Closed
<1>2. CASE tx[s].new # None
  <2>1. PICK g \in GenIds : tx[s].new = g /\ ~Stored(g)
    BY <1>2, CommitInsert
  <2>2. generations' = [generations EXCEPT ![g] =
              [state |-> "COMMITTED", slot |-> tx[s].slot, digest |-> tx[s].digest]]
    BY <1>2, <2>1, CommitInsert
  <2>3. /\ generations'[g].digest = tx[s].digest
        /\ \A h \in GenIds \ {g} : generations'[h] = generations[h]
    BY <2>2 DEF IInv, TypeOK, DbTypeOK
  <2> QED BY <1>1, <2>1, <2>3 DEF Undisturbed, Stored
<1>3. CASE tx[s].new = None
  <2>1. PICK g \in GenIds : tx[s].upd = g /\ generations[g].state = "COMMITTED"
    BY <1>3, CommitDelete
  <2>2. generations' = [generations EXCEPT ![g] = [generations[g] EXCEPT !.state = "DELETED"]]
    BY <1>3, <2>1, CommitDelete
  <2>3. /\ generations'[g].state = "DELETED" /\ generations'[g].slot = generations[g].slot
        /\ generations'[g].digest = generations[g].digest
        /\ \A h \in GenIds \ {g} : generations'[h] = generations[h]
    BY <2>2 DEF IInv, TypeOK, DbTypeOK, GenerationRow
  <2>4. Stored(g) /\ Stored(g)'
    BY <2>1, <2>3 DEF Stored
  <2> QED BY <1>1, <2>3, <2>4 DEF Undisturbed, Stored
<1> QED BY <1>2, <1>3

\* After COMMIT its client can announce what it was promised.
LEMMA CommitKeepsPromise ==
  ASSUME IInv, NEW s \in Sessions, ServerCommit(s), UNCHANGED serviceVars,
         NEW q \in Procs, tx[s].client = q, Promised(q, s)
  PROVE  Promised(q, s)'
<1>1. tx[s].st = "commit" /\ pc[q] = "commit"
  <2>1. tx[s].st = "commit" /\ ServingAt(q, s)
    BY DEF ServerCommit, IInv, Serving
  <2>2. Blank("open", q).st = "open" /\ [Blank("open", q) EXCEPT !.lock = AdvisoryKey[Slot(q)]].st = "open"
    BY DEF Blank
  <2> QED BY <2>1, <2>2 DEF ServingAt
<1>2. req[q].gen \in GenIds /\ req[q].op \in {"post", "delete"}
  BY <1>1 DEF IInv, RequestShape
<1>3. PICK g \in GenIds : g = req[q].gen
  BY <1>2
<1>4. tx'[s].st = "done"
  <2>1. tx'[s] = Blank("done", q)
    BY CommitLeavesOthers, DatabaseAssumption
  <2> QED BY <2>1, BlankIsQuiet
<1>5. pc'[q] = "commit" /\ req'[q] = req[q] /\ Slot(q)' = Slot(q)
  BY <1>1 DEF serviceVars, Slot
<1>6. CASE req[q].op = "post"
  <2>1. tx[s].new = g /\ tx[s].slot = Slot(q) /\ tx[s].digest = req[q].digest /\ g # None
    BY <1>1, <1>3, <1>6, DatabaseAssumption DEF Promised
  <2>2. generations' = [generations EXCEPT ![g] =
              [state |-> "COMMITTED", slot |-> Slot(q), digest |-> req[q].digest]]
    BY <2>1, CommitInsert
  <2>3. generations'[g] = [state |-> "COMMITTED", slot |-> Slot(q), digest |-> req[q].digest]
    BY <2>2 DEF IInv, TypeOK, DbTypeOK
  <2>4. Announced(q)'
    BY <1>3, <1>5, <1>6, <2>3 DEF Announced, Stored
  <2> QED BY <1>4, <1>5, <2>4 DEF Promised
<1>7. CASE req[q].op = "delete"
  <2>1. tx[s].new = None /\ tx[s].upd = g /\ generations[g].slot[1] = req[q].tenant
    BY <1>1, <1>3, <1>7 DEF Promised
  <2>2. generations' = [generations EXCEPT ![g] = [generations[g] EXCEPT !.state = "DELETED"]]
    BY <2>1, CommitDelete
  <2>3. generations'[g].state = "DELETED" /\ generations'[g].slot = generations[g].slot
    BY <2>2 DEF IInv, TypeOK, DbTypeOK, GenerationRow
  <2>4. Announced(q)'
    BY <1>3, <1>5, <1>7, <2>1, <2>3 DEF Announced, Stored
  <2> QED BY <1>4, <1>5, <2>4 DEF Promised
<1> QED BY <1>2, <1>6, <1>7

\* A process that nobody disturbs, and whose sessions are left alone, stays honest.
LEMMA StillIsHonest ==
  ASSUME IInv, NEW q \in Procs, Honest(q), Quiet,
         UNCHANGED <<generations, pc[q], req[q], answer[q]>>,
         \A t \in Sessions : tx'[t].client = q => tx'[t] = tx[t]
  PROVE  Honest(q)'
<1>1. Undisturbed(q)
  BY QuietDisturbsNobody
<1>2. ASSUME NEW t \in Sessions, tx'[t].client = q PROVE Promised(q, t)'
  <2>1. tx'[t] = tx[t] /\ Promised(q, t)
    BY <1>2 DEF Honest
  <2> QED BY <1>1, <1>2, <2>1, PromiseStays
<1> QED BY <1>1, <1>2, BystanderIsHonest

\* What the server and the application do keeps every process honest.
LEMMA DatabaseIsHonest ==
  ASSUME IInv, AnswerInv, DbNext, UNCHANGED serviceVars
  PROVE  AnswerInv'
<1>1. DrawnOnce'
  BY DEF AnswerInv, DrawnOnce, serviceVars
<1>2. ASSUME NEW q \in Procs PROVE Honest(q)'
  <2>1. Honest(q) /\ UNCHANGED <<pc[q], req[q], answer[q]>>
    BY DEF AnswerInv, serviceVars
  <2>2. ASSUME NEW s \in Sessions, ServerCommit(s) PROVE Honest(q)'
    <3>1. Undisturbed(q)
      BY <2>2, CommitDisturbsNobody
    <3>2. ASSUME NEW t \in Sessions, tx'[t].client = q PROVE Promised(q, t)'
      <4>1. tx[t].client = q /\ (t # s => tx'[t] = tx[t])
        BY <2>2, <3>2, CommitLeavesOthers
      <4>2. Promised(q, t)
        BY <2>1, <4>1 DEF Honest
      <4>3. CASE t = s
        BY <2>2, <4>1, <4>2, <4>3, CommitKeepsPromise
      <4>4. CASE t # s
        BY <2>1, <3>1, <4>1, <4>2, <4>4, PromiseStays
      <4> QED BY <4>3, <4>4
    <3> QED BY <2>1, <3>1, <3>2, BystanderIsHonest
  <2>3. ASSUME NEW s \in Sessions, ServerAbort(s) PROVE Honest(q)'
    <3>1. Closed.client = None /\ q # None
      BY BlankIsQuiet, DatabaseAssumption DEF Closed
    <3>2. \A t \in Sessions : tx'[t].client = q => tx'[t] = tx[t]
      BY <2>3, <3>1 DEF ServerAbort, IInv, TypeOK, DbTypeOK
    <3> QED BY <2>1, <2>3, <3>2, ClosingIsQuiet, StillIsHonest DEF ServerAbort
  <2>4. ASSUME NEW r \in RowIds, AppInsert(r) \/ AppUpdate(r) \/ AppDelete(r) \/ AppAlter(r)
        PROVE  Honest(q)'
    <3>1. UNCHANGED <<tx, generations>>
      BY <2>4 DEF AppInsert, AppUpdate, AppDelete, AppAlter
    <3> QED BY <2>1, <3>1, SameIsQuiet, StillIsHonest
  <2> QED BY <2>2, <2>3, <2>4 DEF DbNext
<1> QED BY <1>1, <1>2 DEF AnswerInv

\* Every process is honest, always.
THEOREM ClientsAreToldTheTruth == Spec => []AnswerInv
<1>1. Init => AnswerInv
  <2> SUFFICES ASSUME Init PROVE AnswerInv
    OBVIOUS
  <2>1. \A p \in Procs : /\ pc[p] = "idle" /\ req[p] = NoRequest /\ answer[p] = NoAnswer
    BY DEF Init
  <2>2. NoRequest.op = "none" /\ NoAnswer.code = "none" /\ "none" \notin Success
    BY DEF NoRequest, NoAnswer, Refused, Success
  <2>3. ASSUME NEW p \in Procs PROVE Honest(p)
    BY <2>1, <2>2 DEF Honest, OwnContent, Promised
  <2> QED BY <2>1, <2>2, <2>3 DEF AnswerInv, DrawnOnce
<1>2. IInv /\ AnswerInv /\ [Next]_vars => AnswerInv'
  <2> SUFFICES ASSUME IInv, AnswerInv, [Next]_vars PROVE AnswerInv'
    OBVIOUS
  <2>1. CASE UNCHANGED vars
    <3>1. UNCHANGED <<generations, tx, pc, req, answer>> /\ Quiet
      BY <2>1, SameIsQuiet DEF vars
    <3>2. \A q \in Procs : Honest(q)'
      BY <3>1, StillIsHonest DEF AnswerInv
    <3> QED BY <3>1, <3>2 DEF AnswerInv, DrawnOnce
  <2>2. CASE DbNext /\ UNCHANGED serviceVars
    BY <2>2, DatabaseIsHonest
  <2>3. CASE ServiceNext
    BY <2>3, ServiceIsHonest DEF ServiceNext
  <2> QED BY <2>1, <2>2, <2>3 DEF Next
<1> QED BY <1>1, <1>2, Invariance, PTL DEF Spec

\* A success is told only of what is durable and stays true, and a key is called
\* reused only if it is.
THEOREM AnswersAreAlwaysTrue == Spec => []AnswersAreTrue
<1>1. AnswerInv => AnswersAreTrue
  BY DEF AnswerInv, Honest, AnswersAreTrue
<1> QED BY <1>1, ClientsAreToldTheTruth, PTL

\* What was refused, with anything but DEPENDENCY_UNAVAILABLE, never comes back.
THEOREM RefusedPostsAreGone == Spec => []RefusedPostIsGone
<1>1. AnswerInv => RefusedPostIsGone
  BY DEF AnswerInv, Honest, RefusedPostIsGone
<1> QED BY <1>1, ClientsAreToldTheTruth, PTL

-----------------------------------------------------------------------------
(* Who waits for whom *)

\* Whom session s waits for at any statement: at the advisory lock and at FOR UPDATE
\* for whoever has it, at the rows for those that wrote them, and at the evidence for
\* whoever inserts the same key.
AllWaitsFor(s) ==
    WaitsFor(s) \cup
    {t \in Others(s) : \E p \in Procs :
        /\ tx[s].client = p
        /\ \/ pc[p] = "lock" /\ tx[t].lock = AdvisoryKey[Slot(p)]
           \/ pc[p] = "select" /\ tx[t].upd = req[p].gen
           \/ pc[p] = "insert" /\ tx[t].slot = Slot(p)}

\* Sessions of which each waits for one and is waited for by one.
Circle(C) ==
    /\ \A t \in C : AllWaitsFor(t) \cap C # {}
    /\ \A t \in C : \E u \in C : t \in AllWaitsFor(u)

\* Nobody waits for a session that has begun and not taken anything.
LEMMA BeginnersHoldNothing ==
  ASSUME IInv, NEW s \in Sessions, NEW u \in Sessions, s \in AllWaitsFor(u)
  PROVE  tx[s].client = None \/ tx[s] # Blank("open", tx[s].client)
<1> SUFFICES ASSUME tx[s] = Blank("open", tx[s].client) PROVE FALSE
  OBVIOUS
<1>1. tx[s].lock = None /\ tx[s].upd = None /\ tx[s].slot = None /\ Held(s) = {} /\ tx[s].del = {}
  BY DEF Blank, Held
<1>2. s \notin WaitsFor(u)
  <2>1. \A r : s \notin InsertBlockers(u, r) /\ s \notin DeleteBlockers(u, r)
    BY <1>1 DEF InsertBlockers, DeleteBlockers
  <2> QED
    BY <2>1 DEF WaitsFor
<1>3. PICK p \in Procs :
        /\ tx[u].client = p
        /\ \/ pc[p] = "lock" /\ tx[s].lock = AdvisoryKey[Slot(p)]
           \/ pc[p] = "select" /\ tx[s].upd = req[p].gen
           \/ pc[p] = "insert" /\ tx[s].slot = Slot(p)
  BY <1>2 DEF AllWaitsFor
<1>4. pc[p] \in {"lock", "insert"} => Slot(p) \in Slots /\ AdvisoryKey[Slot(p)] \in LockIds
  BY DatabaseAssumption DEF IInv, RequestShape, InPost, Slot, Slots
<1>5. pc[p] = "select" => req[p].gen \in GenIds
  BY DEF IInv, RequestShape, InDelete
<1> QED
  BY <1>1, <1>3, <1>4, <1>5, DatabaseAssumption

\* A key is inserted with a generation only.
SlotInv == \A s \in Sessions : tx[s].new = None => tx[s].slot = None

\* A session that ends or begins, or changes neither, keeps this so.
LEMMA OneSlot ==
  ASSUME IInv, SlotInv, NEW s \in Sessions, NEW new, tx' = [tx EXCEPT ![s] = new],
         \/ new.new = None /\ new.slot = None
         \/ new.new = tx[s].new /\ new.slot = tx[s].slot
         \/ new.new # None
  PROVE  SlotInv'
BY DEF IInv, TypeOK, DbTypeOK, SlotInv

\* So do all statements.
LEMMA StatementSlot ==
  ASSUME IInv, SlotInv, NEW p \in Procs, NEW s \in Sessions, InTransaction(p, s)
  PROVE  SlotInv'
<1>1. tx[s].client = p /\ tx[s] \in Session
  BY DEF InTransaction, IInv, TypeOK, DbTypeOK
<1>2. tx' = [tx EXCEPT ![s] = Closed] => SlotInv'
  <2>1. Closed.new = None /\ Closed.slot = None
    BY DEF Closed, Blank
  <2> QED
    BY <2>1, OneSlot
<1>3. UNCHANGED tx => SlotInv'
  BY DEF SlotInv
<1>4. CASE AcquireLock(p, s)
  <2>1. tx' = [tx EXCEPT ![s] = [tx[s] EXCEPT !.lock = AdvisoryKey[Slot(p)]]]
    BY <1>4 DEF AcquireLock
  <2> QED
    BY <1>1, <2>1, OneSlot DEF Session
<1>5. CASE Recheck(p, s)
  BY <1>2, <1>3, <1>5 DEF Recheck, ReplyAndClose
<1>6. CASE InsertRow(p, s)
  <2>1. \/ tx' = [tx EXCEPT ![s] = [tx[s] EXCEPT !.ins = @ \cup {ToInsert(p)}]]
        \/ tx' = [tx EXCEPT ![s] = Closed]
    BY <1>6 DEF InsertRow, ReplyAndClose
  <2> QED
    BY <1>1, <1>2, <2>1, OneSlot DEF Session
<1>7. CASE WriteEvidence(p, s)
  <2>1. \/ tx' = [tx EXCEPT ![s] = [tx[s] EXCEPT !.st = "commit", !.new = req[p].gen,
                                                 !.slot = Slot(p), !.digest = req[p].digest,
                                                 !.ledger = handled[p]]]
        \/ tx' = [tx EXCEPT ![s] = Closed]
    BY <1>7 DEF WriteEvidence, ReplyAndClose
  <2>2. req[p].gen # None
    BY <1>7, DatabaseAssumption DEF IInv, RequestShape, WriteEvidence
  <2> QED
    BY <1>1, <1>2, <2>1, <2>2, OneSlot DEF Session
<1>8. CASE SelectForUpdate(p, s)
  <2>1. \/ tx' = [tx EXCEPT ![s] = [tx[s] EXCEPT !.upd = req[p].gen]]
        \/ tx' = [tx EXCEPT ![s] = Closed]
    BY <1>8 DEF SelectForUpdate, ReplyAndClose
  <2> QED
    BY <1>1, <1>2, <2>1, OneSlot DEF Session
<1>9. CASE DeleteRow(p, s)
  <2>1. \/ tx' = [tx EXCEPT ![s] = [tx[s] EXCEPT !.del = @ \cup {ToDelete(p)}]]
        \/ tx' = [tx EXCEPT ![s] = Closed]
    BY <1>9 DEF DeleteRow, ReplyAndClose
  <2> QED
    BY <1>1, <1>2, <2>1, OneSlot DEF Session
<1>10. CASE MarkDeleted(p, s)
  <2>1. tx' = [tx EXCEPT ![s] = [tx[s] EXCEPT !.st = "commit"]]
    BY <1>10 DEF MarkDeleted
  <2> QED
    BY <1>1, <2>1, OneSlot DEF Session
<1>11. CASE Ack(p, s) \/ DeadlockDetected(p, s)
  BY <1>2, <1>11 DEF Ack, ReplyAndClose, DeadlockDetected
<1> QED
  BY <1>4, <1>5, <1>6, <1>7, <1>8, <1>9, <1>10, <1>11 DEF InTransaction

\* It holds in every state.
LEMMA SlotsAreOfEvidence == Spec => []SlotInv
<1>1. Init => SlotInv
  BY DEF Init, DbInit, SlotInv, Closed, Blank
<1>2. IInv /\ SlotInv /\ [Next]_vars => SlotInv'
  <2> SUFFICES ASSUME IInv, SlotInv, [Next]_vars PROVE SlotInv'
    OBVIOUS
  <2>1. UNCHANGED tx => SlotInv'
    BY DEF SlotInv
  <2>2. ASSUME NEW p \in Procs, AcceptRequest(p) \/ FindIdempotent(p) \/ Generate(p) \/ Get(p)
        PROVE  SlotInv'
    BY <2>1, <2>2 DEF AcceptRequest, AcceptPost, AcceptGet, AcceptDelete, Accept,
                      FindIdempotent, Generate, Get, dbVars
  <2>3. ASSUME NEW p \in Procs, Connect(p) PROVE SlotInv'
    <3>1. PICK s \in Sessions : tx' = [tx EXCEPT ![s] = Blank("open", p)]
      BY <2>3 DEF Connect
    <3>2. Blank("open", p).new = None /\ Blank("open", p).slot = None
      BY DEF Blank
    <3> QED
      BY <3>1, <3>2, OneSlot
  <2>4. ASSUME NEW p \in Procs, ConnectionLost(p) \/ Crash(p) PROVE SlotInv'
    <3>1. tx' = Detached(p) /\ \A s \in Sessions : tx[s] \in Session
      BY <2>4 DEF ConnectionLost, Crash, IInv, TypeOK, DbTypeOK
    <3>2. Closed.new = None /\ Closed.slot = None
      BY DEF Closed, Blank
    <3>3. ASSUME NEW s \in Sessions
          PROVE  \/ tx'[s] = Closed
                 \/ tx'[s].new = tx[s].new /\ tx'[s].slot = tx[s].slot
      BY <3>1 DEF Detached, Session
    <3> QED
      BY <3>2, <3>3 DEF SlotInv
  <2>5. ASSUME NEW s \in Sessions, ServerCommit(s) \/ ServerAbort(s) PROVE SlotInv'
    <3>1. PICK st, c : tx' = [tx EXCEPT ![s] = Blank(st, c)]
      <4>1. tx' = [tx EXCEPT ![s] = Blank("closed", None)]
            \/ tx' = [tx EXCEPT ![s] = Blank("done", tx[s].client)]
        BY <2>5 DEF ServerCommit, ServerAbort, Closed
      <4> QED
        BY <4>1
    <3>2. Blank(st, c).new = None /\ Blank(st, c).slot = None
      BY DEF Blank
    <3> QED
      BY <3>1, <3>2, OneSlot
  <2>6. ASSUME NEW r \in RowIds, AppInsert(r) \/ AppUpdate(r) \/ AppDelete(r) \/ AppAlter(r)
        PROVE  SlotInv'
    BY <2>1, <2>6 DEF AppInsert, AppUpdate, AppDelete, AppAlter
  <2> QED
    BY <2>1, <2>2, <2>3, <2>4, <2>5, <2>6, StatementSlot
       DEF Next, ServiceNext, Serve, DbNext, vars
<1> QED
  BY <1>1, <1>2, Invariance, PTL DEF Spec

\* The unique key of the evidence never makes a POST wait: whoever inserts the same
\* key would have the same advisory lock.
LEMMA EvidenceNeverWaits ==
  ASSUME IInv, SlotInv, NEW p \in Procs, NEW s \in Sessions, tx[s].client = p,
         pc[p] = "insert", NEW t \in Others(s)
  PROVE  tx[t].slot # Slot(p)
<1> SUFFICES ASSUME tx[t].slot = Slot(p) PROVE FALSE
  OBVIOUS
<1>1. t \in Sessions /\ t # s
  BY DEF Others
<1>2. Slot(p) \in Slots /\ AdvisoryKey[Slot(p)] \in LockIds /\ tx[s].lock = AdvisoryKey[Slot(p)]
  BY DatabaseAssumption DEF IInv, RequestShape, InPost, Slot, Slots, Serving, ServingAt
<1>3. tx[t].slot # None
  BY <1>2, DatabaseAssumption
<1>4. tx[t].lock = AdvisoryKey[Slot(p)]
  BY <1>1, <1>3, EvidenceIsCommitting DEF SlotInv
<1> QED
  BY <1>1, <1>2, <1>4, DatabaseAssumption DEF IInv, Exclusive

\* Every circle of waits is one of destination rows, which the server's deadlock
\* detector breaks (and _retry tries again): advisory lock, FOR UPDATE and unique key
\* are waited for by no session that someone else waits for, whatever advisory keys
\* collide and however many tenants share tables. (sql_repository.py:183, 242, 320)
DeadlocksAreOfRows ==
    \A C \in SUBSET Sessions : Circle(C) => \A s \in C : AllWaitsFor(s) = WaitsFor(s)

\* The server's deadlock detector sees every circle of waits there is: no request is
\* stuck behind another one for good.
THEOREM SpecDeadlocksAreOfRows == Spec => []DeadlocksAreOfRows
<1>1. IInv /\ SlotInv => DeadlocksAreOfRows
  <2> SUFFICES ASSUME IInv, SlotInv, NEW C \in SUBSET Sessions, Circle(C), NEW s \in C
               PROVE  AllWaitsFor(s) = WaitsFor(s)
    BY DEF DeadlocksAreOfRows
  <2>1. PICK u \in C : s \in AllWaitsFor(u)
    BY DEF Circle
  <2>2. tx[s].client = None \/ tx[s] # Blank("open", tx[s].client)
    BY <2>1, BeginnersHoldNothing
  <2>3. ASSUME NEW p \in Procs, tx[s].client = p
        PROVE  pc[p] \notin {"lock", "select"}
    <3>1. p # None
      BY DatabaseAssumption
    <3>2. ServingAt(p, s)
      BY <2>3 DEF IInv, Serving
    <3>3. tx[s] # Blank("open", p)
      BY <2>2, <2>3, <3>1
    <3> QED
      BY <3>2, <3>3 DEF ServingAt
  <2>4. ASSUME NEW p \in Procs, tx[s].client = p, pc[p] = "insert", NEW t \in Others(s)
        PROVE  tx[t].slot # Slot(p)
    BY <2>4, EvidenceNeverWaits
  <2> QED
    BY <2>3, <2>4 DEF AllWaitsFor
<1> QED
  BY <1>1, SlotsAreOfEvidence, Invariance, PTL

-----------------------------------------------------------------------------
(* How long a request takes *)

\* The lookup and the generation come once, before the attempts.
Stage(p) == CASE pc[p] = "find" -> 2 [] pc[p] = "generate" -> 1 [] OTHER -> 0

CommitIsPending(p) == \E s \in Sessions : tx[s].client = p /\ tx[s].st = "commit"

\* Statements of an attempt, the COMMIT of the server, and the acknowledgement.
StatementsLeft(p) ==
    CASE pc[p] = "connect" -> 6
      [] pc[p] = "lock" -> 5
      [] pc[p] \in {"recheck", "select"} -> 4
      [] pc[p] \in {"insert", "delete"} -> 3
      [] pc[p] = "commit" -> IF CommitIsPending(p) THEN 2 ELSE 1
      [] pc[p] = "get" -> 1
      [] OTHER -> 0

\* Rows that the loop of an attempt has not come to.
RowsLeft(p) ==
    CASE pc[p] = "insert" -> Len(Dataset[req[p].digest]) - Len(handled[p])
      [] pc[p] = "delete" -> Len(generation_rows[req[p].gen]) - Len(handled[p])
      [] OTHER -> 0

Ahead(p) == <<Stage(p), RetryAttempts - attempt[p], StatementsLeft(p), RowsLeft(p)>>

\* The lexicographic order, which is well-founded on naturals.
Shorter(a, b) ==
    \/ a[1] < b[1]
    \/ a[1] = b[1] /\ a[2] < b[2]
    \/ a[1] = b[1] /\ a[2] = b[2] /\ a[3] < b[3]
    \/ a[1] = b[1] /\ a[2] = b[2] /\ a[3] = b[3] /\ a[4] < b[4]

\* Never less than nothing is left.
LEMMA AheadType ==
  ASSUME IInv, NEW p \in Procs
  PROVE  Ahead(p) \in Nat \X Nat \X Nat \X Nat
<1>1. Stage(p) \in Nat /\ StatementsLeft(p) \in Nat
  BY DEF Stage, StatementsLeft
<1>2. RetryAttempts - attempt[p] \in Nat
  BY ServiceAssumption DEF IInv, TypeOK, ServiceTypeOK
<1>3. RowsLeft(p) \in Nat
  <2>1. handled[p] \in Seq(RowIds)
    BY DEF IInv, TypeOK, ServiceTypeOK
  <2>2. CASE pc[p] = "insert"
    <3>1. Dataset[req[p].digest] \in Seq(RowIds) /\ Len(handled[p]) <= Len(Dataset[req[p].digest])
      BY <2>2, DatabaseAssumption DEF IInv, RequestShape, InPost, LoopShape
    <3> QED
      BY <2>1, <2>2, <3>1 DEF RowsLeft
  <2>3. CASE pc[p] = "delete"
    <3>1. /\ generation_rows[req[p].gen] \in Seq(RowIds)
          /\ Len(handled[p]) <= Len(generation_rows[req[p].gen])
      BY <2>3 DEF IInv, TypeOK, DbTypeOK, RequestShape, InDelete, LoopShape
    <3> QED
      BY <2>1, <2>3, <3>1 DEF RowsLeft
  <2> QED
    BY <2>2, <2>3 DEF RowsLeft
<1> QED
  BY <1>1, <1>2, <1>3 DEF Ahead

\* A request that ends has nothing left.
LEMMA EndIsShorter ==
  ASSUME IInv, NEW p \in Procs, pc[p] # "idle", pc'[p] = "idle", attempt'[p] = attempt[p]
  PROVE  Shorter(Ahead(p)', Ahead(p))
<1>1. Stage(p)' = 0 /\ StatementsLeft(p)' = 0
  BY DEF Stage, StatementsLeft
<1>2. Stage(p) > 0 \/ (Stage(p) = 0 /\ StatementsLeft(p) > 0)
  <2>1. pc[p] \in Labels
    BY DEF IInv, TypeOK, ServiceTypeOK
  <2> QED
    BY <2>1 DEF Labels, Stage, StatementsLeft
<1>3. (RetryAttempts - attempt[p])' = RetryAttempts - attempt[p]
  OBVIOUS
<1> QED
  BY <1>1, <1>2, <1>3 DEF Shorter, Ahead

\* So it is with every answer.
LEMMA ReplyIsShorter ==
  ASSUME IInv, NEW p \in Procs, pc[p] # "idle", NEW a, Reply(p, a)
  PROVE  Shorter(Ahead(p)', Ahead(p))
<1>1. pc'[p] = "idle" /\ attempt'[p] = attempt[p]
  BY DEF Reply, Goto, IInv, TypeOK, ServiceTypeOK
<1> QED
  BY <1>1, EndIsShorter

\* Another attempt is one fewer, however far the last one came.
LEMMA RetryIsShorter ==
  ASSUME IInv, NEW p \in Procs, pc[p] \notin {"idle", "generate"}, RetryOrGiveUp(p)
  PROVE  Shorter(Ahead(p)', Ahead(p))
<1>1. CASE Reply(p, Refused("DEPENDENCY_UNAVAILABLE"))
  BY <1>1, ReplyIsShorter
<1>2. CASE ~Reply(p, Refused("DEPENDENCY_UNAVAILABLE"))
  <2>1. /\ attempt'[p] = attempt[p] + 1
        /\ pc'[p] = (IF pc[p] \in {"find", "get"} THEN pc[p] ELSE "connect")
    BY <1>2 DEF RetryOrGiveUp, Goto, IInv, TypeOK, ServiceTypeOK
  <2>2. Stage(p)' = Stage(p)
    BY <2>1 DEF Stage
  <2>3. (RetryAttempts - attempt[p])' < RetryAttempts - attempt[p]
    BY <2>1, ServiceAssumption DEF IInv, TypeOK, ServiceTypeOK
  <2> QED
    BY <2>2, <2>3 DEF Shorter, Ahead
<1> QED
  BY <1>1, <1>2

\* The next statement of an attempt is later.
LEMMA NextIsShorter ==
  ASSUME IInv, NEW p \in Procs, attempt'[p] = attempt[p], Stage(p) = 0, Stage(p)' = 0,
         StatementsLeft(p)' < StatementsLeft(p)
  PROVE  Shorter(Ahead(p)', Ahead(p))
BY DEF Shorter, Ahead

\* And so is the next row.
LEMMA RowIsShorter ==
  ASSUME IInv, NEW p \in Procs, NEW s \in Sessions, tx[s].client = p,
         \/ InsertRow(p, s) /\ InsertOutcome(s, ToInsert(p)) = "ok"
         \/ DeleteRow(p, s) /\ DeleteOutcome(s, ToDelete(p)) = "ok"
  PROVE  Shorter(Ahead(p)', Ahead(p))
<1>1. /\ UNCHANGED <<pc, req, attempt, generation_rows>> /\ pc[p] \in {"insert", "delete"}
      /\ Len(handled'[p]) = Len(handled[p]) + 1
  <2>1. handled \in [Procs -> Seq(RowIds)]
    BY DEF IInv, TypeOK, ServiceTypeOK
  <2>2. \E r : handled' = [handled EXCEPT ![p] = Append(@, r)]
    BY DEF InsertRow, DeleteRow
  <2>3. \A r : Len(Append(handled[p], r)) = Len(handled[p]) + 1
    BY <2>1
  <2> QED
    BY <2>1, <2>2, <2>3 DEF InsertRow, DeleteRow
<1>2. /\ Stage(p)' = Stage(p) /\ StatementsLeft(p)' = StatementsLeft(p)
      /\ (RetryAttempts - attempt[p])' = RetryAttempts - attempt[p]
  BY <1>1 DEF Stage, StatementsLeft
<1>3. RowsLeft(p)' < RowsLeft(p)
  <2>1. Len(handled[p]) \in Nat
    BY DEF IInv, TypeOK, ServiceTypeOK
  <2>2. pc[p] = "insert" => Len(Dataset[req[p].digest]) \in Nat
    BY DatabaseAssumption DEF IInv, RequestShape, InPost
  <2>3. pc[p] = "delete" => Len(generation_rows[req[p].gen]) \in Nat
    BY DEF IInv, TypeOK, DbTypeOK, RequestShape, InDelete
  <2>4. \A m, n \in Nat : m - (n + 1) < m - n
    OBVIOUS
  <2>5. CASE pc[p] = "insert"
    <3>1. /\ RowsLeft(p) = Len(Dataset[req[p].digest]) - Len(handled[p])
          /\ RowsLeft(p)' = Len(Dataset[req[p].digest]) - Len(handled'[p])
      BY <1>1, <2>5 DEF RowsLeft
    <3>2. Len(handled'[p]) = Len(handled[p]) + 1 /\ Len(Dataset[req[p].digest]) \in Nat
      BY <1>1, <2>2, <2>5
    <3> QED
      BY <2>1, <2>4, <3>1, <3>2
  <2>6. CASE pc[p] = "delete"
    <3>1. /\ RowsLeft(p) = Len(generation_rows[req[p].gen]) - Len(handled[p])
          /\ RowsLeft(p)' = Len(generation_rows[req[p].gen]) - Len(handled'[p])
      BY <1>1, <2>6 DEF RowsLeft
    <3>2. Len(handled'[p]) = Len(handled[p]) + 1 /\ Len(generation_rows[req[p].gen]) \in Nat
      BY <1>1, <2>3, <2>6
    <3> QED
      BY <2>1, <2>4, <3>1, <3>2
  <2> QED
    BY <1>1, <2>5, <2>6
<1> QED
  BY <1>2, <1>3 DEF Shorter, Ahead

\* Every statement in a transaction.
LEMMA StatementIsShorter ==
  ASSUME IInv, IInv', NEW p \in Procs, NEW s \in Sessions, InTransaction(p, s)
  PROVE  Shorter(Ahead(p)', Ahead(p))
<1>1. tx[s].client = p /\ ServingAt(p, s)
  BY DEF InTransaction, IInv, Serving
<1>2. /\ pc \in [Procs -> Labels] /\ pc[p] \notin {"idle", "generate"}
      /\ pc[p] \in {"lock", "recheck", "insert", "select", "delete", "commit"}
  BY <1>1 DEF IInv, TypeOK, ServiceTypeOK, ServingAt
<1>3. ASSUME NEW a, ReplyAndClose(p, s, a) PROVE Shorter(Ahead(p)', Ahead(p))
  BY <1>2, <1>3, ReplyIsShorter DEF ReplyAndClose
<1>4. ASSUME attempt'[p] = attempt[p],
             \/ pc[p] = "lock" /\ pc'[p] = "recheck"
             \/ pc[p] = "recheck" /\ pc'[p] = "insert"
             \/ pc[p] = "select" /\ pc'[p] = "delete"
             \/ pc[p] \in {"insert", "delete"} /\ pc'[p] = "commit"
      PROVE  Shorter(Ahead(p)', Ahead(p))
  <2>1. Stage(p) = 0 /\ Stage(p)' = 0
    BY <1>4 DEF Stage
  <2>2. StatementsLeft(p)' < StatementsLeft(p)
    BY <1>4 DEF StatementsLeft
  <2> QED
    BY <1>4, <2>1, <2>2, NextIsShorter
<1>5. CASE AcquireLock(p, s)
  BY <1>2, <1>4, <1>5 DEF AcquireLock, Goto
<1>6. CASE Recheck(p, s)
  BY <1>2, <1>3, <1>4, <1>6 DEF Recheck, Goto
<1>7. CASE InsertRow(p, s)
  BY <1>1, <1>3, <1>7, RowIsShorter DEF InsertRow
<1>8. CASE WriteEvidence(p, s)
  BY <1>2, <1>3, <1>4, <1>8 DEF WriteEvidence, Goto
<1>9. CASE SelectForUpdate(p, s)
  BY <1>2, <1>3, <1>4, <1>9 DEF SelectForUpdate, Goto
<1>10. CASE DeleteRow(p, s)
  BY <1>1, <1>3, <1>10, RowIsShorter DEF DeleteRow
<1>11. CASE MarkDeleted(p, s)
  BY <1>2, <1>4, <1>11 DEF MarkDeleted, Goto
<1>12. CASE Ack(p, s)
  BY <1>3, <1>12 DEF Ack
<1>13. CASE DeadlockDetected(p, s)
  BY <1>2, <1>13, RetryIsShorter DEF DeadlockDetected
<1> QED
  BY <1>5, <1>6, <1>7, <1>8, <1>9, <1>10, <1>11, <1>12, <1>13 DEF InTransaction

\* The server commits for p.
CommitFor(p) == \E s \in Sessions : tx[s].client = p /\ ServerCommit(s) /\ UNCHANGED serviceVars

\* COMMIT is executed once.
LEMMA CommitIsShorter ==
  ASSUME IInv, NEW p \in Procs, CommitFor(p)
  PROVE  Shorter(Ahead(p)', Ahead(p))
<1>1. PICK s \in Sessions : tx[s].client = p /\ ServerCommit(s) /\ UNCHANGED serviceVars
  BY DEF CommitFor
<1>2. UNCHANGED <<pc, attempt>> /\ p # None
  BY <1>1, DatabaseAssumption DEF serviceVars
<1>3. tx[s].st = "commit" /\ CommitIsPending(p)
  BY <1>1 DEF ServerCommit, CommitIsPending
<1>4. pc[p] = "commit"
  <2>1. ServingAt(p, s)
    BY <1>1 DEF IInv, Serving
  <2>2. tx[s] # Blank("open", p) /\ tx[s] # [Blank("open", p) EXCEPT !.lock = AdvisoryKey[Slot(p)]]
    BY <1>3 DEF Blank
  <2> QED
    BY <1>3, <2>1, <2>2 DEF ServingAt
<1>5. ~CommitIsPending(p)'
  <2>1. ASSUME NEW t \in Sessions, t # s PROVE tx'[t].client # p
    BY <1>1, <1>2, <2>1, CommitLeavesOthers DEF IInv, Exclusive
  <2>2. tx'[s].st # "commit"
    BY <1>1, CommitLeavesOthers
  <2> QED
    BY <2>1, <2>2 DEF CommitIsPending
<1>6. StatementsLeft(p) = 2 /\ StatementsLeft(p)' = 1 /\ Stage(p) = 0 /\ Stage(p)' = 0
  BY <1>2, <1>3, <1>4, <1>5 DEF StatementsLeft, Stage
<1> QED
  BY <1>2, <1>6, NextIsShorter

\* What a process does, and what the server does for it.
OwnStep(p) == Serve(p) \/ ConnectionLost(p) \/ Crash(p) \/ CommitFor(p)

\* Each of them leaves less.
LEMMA OwnIsShorter ==
  ASSUME IInv, IInv', NEW p \in Procs, pc[p] # "idle", OwnStep(p)
  PROVE  Shorter(Ahead(p)', Ahead(p))
<1>1. pc \in [Procs -> Labels] /\ attempt \in [Procs -> 1 .. RetryAttempts]
  BY DEF IInv, TypeOK, ServiceTypeOK
<1>2. CASE FindIdempotent(p)
  <2>1. CASE \E g \in Existing(Slot(p)) : Reply(p, Replayed(p, g))
    BY <2>1, ReplyIsShorter
  <2>2. CASE pc'[p] = "generate"
    <3>1. Stage(p) = 2 /\ Stage(p)' = 1
      BY <1>2, <2>2 DEF FindIdempotent, Stage
    <3> QED
      BY <3>1 DEF Shorter, Ahead
  <2> QED
    BY <1>1, <1>2, <2>1, <2>2 DEF FindIdempotent, Goto
<1>3. CASE Generate(p)
  <2>1. CASE \E a : Reply(p, a)
    BY <2>1, ReplyIsShorter
  <2>2. CASE pc'[p] = "connect"
    <3>1. Stage(p) = 1 /\ Stage(p)' = 0
      BY <1>3, <2>2 DEF Generate, Stage
    <3> QED
      BY <3>1 DEF Shorter, Ahead
  <2> QED
    BY <1>1, <1>3, <2>1, <2>2 DEF Generate, Goto
<1>4. CASE Connect(p)
  <2>1. /\ pc[p] = "connect" /\ pc'[p] \in {"lock", "select"} /\ attempt'[p] = attempt[p]
    BY <1>1, <1>4 DEF Connect, Goto
  <2>2. Stage(p) = 0 /\ Stage(p)' = 0 /\ StatementsLeft(p)' < StatementsLeft(p)
    BY <2>1 DEF Stage, StatementsLeft
  <2> QED
    BY <2>1, <2>2, NextIsShorter
<1>5. CASE Get(p)
  BY <1>5, ReplyIsShorter DEF Get
<1>6. CASE \E s \in Sessions : InTransaction(p, s)
  BY <1>6, StatementIsShorter
<1>7. CASE ConnectionLost(p)
  BY <1>7, RetryIsShorter DEF ConnectionLost
<1>8. CASE Crash(p)
  BY <1>1, <1>8, EndIsShorter DEF Crash, Goto
<1>9. CASE CommitFor(p)
  BY <1>9, CommitIsShorter
<1> QED
  BY <1>2, <1>3, <1>4, <1>5, <1>6, <1>7, <1>8, <1>9 DEF OwnStep, Serve

\* Neither does anybody else count for p, nor touch its session.
LEMMA CountsItsOwn ==
  ASSUME IInv, NEW p \in Procs, AcceptRequest(p) \/ Serve(p) \/ ConnectionLost(p) \/ Crash(p)
  PROVE  \A q \in Procs \ {p} : UNCHANGED <<attempt[q], handled[q]>>
<1> DEFINE Own == \A q \in Procs \ {p} : UNCHANGED <<attempt[q], handled[q]>>
<1>1. attempt \in [Procs -> 1 .. RetryAttempts] /\ handled \in [Procs -> Seq(RowIds)]
  BY DEF IInv, TypeOK, ServiceTypeOK
<1>2. ASSUME UNCHANGED attempt \/ \E k : attempt' = [attempt EXCEPT ![p] = k],
             UNCHANGED handled \/ \E h : handled' = [handled EXCEPT ![p] = h]
      PROVE  Own
  BY <1>1, <1>2
<1>3. ASSUME NEW a, Reply(p, a) PROVE Own
  BY <1>2, <1>3 DEF Reply
<1>4. RetryOrGiveUp(p) => Own
  <2>1. ASSUME attempt' = [attempt EXCEPT ![p] = @ + 1], handled' = [handled EXCEPT ![p] = << >>]
        PROVE  Own
    BY <1>1, <2>1
  <2> QED
    BY <1>3, <2>1 DEF RetryOrGiveUp
<1>5. CASE AcceptRequest(p) \/ FindIdempotent(p) \/ Get(p) \/ Connect(p)
  BY <1>2, <1>3, <1>5 DEF AcceptRequest, AcceptPost, AcceptGet, AcceptDelete, Accept,
                          FindIdempotent, Get, Connect
<1>6. CASE Generate(p)
  <2>1. \/ \E a : Reply(p, a)
        \/ attempt' = [attempt EXCEPT ![p] = 1] /\ UNCHANGED handled
    BY <1>6 DEF Generate
  <2> QED
    BY <1>2, <1>3, <2>1
<1>7. ASSUME NEW s \in Sessions, InTransaction(p, s) PROVE Own
  <2>1. CASE AcquireLock(p, s) \/ Recheck(p, s) \/ WriteEvidence(p, s)
    BY <1>2, <1>3, <2>1 DEF AcquireLock, Recheck, WriteEvidence, ReplyAndClose
  <2>2. CASE SelectForUpdate(p, s) \/ MarkDeleted(p, s) \/ Ack(p, s)
    BY <1>2, <1>3, <2>2 DEF SelectForUpdate, MarkDeleted, Ack, ReplyAndClose
  <2>3. CASE InsertRow(p, s) \/ DeleteRow(p, s)
    <3>1. \/ \E a : Reply(p, a)
          \/ UNCHANGED attempt /\ \E h : handled' = [handled EXCEPT ![p] = h]
      BY <2>3 DEF InsertRow, DeleteRow, ReplyAndClose
    <3> QED
      BY <1>2, <1>3, <3>1
  <2>4. CASE DeadlockDetected(p, s)
    BY <1>4, <2>4 DEF DeadlockDetected
  <2> QED
    BY <1>7, <2>1, <2>2, <2>3, <2>4 DEF InTransaction
<1>8. CASE ConnectionLost(p) \/ Crash(p)
  BY <1>2, <1>4, <1>8 DEF ConnectionLost, Crash
<1> QED
  BY <1>5, <1>6, <1>7, <1>8 DEF Serve

\* What q waits for the COMMIT of is left to it.
LEMMA SessionsStay ==
  ASSUME IInv, NEW p \in Procs, AcceptRequest(p) \/ Serve(p) \/ ConnectionLost(p) \/ Crash(p),
         NEW q \in Procs, q # p
  PROVE  CommitIsPending(q)' = CommitIsPending(q)
<1>1. q # None /\ tx \in [Sessions -> Session]
  BY DatabaseAssumption DEF IInv, TypeOK, DbTypeOK
<1>2. ASSUME \A t \in Sessions : \/ tx'[t] = tx[t]
                                 \/ tx[t].client # q /\ tx'[t].client # q
      PROVE  CommitIsPending(q)' = CommitIsPending(q)
  BY <1>2 DEF CommitIsPending
<1>3. CASE UNCHANGED tx
  BY <1>2, <1>3
<1>4. CASE Connect(p)
  <2>1. PICK s \in Sessions : tx[s].st = "closed" /\ tx' = [tx EXCEPT ![s] = Blank("open", p)]
    BY <1>4 DEF Connect
  <2>2. tx[s] = Closed /\ Closed.client = None /\ Blank("open", p).client = p
    BY <2>1, BlankIsQuiet DEF IInv, SessionShape, Closed
  <2> QED
    BY <1>1, <1>2, <2>1, <2>2
<1>5. ASSUME NEW s \in Sessions, InTransaction(p, s)
      PROVE  CommitIsPending(q)' = CommitIsPending(q)
  <2>1. tx[s].client = p
    BY <1>5 DEF InTransaction
  <2> QED
    BY <1>1, <1>2, <1>5, <2>1, KeepsToItsSession
<1>6. CASE ConnectionLost(p) \/ Crash(p)
  <2>1. tx' = Detached(p) /\ Closed.client = None
    BY <1>6, BlankIsQuiet DEF ConnectionLost, Crash, Closed
  <2>2. ASSUME NEW t \in Sessions
        PROVE  tx'[t] = tx[t] \/ (tx[t].client # q /\ tx'[t].client # q)
    BY <1>1, <2>1 DEF Detached, Session
  <2> QED
    BY <1>2, <2>2
<1>7. AcceptRequest(p) \/ FindIdempotent(p) \/ Generate(p) \/ Get(p) => UNCHANGED tx
  BY DEF AcceptRequest, AcceptPost, AcceptGet, AcceptDelete, Accept, FindIdempotent, Generate, Get,
         dbVars
<1> QED
  BY <1>3, <1>4, <1>5, <1>6, <1>7 DEF Serve

\* A ledger that a deletion reads stays as it is.
LEMMA LedgerStays ==
  ASSUME IInv, [Next]_vars, NEW g \in GenIds, Stored(g)
  PROVE  generation_rows'[g] = generation_rows[g]
<1>1. CASE UNCHANGED vars
  BY <1>1 DEF vars
<1>2. CASE ServiceNext
  BY <1>2, ServiceIsPrivate DEF tables
<1>3. ASSUME NEW s \in Sessions, ServerCommit(s)
      PROVE  generation_rows'[g] = generation_rows[g]
  <2>1. CASE tx[s].new # None
    <3>1. tx[s].new # g
      BY <1>3, <2>1, CommitInsert
    <3> QED
      BY <1>3, <3>1 DEF ServerCommit
  <2>2. CASE tx[s].new = None
    BY <1>3, <2>2, CommitDelete
  <2> QED
    BY <2>1, <2>2
<1>4. CASE DbNext /\ ~ \E s \in Sessions : ServerCommit(s)
  BY <1>4 DEF DbNext, ServerAbort, AppInsert, AppUpdate, AppDelete, AppAlter
<1> QED
  BY <1>1, <1>2, <1>3, <1>4 DEF Next

\* What is left to a request is counted by what is its own.
LEMMA AheadStays ==
  ASSUME IInv, [Next]_vars, NEW p \in Procs,
         UNCHANGED <<pc[p], req[p], attempt[p], handled[p]>>,
         CommitIsPending(p)' = CommitIsPending(p)
  PROVE  Ahead(p)' = Ahead(p)
<1>1. /\ Stage(p)' = Stage(p) /\ StatementsLeft(p)' = StatementsLeft(p)
      /\ (RetryAttempts - attempt[p])' = RetryAttempts - attempt[p]
  BY DEF Stage, StatementsLeft
<1>2. RowsLeft(p)' = RowsLeft(p)
  <2>1. CASE pc[p] = "delete"
    <3>1. generation_rows'[req[p].gen] = generation_rows[req[p].gen]
      BY <2>1, LedgerStays DEF IInv, RequestShape, InDelete, LoopShape
    <3> QED
      BY <2>1, <3>1 DEF RowsLeft
  <2>2. CASE pc[p] # "delete"
    BY <2>2 DEF RowsLeft
  <2> QED
    BY <2>1, <2>2
<1> QED
  BY <1>1, <1>2 DEF Ahead

\* Steps of others leave as much as there was.
LEMMA OthersLeaveIt ==
  ASSUME IInv, [Next]_vars, NEW p \in Procs, pc[p] # "idle", ~OwnStep(p)
  PROVE  Ahead(p)' = Ahead(p)
<1>1. CASE UNCHANGED vars
  <2>1. CommitIsPending(p)' = CommitIsPending(p)
    BY <1>1 DEF vars, CommitIsPending
  <2> QED
    BY <1>1, <2>1, AheadStays DEF vars
<1>2. ASSUME NEW q \in Procs, AcceptRequest(q) \/ Serve(q) \/ ConnectionLost(q) \/ Crash(q)
      PROVE  Ahead(p)' = Ahead(p)
  <2>1. q # p
    BY <1>2 DEF OwnStep, AcceptRequest, AcceptPost, AcceptGet, AcceptDelete, Accept
  <2>2. UNCHANGED <<pc[p], req[p], attempt[p], handled[p]>>
    BY <1>2, <2>1, ServesItsOwn, CountsItsOwn
  <2>3. CommitIsPending(p)' = CommitIsPending(p)
    BY <1>2, <2>1, SessionsStay
  <2> QED
    BY <2>2, <2>3, AheadStays
<1>3. CASE DbNext /\ UNCHANGED serviceVars
  <2>1. UNCHANGED <<pc[p], req[p], attempt[p], handled[p]>>
    BY <1>3 DEF serviceVars
  <2>2. ASSUME NEW s \in Sessions, ServerCommit(s) \/ ServerAbort(s)
        PROVE  CommitIsPending(p)' = CommitIsPending(p)
    <3>1. p # None /\ Closed.client = None
      BY DatabaseAssumption, BlankIsQuiet DEF Closed
    <3>2. tx[s].client # p
      BY <1>3, <2>2, <3>1 DEF OwnStep, CommitFor, ServerAbort
    <3>3. \E c : tx' = [tx EXCEPT ![s] = c] /\ c.client # p
      <4>1. \/ tx' = [tx EXCEPT ![s] = Closed]
            \/ tx' = [tx EXCEPT ![s] = Blank("done", tx[s].client)]
        BY <2>2 DEF ServerCommit, ServerAbort
      <4>2. Blank("done", tx[s].client).client # p
        BY <3>2, BlankIsQuiet
      <4> QED
        BY <3>1, <4>1, <4>2
    <3>4. tx \in [Sessions -> Session]
      BY DEF IInv, TypeOK, DbTypeOK
    <3> QED
      BY <3>2, <3>3, <3>4 DEF CommitIsPending
  <2>3. ASSUME NEW r \in RowIds, AppInsert(r) \/ AppUpdate(r) \/ AppDelete(r) \/ AppAlter(r)
        PROVE  CommitIsPending(p)' = CommitIsPending(p)
    BY <2>3 DEF AppInsert, AppUpdate, AppDelete, AppAlter, CommitIsPending
  <2>4. CommitIsPending(p)' = CommitIsPending(p)
    BY <1>3, <2>2, <2>3 DEF DbNext
  <2> QED
    BY <2>1, <2>4, AheadStays
<1> QED
  BY <1>1, <1>2, <1>3 DEF Next, ServiceNext

\* A request under way has less ahead of it with each of its own steps, in a
\* well-founded order, and as much as before with every other one.
Advances ==
    [][\A p \in Procs : pc[p] # "idle" =>
          /\ Ahead(p) \in Nat \X Nat \X Nat \X Nat
          /\ IF OwnStep(p) THEN Shorter(Ahead(p)', Ahead(p)) ELSE Ahead(p)' = Ahead(p)]_vars

\* No schedule of other requests, commits, crashes and statements of the application
\* sets a request back, and its own retries are counted: it takes finitely many
\* steps, whatever the dataset. (service.py:60-89, sql_repository.py:74-87, 169-393)
THEOREM SpecAdvances == Spec => Advances
<1>1. IInv /\ IInv' /\ [Next]_vars =>
        [\A p \in Procs : pc[p] # "idle" =>
          /\ Ahead(p) \in Nat \X Nat \X Nat \X Nat
          /\ IF OwnStep(p) THEN Shorter(Ahead(p)', Ahead(p)) ELSE Ahead(p)' = Ahead(p)]_vars
  BY AheadType, OwnIsShorter, OthersLeaveIt
<1> QED
  BY <1>1, Invariance, PTL DEF Spec, Advances
=============================================================================
