------------------------- MODULE InMemoryProperties -------------------------
(***************************************************************************)
(* What the in-memory repository promises, and where it stands in for the  *)
(* database: its tests are as good as its checks of keys and references    *)
(* agree with those of a server.                                           *)
(***************************************************************************)
EXTENDS InMemoryRepository

\* Every variable keeps its type.
TypeOK ==
    /\ scene \in Scenes
    /\ \A tenant \in Tenants :
          /\ DOMAIN rows[tenant] = AllTables
          /\ \A t \in AllTables : \A row \in Range(rows[tenant][t]) : DOMAIN row = Fields
    /\ generations \in [GenIds -> [state : {"ABSENT", "COMMITTED", "DELETED"},
                                   slot : Slots \cup {None}, content : scene.contents \cup {None}]]
    /\ idempotency \in [Slots -> GenIds \cup {None}]
    /\ request_digests \in [Slots -> scene.contents \cup {None}]
    /\ seeded \in SUBSET Tenants
    /\ req \in [Procs -> [slot : Slots \cup {None}, content : scene.contents \cup {None}]]

-----------------------------------------------------------------------------
(* Which contracts yield rows *)

\* A relation that starts at a field nobody has copied from yet, from as many
\* rows as there are targets if its field is unique, and may be NULL if its
\* target may.
Orderly(contract) ==
    /\ \A i, j \in DOMAIN contract.relations : i < j =>
          /\ contract.relations[i].to # contract.relations[j].from
          /\ contract.relations[i].from # contract.relations[j].from
    /\ \A rel \in Range(contract.relations) :
          /\ rel.from \in contract.unique =>
                contract.count[rel.from[1]] <= contract.count[rel.to[1]]
          /\ rel.to \in contract.nullable => rel.from \in contract.nullable

\* A field's distribution yields its type, whatever it lists fits the field, and
\* there are values enough if it is unique; numeric distributions are looked at even
\* where a relation overwrites them.  (A relation from a field to itself overwrites
\* nothing.)
Satisfiable(contract) ==
    \A field \in DOMAIN contract.spec :
        LET spec == contract.spec[field]
            numeric == spec.type \in {"integer", "number"}
        IN  /\ spec.draw = "normal" => numeric
            /\ \/ \E rel \in Range(contract.relations) : rel.from = field /\ rel.to # field
               \/ /\ \A value \in spec.listed :
                        IF value = None THEN field \in contract.nullable
                        ELSE Fits(value, spec.type)
                  /\ spec.draw = "sequence" => numeric
                  /\ spec.draw = "uuid" => spec.type = "string"
                  /\ field \in contract.unique /\ contract.count[field[1]] > 1 =>
                        /\ spec.draw # "constant"
                        /\ ~(spec.type = "integer" /\ spec.draw = "normal")
                        /\ (spec.type = "boolean" /\ spec.draw = "default") =>
                              contract.count[field[1]] = 2

\* A contract whose relations are listed so that no value is overwritten after
\* it was copied, and whose distributions fit its fields, is never refused by
\* the service's own validator (providers/deterministic.py, dataset.py).
OrderlyContractsGenerate ==
    \A content \in scene.contents :
        Orderly(content.contract) /\ Satisfiable(content.contract) =>
            Outcome(content) # "CONTRACT_INVALID"

-----------------------------------------------------------------------------
(* What is stored *)

Committed(tenant) ==
    {g \in GenIds : generations[g].state = "COMMITTED" /\ generations[g].slot[1] = tenant}

\* The contract declares what the catalog requires of its tables, and no two of
\* its record types share one.
Covers(contract) ==
    LET Column(field) == <<contract.dest[field[1]], field[2]>>
    IN  /\ IsInjective(contract.dest)
        /\ \A fk \in catalog.foreign : fk.from[1] \in Range(contract.dest) =>
              /\ fk.from[1] # fk.to[1]
              /\ \E rel \in Range(contract.relations) :
                    Column(rel.from) = fk.from /\ Column(rel.to) = fk.to
        /\ \A field \in DOMAIN contract.spec :
              Column(field) \in catalog.unique => field \in contract.unique

\* All values depend on the seed.
SeedBound(contract) ==
    \A spec \in Range(contract.spec) :
        \/ spec.draw = "uuid"
        \/ spec.draw = "default" /\ spec.type = "string"
        \/ spec.draw = "normal" /\ spec.type = "number"

\* A dataset that was accepted fits the tables, in the order of the plan: what
\* conflicts (in_memory.py:139, 199) is the same seed again, values that other
\* seeds yield too, a row of the application, or a constraint the contract does
\* not declare.
AcceptedFits ==
    [][\A p \in Procs :
          (/\ req[p] # NoRequest /\ req'[p] = NoRequest
           /\ answer' = "DESTINATION_CONFLICT") =>
              LET tenant == req[p].slot[1]
                  content == req[p].content
              IN  \/ ~Covers(content.contract)
                  \/ tenant \in seeded
                  \/ \E g \in Committed(tenant) :
                        \/ generations[g].content.seed = content.seed
                        \/ ~SeedBound(content.contract)]_vars

\* Every stored generation is the one its key names, with the content it was
\* asked for: two racing POSTs of a key never both write.
KeyIsBound ==
    \A g \in GenIds \ Absent :
        /\ idempotency[generations[g].slot] = g
        /\ request_digests[generations[g].slot] = generations[g].content

\* The rows of a generation, by generation, record type and index; those of a
\* tenant's committed ones, all and by table; and what they are.
CopiesOf(g, content) ==
    UNION {{<<g, t, i>> : i \in 1 .. content.contract.count[t]} : t \in RecordTypes(content.contract)}

Copies(tenant) == UNION {CopiesOf(g, generations[g].content) : g \in Committed(tenant)}

CopiesOfTable(tenant, table) ==
    {copy \in Copies(tenant) : generations[copy[1]].content.contract.dest[copy[2]] = table}

RowOf(copy) == Generated(generations[copy[1]].content)[copy[2]][copy[3]]

\* The rows of a tenant nobody else writes to are the datasets of its committed
\* generations, each row as often as they have it: deletions and refused
\* requests (in_memory.py:248, 309) leave and take nothing else, even where
\* several rows have one key.
RowsAreDatasets ==
    \A tenant \in Tenants \ seeded, table \in AllTables :
        LET now == rows[tenant][table]
            copies == CopiesOfTable(tenant, table)
        IN  \A row \in Range(now) \cup {RowOf(copy) : copy \in copies} :
                Cardinality({i \in DOMAIN now : now[i] = row})
                    = Cardinality({copy \in copies : RowOf(copy) = row})

-----------------------------------------------------------------------------
(* Deletion *)

\* The key of a ledger entry has a column that is unique in the catalog.
Identified(contract) ==
    \A t \in RecordTypes(contract) :
        \E f \in contract.keys[t] : <<contract.dest[t], f>> \in catalog.unique

\* No column that a foreign key refers to is NULL.
ReferredIsThere(contract) ==
    \A fk \in catalog.foreign, field \in contract.nullable :
        <<contract.dest[field[1]], field[2]>> # fk.to

\* If the contracts declare what the catalog requires, and keys that identify
\* rows, then nothing but a change of its rows by somebody else keeps a
\* generation from being deleted, whatever other generations there are
\* (in_memory.py:281-305; contracts/models.py:90 does not ask for such keys).
UntouchedIsDeletable ==
    \A tenant \in Tenants \ seeded :
        (\A g \in Committed(tenant) :
            LET contract == generations[g].content.contract
            IN  Covers(contract) /\ Identified(contract) /\ ReferredIsThere(contract)) =>
        \A g \in Committed(tenant) : Removed(tenant, g).code = "ok"

HasKey(row, w) == \A f \in DOMAIN w.key : row[f] = w.key[f]

\* What is left of a sequence, in its order, without the elements that are gone.
IsRest(after, now, gone) ==
    \E place \in [DOMAIN after -> DOMAIN now \ gone] :
        /\ \A i, j \in DOMAIN after : i < j => place[i] < place[j]
        /\ \A i \in DOMAIN now \ gone : \E j \in DOMAIN after : place[j] = i
        /\ \A i \in DOMAIN after : after[i] = now[place[i]]

\* For each entry of a ledger one row is taken that has its key, no two the same,
\* and nothing else; no row with such a key is left.
Takes(took, ledger, now, after) ==
    /\ \A i \in DOMAIN ledger : /\ took[i] \in DOMAIN now[ledger[i].table]
                                /\ HasKey(now[ledger[i].table][took[i]], ledger[i])
    /\ \A i, j \in DOMAIN ledger : i # j /\ ledger[i].table = ledger[j].table => took[i] # took[j]
    /\ \A t \in AllTables :
          IsRest(after[t], now[t], {took[i] : i \in {j \in DOMAIN ledger : ledger[j].table = t}})
    /\ \A i \in DOMAIN ledger : \A row \in Range(after[ledger[i].table]) : ~HasKey(row, ledger[i])

\* Nothing is gone that a row left behind refers to.
KeepsReferred(now, after) ==
    \A fk \in catalog.foreign : \A row \in Range(after[fk.from[1]]) :
        LET Referred(target) == target[fk.to[2]] = row[fk.from[2]]
        IN  (\E target \in Range(now[fk.to[1]]) : Referred(target)) =>
                \E target \in Range(after[fk.to[1]]) : Referred(target)

\* A step that deletes this generation.
DeletedExactly(g) ==
    (generations[g].state = "COMMITTED" /\ generations'[g].state = "DELETED") =>
        LET now == rows[generations[g].slot[1]]
            after == rows'[generations[g].slot[1]]
        IN  /\ \E took \in [DOMAIN written[g] -> UNION {DOMAIN now[t] : t \in AllTables}] :
                  Takes(took, written[g], now, after)
            /\ KeepsReferred(now, after)

\* A deletion takes for each entry of its ledger one row that has its key, and
\* nothing else, leaves no row with such a key, and takes nothing that a row left
\* behind refers to (in_memory.py:281-305). (That there is one row for a key holds
\* of the moment it is looked for: if record types share a table, a row that was
\* taken before may have had it too.)
DeletionIsExact == [][\A g \in GenIds : DeletedExactly(g)]_vars

-----------------------------------------------------------------------------
(* The database it stands for: constraints hold of the table after a          *)
(* statement, and NULL equals nothing.                                        *)

ReferencesHold(staged) ==
    \A fk \in catalog.foreign : \A row \in Range(staged[fk.from[1]]) :
        row[fk.from[2]] # None =>
            \E target \in Range(staged[fk.to[1]]) : target[fk.to[2]] = row[fk.from[2]]

KeysHold(staged) ==
    \A key \in catalog.unique :
        LET column == [i \in DOMAIN staged[key[1]] |-> staged[key[1]][i][key[2]]]
        IN  \A i, j \in DOMAIN column : i # j /\ column[i] = column[j] => column[i] = None

\* What SqlGenerationRepository gets of one INSERT: see its errors.
SqlInsert(acc, new) ==
    LET after == [acc.staged EXCEPT ![new.table] = Append(@, new.row)]
    IN  IF acc.code # "ok" THEN acc
        ELSE IF \/ ~Declared(new)
                \/ \E f \in Fields : <<new.table, f>> \in catalog.required /\ new.row[f] = None
             THEN [acc EXCEPT !.code = "DESTINATION_INVALID"]
        ELSE IF ~ReferencesHold(after) \/ ~KeysHold(after)
             THEN [acc EXCEPT !.code = "DESTINATION_CONFLICT"]
        ELSE [acc EXCEPT !.staged = after]

\* ... and of one DELETE by key, which must count one row: after any other count
\* nothing of the transaction stays.
SqlDelete(acc, w) ==
    LET matches == Matches(acc.staged, w)
        i == CHOOSE i \in matches : TRUE
        after == [acc.staged EXCEPT ![w.table] = RemoveAt(@, i)]
    IN  IF acc.code # "ok" THEN acc
        ELSE IF Cardinality(matches) # 1 \/ ~ReferencesHold(after)
             THEN [acc EXCEPT !.code = "DELETE_CONFLICT"]
        ELSE [acc EXCEPT !.staged = after]

RefersToItself(table, row) ==
    \E fk \in catalog.foreign : /\ fk.from[1] = table /\ fk.to[1] = table
                                /\ row[fk.from[2]] # None
                                /\ row[fk.from[2]] = row[fk.to[2]]

\* NULL where a foreign key starts, and NULL where it ends.
NullRefersToNull(staged) ==
    \E fk \in catalog.foreign :
        /\ \E row \in Range(staged[fk.from[1]]) : row[fk.from[2]] = None
        /\ \E row \in Range(staged[fk.to[1]]) : row[fk.to[2]] = None

\* The double writes and refuses what a server would, with the same error
\* (in_memory.py:105-143), but for a NULL in a required column, which it takes,
\* and a row that refers to itself, which it refuses.
InsertsAgree ==
    \A tenant \in Tenants, content \in scene.contents :
        (Outcome(content) = "ok" /\ ReferencesHold(rows[tenant]) /\ KeysHold(rows[tenant])) =>
            LET new == InsertOrder(content)
                mine == Inserted(tenant, content)
                sql == FoldLeft(SqlInsert, [staged |-> rows[tenant], code |-> "ok"], new)
            IN  \/ \E n \in Range(new) :
                      \/ RefersToItself(n.table, n.row)
                      \/ \E f \in Fields : <<n.table, f>> \in catalog.required /\ n.row[f] = None
                \/ mine.code = sql.code /\ (mine.code = "ok" => mine.staged = sql.staged)

\* The double deletes and refuses what a server would (in_memory.py:255-305),
\* but for rows that refer to themselves and for NULL referring to NULL.
DeletesAgree ==
    \A tenant \in Tenants : \A g \in Committed(tenant) :
        LET staged == rows[tenant]
            mine == Removed(tenant, g)
            sql == FoldLeft(SqlDelete, [staged |-> staged, code |-> "ok"], DeleteOrder(g))
        IN  (ReferencesHold(staged) /\ KeysHold(staged)) =>
                \/ \E table \in AllTables : \E row \in Range(staged[table]) : RefersToItself(table, row)
                \/ NullRefersToNull(staged)
                \/ mine.code = sql.code /\ (mine.code = "ok" => mine.staged = sql.staged)
=============================================================================
