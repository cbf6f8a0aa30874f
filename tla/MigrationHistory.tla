-------------------------- MODULE MigrationHistory --------------------------
(***************************************************************************)
(* What MIGRATIONS.md:35-38 promises of the migration command, without     *)
(* invocations, locks or transactions: an upgrade is one step, from what   *)
(* the one before it left, beside whatever the other owners of the         *)
(* database do to a table; and how far their tables, coming in its way,    *)
(* may change what it leaves.                                              *)
(***************************************************************************)
EXTENDS Integers, Functions

CONSTANTS
    Tables,
    Images,    \* sequences of migrations [id, checksum]
    Creates,   \* [migration id -> the tables it creates]
    Drops,     \* [migration id -> the tables it drops]
    Reused,    \* tables created only if they do not exist
    Baseline   \* the migration whose tables may be adopted as they are

VARIABLES schema, ledger, interfered

historyVars == <<schema, ledger, interfered>>

IdsOf(set) == {m.id : m \in set}

\* Tables are created where there were none, others are dropped, and those of
\* other owners stay.  Where others have interfered, a table to create may be one
\* of theirs, never a released one, and one of theirs may stand where a table was
\* dropped.
Reshape(created, dropped) ==
    \E taken \in SUBSET (created \cap Reused), kept \in SUBSET (dropped \ created) :
        /\ taken \cup kept # {} => interfered > 0
        /\ \A t \in created : schema[t] = IF t \in taken THEN "altered" ELSE "none"
        /\ schema' = [t \in Tables |-> IF t \in dropped \ kept THEN "none"
                                       ELSE IF t \in created THEN "ok"
                                       ELSE schema[t]]

\* The migrations of an image that are not recorded are run, or the first of
\* all is adopted and the others are run.
Upgrade(image) ==
    LET pending == IdsOf(Range(image) \ ledger)
    IN  /\ ledger \subseteq Range(image)
        /\ pending # {}
        /\ \E executed \in {pending, pending \ {Baseline}} :
              /\ executed # pending => ledger = {}
              /\ Reshape(UNION {Creates[id] : id \in executed}, UNION {Drops[id] : id \in executed})
        /\ ledger' = Range(image)
        /\ UNCHANGED interfered

\* Another owner creates, alters or drops a table.
OtherOwner(t) ==
    /\ \E state \in {"none", "altered", "ok"} : schema' = [schema EXCEPT ![t] = state]
    /\ interfered' = interfered + 1
    /\ UNCHANGED ledger

Init == interfered = 0

Next ==
    \/ \E image \in Images : Upgrade(image)
    \/ \E t \in Tables : OtherOwner(t)

Spec == Init /\ [][Next]_historyVars
=============================================================================
