---------------------------- MODULE MCMigration ----------------------------
(* Small instances of the migration command for TLC. *)
EXTENDS MigrationProperties, TLC

M(id, checksum) == [id |-> id, checksum |-> checksum]

Historical == <<M("0001_jobs", "released"), M("0002_worker_protocol", "released")>>
Current == Append(Historical, M("0003_synchronous_generations", "released"))
Edited == [Current EXCEPT ![2].checksum = "edited"]

OnlyCurrent == {Current}
HistoricalAndCurrent == {Historical, Current}
AllImages == {Historical, Current, Edited}

\* The schema in which exactly these tables are there as released.
With(tables) == [t \in Tables |-> IF t \in tables THEN "ok" ELSE "none"]

Empty == With({})
Alter(s, t, state) == [s EXCEPT ![t] = state]

\* A new database, the untracked 1.0.0 and 1.2.0 schemas, and what 0003 leaves.
Released == {Empty, With(LegacyTables), With(LegacyTables \cup WorkerTables),
             With(GenerationTables)}

\* Also with a table missing or altered.
Drifted ==
    Released
    \cup {Alter(s, t, "altered") : s \in {Empty, With(LegacyTables)}, t \in {"jobs", "generations"}}
    \cup {Alter(With(LegacyTables), "job_transitions", "none"),
          Alter(With(GenerationTables), "generation_rows", "none"),
          Alter(With(LegacyTables), "worker_outbox", "altered")}

Untracked == {{}}
AnyPrefix == {{}} \cup {Range(SubSeq(Current, 1, n)) : n \in 1 .. 3}

Symmetry == Permutations(Procs)
=============================================================================
