---------------------------- MODULE MCGeneration ----------------------------
(* Small instances of the generation service for TLC. *)
EXTENDS GenerationProperties, TLC

CONSTANTS d1, d2, r1, r2, r3

Symmetry == Permutations(Sessions) \cup Permutations(Procs) \cup Permutations(GenIds)

\* One lock per tenant and key, or the same lock for all: a collision of the
\* 64-bit prefix of the digest.
OwnLockIds == Slots
OwnLock == [slot \in Slots |-> slot]
OneLockId == {"lock"}
OneLock == [slot \in Slots |-> "lock"]

NoRefusal == [d \in Digests |-> "none"]
RefuseD2 == [d \in Digests |-> IF d = d2 THEN "PROVIDER_UNSUPPORTED" ELSE "none"]

NoParent == [r \in RowIds |-> None]
ChildR2 == [r \in RowIds |-> IF r = r2 THEN r1 ELSE None]
ChildR2R3 == [r \in RowIds |-> IF r \in {r2, r3} THEN r1 ELSE None]

\* Two contents that write the same rows in opposite orders, and a parent
\* with its child against the parent alone.
Opposed == [d \in Digests |-> IF d = d1 THEN <<r1, r2>> ELSE <<r2, r1>>]
ParentChild == [d \in Digests |-> IF d = d1 THEN <<r1, r2>> ELSE <<r1>>]
Single == [d \in Digests |-> <<r1>>]
=============================================================================
