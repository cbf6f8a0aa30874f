----------------------------- MODULE MCPlanning -----------------------------
(* Small contracts for TLC: all graphs over a few record types. *)
EXTENDS Planning, SequencesExt

CONSTANTS a, b, c, d

\* The children of a record type are visited in one order by the validator and
\* in the same or another by the planner.
Four == <<c, d, a, b>>
OtherOrders == {<<a, b, c, d>>, <<b, a, d, c>>}
=============================================================================
