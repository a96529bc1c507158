------------------------------- MODULE MCM61 -------------------------------
(* Instances of M61 for TLC. *)
EXTENDS M61

CONSTANTS here, there, below

\* Small blocks, blocks that can hold a copy of one, and some in between from a
\* site that has no bucket in the table.
SmallAndLarge == {<<here, 1>>, <<below, 5>>, <<there, 7>>}

\* Two sites share the last bucket, the third has its index below the table.
OneBucket == [s \in Sites |-> IF s = below THEN -1 ELSE TableSize - 1]
=============================================================================
