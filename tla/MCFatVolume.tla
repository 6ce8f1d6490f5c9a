---------------------------- MODULE MCFatVolume ----------------------------
(* A volume of three or four data clusters, according to FATSz32.          *)
EXTENDS FatVolume, TLC

MCFresh ==
  [e \in Entries |-> IF e <= 2 THEN END_LOW ELSE AVAILABLE]
\* The root directory alone, and the root directory grown to two clusters.
MCGrown ==
  [e \in Entries |-> CASE e = 2 -> 3
                       [] e \in {0, 1, 3} -> END_LOW
                       [] OTHER -> AVAILABLE]

MCTables == {MCFresh, MCGrown}

Interchangeable == Permutations(Handles)

Marks(t) == Cardinality({e \in Entries : t[e] = INVALID})
Bound == ~damaged /\ Marks(mem[1]) <= 1
============================================================================
