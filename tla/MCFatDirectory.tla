--------------------------- MODULE MCFatDirectory ---------------------------
(* A root directory of one cluster or of two, everything else free and     *)
(* full of what was there before: entries of directories, or data.         *)
EXTENDS FatDirectory, TLC

MCTables ==
  LET empty == [e \in Entries |-> IF e \in DataEntries THEN AVAILABLE ELSE END_LOW]
  IN  {[empty EXCEPT ![2] = END_LOW], [empty EXCEPT ![2] = 3, ![3] = END_LOW]}

\* An entry that leads to cluster 4, data, and room.
MCLeftovers ==
  {[NoEntries EXCEPT ![1] = Entry("straydir", NormDirEncoding(4)),
                     ![2] = Entry("data", NormDirEncoding(0))]}

MCSymmetry == Permutations(Handles)

\* Once a restart has met an entry that leads to a free cluster, or the
\* program is damaged, nothing is claimed.
MCBound == ~ dangling /\ ~ damaged
=============================================================================
