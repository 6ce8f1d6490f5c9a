---------------------------- MODULE ClusterPool ----------------------------
(***************************************************************************)
(* What a volume promises about its free clusters, whatever the program    *)
(* does with them: they are handed out one at a time and never come back,  *)
(* but for a restart, which goes back to exactly the pool that was saved   *)
(* last.  Nothing is promised from the moment the pool is broken.          *)
(***************************************************************************)
EXTENDS FiniteSets

CONSTANT Clusters

VARIABLES
  free,     \* the clusters the next search may hand out
  saved,    \* the clusters that would be free after a restart
  broken,   \* free is not to be relied on
  torn      \* saved is not to be relied on

vars == <<free, saved, broken, torn>>

Init ==
  /\ free \subseteq Clusters
  /\ saved = free
  /\ broken = FALSE
  /\ torn = FALSE

Hold == free' = free /\ broken' = broken

Take == broken' = broken /\ \E c \in free : free' = free \ {c}

\* The damage is done, or shows: the pool may be anything from here on.
Break == broken' /\ free' \subseteq Clusters

Overwrite == torn' /\ saved' \subseteq Clusters

\* Clusters move in memory; the saved pool may be overwritten meanwhile.
Use ==
  /\ Hold \/ Take \/ Break
  /\ Overwrite \/ UNCHANGED <<saved, torn>>

Save ==
  /\ saved' = free
  /\ torn' = broken
  /\ UNCHANGED <<free, broken>>

Restart ==
  /\ free' = saved
  /\ broken' = torn
  /\ UNCHANGED <<saved, torn>>

Next == Use \/ Save \/ Restart

Spec == Init /\ [][Next]_vars
============================================================================
