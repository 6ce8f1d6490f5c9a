---------------------------- MODULE MCFatLists ----------------------------
(* Every table over three data clusters: chains, cycles, free entries, and *)
(* a link whose upper four bits are not 0.                                 *)
EXTENDS FatLists

MCTables ==
  {t \in [Entries -> {AVAILABLE, INVALID, END_LOW, Mask + 3} \cup DataEntries] :
     t[0] = END_LOW /\ t[1] = END_LOW}
============================================================================
