---------------------------- MODULE MCFatSession ----------------------------
(* The calls of FatLists on every table over three data clusters, and main *)
(* on a root directory that is any of the chains from cluster 2.           *)
EXTENDS FatSession, MCFatLists
=============================================================================
