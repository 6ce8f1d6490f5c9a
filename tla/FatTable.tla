------------------------------ MODULE FatTable ------------------------------
(***************************************************************************)
(* The File Allocation Table as fat_c.c keeps it in memory: what its       *)
(* entries mean to the code, how a free entry is found and how a chain is  *)
(* followed.  A table is a function from entry numbers to 32-bit values.   *)
(***************************************************************************)
EXTENDS FatGeometry, FiniteSets, FiniteSetsExt

CONSTANT
  Mask           \* number of values under the mask 0x0FFFFFFF, 2^28 in the build

Entries == 0 .. NumEntries - 1
DataEntries == 2 .. NumEntries - 1

Tables == [Entries -> Nat]

AVAILABLE == 0               \* FAT32_CLUSTER_AVAILABLE
RESERVED == 1                \* FAT32_CLUSTER_RESERVED
INVALID == Mask - 9          \* FAT32_CLUSTER_INVALID, 0x0FFFFFF7
END_LOW == Mask - 8          \* FAT32_CLUSTER_END_LOW, 0x0FFFFFF8

ASSUME TableAssumption ==
  /\ Mask \in Nat
  /\ NumEntries \in Nat
  /\ 3 <= NumEntries /\ NumEntries <= INVALID

\* The cluster an entry links to: the upper four bits are not part of it.
Link(v) == v % Mask

(***************************************************************************)
(* __fat_is_valid_cluster.  0 passes: to the loops that follow a chain an  *)
(* AVAILABLE entry is a link to cluster 0.                                 *)
(***************************************************************************)
IsValidCluster(v) ==
  /\ Link(v) # RESERVED
  /\ Link(v) # INVALID
  /\ Link(v) < END_LOW

(***************************************************************************)
(* __fat_find_free_cluster and __fat_check_free_clusters.  The first scans *)
(* from entry 2, the second counts from entry 0.                           *)
(***************************************************************************)
\* Changed: INVALID entries, those of removed files, are handed out again.
FreeOrInvalid(t) == {i \in DataEntries : t[i] \in {AVAILABLE, INVALID}}

FreeEntries(t) == {i \in DataEntries : t[i] = AVAILABLE}

HasFree(t) == FreeEntries(t) # {}

FirstFree(t) == Min(FreeEntries(t))

CheckFreeClusters(t, desired) ==
  Cardinality({i \in Entries : t[i] = AVAILABLE}) >= desired

(***************************************************************************)
(* __fat_set_cluster on FAT_TABLE and, when there are two copies, on       *)
(* FAT_SEC_TABLE: both are one function from copies to tables.             *)
(***************************************************************************)
SetCluster(ts, c, v) == [j \in Copies |-> [ts[j] EXCEPT ![c] = v]]

(***************************************************************************)
(* The table's part of __fat_allocate_cluster.  The result of the search   *)
(* is not looked at: with no free entry freeCluster keeps its initial 0.   *)
(***************************************************************************)
\* Changed: freeCluster starts out as -1.
NewClusterUnset(ts) == IF HasFree(ts[1]) THEN FirstFree(ts[1]) ELSE -1

NewCluster(ts) == IF HasFree(ts[1]) THEN FirstFree(ts[1]) ELSE 0

\* Changed: the new cluster is linked to but not marked as the last.
ExtendOpen(ts, curr) == SetCluster(ts, curr, NewCluster(ts))

Extend(ts, curr) ==
  SetCluster(SetCluster(ts, NewCluster(ts), END_LOW), curr, NewCluster(ts))

(***************************************************************************)
(* Following a chain.  Reach(t, c) is every entry the loop of              *)
(* __fat_read_clusters comes by from c: the least set with c in it that    *)
(* no link leaves.  ChainEnds(t, c) is the entry the loop stops behind;    *)
(* there is none if the loop never stops or runs off the table.            *)
(***************************************************************************)
Closed(t, S) == \A c \in S : IsValidCluster(t[c]) => Link(t[c]) \in S

Reach(t, c) ==
  {d \in Entries : \A S \in SUBSET Entries : c \in S /\ Closed(t, S) => d \in S}

ChainEnds(t, c) == {d \in Reach(t, c) : ~ IsValidCluster(t[d])}

(***************************************************************************)
(* What makes a table usable.                                              *)
(***************************************************************************)
IsLinked(t, c) == t[c] # AVAILABLE /\ IsValidCluster(t[c])

\* No set of entries keeps its links to itself: every chain comes to an end.
Acyclic(t) ==
  \A S \in SUBSET Entries :
    S # {} => \E c \in S : IsValidCluster(t[c]) => Link(t[c]) \notin S

\* A link leads to a cluster that is there and that is in use.
LinksLive(t) ==
  \A c \in Entries : IsLinked(t, c) =>
    /\ Link(t[c]) \in DataEntries
    /\ t[Link(t[c])] # AVAILABLE

\* No cluster belongs to two chains: at most one entry links to it.
LinksUnique(t) ==
  \A c, d \in Entries :
    IsLinked(t, c) /\ IsLinked(t, d) /\ Link(t[c]) = Link(t[d]) => c = d

WellFormed(t) ==
  /\ t[0] # AVAILABLE
  /\ t[1] # AVAILABLE
  /\ Acyclic(t)
  /\ LinksLive(t)
  /\ LinksUnique(t)
=============================================================================
