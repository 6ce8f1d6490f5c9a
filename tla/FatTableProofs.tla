--------------------------- MODULE FatTableProofs ---------------------------
(***************************************************************************)
(* Lemmas about the File Allocation Table: which changes of an entry keep  *)
(* a table well formed, and why the chains of a well-formed table that     *)
(* start at different heads have no cluster in common.                     *)
(***************************************************************************)
EXTENDS FatTable, FiniteSetTheorems, WellFoundedInduction, TLAPS

\* The entries of S are in use and nothing links to them.
Headed(t, S) ==
  \A a \in S :
    /\ t[a] # AVAILABLE
    /\ \A c \in Entries : IsLinked(t, c) => Link(t[c]) # a

\* The entries of S made to end their chains with the marker v.
Cut(t, S, v) == [e \in Entries |-> IF e \in S THEN v ELSE t[e]]

\* The entry f made an end and linked to from l.
Tie(t, f, l) == [[t EXCEPT ![f] = END_LOW] EXCEPT ![l] = f]

(* Entry numbers and markers as __fat_is_valid_cluster takes them.         *)
LEMMA EntryNumbers ==
  /\ \A n \in Entries : n \in Nat /\ Link(n) = n
  /\ \A n \in DataEntries : n \in Entries /\ n # AVAILABLE /\ IsValidCluster(n)
  /\ 0 \in Entries /\ Link(AVAILABLE) = 0 /\ IsValidCluster(AVAILABLE)
  /\ ~ IsValidCluster(END_LOW) /\ ~ IsValidCluster(INVALID)
  /\ END_LOW \in Nat /\ INVALID \in Nat
  /\ END_LOW # AVAILABLE /\ INVALID # AVAILABLE
<1> USE TableAssumption DEF AVAILABLE, RESERVED, INVALID, END_LOW
<1>1. ASSUME NEW n \in Nat, n < Mask  PROVE Link(n) = n
  BY <1>1, SMT DEF Link
<1>2. \A n \in Entries : n \in Nat /\ n < INVALID /\ n < Mask
  BY SMT DEF Entries
<1>3. \A n \in Entries : n \in Nat /\ Link(n) = n
  BY <1>1, <1>2
<1>4. \A n \in DataEntries : n \in Entries /\ n # AVAILABLE
  BY SMT DEF Entries, DataEntries
<1>5. \A n \in DataEntries : IsValidCluster(n)
  BY SMT, <1>3, <1>4, <1>2 DEF IsValidCluster, DataEntries
<1>6. 0 \in Entries /\ Link(AVAILABLE) = 0 /\ IsValidCluster(AVAILABLE)
  BY SMT, <1>1 DEF Entries, IsValidCluster
<1>7. ~ IsValidCluster(END_LOW) /\ ~ IsValidCluster(INVALID)
  BY SMT, <1>1 DEF IsValidCluster
<1> QED
  BY SMT, <1>3, <1>4, <1>5, <1>6, <1>7

(* __fat_find_free_cluster, when it succeeds, has found a free entry.      *)
LEMMA FirstFreeIsFree ==
  ASSUME NEW t, HasFree(t)
  PROVE  FirstFree(t) \in FreeEntries(t)
<1> DEFINE F == FreeEntries(t)
<1>1. F \subseteq Nat
  BY EntryNumbers DEF FreeEntries, Entries, DataEntries
<1>2. PICK n \in F : \A m \in F : <<m, n>> \notin OpToRel(<, Nat)
  BY ONLY <1>1, HasFree(t), WFMin, NatLessThanWellFounded DEF HasFree
<1>3. ASSUME NEW m \in F, ~ (n <= m)  PROVE FALSE
  <2>1. m \in Nat /\ n \in Nat /\ m < n
    BY <1>1, <1>3
  <2>2. <<m, n>> \in OpToRel(<, Nat)
    BY <2>1 DEF OpToRel
  <2> QED
    BY <1>2, <2>2
<1> QED
  BY <1>2, <1>3 DEF FirstFree, Min

(* Ending chains early, as marking the last cluster of a chain or the      *)
(* clusters of a removed file does, keeps a table well formed.             *)
LEMMA CutWellFormed ==
  ASSUME NEW t \in Tables, WellFormed(t), NEW S, NEW v \in {END_LOW, INVALID}
  PROVE  Cut(t, S, v) \in Tables /\ WellFormed(Cut(t, S, v))
<1> DEFINE u == Cut(t, S, v)
<1>1. v \in Nat /\ v # AVAILABLE /\ ~ IsValidCluster(v)
  BY EntryNumbers
<1>2. u \in Tables
  BY <1>1 DEF Cut, Tables
<1>3. \A c \in Entries : u[c] = IF c \in S THEN v ELSE t[c]
  BY DEF Cut
<1>4. \A c \in Entries : IsLinked(u, c) => u[c] = t[c] /\ IsLinked(t, c)
  BY <1>1, <1>3 DEF IsLinked
<1>5. \A c \in Entries : t[c] # AVAILABLE => u[c] # AVAILABLE
  BY <1>1, <1>3
<1>6. u[0] # AVAILABLE /\ u[1] # AVAILABLE
  <2>1. 0 \in Entries /\ 1 \in Entries
    BY TableAssumption DEF Entries
  <2> QED
    BY <1>5, <2>1 DEF WellFormed
<1>7. Acyclic(u)
  BY <1>1, <1>3 DEF WellFormed, Acyclic
<1>8. LinksLive(u)
  <2> SUFFICES ASSUME NEW c \in Entries, IsLinked(u, c)
               PROVE  Link(u[c]) \in DataEntries /\ u[Link(u[c])] # AVAILABLE
    BY DEF LinksLive
  <2>1. Link(t[c]) \in DataEntries /\ t[Link(t[c])] # AVAILABLE /\ u[c] = t[c]
    BY <1>4 DEF WellFormed, LinksLive
  <2> QED
    BY <2>1, <1>5, EntryNumbers
<1>9. LinksUnique(u)
  BY <1>4 DEF WellFormed, LinksUnique
<1> QED
  BY <1>2, <1>6, <1>7, <1>8, <1>9 DEF WellFormed

(* Tying a free entry to one that is in use, whatever chain that one was   *)
(* part of, keeps a table well formed.                                     *)
LEMMA TieWellFormed ==
  ASSUME NEW t \in Tables, WellFormed(t),
         NEW f \in FreeEntries(t), NEW l \in Entries, t[l] # AVAILABLE
  PROVE  Tie(t, f, l) \in Tables /\ WellFormed(Tie(t, f, l))
<1> DEFINE u == Tie(t, f, l)
<1>1. /\ f \in DataEntries /\ f \in Entries /\ f \in Nat /\ Link(f) = f
      /\ t[f] = AVAILABLE /\ f # l
      /\ f # AVAILABLE /\ IsValidCluster(f)
  BY EntryNumbers DEF FreeEntries
<1>2. END_LOW \in Nat /\ END_LOW # AVAILABLE /\ ~ IsValidCluster(END_LOW)
  BY EntryNumbers
<1>3. u \in Tables
  BY <1>1, <1>2 DEF Tie, Tables
<1>4. /\ u[f] = END_LOW /\ u[l] = f
      /\ \A c \in Entries : c # f /\ c # l => u[c] = t[c]
  BY <1>1 DEF Tie, Tables
<1>5. \A c \in Entries : c # l /\ IsLinked(u, c) =>
        u[c] = t[c] /\ IsLinked(t, c) /\ Link(t[c]) # f
  BY <1>1, <1>2, <1>4 DEF IsLinked, WellFormed, LinksLive
<1>6. \A c \in Entries : t[c] # AVAILABLE => u[c] # AVAILABLE
  BY <1>1, <1>2, <1>4
<1>7. u[0] # AVAILABLE /\ u[1] # AVAILABLE
  <2>1. 0 \in Entries /\ 1 \in Entries
    BY TableAssumption DEF Entries
  <2> QED
    BY <1>6, <2>1 DEF WellFormed
<1>8. Acyclic(u)
  <2> SUFFICES ASSUME NEW S \in SUBSET Entries, S # {}
               PROVE  \E c \in S : IsValidCluster(u[c]) => Link(u[c]) \notin S
    BY DEF Acyclic
  <2>1. CASE f \in S
    BY <2>1, <1>2, <1>4
  <2>2. CASE f \notin S /\ l \in S
    BY <2>2, <1>1, <1>4
  <2>3. CASE f \notin S /\ l \notin S
    <3>1. PICK c \in S : IsValidCluster(t[c]) => Link(t[c]) \notin S
      BY DEF WellFormed, Acyclic
    <3>2. u[c] = t[c]
      BY <2>3, <3>1, <1>4
    <3> QED
      BY <3>1, <3>2
  <2> QED
    BY <2>1, <2>2, <2>3
<1>9. LinksLive(u)
  <2> SUFFICES ASSUME NEW c \in Entries, IsLinked(u, c)
               PROVE  Link(u[c]) \in DataEntries /\ u[Link(u[c])] # AVAILABLE
    BY DEF LinksLive
  <2>1. CASE c = l
    BY <2>1, <1>1, <1>2, <1>4
  <2>2. CASE c # l
    <3>1. Link(t[c]) \in DataEntries /\ t[Link(t[c])] # AVAILABLE
      BY <2>2, <1>5 DEF WellFormed, LinksLive
    <3> QED
      BY <3>1, <2>2, <1>5, <1>6, EntryNumbers
  <2> QED
    BY <2>1, <2>2
<1>10. LinksUnique(u)
  <2> SUFFICES ASSUME NEW c \in Entries, NEW d \in Entries, c # d,
                      IsLinked(u, c), IsLinked(u, d), Link(u[c]) = Link(u[d])
               PROVE  FALSE
    BY DEF LinksUnique
  <2>1. CASE c # l /\ d # l
    BY <2>1, <1>5 DEF WellFormed, LinksUnique
  <2>2. CASE c = l \/ d = l
    BY <2>2, <1>1, <1>4, <1>5
  <2> QED
    BY <2>1, <2>2
<1> QED
  BY <1>3, <1>7, <1>8, <1>9, <1>10 DEF WellFormed

(* Neither change puts anything in front of the first cluster of a chain.  *)
LEMMA CutHeaded ==
  ASSUME NEW t \in Tables, NEW S, NEW v \in {END_LOW, INVALID},
         NEW H \in SUBSET Entries, Headed(t, H)
  PROVE  Headed(Cut(t, S, v), H)
<1>1. v # AVAILABLE /\ ~ IsValidCluster(v)
  BY EntryNumbers
<1>2. \A c \in Entries : Cut(t, S, v)[c] = IF c \in S THEN v ELSE t[c]
  BY DEF Cut
<1> QED
  BY <1>1, <1>2 DEF Headed, IsLinked

LEMMA TieHeaded ==
  ASSUME NEW t \in Tables, NEW f \in FreeEntries(t), NEW l \in Entries,
         t[l] # AVAILABLE, NEW H \in SUBSET Entries, Headed(t, H)
  PROVE  Headed(Tie(t, f, l), H)
<1> DEFINE u == Tie(t, f, l)
<1>1. /\ f \in Entries /\ Link(f) = f /\ t[f] = AVAILABLE /\ f # l
      /\ f # AVAILABLE
  BY EntryNumbers DEF FreeEntries
<1>2. END_LOW # AVAILABLE /\ ~ IsValidCluster(END_LOW)
  BY EntryNumbers
<1>3. /\ u[f] = END_LOW /\ u[l] = f
      /\ \A c \in Entries : c # f /\ c # l => u[c] = t[c]
  BY <1>1 DEF Tie, Tables
<1> SUFFICES ASSUME NEW a \in H
             PROVE  /\ u[a] # AVAILABLE
                    /\ \A c \in Entries : IsLinked(u, c) => Link(u[c]) # a
  BY DEF Headed
<1>4. t[a] # AVAILABLE /\ a # f
  BY <1>1 DEF Headed
<1> QED
  BY <1>1, <1>2, <1>3, <1>4 DEF Headed, IsLinked

(* A free entry just made an end is the head of a chain of its own.        *)
LEMMA ClaimHeaded ==
  ASSUME NEW t \in Tables, WellFormed(t), NEW f \in FreeEntries(t)
  PROVE  Headed(Cut(t, {f}, END_LOW), {f})
<1>1. f \in Entries /\ t[f] = AVAILABLE
  BY EntryNumbers DEF FreeEntries
<1>2. END_LOW # AVAILABLE /\ ~ IsValidCluster(END_LOW)
  BY EntryNumbers
<1>3. \A c \in Entries : Cut(t, {f}, END_LOW)[c] = IF c = f THEN END_LOW ELSE t[c]
  BY DEF Cut
<1> QED
  BY <1>1, <1>2, <1>3 DEF Headed, IsLinked, WellFormed, LinksLive

(* What is reachable in a well-formed table is closed under its links, and *)
(* is in use throughout if it starts in use.                               *)
LEMMA ReachClosed ==
  ASSUME NEW t \in Tables, WellFormed(t), NEW a \in Entries
  PROVE  /\ a \in Reach(t, a)
         /\ Closed(t, Reach(t, a))
         /\ t[a] # AVAILABLE => \A c \in Reach(t, a) : t[c] # AVAILABLE
<1>1. Closed(t, Entries)
  <2> SUFFICES ASSUME NEW c \in Entries, IsValidCluster(t[c])
               PROVE  Link(t[c]) \in Entries
    BY DEF Closed
  <2> QED
    BY EntryNumbers DEF WellFormed, LinksLive, IsLinked
<1>2. a \in Reach(t, a)
  BY DEF Reach
<1>3. Closed(t, Reach(t, a))
  <2> SUFFICES ASSUME NEW c \in Reach(t, a), IsValidCluster(t[c])
               PROVE  Link(t[c]) \in Reach(t, a)
    BY DEF Closed
  <2>1. Link(t[c]) \in Entries
    BY <1>1 DEF Closed, Reach
  <2>2. ASSUME NEW S \in SUBSET Entries, a \in S, Closed(t, S)
        PROVE  Link(t[c]) \in S
    BY <2>2 DEF Closed, Reach
  <2> QED
    BY <2>1, <2>2 DEF Reach
<1>4. ASSUME t[a] # AVAILABLE
      PROVE  \A c \in Reach(t, a) : t[c] # AVAILABLE
  <2> DEFINE Used == {c \in Entries : t[c] # AVAILABLE}
  <2>1. a \in Used /\ Used \in SUBSET Entries
    BY <1>4
  <2>2. Closed(t, Used)
    BY EntryNumbers DEF Closed, WellFormed, LinksLive, IsLinked
  <2>3. Reach(t, a) \subseteq Used
    BY <2>1, <2>2 DEF Reach
  <2> QED
    BY <2>3
<1> QED
  BY <1>2, <1>3, <1>4

(* Chains that start at different heads share no cluster: going back along *)
(* the one link into a common cluster leads to a cluster before it that is *)
(* common too, and never arrives at a head.                                *)
LEMMA DisjointChains ==
  ASSUME NEW t \in Tables, WellFormed(t), NEW H \in SUBSET Entries,
         Headed(t, H), NEW a \in H, NEW b \in H, a # b
  PROVE  Reach(t, a) \cap Reach(t, b) = {}
<1> DEFINE A == Reach(t, a)
           B == Reach(t, b)
<1>1. /\ a \in A /\ Closed(t, A) /\ A \in SUBSET Entries
      /\ \A c \in A : t[c] # AVAILABLE
  BY ReachClosed DEF Headed, Reach
<1>2. /\ b \in B /\ Closed(t, B) /\ B \in SUBSET Entries
      /\ \A c \in B : t[c] # AVAILABLE
  BY ReachClosed DEF Headed, Reach
\* Every cluster of B but b itself is linked to from B.
<1>3. ASSUME NEW e \in B, e # b
      PROVE  \E c \in B : IsLinked(t, c) /\ Link(t[c]) = e
  <2> SUFFICES ASSUME \A c \in B : IsLinked(t, c) => Link(t[c]) # e
               PROVE  FALSE
    OBVIOUS
  <2> DEFINE S == B \ {e}
  <2>1. b \in S /\ S \in SUBSET Entries
    BY <1>2, <1>3
  <2>2. Closed(t, S)
    BY <1>2 DEF Closed, IsLinked
  <2>3. B \subseteq S
    BY <2>1, <2>2 DEF Reach
  <2> QED
    BY <2>3
<1>4. a \notin B
  BY <1>2, <1>3 DEF Headed
<1> DEFINE D == A \ B
<1>5. a \in D /\ D \in SUBSET Entries
  BY <1>1, <1>4
<1>6. Closed(t, D)
  <2> SUFFICES ASSUME NEW c \in D, IsValidCluster(t[c])
               PROVE  Link(t[c]) \in D
    BY DEF Closed
  <2>1. c \in Entries /\ IsLinked(t, c) /\ Link(t[c]) \in A
    BY <1>1 DEF Closed, IsLinked
  <2>2. ASSUME Link(t[c]) \in B  PROVE FALSE
    <3>1. Link(t[c]) # b
      BY <2>1 DEF Headed
    <3>2. PICK d \in B : IsLinked(t, d) /\ Link(t[d]) = Link(t[c])
      BY <1>3, <2>2, <3>1
    <3>3. c = d
      BY <1>2, <2>1, <3>2 DEF WellFormed, LinksUnique
    <3> QED
      BY <3>2, <3>3
  <2> QED
    BY <2>1, <2>2
<1>7. A \subseteq D
  BY <1>5, <1>6 DEF Reach
<1> QED
  BY <1>7

(* Neither change makes a cluster free that was in use, and the pool loses *)
(* just the clusters that were changed.                                    *)
LEMMA CutFree ==
  ASSUME NEW t \in Tables, NEW S, NEW v \in Nat \ {AVAILABLE}
  PROVE  /\ FreeEntries(Cut(t, S, v)) = FreeEntries(t) \ S
         /\ \A c \in Entries : t[c] # AVAILABLE => Cut(t, S, v)[c] # AVAILABLE
<1>1. \A c \in Entries : Cut(t, S, v)[c] = IF c \in S THEN v ELSE t[c]
  BY DEF Cut
<1> QED
  BY <1>1, EntryNumbers DEF FreeEntries

LEMMA TieFree ==
  ASSUME NEW t \in Tables, NEW f \in FreeEntries(t), NEW l \in Entries,
         t[l] # AVAILABLE
  PROVE  /\ FreeEntries(Tie(t, f, l)) = FreeEntries(t) \ {f}
         /\ Tie(t, f, l)[f] = END_LOW
         /\ \A c \in Entries :
               t[c] # AVAILABLE => Tie(t, f, l)[c] # AVAILABLE
<1>1. f \in Entries /\ t[f] = AVAILABLE /\ f # l /\ f # AVAILABLE
  BY EntryNumbers DEF FreeEntries
<1>2. /\ Tie(t, f, l)[f] = END_LOW /\ Tie(t, f, l)[l] = f
      /\ \A c \in Entries : c # f /\ c # l => Tie(t, f, l)[c] = t[c]
  BY <1>1 DEF Tie, Tables
<1> QED
  BY <1>1, <1>2, EntryNumbers DEF FreeEntries

(* A chain that has no more than its first cluster.                        *)
LEMMA ReachOne ==
  ASSUME NEW t, NEW c \in Entries, ~ IsValidCluster(t[c])
  PROVE  Cardinality(Reach(t, c)) = 1
<1>1. {c} \in SUBSET Entries /\ c \in {c} /\ Closed(t, {c})
  BY DEF Closed
<1>2. Reach(t, c) = {c}
  BY <1>1 DEF Reach
<1> QED
  BY <1>2, FS_Singleton

(* There are no more entries in a chain, or in the pool, than there are.    *)
LEMMA EntriesFinite ==
  ASSUME NEW S \in SUBSET Entries
  PROVE  IsFiniteSet(S) /\ Cardinality(S) \in 0 .. NumEntries
<1>1. IsFiniteSet(Entries) /\ Cardinality(Entries) = NumEntries
  <2>1. NumEntries \in Nat /\ 0 \in Int /\ NumEntries - 1 \in Int
    BY TableAssumption
  <2>2. /\ IsFiniteSet(0 .. NumEntries - 1)
        /\ Cardinality(0 .. NumEntries - 1) =
             IF 0 > NumEntries - 1 THEN 0 ELSE NumEntries - 1 - 0 + 1
    BY <2>1, FS_Interval
  <2> QED
    BY <2>1, <2>2, TableAssumption DEF Entries
<1>2. IsFiniteSet(S) /\ Cardinality(S) <= NumEntries
  BY <1>1, FS_Subset
<1> QED
  BY <1>2, FS_CardinalityType, TableAssumption

LEMMA ReachCount ==
  ASSUME NEW t, NEW c
  PROVE  /\ IsFiniteSet(Reach(t, c))
         /\ Cardinality(Reach(t, c)) \in 0 .. NumEntries
<1>1. Reach(t, c) \in SUBSET Entries
  BY DEF Reach
<1> QED
  BY <1>1, EntriesFinite

(* __fat_check_free_clusters counts from entry 0, __fat_find_free_cluster  *)
(* looks from entry 2 on: with entries 0 and 1 in use they agree.          *)
LEMMA CountedAreFree ==
  ASSUME NEW t, t[0] # AVAILABLE, t[1] # AVAILABLE
  PROVE  {i \in Entries : t[i] = AVAILABLE} = FreeEntries(t)
<1>1. \A i \in Entries : i \in DataEntries \/ i = 0 \/ i = 1
  BY TableAssumption DEF Entries, DataEntries
<1> QED
  BY <1>1, EntryNumbers DEF FreeEntries

LEMMA CheckedHasFree ==
  ASSUME NEW t, t[0] # AVAILABLE, t[1] # AVAILABLE, CheckFreeClusters(t, 1)
  PROVE  HasFree(t)
<1>1. Cardinality(FreeEntries(t)) >= 1
  BY CountedAreFree DEF CheckFreeClusters
<1> QED
  BY <1>1, FS_EmptySet DEF HasFree

(* A chain that is extended by a free cluster at its end has that cluster  *)
(* more, and none else.                                                    *)
LEMMA TieReach ==
  ASSUME NEW t \in Tables, WellFormed(t), NEW a \in Entries, t[a] # AVAILABLE,
         NEW f \in FreeEntries(t), NEW l \in Reach(t, a), ~ IsValidCluster(t[l])
  PROVE  /\ Reach(Tie(t, f, l), a) = Reach(t, a) \cup {f}
         /\ f \notin Reach(t, a)
<1> DEFINE R == Reach(t, a)
           u == Tie(t, f, l)
<1>1. /\ a \in R /\ Closed(t, R) /\ R \in SUBSET Entries
      /\ \A c \in R : t[c] # AVAILABLE
  BY ReachClosed DEF Reach
<1>2. /\ f \in DataEntries /\ f \in Entries /\ Link(f) = f /\ IsValidCluster(f)
      /\ t[f] = AVAILABLE /\ f # l /\ f # AVAILABLE
  BY <1>1, EntryNumbers DEF FreeEntries
<1>3. f \notin R /\ a # f
  BY <1>1, <1>2
<1>4. /\ u[f] = END_LOW /\ u[l] = f /\ ~ IsValidCluster(END_LOW)
      /\ \A c \in Entries : c # f /\ c # l => u[c] = t[c]
  BY <1>1, <1>2, EntryNumbers DEF Tie, Tables
<1>5. Reach(u, a) \subseteq R \cup {f}
  <2>1. Closed(u, R \cup {f})
    <3> SUFFICES ASSUME NEW c \in R \cup {f}, IsValidCluster(u[c])
                 PROVE  Link(u[c]) \in R \cup {f}
      BY DEF Closed
    <3>1. CASE c = l
      BY <3>1, <1>2, <1>4
    <3>2. CASE c # l
      <4>1. c \in R /\ u[c] = t[c]
        BY <3>2, <1>1, <1>2, <1>4
      <4> QED
        BY <4>1, <1>1 DEF Closed
    <3> QED
      BY <3>1, <3>2
  <2>2. R \cup {f} \in SUBSET Entries /\ a \in R \cup {f}
    BY <1>1, <1>2
  <2> QED
    BY <2>1, <2>2 DEF Reach
<1>6. ASSUME NEW S \in SUBSET Entries, a \in S, Closed(u, S)
      PROVE  R \cup {f} \subseteq S
  <2> DEFINE T == S \ {f}
  <2>1. Closed(t, T)
    <3> SUFFICES ASSUME NEW c \in T, IsValidCluster(t[c])
                 PROVE  Link(t[c]) \in T
      BY DEF Closed
    <3>1. u[c] = t[c]
      BY <1>4
    <3>2. Link(t[c]) \in S
      BY <1>6, <3>1 DEF Closed
    <3>3. Link(t[c]) # f
      BY <1>2, EntryNumbers DEF WellFormed, LinksLive, IsLinked
    <3> QED
      BY <3>2, <3>3
  <2>2. R \subseteq T
    BY <1>3, <1>6, <2>1 DEF Reach
  <2>3. f \in S
    BY <1>2, <1>4, <1>6, <2>2 DEF Closed
  <2> QED
    BY <2>2, <2>3
<1>7. R \cup {f} \subseteq Reach(u, a)
  <2>1. R \cup {f} \subseteq Entries
    BY <1>1, <1>2
  <2> QED
    BY <1>6, <2>1 DEF Reach
<1> QED
  BY <1>3, <1>5, <1>7

(* One entry set to a marker is that entry cut.                            *)
LEMMA SetIsCut ==
  ASSUME NEW t \in Tables, NEW c \in Entries, NEW v
  PROVE  [t EXCEPT ![c] = v] = Cut(t, {c}, v)
BY DEF Tables, Cut

(* There is a copy of the table.                                           *)
LEMMA CopyOne == 1 \in Copies
BY GeometryAssumption DEF Copies

(* __fat_set_cluster, seen on the copy that is searched and followed.      *)
LEMMA SetClusterOne ==
  ASSUME NEW ts \in [Copies -> Tables], NEW c \in Entries, NEW v \in Nat
  PROVE  /\ SetCluster(ts, c, v) \in [Copies -> Tables]
         /\ SetCluster(ts, c, v)[1] = Cut(ts[1], {c}, v)
         /\ SetCluster(ts, c, v)[1] = [ts[1] EXCEPT ![c] = v]
BY CopyOne, SetIsCut DEF SetCluster, Tables

(* __fat_allocate_cluster, when there was a cluster to allocate.           *)
LEMMA ExtendOne ==
  ASSUME NEW ts \in [Copies -> Tables], NEW l \in Entries
  PROVE  /\ NewCluster(ts) \in Entries
         /\ Extend(ts, l) \in [Copies -> Tables]
         /\ HasFree(ts[1]) =>
              /\ NewCluster(ts) = FirstFree(ts[1])
              /\ Extend(ts, l)[1] = Tie(ts[1], FirstFree(ts[1]), l)
<1>1. NewCluster(ts) \in Entries /\ NewCluster(ts) \in Nat
  BY FirstFreeIsFree, EntryNumbers DEF NewCluster, FreeEntries
<1>2. END_LOW \in Nat
  BY EntryNumbers
<1> DEFINE n == NewCluster(ts)
           marked == SetCluster(ts, n, END_LOW)
<1>3. /\ marked \in [Copies -> Tables]
      /\ marked[1] = [ts[1] EXCEPT ![n] = END_LOW]
  BY <1>1, <1>2, SetClusterOne
<1>4. /\ SetCluster(marked, l, n) \in [Copies -> Tables]
      /\ SetCluster(marked, l, n)[1] = [marked[1] EXCEPT ![l] = n]
  <2>1. ASSUME NEW ms \in [Copies -> Tables], NEW v \in Nat
        PROVE  /\ SetCluster(ms, l, v) \in [Copies -> Tables]
               /\ SetCluster(ms, l, v)[1] = [ms[1] EXCEPT ![l] = v]
    BY SetClusterOne
  <2> QED
    BY <1>1, <1>3, <2>1
<1>5. Extend(ts, l) = SetCluster(marked, l, n)
  BY DEF Extend
<1>6. HasFree(ts[1]) => n = FirstFree(ts[1])
  BY DEF NewCluster
<1> QED
  BY <1>1, <1>3, <1>4, <1>5, <1>6 DEF Tie
=============================================================================
