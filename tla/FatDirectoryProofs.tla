------------------------ MODULE FatDirectoryProofs ------------------------
(***************************************************************************)
(* Proofs about FatDirectory, for any number of lists held, any clusters,  *)
(* leftovers in them and any table: entries whose numbers fit their fields *)
(* lead where they should, no two of them to the same cluster, and what is *)
(* lost is lost through a list that is out of date.                        *)
(***************************************************************************)
EXTENDS FatDirectory, FatTableProofs, SequenceTheorems

Cell == [kind : Kinds, hi : 0 .. HalfWord - 1, lo : 0 .. HalfWord - 1]

----------------------------------------------------------------------------
(***************************************************************************)
(* Chains of any table, well formed or not, that do not come to entries 0  *)
(* and 1: none of their entries is free.                                   *)
(***************************************************************************)
LEMMA ReachInData ==
  ASSUME NEW t, NEW c \in Entries, Reach(t, c) \subseteq DataEntries
  PROVE  /\ c \in Reach(t, c)
         /\ Closed(t, Reach(t, c))
         /\ \A d \in Reach(t, c) : t[d] # AVAILABLE
<1> DEFINE R == Reach(t, c)
<1>1. 0 \in Entries /\ 0 \notin DataEntries
  BY EntryNumbers, TableAssumption DEF DataEntries
<1>2. PICK S \in SUBSET Entries : c \in S /\ Closed(t, S)
  BY <1>1 DEF Reach
<1>3. c \in R
  BY DEF Reach
<1>4. Closed(t, R)
  <2> SUFFICES ASSUME NEW d \in R, IsValidCluster(t[d])
               PROVE  Link(t[d]) \in R
    BY DEF Closed
  <2>1. Link(t[d]) \in Entries
    BY <1>2 DEF Reach, Closed
  <2>2. ASSUME NEW T \in SUBSET Entries, c \in T, Closed(t, T)
        PROVE  Link(t[d]) \in T
    BY <2>2 DEF Reach, Closed
  <2> QED
    BY <2>1, <2>2 DEF Reach
<1>5. \A d \in R : t[d] # AVAILABLE
  BY <1>1, <1>4, EntryNumbers DEF Closed
<1> QED
  BY <1>3, <1>4, <1>5

(* Nothing changes for a chain none of whose entries is changed.           *)
LEMMA ReachSame ==
  ASSUME NEW t, NEW u, NEW c \in Entries, Reach(t, c) \subseteq DataEntries,
         \A d \in Reach(t, c) : u[d] = t[d]
  PROVE  Reach(u, c) \subseteq Reach(t, c)
<1>1. c \in Reach(t, c) /\ Closed(t, Reach(t, c)) /\ Reach(t, c) \in SUBSET Entries
  BY ReachInData DEF Reach
<1>2. Closed(u, Reach(t, c))
  BY <1>1 DEF Closed
<1> QED
  BY <1>1, <1>2 DEF Reach

----------------------------------------------------------------------------
(***************************************************************************)
(* What __fat_read_clusters returns.  Its numbers are a recursive function,*)
(* each the link of the one before; that there is such a function is shown *)
(* by a least number up to which there would be none.                      *)
(***************************************************************************)
Follows(g, t, c, n) == g = [i \in 1 .. n |-> IF i = 1 THEN c ELSE Link(t[g[i - 1]])]

Numbers(t, c) ==
  CHOOSE number :
    number = [i \in 1 .. NumEntries |-> IF i = 1 THEN c ELSE Link(t[number[i - 1]])]

LEMMA LeastNumber ==
  ASSUME NEW D, D \subseteq Nat, D # {}
  PROVE  \E n \in D : \A m \in D : n <= m
<1>1. PICK n \in D : \A m \in D : <<m, n>> \notin OpToRel(<, Nat)
  BY ONLY D \subseteq Nat, D # {}, WFMin, NatLessThanWellFounded
<1>2. ASSUME NEW m \in D, ~ (n <= m)  PROVE FALSE
  <2>1. m \in Nat /\ n \in Nat /\ m < n
    BY <1>2
  <2> QED
    BY <1>1, <2>1 DEF OpToRel
<1> QED
  BY <1>2

LEMMA NumbersFollow ==
  ASSUME NEW t, NEW c
  PROVE  Follows(Numbers(t, c), t, c, NumEntries)
<1> DEFINE Bad == {n \in Nat : ~ \E g : Follows(g, t, c, n)}
<1>1. Bad = {}
  <2> SUFFICES ASSUME Bad # {}  PROVE FALSE
    OBVIOUS
  <2>1. PICK n \in Bad : \A m \in Bad : n <= m
    BY LeastNumber
  <2>2. n # 0
    <3> DEFINE g == [i \in 1 .. 0 |-> 0]
    <3>1. g = [i \in 1 .. 0 |-> IF i = 1 THEN c ELSE Link(t[g[i - 1]])]
      OBVIOUS
    <3> QED
      BY <3>1 DEF Follows
  <2>3. n - 1 \in Nat /\ n - 1 \notin Bad
    BY <2>1, <2>2
  <2>4. PICK g : Follows(g, t, c, n - 1)
    BY <2>3
  <2> DEFINE h == [i \in 1 .. n |-> IF i = 1 THEN c ELSE Link(t[g[i - 1]])]
  <2>5. \A i \in 1 .. n - 1 : h[i] = g[i]
    <3> SUFFICES ASSUME NEW i \in 1 .. n - 1  PROVE h[i] = g[i]
      OBVIOUS
    <3>1. g[i] = IF i = 1 THEN c ELSE Link(t[g[i - 1]])
      BY <2>4 DEF Follows
    <3>2. i \in 1 .. n
      BY <2>3
    <3> QED
      BY <3>1, <3>2
  <2>6. \A i \in 1 .. n : h[i] = IF i = 1 THEN c ELSE Link(t[h[i - 1]])
    <3> SUFFICES ASSUME NEW i \in 1 .. n, i # 1
                 PROVE  g[i - 1] = h[i - 1]
      OBVIOUS
    <3>1. i - 1 \in 1 .. n - 1
      BY <2>3
    <3> QED
      BY <2>5, <3>1
  <2> HIDE DEF h
  <2>7. h = [i \in 1 .. n |-> IF i = 1 THEN c ELSE Link(t[h[i - 1]])]
    BY <2>6 DEF h
  <2> QED
    BY <2>7 DEF Follows
<1>2. NumEntries \in Nat
  BY TableAssumption
<1>3. \E g : g = [i \in 1 .. NumEntries |-> IF i = 1 THEN c ELSE Link(t[g[i - 1]])]
  BY <1>1, <1>2 DEF Follows
<1> QED
  BY <1>3 DEF Numbers, Follows

LEMMA ReadClustersNumbers ==
  ASSUME NEW t, NEW d, NEW c
  PROVE  ReadClusters(t, d, c) =
           [i \in 1 .. Cardinality(Reach(t, c)) |->
              [no |-> Numbers(t, c)[i], data |-> d[Numbers(t, c)[i]]]]
BY DEF ReadClusters, Numbers

(* As long as fewer numbers have been read than the chain has entries, the *)
(* last of them has a link: otherwise those read would be the whole chain. *)
LEMMA NumbersInChain ==
  ASSUME NEW t, NEW c \in Entries, Reach(t, c) \subseteq DataEntries,
         NEW i \in 1 .. Cardinality(Reach(t, c))
  PROVE  Numbers(t, c)[i] \in Reach(t, c)
<1> DEFINE R == Reach(t, c)
           K == Cardinality(R)
           num == Numbers(t, c)
           Bad == {j \in 1 .. K : num[j] \notin R}
<1>1. /\ c \in R /\ Closed(t, R) /\ R \in SUBSET Entries
      /\ IsFiniteSet(R) /\ K \in 0 .. NumEntries
  BY ReachInData, ReachCount DEF Reach
<1>2. /\ \A j \in 1 .. K : j \in 1 .. NumEntries
      /\ \A j \in 1 .. K : num[j] = IF j = 1 THEN c ELSE Link(t[num[j - 1]])
  <2> HIDE DEF num
  <2>1. \A j \in 1 .. K : j \in 1 .. NumEntries
    BY <1>1, TableAssumption
  <2>2. num = [j \in 1 .. NumEntries |-> IF j = 1 THEN c ELSE Link(t[num[j - 1]])]
    BY NumbersFollow DEF Follows, num
  <2> QED
    BY <2>1, <2>2
<1> HIDE DEF num, K
<1> SUFFICES ASSUME Bad # {}  PROVE FALSE
  BY DEF num, K
<1>3. Bad \subseteq Nat
  BY <1>1 DEF K
<1>4. PICK j \in Bad : \A m \in Bad : j <= m
  BY <1>3, LeastNumber
<1>5. j # 1 /\ j \in 1 .. K /\ j - 1 \in 1 .. K
  BY <1>1, <1>2, <1>4
<1>6. \A m \in 1 .. j - 1 : num[m] \in R
  BY <1>1, <1>4, <1>5
<1>7. ~ IsValidCluster(t[num[j - 1]])
  BY <1>1, <1>2, <1>4, <1>5, <1>6 DEF Closed
<1> DEFINE S == {num[m] : m \in 1 .. j - 1}
<1>8. c \in S /\ S \in SUBSET Entries
  <2>1. 1 \in 1 .. j - 1 /\ num[1] = c
    BY <1>1, <1>2, <1>5
  <2> QED
    BY <2>1, <1>1, <1>6
<1>9. Closed(t, S)
  <2> SUFFICES ASSUME NEW m \in 1 .. j - 1, IsValidCluster(t[num[m]])
               PROVE  Link(t[num[m]]) \in S
    BY DEF Closed
  <2>1. m # j - 1
    BY <1>7
  <2>2. m + 1 \in 1 .. j - 1 /\ m + 1 \in 1 .. K /\ m + 1 # 1 /\ (m + 1) - 1 = m
    BY <1>1, <1>5, <2>1
  <2>3. num[m + 1] = Link(t[num[m]])
    BY <1>2, <2>2
  <2> QED
    BY <2>2, <2>3
<1>10. R \subseteq S
  BY <1>8, <1>9 DEF Reach
<1>11. Cardinality(R) <= j - 1
  <2> DEFINE g == [m \in 1 .. j - 1 |-> num[m]]
  <2>1. g \in Surjection(1 .. j - 1, S)
    BY DEF Surjection
  <2>2. j - 1 \in Nat
    BY <1>5
  <2>3. ExistsSurjection(1 .. j - 1, S)
    BY <2>1 DEF ExistsSurjection
  <2>4. Cardinality(S) <= j - 1
    BY <2>2, <2>3, FS_SurjCardinalityBound
  <2>5. IsFiniteSet(S)
    <3>1. IsFiniteSet(1 .. j - 1)
      BY <2>2, FS_Interval
    <3> QED
      BY <2>1, <3>1, FS_Surjection
  <2>6. Cardinality(R) <= Cardinality(S) /\ Cardinality(S) \in Nat
    BY <1>10, <2>5, FS_Subset, FS_CardinalityType
  <2> QED
    BY <1>1, <2>2, <2>4, <2>6, TableAssumption DEF K
<1> QED
  BY <1>1, <1>5, <1>11 DEF K

(* The list has the clusters of the chain with what is in them, the first  *)
(* in front, and more than one node only if the first has a link.          *)
LEMMA ReadList ==
  ASSUME NEW t, NEW c \in DataEntries, Reach(t, c) \subseteq DataEntries,
         NEW d \in [DataEntries -> [1 .. Slots -> Cell]]
  PROVE  LET l == ReadClusters(t, d, c)
         IN  /\ l \in Seq(Nodes) /\ l # <<>>
             /\ l[1] = [no |-> c, data |-> d[c]]
             /\ Len(l) > 1 => IsValidCluster(t[c])
<1> DEFINE R == Reach(t, c)
           K == Cardinality(R)
           num == Numbers(t, c)
           node(i) == [no |-> num[i], data |-> d[num[i]]]
           l == [i \in 1 .. K |-> node(i)]
<1>1. c \in Entries /\ K \in Nat /\ IsFiniteSet(R)
  BY EntryNumbers, ReachCount, TableAssumption
<1>2. c \in R
  BY <1>1, ReachInData
<1>3. K # 0
  BY <1>1, <1>2, FS_EmptySet
<1>4. \A i \in 1 .. K : num[i] \in DataEntries
  BY <1>1, NumbersInChain
<1>5. num[1] = c
  <2> HIDE DEF num
  <2>1. 1 \in 1 .. NumEntries
    BY TableAssumption
  <2>2. num = [i \in 1 .. NumEntries |-> IF i = 1 THEN c ELSE Link(t[num[i - 1]])]
    BY NumbersFollow DEF Follows, num
  <2> QED
    BY <2>1, <2>2
<1> HIDE DEF num, K
<1>6. \A i \in 1 .. K : node(i) \in Nodes
  BY <1>4 DEF Nodes, Contents, Cell
<1>7. l \in Seq(Nodes) /\ Len(l) = K
  <2>1. l \in [1 .. K -> Nodes]
    BY <1>6
  <2> QED
    BY <1>1, <2>1
<1>8. l # <<>> /\ l[1] = [no |-> c, data |-> d[c]]
  <2>1. 1 \in 1 .. K
    BY <1>1, <1>3
  <2> QED
    BY <1>3, <1>5, <1>7, <2>1
<1>9. Len(l) > 1 => IsValidCluster(t[c])
  BY <1>1, <1>7, ReachOne DEF K
<1>10. ReadClusters(t, d, c) = l
  BY ReadClustersNumbers DEF num, K
<1> QED
  BY <1>7, <1>8, <1>9, <1>10

----------------------------------------------------------------------------
(***************************************************************************)
(* Numbers in entries.  The kind the model gives an entry says whether its *)
(* number fits, and then __fat_get_file_content reads what was written.    *)
(***************************************************************************)
LEMMA HalfWords == HalfWord \in Nat /\ 0 < HalfWord /\ Byte <= HalfWord
BY ByteAssumption

LEMMA EntriesAreCells ==
  ASSUME NEW kind \in Kinds, NEW n \in Nat
  PROVE  /\ Entry(kind, NormDirEncoding(n)) \in Cell
         /\ Entry(kind, InsertEncoding(n)) \in Cell
<1>1. ASSUME NEW a \in Nat, NEW b \in Nat \ {0}  PROVE a % b \in 0 .. b - 1
  BY <1>1
<1>2. /\ HalfWord \in Nat \ {0} /\ Byte \in Nat \ {0} /\ Byte <= HalfWord
  BY HalfWords, ByteAssumption
<1>3. n \div Byte \in Nat
  BY <1>2
<1>4. /\ n % HalfWord \in 0 .. HalfWord - 1
      /\ n % Byte \in 0 .. HalfWord - 1
      /\ (n \div Byte) % HalfWord \in 0 .. HalfWord - 1
      /\ 0 \in 0 .. HalfWord - 1
  <2>1. n % Byte \in 0 .. Byte - 1
    BY <1>1, <1>2
  <2> QED
    BY <1>1, <1>2, <1>3, <2>1
<1> QED
  BY <1>4 DEF Entry, Cell, NormDirEncoding, InsertEncoding

LEMMA MadeEntries ==
  ASSUME NEW n \in Nat
  PROVE  /\ NormDirEntry(n) \in Cell /\ NormDirEntry(n).kind \in {"dir", "straydir"}
         /\ FileEntry(n) \in Cell /\ FileEntry(n).kind \in {"file", "strayfile"}
<1> QED
  BY EntriesAreCells DEF NormDirEntry, FileEntry, Entry, Kinds

LEMMA NumbersRead ==
  ASSUME NEW n \in Nat
  PROVE  /\ IsEntry(NormDirEntry(n)) => ContentNumber(NormDirEntry(n)) = n
         /\ IsEntry(FileEntry(n)) => ContentNumber(FileEntry(n)) = n
<1>1. Byte \in Nat \ {0} /\ HalfWord \in Nat \ {0} /\ Byte <= HalfWord
  BY HalfWords, ByteAssumption
<1>2. ASSUME NEW a \in Nat, NEW b \in Nat \ {0}, a < b
      PROVE  a % b = a /\ a \div b = 0
  BY <1>2
<1>3. ASSUME NEW e, e.hi = 0, e.lo = n  PROVE ContentNumber(e) = n
  <2>1. 0 * HalfWord = 0
    BY <1>1
  <2> QED
    BY <1>3, <2>1 DEF ContentNumber
<1>4. ASSUME n < HalfWord  PROVE ContentNumber(NormDirEntry(n)) = n
  <2>1. n % HalfWord = n
    BY <1>1, <1>2, <1>4
  <2>2. NormDirEntry(n).hi = 0 /\ NormDirEntry(n).lo = n
    BY <2>1 DEF NormDirEntry, Entry, NormDirEncoding
  <2> QED
    BY <1>3, <2>2
<1>5. ASSUME n < Byte  PROVE ContentNumber(FileEntry(n)) = n
  <2>1. n % Byte = n /\ n \div Byte = 0
    BY <1>1, <1>2, <1>5
  <2>2. 0 % HalfWord = 0
    BY <1>1, <1>2
  <2>3. FileEntry(n).hi = 0 /\ FileEntry(n).lo = n
    BY <2>1, <2>2 DEF FileEntry, Entry, InsertEncoding
  <2> QED
    BY <1>3, <2>3
<1> QED
  BY <1>4, <1>5 DEF NormDirEntry, FileEntry, IsEntry, Entry

----------------------------------------------------------------------------
(***************************************************************************)
(* What __fat_place_shortdir does to the list and to the table.            *)
(***************************************************************************)
Clusters == [1 .. Slots -> Cell]

\* A cluster with the entry e put in one of its free entries, or as it was.
PutAt(old, new, e, s) ==
  new = old \/ (old[s].kind = "free" /\ new = [old EXCEPT ![s] = e])

LEMMA EmptyClusters ==
  /\ NoEntries \in Clusters
  /\ \A n \in Nat : FileData(n) \in Clusters
<1> QED
  BY EntriesAreCells DEF NoEntries, FileData, Whole, Clusters, Kinds

LEMMA FirstRoomIsRoom ==
  ASSUME NEW data, Room(data) # {}
  PROVE  FirstRoom(data) \in Room(data)
<1>1. Room(data) \subseteq Nat
  BY DirectoryAssumption DEF Room
<1>2. PICK n \in Room(data) : \A m \in Room(data) : n <= m
  BY <1>1, LeastNumber
<1> QED
  BY <1>2 DEF FirstRoom, Min

(* A list l that has a place for an entry or can be extended, and the list *)
(* p that e has been placed in.                                            *)
Fits(ts, l) == Full(l) => HasFree(ts[1])

HasPlaced(ts, l, p, e) ==
  /\ Fits(ts, l) => p \in Seq(Nodes) /\ p # <<>>
  /\ p[1] \in Nodes /\ p[1].no = l[1].no
  /\ \E s \in 1 .. Slots : PutAt(l[1].data, p[1].data, e, s)
  /\ ~ Fits(ts, l) => p[1].data = l[1].data
  /\ Len(p) > 1 => Len(l) > 1 \/ Full(l)
  /\ Len(l) = 1 /\ ~ Full(l) =>
       \E s \in 1 .. Slots : p[1].data[s] = e

LEMMA PlacedHead ==
  ASSUME NEW ts, NEW l \in Seq(Nodes), l # <<>>, NEW e \in Cell
  PROVE  HasPlaced(ts, l, PlacedList(ts, l, e), e)
<1> DEFINE p == PlacedList(ts, l, e)
           n == Len(l)
<1>1. /\ n \in Nat /\ n >= 1 /\ n \in 1 .. n /\ 1 \in 1 .. n
      /\ l \in [1 .. n -> Nodes] /\ l[1] \in Nodes
  BY EmptySeq, LenProperties
<1>2. 1 \in 1 .. Slots
  BY DirectoryAssumption
<1>3. CASE Full(l)
  <2> DEFINE node == Fresh(NewCluster(ts))
             Any == Nodes \cup {node}
  <2>1. Fits(ts, l) => node \in Nodes
    <3> SUFFICES ASSUME HasFree(ts[1])  PROVE node \in Nodes
      BY <1>3 DEF Fits
    <3>1. NewCluster(ts) \in DataEntries
      BY FirstFreeIsFree DEF NewCluster, FreeEntries
    <3> QED
      BY <3>1, EmptyClusters DEF Fresh, Nodes, Contents, Clusters, Cell
  <2>2. p = Append(l, node)
    BY <1>3 DEF PlacedList
  <2> HIDE DEF node
  <2>3. Fits(ts, l) => p \in Seq(Nodes) /\ p # <<>>
    BY <1>1, <2>1, <2>2
  <2>4. p[1] = l[1]
    <3>1. l \in Seq(Any) /\ node \in Any
      BY <1>1
    <3> QED
      BY <1>1, <2>2, <3>1, AppendProperties
  <2>5. ~ Fits(ts, l) => p[1].data = l[1].data
    BY <2>4
  <2> HIDE DEF p
  <2>6. HasPlaced(ts, l, p, e)
    BY <1>1, <1>2, <1>3, <2>3, <2>4, <2>5 DEF PutAt, HasPlaced
  <2> QED
    BY <2>6 DEF p
<1>4. CASE ~ Full(l)
  <2> DEFINE s == FirstRoom(l[n].data)
             node == [l[n] EXCEPT !.data[s] = e]
  <2>1. s \in 1 .. Slots /\ l[n].data[s].kind = "free"
    BY <1>4, FirstRoomIsRoom DEF Full, Room
  <2>2. /\ l[n] \in Nodes
        /\ node \in Nodes /\ node.no = l[n].no
        /\ node.data = [l[n].data EXCEPT ![s] = e]
        /\ node.data[s] = e
    BY <1>1, <2>1 DEF Nodes, Contents, Cell
  <2>3. p = [l EXCEPT ![n] = node]
    BY <1>4 DEF PlacedList
  <2> HIDE DEF node, s
  <2>4. /\ p \in Seq(Nodes) /\ Len(p) = n
        /\ \A i \in 1 .. n : p[i] = IF i = n THEN node ELSE l[i]
    BY <1>1, <2>2, <2>3, ExceptSeq
  <2>5. p # <<>>
    BY <1>1, <2>4, EmptySeq
  <2>6. p[1] \in Nodes /\ p[1].no = l[1].no /\ PutAt(l[1].data, p[1].data, e, s)
    BY <1>1, <2>1, <2>2, <2>4 DEF PutAt
  <2>7. n = 1 => p[1].data[s] = e
    BY <1>1, <2>2, <2>4
  <2>8. \E r \in 1 .. Slots : PutAt(l[1].data, p[1].data, e, r)
    BY <2>1, <2>6
  <2>9. n = 1 => \E r \in 1 .. Slots : p[1].data[r] = e
    BY <2>1, <2>7
  <2>10. Fits(ts, l)
    BY <1>4 DEF Fits
  <2> QED
    BY <1>1, <2>4, <2>5, <2>6, <2>8, <2>9, <2>10 DEF HasPlaced
<1> QED
  BY <1>3, <1>4

(* __fat_set_cluster, entry by entry.                                      *)
LEMMA SetClusterAt ==
  ASSUME NEW ts \in [Copies -> Tables], NEW c \in Entries, NEW v \in Nat,
         NEW us, us = SetCluster(ts, c, v)
  PROVE  /\ us \in [Copies -> Tables]
         /\ \A k \in Entries : us[1][k] = IF k = c THEN v ELSE ts[1][k]
<1>1. us \in [Copies -> Tables] /\ us[1] = [ts[1] EXCEPT ![c] = v]
  BY SetClusterOne
<1> QED
  BY <1>1, CopyOne DEF Tables

LEMMA PlacedTableType ==
  ASSUME NEW ts \in [Copies -> Tables], NEW l \in Seq(Nodes), l # <<>>
  PROVE  PlacedTable(ts, l) \in [Copies -> Tables]
<1>1. l[Len(l)].no \in Entries
  <2>1. Len(l) \in 1 .. Len(l) /\ l \in [1 .. Len(l) -> Nodes]
    BY EmptySeq, LenProperties
  <2> QED
    BY <2>1, EntryNumbers DEF Nodes
<1> QED
  BY <1>1, ExtendOne DEF PlacedTable

LEMMA PlacedTableOne ==
  ASSUME NEW ts \in [Copies -> Tables], NEW l \in Seq(Nodes), l # <<>>,
         Fits(ts, l)
  PROVE  LET u == PlacedTable(ts, l)
         IN  /\ \A k \in Entries : ts[1][k] # AVAILABLE =>
                  /\ u[1][k] # AVAILABLE
                  /\ IsValidCluster(ts[1][k]) => IsValidCluster(u[1][k])
             /\ Full(l) /\ ts[1][l[Len(l)].no] # AVAILABLE =>
                  IsValidCluster(u[1][l[Len(l)].no])
<1> DEFINE u == PlacedTable(ts, l)
           k == l[Len(l)].no
           f == FirstFree(ts[1])
<1>1. k \in DataEntries /\ k \in Entries
  <2>1. Len(l) \in 1 .. Len(l) /\ l \in [1 .. Len(l) -> Nodes]
    BY EmptySeq, LenProperties
  <2> QED
    BY <2>1, EntryNumbers DEF Nodes, Contents
<1>2. CASE ~ Full(l)
  BY <1>2 DEF PlacedTable
<1>3. CASE Full(l)
  <2>1. HasFree(ts[1]) /\ u = Extend(ts, k)
    BY <1>3 DEF PlacedTable, Fits
  <2>2. u[1] = Tie(ts[1], f, k)
    BY <1>1, <2>1, ExtendOne
  <2>3. /\ f \in DataEntries /\ f \in Entries /\ ts[1][f] = AVAILABLE
        /\ f # AVAILABLE /\ IsValidCluster(f)
    BY <2>1, FirstFreeIsFree, EntryNumbers DEF FreeEntries
  <2>4. ts[1] \in Tables
    BY CopyOne
  <2>5. \A i \in Entries : i # f => u[1][i] = IF i = k THEN f ELSE ts[1][i]
    BY <1>1, <2>2, <2>3, <2>4 DEF Tie, Tables
  <2> HIDE DEF u, k, f
  <2>6. \A i \in Entries : ts[1][i] # AVAILABLE =>
          /\ u[1][i] # AVAILABLE
          /\ IsValidCluster(ts[1][i]) => IsValidCluster(u[1][i])
    BY <2>3, <2>5
  <2>7. ts[1][k] # AVAILABLE => IsValidCluster(u[1][k])
    BY <1>1, <2>3, <2>5
  <2> QED
    BY <2>2, <2>6, <2>7 DEF u, k
<1> QED
  BY <1>2, <1>3

----------------------------------------------------------------------------
(***************************************************************************)
(* What each of the two insertions does, on the way to the invariants: the *)
(* types, which entries of the table stay in use, and that a list of more  *)
(* than one cluster is of a directory whose first cluster has a link.      *)
(***************************************************************************)
Shape ==
  /\ TypeOK
  /\ disk \in [DataEntries -> Clusters]

Pools ==
  /\ \A k \in {0, 1, 2} : mem[1][k] # AVAILABLE /\ dfat[1][k] # AVAILABLE
  /\ FreeEntries(mem[1]) \subseteq FreeEntries(dfat[1])
  /\ \A h \in Handles : list[h] # <<>> => mem[1][list[h][1].no] # AVAILABLE

Long ==
  \A h \in Handles : Len(list[h]) > 1 => IsValidCluster(mem[1][list[h][1].no])

\* The free entry f is in use afterwards, and what was in use or had a link
\* still is and still has one.
Grown(f) ==
  /\ mem' \in [Copies -> Tables]
  /\ mem'[1][f] # AVAILABLE
  /\ \A k \in Entries : mem[1][k] # AVAILABLE =>
       /\ mem'[1][k] # AVAILABLE
       /\ IsValidCluster(mem[1][k]) => IsValidCluster(mem'[1][k])

LEMMA ListHeads ==
  ASSUME Shape, NEW h \in Handles, list[h] # <<>>
  PROVE  /\ list[h] \in Seq(Nodes)
         /\ Len(list[h]) \in Nat /\ Len(list[h]) >= 1
         /\ list[h][1] \in Nodes
         /\ list[h][1].no \in DataEntries /\ list[h][1].no \in Entries
         /\ list[h][1].data \in Clusters
<1>1. list[h] \in Seq(Nodes)
  BY DEF Shape, TypeOK
<1>2. Len(list[h]) \in Nat \ {0}
  BY <1>1, EmptySeq
<1>3. list[h][1] \in Nodes
  BY <1>1, <1>2, ElementOfSeq
<1> QED
  BY <1>1, <1>2, <1>3, EntryNumbers DEF Nodes, Contents, Clusters, Cell

LEMMA NormDirTable ==
  ASSUME Shape, Pools, Long, NEW h \in Handles, list[h] # <<>>, HasFree(mem[1]),
         mem' = SetCluster(PlacedTable(mem, list[h]), FirstFree(mem[1]), END_LOW)
  PROVE  /\ Grown(FirstFree(mem[1]))
         /\ Len(list[h]) > 1 \/ Full(list[h]) =>
              IsValidCluster(mem'[1][list[h][1].no])
<1> DEFINE u == PlacedTable(mem, list[h])
           f == FirstFree(mem[1])
           m == list[h][1].no
<1>1. /\ mem \in [Copies -> Tables] /\ f \in Entries /\ mem[1][f] = AVAILABLE
  BY FirstFreeIsFree, EntryNumbers DEF Shape, TypeOK, FreeEntries
<1>2. list[h] \in Seq(Nodes) /\ m \in Entries /\ mem[1][m] # AVAILABLE
  BY ListHeads DEF Pools
<1>3. /\ u \in [Copies -> Tables]
      /\ \A k \in Entries : mem[1][k] # AVAILABLE =>
           /\ u[1][k] # AVAILABLE
           /\ IsValidCluster(mem[1][k]) => IsValidCluster(u[1][k])
      /\ Full(list[h]) /\ mem[1][list[h][Len(list[h])].no] # AVAILABLE =>
           IsValidCluster(u[1][list[h][Len(list[h])].no])
  BY <1>1, <1>2, PlacedTableType, PlacedTableOne DEF Fits
<1>4. END_LOW \in Nat /\ END_LOW # AVAILABLE
  BY EntryNumbers
<1>5. mem' = SetCluster(u, f, END_LOW)
  OBVIOUS
<1> HIDE DEF u, f
<1>6. mem' \in [Copies -> Tables]
  BY <1>1, <1>3, <1>4, <1>5, SetClusterAt
<1>7. \A k \in Entries : mem'[1][k] = IF k = f THEN END_LOW ELSE u[1][k]
  BY <1>1, <1>3, <1>4, <1>5, SetClusterAt
<1>8. Grown(f)
  BY <1>1, <1>3, <1>4, <1>6, <1>7 DEF Grown
<1>9. ASSUME Len(list[h]) > 1 \/ Full(list[h])
      PROVE  IsValidCluster(mem'[1][m])
  <2>1. IsValidCluster(u[1][m])
    BY <1>2, <1>3, <1>9, ListHeads DEF Long
  <2> QED
    BY <1>1, <1>2, <1>7, <2>1
<1> QED
  BY <1>8, <1>9 DEF f

LEMMA DotsAreClusters ==
  ASSUME NEW f \in DataEntries, NEW l, l[1].no \in DataEntries
  PROVE  /\ Dots(f, l) \in Clusters
         /\ Dots(f, l)[1] = Entry("dot", NormDirEncoding(f))
         /\ Dots(f, l)[2] = Entry("dotdot",
                                  NormDirEncoding(IF l[1].no = 2 THEN 0 ELSE l[1].no))
         /\ \A s \in 1 .. Slots : ~ IsEntry(Dots(f, l)[s])
<1>1. 1 \in 1 .. Slots /\ 2 \in 1 .. Slots
  BY DirectoryAssumption
<1>2. f \in Nat /\ ParentNumber(f, l) \in Nat
  BY EntryNumbers DEF ParentNumber
<1>3. /\ Entry("dot", NormDirEncoding(f)) \in Cell
      /\ Entry("dotdot", NormDirEncoding(ParentNumber(f, l))) \in Cell
  BY <1>2, EntriesAreCells DEF Kinds
<1>4. NoEntries \in Clusters
  BY EmptyClusters
<1>5. /\ ~ IsEntry(Entry("dot", NormDirEncoding(f)))
      /\ ~ IsEntry(Entry("dotdot", NormDirEncoding(ParentNumber(f, l))))
      /\ \A s \in 1 .. Slots : ~ IsEntry(NoEntries[s])
  BY DEF IsEntry, Entry, NoEntries, Whole
<1>6. /\ Dots(f, l) \in Clusters
      /\ \A s \in 1 .. Slots :
           Dots(f, l)[s] = IF s = 1 THEN Entry("dot", NormDirEncoding(f))
                           ELSE IF s = 2
                                THEN Entry("dotdot", NormDirEncoding(ParentNumber(f, l)))
                                ELSE NoEntries[s]
  BY <1>1, <1>3, <1>4 DEF Dots, Clusters
<1> QED
  BY <1>1, <1>5, <1>6 DEF ParentNumber

(* The types of what the insertions leave alone or give in passing.        *)
LEMMA AcceptedType ==
  ASSUME NEW c \in DataEntries, NEW e \in Cell,
         accepted' = [dir |-> c, entry |-> e]
  PROVE  accepted'.dir \in DataEntries /\ accepted'.entry.kind \in Kinds
BY DEF Cell

LEMMA NormDirStep ==
  ASSUME Shape, Pools, Long, NEW h \in Handles,
         NEW a \in BOOLEAN, NEW b \in BOOLEAN, InsertNormDir(h, a, b),
         NEW f, f = FirstFree(mem[1]), NEW m, m = list[h][1].no,
         NEW e, e = NormDirEntry(f)
  PROVE  /\ list[h] # <<>>
         /\ f \in DataEntries /\ mem[1][f] = AVAILABLE
         /\ m \in DataEntries /\ mem[1][m] # AVAILABLE
         /\ e \in Cell
         /\ Grown(f) /\ Long'
         /\ list' \in [Handles -> Seq(Nodes)]
         /\ list'[h] # <<>> /\ list'[h][1].no = m
         /\ \A g \in Handles : g # h => list'[g] = list[g]
         /\ list'[h][1].data \in Clusters
         /\ \E s \in 1 .. Slots : PutAt(list[h][1].data, list'[h][1].data, e, s)
         /\ Len(list[h]) = 1 /\ ~ Full(list[h]) =>
              \E s \in 1 .. Slots : list'[h][1].data[s] = e
         /\ disk' \in [DataEntries -> Clusters]
         /\ disk'[m] = IF a THEN list'[h][1].data ELSE disk[m]
         /\ disk'[f] = IF b THEN Dots(f, list[h]) ELSE disk[f]
         /\ \A n \in DataEntries : n # m /\ n # f => disk'[n] = disk[n]
         /\ accepted' = [dir |-> m, entry |-> e]
         /\ failed' = (failed \/ ~ a \/ ~ b)
         /\ dfat' = dfat /\ dangling' = dangling /\ damaged' = damaged
<1> DEFINE l == PlacedList(mem, list[h], e)
           d == WriteHead(disk, l, a)
<1>1. /\ list[h] # <<>> /\ HasFree(mem[1])
      /\ mem' = SetCluster(PlacedTable(mem, list[h]), f, END_LOW)
      /\ list' = [list EXCEPT ![h] = l]
      /\ disk' = IF b THEN [d EXCEPT ![f] = Dots(f, list[h])] ELSE d
      /\ accepted' = [dir |-> l[1].no, entry |-> e]
      /\ failed' = (failed \/ ~ a \/ ~ b)
      /\ dfat' = dfat /\ dangling' = dangling /\ damaged' = damaged
  BY DEF InsertNormDir
<1>2. f \in DataEntries /\ f \in Nat /\ mem[1][f] = AVAILABLE
  BY <1>1, FirstFreeIsFree, EntryNumbers DEF FreeEntries
<1>3. /\ m \in DataEntries /\ m \in Entries /\ mem[1][m] # AVAILABLE
      /\ list[h] \in Seq(Nodes) /\ list[h][1].data \in Clusters
      /\ Len(list[h]) \in Nat /\ Len(list[h]) >= 1
  BY <1>1, ListHeads DEF Pools
<1>4. e \in Cell
  BY <1>2, MadeEntries
<1>5. /\ l \in Seq(Nodes) /\ l # <<>> /\ l[1] \in Nodes /\ l[1].no = m
      /\ \E s \in 1 .. Slots : PutAt(list[h][1].data, l[1].data, e, s)
      /\ Len(l) > 1 => Len(list[h]) > 1 \/ Full(list[h])
      /\ Len(list[h]) = 1 /\ ~ Full(list[h]) =>
           \E s \in 1 .. Slots : l[1].data[s] = e
  <2>1. HasPlaced(mem, list[h], l, e) /\ Fits(mem, list[h])
    BY <1>1, <1>3, <1>4, PlacedHead DEF Fits
  <2> QED
    BY <2>1 DEF HasPlaced
<1>6. Grown(f) /\ (Len(list[h]) > 1 \/ Full(list[h]) => IsValidCluster(mem'[1][m]))
  BY <1>1, NormDirTable
<1>7. l[1].data \in Clusters
  BY <1>5 DEF Nodes, Contents, Clusters, Cell
<1> HIDE DEF l
<1>8. list \in [Handles -> Seq(Nodes)] /\ disk \in [DataEntries -> Clusters]
  BY DEF Shape, TypeOK
<1>9. /\ list' \in [Handles -> Seq(Nodes)] /\ list'[h] = l
      /\ \A g \in Handles : g # h => list'[g] = list[g]
  BY <1>1, <1>5, <1>8
<1>10. /\ disk' \in [DataEntries -> Clusters]
       /\ disk'[m] = IF a THEN l[1].data ELSE disk[m]
       /\ disk'[f] = IF b THEN Dots(f, list[h]) ELSE disk[f]
       /\ \A n \in DataEntries : n # m /\ n # f => disk'[n] = disk[n]
  <2>1. m # f
    BY <1>2, <1>3
  <2>2. /\ d \in [DataEntries -> Clusters]
        /\ \A n \in DataEntries : d[n] = IF a /\ n = m THEN l[1].data ELSE disk[n]
    BY <1>3, <1>5, <1>7, <1>8 DEF WriteHead
  <2>3. Dots(f, list[h]) \in Clusters
    BY <1>2, <1>3, DotsAreClusters
  <2> HIDE DEF d
  <2> QED
    BY <1>1, <1>2, <1>3, <2>1, <2>2, <2>3
<1>11. Long'
  <2> SUFFICES ASSUME NEW g \in Handles, Len(list'[g]) > 1
               PROVE  IsValidCluster(mem'[1][list'[g][1].no])
    BY DEF Long
  <2>1. CASE g = h
    BY <1>5, <1>6, <1>9, <2>1
  <2>2. CASE g # h
    <3>1. list'[g] = list[g] /\ list[g] # <<>>
      <4>1. Len(<<>>) = 0
        OBVIOUS
      <4> QED
        BY <1>9, <2>2, <4>1
    <3>2. /\ list[g][1].no \in Entries /\ mem[1][list[g][1].no] # AVAILABLE
          /\ IsValidCluster(mem[1][list[g][1].no])
      BY <3>1, ListHeads DEF Pools, Long
    <3> QED
      BY <1>6, <3>1, <3>2 DEF Grown
  <2> QED
    BY <2>1, <2>2
<1> QED
  BY <1>1, <1>2, <1>3, <1>4, <1>5, <1>6, <1>7, <1>9, <1>10, <1>11

LEMMA DirectoryInUse ==
  ASSUME NEW c \in Directories
  PROVE  /\ c \in DataEntries /\ c \in Entries
         /\ Reach(mem[1], c) \subseteq DataEntries
         /\ \A k \in Reach(mem[1], c) : mem[1][k] # AVAILABLE
         /\ mem[1][c] # AVAILABLE
<1>1. c \in DataEntries /\ c \in Entries /\ Reach(mem[1], c) \subseteq DataEntries
  BY EntryNumbers DEF Directories
<1> QED
  BY <1>1, ReachInData

(* The directory as __fat_insert_file reads it: the new cluster is not in  *)
(* it.                                                                     *)
FileReads(c, a, f, ts, d, old) ==
  /\ f \in DataEntries /\ f \in Entries /\ f \in Nat /\ mem[1][f] = AVAILABLE
  /\ c \in DataEntries /\ c \in Entries /\ mem[1][c] # AVAILABLE
  /\ ts \in [Copies -> Tables]
  /\ ts[1][f] = END_LOW
  /\ \A k \in Entries : k # f => ts[1][k] = mem[1][k]
  /\ d \in [DataEntries -> Clusters]
  /\ d[f] = IF a THEN FileData(f) ELSE disk[f]
  /\ \A n \in DataEntries : n # f => d[n] = disk[n]
  /\ old \in Seq(Nodes) /\ old # <<>>
  /\ old[1] = [no |-> c, data |-> disk[c]]
  /\ ~ IsValidCluster(mem[1][c]) /\ Room(disk[c]) # {} =>
       Len(old) = 1 /\ ~ Full(old)

LEMMA FileRead ==
  ASSUME Shape, Pools, NEW c \in Directories, CheckFreeClusters(mem[1], 1),
         NEW a \in BOOLEAN,
         NEW f, f = FirstFree(mem[1]), NEW ts, NEW d, NEW old,
         ts = Claim(mem, f) /\ d = WriteData(disk, f, a) /\ old = ReadClusters(ts[1], d, c)
  PROVE  FileReads(c, a, f, ts, d, old)
<1>1. f \in DataEntries /\ f \in Entries /\ f \in Nat /\ mem[1][f] = AVAILABLE
  <2>1. HasFree(mem[1])
    BY CheckedHasFree DEF Pools
  <2> QED
    BY <2>1, FirstFreeIsFree, EntryNumbers DEF FreeEntries
<1>2. /\ c \in DataEntries /\ c \in Entries /\ mem[1][c] # AVAILABLE
      /\ Reach(mem[1], c) \subseteq DataEntries
      /\ \A k \in Reach(mem[1], c) : mem[1][k] # AVAILABLE
  BY DirectoryInUse
<1>3. mem \in [Copies -> Tables] /\ mem[1] \in Tables /\ disk \in [DataEntries -> Clusters]
  BY CopyOne DEF Shape, TypeOK
<1>4. END_LOW \in Nat
  BY EntryNumbers
<1>5. /\ ts \in [Copies -> Tables]
      /\ ts[1][f] = END_LOW
      /\ \A k \in Entries : k # f => ts[1][k] = mem[1][k]
  <2>1. ts = SetCluster(mem, f, END_LOW)
    BY DEF Claim
  <2> QED
    BY <1>1, <1>3, <1>4, <2>1, SetClusterAt
<1>6. /\ d \in [DataEntries -> Clusters]
      /\ d[f] = IF a THEN FileData(f) ELSE disk[f]
      /\ \A n \in DataEntries : n # f => d[n] = disk[n]
  BY <1>1, <1>3, EmptyClusters DEF WriteData
<1>7. Reach(ts[1], c) \subseteq DataEntries
  <2>1. \A k \in Reach(mem[1], c) : k \in Entries /\ ts[1][k] = mem[1][k]
    BY <1>1, <1>2, <1>5 DEF Reach
  <2> QED
    BY <1>2, <2>1, ReachSame
<1>8. /\ old \in Seq(Nodes) /\ old # <<>>
      /\ old[1] = [no |-> c, data |-> d[c]]
      /\ Len(old) > 1 => IsValidCluster(ts[1][c])
  BY <1>2, <1>6, <1>7, ReadList DEF Clusters
<1>9. c # f /\ d[c] = disk[c] /\ ts[1][c] = mem[1][c]
  BY <1>1, <1>2, <1>5, <1>6
<1>10. ASSUME ~ IsValidCluster(mem[1][c]), Room(disk[c]) # {}
       PROVE  Len(old) = 1 /\ ~ Full(old)
  <2>1. Len(old) \in Nat /\ Len(old) >= 1
    BY <1>8, EmptySeq
  <2>2. Len(old) = 1
    <3>1. ~ (Len(old) > 1)
      BY <1>8, <1>9, <1>10
    <3>2. ASSUME NEW n \in Nat, n >= 1, ~ (n > 1)  PROVE n = 1
      BY <3>2
    <3> QED
      BY <2>1, <3>1, <3>2
  <2>3. old[Len(old)].data = disk[c]
    BY <1>8, <1>9, <2>2
  <2> QED
    BY <1>10, <2>2, <2>3 DEF Full
<1> QED
  BY <1>1, <1>2, <1>5, <1>6, <1>8, <1>9, <1>10 DEF FileReads

LEMMA FileStep ==
  ASSUME Shape, Pools, Long, NEW c \in Directories,
         NEW a \in BOOLEAN, NEW b \in BOOLEAN, InsertFile(c, a, b),
         NEW f, f = FirstFree(mem[1]),
         NEW e, e = FileEntry(f)
  PROVE  /\ f \in DataEntries /\ mem[1][f] = AVAILABLE
         /\ c \in DataEntries /\ mem[1][c] # AVAILABLE
         /\ e \in Cell
         /\ mem' \in [Copies -> Tables]
         /\ damaged' \in BOOLEAN
         /\ ~ damaged' => Grown(f) /\ Long' /\ Made(c)
         /\ list' = list
         /\ disk' \in [DataEntries -> Clusters]
         /\ \E data \in Clusters :
              /\ \E s \in 1 .. Slots : PutAt(disk[c], data, e, s)
              /\ ~ IsValidCluster(mem[1][c]) /\ Room(disk[c]) # {} =>
                   \E s \in 1 .. Slots : data[s] = e
              /\ disk'[c] = IF b THEN data ELSE disk[c]
         /\ disk'[f] = IF a THEN FileData(f) ELSE disk[f]
         /\ \A n \in DataEntries : n # c /\ n # f => disk'[n] = disk[n]
         /\ accepted' = [dir |-> c, entry |-> e]
         /\ failed' = (failed \/ ~ a \/ ~ b)
         /\ dfat' = dfat /\ dangling' = dangling
<1> DEFINE ts == Claim(mem, f)
           d == WriteData(disk, f, a)
           old == ReadClusters(ts[1], d, c)
           l == PlacedList(ts, old, e)
<1>1. /\ CheckFreeClusters(mem[1], 1)
      /\ mem' = PlacedTable(ts, old)
      /\ disk' = WriteHead(d, l, b)
      /\ accepted' = [dir |-> c, entry |-> e]
      /\ failed' = (failed \/ ~ a \/ ~ b)
      /\ damaged' = (~ Made(c) \/ (Full(old) /\ ~ HasFree(ts[1])))
      /\ list' = list /\ dfat' = dfat /\ dangling' = dangling
  BY DEF InsertFile
<1>0. ts = Claim(mem, f) /\ d = WriteData(disk, f, a) /\ old = ReadClusters(ts[1], d, c)
  OBVIOUS
<1> HIDE DEF ts, d, old
<1>2. /\ f \in DataEntries /\ f \in Entries /\ f \in Nat /\ mem[1][f] = AVAILABLE
      /\ c \in DataEntries /\ c \in Entries /\ mem[1][c] # AVAILABLE
      /\ ts \in [Copies -> Tables]
      /\ ts[1][f] = END_LOW
      /\ \A k \in Entries : k # f => ts[1][k] = mem[1][k]
      /\ d \in [DataEntries -> Clusters]
      /\ d[f] = IF a THEN FileData(f) ELSE disk[f]
      /\ \A n \in DataEntries : n # f => d[n] = disk[n]
      /\ old \in Seq(Nodes) /\ old # <<>>
      /\ old[1] = [no |-> c, data |-> disk[c]]
      /\ ~ IsValidCluster(mem[1][c]) /\ Room(disk[c]) # {} =>
           Len(old) = 1 /\ ~ Full(old)
  <2>1. CheckFreeClusters(mem[1], 1)
    BY <1>1
  <2> HIDE DEF l
  <2>2. FileReads(c, a, f, ts, d, old)
    BY <1>0, <2>1, FileRead
  <2> QED
    BY <2>2 DEF FileReads
<1>3. e \in Cell
  BY <1>2, MadeEntries
<1>4. END_LOW # AVAILABLE
  BY EntryNumbers
<1>5. /\ l[1] \in Nodes /\ l[1].no = c
      /\ \E s \in 1 .. Slots : PutAt(disk[c], l[1].data, e, s)
      /\ Len(old) = 1 /\ ~ Full(old) =>
           \E s \in 1 .. Slots : l[1].data[s] = e
  <2>1. HasPlaced(ts, old, l, e)
    BY <1>2, <1>3, PlacedHead
  <2> QED
    BY <1>2, <2>1 DEF HasPlaced
<1> HIDE DEF l
<1>6. l[1].data \in Clusters
  BY <1>5 DEF Nodes, Contents, Clusters, Cell
<1>7. c # f
  BY <1>2
<1>8. /\ disk' \in [DataEntries -> Clusters]
      /\ disk'[c] = IF b THEN l[1].data ELSE disk[c]
      /\ disk'[f] = IF a THEN FileData(f) ELSE disk[f]
      /\ \A n \in DataEntries : n # c /\ n # f => disk'[n] = disk[n]
  BY <1>1, <1>2, <1>5, <1>6, <1>7 DEF WriteHead
<1>9. mem' \in [Copies -> Tables]
  BY <1>1, <1>2, PlacedTableType
<1>10. ASSUME ~ damaged'  PROVE Grown(f)
  <2>1. Fits(ts, old)
    BY <1>1, <1>10 DEF Fits
  <2>2. \A k \in Entries : ts[1][k] # AVAILABLE =>
          /\ mem'[1][k] # AVAILABLE
          /\ IsValidCluster(ts[1][k]) => IsValidCluster(mem'[1][k])
    BY <1>1, <1>2, <2>1, PlacedTableOne
  <2>3. mem'[1][f] # AVAILABLE
    BY <1>2, <1>4, <2>2
  <2>4. \A k \in Entries : mem[1][k] # AVAILABLE => ts[1][k] = mem[1][k]
    BY <1>2
  <2> QED
    BY <1>9, <2>2, <2>3, <2>4 DEF Grown
<1>11. ASSUME ~ damaged'  PROVE Long'
  <2> SUFFICES ASSUME NEW g \in Handles, Len(list[g]) > 1
               PROVE  IsValidCluster(mem'[1][list[g][1].no])
    BY <1>1 DEF Long
  <2>1. list[g] # <<>>
    <3>1. Len(<<>>) = 0
      OBVIOUS
    <3> QED
      BY <3>1
  <2>2. /\ list[g][1].no \in Entries /\ mem[1][list[g][1].no] # AVAILABLE
        /\ IsValidCluster(mem[1][list[g][1].no])
    BY <2>1, ListHeads DEF Pools, Long
  <2> QED
    BY <1>10, <1>11, <2>2 DEF Grown
<1>12. \E data \in Clusters :
         /\ \E s \in 1 .. Slots : PutAt(disk[c], data, e, s)
         /\ ~ IsValidCluster(mem[1][c]) /\ Room(disk[c]) # {} =>
              \E s \in 1 .. Slots : data[s] = e
         /\ disk'[c] = IF b THEN data ELSE disk[c]
  BY <1>2, <1>5, <1>6, <1>8
<1>13. damaged' \in BOOLEAN /\ (~ damaged' => Made(c))
  BY <1>1
<1> QED
  BY <1>1, <1>2, <1>3, <1>8, <1>9, <1>10, <1>11, <1>12, <1>13

----------------------------------------------------------------------------
(***************************************************************************)
(* The inductive invariant.  An entry that is not on the device can come   *)
(* back to it, through a list that was read while it was there: what is    *)
(* claimed of the device has to be claimed of every copy of a cluster that *)
(* is the head of a list too, as heads are what the insertions write.      *)
(***************************************************************************)
CopyOf(data, n) ==
  \/ data = disk[n]
  \/ \E h \in Handles :
       list[h] # <<>> /\ list[h][1].no = n /\ data = list[h][1].data

Held(x, e) == IsEntry(e) /\ \E data : CopyOf(data, x[1]) /\ data[x[2]] = e

IsHead(n) == n = 2 \/ \E h \in Handles : list[h] # <<>> /\ list[h][1].no = n

BeginsWithDots(data, n, parent) ==
  /\ data[1] = Entry("dot", NormDirEncoding(n))
  /\ data[2] = Entry("dotdot", NormDirEncoding(IF parent = 2 THEN 0 ELSE parent))

\* Entries lead to clusters in use from clusters in use, and on the device
\* they do unless they are in a cluster that is not.
Led ==
  \A x \in SlotSet : \A e : Held(x, e) =>
    /\ ContentNumber(e) \in DataEntries
    /\ mem[1][ContentNumber(e)] # AVAILABLE
    /\ mem[1][x[1]] # AVAILABLE
    /\ dfat[1][x[1]] = AVAILABLE => dfat[1][ContentNumber(e)] = AVAILABLE

Once ==
  \A x, y \in SlotSet : \A e, g :
    Held(x, e) /\ Held(y, g) /\ ContentNumber(e) = ContentNumber(g) => x = y

Dotted ==
  \A x \in SlotSet : \A e, data :
    Held(x, e) /\ e.kind = "dir" /\ CopyOf(data, ContentNumber(e)) =>
      BeginsWithDots(data, ContentNumber(e), x[1])

Filled ==
  \A x \in SlotSet : \A e :
    Held(x, e) /\ e.kind = "file" =>
      disk[ContentNumber(e)] = FileData(ContentNumber(e))

\* Directories do not look like files.
Apart ==
  \A n \in DataEntries : \A data :
    IsHead(n) /\ CopyOf(data, n) => data[1].kind # "data"

Sound == ~ dangling /\ ~ damaged

Content ==
  /\ Sound => Led /\ Once
  /\ Sound /\ ~ failed => Dotted /\ Filled /\ Apart

(***************************************************************************)
(* What the two insertions have in common: the entry e that leads to f is  *)
(* placed at s in a copy of the cluster m, and of f something is made.     *)
(***************************************************************************)
Inserted(m, f, e, s) ==
  /\ f \in DataEntries /\ mem[1][f] = AVAILABLE
  /\ m \in DataEntries /\ mem[1][m] # AVAILABLE
  /\ IsHead(m) \/ Made(m)
  /\ s \in 1 .. Slots /\ e.kind # "data" /\ (IsEntry(e) => ContentNumber(e) = f)
  /\ Grown(f)
  /\ dfat' = dfat /\ (Sound' => Sound) /\ (failed => failed')
  /\ \A n \in DataEntries : n # m /\ n # f => disk'[n] = disk[n]
  /\ \A r \in 1 .. Slots : IsEntry(disk'[f][r]) => disk'[f][r] = disk[f][r]
  /\ ~ failed' =>
       /\ e.kind = "dir" => BeginsWithDots(disk'[f], f, m)
       /\ e.kind = "file" => disk'[f] = FileData(f)
  /\ \E data : CopyOf(data, m) /\ PutAt(data, disk'[m], e, s)
  /\ \A h \in Handles : list'[h] # <<>> =>
       /\ list[h] # <<>> /\ list'[h][1].no = list[h][1].no
       /\ \/ list'[h][1].data = list[h][1].data
          \/ list[h][1].no = m /\ PutAt(list[h][1].data, list'[h][1].data, e, s)

LEMMA NormDirInserted ==
  ASSUME Shape, Pools, Long, NEW h \in Handles,
         NEW a \in BOOLEAN, NEW b \in BOOLEAN, InsertNormDir(h, a, b),
         NEW f, f = FirstFree(mem[1]), NEW m, m = list[h][1].no,
         NEW e, e = NormDirEntry(f)
  PROVE  \E s \in 1 .. Slots : Inserted(m, f, e, s)
<1>1. /\ list[h] # <<>>
      /\ f \in DataEntries /\ mem[1][f] = AVAILABLE
      /\ m \in DataEntries /\ mem[1][m] # AVAILABLE
      /\ Grown(f)
      /\ list'[h] # <<>> /\ list'[h][1].no = m
      /\ \A g \in Handles : g # h => list'[g] = list[g]
      /\ \E s \in 1 .. Slots : PutAt(list[h][1].data, list'[h][1].data, e, s)
      /\ disk'[m] = IF a THEN list'[h][1].data ELSE disk[m]
      /\ disk'[f] = IF b THEN Dots(f, list[h]) ELSE disk[f]
      /\ \A n \in DataEntries : n # m /\ n # f => disk'[n] = disk[n]
      /\ failed' = (failed \/ ~ a \/ ~ b)
      /\ dfat' = dfat /\ dangling' = dangling /\ damaged' = damaged
  BY NormDirStep
<1>2. PICK s \in 1 .. Slots : PutAt(list[h][1].data, list'[h][1].data, e, s)
  BY <1>1
<1>3. e.kind \in {"dir", "straydir"} /\ (IsEntry(e) => ContentNumber(e) = f)
  BY <1>1, MadeEntries, NumbersRead, EntryNumbers
<1>4. /\ Dots(f, list[h])[1] = Entry("dot", NormDirEncoding(f))
      /\ Dots(f, list[h])[2] = Entry("dotdot", NormDirEncoding(IF m = 2 THEN 0 ELSE m))
      /\ \A r \in 1 .. Slots : ~ IsEntry(Dots(f, list[h])[r])
  BY <1>1, DotsAreClusters
<1>5. \A r \in 1 .. Slots : IsEntry(disk'[f][r]) => disk'[f][r] = disk[f][r]
  BY <1>1, <1>4
<1>6. ~ failed' => /\ e.kind = "dir" => BeginsWithDots(disk'[f], f, m)
                   /\ e.kind = "file" => disk'[f] = FileData(f)
  BY <1>1, <1>3, <1>4 DEF BeginsWithDots
<1>7. \E data : CopyOf(data, m) /\ PutAt(data, disk'[m], e, s)
  <2>1. CASE a
    <3>1. CopyOf(list[h][1].data, m)
      BY <1>1 DEF CopyOf
    <3> QED
      BY <1>1, <1>2, <2>1, <3>1
  <2>2. CASE ~ a
    <3>1. CopyOf(disk[m], m) /\ PutAt(disk[m], disk[m], e, s)
      BY DEF CopyOf, PutAt
    <3> QED
      BY <1>1, <2>2, <3>1
  <2> QED
    BY <2>1, <2>2
<1>8. \A g \in Handles : list'[g] # <<>> =>
        /\ list[g] # <<>> /\ list'[g][1].no = list[g][1].no
        /\ \/ list'[g][1].data = list[g][1].data
           \/ list[g][1].no = m /\ PutAt(list[g][1].data, list'[g][1].data, e, s)
  BY <1>1, <1>2
<1>9. Inserted(m, f, e, s)
  BY <1>1, <1>2, <1>3, <1>5, <1>6, <1>7, <1>8 DEF Inserted, IsHead, Sound
<1> QED
  BY <1>2, <1>9

LEMMA FileInserted ==
  ASSUME Shape, Pools, Long, NEW c \in Directories,
         NEW a \in BOOLEAN, NEW b \in BOOLEAN, InsertFile(c, a, b),
         NEW f, f = FirstFree(mem[1]),
         NEW e, e = FileEntry(f), ~ damaged'
  PROVE  \E s \in 1 .. Slots : Inserted(c, f, e, s)
<1>1. /\ f \in DataEntries /\ mem[1][f] = AVAILABLE
      /\ c \in DataEntries /\ mem[1][c] # AVAILABLE
      /\ Grown(f) /\ Made(c)
      /\ list' = list
      /\ \E data \in Clusters :
           /\ \E s \in 1 .. Slots : PutAt(disk[c], data, e, s)
           /\ disk'[c] = IF b THEN data ELSE disk[c]
      /\ disk'[f] = IF a THEN FileData(f) ELSE disk[f]
      /\ \A n \in DataEntries : n # c /\ n # f => disk'[n] = disk[n]
      /\ failed' = (failed \/ ~ a \/ ~ b)
      /\ dfat' = dfat /\ dangling' = dangling
  BY FileStep
<1>2. PICK s \in 1 .. Slots : PutAt(disk[c], disk'[c], e, s)
  BY <1>1 DEF PutAt
<1>3. e.kind \in {"file", "strayfile"} /\ (IsEntry(e) => ContentNumber(e) = f)
  BY <1>1, MadeEntries, NumbersRead, EntryNumbers
<1>4. \A r \in 1 .. Slots : ~ IsEntry(FileData(f)[r])
  BY DEF IsEntry, FileData, Whole, Entry
<1>5. \A r \in 1 .. Slots : IsEntry(disk'[f][r]) => disk'[f][r] = disk[f][r]
  BY <1>1, <1>4
<1>6. ~ failed' => /\ e.kind = "dir" => BeginsWithDots(disk'[f], f, c)
                   /\ e.kind = "file" => disk'[f] = FileData(f)
  BY <1>1, <1>3
<1>7. \E data : CopyOf(data, c) /\ PutAt(data, disk'[c], e, s)
  <2>1. CopyOf(disk[c], c)
    BY DEF CopyOf
  <2> QED
    BY <1>2, <2>1
<1>8. Sound' => Sound
  BY <1>1 DEF Sound, InsertFile
<1>9. Inserted(c, f, e, s)
  BY <1>1, <1>2, <1>3, <1>5, <1>6, <1>7, <1>8 DEF Inserted
<1> QED
  BY <1>2, <1>9

(* Every copy of a cluster after an insertion was one before, or is what   *)
(* is made of f, or is a copy of m with the new entry in it.               *)
LEMMA CopiesAfter ==
  ASSUME Pools, NEW m, NEW f, NEW e, NEW s, Inserted(m, f, e, s),
         NEW n \in DataEntries, NEW new, CopyOf(new, n)'
  PROVE  \/ CopyOf(new, n)
         \/ n = f /\ new = disk'[f]
         \/ n = m /\ \E data : CopyOf(data, m) /\ PutAt(data, new, e, s)
<1>1. CASE new = disk'[n]
  <2>1. CASE n # m /\ n # f
    BY <1>1, <2>1 DEF Inserted, CopyOf
  <2>2. CASE n = m
    BY <1>1, <2>2 DEF Inserted
  <2>3. CASE n = f
    BY <1>1, <2>3
  <2> QED
    BY <2>1, <2>2, <2>3
<1>2. CASE new # disk'[n]
  <2>1. PICK h \in Handles : list'[h] # <<>> /\ list'[h][1].no = n /\ new = list'[h][1].data
    BY <1>2 DEF CopyOf
  <2>2. /\ list[h] # <<>> /\ list[h][1].no = n
        /\ \/ new = list[h][1].data
           \/ n = m /\ PutAt(list[h][1].data, new, e, s)
    BY <2>1 DEF Inserted
  <2>3. CopyOf(list[h][1].data, n)
    BY <2>2 DEF CopyOf
  <2> QED
    BY <2>2, <2>3
<1> QED
  BY <1>1, <1>2

LEMMA HeldAfter ==
  ASSUME Pools, NEW m, NEW f, NEW e, NEW s, Inserted(m, f, e, s),
         NEW x \in SlotSet, NEW g, Held(x, g)'
  PROVE  Held(x, g) \/ (x = <<m, s>> /\ g = e)
<1>1. x[1] \in DataEntries /\ x[2] \in 1 .. Slots /\ x = <<x[1], x[2]>>
  BY DEF SlotSet
<1>2. PICK new : CopyOf(new, x[1])' /\ new[x[2]] = g /\ IsEntry(g)
  BY DEF Held
<1>3. CASE CopyOf(new, x[1])
  BY <1>2, <1>3 DEF Held
<1>4. CASE x[1] = f /\ new = disk'[f]
  <2>1. disk[f][x[2]] = g
    BY <1>1, <1>2, <1>4 DEF Inserted
  <2>2. CopyOf(disk[f], f)
    BY DEF CopyOf
  <2> QED
    BY <1>2, <1>4, <2>1, <2>2 DEF Held
<1>5. CASE x[1] = m /\ \E data : CopyOf(data, m) /\ PutAt(data, new, e, s)
  <2>1. PICK data : CopyOf(data, m) /\ PutAt(data, new, e, s)
    BY <1>5
  <2>2. CASE data[x[2]] = g
    BY <1>2, <1>5, <2>1, <2>2 DEF Held
  <2>3. CASE data[x[2]] # g
    <3>1. new = [data EXCEPT ![s] = e]
      BY <1>2, <2>1, <2>3 DEF PutAt
    <3>2. x[2] = s
      BY <1>2, <2>3, <3>1
    <3>3. CASE g = e
      BY <1>1, <1>5, <3>2, <3>3
    <3>4. CASE g # e
      \* s is not in the domain of the copy then.
      BY <1>2, <2>3, <3>1, <3>2, <3>4
    <3> QED
      BY <3>3, <3>4
  <2> QED
    BY <2>2, <2>3
<1> QED
  BY <1>1, <1>2, <1>3, <1>4, <1>5, CopiesAfter

LEMMA CopiesAreClusters ==
  ASSUME Shape, NEW n \in DataEntries, NEW data, CopyOf(data, n)
  PROVE  data \in Clusters
<1>1. disk[n] \in Clusters
  BY DEF Shape
<1> QED
  BY <1>1, ListHeads DEF CopyOf

(* A cluster that entries are looked for in does not begin like the data   *)
(* of a file, in any copy.                                                 *)
LEMMA DirectoriesApart ==
  ASSUME Content, Sound, ~ failed,
         NEW n \in DataEntries, IsHead(n) \/ Made(n),
         NEW data, CopyOf(data, n)
  PROVE  data[1].kind # "data"
<1>1. CASE IsHead(n)
  BY <1>1 DEF Content, Apart
<1>2. CASE ~ IsHead(n)
  <2>1. PICK c \in DataEntries, s \in 1 .. Slots :
          disk[c][s].kind = "dir" /\ ContentNumber(disk[c][s]) = n
    BY <1>2 DEF Made, IsHead
  <2> DEFINE x == <<c, s>>
             e == disk[c][s]
  <2>2. x \in SlotSet /\ x[1] = c /\ x[2] = s
    BY DEF SlotSet
  <2>3. CopyOf(disk[c], c)
    BY DEF CopyOf
  <2>4. Held(x, e)
    BY <2>1, <2>2, <2>3 DEF Held, IsEntry
  <2>5. BeginsWithDots(data, n, c)
    BY <2>1, <2>2, <2>4 DEF Content, Dotted
  <2> QED
    BY <2>5 DEF BeginsWithDots, Entry
<1> QED
  BY <1>1, <1>2

LEMMA InsertedContent ==
  ASSUME Shape, Pools, Content, NEW m, NEW f, NEW e, NEW s, Inserted(m, f, e, s)
  PROVE  Content'
<1>1. /\ f \in DataEntries /\ f \in Entries /\ mem[1][f] = AVAILABLE
      /\ m \in DataEntries /\ m \in Entries /\ mem[1][m] # AVAILABLE
      /\ e.kind # "data" /\ (IsEntry(e) => ContentNumber(e) = f)
      /\ dfat' = dfat /\ (Sound' => Sound) /\ (failed => failed')
  BY EntryNumbers DEF Inserted
<1>2. /\ mem'[1][f] # AVAILABLE
      /\ \A k \in Entries : mem[1][k] # AVAILABLE => mem'[1][k] # AVAILABLE
  BY DEF Inserted, Grown
<1>3. dfat[1][f] = AVAILABLE
  BY <1>1 DEF Pools, FreeEntries
<1>4. \A x \in SlotSet : \A g :
        Held(x, g)' => Held(x, g) \/ (x = <<m, s>> /\ g = e)
  BY HeldAfter
<1>5. \A x \in SlotSet : x[1] \in DataEntries /\ x[1] \in Entries
  BY EntryNumbers DEF SlotSet
<1>6. ASSUME Sound'  PROVE Led'
  <2> SUFFICES ASSUME NEW x \in SlotSet, NEW g, Held(x, g)'
               PROVE  /\ ContentNumber(g) \in DataEntries
                      /\ mem'[1][ContentNumber(g)] # AVAILABLE
                      /\ mem'[1][x[1]] # AVAILABLE
                      /\ dfat[1][x[1]] = AVAILABLE => dfat[1][ContentNumber(g)] = AVAILABLE
    BY <1>1 DEF Led
  <2>1. CASE Held(x, g)
    <3>1. /\ ContentNumber(g) \in DataEntries
          /\ mem[1][ContentNumber(g)] # AVAILABLE
          /\ mem[1][x[1]] # AVAILABLE
          /\ dfat[1][x[1]] = AVAILABLE => dfat[1][ContentNumber(g)] = AVAILABLE
      BY <1>1, <1>6, <2>1 DEF Content, Led
    <3> QED
      BY <1>2, <1>5, <3>1, EntryNumbers
  <2>2. CASE x = <<m, s>> /\ g = e
    <3>1. IsEntry(e)
      BY <2>2 DEF Held
    <3> QED
      BY <1>1, <1>2, <1>3, <2>2, <3>1
  <2> QED
    BY <1>4, <2>1, <2>2
<1>7. ASSUME Sound', NEW x \in SlotSet, NEW g, Held(x, g)
      PROVE  ContentNumber(g) \in DataEntries /\ ContentNumber(g) # f
  BY <1>1, <1>7 DEF Content, Led
<1>8. ASSUME Sound'  PROVE Once'
  <2> SUFFICES ASSUME NEW x \in SlotSet, NEW y \in SlotSet, NEW g, NEW k,
                      Held(x, g)', Held(y, k)', ContentNumber(g) = ContentNumber(k)
               PROVE  x = y
    BY DEF Once
  <2>1. CASE Held(x, g) /\ Held(y, k)
    BY <1>1, <1>8, <2>1 DEF Content, Once
  <2>2. CASE ~ (Held(x, g) /\ Held(y, k))
    <3>1. IsEntry(g) /\ IsEntry(k)
      BY DEF Held
    <3> QED
      BY <1>1, <1>4, <1>7, <1>8, <2>2, <3>1
  <2> QED
    BY <2>1, <2>2
<1> DEFINE Fine == Sound' /\ ~ failed'
<1>9. Fine => Sound /\ ~ failed
  BY <1>1
\* A cluster that is a head afterwards was one and is not made into one.
<1>10. \A n \in DataEntries : IsHead(n)' => IsHead(n) /\ n # f
  <2> SUFFICES ASSUME NEW n \in DataEntries, IsHead(n)'
               PROVE  IsHead(n) /\ mem[1][n] # AVAILABLE
    BY <1>1
  <2>1. CASE n = 2
    BY <2>1 DEF IsHead, Pools
  <2>2. CASE n # 2
    <3>1. PICK h \in Handles : list'[h] # <<>> /\ list'[h][1].no = n
      BY <2>2 DEF IsHead
    <3>2. list[h] # <<>> /\ list[h][1].no = n
      BY <3>1 DEF Inserted
    <3> QED
      BY <3>2 DEF IsHead, Pools
  <2> QED
    BY <2>1, <2>2
<1>11. ASSUME Fine  PROVE Apart'
  <2> SUFFICES ASSUME NEW n \in DataEntries, NEW new, IsHead(n)', CopyOf(new, n)'
               PROVE  new[1].kind # "data"
    BY DEF Apart
  <2>1. IsHead(n) /\ n # f
    BY <1>10
  <2>2. \A data : CopyOf(data, n) => data[1].kind # "data"
    BY <1>9, <1>11, <2>1 DEF Content, Apart
  <2>3. CASE CopyOf(new, n)
    BY <2>2, <2>3
  <2>4. CASE \E data : CopyOf(data, n) /\ PutAt(data, new, e, s)
    <3>1. PICK data : CopyOf(data, n) /\ PutAt(data, new, e, s)
      BY <2>4
    <3>2. data \in Clusters /\ 1 \in 1 .. Slots
      BY <3>1, CopiesAreClusters, DirectoryAssumption
    <3>3. new[1] = data[1] \/ new[1] = e
      BY <3>1, <3>2 DEF PutAt, Clusters
    <3> QED
      BY <1>1, <2>2, <3>1, <3>3
  <2> QED
    BY <2>1, <2>3, <2>4, CopiesAfter
<1>12. ASSUME Fine  PROVE Dotted'
  <2> SUFFICES ASSUME NEW x \in SlotSet, NEW g, NEW new, Held(x, g)', g.kind = "dir",
                      NEW n, n = ContentNumber(g), CopyOf(new, n)'
               PROVE  BeginsWithDots(new, n, x[1])
    BY DEF Dotted
  <2>1. CASE Held(x, g)
    <3>1. n \in DataEntries /\ n # f
      BY <1>7, <1>12, <2>1
    <3>2. \A data : CopyOf(data, n) => BeginsWithDots(data, n, x[1])
      BY <1>9, <1>12, <2>1 DEF Content, Dotted
    <3>3. CASE CopyOf(new, n)
      BY <3>2, <3>3
    <3>4. CASE \E data : CopyOf(data, n) /\ PutAt(data, new, e, s)
      <4>1. PICK data : CopyOf(data, n) /\ PutAt(data, new, e, s)
        BY <3>4
      <4>2. BeginsWithDots(data, n, x[1])
        BY <3>2, <4>1
      <4>3. data[1].kind # "free" /\ data[2].kind # "free"
        BY <4>2 DEF BeginsWithDots, Entry
      <4>4. data \in Clusters /\ 1 \in 1 .. Slots /\ 2 \in 1 .. Slots
        BY <3>1, <4>1, CopiesAreClusters, DirectoryAssumption
      <4>5. new[1] = data[1] /\ new[2] = data[2]
        BY <4>1, <4>3, <4>4 DEF PutAt, Clusters
      <4> QED
        BY <4>2, <4>5 DEF BeginsWithDots
    <3> QED
      BY <3>1, <3>3, <3>4, CopiesAfter
  <2>2. CASE x = <<m, s>> /\ g = e
    <3>1. n = f /\ x[1] = m /\ e.kind = "dir"
      BY <1>1, <2>2 DEF IsEntry
    <3>2. new = disk'[f]
      <4> SUFFICES ASSUME NEW h \in Handles, list'[h] # <<>>, list'[h][1].no = f
                   PROVE  FALSE
        BY <3>1 DEF CopyOf
      <4>1. list[h] # <<>> /\ list[h][1].no = f
        BY DEF Inserted
      <4> QED
        BY <1>1, <4>1 DEF Pools
    <3> QED
      BY <1>12, <3>1, <3>2 DEF Inserted
  <2> QED
    BY <1>4, <2>1, <2>2
<1>13. ASSUME Fine  PROVE Filled'
  <2> SUFFICES ASSUME NEW x \in SlotSet, NEW g, Held(x, g)', g.kind = "file",
                      NEW n, n = ContentNumber(g)
               PROVE  disk'[n] = FileData(n)
    BY DEF Filled
  <2>1. CASE Held(x, g)
    <3>1. n \in DataEntries /\ n # f
      BY <1>7, <1>13, <2>1
    <3>2. disk[n] = FileData(n)
      BY <1>9, <1>13, <2>1 DEF Content, Filled
    <3>3. CASE n # m
      BY <3>1, <3>2, <3>3 DEF Inserted
    <3>4. n # m
      <4>1. \A data : CopyOf(data, m) => data[1].kind # "data"
        BY <1>1, <1>9, <1>13, DirectoriesApart DEF Inserted
      <4>2. CopyOf(disk[m], m)
        BY DEF CopyOf
      <4>3. FileData(n)[1].kind = "data"
        BY DirectoryAssumption DEF FileData, Whole, Entry
      <4> QED
        BY <3>2, <4>1, <4>2, <4>3
    <3> QED
      BY <3>3, <3>4
  <2>2. CASE x = <<m, s>> /\ g = e
    BY <1>1, <1>13, <2>2 DEF Inserted, IsEntry
  <2> QED
    BY <1>4, <2>1, <2>2
<1> QED
  BY <1>6, <1>8, <1>11, <1>12, <1>13 DEF Content

(***************************************************************************)
(* The other steps make no copies of a cluster but of what is in it, with  *)
(* at most something put in a free entry that is no entry whose number     *)
(* fits, and of what is in clusters that are free, which has no entries.   *)
(***************************************************************************)
Derived(new, n) ==
  \E data : /\ CopyOf(data, n)
            /\ \A s \in 1 .. Slots :
                 \/ new[s] = data[s]
                 \/ data[s].kind = "free" /\ ~ IsEntry(new[s]) /\ new[s].kind # "data"

NoNewEntries ==
  \A n \in DataEntries : \A new : CopyOf(new, n)' =>
    \/ Derived(new, n)
    \/ mem[1][n] = AVAILABLE /\ \A s \in 1 .. Slots : ~ IsEntry(new[s])

LEMMA SameFunctions ==
  ASSUME NEW S, NEW T, NEW f \in [S -> T], NEW g \in [S -> T], \A x \in S : f[x] = g[x]
  PROVE  f = g
OBVIOUS

LEMMA CopyIsDerived == \A n, new : CopyOf(new, n) => Derived(new, n)
BY DEF Derived

LEMMA HeldBefore ==
  ASSUME NoNewEntries, NEW x \in SlotSet, NEW g, Held(x, g)'
  PROVE  Held(x, g)
<1>1. x[1] \in DataEntries /\ x[2] \in 1 .. Slots
  BY DEF SlotSet
<1>2. PICK new : CopyOf(new, x[1])' /\ new[x[2]] = g /\ IsEntry(g)
  BY DEF Held
<1>3. Derived(new, x[1])
  BY <1>1, <1>2 DEF NoNewEntries
<1> QED
  BY <1>1, <1>2, <1>3 DEF Held, Derived

LEMMA NoNewContent ==
  ASSUME Shape, Content, Sound' => Sound, failed' = failed,
         disk' \in [DataEntries -> Clusters],
         Sound' => NoNewEntries /\ Led',
         \A n \in DataEntries : IsHead(n)' =>
           (IsHead(n) \/ Made(n) \/ damaged') /\ mem[1][n] # AVAILABLE
  PROVE  Content'
<1> DEFINE Fine == Sound' /\ ~ failed'
<1>1. Fine => Sound /\ ~ failed /\ ~ damaged'
  BY DEF Sound
<1>2. ASSUME Sound', NEW x \in SlotSet, NEW g, Held(x, g)'
      PROVE  /\ Held(x, g) /\ ContentNumber(g) \in DataEntries
             /\ mem[1][ContentNumber(g)] # AVAILABLE
  <2>1. Held(x, g)
    BY <1>2, HeldBefore
  <2> QED
    BY <1>2, <2>1 DEF Content, Led
<1>3. ASSUME Sound'  PROVE Once'
  BY <1>2, <1>3 DEF Content, Once
<1>4. ASSUME Fine  PROVE Apart'
  <2> SUFFICES ASSUME NEW n \in DataEntries, NEW new, IsHead(n)', CopyOf(new, n)'
               PROVE  new[1].kind # "data"
    BY DEF Apart
  <2>1. Derived(new, n) /\ (IsHead(n) \/ Made(n))
    BY <1>1, <1>4 DEF NoNewEntries
  <2>2. \A data : CopyOf(data, n) => data[1].kind # "data"
    BY <1>1, <1>4, <2>1, DirectoriesApart
  <2>3. 1 \in 1 .. Slots
    BY DirectoryAssumption
  <2> QED
    BY <2>1, <2>2, <2>3 DEF Derived
<1>5. ASSUME Fine  PROVE Dotted'
  <2> SUFFICES ASSUME NEW x \in SlotSet, NEW g, NEW new, Held(x, g)', g.kind = "dir",
                      NEW n, n = ContentNumber(g), CopyOf(new, n)'
               PROVE  BeginsWithDots(new, n, x[1])
    BY DEF Dotted
  <2>1. Held(x, g) /\ n \in DataEntries /\ mem[1][n] # AVAILABLE
    BY <1>2, <1>5
  <2>2. PICK data : CopyOf(data, n) /\ \A s \in 1 .. Slots :
          new[s] = data[s] \/ data[s].kind = "free"
    BY <1>5, <2>1 DEF NoNewEntries, Derived
  <2>3. BeginsWithDots(data, n, x[1])
    BY <1>1, <1>5, <2>1, <2>2 DEF Content, Dotted
  <2>4. data[1].kind # "free" /\ data[2].kind # "free"
    BY <2>3 DEF BeginsWithDots, Entry
  <2>5. new[1] = data[1] /\ new[2] = data[2]
    BY <2>2, <2>4, DirectoryAssumption
  <2> QED
    BY <2>3, <2>5 DEF BeginsWithDots
<1>6. ASSUME Fine  PROVE Filled'
  <2> SUFFICES ASSUME NEW x \in SlotSet, NEW g, Held(x, g)', g.kind = "file",
                      NEW n, n = ContentNumber(g), NEW now, now = disk'[n]
               PROVE  now = FileData(n)
    BY DEF Filled
  <2>1. Held(x, g) /\ n \in DataEntries /\ mem[1][n] # AVAILABLE
    BY <1>2, <1>6
  <2>2. disk[n] = FileData(n) /\ CopyOf(disk[n], n)
    BY <1>1, <1>6, <2>1 DEF Content, Filled, CopyOf
  <2>3. \A s \in 1 .. Slots : FileData(n)[s].kind = "data"
    BY DEF FileData, Whole, Entry
  <2>4. ~ IsHead(n)
    BY <1>1, <1>6, <2>1, <2>2, <2>3, DirectoriesApart, DirectoryAssumption
  <2>5. CopyOf(now, n)'
    BY DEF CopyOf
  <2>6. PICK data : CopyOf(data, n) /\ \A s \in 1 .. Slots :
          now[s] = data[s] \/ data[s].kind = "free"
    BY <1>6, <2>1, <2>5 DEF NoNewEntries, Derived
  <2>7. data = FileData(n)
    BY <2>2, <2>4, <2>6 DEF CopyOf, IsHead
  <2>8. \A s \in 1 .. Slots : now[s] = FileData(n)[s]
    BY <2>3, <2>6, <2>7
  <2>9. now \in [1 .. Slots -> Cell] /\ FileData(n) \in [1 .. Slots -> Cell]
    BY <2>1, <2>2 DEF Shape, Clusters
  <2> DEFINE D == 1 .. Slots
  <2>10. /\ now \in [D -> Cell] /\ FileData(n) \in [D -> Cell]
         /\ \A s \in D : now[s] = FileData(n)[s]
    BY <2>8, <2>9
  <2> HIDE DEF D
  <2> QED
    BY <2>10, SameFunctions
<1> QED
  BY <1>3, <1>4, <1>5, <1>6 DEF Content

(* A list that is opened has what is on the device at its head.            *)
LEMMA OpenDirStep ==
  ASSUME Shape, NEW h \in Handles, NEW c \in Directories, OpenDir(h, c)
  PROVE  /\ list' \in [Handles -> Seq(Nodes)]
         /\ list'[h] # <<>> /\ list'[h][1].no = c /\ list'[h][1].data = disk[c]
         /\ Len(list'[h]) > 1 => IsValidCluster(mem[1][c])
         /\ \A g \in Handles : g # h => list'[g] = list[g]
         /\ mem' = mem /\ dfat' = dfat /\ disk' = disk /\ accepted' = accepted
         /\ failed' = failed /\ dangling' = dangling
         /\ ~ damaged /\ damaged' = ~ Made(c)
<1> DEFINE l == ReadClusters(mem[1], disk, c)
<1>1. c \in DataEntries /\ Reach(mem[1], c) \subseteq DataEntries
  BY DirectoryInUse
<1>2. disk \in [DataEntries -> [1 .. Slots -> Cell]]
  BY DEF Shape, Clusters
<1>3. l \in Seq(Nodes) /\ l # <<>> /\ l[1] = [no |-> c, data |-> disk[c]]
  BY <1>1, <1>2, ReadList
<1>4. Len(l) > 1 => IsValidCluster(mem[1][c])
  BY <1>1, <1>2, ReadList
<1>5. list \in [Handles -> Seq(Nodes)]
  BY DEF Shape, TypeOK
<1>6. /\ list' = [list EXCEPT ![h] = l]
      /\ mem' = mem /\ dfat' = dfat /\ disk' = disk /\ accepted' = accepted
      /\ failed' = failed /\ dangling' = dangling
      /\ ~ damaged /\ damaged' = ~ Made(c)
  BY DEF OpenDir
<1> HIDE DEF l
<1>7. /\ list' \in [Handles -> Seq(Nodes)] /\ list'[h] = l
      /\ \A g \in Handles : g # h => list'[g] = list[g]
  BY <1>3, <1>5, <1>6
<1> QED
  BY <1>3, <1>4, <1>6, <1>7

LEMMA OpenDirContent ==
  ASSUME Shape, Pools, Content, NEW h \in Handles, NEW c \in Directories, OpenDir(h, c)
  PROVE  Content'
<1>1. /\ list'[h] # <<>> /\ list'[h][1].no = c /\ list'[h][1].data = disk[c]
      /\ \A g \in Handles : g # h => list'[g] = list[g]
      /\ mem' = mem /\ dfat' = dfat /\ disk' = disk
      /\ failed' = failed /\ dangling' = dangling
      /\ ~ damaged /\ damaged' = ~ Made(c)
  BY OpenDirStep
<1>2. NoNewEntries
  BY <1>1, CopyIsDerived DEF NoNewEntries, CopyOf
<1>3. \A n \in DataEntries : IsHead(n)' =>
        (IsHead(n) \/ Made(n) \/ damaged') /\ mem[1][n] # AVAILABLE
  BY <1>1, DirectoryInUse DEF IsHead, Pools
<1>4. (Sound' => Sound) /\ disk' \in [DataEntries -> Clusters]
  BY <1>1 DEF Sound, Shape
<1>5. Sound' => Led'
  BY <1>1, <1>2, <1>4, HeldBefore DEF Content, Led
<1> QED
  BY <1>1, <1>2, <1>3, <1>4, <1>5, NoNewContent

LEMMA UpdateContent ==
  ASSUME Shape, Pools, Content, UpdateFatTable
  PROVE  Content'
<1>1. /\ mem' = mem /\ disk' = disk /\ list' = list
      /\ failed' = failed /\ dangling' = dangling /\ damaged' = damaged
      /\ dfat'[1] = mem[1]
  BY CopyOne DEF UpdateFatTable
<1>2. NoNewEntries
  BY <1>1, CopyIsDerived DEF NoNewEntries, CopyOf
<1>3. \A n \in DataEntries : IsHead(n)' =>
        (IsHead(n) \/ Made(n) \/ damaged') /\ mem[1][n] # AVAILABLE
  BY <1>1 DEF IsHead, Pools
<1>4. (Sound' => Sound) /\ disk' \in [DataEntries -> Clusters]
  BY <1>1 DEF Sound, Shape
<1>5. Sound' => Led'
  BY <1>1, <1>2, <1>4, HeldBefore DEF Content, Led
<1> QED
  BY <1>1, <1>2, <1>3, <1>4, <1>5, NoNewContent

(* Opened anew: the copies are those on the device, and no entry in them   *)
(* leads to a cluster that is free unless it is said so.                   *)
LEMMA ReopenedContent ==
  ASSUME Shape, Pools, Content, NEW d \in [DataEntries -> Clusters], Reopened(d),
         \A n \in DataEntries :
           \/ Derived(d[n], n)
           \/ mem[1][n] = AVAILABLE /\ \A s \in 1 .. Slots : ~ IsEntry(d[n][s])
           \/ \E s \in 1 .. Slots : LeadsToFree(dfat[1], d[n][s])
  PROVE  Content'
<1>1. /\ disk' = d /\ mem' = dfat /\ dfat' = dfat /\ failed' = failed
      /\ damaged' = damaged
      /\ dangling => dangling'
      /\ \A h \in Handles : list'[h] = <<>>
  BY DEF Reopened
<1>2. ASSUME Sound', NEW n \in DataEntries, NEW s \in 1 .. Slots, IsEntry(d[n][s])
      PROVE  ContentNumber(d[n][s]) \notin FreeEntries(dfat[1])
  BY <1>2 DEF Reopened, LeadsToFree, Sound
<1>3. ASSUME Sound'  PROVE NoNewEntries
  <2> SUFFICES ASSUME NEW n \in DataEntries, NEW new, CopyOf(new, n)'
               PROVE  \/ Derived(new, n)
                      \/ mem[1][n] = AVAILABLE /\ \A s \in 1 .. Slots : ~ IsEntry(new[s])
    BY DEF NoNewEntries
  <2>1. new = d[n]
    BY <1>1 DEF CopyOf
  <2> QED
    BY <1>2, <1>3, <2>1 DEF LeadsToFree
<1>4. \A n \in DataEntries : IsHead(n)' =>
        (IsHead(n) \/ Made(n) \/ damaged') /\ mem[1][n] # AVAILABLE
  BY <1>1 DEF IsHead, Pools
<1>5. (Sound' => Sound) /\ disk' \in [DataEntries -> Clusters]
  BY <1>1 DEF Sound
<1>6. ASSUME Sound'  PROVE Led'
  <2> SUFFICES ASSUME NEW x \in SlotSet, NEW g, Held(x, g)'
               PROVE  /\ ContentNumber(g) \in DataEntries
                      /\ dfat[1][ContentNumber(g)] # AVAILABLE
                      /\ dfat[1][x[1]] # AVAILABLE
    BY <1>1 DEF Led
  <2>1. x[1] \in DataEntries /\ x[2] \in 1 .. Slots
    BY DEF SlotSet
  <2>2. Held(x, g)
    BY <1>3, <1>6, HeldBefore
  <2>3. /\ ContentNumber(g) \in DataEntries
        /\ dfat[1][x[1]] = AVAILABLE => dfat[1][ContentNumber(g)] = AVAILABLE
    BY <1>5, <1>6, <2>2 DEF Content, Led
  <2>4. d[x[1]][x[2]] = g /\ IsEntry(g)
    BY <1>1 DEF Held, CopyOf
  <2>5. ContentNumber(g) \notin FreeEntries(dfat[1])
    BY <1>2, <1>6, <2>1, <2>4
  <2> QED
    BY <2>3, <2>5 DEF FreeEntries
<1> QED
  BY <1>1, <1>3, <1>4, <1>5, <1>6, NoNewContent

----------------------------------------------------------------------------
(***************************************************************************)
(* The part of the invariant that does not depend on what is in the        *)
(* clusters.                                                               *)
(***************************************************************************)
Base == Shape /\ (~ damaged => Pools /\ Long)

LEMMA ShapeAfter ==
  ASSUME mem' \in [Copies -> Tables], dfat' \in [Copies -> Tables],
         disk' \in [DataEntries -> Clusters], list' \in [Handles -> Seq(Nodes)],
         accepted' = NoEntry
           \/ (accepted'.dir \in DataEntries /\ accepted'.entry.kind \in Kinds),
         failed' \in BOOLEAN, dangling' \in BOOLEAN, damaged' \in BOOLEAN
  PROVE  Shape'
<1>1. \A c \in DataEntries : [no |-> c, data |-> disk'[c]] \in Nodes
  BY DEF Nodes, Contents, Clusters, Cell
<1> QED
  BY <1>1 DEF Shape, TypeOK

LEMMA GrownPools ==
  ASSUME Shape, Pools, NEW f, Grown(f), dfat' = dfat,
         \A h \in Handles : list'[h] # <<>> =>
           list[h] # <<>> /\ list'[h][1].no = list[h][1].no
  PROVE  Pools'
<1>1. \A k \in Entries : mem[1][k] # AVAILABLE => mem'[1][k] # AVAILABLE
  BY DEF Grown
<1>2. {0, 1, 2} \subseteq Entries
  BY TableAssumption DEF Entries
<1>3. FreeEntries(mem'[1]) \subseteq FreeEntries(mem[1])
  BY <1>1, EntryNumbers DEF FreeEntries
<1> QED
  BY <1>1, <1>2, <1>3, ListHeads DEF Pools

LEMMA NormDirBase ==
  ASSUME Base, NEW h \in Handles, NEW a \in BOOLEAN, NEW b \in BOOLEAN,
         InsertNormDir(h, a, b)
  PROVE  Base'
<1> DEFINE f == FirstFree(mem[1])
           m == list[h][1].no
           e == NormDirEntry(f)
<1>0. ~ damaged /\ Shape /\ Pools /\ Long
  BY DEF Base, InsertNormDir
<1>1. /\ list[h] # <<>> /\ m \in DataEntries /\ e \in Cell
      /\ Grown(f) /\ Long'
      /\ list' \in [Handles -> Seq(Nodes)]
      /\ list'[h] # <<>> /\ list'[h][1].no = m
      /\ \A g \in Handles : g # h => list'[g] = list[g]
      /\ disk' \in [DataEntries -> Clusters]
      /\ accepted' = [dir |-> m, entry |-> e]
      /\ failed' = (failed \/ ~ a \/ ~ b)
      /\ dfat' = dfat /\ dangling' = dangling /\ damaged' = damaged
  BY <1>0, NormDirStep
<1> HIDE DEF f, m, e
<1>2. m = list[h][1].no
  BY DEF m
<1>3. Pools'
  <2>1. \A g \in Handles : list'[g] # <<>> =>
          list[g] # <<>> /\ list'[g][1].no = list[g][1].no
    BY <1>1, <1>2
  <2> QED
    BY <1>0, <1>1, <2>1, GrownPools
<1>4. Shape'
  <2>1. mem' \in [Copies -> Tables]
    BY <1>1 DEF Grown
  <2>2. accepted'.dir \in DataEntries /\ accepted'.entry.kind \in Kinds
    BY <1>1, AcceptedType
  <2>3. /\ dfat \in [Copies -> Tables] /\ failed \in BOOLEAN /\ dangling \in BOOLEAN
        /\ damaged \in BOOLEAN
    BY DEF Base, Shape, TypeOK
  <2>4. failed' \in BOOLEAN
    BY <1>1
  <2> QED
    BY <1>1, <2>1, <2>2, <2>3, <2>4, ShapeAfter
<1> QED
  BY <1>1, <1>3, <1>4 DEF Base

LEMMA FileBase ==
  ASSUME Base, NEW c \in Directories, NEW a \in BOOLEAN, NEW b \in BOOLEAN,
         InsertFile(c, a, b)
  PROVE  Base'
<1> DEFINE f == FirstFree(mem[1])
           e == FileEntry(f)
<1>0. Shape /\ Pools /\ Long
  BY DEF Base, InsertFile
<1>1. /\ c \in DataEntries /\ e \in Cell
      /\ mem' \in [Copies -> Tables]
      /\ damaged' \in BOOLEAN
      /\ ~ damaged' => Grown(f) /\ Long'
      /\ list' = list
      /\ disk' \in [DataEntries -> Clusters]
      /\ accepted' = [dir |-> c, entry |-> e]
      /\ failed' = (failed \/ ~ a \/ ~ b)
      /\ dfat' = dfat /\ dangling' = dangling
  BY <1>0, FileStep
<1> HIDE DEF f, e
<1>2. ~ damaged' => Pools'
  BY <1>0, <1>1, GrownPools
<1>3. Shape'
  <2>1. mem' \in [Copies -> Tables]
    BY <1>1
  <2>2. accepted'.dir \in DataEntries /\ accepted'.entry.kind \in Kinds
    BY <1>1, AcceptedType
  <2>3. /\ dfat \in [Copies -> Tables] /\ failed \in BOOLEAN /\ dangling \in BOOLEAN
        /\ list \in [Handles -> Seq(Nodes)]
    BY DEF Base, Shape, TypeOK
  <2>4. failed' \in BOOLEAN
    BY <1>1
  <2> QED
    BY <1>1, <2>1, <2>2, <2>3, <2>4, ShapeAfter
<1> QED
  BY <1>1, <1>2, <1>3 DEF Base

LEMMA OpenDirBase ==
  ASSUME Base, NEW h \in Handles, NEW c \in Directories, OpenDir(h, c)
  PROVE  Base'
<1>1. /\ list' \in [Handles -> Seq(Nodes)]
      /\ list'[h] # <<>> /\ list'[h][1].no = c
      /\ Len(list'[h]) > 1 => IsValidCluster(mem[1][c])
      /\ \A g \in Handles : g # h => list'[g] = list[g]
      /\ mem' = mem /\ dfat' = dfat /\ disk' = disk /\ accepted' = accepted
      /\ failed' = failed /\ dangling' = dangling
      /\ ~ damaged /\ damaged' = ~ Made(c)
  BY OpenDirStep DEF Base
<1>2. mem[1][c] # AVAILABLE
  BY DirectoryInUse
<1>3. Pools'
  BY <1>1, <1>2 DEF Base, Pools
<1>4. Long'
  BY <1>1 DEF Base, Long
<1>5. Shape'
  <2>1. damaged' \in BOOLEAN
    BY <1>1
  <2> QED
    BY <1>1, <2>1 DEF Base, Shape, TypeOK
<1> QED
  BY <1>3, <1>4, <1>5 DEF Base

LEMMA UpdateBase ==
  ASSUME Base, UpdateFatTable
  PROVE  Base'
<1>1. /\ dfat' = [j \in Copies |-> mem[1]]
      /\ mem' = mem /\ disk' = disk /\ list' = list /\ accepted' = accepted
      /\ failed' = failed /\ dangling' = dangling
      /\ ~ damaged /\ damaged' = damaged
  BY DEF UpdateFatTable
<1>2. mem[1] \in Tables /\ dfat' \in [Copies -> Tables] /\ dfat'[1] = mem[1]
  BY <1>1, CopyOne DEF Base, Shape, TypeOK
<1>3. Shape'
  BY <1>1, <1>2 DEF Base, Shape, TypeOK
<1>4. Pools' /\ Long'
  BY <1>1, <1>2 DEF Base, Pools, Long
<1> QED
  BY <1>3, <1>4 DEF Base

LEMMA ReopenedBase ==
  ASSUME Base, NEW d \in [DataEntries -> Clusters], Reopened(d)
  PROVE  Base'
<1>1. /\ disk' = d /\ mem' = dfat /\ dfat' = dfat /\ failed' = failed
      /\ accepted' = NoEntry
      /\ list' = [h \in Handles |-> <<>>]
      /\ dangling' \in BOOLEAN
      /\ ~ damaged /\ damaged' = damaged
  BY DEF Reopened, Base, Shape, TypeOK
<1>2. /\ list' \in [Handles -> Seq(Nodes)]
      /\ \A h \in Handles : list'[h] = <<>>
  BY <1>1
<1>3. dfat \in [Copies -> Tables] /\ failed \in BOOLEAN /\ damaged' \in BOOLEAN
  BY <1>1 DEF Base, Shape, TypeOK
<1>4. Shape'
  BY <1>1, <1>2, <1>3, ShapeAfter
<1>5. Pools'
  BY <1>1, <1>2 DEF Base, Pools
<1>6. Long'
  <2>1. Len(<<>>) = 0
    OBVIOUS
  <2> QED
    BY <1>2, <2>1 DEF Long
<1> QED
  BY <1>4, <1>5, <1>6 DEF Base

(* What is on the device when the program dies before the dot entries are  *)
(* written: the parent as it was, or as it was when the list was read, or  *)
(* with an entry that leads to a cluster that is still free there.         *)
LEMMA DiesStep ==
  ASSUME Base, NEW h \in Handles, DiesBeforeDots(h)
  PROVE  \E d \in [DataEntries -> Clusters] :
           /\ Reopened(d)
           /\ \A n \in DataEntries : n # list[h][1].no => d[n] = disk[n]
           /\ \E s \in 1 .. Slots :
                PutAt(list[h][1].data, d[list[h][1].no],
                      NormDirEntry(FirstFree(mem[1])), s)
           /\ list[h] # <<>> /\ HasFree(mem[1])
<1> DEFINE m == list[h][1].no
           e == NormDirEntry(FirstFree(mem[1]))
           l == PlacedList(mem, list[h], e)
           d == WriteHead(disk, l, TRUE)
<1>1. list[h] # <<>> /\ HasFree(mem[1]) /\ Reopened(d)
  BY DEF DiesBeforeDots
<1>2. list[h] \in Seq(Nodes) /\ m \in DataEntries
  BY <1>1, ListHeads DEF Base
<1>3. e \in Cell
  <2>1. FirstFree(mem[1]) \in Nat
    BY <1>1, FirstFreeIsFree, EntryNumbers DEF FreeEntries
  <2> QED
    BY <2>1, MadeEntries
<1>4. /\ l[1] \in Nodes /\ l[1].no = m
      /\ \E s \in 1 .. Slots : PutAt(list[h][1].data, l[1].data, e, s)
  <2>1. HasPlaced(mem, list[h], l, e)
    BY <1>1, <1>2, <1>3, PlacedHead
  <2> QED
    BY <2>1 DEF HasPlaced
<1>5. disk \in [DataEntries -> Clusters] /\ l[1].data \in Clusters
  BY <1>4 DEF Base, Shape, Nodes, Contents, Clusters, Cell
<1> HIDE DEF l
<1>6. /\ d \in [DataEntries -> Clusters] /\ d[m] = l[1].data
      /\ \A n \in DataEntries : n # m => d[n] = disk[n]
  BY <1>2, <1>4, <1>5 DEF WriteHead
<1> QED
  BY <1>1, <1>4, <1>6

LEMMA DiesContent ==
  ASSUME Base, Content, NEW h \in Handles, DiesBeforeDots(h)
  PROVE  Content'
<1> DEFINE m == list[h][1].no
           f == FirstFree(mem[1])
           e == NormDirEntry(f)
<1>1. PICK d \in [DataEntries -> Clusters] :
        /\ Reopened(d)
        /\ \A n \in DataEntries : n # m => d[n] = disk[n]
        /\ \E s \in 1 .. Slots : PutAt(list[h][1].data, d[m], e, s)
        /\ list[h] # <<>> /\ HasFree(mem[1])
  BY DiesStep
<1>2. Shape /\ Pools
  BY <1>1 DEF Base, Reopened
<1>3. f \in FreeEntries(dfat[1]) /\ f \in Nat
  BY <1>1, <1>2, FirstFreeIsFree, EntryNumbers DEF Pools, FreeEntries
<1>4. e.kind # "data" /\ (IsEntry(e) => ContentNumber(e) = f)
  BY <1>3, MadeEntries, NumbersRead
<1>5. list[h][1].data \in Clusters
  BY <1>1, <1>2, ListHeads
<1> HIDE DEF f, e
<1> SUFFICES ASSUME NEW n \in DataEntries
             PROVE  \/ Derived(d[n], n)
                    \/ \E s \in 1 .. Slots : LeadsToFree(dfat[1], d[n][s])
  BY <1>1, <1>2, ReopenedContent
<1>6. CASE n # m
  BY <1>1, <1>6, CopyIsDerived DEF CopyOf
<1>7. CASE n = m
  <2> DEFINE data == list[h][1].data
  <2>1. PICK s \in 1 .. Slots : PutAt(data, d[m], e, s)
    BY <1>1
  <2>2. CopyOf(data, n)
    BY <1>1, <1>7 DEF CopyOf
  <2>3. CASE d[n] = data
    BY <2>2, <2>3, CopyIsDerived
  <2>4. CASE d[n] # data
    <3>1. data[s].kind = "free" /\ d[n] = [data EXCEPT ![s] = e]
      BY <1>7, <2>1, <2>4 DEF PutAt
    <3>2. \A r \in 1 .. Slots : d[n][r] = IF r = s THEN e ELSE data[r]
      BY <1>5, <3>1 DEF Clusters
    <3>3. CASE IsEntry(e)
      <4>1. LeadsToFree(dfat[1], d[n][s])
        BY <1>3, <1>4, <3>2, <3>3 DEF LeadsToFree
      <4> QED
        BY <4>1
    <3>4. CASE ~ IsEntry(e)
      BY <1>4, <2>2, <3>1, <3>2, <3>4 DEF Derived
    <3> QED
      BY <3>3, <3>4
  <2> QED
    BY <2>3, <2>4
<1> QED
  BY <1>6, <1>7

(* And when it dies before the entry of a file is placed: the data, in a   *)
(* cluster that is free.                                                   *)
LEMMA DiesEarlyStep ==
  ASSUME Base, DiesBeforeEntry
  PROVE  \E d \in [DataEntries -> Clusters] : \E f \in DataEntries :
           /\ Reopened(d)
           /\ mem[1][f] = AVAILABLE /\ d[f] = FileData(f)
           /\ \A n \in DataEntries : n # f => d[n] = disk[n]
<1> DEFINE f == FirstFree(mem[1])
           d == WriteData(disk, f, TRUE)
<1>1. CheckFreeClusters(mem[1], 1) /\ Reopened(d)
  BY DEF DiesBeforeEntry
<1>2. Pools /\ disk \in [DataEntries -> Clusters]
  BY <1>1 DEF Base, Reopened, Shape
<1>3. HasFree(mem[1])
  BY <1>1, <1>2, CheckedHasFree DEF Pools
<1>4. f \in DataEntries /\ f \in Nat /\ mem[1][f] = AVAILABLE
  BY <1>3, FirstFreeIsFree, EntryNumbers DEF FreeEntries
<1> HIDE DEF f
<1>5. /\ d \in [DataEntries -> Clusters] /\ d[f] = FileData(f)
      /\ \A n \in DataEntries : n # f => d[n] = disk[n]
  BY <1>2, <1>4, EmptyClusters DEF WriteData
<1> QED
  BY <1>1, <1>4, <1>5

LEMMA DiesEarlyContent ==
  ASSUME Base, Content, DiesBeforeEntry
  PROVE  Content'
<1>1. PICK d \in [DataEntries -> Clusters], f \in DataEntries :
        /\ Reopened(d)
        /\ mem[1][f] = AVAILABLE /\ d[f] = FileData(f)
        /\ \A n \in DataEntries : n # f => d[n] = disk[n]
  BY DiesEarlyStep
<1>2. Shape /\ Pools
  BY <1>1 DEF Base, Reopened
<1>3. \A s \in 1 .. Slots : ~ IsEntry(FileData(f)[s])
  BY DEF FileData, Whole, Entry, IsEntry
<1>4. \A n \in DataEntries :
        \/ Derived(d[n], n)
        \/ mem[1][n] = AVAILABLE /\ \A s \in 1 .. Slots : ~ IsEntry(d[n][s])
  BY <1>1, <1>3, CopyIsDerived DEF CopyOf
<1> QED
  BY <1>1, <1>2, <1>4, ReopenedContent

LEMMA BaseInit == Init => Base
<1> SUFFICES ASSUME Init  PROVE Base
  OBVIOUS
<1>1. PICK t \in InitialTables, old \in [DataEntries -> Leftovers] :
        /\ mem = [j \in Copies |-> t]
        /\ dfat = mem
        /\ disk = [c \in DataEntries |->
                     IF c \in Reach(t, 2) THEN NoEntries ELSE old[c]]
  BY DEF Init
<1>2. /\ list = [h \in Handles |-> <<>>] /\ accepted = NoEntry
      /\ failed = FALSE /\ dangling = FALSE /\ damaged = FALSE
  BY DEF Init
<1>3. t \in Tables /\ t[0] # AVAILABLE /\ t[1] # AVAILABLE /\ Reach(t, 2) \subseteq DataEntries
  BY DirectoryAssumption DEF WellFormed
<1>4. 2 \in Entries
  BY TableAssumption DEF Entries
<1>5. t[2] # AVAILABLE
  BY <1>3, <1>4, ReachInData
<1>6. mem \in [Copies -> Tables] /\ dfat \in [Copies -> Tables] /\ mem[1] = t /\ dfat[1] = t
  BY <1>1, <1>3, CopyOne
<1>7. disk \in [DataEntries -> Clusters]
  <2>1. Leftovers \subseteq Clusters
    BY DirectoryAssumption DEF Contents, Clusters, Cell
  <2> QED
    BY <1>1, <2>1, EmptyClusters
<1>8. list \in [Handles -> Seq(Nodes)] /\ \A h \in Handles : list[h] = <<>>
  BY <1>2
<1>9. Shape
  <2>1. \A c \in DataEntries : [no |-> c, data |-> disk[c]] \in Nodes
    BY <1>7 DEF Nodes, Contents, Clusters, Cell
  <2> QED
    BY <1>2, <1>6, <1>7, <1>8, <2>1 DEF Shape, TypeOK
<1>10. Pools
  BY <1>3, <1>5, <1>6, <1>8 DEF Pools
<1>11. Long
  <2>1. Len(<<>>) = 0
    OBVIOUS
  <2> QED
    BY <1>8, <2>1 DEF Long
<1> QED
  BY <1>9, <1>10, <1>11 DEF Base

LEMMA BaseNext == Base /\ [Next]_vars => Base'
<1> SUFFICES ASSUME Base, [Next]_vars  PROVE Base'
  OBVIOUS
<1>1. ASSUME NEW h \in Handles, NEW c \in Directories, OpenDir(h, c)  PROVE Base'
  BY <1>1, OpenDirBase
<1>2. ASSUME NEW h \in Handles, NEW a \in BOOLEAN, NEW b \in BOOLEAN,
             InsertNormDir(h, a, b)
      PROVE  Base'
  BY <1>2, NormDirBase
<1>3. ASSUME NEW c \in Directories, NEW a \in BOOLEAN, NEW b \in BOOLEAN,
             InsertFile(c, a, b)
      PROVE  Base'
  BY <1>3, FileBase
<1>4. CASE PlaceAstray
  BY <1>4 DEF PlaceAstray, Base, Shape, TypeOK
<1>5. CASE UpdateFatTable
  BY <1>5, UpdateBase
<1>6. CASE Remount
  BY <1>6, ReopenedBase DEF Remount, Base, Shape
<1>7. ASSUME NEW h \in Handles, DiesBeforeDots(h)  PROVE Base'
  BY <1>7, DiesStep, ReopenedBase
<1>8. CASE DiesBeforeEntry
  BY <1>8, DiesEarlyStep, ReopenedBase
<1>9. CASE UNCHANGED vars
  BY <1>9 DEF vars, Base, Shape, TypeOK, Pools, Long
<1> QED
  BY <1>1, <1>2, <1>3, <1>4, <1>5, <1>6, <1>7, <1>8, <1>9 DEF Next

LEMMA ContentInit == Init => Content
<1> SUFFICES ASSUME Init  PROVE Content
  OBVIOUS
<1>1. PICK t \in InitialTables, old \in [DataEntries -> Leftovers] :
        disk = [c \in DataEntries |->
                  IF c \in Reach(t, 2) THEN NoEntries ELSE old[c]]
  BY DEF Init
<1>2. list = [h \in Handles |-> <<>>]
  BY DEF Init
<1>3. \A n, data : CopyOf(data, n) => data = disk[n]
  BY <1>2 DEF CopyOf
<1>4. \A s \in 1 .. Slots :
        ~ IsEntry(NoEntries[s]) /\ \A c \in DataEntries : ~ IsEntry(old[c][s])
  BY DirectoryAssumption DEF NoEntries, Whole, Entry, IsEntry
<1>5. \A x \in SlotSet : \A e : ~ Held(x, e)
  <2> SUFFICES ASSUME NEW x \in SlotSet, NEW e, Held(x, e)  PROVE FALSE
    OBVIOUS
  <2>1. x[1] \in DataEntries /\ x[2] \in 1 .. Slots
    BY DEF SlotSet
  <2>2. IsEntry(disk[x[1]][x[2]])
    BY <1>3 DEF Held
  <2> QED
    BY <1>1, <1>4, <2>1, <2>2
<1>6. Apart
  <2> SUFFICES ASSUME NEW n \in DataEntries, NEW data, IsHead(n), CopyOf(data, n)
               PROVE  data[1].kind # "data"
    BY DEF Apart
  <2>1. n = 2
    BY <1>2 DEF IsHead
  <2>2. 2 \in Entries /\ Reach(t, 2) \subseteq DataEntries
    BY DirectoryAssumption, TableAssumption DEF Entries
  <2>3. 2 \in Reach(t, 2)
    BY <2>2, ReachInData
  <2>4. data = NoEntries
    BY <1>1, <1>3, <2>1, <2>3
  <2> QED
    BY <2>4, DirectoryAssumption DEF NoEntries, Whole, Entry
<1>7. Led /\ Once /\ Dotted /\ Filled
  BY <1>5 DEF Led, Once, Dotted, Filled
<1> QED
  BY <1>6, <1>7 DEF Content

LEMMA ContentNext ==
  ASSUME Base, Content, [Next]_vars
  PROVE  Content'
<1>1. ASSUME NEW h \in Handles, NEW c \in Directories, OpenDir(h, c)  PROVE Content'
  BY <1>1, OpenDirContent DEF Base, OpenDir
<1>2. ASSUME NEW h \in Handles, NEW a \in BOOLEAN, NEW b \in BOOLEAN,
             InsertNormDir(h, a, b)
      PROVE  Content'
  <2>1. Shape /\ Pools /\ Long
    BY <1>2 DEF Base, InsertNormDir
  <2> QED
    BY <1>2, <2>1, NormDirInserted, InsertedContent
<1>3. ASSUME NEW c \in Directories, NEW a \in BOOLEAN, NEW b \in BOOLEAN,
             InsertFile(c, a, b)
      PROVE  Content'
  <2>1. Shape /\ Pools /\ Long
    BY <1>3 DEF Base, InsertFile
  <2>2. CASE damaged'
    BY <2>2 DEF Content, Sound
  <2>3. CASE ~ damaged'
    BY <1>3, <2>1, <2>3, FileInserted, InsertedContent
  <2> QED
    BY <2>2, <2>3
<1>4. CASE PlaceAstray
  BY <1>4 DEF PlaceAstray, Content, Sound
<1>5. CASE UpdateFatTable
  BY <1>5, UpdateContent DEF Base, UpdateFatTable
<1>6. CASE Remount
  <2>1. \A n \in DataEntries : Derived(disk[n], n)
    BY CopyIsDerived DEF CopyOf
  <2> QED
    BY <1>6, <2>1, ReopenedContent DEF Remount, Reopened, Base, Shape
<1>7. ASSUME NEW h \in Handles, DiesBeforeDots(h)  PROVE Content'
  BY <1>7, DiesContent
<1>8. CASE DiesBeforeEntry
  BY <1>8, DiesEarlyContent
<1>9. CASE UNCHANGED vars
  BY <1>9 DEF vars, Content, Sound, Led, Once, Dotted, Filled, Apart, Held, CopyOf,
              IsHead, BeginsWithDots
<1> QED
  BY <1>1, <1>2, <1>3, <1>4, <1>5, <1>6, <1>7, <1>8, <1>9 DEF Next

----------------------------------------------------------------------------
(* The lists, the clusters and the tables keep their types, whatever is    *)
(* inserted, however the writes fail and whenever the program dies: an     *)
(* insertion that finds a free cluster finds one that is there.            *)
THEOREM TypeCorrect == Spec => []TypeOK
<1>1. Base => TypeOK
  BY DEF Base, Shape
<1> QED
  BY <1>1, BaseInit, BaseNext, PTL DEF Spec

(* What the four theorems about contents rest on: until the program is     *)
(* damaged or a restart finds an entry whose cluster is free, whatever an  *)
(* entry that fits leads to is in use, by it alone; and until a write fails*)
(* it is what was made for the entry, also in the copies on lists.         *)
THEOREM ContentInvariant == Spec => [](Base /\ Content)
<1>1. Base /\ Content /\ [Next]_vars => Base' /\ Content'
  BY BaseNext, ContentNext
<1> QED
  BY <1>1, BaseInit, ContentInit, PTL DEF Spec

LEMMA OnDeviceHeld ==
  ASSUME NEW x \in SlotSet, IsEntry(At(disk, x))
  PROVE  Held(x, At(disk, x)) /\ CopyOf(disk[ContentNumber(At(disk, x))],
                                        ContentNumber(At(disk, x)))
BY DEF Held, CopyOf, At

(* No two entries whose numbers fit lead to the same cluster, through      *)
(* however many outdated lists they were placed and whatever writes fail,  *)
(* until a restart meets an entry whose cluster the table on the device    *)
(* has as free, or the program is damaged.                                 *)
THEOREM EntriesDistinct == Spec => []OneEntryPerCluster
<1>1. Content => OneEntryPerCluster
  BY OnDeviceHeld DEF Content, Sound, Once, OneEntryPerCluster
<1>2. Spec => [](Base /\ Content)
  BY ContentInvariant
<1> QED
  BY <1>1, <1>2, PTL

(* An entry of a directory whose number fits 16 bits leads to a cluster    *)
(* that begins with the dot entries of that directory and leads back to    *)
(* its parent, until a write fails, a restart meets an entry whose cluster *)
(* is free, or the program is damaged: an entry that comes back through an *)
(* outdated list finds its directory as it was made.                       *)
THEOREM TreeLinked == Spec => []DirectoriesLinked
<1>1. Content => DirectoriesLinked
  <2> SUFFICES ASSUME Content, ~ failed, Sound,
                      NEW x \in SlotSet, At(disk, x).kind = "dir"
               PROVE  LET n == ContentNumber(At(disk, x))
                      IN  n \in DataEntries /\ BeginsWithDots(disk[n], n, x[1])
    BY DEF DirectoriesLinked, BeginsWithDots, Sound
  <2>1. IsEntry(At(disk, x))
    BY DEF IsEntry
  <2> QED
    BY <2>1, OnDeviceHeld DEF Content, Led, Dotted
<1>2. Spec => [](Base /\ Content)
  BY ContentInvariant
<1> QED
  BY <1>1, <1>2, PTL

(* An entry of a file whose number fits 8 bits leads to the data of that   *)
(* file, under the same conditions: no insertion writes over them.         *)
THEOREM FilesKept == Spec => []FilesIntact
<1>1. Content => FilesIntact
  <2> SUFFICES ASSUME Content, ~ failed, Sound,
                      NEW x \in SlotSet, At(disk, x).kind = "file"
               PROVE  LET n == ContentNumber(At(disk, x))
                      IN  n \in DataEntries /\ disk[n] = FileData(n)
    BY DEF FilesIntact, Sound
  <2>1. IsEntry(At(disk, x))
    BY DEF IsEntry
  <2> QED
    BY <2>1, OnDeviceHeld DEF Content, Led, Filled
<1>2. Spec => [](Base /\ Content)
  BY ContentInvariant
<1> QED
  BY <1>1, <1>2, PTL

----------------------------------------------------------------------------
(***************************************************************************)
(* What a step may not do.                                                 *)
(***************************************************************************)
(* The only steps that can set dangling are those that open the volume     *)
(* anew; with the table saved, all that is on the device led to clusters   *)
(* in use there.                                                           *)
LEMMA ReopenedDangles ==
  ASSUME Base, Content, NEW d, Reopened(d), ~ dangling, mem[1] = dfat[1], d = disk
  PROVE  ~ dangling'
<1>0. Sound
  BY DEF Sound, Reopened
<1> SUFFICES ASSUME NEW c \in DataEntries, NEW s \in 1 .. Slots,
                    IsEntry(disk[c][s])
             PROVE  ContentNumber(disk[c][s]) \notin FreeEntries(dfat[1])
  BY DEF Reopened, LeadsToFree
<1> DEFINE x == <<c, s>>
<1>1. x \in SlotSet /\ At(disk, x) = disk[c][s]
  BY DEF SlotSet, At
<1>2. Held(x, disk[c][s])
  BY <1>1, OnDeviceHeld
<1> QED
  BY <1>0, <1>1, <1>2 DEF Content, Led, FreeEntries

(* One update of the table is enough for everything inserted by then, in   *)
(* whatever order and through whatever lists: a program that dies after it *)
(* and before the next insertion leaves no entry that leads to a free      *)
(* cluster, as far as the numbers fit.                                     *)
THEOREM SavedIsSafe == Spec => SavedSurvives
<1>1. ASSUME Base, Content, [Next]_vars, dangling' # dangling, mem[1] = dfat[1]
      PROVE  disk' # disk
  <2> SUFFICES ASSUME NEW d, Reopened(d)  PROVE d # disk
    BY <1>1 DEF vars, Next, OpenDir, InsertNormDir, InsertFile, PlaceAstray,
                UpdateFatTable, Remount, DiesBeforeDots, DiesBeforeEntry, Reopened
  <2>1. ~ dangling
    BY <1>1 DEF Base, Shape, TypeOK, Reopened
  <2> QED
    BY <1>1, <2>1, ReopenedDangles DEF Base, Shape, TypeOK, Reopened
<1>2. Base /\ Content /\ [Next]_vars =>
        [dangling' # dangling => mem[1] # dfat[1] \/ disk' # disk]_vars
  BY <1>1
<1>3. Spec => [](Base /\ Content)
  BY ContentInvariant
<1> QED
  BY <1>2, <1>3, PTL DEF Spec, SavedSurvives

(* What is placed in a cluster, or what comes back to it from an outdated  *)
(* list, leaves every entry it finds in place.                             *)
LEMMA PutKeeps ==
  ASSUME NEW old \in Clusters, NEW new, NEW e, NEW s, PutAt(old, new, e, s),
         NEW r \in 1 .. Slots, IsEntry(old[r])
  PROVE  new[r] = old[r]
BY DEF PutAt, Clusters, IsEntry

(* An entry on the device is changed by no step but an insertion into its  *)
(* directory through a list whose first cluster was read before it was     *)
(* last written: insertions of files never lose an entry.                  *)
THEOREM NothingElseLost == Spec => EntriesKept
<1>1. ASSUME Base, Content, [Next]_vars, ~ dangling, NEW x \in SlotSet,
             IsEntry(At(disk, x)), At(disk', x) # At(disk, x)
      PROVE  Outdated(x[1])
  <2>1. /\ x[1] \in DataEntries /\ x[2] \in 1 .. Slots
        /\ IsEntry(disk[x[1]][x[2]]) /\ disk'[x[1]][x[2]] # disk[x[1]][x[2]]
    BY <1>1 DEF SlotSet, At
  <2>0. ~ damaged /\ Shape /\ Pools /\ Long
    <3>1. ~ damaged
      BY <1>1, <2>1 DEF Next, OpenDir, InsertNormDir, InsertFile, PlaceAstray,
                        UpdateFatTable, Remount, DiesBeforeDots, DiesBeforeEntry,
                        Reopened, vars
    <3> QED
      BY <1>1, <3>1 DEF Base
  <2>2. mem[1][x[1]] # AVAILABLE
    BY <1>1, <2>0, OnDeviceHeld DEF Content, Sound, Led
  <2>3. disk[x[1]] \in Clusters /\ disk'[x[1]] # disk[x[1]]
    BY <1>1, <2>1 DEF Base, Shape
  <2>4. ASSUME NEW h \in Handles, list[h] # <<>>, list[h][1].no = x[1],
               NEW e, NEW s, PutAt(list[h][1].data, disk'[x[1]], e, s)
        PROVE  Outdated(x[1])
    <3>1. list[h][1].data # disk[x[1]]
      BY <2>1, <2>3, <2>4, PutKeeps
    <3> QED
      BY <2>4, <3>1 DEF Outdated
  <2>5. ASSUME NEW h \in Handles, NEW a \in BOOLEAN, NEW b \in BOOLEAN,
               InsertNormDir(h, a, b)
        PROVE  Outdated(x[1])
    <3> DEFINE f == FirstFree(mem[1])
               m == list[h][1].no
               e == NormDirEntry(f)
    <3>1. /\ list[h] # <<>> /\ mem[1][f] = AVAILABLE
          /\ \E s \in 1 .. Slots : PutAt(list[h][1].data, list'[h][1].data, e, s)
          /\ disk'[m] = IF a THEN list'[h][1].data ELSE disk[m]
          /\ \A n \in DataEntries : n # m /\ n # f => disk'[n] = disk[n]
      BY <2>0, <2>5, NormDirStep
    <3> HIDE DEF f, e
    <3>2. x[1] = m /\ disk'[m] = list'[h][1].data
      BY <2>1, <2>2, <2>3, <3>1
    <3> QED
      BY <2>4, <3>1, <3>2
  <2>6. ASSUME NEW c \in Directories, NEW a \in BOOLEAN, NEW b \in BOOLEAN,
               InsertFile(c, a, b)
        PROVE  FALSE
    <3> DEFINE f == FirstFree(mem[1])
               e == FileEntry(f)
    <3>1. /\ mem[1][f] = AVAILABLE
          /\ \E data \in Clusters :
               /\ \E s \in 1 .. Slots : PutAt(disk[c], data, e, s)
               /\ disk'[c] = IF b THEN data ELSE disk[c]
          /\ \A n \in DataEntries : n # c /\ n # f => disk'[n] = disk[n]
      BY <2>0, <2>6, FileStep
    <3> HIDE DEF f, e
    <3>2. x[1] = c
      BY <2>1, <2>2, <2>3, <3>1
    <3>3. PICK s \in 1 .. Slots : PutAt(disk[c], disk'[c], e, s)
      BY <2>3, <3>1, <3>2
    <3> QED
      BY <2>1, <2>3, <3>2, <3>3, PutKeeps
  <2>7. ASSUME NEW h \in Handles, DiesBeforeDots(h)
        PROVE  Outdated(x[1])
    <3>1. PICK d \in [DataEntries -> Clusters] :
            /\ Reopened(d)
            /\ \A n \in DataEntries : n # list[h][1].no => d[n] = disk[n]
            /\ \E s \in 1 .. Slots :
                 PutAt(list[h][1].data, d[list[h][1].no],
                       NormDirEntry(FirstFree(mem[1])), s)
            /\ list[h] # <<>>
      BY <1>1, <2>7, DiesStep
    <3>2. disk' = d
      BY <3>1 DEF Reopened
    <3>3. x[1] = list[h][1].no
      BY <2>1, <2>3, <3>1, <3>2
    <3> QED
      BY <2>4, <3>1, <3>2, <3>3
  <2>8. ASSUME DiesBeforeEntry  PROVE FALSE
    <3>1. PICK d \in [DataEntries -> Clusters], f \in DataEntries :
            /\ Reopened(d)
            /\ mem[1][f] = AVAILABLE
            /\ \A n \in DataEntries : n # f => d[n] = disk[n]
      BY <1>1, <2>8, DiesEarlyStep
    <3> QED
      BY <2>1, <2>2, <2>3, <3>1 DEF Reopened
  <2>9. CASE (\E h \in Handles : \E c \in Directories : OpenDir(h, c))
             \/ PlaceAstray \/ UpdateFatTable \/ Remount \/ UNCHANGED vars
    BY <2>3, <2>9 DEF OpenDir, PlaceAstray, UpdateFatTable, Remount, Reopened, vars
  <2> QED
    BY <1>1, <2>5, <2>6, <2>7, <2>8, <2>9 DEF Next
<1>2. Base /\ Content /\ [Next]_vars =>
        [~ dangling =>
           \A x \in SlotSet :
             IsEntry(At(disk, x)) /\ At(disk', x) # At(disk, x) => Outdated(x[1])]_vars
  BY <1>1
<1>3. Spec => [](Base /\ Content)
  BY ContentInvariant
<1> QED
  BY <1>2, <1>3, PTL DEF Spec, EntriesKept

(* An insertion into a directory of one cluster that has room left puts    *)
(* the entry on the device, for any number of clusters, unless the write   *)
(* fails or the list it goes through is full.                              *)
THEOREM RoomIsUsed == Spec => RoomGiven
<1>1. ASSUME Base, [Next]_vars, NEW x, x = accepted', x \notin {accepted, NoEntry},
             ~ failed', ~ IsValidCluster(mem[1][x.dir]),
             \E s \in 1 .. Slots : disk[x.dir][s].kind = "free",
             LeadsToDir(x.entry) =>
               \A h \in Handles :
                 list[h] # <<>> /\ list[h][1].no = x.dir => ~ Full(list[h])
      PROVE  \E s \in 1 .. Slots : disk'[x.dir][s] = x.entry
  <2>1. ASSUME NEW h \in Handles, NEW a \in BOOLEAN, NEW b \in BOOLEAN,
               InsertNormDir(h, a, b)
        PROVE  \E s \in 1 .. Slots : disk'[x.dir][s] = x.entry
    <3> DEFINE f == FirstFree(mem[1])
               m == list[h][1].no
               e == NormDirEntry(f)
    <3>0. Shape /\ Pools /\ Long
      BY <1>1, <2>1 DEF Base, InsertNormDir
    <3>1. /\ list[h] # <<>>
          /\ Len(list[h]) = 1 /\ ~ Full(list[h]) =>
               \E s \in 1 .. Slots : list'[h][1].data[s] = e
          /\ disk'[m] = IF a THEN list'[h][1].data ELSE disk[m]
          /\ accepted' = [dir |-> m, entry |-> e]
          /\ failed' = (failed \/ ~ a \/ ~ b)
      BY <3>0, <2>1, NormDirStep
    <3>2. LeadsToDir(e)
      BY DEF NormDirEntry, Entry, LeadsToDir
    <3> HIDE DEF f, e
    <3>3. x.dir = m /\ x.entry = e
      BY <1>1, <3>1
    <3>4. ~ Full(list[h]) /\ a
      BY <1>1, <3>1, <3>2, <3>3
    <3>5. Len(list[h]) = 1
      <4>1. Len(list[h]) \in Nat /\ Len(list[h]) >= 1
        BY <1>1, <3>1, ListHeads DEF Base
      <4>2. ~ (Len(list[h]) > 1)
        BY <1>1, <2>1, <3>3 DEF Base, Long, InsertNormDir
      <4>3. ASSUME NEW n \in Nat, n >= 1, ~ (n > 1)  PROVE n = 1
        BY <4>3
      <4> QED
        BY <4>1, <4>2, <4>3
    <3> QED
      BY <3>1, <3>3, <3>4, <3>5
  <2>2. ASSUME NEW c \in Directories, NEW a \in BOOLEAN, NEW b \in BOOLEAN,
               InsertFile(c, a, b)
        PROVE  \E s \in 1 .. Slots : disk'[x.dir][s] = x.entry
    <3> DEFINE f == FirstFree(mem[1])
               e == FileEntry(f)
    <3>1. /\ \E data \in Clusters :
               /\ ~ IsValidCluster(mem[1][c]) /\ Room(disk[c]) # {} =>
                    \E s \in 1 .. Slots : data[s] = e
               /\ disk'[c] = IF b THEN data ELSE disk[c]
          /\ accepted' = [dir |-> c, entry |-> e]
          /\ failed' = (failed \/ ~ a \/ ~ b)
      BY <1>1, <2>2, FileStep DEF Base, InsertFile
    <3> HIDE DEF f, e
    <3>2. x.dir = c /\ x.entry = e /\ b
      BY <1>1, <3>1
    <3>3. Room(disk[c]) # {}
      BY <1>1, <3>2 DEF Room
    <3> QED
      BY <1>1, <3>1, <3>2, <3>3
  <2>3. CASE (\E h \in Handles : \E c \in Directories : OpenDir(h, c))
             \/ PlaceAstray \/ UpdateFatTable \/ Remount
             \/ (\E h \in Handles : DiesBeforeDots(h)) \/ DiesBeforeEntry
             \/ UNCHANGED vars
    BY <1>1, <2>3 DEF OpenDir, PlaceAstray, UpdateFatTable, Remount, DiesBeforeDots,
                      DiesBeforeEntry, Reopened, vars
  <2> QED
    BY <1>1, <2>1, <2>2, <2>3 DEF Next
<1>2. Base /\ [Next]_vars =>
        [LET x == accepted'
         IN  /\ x \notin {accepted, NoEntry}
             /\ ~ failed' /\ ~ dangling
             /\ ~ IsValidCluster(mem[1][x.dir])
             /\ \E s \in 1 .. Slots : disk[x.dir][s].kind = "free"
             /\ LeadsToDir(x.entry) =>
                  \A h \in Handles :
                    list[h] # <<>> /\ list[h][1].no = x.dir => ~ Full(list[h])
             => \E s \in 1 .. Slots : disk'[x.dir][s] = x.entry]_vars
  BY <1>1
<1> QED
  BY <1>2, BaseInit, BaseNext, PTL DEF Spec, RoomGiven
=============================================================================
