--------------------------- MODULE FatListsProofs ---------------------------
(***************************************************************************)
(* Proofs about FatLists: its types, that a chain is read from where its   *)
(* clusters are although the device is not sought between neighbours, and  *)
(* that a file is cut into the clusters its size asks for.                 *)
(***************************************************************************)
EXTENDS FatLists, FiniteSetTheorems, TLAPS

(* A quotient and a remainder, and how they are unique.                    *)
LEMMA Division ==
  ASSUME NEW n \in Nat, NEW d \in Nat \ {0}
  PROVE  /\ n \div d \in Nat
         /\ n % d \in 0 .. d - 1
         /\ n = (n \div d) * d + (n % d)
  BY SMT

LEMMA QuotientUnique ==
  ASSUME NEW d \in Nat \ {0}, NEW q \in Nat, NEW r \in 0 .. d - 1
  PROVE  (q * d + r) \div d = q
<1> DEFINE n == q * d + r
           p == n \div d
<1>1. n \in Nat
  BY SMT
<1>2. p \in Nat /\ n % d \in 0 .. d - 1 /\ n = p * d + (n % d)
  BY <1>1, Division
<1> HIDE DEF p
<1>3. ASSUME NEW a \in Nat, NEW b \in Nat, a < b
      PROVE  a * d + d <= b * d
  <2>1. PICK k \in Nat : b = a + 1 + k
    <3>1. b - a - 1 \in Nat /\ b = a + 1 + (b - a - 1)
      BY <1>3, SMT
    <3>2. QED
      BY <3>1
  <2>2. b * d = a * d + d + k * d
    BY <2>1, SMT
  <2>3. k * d \in Nat /\ a * d \in Nat
    BY SMT
  <2>4. QED
    BY <2>2, <2>3, SMT
<1>4. p * d \in Nat /\ q * d \in Nat
  BY <1>2, SMT
<1>5. ~ (p < q) /\ ~ (q < p)
  BY <1>2, <1>3, <1>4, SMT
<1>6. p = q
  BY <1>2, <1>5, SMT
<1>7. QED
  BY <1>6 DEF p

LEMMA SmallRemainder ==
  ASSUME NEW d \in Nat \ {0}, NEW n \in 0 .. d - 1
  PROVE  n % d = n
  BY SMT

(* The sizes of clusters and the numbers of their entries are numbers.     *)
LEMMA Sizes ==
  /\ ClusterBytes \in Nat \ {0}
  /\ BytsPerSec \in Nat \ {0}
  /\ FirstDataSector \in Nat
  /\ NumEntries \in Nat /\ NumEntries < Word /\ Word \in Nat \ {0}
  /\ Mask \in Nat \ {0}
<1>1. ClusterBytes \in Nat \ {0} /\ BytsPerSec \in Nat \ {0}
  BY GeometryAssumption, SMT DEF ClusterBytes
<1>2. RootDirSec \in Nat
  BY GeometryAssumption, SMT DEF RootDirSec
<1>3. FirstDataSector \in Nat
  BY <1>2, GeometryAssumption, SMT DEF FirstDataSector
<1>4. Mask \in Nat \ {0}
  BY TableAssumption, SMT DEF INVALID
<1>5. QED
  BY <1>1, <1>3, <1>4, GeometryAssumption, TableAssumption, ReaderAssumption

(* A position is a number.                                                 *)
LEMMA ReadPosType ==
  ASSUME NEW c \in Nat
  PROVE  ReadPos(c) \in Nat
<1>1. FirstDataSector * BytsPerSec + (c - 2) * ClusterBytes \in Int
  BY Sizes, SMT
<1>2. QED
  BY <1>1, Sizes, SMT DEF ReadPos

----------------------------------------------------------------------------
(***************************************************************************)
(* Types.  Which step a call is at tells which call it is, and a chain is  *)
(* followed inside of the table only.                                      *)
(***************************************************************************)
Phases ==
  /\ pc = "read" => call \in Reads
  /\ pc = "copy" => call = "content"
  /\ pc = "merge" => call = "merge"
  /\ pc \in {"split", "walk"} => call = "insert"
  /\ pc = "seek" => call = "seek"

NextInside == call \in Reads /\ IsValidCluster(next) => next \in Entries

TypeInv == TypeOK /\ Phases /\ NextInside

Node == [no : 0 .. Word - 1, from : Nat]

LEMMA EntriesNat ==
  /\ Entries \subseteq Nat
  /\ \A c \in Entries : c \in 0 .. Word - 1 /\ c < Mask /\ Link(c) = c
<1>1. Entries \subseteq Nat /\ \A c \in Entries : c \in 0 .. Word - 1
  BY Sizes, SMT DEF Entries
<1>2. \A c \in Entries : c < Mask
  BY Sizes, TableAssumption, SMT DEF Entries, INVALID
<1>3. \A c \in Entries : Link(c) = c
  BY <1>1, <1>2, Sizes, SMT DEF Link
<1>4. QED
  BY <1>1, <1>2, <1>3

(* The link of an entry is a number under the mask, and an entry if the    *)
(* chain goes on there.                                                    *)
LEMMA FollowType ==
  ASSUME NEW c \in Entries, table \in ChainTables
  PROVE  /\ Follow(c) \in 0 .. Mask - 1
         /\ IsValidCluster(Follow(c)) => Follow(c) \in Entries
<1>1. table[c] \in Nat
  BY ReaderAssumption DEF Tables
<1>2. Link(table[c]) \in 0 .. Mask - 1
  BY <1>1, Sizes, Division DEF Link
<1>3. Link(Link(table[c])) = Link(table[c])
  BY <1>2, Sizes, SmallRemainder DEF Link
<1>4. IsValidCluster(Link(table[c])) => IsValidCluster(table[c])
  BY <1>3 DEF IsValidCluster
<1>5. QED
  BY <1>2, <1>4, ReaderAssumption DEF Follow

(* The bytes of a node copied into the buffer.                             *)
LEMMA FilledType ==
  ASSUME TypeOK, NEW i \in Nat, NEW n
  PROVE  Filled(i, n) \in [0 .. MaxSize - 1 -> Nat \X Nat]
<1>1. SUFFICES ASSUME NEW x \in 0 .. MaxSize - 1, offset <= x
               PROVE  <<i, x - offset>> \in Nat \X Nat
  BY DEF Filled, TypeOK
<1>2. x - offset \in Nat
  BY <1>1, SMT DEF TypeOK
<1>3. QED
  BY <1>2

(* A file is cut into a list of nodes.                                     *)
LEMMA SplitType ==
  ASSUME TypeOK
  PROVE  /\ WholeClusters \in Nat /\ Rest \in 0 .. ClusterBytes - 1
         /\ size = WholeClusters * ClusterBytes + Rest
         /\ WholeNode \in Node /\ RestNode \in Node
         /\ [i \in 1 .. WholeClusters |-> WholeNode] \in Seq(Node)
<1>1. size \in Nat
  BY ReaderAssumption, SMT DEF TypeOK
<1>2. /\ WholeClusters \in Nat /\ Rest \in 0 .. ClusterBytes - 1
      /\ size = WholeClusters * ClusterBytes + Rest
  BY <1>1, Sizes, Division DEF WholeClusters, Rest
<1>3. StrayNumber \in 0 .. Word - 1
  BY Sizes, SMT DEF StrayNumber
<1>4. 1 * ClusterBytes \in Nat /\ WholeClusters * ClusterBytes \in Nat
  BY <1>2, Sizes, SMT
<1>5. WholeNode \in Node /\ RestNode \in Node
  BY <1>3, <1>4 DEF WholeNode, RestNode, Node
<1>6. [i \in 1 .. WholeClusters |-> WholeNode] \in Seq(Node)
  BY <1>2, <1>5, SMT
<1>7. QED
  BY <1>2, <1>5, <1>6

LEMMA TypeInit == Init => TypeInv
<1> SUFFICES ASSUME Init PROVE TypeInv
  OBVIOUS
<1>1. next \in Entries /\ start \in Entries /\ prev \in Nat /\ at \in Nat
  BY ReaderAssumption, Sizes, SMT DEF Init
<1>2. content \in [0 .. MaxSize - 1 -> Nat \X Nat]
  BY DEF Init, NoByte
<1>3. size \in 0 .. MaxSize
  BY ReaderAssumption, SMT DEF Init
<1>4. next \in Nat /\ next \in 0 .. Mask - 1
  BY <1>1, EntriesNat, Sizes, SMT
<1>5. pc \in {"read", "split", "seek"} /\ Phases
  BY DEF Init, Phases, Calls, Reads
<1>6. /\ call \in Calls /\ table \in ChainTables /\ nodes = <<>>
      /\ offset = 0 /\ copied = 0 /\ overrun = FALSE
  BY DEF Init
<1>7. nodes \in Seq([no : 0 .. Word - 1, from : Nat])
  BY <1>6
<1>8. TypeOK
  BY <1>1, <1>2, <1>3, <1>4, <1>5, <1>6, <1>7 DEF TypeOK
<1>9. QED
  BY <1>1, <1>5, <1>8 DEF TypeInv, NextInside

LEMMA TypeStep == TypeInv /\ [Next]_vars => TypeInv'
<1> SUFFICES ASSUME TypeInv, [Next]_vars PROVE TypeInv'
  OBVIOUS
<1> USE DEF TypeInv
<1>0. /\ copied \in Nat /\ copied + 1 \in Nat /\ offset \in Nat
      /\ offset + Advance \in Nat
      /\ nodes \in Seq(Node)
  BY Sizes, SMT DEF TypeOK, Advance, Node
<1>1. CASE ReadCluster
  <2>1. call \in Reads /\ next \in Entries
    BY <1>1 DEF ReadCluster, Phases, NextInside
  <2>2. call # "seek" /\ next \in Nat /\ next \in 0 .. Word - 1
    BY <2>1, EntriesNat DEF Reads
  <2>3. Place \in Nat /\ Place + ClusterBytes \in Nat
    <3>1. Place \in Nat
      BY <2>2, ReadPosType DEF Place, TypeOK
    <3>2. QED
      BY <3>1, Sizes, SMT
  <2>4. nodes' \in Seq(Node)
    BY <1>0, <1>1, <2>2, <2>3 DEF ReadCluster, Joined, Node
  <2>5. /\ Follow(next) \in 0 .. Mask - 1
        /\ IsValidCluster(Follow(next)) => Follow(next) \in Entries
    BY <2>1, FollowType DEF TypeOK
  <2>6. TypeOK'
    BY <1>1, <2>2, <2>3, <2>4, <2>5 DEF ReadCluster, TypeOK, Node
  <2>7. QED
    BY <1>1, <2>5, <2>6 DEF ReadCluster, Phases, NextInside
<1>2. CASE ReadEnds
  BY <1>2 DEF ReadEnds, TypeOK, Phases, NextInside, Reads
<1>3. CASE SeekFails
  <2>1. <<>> \in Seq(Node)
    OBVIOUS
  <2>2. pc' \in {"failed", "crashed"}
    BY <1>3 DEF SeekFails, GivesUp
  <2>3. QED
    BY <1>3, <2>1, <2>2 DEF SeekFails, TypeOK, Phases, NextInside, Node
<1>4. CASE ReadFails
  <2>1. <<>> \in Seq(Node)
    OBVIOUS
  <2>2. pc' \in {"failed", "crashed"}
    BY <1>4 DEF ReadFails, GivesUp
  <2>3. Place \in Nat
    <3>1. next \in Nat
      BY <1>4, EntriesNat DEF ReadFails, Phases, NextInside
    <3>2. QED
      BY <3>1, ReadPosType DEF Place, TypeOK
  <2>4. QED
    BY <1>4, <2>1, <2>2, <2>3 DEF ReadFails, TypeOK, Phases, NextInside, Node
<1>5. CASE CopyWhole
  <2>1. content' \in [0 .. MaxSize - 1 -> Nat \X Nat]
    BY <1>0, <1>5, FilledType DEF CopyWhole
  <2>2. overrun' \in BOOLEAN
    BY <1>5 DEF CopyWhole, TypeOK
  <2>3. QED
    BY <1>0, <1>5, <2>1, <2>2 DEF CopyWhole, TypeOK, Phases, NextInside
<1>6. CASE CopyRest
  <2>1. content' \in [0 .. MaxSize - 1 -> Nat \X Nat]
    BY <1>0, <1>6, FilledType DEF CopyRest
  <2>2. overrun' \in BOOLEAN
    BY <1>6 DEF CopyRest, TypeOK
  <2>3. QED
    BY <1>0, <1>6, <2>1, <2>2 DEF CopyRest, TypeOK, Phases, NextInside
<1>7. CASE MergeCluster
  <2>1. content' \in [0 .. MaxSize - 1 -> Nat \X Nat]
    BY <1>0, <1>7, FilledType DEF MergeCluster
  <2>2. QED
    BY <1>0, <1>7, <2>1 DEF MergeCluster, TypeOK, Phases, NextInside
<1>8. CASE MergeEnds \/ RunsOff
  BY <1>8 DEF MergeEnds, RunsOff, TypeOK, Phases, NextInside
<1>9. CASE ByteToClusters
  <2>1. nodes' \in Seq(Node)
    BY <1>9, SplitType DEF ByteToClusters
  <2>2. QED
    BY <1>9, <2>1 DEF ByteToClusters, TypeOK, Phases, NextInside, Node
<1>10. CASE WriteNode
  <2>1. prev' \in Nat
    BY <1>0, <1>10 DEF WriteNode, TypeOK
  <2>2. QED
    BY <1>0, <1>10, <2>1 DEF WriteNode, TypeOK, Phases, NextInside
<1>11. CASE FreeRest
  <2>1. overrun' \in BOOLEAN /\ pc' \in {"crashed", "done"}
    BY <1>11 DEF FreeRest, TypeOK
  <2>2. QED
    BY <1>11, <2>1 DEF FreeRest, TypeOK, Phases, NextInside
<1>12. CASE Seek
  <2>1. table[start] \in Nat /\ call = "seek" /\ next \in Nat
    BY <1>12, ReaderAssumption DEF Seek, TypeOK, Phases, Tables
  <2>2. QED
    BY <1>12, <2>1 DEF Seek, TypeOK, Phases, NextInside, Reads
<1>13. CASE UNCHANGED vars
  BY <1>13 DEF vars, TypeOK, Phases, NextInside
<1>14. QED
  BY <1>1, <1>2, <1>3, <1>4, <1>5, <1>6, <1>7, <1>8, <1>9, <1>10, <1>11, <1>12,
     <1>13 DEF Next, Step

(* Every call of FatLists keeps the types of its variables, on any table   *)
(* that leads nowhere outside of itself.                                   *)
THEOREM TypeCorrect == Spec => []TypeOK
<1>1. Spec => []TypeInv
  BY TypeInit, TypeStep, PTL DEF Spec
<1>2. QED
  BY <1>1, PTL DEF TypeInv

----------------------------------------------------------------------------
(***************************************************************************)
(* Reading without a seek between neighbours.  As long as a chain is read  *)
(* the file offset stands behind the cluster read last, if the first one   *)
(* was read from its place.                                                *)
(***************************************************************************)
\* The end of the volume is at most 4 GiB from the beginning of the device.
PositionsFit == FirstDataSector * BytsPerSec + NumEntries * ClusterBytes <= Word

PlacedSoFar == nodes # <<>> /\ nodes[1].from = ReadPos(nodes[1].no)

OffsetFollows ==
  pc = "read" /\ nodes # <<>> =>
    /\ prev \in Entries /\ IsValidCluster(prev)
    /\ PlacedSoFar => at = ReadPos(prev) + ClusterBytes

PlaceInv == TypeInv /\ EachFromItsPlace /\ OffsetFollows

(* A cluster of data is where the arithmetic without a width has it.       *)
LEMMA ReadPosExact ==
  ASSUME PositionsFit, NEW c \in Entries, c >= 2
  PROVE  ReadPos(c) = FirstDataSector * BytsPerSec + (c - 2) * ClusterBytes
<1> DEFINE F == FirstDataSector * BytsPerSec
           P == F + (c - 2) * ClusterBytes
<1>1. F \in Nat
  BY Sizes, SMT
<1>2. c \in Nat /\ c < NumEntries
  BY EntriesNat, Sizes, SMT DEF Entries
<1>3. (c - 2) * ClusterBytes \in Nat
  BY <1>2, Sizes, SMT
<1>4. (c - 2) * ClusterBytes + 2 * ClusterBytes = c * ClusterBytes
  BY <1>2, Sizes, SMT
<1>5. c * ClusterBytes <= NumEntries * ClusterBytes
  BY <1>2, Sizes, SMT
<1>6. NumEntries * ClusterBytes \in Nat /\ c * ClusterBytes \in Nat
  BY <1>2, Sizes, SMT
<1>7. P \in 0 .. Word - 1
  BY <1>1, <1>3, <1>4, <1>5, <1>6, Sizes, SMT DEF PositionsFit
<1>8. P % Word = P
  BY <1>7, Sizes, SmallRemainder
<1>9. QED
  BY <1>8 DEF ReadPos

(* What the code takes for a neighbour is one, and begins where the other  *)
(* ends: in unsigned arithmetic the difference is 1 for no other pair.     *)
LEMMA Neighbours ==
  ASSUME PositionsFit,
         NEW p \in Entries, IsValidCluster(p),
         NEW n \in Entries, IsValidCluster(n),
         Continues(p, n)
  PROVE  ReadPos(n) = ReadPos(p) + ClusterBytes
<1>1. p \in 0 .. NumEntries - 1 /\ n \in 0 .. NumEntries - 1
  BY DEF Entries
<1>2. n = p + 1
  <2>1. CASE n >= p
    <3>1. n - p \in 0 .. Word - 1
      BY <1>1, <2>1, Sizes, SMT
    <3>2. QED
      BY <1>1, <3>1, Sizes, SmallRemainder, SMT DEF Continues
  <2>2. CASE n < p
    <3>1. n - p + Word \in 2 .. Word - 1
      BY <1>1, <2>2, Sizes, SMT
    <3>2. (n - p) % Word = n - p + Word
      BY <1>1, <3>1, Sizes, SMT
    <3>3. QED
      BY <3>1, <3>2, Sizes, SMT DEF Continues
  <2>3. QED
    BY <1>1, <2>1, <2>2, SMT
<1>3. p # 1 /\ n # 1
  BY EntriesNat DEF IsValidCluster, RESERVED
<1>4. p >= 2 /\ n >= 2
  BY <1>1, <1>2, <1>3, SMT
<1>5. (n - 2) * ClusterBytes = (p - 2) * ClusterBytes + ClusterBytes
  BY <1>1, <1>2, Sizes, SMT
<1>6. /\ FirstDataSector * BytsPerSec \in Nat
      /\ (p - 2) * ClusterBytes \in Int
  BY <1>1, Sizes, SMT
<1>7. QED
  BY <1>4, <1>5, <1>6, ReadPosExact, Sizes, SMT

LEMMA PlaceStep ==
  ASSUME PositionsFit, PlaceInv, [Next]_vars
  PROVE  PlaceInv'
<1> USE DEF PlaceInv
<1>1. TypeInv'
  BY TypeStep
<1>2. CASE ReadCluster
  <2>1. call \in Reads /\ next \in Entries /\ IsValidCluster(next)
    BY <1>2 DEF ReadCluster, TypeInv, Phases, NextInside
  <2>2. nodes \in Seq(Node)
    BY DEF TypeInv, TypeOK, Node
  <2> DEFINE node == [no |-> next, from |-> Place]
  <2>3. /\ nodes' = Append(nodes, node)
        /\ Len(nodes') = Len(nodes) + 1
        /\ \A i \in 1 .. Len(nodes) : nodes'[i] = nodes[i]
        /\ nodes'[Len(nodes) + 1] = node
    BY <1>2, <2>2 DEF ReadCluster, Joined
  <2>4. at' = Place + ClusterBytes /\ prev' = next
    BY <1>2 DEF ReadCluster
  <2>5. ASSUME PlacedSoFar'
        PROVE  Place = ReadPos(next)
    <3>1. CASE nodes = <<>>
      BY <2>3, <2>5, <3>1 DEF PlacedSoFar
    <3>2. CASE nodes # <<>>
      <4>1. nodes'[1] = nodes[1]
        BY <2>2, <2>3, <3>2
      <4>2. at = ReadPos(prev) + ClusterBytes /\ prev \in Entries
              /\ IsValidCluster(prev)
        BY <1>2, <2>5, <3>2, <4>1 DEF ReadCluster, OffsetFollows, PlacedSoFar
      <4>3. QED
        BY <2>1, <4>2, Neighbours DEF Place
    <3>3. QED
      BY <3>1, <3>2
  <2>6. EachFromItsPlace'
    <3>1. SUFFICES ASSUME PlacedSoFar', NEW i \in 1 .. Len(nodes) + 1
                   PROVE  nodes'[i].from = ReadPos(nodes'[i].no)
      BY <2>2, <2>3 DEF EachFromItsPlace, PlacedSoFar
    <3>2. CASE i = Len(nodes) + 1
      BY <2>3, <2>5, <3>1, <3>2
    <3>3. CASE i \in 1 .. Len(nodes)
      <4>1. nodes # <<>> /\ nodes'[1] = nodes[1] /\ nodes'[i] = nodes[i]
        BY <2>2, <2>3, <3>3
      <4>2. QED
        BY <2>1, <2>2, <3>1, <3>3, <4>1 DEF EachFromItsPlace, PlacedSoFar
    <3>4. QED
      BY <2>2, <3>2, <3>3
  <2>7. OffsetFollows'
    BY <2>1, <2>4, <2>5 DEF OffsetFollows
  <2>8. QED
    BY <1>1, <2>6, <2>7
<1>3. CASE SeekFails \/ ReadFails
  BY <1>1, <1>3 DEF SeekFails, ReadFails, EachFromItsPlace, OffsetFollows
<1>4. CASE ReadEnds \/ CopyWhole \/ CopyRest \/ MergeCluster \/ MergeEnds \/ RunsOff
  BY <1>1, <1>4 DEF ReadEnds, CopyWhole, CopyRest, MergeCluster, MergeEnds,
       RunsOff, EachFromItsPlace, OffsetFollows
<1>5. CASE ByteToClusters
  BY <1>1, <1>5 DEF ByteToClusters, TypeInv, Phases, Reads, EachFromItsPlace,
       OffsetFollows
<1>6. CASE WriteNode \/ FreeRest \/ Seek
  BY <1>1, <1>6 DEF WriteNode, FreeRest, Seek, EachFromItsPlace, OffsetFollows
<1>7. CASE UNCHANGED vars
  BY <1>1, <1>7 DEF vars, EachFromItsPlace, OffsetFollows, PlacedSoFar
<1>8. QED
  BY <1>2, <1>3, <1>4, <1>5, <1>6, <1>7 DEF Next, Step

(* On a volume under 4 GiB leaving out the seek between neighbours is      *)
(* sound: if the first cluster of a chain was read from its place, so was  *)
(* every other one.                                                        *)
THEOREM EachAlwaysFromItsPlace ==
  ASSUME PositionsFit
  PROVE  Spec => []EachFromItsPlace
<1>1. Init => PlaceInv
  BY TypeInit DEF Init, PlaceInv, EachFromItsPlace, OffsetFollows
<1>2. PlaceInv /\ [Next]_vars => PlaceInv'
  BY PlaceStep
<1>3. PlaceInv => EachFromItsPlace
  BY DEF PlaceInv
<1>4. QED
  BY <1>1, <1>2, <1>3, PTL DEF Spec

----------------------------------------------------------------------------
(***************************************************************************)
(* Cutting a file.  While the list is written prevCluster is the node      *)
(* written last, unless that is the first, and so the last of two or more  *)
(* nodes when the list has been written.                                   *)
(***************************************************************************)
CutRight ==
  /\ Len(nodes) = (size + ClusterBytes - 1) \div ClusterBytes
  /\ Len(nodes) = WholeClusters + IF Rest # 0 THEN 1 ELSE 0
  /\ Rest # 0 => nodes[Len(nodes)].from = size - Rest

CutInv ==
  /\ TypeInv
  /\ pc = "split" => prev = 0 /\ copied = 0 /\ ~ overrun
  /\ pc = "walk" =>
       /\ CutRight /\ ~ overrun
       /\ copied <= Len(nodes)
       /\ prev = IF copied <= 1 THEN 0 ELSE copied
  /\ call = "insert" /\ pc = "done" =>
       CutRight /\ (WholeClusters > 0 => ~ overrun)

(* The quotient the code compares with: one more cluster for a rest.       *)
LEMMA ClustersOfSize ==
  ASSUME TypeOK
  PROVE  (size + ClusterBytes - 1) \div ClusterBytes
           = WholeClusters + IF Rest # 0 THEN 1 ELSE 0
<1> DEFINE W == WholeClusters
           R == Rest
           C == ClusterBytes
<1>1. /\ W \in Nat /\ R \in 0 .. C - 1 /\ size = W * C + R
      /\ C \in Nat \ {0} /\ W * C \in Nat
  BY SplitType, Sizes, SMT
<1> HIDE DEF W, R, C
<1>2. CASE R = 0
  <2>1. size + C - 1 = W * C + (C - 1)
    BY <1>1, <1>2, SMT
  <2>2. (W * C + (C - 1)) \div C = W
    BY <1>1, QuotientUnique, SMT
  <2>3. QED
    BY <1>1, <1>2, <2>1, <2>2 DEF W, R, C
<1>3. CASE R # 0
  <2>1. size + C - 1 = (W + 1) * C + (R - 1)
    BY <1>1, <1>3, SMT
  <2>2. W + 1 \in Nat /\ R - 1 \in 0 .. C - 1
    BY <1>1, <1>3, SMT
  <2>3. ((W + 1) * C + (R - 1)) \div C = W + 1
    BY <1>1, <2>2, QuotientUnique
  <2>4. QED
    BY <1>3, <2>1, <2>3 DEF W, R, C
<1>4. QED
  BY <1>2, <1>3

LEMMA CutStep == CutInv /\ [Next]_vars => CutInv'
<1> SUFFICES ASSUME CutInv, [Next]_vars PROVE CutInv'
  OBVIOUS
<1> USE DEF CutInv
<1>1. TypeInv'
  BY TypeStep
<1>2. WholeClusters \in Nat /\ nodes \in Seq(Node) /\ copied \in Nat /\ TypeOK
  BY SplitType DEF TypeInv, TypeOK, Node
<1>3. CASE \/ ReadCluster \/ ReadEnds \/ SeekFails \/ ReadFails \/ CopyWhole
           \/ CopyRest \/ MergeCluster \/ MergeEnds \/ RunsOff \/ Seek
  <2>1. call # "insert" /\ call' = call
    BY <1>3 DEF ReadCluster, ReadEnds, SeekFails, ReadFails, CopyWhole, CopyRest,
         MergeCluster, MergeEnds, RunsOff, Seek, TypeInv, Phases, Reads
  <2>2. QED
    BY <1>1, <2>1 DEF TypeInv, Phases
<1>4. CASE ByteToClusters
  <2>1. pc' = "walk" /\ prev' = 0 /\ copied' = 0 /\ overrun' = overrun
          /\ size' = size /\ ~ overrun
    BY <1>4 DEF ByteToClusters
  <2>2. WholeClusters' = WholeClusters /\ Rest' = Rest
    BY <2>1 DEF WholeClusters, Rest
  <2> DEFINE whole == [i \in 1 .. WholeClusters |-> WholeNode]
  <2>3. whole \in Seq(Node) /\ Len(whole) = WholeClusters /\ RestNode \in Node
    BY <1>2, SplitType, SMT
  <2>4. CASE Rest = 0
    <3>1. nodes' = whole
      BY <1>4, <2>3, <2>4 DEF ByteToClusters
    <3>2. Len(nodes') = WholeClusters
      BY <2>3, <3>1
    <3>3. CutRight'
      BY <1>2, <2>1, <2>2, <2>4, <3>2, ClustersOfSize, SMT DEF CutRight
    <3>4. QED
      BY <1>1, <1>2, <2>1, <3>2, <3>3
  <2>5. CASE Rest # 0
    <3>1. nodes' = whole \o <<RestNode>>
      BY <1>4, <2>5 DEF ByteToClusters
    <3>2. Len(nodes') = WholeClusters + 1
            /\ nodes'[WholeClusters + 1] = RestNode
      <4> HIDE DEF whole
      <4>1. <<RestNode>> \in Seq(Node) /\ Len(<<RestNode>>) = 1
              /\ <<RestNode>>[1] = RestNode
        BY <2>3
      <4>2. /\ Len(whole \o <<RestNode>>) = WholeClusters + 1
            /\ (whole \o <<RestNode>>)[WholeClusters + 1] = <<RestNode>>[1]
        BY <1>2, <2>3, <4>1, SMT
      <4>3. QED
        BY <3>1, <4>1, <4>2
    <3>3. RestNode.from = size - Rest
      <4>1. RestNode.from = WholeClusters * ClusterBytes
        BY DEF RestNode
      <4>2. WholeClusters * ClusterBytes \in Nat
        BY <1>2, Sizes, SMT
      <4>3. Rest \in Int /\ size = WholeClusters * ClusterBytes + Rest
        BY <1>2, SplitType, Sizes, SMT
      <4>4. QED
        BY <4>1, <4>2, <4>3, SMT
    <3>4. CutRight'
      <4>1. Len(nodes') = (size + ClusterBytes - 1) \div ClusterBytes
        BY <1>2, <2>5, <3>2, ClustersOfSize
      <4>2. nodes'[Len(nodes')].from = size - Rest
        BY <3>2, <3>3
      <4>3. QED
        BY <2>1, <2>2, <2>5, <3>2, <4>1, <4>2 DEF CutRight
    <3>5. QED
      BY <1>1, <1>2, <2>1, <3>2, <3>4, SMT
  <2>6. QED
    BY <2>4, <2>5
<1>5. CASE WriteNode
  <2>1. CutRight' <=> CutRight
    BY <1>5 DEF WriteNode, CutRight, WholeClusters, Rest
  <2>2. QED
    BY <1>1, <1>2, <1>5, <2>1 DEF WriteNode
<1>6. CASE FreeRest
  <2>1. /\ CutRight /\ ~ overrun /\ copied = Len(nodes) /\ Len(nodes) \in Nat
        /\ prev = IF copied <= 1 THEN 0 ELSE copied
    BY <1>2, <1>6 DEF FreeRest
  <2>2. CutRight' /\ WholeClusters' = WholeClusters
    BY <1>6, <2>1 DEF FreeRest, CutRight, WholeClusters, Rest
  <2>3. WholeClusters > 0 => ~ overrun'
    <3>1. CASE Rest = 0
      BY <1>6, <2>1, <3>1 DEF FreeRest
    <3>2. CASE Rest # 0
      <4>1. Len(nodes) = WholeClusters + 1
        BY <2>1, <3>2 DEF CutRight
      <4>2. WholeClusters > 0 => prev = Len(nodes) /\ prev # 0
        BY <1>2, <2>1, <4>1, SMT
      <4>3. prev = Len(nodes) /\ prev # 0 => ~ overrun'
        BY <1>6, <2>1, <3>2 DEF FreeRest
      <4>4. QED
        BY <4>2, <4>3
    <3>3. QED
      BY <3>1, <3>2
  <2>4. pc' \in {"crashed", "done"}
    BY <1>6 DEF FreeRest
  <2>5. QED
    BY <1>1, <2>2, <2>3, <2>4
<1>7. CASE UNCHANGED vars
  BY <1>1, <1>7 DEF vars, CutRight, WholeClusters, Rest
<1>8. QED
  BY <1>3, <1>4, <1>5, <1>6, <1>7 DEF Next, Step

(* Any file is cut into as many clusters as its size asks for, the rest of *)
(* it comes from behind its whole clusters, and only what was allocated    *)
(* for the rest is released, as soon as there is a whole cluster.          *)
THEOREM AlwaysCutIntoClusters == Spec => []CutIntoClusters
<1>1. Init => CutInv
  <2>1. Init => pc \in {"read", "split", "seek"}
          /\ (pc = "split" => prev = 0 /\ copied = 0 /\ ~ overrun)
    BY DEF Init, Calls, Reads
  <2>2. QED
    BY <2>1, TypeInit DEF CutInv
<1>2. CutInv => CutIntoClusters
  <2>1. TypeInv => Rest = 0 \/ Rest # 0
    OBVIOUS
  <2>2. QED
    BY DEF CutInv, CutIntoClusters, CutRight
<1>3. QED
  BY <1>1, <1>2, CutStep, PTL DEF Spec

----------------------------------------------------------------------------
(***************************************************************************)
(* The list read is the chain.  Each node holds what the one before links  *)
(* to; the rest follows from that for lists of any length.                 *)
(***************************************************************************)
Linked ==
  /\ nodes[1].no = start
  /\ \A i \in 1 .. Len(nodes) : nodes[i].no \in Entries
  /\ \A i \in 1 .. Len(nodes) - 1 :
       IsValidCluster(table[nodes[i].no]) /\ nodes[i + 1].no = Follow(nodes[i].no)

ChainInv ==
  /\ TypeInv
  /\ pc = "read" /\ nodes = <<>> => next = start
  /\ call \in Reads /\ nodes # <<>> => Linked
  /\ pc = "read" /\ nodes # <<>> => next = Follow(nodes[Len(nodes)].no)
  /\ call = "read" /\ pc = "done" /\ nodes # <<>> =>
       ~ IsValidCluster(table[nodes[Len(nodes)].no])

(* A number and its link mean the same to __fat_is_valid_cluster.          *)
LEMMA ValidLink ==
  ASSUME NEW v \in Nat
  PROVE  IsValidCluster(Link(v)) <=> IsValidCluster(v)
<1>1. Link(v) \in 0 .. Mask - 1
  BY Sizes, Division DEF Link
<1>2. Link(Link(v)) = Link(v)
  BY <1>1, Sizes, SmallRemainder DEF Link
<1>3. QED
  BY <1>2 DEF IsValidCluster

LEMMA ChainStep == ChainInv /\ [Next]_vars => ChainInv'
<1> SUFFICES ASSUME ChainInv, [Next]_vars PROVE ChainInv'
  OBVIOUS
<1> USE DEF ChainInv
<1>1. TypeInv'
  BY TypeStep
<1>2. nodes \in Seq(Node) /\ Len(nodes) \in Nat
  BY DEF TypeInv, TypeOK, Node
<1>3. CASE ReadCluster
  <2>1. call \in Reads /\ next \in Entries /\ IsValidCluster(next)
    BY <1>3 DEF ReadCluster, TypeInv, Phases, NextInside
  <2> DEFINE node == [no |-> next, from |-> Place]
             n == Len(nodes)
  <2>2. /\ nodes' = Append(nodes, node)
        /\ Len(nodes') = n + 1
        /\ \A i \in 1 .. n : nodes'[i] = nodes[i]
        /\ nodes'[n + 1] = node
    BY <1>2, <1>3 DEF ReadCluster, Joined
  <2>3. /\ next' = Follow(next) /\ table' = table /\ start' = start
        /\ pc' = "read" /\ call' = call /\ pc = "read"
    BY <1>3 DEF ReadCluster
  <2>5. n > 0 => IsValidCluster(table[nodes[n].no]) /\ next = Follow(nodes[n].no)
    <3> SUFFICES ASSUME n > 0
                 PROVE  IsValidCluster(table[nodes[n].no]) /\ next = Follow(nodes[n].no)
      OBVIOUS
    <3>1. next = Follow(nodes[n].no) /\ nodes[n].no \in Entries
      BY <1>2, <2>1, <2>3, SMT DEF Linked
    <3>2. table[nodes[n].no] \in Nat
      BY <3>1, ReaderAssumption DEF TypeInv, TypeOK, Tables
    <3>3. QED
      BY <2>1, <3>1, <3>2, ValidLink DEF Follow
  <2>6. Linked'
    <3>1. nodes'[1].no = start
      <4>1. CASE n = 0
        BY <1>2, <2>2, <2>3, <4>1
      <4>2. CASE n > 0
        BY <1>2, <2>1, <2>2, <4>2, SMT DEF Linked
      <4>3. QED
        BY <1>2, <4>1, <4>2, SMT
    <3>2. ASSUME NEW i \in 1 .. n + 1  PROVE nodes'[i].no \in Entries
      <4>1. CASE i = n + 1
        BY <2>1, <2>2, <4>1
      <4>2. CASE i \in 1 .. n
        BY <1>2, <2>1, <2>2, <4>2 DEF Linked
      <4>3. QED
        BY <1>2, <4>1, <4>2, SMT
    <3>3. ASSUME NEW i \in 1 .. n
          PROVE  /\ IsValidCluster(table[nodes'[i].no])
                 /\ nodes'[i + 1].no = Follow(nodes'[i].no)
      <4>1. CASE i = n
        BY <1>2, <2>2, <2>5, <4>1, SMT
      <4>2. CASE i \in 1 .. n - 1
        <5>1. i + 1 \in 1 .. n /\ nodes # <<>>
          BY <1>2, <4>2, SMT
        <5>2. QED
          BY <2>1, <2>2, <4>2, <5>1 DEF Linked
      <4>3. QED
        BY <1>2, <4>1, <4>2, SMT
    <3>4. 1 .. Len(nodes') - 1 = 1 .. n
      BY <1>2, <2>2, SMT
    <3>5. QED
      BY <2>2, <2>3, <3>1, <3>2, <3>3, <3>4 DEF Linked, Follow
  <2>7. nodes' # <<>> /\ next' = Follow(nodes'[Len(nodes')].no)
    BY <1>2, <2>2, <2>3
  <2>8. QED
    BY <1>1, <2>3, <2>6, <2>7 DEF Follow
<1>4. CASE ReadEnds
  <2>1. /\ UNCHANGED <<call, table, next, start, nodes>>
        /\ pc = "read" /\ pc' # "read" /\ ~ IsValidCluster(next)
    BY <1>4 DEF ReadEnds
  <2>2. nodes # <<>> =>
          nodes[Len(nodes)].no \in Entries /\ next = Follow(nodes[Len(nodes)].no)
    BY <1>2, <2>1, SMT DEF Linked, TypeInv, Phases
  <2>3. nodes # <<>> => ~ IsValidCluster(table[nodes[Len(nodes)].no])
    BY <2>1, <2>2, ValidLink, ReaderAssumption DEF Follow, TypeInv, TypeOK, Tables
  <2>4. Linked' <=> Linked
    BY <2>1 DEF Linked, Follow
  <2>5. QED
    BY <1>1, <2>1, <2>3, <2>4
<1>5. CASE SeekFails \/ ReadFails
  BY <1>1, <1>5 DEF SeekFails, ReadFails, GivesUp
<1>6. CASE CopyWhole \/ CopyRest \/ MergeCluster \/ MergeEnds \/ RunsOff
  <2>1. /\ UNCHANGED <<call, table, next, start, nodes>>
        /\ pc' # "read" /\ call # "read"
    BY <1>6 DEF CopyWhole, CopyRest, MergeCluster, MergeEnds, RunsOff, TypeInv,
       Phases
  <2>2. Linked' <=> Linked
    BY <2>1 DEF Linked, Follow
  <2>3. QED
    BY <1>1, <2>1, <2>2
<1>7. CASE ByteToClusters \/ WriteNode \/ FreeRest \/ Seek
  BY <1>1, <1>7 DEF ByteToClusters, WriteNode, FreeRest, Seek, TypeInv, Phases,
     Reads
<1>8. CASE UNCHANGED vars
  BY <1>1, <1>8 DEF vars, Linked, Follow
<1>9. QED
  BY <1>3, <1>4, <1>5, <1>6, <1>7, <1>8 DEF Next, Step

(* A set of numbers that is bounded has a greatest one.                    *)
LEMMA Greatest ==
  ASSUME NEW n \in Nat, NEW J, J \subseteq 1 .. n, J # {}
  PROVE  \E j \in J : \A k \in J : k <= j
<1> DEFINE D == {n - j : j \in J}
<1>1. D \subseteq Nat /\ D # {}
  <2>1. \A j \in 1 .. n : n - j \in Nat
    BY SMT
  <2>2. QED
    BY <2>1
<1>2. PICK d \in D : \A e \in D : <<e, d>> \notin OpToRel(<, Nat)
  BY ONLY <1>1, WFMin, NatLessThanWellFounded
<1>3. PICK j \in J : d = n - j
  OBVIOUS
<1>4. ASSUME NEW k \in J, ~ (k <= j)  PROVE FALSE
  <2>1. n - k \in D /\ n - k \in Nat /\ d \in Nat
    BY <1>1
  <2>2. n - k < d
    BY <1>3, <1>4, SMT
  <2>3. <<n - k, d>> \in OpToRel(<, Nat)
    BY <2>1, <2>2 DEF OpToRel
  <2>4. QED
    BY <1>2, <2>1, <2>3
<1>5. QED
  BY <1>4

(* A set that holds the first of the numbers up to n and with each one the *)
(* next holds them all.                                                    *)
LEMMA Onward ==
  ASSUME NEW n \in Nat, NEW S, n >= 1 => 1 \in S,
         \A i \in 1 .. n - 1 : i \in S => i + 1 \in S
  PROVE  1 .. n \subseteq S
<1> DEFINE J == {j \in 1 .. n : n + 1 - j \notin S}
<1> SUFFICES ASSUME NEW i \in 1 .. n, i \notin S PROVE FALSE
  OBVIOUS
<1>1. n + 1 - i \in 1 .. n /\ n + 1 - (n + 1 - i) = i
  BY SMT
<1>2. J \subseteq 1 .. n /\ J # {}
  BY <1>1
<1>3. PICK j \in J : \A k \in J : k <= j
  BY <1>2, Greatest
<1>4. j \in 1 .. n /\ n + 1 - j \notin S
  OBVIOUS
<1>5. j # n
  BY <1>4, SMT
<1>6. j + 1 \in 1 .. n /\ n - j \in 1 .. n - 1 /\ n - j + 1 = n + 1 - j
        /\ n + 1 - (j + 1) = n - j
  BY <1>4, <1>5, SMT
<1>7. n - j \notin S
  BY <1>4, <1>6
<1>8. j + 1 \in J
  BY <1>6, <1>7
<1>9. QED
  BY <1>3, <1>4, <1>8, SMT

(* On a list that is linked and does not go on behind its last node, the   *)
(* clusters are those of the chain, and none is in the list twice.         *)
LEMMA LinkedIsChain ==
  ASSUME TypeInv, nodes # <<>>, Linked,
         ~ IsValidCluster(table[nodes[Len(nodes)].no])
  PROVE  /\ {nodes[i].no : i \in DOMAIN nodes} = Reach(table, start)
         /\ Len(nodes) = Cardinality(Reach(table, start))
         /\ ChainEnds(table, start) = {nodes[Len(nodes)].no}
<1> DEFINE n == Len(nodes)
           no(i) == nodes[i].no
           C == {no(i) : i \in 1 .. n}
<1>1. n \in Nat /\ n >= 1 /\ DOMAIN nodes = 1 .. n
  <2>1. nodes \in Seq(Node)
    BY DEF TypeInv, TypeOK, Node
  <2>2. QED
    BY <2>1, SMT
<1>2. /\ no(1) = start
      /\ \A i \in 1 .. n : no(i) \in Entries
      /\ \A i \in 1 .. n - 1 :
           IsValidCluster(table[no(i)]) /\ no(i + 1) = Link(table[no(i)])
  BY DEF Linked, Follow
<1>3. ~ IsValidCluster(table[no(n)])
  OBVIOUS
<1> HIDE DEF n, no
<1>4. start \in C /\ C \subseteq Entries
  BY <1>1, <1>2
<1>5. Closed(table, C)
  <2> SUFFICES ASSUME NEW i \in 1 .. n, IsValidCluster(table[no(i)])
               PROVE  Link(table[no(i)]) \in C
    BY DEF Closed
  <2>1. i \in 1 .. n - 1 /\ i + 1 \in 1 .. n
    BY <1>1, <1>3, SMT
  <2>2. QED
    BY <1>2, <2>1
<1>6. Reach(table, start) \subseteq C
  BY <1>4, <1>5 DEF Reach
<1>7. C \subseteq Reach(table, start)
  <2> SUFFICES ASSUME NEW S \in SUBSET Entries, start \in S, Closed(table, S)
               PROVE  C \subseteq S
    BY <1>4 DEF Reach
  <2> DEFINE I == {i \in 1 .. n : no(i) \in S}
  <2>1. n >= 1 => 1 \in I
    BY <1>1, <1>2
  <2>2. ASSUME NEW i \in 1 .. n - 1, i \in I  PROVE i + 1 \in I
    <3>1. i + 1 \in 1 .. n
      BY <1>1, SMT
    <3>2. no(i + 1) \in S
      BY <1>2, <2>2 DEF Closed
    <3>3. QED
      BY <3>1, <3>2
  <2> HIDE DEF I
  <2>3. 1 .. n \subseteq I
    BY <1>1, <2>1, <2>2, Onward
  <2>4. QED
    BY <2>3 DEF I
<1>8. ASSUME NEW i \in 1 .. n, NEW j \in 1 .. n, i < j, no(i) = no(j)
      PROVE  FALSE
  <2> DEFINE J == {y \in 1 .. n : \E x \in 1 .. n : x < y /\ no(x) = no(y)}
  <2>1. J \subseteq 1 .. n /\ J # {}
    BY <1>8
  <2>2. PICK y \in J : \A k \in J : k <= y
    BY <1>1, <2>1, Greatest
  <2>3. PICK x \in 1 .. n : x < y /\ no(x) = no(y) /\ y \in 1 .. n
    OBVIOUS
  <2>4. x \in 1 .. n - 1
    BY <1>1, <2>3, SMT
  <2>5. y # n
    BY <1>2, <1>3, <2>3, <2>4
  <2>6. y \in 1 .. n - 1
    BY <1>1, <2>3, <2>5, SMT
  <2>7. no(x + 1) = no(y + 1)
    BY <1>2, <2>3, <2>4, <2>6
  <2>8. x + 1 \in 1 .. n /\ y + 1 \in 1 .. n /\ x + 1 < y + 1
    BY <1>1, <2>3, <2>4, <2>6, SMT
  <2>9. y + 1 \in J
    BY <2>7, <2>8
  <2>10. QED
    BY <2>2, <2>3, <2>9, SMT
<1>9. Cardinality(C) = n
  <2> DEFINE f == [i \in 1 .. n |-> no(i)]
  <2>1. f \in [1 .. n -> C]
    OBVIOUS
  <2>2. ASSUME NEW a \in 1 .. n, NEW b \in 1 .. n, f[a] = f[b]  PROVE a = b
    <3>1. no(a) = no(b)
      BY <2>2
    <3>2. a < b \/ b < a \/ a = b
      BY <1>1, SMT
    <3>3. QED
      BY <1>8, <3>1, <3>2
  <2>3. \A c \in C : \E i \in 1 .. n : f[i] = c
    OBVIOUS
  <2>4. f \in Bijection(1 .. n, C)
    <3> HIDE DEF f
    <3>1. f \in Injection(1 .. n, C)
      BY <2>1, <2>2 DEF Injection, IsInjective
    <3>2. f \in Surjection(1 .. n, C)
      BY <2>1, <2>3 DEF Surjection
    <3>3. QED
      BY <3>1, <3>2 DEF Bijection
  <2>5. IsFiniteSet(1 .. n) /\ Cardinality(1 .. n) = n
    BY <1>1, FS_Interval, SMT
  <2>6. QED
    BY <2>4, <2>5, FS_Bijection DEF ExistsBijection
<1>10. C = Reach(table, start)
  BY <1>6, <1>7
<1>11. {d \in C : ~ IsValidCluster(table[d])} = {no(n)}
  <2>1. ASSUME NEW i \in 1 .. n, ~ IsValidCluster(table[no(i)])  PROVE i = n
    BY <1>1, <1>2, <2>1, SMT
  <2>2. no(n) \in C
    BY <1>1
  <2>3. QED
    BY <1>3, <2>1, <2>2
<1>12. ChainEnds(table, start) = {no(n)}
  BY <1>10, <1>11 DEF ChainEnds
<1>13. QED
  BY <1>1, <1>9, <1>10, <1>12 DEF n, no

LEMMA ChainIsWhole == ChainInv => ListIsChain
<1> SUFFICES ASSUME ChainInv, call = "read", pc = "done", nodes # <<>>
             PROVE  /\ {nodes[i].no : i \in DOMAIN nodes} = Reach(table, start)
                    /\ Len(nodes) = Cardinality(Reach(table, start))
                    /\ ChainEnds(table, start) = {nodes[Len(nodes)].no}
  BY DEF ListIsChain
<1>1. TypeInv /\ Linked /\ ~ IsValidCluster(table[nodes[Len(nodes)].no])
  BY DEF ChainInv, Reads
<1>2. QED
  BY <1>1, LinkedIsChain

(* The list __fat_read_clusters returns is the chain it was called for:    *)
(* every cluster of it, each once, and it ends where the chain ends, on    *)
(* any table and whatever prevCluster held at first.                       *)
THEOREM ListAlwaysIsChain == Spec => []ListIsChain
<1>1. Init => ChainInv
  BY TypeInit DEF Init, ChainInv
<1>2. QED
  BY <1>1, ChainIsWhole, ChainStep, PTL DEF Spec

----------------------------------------------------------------------------
(***************************************************************************)
(* The content of a file, as long as a cluster is one sector: the offset   *)
(* then stands behind the nodes copied, and the bytes before it are those  *)
(* of the file.                                                            *)
(***************************************************************************)
SectorClusters == SecPerClus = 1

ByteOf(x) == <<x \div ClusterBytes + 1, x % ClusterBytes>>

LongEnough == Len(nodes) = (size + ClusterBytes - 1) \div ClusterBytes

CopiedTo(n) == ~ overrun /\ \A x \in 0 .. n - 1 : content[x] = ByteOf(x)

ContentInv ==
  /\ TypeInv
  /\ pc = "read" => copied = 0 /\ offset = 0 /\ ~ overrun
  /\ pc = "copy" =>
       /\ copied < Len(nodes) /\ offset = copied * ClusterBytes
       /\ LongEnough => CopiedTo(offset)
  /\ call = "content" /\ pc = "done" =>
       nodes # <<>> /\ (LongEnough => CopiedTo(size))

(* The size, told by the number of its clusters.                           *)
LEMMA SizeBounds ==
  ASSUME TypeOK, LongEnough, NEW k \in Nat
  PROVE  /\ k + 1 < Len(nodes) => k * ClusterBytes + ClusterBytes <= size
         /\ k + 1 = Len(nodes) =>
              size - k * ClusterBytes \in 0 .. ClusterBytes
<1> DEFINE W == WholeClusters
           R == Rest
           C == ClusterBytes
<1>1. /\ W \in Nat /\ R \in 0 .. C - 1 /\ size = W * C + R
      /\ C \in Nat \ {0} /\ W * C \in Nat /\ k * C \in Nat
  BY SplitType, Sizes, SMT
<1>2. Len(nodes) = W + IF R # 0 THEN 1 ELSE 0
  BY ClustersOfSize DEF LongEnough
<1> HIDE DEF W, R, C
<1>3. ASSUME NEW a \in Nat, NEW b \in Nat, a <= b  PROVE a * C <= b * C
  <2>1. b - a \in Nat
    BY <1>3, SMT
  <2>2. (b - a) * C \in Nat /\ b * C = a * C + (b - a) * C
    BY <1>1, <2>1, SMT
  <2>3. a * C \in Nat /\ b * C \in Nat
    BY <1>1, SMT
  <2>4. QED
    BY <2>2, <2>3, SMT
<1>4. (k + 1) * C = k * C + C
  BY <1>1, SMT
<1>5. ASSUME k + 1 < Len(nodes)  PROVE k * C + C <= size
  <2>1. k + 1 <= W
    BY <1>1, <1>2, <1>5, SMT
  <2>2. (k + 1) * C <= W * C
    BY <1>1, <1>3, <2>1
  <2>3. QED
    BY <1>1, <1>4, <2>2, SMT
<1>6. ASSUME k + 1 = Len(nodes)  PROVE size - k * C \in 0 .. C
  <2>1. CASE R = 0
    <3>1. W = k + 1
      BY <1>1, <1>2, <1>6, <2>1, SMT
    <3>2. QED
      BY <1>1, <1>4, <2>1, <3>1, SMT
  <2>2. CASE R # 0
    <3>1. W = k
      BY <1>1, <1>2, <1>6, <2>2, SMT
    <3>2. QED
      BY <1>1, <2>2, <3>1, SMT
  <2>3. QED
    BY <2>1, <2>2
<1>7. QED
  BY <1>5, <1>6 DEF C

(* Node k + 1 copied behind the bytes of k clusters gives the right bytes. *)
LEMMA FilledRight ==
  ASSUME TypeOK, NEW k \in Nat, offset = k * ClusterBytes,
         NEW n \in 0 .. ClusterBytes, offset + n <= size,
         \A x \in 0 .. offset - 1 : content[x] = ByteOf(x)
  PROVE  \A x \in 0 .. offset + n - 1 : Filled(k + 1, n)[x] = ByteOf(x)
<1> SUFFICES ASSUME NEW x \in 0 .. offset + n - 1
             PROVE  Filled(k + 1, n)[x] = ByteOf(x)
  OBVIOUS
<1>1. /\ offset \in Nat /\ size \in 0 .. MaxSize /\ MaxSize \in Nat
      /\ ClusterBytes \in Nat \ {0}
  BY ReaderAssumption, Sizes DEF TypeOK
<1>2. x \in 0 .. MaxSize - 1
  BY <1>1, SMT
<1>3. CASE x < offset
  <2>1. x \in 0 .. offset - 1
    BY <1>1, <1>3, SMT
  <2>2. ~ (offset <= x)
    BY <1>1, <1>3, SMT
  <2>3. QED
    BY <1>2, <2>1, <2>2 DEF Filled
<1>4. CASE offset <= x
  <2> DEFINE r == x - offset
  <2>1. r \in 0 .. ClusterBytes - 1 /\ x = k * ClusterBytes + r /\ x < offset + n
    BY <1>1, <1>4, SMT
  <2>2. x \div ClusterBytes = k
    BY <1>1, <2>1, QuotientUnique
  <2>3. x % ClusterBytes = r
    <3>1. x = k * ClusterBytes + (x % ClusterBytes) /\ x % ClusterBytes \in Nat
      <4>1. x \in Nat
        BY <1>2
      <4>2. /\ x = (x \div ClusterBytes) * ClusterBytes + (x % ClusterBytes)
            /\ x % ClusterBytes \in 0 .. ClusterBytes - 1
        BY <1>1, <4>1, Division
      <4>3. QED
        BY <1>1, <2>2, <4>2
    <3>2. k * ClusterBytes \in Nat
      BY <1>1
    <3>3. QED
      BY <2>1, <3>1, <3>2, SMT
  <2>4. QED
    BY <1>2, <1>4, <2>1, <2>2, <2>3 DEF Filled, ByteOf
<1>5. QED
  BY <1>1, <1>3, <1>4, SMT

LEMMA ContentStep ==
  ASSUME PositionsFit, SectorClusters, ContentInv, [Next]_vars
  PROVE  ContentInv'
<1> USE DEF ContentInv
<1>1. TypeInv'
  BY TypeStep
<1>2. /\ TypeOK /\ nodes \in Seq(Node) /\ copied \in Nat /\ offset \in Nat
      /\ size \in 0 .. MaxSize /\ MaxSize \in Nat /\ Len(nodes) \in Nat
  BY ReaderAssumption DEF TypeInv, TypeOK, Node
<1>3. ClusterBytes = BytsPerSec /\ ClusterBytes \in Nat \ {0}
  BY GeometryAssumption, Sizes, SMT DEF SectorClusters, ClusterBytes
<1>4. CASE ReadCluster \/ SeekFails \/ ReadFails
  <2>1. pc' \in {"read", "failed", "crashed"}
          /\ UNCHANGED <<copied, offset, overrun>> /\ pc = "read"
    BY <1>4 DEF ReadCluster, SeekFails, ReadFails, GivesUp
  <2>2. QED
    BY <1>1, <2>1
<1>5. CASE ReadEnds
  <2>1. /\ copied = 0 /\ offset = 0 /\ ~ overrun
        /\ UNCHANGED <<call, nodes, size, offset, copied, content, overrun>>
        /\ pc' = "copy" => nodes # <<>>
        /\ pc' = "done" => call = "read"
        /\ pc' # "read"
    BY <1>5 DEF ReadEnds
  <2>2. nodes # <<>> => 0 < Len(nodes)
    BY <1>2, SMT
  <2>3. CopiedTo(0) /\ 0 = 0 * ClusterBytes
    BY <1>3, <2>1, SMT DEF CopiedTo
  <2>4. CopiedTo(offset)' /\ offset' = 0 /\ copied' = 0
    BY <2>1, <2>3 DEF CopiedTo
  <2>5. QED
    BY <1>1, <2>1, <2>2, <2>3, <2>4
<1>6. CASE CopyWhole
  <2>1. /\ pc = "copy" /\ pc' = "copy" /\ copied + 1 < Len(nodes)
        /\ copied' = copied + 1 /\ offset' = offset + ClusterBytes
        /\ nodes' = nodes /\ size' = size
        /\ content' = Filled(copied + 1, ClusterBytes)
        /\ overrun' = (overrun \/ offset + ClusterBytes > size)
    BY <1>3, <1>6 DEF CopyWhole, Advance
  <2>2. offset = copied * ClusterBytes /\ (LongEnough => CopiedTo(offset))
    BY <2>1
  <2>3. offset' = copied' * ClusterBytes
    BY <1>2, <1>3, <2>1, <2>2, SMT
  <2>4. ASSUME LongEnough  PROVE CopiedTo(offset)'
    <3>1. offset + ClusterBytes <= size
      BY <1>2, <2>1, <2>2, <2>4, SizeBounds
    <3>2. ClusterBytes \in 0 .. ClusterBytes
      BY <1>3, SMT
    <3>3. \A x \in 0 .. offset + ClusterBytes - 1 : content'[x] = ByteOf(x)
      BY <1>2, <2>1, <2>2, <2>4, <3>1, <3>2, FilledRight DEF CopiedTo
    <3>4. ~ overrun'
      <4>1. ~ (offset + ClusterBytes > size)
        BY <1>2, <1>3, <3>1, SMT
      <4>2. QED
        BY <2>1, <2>2, <2>4, <4>1 DEF CopiedTo
    <3>5. offset' - 1 = offset + ClusterBytes - 1
      BY <1>2, <1>3, <2>1, SMT
    <3>6. \A x \in 0 .. offset' - 1 : content'[x] = ByteOf(x)
      BY <3>3, <3>5, Zenon
    <3>7. QED
      BY <3>4, <3>6 DEF CopiedTo
  <2>5. LongEnough' <=> LongEnough
    BY <2>1 DEF LongEnough
  <2>6. QED
    BY <1>1, <2>1, <2>3, <2>4, <2>5 DEF CopiedTo
<1>7. CASE CopyRest
  <2> DEFINE delta == (size - offset) % Word
  <2>1. /\ pc = "copy" /\ pc' = "done" /\ copied + 1 = Len(nodes)
        /\ nodes' = nodes /\ size' = size /\ offset' = offset
        /\ content' = Filled(copied + 1, delta)
        /\ overrun' = (overrun \/ delta > ClusterBytes)
    BY <1>7 DEF CopyRest
  <2>2. offset = copied * ClusterBytes /\ (LongEnough => CopiedTo(offset))
    BY <2>1
  <2>3. ASSUME LongEnough  PROVE CopiedTo(size)'
    <3>1. size - offset \in 0 .. ClusterBytes
      BY <1>2, <2>1, <2>2, <2>3, SizeBounds
    <3>2. ClusterBytes < Word
      <4>1. FirstDataSector * BytsPerSec \in Nat
        BY Sizes, SMT
      <4>2. NumEntries = 2 + (NumEntries - 2) /\ NumEntries - 2 \in Nat
        BY Sizes, TableAssumption, SMT
      <4>3. /\ NumEntries * ClusterBytes
                 = 2 * ClusterBytes + (NumEntries - 2) * ClusterBytes
            /\ (NumEntries - 2) * ClusterBytes \in Nat
        BY <1>3, <4>2, SMT
      <4>4. QED
        BY <1>3, <4>1, <4>3, Sizes, SMT DEF PositionsFit
    <3>3. delta = size - offset
      BY <1>3, <3>1, <3>2, Sizes, SmallRemainder, SMT
    <3>4. delta \in 0 .. ClusterBytes /\ offset + delta = size
      BY <1>2, <3>1, <3>3, SMT
    <3> HIDE DEF delta
    <3>5. \A x \in 0 .. size - 1 : content'[x] = ByteOf(x)
      BY <1>2, <2>1, <2>2, <2>3, <3>4, FilledRight, SMT DEF CopiedTo
    <3>6. ~ overrun'
      <4>1. ~ (delta > ClusterBytes)
        BY <1>3, <3>4, SMT
      <4>2. QED
        BY <2>1, <2>2, <2>3, <4>1 DEF CopiedTo
    <3>7. QED
      BY <2>1, <3>5, <3>6 DEF CopiedTo
  <2>4. LongEnough' <=> LongEnough
    BY <2>1 DEF LongEnough
  <2>5. nodes' # <<>>
    BY <1>2, <2>1, SMT
  <2>6. QED
    BY <1>1, <2>1, <2>3, <2>4, <2>5
<1>8. CASE MergeCluster \/ MergeEnds \/ RunsOff
  <2>1. pc' \in {"merge", "done", "crashed"} /\ (pc' = "done" => call' # "content")
    BY <1>8 DEF MergeCluster, MergeEnds, RunsOff, TypeInv, Phases
  <2>2. QED
    BY <1>1, <2>1
<1>9. CASE ByteToClusters \/ WriteNode \/ FreeRest \/ Seek
  <2>1. pc' \notin {"read", "copy"} /\ call' # "content"
    BY <1>9 DEF ByteToClusters, WriteNode, FreeRest, Seek, TypeInv, Phases
  <2>2. QED
    BY <1>1, <2>1
<1>10. CASE UNCHANGED vars
  BY <1>1, <1>10 DEF vars, LongEnough, CopiedTo
<1>11. QED
  BY <1>4, <1>5, <1>6, <1>7, <1>8, <1>9, <1>10 DEF Next, Step

(* A byte of the file lies in a cluster of its list.                       *)
LEMMA ByteInList ==
  ASSUME TypeOK, LongEnough, nodes # <<>>, NEW x \in 0 .. size - 1
  PROVE  x \div ClusterBytes + 1 \in DOMAIN nodes
<1> DEFINE C == ClusterBytes
           q == x \div ClusterBytes
           n == Len(nodes)
<1>1. /\ nodes \in Seq(Node) /\ n \in Nat \ {0} /\ DOMAIN nodes = 1 .. n
      /\ size \in Nat /\ C \in Nat \ {0} /\ x \in Nat /\ x < size
  <2>1. nodes \in Seq(Node) /\ size \in 0 .. MaxSize /\ MaxSize \in Nat
    BY ReaderAssumption DEF TypeOK, Node
  <2>2. QED
    BY <2>1, Sizes, SMT
<1>2. /\ q \in Nat /\ x % C \in 0 .. C - 1 /\ x = q * C + (x % C)
  BY <1>1, Division
<1>3. size - (n - 1) * C \in 0 .. C
  <2>1. n - 1 \in Nat /\ (n - 1) + 1 = Len(nodes)
    BY <1>1, SMT
  <2>2. QED
    BY <2>1, SizeBounds
<1> HIDE DEF C, q, n
<1>4. ASSUME q >= n  PROVE FALSE
  <2>1. q - (n - 1) - 1 \in Nat
    BY <1>1, <1>2, <1>4, SMT
  <2>2. /\ (q - (n - 1) - 1) * C \in Nat
        /\ q * C = (n - 1) * C + C + (q - (n - 1) - 1) * C
    BY <1>1, <1>2, <2>1, SMT
  <2>3. (n - 1) * C \in Int /\ q * C \in Int
    BY <1>1, <1>2, SMT
  <2>4. QED
    BY <1>1, <1>2, <1>3, <2>2, <2>3, SMT
<1>5. q + 1 \in 1 .. n
  BY <1>1, <1>2, <1>4, SMT
<1>6. QED
  BY <1>1, <1>5 DEF q, n

(* The bytes copied are those of the nodes, these the clusters of the      *)
(* chain, and each read from its place if the first of them was.           *)
LEMMA ContentRight ==
  ASSUME ContentInv, PlaceInv, ChainInv
  PROVE  ContentIsFile
<1> SUFFICES ASSUME call = "content", pc = "done", LongEnough,
                    nodes[1].from = ReadPos(nodes[1].no)
             PROVE  /\ ~ overrun
                    /\ nodes[1].no = start
                    /\ \A i \in 1 .. Len(nodes) - 1 :
                         nodes[i + 1].no = Link(table[nodes[i].no])
                    /\ \A x \in 0 .. size - 1 :
                         /\ content[x][1] \in DOMAIN nodes
                         /\ nodes[content[x][1]].from + content[x][2]
                              = ReadPos(nodes[x \div ClusterBytes + 1].no)
                                  + (x % ClusterBytes)
  BY DEF ContentIsFile, LongEnough
<1>1. CopiedTo(size) /\ TypeOK /\ nodes # <<>>
  BY DEF ContentInv, TypeInv
<1>2. Linked
  BY <1>1 DEF ChainInv, Reads
<1>3. \A i \in DOMAIN nodes : nodes[i].from = ReadPos(nodes[i].no)
  BY <1>1 DEF PlaceInv, EachFromItsPlace, Reads
<1>4. ASSUME NEW x \in 0 .. size - 1
      PROVE  /\ content[x][1] \in DOMAIN nodes
             /\ nodes[content[x][1]].from + content[x][2]
                  = ReadPos(nodes[x \div ClusterBytes + 1].no) + (x % ClusterBytes)
  <2>1. content[x] = <<x \div ClusterBytes + 1, x % ClusterBytes>>
    BY <1>1 DEF CopiedTo, ByteOf
  <2>2. x \div ClusterBytes + 1 \in DOMAIN nodes
    BY <1>1, ByteInList
  <2>3. content[x][1] = x \div ClusterBytes + 1 /\ content[x][2] = x % ClusterBytes
    BY <2>1
  <2>4. QED
    BY <1>3, <2>2, <2>3
<1>5. QED
  BY <1>1, <1>2, <1>4 DEF CopiedTo, Linked, Follow

(* Where a cluster is one sector, on a volume under 4 GiB, a file is read  *)
(* as it is if its first cluster is read from its place: of a chain as     *)
(* long as the size asks for every byte comes from where it stands on the  *)
(* device and nothing else is touched.  With more sectors to a cluster this*)
(* is not so.                                                              *)
THEOREM ContentAlwaysFile ==
  ASSUME PositionsFit, SectorClusters
  PROVE  Spec => []ContentIsFile
<1> DEFINE Inv == ContentInv /\ PlaceInv /\ ChainInv
<1>1. Init => Inv
  <2>1. Init => /\ pc \in {"read", "split", "seek"}
                /\ copied = 0 /\ offset = 0 /\ ~ overrun
                /\ nodes = <<>> /\ next = start
    BY DEF Init, Calls, Reads
  <2>2. QED
    BY <2>1, TypeInit DEF ContentInv, ChainInv, PlaceInv, EachFromItsPlace,
       OffsetFollows
<1>2. Inv /\ [Next]_vars => Inv'
  BY ContentStep, PlaceStep, ChainStep
<1>3. Inv => ContentIsFile
  BY ContentRight
<1>4. QED
  BY <1>1, <1>2, <1>3, PTL DEF Spec
=============================================================================
