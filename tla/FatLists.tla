----------------------------- MODULE FatLists -----------------------------
(***************************************************************************)
(* The loops of fat_c.c over chains and over lists of clusters:            *)
(* __fat_read_clusters turns a chain into a list of clusters read from the *)
(* device, __fat_get_file_content a list into the bytes of a file,         *)
(* __fat_merge_clusters a list into one buffer, __fat_byte_to_clusters the *)
(* bytes of a file into the list that __fat_insert_file writes, and        *)
(* __fat_seek_last_cluster looks for the end of a chain.  One call of one  *)
(* of them, on any table, is a behaviour; the table does not change.       *)
(*                                                                         *)
(* The bytes of a node are represented by where they come from.            *)
(***************************************************************************)
EXTENDS FatTable, Sequences

CONSTANTS
  ChainTables,   \* the tables a call may find in memory
  Garbage,       \* what an uninitialised prevCluster may hold
  Offsets,       \* where the file offset of the device may be at a call
  MaxSize,       \* bound: bytes in a file
  MaxNodes       \* bound: nodes of a list; a chain that ends has fewer

\* What a link off the table would read is nothing the code has written.
ASSUME ReaderAssumption ==
  /\ ChainTables \subseteq Tables
  /\ \A t \in ChainTables : \A c \in Entries :
       IsValidCluster(t[c]) => Link(t[c]) \in Entries
  /\ Garbage \subseteq 0 .. Word - 1
  /\ NumEntries < Word
  /\ Offsets \subseteq Nat
  /\ MaxSize \in Nat \ {0}
  /\ MaxNodes \in Nat /\ MaxNodes > NumEntries

VARIABLES
  call,      \* the function called
  table,     \* FAT_TABLE
  next,      \* nextCluster, or currentCluster of __fat_seek_last_cluster
  prev,      \* prevCluster, or prev; in __fat_insert_file a node, 0 for none
  start,     \* the cluster number the call was made with
  at,        \* the file offset
  nodes,     \* the list built: cluster numbers and where the bytes come from
  size,      \* iFileSize of the entry
  offset,    \* offset
  copied,    \* nodes copied to the file's buffer, or written to the device
  content,   \* the buffer: which node each byte came from, and which byte of it
  overrun,   \* bytes were written behind the buffer, read behind a node, or
             \* freed that were not allocated
  pc

vars == <<call, table, next, prev, start, at, nodes, size, offset, copied,
          content, overrun, pc>>

Calls == {"read", "content", "merge", "insert", "seek"}
Reads == {"read", "content", "merge"}
NoByte == <<0, 0>>

TypeOK ==
  /\ call \in Calls \cup {"none"}
  /\ table \in ChainTables
  /\ next \in IF call = "seek" THEN Nat ELSE 0 .. Mask - 1
  /\ prev \in Nat /\ start \in Entries
  /\ at \in Nat
  /\ nodes \in Seq([no : 0 .. Word - 1, from : Nat])
  /\ size \in 0 .. MaxSize /\ offset \in Nat /\ copied \in Nat
  /\ content \in [0 .. MaxSize - 1 -> Nat \X Nat]
  /\ overrun \in BOOLEAN
  /\ pc \in {"idle", "read", "copy", "merge", "split", "walk", "seek", "done",
             "failed", "crashed"}

Init ==
  /\ call \in Calls
  /\ table \in ChainTables
  /\ start \in Entries
  /\ next = start
  /\ prev \in IF call \in Reads THEN Garbage ELSE {0}
  /\ at \in IF call \in Reads THEN Offsets ELSE {0}
  /\ nodes = <<>>
  /\ size \in CASE call = "content" -> 1 .. MaxSize
               [] call = "insert" -> 0 .. MaxSize
               [] OTHER -> {0}
  /\ offset = 0 /\ copied = 0
  /\ content = [x \in 0 .. MaxSize - 1 |-> NoByte]
  /\ overrun = FALSE
  /\ pc = CASE call \in Reads -> "read"
            [] call = "insert" -> "split"
            [] OTHER -> "seek"

----------------------------------------------------------------------------
(***************************************************************************)
(* __fat_read_clusters.  The device is sought only if the cluster does not *)
(* follow the one read before, the difference being taken in a uint32_t.   *)
(***************************************************************************)
\* Changed: any cluster further on is taken to follow.
ContinuesAhead(p, n) == n > p

Continues(p, n) == (n - p) % Word = 1

Place == IF Continues(prev, next) THEN at ELSE ReadPos(next)

\* Changed: a node is put in front of those read before it.
Pushed(node) == <<node>> \o nodes

Joined(node) == Append(nodes, node)

\* Changed: the upper four bits stay in the number.
FollowUnmasked(c) == table[c]

\* Changed: the entry looked up is always the first one.
FollowFirst(c) == Link(table[start])

Follow(c) == Link(table[c])

ReadCluster ==
  /\ pc = "read"
  /\ IsValidCluster(next)
  /\ Len(nodes) < MaxNodes
  /\ nodes' = Joined([no |-> next, from |-> Place])
  /\ at' = Place + ClusterBytes
  /\ prev' = next
  /\ next' = Follow(next)
  /\ UNCHANGED <<call, table, start, size, offset, copied, content, overrun, pc>>

(***************************************************************************)
(* lseek or read fails.  The list so far is freed; after a failed lseek    *)
(* with its last next never set, so that more than the list may be freed.  *)
(* __fat_get_file_content does not look at the result.                     *)
(***************************************************************************)
GivesUp == IF call = "content" THEN "crashed" ELSE "failed"

SeekFails ==
  /\ pc = "read"
  /\ IsValidCluster(next)
  /\ ~ Continues(prev, next)
  /\ nodes' = <<>>
  /\ pc' \in {GivesUp} \cup IF nodes = <<>> THEN {} ELSE {"crashed"}
  /\ UNCHANGED <<call, table, next, prev, start, at, size, offset, copied,
                 content, overrun>>

ReadFails ==
  /\ pc = "read"
  /\ IsValidCluster(next)
  /\ nodes' = <<>>
  /\ at' = Place
  /\ pc' = GivesUp
  /\ UNCHANGED <<call, table, next, prev, start, size, offset, copied, content,
                 overrun>>

(***************************************************************************)
(* __fat_get_file_content dereferences a list that is NULL.  Of one that   *)
(* is not, the last node's next was never written: what malloc left there  *)
(* is NULL, or the walk runs on into memory that is no node (RunsOff).     *)
(***************************************************************************)
ReadEnds ==
  /\ pc = "read"
  /\ ~ IsValidCluster(next)
  /\ pc' = CASE call = "read" -> "done"
             [] call = "content" /\ nodes # <<>> -> "copy"
             [] call = "merge" -> "merge"
             [] OTHER -> "crashed"
  /\ UNCHANGED <<call, table, next, prev, start, at, nodes, size, offset, copied,
                 content, overrun>>

(***************************************************************************)
(* __fat_get_file_content: every node but the last is copied whole and the *)
(* offset moved on by sBytsPerSec; of the last, what is left of iFileSize, *)
(* in a uint32_t.                                                          *)
(***************************************************************************)
Filled(i, n) ==
  [x \in 0 .. MaxSize - 1 |->
     IF offset <= x /\ x < offset + n THEN <<i, x - offset>> ELSE content[x]]

\* Changed: the offset stays where it is.
AdvanceNone == 0

Advance == BytsPerSec

CopyWhole ==
  /\ pc = "copy"
  /\ copied + 1 < Len(nodes)
  /\ content' = Filled(copied + 1, ClusterBytes)
  /\ overrun' = (overrun \/ offset + ClusterBytes > size)
  /\ offset' = offset + Advance
  /\ copied' = copied + 1
  /\ UNCHANGED <<call, table, next, prev, start, at, nodes, size, pc>>

CopyRest ==
  /\ pc = "copy"
  /\ copied + 1 = Len(nodes)
  /\ LET delta == (size - offset) % Word
     IN  /\ content' = Filled(copied + 1, delta)
         /\ overrun' = (overrun \/ delta > ClusterBytes)
  /\ copied' = copied + 1
  /\ pc' = "done"
  /\ UNCHANGED <<call, table, next, prev, start, at, nodes, size, offset>>

(***************************************************************************)
(* __fat_merge_clusters, on a list just read: room for all of the clusters *)
(* is allocated, and each of them is copied to the beginning of it.        *)
(***************************************************************************)
MergeCluster ==
  /\ pc = "merge"
  /\ copied < Len(nodes)
  /\ content' = Filled(copied + 1, ClusterBytes)
  /\ copied' = copied + 1
  /\ UNCHANGED <<call, table, next, prev, start, at, nodes, size, offset, overrun,
                 pc>>

MergeEnds ==
  /\ pc = "merge"
  /\ copied = Len(nodes)
  /\ pc' = "done"
  /\ UNCHANGED <<call, table, next, prev, start, at, nodes, size, offset, copied,
                 content, overrun>>

RunsOff ==
  /\ \/ pc = "copy" /\ copied + 1 = Len(nodes)
     \/ pc = "merge" /\ copied = Len(nodes) /\ nodes # <<>>
  /\ pc' = "crashed"
  /\ UNCHANGED <<call, table, next, prev, start, at, nodes, size, offset, copied,
                 content, overrun>>

----------------------------------------------------------------------------
(***************************************************************************)
(* __fat_byte_to_clusters.  Every whole cluster points into the caller's   *)
(* bytes, and at the second cluster of them at that; what is left over is  *)
(* copied to a cluster of its own.                                         *)
(***************************************************************************)
WholeClusters == size \div ClusterBytes

Rest == size % ClusterBytes

WholeNode == [no |-> StrayNumber, from |-> 1 * ClusterBytes]

\* Changed: the rest is taken from one cluster too far on.
RestNodeFar == [no |-> StrayNumber, from |-> (WholeClusters + 1) * ClusterBytes]

RestNode == [no |-> StrayNumber, from |-> WholeClusters * ClusterBytes]

ByteToClusters ==
  /\ pc = "split"
  /\ nodes' = [i \in 1 .. WholeClusters |-> WholeNode]
                \o IF Rest # 0 THEN <<RestNode>> ELSE <<>>
  /\ pc' = "walk"
  /\ UNCHANGED <<call, table, next, prev, start, at, size, offset, copied, content,
                 overrun>>

(***************************************************************************)
(* The loop of __fat_insert_file over that list, and the release of the    *)
(* copy.  An empty list is dereferenced, and so is a prevCluster that was  *)
(* never set.                                                              *)
(***************************************************************************)
WriteNode ==
  /\ pc = "walk"
  /\ copied < Len(nodes)
  /\ copied' = copied + 1
  /\ prev' = IF copied = 0 THEN prev ELSE copied + 1
  /\ UNCHANGED <<call, table, next, start, at, nodes, size, offset, content,
                 overrun, pc>>

FreeRest ==
  /\ pc = "walk"
  /\ copied = Len(nodes)
  /\ \/ nodes = <<>> /\ pc' = "crashed" /\ UNCHANGED overrun
     \/ nodes # <<>> /\ Rest = 0 /\ pc' = "done" /\ UNCHANGED overrun
     \/ Rest # 0 /\ prev = 0 /\ pc' \in {"crashed", "done"} /\ overrun' = TRUE
     \/ Rest # 0 /\ prev # 0 /\ pc' = "done"
          /\ overrun' = (prev # Len(nodes))
  /\ UNCHANGED <<call, table, next, prev, start, at, nodes, size, offset, copied,
                 content>>

----------------------------------------------------------------------------
(***************************************************************************)
(* __fat_seek_last_cluster.  The entry looked up is always the first one.  *)
(***************************************************************************)
Seek ==
  /\ pc = "seek"
  /\ prev' = next
  /\ next' = table[start]
  /\ pc' = IF IsValidCluster(table[start]) THEN "seek" ELSE "done"
  /\ UNCHANGED <<call, table, start, at, nodes, size, offset, copied, content,
                 overrun>>

Step ==
  \/ ReadCluster \/ ReadEnds
  \/ CopyWhole \/ CopyRest \/ MergeCluster \/ MergeEnds \/ RunsOff
  \/ ByteToClusters \/ WriteNode \/ FreeRest
  \/ Seek

Next == Step \/ SeekFails \/ ReadFails

\* A call runs until it returns.  The device need not ever fail.
Spec == Init /\ [][Next]_vars /\ WF_vars(Step)

----------------------------------------------------------------------------
\* The chain the call is about comes to an end inside the table.
Sane == Acyclic(table) /\ LinksLive(table) /\ table[start] # AVAILABLE

(* Leaving out the seek between neighbours is sound: if the first cluster  *)
(* of a chain was read from its place then so was every other one, however *)
(* the chain jumps back and forth.                                         *)
EachFromItsPlace ==
  call \in Reads /\ nodes # <<>> /\ nodes[1].from = ReadPos(nodes[1].no) =>
    \A i \in DOMAIN nodes : nodes[i].from = ReadPos(nodes[i].no)

(* The list a call returns is the chain: the clusters that can be reached, *)
(* each once, the last one being where the chain ends.                     *)
ListIsChain ==
  call = "read" /\ pc = "done" /\ nodes # <<>> =>
    /\ {nodes[i].no : i \in DOMAIN nodes} = Reach(table, start)
    /\ Len(nodes) = Cardinality(Reach(table, start))
    /\ ChainEnds(table, start) = {nodes[Len(nodes)].no}

(* A chain that ends is followed to its end and no further.                *)
ReadReturns ==
  Sane /\ call \in Reads ~> pc \in {"done", "failed", "crashed"}

(* What main.c says is done, the reading of any file: given a chain that   *)
(* ends and is as long as the size of the file asks for, byte x of the file*)
(* comes from where, on the device, byte x modulo the cluster size of the  *)
(* cluster stands that x \div the cluster size links lead to, and no other *)
(* memory is touched.  This is only asked if the first cluster has been    *)
(* read from its place; with start - 1 in the uninitialised prevCluster it *)
(* is read from wherever the file offset stands.                           *)
ContentIsFile ==
  Sane /\ call = "content" /\ pc = "done"
    /\ Len(nodes) = (size + ClusterBytes - 1) \div ClusterBytes
    /\ nodes[1].from = ReadPos(nodes[1].no) =>
      /\ ~ overrun
      /\ nodes[1].no = start
      /\ \A i \in 1 .. Len(nodes) - 1 : nodes[i + 1].no = Link(table[nodes[i].no])
      /\ \A x \in 0 .. size - 1 :
           /\ content[x][1] \in DOMAIN nodes
           /\ nodes[content[x][1]].from + content[x][2]
                = ReadPos(nodes[x \div ClusterBytes + 1].no) + (x % ClusterBytes)

(* A file is cut into as many clusters as its size asks for, and only what *)
(* was allocated for the rest of it is released when it has been written,  *)
(* as soon as there is a whole cluster before the rest.                    *)
CutIntoClusters ==
  call = "insert" /\ pc \in {"walk", "done"} =>
    /\ Len(nodes) = (size + ClusterBytes - 1) \div ClusterBytes
    /\ Rest # 0 => nodes[Len(nodes)].from = size - Rest
    /\ WholeClusters > 0 => ~ overrun

(* What __fat_byte_to_clusters says of itself: each element of the list    *)
(* represents one cluster of the bytes given.                              *)
EachItsPart ==
  call = "insert" /\ pc = "walk" =>
    \A i \in DOMAIN nodes : nodes[i].from = (i - 1) * ClusterBytes

(* What __fat_seek_last_cluster says of itself: it stores the last cluster *)
(* of the chain, which takes coming to an end.                             *)
SeekFindsLast ==
  Sane /\ call = "seek" =>
    <>(pc = "done" /\ ChainEnds(table, start) = {prev})
=============================================================================
