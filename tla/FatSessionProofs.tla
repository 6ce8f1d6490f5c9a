-------------------------- MODULE FatSessionProofs --------------------------
(***************************************************************************)
(* Proofs about FatSession: what is proved of a call of FatLists by itself *)
(* holds of the calls main makes too, from wherever the file offset has    *)
(* been left; and a long name is read from consecutive entries.            *)
(***************************************************************************)
EXTENDS FatSession, FatListsProofs

Before == {"open", "stats", "mbr", "bpb", "fsinfo"}
Reading == {"first", "rest"}
Stages == {"alone", "clusters", "wild"} \cup Before \cup Reading \cup Returned

(***************************************************************************)
(* Until it calls __fat_read_clusters main has no list and calls no loop;  *)
(* the call is made with cluster 2 and does not return an empty list.      *)
(***************************************************************************)
Fresh == call = "none" /\ pc = "idle" /\ start = 2 /\ next = 2 /\ nodes = <<>>

Called ==
  /\ call = "read"
  /\ pc \in {"read", "done", "failed", "crashed"}
  /\ pc = "read" /\ nodes = <<>> => next = 2
  /\ pc = "done" => nodes # <<>>

SessionInv ==
  /\ TypeInv
  /\ stage \in Stages
  /\ stage \in Before => Fresh
  /\ stage = "clusters" => Fresh \/ Called
  /\ stage \in Reading => call = "read" /\ pc = "done" /\ nodes # <<>>

LEMMA DirSlotsType == DirSlots \in Nat \ {0}
<1>1. /\ EntrySize \in Nat \ {0} /\ ClusterBytes \in Nat \ {0}
      /\ EntrySize <= ClusterBytes
  BY Sizes, SessionAssumption
<1>2. /\ DirSlots \in Nat /\ ClusterBytes % EntrySize \in 0 .. EntrySize - 1
      /\ ClusterBytes = DirSlots * EntrySize + (ClusterBytes % EntrySize)
  BY <1>1, Division DEF DirSlots
<1>3. DirSlots # 0
  BY <1>1, <1>2, SMT
<1>4. QED
  BY <1>2, <1>3

LEMMA Two == 2 \in Entries /\ IsValidCluster(2) /\ 2 \in Nat
<1>1. 2 \in Entries
  BY TableAssumption, SMT DEF Entries
<1>2. Link(2) = 2 /\ 2 < INVALID /\ 2 < END_LOW /\ 2 # RESERVED
  BY <1>1, EntriesNat, TableAssumption, SMT DEF INVALID, END_LOW, RESERVED
<1>3. QED
  BY <1>1, <1>2, SMT DEF IsValidCluster, INVALID, END_LOW, RESERVED

LEMMA SessionStart == SessionInit => SessionInv
<1> SUFFICES ASSUME SessionInit PROVE SessionInv
  OBVIOUS
<1>1. CASE Init /\ stage = "alone"
  BY <1>1, TypeInit DEF SessionInv, Stages, Before, Reading
<1>2. CASE MainInit
  <2>1. TypeInv
    <3>1. /\ next = 2 /\ 2 \in 0 .. Mask - 1 /\ start \in Entries /\ prev \in Nat
          /\ at \in Nat /\ size \in 0 .. MaxSize /\ offset \in Nat /\ copied \in Nat
          /\ next \in Entries
      BY <1>2, Two, EntriesNat, Sizes, ReaderAssumption, SMT DEF MainInit
    <3>2. content \in [0 .. MaxSize - 1 -> Nat \X Nat]
      BY <1>2 DEF MainInit, NoByte
    <3>3. nodes \in Seq([no : 0 .. Word - 1, from : Nat])
      BY <1>2 DEF MainInit
    <3>4. /\ call = "none" /\ pc = "idle" /\ table \in ChainTables
          /\ overrun = FALSE
      BY <1>2 DEF MainInit
    <3>5. TypeOK
      BY <3>1, <3>2, <3>3, <3>4 DEF TypeOK
    <3>6. QED
      BY <3>1, <3>4, <3>5 DEF TypeInv, Phases, NextInside
  <2>2. QED
    BY <1>2, <2>1 DEF MainInit, SessionInv, Stages, Before, Reading, Fresh
<1>3. QED
  BY <1>1, <1>2 DEF SessionInit

LEMMA OffsetsType ==
  /\ FatPos(NumFATs) + FatBytes \in Nat
  /\ \A n \in {0, 1} : (LBAStart + FSInfo + n) * BytsPerSec \in Nat
<1>1. FatBytes \in Nat
  BY GeometryAssumption, SMT DEF FatBytes
<1>2. ((RsvdSecCnt + LBAStart) * BytsPerSec) % Word \in Nat
  BY GeometryAssumption, SMT
<1>3. (NumFATs - 1) * FatBytes \in Nat
  BY <1>1, GeometryAssumption, SMT
<1>4. \A n \in {0, 1} : (LBAStart + FSInfo + n) * BytsPerSec \in Nat
  BY GeometryAssumption, SessionAssumption, SMT
<1>5. QED
  BY <1>1, <1>2, <1>3, <1>4, SMT DEF FatPos

(***************************************************************************)
(* The steps of main.  Of the variables of FatLists only the file offset   *)
(* is changed by a step of main's, but for the call that starts a reading. *)
(***************************************************************************)
OffsetOnly ==
  /\ UNCHANGED <<call, table, next, prev, start, nodes, size, offset, copied,
                 content, overrun, pc>>
  /\ at' \in Nat /\ (at' # at => call = "none")

Starts ==
  /\ Fresh /\ call' = "read" /\ pc' = "read" /\ prev' \in Garbage
  /\ UNCHANGED <<table, next, start, at, nodes, size, offset, copied, content,
                 overrun>>

LEMMA MainSteps ==
  ASSUME SessionInv, MainStep
  PROVE  OffsetOnly \/ Starts
<1> USE DEF SessionInv
<1>0. at \in Nat /\ (stage \in Before => call = "none")
  BY DEF TypeInv, TypeOK, Fresh
<1>1. CASE DeviceOpen \/ DeviceStats \/ MbrInit
  BY <1>0, <1>1 DEF DeviceOpen, DeviceStats, MbrInit, OffsetOnly, vars
<1>2. CASE ReadBpb
  BY <1>0, <1>2, OffsetsType DEF ReadBpb, Call, OffsetOnly, Before
<1>3. CASE ReadFsinfo
  BY <1>0, <1>3, OffsetsType DEF ReadFsinfo, Call, OffsetOnly, Before
<1>4. CASE FreesStack \/ GoesWild \/ ReadReturned \/ NoFirst \/ FirstLong
           \/ NextLong \/ NoNext \/ LongsRead
  BY <1>0, <1>4 DEF FreesStack, GoesWild, ReadReturned, NoFirst, FirstLong,
       NextLong, NoNext, LongsRead, OffsetOnly, vars
<1>5. CASE CallRead
  BY <1>0, <1>5 DEF CallRead, Starts, Called
<1>6. QED
  BY <1>1, <1>2, <1>3, <1>4, <1>5 DEF MainStep

LEMMA MainTypes ==
  ASSUME TypeInv, OffsetOnly \/ Starts
  PROVE  TypeInv'
<1>1. CASE OffsetOnly
  BY <1>1 DEF OffsetOnly, TypeInv, TypeOK, Phases, NextInside
<1>2. CASE Starts
  <2>1. next = 2 /\ prev' \in Nat
    BY <1>2, ReaderAssumption, Sizes, SMT DEF Starts, Fresh
  <2>2. call' = "read" /\ pc' = "read" /\ next' = next /\ call = "none"
    BY <1>2 DEF Starts, Fresh
  <2>3. TypeOK'
    BY <1>2, <2>1, <2>2 DEF Starts, TypeInv, TypeOK, Calls
  <2>4. NextInside' /\ Phases'
    BY <2>1, <2>2, Two DEF NextInside, Phases, Reads
  <2>5. QED
    BY <2>3, <2>4 DEF TypeInv
<1>3. QED
  BY <1>1, <1>2

(* A step of one of the loops, while main is in the call or has made none. *)
LEMMA LoopStep ==
  ASSUME SessionInv, Next, UNCHANGED session
  PROVE  SessionInv'
<1> USE DEF SessionInv
<1>1. TypeInv' /\ stage' = stage /\ place' = place
  BY TypeStep DEF session
<1>2. stage \notin Before \cup Reading /\ ~ (stage = "clusters" /\ Fresh)
  <2>1. pc \notin {"idle", "done"}
    BY DEF Next, Step, ReadCluster, ReadEnds, SeekFails, ReadFails, CopyWhole,
       CopyRest, MergeCluster, MergeEnds, RunsOff, ByteToClusters, WriteNode,
       FreeRest, Seek
  <2>2. QED
    BY <2>1 DEF Fresh
<1>3. CASE stage = "clusters"
  <2>1. Called /\ pc \in {"read", "failed", "crashed"}
    BY <1>2, <1>3, Zenon DEF Called, Next, Step, ReadCluster, ReadEnds, SeekFails,
       ReadFails, CopyWhole, CopyRest, MergeCluster, MergeEnds, RunsOff,
       ByteToClusters, WriteNode, FreeRest, Seek
  <2>2. CASE ReadCluster
    <3>1. nodes' # <<>>
      <4>1. nodes \in Seq(Node)
        BY DEF TypeInv, TypeOK, Node
      <4>2. QED
        BY <2>2, <4>1 DEF ReadCluster, Joined
    <3>2. QED
      BY <1>1, <1>3, <2>1, <2>2, <3>1 DEF ReadCluster, Called, Before, Reading
  <2>3. CASE ReadEnds
    <3>1. nodes # <<>>
      BY <2>1, <2>3, Two DEF ReadEnds, Called
    <3>2. QED
      BY <1>1, <1>3, <2>1, <2>3, <3>1 DEF ReadEnds, Called, Before, Reading
  <2>4. CASE SeekFails \/ ReadFails
    <3>1. pc' \in {"failed", "crashed"} /\ call' = call
      BY <2>4 DEF SeekFails, ReadFails, GivesUp
    <3>2. QED
      BY <1>1, <1>3, <2>1, <3>1 DEF Called, Before, Reading
  <2>5. QED
    BY <2>1, <2>2, <2>3, <2>4 DEF Next, Step, CopyWhole, CopyRest, MergeCluster,
       MergeEnds, RunsOff, ByteToClusters, WriteNode, FreeRest, Seek, Called
<1>4. CASE stage # "clusters"
  BY <1>1, <1>2, <1>4
<1>5. QED
  BY <1>3, <1>4

LEMMA MainInvStep ==
  ASSUME SessionInv, MainStep
  PROVE  SessionInv'
<1> USE DEF SessionInv
<1>1. TypeInv'
  BY MainSteps, MainTypes
<1>2. CASE DeviceOpen \/ DeviceStats \/ MbrInit \/ ReadBpb \/ ReadFsinfo
  <2>1. stage \in Before /\ stage' \in Before \cup {"clusters"}
    BY <1>2 DEF DeviceOpen, DeviceStats, MbrInit, ReadBpb, ReadFsinfo, Call, Before
  <2>2. Fresh'
    BY <1>2, <2>1 DEF DeviceOpen, DeviceStats, MbrInit, ReadBpb, ReadFsinfo, Fresh,
         vars
  <2>3. QED
    BY <1>1, <2>1, <2>2 DEF Stages, Before, Reading
<1>3. CASE FreesStack \/ GoesWild \/ NoFirst \/ NoNext \/ LongsRead
  <2>1. stage' \in Returned \cup {"wild"}
    BY <1>3 DEF FreesStack, GoesWild, NoFirst, NoNext, LongsRead, Returned
  <2>2. QED
    BY <1>1, <2>1 DEF Stages, Before, Reading, Returned
<1>4. CASE CallRead
  <2>1. Fresh /\ stage = "clusters" /\ stage' = stage
    BY <1>4 DEF CallRead, Called, session
  <2>2. Called'
    BY <1>4, <2>1 DEF CallRead, Called, Fresh
  <2>3. QED
    BY <1>1, <2>1, <2>2 DEF Before, Reading
<1>5. CASE ReadReturned
  <2>1. stage = "clusters" /\ Called /\ UNCHANGED vars
    BY <1>5 DEF ReadReturned, Fresh
  <2>2. CASE pc = "done"
    <3>1. stage' = "first" /\ nodes # <<>> /\ call = "read"
      BY <1>5, <2>1, <2>2 DEF ReadReturned, Called
    <3>2. QED
      BY <1>1, <2>1, <2>2, <3>1 DEF vars, Stages, Before, Reading
  <2>3. CASE pc # "done"
    <3>1. stage' \in Returned
      BY <1>5, <2>3 DEF ReadReturned, Returned
    <3>2. QED
      BY <1>1, <3>1 DEF Stages, Before, Reading, Returned
  <2>4. QED
    BY <2>2, <2>3
<1>6. CASE FirstLong \/ NextLong
  <2>1. stage \in Reading /\ stage' = "rest" /\ UNCHANGED vars
    BY <1>6 DEF FirstLong, NextLong, Reading
  <2>2. QED
    BY <1>1, <2>1 DEF vars, Stages, Before, Reading
<1>7. QED
  BY <1>2, <1>3, <1>4, <1>5, <1>6 DEF MainStep

LEMMA SessionStep == SessionInv /\ [SessionNext]_allVars => SessionInv'
<1> SUFFICES ASSUME SessionInv, [SessionNext]_allVars PROVE SessionInv'
  OBVIOUS
<1>1. CASE Next /\ UNCHANGED session
  BY <1>1, LoopStep
<1>2. CASE MainStep
  BY <1>2, MainInvStep
<1>3. CASE UNCHANGED allVars
  BY <1>3 DEF allVars, vars, session, SessionInv, TypeInv, TypeOK, Phases,
       NextInside, Fresh, Called
<1>4. QED
  BY <1>1, <1>2, <1>3 DEF SessionNext

----------------------------------------------------------------------------
(* Whatever calls of main fail, and whatever they leave without a value,   *)
(* the variables of the loops keep their types.                            *)
THEOREM SessionTypeCorrect == SessionSpec => []TypeOK
<1>1. SessionInv => TypeOK
  BY DEF SessionInv, TypeInv
<1>2. QED
  BY <1>1, SessionStart, SessionStep, PTL DEF SessionSpec

(* main's own steps disturb neither the places of the nodes nor the chain.*)
LEMMA SessionPlaceStep ==
  ASSUME PositionsFit, SessionInv, PlaceInv, [SessionNext]_allVars
  PROVE  PlaceInv'
<1>1. CASE Next \/ UNCHANGED vars
  BY <1>1, PlaceStep
<1>2. CASE MainStep
  <2>1. TypeInv'
    BY <1>2, MainSteps, MainTypes DEF SessionInv
  <2>2. CASE OffsetOnly
    <3>1. at' # at => pc # "read" /\ call \notin Reads
      BY <2>2 DEF OffsetOnly, PlaceInv, TypeInv, Phases, Reads
    <3>2. EachFromItsPlace' <=> EachFromItsPlace
      BY <2>2 DEF OffsetOnly, EachFromItsPlace
    <3>3. OffsetFollows'
      BY <2>2, <3>1 DEF OffsetOnly, PlaceInv, OffsetFollows, PlacedSoFar
    <3>4. QED
      BY <2>1, <3>2, <3>3 DEF PlaceInv
  <2>3. CASE Starts
    BY <2>1, <2>3 DEF Starts, Fresh, PlaceInv, EachFromItsPlace, OffsetFollows
  <2>4. QED
    BY <1>2, <2>2, <2>3, MainSteps
<1>3. QED
  BY <1>1, <1>2 DEF SessionNext, allVars

(* The root directory main reads comes from its place, whichever calls     *)
(* before have moved the file offset and whichever have not, if its first  *)
(* cluster does.                                                           *)
THEOREM SessionFromItsPlace ==
  ASSUME PositionsFit
  PROVE  SessionSpec => []EachFromItsPlace
<1> DEFINE Inv == SessionInv /\ PlaceInv
<1>1. SessionInit => Inv
  <2>1. SessionInit => nodes = <<>>
    BY DEF SessionInit, Init, MainInit
  <2>2. QED
    BY <2>1, SessionStart DEF SessionInv, PlaceInv, EachFromItsPlace, OffsetFollows
<1>2. Inv /\ [SessionNext]_allVars => Inv'
  BY SessionStep, SessionPlaceStep
<1>3. Inv => EachFromItsPlace
  BY DEF PlaceInv
<1>4. QED
  BY <1>1, <1>2, <1>3, PTL DEF SessionSpec

(* A file is cut rightly in the composed specification too: no step of     *)
(* main disturbs a call of its own.                                        *)
THEOREM SessionCutIntoClusters == SessionSpec => []CutIntoClusters
<1> DEFINE Inv == SessionInv /\ CutInv
<1>1. SessionInit => Inv
  <2>1. SessionInit => CutInv
    <3>1. SessionInit => /\ pc \in {"read", "split", "seek", "idle"}
                         /\ (pc = "split" => prev = 0 /\ copied = 0 /\ ~ overrun)
      BY DEF SessionInit, Init, MainInit, Calls, Reads
    <3>2. QED
      BY <3>1, SessionStart DEF SessionInv, CutInv
  <2>2. QED
    BY <2>1, SessionStart
<1>2. Inv /\ [SessionNext]_allVars => Inv'
  <2> SUFFICES ASSUME SessionInv, CutInv, [SessionNext]_allVars PROVE CutInv'
    BY SessionStep
  <2>1. CASE Next \/ UNCHANGED vars
    BY <2>1, CutStep
  <2>2. CASE MainStep
    <3>1. TypeInv'
      BY <2>2, MainSteps, MainTypes DEF SessionInv
    <3>2. CASE OffsetOnly
      BY <3>1, <3>2 DEF OffsetOnly, CutInv, CutRight, WholeClusters, Rest
    <3>3. CASE Starts
      BY <3>1, <3>3 DEF Starts, CutInv
    <3>4. QED
      BY <2>2, <3>2, <3>3, MainSteps
  <2>3. QED
    BY <2>1, <2>2 DEF SessionNext, allVars
<1>3. CutInv => CutIntoClusters
  BY DEF CutInv, CutIntoClusters, CutRight
<1>4. QED
  BY <1>1, <1>2, <1>3, PTL DEF SessionSpec

LEMMA SessionChainStep ==
  ASSUME SessionInv, ChainInv, [SessionNext]_allVars
  PROVE  ChainInv'
<1>1. CASE Next \/ UNCHANGED vars
  BY <1>1, ChainStep
<1>2. CASE MainStep
  <2>1. TypeInv'
    BY <1>2, MainSteps, MainTypes DEF SessionInv
  <2>2. CASE OffsetOnly
    <3>1. Linked' <=> Linked
      BY <2>2 DEF OffsetOnly, Linked, Follow
    <3>2. QED
      BY <2>1, <2>2, <3>1 DEF OffsetOnly, ChainInv, Follow
  <2>3. CASE Starts
    BY <2>1, <2>3 DEF Starts, Fresh, ChainInv
  <2>4. QED
    BY <1>2, <2>2, <2>3, MainSteps
<1>3. QED
  BY <1>1, <1>2 DEF SessionNext, allVars

(* The list main gets for the root directory is its whole chain, each      *)
(* cluster once, whatever the table holds and wherever the calls before    *)
(* left the file offset.                                                   *)
THEOREM SessionListIsChain == SessionSpec => []ListIsChain
<1> DEFINE Inv == SessionInv /\ ChainInv
<1>1. SessionInit => Inv
  <2>1. SessionInit => nodes = <<>> /\ next = start
    BY DEF SessionInit, Init, MainInit
  <2>2. QED
    BY <2>1, SessionStart DEF SessionInv, ChainInv
<1>2. Inv /\ [SessionNext]_allVars => Inv'
  BY SessionStep, SessionChainStep
<1>3. ChainInv => ListIsChain
  BY ChainIsWhole DEF ChainInv
<1>4. QED
  BY <1>1, <1>2, <1>3, PTL DEF SessionSpec

(* The content of a file is its bytes under the same conditions as in the  *)
(* calls of the loops by themselves: main's own calls change nothing of it.*)
THEOREM SessionContentIsFile ==
  ASSUME PositionsFit, SectorClusters
  PROVE  SessionSpec => []ContentIsFile
<1> DEFINE Idle == pc = "idle" => copied = 0 /\ offset = 0 /\ ~ overrun
           Inv == SessionInv /\ ContentInv /\ PlaceInv /\ ChainInv /\ Idle
<1>1. SessionInit => Inv
  <2>1. SessionInit => /\ pc \in {"read", "split", "seek", "idle"}
                       /\ copied = 0 /\ offset = 0 /\ ~ overrun
                       /\ nodes = <<>> /\ next = start
    BY DEF SessionInit, Init, MainInit, Calls, Reads
  <2>2. QED
    BY <2>1, SessionStart DEF SessionInv, ContentInv, ChainInv, PlaceInv,
       EachFromItsPlace, OffsetFollows
<1>2. Inv /\ [SessionNext]_allVars => Inv'
  <2> SUFFICES ASSUME SessionInv, ContentInv, Idle, [SessionNext]_allVars
               PROVE  ContentInv' /\ Idle'
    BY SessionStep, SessionPlaceStep, SessionChainStep
  <2>1. CASE Next \/ UNCHANGED vars
    <3>1. Next => pc' # "idle"
      BY DEF Next, Step, ReadCluster, ReadEnds, SeekFails, ReadFails, GivesUp,
         CopyWhole, CopyRest, MergeCluster, MergeEnds, RunsOff, ByteToClusters,
         WriteNode, FreeRest, Seek
    <3>2. QED
      BY <2>1, <3>1, ContentStep DEF vars
  <2>2. CASE MainStep
    <3>1. TypeInv'
      BY <2>2, MainSteps, MainTypes DEF SessionInv
    <3>2. CASE OffsetOnly
      BY <3>1, <3>2 DEF OffsetOnly, ContentInv, LongEnough, CopiedTo
    <3>3. CASE Starts
      BY <3>1, <3>3 DEF Starts, Fresh, ContentInv, TypeInv, Phases
    <3>4. QED
      BY <2>2, <3>2, <3>3, MainSteps
  <2>3. QED
    BY <2>1, <2>2 DEF SessionNext, allVars
<1>3. Inv => ContentIsFile
  BY ContentRight
<1>4. QED
  BY <1>1, <1>2, <1>3, PTL DEF SessionSpec

----------------------------------------------------------------------------
(***************************************************************************)
(* The places a long name is read from.  Each entry read is, if it stands  *)
(* inside of its cluster, the one at the index of the place; the step from *)
(* behind the end of a cluster leaves the index as it is.                  *)
(***************************************************************************)
Places == [node : Nat \ {0}, slot : 0 .. DirSlots]

Placed ==
  /\ longs \in Seq(Places) /\ place \in Places
  /\ from \in 0 .. DirSlots /\ from <= Index(place)
  /\ \A i \in Inside : Index(longs[i]) < Index(place)
  /\ \A i, j \in Inside : i < j => Index(longs[i]) < Index(longs[j])
  /\ {Index(longs[i]) : i \in Inside} = from .. Index(place) - 1
  /\ from < DirSlots => skipped = place.node - 1

LongInv ==
  /\ "lDirs" \in given => stage = "returned" /\ Placed
  /\ stage \in {"alone", "clusters"} \cup Before => longs = <<>> /\ skipped = 0
  /\ stage = "first" => Placed /\ longs = <<>> /\ place.slot = from
  /\ stage = "rest" => Placed

(* The index of the place after the next entry.                            *)
LEMMA NextIndex ==
  ASSUME NEW p \in Places
  PROVE  /\ NextPlace(p) \in Places /\ Index(p) \in Nat
         /\ p.slot < DirSlots => /\ Index(NextPlace(p)) = Index(p) + 1
                                 /\ NextPlace(p).node = p.node
         /\ p.slot = DirSlots => /\ Index(NextPlace(p)) = Index(p)
                                 /\ NextPlace(p).node = p.node + 1
<1>1. /\ p.node \in Nat \ {0} /\ p.slot \in 0 .. DirSlots /\ DirSlots \in Nat \ {0}
      /\ p = [node |-> p.node, slot |-> p.slot]
  BY DirSlotsType DEF Places
<1>2. (p.node - 1) * DirSlots \in Nat
  BY <1>1, SMT
<1>3. Index(p) \in Nat
  BY <1>1, <1>2, SMT DEF Index
<1>4. CASE p.slot < DirSlots
  <2>1. NextPlace(p) = [node |-> p.node, slot |-> p.slot + 1]
    BY <1>1, <1>4, SMT DEF NextPlace, PastEnd
  <2>2. p.slot + 1 \in 0 .. DirSlots
    BY <1>1, <1>4, SMT
  <2>3. Index(NextPlace(p)) = (p.node - 1) * DirSlots + (p.slot + 1)
    BY <2>1 DEF Index
  <2>4. Index(NextPlace(p)) = Index(p) + 1
    BY <1>1, <1>2, <2>3, SMT DEF Index
  <2>5. QED
    BY <1>1, <1>3, <1>4, <2>1, <2>2, <2>4, SMT DEF Places
<1>5. CASE p.slot = DirSlots
  <2>1. NextPlace(p) = [node |-> p.node + 1, slot |-> 0]
    BY <1>1, <1>5, SMT DEF NextPlace, PastEnd
  <2>2. Index(NextPlace(p)) = ((p.node + 1) - 1) * DirSlots + 0
    BY <2>1 DEF Index
  <2>3. Index(p) = (p.node - 1) * DirSlots + DirSlots
    BY <1>5 DEF Index
  <2>4. ((p.node + 1) - 1) * DirSlots + 0 = (p.node - 1) * DirSlots + DirSlots
    BY <1>1, SMT
  <2>5. p.node + 1 \in Nat \ {0} /\ 0 \in 0 .. DirSlots
    BY <1>1, SMT
  <2>6. QED
    BY <1>1, <1>3, <1>5, <2>1, <2>2, <2>3, <2>4, <2>5, SMT DEF Places
<1>6. QED
  BY <1>1, <1>3, <1>4, <1>5, SMT

(* One more entry read.                                                    *)
LEMMA OneMore ==
  ASSUME Placed,
         longs' = Append(longs, place), place' = NextPlace(place), from' = from,
         skipped' = IF PastEnd(place.slot) /\ ~ PastEnd(from) THEN skipped + 1
                    ELSE skipped
  PROVE  Placed'
<1> DEFINE n == Len(longs)
<1> USE DEF Placed
<1>1. /\ n \in Nat /\ DOMAIN longs = 1 .. n /\ DOMAIN longs' = 1 .. n + 1
      /\ longs'[n + 1] = place /\ \A i \in 1 .. n : longs'[i] = longs[i]
      /\ longs' \in Seq(Places)
  BY SMT
<1>2. /\ place' \in Places /\ Index(place) \in Nat
      /\ place.slot < DirSlots => /\ Index(place') = Index(place) + 1
                                  /\ place'.node = place.node
      /\ place.slot = DirSlots => /\ Index(place') = Index(place)
                                  /\ place'.node = place.node + 1
  BY NextIndex
<1>3. /\ place.slot \in 0 .. DirSlots /\ DirSlots \in Nat \ {0}
      /\ place.node \in Nat \ {0}
  BY DirSlotsType DEF Places
<1>4. Inside \subseteq 1 .. n /\ n + 1 \notin Inside
  BY <1>1, SMT DEF Inside
<1>5. Inside' = IF place.slot < DirSlots THEN Inside \cup {n + 1} ELSE Inside
  <2>1. \A i : i \in Inside' <=> i \in 1 .. n + 1 /\ longs'[i].slot < DirSlots
    BY <1>1 DEF Inside
  <2>2. \A i : i \in Inside <=> i \in 1 .. n /\ longs[i].slot < DirSlots
    BY <1>1 DEF Inside
  <2>3. \A i : i \in 1 .. n + 1 <=> i \in 1 .. n \/ i = n + 1
    BY <1>1, SMT
  <2>4. \A i : i \in Inside' <=> i \in Inside \/ (i = n + 1 /\ place.slot < DirSlots)
    BY <1>1, <2>1, <2>2, <2>3
  <2>5. QED
    BY <2>4
<1>6. \A i \in Inside : Index(longs'[i]) = Index(longs[i])
  BY <1>1, <1>4
<1>7. \A i \in Inside : Index(longs[i]) \in Nat
  <2> SUFFICES ASSUME NEW i \in Inside PROVE Index(longs[i]) \in Nat
    OBVIOUS
  <2>1. longs[i] \in Places
    BY <1>1, <1>4
  <2>2. QED
    BY <2>1, NextIndex
<1>8. from < DirSlots => skipped' = place'.node - 1
  BY <1>2, <1>3, SMT DEF PastEnd
<1>9. CASE place.slot < DirSlots
  <2>1. Inside' = Inside \cup {n + 1} /\ Index(longs'[n + 1]) = Index(place)
    BY <1>1, <1>5, <1>9
  <2>2. \A i \in Inside' : Index(longs'[i]) < Index(place')
    <3>1. \A i \in Inside : Index(longs'[i]) < Index(place) + 1
      <4> SUFFICES ASSUME NEW i \in Inside PROVE Index(longs'[i]) < Index(place) + 1
        OBVIOUS
      <4>1. /\ Index(longs'[i]) = Index(longs[i]) /\ Index(longs[i]) < Index(place)
            /\ Index(longs[i]) \in Nat /\ Index(place) \in Nat
        BY <1>2, <1>6, <1>7
      <4>2. \A x, y \in Nat : x < y => x < y + 1
        BY SMT
      <4>3. QED
        BY <4>1, <4>2
    <3>2. Index(place) < Index(place) + 1
      BY <1>2, SMT
    <3>3. QED
      BY <1>2, <1>9, <2>1, <3>1, <3>2
  <2>3. \A i, j \in Inside' : i < j => Index(longs'[i]) < Index(longs'[j])
    <3> SUFFICES ASSUME NEW i \in Inside', NEW j \in Inside', i < j
                 PROVE  Index(longs'[i]) < Index(longs'[j])
      OBVIOUS
    <3>1. i \in Inside
      BY <1>1, <1>4, <2>1, SMT
    <3>2. CASE j \in Inside
      BY <1>6, <3>1, <3>2
    <3>3. CASE j = n + 1
      BY <1>6, <2>1, <3>1, <3>3
    <3>4. QED
      BY <2>1, <3>2, <3>3
  <2>4. {Index(longs'[i]) : i \in Inside'} = {Index(longs[i]) : i \in Inside} \cup {Index(place)}
    BY <1>6, <2>1
  <2>5. from \in Nat /\ from <= Index(place')
    BY <1>2, <1>3, <1>9, SMT
  <2>6. (from .. Index(place) - 1) \cup {Index(place)} = from .. Index(place') - 1
    BY <1>2, <1>9, <2>5, SMT
  <2>7. QED
    BY <1>1, <1>2, <1>8, <2>2, <2>3, <2>4, <2>5, <2>6
<1>10. CASE place.slot = DirSlots
  <2>1. Inside' = Inside /\ Index(place') = Index(place)
    BY <1>2, <1>3, <1>5, <1>10, SMT
  <2>2. {Index(longs'[i]) : i \in Inside'} = {Index(longs[i]) : i \in Inside}
    BY <1>6, <2>1
  <2>3. \A i \in Inside' : Index(longs'[i]) < Index(place')
    BY <1>6, <2>1
  <2>4. \A i, j \in Inside' : i < j => Index(longs'[i]) < Index(longs'[j])
    BY <1>6, <2>1
  <2>5. {Index(longs'[i]) : i \in Inside'} = from .. Index(place') - 1
    BY <2>1, <2>2
  <2>6. from' \in 0 .. DirSlots /\ from' <= Index(place')
    BY <2>1
  <2>7. QED
    BY <1>1, <1>2, <1>8, <2>3, <2>4, <2>5, <2>6
<1>11. place.slot < DirSlots \/ place.slot = DirSlots
  BY <1>3, SMT
<1>12. QED
  BY <1>9, <1>10, <1>11

LEMMA LongStart == SessionInit => LongInv
  BY DEF SessionInit, Init, MainInit, LongInv, Before

LEMMA PlacedStays ==
  ASSUME Placed, UNCHANGED <<from, place, skipped, longs>>
  PROVE  Placed'
<1>1. Inside' = Inside
  BY DEF Inside
<1>2. QED
  BY <1>1 DEF Placed

LEMMA LongStep ==
  ASSUME SessionInv, LongInv, [SessionNext]_allVars
  PROVE  LongInv'
<1>1. CASE UNCHANGED session
  BY <1>1, PlacedStays DEF session, LongInv
<1>2. CASE DeviceOpen \/ DeviceStats \/ MbrInit \/ ReadBpb \/ ReadFsinfo
  <2>1. /\ stage \in Before /\ stage' \in Before \cup {"clusters"}
        /\ "lDirs" \in given' => "lDirs" \in given
        /\ UNCHANGED <<from, place, skipped, longs>>
    BY <1>2 DEF DeviceOpen, DeviceStats, MbrInit, ReadBpb, ReadFsinfo, Call, Before
  <2>2. stage # "returned" /\ stage' \notin {"returned", "first", "rest"}
    BY <2>1 DEF Before
  <2>3. QED
    BY <2>1, <2>2 DEF LongInv
<1>3. CASE FreesStack \/ GoesWild \/ NoFirst \/ NoNext
  <2>1. /\ stage \notin {"returned"} /\ stage' \in Returned \cup {"wild"}
        /\ UNCHANGED <<given, from, place, skipped, longs>>
    BY <1>3 DEF FreesStack, GoesWild, NoFirst, NoNext, Returned
  <2>2. QED
    BY <2>1 DEF LongInv, Before, Returned
<1>4. CASE CallRead
  BY <1>1, <1>4 DEF CallRead
<1>5. CASE ReadReturned
  <2>1. stage = "clusters" /\ longs = <<>> /\ skipped = 0 /\ "lDirs" \notin given
    BY <1>5 DEF ReadReturned, LongInv
  <2>2. CASE pc = "done"
    <3>1. /\ stage' = "first" /\ given' = given \cup {"destCluster"}
          /\ from' \in 0 .. DirSlots /\ place' = [node |-> 1, slot |-> from']
          /\ UNCHANGED <<skipped, longs>>
      BY <1>5, <2>2 DEF ReadReturned
    <3>2. place'.node = 1 /\ place'.slot = from' /\ place' \in Places
      BY <3>1 DEF Places
    <3>3. Index(place') = from' /\ (from' .. Index(place') - 1) = {}
      <4>1. Index(place') = (1 - 1) * DirSlots + from'
        BY <3>2 DEF Index
      <4>2. from' \in Int /\ (1 - 1) * DirSlots = 0
        BY <3>1, DirSlotsType, SMT
      <4>3. QED
        BY <4>1, <4>2, SMT
    <3>4. from' <= Index(place')
      BY <3>1, <3>3, DirSlotsType, SMT
    <3>5. longs' = <<>> /\ Inside' = {} /\ longs' \in Seq(Places)
      BY <2>1, <3>1 DEF Inside
    <3>6. Placed'
      BY <2>1, <3>1, <3>2, <3>3, <3>4, <3>5 DEF Placed
    <3>7. QED
      BY <2>1, <3>1, <3>2, <3>5, <3>6 DEF LongInv, Before
  <2>3. CASE pc # "done"
    <3>1. stage' \in Returned /\ given' = given
      BY <1>5, <2>3 DEF ReadReturned, Returned
    <3>2. QED
      BY <2>1, <3>1 DEF LongInv, Before, Returned
  <2>4. QED
    BY <2>2, <2>3
<1>6. CASE FirstLong
  <2>1. Placed /\ longs = <<>> /\ place.slot = from /\ "lDirs" \notin given
    BY <1>6 DEF FirstLong, LongInv
  <2>2. /\ longs' = Append(longs, place) /\ place' = NextPlace(place)
        /\ from' = from /\ skipped' = skipped /\ stage' = "rest" /\ given' = given
    BY <1>6, <2>1 DEF FirstLong
  <2>3. Placed'
    BY <2>1, <2>2, OneMore
  <2>4. QED
    BY <2>1, <2>2, <2>3 DEF LongInv, Before
<1>7. CASE NextLong
  <2>1. Placed /\ "lDirs" \notin given
    BY <1>7 DEF NextLong, LongInv
  <2>2. stage' = "rest" /\ given' = given
    BY <1>7 DEF NextLong
  <2>3. Placed'
    BY <1>7, <2>1, OneMore DEF NextLong
  <2>4. QED
    BY <2>1, <2>2, <2>3 DEF LongInv, Before
<1>8. CASE LongsRead
  <2>1. Placed /\ stage' = "returned" /\ UNCHANGED <<from, place, skipped, longs>>
    BY <1>8 DEF LongsRead, LongInv
  <2>2. Placed'
    BY <2>1, PlacedStays
  <2>3. QED
    BY <2>1, <2>2 DEF LongInv, Before
<1>9. QED
  BY <1>1, <1>2, <1>3, <1>4, <1>5, <1>6, <1>7, <1>8 DEF SessionNext, MainStep,
     allVars

(* The entries of a long name that is returned are consecutive ones of the *)
(* directory in their order, none left out and none twice where a cluster  *)
(* ends, and the offset and the count handed back lead behind the last, in *)
(* a directory of any length and for a name of any number of entries: of   *)
(* those read inside of clusters, and of a name none of which was read     *)
(* from where the unset next of the last node led.                         *)
THEOREM AlwaysLongInPlace == SessionSpec => []LongInPlace
<1>1. LongInv => LongInPlace
  <2> SUFFICES ASSUME Placed, from < DirSlots
               PROVE  skipped * DirSlots + place.slot = Index(place)
    BY DEF LongInv, LongInPlace, Placed
  <2>1. skipped = place.node - 1
    BY DEF Placed
  <2>2. QED
    BY <2>1 DEF Index
<1>2. SessionInv /\ LongInv /\ [SessionNext]_allVars => LongInv'
  BY LongStep
<1>3. QED
  BY <1>1, <1>2, SessionStart, SessionStep, LongStart, PTL DEF SessionSpec
=============================================================================
