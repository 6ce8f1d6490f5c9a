----------------------------- MODULE FatSession -----------------------------
(***************************************************************************)
(* main: a device is opened, its partition table, the BIOS parameter block *)
(* and the table are read, then the root directory as a list of clusters,  *)
(* and a long name from that list.  main looks at no result, so each call  *)
(* runs on what those before it have or have not left behind.              *)
(*                                                                         *)
(* The root directory is read by the steps of FatLists, from where the     *)
(* calls before left the file offset.  What an entry holds is decided when *)
(* it is read: no call reads one twice.                                    *)
(***************************************************************************)
EXTENDS FatLists

CONSTANTS
  FSInfo,       \* ext.sFSInfo, the sector of the file system information
  EntrySize,    \* FAT32_DIR_ENTRY_SIZE
  MaxOrder      \* bound: the number of entries the first of a long name tells

ASSUME SessionAssumption ==
  /\ FSInfo \in Nat
  /\ EntrySize \in Nat \ {0} /\ EntrySize <= ClusterBytes
  /\ MaxOrder \in Nat

VARIABLES
  stage,     \* the call main is at; "alone" if FatLists makes one of its calls
  given,     \* the variables of main that have been given a value
  from,      \* offset as __fat_get_long_dirs is called with it, in entries
  place,     \* src and currentOffset: the node and the entry in it read next
  skipped,   \* skipped of main
  count,     \* count
  longs      \* the list of long entries: the places they were read from

session == <<stage, given, from, place, skipped, count, longs>>
allVars == <<vars, session>>

Returned == {"returned", "crashed"}

\* Entries in a cluster.
DirSlots == ClusterBytes \div EntrySize

MainInit ==
  /\ call = "none" /\ pc = "idle"
  /\ table \in ChainTables
  /\ start = 2 /\ next = 2 /\ prev = 0 /\ at = 0 /\ nodes = <<>>
  /\ size = 0 /\ offset = 0 /\ copied = 0
  /\ content = [x \in 0 .. MaxSize - 1 |-> NoByte]
  /\ overrun = FALSE
  /\ stage = "open"

SessionInit ==
  /\ (Init /\ stage = "alone") \/ MainInit
  /\ given = {} /\ from = 0 /\ place = [node |-> 1, slot |-> 0]
  /\ skipped = 0 /\ count = 0 /\ longs = <<>>

----------------------------------------------------------------------------
(***************************************************************************)
(* The calls up to the table.  One that fails leaves main's variable as it *)
(* was.  Of what __fat_read_bpb does when it fails only the first lseek    *)
(* comes back: after it an array on the stack is freed, or databp, which   *)
(* is main's own.                                                          *)
(***************************************************************************)
Call(this, then, variable) ==
  /\ stage = this
  /\ stage' = then
  /\ given' \in {given, given \cup {variable}}
  /\ UNCHANGED <<from, place, skipped, count, longs>>

DeviceOpen == Call("open", "stats", "fd") /\ UNCHANGED vars

DeviceStats == Call("stats", "mbr", "temp") /\ UNCHANGED vars

MbrInit == Call("mbr", "bpb", "data") /\ UNCHANGED vars

\* What a call and all that follow it run on; without it nothing is known.
Needs == {"fd", "temp", "data"} \cup IF stage = "bpb" THEN {} ELSE {"databp"}

ReadBpb ==
  /\ Needs \subseteq given
  /\ Call("bpb", "fsinfo", "databp")
  /\ at' = IF given' = given THEN at ELSE FatPos(NumFATs) + FatBytes
  /\ UNCHANGED <<call, table, next, prev, start, nodes, size, offset, copied,
                 content, overrun, pc>>

FreesStack ==
  /\ stage = "bpb"
  /\ stage' = "crashed"
  /\ UNCHANGED <<vars, given, from, place, skipped, count, longs>>

\* dest is used by no one, but the file offset has moved, or not.
ReadFsinfo ==
  /\ Needs \subseteq given
  /\ Call("fsinfo", "clusters", "dest")
  /\ at' \in {at} \cup {(LBAStart + FSInfo + n) * BytsPerSec : n \in {0, 1}}
  /\ UNCHANGED <<call, table, next, prev, start, nodes, size, offset, copied,
                 content, overrun, pc>>

\* main goes on with a variable that has no value: with databp, to loops over
\* whatever it takes for FAT_TABLE, which may never end.
GoesWild ==
  /\ stage \in {"bpb", "fsinfo"}
  /\ ~ (Needs \subseteq given)
  /\ stage' \in Returned \cup {"wild"}
  /\ UNCHANGED <<vars, given, from, place, skipped, count, longs>>

----------------------------------------------------------------------------
(***************************************************************************)
(* The root directory.  Without a list destCluster has no value.           *)
(***************************************************************************)
CallRead ==
  /\ stage = "clusters" /\ pc = "idle"
  /\ call' = "read" /\ pc' = "read"
  /\ prev' \in Garbage
  /\ UNCHANGED <<table, next, start, at, nodes, size, offset, copied, content,
                 overrun, session>>

ReadReturned ==
  /\ stage = "clusters" /\ pc \in {"done", "failed", "crashed"}
  /\ IF pc = "done"
     THEN /\ stage' = "first"
          /\ given' = given \cup {"destCluster"}
          /\ from' \in 0 .. DirSlots
          /\ place' = [node |-> 1, slot |-> from']
     ELSE /\ stage' \in IF pc = "failed" THEN Returned ELSE {"crashed"}
          /\ UNCHANGED <<given, from, place>>
  /\ UNCHANGED <<vars, skipped, count, longs>>

(***************************************************************************)
(* __fat_get_long_dirs.  main calls it with offset 0; who goes on from     *)
(* where it stopped calls it with what it has left there.  The end of a    *)
(* cluster is looked for after the entry has been read, and found only     *)
(* when the offset is the size of the cluster already.                     *)
(***************************************************************************)
PastEnd(slot) == slot >= DirSlots

\* Changed: the first entry of the next cluster is passed over.
NextPlaceFar(p) ==
  IF PastEnd(p.slot) THEN [node |-> p.node + 1, slot |-> 1]
  ELSE [p EXCEPT !.slot = @ + 1]

NextPlace(p) ==
  IF PastEnd(p.slot) THEN [node |-> p.node + 1, slot |-> 0]
  ELSE [p EXCEPT !.slot = @ + 1]

\* No cluster follows: the next of the last node was never set, and is NULL
\* or anything.
ListEnds == PastEnd(place.slot) /\ place.node >= Len(nodes)

\* The entry read is not one of a long name, or next is NULL, or the node
\* next leads to cannot be read.
NoFirst ==
  /\ stage = "first"
  /\ stage' \in {"returned"} \cup IF ListEnds THEN {"crashed"} ELSE {}
  /\ UNCHANGED <<vars, given, from, place, skipped, count, longs>>

\* At the end of a cluster skipped, the pointer, is moved and not what it
\* points to; what later turns count then is no longer main's variable.
FirstLong ==
  /\ stage = "first"
  /\ count' \in 0 .. MaxOrder
  /\ longs' = <<place>>
  /\ place' = NextPlace(place)
  /\ stage' = "rest"
  /\ UNCHANGED <<vars, given, from, skipped>>

More == Len(longs) < count

\* A node the unset next has led to may hold an entry like any other.
NextLong ==
  /\ stage = "rest"
  /\ More
  /\ longs' = Append(longs, place)
  /\ place' = NextPlace(place)
  /\ skipped' = IF PastEnd(place.slot) /\ ~ PastEnd(from) THEN skipped + 1
                ELSE skipped
  /\ UNCHANGED <<vars, stage, given, from, count>>

\* The node is freed, and then what its data field points to.
NoNext ==
  /\ stage = "rest"
  /\ More
  /\ stage' \in Returned
  /\ UNCHANGED <<vars, given, from, place, skipped, count, longs>>

LongsRead ==
  /\ stage = "rest"
  /\ ~ More
  /\ given' = given \cup {"lDirs"}
  /\ stage' = "returned"
  /\ UNCHANGED <<vars, from, place, skipped, count, longs>>

MainStep ==
  \/ DeviceOpen \/ DeviceStats \/ MbrInit
  \/ ReadBpb \/ FreesStack \/ ReadFsinfo \/ GoesWild
  \/ CallRead \/ ReadReturned
  \/ NoFirst \/ FirstLong \/ NextLong \/ NoNext \/ LongsRead

SessionNext == (Next /\ UNCHANGED session) \/ MainStep

\* The loops run on; main need not get as far as to make its next call.
SessionSpec ==
  SessionInit /\ [][SessionNext]_allVars /\ WF_allVars(Step /\ UNCHANGED session)

----------------------------------------------------------------------------
(* The entries of a long name that is returned are, but for those read     *)
(* behind the end of a cluster, consecutive ones of the directory in their *)
(* order, none left out and none twice at the boundary of two clusters;    *)
(* and if the reading began inside of the cluster, offset and skipped lead *)
(* to the entry behind the last one.  Behind the last cluster the unset    *)
(* next may lead to what is no node: a name read from there is excepted.   *)
Index(p) == (p.node - 1) * DirSlots + p.slot

Inside == {i \in DOMAIN longs : longs[i].slot < DirSlots}

LongInPlace ==
  "lDirs" \in given /\ (\A i \in DOMAIN longs : longs[i].node \in DOMAIN nodes) =>
    /\ \A i, j \in Inside : i < j => Index(longs[i]) < Index(longs[j])
    /\ {Index(longs[i]) : i \in Inside} = from .. Index(place) - 1
    /\ from < DirSlots => skipped * DirSlots + place.slot = Index(place)
=============================================================================
