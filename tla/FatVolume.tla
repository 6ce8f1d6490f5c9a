----------------------------- MODULE FatVolume -----------------------------
(***************************************************************************)
(* A FAT32 volume and the one program that has it open: the operations of  *)
(* fat_c.c that change the File Allocation Table, in memory and on the     *)
(* device, the lists of clusters the program keeps between calls, and the  *)
(* death of the program between any two of its writes.                     *)
(*                                                                         *)
(* The operations only change the table in memory; the caller has it       *)
(* written back with __fat_update_fattable.  Reading the table again after *)
(* the program died is __fat_read_bpb.  A write that returns is on the     *)
(* device (the code calls fsync after each); it may fail, which no caller  *)
(* of __fat_write_data notices.                                            *)
(***************************************************************************)
EXTENDS FatTable, FatNumbers

CONSTANTS
  Handles,         \* lists of a directory's clusters the program may hold
  InitialTables,   \* the tables a volume may have when it is first opened
  MaxChunks,       \* bound: clusters of data in one inserted file
  Junk             \* what the bytes of a data cluster mean read as entries

VARIABLES
  mem,        \* copies of the table in memory: FAT_TABLE, FAT_SEC_TABLE
  dfat,       \* copies of the table on the device
  tail,       \* for each list in use, the number of its last cluster
  dirs,       \* numbers that lead to a directory in some entry on the device
  pc,         \* where the call in progress is
  job,        \* the local variables of __fat_insert_file
  nextCopy,   \* the copy at the file offset, between the two table writes
  files,      \* history: first clusters of the files inserted
  saved,      \* history: the files inserted before the last write of copy 1
  damaged,    \* history: mem is the result of a search that failed unnoticed
              \* or of an entry placed outside the list it was meant for, or
              \* was read from a copy that file data had been written over
  torn        \* history: the same of copy 1 on the device

vars == <<mem, dfat, tail, dirs, pc, job, nextCopy, files, saved, damaged, torn>>

NoList == -1
NoJob == [dir |-> 0, start |-> 0, cur |-> 0, left |-> 0, chunks |-> 0]

ASSUME VolumeAssumption ==
  /\ MaxChunks \in Nat \ {0}
  /\ Junk \subseteq Nat
  /\ \A t \in InitialTables : t \in Tables /\ WellFormed(t)

TypeOK ==
  /\ mem \in [Copies -> Tables]
  /\ dfat \in [Copies -> Tables]
  /\ tail \in [Handles -> Entries \cup {NoList}]
  /\ dirs \subseteq Entries
  /\ pc \in {"idle", "chunk", "place", "second"}
  /\ job \in [dir : Entries, start : Entries, cur : Entries,
              left : 0 .. MaxChunks, chunks : 0 .. MaxChunks]
  /\ nextCopy \in 1 .. 2
  /\ files \subseteq Entries
  /\ saved \subseteq Entries
  /\ damaged \in BOOLEAN
  /\ torn \in BOOLEAN

(***************************************************************************)
(* A volume whose copies agree has just been opened.  Cluster 2 is the     *)
(* root directory wherever the code needs one.                             *)
(***************************************************************************)
Init ==
  /\ \E t \in InitialTables : mem = [j \in Copies |-> t]
  /\ dfat = mem
  /\ tail = [h \in Handles |-> NoList]
  /\ dirs = {2}
  /\ pc = "idle" /\ job = NoJob /\ nextCopy = 1
  /\ files = {} /\ saved = {}
  /\ damaged = FALSE /\ torn = FALSE

----------------------------------------------------------------------------
(***************************************************************************)
(* Lists of clusters: the caller reads a directory with __fat_read_clusters*)
(* and hands the list to later calls.  The list is a copy: what happens to *)
(* the table afterwards does not reach it.                                 *)
(***************************************************************************)
OpenDir(h, c) ==
  /\ pc = "idle"
  /\ c \in dirs
  /\ IsValidCluster(c)
  /\ \E last \in ChainEnds(mem[1], c) : tail' = [tail EXCEPT ![h] = last]
  /\ UNCHANGED <<mem, dfat, dirs, pc, job, nextCopy, files, saved, damaged, torn>>

(***************************************************************************)
(* __fat_place_shortdir when the last cluster of the list has no entry     *)
(* free: the list is extended.  (With room in it the table stays.)         *)
(*                                                                         *)
(* It goes to the end of the list along next, which __fat_read_clusters    *)
(* never sets in the last node, and into a new cluster it writes behind    *)
(* the buffer.  Either may take it out of the list: what it then takes for *)
(* the last node has any number, and the program is damaged.               *)
(***************************************************************************)
AstrayTables(ts) == {ts} \cup {Extend(ts, e) : e \in Entries}

PlaceAstray(h) ==
  /\ pc = "idle"
  /\ tail[h] # NoList
  /\ mem' \in AstrayTables(mem)
  /\ damaged' = TRUE
  /\ UNCHANGED <<dfat, tail, dirs, pc, job, nextCopy, files, saved, torn>>

PlaceShortdir(h) ==
  /\ pc = "idle"
  /\ tail[h] # NoList
  /\ mem' = Extend(mem, tail[h])
  /\ tail' = [tail EXCEPT ![h] = NewCluster(mem)]
  /\ damaged' = (damaged \/ ~ HasFree(mem[1]))
  /\ UNCHANGED <<dfat, dirs, pc, job, nextCopy, files, saved, torn>>

(***************************************************************************)
(* __fat_insert_normdir finds its cluster f and has the entry placed in    *)
(* the parent before f is marked: a parent that is full is extended by the *)
(* same f.  The entry holds the low half of f only.                        *)
(***************************************************************************)
InsertNormDir(h, full) ==
  /\ pc = "idle"
  /\ tail[h] # NoList
  /\ HasFree(mem[1])
  /\ LET f == FirstFree(mem[1])
         placed == IF full THEN Extend(mem, tail[h]) ELSE mem
     IN  /\ mem' = SetCluster(placed, f, END_LOW)
         /\ tail' = IF full THEN [tail EXCEPT ![h] = f] ELSE tail
         /\ dirs' = dirs \cup {ContentNumber(NormDirEncoding(f))}
  /\ UNCHANGED <<dfat, pc, job, nextCopy, files, saved, damaged, torn>>

----------------------------------------------------------------------------
(***************************************************************************)
(* __fat_insert_file, cut where it writes to the device.  A failed search  *)
(* leaves the variable it should have set as it was, uninitialised.        *)
(***************************************************************************)
Found(t) == IF HasFree(t) THEN {FirstFree(t)} ELSE Entries

\* size / clusterSize + 1: one too many when the size is a whole multiple.
\* Changed: without the + 1.
ClusterCountShort(k, exact) == IF exact THEN k ELSE k - 1

ClusterCount(k, exact) == IF exact THEN k + 1 ELSE k

InsertFile(d, k, exact) ==
  /\ pc = "idle"
  /\ d \in dirs /\ IsValidCluster(d)
  /\ CheckFreeClusters(mem[1], ClusterCount(k, exact))
  /\ \E f \in Found(mem[1]) :
       /\ mem' = SetCluster(mem, f, END_LOW)
       /\ job' = [dir |-> d, start |-> f, cur |-> f,
                  left |-> k - 1, chunks |-> k]
  /\ pc' = "chunk"
  /\ damaged' = (damaged \/ ~ HasFree(mem[1]))
  /\ UNCHANGED <<dfat, tail, dirs, nextCopy, files, saved, torn>>

(***************************************************************************)
(* The write of a further cluster of data, with cluster number -1: it goes *)
(* over entries of the copies in StrayCopies, or fails.                    *)
(***************************************************************************)
Overwritten(junk) ==
  [j \in Copies |->
     [e \in Entries |-> IF e \in StrayEntries(j) THEN junk[e] ELSE dfat[j][e]]]

StrayWrite ==
  \/ UNCHANGED <<dfat, torn>>
  \/ /\ StrayCopies # {}
     /\ \E junk \in [UNION {StrayEntries(j) : j \in Copies} -> Junk] :
          dfat' = Overwritten(junk)
     /\ torn' = (torn \/ 1 \in StrayCopies)

\* The entry found is linked to but not marked: the next search finds it again.
NextChunk ==
  /\ pc = "chunk"
  /\ job.left > 0
  /\ \E f \in Found(mem[1]) :
       /\ mem' = SetCluster(mem, job.cur, f)
       /\ job' = [job EXCEPT !.cur = f, !.left = @ - 1]
  /\ damaged' = (damaged \/ ~ HasFree(mem[1]))
  /\ StrayWrite
  /\ UNCHANGED <<tail, dirs, pc, nextCopy, files, saved>>

\* Changed: the last cluster is left as the loop left it.
LeftOpen(ts, c) == ts

Ended(ts, c) == SetCluster(ts, c, END_LOW)

FileDone ==
  /\ pc = "chunk"
  /\ job.left = 0
  /\ mem' = Ended(mem, job.cur)
  /\ pc' = "place"
  /\ UNCHANGED <<dfat, tail, dirs, job, nextCopy, files, saved, damaged, torn>>

(***************************************************************************)
(* The directory is read again, the entry is placed and the list dropped.  *)
(***************************************************************************)
PlaceEntry(full) ==
  /\ pc = "place"
  /\ \E last \in ChainEnds(mem[1], job.dir) :
       mem' = IF full THEN Extend(mem, last) ELSE mem
  /\ damaged' = (damaged \/ (full /\ ~ HasFree(mem[1])))
  /\ files' = files \cup {job.start}
  /\ job' = NoJob
  /\ pc' = "idle"
  /\ UNCHANGED <<dfat, tail, dirs, nextCopy, saved, torn>>

(***************************************************************************)
(* The same placed astray: along the last next of the list just read, or   *)
(* because reading it failed, which is not looked at and leaves            *)
(* startClusters without a value.                                          *)
(***************************************************************************)
PlaceEntryAstray ==
  /\ pc = "place"
  /\ mem' \in AstrayTables(mem)
  /\ damaged' = TRUE
  /\ job' = NoJob
  /\ pc' = "idle"
  /\ UNCHANGED <<dfat, tail, dirs, nextCopy, files, saved, torn>>

----------------------------------------------------------------------------
(***************************************************************************)
(* __fat_remove_content_file.  The cluster __fat_get_clusterno makes of    *)
(* the entry and the one it links to are marked; the entry the loop reads  *)
(* next is the one it has just overwritten, so it goes no further.  A      *)
(* number past the end of the table reads and writes whatever is in memory *)
(* there: as a link, it may have any one entry marked.                     *)
(***************************************************************************)
\* Changed: the clusters of a removed file become free.
MarkAvailable(ts, S) ==
  [j \in Copies |-> [e \in Entries |-> IF e \in S THEN AVAILABLE ELSE ts[j][e]]]

MarkInvalid(ts, S) ==
  [j \in Copies |-> [e \in Entries |-> IF e \in S THEN INVALID ELSE ts[j][e]]]

Marked(t, c) == IF IsValidCluster(t[c]) THEN {c, t[c]} ELSE {c}

RemoveContentFile(entry) ==
  /\ pc = "idle"
  /\ LET c == GetClusterNo(entry)
     IN  \E S \in IF c \in Entries
                  THEN {Marked(mem[1], c)}
                  ELSE {{}} \cup {{e} : e \in Entries} :
           mem' = MarkInvalid(mem, S)
  /\ UNCHANGED <<dfat, tail, dirs, pc, job, nextCopy, files, saved, damaged, torn>>

----------------------------------------------------------------------------
(***************************************************************************)
(* __fat_update_fattable: FAT_TABLE is written to the first copy and then, *)
(* from where that write ended, to the second.  If the first write failed  *)
(* the file offset is still at copy 1.                                     *)
(***************************************************************************)
\* Changed: the second write takes FAT_SEC_TABLE.
WriteOwnCopy(j) ==
  /\ dfat' = [dfat EXCEPT ![j] = mem[j]]
  /\ IF j = 1 THEN saved' = files /\ torn' = damaged
              ELSE UNCHANGED <<saved, torn>>

WriteCopy(j) ==
  /\ dfat' = [dfat EXCEPT ![j] = mem[1]]
  /\ IF j = 1 THEN saved' = files /\ torn' = damaged
              ELSE UNCHANGED <<saved, torn>>

WriteFails == UNCHANGED <<dfat, saved, torn>>

\* Changed: the table may be written in the middle of an insertion.
UpdateAnytime ==
  /\ \/ WriteCopy(1) /\ nextCopy' = NumFATs
     \/ WriteFails /\ nextCopy' = 1
  /\ UNCHANGED <<mem, tail, dirs, pc, job, files, damaged>>

UpdateFatTable ==
  /\ pc = "idle"
  /\ \/ WriteCopy(1) /\ nextCopy' = NumFATs
     \/ WriteFails /\ nextCopy' = 1
  /\ pc' = IF NumFATs = 2 THEN "second" ELSE "idle"
  /\ UNCHANGED <<mem, tail, dirs, job, files, damaged>>

UpdateSecond ==
  /\ pc = "second"
  /\ WriteCopy(nextCopy) \/ WriteFails
  /\ pc' = "idle" /\ nextCopy' = 1
  /\ UNCHANGED <<mem, tail, dirs, job, files, damaged>>

(***************************************************************************)
(* The program ends or dies, and the volume is opened again: what was in   *)
(* memory is lost, and __fat_read_bpb reads each copy from the device.     *)
(***************************************************************************)
Remount ==
  /\ mem' = dfat
  /\ tail' = [h \in Handles |-> NoList]
  /\ pc' = "idle" /\ job' = NoJob /\ nextCopy' = 1
  /\ files' = saved
  /\ damaged' = torn
  /\ UNCHANGED <<dfat, dirs, saved, torn>>

----------------------------------------------------------------------------
InsertStep ==
  \/ NextChunk
  \/ FileDone
  \/ \E full \in BOOLEAN : PlaceEntry(full)

Next ==
  \/ \E h \in Handles : \E c \in dirs : OpenDir(h, c)
  \/ \E h \in Handles : PlaceShortdir(h) \/ PlaceAstray(h)
  \/ \E h \in Handles : \E full \in BOOLEAN : InsertNormDir(h, full)
  \/ \E d \in dirs : \E k \in 1 .. MaxChunks : \E exact \in BOOLEAN :
       InsertFile(d, k, exact)
  \/ InsertStep
  \/ PlaceEntryAstray
  \/ \E c \in DataEntries : RemoveContentFile(InsertEncoding(c))
  \/ \E c \in DataEntries : RemoveContentFile(StandardEncoding(c))
  \/ UpdateFatTable
  \/ UpdateSecond
  \/ Remount

Spec == Init /\ [][Next]_vars

\* A call that was made goes on until it returns or the program dies; that an
\* entry goes astray is nothing to rely on.
FairSpec == Spec /\ WF_vars(InsertStep) /\ WF_vars(UpdateSecond)
----------------------------------------------------------------------------
(***************************************************************************)
(* Correctness.  None of it is claimed once the table in memory is         *)
(* damaged, and the operation that is in the middle of linking clusters    *)
(* (pc = "chunk") is let finish.                                           *)
(***************************************************************************)

(* Every chain in memory comes to an end: __fat_read_clusters, which has   *)
(* no other way out, returns whatever directory or file it is called for,  *)
(* however inserts, extensions through stale lists, removals and restarts  *)
(* came before.                                                            *)
ChainsTerminate == ~ damaged /\ pc # "chunk" => Acyclic(mem[1])

(* No chain runs into a cluster that a later search would hand out again.  *)
NoLinkToFree == ~ damaged /\ pc # "chunk" => LinksLive(mem[1])

(* Two files that __fat_insert_file has put on the volume never come to    *)
(* share a cluster, before or after a restart.                             *)
FilesDisjoint ==
  ~ damaged /\ pc # "chunk" =>
    \A a, b \in files :
      a # b => Reach(mem[1], a) \cap Reach(mem[1], b) = {}

(* A list of clusters the program still holds never ends in a cluster that *)
(* has become free meanwhile, so extending it cannot tie a directory to    *)
(* what someone else has been given.                                       *)
ListsInUse ==
  ~ damaged => \A h \in Handles : tail[h] # NoList => mem[1][tail[h]] # AVAILABLE

(* The one check at the start of __fat_insert_file is enough: the searches *)
(* in its loop, whose result is ignored, find an entry every time.         *)
LoopNeverStarves ==
  ~ damaged /\ pc = "chunk" /\ job.left > 0 => HasFree(mem[1])

(* What a finished file is linked together from.  As each search but the   *)
(* first comes up with the same entry twice, a file of n clusters of data  *)
(* gets 1 + n \div 2 of them, a chain that has an end all the same.        *)
ChainLength ==
  ~ damaged /\ pc = "place" =>
    Cardinality(Reach(mem[1], job.start)) = 1 + job.chunks \div 2

(* Whenever the program dies, in the middle of an insertion or between the *)
(* two writes of an update, copy 1 on the device is a table that a restart *)
(* can work with, unless file data went over it.                           *)
RestartSafe == ~ torn => WellFormed(dfat[1])

(* The second write of an update makes copy 1 current even when the first  *)
(* write failed: the offset is still at copy 1 then, so that copy 2, which *)
(* __fat_update_fattable says it updates too, stays what it was and no one *)
(* is told.  Only after two writes that succeed are both the table in      *)
(* memory.                                                                 *)
UpdateWrites ==
  [][pc = "second" /\ dfat' # dfat =>
       /\ dfat'[1] = mem[1]
       /\ dfat'[2] = IF nextCopy = 2 THEN mem[1] ELSE dfat[2]]_vars

(* A call to insert a file comes to an end.                                *)
InsertReturns == pc \in {"chunk", "place"} ~> pc = "idle" \/ damaged
(* What __fat_allocate_cluster says of itself: the cluster a list is       *)
(* extended by was free until then.                                        *)
ExtendedByFree ==
  [][mem' # mem =>
       \A h \in Handles :
         tail[h] # NoList /\ tail'[h] \notin {tail[h], NoList} =>
           mem[1][tail'[h]] = AVAILABLE]_vars

(* What __fat_insert_normdir says of itself: a directory gets a new        *)
(* cluster, so nothing links into the first cluster of one just made.      *)
NewDirectoryOwnCluster ==
  [][\A d \in dirs' \ dirs :
       \A c \in Entries : IsLinked(mem'[1], c) => Link(mem'[1][c]) # d]_vars

(* The free clusters of a volume are a pool as ClusterPool describes it:   *)
(* no operation of fat_c.c, not even removal, gives a cluster back, none   *)
(* takes two at once, and a restart goes back to what copy 1 says.         *)
Pool == INSTANCE ClusterPool
          WITH Clusters <- DataEntries,
               free <- FreeEntries(mem[1]),
               saved <- FreeEntries(dfat[1]),
               broken <- damaged

ImplementsPool == Pool!Spec
============================================================================
