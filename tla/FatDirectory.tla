---------------------------- MODULE FatDirectory ----------------------------
(***************************************************************************)
(* What is in the clusters of directories: the entries that                *)
(* __fat_insert_normdir and __fat_insert_file place, through lists of      *)
(* clusters read from the device at some earlier time, what becomes of     *)
(* them on the device, and what a program finds there when it starts anew  *)
(* after its predecessor died, the table being written in a call apart.    *)
(*                                                                         *)
(* An entry is its kind and the two fields that hold a cluster number.     *)
(* The kind also records what the program cannot see: a stray entry leads  *)
(* elsewhere than to what was made for it, as its cluster's number is cut  *)
(* off in its fields, or as it was in the cluster before that was taken    *)
(* for the directory.  Files take one cluster here: of a file of more,     *)
(* FatVolume has the clusters after the first, which are written to the    *)
(* place of cluster number -1.                                             *)
(***************************************************************************)
EXTENDS FatTable, FatNumbers, Sequences

CONSTANTS
  Slots,           \* entries in a cluster: its size by FAT32_DIR_ENTRY_SIZE
  Leftovers,       \* what a cluster may hold that no one has written to yet
  Handles,         \* lists of a directory's clusters the program may hold
  InitialTables    \* the tables a volume may have when it is opened

VARIABLES
  mem,        \* FAT_TABLE, and FAT_SEC_TABLE if there is one
  dfat,       \* the copies of the table on the device
  disk,       \* the clusters on the device
  list,       \* the lists held: clusters with their numbers and contents
  accepted,   \* history: the last entry whose insertion returned 0, with the
              \* number of its directory
  failed,     \* history: a write to the device failed, which no one noticed
  dangling,   \* history: a restart met an entry whose cluster was free
  damaged     \* history: the program followed a stray entry, placed one
              \* outside the list it was meant for, or linked to cluster 0

vars == <<mem, dfat, disk, list, accepted, failed, dangling, damaged>>

Kinds ==
  {"free", "file", "dir", "strayfile", "straydir", "dot", "dotdot", "data"}

Entry(kind, number) == [kind |-> kind, hi |-> number.hi, lo |-> number.lo]

Whole(e) == [s \in 1 .. Slots |-> e]

NoEntries == Whole(Entry("free", NormDirEncoding(0)))

\* The data of the file that was given cluster n, as __fat_write_cluster
\* writes them.
FileData(n) == Whole(Entry("data", NormDirEncoding(n)))

\* The entries the two insertions make for what is in cluster f.
NormDirEntry(f) ==
  Entry(IF f < HalfWord THEN "dir" ELSE "straydir", NormDirEncoding(f))

FileEntry(f) == Entry(IF f < Byte THEN "file" ELSE "strayfile", InsertEncoding(f))

IsEntry(e) == e.kind \in {"file", "dir"}

LeadsToDir(e) == e.kind \in {"dir", "straydir"}

Contents ==
  [1 .. Slots -> [kind : Kinds, hi : 0 .. HalfWord - 1, lo : 0 .. HalfWord - 1]]

Nodes == [no : DataEntries, data : Contents]

ASSUME DirectoryAssumption ==
  /\ Slots \in Nat /\ Slots >= 2
  /\ \A t \in InitialTables :
       t \in Tables /\ WellFormed(t) /\ Reach(t, 2) \subseteq DataEntries
  /\ Leftovers \subseteq Contents
  /\ \A data \in Leftovers : \A s \in 1 .. Slots : ~ IsEntry(data[s])

NoEntry == [dir |-> 0, entry |-> Entry("free", NormDirEncoding(0))]

TypeOK ==
  /\ mem \in [Copies -> Tables]
  /\ dfat \in [Copies -> Tables]
  /\ \A c \in DataEntries : [no |-> c, data |-> disk[c]] \in Nodes
  /\ list \in [Handles -> Seq(Nodes)]
  /\ accepted = NoEntry
       \/ (accepted.dir \in DataEntries /\ accepted.entry.kind \in Kinds)
  /\ failed \in BOOLEAN
  /\ dangling \in BOOLEAN
  /\ damaged \in BOOLEAN

\* A volume with an empty root directory; the other clusters hold anything,
\* entries of directories there once were included.
Init ==
  /\ \E t \in InitialTables :
       /\ mem = [j \in Copies |-> t]
       /\ dfat = mem
       /\ \E old \in [DataEntries -> Leftovers] :
            disk = [c \in DataEntries |->
                      IF c \in Reach(t, 2) THEN NoEntries ELSE old[c]]
  /\ list = [h \in Handles |-> <<>>]
  /\ accepted = NoEntry
  /\ failed = FALSE /\ dangling = FALSE /\ damaged = FALSE

----------------------------------------------------------------------------
(***************************************************************************)
(* __fat_read_clusters: the chain from c, in order, as it is now.          *)
(***************************************************************************)
ReadClusters(t, d, c) ==
  LET number[i \in 1 .. NumEntries] ==
        IF i = 1 THEN c ELSE Link(t[number[i - 1]])
  IN  [i \in 1 .. Cardinality(Reach(t, c)) |->
         [no |-> number[i], data |-> d[number[i]]]]

\* The root directory, and where the entries of the others lead.  Chains
\* that run into a free cluster, and so to cluster 0, are not followed.
Directories ==
  {n \in DataEntries :
     /\ Reach(mem[1], n) \subseteq DataEntries
     /\ n = 2 \/ \E c \in DataEntries : \E s \in 1 .. Slots :
                   LeadsToDir(disk[c][s]) /\ ContentNumber(disk[c][s]) = n}

\* Those that were made at the cluster their entry leads to.
Made(n) ==
  n = 2 \/ \E c \in DataEntries : \E s \in 1 .. Slots :
            disk[c][s].kind = "dir" /\ ContentNumber(disk[c][s]) = n

OpenDir(h, c) ==
  /\ ~ damaged
  /\ list' = [list EXCEPT ![h] = ReadClusters(mem[1], disk, c)]
  /\ damaged' = ~ Made(c)
  /\ UNCHANGED <<mem, dfat, disk, accepted, failed, dangling>>

----------------------------------------------------------------------------
(***************************************************************************)
(* __fat_place_shortdir with the list l.  Only the last cluster is looked  *)
(* at.  If it is full the list is extended by a cluster of zeros, and the  *)
(* entry is copied behind the end of it, as offset keeps its value.  (The  *)
(* new cluster is on the list only: what is on the device stays there.)    *)
(***************************************************************************)
\* Changed: the last entry of a cluster is not looked at.
RoomShort(data) == {s \in 1 .. Slots - 1 : data[s].kind = "free"}

Room(data) == {s \in 1 .. Slots : data[s].kind = "free"}

\* Changed: the search does not move on.
FirstSlot(data) == 1

FirstRoom(data) == Min(Room(data))

\* Changed: __fat_init_freecluster leaves iNumber as it is.
FreshUnset(c) == [no |-> StrayNumber, data |-> NoEntries]

Fresh(c) == [no |-> c, data |-> NoEntries]

Full(l) == Room(l[Len(l)].data) = {}

PlacedTable(ts, l) == IF Full(l) THEN Extend(ts, l[Len(l)].no) ELSE ts

PlacedList(ts, l, e) ==
  IF Full(l)
  THEN Append(l, Fresh(NewCluster(ts)))
  ELSE [l EXCEPT ![Len(l)].data[FirstRoom(l[Len(l)].data)] = e]

(***************************************************************************)
(* __fat_write_cluster for the head of the list l, the only cluster of it  *)
(* that the two insertions write.                                          *)
(***************************************************************************)
WriteHead(d, l, ok) == IF ok THEN [d EXCEPT ![l[1].no] = l[1].data] ELSE d

----------------------------------------------------------------------------
(***************************************************************************)
(* __fat_insert_normdir.  The directory's own cluster is made in memory    *)
(* with its two dot entries and written after the parent.                  *)
(***************************************************************************)
\* Changed: the dot dot entry leads to the directory itself.
ParentOwn(f, l) == f

ParentNumber(f, l) == IF l[1].no = 2 THEN 0 ELSE l[1].no

Dots(f, l) ==
  [NoEntries EXCEPT
     ![1] = Entry("dot", NormDirEncoding(f)),
     ![2] = Entry("dotdot", NormDirEncoding(ParentNumber(f, l)))]

InsertNormDir(h, headOk, dotsOk) ==
  /\ ~ damaged
  /\ list[h] # <<>>
  /\ HasFree(mem[1])
  /\ LET f == FirstFree(mem[1])
         e == NormDirEntry(f)
         l == PlacedList(mem, list[h], e)
     IN  /\ mem' = SetCluster(PlacedTable(mem, list[h]), f, END_LOW)
         /\ list' = [list EXCEPT ![h] = l]
         /\ disk' = LET d == WriteHead(disk, l, headOk)
                    IN  IF dotsOk THEN [d EXCEPT ![f] = Dots(f, list[h])] ELSE d
         /\ accepted' = [dir |-> l[1].no, entry |-> e]
  /\ failed' = (failed \/ ~ headOk \/ ~ dotsOk)
  /\ UNCHANGED <<dfat, dangling, damaged>>

(***************************************************************************)
(* __fat_insert_file for a file of one cluster, into the directory c: the  *)
(* data, then the directory read anew and the entry placed.  With no       *)
(* cluster left to extend c by, its last cluster is linked to cluster 0.   *)
(***************************************************************************)
\* Changed: the cluster is not marked.
ClaimNot(ts, f) == ts

Claim(ts, f) == SetCluster(ts, f, END_LOW)

\* Changed: the data are not written.
WriteNot(d, f, ok) == d

WriteData(d, f, ok) == IF ok THEN [d EXCEPT ![f] = FileData(f)] ELSE d

InsertFile(c, dataOk, headOk) ==
  /\ ~ damaged
  /\ CheckFreeClusters(mem[1], 1)
  /\ LET f == FirstFree(mem[1])
         ts == Claim(mem, f)
         d == WriteData(disk, f, dataOk)
         old == ReadClusters(ts[1], d, c)
         e == FileEntry(f)
         l == PlacedList(ts, old, e)
     IN  /\ mem' = PlacedTable(ts, old)
         /\ disk' = WriteHead(d, l, headOk)
         /\ accepted' = [dir |-> c, entry |-> e]
         /\ damaged' = (~ Made(c) \/ (Full(old) /\ ~ HasFree(ts[1])))
  /\ failed' = (failed \/ ~ dataOk \/ ~ headOk)
  /\ UNCHANGED <<dfat, list, dangling>>

(***************************************************************************)
(* Either insertion may place its entry outside the list: along the next   *)
(* of its last node, which __fat_read_clusters does not set, or along a    *)
(* list that has no value as reading it failed, or behind the buffer of a  *)
(* new cluster.  Nothing is claimed, and nothing modelled, of what a       *)
(* damaged program does.                                                   *)
(***************************************************************************)
PlaceAstray ==
  /\ ~ damaged
  /\ HasFree(mem[1])
  /\ damaged' = TRUE
  /\ UNCHANGED <<mem, dfat, disk, list, accepted, failed, dangling>>

----------------------------------------------------------------------------
(***************************************************************************)
(* __fat_update_fattable, whose copies FatVolume writes one by one: here   *)
(* the table is written to all of them.  If the writes fail nothing is.    *)
(***************************************************************************)
UpdateFatTable ==
  /\ ~ damaged
  /\ dfat' = [j \in Copies |-> mem[1]]
  /\ UNCHANGED <<mem, disk, list, accepted, failed, dangling, damaged>>

(***************************************************************************)
(* The program ends or dies, and the volume is opened again.  It may die   *)
(* in __fat_insert_normdir when the parent has been written and the new    *)
(* directory has not, and in __fat_insert_file when the data have been     *)
(* written and the entry has not.                                          *)
(***************************************************************************)
LeadsToFree(t, e) ==
  IsEntry(e) /\ ContentNumber(e) \in FreeEntries(t)

Reopened(d) ==
  /\ ~ damaged
  /\ disk' = d
  /\ mem' = dfat
  /\ list' = [h \in Handles |-> <<>>]
  /\ accepted' = NoEntry
  /\ dangling' = (dangling \/
       \E c \in DataEntries : \E s \in 1 .. Slots : LeadsToFree(dfat[1], d[c][s]))
  /\ UNCHANGED <<dfat, failed, damaged>>

Remount == Reopened(disk)

DiesBeforeDots(h) ==
  /\ list[h] # <<>>
  /\ HasFree(mem[1])
  /\ Reopened(WriteHead(disk,
       PlacedList(mem, list[h], NormDirEntry(FirstFree(mem[1]))), TRUE))

DiesBeforeEntry ==
  /\ CheckFreeClusters(mem[1], 1)
  /\ Reopened(WriteData(disk, FirstFree(mem[1]), TRUE))

Next ==
  \/ \E h \in Handles : \E c \in Directories : OpenDir(h, c)
  \/ \E h \in Handles : \E a, b \in BOOLEAN : InsertNormDir(h, a, b)
  \/ \E c \in Directories : \E a, b \in BOOLEAN : InsertFile(c, a, b)
  \/ PlaceAstray
  \/ UpdateFatTable
  \/ Remount
  \/ \E h \in Handles : DiesBeforeDots(h)
  \/ DiesBeforeEntry

Spec == Init /\ [][Next]_vars

----------------------------------------------------------------------------
SlotSet == DataEntries \X (1 .. Slots)
At(d, x) == d[x[1]][x[2]]

(* Every entry of a directory whose cluster's number fits into 16 bits     *)
(* leads to a cluster that begins with the dot entries of that directory,  *)
(* the second one leading back to the cluster the entry is in, or being 0  *)
(* for the root: until a write fails, a restart finds an entry whose       *)
(* cluster is free, or the program is damaged.  Of the entries a directory *)
(* comes by with a cluster that is never written to nothing is said.       *)
DirectoriesLinked ==
  ~ failed /\ ~ dangling /\ ~ damaged =>
    \A x \in SlotSet : At(disk, x).kind = "dir" =>
      LET n == ContentNumber(At(disk, x))
      IN  /\ n \in DataEntries
          /\ disk[n][1] = Entry("dot", NormDirEncoding(n))
          /\ disk[n][2] = Entry("dotdot", NormDirEncoding(IF x[1] = 2 THEN 0 ELSE x[1]))

(* Every entry of a file whose cluster's number fits into 8 bits, read as  *)
(* __fat_get_file_content reads it, leads to the first cluster of its data,*)
(* whatever was made, extended or left unfinished since and however often  *)
(* the volume was opened anew, under the same conditions.                  *)
FilesIntact ==
  ~ failed /\ ~ dangling /\ ~ damaged =>
    \A x \in SlotSet : At(disk, x).kind = "file" =>
      LET n == ContentNumber(At(disk, x))
      IN  n \in DataEntries /\ disk[n] = FileData(n)

(* No two entries that insertions placed, in one directory or in two, lead *)
(* to the same cluster, as long as their numbers fit (8 bits for files, 16 *)
(* for directories): also when writes fail.                                *)
OneEntryPerCluster ==
  ~ dangling /\ ~ damaged =>
    \A x, y \in {z \in SlotSet : IsEntry(At(disk, z))} :
      ContentNumber(At(disk, x)) = ContentNumber(At(disk, y)) => x = y

(* A program that dies leaves entries that insertions placed and that lead *)
(* to free clusters only if something was inserted since the table was     *)
(* last written, or it died in the middle of an insertion: one update is   *)
(* enough for everything there is by then, in whatever order and through   *)
(* whatever lists it was made, as far as the numbers fit.                  *)
SavedSurvives ==
  [][dangling' # dangling => mem[1] # dfat[1] \/ disk' # disk]_vars

(* Between two lists of the same directory an entry can be lost, but only  *)
(* by an insertion through a list whose first cluster was read before the  *)
(* entry was written.                                                      *)
Outdated(c) ==
  \E h \in Handles :
    list[h] # <<>> /\ list[h][1].no = c /\ list[h][1].data # disk[c]

EntriesKept ==
  [][~ dangling =>
       \A x \in SlotSet :
         IsEntry(At(disk, x)) /\ At(disk', x) # At(disk, x) => Outdated(x[1])]_vars

(* An insertion into a directory of one cluster that has room left puts    *)
(* the entry on the device, however old the list it goes through, unless   *)
(* the write fails or the list, which may hold entries that have been lost *)
(* since, is full.                                                         *)
RoomGiven ==
  [][LET x == accepted'
     IN  /\ x \notin {accepted, NoEntry}
         /\ ~ failed' /\ ~ dangling
         /\ ~ IsValidCluster(mem[1][x.dir])
         /\ \E s \in 1 .. Slots : disk[x.dir][s].kind = "free"
         /\ LeadsToDir(x.entry) =>
              \A h \in Handles :
                list[h] # <<>> /\ list[h][1].no = x.dir => ~ Full(list[h])
         => \E s \in 1 .. Slots : disk'[x.dir][s] = x.entry]_vars

(* What __fat_place_shortdir says of itself: the entry is placed in a free *)
(* entry of a cluster of the list it is given, which is one cluster longer *)
(* if none was free.                                                       *)
EntryPlaced ==
  [][accepted' # accepted /\ LeadsToDir(accepted'.entry) /\ ~ failed' =>
       \E h \in Handles : \E i \in DOMAIN list'[h] : \E s \in 1 .. Slots :
         list'[h][i].data[s] = accepted'.entry]_vars

(* What main.c says is done, any file can be read: the entry of the file   *)
(* inserted last leads to its data.                                        *)
FileReadable ==
  ~ failed /\ ~ dangling /\ ~ damaged
    /\ accepted.entry.kind \in {"file", "strayfile"} =>
    LET n == ContentNumber(accepted.entry)
    IN  n \in DataEntries /\ disk[n] = FileData(n)
=============================================================================
