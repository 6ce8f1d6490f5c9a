# isoc in TLA+

A formal model of `isoc`, a C program that reads ISO 9660 images and reads and
writes FAT32 volumes. The modules are translated from the source under
`src/src/`; line numbers below are lines of `src/src/include/fat/fat_c.c`
unless another file is named.

## 1. The system

| Part | State it keeps | Operations | Modelled in |
|---|---|---|---|
| FAT geometry | the BIOS parameter block, `iFirstDataSector`, cluster and table sizes | `__fat_read_bpb`, the positions every `lseek` uses | `FatGeometry` |
| FAT table | `FAT_TABLE`, `FAT_SEC_TABLE` in memory, one or two copies on the device | find, check, set, allocate, follow, update | `FatTable`, `FatVolume` |
| FAT volume | the above, and the cluster lists callers hold | insert a file, insert a directory, extend a list, remove, update, reopen | `FatVolume`, `ClusterPool` |
| FAT directories | the bytes of directory clusters on the device and in lists | place an entry, make a directory with its dot entries | `FatDirectory`, `FatNumbers` |
| FAT cluster lists | a list of clusters and their bytes, the file offset | read a chain, assemble a file, merge, cut a file, seek the end of a chain | `FatLists` |
| FAT long entries | the list of entries, `offset`, `skipped` | read a long name across clusters | `FatSession` |
| FAT timestamps | none | pack a time, a date | `FatTimestamps` |
| ISO 9660 reader | heap lists of records, `isoError` | read a directory or a path table, look up a path, look up a file, list a directory | `IsoReader` |
| Rock Ridge | none | find a signature, alternate names; attributes | names: `IsoReader` |
| `main` | the variables it hands from call to call | a straight line of calls, MBR and FSInfo among them | `FatSession` |
| MBR, FSInfo | one sector | decode | as calls that succeed or fail: `FatSession` |
| El Torito, bootloader | none | none; start-up | no (section 8) |

**How the parts interact.** Everything is single-threaded C; parts share the
structure `bpbFat32`, a file descriptor with a file offset, and lists on the
heap. Three kinds of copies of the same data exist at the same time and are
synchronised by nobody: the table on the device and the table in memory (the
caller must call `__fat_update_fattable`); a directory on the device and any
number of cluster lists read from it; a file's chain and the cluster numbers
stored in entries. No function of `fat_c.c` takes a lock or checks a version,
most results are ignored by callers, and the file offset is state that one
function relies on another to have left behind.

**What is hard.** Sequences of legal calls through lists that have gone stale;
the program dying between two of its writes (an insertion writes data, then an
entry; the table follows in a separate call); a write that fails and is not
noticed; a full volume; cluster numbers that are encoded in one way and decoded
in another; loops whose only way out is the well-formedness of what they walk
over; names that go on in the next cluster; a caller that looks at no result;
malformed extents. There is no concurrency and there are no messages.
`PROJECT.json` lists each hazard at its line.

**Two remarks on the source.** `fat_c.c` does not compile as it stands (it adds
pointers in lines 868-879, uses an undeclared `FAT32_` in 1096 and repeats a
parameter name in 1147-1148); the functions modelled are well formed and are
read as the C they are. The repository contains no tests, and nothing in it
calls the functions that insert: the order of calls is therefore left free in
the model. `FAT_SEC_TABLE` is kept up to date in memory but never written:
both copies on the device are written from `FAT_TABLE` (270-287).

What makes each part correct, in a sentence: *table and volume*: chains end,
never lead to free clusters and never meet, whatever sequence of calls, failed
writes and deaths came before; *directories*: an entry leads to the cluster it
was made for, and is lost only as a documented effect of a stale list; *lists*:
the list is the chain and the content is the file; *long entries*: a name is read from
where it stands, also across clusters; *timestamps*: no field disturbs
another; *ISO reader*: the list is what the extent holds, a lookup returns the
first match, and memory is released once.

## 2. Modules

```
FatGeometry <- FatTable <- FatVolume  <- MCFatVolume
                  |   \       |  `-- INSTANCE ClusterPool
                  |    \      `----- FatVolumeProofs (EXTENDS FatTableProofs)
                  |     `- FatTableProofs
                  |- FatDirectory <- MCFatDirectory       FatNumbers is extended by
                  |      `- FatDirectoryProofs            FatVolume and FatDirectory
                  |           (EXTENDS FatTableProofs too)
                  `- FatLists <- MCFatLists
                         |- FatSession <- MCFatSession (EXTENDS MCFatLists too)
                         |      `- FatSessionProofs (EXTENDS FatListsProofs)
                         `- FatListsProofs
IsoReader <- MCIsoReader                                  FatTimestamps stands alone
    `- IsoReaderProofs
```

`FatGeometry` has the layout and every byte position, in arithmetic modulo
`Word` (2^32 in the build). `NumEntries` is the number of 32-bit entries in one
copy; the code searches all of it, slack at its end included.

`FatTable` is the pure part: the meaning of entries, `FirstFree`
(`__fat_find_free_cluster`), `Extend` (`__fat_allocate_cluster`), `Reach` and
`ChainEnds` (what the loop of `__fat_read_clusters` comes by), and `WellFormed`,
the conjunction of *acyclic*, *links live* and *links unique*. A chain is
followed by least fixed point, not by recursion, so that it can be proved about.

`FatNumbers` gathers the four ways the code splits and joins cluster numbers.
The widths of a byte and of a `uint16_t` are the constants `Byte` and `HalfWord`.

`FatVolume` is the core. A variable for each piece of state: `mem` and `dfat`
(tables in memory and on the device), `tail` (the last cluster of each list a
caller holds), `dirs` (numbers that lead to a directory), `pc`, `job` (the
locals of `__fat_insert_file`, which is cut at its device writes) and `nextCopy`
(the copy the file offset stands at between the two writes of an update). The
others are history: `files`, `saved`, and two flags that say what is no longer
claimed:

* `damaged`: the table in memory is the result of a search that failed
  unnoticed (255, 1015, 1025) or of an entry that was placed astray (see below),
  or was read from a damaged copy;
* `torn`: the same of copy 1 on the device, or file data went over it (1029).

Actions: `OpenDir` (382-429), `PlaceShortdir` (959-995 with a full last
cluster), `InsertNormDir` (294-338), `InsertFile`, `NextChunk`, `FileDone`,
`PlaceEntry` (999-1047), `PlaceAstray` and `PlaceEntryAstray` (the same walk
along a pointer that has no value), `RemoveContentFile` (1121-1142),
`UpdateFatTable`, `UpdateSecond` (267-288), `Remount` (530-621 after an exit or
a death at any moment). `ClusterPool` is the abstract specification: free clusters leave the
pool one at a time, never come back, and a restart goes back to the saved pool.

`FatDirectory` has the contents: clusters of `Slots` entries on the device and
in the lists read from it, and the table in memory and on the device. Each
action is a whole call, and each of its two writes may fail. `Remount` starts
anew from what is on the device; `DiesBeforeDots` and `DiesBeforeEntry` do so
after the first write of an `InsertNormDir` and of an `InsertFile`. `dangling`
says that an entry was met which leads to a free cluster.

At first a cluster that is not the root's holds any member of `Leftovers`:
what was there before, entries of directories that are gone included. A directory
that grows is extended by a cluster that nobody writes (979, 1045), and from then
on these are its entries. They are *stray*, as are the entries of new files and
directories whose cluster's number is cut off in its fields (310, 1016-1017):
the kind of an entry records this, though the program cannot see it. No property
claims anything of a stray entry but `FileReadable`, which the code violates. A
program that follows one is `damaged` from then on, as is one that places an
entry outside of the list it was meant for (`PlaceAstray`) or links cluster 0
into a directory: nothing is claimed of it any more and its next calls are not
modelled.

`FatLists` has the loops, one call per behaviour, on any table, the device
failing in any turn of a reading (`SeekFails`, `ReadFails`); bytes are
represented by where they come from.

`FatSession` composes it with `main`. `stage` is the call `main` is at and
`given` the variables that have got a value; the stages before `clusters` leave
the file offset `at` where the steps of `FatLists` then find it, and from the
list these return `__fat_get_long_dirs` (766-835) takes the entries of a name:
`FirstLong`, `NextLong` and the ways it fails, `NoFirst` and `NoNext`. Both steps
also go on where the list ends: `place` is then in a node that the unset `next`
of the last one has led to. What an entry holds is chosen when it is read. A behaviour of `FatSession` is one run of
`main`, or one call of `FatLists` by itself (`stage = "alone"`).

`FatTimestamps` has the two packings as functions, and theorems about them.

`IsoReader` has the calls `__iso_read_directory_pt`, `__iso_read_path_table`,
`__iso_read_directory_rd` and `__iso_read_dir_for_dirfile` of
`isobase/iso_read.c`, and the listing `__iso_print_dir_tree`, one call per
behaviour. An extent says what is read at
each offset. `live` counts the blocks of each kind that are allocated, `Allocated`
and `Freed` keep it, and a block that is freed when there is none is a misuse
(`FreesNone`); `misuse` also says that freed memory, unset pointers, NULL or bytes
behind a system use field were used, after which the outcome is nondeterministic.
`ext` of a record is its system use field as the byte by byte search of
`iso_rr_base.c` meets it: what looks like the head of an entry, whether one is
there or not, with its length and the `room` the field has from there on; `UseRR`
says whether names are looked for in it. Names and identifiers are sequences of
characters and may have zeros in them, at which `strncmp` stops (`Matches`). A
path is cut after `PathMax` characters and then into components
(`PathTokens`). `LookupLoadFails` has both ends of a lookup that could not read
its extent: the descriptor it has freed is freed again, or taken for what was
found. An extent may be meant for something (`for`, with its records in
`starts`): `ExtentAssumption` says what the standard then promises of it, which
is what `ProperExtent` stands for. All other extents are arbitrary.

The `MC*` modules give the constants that a `.cfg` cannot express.

### Undefined behaviour

It is a choice over what a build can do. A failed search leaves its variable
uninitialised in `__fat_insert_file` (any entry; the model stays within the
table) and 0 in `__fat_allocate_cluster`, which initialises it. `prevCluster`
(382) starts as any member of `Garbage`. The last node's `next` (403) is never
set: a walk stops there, or runs off (`RunsOff`, `NextLong`), or leads
`__fat_place_shortdir` (964) to something else that it takes for the last node,
as does a list that has no value because reading it failed (1043): whatever has a
place among the clusters may then be extended (`AstrayTables`). A cluster number beyond the table reads and
writes something, which as a link may lead to any entry being marked
(`RemoveContentFile`). After a failed `lseek` a list is freed along a `next`
that was never set (`SeekFails`). `main` goes on with variables that a failed
call has not set: what follows in it then is unknown, it returns, crashes or loops
for ever (`GoesWild`); after the `free` of an array on the stack in
`__fat_read_bpb` it has crashed (`FreesStack`). In `IsoReader` a use after free
either goes well or crashes, and the search for a file in a list that was never
set ends in any way or in none (`OvershootFile`).

## 3. Runs

"Holds" runs explore all states within the bounds; "violated" runs show a place
where the code does not do what its own comment, or the list of finished
features at the top of `main.c`, says.

| Run | What it shows |
|---|---|
| `volume` | Holds. One copy, four data clusters, one list; stray data writes hit copy 1. Chains end, lead to no free cluster and are disjoint between files; the one check at the start of an insertion suffices for all its searches; a finished file of n clusters is linked from 1 + n div 2; an insertion returns. |
| `copies` | Holds. Two copies, three data clusters, two lists; stray writes hit copy 2. Stale lists stay attached to clusters in use, copy 1 can be restarted from at any moment, the second table write makes up for a failed first in copy 1 and only there, and the volume implements `ClusterPool`. |
| `lists` | Holds. Every table over three data clusters, cyclic ones included, sector = cluster: the loops read what they should and end when the chain does, neighbours are rightly read without a seek, files are cut and assembled rightly except as found below, and as far as the first cluster of a file was read from its place. Whatever calls of `main` fail before, a long name that did not run off the list is read from consecutive entries, and the offset handed back leads to the next one. |
| `directory` | Holds. Two lists, up to two-cluster root, three entries per cluster, three data clusters, one of a number that no entry can hold, all unused ones full of old entries and data; restarts and deaths anywhere. Entries whose numbers fit lead to what was made for them, dot entries lead back, no two of them share a cluster, an entry is only lost through a list whose first cluster is out of date, an entry that finds room reaches the device unless the list is full of outdated entries, and a table written after the insertions is enough for everything to survive. |
| `iso` | Holds. Several hundred extents, one of two sectors with zeros between them included: accepted lists do not overlap, proper extents are listed completely, a lookup returns the first match and nothing that does not match, lookups and listings free every block once, no proper extent leads directories' calls outside of memory, and every call returns but the search for a file in a list never set. |
| `exhausted` | Violated: a list is extended by cluster 0 when nothing is free (255). |
| `subdirectory` | Violated: a directory made in a full parent shares its cluster with the parent (305, 330). |
| `content` | Violated: with two sectors to a cluster a file of two clusters is assembled wrongly (456). |
| `split` | Violated: every whole cluster of a file is taken from its second one (925). |
| `seek` | Violated: `__fat_seek_last_cluster` never ends on a chain of two (197). |
| `placed` | Violated: the entry that makes a directory grow is in none of its clusters (975-981). |
| `numbers` | Violated: a file just inserted whose first cluster does not fit a byte cannot be read back (1016). |

Each property has a mutant in `PROJECT.json`: a changed definition, standing
beside the original with a comment that begins "Changed:", under which the same
run fails. Distinct states of the passing runs: `volume` 162,980, `copies` 718,999,
`lists` 885,308, `directory` 75,512, `iso` 96,539.

### What the properties except

Some conditions of properties are places where the code does go wrong:

* `UpdateWrites` says what a failed first write does: copy 2 then stays old, and
  is not told to anyone, although the comment at 264-268 says that the function
  updates every copy.
* `ContentIsFile` and `EachFromItsPlace` speak of lists whose first cluster was
  read from its place. With the cluster's number less one in the uninitialised
  `prevCluster` it is read from wherever the file offset stands (393).
* `LongInPlace` speaks of names none of whose entries were read from where the
  unset `next` of the last node leads (403, 815-821).
* `CutIntoClusters` excepts files shorter than a cluster, where a pointer never
  set is freed (1038), or NULL dereferenced for an empty one (1018).
* The properties of `FatDirectory` speak of entries that are not stray.
* `FirstMatchWins` and `OwnedOnce` except a call that has misused memory: a
  lookup whose extent could not be read (337-340, 373-381), a record shorter than
  its identifier, a name too short or too long for its field, an extent without
  a record, and a listing without Rock Ridge.
* `MemorySafe` excepts the reading of path tables, which always uses freed memory,
  listings without Rock Ridge, failed reads, and extents not made as the standard
  says. That says of the names, too, that what looks like one has the length of
  one and stays in its field: `__iso_rr_find_altname` holds the length against
  nothing (`iso_rr_base.c`:58-61), and would read behind the field.

### Bounds, and why they suffice

* *Table of five or six entries.* Chains of length three, two chains and a
  free cluster, and a full volume all fit. `directory` has five: a root of one or
  two clusters, one number that fits an entry and one, 4, that does not, so that
  files, directories, extensions and full volumes are made of either.
  `MaxChunks = 3` goes once through the case in which two searches find the same
  entry and once through the case in which they do not.
* *`Bound`* (`MCFatVolume`) stops at states in which the table is damaged, where
  nothing is claimed, and allows one removed cluster: removal is the same step
  each time, and removing all of them leaves nothing to insert into. The proofs
  have no such bound.
* *`MCBound`* (`MCFatDirectory`) stops where a restart has met an entry that
  leads to a free cluster: from there on two owners of a cluster are expected;
  and where the program is damaged.
* *`Leftovers`* is one cluster of an old directory: an entry that leads to another
  cluster, a slot that is not free, and one that is.
* *Long names.* `MaxOrder = 7` stands for 63: more entries than three clusters of
  `DirSlots = 2` have, so that a name begins and ends anywhere, spans all of the
  directory, and runs off its end. `Garbage` has values that make the first
  cluster a neighbour of what `prevCluster` happens to hold, and ones that do not.
* *`Junk = {0}`*: file data that goes over the table leaves zeros, the value
  the code takes for free; other values only set `torn`, as this one does.
* *Two lists* are one stale and one fresh. They are symmetric.
* *Scaled widths.* `Byte = 2` and `HalfWord = 4`, or 4 for both, let tables of
  three or four clusters have numbers that do not fit a byte, or a half word; `Word = 65536` is far above every position
  so that only the number -1 wraps, as it does in the build for volumes under
  4 GiB. `DirHeader = 3`, `TableHeader = 2` and `CharMax = 8` stand for 33, 8
  and 127: records of four to eight bytes are too short, just right or long.
* *`MaxSize`* of 10 or 12 bytes is two or three clusters and a rest; `MaxNodes`
  is one more than a list that ends can have, so a loop that does not end is seen
  not to end rather than cut off: the call then stops without having returned.
* *Extents* of up to three records, with and without padding, cut off, with odd
  lengths and records shorter than their identifier; system use fields of up to
  three entries, with and without a name, one name inside of another entry, too
  short or too long for its field: every branch of the loops. `PathMax` is 4: one
  of the paths is longer, and its last component is never looked for.

`CHECK_DEADLOCK FALSE` stands where a behaviour is one call and stops when it has
returned (`FatLists`, `FatSession`, `IsoReader`), and in the runs of `FatDirectory`, where a
full volume with no list open accepts no further call. `FatVolume` is
checked for deadlock.

### What is not claimed of damaged tables

After an unnoticed failed search, or data written over the table, the code makes
no promise that could hold and the properties make none. That this state is
reached is itself shown: `exhausted` for the first, and the `torn` states of
`volume` and `copies` for the second. On a real volume the write of every
cluster of a file but its first goes to three clusters before the data area
(cluster number -1, line 1029), which is the end of the last copy of the table
whenever the table is at least three clusters long.

## 4. Fairness

The scheduler is the C program counter: a call that was made takes its next step
until it returns. `FairSpec` of `FatVolume` has weak fairness of the steps of an
insertion and of the second write of an update; not of beginning a call, not of
`Remount`, and not of `PlaceEntryAstray`: an insertion has to return without
going astray. `Spec` of `FatLists` and of `IsoReader` has weak fairness of `Step`,
every step but the failure of a read: the device may fail but need not.
`SessionSpec` has it of the same steps: no property says how far `main` gets. With a
cycle in the table nothing is promised, and `ReadReturns` says so (`Sane`).

## 5. The crash model

`__fat_write_data` calls `fsync` after each write (127-143), so a write that
returned is durable; a death lies between two writes (`Remount` is enabled in
every state). A table write is one write call and is taken to be atomic. A write
may fail, with no effect, and no caller sees it. In `FatVolume` a death may come
between the writes of a file's clusters, its entry and the table. In
`FatDirectory`, where calls are whole, a death inside one is `DiesBeforeDots` or
`DiesBeforeEntry`. There the copies of the table are
written together: the half-written update is `FatVolume`'s. `SavedSurvives` is
what remains to be claimed: entries come to lead to free clusters only by a death
in the middle of an insertion, or if something was inserted since the table was
last written.

## 6. Proofs

The theorems are checked by TLAPS. Every invariant and every action property a
passing run checks is also a theorem. Assumptions: those
declared with the constants (`GeometryAssumption`: one or two copies, positive
sizes; `TableAssumption`: at least three entries, all numbers below the reserved
values; `VolumeAssumption`, `DirectoryAssumption`: initial tables well formed;
`ReaderAssumption` of `FatLists`: the
tables a call may find, cyclic ones included, have no link beyond their end;
`SessionAssumption`: an entry fits a cluster; `ByteAssumption`: a byte has no more
values than a half word; `DirectoryAssumption` also: leftovers are not taken for
entries the insertions made;
`ReaderAssumption` of `IsoReader`: types, headers of at least one byte, and
components without a 0, `PathTokens` being a fold that cannot be reasoned about;
`ExtentAssumption`: what the standard says of extents that are said to be made
as it says). Table, lists, clusters of a directory, file length, number of
removals, the number a long name tells, extents and paths
are arbitrary; `MaxNodes`, where the loops are cut off, is any number above
that of the entries. `FatTimestamps` needs no assumption. Two hypotheses are
stated with the theorems that need them: `PositionsFit`, that the volume ends
at most 4 GiB from the beginning of the device, and `SectorClusters`, that a
cluster is one sector. Without the first a position that wraps around is sought
where the reading of a neighbour goes on; without the second the content is
wrong, as the run `content` shows. The theorems about directories hold for
volumes of any size: the entries of numbers that do not fit are stray, and the run
`numbers` shows what becomes of them.

| Theorem of `FatVolumeProofs` and `FatTimestamps` | States |
|---|---|
| `TypeCorrect` | `[]TypeOK` |
| `Soundness` | `[](MemorySound /\ DeviceSound)`, the inductive invariant |
| `ChainsAlwaysTerminate`, `NoLinkEverToFree`, `FilesAlwaysDisjoint`, `ListsAlwaysInUse`, `RestartAlwaysSafe` | the invariants of the runs |
| `UpdateAlwaysWrites` | what the second write of an update leaves in both copies, whether the first failed or not |
| `LinkingInvariant` | `[]Linking`, the invariant of the loop that counts |
| `LoopFindsAlways`, `ChainAlwaysHalf` | the check before the loop is enough for it; a file of n clusters is linked from 1 + n div 2 |
| `VolumeImplementsPool` | refinement of `ClusterPool` |
| `TimeFieldsApart`, `DateFieldsApart` | the packed fields have no bit in common and fit 16 bits |
| `TimeReadBack`, `DateReadBack` | what a reader of the volume makes of the bits |
| `DatesOrdered` | a later date has the greater stamp |

| Theorem of `FatListsProofs` | States |
|---|---|
| `TypeCorrect` | `[]TypeOK` |
| `EachAlwaysFromItsPlace` | with `PositionsFit`: the seek left out between neighbours is not missed |
| `ListAlwaysIsChain` | the list returned is the chain, each cluster once |
| `AlwaysCutIntoClusters` | a file is cut into as many clusters as its size asks for |
| `ContentAlwaysFile` | with `PositionsFit` and `SectorClusters`: the content is the file's, byte for byte from its place on the device, if the first cluster was read from its place |

| Theorem of `FatSessionProofs` | States |
|---|---|
| `SessionTypeCorrect` | `[]TypeOK` |
| `SessionFromItsPlace`, `SessionListIsChain`, `SessionCutIntoClusters`, `SessionContentIsFile` | the invariants of the loops, in the calls of `main`; with the hypotheses they have in `FatListsProofs` |
| `AlwaysLongInPlace` | the entries of a long name read inside of clusters are consecutive, also from one cluster to the next, unless the reading left the list |

| Theorem of `FatDirectoryProofs` | States |
|---|---|
| `TypeCorrect` | `[]TypeOK` |
| `ContentInvariant` | `[](Base /\ Content)`, the inductive invariant |
| `EntriesDistinct`, `TreeLinked`, `FilesKept` | the invariants of the run: of entries that are not stray, until a write fails (not the first of the three), a restart meets an entry whose cluster is free, or the program is damaged |
| `NothingElseLost`, `SavedIsSafe` | what no step does to entries on the device that are not stray |
| `RoomIsUsed` | an entry that finds room reaches the device, for numbers of any size |

| Theorem of `IsoReaderProofs` | States |
|---|---|
| `TypeCorrect` | `[]TypeOK` |
| `RecordsAlwaysApart` | no record of a list reaches into the next one, for any bytes |
| `EveryRecordAlwaysListed` | a proper extent is listed completely |
| `FirstMatchAlwaysWins` | what a lookup returns matches and is the first that does, and what it means that it returns nothing; unless memory was misused |
| `AlwaysOwnedOnce` | a lookup and a listing free every block but the result; unless memory was misused |
| `MemoryAlwaysSafe` | no misuse of memory on a proper extent, with the exceptions named in section 3 |

**The argument.** That chains are acyclic is not inductive. Linking a cluster to
the end of a chain keeps it acyclic only if nothing links to that cluster yet,
which needs *links live* (nothing links to a free entry); and disjointness of
files needs *links unique* and that nothing links to the head of a file. In the
middle of an insertion the table is not well formed, because the cluster found
last is linked to and not marked: the invariant speaks of `Settled`, the table
as it would be with the current cluster closed, and of the list of heads
with the file in progress among them. `MemorySound` says this of memory;
`DeviceSound` says that copy 1 is well formed and has the heads of the saved
files, because after a restart it is what memory becomes.

Two lemmas carry the proof: `TieWellFormed`, that linking a used entry to a free
one and closing it keeps a table well formed (every operation that allocates is
an instance, `InsertNormDir` with a full parent too), and `CutWellFormed`, that
marking any set of entries as ended or invalid does (removal with whatever
wrong number, and the end of an insertion). `DisjointChains` turns heads and
unique links into disjoint chains by the least fixed point in `Reach`. For the
refinement, `TieFree` and `CutFree` say what either does to the free entries.

In `FatLists` each loop has an invariant of its own on top of `TypeInv`.
*Reading in place*: while the list grows the file offset stands behind the
cluster read last (`OffsetFollows`), so that a successor one number up is where
the offset is already; with a garbage `prevCluster` this can only go wrong at
the first cluster, which the property speaks of. *The list is the chain*: each
node holds what the one before links to (`Linked`). Such a list visits a cluster
once: if node i and a later node k had the same number the successors would
agree as far as the last node, which would then have one. This, and that nothing
reachable is left out, would be inductions; they are replaced by the greatest
member of a bounded set (`Greatest`, `Onward`) and by the least fixed point in
`Reach`. *Cutting*: `CutRight` speaks of the number of nodes, and `prevCluster`
is the last node from the second turn on, so the rest is released only when
there is a whole cluster. *Content*: the offset is the number of nodes copied
times the size of a cluster, and all bytes before it are right (`CopiedTo`).

In `FatSession` it is enough that a step of `main` either moves the file offset
while no loop runs or starts a reading with no list (`MainSteps`): the
invariants of the loops carry over, because none of them assumes where the
offset is at first.

**Counting.** `LoopNeverStarves` compares a number of free entries with what is
left of a file, and neither is inductive by itself. As a cluster found is marked
only in the turn after the next search, every second search finds it again
(1015-1025): `Linked` says that the free entries are at least what is left, that
the chain has 1 + (written div 2) clusters, and whether the last of them is
marked yet, which alternates. `FirstLinked` gets this from the check before the
loop, `NextLinked` keeps it from turn to turn, whichever of the two a turn is.
The cardinalities come from the theorems on finite sets.

**Long names.** The index of a place counts the entries of the directory up to it;
that of the place one behind a cluster is that of the first place in the next.
`Placed` says that the entries read inside of clusters are those from where the
reading began up to that index, in order, so that `NextIndex` is all that a step
has to know; it does not matter whether there is a node to read them from.

**Directories.** What is on the device is not inductive: an insertion writes the
cluster it has in a list, as old as that may be, and brings back what was there.
`Content` therefore speaks of every *copy* of a cluster, the one on the device
and those at the heads of lists (`CopyOf`, `Held`): whichever is written, its
entries lead to clusters in use (`Led`), no two to the same one unless they are
the same entry in the same place (`Once`), directories to their dot entries
(`Dotted`) and files to their data (`Filled`), and no cluster a list begins with
looks like a file (`Apart`). Stray entries are in none of these: a program that
follows one is damaged, so no list begins with what they lead to. The clusters
behind the head of a list are never written, so nothing is needed of them but
`Long`. `Pools` says that what is free in memory is free on the device: an entry
that is lost by a restart leads to a cluster that the table there has as free,
which is what `dangling` records. That `__fat_read_clusters` returns a list at
all is the existence of a recursive function, shown by a least number up to
which there would be none (`NumbersFollow`).

**The reader.** `Ordered` carries `RecordsApart` and the order of the list. For
lookups, which read the same extent again for each component of the path,
`Complete` says that the list is what lies on the *way* of the loop from 0, the
least set closed under its steps: so the list of one turn is that of the next,
and a component that had no match then has none now (`Missed`). On a proper
extent `OnTrack` says that the loop stands behind a record and before the next:
with zeros in between it steps over them one by one and does not get past the
next start, because starts are even. For the memory, `AtLoad` is what is
allocated when an extent is about to be read, the same for each component of a
path, and `Held` adds what a turn has allocated since: every exit frees exactly
that (`HeldIsFreed`), and nothing that is not allocated (`FreesHeld`).
`HereIsNamed` and `PrefixMatches` say what the names of records passed by cannot
be.

**Only model-checked**: `InsertReturns`, `ReadReturns` and `CallReturns`, which are liveness and outside the prover, and the violated
properties, which are counterexamples.

## 7. Findings

The seven violated runs are the findings; `PROJECT.json` quotes the comment each
contradicts. One more disagreement with a comment is stated by a property that
holds: `UpdateWrites` says that copy 2 is not updated when the first of the two
writes has failed (279-287; the comment at 264-268 says that both are). Other
behaviour met while modelling and kept as it is, because
nothing in the repository says otherwise: a removed file's clusters become
INVALID and are never used again, and only two of them do (1134); a file of n
clusters is linked from 1 + n div 2 of them (1025); a lookup by path searches
every component in the root, and a record matches every name it is a prefix of
(`iso_read.c`:37, 355); the search for a file ignores that its extent could not be
parsed and returns without releasing its buffers (`iso_read.c`:400-416); a date
is packed with its month counted from 0 and its year from 1900, where the
format counts from 1 and from 1980 (681-685, `DateReadBack`); merging a list
copies every cluster to the beginning of the buffer (354); what
`__fat_get_long_dirs` skips before the second entry moves its pointer and not
the caller's count (787); of a path longer than 128 characters the rest is not
looked for (`iso_read.c`:321); a directory that grows gets what was in its new
cluster as entries (979, 1045); the three flags of an alternate name are the same bit,
so that a continued name is shown as `.` (`iso_rr_typedefs.h`:16-18,
`iso_rr_base.c`:113); `iso_open` returns success without a descriptor if nothing
could be read (`iso_base.c`:78).

## 8. Not modelled

* *`__fat_get_first_sdir`, `__fat_get_dir_info`* and the removal of directories
  do not compile; `__fat_get_short_dir` and `__fat_check_valid_dir` copy or look
  at one entry. The characters of long names: nothing in the code joins them.
* *The fields* of the parameter block, of FSInfo and of the partition table, and
  the checks of signatures: decoding of one sector each. `FatSession` has that
  the calls may fail.
* *Releasing lists* (`__fat_free_clusters`): bookkeeping on the heap with no
  effect on the volume, modelled where it goes along a pointer never set.
* *Rock Ridge* time stamps and POSIX attributes: the code looks for them and
  decodes nothing. The flags of a name and the text that a listing prints.
* *Files of several clusters in `FatDirectory`*: their entry leads to the first
  one; the others, linked and written as 1024-1032 do it, are in `FatVolume`.
* *What a program does after it has gone astray*, in `FatDirectory`: it may
  write anything anywhere. `FatVolume` goes on with it, flagged as `damaged`.
* *`iso_open`, `iso_close`, `iso_read_all_directories`, `__iso_read_file`*:
  straight-line code. `iso_read_all_directories` reads the first entry's
  directory each time round and loses the list before (`iso_read.c`:233).
* *Bootloader*: 16-bit start-up code. *El Torito*: an empty file.

## 9. Plan

Done: geometry, table, volume, pool; lists and their composition
with `main` and with the reading of long names; directories with restarts,
stray entries and leftovers; timestamps; the ISO reader with its memory and its
alternate names; and proofs of every invariant and action property of these.

Next: the abstract directory (per directory a set of entries, which only grows
but for losses through outdated lists), with `FatDirectory` shown to implement
it, by a run and by proof.
