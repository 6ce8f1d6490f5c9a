-------------------------- MODULE FatVolumeProofs --------------------------
(***************************************************************************)
(* Proofs about FatVolume, for every size of the table, every layout of    *)
(* the device, any number of lists held and any length of file.            *)
(***************************************************************************)
EXTENDS FatVolume, FatTableProofs

LEMMA SmallNumbers ==
  /\ \A n \in Entries : ContentNumber(NormDirEncoding(n)) \in Entries
  /\ 0 \in Entries /\ 1 \in Entries /\ 2 \in Entries
<1>1. HalfWord \in Nat \ {0}
  BY ByteAssumption
<1>2. \A n, m \in Nat : m # 0 => n % m \in Nat /\ n % m <= n
  BY SMT
<1>3. 0 \in Entries /\ 1 \in Entries /\ 2 \in Entries
  BY TableAssumption, SMT DEF Entries
<1>4. ASSUME NEW n \in Entries  PROVE ContentNumber(NormDirEncoding(n)) \in Entries
  <2>1. n \in Nat
    BY EntryNumbers
  <2>2. n % HalfWord \in Nat /\ n % HalfWord <= n
    BY <1>1, <1>2, <2>1
  <2> QED
    BY <1>1, <2>1, <2>2, TableAssumption, SMT
    DEF Entries, ContentNumber, NormDirEncoding
<1> QED
  BY <1>3, <1>4

LEMMA FoundType ==
  ASSUME NEW t
  PROVE  /\ Found(t) \subseteq Entries
         /\ HasFree(t) => Found(t) = {FirstFree(t)}
BY FirstFreeIsFree, EntryNumbers DEF Found, FreeEntries

LEMMA MarkInvalidOne ==
  ASSUME NEW ts \in [Copies -> Tables], NEW S
  PROVE  /\ MarkInvalid(ts, S) \in [Copies -> Tables]
         /\ MarkInvalid(ts, S)[1] = Cut(ts[1], S, INVALID)
BY CopyOne, EntryNumbers DEF MarkInvalid, Cut, Tables

(* Every variable keeps its type: no operation stores a number that is not *)
(* an entry of the table where the code will use it as one.                *)
THEOREM TypeCorrect == Spec => []TypeOK
<1>1. ASSUME Init  PROVE TypeOK
  <2>1. NoJob \in [dir : Entries, start : Entries, cur : Entries,
                   left : 0 .. MaxChunks, chunks : 0 .. MaxChunks]
    BY SmallNumbers, VolumeAssumption DEF NoJob
  <2>2. mem \in [Copies -> Tables]
    BY <1>1, VolumeAssumption DEF Init
  <2>3. /\ dfat \in [Copies -> Tables]
        /\ tail \in [Handles -> Entries \cup {NoList}]
        /\ dirs \subseteq Entries
        /\ job \in [dir : Entries, start : Entries, cur : Entries,
                    left : 0 .. MaxChunks, chunks : 0 .. MaxChunks]
    BY <1>1, <2>1, <2>2, SmallNumbers DEF Init
  <2>4. /\ pc \in {"idle", "chunk", "place", "second"}
        /\ nextCopy \in 1 .. 2
        /\ files \subseteq Entries /\ saved \subseteq Entries
    BY <1>1 DEF Init
  <2>5. damaged \in BOOLEAN /\ torn \in BOOLEAN
    BY <1>1 DEF Init
  <2> QED
    BY <2>2, <2>3, <2>4, <2>5 DEF TypeOK
<1>2. TypeOK /\ [Next]_vars => TypeOK'
  <2> SUFFICES ASSUME TypeOK, [Next]_vars  PROVE TypeOK'
    OBVIOUS
  <2> USE DEF TypeOK
  <2>0. mem[1] \in Tables
    BY CopyOne
  <2>1. ASSUME NEW h \in Handles, NEW c \in dirs, OpenDir(h, c)
        PROVE  TypeOK'
    BY <2>1 DEF OpenDir, ChainEnds, Reach
  <2>2. ASSUME NEW h \in Handles, PlaceShortdir(h)
        PROVE  TypeOK'
    <3>1. tail[h] \in Entries
      BY <2>2 DEF PlaceShortdir
    <3> QED
      BY <2>2, <3>1, ExtendOne DEF PlaceShortdir
  <2>3. ASSUME NEW h \in Handles, NEW full \in BOOLEAN, InsertNormDir(h, full)
        PROVE  TypeOK'
    <3> DEFINE f == FirstFree(mem[1])
               placed == IF full THEN Extend(mem, tail[h]) ELSE mem
    <3>1. tail[h] \in Entries
      BY <2>3 DEF InsertNormDir
    <3>2. f \in Entries /\ END_LOW \in Nat
      BY <2>3, FirstFreeIsFree, EntryNumbers DEF InsertNormDir, FreeEntries
    <3>3. placed \in [Copies -> Tables]
      BY <3>1, ExtendOne
    <3>4. SetCluster(placed, f, END_LOW) \in [Copies -> Tables]
      BY <3>2, <3>3, SetClusterOne
    <3> HIDE DEF f, placed
    <3>5. /\ mem' = SetCluster(placed, f, END_LOW)
          /\ tail' = IF full THEN [tail EXCEPT ![h] = f] ELSE tail
          /\ dirs' = dirs \cup {ContentNumber(NormDirEncoding(f))}
          /\ UNCHANGED <<dfat, pc, job, nextCopy, files, saved, damaged, torn>>
      BY <2>3 DEF InsertNormDir, f, placed
    <3>6. dirs' \subseteq Entries
      BY <3>2, <3>5, SmallNumbers
    <3> QED
      BY <3>2, <3>4, <3>5, <3>6
  <2>4. ASSUME NEW d \in dirs, NEW k \in 1 .. MaxChunks, NEW exact \in BOOLEAN,
               InsertFile(d, k, exact)
        PROVE  TypeOK'
    <3>1. PICK f \in Found(mem[1]) :
            /\ mem' = SetCluster(mem, f, END_LOW)
            /\ job' = [dir |-> d, start |-> f, cur |-> f,
                       left |-> k - 1, chunks |-> k]
      BY <2>4 DEF InsertFile
    <3>2. f \in Entries /\ END_LOW \in Nat
      BY FoundType, EntryNumbers
    <3>3. k - 1 \in 0 .. MaxChunks /\ k \in 0 .. MaxChunks
      BY VolumeAssumption
    <3>4. mem' \in [Copies -> Tables]
      BY <3>1, <3>2, SetClusterOne
    <3> QED
      BY <2>4, <3>1, <3>2, <3>3, <3>4 DEF InsertFile
  <2>5. ASSUME NextChunk  PROVE TypeOK'
    <3>1. PICK f \in Found(mem[1]) :
            /\ mem' = SetCluster(mem, job.cur, f)
            /\ job' = [job EXCEPT !.cur = f, !.left = @ - 1]
      BY <2>5 DEF NextChunk
    <3>2. f \in Entries /\ f \in Nat /\ job.cur \in Entries
      BY FoundType, EntryNumbers
    <3>3. mem' \in [Copies -> Tables]
      BY <3>1, <3>2, SetClusterOne
    <3>4. job.left - 1 \in 0 .. MaxChunks
      BY <2>5, VolumeAssumption DEF NextChunk
    <3>5. dfat' \in [Copies -> Tables] /\ torn' \in BOOLEAN
      <4>1. CASE UNCHANGED <<dfat, torn>>
        BY <4>1
      <4>2. ASSUME NEW junk \in [UNION {StrayEntries(j) : j \in Copies} -> Junk]
            PROVE  Overwritten(junk) \in [Copies -> Tables]
        <5> SUFFICES ASSUME NEW j \in Copies, NEW e \in Entries
                     PROVE  (IF e \in StrayEntries(j) THEN junk[e]
                             ELSE dfat[j][e]) \in Nat
          BY DEF Overwritten, Tables
        <5> QED
          BY VolumeAssumption DEF Tables
      <4> QED
        BY <2>5, <4>1, <4>2 DEF NextChunk, StrayWrite
    <3>6. job' \in [dir : Entries, start : Entries, cur : Entries,
                    left : 0 .. MaxChunks, chunks : 0 .. MaxChunks]
      BY <3>1, <3>2, <3>4
    <3> QED
      BY <2>5, <3>3, <3>5, <3>6 DEF NextChunk
  <2>6. ASSUME FileDone  PROVE TypeOK'
    BY <2>6, SetClusterOne, EntryNumbers DEF FileDone, Ended
  <2>7. ASSUME NEW full \in BOOLEAN, PlaceEntry(full)  PROVE TypeOK'
    <3>1. PICK last \in ChainEnds(mem[1], job.dir) :
            mem' = IF full THEN Extend(mem, last) ELSE mem
      BY <2>7 DEF PlaceEntry
    <3>2. last \in Entries
      BY DEF ChainEnds, Reach
    <3>3. mem' \in [Copies -> Tables]
      BY <3>1, <3>2, ExtendOne
    <3>4. NoJob \in [dir : Entries, start : Entries, cur : Entries,
                     left : 0 .. MaxChunks, chunks : 0 .. MaxChunks]
      BY SmallNumbers, VolumeAssumption DEF NoJob
    <3>5. job.start \in Entries
      OBVIOUS
    <3> QED
      BY <2>7, <3>3, <3>4, <3>5 DEF PlaceEntry
  <2>8. ASSUME NEW entry, RemoveContentFile(entry)  PROVE TypeOK'
    BY <2>8, MarkInvalidOne DEF RemoveContentFile
  <2>9. ASSUME UpdateFatTable  PROVE TypeOK'
    BY <2>9, <2>0, GeometryAssumption
       DEF UpdateFatTable, WriteCopy, WriteFails
  <2>10. ASSUME UpdateSecond  PROVE TypeOK'
    BY <2>10, <2>0 DEF UpdateSecond, WriteCopy, WriteFails
  <2>11. ASSUME Remount  PROVE TypeOK'
    BY <2>11, SmallNumbers, VolumeAssumption DEF Remount, NoJob
  <2>12. CASE UNCHANGED vars
    BY <2>12 DEF vars
  <2>13. AstrayTables(mem) \subseteq [Copies -> Tables]
    BY ExtendOne DEF AstrayTables
  <2>14. ASSUME NEW h \in Handles, PlaceAstray(h)  PROVE TypeOK'
    BY <2>13, <2>14 DEF PlaceAstray
  <2>15. ASSUME PlaceEntryAstray  PROVE TypeOK'
    <3>1. NoJob \in [dir : Entries, start : Entries, cur : Entries,
                     left : 0 .. MaxChunks, chunks : 0 .. MaxChunks]
      BY SmallNumbers, VolumeAssumption DEF NoJob
    <3> QED
      BY <2>13, <2>15, <3>1 DEF PlaceEntryAstray
  <2> QED
    BY <2>1, <2>2, <2>3, <2>4, <2>5, <2>6, <2>7, <2>8, <2>9, <2>10, <2>11,
       <2>12, <2>14, <2>15 DEF Next, InsertStep
<1> QED
  BY <1>1, <1>2, PTL DEF Spec

----------------------------------------------------------------------------
(***************************************************************************)
(* The inductive invariant.  While a file is being linked together its     *)
(* last cluster holds nothing of use, AVAILABLE or a link to itself; with  *)
(* that one entry set to the end marker the table is well formed all the   *)
(* time, and the first clusters of all files, that of the unfinished one   *)
(* included, have no link into them.                                       *)
(***************************************************************************)
Settled == IF pc = "chunk" THEN Cut(mem[1], {job.cur}, END_LOW) ELSE mem[1]

Heads == files \cup (IF pc \in {"chunk", "place"} THEN {job.start} ELSE {})

MemorySound ==
  ~ damaged =>
    /\ WellFormed(Settled)
    /\ Headed(Settled, Heads)
    /\ \A h \in Handles : tail[h] # NoList => mem[1][tail[h]] # AVAILABLE

DeviceSound == ~ torn => WellFormed(dfat[1]) /\ Headed(dfat[1], saved)

(* Under the strengthening, the properties the runs check.                 *)
LEMMA SoundImplies ==
  ASSUME TypeOK, MemorySound, DeviceSound
  PROVE  ChainsTerminate /\ NoLinkToFree /\ FilesDisjoint /\ ListsInUse /\ RestartSafe
<1>1. mem[1] \in Tables
  BY CopyOne DEF TypeOK
<1>2. ASSUME ~ damaged, pc # "chunk"
      PROVE  WellFormed(mem[1]) /\ Headed(mem[1], files)
  BY <1>2 DEF MemorySound, Settled, Heads, Headed
<1>3. FilesDisjoint
  BY <1>1, <1>2, DisjointChains DEF FilesDisjoint, TypeOK
<1>4. ChainsTerminate /\ NoLinkToFree
  BY <1>2 DEF ChainsTerminate, NoLinkToFree, WellFormed
<1>5. ListsInUse /\ RestartSafe
  BY DEF ListsInUse, RestartSafe, MemorySound, DeviceSound
<1> QED
  BY <1>3, <1>4, <1>5

LEMMA SoundInit == Init => MemorySound /\ DeviceSound
<1> SUFFICES ASSUME Init  PROVE MemorySound /\ DeviceSound
  OBVIOUS
<1>1. WellFormed(mem[1])
  BY CopyOne, VolumeAssumption DEF Init
<1>2. Settled = mem[1] /\ Heads = {} /\ dfat = mem /\ saved = {}
  BY DEF Init, Settled, Heads
<1>3. \A h \in Handles : tail[h] = NoList
  BY DEF Init
<1> QED
  BY <1>1, <1>2, <1>3 DEF MemorySound, DeviceSound, Headed

(* Copy 1 on the device changes only by a whole table being written to it, *)
(* never while a file is being linked, or by file data going over it.      *)
LEMMA DeviceStep ==
  ASSUME TypeOK, MemorySound, DeviceSound, [Next]_vars
  PROVE  DeviceSound'
<1>1. ASSUME UNCHANGED <<dfat, saved, torn>>  PROVE DeviceSound'
  BY <1>1 DEF DeviceSound
<1>2. ASSUME NextChunk  PROVE DeviceSound'
  <2>1. CASE UNCHANGED <<dfat, torn>>
    BY <1>2, <2>1, <1>1 DEF NextChunk
  <2>2. CASE 1 \in StrayCopies /\ torn'
    BY <2>2 DEF DeviceSound
  <2>3. ASSUME 1 \notin StrayCopies, torn' = torn,
               NEW junk, dfat' = Overwritten(junk)
        PROVE  DeviceSound'
    <3>1. StrayEntries(1) = {}
      BY <2>3, CopyOne DEF StrayCopies
    <3>2. dfat'[1] = dfat[1]
      BY <2>3, <3>1, CopyOne DEF Overwritten, TypeOK, Tables
    <3>3. saved' = saved
      BY <1>2 DEF NextChunk
    <3> QED
      BY <2>3, <3>2, <3>3 DEF DeviceSound
  <2> QED
    BY <1>2, <2>1, <2>2, <2>3 DEF NextChunk, StrayWrite, TypeOK
<1>3. ASSUME pc # "chunk", pc # "place", NEW j \in 1 .. 2, WriteCopy(j)
      PROVE  DeviceSound'
  <2>1. CASE j = 1
    <3>1. dfat'[1] = mem[1] /\ saved' = files /\ torn' = damaged
      BY <1>3, <2>1, CopyOne DEF WriteCopy, TypeOK
    <3> QED
      BY <1>3, <3>1 DEF DeviceSound, MemorySound, Settled, Heads
  <2>2. CASE j # 1
    <3>1. dfat'[1] = dfat[1] /\ saved' = saved /\ torn' = torn
      BY <1>3, <2>2, CopyOne DEF WriteCopy, TypeOK
    <3> QED
      BY <3>1 DEF DeviceSound
  <2> QED
    BY <2>1, <2>2
<1>4. ASSUME UpdateFatTable  PROVE DeviceSound'
  BY <1>4, <1>1, <1>3 DEF UpdateFatTable, WriteFails
<1>5. ASSUME UpdateSecond  PROVE DeviceSound'
  BY <1>5, <1>1, <1>3 DEF UpdateSecond, WriteFails, TypeOK
<1> QED
  BY <1>1, <1>2, <1>4, <1>5
     DEF Next, InsertStep, OpenDir, PlaceShortdir, PlaceAstray, InsertNormDir, InsertFile,
         FileDone, PlaceEntry, PlaceEntryAstray, RemoveContentFile, Remount, vars

(* The table in memory stays sound through every operation: one step for   *)
(* each, the two that link clusters resting on TieWellFormed.              *)
LEMMA MemoryStep ==
  ASSUME TypeOK, TypeOK', MemorySound, DeviceSound, [Next]_vars
  PROVE  MemorySound'
<1> DEFINE t == mem[1]
           u == mem'[1]
<1>1. /\ t \in Tables /\ u \in Tables /\ job.cur \in Entries
      /\ files \in SUBSET Entries /\ Heads \in SUBSET Entries
      /\ \A h \in Handles : tail[h] # NoList => tail[h] \in Entries
  BY CopyOne DEF TypeOK, Heads
<1>2. END_LOW \in Nat \ {AVAILABLE} /\ INVALID \in Nat \ {AVAILABLE}
  BY EntryNumbers
\* Between insertions, what is sound is the table itself.
<1>3. ASSUME ~ damaged, pc # "chunk", pc # "place"
      PROVE  WellFormed(t) /\ Headed(t, files)
  BY <1>3 DEF MemorySound, Settled, Heads
<1>4. ASSUME pc' # "chunk", pc' # "place", ~ damaged' =>
               /\ WellFormed(u) /\ Headed(u, files')
               /\ \A h \in Handles : tail'[h] # NoList => u[tail'[h]] # AVAILABLE
      PROVE  MemorySound'
  BY <1>4 DEF MemorySound, Settled, Heads
<1>5. ASSUME NEW h \in Handles, NEW c \in dirs, OpenDir(h, c)
      PROVE  MemorySound'
  <2>1. PICK last \in ChainEnds(t, c) : tail' = [tail EXCEPT ![h] = last]
    BY <1>5 DEF OpenDir
  <2>2. t[last] # AVAILABLE
    BY EntryNumbers DEF ChainEnds
  <2>3. /\ pc = "idle" /\ pc' = "idle" /\ mem' = mem
        /\ damaged' = damaged /\ files' = files
    BY <1>5 DEF OpenDir
  <2>4. ASSUME ~ damaged, NEW g \in Handles, tail'[g] # NoList
        PROVE  t[tail'[g]] # AVAILABLE
    BY <2>1, <2>2, <2>4 DEF MemorySound, TypeOK
  <2> QED
    BY <2>3, <2>4, <1>3, <1>4
<1>6. ASSUME NEW h \in Handles, PlaceShortdir(h)  PROVE MemorySound'
  <2> DEFINE f == FirstFree(t)
  <2>1. /\ pc = "idle" /\ pc' = "idle" /\ files' = files
        /\ tail[h] # NoList /\ tail' = [tail EXCEPT ![h] = NewCluster(mem)]
        /\ mem' = Extend(mem, tail[h])
        /\ ~ damaged' => ~ damaged /\ HasFree(t)
    BY <1>6 DEF PlaceShortdir
  <2> SUFFICES ASSUME ~ damaged'
               PROVE  /\ WellFormed(u) /\ Headed(u, files)
                      /\ \A g \in Handles :
                            tail'[g] # NoList => u[tail'[g]] # AVAILABLE
    BY <2>1, <1>4
  <2>2. /\ f \in FreeEntries(t) /\ tail[h] \in Entries
        /\ t[tail[h]] # AVAILABLE
    BY <2>1, <1>1, FirstFreeIsFree DEF MemorySound
  <2>3. u = Tie(t, f, tail[h]) /\ NewCluster(mem) = f
    BY <2>1, <2>2, ExtendOne DEF TypeOK
  <2>4. WellFormed(u) /\ Headed(u, files)
    BY <2>1, <2>2, <2>3, <1>1, <1>3, TieWellFormed, TieHeaded
  <2>5. /\ u[f] # AVAILABLE
        /\ \A c \in Entries : t[c] # AVAILABLE => u[c] # AVAILABLE
    BY <2>2, <2>3, <1>1, <1>2, TieFree
  <2>6. \A g \in Handles : tail'[g] # NoList => u[tail'[g]] # AVAILABLE
    BY <2>1, <2>3, <2>5, <1>1 DEF MemorySound, TypeOK
  <2> QED
    BY <2>4, <2>6
<1>7. ASSUME NEW h \in Handles, NEW full \in BOOLEAN, InsertNormDir(h, full)
      PROVE  MemorySound'
  <2> DEFINE f == FirstFree(t)
             placed == IF full THEN Extend(mem, tail[h]) ELSE mem
  <2>1. /\ pc = "idle" /\ pc' = "idle" /\ files' = files /\ damaged' = damaged
        /\ tail[h] # NoList /\ HasFree(t)
        /\ tail' = IF full THEN [tail EXCEPT ![h] = f] ELSE tail
        /\ mem' = SetCluster(placed, f, END_LOW)
    BY <1>7 DEF InsertNormDir
  <2> SUFFICES ASSUME ~ damaged
               PROVE  /\ WellFormed(u) /\ Headed(u, files)
                      /\ \A g \in Handles :
                            tail'[g] # NoList => u[tail'[g]] # AVAILABLE
    BY <2>1, <1>4
  <2>2. /\ f \in FreeEntries(t) /\ f \in Entries /\ tail[h] \in Entries
        /\ t[tail[h]] # AVAILABLE
    BY <2>1, <1>1, FirstFreeIsFree, EntryNumbers DEF MemorySound, FreeEntries
  <2>3. /\ placed \in [Copies -> Tables]
        /\ placed[1] = IF full THEN Tie(t, f, tail[h]) ELSE t
    BY <2>1, <2>2, ExtendOne DEF TypeOK
  <2>4. u = Cut(placed[1], {f}, END_LOW)
    <3> HIDE DEF placed, f
    <3> QED
      BY <2>1, <2>2, <2>3, <1>2, SetClusterOne
  <2>5. /\ placed[1] \in Tables /\ WellFormed(placed[1])
        /\ Headed(placed[1], files)
        /\ \A c \in Entries : t[c] # AVAILABLE => placed[1][c] # AVAILABLE
    BY <2>1, <2>2, <2>3, <1>1, <1>3, TieWellFormed, TieHeaded, TieFree
  <2>6. WellFormed(u) /\ Headed(u, files)
    BY <2>4, <2>5, <1>1, CutWellFormed, CutHeaded
  <2>7. /\ u[f] # AVAILABLE
        /\ \A c \in Entries : t[c] # AVAILABLE => u[c] # AVAILABLE
    BY <2>2, <2>4, <2>5, <1>2 DEF Cut
  <2>8. \A g \in Handles : tail'[g] # NoList => u[tail'[g]] # AVAILABLE
    BY <2>1, <2>7, <1>1 DEF MemorySound, TypeOK
  <2> QED
    BY <2>6, <2>8
<1>8. ASSUME NEW d \in dirs, NEW k \in 1 .. MaxChunks, NEW exact \in BOOLEAN,
             InsertFile(d, k, exact)
      PROVE  MemorySound'
  <2>1. PICK f \in Found(t) :
          /\ mem' = SetCluster(mem, f, END_LOW)
          /\ job' = [dir |-> d, start |-> f, cur |-> f,
                     left |-> k - 1, chunks |-> k]
    BY <1>8 DEF InsertFile
  <2>2. /\ pc = "idle" /\ pc' = "chunk" /\ files' = files /\ tail' = tail
        /\ ~ damaged' => ~ damaged /\ HasFree(t)
    BY <1>8 DEF InsertFile
  <2> SUFFICES ASSUME ~ damaged'  PROVE MemorySound'
    BY DEF MemorySound
  <2>3. f \in FreeEntries(t) /\ f \in Entries
    BY <2>1, <2>2, FoundType, FirstFreeIsFree
  <2>4. u = Cut(t, {f}, END_LOW)
    BY <2>1, <2>3, <1>2, SetClusterOne DEF TypeOK
  <2>5. Settled' = u /\ Heads' = files \cup {f}
    <3>1. Cut(u, {f}, END_LOW) = u
      BY <2>4 DEF Cut
    <3> QED
      BY <2>1, <2>2, <3>1 DEF Settled, Heads
  <2>6. WellFormed(u) /\ Headed(u, files) /\ Headed(u, {f})
    BY <2>2, <2>3, <2>4, <1>1, <1>3, CutWellFormed, CutHeaded, ClaimHeaded
  <2>7. \A c \in Entries : t[c] # AVAILABLE => u[c] # AVAILABLE
    BY <2>4, <1>1, <1>2, CutFree
  <2> QED
    BY <2>2, <2>5, <2>6, <2>7, <1>1 DEF MemorySound, Headed
<1>9. ASSUME NextChunk  PROVE MemorySound'
  <2>1. PICK f \in Found(t) :
          /\ mem' = SetCluster(mem, job.cur, f)
          /\ job' = [job EXCEPT !.cur = f, !.left = @ - 1]
    BY <1>9 DEF NextChunk
  <2>2. /\ pc = "chunk" /\ pc' = "chunk" /\ files' = files /\ tail' = tail
        /\ job'.cur = f /\ job'.start = job.start
        /\ ~ damaged' => ~ damaged /\ HasFree(t)
    BY <1>9, <2>1 DEF NextChunk, TypeOK
  <2> SUFFICES ASSUME ~ damaged'  PROVE MemorySound'
    BY DEF MemorySound
  <2> DEFINE w == Cut(t, {job.cur}, END_LOW)
  <2>3. /\ f \in FreeEntries(t) /\ f \in Entries /\ f \in Nat \ {AVAILABLE}
        /\ t[f] = AVAILABLE
    BY <2>1, <2>2, FoundType, FirstFreeIsFree, EntryNumbers DEF FreeEntries
  <2>4. u = [t EXCEPT ![job.cur] = f] /\ u = Cut(t, {job.cur}, f)
    <3>1. ASSUME NEW c \in Entries, NEW v \in Nat
          PROVE  /\ SetCluster(mem, c, v)[1] = [t EXCEPT ![c] = v]
                 /\ SetCluster(mem, c, v)[1] = Cut(t, {c}, v)
      BY SetClusterOne DEF TypeOK
    <3> QED
      BY <2>1, <2>3, <1>1, <3>1
  <2>5. /\ w \in Tables /\ WellFormed(w) /\ Headed(w, Heads)
        /\ w[job.cur] # AVAILABLE
    BY <2>2, <1>1, <1>2 DEF MemorySound, Settled, Cut, Tables
  <2>6. Heads' = Heads /\ Settled' = Cut(u, {f}, END_LOW)
    BY <2>2 DEF Heads, Settled
  <2>7. WellFormed(Settled') /\ Headed(Settled', Heads)
    <3>1. CASE f = job.cur
      <4>1. Settled' = w
        BY <2>4, <2>6, <3>1 DEF Cut
      <4> QED
        BY <4>1, <2>5
    <3>2. CASE f # job.cur
      <4>1. f \in FreeEntries(w)
        BY <2>3, <3>2 DEF FreeEntries, Cut
      <4>2. Settled' = Tie(w, f, job.cur)
        BY <2>3, <2>4, <2>5, <2>6, <3>2, <1>1, <1>2 DEF Tie, Cut, Tables
      <4> QED
        BY <4>1, <4>2, <2>5, <1>1, TieWellFormed, TieHeaded
    <3> QED
      BY <3>1, <3>2
  <2>8. \A c \in Entries : t[c] # AVAILABLE => u[c] # AVAILABLE
    BY <2>3, <2>4, <1>1, CutFree
  <2> QED
    BY <2>2, <2>6, <2>7, <2>8, <1>1 DEF MemorySound
<1>10. ASSUME FileDone  PROVE MemorySound'
  <2>1. /\ pc = "chunk" /\ pc' = "place" /\ UNCHANGED <<job, files, tail, damaged>>
        /\ mem' = SetCluster(mem, job.cur, END_LOW)
    BY <1>10 DEF FileDone, Ended
  <2>2. u = Cut(t, {job.cur}, END_LOW)
    BY <2>1, <1>1, <1>2, SetClusterOne DEF TypeOK
  <2>3. Settled' = Settled /\ Heads' = Heads
    BY <2>1, <2>2 DEF Settled, Heads
  <2>4. \A c \in Entries : t[c] # AVAILABLE => u[c] # AVAILABLE
    BY <2>2, <1>1, <1>2, CutFree
  <2> QED
    BY <2>1, <2>3, <2>4, <1>1 DEF MemorySound
<1>11. ASSUME NEW full \in BOOLEAN, PlaceEntry(full)  PROVE MemorySound'
  <2>1. PICK last \in ChainEnds(t, job.dir) :
          mem' = IF full THEN Extend(mem, last) ELSE mem
    BY <1>11 DEF PlaceEntry
  <2>2. /\ pc = "place" /\ pc' = "idle" /\ files' = Heads /\ tail' = tail
        /\ ~ damaged' => ~ damaged /\ (full => HasFree(t))
    BY <1>11 DEF PlaceEntry, Heads
  <2> SUFFICES ASSUME ~ damaged'
               PROVE  /\ WellFormed(u) /\ Headed(u, Heads)
                      /\ \A g \in Handles :
                            tail[g] # NoList => u[tail[g]] # AVAILABLE
    BY <2>2, <1>4
  <2>3. WellFormed(t) /\ Headed(t, Heads)
    BY <2>2 DEF MemorySound, Settled
  <2>4. last \in Entries /\ t[last] # AVAILABLE
    BY EntryNumbers DEF ChainEnds, Reach
  <2>5. CASE full
    <3>1. u = Tie(t, FirstFree(t), last) /\ FirstFree(t) \in FreeEntries(t)
      BY <2>1, <2>2, <2>4, <2>5, ExtendOne, FirstFreeIsFree DEF TypeOK
    <3>2. /\ WellFormed(u) /\ Headed(u, Heads)
          /\ \A c \in Entries : t[c] # AVAILABLE => u[c] # AVAILABLE
      BY <3>1, <2>3, <2>4, <1>1, TieWellFormed, TieHeaded, TieFree
    <3> QED
      BY <3>2, <2>2, <1>1 DEF MemorySound
  <2>6. CASE ~ full
    BY <2>1, <2>2, <2>3, <2>6 DEF MemorySound
  <2> QED
    BY <2>5, <2>6
<1>12. ASSUME NEW entry, RemoveContentFile(entry)  PROVE MemorySound'
  <2>1. PICK S : mem' = MarkInvalid(mem, S)
    BY <1>12 DEF RemoveContentFile
  <2>2. /\ pc = "idle" /\ pc' = "idle" /\ files' = files /\ tail' = tail
        /\ damaged' = damaged
    BY <1>12 DEF RemoveContentFile
  <2>3. u = Cut(t, S, INVALID)
    BY <2>1, MarkInvalidOne DEF TypeOK
  <2>4. ~ damaged => WellFormed(u) /\ Headed(u, files)
    BY <2>2, <2>3, <1>1, <1>3, CutWellFormed, CutHeaded
  <2>5. \A c \in Entries : t[c] # AVAILABLE => u[c] # AVAILABLE
    BY <2>3, <1>1, <1>2, CutFree
  <2> QED
    BY <2>2, <2>4, <2>5, <1>1, <1>4 DEF MemorySound
<1>13. ASSUME pc # "chunk", pc # "place", pc' # "chunk", pc' # "place",
              UNCHANGED <<mem, tail, files, damaged>>
       PROVE  MemorySound'
  BY <1>13, <1>3, <1>4 DEF MemorySound
<1>14. ASSUME Remount  PROVE MemorySound'
  <2>1. /\ pc' = "idle" /\ mem' = dfat /\ files' = saved /\ damaged' = torn
        /\ \A h \in Handles : tail'[h] = NoList
    BY <1>14 DEF Remount
  <2> QED
    BY <2>1, <1>4 DEF DeviceSound
<1>15. CASE UNCHANGED vars
  BY <1>15 DEF vars, MemorySound, Settled, Heads
<1>16. CASE UpdateFatTable \/ UpdateSecond
  BY <1>16, <1>13 DEF UpdateFatTable, UpdateSecond, TypeOK
<1>17. CASE PlaceEntryAstray \/ \E h \in Handles : PlaceAstray(h)
  BY <1>17 DEF PlaceEntryAstray, PlaceAstray, MemorySound
<1> QED
  BY <1>5, <1>6, <1>7, <1>8, <1>9, <1>10, <1>11, <1>12, <1>14, <1>15, <1>16, <1>17
     DEF Next, InsertStep

(* The inductive invariant holds from the start and for ever.              *)
THEOREM Soundness == Spec => [](MemorySound /\ DeviceSound)
<1>1. TypeOK /\ TypeOK' /\ MemorySound /\ DeviceSound /\ [Next]_vars
        => (MemorySound /\ DeviceSound)'
  BY MemoryStep, DeviceStep
<1> QED
  BY <1>1, SoundInit, TypeCorrect, PTL DEF Spec

(* Whatever sequence of insertions, extensions, removals, failed writes    *)
(* and restarts a volume goes through, __fat_read_clusters comes to the    *)
(* end of every chain, as long as no search failed unnoticed and nothing   *)
(* was read back from a table that file data went over.                    *)
THEOREM ChainsAlwaysTerminate == Spec => []ChainsTerminate
BY Soundness, TypeCorrect, SoundImplies, PTL

(* Under the same conditions no chain leads to a cluster that is free.     *)
THEOREM NoLinkEverToFree == Spec => []NoLinkToFree
BY Soundness, TypeCorrect, SoundImplies, PTL

(* Under the same conditions inserted files have no cluster in common.     *)
THEOREM FilesAlwaysDisjoint == Spec => []FilesDisjoint
BY Soundness, TypeCorrect, SoundImplies, PTL

(* Under the same conditions the lists of clusters the program holds end   *)
(* in clusters that are in use.                                            *)
THEOREM ListsAlwaysInUse == Spec => []ListsInUse
BY Soundness, TypeCorrect, SoundImplies, PTL

(* The program may die at any moment: unless file data went over it, copy  *)
(* 1 on the device is a well-formed table.                                 *)
THEOREM RestartAlwaysSafe == Spec => []RestartSafe
BY Soundness, TypeCorrect, SoundImplies, PTL

----------------------------------------------------------------------------
(***************************************************************************)
(* FatVolume implements ClusterPool.                                       *)
(***************************************************************************)

(* An operation on the table in memory takes at most one cluster from the  *)
(* pool and returns none, unless the damage is done by then.               *)
LEMMA MemoryTakes ==
  ASSUME TypeOK, MemorySound, Next, ~ Remount,
         ~ (UpdateFatTable \/ UpdateSecond)
  PROVE  Pool!Hold \/ Pool!Take \/ Pool!Break
<1> DEFINE t == mem[1]
           u == mem'[1]
<1>1. t \in Tables /\ job.cur \in Entries /\ END_LOW \in Nat \ {AVAILABLE}
  BY CopyOne, EntryNumbers DEF TypeOK
<1>2. ASSUME damaged'  PROVE Pool!Break
  BY <1>2 DEF Pool!Break, FreeEntries
<1>3. ASSUME UNCHANGED <<mem, damaged>>  PROVE Pool!Hold
  BY <1>3 DEF Pool!Hold
\* One entry that was free, or was not, is no longer.
<1>4. ASSUME NEW c, FreeEntries(u) = FreeEntries(t) \ {c}, damaged' = damaged
      PROVE  Pool!Hold \/ Pool!Take
  BY <1>4 DEF Pool!Hold, Pool!Take
<1>5. ASSUME NEW c \in Entries, NEW v \in Nat \ {AVAILABLE},
             mem' = SetCluster(mem, c, v), damaged' = damaged
      PROVE  Pool!Hold \/ Pool!Take
  <2>1. u = Cut(t, {c}, v)
    BY <1>5, SetClusterOne DEF TypeOK
  <2> QED
    BY <2>1, <1>1, <1>4, <1>5, CutFree
<1>6. ASSUME NEW l \in Entries, t[l] # AVAILABLE, HasFree(t),
             mem' = Extend(mem, l), damaged' = damaged
      PROVE  Pool!Hold \/ Pool!Take
  <2>1. u = Tie(t, FirstFree(t), l) /\ FirstFree(t) \in FreeEntries(t)
    BY <1>6, ExtendOne, FirstFreeIsFree DEF TypeOK
  <2> QED
    BY <2>1, <1>1, <1>4, <1>6, TieFree
<1> SUFFICES ASSUME damaged' = damaged, ~ damaged, ~ damaged'
             PROVE  Pool!Hold \/ Pool!Take
  <2>1. damaged => damaged'
    BY DEF Next, InsertStep, OpenDir, PlaceShortdir, PlaceAstray, InsertNormDir, InsertFile,
           NextChunk, FileDone, PlaceEntry, PlaceEntryAstray, RemoveContentFile
  <2>2. damaged' \in BOOLEAN
    BY DEF Next, InsertStep, OpenDir, PlaceShortdir, PlaceAstray, InsertNormDir, InsertFile,
           NextChunk, FileDone, PlaceEntry, PlaceEntryAstray, RemoveContentFile, TypeOK
  <2> QED
    BY <2>1, <2>2, <1>2 DEF TypeOK
<1>7. ASSUME NEW h \in Handles, NEW c \in dirs, OpenDir(h, c)
      PROVE  Pool!Hold \/ Pool!Take
  BY <1>7, <1>3 DEF OpenDir
<1>8. ASSUME NEW h \in Handles, PlaceShortdir(h)
      PROVE  Pool!Hold \/ Pool!Take
  <2>1. tail[h] # NoList /\ mem' = Extend(mem, tail[h])
    BY <1>8 DEF PlaceShortdir
  <2>2. ~ damaged' => HasFree(t)
    BY <1>8 DEF PlaceShortdir
  <2>3. tail[h] \in Entries /\ t[tail[h]] # AVAILABLE
    BY <2>1 DEF MemorySound, TypeOK
  <2> QED
    BY <2>1, <2>2, <2>3, <1>6
<1>9. ASSUME NEW h \in Handles, NEW full \in BOOLEAN, InsertNormDir(h, full)
      PROVE  Pool!Hold \/ Pool!Take
  <2> DEFINE f == FirstFree(t)
             placed == IF full THEN Extend(mem, tail[h]) ELSE mem
  <2>1. tail[h] # NoList /\ HasFree(t) /\ mem' = SetCluster(placed, f, END_LOW)
    BY <1>9 DEF InsertNormDir
  <2>2. /\ f \in FreeEntries(t) /\ f \in Entries /\ tail[h] \in Entries
        /\ t[tail[h]] # AVAILABLE
    BY <2>1, FirstFreeIsFree, EntryNumbers DEF MemorySound, FreeEntries, TypeOK
  <2>3. /\ placed \in [Copies -> Tables]
        /\ placed[1] = IF full THEN Tie(t, f, tail[h]) ELSE t
    BY <2>1, <2>2, ExtendOne DEF TypeOK
  <2>4. u = Cut(placed[1], {f}, END_LOW) /\ placed[1] \in Tables
    <3> HIDE DEF placed, f
    <3> QED
      BY <2>1, <2>2, <2>3, <1>1, SetClusterOne, CopyOne
  <2>5. FreeEntries(placed[1]) \ {f} = FreeEntries(t) \ {f}
    BY <2>2, <2>3, <1>1, TieFree
  <2>6. FreeEntries(u) = FreeEntries(t) \ {f}
    BY <2>4, <2>5, <1>1, CutFree
  <2> QED
    BY <2>6, <1>4
<1>10. ASSUME NEW d \in dirs, NEW k \in 1 .. MaxChunks, NEW exact \in BOOLEAN,
              InsertFile(d, k, exact)
       PROVE  Pool!Hold \/ Pool!Take
  BY <1>10, <1>1, <1>5, FoundType DEF InsertFile
<1>11. ASSUME NextChunk  PROVE Pool!Hold \/ Pool!Take
  <2>1. ~ damaged' => HasFree(t)
    BY <1>11 DEF NextChunk
  <2>2. mem' = SetCluster(mem, job.cur, FirstFree(t))
    BY <1>11, <2>1, FoundType DEF NextChunk
  <2>3. FirstFree(t) \in Nat \ {AVAILABLE}
    BY <2>1, FirstFreeIsFree, EntryNumbers DEF FreeEntries
  <2> QED
    BY <2>2, <2>3, <1>1, <1>5
<1>12. ASSUME FileDone  PROVE Pool!Hold \/ Pool!Take
  BY <1>12, <1>1, <1>5 DEF FileDone, Ended
<1>13. ASSUME NEW full \in BOOLEAN, PlaceEntry(full)
       PROVE  Pool!Hold \/ Pool!Take
  <2>1. PICK last \in ChainEnds(t, job.dir) :
          mem' = IF full THEN Extend(mem, last) ELSE mem
    BY <1>13 DEF PlaceEntry
  <2>2. last \in Entries /\ t[last] # AVAILABLE
    BY EntryNumbers DEF ChainEnds, Reach
  <2>3. ~ damaged' => (full => HasFree(t))
    BY <1>13 DEF PlaceEntry
  <2> QED
    BY <2>1, <2>2, <2>3, <1>3, <1>6
<1>14. ASSUME NEW entry, RemoveContentFile(entry)
       PROVE  Pool!Hold \/ Pool!Take
  <2>1. PICK S : /\ mem' = MarkInvalid(mem, S)
                 /\ \/ \E c \in Entries : S = Marked(t, c)
                    \/ S = {}
                    \/ \E c \in Entries : S = {c}
    BY <1>14 DEF RemoveContentFile
  <2>2. WellFormed(t)
    BY <1>14 DEF RemoveContentFile, MemorySound, Settled
  <2>3. FreeEntries(u) = FreeEntries(t) \ S
    BY <2>1, <1>1, MarkInvalidOne, CutFree, EntryNumbers DEF TypeOK
  \* The cluster linked to is in use: at most one of the two is free.
  <2>4. ASSUME NEW c \in Entries, S = Marked(t, c)
        PROVE  FreeEntries(t) \ S = FreeEntries(t) \ {c}
    <3>1. CASE ~ IsLinked(t, c)
      BY <2>4, <3>1, EntryNumbers
         DEF Marked, IsLinked, FreeEntries
    <3>2. CASE IsLinked(t, c)
      BY <2>2, <2>4, <3>2, EntryNumbers
         DEF Marked, IsLinked, FreeEntries, WellFormed, LinksLive
    <3> QED
      BY <3>1, <3>2
  <2>5. CASE S = {}
    BY <2>3, <2>5 DEF Pool!Hold
  <2> QED
    BY <2>1, <2>3, <2>4, <2>5, <1>4
<1> QED
  BY <1>7, <1>8, <1>9, <1>10, <1>11, <1>12, <1>13, <1>14
     DEF Next, InsertStep, PlaceAstray, PlaceEntryAstray

LEMMA PoolStep ==
  ASSUME TypeOK, MemorySound, [Next]_vars
  PROVE  [Pool!Next]_(Pool!vars)
<1>1. CASE UNCHANGED vars
  BY <1>1 DEF vars, Pool!vars
<1>2. CASE Remount
  BY <1>2 DEF Remount, Pool!Next, Pool!Restart
<1>3. ASSUME NEW j \in 1 .. 2, WriteCopy(j), UNCHANGED <<mem, damaged>>
      PROVE  [Pool!Next]_(Pool!vars)
  <2>1. CASE j = 1
    BY <1>3, <2>1, CopyOne DEF WriteCopy, TypeOK, Pool!Next, Pool!Save
  <2>2. CASE j # 1
    BY <1>3, <2>2, CopyOne DEF WriteCopy, TypeOK, Pool!vars
  <2> QED
    BY <2>1, <2>2
<1>4. ASSUME WriteFails, UNCHANGED <<mem, damaged>>
      PROVE  [Pool!Next]_(Pool!vars)
  BY <1>4 DEF WriteFails, Pool!vars
<1>5. CASE UpdateFatTable \/ UpdateSecond
  BY <1>3, <1>4, <1>5 DEF UpdateFatTable, UpdateSecond, TypeOK
<1>6. CASE Next /\ ~ Remount /\ ~ (UpdateFatTable \/ UpdateSecond)
  <2>1. Pool!Hold \/ Pool!Take \/ Pool!Break
    BY <1>6, MemoryTakes
  <2>2. Pool!Overwrite \/ UNCHANGED <<FreeEntries(dfat[1]), torn>>
    <3>1. CASE UNCHANGED <<dfat, torn>>
      BY <3>1
    <3>2. CASE torn'
      BY <3>2 DEF Pool!Overwrite, FreeEntries
    <3>3. ASSUME 1 \notin StrayCopies, torn' = torn,
                 NEW junk, dfat' = Overwritten(junk)
          PROVE  UNCHANGED <<FreeEntries(dfat[1]), torn>>
      <4>1. StrayEntries(1) = {}
        BY <3>3, CopyOne DEF StrayCopies
      <4>2. dfat'[1] = dfat[1]
        BY <3>3, <4>1, CopyOne DEF Overwritten, TypeOK, Tables
      <4> QED
        BY <3>3, <4>2
    <3> QED
      BY <1>6, <3>1, <3>2, <3>3
         DEF Next, InsertStep, OpenDir, PlaceShortdir, PlaceAstray, InsertNormDir, InsertFile,
             NextChunk, StrayWrite, FileDone, PlaceEntry, PlaceEntryAstray, RemoveContentFile, TypeOK
  <2> QED
    BY <2>1, <2>2 DEF Pool!Next, Pool!Use
<1> QED
  BY <1>1, <1>2, <1>5, <1>6

(* For every table and layout, what the operations do with free clusters   *)
(* is what ClusterPool allows: each takes one at most, none comes back,    *)
(* and a restart goes back to the pool of the table written last.          *)
THEOREM VolumeImplementsPool == Spec => ImplementsPool
<1>1. Init => Pool!Init
  BY DEF Init, Pool!Init, FreeEntries
<1>2. TypeOK /\ MemorySound /\ [Next]_vars => [Pool!Next]_(Pool!vars)
  BY PoolStep
<1> QED
  BY <1>1, <1>2, Soundness, TypeCorrect, PTL DEF Spec, ImplementsPool, Pool!Spec

----------------------------------------------------------------------------
(* Between the two writes of an update, when the second is to go to copy   *)
(* 2, there is a copy 2 and the first has brought copy 1 up to date.       *)
FirstWritten ==
  pc = "second" => NumFATs = 2 /\ (nextCopy = 2 => dfat[1] = mem[1])

(* An update that is not cut off leaves copy 1 current although its first  *)
(* write failed, and copy 2 current if neither failed; if only the first   *)
(* did, copy 2 stays what it was.                                          *)
THEOREM UpdateAlwaysWrites == Spec => UpdateWrites
<1>1. Init => FirstWritten
  BY DEF Init, FirstWritten
<1>2. TypeOK /\ FirstWritten /\ [Next]_vars => FirstWritten'
  <2> SUFFICES ASSUME TypeOK, FirstWritten, [Next]_vars  PROVE FirstWritten'
    OBVIOUS
  <2>1. CASE UpdateFatTable
    BY <2>1, CopyOne, GeometryAssumption
       DEF UpdateFatTable, WriteCopy, WriteFails, FirstWritten, TypeOK
  <2>2. CASE UNCHANGED vars
    BY <2>2 DEF vars, FirstWritten
  <2>3. CASE Next /\ ~ UpdateFatTable
    <3>1. pc' # "second"
      BY <2>3
         DEF Next, InsertStep, OpenDir, PlaceShortdir, PlaceAstray, InsertNormDir, InsertFile,
             NextChunk, FileDone, PlaceEntry, PlaceEntryAstray, RemoveContentFile, UpdateSecond,
             Remount
    <3> QED
      BY <3>1 DEF FirstWritten
  <2> QED
    BY <2>1, <2>2, <2>3
<1>3. TypeOK /\ FirstWritten /\ [Next]_vars
        => (pc = "second" /\ dfat' # dfat =>
              /\ dfat'[1] = mem[1]
              /\ dfat'[2] = IF nextCopy = 2 THEN mem[1] ELSE dfat[2])
  <2> SUFFICES ASSUME TypeOK, FirstWritten, [Next]_vars,
                      pc = "second", dfat' # dfat
               PROVE  /\ dfat'[1] = mem[1]
                      /\ dfat'[2] = IF nextCopy = 2 THEN mem[1] ELSE dfat[2]
    OBVIOUS
  <2>1. UpdateSecond
    BY DEF Next, InsertStep, OpenDir, PlaceShortdir, PlaceAstray, InsertNormDir, InsertFile,
           NextChunk, FileDone, PlaceEntry, PlaceEntryAstray, RemoveContentFile, UpdateFatTable,
           Remount, vars
  <2>2. dfat' = [dfat EXCEPT ![nextCopy] = mem[1]]
    BY <2>1 DEF UpdateSecond, WriteCopy, WriteFails
  <2>3. 1 \in Copies /\ 2 \in Copies
    BY CopyOne DEF FirstWritten, Copies
  <2> QED
    BY <2>2, <2>3 DEF FirstWritten, TypeOK
<1> QED
  BY <1>1, <1>2, <1>3, TypeCorrect, PTL DEF Spec, UpdateWrites

----------------------------------------------------------------------------
(***************************************************************************)
(* The loop of __fat_insert_file counts.  As a cluster found is marked     *)
(* only when the next has been found, every second search comes up with    *)
(* the same one: after an odd number of clusters of data the last one is   *)
(* in use, after an even number it is still the first that is free.        *)
(***************************************************************************)
Written == job.chunks - job.left

Linked ==
  /\ job.left < job.chunks
  /\ Cardinality(FreeEntries(mem[1])) >= job.left
  /\ job.cur \in Reach(Settled, job.start)
  /\ Cardinality(Reach(Settled, job.start)) = 1 + Written \div 2
  /\ Written % 2 = 1 => mem[1][job.cur] # AVAILABLE
  /\ Written % 2 = 0 =>
       job.cur \in FreeEntries(mem[1]) /\ job.cur = FirstFree(mem[1])

Linking == (~ damaged /\ pc = "chunk" => Linked) /\ ChainLength

LEMMA OneLess ==
  ASSUME NEW t, NEW f \in FreeEntries(t)
  PROVE  Cardinality(FreeEntries(t) \ {f}) = Cardinality(FreeEntries(t)) - 1
<1>1. FreeEntries(t) \in SUBSET Entries
  BY EntryNumbers DEF FreeEntries
<1>2. IsFiniteSet(FreeEntries(t))
  BY <1>1, EntriesFinite
<1> QED
  BY <1>2, FS_RemoveElement

LEMMA Halves ==
  ASSUME NEW n \in Nat
  PROVE  \/ n % 2 = 1 /\ (n + 1) % 2 = 0 /\ (n + 1) \div 2 = n \div 2 + 1
         \/ n % 2 = 0 /\ (n + 1) % 2 = 1 /\ (n + 1) \div 2 = n \div 2
BY SMT

(* The first cluster: it was free, and the check has counted the others.   *)
LEMMA FirstLinked ==
  ASSUME TypeOK, TypeOK', MemorySound, NEW d \in dirs, NEW k \in 1 .. MaxChunks,
         NEW exact \in BOOLEAN, InsertFile(d, k, exact), ~ damaged'
  PROVE  Linked'
<1> DEFINE t == mem[1]
           u == mem'[1]
<1>1. PICK f \in Found(t) :
        /\ mem' = SetCluster(mem, f, END_LOW)
        /\ job' = [dir |-> d, start |-> f, cur |-> f,
                   left |-> k - 1, chunks |-> k]
  BY DEF InsertFile
<1>2. /\ pc = "idle" /\ pc' = "chunk" /\ ~ damaged /\ HasFree(t)
      /\ CheckFreeClusters(t, ClusterCount(k, exact))
  BY DEF InsertFile
<1>3. t \in Tables /\ f \in FreeEntries(t) /\ f \in Entries
  BY <1>1, <1>2, FoundType, FirstFreeIsFree, CopyOne DEF TypeOK
<1>4. END_LOW \in Nat \ {AVAILABLE} /\ ~ IsValidCluster(END_LOW)
  BY EntryNumbers
<1>5. u = Cut(t, {f}, END_LOW)
  BY <1>1, <1>3, <1>4, SetClusterOne DEF TypeOK
<1>6. Settled' = u
  <2>1. Cut(u, {f}, END_LOW) = u
    BY <1>5 DEF Cut
  <2> QED
    BY <1>1, <1>2, <2>1 DEF Settled
<1>7. u[f] = END_LOW
  BY <1>3, <1>5 DEF Cut
<1>8. Cardinality(Reach(u, f)) = 1 /\ f \in Reach(u, f)
  BY <1>3, <1>4, <1>7, ReachOne DEF Reach
<1>9. /\ k \in Nat /\ k >= 1 /\ k - 1 < k /\ k - (k - 1) = 1
      /\ 1 % 2 = 1 /\ 1 + 1 \div 2 = 1
  BY VolumeAssumption
<1>10. Cardinality(FreeEntries(u)) >= k - 1
  <2>1. Cardinality(FreeEntries(t)) >= k
    <3>1. t[0] # AVAILABLE /\ t[1] # AVAILABLE
      BY <1>2 DEF MemorySound, Settled, WellFormed
    <3>2. Cardinality(FreeEntries(t)) \in Nat
      BY EntriesFinite, EntryNumbers DEF FreeEntries
    <3>3. Cardinality(FreeEntries(t)) >= ClusterCount(k, exact)
      BY <1>2, <3>1, CountedAreFree DEF CheckFreeClusters
    <3>4. ClusterCount(k, exact) \in Nat /\ ClusterCount(k, exact) >= k
      BY <1>9 DEF ClusterCount
    <3> QED
      BY <1>9, <3>2, <3>3, <3>4
  <2>2. FreeEntries(u) = FreeEntries(t) \ {f}
    BY <1>3, <1>4, <1>5, CutFree
  <2>3. IsFiniteSet(FreeEntries(t)) /\ Cardinality(FreeEntries(t)) \in Nat
    BY EntriesFinite, EntryNumbers DEF FreeEntries
  <2>4. Cardinality(FreeEntries(u)) = Cardinality(FreeEntries(t)) - 1
    BY <1>3, <2>2, OneLess
  <2> QED
    BY <1>9, <2>1, <2>3, <2>4
<1>11. /\ job'.start = f /\ job'.cur = f /\ job'.left = k - 1
       /\ job'.chunks = k
  BY <1>1
<1>12. Written' = 1
  BY <1>9, <1>11 DEF Written
<1> QED
  BY <1>4, <1>6, <1>7, <1>8, <1>9, <1>10, <1>11, <1>12 DEF Linked

(* A further cluster: one search in two takes one from the pool and the    *)
(* chain gets longer by one in the other.                                  *)
LEMMA NextLinked ==
  ASSUME TypeOK, TypeOK', MemorySound, Linked, NextChunk, ~ damaged'
  PROVE  Linked'
<1> DEFINE t == mem[1]
           u == mem'[1]
           w == Settled
           n == Written
<1>1. PICK f \in Found(t) :
        /\ mem' = SetCluster(mem, job.cur, f)
        /\ job' = [job EXCEPT !.cur = f, !.left = @ - 1]
  BY DEF NextChunk
<1>2. /\ pc = "chunk" /\ pc' = "chunk" /\ ~ damaged /\ HasFree(t)
      /\ job.left > 0
  BY DEF NextChunk
<1>3. /\ t \in Tables /\ f \in FreeEntries(t) /\ f = FirstFree(t)
      /\ f \in Entries /\ f \in Nat \ {AVAILABLE} /\ t[f] = AVAILABLE
  BY <1>1, <1>2, FoundType, FirstFreeIsFree, CopyOne, EntryNumbers
     DEF TypeOK, FreeEntries
<1>4. /\ job.cur \in Entries /\ job.start \in Entries
      /\ job.left \in Nat /\ job.chunks \in Nat /\ job.left < job.chunks
  BY VolumeAssumption DEF TypeOK, Linked
<1>5. /\ job'.start = job.start /\ job'.cur = f /\ job'.chunks = job.chunks
      /\ job'.left = job.left - 1 /\ job'.left < job'.chunks
  <2>1. /\ job'.start = job.start /\ job'.cur = f /\ job'.chunks = job.chunks
        /\ job'.left = job.left - 1
    BY <1>1 DEF TypeOK
  <2> QED
    BY <1>4, <2>1
<1>6. n \in Nat /\ Written' = n + 1
  BY <1>4, <1>5 DEF Written
<1>7. u = Cut(t, {job.cur}, f) /\ FreeEntries(u) = FreeEntries(t) \ {job.cur}
  <2>1. ASSUME NEW c \in Entries, NEW v \in Nat
        PROVE  SetCluster(mem, c, v)[1] = Cut(t, {c}, v)
    BY SetClusterOne DEF TypeOK
  <2>2. u = Cut(t, {job.cur}, f)
    BY <1>1, <1>3, <1>4, <2>1
  <2> QED
    BY <1>3, <2>2, CutFree
<1>8. /\ IsFiniteSet(FreeEntries(t)) /\ Cardinality(FreeEntries(t)) \in Nat
      /\ Cardinality(FreeEntries(t)) >= job.left
  BY EntriesFinite, EntryNumbers DEF FreeEntries, Linked
<1>9. /\ w = Cut(t, {job.cur}, END_LOW) /\ w \in Tables /\ WellFormed(w)
      /\ w[job.cur] = END_LOW /\ ~ IsValidCluster(END_LOW)
      /\ Headed(w, Heads) /\ job.start \in Heads
  BY <1>2, <1>3, <1>4, EntryNumbers DEF MemorySound, Settled, Heads, Cut, Tables
<1>10. Settled' = Cut(u, {f}, END_LOW)
  BY <1>2, <1>5 DEF Settled
<1>11. /\ job.cur \in Reach(w, job.start)
       /\ Cardinality(Reach(w, job.start)) = 1 + n \div 2
  BY DEF Linked
<1>12. CASE n % 2 = 1
  <2>1. /\ (n + 1) % 2 = 0 /\ (n + 1) % 2 # 1
        /\ (n + 1) \div 2 = n \div 2 + 1
    BY <1>6, <1>12, Halves
  <2>2. t[job.cur] # AVAILABLE
    BY <1>12 DEF Linked
  <2>3. FreeEntries(u) = FreeEntries(t)
    BY <1>7, <2>2 DEF FreeEntries
  <2>4. f \in FreeEntries(u) /\ f = FirstFree(u)
    BY <1>3, <2>3 DEF FirstFree
  <2>5. f \in FreeEntries(w) /\ f # job.cur
    BY <1>3, <1>9, <2>2 DEF FreeEntries, Cut
  <2>6. Settled' = Tie(w, f, job.cur)
    BY <1>3, <1>4, <1>7, <1>9, <1>10, <2>5 DEF Tie, Cut, Tables
  <2>7. w[job.start] # AVAILABLE
    BY <1>4, <1>9 DEF Headed
  <2>8. /\ Reach(Settled', job.start) = Reach(w, job.start) \cup {f}
        /\ f \notin Reach(w, job.start)
    <3>1. ASSUME NEW v \in Tables, v = w
          PROVE  /\ Reach(Tie(v, f, job.cur), job.start) =
                      Reach(v, job.start) \cup {f}
                 /\ f \notin Reach(v, job.start)
      <4>1. /\ WellFormed(v) /\ job.start \in Entries /\ v[job.start] # AVAILABLE
            /\ f \in FreeEntries(v) /\ job.cur \in Reach(v, job.start)
            /\ ~ IsValidCluster(v[job.cur])
        BY <1>4, <1>9, <1>11, <2>5, <2>7, <3>1
      <4> QED
        BY <4>1, TieReach
    <3> QED
      BY <1>9, <2>6, <3>1
  <2>9. Cardinality(Reach(Settled', job.start)) = 1 + n \div 2 + 1
    BY <1>11, <2>8, ReachCount, FS_AddElement
  <2>10. n \div 2 \in Nat
    BY <1>6
  <2>11. Cardinality(Reach(Settled', job.start)) = 1 + (n + 1) \div 2
    BY <2>1, <2>9, <2>10
  <2>12. Cardinality(FreeEntries(u)) >= job.left - 1
    BY <1>4, <1>8, <2>3
  <2> QED
    BY <1>5, <1>6, <2>1, <2>4, <2>8, <2>11, <2>12 DEF Linked
<1>13. CASE n % 2 = 0
  <2>1. /\ (n + 1) % 2 = 1 /\ (n + 1) % 2 # 0
        /\ (n + 1) \div 2 = n \div 2
    BY <1>6, <1>13, Halves
  <2>2. f = job.cur
    BY <1>3, <1>13 DEF Linked
  <2>3. Settled' = w
    BY <1>7, <1>9, <1>10, <2>2 DEF Cut
  <2>4. u[f] # AVAILABLE
    BY <1>3, <1>7, <2>2 DEF Cut
  <2>5. Cardinality(FreeEntries(u)) = Cardinality(FreeEntries(t)) - 1
    BY <1>3, <1>7, <2>2, OneLess
  <2>6. Cardinality(FreeEntries(u)) >= job.left - 1
    BY <1>4, <1>8, <2>5
  <2> QED
    BY <1>5, <1>6, <1>11, <2>1, <2>2, <2>3, <2>4, <2>6 DEF Linked
<1> QED
  BY <1>6, <1>12, <1>13, Halves

LEMMA LinkingStep ==
  ASSUME TypeOK, TypeOK', MemorySound, Linking, [Next]_vars
  PROVE  Linking'
<1>1. ASSUME pc' # "chunk", pc' # "place"  PROVE Linking'
  BY <1>1 DEF Linking, ChainLength
<1>2. ASSUME NEW d \in dirs, NEW k \in 1 .. MaxChunks, NEW exact \in BOOLEAN,
             InsertFile(d, k, exact)
      PROVE  Linking'
  <2>1. pc' = "chunk"
    BY <1>2 DEF InsertFile
  <2> QED
    BY <1>2, <2>1, FirstLinked DEF Linking, ChainLength
<1>3. ASSUME NextChunk  PROVE Linking'
  <2>1. pc = "chunk" /\ pc' = "chunk" /\ (~ damaged' => ~ damaged)
    BY <1>3 DEF NextChunk
  <2>2. ~ damaged' => Linked'
    BY <1>3, <2>1, NextLinked DEF Linking
  <2> QED
    BY <2>1, <2>2 DEF Linking, ChainLength
<1>4. ASSUME FileDone  PROVE Linking'
  <2>1. /\ pc = "chunk" /\ pc' = "place" /\ UNCHANGED <<job, damaged>>
        /\ job.left = 0 /\ mem' = SetCluster(mem, job.cur, END_LOW)
    BY <1>4 DEF FileDone, Ended
  <2>2. mem'[1] = Settled
    BY <2>1, EntryNumbers, SetClusterOne DEF TypeOK, Settled
  <2>3. job.chunks \in Nat
    BY VolumeAssumption DEF TypeOK
  <2>4. ~ damaged => Cardinality(Reach(Settled, job.start)) = 1 + Written \div 2
    BY <2>1 DEF Linking, Linked
  <2>5. Written = job.chunks
    BY <2>1, <2>3 DEF Written
  <2> QED
    BY <2>1, <2>2, <2>4, <2>5 DEF Linking, ChainLength
<1>5. CASE UNCHANGED vars
  BY <1>5 DEF vars, Linking, Linked, Written, Settled, ChainLength
<1>6. ASSUME Next, ~ InsertStep, ~ PlaceEntryAstray,
             ~ \E d \in dirs : \E k \in 1 .. MaxChunks : \E exact \in BOOLEAN :
                 InsertFile(d, k, exact)
      PROVE  pc' # "chunk" /\ pc' # "place"
  BY <1>6 DEF Next, OpenDir, PlaceShortdir, PlaceAstray, InsertNormDir, RemoveContentFile,
              UpdateFatTable, UpdateSecond, Remount
<1>7. ASSUME NEW full \in BOOLEAN, PlaceEntry(full)  PROVE Linking'
  BY <1>7, <1>1 DEF PlaceEntry
<1>8. ASSUME PlaceEntryAstray  PROVE Linking'
  BY <1>8, <1>1 DEF PlaceEntryAstray
<1> QED
  BY <1>1, <1>2, <1>3, <1>4, <1>5, <1>6, <1>7, <1>8 DEF InsertStep

(* What the loop of __fat_insert_file counts holds in each of its turns.   *)
THEOREM LinkingInvariant == Spec => []Linking
<1>1. Init => Linking
  BY DEF Init, Linking, ChainLength
<1>2. TypeOK /\ TypeOK' /\ MemorySound /\ Linking /\ [Next]_vars => Linking'
  BY LinkingStep
<1> QED
  BY <1>1, <1>2, Soundness, TypeCorrect, PTL DEF Spec

(* The one check at the start of __fat_insert_file is enough for any       *)
(* length of file: no search of its loop fails.                            *)
THEOREM LoopFindsAlways == Spec => []LoopNeverStarves
<1>1. TypeOK /\ Linking => LoopNeverStarves
  <2> SUFFICES ASSUME TypeOK, Linking, ~ damaged, pc = "chunk", job.left > 0
               PROVE  HasFree(mem[1])
    BY DEF LoopNeverStarves
  <2>1. Cardinality(FreeEntries(mem[1])) >= job.left
    BY DEF Linking, Linked
  <2>2. job.left \in Nat
    BY VolumeAssumption DEF TypeOK
  <2>3. Cardinality(FreeEntries(mem[1])) # 0
    BY <2>1, <2>2
  <2> QED
    BY <2>3, FS_EmptySet DEF HasFree
<1> QED
  BY <1>1, LinkingInvariant, TypeCorrect, PTL

(* A finished file of n clusters of data has a chain of 1 + n \div 2, for  *)
(* every n.                                                                *)
THEOREM ChainAlwaysHalf == Spec => []ChainLength
<1>1. Linking => ChainLength
  BY DEF Linking
<1> QED
  BY <1>1, LinkingInvariant, PTL
=============================================================================
