-------------------------- MODULE IsoReaderProofs --------------------------
(***************************************************************************)
(* Proofs about IsoReader, for extents of any size with any records in     *)
(* them, any paths, any header sizes, and with or without Rock Ridge.      *)
(***************************************************************************)
EXTENDS IsoReader, WellFoundedInduction, SequenceTheorems, TLAPS

Rec(o) == image.at[o]

(***************************************************************************)
(* The types, where the call is, and the order the records are listed in.  *)
(***************************************************************************)
Stages ==
  /\ found # None => pc = "done"
  /\ pc \in {"load", "parse", "scan"} => isoError = "none"
  /\ pc = "scan" =>
       /\ scan \in DOMAIN nodes
       /\ counter = image.size
       /\ call \in {"lookup", "file", "tree"}
  /\ pc = "done" /\ call \in {"directory", "table"} => counter = image.size

Ordered ==
  /\ \A i \in DOMAIN nodes :
       EndOf(i) <= IF i < Len(nodes) THEN nodes[i + 1] ELSE counter
  /\ \A i \in DOMAIN nodes : nodes[i] < counter
  /\ \A i, j \in DOMAIN nodes : i < j => nodes[i] < nodes[j]

(***************************************************************************)
(* The offsets the loop of a directory comes by from o on, and those of    *)
(* them that are the beginning of a record.                                *)
(***************************************************************************)
After(o) == IF Rec(o).len = 0 THEN PastZero(o) ELSE Rounded(o + Rec(o).len)

ClosedWay(S) == \A p \in S : p < image.size => After(p) \in S

Way(o) == {p \in Nat : \A S \in SUBSET Nat : o \in S /\ ClosedWay(S) => p \in S}

Starts(o) == {p \in Way(o) : p < image.size /\ Rec(p).len # 0}

(***************************************************************************)
(* The list of a directory is made of the records on the way from 0 on, of *)
(* all of them when the end is met: reading the extent once more makes the *)
(* same list.                                                              *)
(***************************************************************************)
Complete ==
  call # "table" =>
    /\ ToSet(nodes) \subseteq Starts(0)
    /\ pc = "parse" =>
         counter \in Way(0) /\ Starts(0) \subseteq ToSet(nodes) \cup Starts(counter)
    /\ pc = "scan" => Starts(0) \subseteq ToSet(nodes)

NoneIs(name) == \A o \in Starts(0) : Rec(o).sub => NameOf(Rec(o)) # name

\* The name of a node, all of it in its field, is what is looked for.
Named(i) == RightKind(Rec(nodes[i])) /\ Matches(Rec(nodes[i]), Wanted)

Missed ==
  call = "lookup" /\ ~ misuse =>
    /\ pc \notin Final => \A i \in 1 .. token - 1 : NoneIs(path[i])
    /\ pc = "scan" => \A i \in 1 .. scan - 1 : ~ Named(i)

(***************************************************************************)
(* On a proper extent the loop is never between two records but in the     *)
(* zeros behind one.                                                       *)
(***************************************************************************)
OnTrack ==
  ProperExtent =>
    /\ Len(nodes) <= Len(image.starts)
    /\ \A i \in DOMAIN nodes : nodes[i] = image.starts[i]
    /\ Behind(image, Len(nodes)) <= counter
    /\ counter <= Before(image, Len(nodes))

(***************************************************************************)
(* The blocks a call has allocated and not freed, wherever it is.          *)
(***************************************************************************)
AtLoad == CASE call = "lookup" -> {"copy", "root"}
            [] call = "file" -> {"dup"}
            [] OTHER -> {}

Held == CASE pc = "load" -> AtLoad
          [] pc = "parse" -> AtLoad \cup {"buf", "list"}
          [] OTHER -> (AtLoad \cup {"buf", "list"}) \ FreedParsed

Owned == pc \in {"load", "parse", "scan"} => live = Allocated(Held, Nothing)

----------------------------------------------------------------------------
(***************************************************************************)
(* Facts about the data.                                                   *)
(***************************************************************************)
LEMMA LeastIsIn ==
  ASSUME NEW S \in SUBSET Nat, S # {}
  PROVE  Min(S) \in S /\ \A y \in S : Min(S) <= y
<1>1. PICK n \in S : \A m \in S : <<m, n>> \notin OpToRel(<, Nat)
  BY ONLY S \in SUBSET Nat, S # {}, WFMin, NatLessThanWellFounded
<1>2. ASSUME NEW m \in S, ~ (n <= m)  PROVE FALSE
  <2>1. m \in Nat /\ n \in Nat /\ m < n
    BY <1>2
  <2>2. <<m, n>> \in OpToRel(<, Nat)
    BY <2>1 DEF OpToRel
  <2> QED
    BY <1>1, <2>2
<1> QED
  BY <1>2 DEF Min

LEMMA ImageType ==
  ASSUME TypeOK
  PROVE  /\ image.size \in Nat
         /\ \A o \in 0 .. image.size - 1 :
               /\ Rec(o) \in Records
               /\ Rec(o).len \in Nat /\ Rec(o).id \in Names
               /\ Len(Rec(o).id) \in Nat /\ Rec(o).sub \in BOOLEAN
         /\ image.starts \in Seq(0 .. image.size - 1)
<1>1. /\ image.size \in Nat
      /\ image.at \in [0 .. image.size - 1 -> Records]
      /\ image.starts \in Seq(0 .. image.size - 1)
  BY ReaderAssumption DEF TypeOK
<1>2. ASSUME NEW o \in 0 .. image.size - 1
      PROVE  /\ Rec(o) \in Records
             /\ Rec(o).len \in Nat /\ Rec(o).id \in Names
             /\ Len(Rec(o).id) \in Nat /\ Rec(o).sub \in BOOLEAN
  <2>1. Rec(o) \in Records
    BY <1>1 DEF Rec
  <2>2. /\ Rec(o).len \in Nat /\ Rec(o).id \in Names /\ Rec(o).sub \in BOOLEAN
    BY <2>1 DEF Records
  <2>3. Len(Rec(o).id) \in Nat
    BY <2>2, LenProperties DEF Names
  <2> QED
    BY <2>1, <2>2, <2>3
<1> QED
  BY <1>1, <1>2

LEMMA RoundedUp ==
  ASSUME NEW o \in Nat
  PROVE  /\ Rounded(o) \in Nat /\ o <= Rounded(o)
         /\ o % 2 = 0 => Rounded(o) = o
BY SMT DEF Rounded

(* What the search for a signature comes up with.                          *)
LEMMA SignatureFound ==
  ASSUME NEW r \in Records, NEW signature
  PROVE  LET k == FindSignature(r, signature)
         IN  \/ /\ k = 0
                /\ \A i \in DOMAIN r.ext :
                      ~ (r.ext[i].sig = signature /\ r.ext[i].len # 0)
             \/ /\ k \in DOMAIN r.ext /\ k # 0
                /\ r.ext[k].sig = signature /\ r.ext[k].len # 0
                /\ \A i \in DOMAIN r.ext :
                      r.ext[i].sig = signature /\ r.ext[i].len # 0 => k <= i
<1> DEFINE I == {i \in 1 .. Len(r.ext) :
                   r.ext[i].sig = signature /\ r.ext[i].len # 0}
<1>1. FindSignature(r, signature) = IF I # {} THEN Min(I) ELSE 0
  BY DEF FindSignature, SelectInSeq
<1>2. r.ext \in Seq(SystemUse)
  BY DEF Records
<1>3. DOMAIN r.ext = 1 .. Len(r.ext) /\ Len(r.ext) \in Nat
  BY <1>2
<1>4. I \in SUBSET Nat /\ 0 \notin I
  BY <1>3
<1> HIDE DEF I
<1>5. CASE I = {}
  BY <1>1, <1>3, <1>5 DEF I
<1>6. CASE I # {}
  <2>1. Min(I) \in I /\ \A y \in I : Min(I) <= y
    BY <1>4, <1>6, LeastIsIn
  <2> QED
    BY <1>1, <1>3, <1>4, <1>6, <2>1 DEF I
<1> QED
  BY <1>5, <1>6

(* The name that is compared is a name.                                    *)
LEMMA NamesAreNames ==
  ASSUME NEW r \in Records
  PROVE  NameOf(r) \in Names
<1>1. r.id \in Names /\ r.ext \in Seq(SystemUse)
  BY DEF Records
<1>2. HasName(r) => NameEntry(r) \in SystemUse
  <2> SUFFICES ASSUME HasName(r)  PROVE r.ext[FindSignature(r, "NM")] \in SystemUse
    BY DEF NameEntry
  <2>1. FindSignature(r, "NM") \in DOMAIN r.ext
    BY SignatureFound DEF HasName
  <2> QED
    BY <1>1, <2>1
<1>3. HasName(r) => NameEntry(r).name \in Names
  BY <1>2 DEF SystemUse
<1> QED
  BY <1>1, <1>3 DEF NameOf

----------------------------------------------------------------------------
(***************************************************************************)
(* The blocks that are allocated.                                          *)
(***************************************************************************)
LEMMA StillCounts ==
  ASSUME NEW l \in [Blocks -> Nat], NEW blocks
  PROVE  Allocated(blocks, l) \in [Blocks -> Nat] /\ Freed(blocks, l) \in [Blocks -> Nat]
<1>1. ASSUME NEW b \in Blocks
      PROVE  /\ (IF b \in blocks THEN l[b] + 1 ELSE l[b]) \in Nat
             /\ (IF b \in blocks /\ l[b] > 0 THEN l[b] - 1 ELSE l[b]) \in Nat
  <2>1. l[b] \in Nat
    OBVIOUS
  <2> QED
    BY <2>1
<1> QED
  BY <1>1 DEF Allocated, Freed

(* Of a set of blocks, one of each kind is allocated.                      *)
Holding(blocks) == Allocated(blocks, Nothing)

LEMMA NothingHeld ==
  /\ Nothing \in [Blocks -> Nat] /\ Holding({}) = Nothing
  /\ \A blocks : Holding(blocks) = [b \in Blocks |-> IF b \in blocks THEN 1 ELSE 0]
BY DEF Nothing, Holding, Allocated

LEMMA MoreHeld ==
  ASSUME NEW H, NEW more, H \cap more = {}
  PROVE  Allocated(more, Holding(H)) = Holding(H \cup more)
BY NothingHeld DEF Allocated

(* What is held can be freed.                                              *)
LEMMA HeldIsFreed ==
  ASSUME NEW H, live = Holding(H), NEW blocks \in SUBSET Blocks, blocks \subseteq H
  PROVE  ~ FreesNone(blocks) /\ Freed(blocks, live) = Holding(H \ blocks)
<1>1. \A b \in Blocks : live[b] = IF b \in H THEN 1 ELSE 0
  BY NothingHeld
<1>2. ~ FreesNone(blocks)
  BY <1>1 DEF FreesNone
<1>3. \A b \in Blocks : (IF b \in blocks /\ live[b] > 0 THEN live[b] - 1 ELSE live[b])
                          = IF b \in H \ blocks THEN 1 ELSE 0
  BY <1>1
<1>4. Freed(blocks, live) = Holding(H \ blocks)
  BY <1>3, NothingHeld DEF Freed
<1> QED
  BY <1>2, <1>4

LEMMA StartsWith ==
  ASSUME Init
  PROVE  live = Holding(AtLoad) /\ AtLoad \in SUBSET Blocks
BY NothingHeld DEF Init, AtLoad, Holding, Blocks

----------------------------------------------------------------------------
(***************************************************************************)
(* Types, stages and order.                                                *)
(***************************************************************************)
Base == TypeOK /\ Stages /\ Ordered

LEMMA NodesType ==
  ASSUME TypeOK
  PROVE  /\ DOMAIN nodes = 1 .. Len(nodes) /\ Len(nodes) \in Nat
         /\ \A i \in DOMAIN nodes : nodes[i] \in 0 .. image.size - 1 /\ nodes[i] \in Nat
<1>1. nodes \in Seq(0 .. image.size - 1) /\ image.size \in Nat
  BY ImageType DEF TypeOK
<1>2. DOMAIN nodes = 1 .. Len(nodes) /\ Len(nodes) \in Nat
  BY <1>1
<1>3. \A i \in DOMAIN nodes : nodes[i] \in 0 .. image.size - 1
  BY <1>1, <1>2
<1> QED
  BY <1>1, <1>2, <1>3

LEMMA NodesAppend ==
  ASSUME TypeOK, counter < image.size, nodes' = Append(nodes, counter)
  PROVE  /\ nodes' \in Seq(0 .. image.size - 1)
         /\ Len(nodes') = Len(nodes) + 1
         /\ DOMAIN nodes' = 1 .. Len(nodes) + 1
         /\ \A i \in DOMAIN nodes : nodes'[i] = nodes[i]
         /\ nodes'[Len(nodes) + 1] = counter
         /\ ToSet(nodes') = ToSet(nodes) \cup {counter}
<1>1. /\ nodes \in Seq(0 .. image.size - 1)
      /\ counter \in 0 .. image.size - 1
      /\ DOMAIN nodes = 1 .. Len(nodes) /\ Len(nodes) \in Nat
  BY ImageType, NodesType DEF TypeOK
<1>2. /\ nodes' \in Seq(0 .. image.size - 1)
      /\ Len(nodes') = Len(nodes) + 1
      /\ \A i \in 1 .. Len(nodes) : nodes'[i] = nodes[i]
      /\ nodes'[Len(nodes) + 1] = counter
  BY <1>1, AppendProperties
<1>3. DOMAIN nodes' = 1 .. Len(nodes) + 1
  BY <1>2
<1>4. ToSet(nodes') = ToSet(nodes) \cup {counter}
  <2>1. \A i \in DOMAIN nodes' : i \in DOMAIN nodes \/ i = Len(nodes) + 1
    BY <1>1, <1>3
  <2>2. DOMAIN nodes \subseteq DOMAIN nodes' /\ Len(nodes) + 1 \in DOMAIN nodes'
    BY <1>1, <1>3
  <2> QED
    BY <1>1, <1>2, <2>1, <2>2 DEF ToSet
<1> QED
  BY <1>1, <1>2, <1>3, <1>4

(* A record is put at the end of the list, and the counter goes behind it. *)
Grows(behind) ==
  /\ counter < image.size
  /\ nodes' = Append(nodes, counter)
  /\ behind \in Nat /\ counter < behind /\ behind <= counter'
  /\ counter' \in Nat

LEMMA OrderGrows ==
  ASSUME Base, image' = image, call' = call,
         Grows(counter + IF call = "table" THEN TableHeader + Rec(counter).len
                                           ELSE Rec(counter).len)
  PROVE  Ordered'
<1> DEFINE n == Len(nodes)
           span(o) == IF call = "table" THEN TableHeader + image.at[o].len
                                        ELSE image.at[o].len
<1>1. /\ n \in Nat /\ DOMAIN nodes = 1 .. n /\ DOMAIN nodes' = 1 .. n + 1
      /\ Len(nodes') = n + 1 /\ nodes'[n + 1] = counter
      /\ \A i \in DOMAIN nodes : nodes'[i] = nodes[i] /\ nodes[i] \in Nat
      /\ counter \in Nat /\ counter' \in Nat
  BY NodesType, NodesAppend DEF Base, TypeOK, Grows
<1>2. /\ \A i \in DOMAIN nodes : EndOf(i) = nodes[i] + span(nodes[i])
      /\ \A i \in DOMAIN nodes' : EndOf(i)' = nodes'[i] + span(nodes'[i])
  BY DEF EndOf
<1>3. counter < counter' /\ counter + span(counter) <= counter'
  <2>1. /\ counter + span(counter) \in Nat
        /\ counter < counter + span(counter)
        /\ counter + span(counter) <= counter'
    BY DEF Grows, Rec
  <2> QED
    BY <1>1, <2>1
<1>4. /\ \A i \in DOMAIN nodes :
            nodes[i] + span(nodes[i]) <= IF i < n THEN nodes[i + 1] ELSE counter
      /\ \A i \in DOMAIN nodes : nodes[i] < counter
      /\ \A i, j \in DOMAIN nodes : i < j => nodes[i] < nodes[j]
  BY <1>2 DEF Base, Ordered
<1> HIDE DEF span
<1>5. ASSUME NEW i \in 1 .. n + 1
      PROVE  /\ EndOf(i)' <= IF i < n + 1 THEN nodes'[i + 1] ELSE counter'
             /\ nodes'[i] < counter'
  <2>1. CASE i = n + 1
    BY <1>1, <1>2, <1>3, <2>1
  <2>2. CASE i = n
    <3>1. /\ i \in DOMAIN nodes /\ i \in DOMAIN nodes' /\ i + 1 = n + 1
          /\ i < n + 1 /\ ~ (i < n)
      BY <1>1, <2>2
    <3>2. EndOf(i)' <= nodes'[i + 1]
      BY <1>1, <1>2, <1>4, <3>1
    <3> QED
      BY <1>1, <1>3, <1>4, <3>1, <3>2
  <2>3. CASE i < n
    <3>1. /\ i \in DOMAIN nodes /\ i \in DOMAIN nodes' /\ i + 1 \in DOMAIN nodes
          /\ i < n + 1
      BY <1>1, <2>3
    <3>2. EndOf(i)' <= nodes'[i + 1]
      <4>1. nodes'[i] = nodes[i] /\ nodes'[i + 1] = nodes[i + 1]
        BY <1>1, <3>1
      <4>2. nodes[i] + span(nodes[i]) <= nodes[i + 1]
        BY <1>4, <2>3, <3>1
      <4>3. EndOf(i)' = nodes[i] + span(nodes[i])
        BY <1>2, <3>1, <4>1
      <4> QED
        BY <4>1, <4>2, <4>3
    <3>3. nodes'[i] < counter'
      BY <1>1, <1>3, <1>4, <3>1
    <3> QED
      BY <3>1, <3>2, <3>3
  <2>4. i = n + 1 \/ i = n \/ i < n
    <3>1. \A m \in Nat : \A k \in 1 .. m + 1 : k = m + 1 \/ k = m \/ k < m
      BY SMT
    <3> QED
      BY <1>1, <3>1
  <2> QED
    BY <2>1, <2>2, <2>3, <2>4
<1>6. ASSUME NEW i \in 1 .. n + 1, NEW j \in 1 .. n + 1, i < j
      PROVE  nodes'[i] < nodes'[j]
  <2>1. i \in DOMAIN nodes
    BY <1>1, <1>6
  <2>2. CASE j = n + 1
    BY <1>1, <1>4, <2>1, <2>2
  <2>3. CASE j # n + 1
    <3>1. j \in DOMAIN nodes
      BY <1>1, <2>3
    <3> QED
      BY <1>1, <1>4, <1>6, <2>1, <3>1
  <2> QED
    BY <2>2, <2>3
<1> QED
  BY <1>1, <1>5, <1>6 DEF Ordered

LEMMA ReadRecordGrows ==
  ASSUME TypeOK, ReadRecord, ~ RecordTooShort(Rec(counter))
  PROVE  /\ Grows(counter + Rec(counter).len)
         /\ call # "table" /\ pc = "parse" /\ pc' = "parse"
         /\ counter' = Rounded(counter + Rec(counter).len)
         /\ UNCHANGED <<call, image, path, token, scan, found, unread, live,
                        misuse, isoError>>
<1>1. /\ counter \in Nat /\ image.size \in Nat /\ counter < image.size
      /\ counter \in 0 .. image.size - 1
  BY ImageType DEF ReadRecord, TypeOK
<1>2. /\ nodes' = Append(nodes, counter)
      /\ counter' = Rounded(counter + Rec(counter).len)
      /\ call # "table" /\ pc = "parse" /\ pc' = "parse"
      /\ UNCHANGED <<call, image, path, token, scan, found, unread, live,
                     misuse, isoError>>
  BY DEF ReadRecord, Rec
<1>3. Rec(counter).len \in Nat /\ Rec(counter).len # 0
  BY <1>1, ImageType DEF ReadRecord, Rec
<1>4. counter + Rec(counter).len \in Nat /\ counter < counter + Rec(counter).len
  BY <1>1, <1>3
<1> QED
  BY <1>1, <1>2, <1>4, RoundedUp DEF Grows

LEMMA ReadEntryGrows ==
  ASSUME TypeOK, ReadEntry, ~ (Rec(counter).len > CharMax)
  PROVE  /\ Grows(counter + (TableHeader + Rec(counter).len))
         /\ call = "table" /\ pc = "parse" /\ pc' = "parse"
         /\ counter' = Rounded(counter + TableHeader + Rec(counter).len)
         /\ UNCHANGED <<call, image, path, token, scan, found, unread, live,
                        misuse, isoError>>
<1>1. /\ counter \in Nat /\ image.size \in Nat /\ counter < image.size
      /\ counter \in 0 .. image.size - 1
  BY ImageType DEF ReadEntry, TypeOK
<1>2. /\ nodes' = Append(nodes, counter)
      /\ counter' = Rounded(counter + TableHeader + Rec(counter).len)
      /\ call = "table" /\ pc = "parse" /\ pc' = "parse"
      /\ UNCHANGED <<call, image, path, token, scan, found, unread, live,
                     misuse, isoError>>
  BY DEF ReadEntry, Rec
<1>3. Rec(counter).len \in Nat /\ TableHeader \in Nat \ {0}
  BY <1>1, ImageType, ReaderAssumption
<1>4. /\ counter + (TableHeader + Rec(counter).len) \in Nat
      /\ counter < counter + (TableHeader + Rec(counter).len)
      /\ counter + (TableHeader + Rec(counter).len) =
           counter + TableHeader + Rec(counter).len
  BY <1>1, <1>3
<1> QED
  BY <1>1, <1>2, <1>4, RoundedUp DEF Grows

LEMMA BaseInit == Init => Base
<1> SUFFICES ASSUME Init  PROVE Base
  OBVIOUS
<1>1. image.size \in Nat
  BY ReaderAssumption DEF Init
<1>2. path \in Seq(Strings) /\ Len(path) \in Nat
  <2>1. path \in Seq(Strings)
    <3>1. CASE call = "lookup"
      BY <3>1, ReaderAssumption DEF Init
    <3>2. CASE call = "file"
      <4>1. PICK p \in Paths : path = <<p>>
        BY <3>2 DEF Init
      <4>2. p \in Strings
        BY ReaderAssumption
      <4> QED
        BY <4>1, <4>2
    <3>3. CASE call # "lookup" /\ call # "file"
      <4>1. path = <<>>
        BY <3>3 DEF Init
      <4> QED
        BY <4>1
    <3> QED
      BY <3>1, <3>2, <3>3
  <2> QED
    BY <2>1
<1>3. token \in 1 .. Len(path) + 1
  BY <1>2 DEF Init
<1>4. nodes = <<>> /\ Len(nodes) = 0 /\ DOMAIN nodes = {} /\ unread = FALSE
  BY DEF Init
<1>5. /\ nodes \in Seq(0 .. image.size - 1)
      /\ scan \in 0 .. Len(nodes) /\ counter \in Nat
  BY <1>1, <1>4 DEF Init
<1>6. TypeOK
  <2>1. live \in [Blocks -> Nat]
    BY StartsWith, NothingHeld, StillCounts
  <2>2. /\ call \in Calls /\ image \in Images /\ found = None /\ misuse = FALSE
        /\ isoError = "none" /\ pc = "load"
    BY DEF Init
  <2>3. /\ found \in {None} \cup ToSet(nodes)
        /\ misuse \in BOOLEAN
        /\ isoError \in {"none", "read", "mismatch", "notfound"}
        /\ pc \in {"load", "parse", "scan", "wild"} \cup Final
    BY <2>2
  <2> QED
    BY <1>2, <1>3, <1>4, <1>5, <2>1, <2>2, <2>3 DEF TypeOK
<1>7. Stages /\ Ordered
  BY <1>4 DEF Init, Stages, Ordered
<1> QED
  BY <1>6, <1>7 DEF Base


LEMMA BaseStep ==
  ASSUME Base, [Next]_vars
  PROVE  Base'
<1> USE DEF Base
<1>1. /\ image.size \in Nat /\ counter \in Nat /\ Len(nodes) \in Nat
      /\ nodes \in Seq(0 .. image.size - 1) /\ DOMAIN nodes = 1 .. Len(nodes)
  BY ImageType, NodesType DEF TypeOK
\* Nothing that the order of the list depends on changes.
<1>2. ASSUME UNCHANGED <<call, image, nodes, counter>>  PROVE Ordered'
  BY <1>2 DEF Ordered, EndOf
<1>3. ASSUME Load  PROVE Base'
  <2>1. /\ pc = "load" /\ pc' = "parse" /\ counter' = 0 /\ nodes' = <<>>
        /\ scan' = 0 /\ live' = Allocated({"buf", "list"}, live)
        /\ UNCHANGED <<call, image, path, token, found, unread, misuse, isoError>>
    BY <1>3 DEF Load
  <2>2. /\ nodes' \in Seq(0 .. image.size - 1) /\ Len(nodes') = 0
        /\ DOMAIN nodes' = {}
    BY <2>1
  <2>3. found = None /\ isoError = "none"
    BY <2>1 DEF Stages
  <2>4. TypeOK'
    BY <2>1, <2>2, <2>3, StillCounts DEF TypeOK
  <2>5. Stages' /\ Ordered'
    BY <2>1, <2>2, <2>3 DEF Stages, Ordered
  <2> QED
    BY <2>4, <2>5
<1>4. ASSUME LoadFails \/ LookupLoadFails  PROVE Base'
  <2>1. /\ pc = "load" /\ pc' \in Final /\ live' \in [Blocks -> Nat]
        /\ call = "lookup" \/ pc' = "failed"
        /\ isoError' \in {"read", "notfound"} /\ misuse' \in BOOLEAN /\ unread'
        /\ unread' \in BOOLEAN
        /\ UNCHANGED <<call, image, path, token, counter, nodes, scan, found>>
    <3>1. CASE LoadFails
      BY <3>1, StillCounts DEF LoadFails, TypeOK, Frees, FreesNone, Final
    <3>2. CASE LookupLoadFails
      BY <3>2, StillCounts DEF LookupLoadFails, BehindLoop, TypeOK, Final
    <3> QED
      BY <1>4, <3>1, <3>2
  <2>2. TypeOK'
    BY <2>1 DEF TypeOK
  <2>3. Stages'
    BY <2>1 DEF Stages, Final
  <2> QED
    BY <1>2, <2>1, <2>2, <2>3
<1>5. ASSUME SkipZero  PROVE Base'
  <2>1. /\ pc = "parse" /\ counter < image.size /\ counter' = counter + 1
        /\ call # "table"
        /\ UNCHANGED <<call, image, path, token, nodes, scan, found, unread,
                       live, misuse, isoError, pc>>
    BY <1>5 DEF SkipZero, PastZero
  <2>2. TypeOK' /\ Stages'
    BY <1>1, <2>1 DEF TypeOK, Stages
  <2>3. /\ \A i \in DOMAIN nodes : EndOf(i)' = EndOf(i) /\ nodes[i] \in Nat
        /\ \A i \in DOMAIN nodes : nodes[i] < counter + 1
    BY <1>1, <2>1, NodesType DEF EndOf, Ordered
  <2>4. \A i \in DOMAIN nodes : EndOf(i) <= counter => EndOf(i) <= counter + 1
    <3> SUFFICES ASSUME NEW i \in DOMAIN nodes, EndOf(i) <= counter
                 PROVE  EndOf(i) <= counter + 1
      OBVIOUS
    <3>1. nodes[i] \in Nat /\ image.at[nodes[i]].len \in Nat
      BY NodesType, ImageType DEF Rec
    <3>2. EndOf(i) \in Nat
      BY <3>1, <2>1 DEF EndOf
    <3> QED
      BY <1>1, <3>2
  <2>5. Ordered'
    BY <2>1, <2>3, <2>4 DEF Ordered
  <2> QED
    BY <2>2, <2>5
<1>6. ASSUME NEW behind, Grows(behind),
             pc = "parse", pc' = "parse",
             UNCHANGED <<call, image, path, token, scan, found, unread, live,
                         misuse, isoError>>
      PROVE  TypeOK' /\ Stages'
  <2>1. /\ nodes' \in Seq(0 .. image.size - 1) /\ Len(nodes') = Len(nodes) + 1
        /\ counter' \in Nat
    BY <1>6, NodesAppend DEF Grows
  <2>2. found = None
    BY <1>6 DEF Stages
  <2>3. scan \in 0 .. Len(nodes) + 1 /\ 0 <= Len(nodes) + 1
    BY <1>1 DEF TypeOK
  <2>4. TypeOK'
    BY <1>6, <2>1, <2>2, <2>3 DEF TypeOK
  <2>5. Stages'
    BY <1>6, <2>2 DEF Stages
  <2> QED
    BY <2>4, <2>5
<1>7. ASSUME pc = "parse", pc' = "crashed", misuse',
             UNCHANGED <<call, image, path, token, counter, nodes, scan, found,
                         unread, live, isoError>>
      PROVE  Base'
  BY <1>2, <1>7 DEF TypeOK, Stages, Final
<1>8. ASSUME ReadRecord  PROVE Base'
  <2>1. CASE RecordTooShort(Rec(counter))
    BY <1>7, <1>8, <2>1 DEF ReadRecord, Rec
  <2>2. CASE ~ RecordTooShort(Rec(counter))
    <3>1. /\ Grows(counter + Rec(counter).len)
          /\ call # "table" /\ pc = "parse" /\ pc' = "parse"
          /\ UNCHANGED <<call, image, path, token, scan, found, unread, live,
                         misuse, isoError>>
      BY <1>8, <2>2, ReadRecordGrows
    <3>2. TypeOK' /\ Stages'
      BY <1>6, <3>1
    <3>3. Ordered'
      BY <3>1, OrderGrows
    <3> QED
      BY <3>2, <3>3
  <2> QED
    BY <2>1, <2>2
<1>9. ASSUME ReadEntry  PROVE Base'
  <2>1. CASE Rec(counter).len > CharMax
    BY <1>7, <1>9, <2>1 DEF ReadEntry, Rec
  <2>2. CASE ~ (Rec(counter).len > CharMax)
    <3>1. /\ Grows(counter + (TableHeader + Rec(counter).len))
          /\ call = "table" /\ pc = "parse" /\ pc' = "parse"
          /\ UNCHANGED <<call, image, path, token, scan, found, unread, live,
                         misuse, isoError>>
      BY <1>9, <2>2, ReadEntryGrows
    <3>2. TypeOK' /\ Stages'
      BY <1>6, <3>1
    <3>3. Ordered'
      BY <3>1, OrderGrows
    <3> QED
      BY <3>2, <3>3
  <2> QED
    BY <2>1, <2>2
<1>10. ASSUME Overshoot \/ OvershootTable \/ OvershootFile  PROVE Base'
  <2>1. /\ pc = "parse" /\ pc' \in Final \cup {"wild"}
        /\ call \in {"directory", "table"} => pc' # "done"
        /\ live' \in [Blocks -> Nat] /\ misuse' \in BOOLEAN
        /\ isoError' \in {"read", "mismatch"}
        /\ UNCHANGED <<call, image, path, token, counter, nodes, scan, found,
                       unread>>
    <3>1. CASE Overshoot
      <4>1. /\ live' \in [Blocks -> Nat] /\ misuse' \in BOOLEAN
        BY <3>1, StillCounts DEF Overshoot, Frees, FreesNone, TypeOK
      <4> QED
        BY <3>1, <4>1 DEF Overshoot, Final
    <3>2. CASE OvershootTable
      BY <3>2, StillCounts DEF OvershootTable, Final, TypeOK
    <3>3. CASE OvershootFile
      BY <3>3, StillCounts DEF OvershootFile, TypeOK
    <3> QED
      BY <1>10, <3>1, <3>2, <3>3
  <2>2. TypeOK'
    BY <2>1 DEF TypeOK
  <2>3. Stages'
    BY <2>1 DEF Stages, Final
  <2> QED
    BY <1>2, <2>1, <2>2, <2>3
<1>11. ASSUME ParseEnds  PROVE Base'
  <2>1. /\ pc = "parse" /\ counter = image.size
        /\ UNCHANGED <<call, image, path, token, counter, nodes, found, unread,
                       isoError>>
    BY <1>11 DEF ParseEnds, Ends
  <2>2. found = None /\ isoError = "none"
    BY <2>1 DEF Stages
  <2>3. CASE nodes = <<>>
    <3>1. pc' = "crashed" /\ misuse' = TRUE /\ UNCHANGED <<scan, live>>
      BY <1>11, <2>3 DEF ParseEnds
    <3> QED
      BY <1>2, <2>1, <2>2, <3>1 DEF TypeOK, Stages, Final
  <2>4. CASE nodes # <<>>
    <3>1. 1 \in DOMAIN nodes /\ 1 \in 0 .. Len(nodes)
      BY <1>1, <2>4
    <3>2. /\ misuse' \in BOOLEAN /\ live' \in [Blocks -> Nat]
          /\ \/ pc' \in {"done", "crashed"} /\ scan' = scan
             \/ /\ pc' = "scan" /\ scan' = 1
                /\ call \in {"lookup", "file", "tree"}
      <4>1. CASE call = "directory"
        BY <1>11, <2>4, <4>1 DEF ParseEnds, TypeOK
      <4>2. CASE call = "table"
        BY <1>11, <2>4, <4>2, StillCounts DEF ParseEnds, TypeOK
      <4>3. CASE call \in {"lookup", "file", "tree"}
        BY <1>11, <2>4, <4>3, StillCounts DEF ParseEnds, TypeOK, Frees, FreesNone
      <4> QED
        BY <4>1, <4>2, <4>3 DEF TypeOK, Calls
    <3>3. TypeOK'
      BY <2>1, <3>1, <3>2 DEF TypeOK, Final
    <3>4. Stages'
      BY <2>1, <2>2, <3>1, <3>2 DEF Stages
    <3> QED
      BY <1>2, <2>1, <3>3, <3>4
  <2> QED
    BY <2>3, <2>4
<1>12. ASSUME pc = "scan"
       PROVE  /\ scan \in DOMAIN nodes /\ nodes[scan] \in ToSet(nodes)
              /\ scan \in 1 .. Len(nodes)
              /\ found = None /\ isoError = "none" /\ counter = image.size
              /\ call \in {"lookup", "file", "tree"}
  BY <1>1, <1>12 DEF Stages, Final, ToSet
<1>13. ASSUME CrashInName  PROVE Base'
  BY <1>2, <1>13 DEF CrashInName, TypeOK, Stages, Final
<1>14. ASSUME ScanHit  PROVE Base'
  <2>1. /\ pc = "scan" /\ pc' = "done" /\ found' = nodes[scan] /\ call # "tree"
        /\ live' = Allocated({"found"}, Freed(FreedFound, live))
        /\ misuse' = (misuse \/ NameTooLong(Here) \/ FreesNone(FreedFound))
        /\ UNCHANGED <<call, image, path, token, counter, nodes, scan, unread,
                       isoError>>
    BY <1>14 DEF ScanHit, Searching, Taken
  <2>2. live' \in [Blocks -> Nat] /\ misuse' \in BOOLEAN
    BY <2>1, StillCounts DEF TypeOK, NameTooLong, HasName, FreesNone
  <2>3. TypeOK'
    BY <1>12, <2>1, <2>2 DEF TypeOK, Final
  <2>4. Stages'
    BY <1>12, <2>1 DEF Stages
  <2> QED
    BY <1>2, <2>1, <2>3, <2>4
<1>15. ASSUME NEW blocks, SearchFrees(blocks)
       PROVE  live' \in [Blocks -> Nat] /\ misuse' \in BOOLEAN
  BY <1>15, StillCounts DEF SearchFrees, TypeOK, NameTooLong, HasName, FreesNone
<1>16. ASSUME ScanMiss  PROVE Base'
  <2>1. /\ pc = "scan" /\ scan' = scan + 1 /\ scan < Len(nodes) /\ call # "tree"
        /\ SearchFrees({})
        /\ UNCHANGED <<call, image, path, token, counter, nodes, found, unread,
                       isoError, pc>>
    BY <1>16 DEF ScanMiss, Searching
  <2>2. scan + 1 \in 1 .. Len(nodes) /\ scan + 1 \in 0 .. Len(nodes)
    BY <1>1, <1>12, <2>1
  <2>3. TypeOK'
    BY <1>15, <2>1, <2>2 DEF TypeOK
  <2>4. Stages'
    BY <1>1, <2>1, <2>2 DEF Stages
  <2> QED
    BY <1>2, <2>1, <2>3, <2>4
<1>17. ASSUME NextToken  PROVE Base'
  <2>1. /\ pc = "scan" /\ pc' = "load" /\ call = "lookup" /\ token < Len(path)
        /\ token' = token + 1 /\ SearchFrees({"list"})
        /\ UNCHANGED <<call, image, path, counter, nodes, scan, found, unread,
                       isoError>>
    BY <1>17 DEF NextToken, Searching
  <2>2. token' \in 1 .. Len(path) + 1
    BY <2>1 DEF TypeOK
  <2>3. TypeOK'
    BY <1>15, <2>1, <2>2 DEF TypeOK
  <2>4. Stages'
    BY <1>12, <2>1 DEF Stages
  <2> QED
    BY <1>2, <2>1, <2>3, <2>4
<1>18. ASSUME NotFound  PROVE Base'
  <2>1. /\ pc = "scan" /\ pc' = "failed"
        /\ SearchFrees(FreedFound) /\ isoError' \in {isoError, "notfound"}
        /\ UNCHANGED <<call, image, path, token, counter, nodes, scan, found,
                       unread>>
    BY <1>18 DEF NotFound, Searching
  <2>2. TypeOK'
    BY <1>15, <2>1 DEF TypeOK, Final
  <2>3. Stages'
    BY <1>12, <2>1 DEF Stages
  <2> QED
    BY <1>2, <2>1, <2>2, <2>3
<1>20. ASSUME PrintName  PROVE Base'
  <2>1. /\ pc = "scan" /\ call = "tree"
        /\ \E twice \in {FALSE, ~ UseRR} :
             misuse' = (misuse \/ twice \/ NameTooLong(Here)
                          \/ FreesNone(FreedListing))
        /\ live' = Freed(FreedListing, live)
        /\ \/ scan < Len(nodes) /\ scan' = scan + 1 /\ UNCHANGED pc
           \/ pc' = "done" /\ scan' = scan
        /\ UNCHANGED <<call, image, path, token, counter, nodes, found, unread,
                       isoError>>
    BY <1>20 DEF PrintName
  <2>2. live' \in [Blocks -> Nat] /\ misuse' \in BOOLEAN
    BY <2>1, StillCounts, ReaderAssumption DEF TypeOK, NameTooLong, HasName, FreesNone
  <2>3. scan < Len(nodes) => scan + 1 \in 1 .. Len(nodes) /\ scan + 1 \in 0 .. Len(nodes)
    BY <1>1, <1>12, <2>1
  <2>4. TypeOK'
    BY <1>12, <2>1, <2>2, <2>3 DEF TypeOK, Final
  <2>5. Stages'
    BY <1>1, <1>12, <2>1, <2>3 DEF Stages
  <2> QED
    BY <1>2, <2>1, <2>4, <2>5
<1>19. CASE UNCHANGED vars
  BY <1>2, <1>19 DEF vars, TypeOK, Stages
<1> QED
  BY <1>3, <1>4, <1>5, <1>8, <1>9, <1>10, <1>11, <1>13, <1>14, <1>16,
     <1>17, <1>18, <1>19, <1>20 DEF Next, Step

LEMMA BaseInvariant == Spec => []Base
<1>1. Base /\ [Next]_vars => Base'
  BY BaseStep
<1> QED
  BY <1>1, BaseInit, PTL DEF Spec

(* Every variable keeps its type, on any extent: the loop never stops at a *)
(* node that is not there and never lists an offset outside the extent.    *)
THEOREM TypeCorrect == Spec => []TypeOK
<1>1. Base => TypeOK
  BY DEF Base
<1> QED
  BY <1>1, BaseInvariant, PTL

(* In every list that is accepted, on any extent, no record reaches into   *)
(* the next one or beyond the end.                                         *)
THEOREM RecordsAlwaysApart == Spec => []RecordsApart
<1>1. Base => RecordsApart
  BY DEF Base, RecordsApart, Listed, Ordered, Stages
<1> QED
  BY <1>1, BaseInvariant, PTL

----------------------------------------------------------------------------
(***************************************************************************)
(* What a call has allocated, and what it leaves so.                       *)
(***************************************************************************)
LEMMA CallFixed ==
  ASSUME [Next]_vars
  PROVE  UNCHANGED <<call, image, path>>
BY DEF Next, Step, Load, LoadFails, LookupLoadFails, SkipZero, ReadRecord,
       ReadEntry, Overshoot, OvershootTable, OvershootFile, ParseEnds, CrashInName,
       ScanHit, ScanMiss, NextToken, NotFound, PrintName, Searching, vars

(* What is freed has been allocated.                                       *)
LEMMA FreesHeld ==
  ASSUME Base, Owned
  PROVE  /\ pc = "load" /\ call = "file" => ~ FreesNone({"dup"})
         /\ ~ FreesNone({})
         /\ pc = "parse" /\ call \in {"lookup", "file", "tree"} =>
              /\ ~ FreesNone(FreedParsed)
              /\ Freed(FreedParsed, live) =
                   Holding((AtLoad \cup {"buf", "list"}) \ FreedParsed)
         /\ pc = "parse" /\ call = "lookup" =>
              Freed({"list", "buf", "root", "copy"}, live) = Nothing
         /\ pc = "parse" /\ call = "tree" => Freed({"list", "buf"}, live) = Nothing
         /\ pc = "scan" /\ call = "lookup" =>
              /\ ~ FreesNone(FreedFound) /\ Freed(FreedFound, live) = Nothing
              /\ ~ FreesNone({"list"}) /\ Freed({"list"}, live) = Holding(AtLoad)
         /\ pc = "scan" /\ call = "file" => ~ FreesNone(FreedFound)
         /\ pc = "scan" /\ call = "tree" =>
              /\ ~ FreesNone({"list", "buf"}) /\ Freed({"list", "buf"}, live) = Nothing
<1>1. pc \in {"load", "parse", "scan"} => live = Holding(Held)
  BY DEF Owned, Holding
<1>2. pc = "load" /\ call = "file" => ~ FreesNone({"dup"})
  <2> SUFFICES ASSUME pc = "load", call = "file"  PROVE ~ FreesNone({"dup"})
    OBVIOUS
  <2>1. live = Holding({"dup"})
    BY <1>1 DEF Held, AtLoad
  <2> QED
    BY <2>1, HeldIsFreed DEF Blocks
<1>3. ~ FreesNone({})
  BY DEF FreesNone
<1>4. ASSUME pc = "parse", call \in {"lookup", "file", "tree"}
      PROVE  /\ ~ FreesNone(FreedParsed)
             /\ Freed(FreedParsed, live) =
                  Holding((AtLoad \cup {"buf", "list"}) \ FreedParsed)
  <2>1. live = Holding(AtLoad \cup {"buf", "list"})
    BY <1>1, <1>4 DEF Held
  <2>2. FreedParsed \in SUBSET Blocks /\ FreedParsed \subseteq AtLoad \cup {"buf", "list"}
    BY DEF FreedParsed, Blocks
  <2> QED
    BY <2>1, <2>2, HeldIsFreed
<1>5. ASSUME pc = "parse", call = "lookup"
      PROVE  Freed({"list", "buf", "root", "copy"}, live) = Nothing
  <2> DEFINE H == {"list", "buf", "root", "copy"}
  <2>1. live = Holding(H)
    <3>1. Held = H
      BY <1>5 DEF Held, AtLoad
    <3> QED
      BY <1>1, <1>5, <3>1
  <2>2. H \in SUBSET Blocks /\ H \ H = {}
    BY DEF Blocks
  <2> QED
    BY <2>1, <2>2, HeldIsFreed, NothingHeld
<1>6. ASSUME pc = "parse", call = "tree"
      PROVE  Freed({"list", "buf"}, live) = Nothing
  <2> DEFINE H == {"list", "buf"}
  <2>1. live = Holding(H)
    <3>1. Held = H
      BY <1>6 DEF Held, AtLoad
    <3> QED
      BY <1>1, <1>6, <3>1
  <2>2. H \in SUBSET Blocks /\ H \ H = {}
    BY DEF Blocks
  <2> QED
    BY <2>1, <2>2, HeldIsFreed, NothingHeld
<1>7. ASSUME pc = "scan", call = "lookup"
      PROVE  /\ ~ FreesNone(FreedFound) /\ Freed(FreedFound, live) = Nothing
             /\ ~ FreesNone({"list"}) /\ Freed({"list"}, live) = Holding(AtLoad)
  <2>1. Held = {"root", "list", "copy"} /\ FreedFound = {"root", "list", "copy"}
    BY <1>7 DEF Held, AtLoad, FreedParsed, FreedFound
  <2>2. /\ FreedFound \in SUBSET Blocks /\ Held \ FreedFound = {}
        /\ {"list"} \in SUBSET Blocks /\ {"list"} \subseteq Held
        /\ Held \ {"list"} = AtLoad
    BY <1>7, <2>1 DEF Blocks, AtLoad
  <2>3. live = Holding(Held)
    BY <1>1, <1>7
  <2> QED
    BY <2>1, <2>2, <2>3, HeldIsFreed, NothingHeld
<1>8. ASSUME pc = "scan", call = "file"  PROVE ~ FreesNone(FreedFound)
  <2>1. FreedFound = {"list"} /\ "list" \in Held
    BY <1>8 DEF Held, AtLoad, FreedParsed, FreedFound
  <2>2. live = Holding(Held) /\ {"list"} \in SUBSET Blocks
    BY <1>1, <1>8 DEF Blocks
  <2> QED
    BY <2>1, <2>2, HeldIsFreed
<1>9. ASSUME pc = "scan", call = "tree"
      PROVE  /\ ~ FreesNone({"list", "buf"}) /\ Freed({"list", "buf"}, live) = Nothing
  <2> DEFINE H == {"list", "buf"}
  <2>1. live = Holding(H)
    <3>1. Held = H
      BY <1>9 DEF Held, AtLoad, FreedParsed
    <3> QED
      BY <1>1, <1>9, <3>1
  <2>2. H \in SUBSET Blocks /\ H \ H = {}
    BY DEF Blocks
  <2> QED
    BY <2>1, <2>2, HeldIsFreed, NothingHeld
<1> QED
  BY <1>2, <1>3, <1>4, <1>5, <1>6, <1>7, <1>8, <1>9

LEMMA OwnedStep ==
  ASSUME Base, Owned, [Next]_vars
  PROVE  Owned'
<1>1. UNCHANGED <<call, image, path>>
  BY CallFixed
<1>2. AtLoad' = AtLoad /\ FreedParsed' = FreedParsed
  BY <1>1 DEF AtLoad, FreedParsed
<1> SUFFICES ASSUME pc' \in {"load", "parse", "scan"}
             PROVE  live' = Holding(Held')
  BY DEF Owned, Holding, Nothing, Allocated
<1>3. pc \in {"load", "parse", "scan"} => live = Holding(Held)
  BY DEF Owned, Holding
<1>4. CASE Load
  <2>1. /\ live = Holding(AtLoad) /\ live' = Allocated({"buf", "list"}, live)
        /\ pc' = "parse"
    BY <1>3, <1>4 DEF Load, Held
  <2>2. AtLoad \cap {"buf", "list"} = {}
    BY DEF AtLoad
  <2>3. live' = Holding(AtLoad \cup {"buf", "list"})
    BY <2>1, <2>2, MoreHeld
  <2> QED
    BY <1>2, <2>1, <2>3 DEF Held
<1>5. CASE SkipZero \/ ReadRecord \/ ReadEntry \/ CrashInName
  <2>1. UNCHANGED live /\ pc \in {"load", "parse", "scan"} /\ pc' = pc
    BY <1>5 DEF SkipZero, ReadRecord, ReadEntry, CrashInName
  <2> QED
    BY <1>2, <1>3, <2>1 DEF Held
<1>6. CASE ParseEnds
  <2>1. /\ pc = "parse" /\ pc' = "scan" /\ call \in {"lookup", "file", "tree"}
        /\ live' = Freed(FreedParsed, live)
    <3>1. nodes # <<>>
      BY <1>6 DEF ParseEnds
    <3>2. call # "directory" /\ call # "table"
      BY <1>6, <3>1 DEF ParseEnds
    <3>3. call \in {"lookup", "file", "tree"}
      BY <3>2 DEF Base, TypeOK, Calls
    <3> QED
      BY <1>6, <3>1, <3>2, <3>3 DEF ParseEnds, Frees
  <2> QED
    BY <1>2, <2>1, FreesHeld DEF Held
<1>7. CASE ScanMiss
  <2>1. pc = "scan" /\ pc' = pc /\ live' = Freed({}, live)
    BY <1>7 DEF ScanMiss, Searching, SearchFrees
  <2>2. Freed({}, live) = Holding(Held)
    <3>1. live = Holding(Held) /\ Held \ {} = Held
      BY <1>3, <2>1
    <3> QED
      BY <3>1, HeldIsFreed
  <2> QED
    BY <1>2, <2>1, <2>2 DEF Held
<1>8. CASE NextToken
  <2>1. pc = "scan" /\ call = "lookup" /\ pc' = "load" /\ live' = Freed({"list"}, live)
    BY <1>8 DEF NextToken, Searching, SearchFrees
  <2> QED
    BY <1>2, <2>1, FreesHeld DEF Held
<1>9. CASE PrintName
  <2>1. /\ pc = "scan" /\ pc' = "scan" /\ FreedListing = {}
        /\ live' = Freed(FreedListing, live)
    BY <1>9 DEF PrintName, FreedListing
  <2>2. live = Holding(Held) /\ Held \ {} = Held
    BY <1>3, <2>1
  <2>3. Freed({}, live) = Holding(Held)
    BY <2>2, HeldIsFreed
  <2> QED
    BY <1>2, <2>1, <2>3 DEF Held
<1>10. ~ LoadFails /\ ~ LookupLoadFails
  BY DEF LoadFails, LookupLoadFails, BehindLoop
<1>11. ~ Overshoot /\ ~ OvershootTable /\ ~ OvershootFile
  BY DEF Overshoot, OvershootTable, OvershootFile, Final
<1>12. ~ ScanHit /\ ~ NotFound
  BY DEF ScanHit, NotFound
<1>13. CASE UNCHANGED vars
  BY <1>2, <1>3, <1>13 DEF vars, Held
<1> QED
  BY <1>4, <1>5, <1>6, <1>7, <1>8, <1>9, <1>10, <1>11, <1>12, <1>13 DEF Next, Step

LEMMA OwnedInvariant == Spec => []Owned
<1>1. Init => Owned
  BY StartsWith DEF Init, Owned, Held, Holding
<1>2. Base /\ Owned /\ [Next]_vars => Owned'
  BY OwnedStep
<1> QED
  BY <1>1, <1>2, BaseInvariant, PTL DEF Spec

(* A lookup and a listing free every block they allocated, but for the     *)
(* descriptor a lookup returns, however often the directory is read and    *)
(* whatever is in the extent, unless memory has been misused: a lookup of which a read failed, a record too short, a    *)
(* name too short or too long, an extent without a record.                 *)
THEOREM AlwaysOwnedOnce == Spec => []OwnedOnce
<1>1. Init => OwnedOnce
  BY DEF Init, OwnedOnce
<1>2. Base /\ Owned /\ OwnedOnce /\ [Next]_vars => OwnedOnce'
  <2> SUFFICES ASSUME Base, Owned, OwnedOnce, [Next]_vars,
                      call' \in {"lookup", "tree"}, ~ misuse', pc' \in {"done", "failed"}
               PROVE  live' = IF pc' = "done" /\ call' = "lookup"
                              THEN Holding({"found"}) ELSE Nothing
    BY DEF OwnedOnce, Holding, Allocated, Nothing
  <2>1. CASE UNCHANGED vars
    BY <2>1 DEF vars, OwnedOnce, Holding, Allocated, Nothing
  <2>2. CASE LoadFails
    <3>1. /\ pc = "load" /\ call = "tree" /\ call' = call /\ pc' = "failed"
          /\ live' = Freed({}, live)
      BY <2>2 DEF LoadFails, Frees
    <3>2. live = Holding({})
      BY <3>1 DEF Owned, Held, AtLoad, Holding
    <3>3. Freed({}, live) = Holding({} \ {}) /\ {} \ {} = {}
      BY <3>2, HeldIsFreed
    <3> QED
      BY <3>1, <3>3, NothingHeld
  <2>3. CASE Overshoot
    BY <2>3, FreesHeld DEF Overshoot, Frees
  <2>4. CASE ParseEnds
    <3>1. nodes # <<>> /\ call \in {"lookup", "tree"}
      BY <2>4 DEF ParseEnds
    <3> QED
      BY <2>4, <3>1 DEF ParseEnds
  <2>5. CASE ScanHit
    <3>1. /\ pc = "scan" /\ call = "lookup" /\ call' = call /\ pc' = "done"
          /\ live' = Allocated({"found"}, Freed(FreedFound, live))
      BY <2>5 DEF ScanHit, Searching
    <3>2. live' = Allocated({"found"}, Holding({}))
      BY <3>1, FreesHeld, NothingHeld
    <3>3. live' = Holding({} \cup {"found"}) /\ {} \cup {"found"} = {"found"}
      BY <3>2, MoreHeld
    <3> QED
      BY <3>1, <3>3
  <2>6. CASE NotFound
    BY <2>6, FreesHeld DEF NotFound, Searching, SearchFrees
  <2>7. CASE PrintName
    <3>1. /\ pc = "scan" /\ call = "tree" /\ call' = call /\ pc' = "done"
          /\ live' = Freed({"list", "buf"}, live)
      BY <2>7 DEF PrintName, FreedListing
    <3> QED
      BY <3>1, FreesHeld
  <2>8. CASE Load \/ SkipZero \/ ScanMiss \/ NextToken
    BY <2>8 DEF Load, SkipZero, ScanMiss, NextToken, Searching
  <2>9. CASE ReadRecord \/ ReadEntry \/ CrashInName
    BY <2>9 DEF ReadRecord, ReadEntry, CrashInName
  <2>10. ~ LookupLoadFails /\ ~ OvershootTable /\ ~ OvershootFile
    BY DEF LookupLoadFails, OvershootTable, OvershootFile
  <2> QED
    BY <2>1, <2>2, <2>3, <2>4, <2>5, <2>6, <2>7, <2>8, <2>9, <2>10 DEF Next, Step
<1> QED
  BY <1>1, <1>2, BaseInvariant, OwnedInvariant, PTL DEF Spec

----------------------------------------------------------------------------
(***************************************************************************)
(* Extents made as the standard says.                                      *)
(***************************************************************************)

LEMMA StartsType ==
  ASSUME TypeOK
  PROVE  /\ Len(image.starts) \in Nat
         /\ DOMAIN image.starts = 1 .. Len(image.starts)
         /\ \A i \in DOMAIN image.starts :
               /\ image.starts[i] \in 0 .. image.size - 1
               /\ image.starts[i] \in Nat
               /\ Rec(image.starts[i]).len \in Nat
<1>1. image.starts \in Seq(0 .. image.size - 1) /\ image.size \in Nat
  BY ImageType
<1>2. /\ Len(image.starts) \in Nat
      /\ DOMAIN image.starts = 1 .. Len(image.starts)
  BY <1>1
<1>3. \A i \in DOMAIN image.starts : image.starts[i] \in 0 .. image.size - 1
  BY <1>1, <1>2
<1>4. \A i \in DOMAIN image.starts : Rec(image.starts[i]).len \in Nat
  BY <1>3, ImageType
<1> QED
  BY <1>1, <1>2, <1>3, <1>4

LEMMA BehindType ==
  ASSUME TypeOK, NEW i \in 0 .. Len(image.starts)
  PROVE  Behind(image, i) \in Nat
<1>1. CASE i = 0
  BY <1>1 DEF Behind
<1>2. CASE i # 0
  <2> DEFINE o == image.starts[i]
  <2>1. i \in DOMAIN image.starts
    BY <1>2, StartsType
  <2>2. o \in Nat /\ Rec(o).len \in Nat /\ TableHeader \in Nat
    BY <2>1, StartsType, ReaderAssumption
  <2>3. o + TableHeader + Rec(o).len \in Nat /\ o + Rec(o).len \in Nat
    BY <2>2
  <2>4. Rounded(o + TableHeader + Rec(o).len) \in Nat
    BY <2>3, RoundedUp
  <2> QED
    BY <1>2, <2>3, <2>4 DEF Behind, Rec, Rounded
<1> QED
  BY <1>1, <1>2

(* Between the records of a directory there are zeros.                     *)
LEMMA GapIsZero ==
  ASSUME TypeOK, image.for = "directory", NEW k \in 0 .. Len(image.starts),
         NEW o \in Nat, NEW e \in Nat, Before(image, k) = e,
         Behind(image, k) <= o, o < e
  PROVE  Rec(o).len = 0
<1>1. image \in Images
  BY DEF TypeOK
<1>2. Behind(image, k) \in Nat
  BY BehindType
<1>3. o \in Behind(image, k) .. e - 1
  BY <1>2
<1>4. \A p \in Behind(image, k) .. Before(image, k) - 1 : image.at[p].len = 0
  BY <1>1, ExtentAssumption
<1> QED
  BY <1>3, <1>4 DEF Rec

(* Where the loop can be, and what is there.                               *)
LEMMA OnTrackNow ==
  ASSUME Base, OnTrack, ProperExtent
  PROVE  /\ counter <= image.size
         /\ counter = image.size =>
              nodes = image.starts /\ nodes # <<>>
         /\ counter < image.size =>
              \/ /\ Len(nodes) + 1 \in DOMAIN image.starts
                 /\ counter = image.starts[Len(nodes) + 1]
                 /\ Before(image, Len(nodes)) = counter
              \/ /\ call # "table" /\ counter < Before(image, Len(nodes))
                 /\ Rec(counter).len = 0
<1> DEFINE k == Len(nodes)
           n == Len(image.starts)
<1>1. /\ k \in Nat /\ n \in Nat /\ counter \in Nat /\ image.size \in Nat
      /\ DOMAIN nodes = 1 .. k /\ DOMAIN image.starts = 1 .. n
      /\ \A i \in 1 .. n : image.starts[i] \in 0 .. image.size - 1
      /\ image.starts \in Seq(0 .. image.size - 1)
      /\ nodes \in Seq(0 .. image.size - 1)
  BY NodesType, ImageType DEF Base, TypeOK
<1>2. /\ k <= n /\ \A i \in DOMAIN nodes : nodes[i] = image.starts[i]
      /\ Behind(image, k) <= counter /\ counter <= Before(image, k)
  BY DEF OnTrack
<1>3. k \in 0 .. n
  BY <1>1, <1>2
<1>4. image \in Images /\ image.starts # <<>>
  BY ExtentAssumption DEF Base, TypeOK, ProperExtent
<1>5. CASE k < n
  <2>1. k + 1 \in 1 .. n
    BY <1>1, <1>5
  <2>2. Before(image, k) = image.starts[k + 1]
    BY <1>5 DEF Before
  <2>3. Before(image, k) \in Nat /\ Before(image, k) < image.size
    BY <1>1, <2>1, <2>2
  <2>4. counter < image.size
    BY <1>1, <1>2, <2>3
  <2>5. CASE counter = Before(image, k)
    BY <1>1, <2>1, <2>2, <2>4, <2>5
  <2>6. CASE counter # Before(image, k)
    <3>1. call # "table" /\ image.for = "directory"
      <4>1. Behind(image, k) # Before(image, k)
        BY <1>1, <1>2, <2>3, <2>6
      <4> QED
        BY <1>3, <1>4, <4>1, ExtentAssumption DEF ProperExtent
    <3>2. counter < Before(image, k)
      BY <1>1, <1>2, <2>3, <2>6
    <3>3. Rec(counter).len = 0
      BY <1>1, <1>2, <1>3, <2>3, <3>1, <3>2, GapIsZero DEF Base
    <3> QED
      BY <1>1, <2>4, <3>1, <3>2, <3>3
  <2> QED
    BY <2>5, <2>6
<1>6. CASE k = n
  <2>1. Before(image, k) = image.size
    BY <1>1, <1>6 DEF Before
  <2>2. nodes = image.starts
    BY <1>1, <1>2, <1>6, SeqEqual
  <2>3. counter <= image.size
    BY <1>2, <2>1
  <2>4. ASSUME counter < image.size
        PROVE  /\ call # "table" /\ counter < Before(image, k)
               /\ Rec(counter).len = 0
    <3>1. call # "table" /\ image.for = "directory"
      <4>1. Behind(image, k) # Before(image, k)
        BY <1>1, <1>2, <2>1, <2>4
      <4> QED
        BY <1>3, <1>4, <4>1, ExtentAssumption DEF ProperExtent
    <3> QED
      BY <1>1, <1>2, <1>3, <2>1, <2>4, <3>1, GapIsZero DEF Base
  <2> QED
    BY <1>4, <2>2, <2>3, <2>4
<1> QED
  BY <1>1, <1>2, <1>5, <1>6

(* The record read next on a proper extent is the next one, and the loop   *)
(* goes on right behind it.                                                *)
LEMMA TrackGrows ==
  ASSUME Base, OnTrack, ProperExtent, counter < image.size,
         UNCHANGED <<call, image>>, nodes' = Append(nodes, counter),
         Len(nodes) + 1 \in DOMAIN image.starts,
         counter = image.starts[Len(nodes) + 1],
         counter' = Behind(image, Len(nodes) + 1)
  PROVE  OnTrack'
<1> DEFINE k == Len(nodes)
           n == Len(image.starts)
<1>1. /\ k \in Nat /\ n \in Nat /\ DOMAIN image.starts = 1 .. n
      /\ DOMAIN nodes = 1 .. k /\ image \in Images
  BY NodesType, ImageType DEF Base, TypeOK
<1>2. /\ Len(nodes') = k + 1 /\ DOMAIN nodes' = 1 .. k + 1
      /\ \A i \in DOMAIN nodes : nodes'[i] = nodes[i]
      /\ nodes'[k + 1] = counter
  BY NodesAppend DEF Base
<1>3. k + 1 <= n /\ k + 1 \in 0 .. n
  BY <1>1
<1>4. ASSUME NEW i \in 1 .. k + 1  PROVE nodes'[i] = image.starts[i]
  <2>1. CASE i = k + 1
    BY <1>2, <2>1
  <2>2. CASE i # k + 1
    <3>1. i \in DOMAIN nodes
      BY <1>1, <2>2
    <3> QED
      BY <1>2, <3>1 DEF OnTrack
  <2> QED
    BY <2>1, <2>2
<1>5. Behind(image, k + 1) <= Before(image, k + 1)
  <2>1. image.for \in {"directory", "table"}
    BY DEF ProperExtent
  <2>2. CASE image.for = "directory"
    BY <1>1, <1>3, <2>2, ExtentAssumption
  <2>3. CASE image.for = "table"
    <3>1. Behind(image, k + 1) = Before(image, k + 1)
      BY <1>1, <1>3, <2>3, ExtentAssumption
    <3>2. Behind(image, k + 1) \in Nat
      BY <1>3, BehindType DEF Base
    <3> QED
      BY <3>1, <3>2
  <2> QED
    BY <2>1, <2>2, <2>3
<1>6. Behind(image, k + 1) <= Behind(image, k + 1)
  <2>2. Behind(image, k + 1) \in Nat
    BY <1>3, BehindType DEF Base
  <2> QED
    BY <2>2
<1> QED
  BY <1>2, <1>3, <1>4, <1>5, <1>6 DEF OnTrack, ProperExtent


(* A record of a proper directory is long enough, and so is its name.      *)
LEMMA RecordIsProper ==
  ASSUME TypeOK, image.for = "directory", NEW i \in DOMAIN image.starts
  PROVE  /\ image.starts[i] % 2 = 0
         /\ Rec(image.starts[i]).len % 2 = 0
         /\ ~ RecordTooShort(Rec(image.starts[i]))
         /\ Rec(image.starts[i]).len # 0
         /\ ~ NameTooShort(Rec(image.starts[i]))
         /\ ~ NameTooLong(Rec(image.starts[i]))
<1> DEFINE o == image.starts[i]
           r == Rec(o)
<1>1. ProperRecord(image, o)
  BY ExtentAssumption DEF TypeOK
<1>2. r \in Records /\ r.len \in Nat /\ Len(r.id) \in Nat
  BY StartsType, ImageType
<1>3. /\ o % 2 = 0 /\ r.len % 2 = 0 /\ ~ RecordTooShort(r)
      /\ \A j \in DOMAIN r.ext :
           r.ext[j].sig = "NM" /\ r.ext[j].len # 0 =>
             NameHeader <= r.ext[j].len /\ r.ext[j].len <= r.ext[j].room
  BY <1>1, <1>2, ReaderAssumption DEF ProperRecord, Rec, RecordTooShort
<1>4. r.len # 0
  <2>1. \A l, m \in Nat : \A d \in Nat \ {0} : ~ (l < d + m) => l # 0
    BY SMT
  <2> QED
    BY <1>2, <1>3, <2>1, ReaderAssumption DEF RecordTooShort
<1>5. ~ NameTooShort(r) /\ ~ NameTooLong(r)
  <2> SUFFICES ASSUME HasName(r)
               PROVE  /\ ~ (NameEntry(r).len < NameHeader)
                      /\ ~ (NameEntry(r).len > NameEntry(r).room)
    BY DEF NameTooShort, NameTooLong
  <2> DEFINE k == FindSignature(r, "NM")
  <2>1. k \in DOMAIN r.ext /\ r.ext[k].sig = "NM" /\ r.ext[k].len # 0
    BY <1>2, SignatureFound DEF HasName
  <2>2. NameHeader <= r.ext[k].len /\ r.ext[k].len <= r.ext[k].room
    BY <1>3, <2>1
  <2>3. r.ext[k] \in SystemUse
    BY <1>2, <2>1 DEF Records
  <2>4. r.ext[k].len \in Nat /\ r.ext[k].room \in Nat
    BY <2>3 DEF SystemUse
  <2> QED
    BY <2>2, <2>4 DEF NameEntry, NameHeader
<1> QED
  BY <1>3, <1>4, <1>5

LEMMA TrackInit == Init => OnTrack /\ MemorySafe
<1> SUFFICES ASSUME Init, ProperExtent  PROVE OnTrack
  BY DEF Init, MemorySafe, OnTrack
<1>1. TypeOK /\ image \in Images
  BY BaseInit DEF Base, TypeOK
<1>2. /\ nodes = <<>> /\ Len(nodes) = 0 /\ DOMAIN nodes = {} /\ counter = 0
  BY DEF Init
<1>3. Behind(image, 0) = 0 /\ 0 \in 0 .. Len(image.starts) /\ 0 <= Len(image.starts)
  BY <1>1, StartsType DEF Behind
<1>4. 0 <= Before(image, 0)
  <2>1. Before(image, 0) \in Nat
    BY <1>1, StartsType, ImageType DEF Before
  <2> QED
    BY <2>1
<1> QED
  BY <1>2, <1>3, <1>4 DEF OnTrack

LEMMA TrackStep ==
  ASSUME Base, Owned, OnTrack, MemorySafe, [Next]_vars
  PROVE  OnTrack' /\ MemorySafe'
<1>1. ASSUME UNCHANGED <<call, image, nodes, counter>>  PROVE OnTrack'
  BY <1>1 DEF OnTrack, ProperExtent
<1>2. ASSUME UNCHANGED <<call, image, misuse, unread>>  PROVE MemorySafe'
  BY <1>2 DEF MemorySafe, ProperExtent
<1>3. TypeOK /\ counter \in Nat /\ image.size \in Nat
  BY ImageType DEF Base, TypeOK
<1>4. CASE Load
  <2>1. nodes' = <<>> /\ counter' = 0 /\ UNCHANGED <<call, image, misuse, unread>>
    BY <1>4 DEF Load
  <2>2. /\ Len(nodes') = 0 /\ DOMAIN nodes' = {}
        /\ Behind(image, 0) = 0 /\ 0 <= Len(image.starts)
    BY <1>3, <2>1, StartsType DEF Behind
  <2>3. 0 <= Before(image, 0)
    <3>1. Before(image, 0) \in Nat
      BY <1>3, StartsType, ImageType DEF Before
    <3> QED
      BY <3>1
  <2>4. OnTrack'
    BY <2>1, <2>2, <2>3 DEF OnTrack
  <2> QED
    BY <1>2, <2>1, <2>4
<1>5. CASE LoadFails \/ LookupLoadFails
  <2>1. UNCHANGED <<call, image, nodes, counter>> /\ unread'
    BY <1>5 DEF LoadFails, LookupLoadFails
  <2> QED
    BY <1>1, <2>1 DEF MemorySafe
<1>6. CASE SkipZero
  <2>1. /\ counter < image.size /\ counter' = counter + 1 /\ Rec(counter).len = 0
        /\ call # "table"
        /\ UNCHANGED <<call, image, nodes, misuse, unread>>
    BY <1>6 DEF SkipZero, PastZero, Rec
  <2>2. ASSUME ProperExtent
        PROVE  counter < Before(image, Len(nodes))
    <3>1. image.for = "directory"
      BY <2>1, <2>2 DEF ProperExtent
    <3> QED
      BY <1>3, <2>1, <2>2, <3>1, OnTrackNow, RecordIsProper
  <2>3. ASSUME ProperExtent
        PROVE  /\ Behind(image, Len(nodes)) <= counter + 1
               /\ counter + 1 <= Before(image, Len(nodes))
    <3>1. Len(nodes) \in 0 .. Len(image.starts)
      BY <1>3, <2>3, NodesType, StartsType DEF OnTrack
    <3>2. Behind(image, Len(nodes)) \in Nat
      BY <1>3, <3>1, BehindType
    <3>3. Before(image, Len(nodes)) \in Nat
      BY <1>3, <3>1, StartsType DEF Before
    <3>4. Behind(image, Len(nodes)) <= counter
      BY <2>3 DEF OnTrack
    <3> QED
      BY <1>3, <2>2, <2>3, <3>2, <3>3, <3>4
  <2>4. OnTrack'
    BY <2>1, <2>3 DEF OnTrack, ProperExtent
  <2> QED
    BY <1>2, <2>1, <2>4
<1>7. CASE ReadRecord
  <2>1. /\ counter < image.size /\ Rec(counter).len # 0 /\ call # "table"
        /\ UNCHANGED <<call, image, unread>>
    BY <1>7 DEF ReadRecord, Rec
  <2>2. CASE ~ ProperExtent
    BY <2>1, <2>2 DEF OnTrack, MemorySafe, ProperExtent
  <2>3. CASE ProperExtent
    <3>1. image.for = "directory"
      BY <2>1, <2>3 DEF ProperExtent
    <3>2. /\ Len(nodes) + 1 \in DOMAIN image.starts
          /\ counter = image.starts[Len(nodes) + 1]
      BY <2>1, <2>3, OnTrackNow
    <3>3. /\ counter % 2 = 0 /\ Rec(counter).len % 2 = 0
          /\ ~ RecordTooShort(Rec(counter))
      BY <1>3, <3>1, <3>2, RecordIsProper
    <3>4. /\ Grows(counter + Rec(counter).len)
          /\ counter' = Rounded(counter + Rec(counter).len)
          /\ UNCHANGED misuse
      BY <1>3, <1>7, <3>3, ReadRecordGrows
    <3>5. Rounded(counter + Rec(counter).len) = counter + Rec(counter).len
      <4>1. \A a, b \in Nat : a % 2 = 0 /\ b % 2 = 0 => (a + b) % 2 = 0 /\ a + b \in Nat
        BY SMT
      <4>2. Rec(counter).len \in Nat
        BY <1>3, <3>2, StartsType
      <4> QED
        BY <1>3, <3>3, <4>1, <4>2, RoundedUp
    <3>6. counter' = Behind(image, Len(nodes) + 1)
      <4>1. Len(nodes) + 1 # 0
        BY <1>3, NodesType
      <4> QED
        BY <3>1, <3>2, <3>4, <3>5, <4>1 DEF Behind, Rec
    <3>7. OnTrack'
      BY <2>1, <2>3, <3>2, <3>4, <3>6, TrackGrows DEF Grows
    <3> QED
      BY <1>2, <2>1, <3>4, <3>7
  <2> QED
    BY <2>2, <2>3
<1>8. CASE ReadEntry
  <2>1. /\ counter < image.size /\ call = "table"
        /\ UNCHANGED <<call, image, unread>>
    BY <1>8 DEF ReadEntry
  <2>2. MemorySafe'
    BY <2>1 DEF MemorySafe
  <2>3. CASE ~ ProperExtent
    BY <2>1, <2>2, <2>3 DEF OnTrack, ProperExtent
  <2>4. CASE ProperExtent /\ ~ (Rec(counter).len > CharMax)
    <3>1. image.for = "table"
      BY <2>1, <2>4 DEF ProperExtent
    <3>2. /\ Len(nodes) + 1 \in DOMAIN image.starts
          /\ counter = image.starts[Len(nodes) + 1]
      BY <2>1, <2>4, OnTrackNow
    <3>3. /\ Grows(counter + (TableHeader + Rec(counter).len))
          /\ counter' = Rounded(counter + TableHeader + Rec(counter).len)
      BY <1>3, <1>8, <2>4, ReadEntryGrows
    <3>4. counter' = Behind(image, Len(nodes) + 1)
      <4>1. Len(nodes) + 1 # 0
        BY <1>3, NodesType
      <4> QED
        BY <3>1, <3>2, <3>3, <4>1 DEF Behind, Rec, Rounded
    <3>5. OnTrack'
      BY <2>1, <2>4, <3>2, <3>3, <3>4, TrackGrows DEF Grows
    <3> QED
      BY <2>2, <3>5
  <2>5. CASE Rec(counter).len > CharMax
    <3>1. UNCHANGED <<nodes, counter>>
      BY <1>8, <2>5 DEF ReadEntry, Rec
    <3> QED
      BY <1>1, <2>1, <2>2, <3>1
  <2> QED
    BY <2>2, <2>3, <2>4, <2>5
\* On a proper extent the loop does not go past the end.
<1>9. CASE Overshoot \/ OvershootTable \/ OvershootFile
  <2>1. counter > image.size /\ UNCHANGED <<call, image, nodes, counter>>
    BY <1>9 DEF Overshoot, OvershootTable, OvershootFile, Overshot
  <2>2. ~ ProperExtent
    <3>1. ~ (counter <= image.size)
      BY <1>3, <2>1
    <3> QED
      BY <3>1, OnTrackNow
  <2> QED
    BY <1>1, <2>1, <2>2 DEF MemorySafe, ProperExtent
<1>10. CASE ParseEnds
  <2>1. /\ counter = image.size
        /\ UNCHANGED <<call, image, nodes, counter, unread>>
    BY <1>10 DEF ParseEnds, Ends
  <2>2. ProperExtent => nodes # <<>>
    BY <2>1, OnTrackNow
  <2>3. ASSUME ProperExtent, call # "table"  PROVE misuse' = misuse
    <3>1. CASE call = "directory"
      BY <1>10, <2>2, <2>3, <3>1 DEF ParseEnds
    <3>2. CASE call \in {"lookup", "file", "tree"}
      <4>1. pc = "parse" /\ ~ FreesNone(FreedParsed)
        BY <1>10, <3>2, FreesHeld DEF ParseEnds
      <4>2. misuse' = (misuse \/ FreesNone(FreedParsed))
        BY <1>10, <2>2, <2>3, <3>2 DEF ParseEnds, Frees
      <4> QED
        BY <4>1, <4>2 DEF Base, TypeOK
    <3> QED
      BY <2>3, <3>1, <3>2 DEF Base, TypeOK, Calls
  <2> QED
    BY <1>1, <2>1, <2>3 DEF MemorySafe, ProperExtent
\* On a proper extent the names are neither too short nor too long.
<1>11. ASSUME ProperExtent, pc = "scan"
       PROVE  ~ NameTooShort(Here) /\ ~ NameTooLong(Here)
  <2>1. scan \in DOMAIN nodes /\ call # "table"
    BY <1>11 DEF Base, Stages
  <2>2. image.for = "directory"
    BY <1>11, <2>1 DEF ProperExtent
  <2>3. scan \in DOMAIN image.starts /\ nodes[scan] = image.starts[scan]
    BY <1>3, <1>11, <2>1, NodesType, StartsType DEF OnTrack
  <2> QED
    BY <1>3, <2>2, <2>3, RecordIsProper DEF Here, Rec
<1>12. CASE CrashInName
  <2>1. /\ pc = "scan" /\ (NameTooShort(Here) \/ NameTooLong(Here))
        /\ UNCHANGED <<call, image, nodes, counter, unread>>
    BY <1>12 DEF CrashInName, Here
  <2> QED
    BY <1>1, <1>11, <2>1 DEF MemorySafe, ProperExtent
<1>13. CASE ScanHit \/ ScanMiss \/ NextToken \/ NotFound
  <2>1. /\ pc = "scan" /\ call # "tree"
        /\ UNCHANGED <<call, image, nodes, counter, unread>>
    BY <1>13 DEF ScanHit, ScanMiss, NextToken, NotFound, Searching
  <2>2. call \in {"lookup", "file"}
    BY <2>1 DEF Base, Stages
  <2>3. misuse' => misuse \/ NameTooLong(Here)
    BY <1>13, <2>1, <2>2, FreesHeld
       DEF ScanHit, ScanMiss, NextToken, NotFound, SearchFrees
  <2> QED
    BY <1>1, <1>11, <2>1, <2>3 DEF MemorySafe, ProperExtent
<1>14. CASE PrintName
  <2>1. /\ pc = "scan" /\ call = "tree"
        /\ UNCHANGED <<call, image, nodes, counter, unread>>
    BY <1>14 DEF PrintName
  <2>2. ~ FreesNone(FreedListing)
    BY <2>1, FreesHeld DEF FreedListing
  <2>3. UseRR /\ misuse' => misuse \/ NameTooLong(Here)
    BY <1>14, <2>2 DEF PrintName
  <2> QED
    BY <1>1, <1>11, <2>1, <2>3 DEF MemorySafe, ProperExtent
<1>15. CASE UNCHANGED vars
  BY <1>1, <1>2, <1>15 DEF vars
<1> QED
  BY <1>4, <1>5, <1>6, <1>7, <1>8, <1>9, <1>10, <1>12, <1>13, <1>14,
     <1>15 DEF Next, Step

LEMMA TrackInvariant == Spec => [](OnTrack /\ MemorySafe)
<1>1. Base /\ Owned /\ OnTrack /\ MemorySafe /\ [Next]_vars
        => (OnTrack /\ MemorySafe)'
  BY TrackStep
<1> QED
  BY <1>1, TrackInit, BaseInvariant, OwnedInvariant, PTL DEF Spec

(* On extents made as the standard says, of any number of records and any  *)
(* padding between them, in which no name is too short or too long for its *)
(* field, and of which no read fails, reading directories misuses no       *)
(* memory; a listing without Rock Ridge is excepted.                       *)
THEOREM MemoryAlwaysSafe == Spec => []MemorySafe
<1>1. OnTrack /\ MemorySafe => MemorySafe
  OBVIOUS
<1> QED
  BY <1>1, TrackInvariant, PTL

(* On such an extent the list that is accepted is that of all records.     *)
THEOREM EveryRecordAlwaysListed == Spec => []EveryRecordListed
<1>1. Base /\ OnTrack => EveryRecordListed
  <2> SUFFICES ASSUME Base, OnTrack, Listed, ProperExtent
               PROVE  nodes = image.starts
    BY DEF EveryRecordListed
  <2>1. counter = image.size
    BY DEF Base, Stages, Listed
  <2> QED
    BY <2>1, OnTrackNow
<1>2. OnTrack /\ MemorySafe => OnTrack
  OBVIOUS
<1> QED
  BY <1>1, <1>2, BaseInvariant, TrackInvariant, PTL

----------------------------------------------------------------------------
(***************************************************************************)
(* The way of the loop through a directory, and the search in the list.    *)
(***************************************************************************)
LEMMA WayLeads ==
  ASSUME TypeOK, NEW o \in Nat
  PROVE  /\ o \in Way(o)
         /\ \A p \in Way(o) : p < image.size => After(p) \in Way(o)
<1>1. ASSUME NEW p \in Nat, p < image.size  PROVE After(p) \in Nat
  <2>1. p \in 0 .. image.size - 1
    BY <1>1, ImageType
  <2>2. Rec(p).len \in Nat
    BY <2>1, ImageType
  <2> QED
    BY <2>2, RoundedUp DEF After, PastZero
<1>2. ASSUME NEW p \in Way(o), p < image.size  PROVE After(p) \in Way(o)
  <2>1. p \in Nat /\ After(p) \in Nat
    BY <1>1, <1>2 DEF Way
  <2>2. ASSUME NEW S \in SUBSET Nat, o \in S, ClosedWay(S)
        PROVE  After(p) \in S
    BY <1>2, <2>2 DEF Way, ClosedWay
  <2> QED
    BY <2>1, <2>2 DEF Way
<1> QED
  BY <1>2 DEF Way

LEMMA WayGoesOn ==
  ASSUME TypeOK, NEW o \in Nat, o < image.size
  PROVE  Way(o) \subseteq {o} \cup Way(After(o))
<1> DEFINE S == {o} \cup Way(After(o))
<1>1. After(o) \in Nat
  BY WayLeads DEF Way
<1>2. /\ After(o) \in Way(After(o))
      /\ \A p \in Way(After(o)) : p < image.size => After(p) \in Way(After(o))
  BY <1>1, WayLeads
<1>3. S \in SUBSET Nat
  BY DEF Way
<1>4. ClosedWay(S)
  BY <1>2 DEF ClosedWay
<1>5. o \in S
  OBVIOUS
<1> HIDE DEF S
<1>6. \A p \in Way(o) : p \in S
  BY <1>3, <1>4, <1>5 DEF Way
<1> QED
  BY <1>6 DEF S

LEMMA StartsGoOn ==
  ASSUME TypeOK, NEW o \in Nat, o < image.size
  PROVE  /\ Rec(o).len = 0 => Starts(o) \subseteq Starts(After(o))
         /\ Starts(o) \subseteq {o} \cup Starts(After(o))
BY WayGoesOn DEF Starts

LEMMA NoStartAtEnd == TypeOK => Starts(image.size) = {}
<1> SUFFICES ASSUME TypeOK  PROVE Starts(image.size) = {}
  OBVIOUS
<1>1. image.size \in Nat /\ {image.size} \in SUBSET Nat
  BY ImageType
<1>2. ClosedWay({image.size})
  BY <1>1 DEF ClosedWay
<1>3. \A p \in Way(image.size) : p = image.size
  BY <1>1, <1>2 DEF Way
<1> QED
  BY <1>1, <1>3 DEF Starts

LEMMA ImageFixed ==
  ASSUME image' = image
  PROVE  Starts(0)' = Starts(0) /\ (\A o : Starts(o)' = Starts(o))
<1>1. \A o : Rec(o)' = Rec(o)
  BY DEF Rec
<1>2. \A o : After(o)' = After(o)
  BY <1>1 DEF After
<1>3. \A S : ClosedWay(S)' = ClosedWay(S)
  BY <1>2 DEF ClosedWay
<1>4. \A o : Way(o)' = Way(o)
  BY <1>3 DEF Way
<1>5. \A o : Starts(o)' = Starts(o)
  BY <1>1, <1>4 DEF Starts
<1> QED
  BY <1>5


LEMMA CompleteStep ==
  ASSUME Base, Complete, [Next]_vars
  PROVE  Complete'
<1> SUFFICES ASSUME call # "table"
             PROVE  /\ ToSet(nodes') \subseteq Starts(0)
                    /\ pc' = "parse" =>
                         /\ counter' \in Way(0)
                         /\ Starts(0) \subseteq ToSet(nodes') \cup Starts(counter')
                    /\ pc' = "scan" => Starts(0) \subseteq ToSet(nodes')
  <2>1. UNCHANGED <<call, image>>
    BY CallFixed
  <2>2. \A o : Rec(o)' = Rec(o)
    BY <2>1 DEF Rec
  <2>3. \A o : After(o)' = After(o)
    BY <2>2 DEF After
  <2>4. \A S : ClosedWay(S)' = ClosedWay(S)
    BY <2>1, <2>3 DEF ClosedWay
  <2>5. Way(0)' = Way(0)
    BY <2>4 DEF Way
  <2>6. \A o : Starts(o)' = Starts(o)
    BY <2>1, ImageFixed
  <2>7. Starts(counter)' = Starts(counter')
    BY <2>1, <2>2, <2>4 DEF Starts, Way
  <2> QED
    BY <2>1, <2>5, <2>6, <2>7 DEF Complete
<1>1. /\ TypeOK /\ counter \in Nat /\ image.size \in Nat /\ 0 \in Nat
      /\ ToSet(nodes) \subseteq Starts(0)
      /\ pc = "parse" =>
           /\ counter \in Way(0)
           /\ Starts(0) \subseteq ToSet(nodes) \cup Starts(counter)
      /\ pc = "scan" => Starts(0) \subseteq ToSet(nodes)
  BY ImageType DEF Base, TypeOK, Complete
<1> DEFINE Aim == /\ ToSet(nodes') \subseteq Starts(0)
                  /\ pc' = "parse" =>
                       /\ counter' \in Way(0)
                       /\ Starts(0) \subseteq ToSet(nodes') \cup Starts(counter')
                  /\ pc' = "scan" => Starts(0) \subseteq ToSet(nodes')
<1>2. ASSUME nodes' = nodes, pc' # "parse", pc' = "scan" => pc = "scan"
      PROVE  Aim
  BY <1>1, <1>2
<1>3. CASE Load
  <2>1. nodes' = <<>> /\ counter' = 0 /\ pc' = "parse"
    BY <1>3 DEF Load
  <2>2. ToSet(nodes') = {}
    BY <2>1 DEF ToSet
  <2>3. 0 \in Way(0)
    BY <1>1, WayLeads
  <2> QED
    BY <2>1, <2>2, <2>3
<1>4. CASE SkipZero
  <2>1. /\ pc = "parse" /\ counter < image.size /\ Rec(counter).len = 0
        /\ counter' = After(counter) /\ nodes' = nodes /\ pc' = "parse"
    BY <1>4 DEF SkipZero, Rec, After
  <2>2. counter' \in Way(0) /\ Starts(counter) \subseteq Starts(counter')
    BY <1>1, <2>1, WayLeads, StartsGoOn
  <2> QED
    BY <1>1, <2>1, <2>2
<1>5. CASE ReadRecord
  <2>1. CASE RecordTooShort(Rec(counter))
    <3>1. nodes' = nodes /\ pc' = "crashed"
      BY <1>5, <2>1 DEF ReadRecord, Rec
    <3>2. Aim
      BY <1>2, <3>1
    <3> QED
      BY <3>2
  <2>2. CASE ~ RecordTooShort(Rec(counter))
    <3>1. /\ pc = "parse" /\ pc' = "parse" /\ counter < image.size
          /\ nodes' = Append(nodes, counter) /\ Rec(counter).len # 0
          /\ counter' = After(counter)
      BY <1>5, <2>2 DEF ReadRecord, Rec, After
    <3>2. ToSet(nodes') = ToSet(nodes) \cup {counter}
      BY <1>1, <3>1, NodesAppend
    <3>3. /\ counter' \in Way(0)
          /\ Starts(counter) \subseteq {counter} \cup Starts(counter')
      BY <1>1, <3>1, WayLeads, StartsGoOn
    <3>4. counter \in Starts(0)
      BY <1>1, <3>1 DEF Starts
    <3> QED
      BY <1>1, <3>1, <3>2, <3>3, <3>4
  <2> QED
    BY <2>1, <2>2
<1>6. CASE ParseEnds
  <2>1. pc = "parse" /\ counter = image.size /\ nodes' = nodes /\ pc' # "parse"
    <3>1. CASE nodes = <<>>
      BY <1>6, <3>1 DEF ParseEnds, Ends
    <3>2. CASE nodes # <<>> /\ call = "directory"
      BY <1>6, <3>2 DEF ParseEnds, Ends
    <3>3. CASE nodes # <<>> /\ call = "lookup"
      BY <1>6, <3>3 DEF ParseEnds, Ends
    <3>4. CASE nodes # <<>> /\ call \in {"file", "tree"}
      BY <1>6, <3>4 DEF ParseEnds, Ends
    <3> QED
      BY <1>1, <3>1, <3>2, <3>3, <3>4 DEF TypeOK, Calls
  <2>2. Starts(counter) = {}
    BY <1>1, <2>1, NoStartAtEnd
  <2> QED
    BY <1>1, <2>1, <2>2
<1>7. CASE Overshoot \/ OvershootFile
  <2>1. nodes' = nodes /\ pc' # "parse" /\ pc' # "scan"
    BY <1>7 DEF Overshoot, OvershootFile, Final
  <2>2. Aim
    BY <1>2, <2>1
  <2> QED
    BY <2>2
<1>8. CASE \/ LoadFails \/ LookupLoadFails \/ CrashInName
           \/ ScanHit \/ NextToken \/ NotFound
  <2>1. nodes' = nodes /\ pc' # "parse" /\ pc' # "scan"
    BY <1>8 DEF LoadFails, LookupLoadFails, BehindLoop, CrashInName, ScanHit,
                NextToken, NotFound, Searching
  <2>2. Aim
    BY <1>2, <2>1
  <2> QED
    BY <2>2
<1>9. CASE ScanMiss \/ PrintName
  <2>1. nodes' = nodes /\ pc' # "parse" /\ pc = "scan"
    BY <1>9 DEF ScanMiss, PrintName, Searching
  <2>2. Aim
    BY <1>2, <2>1
  <2> QED
    BY <2>2
<1>10. CASE UNCHANGED vars
  BY <1>1, <1>10 DEF vars
<1>11. ~ ReadEntry /\ ~ OvershootTable
  BY DEF ReadEntry, OvershootTable
<1> QED
  BY <1>3, <1>4, <1>5, <1>6, <1>7, <1>8, <1>9, <1>10, <1>11 DEF Next, Step

(* A name without a 0 is a C string as it is.                              *)
LEMMA NoZero ==
  ASSUME NEW name \in Names, 0 \notin ToSet(name)
  PROVE  CString(name) = name
<1>1. \A i \in 1 .. Len(name) : name[i] # 0
  BY DEF ToSet, Names
<1>2. {i \in 1 .. Len(name) : name[i] = 0} = {}
  BY <1>1
<1> QED
  BY <1>2 DEF CString, SelectInSeq

(* What is looked for is a string of C.                                    *)
LEMMA WantedType ==
  ASSUME TypeOK
  PROVE  /\ Wanted \in Strings /\ Wanted \in Names /\ 0 \notin ToSet(Wanted)
         /\ IsPrefix(Wanted, Wanted)
<1>1. Wanted \in Strings
  BY DEF Wanted, TypeOK, Strings
<1>2. \A t \in Strings : t \in Names /\ 0 \notin ToSet(t)
  BY DEF Strings, Names, ToSet
<1>3. \A t \in Names : IsPrefix(t, t)
  BY DEF IsPrefix, Names
<1> QED
  BY <1>1, <1>2, <1>3

(* A name that is compared to the end is the beginning of the other, and   *)
(* one that a 0 ends is the same.                                          *)
LEMMA MatchBegins ==
  ASSUME TypeOK, NEW r \in Records, Matches(r, Wanted)
  PROVE  IsPrefix(CString(NameOf(r)), Wanted)
<1>1. NameOf(r) \in Names
  BY NamesAreNames
<1>2. CASE 0 \in ToSet(NameOf(r))
  BY <1>2, WantedType DEF Matches
<1>3. CASE 0 \notin ToSet(NameOf(r))
  BY <1>1, <1>3, NoZero DEF Matches
<1> QED
  BY <1>2, <1>3

(* Nothing of a name with a 0 in it, but its C string, is in a string.     *)
LEMMA PrefixMatches ==
  ASSUME TypeOK, NEW r \in Records,
         IsPrefix(NameOf(r), Wanted) \/ NameOf(r) = Wanted
  PROVE  Matches(r, Wanted)
<1>1. NameOf(r) \in Names
  BY NamesAreNames
<1>2. IsPrefix(NameOf(r), Wanted)
  BY WantedType
<1>3. 0 \notin ToSet(NameOf(r))
  <2>1. \A s, t \in Names : IsPrefix(s, t) => ToSet(s) \subseteq ToSet(t)
    <3> SUFFICES ASSUME NEW s \in Names, NEW t \in Names, IsPrefix(s, t)
                 PROVE  ToSet(s) \subseteq ToSet(t)
      OBVIOUS
    <3>1. /\ Len(s) <= Len(t) /\ Len(s) \in Nat /\ Len(t) \in Nat
          /\ DOMAIN s = 1 .. Len(s) /\ DOMAIN t = 1 .. Len(t)
      BY DEF IsPrefix, Names
    <3>2. SubSeq(s, 1, Len(s)) = SubSeq(t, 1, Len(s))
      BY DEF IsPrefix
    <3>3. ASSUME NEW i \in DOMAIN s  PROVE i \in DOMAIN t /\ s[i] = t[i]
      <4>1. i \in 1 .. Len(s) /\ i \in 1 .. Len(t)
        BY <3>1
      <4>2. SubSeq(s, 1, Len(s))[i] = s[i] /\ SubSeq(t, 1, Len(s))[i] = t[i]
        BY <3>1, <4>1 DEF Names
      <4> QED
        BY <3>1, <3>2, <4>1, <4>2
    <3> QED
      BY <3>3 DEF ToSet
  <2> QED
    BY <1>1, <1>2, <2>1, WantedType
<1> QED
  BY <1>2, <1>3 DEF Matches

(* What is known when the search comes to a node: what the nodes before it *)
(* are not.                                                                *)
LEMMA NotNamed ==
  ASSUME TypeOK, call = "lookup", NEW i \in DOMAIN nodes, ~ Named(i),
         Rec(nodes[i]).sub
  PROVE  /\ ~ IsPrefix(NameOf(Rec(nodes[i])), Wanted)
         /\ NameOf(Rec(nodes[i])) # Wanted
<1>1. Rec(nodes[i]) \in Records
  BY NodesType, ImageType
<1>2. ~ Matches(Rec(nodes[i]), Wanted)
  BY DEF Named, RightKind
<1> QED
  BY <1>1, <1>2, PrefixMatches

(* What a step of the search has read in the field tells.                  *)
LEMMA HereIsNamed ==
  ASSUME TypeOK, ~ NameTooLong(Here)
  PROVE  Hit = Named(scan) /\ Miss = ~ Named(scan)
BY DEF Hit, Miss, Named, Here, Rec

(* A search that has come to the last node without a hit knows that no     *)
(* directory on the extent has the name.                                   *)
LEMMA SearchComplete ==
  ASSUME Base, Complete, Missed, call = "lookup", pc = "scan",
         scan = Len(nodes), ~ misuse, ~ Named(scan)
  PROVE  NoneIs(Wanted)
<1> SUFFICES ASSUME NEW o \in Starts(0), Rec(o).sub  PROVE NameOf(Rec(o)) # Wanted
  BY DEF NoneIs
<1>1. PICK i \in DOMAIN nodes : o = nodes[i]
  BY DEF Complete, ToSet
<1>2. i \in 1 .. Len(nodes) /\ Len(nodes) \in Nat
  BY NodesType DEF Base
<1>3. i = scan \/ i \in 1 .. scan - 1
  BY <1>2
<1>4. ~ Named(i)
  BY <1>3 DEF Missed
<1> QED
  BY <1>1, <1>4, NotNamed DEF Base

LEMMA PathType ==
  ASSUME TypeOK
  PROVE  Len(path) \in Nat /\ DOMAIN path = 1 .. Len(path)
BY DEF TypeOK

LEMMA MisuseStays ==
  ASSUME Base, [Next]_vars, misuse
  PROVE  misuse'
<1>1. CASE Load \/ SkipZero \/ ReadRecord \/ ReadEntry \/ CrashInName
  BY <1>1 DEF Load, SkipZero, ReadRecord, ReadEntry, CrashInName
<1>2. CASE LoadFails \/ LookupLoadFails \/ Overshoot \/ OvershootTable \/ OvershootFile
  BY <1>2 DEF LoadFails, LookupLoadFails, Overshoot, OvershootTable, OvershootFile,
              Frees
<1>3. CASE ParseEnds
  <2>1. CASE nodes = <<>>
    BY <1>3, <2>1 DEF ParseEnds
  <2>2. CASE nodes # <<>> /\ call \in {"directory", "table"}
    BY <1>3, <2>2 DEF ParseEnds
  <2>3. CASE nodes # <<>> /\ call \notin {"directory", "table"}
    BY <1>3, <2>3 DEF ParseEnds, Frees
  <2> QED
    BY <2>1, <2>2, <2>3
<1>4. CASE ScanHit \/ ScanMiss \/ NextToken \/ NotFound \/ PrintName
  BY <1>4 DEF ScanHit, ScanMiss, NextToken, NotFound, PrintName, SearchFrees
<1>5. CASE UNCHANGED vars
  BY <1>5 DEF vars
<1> QED
  BY <1>1, <1>2, <1>3, <1>4, <1>5 DEF Next, Step

LEMMA MissedStep ==
  ASSUME Base, Complete, Missed, [Next]_vars
  PROVE  Missed'
<1>1. UNCHANGED <<call, image, path>>
  BY CallFixed
<1>2. \A name : NoneIs(name)' = NoneIs(name)
  <2>1. Starts(0)' = Starts(0) /\ \A o : Rec(o)' = Rec(o)
    BY <1>1, ImageFixed DEF Rec
  <2> QED
    BY <2>1 DEF NoneIs
<1> SUFFICES ASSUME call = "lookup", ~ misuse'
             PROVE  /\ pc' \notin Final =>
                         \A i \in 1 .. token' - 1 : NoneIs(path[i])
                    /\ pc' = "scan" => \A i \in 1 .. scan' - 1 : ~ Named(i)'
  BY <1>1, <1>2 DEF Missed
<1>0. ~ misuse
  BY MisuseStays
<1>3. pc \notin Final => \A i \in 1 .. token - 1 : NoneIs(path[i])
  BY <1>0 DEF Missed
<1>4. CASE Load \/ SkipZero
  BY <1>3, <1>4 DEF Load, SkipZero, Final
<1>5. CASE ReadRecord
  BY <1>3, <1>5 DEF ReadRecord, Final
<1>6. CASE ParseEnds
  <2>1. CASE nodes = <<>>
    BY <1>3, <1>6, <2>1 DEF ParseEnds, Final
  <2>2. CASE nodes # <<>>
    <3>1. pc = "parse" /\ pc' = "scan" /\ scan' = 1 /\ token' = token
      BY <1>6, <2>2 DEF ParseEnds
    <3>2. 1 .. scan' - 1 = {}
      BY <3>1
    <3> QED
      BY <1>3, <3>1, <3>2 DEF Final
  <2> QED
    BY <2>1, <2>2
<1>7. CASE ScanMiss
  <2>1. /\ pc = "scan" /\ scan' = scan + 1 /\ ~ Named(scan)
        /\ UNCHANGED <<token, nodes, pc>>
    BY <1>7, HereIsNamed DEF ScanMiss, Searching, SearchFrees, Base
  <2>2. \A i : Named(i)' = Named(i)
    BY <1>1, <2>1 DEF Named, Wanted, RightKind, Rec
  <2>3. scan \in Nat
    BY <2>1, NodesType DEF Base, Stages
  <2>4. \A i \in 1 .. scan' - 1 : i = scan \/ i \in 1 .. scan - 1
    BY <2>1, <2>3
  <2>5. \A i \in 1 .. scan' - 1 : ~ Named(i)
    BY <1>0, <2>1, <2>4 DEF Missed
  <2> QED
    BY <1>3, <2>1, <2>2, <2>5 DEF Final
<1>8. CASE NextToken
  <2>1. /\ pc = "scan" /\ pc' = "load" /\ scan = Len(nodes) /\ ~ Named(scan)
        /\ token' = token + 1 /\ token < Len(path)
    BY <1>8, HereIsNamed DEF NextToken, Searching, SearchFrees, Base
  <2>2. NoneIs(Wanted)
    BY <1>0, <2>1, SearchComplete
  <2>3. token \in Nat /\ token >= 1
    BY DEF Base, TypeOK
  <2>4. token \in DOMAIN path
    BY <2>1, <2>3, PathType DEF Base
  <2>5. NoneIs(path[token])
    BY <2>2, <2>4 DEF Wanted
  <2>6. \A i \in 1 .. token' - 1 : i = token \/ i \in 1 .. token - 1
    BY <2>1, <2>3
  <2> QED
    BY <1>3, <2>1, <2>5, <2>6 DEF Final
<1>9. CASE CrashInName \/ ScanHit \/ NotFound
  BY <1>9 DEF CrashInName, ScanHit, NotFound, Searching, Final
<1>10. CASE Overshoot
  BY <1>10 DEF Overshoot, Final
<1>11. CASE UNCHANGED vars
  <2>1. \A i : Named(i)' = Named(i)
    BY <1>11 DEF vars, Named, Wanted, RightKind, Rec
  <2> QED
    BY <1>0, <1>11, <2>1 DEF vars, Missed
<1>12. /\ ~ ReadEntry /\ ~ PrintName /\ ~ OvershootTable /\ ~ OvershootFile
       /\ ~ LoadFails /\ ~ LookupLoadFails
  BY DEF ReadEntry, PrintName, OvershootTable, OvershootFile, LoadFails,
         LookupLoadFails
<1> QED
  BY <1>4, <1>5, <1>6, <1>7, <1>8, <1>9, <1>10, <1>11, <1>12 DEF Next, Step

LEMMA SearchInvariant == Spec => [](Complete /\ Missed)
<1>1. Init => Complete /\ Missed
  <2> SUFFICES ASSUME Init  PROVE Complete /\ Missed
    OBVIOUS
  <2>1. nodes = <<>> /\ ToSet(nodes) = {} /\ pc = "load" /\ token = 1
    BY DEF Init, ToSet
  <2>2. 1 .. token - 1 = {}
    BY <2>1
  <2> QED
    BY <2>1, <2>2 DEF Complete, Missed
<1>2. Base /\ Complete /\ Missed /\ [Next]_vars => (Complete /\ Missed)'
  BY CompleteStep, MissedStep
<1> QED
  BY <1>1, <1>2, BaseInvariant, PTL DEF Spec

(* On any extent, malformed ones included, a lookup that returns has found *)
(* the first directory the name of which is the beginning of a component,  *)
(* and no earlier component is the name of one, however often the extent   *)
(* is read again: of the components of the beginning of the path that is   *)
(* copied, and unless memory has been misused.                             *)
THEOREM FirstMatchAlwaysWins == Spec => []FirstMatchWins
<1>1. Init => FirstMatchWins
  BY DEF Init, FirstMatchWins
<1>2. Base /\ Complete /\ Missed /\ FirstMatchWins /\ [Next]_vars
        => FirstMatchWins'
  <2> SUFFICES ASSUME Base, Complete, Missed, FirstMatchWins, [Next]_vars,
                      call' = "lookup", ~ misuse'
               PROVE  FirstMatchWins'
    BY DEF FirstMatchWins
  <2>1. UNCHANGED <<call, image, path>> /\ call = "lookup"
    BY CallFixed
  <2>0. ~ misuse
    BY MisuseStays
  <2>2. ASSUME pc' # "done", isoError' # "notfound"  PROVE FirstMatchWins'
    BY <2>2 DEF FirstMatchWins
  <2>3. pc \in {"load", "parse", "scan"} => isoError = "none"
    BY DEF Base, Stages
  <2>4. Dirs \subseteq {o \in Starts(0) : Rec(o).sub}
    BY <2>1 DEF Complete, Dirs, Rec
  <2>5. CASE ScanHit
    <3>1. /\ pc = "scan" /\ pc' = "done" /\ Named(scan) /\ found' = nodes[scan]
          /\ UNCHANGED <<token, nodes, isoError>>
      BY <2>5, HereIsNamed DEF ScanHit, Searching, Taken, Base
    <3>2. scan \in DOMAIN nodes /\ isoError' # "notfound"
      BY <2>3, <3>1 DEF Base, Stages
    <3>3. found' \in Dirs
      BY <2>1, <3>1, <3>2 DEF Named, RightKind, Dirs, ToSet, Rec
    <3>7. IsPrefix(CString(NameOf(Rec(found'))), Wanted)
      <4>1. Rec(nodes[scan]) \in Records
        BY <3>2, NodesType, ImageType DEF Base
      <4> QED
        BY <3>1, <4>1, MatchBegins DEF Named, Base
    <3>4. ASSUME NEW o \in Dirs, o < found'
          PROVE  ~ IsPrefix(NameOf(Rec(o)), Wanted)
      <4>1. PICK j \in DOMAIN nodes : o = nodes[j]
        BY DEF Dirs, ToSet
      <4>2. /\ j \in Nat /\ scan \in Nat /\ j >= 1
            /\ nodes[j] \in Nat /\ nodes[scan] \in Nat
        BY <3>2, NodesType DEF Base
      <4>3. ~ (scan < j) /\ j # scan
        BY <3>1, <3>2, <3>4, <4>1, <4>2 DEF Base, Ordered
      <4>4. j \in 1 .. scan - 1
        BY <4>2, <4>3
      <4>5. ~ Named(j)
        BY <2>0, <2>1, <3>1, <4>4 DEF Missed
      <4> QED
        BY <2>1, <4>1, <4>5, NotNamed DEF Dirs, Rec, Base
    <3>5. \A i \in 1 .. token - 1 : \A o \in Dirs : NameOf(Rec(o)) # path[i]
      BY <2>0, <2>1, <2>4, <3>1 DEF Missed, NoneIs, Final
    <3>6. Dirs' = Dirs /\ Wanted' = Wanted
      BY <2>1, <3>1 DEF Dirs, Wanted
    <3> QED
      BY <2>1, <3>1, <3>2, <3>3, <3>4, <3>5, <3>6, <3>7 DEF FirstMatchWins, Rec
  <2>6. CASE NotFound
    <3>1. /\ pc = "scan" /\ pc' = "failed" /\ scan = Len(nodes) /\ ~ Named(scan)
          /\ ~ (token < Len(path))
          /\ UNCHANGED <<token, nodes>>
      BY <2>1, <2>6, HereIsNamed DEF NotFound, Searching, SearchFrees, Base
    <3>2. NoneIs(Wanted) /\ \A i \in 1 .. token - 1 : NoneIs(path[i])
      BY <2>0, <2>1, <3>1, SearchComplete DEF Missed, Final
    <3>3. ASSUME NEW i \in DOMAIN path
          PROVE  NoneIs(path[i])
      <4>1. /\ i \in Nat /\ i >= 1 /\ i <= Len(path) /\ Len(path) \in Nat
            /\ token \in Nat /\ token >= Len(path)
        BY <3>1, PathType DEF Base, TypeOK
      <4>2. i = token \/ i \in 1 .. token - 1
        BY <4>1
      <4> QED
        BY <3>2, <3>3, <4>2 DEF Wanted
    <3>4. \A i \in DOMAIN path : \A o \in Dirs : NameOf(Rec(o)) # path[i]
      BY <2>4, <3>3 DEF NoneIs
    <3>5. Dirs' = Dirs
      BY <2>1, <3>1 DEF Dirs
    <3> QED
      BY <2>1, <3>1, <3>4, <3>5 DEF FirstMatchWins, Rec
  <2>7. CASE Load \/ SkipZero \/ ScanMiss \/ NextToken
    BY <2>2, <2>3, <2>7
       DEF Load, SkipZero, ScanMiss, NextToken, Searching
  <2>8. ~ LoadFails /\ ~ LookupLoadFails
    BY <2>1 DEF LoadFails, LookupLoadFails
  <2>9. CASE ReadRecord \/ CrashInName
    BY <2>2, <2>3, <2>9 DEF ReadRecord, CrashInName
  <2>10. CASE Overshoot
    BY <2>1, <2>2, <2>10 DEF Overshoot
  <2>11. CASE ParseEnds
    <3>1. pc' # "done" /\ isoError' = isoError /\ pc = "parse"
      BY <2>1, <2>11 DEF ParseEnds
    <3> QED
      BY <2>2, <2>3, <3>1
  <2>12. CASE UNCHANGED vars
    BY <2>12 DEF vars, FirstMatchWins, Dirs, Wanted
  <2>13. ~ ReadEntry /\ ~ PrintName /\ ~ OvershootTable /\ ~ OvershootFile
    BY <2>1 DEF ReadEntry, PrintName, OvershootTable, OvershootFile
  <2> QED
    BY <2>5, <2>6, <2>7, <2>8, <2>9, <2>10, <2>11, <2>12, <2>13 DEF Next, Step
<1> QED
  BY <1>1, <1>2, BaseInvariant, SearchInvariant, PTL DEF Spec
=============================================================================
