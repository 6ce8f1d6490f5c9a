----------------------------- MODULE IsoReader -----------------------------
(***************************************************************************)
(* The ISO 9660 reader of iso_read.c: the loops that cut a directory       *)
(* extent and a path table into lists, the two searches made over a        *)
(* directory, __iso_read_directory_rd for a directory by path and          *)
(* __iso_read_dir_for_dirfile for a file by name, and the listing of a     *)
(* directory, __iso_print_dir_tree, with the Rock Ridge names of           *)
(* iso_rr_base.c.  One call is a behaviour.                                *)
(*                                                                         *)
(* An image is what is at each offset of an extent, read as the beginning  *)
(* of a record: its length byte, identifier, system use field and flag.    *)
(* Of the field it says where bytes look like an entry's head: two letters,*)
(* a length and version 1, whether an entry begins there or not; room is   *)
(* what there is of the field from the head on.                            *)
(* live counts the blocks of each kind that the call has allocated; misuse *)
(* tells that it has touched or freed what it had freed before, or never   *)
(* had, or has read behind a system use field.  Bytes of a record behind   *)
(* the end of its extent are taken to be readable: such a record is never  *)
(* returned.                                                               *)
(***************************************************************************)
EXTENDS Integers, Sequences, SequencesExt

CONSTANTS
  Images,        \* the extents a call may be made on
  Paths,         \* the paths, or the file names, asked for
  PathMax,       \* characters of a path that are copied, 128
  Slash,         \* the character between components
  DirHeader,     \* bytes of a directory record before its identifier, 33
  TableHeader,   \* bytes of a path table entry before its identifier, 8
  CharMax,       \* the largest char, 127
  UseRR          \* isoUseRR

\* A name, as strtok or a record has it, is a sequence of characters.
Names == Seq(Nat)

\* One of C ends at its first 0.
Strings == Seq(Nat \ {0})

SystemUse == [sig : STRING, len : Nat, room : Nat, name : Names]

Records == [len : Nat, id : Names, ext : Seq(SystemUse), sub : BOOLEAN]

\* The components strtok makes of a string: none is empty.
Tokens(string) ==
  LET parts == FoldLeft(LAMBDA ts, c : IF c = Slash THEN Append(ts, <<>>)
                                       ELSE [ts EXCEPT ![Len(ts)] = Append(@, c)],
                        << <<>> >>, string)
  IN  SelectSeq(parts, LAMBDA t : t # <<>>)

PathTokens(path) == Tokens(SubSeq(path, 1, Min({PathMax, Len(path)})))

ASSUME ReaderAssumption ==
  /\ DirHeader \in Nat \ {0} /\ TableHeader \in Nat \ {0}
  /\ CharMax \in Nat /\ UseRR \in BOOLEAN
  /\ Paths \subseteq Strings /\ \A p \in Paths : PathTokens(p) \in Seq(Strings)
  /\ \A m \in Images :
       /\ m.size \in Nat
       /\ m.at \in [0 .. m.size - 1 -> Records]
       /\ m.starts \in Seq(0 .. m.size - 1)

VARIABLES
  call,      \* the function called
  image,     \* the extent it reads
  path,      \* what strtok makes of szCopyDir, or the file name
  token,     \* the component looked for, szToken
  counter,   \* counter, stCounter
  nodes,     \* the list: offsets of the records in it
  scan,      \* the node currDirs points at
  found,     \* the record foundDir has been set to
  unread,    \* an extent could not be read
  live,      \* how many blocks of each kind are allocated
  misuse,    \* memory has been misused
  isoError,  \* isoError
  pc

vars == <<call, image, path, token, counter, nodes, scan, found, unread, live,
          misuse, isoError, pc>>

Calls == {"directory", "table", "lookup", "file", "tree"}
Blocks == {"copy", "root", "dup", "buf", "list", "found"}

Allocated(blocks, l) == [b \in Blocks |-> IF b \in blocks THEN l[b] + 1 ELSE l[b]]

Freed(blocks, l) ==
  [b \in Blocks |-> IF b \in blocks /\ l[b] > 0 THEN l[b] - 1 ELSE l[b]]

Nothing == [b \in Blocks |-> 0]

\* A block is freed that is not allocated.
FreesNone(blocks) == \E b \in blocks : live[b] = 0

Frees(blocks) ==
  /\ live' = Freed(blocks, live)
  /\ misuse' = (misuse \/ FreesNone(blocks))

None == -1
Final == {"done", "failed", "crashed"}

TypeOK ==
  /\ call \in Calls
  /\ image \in Images
  /\ path \in Seq(Strings)
  /\ token \in 1 .. Len(path) + 1
  /\ counter \in Nat
  /\ nodes \in Seq(0 .. image.size - 1)
  /\ scan \in 0 .. Len(nodes)
  /\ found \in {None} \cup ToSet(nodes)
  /\ unread \in BOOLEAN
  /\ live \in [Blocks -> Nat]
  /\ misuse \in BOOLEAN
  /\ isoError \in {"none", "read", "mismatch", "notfound"}
  /\ pc \in {"load", "parse", "scan", "wild"} \cup Final

Init ==
  /\ call \in Calls
  /\ image \in Images
  /\ path \in CASE call = "lookup" -> {PathTokens(p) : p \in Paths}
                [] call = "file" -> {<<p>> : p \in Paths}
                [] OTHER -> {<<>>}
  /\ token = 1 /\ counter = 0 /\ nodes = <<>> /\ scan = 0 /\ found = None
  /\ unread = FALSE
  /\ live = CASE call = "lookup" -> Allocated({"copy", "root"}, Nothing)
              [] call = "file" -> Allocated({"dup"}, Nothing)
              [] OTHER -> Nothing
  /\ misuse = FALSE /\ isoError = "none"
  /\ pc = "load"

----------------------------------------------------------------------------
(***************************************************************************)
(* The extent is read into a buffer.                                       *)
(***************************************************************************)
Load ==
  /\ pc = "load"
  /\ counter' = 0 /\ nodes' = <<>> /\ scan' = 0
  /\ live' = Allocated({"buf", "list"}, live)
  /\ pc' = "parse"
  /\ UNCHANGED <<call, image, path, token, found, unread, misuse, isoError>>

LoadFails ==
  /\ pc = "load" /\ call # "lookup"
  /\ unread' = TRUE
  /\ Frees(IF call = "file" THEN {"dup"} ELSE {})
  /\ pc' = "failed" /\ isoError' = "read"
  /\ UNCHANGED <<call, image, path, token, counter, nodes, scan, found>>

(***************************************************************************)
(* In a lookup foundDir is freed and the loop is left.  Behind it the      *)
(* freed foundDir is looked at: it is freed again, or, if something else   *)
(* is in its place by now, taken for the directory found.                  *)
(***************************************************************************)
BehindLoop ==
  \/ pc' = "failed" /\ isoError' = "notfound"
  \/ pc' \in {"done", "crashed"} /\ isoError' = "read"

LookupLoadFails ==
  /\ pc = "load" /\ call = "lookup"
  /\ unread' = TRUE /\ misuse' = TRUE
  /\ live' = Freed({"root", "copy"}, live)
  /\ BehindLoop
  /\ UNCHANGED <<call, image, path, token, counter, nodes, scan, found>>

----------------------------------------------------------------------------
(***************************************************************************)
(* The loops of __iso_read_directories_root and __iso_read_path_table.     *)
(* The length of the system use field is what a record has left behind its *)
(* identifier, taken without a sign: if there is less than nothing, 4 GiB  *)
(* are allocated and copied.  In a path table the length is a char, and if *)
(* it is negative no memory is got and NULL is cleared.                    *)
(***************************************************************************)
\* Changed: nothing is rounded.
RoundedNot(o) == o

Rounded(o) == o + (o % 2)

\* Changed: the loop goes on as long as the end is not reached.
EndsLoose == counter >= image.size

Ends == counter = image.size

Overshot == ~ Ends /\ counter > image.size

\* Changed: the padding is not counted.
PastZeroStays(o) == o

PastZero(o) == o + 1

SkipZero ==
  /\ pc = "parse" /\ call # "table"
  /\ counter < image.size
  /\ image.at[counter].len = 0
  /\ counter' = PastZero(counter)
  /\ UNCHANGED <<call, image, path, token, nodes, scan, found, unread, live,
                 misuse, isoError, pc>>

\* Changed: the byte that pads an identifier is counted where there is none.
RecordTooTight(r) == r.len < DirHeader + Len(r.id) + 1

RecordTooShort(r) == r.len < DirHeader + Len(r.id)

ReadRecord ==
  /\ pc = "parse" /\ call # "table"
  /\ counter < image.size
  /\ LET r == image.at[counter]
     IN  /\ r.len # 0
         /\ IF RecordTooShort(r)
            THEN pc' = "crashed" /\ misuse' = TRUE /\ UNCHANGED <<counter, nodes>>
            ELSE /\ nodes' = Append(nodes, counter)
                 /\ counter' = Rounded(counter + r.len)
                 /\ UNCHANGED <<misuse, pc>>
  /\ UNCHANGED <<call, image, path, token, scan, found, unread, live,
                 isoError>>

ReadEntry ==
  /\ pc = "parse" /\ call = "table"
  /\ counter < image.size
  /\ LET n == image.at[counter].len
     IN  IF n > CharMax
         THEN pc' = "crashed" /\ misuse' = TRUE /\ UNCHANGED <<counter, nodes>>
         ELSE /\ nodes' = Append(nodes, counter)
              /\ counter' = Rounded(counter + TableHeader + n)
              /\ UNCHANGED <<misuse, pc>>
  /\ UNCHANGED <<call, image, path, token, scan, found, unread, live,
                 isoError>>

(***************************************************************************)
(* The last record reaches beyond the end: the list is freed, that of a    *)
(* path table by reading next from nodes just freed.                       *)
(***************************************************************************)
Overshoot ==
  /\ pc = "parse"
  /\ Overshot
  /\ call \in {"directory", "lookup", "tree"}
  /\ pc' = "failed"
  /\ isoError' = IF call = "directory" THEN "mismatch" ELSE "read"
  /\ Frees(CASE call = "lookup" -> {"list", "buf", "root", "copy"}
             [] call = "tree" -> {"list", "buf"}
             [] OTHER -> {"list"})
  /\ UNCHANGED <<call, image, path, token, counter, nodes, scan, found, unread>>

OvershootTable ==
  /\ pc = "parse"
  /\ Overshot
  /\ call = "table"
  /\ pc' \in {"failed", "crashed"} /\ isoError' = "read"
  /\ live' \in {Freed({"buf"}, live), Freed({"buf", "list"}, live)}
  /\ misuse' = TRUE
  /\ UNCHANGED <<call, image, path, token, counter, nodes, scan, found, unread>>

(***************************************************************************)
(* The search for a file does not look at the result.  It goes through a   *)
(* list that was never set, whether that comes to an end or not, and       *)
(* whatever of it is freed.                                                *)
(***************************************************************************)
OvershootFile ==
  /\ pc = "parse"
  /\ Overshot
  /\ call = "file"
  /\ pc' \in Final \cup {"wild"} /\ isoError' = "mismatch"
  /\ live' = Freed({"list"}, live)
  /\ misuse' = TRUE
  /\ UNCHANGED <<call, image, path, token, counter, nodes, scan, found, unread>>

(***************************************************************************)
(* The end is met.  Without any record prev is NULL and written through.   *)
(* The path table's spare node is freed before its data.  A lookup frees   *)
(* the buffer before it looks at the list.                                 *)
(***************************************************************************)
\* Changed: the buffer is kept until the next component is looked for.
FreedParsedNot == {}

FreedParsed == IF call \in {"lookup", "table"} THEN {"buf"} ELSE {}

ParseEnds ==
  /\ pc = "parse"
  /\ Ends
  /\ IF nodes = <<>>
     THEN pc' = "crashed" /\ misuse' = TRUE /\ UNCHANGED <<scan, live>>
     ELSE CASE call = "directory" ->
                 pc' = "done" /\ UNCHANGED <<scan, live, misuse>>
            [] call = "table" ->
                 pc' \in {"done", "crashed"} /\ live' = Freed(FreedParsed, live)
                   /\ misuse' = TRUE /\ UNCHANGED scan
            [] OTHER -> pc' = "scan" /\ scan' = 1 /\ Frees(FreedParsed)
  /\ UNCHANGED <<call, image, path, token, counter, nodes, found, unread,
                 isoError>>

----------------------------------------------------------------------------
(***************************************************************************)
(* __iso_rr_find_signature: the first bytes that look like the head of an  *)
(* entry with the signature, wherever they are.  __iso_rr_find_altname     *)
(* takes what follows for the name; with a length that leaves no room for  *)
(* its own head no memory is got, and NULL or a size below zero is used;   *)
(* with one that the field has no room for, bytes behind it are read.      *)
(***************************************************************************)
NameHeader == 5

FindSignature(r, signature) ==
  SelectInSeq(r.ext, LAMBDA e : e.sig = signature /\ e.len # 0)

HasName(r) == UseRR /\ FindSignature(r, "NM") # 0

NameEntry(r) == r.ext[FindSignature(r, "NM")]

NameTooShort(r) == HasName(r) /\ NameEntry(r).len < NameHeader

NameTooLong(r) == HasName(r) /\ NameEntry(r).len > NameEntry(r).room

CrashInName ==
  /\ pc = "scan"
  /\ LET r == image.at[nodes[scan]] IN NameTooShort(r) \/ NameTooLong(r)
  /\ pc' = "crashed" /\ misuse' = TRUE
  /\ UNCHANGED <<call, image, path, token, counter, nodes, scan, found, unread,
                 live, isoError>>

(***************************************************************************)
(* __iso_cmp_dir_id: as many characters are compared as the record's own   *)
(* name has, so a name matches everything it is the beginning of; but a 0  *)
(* in it, which no component has, matches the end of the string, and what  *)
(* is behind is not compared.  The identifier of a directory itself is one *)
(* 0.                                                                      *)
(***************************************************************************)
NameOf(r) == IF HasName(r) THEN NameEntry(r).name ELSE r.id

\* A name up to its first 0.
CString(name) ==
  LET zero == SelectInSeq(name, LAMBDA c : c = 0)
  IN  IF zero = 0 THEN name ELSE SubSeq(name, 1, zero - 1)

\* Changed: any name matches.
MatchesAny(r, name) == TRUE

Matches(r, name) ==
  IF 0 \in ToSet(NameOf(r)) THEN CString(NameOf(r)) = name
  ELSE IsPrefix(NameOf(r), name)

\* The component szToken; the path "/" has none, and an empty one is used.
Wanted == IF token \in DOMAIN path THEN path[token] ELSE <<>>

RightKind(r) == r.sub = (call = "lookup")

Here == image.at[nodes[scan]]

\* What of a name was read behind the field is anything.
Hit == RightKind(Here) /\ (Matches(Here, Wanted) \/ NameTooLong(Here))

Miss == ~ RightKind(Here) \/ ~ Matches(Here, Wanted) \/ NameTooLong(Here)

\* What a search has freed when it has looked: the list, and what a lookup
\* has no more need of.
FreedFound == IF call = "lookup" THEN {"root", "list", "copy"} ELSE {"list"}

\* Changed: the number of the node is taken for what it holds.
TakenNode == scan

Taken == nodes[scan]

Searching == pc = "scan" /\ call # "tree" /\ ~ NameTooShort(Here)

\* Blocks are freed, and a name may have been read behind its field.
SearchFrees(blocks) ==
  /\ live' = Freed(blocks, live)
  /\ misuse' = (misuse \/ NameTooLong(Here) \/ FreesNone(blocks))

ScanHit ==
  /\ Searching
  /\ Hit
  /\ found' = Taken
  /\ live' = Allocated({"found"}, Freed(FreedFound, live))
  /\ misuse' = (misuse \/ NameTooLong(Here) \/ FreesNone(FreedFound))
  /\ pc' = "done"
  /\ UNCHANGED <<call, image, path, token, counter, nodes, scan, unread, isoError>>

ScanMiss ==
  /\ Searching
  /\ Miss
  /\ scan < Len(nodes)
  /\ scan' = scan + 1
  /\ SearchFrees({})
  /\ UNCHANGED <<call, image, path, token, counter, nodes, found, unread, isoError,
                 pc>>

\* The next component is looked for in the same directory, read once more.
NextToken ==
  /\ Searching
  /\ Miss
  /\ scan = Len(nodes)
  /\ call = "lookup" /\ token < Len(path)
  /\ token' = token + 1
  /\ SearchFrees({"list"})
  /\ pc' = "load"
  /\ UNCHANGED <<call, image, path, counter, nodes, scan, found, unread, isoError>>

NotFound ==
  /\ Searching
  /\ Miss
  /\ scan = Len(nodes)
  /\ ~ (call = "lookup" /\ token < Len(path))
  /\ SearchFrees(FreedFound)
  /\ isoError' = IF call = "lookup" THEN "notfound" ELSE isoError
  /\ pc' = "failed"
  /\ UNCHANGED <<call, image, path, token, counter, nodes, scan, found, unread>>

(***************************************************************************)
(* The loop of __iso_print_dir_tree; the text it prints is left out.       *)
(* Without Rock Ridge bFound has no value, and the identifier may be freed *)
(* twice.                                                                  *)
(***************************************************************************)
FreedListing == IF scan < Len(nodes) THEN {} ELSE {"list", "buf"}

PrintName ==
  /\ pc = "scan" /\ call = "tree"
  /\ ~ NameTooShort(Here)
  /\ \E twice \in {FALSE, ~ UseRR} :
       misuse' = (misuse \/ twice \/ NameTooLong(Here) \/ FreesNone(FreedListing))
  /\ live' = Freed(FreedListing, live)
  /\ IF scan < Len(nodes) THEN scan' = scan + 1 /\ UNCHANGED pc
                          ELSE pc' = "done" /\ UNCHANGED scan
  /\ UNCHANGED <<call, image, path, token, counter, nodes, found, unread, isoError>>

Step ==
  \/ Load
  \/ SkipZero \/ ReadRecord \/ ReadEntry
  \/ Overshoot \/ OvershootTable \/ OvershootFile \/ ParseEnds
  \/ CrashInName \/ ScanHit \/ ScanMiss \/ NextToken \/ NotFound \/ PrintName

Next == Step \/ LoadFails \/ LookupLoadFails

\* A call runs until it returns.  The file need not ever fail to be read.
Spec == Init /\ [][Next]_vars /\ WF_vars(Step)

----------------------------------------------------------------------------
Listed == pc = "scan" \/ (pc = "done" /\ call \in {"directory", "table"})

(* A call comes to an end on every extent, whatever lengths are in it,     *)
(* unless it is the search for a file in a list that was never set.        *)
CallReturns == <>(pc \in Final \cup {"wild"})

(* In a list that is accepted no record reaches into the next one or       *)
(* beyond the end of the extent, malformed extents included.               *)
EndOf(i) ==
  nodes[i] +
    IF call = "table" THEN TableHeader + image.at[nodes[i]].len
                      ELSE image.at[nodes[i]].len

RecordsApart ==
  Listed =>
    \A i \in DOMAIN nodes :
      EndOf(i) <= IF i < Len(nodes) THEN nodes[i + 1] ELSE image.size

(***************************************************************************)
(* What the standard says of an extent m.for something: where its records  *)
(* start, m.starts, and what is between them.  Records of a directory are  *)
(* of even length, and zeros fill the rest of a sector; an entry of a path *)
(* table has a byte behind it if its length is odd.  An extent meant for   *)
(* directories has nothing in a system use field that looks like a name    *)
(* too short to be one or too long for the field, which the code would take*)
(* for a name whatever it is really part of.                               *)
(***************************************************************************)
Behind(m, i) ==
  IF i = 0 THEN 0
  ELSE LET o == m.starts[i]
           end == o + TableHeader + m.at[o].len
       IN  IF m.for = "table" THEN end + (end % 2) ELSE o + m.at[o].len

Before(m, i) == IF i < Len(m.starts) THEN m.starts[i + 1] ELSE m.size

ProperRecord(m, o) ==
  LET r == m.at[o]
  IN  /\ o % 2 = 0 /\ r.len % 2 = 0 /\ DirHeader + Len(r.id) <= r.len
      /\ \A i \in DOMAIN r.ext :
           r.ext[i].sig = "NM" /\ r.ext[i].len # 0 =>
             NameHeader <= r.ext[i].len /\ r.ext[i].len <= r.ext[i].room

ASSUME ExtentAssumption ==
  \A m \in Images :
    /\ m.for \in {"directory", "table"} => m.starts # <<>>
    /\ m.for = "directory" =>
         /\ \A i \in DOMAIN m.starts : ProperRecord(m, m.starts[i])
         /\ \A i \in 0 .. Len(m.starts) :
              /\ Behind(m, i) <= Before(m, i)
              /\ \A o \in Behind(m, i) .. Before(m, i) - 1 : m.at[o].len = 0
    /\ m.for = "table" =>
         \A i \in 0 .. Len(m.starts) : Behind(m, i) = Before(m, i)

\* The extent is what the call takes it for, and made as the standard says.
ProperExtent == image.for = IF call = "table" THEN "table" ELSE "directory"

(* From an extent made as the standard says, every record gets into the    *)
(* list, in order, and nothing else.                                       *)
EveryRecordListed ==
  Listed /\ ProperExtent => nodes = image.starts

(* A lookup that returns a directory returns the first one in the root     *)
(* whose name, as far as it goes, is the beginning of the component looked *)
(* for, and no earlier component is the name of any; if it says that       *)
(* nothing was found, none is.  The components are those of the first      *)
(* PathMax characters of the path: what is behind is never looked for.     *)
Dirs == {o \in ToSet(nodes) : image.at[o].sub}

FirstMatchWins ==
  call = "lookup" /\ ~ misuse =>
    /\ pc = "done" =>
         /\ found \in Dirs
         /\ IsPrefix(CString(NameOf(image.at[found])), Wanted)
         /\ \A o \in Dirs :
              o < found => ~ IsPrefix(NameOf(image.at[o]), Wanted)
         /\ \A i \in 1 .. token - 1 : \A o \in Dirs : NameOf(image.at[o]) # path[i]
    /\ isoError = "notfound" =>
         \A i \in DOMAIN path : \A o \in Dirs : NameOf(image.at[o]) # path[i]

(* However many times a lookup reads the directory, when it returns it has *)
(* freed every block it allocated but the descriptor found, and a listing  *)
(* every one, on malformed extents too; unless memory has been misused.    *)
OwnedOnce ==
  call \in {"lookup", "tree"} /\ ~ misuse =>
    /\ pc = "done" =>
         live = IF call = "lookup" THEN Allocated({"found"}, Nothing) ELSE Nothing
    /\ pc = "failed" => live = Nothing

(* On an extent made as the standard says, and read without a failure, no  *)
(* call touches freed memory, NULL, or bytes behind a buffer or a system   *)
(* use field, and none frees a block twice: none that reads directories,   *)
(* that is, and no listing without Rock Ridge.  Every reading of a path    *)
(* table does.                                                             *)
MemorySafe ==
  misuse =>
    \/ call = "table"
    \/ call = "tree" /\ ~ UseRR
    \/ ~ ProperExtent
    \/ unread
=============================================================================
