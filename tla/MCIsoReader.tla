---------------------------- MODULE MCIsoReader ----------------------------
(* Extents of up to three records and a stretch of padding, laid out one   *)
(* behind the other; some records are odd, too short for their identifier  *)
(* or reach beyond the end.                                                *)
EXTENDS IsoReader

MCRecord(n, id, ext, sub) == [len |-> n, id |-> id, ext |-> ext, sub |-> sub]
MCZero == MCRecord(0, <<>>, <<>>, FALSE)
MCInner == MCRecord(9, <<5>>, <<>>, TRUE)

\* Entries of a system use field: a time stamp, and names.
MCTime == [sig |-> "TF", len |-> 5, room |-> 12, name |-> <<8>>]
MCName(name) ==
  [sig |-> "NM", len |-> 5 + Len(name), room |-> 5 + Len(name), name |-> name]

MCProper ==
  {MCRecord(4, <<0>>, <<>>, TRUE), MCRecord(4, <<5>>, <<>>, TRUE),
   MCRecord(6, <<5, 6>>, <<>>, TRUE), MCRecord(4, <<5>>, <<>>, FALSE),
   MCRecord(8, <<6>>, <<MCTime, MCName(<<5, 6>>)>>, TRUE)}

\* A name the time stamp before another one contains.
MCNamed ==
  {MCRecord(8, <<6>>, <<MCTime, MCName(<<6>>), MCName(<<5>>)>>, TRUE)}

\* Records too short, a name too short and one too long for its field.
MCImproper ==
  {MCRecord(5, <<6>>, <<>>, TRUE), MCRecord(3, <<6>>, <<>>, TRUE),
   MCRecord(8, <<6>>, <<[MCName(<<>>) EXCEPT !.len = 4]>>, TRUE),
   MCRecord(8, <<6>>, <<[MCName(<<7>>) EXCEPT !.room = 5]>>, TRUE)}

MCSum(rs, n) == FoldLeft(LAMBDA a, r : a + r.len, 0, SubSeq(rs, 1, n))

MCStarts(rs) == [i \in DOMAIN rs |-> MCSum(rs, i - 1)]

\* The records rs, pad zeros, and the end cut off by the last cut bytes.
MCLayout(rs, pad, cut) ==
  LET n == MCSum(rs, Len(rs))
  IN  [size |-> n + pad - cut,
       at |-> [o \in 0 .. n + pad - cut - 1 |->
                 IF o >= n THEN MCZero
                 ELSE IF \E i \in DOMAIN rs : MCStarts(rs)[i] = o
                 THEN rs[CHOOSE i \in DOMAIN rs : MCStarts(rs)[i] = o]
                 ELSE MCInner],
       starts |-> MCStarts(rs),
       for |-> IF cut = 0 /\ rs # <<>> /\ ToSet(rs) \subseteq MCProper \cup MCNamed
               THEN "directory" ELSE "none"]

MCDirectories ==
  {MCLayout(rs, pad, cut) :
     rs \in UNION {[1 .. n -> MCProper \cup MCNamed \cup MCImproper] : n \in 0 .. 2}
              \cup [1 .. 3 -> MCProper],
     pad \in {0, 2}, cut \in {0}}
  \cup {MCLayout(rs, 0, 2) : rs \in [1 .. 2 -> MCProper]}

\* A directory of two sectors, the first of them filled up with zeros.
MCSectors ==
  [size |-> 12,
   at |-> [o \in 0 .. 11 |-> CASE o = 0 -> MCRecord(4, <<5>>, <<>>, FALSE)
                               [] o = 6 -> MCRecord(4, <<5>>, <<>>, TRUE)
                               [] o \in {4, 5, 10, 11} -> MCZero
                               [] OTHER -> MCInner],
   starts |-> <<0, 6>>,
   for |-> "directory"]

\* Path tables: entries of identifiers of one or two bytes, padded.
MCTable(ns) ==
  LET start(i) == FoldLeft(LAMBDA a, n : a + 2 * ((TableHeader + n + 1) \div 2),
                           0, SubSeq(ns, 1, i - 1))
      end == start(Len(ns) + 1)
  IN  [size |-> end,
       at |-> [o \in 0 .. end - 1 |->
                 IF \E i \in DOMAIN ns : start(i) = o
                 THEN MCRecord(ns[CHOOSE i \in DOMAIN ns : start(i) = o], <<>>, <<>>, TRUE)
                 ELSE MCRecord(1, <<>>, <<>>, TRUE)],
       starts |-> [i \in DOMAIN ns |-> start(i)],
       for |-> "table"]

MCImages ==
  MCDirectories \cup {MCSectors, MCTable(<<1, 9>>)}
    \cup {MCTable(ns) : ns \in UNION {[1 .. n -> 1 .. 2] : n \in 1 .. 3}}

\* With / for 47: "/", "5", "56", "6", "7/5", "/7/6", and one that is cut.
MCPaths ==
  {<<47>>, <<5>>, <<5, 6>>, <<6>>, <<7, 47, 5>>, <<47, 7, 47, 6>>,
   <<7, 47, 8, 47, 6>>}
=============================================================================
