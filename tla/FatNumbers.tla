----------------------------- MODULE FatNumbers -----------------------------
(***************************************************************************)
(* The two 16-bit fields sFSTCLUSHI and sFSTCLUSLO in which a short        *)
(* directory entry holds the number of its first cluster: how each place   *)
(* of fat_c.c that fills them or reads them does so.  No two of them agree *)
(* on every number.                                                        *)
(***************************************************************************)
EXTENDS Integers

CONSTANTS
  Byte,          \* number of values of an 8-bit byte, 256 in the build
  HalfWord       \* number of values of a uint16_t, 65536 in the build

ASSUME ByteAssumption ==
  /\ Byte \in Nat \ {0}
  /\ HalfWord \in Nat /\ Byte <= HalfWord

\* __fat_insert_file: freeCluster >> 8 and freeCluster & 0xFF.
InsertEncoding(c) == [hi |-> (c \div Byte) % HalfWord, lo |-> c % Byte]

\* __fat_insert_normdir: the low half, sFSTCLUSHI being 0 as the caller left it.
NormDirEncoding(c) == [hi |-> 0, lo |-> c % HalfWord]

\* What the format says, and what an entry the code has not written holds.
StandardEncoding(c) == [hi |-> c \div HalfWord, lo |-> c % HalfWord]

\* __fat_get_file_content.
ContentNumber(entry) == entry.hi * HalfWord + entry.lo

\* __fat_get_clusterno: the halves are taken the wrong way round.
GetClusterNo(entry) == entry.lo * HalfWord + entry.hi
=============================================================================
