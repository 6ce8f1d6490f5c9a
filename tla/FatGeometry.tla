---------------------------- MODULE FatGeometry ----------------------------
(***************************************************************************)
(* Where fat_c.c puts things on the device.  The BIOS parameter block read *)
(* by __fat_read_bpb fixes the layout                                      *)
(*                                                                         *)
(*    LBAStart | reserved sectors | FAT 1 .. FAT n | data clusters 2, 3 .. *)
(*                                                                         *)
(* and every access is an lseek to a byte position that the code computes  *)
(* in a uint32_t, so positions are taken modulo Word (2^32 in the build).  *)
(***************************************************************************)
EXTENDS Integers

CONSTANTS
  LBAStart,      \* first sector of the partition
  RsvdSecCnt,    \* sRsvdSecCnt
  NumFATs,       \* bNumFATs
  FATSz32,       \* ext.iFATSz32, sectors of one copy of the table
  RootEntCnt,    \* sRootEntCnt, 0 on FAT32
  SecPerClus,    \* bSecPerClus
  BytsPerSec,    \* sBytsPerSec
  Word           \* number of values of a uint32_t

ASSUME GeometryAssumption ==
  /\ LBAStart \in Nat
  /\ RsvdSecCnt \in Nat
  /\ NumFATs \in {1, 2}
  /\ FATSz32 \in Nat \ {0}
  /\ RootEntCnt \in Nat
  /\ SecPerClus \in Nat \ {0}
  /\ BytsPerSec \in Nat \ {0}
  /\ Word \in Nat \ {0}

Copies == 1 .. NumFATs

ClusterBytes == SecPerClus * BytsPerSec
FatBytes == FATSz32 * BytsPerSec

\* FAT_TABLE is an array of 32-bit entries that fills one copy of the table.
NumEntries == FatBytes \div 4

\* The quotient binds tighter than the sum: the code rounds nothing up.
RootDirSec == RootEntCnt * 32 + (BytsPerSec - 1) \div BytsPerSec

FirstDataSector == RsvdSecCnt + NumFATs * FATSz32 + RootDirSec + LBAStart

(***************************************************************************)
(* Byte positions.  WritePos is __fat_write_cluster's, ReadPos the one     *)
(* __fat_read_clusters computes for the same cluster number.               *)
(***************************************************************************)
WritePos(c) == ((FirstDataSector + (c - 2) * SecPerClus) * BytsPerSec) % Word

ReadPos(c) == (FirstDataSector * BytsPerSec + (c - 2) * ClusterBytes) % Word

\* Copy j, as the first table is sought and the second simply follows it.
FatPos(j) ==
  (((RsvdSecCnt + LBAStart) * BytsPerSec) % Word) + (j - 1) * FatBytes

(***************************************************************************)
(* __fat_insert_file writes every cluster of a file but the first with the *)
(* iNumber __fat_byte_to_clusters left there, -1 in a uint32_t.            *)
(***************************************************************************)
StrayNumber == Word - 1
StrayPos == WritePos(StrayNumber)

\* The entries of copy j whose bytes such a write covers.
StrayEntries(j) ==
  {e \in 0 .. NumEntries - 1 :
     LET at == FatPos(j) + 4 * e
     IN  StrayPos < at + 4 /\ at < StrayPos + ClusterBytes}

StrayCopies == {j \in Copies : StrayEntries(j) # {}}
=============================================================================
