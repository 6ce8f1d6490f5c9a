--------------------------- MODULE FatTimestamps ---------------------------
(***************************************************************************)
(* __fat_converth_to_timestamp and __fat_convertdt_to_timestamp: the       *)
(* fields of a struct tm packed into the 16 bits of a time and of a date   *)
(* in a short entry.                                                       *)
(*                                                                         *)
(* The code joins the shifted fields with a bitwise or.  Here they are     *)
(* added, which is the same as long as no two have a bit in common: that   *)
(* is TimeFieldsApart and DateFieldsApart.  The fields range over what the *)
(* guards let through, of a struct tm that is a time or a date.            *)
(***************************************************************************)
EXTENDS Integers, TLAPS

TimeStamp(tm_sec, tm_min, tm_hour) == tm_sec \div 2 + 32 * tm_min + 2048 * tm_hour

DateStamp(tm_mday, tm_mon, tm_year) == tm_mday + 32 * tm_mon + 512 * tm_year

----------------------------------------------------------------------------
(***************************************************************************)
(* What a reader of the volume makes of the bits.                          *)
(***************************************************************************)
SecondsOf(s) == 2 * (s % 32)
MinutesOf(s) == (s \div 32) % 64
HoursOf(s) == s \div 2048

DayOf(s) == s % 32
MonthOf(s) == (s \div 32) % 16
YearOf(s) == 1980 + s \div 512

----------------------------------------------------------------------------
(* In a time each field, with all those below it, stays under the place    *)
(* the next one is shifted to: the or of __fat_converth_to_timestamp loses *)
(* none of them, and the result fits a uint16_t (lines 655-664).           *)
THEOREM TimeFieldsApart ==
  ASSUME NEW sec \in 0 .. 59, NEW min \in 0 .. 59, NEW hour \in 0 .. 23
  PROVE  /\ sec \div 2 \in 0 .. 31
         /\ sec \div 2 + 32 * min \in 0 .. 2047
         /\ TimeStamp(sec, min, hour) \in 0 .. 65535
  BY DEF TimeStamp

(* The same of a date in __fat_convertdt_to_timestamp (lines 679-686).     *)
THEOREM DateFieldsApart ==
  ASSUME NEW mday \in 1 .. 31, NEW mon \in 0 .. 11, NEW year \in 0 .. 127
  PROVE  /\ mday + 32 * mon \in 0 .. 511
         /\ DateStamp(mday, mon, year) \in 0 .. 65535
  BY SMTT(30) DEF DateStamp

(* A time is read back as it was, but for an odd second.                   *)
THEOREM TimeReadBack ==
  ASSUME NEW sec \in 0 .. 59, NEW min \in 0 .. 59, NEW hour \in 0 .. 23
  PROVE  /\ HoursOf(TimeStamp(sec, min, hour)) = hour
         /\ MinutesOf(TimeStamp(sec, min, hour)) = min
         /\ SecondsOf(TimeStamp(sec, min, hour)) \in {sec, sec - 1}
<1>1. HoursOf(TimeStamp(sec, min, hour)) = hour
  BY DEF TimeStamp, HoursOf
<1>2. MinutesOf(TimeStamp(sec, min, hour)) = min
  BY DEF TimeStamp, MinutesOf
<1>3. SecondsOf(TimeStamp(sec, min, hour)) \in {sec, sec - 1}
  BY DEF TimeStamp, SecondsOf
<1>4. QED
  BY <1>1, <1>2, <1>3

(* A date is not: the month is the one before, 0 for January, and the year *)
(* eighty years ahead, since tm_mon counts from 0 and tm_year from 1900.   *)
THEOREM DateReadBack ==
  ASSUME NEW mday \in 1 .. 31, NEW month \in 1 .. 12, NEW year \in 1900 .. 2027
  PROVE  /\ DayOf(DateStamp(mday, month - 1, year - 1900)) = mday
         /\ MonthOf(DateStamp(mday, month - 1, year - 1900)) = month - 1
         /\ YearOf(DateStamp(mday, month - 1, year - 1900)) = year + 80
<1>1. DayOf(DateStamp(mday, month - 1, year - 1900)) = mday
  BY DEF DateStamp, DayOf
<1>2. MonthOf(DateStamp(mday, month - 1, year - 1900)) = month - 1
  BY DEF DateStamp, MonthOf
<1>3. YearOf(DateStamp(mday, month - 1, year - 1900)) = year + 80
  BY DEF DateStamp, YearOf
<1>4. QED
  BY <1>1, <1>2, <1>3

(* Stamps compare as the dates do: of two different dates the later one    *)
(* has the greater stamp, so that they can be compared as numbers.         *)
THEOREM DatesOrdered ==
  ASSUME NEW mday1 \in 1 .. 31, NEW mon1 \in 0 .. 11, NEW year1 \in 0 .. 127,
         NEW mday2 \in 1 .. 31, NEW mon2 \in 0 .. 11, NEW year2 \in 0 .. 127,
         \/ year1 < year2
         \/ year1 = year2 /\ mon1 < mon2
         \/ year1 = year2 /\ mon1 = mon2 /\ mday1 < mday2
  PROVE  DateStamp(mday1, mon1, year1) < DateStamp(mday2, mon2, year2)
  BY DEF DateStamp
=============================================================================
