-------------------------------- MODULE Time --------------------------------
(***************************************************************************)
(* Core/Utility/Time.hpp: the functions that compute.  Times are seconds   *)
(* since the epoch, days are counted from it too; what the C library knows *)
(* of the calendar is the day its year starts with.                        *)
(***************************************************************************)
EXTENDS Integers

(* C++ division and remainder: towards zero. *)
Quot(a, b) == IF a >= 0 THEN a \div b ELSE -((-a) \div b)
Rem(a, b) == a - b * Quot(a, b)

(* static_cast<int> of an int64_t. *)
AsInt(n) == ((n + 2147483648) % 4294967296) - 2147483648

(* What FormatDurationHMS prints, two digits each or more. *)
FormatDurationHMS(totalSeconds) ==
    [hours   |-> AsInt(Quot(totalSeconds, 3600)),
     minutes |-> AsInt(Quot(Rem(totalSeconds, 3600), 60)),
     seconds |-> AsInt(Rem(totalSeconds, 60))]

(* Differences of two times in system_clock's unit, 100 nanoseconds. *)
TicksPerHour == 36000000000
DateDifferenceHours(a, b) == Quot(a - b, TicksPerHour)
DateDifferenceDays(a, b) == Quot(DateDifferenceHours(a, b), 24)

(* localtime and gmtime, of a second whose year starts with that day. *)
BrokenDown(second, yearStart) ==
    LET ofDay == second % 86400
    IN  [tm_hour |-> ofDay \div 3600,
         tm_min  |-> (ofDay % 3600) \div 60,
         tm_sec  |-> ofDay % 60,
         tm_yday |-> second \div 86400 - yearStart]

SecondOfDay(tm) == tm.tm_hour * 3600 + tm.tm_min * 60 + tm.tm_sec

GetLocalUTCOffsetSeconds(local_tm, utc_tm) ==
    SecondOfDay(local_tm) - SecondOfDay(utc_tm)
    + CASE local_tm.tm_yday > utc_tm.tm_yday -> 86400
        [] local_tm.tm_yday < utc_tm.tm_yday -> -86400
        [] OTHER -> 0
=============================================================================
