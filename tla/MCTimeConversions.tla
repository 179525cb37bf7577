------------------------- MODULE MCTimeConversions -------------------------
(* Nine microseconds a second and two ticks a microsecond; doubles of 7    *)
(* bits, which round up the last microsecond of a second from 16 s on and  *)
(* the last two from 32 s on, both within reach of datetime; a day of eight *)
(* seconds; a calendar that repeats after a year of five days and one of   *)
(* three, with months of one and of two days; datetimes of a short year    *)
(* and the long one after it, which begins with the epoch, and C++ values  *)
(* on both sides of every limit.                                           *)
EXTENDS TimeConversions

MCStarts ==
  [u \in Units |->
     CASE u = "CivilSecond" -> 0..63
       [] u = "CivilMinute" -> {2 * i : i \in 0..31}
       [] u = "CivilHour" -> {4 * i : i \in 0..15}
       [] u = "CivilDay" -> {8 * i : i \in 0..7}
       [] u = "CivilMonth" -> {0, 16, 24, 40, 56}
       [] u = "CivilYear" -> {0, 40}]

MCOffsets == {-3, 0, 5}
MCFirstCivil == -24
MCIntFirst == -64
MCFirstSecond == -70
=============================================================================
