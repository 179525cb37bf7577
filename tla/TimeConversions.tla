-------------------------- MODULE TimeConversions --------------------------
(***************************************************************************)
(* The casters of absl_casters.h for absl::Time, absl::Duration, the civil *)
(* times and absl::TimeZone: a value goes from Python to C++ (load) and back (cast),    *)
(* any number of times, and in between Python may hold it in another, by   *)
(* its own rules equal, form.                                              *)
(*                                                                         *)
(* Points in time and durations are seconds, microseconds and ticks, as in *)
(* absl::Duration (a tick is 1/4 ns).  A date and time of day is the       *)
(* number of its civil second, counted from that of the epoch in the same  *)
(* time zone.  What load() refuses (returns false for) is not passed.      *)
(***************************************************************************)
EXTENDS Integers

CONSTANTS
  MicrosPerSecond, TicksPerMicro,   \* 1000000 and 4000
  Cycle,                \* the seconds after which the calendar repeats: 400 years
  Starts,               \* of each civil unit, the seconds of a cycle at which one begins
  Day,                  \* 86400 seconds
  FirstCivil, LastCivil,  \* of datetime: 0001-01-01 00:00:00, 9999-12-31 23:59:59
  IntFirst, IntLast,    \* of the years that fit a C int
  DoubleBits,           \* of the significand of a double: 53
  TimedeltaDays,        \* the most days of a timedelta
  Int64Max,             \* the largest Python int that is an int64_t, or a C long
  IntMax,               \* the largest C int
  ZoneNames,            \* names of the time zone database
  Offsets,              \* UTC offsets of time zones
  LocalOffset,          \* that of the local time zone
  Naive,                \* tzinfo=None
  FirstSecond, LastSecond   \* bound: seconds of the values that C++ makes

Units == {"CivilSecond", "CivilMinute", "CivilHour", "CivilDay", "CivilMonth", "CivilYear"}
DatetimeUnits == {"CivilSecond", "CivilMinute", "CivilHour"}

ASSUME ResolutionAssumption == MicrosPerSecond \in Nat \ {0, 1} /\ TicksPerMicro \in Nat \ {0}
ASSUME CycleAssumption == Cycle \in Nat \ {0} /\ Day \in Nat \ {0} /\ Cycle % Day = 0
(* A unit begins only where the next finer one does; all begin with a cycle. *)
ASSUME CalendarAssumption ==
  /\ Starts \in [Units -> SUBSET (0..(Cycle - 1))]
  /\ 0 \in Starts["CivilYear"]
  /\ Starts["CivilYear"] \subseteq Starts["CivilMonth"]
  /\ Starts["CivilMonth"] \subseteq Starts["CivilDay"]
  /\ Starts["CivilDay"] = {s \in 0..(Cycle - 1) : s % Day = 0}
  /\ Starts["CivilDay"] \subseteq Starts["CivilHour"]
  /\ Starts["CivilHour"] \subseteq Starts["CivilMinute"]
  /\ Starts["CivilSecond"] = 0..(Cycle - 1)
ASSUME YearAssumption == {FirstCivil, LastCivil, IntFirst, IntLast} \subseteq Int
ASSUME OffsetAssumption == Offsets \subseteq Int /\ {0, LocalOffset} \subseteq Offsets /\ Naive \notin Int
ASSUME RangeAssumption ==
  /\ {TimedeltaDays, Int64Max, IntMax} \subseteq Nat
  /\ IntMax <= Int64Max
  /\ {FirstSecond, LastSecond} \subseteq Int
(* A double tells the half seconds of every datetime, in any time zone.    *)
ASSUME DoubleAssumption ==
  /\ DoubleBits \in Nat \ {0}
  /\ {FirstCivil - Day, LastCivil + Day} \subseteq -(2^(DoubleBits - 1))..2^(DoubleBits - 1)

VARIABLES
  type,      \* what C++ takes and returns: "Time", "Duration", "Civil" or "TimeZone"
  py, cpp,   \* the value on either side, None if there is none
  turn,      \* the side that goes on with its value, the newer of the two
  first,     \* the first C++ value of the chain; for "Civil" the unit is
             \*   the coarsest so far
  reworked   \* Python changed the form of the value on the way

vars == <<type, py, cpp, turn, first, reworked>>

None == [kind |-> "None"]
Micros == 0..(MicrosPerSecond - 1)
Finite == [sec : Int, us : Micros, tick : 0..(TicksPerMicro - 1)]
Exact(sec, us) == [sec |-> sec, us |-> us, tick |-> 0]
Infinite == [infinite |-> "+"]         \* InfiniteFuture, InfiniteDuration
MinusInfinite == [infinite |-> "-"]    \* InfinitePast, -InfiniteDuration
Civils == [unit : Units, civil : Int]
Zones == [zone : ZoneNames \cup Int]   \* by name, or by offset from UTC

InDatetime(civil) == civil \in FirstCivil..LastCivil

LastStart(second, unit) ==
  CHOOSE s \in Starts[unit] : s <= second /\ Starts[unit] \cap (s + 1)..second = {}
Align(civil, unit) == civil - (civil % Cycle) + LastStart(civil % Cycle, unit)

Datetime(civil, us, tz) == [kind |-> "datetime", civil |-> civil, us |-> us, tz |-> tz]
Date(civil) == [kind |-> "date", civil |-> Align(civil, "CivilDay")]
Timedelta(sec, us, is_max) == [kind |-> "timedelta", sec |-> sec, us |-> us, is_max |-> is_max]
Int_(n) == [kind |-> "int", n |-> n]
Float(t) == [kind |-> "float", t |-> t]
Str(zone) == [kind |-> "str", zone |-> zone]

Objects ==
  [kind : {"datetime"}, civil : Int, us : Micros, tz : Offsets \cup {Naive}]
    \cup [kind : {"date"}, civil : Int]
    \cup [kind : {"timedelta", "time"}, sec : Int, us : Micros, is_max : BOOLEAN]
    \cup [kind : {"int"}, n : Int]
    \cup [kind : {"float"}, t : Finite \cup {Infinite, MinusInfinite}]
    \cup [kind : {"str"}, zone : ZoneNames \cup Int]

Types == {"Time", "Duration", "Civil", "TimeZone"}
ValuesOf(t) ==
  CASE t = "Civil" -> Civils
    [] t = "TimeZone" -> Zones
    [] OTHER -> Finite \cup {Infinite, MinusInfinite}

\* One invariant: the chain holds what casters and Python can make.
TypeOK ==
  /\ type \in Types
  /\ py \in Objects \cup {None}
  /\ {cpp, first} \subseteq {None} \cup ValuesOf(type)
  /\ turn \in {"Python", "C++"} /\ reworked \in BOOLEAN
  /\ turn = "C++" => cpp # None
-----------------------------------------------------------------------------
(* The values a chain begins with.                                         *)
Seconds == FirstSecond..LastSecond
CivilSeconds == {c \in Seconds : InDatetime(c)}
CppFinite == [sec : Seconds, us : Micros, tick : 0..(TicksPerMicro - 1)]
CppValues ==
  CASE type = "Civil" -> {[unit |-> u, civil |-> Align(c, u)] : u \in Units, c \in Seconds}
    [] type = "TimeZone" -> {[zone |-> z] : z \in ZoneNames \cup -Day..Day}
    [] OTHER -> CppFinite \cup {Infinite, MinusInfinite}

Datetimes == {Datetime(c, us, tz) : c \in CivilSeconds, us \in Micros, tz \in Offsets \cup {Naive}}
Dates == {Date(c) : c \in CivilSeconds}
Numbers == {Int_(n) : n \in Seconds \cup {Int64Max + 1}}
             \cup {Float(t) : t \in CppFinite \cup {Infinite, MinusInfinite}}
TimedeltaSeconds == -TimedeltaDays * Day .. (TimedeltaDays + 1) * Day - 1
TimedeltaMax == Timedelta((TimedeltaDays + 1) * Day - 1, MicrosPerSecond - 1, TRUE)
Timedeltas ==
  [kind : {"timedelta"}, sec : TimedeltaSeconds, us : Micros, is_max : {FALSE}] \cup {TimedeltaMax}
TimesOfDay == [kind : {"time"}, sec : 0..(Day - 1), us : Micros, is_max : {FALSE}]
PyValues ==
  CASE type = "Time" -> Datetimes \cup Dates \cup Numbers
    [] type = "Duration" -> Timedeltas \cup TimesOfDay \cup Numbers
    [] type = "Civil" -> Datetimes \cup Dates
    [] type = "TimeZone" -> {Int_(n) : n \in Seconds \cup {Int64Max + 1}}
                              \cup {Str(z) : z \in ZoneNames \cup -Day..Day}

Init ==
  /\ type \in Types
  /\ reworked = FALSE
  /\ \/ turn = "Python" /\ py \in PyValues /\ cpp = None /\ first = None
     \/ turn = "C++" /\ cpp \in CppValues /\ py = None /\ first = cpp

(* load() and cast() are done, with a value or by an exception.            *)
Loaded(v) ==
  /\ turn' = "C++" /\ cpp' = v
  /\ first' = IF first = None THEN v ELSE first
  /\ UNCHANGED <<type, py, reworked>>
LoadRaises == cpp' = None /\ UNCHANGED <<type, py, turn, first, reworked>>

Returned(p) == turn' = "Python" /\ py' = p /\ UNCHANGED <<type, cpp, first, reworked>>
ReturnRaises == py' = None /\ UNCHANGED <<type, cpp, turn, first, reworked>>

Passing(t, kinds) == turn = "Python" /\ type \in t /\ py.kind \in kinds
Returning(t) == turn = "C++" /\ type = t
-----------------------------------------------------------------------------
(* absl::Time                                                              *)
DatetimeMax == Datetime(LastCivil, MicrosPerSecond - 1, 0)
DatetimeMin == Datetime(FirstCivil, 0, 0)

\* Mutant: compares with datetime.max and min, which have no time zone.
IsSpecialNaive(p, special) == p.civil = special.civil /\ p.us = special.us /\ p.tz = Naive

is_special_datetime(p, special) == p.civil = special.civil /\ p.us = special.us

(* datetime.timestamp() of a naive datetime looks at the local time of the *)
(* instant, and a day before it for the other reading of an ambiguous      *)
(* time.                                                                   *)
TimestampRaises(p) ==
  p.tz = Naive /\ ~(InDatetime(p.civil - Day) /\ InDatetime(p.civil + LocalOffset))

\* Mutant: a time zone is taken for the local one.
InstantAsLocal(p) == p.civil - LocalOffset

InstantOf(p) == p.civil - (IF p.tz = Naive THEN LocalOffset ELSE p.tz)

(* The doubles at least 2^k and less than 2^(k+1) are 2^(k+1-DoubleBits)   *)
(* apart.  datetime.timestamp() is the nearest one: the next whole second  *)
(* if that is no farther than half of this (a tie goes to the even one).   *)
(* So is 999999 us from 2^34 s on, 999997 us from 2^35 s (the year 3058),  *)
(* and the last 15 us of a second at the end of the year 9999.             *)
Magnitude(sec) == IF sec >= 0 THEN sec ELSE -sec - 1
RoundedUp(sec, us) ==
  \E k \in 0..DoubleBits :
    /\ 2^k <= Magnitude(sec)
    /\ (MicrosPerSecond - us) * 2^DoubleBits <= 2^k * MicrosPerSecond

\* Mutant: rounds the timestamp instead of discarding its fraction.
TimestampRounded(p) == InstantOf(p) + (IF 2 * p.us > MicrosPerSecond THEN 1 ELSE 0)

(* std::floor(dt_timestamp_dbl)                                            *)
TimestampFloor(p) == InstantOf(p) + (IF RoundedUp(InstantOf(p), p.us) THEN 1 ELSE 0)

LoadDatetime ==
  /\ Passing({"Time"}, {"datetime"})
  /\ \/ is_special_datetime(py, DatetimeMax) /\ Loaded(Infinite)
     \/ is_special_datetime(py, DatetimeMin) /\ Loaded(MinusInfinite)
     \/ /\ ~is_special_datetime(py, DatetimeMax)
        /\ ~is_special_datetime(py, DatetimeMin)
        /\ IF TimestampRaises(py)
             THEN LoadRaises
             ELSE Loaded(Exact(TimestampFloor(py), py.us))

LoadDate == Passing({"Time"}, {"date"}) /\ Loaded(Exact(py.civil - LocalOffset, 0))

LoadFloat == Passing({"Time", "Duration"}, {"float"}) /\ Loaded(py.t)

LoadInt ==
  /\ Passing({"Time", "Duration"}, {"int"})
  /\ IF py.n \in (-Int64Max - 1)..Int64Max THEN Loaded(Exact(py.n, 0)) ELSE LoadRaises

YearFits(t) == t.sec \in IntFirst..IntLast

(* DateTime_FromDateAndTime takes an int, CivilSecond::year() is 64 bits   *)
(* wide: of a year that does not fit, its low bits make another year, and  *)
(* a datetime unless that has no such day or datetime no such year.        *)
YearCut(civil) == {c \in FirstCivil..LastCivil : c % Day = civil % Day}

ReturnTime ==
  /\ Returning("Time")
  /\ \/ cpp = Infinite /\ Returned(DatetimeMax)
     \/ cpp = MinusInfinite /\ Returned(DatetimeMin)
     \/ /\ cpp \in Finite /\ YearFits(cpp)
        /\ IF InDatetime(cpp.sec) THEN Returned(Datetime(cpp.sec, cpp.us, 0)) ELSE ReturnRaises
     \/ /\ cpp \in Finite /\ ~YearFits(cpp)
        /\ ReturnRaises \/ \E civil \in YearCut(cpp.sec) : Returned(Datetime(civil, cpp.us, 0))

(* datetime.astimezone()                                                   *)
AsTimezone(tz) ==
  /\ turn = "Python" /\ py.kind = "datetime" /\ py.tz \notin {Naive, tz}
  /\ LET civil == py.civil - py.tz + tz IN
       InDatetime(civil) /\ py' = Datetime(civil, py.us, tz)
  /\ reworked' = TRUE
  /\ UNCHANGED <<type, cpp, turn, first>>
-----------------------------------------------------------------------------
(* absl::Duration                                                          *)
LoadTimeOfDay == Passing({"Duration"}, {"time"}) /\ Loaded(Exact(py.sec, py.us))

LoadTimedelta ==
  /\ Passing({"Duration"}, {"timedelta"})
  /\ Loaded(IF py.is_max THEN Infinite ELSE Exact(py.sec, py.us))

\* Mutant: the remainder is rounded down, as for a time.
RoundedDown(d) == Exact(d.sec, d.us)

\* Mutant: the microseconds are not carried.
TowardZeroUncarried(d) ==
  Exact(d.sec, IF d.sec >= 0 \/ d.tick = 0 THEN d.us ELSE d.us + 1)

(* IDivDuration() and ToInt64Microseconds() truncate toward zero; the      *)
(* timedelta then adds up seconds and microseconds of one sign.            *)
TowardZero(d) ==
  IF d.sec >= 0 \/ d.tick = 0 THEN Exact(d.sec, d.us)
  ELSE IF d.us + 1 < MicrosPerSecond THEN Exact(d.sec, d.us + 1)
  ELSE Exact(d.sec + 1, 0)

ReturnDuration ==
  /\ Returning("Duration")
  /\ \/ cpp = Infinite /\ Returned(TimedeltaMax)
     \/ cpp = MinusInfinite /\ ReturnRaises
     \/ /\ cpp \in Finite
        /\ LET d == TowardZero(cpp) IN
             IF d.sec \in TimedeltaSeconds THEN Returned(Timedelta(d.sec, d.us, FALSE)) ELSE ReturnRaises

(* An equal timedelta that is another object: by arithmetic, copy, pickle. *)
CopyTimedelta ==
  /\ turn = "Python" /\ py.kind = "timedelta" /\ py.is_max
  /\ py' = Timedelta(py.sec, py.us, FALSE)
  /\ reworked' = TRUE
  /\ UNCHANGED <<type, cpp, turn, first>>
-----------------------------------------------------------------------------
(* Civil times                                                             *)
\* Mutant: the time of day is never asked for.
DayOf(p) == Align(p.civil, "CivilDay")

(* A date has no hour, minute and second: 0.                               *)
SecondOf(p) == p.civil

LoadCivil(unit) ==
  /\ Passing({"Civil"}, {"datetime", "date"})
  /\ turn' = "C++"
  /\ cpp' = [unit |-> unit, civil |-> Align(SecondOf(py), unit)]
  /\ first' = IF first = None THEN cpp'
              ELSE IF Starts[unit] \subseteq Starts[first.unit] THEN [first EXCEPT !.unit = unit]
              ELSE first
  /\ UNCHANGED <<type, py, reworked>>

ReturnCivil ==
  /\ Returning("Civil")
  /\ IF ~InDatetime(cpp.civil) THEN ReturnRaises
     ELSE IF cpp.unit \in DatetimeUnits THEN Returned(Datetime(cpp.civil, 0, Naive))
     ELSE Returned(Date(cpp.civil))
-----------------------------------------------------------------------------
(* absl::TimeZone                                                          *)
FitsLong(n) == n \in (-Int64Max - 1)..Int64Max

(* PyLong_AsLong: the OverflowError that comes with -1 is left pending.    *)
AsLong(n) == IF FitsLong(n) THEN n ELSE -1
AsInt(n) == ((n + IntMax + 1) % (2 * (IntMax + 1))) - (IntMax + 1)

\* Mutant: the offset is taken for one west of UTC.
OffsetWest(n) == -AsInt(AsLong(n))

(* The argument of FixedTimeZone.                                          *)
OffsetOf(n) == AsInt(AsLong(n))

(* FixedTimeZone: an offset of more than a day is UTC.                     *)
FixedTimeZone(offset) == [zone |-> IF offset \in -Day..Day THEN offset ELSE 0]

LoadZone ==
  /\ Passing({"TimeZone"}, {"int", "str"})
  /\ Loaded(IF py.kind = "str" THEN [zone |-> py.zone] ELSE FixedTimeZone(OffsetOf(py.n)))

(* The name, of a fixed offset too.  In the call that PyLong_AsLong failed *)
(* in, Python finds the pending error and drops the result: SystemError.   *)
ReturnZone ==
  /\ Returning("TimeZone")
  /\ IF py.kind = "int" /\ ~FitsLong(py.n) THEN ReturnRaises ELSE Returned(Str(cpp.zone))
-----------------------------------------------------------------------------
Next ==
  \/ LoadDatetime \/ LoadDate \/ LoadFloat \/ LoadInt \/ ReturnTime
  \/ \E tz \in Offsets : AsTimezone(tz)
  \/ LoadTimeOfDay \/ LoadTimedelta \/ ReturnDuration \/ CopyTimedelta
  \/ \E unit \in Units : LoadCivil(unit)
  \/ ReturnCivil
  \/ LoadZone \/ ReturnZone

Spec == Init /\ [][Next]_vars
-----------------------------------------------------------------------------
(* The properties.                                                         *)

(* In some time zone the clock shows a value that stands for infinity.     *)
LooksInfinite(t) ==
  \E tz \in Offsets :
    LET p == Datetime(t.sec + tz, t.us, tz) IN
      is_special_datetime(p, DatetimeMax) \/ is_special_datetime(p, DatetimeMin)

\* A finite Time that goes to Python and back, shown in whatever time zone,
\* any number of times, only loses what is below a microsecond, and loses
\* it once.  Not so for the last microseconds of a second that a double
\* rounds up to the next one (RoundedUp), for times that some zone's clock
\* shows as a value that stands for infinity, and for years beyond a C int.
TimesComeBack ==
  type = "Time" /\ cpp # None /\ first \in Finite =>
    \/ cpp \in {first, Exact(first.sec, first.us)}
    \/ RoundedUp(first.sec, first.us)
    \/ LooksInfinite(first)
    \/ ~YearFits(first)

\* An infinite Time or Duration stays what it is and no -InfiniteDuration
\* comes back at all, unless Python shows the datetime in another time zone
\* or makes a copy of timedelta.max.
InfinitiesComeBack ==
  type \in {"Time", "Duration"} /\ cpp # None /\ first \in {Infinite, MinusInfinite} /\ ~reworked =>
    /\ cpp = first
    /\ type = "Duration" /\ first = MinusInfinite => py.kind # "timedelta"

Ticks(d) == (d.sec * MicrosPerSecond + d.us) * TicksPerMicro + d.tick
WholeMicros(ticks) ==
  IF ticks >= 0 THEN ticks - (ticks % TicksPerMicro) ELSE ticks + ((-ticks) % TicksPerMicro)

\* A finite Duration comes back truncated toward zero to a microsecond, the
\* same for both signs, and is never taken for infinity: not even when it is
\* as long as timedelta.max.
DurationsComeBack ==
  type = "Duration" /\ cpp # None /\ first \in Finite =>
    cpp \in Finite /\ Ticks(cpp) \in {Ticks(first), WholeMicros(Ticks(first))}

\* However a civil time is passed through the units, it is the first one cut
\* to the coarsest unit it went through: finer units add nothing, coarser
\* ones cut down, never round up.
CivilOnlyCoarsens ==
  type = "Civil" /\ cpp # None =>
    cpp.civil = Align(first.civil, first.unit)

\* A time zone comes back as it was, by its name, whether it was made from
\* a name or an offset.  An offset is the one that Python gave, or UTC if it
\* is more than a day: never another one, unless it is beyond a C int.
ZonesComeBack ==
  type = "TimeZone" /\ cpp # None =>
    /\ cpp = first
    /\ py.kind = "int" /\ turn = "C++" /\ py.n \in (-IntMax - 1)..IntMax =>
         cpp.zone = IF py.n \in -Day..Day THEN py.n ELSE 0

\* A datetime with a time zone determines the instant of the Time, to the
\* microsecond and whatever zone it is in, with the exceptions above.
AwareKeepsInstant ==
  type = "Time" /\ py.kind = "datetime" /\ cpp \in Finite =>
    \/ py.tz = Naive
    \/ is_special_datetime(py, DatetimeMax) \/ is_special_datetime(py, DatetimeMin)
    \/ ~YearFits(cpp)
    \/ RoundedUp(py.civil - py.tz, py.us)
    \/ cpp.sec = py.civil - py.tz /\ cpp.us = py.us

\* README: a datetime with a time zone determines the instant of the Time.
\* (Those that stand for infinity do not, by design, and a year beyond a C
\* int is another matter.)
AwareIsInstant ==
  type = "Time" /\ py.kind = "datetime" /\ cpp \in Finite =>
    \/ py.tz = Naive
    \/ is_special_datetime(py, DatetimeMax) \/ is_special_datetime(py, DatetimeMin)
    \/ ~YearFits(cpp)
    \/ cpp.sec = py.civil - py.tz
=============================================================================
