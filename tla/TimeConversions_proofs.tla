----------------------- MODULE TimeConversions_proofs -----------------------
EXTENDS TimeConversions, WellFoundedInduction, TLAPS

LEMMA Distinct ==
  /\ None \notin Finite /\ Infinite \notin Finite /\ MinusInfinite \notin Finite
  /\ None # Infinite /\ None # MinusInfinite /\ Infinite # MinusInfinite
<1>1. None \notin Finite
  BY DEF None, Finite
<1>2. Infinite \notin Finite
  BY DEF Infinite, Finite
<1>3. MinusInfinite \notin Finite
  BY DEF MinusInfinite, Finite
<1>4. None # Infinite /\ None # MinusInfinite /\ Infinite # MinusInfinite
  BY DEF None, Infinite, MinusInfinite
<1> QED
  BY <1>1, <1>2, <1>3, <1>4

(* What a Time on its way looks like: the tick may be gone, and Python has  *)
(* the same instant in one of the time zones.                              *)
Safe(t) == ~RoundedUp(t.sec, t.us) /\ ~LooksInfinite(t) /\ YearFits(t)

TimeChain ==
  type = "Time" /\ first \in Finite /\ Safe(first) =>
    /\ cpp \in {first, Exact(first.sec, first.us)}
    /\ turn = "Python" =>
         /\ py.tz \in Offsets
         /\ py = Datetime(first.sec + py.tz, first.us, py.tz)

LEMMA TimeChainInit == Init => TimeChain
BY Distinct DEF Init, TimeChain

LEMMA TimeChainStep == TimeChain /\ [Next]_vars => TimeChain'
<1> SUFFICES ASSUME TimeChain, [Next]_vars,
                    type' = "Time", first' \in Finite, Safe(first')
             PROVE  /\ cpp' \in {first', Exact(first'.sec, first'.us)}
                    /\ turn' = "Python" =>
                         /\ py'.tz \in Offsets
                         /\ py' = Datetime(first'.sec + py'.tz, first'.us, py'.tz)
  BY DEF TimeChain, Safe, RoundedUp, LooksInfinite, YearFits
<1>1. CASE first = None
  <2>1. first' # None
    BY Distinct
  <2>2. type = "Time"
    BY DEF Next, vars, LoadDatetime, LoadDate, LoadFloat, LoadInt, Loaded, LoadRaises, ReturnTime,
           AsTimezone, LoadTimeOfDay, LoadTimedelta, ReturnDuration, CopyTimedelta, LoadCivil,
           ReturnCivil, LoadZone, ReturnZone, Returned, ReturnRaises
  <2>3. cpp' = first' /\ turn' = "C++"
    BY <1>1, <2>1, <2>2
    DEF Next, vars, LoadDatetime, LoadDate, LoadFloat, LoadInt, Loaded, LoadRaises, ReturnTime,
        AsTimezone, LoadTimeOfDay, LoadTimedelta, ReturnDuration, CopyTimedelta, LoadCivil,
        ReturnCivil, LoadZone, ReturnZone, Returned, ReturnRaises, Passing
  <2> QED
    BY <2>3
<1>2. CASE first # None
  <2>0. type = "Time"
    BY DEF Next, vars, LoadDatetime, LoadDate, LoadFloat, LoadInt, Loaded, LoadRaises, ReturnTime,
           AsTimezone, LoadTimeOfDay, LoadTimedelta, ReturnDuration, CopyTimedelta, LoadCivil,
           ReturnCivil, LoadZone, ReturnZone, Returned, ReturnRaises
  <2>1. first' = first
    BY <1>2, <2>0
    DEF Next, vars, LoadDatetime, LoadDate, LoadFloat, LoadInt, Loaded, LoadRaises, ReturnTime,
        AsTimezone, LoadTimeOfDay, LoadTimedelta, ReturnDuration, CopyTimedelta, LoadCivil,
        ReturnCivil, LoadZone, ReturnZone, Returned, ReturnRaises, Passing
  <2>2. /\ cpp \in {first, Exact(first.sec, first.us)}
        /\ turn = "Python" =>
             /\ py.tz \in Offsets
             /\ py = Datetime(first.sec + py.tz, first.us, py.tz)
    BY <2>0, <2>1 DEF TimeChain
  <2>3. /\ first \in Finite /\ first.sec \in Int /\ first.us \in Micros
        /\ ~RoundedUp(first.sec, first.us) /\ ~LooksInfinite(first) /\ YearFits(first)
    BY <2>1 DEF Safe, Finite
  <2>4. CASE LoadDatetime
    <3>1. /\ py.tz \in Offsets /\ py.civil = first.sec + py.tz /\ py.us = first.us
          /\ py = Datetime(first.sec + py.tz, first.us, py.tz)
      BY <2>2, <2>4 DEF LoadDatetime, Passing, Datetime
    <3>2. ~is_special_datetime(py, DatetimeMax) /\ ~is_special_datetime(py, DatetimeMin)
      BY <3>1, <2>3 DEF LooksInfinite
    <3>3. py.tz # Naive /\ py.tz \in Int
      BY <3>1, OffsetAssumption
    <3>4. InstantOf(py) = first.sec /\ ~TimestampRaises(py)
      BY <3>1, <3>3, <2>3 DEF InstantOf, TimestampRaises
    <3>5. TimestampFloor(py) = first.sec
      BY <3>1, <3>4, <2>3 DEF TimestampFloor
    <3>6. cpp' = Exact(first.sec, first.us) /\ turn' = "C++"
      BY <3>1, <3>2, <3>4, <3>5, <2>4 DEF LoadDatetime, Loaded
    <3> QED
      BY <3>6, <2>1
  <2>5. CASE ReturnTime
    <3>1. cpp.sec = first.sec /\ cpp.us = first.us /\ cpp \in Finite
      BY <2>2, <2>3, ResolutionAssumption DEF Finite, Exact
    <3>2. YearFits(cpp)
      BY <3>1, <2>3 DEF YearFits
    <3>3. \/ turn' = "Python" /\ py' = Datetime(first.sec, first.us, 0)
          \/ turn' = "C++"
      BY <3>1, <3>2, <2>5, Distinct DEF ReturnTime, Returned, ReturnRaises, Returning
    <3>4. cpp' = cpp
      BY <2>5 DEF ReturnTime, Returned, ReturnRaises
    <3>5. Datetime(first.sec, first.us, 0).tz = 0 /\ 0 \in Offsets /\ first.sec + 0 = first.sec
      BY <2>3, OffsetAssumption DEF Datetime
    <3> QED
      BY <3>3, <3>4, <3>5, <2>1, <2>2
  <2>6. CASE \E tz \in Offsets : AsTimezone(tz)
    <3>1. PICK tz \in Offsets : AsTimezone(tz)
      BY <2>6
    <3>2. /\ py.tz \in Offsets /\ py.civil = first.sec + py.tz /\ py.us = first.us
      BY <2>2, <3>1 DEF AsTimezone, Datetime
    <3>3. py' = Datetime(py.civil - py.tz + tz, py.us, tz) /\ cpp' = cpp
      BY <3>1 DEF AsTimezone
    <3>4. py.civil - py.tz + tz = first.sec + tz
      <4>1. py.tz \in Int /\ tz \in Int
        BY <3>2, OffsetAssumption
      <4>2. first.sec \in Int /\ py.civil = first.sec + py.tz
        BY <3>2, <2>3
      <4> QED
        BY <4>1, <4>2
    <3>5. py'.tz = tz
      BY <3>3 DEF Datetime
    <3> QED
      BY <3>2, <3>3, <3>4, <3>5, <2>1, <2>2
  <2>7. CASE CopyTimedelta
    BY <2>2, <2>7 DEF CopyTimedelta, Datetime
  <2>8. CASE LoadDate \/ LoadFloat \/ LoadInt
    BY <2>2, <2>8 DEF LoadDate, LoadFloat, LoadInt, Passing, Datetime
  <2>9. CASE \/ LoadTimeOfDay \/ LoadTimedelta \/ ReturnDuration \/ ReturnCivil
             \/ \E unit \in Units : LoadCivil(unit)
             \/ LoadZone \/ ReturnZone
    BY <2>0, <2>9
    DEF LoadTimeOfDay, LoadTimedelta, ReturnDuration, ReturnCivil, LoadCivil, LoadZone, ReturnZone,
        Passing, Returning
  <2>10. CASE UNCHANGED vars
    BY <2>2, <2>10 DEF vars
  <2> QED
    BY <2>4, <2>5, <2>6, <2>7, <2>8, <2>9, <2>10 DEF Next
<1> QED
  BY <1>1, <1>2

(* The conversions of absl::Time lose nothing but what they say: whatever  *)
(* the resolution, the time zones, the range of datetime and the range of  *)
(* seconds are.                                                            *)
THEOREM TimesSurvive == Spec => []TimesComeBack
<1>1. TimeChain => TimesComeBack
  BY DEF TimeChain, TimesComeBack, Safe
<1> QED
  BY <1>1, TimeChainInit, TimeChainStep, PTL DEF Spec
(* What an infinity on its way looks like.                                 *)
InfinityChain ==
  type \in {"Time", "Duration"} /\ first \in {Infinite, MinusInfinite} /\ ~reworked =>
    /\ cpp = first
    /\ type = "Duration" /\ first = MinusInfinite => py.kind # "timedelta"
    /\ turn = "Python" =>
         py = IF first = MinusInfinite THEN DatetimeMin
              ELSE IF type = "Time" THEN DatetimeMax ELSE TimedeltaMax

LEMMA Specials ==
  /\ ~is_special_datetime(DatetimeMax, DatetimeMin)
  /\ ~is_special_datetime(DatetimeMin, DatetimeMax)
  /\ DatetimeMax.kind = "datetime" /\ DatetimeMin.kind = "datetime"
  /\ TimedeltaMax.kind = "timedelta" /\ TimedeltaMax.is_max
BY ResolutionAssumption
DEF is_special_datetime, DatetimeMax, DatetimeMin, TimedeltaMax, Datetime, Timedelta

LEMMA InfinityChainInit == Init => InfinityChain
BY Distinct DEF Init, InfinityChain, None

LEMMA InfinityChainStep == InfinityChain /\ [Next]_vars => InfinityChain'
<1> SUFFICES ASSUME InfinityChain, [Next]_vars,
                    type' \in {"Time", "Duration"}, first' \in {Infinite, MinusInfinite}, ~reworked'
             PROVE  /\ cpp' = first'
                    /\ type' = "Duration" /\ first' = MinusInfinite => py'.kind # "timedelta"
                    /\ turn' = "Python" =>
                         py' = IF first' = MinusInfinite THEN DatetimeMin
                               ELSE IF type' = "Time" THEN DatetimeMax ELSE TimedeltaMax
  BY DEF InfinityChain
<1>0. /\ type' = type /\ type \in {"Time", "Duration"} /\ ~reworked /\ first' # None
      /\ ~(\E tz \in Offsets : AsTimezone(tz)) /\ ~CopyTimedelta
      /\ ~(\E unit \in Units : LoadCivil(unit)) /\ ~ReturnCivil /\ ~LoadZone /\ ~ReturnZone
  <2>1. ~(\E tz \in Offsets : AsTimezone(tz)) /\ ~CopyTimedelta
    BY DEF AsTimezone, CopyTimedelta
  <2>2. type' = type
    BY <2>1
    DEF Next, vars, LoadDatetime, LoadDate, LoadFloat, LoadInt, Loaded, LoadRaises, ReturnTime,
        LoadTimeOfDay, LoadTimedelta, ReturnDuration, LoadCivil, ReturnCivil, LoadZone, ReturnZone,
        Returned, ReturnRaises
  <2>3. reworked' = reworked
    BY <2>1
    DEF Next, vars, LoadDatetime, LoadDate, LoadFloat, LoadInt, Loaded, LoadRaises, ReturnTime,
        LoadTimeOfDay, LoadTimedelta, ReturnDuration, LoadCivil, ReturnCivil, LoadZone, ReturnZone,
        Returned, ReturnRaises
  <2>4. ~(\E unit \in Units : LoadCivil(unit)) /\ ~ReturnCivil /\ ~LoadZone /\ ~ReturnZone
    BY <2>2 DEF LoadCivil, ReturnCivil, LoadZone, ReturnZone, Passing, Returning
  <2>5. first' # None
    BY Distinct
  <2> QED
    BY <2>1, <2>2, <2>3, <2>4, <2>5
<1>1. CASE first = None
  <2>1. cpp' = first' /\ turn' = "C++" /\ py' = py
    BY <1>0, <1>1
    DEF Next, vars, LoadDatetime, LoadDate, LoadFloat, LoadInt, Loaded, LoadRaises, ReturnTime,
        LoadTimeOfDay, LoadTimedelta, ReturnDuration, Returned, ReturnRaises
  <2>2. type = "Duration" /\ first' = MinusInfinite => py.kind # "timedelta"
    <3>1. \A s, us : Exact(s, us) # MinusInfinite
      BY DEF Exact, MinusInfinite
    <3> QED
      BY <1>0, <1>1, <2>1, <3>1, Distinct
      DEF Next, vars, LoadDatetime, LoadDate, LoadFloat, LoadInt, Loaded, LoadRaises, ReturnTime,
          LoadTimeOfDay, LoadTimedelta, ReturnDuration, Returned, ReturnRaises, Passing
  <2> QED
    BY <1>0, <2>1, <2>2
<1>2. CASE first # None
  <2>1. first' = first
    BY <1>0, <1>2
    DEF Next, vars, LoadDatetime, LoadDate, LoadFloat, LoadInt, Loaded, LoadRaises, ReturnTime,
        LoadTimeOfDay, LoadTimedelta, ReturnDuration, Returned, ReturnRaises
  <2>2. /\ cpp = first /\ first \in {Infinite, MinusInfinite}
        /\ type = "Duration" /\ first = MinusInfinite => py.kind # "timedelta"
        /\ turn = "Python" =>
             py = IF first = MinusInfinite THEN DatetimeMin
                  ELSE IF type = "Time" THEN DatetimeMax ELSE TimedeltaMax
    BY <1>0, <2>1 DEF InfinityChain
  <2>3. CASE LoadDatetime
    BY <1>0, <2>1, <2>2, <2>3, Specials, Distinct
    DEF LoadDatetime, Loaded, Passing, is_special_datetime
  <2>4. CASE LoadTimedelta
    BY <1>0, <2>1, <2>2, <2>4, Specials, Distinct DEF LoadTimedelta, Loaded, Passing
  <2>5. CASE LoadDate \/ LoadFloat \/ LoadInt \/ LoadTimeOfDay
    BY <1>0, <2>1, <2>2, <2>5, Specials
    DEF LoadDate, LoadFloat, LoadInt, LoadTimeOfDay, Passing
  <2>6. CASE ReturnTime
    BY <1>0, <2>1, <2>2, <2>6, Specials, Distinct DEF ReturnTime, Returned, Returning
  <2>7. CASE ReturnDuration
    <3>1. type = "Duration" /\ cpp' = cpp /\ cpp \notin Finite
      BY <2>2, <2>7, Distinct DEF ReturnDuration, Returned, ReturnRaises, Returning
    <3>2. CASE cpp = Infinite
      <4>1. turn' = "Python" /\ py' = TimedeltaMax
        BY <2>7, <3>1, <3>2, Distinct DEF ReturnDuration, Returned
      <4> QED
        BY <1>0, <2>1, <2>2, <3>1, <3>2, <4>1, Distinct
    <3>3. CASE cpp = MinusInfinite
      <4>1. turn' = turn /\ turn = "C++" /\ py' = None
        BY <2>7, <3>1, <3>3, Distinct DEF ReturnDuration, ReturnRaises, Returning
      <4>2. None.kind # "timedelta"
        BY DEF None
      <4> QED
        BY <1>0, <2>1, <2>2, <3>1, <3>3, <4>1, <4>2
    <3> QED
      BY <2>2, <3>2, <3>3
  <2>8. CASE UNCHANGED vars
    BY <1>0, <2>1, <2>2, <2>8 DEF vars
  <2> QED
    BY <1>0, <2>3, <2>4, <2>5, <2>6, <2>7, <2>8 DEF Next
<1> QED
  BY <1>1, <1>2

(* Infinite times and durations stay infinite on the way, whatever the     *)
(* range of datetime and of timedelta is.                                  *)
THEOREM InfinitiesSurvive == Spec => []InfinitiesComeBack
<1>1. InfinityChain => InfinitiesComeBack
  BY DEF InfinityChain, InfinitiesComeBack
<1> QED
  BY <1>1, InfinityChainInit, InfinityChainStep, PTL DEF Spec
LEMMA ModUnique ==
  ASSUME NEW a \in Int, NEW n \in Nat \ {0}, NEW r \in 0..(n - 1)
  PROVE  (a * n + r) % n = r
<1> DEFINE x == a * n + r
           q == x \div n
           m == x % n
<1>0. x \in Int
  OBVIOUS
<1>1. q \in Int /\ m \in 0..(n - 1) /\ x = n * q + m
  BY <1>0
<1>2. (a - q) * n = m - r
  BY <1>1
<1>3. m - r < n /\ m - r > -n
  BY <1>1
<1>4. a - q = 0
  <2>1. CASE a - q >= 1
    <3>1. (a - q) * n >= n
      BY <1>1, <2>1
    <3> QED
      BY <3>1, <1>2, <1>3
  <2>2. CASE a - q <= -1
    <3>1. (a - q) * n <= -n
      BY <1>1, <2>2
    <3> QED
      BY <3>1, <1>2, <1>3
  <2> QED
    BY <1>1, <2>1, <2>2
<1> QED
  BY <1>1, <1>2, <1>4
LEMMA TowardZeroExact ==
  ASSUME NEW d \in Finite
  PROVE  /\ TowardZero(d) \in Finite
         /\ TowardZero(d) = Exact(TowardZero(d).sec, TowardZero(d).us)
         /\ TowardZero(TowardZero(d)) = TowardZero(d)
<1>1. d.sec \in Int /\ d.us \in Micros /\ d.tick \in 0..(TicksPerMicro - 1)
  BY DEF Finite
<1>2. PICK s \in Int, u \in Micros : TowardZero(d) = Exact(s, u)
  <2>1. TowardZero(d) \in {Exact(d.sec, d.us), Exact(d.sec, d.us + 1), Exact(d.sec + 1, 0)}
    BY DEF TowardZero
  <2>2. CASE TowardZero(d) = Exact(d.sec, d.us)
    BY <1>1, <2>2
  <2>3. CASE d.sec < 0 /\ d.tick # 0 /\ d.us + 1 < MicrosPerSecond
    <3>1. TowardZero(d) = Exact(d.sec, d.us + 1)
      BY <1>1, <2>3 DEF TowardZero
    <3>2. d.us + 1 \in Micros
      BY <1>1, <2>3, ResolutionAssumption DEF Micros
    <3> QED
      BY <1>1, <3>1, <3>2
  <2>4. CASE d.sec < 0 /\ d.tick # 0 /\ ~(d.us + 1 < MicrosPerSecond)
    <3>1. TowardZero(d) = Exact(d.sec + 1, 0)
      BY <1>1, <2>4 DEF TowardZero
    <3>2. 0 \in Micros /\ d.sec + 1 \in Int
      BY <1>1, ResolutionAssumption DEF Micros
    <3> QED
      BY <3>1, <3>2
  <2> QED
    BY <1>1, <2>2, <2>3, <2>4 DEF TowardZero
<1>3. Exact(s, u).sec = s /\ Exact(s, u).us = u /\ Exact(s, u).tick = 0
  BY DEF Exact
<1>4. Exact(s, u) \in Finite
  BY ResolutionAssumption DEF Exact, Finite
<1>5. TowardZero(Exact(s, u)) = Exact(s, u)
  BY <1>3 DEF TowardZero
<1> QED
  BY <1>2, <1>3, <1>4, <1>5

(* The detailed truncation is that of the number of ticks.                 *)
LEMMA TowardZeroTicks ==
  ASSUME NEW d \in Finite
  PROVE  Ticks(TowardZero(d)) = WholeMicros(Ticks(d))
<1> DEFINE micros == d.sec * MicrosPerSecond + d.us
<1>1. /\ d.sec \in Int /\ d.us \in 0..(MicrosPerSecond - 1) /\ d.tick \in 0..(TicksPerMicro - 1)
      /\ MicrosPerSecond \in Nat \ {0} /\ TicksPerMicro \in Nat \ {0}
  BY ResolutionAssumption DEF Finite, Micros
<1>2. micros \in Int /\ Ticks(d) = micros * TicksPerMicro + d.tick
  BY <1>1 DEF Ticks
<1>3. Ticks(d) % TicksPerMicro = d.tick
  BY <1>1, <1>2, ModUnique
<1>4. CASE d.sec >= 0
  <2>1. micros >= 0
    BY <1>1, <1>4
  <2>2. micros * TicksPerMicro >= 0
    BY <1>1, <1>2, <2>1
  <2>3. WholeMicros(Ticks(d)) = micros * TicksPerMicro
    BY <1>1, <1>2, <1>3, <2>2 DEF WholeMicros
  <2>4. TowardZero(d) = Exact(d.sec, d.us)
    BY <1>4 DEF TowardZero
  <2> QED
    BY <1>1, <1>2, <2>3, <2>4 DEF Ticks, Exact
<1>5. CASE d.sec < 0
  <2>1. micros <= -1
    <3>1. d.sec * MicrosPerSecond <= -MicrosPerSecond
      BY <1>1, <1>5
    <3> QED
      BY <1>1, <3>1
  <2>2. micros * TicksPerMicro <= -TicksPerMicro
    BY <1>1, <1>2, <2>1
  <2>3. Ticks(d) < 0
    BY <1>1, <1>2, <2>2
  <2>4. CASE d.tick = 0
    <3>1. -Ticks(d) = (-micros) * TicksPerMicro + 0
      BY <1>1, <1>2, <2>4
    <3>2. (-Ticks(d)) % TicksPerMicro = 0
      <4>1. -micros \in Int /\ 0 \in 0..(TicksPerMicro - 1)
        BY <1>1, <1>2
      <4>2. ((-micros) * TicksPerMicro + 0) % TicksPerMicro = 0
        BY <1>1, <4>1, ModUnique
      <4> QED
        BY <3>1, <4>2
    <3>3. WholeMicros(Ticks(d)) = Ticks(d)
      BY <1>1, <1>2, <2>3, <3>2 DEF WholeMicros
    <3>4. TowardZero(d) = Exact(d.sec, d.us)
      BY <2>4 DEF TowardZero
    <3> QED
      BY <1>1, <1>2, <2>4, <3>3, <3>4 DEF Ticks, Exact
  <2>5. CASE d.tick # 0
    <3>1. -Ticks(d) = (-micros - 1) * TicksPerMicro + (TicksPerMicro - d.tick)
      BY <1>1, <1>2
    <3>2. TicksPerMicro - d.tick \in 0..(TicksPerMicro - 1)
      BY <1>1, <2>5
    <3>3. (-Ticks(d)) % TicksPerMicro = TicksPerMicro - d.tick
      <4>1. -micros - 1 \in Int
        BY <1>2
      <4>2. ((-micros - 1) * TicksPerMicro + (TicksPerMicro - d.tick)) % TicksPerMicro
               = TicksPerMicro - d.tick
        BY <1>1, <3>2, <4>1, ModUnique
      <4> QED
        BY <3>1, <4>2
    <3>4. WholeMicros(Ticks(d)) = (micros + 1) * TicksPerMicro
      <4>1. WholeMicros(Ticks(d)) = Ticks(d) + (TicksPerMicro - d.tick)
        BY <1>1, <1>2, <2>3, <3>3 DEF WholeMicros
      <4> QED
        BY <1>1, <1>2, <4>1
    <3>5. CASE d.us + 1 < MicrosPerSecond
      <4>1. TowardZero(d) = Exact(d.sec, d.us + 1)
        BY <1>1, <1>5, <2>5, <3>5 DEF TowardZero
      <4>2. Ticks(TowardZero(d)) = (d.sec * MicrosPerSecond + (d.us + 1)) * TicksPerMicro + 0
        BY <4>1 DEF Ticks, Exact
      <4>3. d.sec * MicrosPerSecond + (d.us + 1) = micros + 1
        BY <1>1
      <4>4. (micros + 1) * TicksPerMicro \in Int
        BY <1>1, <1>2
      <4> HIDE DEF micros
      <4> QED
        BY <3>4, <4>2, <4>3, <4>4
    <3>6. CASE ~(d.us + 1 < MicrosPerSecond)
      <4>1. TowardZero(d) = Exact(d.sec + 1, 0) /\ d.us + 1 = MicrosPerSecond
        BY <1>1, <1>5, <2>5, <3>6 DEF TowardZero
      <4>2. micros + 1 = (d.sec + 1) * MicrosPerSecond
        BY <1>1, <4>1
      <4> QED
        BY <1>1, <3>4, <4>1, <4>2 DEF Ticks, Exact
    <3> QED
      BY <3>5, <3>6
  <2> QED
    BY <2>4, <2>5
<1> QED
  BY <1>1, <1>4, <1>5

DurationChain ==
  type = "Duration" /\ first \in Finite =>
    /\ cpp \in {first, TowardZero(first)}
    /\ turn = "Python" =>
         py = Timedelta(TowardZero(first).sec, TowardZero(first).us, FALSE)

LEMMA DurationChainInit == Init => DurationChain
BY Distinct DEF Init, DurationChain

LEMMA DurationChainStep == DurationChain /\ [Next]_vars => DurationChain'
<1> SUFFICES ASSUME DurationChain, [Next]_vars, type' = "Duration", first' \in Finite
             PROVE  /\ cpp' \in {first', TowardZero(first')}
                    /\ turn' = "Python" =>
                         py' = Timedelta(TowardZero(first').sec, TowardZero(first').us, FALSE)
  BY DEF DurationChain, TowardZero
<1>0. type = "Duration" /\ first' # None
  <2>1. type' = type
    BY DEF Next, vars, LoadDatetime, LoadDate, LoadFloat, LoadInt, Loaded, LoadRaises, ReturnTime,
           AsTimezone, LoadTimeOfDay, LoadTimedelta, ReturnDuration, CopyTimedelta, LoadCivil,
           ReturnCivil, LoadZone, ReturnZone, Returned, ReturnRaises
  <2> QED
    BY <2>1, Distinct
<1>1. CASE first = None
  <2>1. cpp' = first' /\ turn' = "C++"
    BY <1>0, <1>1
    DEF Next, vars, LoadDatetime, LoadDate, LoadFloat, LoadInt, Loaded, LoadRaises, ReturnTime,
        AsTimezone, LoadTimeOfDay, LoadTimedelta, ReturnDuration, CopyTimedelta, LoadCivil,
        ReturnCivil, LoadZone, ReturnZone, Returned, ReturnRaises, Passing
  <2> QED
    BY <2>1
<1>2. CASE first # None
  <2>1. first' = first
    BY <1>0, <1>2
    DEF Next, vars, LoadDatetime, LoadDate, LoadFloat, LoadInt, Loaded, LoadRaises, ReturnTime,
        AsTimezone, LoadTimeOfDay, LoadTimedelta, ReturnDuration, CopyTimedelta, LoadCivil,
        ReturnCivil, LoadZone, ReturnZone, Returned, ReturnRaises, Passing
  <2>2. /\ cpp \in {first, TowardZero(first)} /\ first \in Finite
        /\ turn = "Python" =>
             py = Timedelta(TowardZero(first).sec, TowardZero(first).us, FALSE)
    BY <1>0, <2>1 DEF DurationChain
  <2>3. CASE LoadTimedelta
    <3>1. py = Timedelta(TowardZero(first).sec, TowardZero(first).us, FALSE)
      BY <2>2, <2>3 DEF LoadTimedelta, Passing
    <3>2. cpp' = Exact(TowardZero(first).sec, TowardZero(first).us) /\ turn' = "C++"
      BY <3>1, <2>3 DEF LoadTimedelta, Loaded, Timedelta
    <3> QED
      BY <2>1, <2>2, <3>2, TowardZeroExact
  <2>4. CASE ReturnDuration
    <3>1. cpp \in Finite /\ TowardZero(cpp) = TowardZero(first)
      BY <2>2, TowardZeroExact
    <3>2. /\ cpp' = cpp
          /\ \/ turn' = "C++"
             \/ py' = Timedelta(TowardZero(first).sec, TowardZero(first).us, FALSE)
      BY <3>1, <2>4, Distinct DEF ReturnDuration, Returned, ReturnRaises, Returning
    <3> QED
      BY <2>1, <2>2, <3>2
  <2>5. CASE LoadFloat \/ LoadInt \/ LoadTimeOfDay
    BY <2>2, <2>5 DEF LoadFloat, LoadInt, LoadTimeOfDay, Passing, Timedelta
  <2>6. CASE CopyTimedelta \/ \E tz \in Offsets : AsTimezone(tz)
    BY <2>2, <2>6 DEF CopyTimedelta, AsTimezone, Timedelta
  <2>7. CASE \/ LoadDatetime \/ LoadDate \/ ReturnTime \/ ReturnCivil \/ LoadZone \/ ReturnZone
             \/ \E unit \in Units : LoadCivil(unit)
    BY <1>0, <2>7
    DEF LoadDatetime, LoadDate, ReturnTime, ReturnCivil, LoadCivil, LoadZone, ReturnZone, Passing, Returning
  <2>8. CASE UNCHANGED vars
    BY <2>1, <2>2, <2>8 DEF vars
  <2> QED
    BY <2>3, <2>4, <2>5, <2>6, <2>7, <2>8 DEF Next
<1> QED
  BY <1>1, <1>2

(* A duration is truncated toward zero, once, whatever the resolution and  *)
(* the range of timedelta are.                                             *)
THEOREM DurationsSurvive == Spec => []DurationsComeBack
<1>1. DurationChain => DurationsComeBack
  BY TowardZeroExact, TowardZeroTicks DEF DurationChain, DurationsComeBack
<1> QED
  BY <1>1, DurationChainInit, DurationChainStep, PTL DEF Spec

(* Every nonempty set of natural numbers has a least one.                  *)
LEMMA LeastNatural ==
  ASSUME NEW T, T \subseteq Nat, T # {}
  PROVE  \E x \in T : \A y \in T : x <= y
<1> DEFINE R == {ss \in Nat \X Nat : ss[1] < ss[2]}
<1>1. IsWellFoundedOn(R, Nat)
  BY NatLessThanWellFounded DEF OpToRel
<1> HIDE DEF R
<1>2. PICK x \in T : \A y \in T : ~(<<y, x>> \in R)
  BY <1>1, WFMin
<1>3. \A y \in T : x <= y
  <2> TAKE y \in T
  <2>1. x \in Nat /\ y \in Nat
    OBVIOUS
  <2>2. ~(y < x)
    BY <1>2, <2>1 DEF R
  <2> QED
    BY <2>1, <2>2
<1> QED
  BY <1>3

LEMMA StartsByUnit ==
  ASSUME NEW u \in Units
  PROVE  Starts[u] \subseteq 0..(Cycle - 1) /\ 0 \in Starts[u]
<1>1. \A s \in 0..(Cycle - 1) : s \in Starts["CivilSecond"]
  BY CalendarAssumption
<1> QED
  BY CalendarAssumption, CycleAssumption DEF Units

LEMMA UnitsNested ==
  ASSUME NEW u \in Units, NEW v \in Units
  PROVE  Starts[u] \subseteq Starts[v] \/ Starts[v] \subseteq Starts[u]
<1>1. Starts["CivilMinute"] \subseteq Starts["CivilSecond"]
  BY CalendarAssumption, StartsByUnit DEF Units
<1> QED
  BY <1>1, CalendarAssumption DEF Units

LEMMA LatestStart ==
  ASSUME NEW u \in Units, NEW second \in 0..(Cycle - 1)
  PROVE  /\ LastStart(second, u) \in Starts[u]
         /\ LastStart(second, u) <= second
         /\ \A s \in Starts[u] : s <= second => s <= LastStart(second, u)
<1> DEFINE T == {second - s : s \in {t \in Starts[u] : t <= second}}
           Latest(s) == s <= second /\ Starts[u] \cap (s + 1)..second = {}
<1>0. Starts[u] \subseteq Nat /\ 0 \in Starts[u] /\ second \in Nat
  BY StartsByUnit, CycleAssumption
<1>1. \E s \in Starts[u] : Latest(s)
  <2>1. T \subseteq Nat
    BY <1>0
  <2>2. T # {}
    <3>1. second - 0 \in T
      BY <1>0
    <3> QED
      BY <3>1
  <2>3. PICK x \in T : \A y \in T : x <= y
    BY <2>1, <2>2, LeastNatural
  <2>4. PICK s \in Starts[u] : s <= second /\ x = second - s
    OBVIOUS
  <2>5. ASSUME NEW t \in Starts[u], t \in (s + 1)..second PROVE FALSE
    <3>1. second - t \in T /\ t \in Nat /\ s \in Nat /\ s < t
      BY <1>0, <2>5
    <3>2. x <= second - t
      BY <2>3, <3>1
    <3> QED
      BY <1>0, <2>4, <3>1, <3>2
  <2> QED
    BY <2>4, <2>5
<1>2. LastStart(second, u) \in Starts[u] /\ Latest(LastStart(second, u))
  BY <1>1 DEF LastStart
<1>3. ASSUME NEW s \in Starts[u], s <= second PROVE s <= LastStart(second, u)
  <2>1. s \in Nat /\ LastStart(second, u) \in Nat
    BY <1>0, <1>2
  <2>2. s \notin (LastStart(second, u) + 1)..second
    BY <1>2, <1>3
  <2> QED
    BY <1>0, <1>3, <2>1, <2>2
<1> QED
  BY <1>2, <1>3

(* Cutting to nested units, in either order, is cutting to the coarser one. *)
LEMMA LastStartNested ==
  ASSUME NEW u \in Units, NEW v \in Units, Starts[u] \subseteq Starts[v],
         NEW second \in 0..(Cycle - 1)
  PROVE  /\ LastStart(LastStart(second, u), v) = LastStart(second, u)
         /\ LastStart(LastStart(second, v), u) = LastStart(second, u)
<1> DEFINE b == LastStart(second, u)
           c == LastStart(second, v)
<1>1. \A w \in Units, s \in 0..(Cycle - 1) : LastStart(s, w) \in 0..(Cycle - 1)
  BY LatestStart, StartsByUnit
<1>2. b \in 0..(Cycle - 1) /\ c \in 0..(Cycle - 1)
  BY <1>1
<1>3. b \in Starts[v] /\ b \in Starts[u] /\ b <= second /\ c <= second
  BY LatestStart
<1>4. LastStart(b, v) = b
  <2>1. LastStart(b, v) <= b /\ b <= LastStart(b, v)
    BY <1>2, <1>3, LatestStart
  <2> QED
    BY <1>1, <1>2, <2>1, CycleAssumption
<1>5. LastStart(c, u) = b
  <2>1. b <= c
    BY <1>3, LatestStart
  <2>2. b <= LastStart(c, u)
    BY <1>2, <1>3, <2>1, LatestStart
  <2>3. LastStart(c, u) \in Starts[u] /\ LastStart(c, u) <= c
    BY <1>2, LatestStart
  <2>4. LastStart(c, u) <= second
    BY <1>1, <1>2, <1>3, <2>3, CycleAssumption
  <2>5. LastStart(c, u) <= b
    BY <2>3, <2>4, LatestStart
  <2> QED
    BY <1>1, <1>2, <2>2, <2>5, CycleAssumption
<1> QED
  BY <1>4, <1>5

LEMMA AlignInt ==
  ASSUME NEW civil \in Int, NEW u \in Units
  PROVE  /\ Align(civil, u) \in Int
         /\ Align(civil, u) % Cycle = LastStart(civil % Cycle, u)
         /\ Align(civil, u) - (Align(civil, u) % Cycle) = civil - (civil % Cycle)
<1> DEFINE r == LastStart(civil % Cycle, u)
           q == civil \div Cycle
<1>1. civil % Cycle \in 0..(Cycle - 1) /\ q \in Int /\ civil = q * Cycle + (civil % Cycle)
  BY CycleAssumption
<1>2. r \in 0..(Cycle - 1)
  BY <1>1, LatestStart, StartsByUnit
<1>3. Align(civil, u) = q * Cycle + r
  BY <1>1, <1>2, CycleAssumption DEF Align
<1>4. (q * Cycle + r) % Cycle = r
  BY <1>1, <1>2, CycleAssumption, ModUnique
<1>5. q * Cycle \in Int
  BY <1>1, CycleAssumption
<1> QED
  BY <1>1, <1>2, <1>3, <1>4, <1>5, CycleAssumption

LEMMA AlignNested ==
  ASSUME NEW civil \in Int, NEW u \in Units, NEW v \in Units, Starts[u] \subseteq Starts[v]
  PROVE  /\ Align(Align(civil, u), v) = Align(civil, u)
         /\ Align(Align(civil, v), u) = Align(civil, u)
<1>1. civil % Cycle \in 0..(Cycle - 1)
  BY CycleAssumption
<1>2. /\ LastStart(Align(civil, u) % Cycle, v) = LastStart(civil % Cycle, u)
      /\ LastStart(Align(civil, v) % Cycle, u) = LastStart(civil % Cycle, u)
  BY <1>1, AlignInt, LastStartNested
<1>3. /\ Align(civil, u) - (Align(civil, u) % Cycle) = civil - (civil % Cycle)
      /\ Align(civil, v) - (Align(civil, v) % Cycle) = civil - (civil % Cycle)
  BY AlignInt
<1> QED
  BY <1>2, <1>3 DEF Align
LEMMA TimedeltaType ==
  ASSUME NEW sec \in Int, NEW us \in Micros
  PROVE  Timedelta(sec, us, FALSE) \in Objects
<1>1. [kind |-> "timedelta", sec |-> sec, us |-> us, is_max |-> FALSE]
        \in [kind : {"timedelta", "time"}, sec : Int, us : Micros, is_max : BOOLEAN]
  OBVIOUS
<1> QED
  BY <1>1, Zenon DEF Timedelta, Objects

LEMMA ValuesByType ==
  /\ ValuesOf("Time") = Finite \cup {Infinite, MinusInfinite}
  /\ ValuesOf("Duration") = Finite \cup {Infinite, MinusInfinite}
  /\ ValuesOf("Civil") = Civils
  /\ ValuesOf("TimeZone") = Zones
BY DEF ValuesOf

LEMMA TypeOKInit == Init => TypeOK
<1> SUFFICES ASSUME Init PROVE TypeOK
  OBVIOUS
<1>1. Seconds \subseteq Int /\ Day \in Nat \ {0}
  BY RangeAssumption, CycleAssumption DEF Seconds
<1>2. \A c \in Int, u \in Units : Align(c, u) \in Int
  BY AlignInt
<1>3. CppFinite \subseteq Finite
  BY <1>1 DEF CppFinite, Finite
<1>4. Datetimes \subseteq Objects
  BY <1>1 DEF Datetimes, Datetime, Objects, CivilSeconds
<1>5. Dates \subseteq Objects
  BY <1>1, <1>2 DEF Dates, Date, Objects, CivilSeconds, Units
<1>6. Numbers \subseteq Objects
  BY <1>1, <1>3, RangeAssumption DEF Numbers, Int_, Float, Objects
<1>7. TimedeltaSeconds \subseteq Int /\ TimedeltaMax \in Objects
  BY <1>1, RangeAssumption, ResolutionAssumption
  DEF TimedeltaSeconds, TimedeltaMax, Timedelta, Objects, Micros
<1>8. Timedeltas \subseteq Objects
  BY <1>7 DEF Timedeltas, Objects
<1>9. TimesOfDay \subseteq Objects
  <2>1. 0..(Day - 1) \subseteq Int /\ {FALSE} \subseteq BOOLEAN
    BY <1>1
  <2>2. TimesOfDay \subseteq [kind : {"timedelta", "time"}, sec : Int, us : Micros, is_max : BOOLEAN]
    BY <2>1 DEF TimesOfDay
  <2> QED
    BY <2>2 DEF Objects
<1>10. \A z \in ZoneNames \cup Int : Str(z) \in Objects /\ [zone |-> z] \in Zones
  BY DEF Str, Objects, Zones
<1>11. \A n \in Int : Int_(n) \in Objects
  BY DEF Int_, Objects
<1>12. (-Day)..Day \subseteq Int /\ Seconds \cup {Int64Max + 1} \subseteq Int
  <2>1. Int64Max + 1 \in Int
    BY RangeAssumption
  <2>2. -Day \in Int /\ Day \in Int
    BY <1>1
  <2>3. (-Day)..Day \subseteq Int
    BY <2>2
  <2> QED
    BY <1>1, <2>1, <2>3
<1>13. py \in PyValues \cup {None} => py \in Objects \cup {None}
  <2>1. CASE type = "TimeZone"
    BY <1>10, <1>11, <1>12, <2>1 DEF PyValues
  <2>2. CASE type # "TimeZone"
    BY <1>4, <1>5, <1>6, <1>8, <1>9, <2>2 DEF Init, Types, PyValues
  <2> QED
    BY <2>1, <2>2
<1>14. CppValues \subseteq ValuesOf(type)
  <2>1. CASE type = "Civil"
    <3>1. \A u \in Units, c \in Seconds : [unit |-> u, civil |-> Align(c, u)] \in Civils
      BY <1>1, <1>2 DEF Civils
    <3>2. CppValues = {[unit |-> u, civil |-> Align(c, u)] : u \in Units, c \in Seconds}
      BY <2>1 DEF CppValues
    <3> QED
      BY <2>1, <3>1, <3>2, ValuesByType
  <2>2. CASE type = "TimeZone"
    BY <1>10, <1>12, <2>2, ValuesByType DEF CppValues
  <2>3. CASE type \in {"Time", "Duration"}
    BY <1>3, <2>3, ValuesByType DEF CppValues
  <2> QED
    BY <2>1, <2>2, <2>3 DEF Init, Types
<1>15. None \notin CppValues
  BY <1>14, Distinct DEF Init, Types, ValuesOf, Civils, Zones, None
<1> QED
  BY <1>13, <1>14, <1>15 DEF Init, TypeOK
(* The Python objects by kind.                                             *)
LEMMA ByKind ==
  ASSUME NEW p \in Objects \cup {None}
  PROVE  /\ p.kind = "datetime" => p.civil \in Int /\ p.us \in Micros /\ p.tz \in Offsets \cup {Naive}
         /\ p.kind = "date" => p.civil \in Int
         /\ p.kind \in {"timedelta", "time"} => p.sec \in Int /\ p.us \in Micros
         /\ p.kind = "int" => p.n \in Int
         /\ p.kind = "str" => p.zone \in ZoneNames \cup Int
         /\ p.kind = "float" => p.t \in Finite \cup {Infinite, MinusInfinite}
BY DEF Objects, None

LEMMA TypeOKStep == TypeOK /\ [Next]_vars => TypeOK'
<1> SUFFICES ASSUME TypeOK, [Next]_vars PROVE TypeOK'
  OBVIOUS
<1> DEFINE Values == ValuesOf(type)
<1>0. /\ py \in Objects \cup {None} /\ {cpp, first} \subseteq {None} \cup Values
      /\ type \in Types
      /\ turn \in {"Python", "C++"} /\ reworked \in BOOLEAN
      /\ turn = "C++" => cpp # None
  BY DEF TypeOK
<1>a. \A c \in Int, u \in Units : Align(c, u) \in Int
  BY AlignInt
<1>b. ASSUME NEW v \in Values, Loaded(v) PROVE TypeOK'
  <2>1. v # None
    BY Distinct DEF ValuesOf, Civils, Zones, None
  <2> QED
    BY <1>0, <1>b, <2>1 DEF Loaded, TypeOK
<1>c. ASSUME turn = "Python", LoadRaises PROVE TypeOK'
  BY <1>0, <1>c DEF LoadRaises, TypeOK
<1>d. ASSUME NEW p \in Objects \cup {None}, Returned(p) PROVE TypeOK'
  BY <1>0, <1>d DEF Returned, TypeOK
<1>e. ASSUME ReturnRaises PROVE TypeOK'
  BY <1>0, <1>e DEF ReturnRaises, TypeOK
<1>f. \A sec \in Int, us \in Micros : Exact(sec, us) \in Finite
  BY ResolutionAssumption DEF Exact, Finite
<1>g. 0 \in Micros /\ MicrosPerSecond - 1 \in Micros
  BY ResolutionAssumption DEF Micros
<1>h. LocalOffset \in Int /\ Offsets \subseteq Int /\ 0 \in Offsets
  BY OffsetAssumption
<1>i. \A civil \in Int, us \in Micros, tz \in Offsets \cup {Naive} : Datetime(civil, us, tz) \in Objects
  BY DEF Datetime, Objects
<1>1. CASE LoadDatetime
  <2>1. InstantOf(py) \in Int /\ py.us \in Micros /\ type = "Time"
    <3>1. py.kind = "datetime" /\ type = "Time"
      BY <1>1 DEF LoadDatetime, Passing
    <3>2. py.civil \in Int /\ py.us \in Micros /\ (py.tz = Naive \/ py.tz \in Int)
      BY <1>0, <1>h, <3>1, ByKind
    <3> QED
      BY <1>h, <3>1, <3>2 DEF InstantOf
  <2>2. Exact(TimestampFloor(py), py.us) \in Finite
    BY <2>1, <1>f DEF TimestampFloor
  <2> QED
    BY <1>1, <2>1, <2>2, <1>b, <1>c, ValuesByType DEF LoadDatetime, Passing
<1>2. CASE LoadDate
  <2>1. py.civil \in Int /\ type = "Time"
    BY <1>0, <1>2, ByKind DEF LoadDate, Passing
  <2>2. Exact(py.civil - LocalOffset, 0) \in Values
    BY <2>1, <1>f, <1>g, <1>h, ValuesByType
  <2> QED
    BY <1>2, <2>2, <1>b DEF LoadDate
<1>3. CASE LoadFloat
  <2>1. py.t \in Values
    BY <1>0, <1>3, ByKind, ValuesByType DEF LoadFloat, Passing
  <2> QED
    BY <1>3, <2>1, <1>b DEF LoadFloat
<1>4. CASE LoadInt
  <2>1. Exact(py.n, 0) \in Values
    BY <1>0, <1>4, <1>f, <1>g, ByKind, ValuesByType DEF LoadInt, Passing
  <2> QED
    BY <1>4, <2>1, <1>b, <1>c DEF LoadInt, Passing
<1>5. CASE ReturnTime
  <2>1. DatetimeMax \in Objects /\ DatetimeMin \in Objects
    BY <1>g, <1>h, <1>i, YearAssumption DEF DatetimeMax, DatetimeMin
  <2>2. ASSUME cpp \in Finite
        PROVE  \A civil \in {cpp.sec} \cup YearCut(cpp.sec) : Datetime(civil, cpp.us, 0) \in Objects
    <3>1. cpp.sec \in Int /\ cpp.us \in Micros
      BY <2>2 DEF Finite
    <3>2. YearCut(cpp.sec) \subseteq Int
      BY YearAssumption DEF YearCut
    <3> QED
      BY <3>1, <3>2, <1>h, <1>i
  <2> QED
    BY <1>5, <2>1, <2>2, <1>d, <1>e DEF ReturnTime
<1>6. CASE \E tz \in Offsets : AsTimezone(tz)
  <2>1. PICK tz \in Offsets : AsTimezone(tz)
    BY <1>6
  <2>2. py.civil \in Int /\ py.us \in Micros /\ py.tz \in Int
    BY <1>0, <2>1, <1>h, ByKind DEF AsTimezone
  <2>3. py.civil - py.tz + tz \in Int
    BY <2>2, <1>h
  <2>4. py' \in Objects
    BY <2>1, <2>2, <2>3, <1>i DEF AsTimezone
  <2> QED
    BY <1>0, <2>1, <2>4 DEF AsTimezone, TypeOK
<1>7. CASE LoadTimeOfDay
  <2>1. Exact(py.sec, py.us) \in Values
    BY <1>0, <1>7, <1>f, ByKind, ValuesByType DEF LoadTimeOfDay, Passing
  <2> QED
    BY <1>7, <2>1, <1>b DEF LoadTimeOfDay
<1>8. CASE LoadTimedelta
  <2>1. type = "Duration" /\ Exact(py.sec, py.us) \in Finite
    BY <1>0, <1>8, <1>f, ByKind DEF LoadTimedelta, Passing
  <2>2. (IF py.is_max THEN Infinite ELSE Exact(py.sec, py.us)) \in Values
    BY <2>1, ValuesByType
  <2> QED
    BY <1>8, <2>2, <1>b DEF LoadTimedelta
<1>9. CASE ReturnDuration
  <2>1. TimedeltaMax \in Objects
    <3>1. Day \in Nat /\ (TimedeltaDays + 1) * Day - 1 \in Int
      BY CycleAssumption, RangeAssumption
    <3> QED
      BY <3>1, <1>g DEF TimedeltaMax, Timedelta, Objects
  <2>2. ASSUME cpp \in Finite PROVE Timedelta(TowardZero(cpp).sec, TowardZero(cpp).us, FALSE) \in Objects
    <3>1. TowardZero(cpp).sec \in Int /\ TowardZero(cpp).us \in Micros
      BY <2>2, TowardZeroExact DEF Finite
    <3> QED
      BY <3>1, TimedeltaType
  <2> QED
    BY <1>9, <2>1, <2>2, <1>d, <1>e DEF ReturnDuration
<1>10. CASE CopyTimedelta
  <2>1. py.sec \in Int /\ py.us \in Micros /\ py.kind = "timedelta"
    BY <1>0, <1>10, ByKind DEF CopyTimedelta
  <2>2. Timedelta(py.sec, py.us, FALSE) \in Objects
    BY <2>1, TimedeltaType
  <2> QED
    BY <1>0, <1>10, <2>2 DEF CopyTimedelta, TypeOK
<1>11. CASE \E unit \in Units : LoadCivil(unit)
  <2>1. PICK unit \in Units : LoadCivil(unit)
    BY <1>11
  <2>2. type = "Civil" /\ py.civil \in Int
    BY <1>0, <2>1, ByKind DEF LoadCivil, Passing
  <2>3. cpp' \in Civils
    BY <2>1, <2>2, <1>a DEF LoadCivil, SecondOf, Civils
  <2>4. first' \in Civils
    <3>1. first = None \/ first \in Civils
      BY <1>0, <2>2, ValuesByType
    <3>2. first \in Civils => [first EXCEPT !.unit = unit] \in Civils
      BY <2>1 DEF Civils
    <3> QED
      BY <2>1, <2>3, <3>1, <3>2 DEF LoadCivil
  <2>5. cpp' # None
    BY <2>3 DEF Civils, None
  <2> QED
    BY <1>0, <2>1, <2>2, <2>3, <2>4, <2>5, ValuesByType DEF LoadCivil, TypeOK
<1>12. CASE ReturnCivil
  <2>1. type = "Civil" /\ cpp \in Civils \cup {None}
    BY <1>0, <1>12, ValuesByType DEF ReturnCivil, Returning
  <2>2. cpp # None
    BY <1>0, <1>12 DEF ReturnCivil, Returning
  <2>3. CASE cpp \in Civils
    <3>1. cpp.civil \in Int
      BY <2>3 DEF Civils
    <3>2. Datetime(cpp.civil, 0, Naive) \in Objects
      BY <3>1, <1>g, <1>i
    <3>3. Date(cpp.civil) \in Objects
      BY <3>1, <1>a DEF Date, Objects, Units
    <3> QED
      BY <1>12, <3>2, <3>3, <1>d, <1>e DEF ReturnCivil
  <2> QED
    BY <2>1, <2>2, <2>3
<1>13. CASE LoadZone
  <2>1. type = "TimeZone" /\ (py.kind = "str" => py.zone \in ZoneNames \cup Int)
    BY <1>0, <1>13, ByKind DEF LoadZone, Passing
  <2>2. FixedTimeZone(OffsetOf(py.n)) \in Zones
    BY CycleAssumption DEF FixedTimeZone, Zones
  <2>3. (IF py.kind = "str" THEN [zone |-> py.zone] ELSE FixedTimeZone(OffsetOf(py.n))) \in Values
    BY <1>13, <2>1, <2>2 DEF LoadZone, Passing, Zones, ValuesOf
  <2> QED
    BY <1>13, <2>3, <1>b DEF LoadZone
<1>14. CASE ReturnZone
  <2>1. cpp \in Zones
    BY <1>0, <1>14 DEF ReturnZone, Returning, ValuesOf
  <2>2. Str(cpp.zone) \in Objects
    BY <2>1 DEF Str, Objects, Zones
  <2> QED
    BY <1>14, <2>2, <1>d, <1>e DEF ReturnZone
<1>15. CASE UNCHANGED vars
  BY <1>0, <1>15 DEF vars, TypeOK
<1> QED
  BY <1>1, <1>2, <1>3, <1>4, <1>5, <1>6, <1>7, <1>8, <1>9, <1>10, <1>11, <1>12, <1>13, <1>14, <1>15 DEF Next

(* Only values that the casters and Python can make are ever on the way.   *)
THEOREM TypeCorrect == Spec => []TypeOK
BY TypeOKInit, TypeOKStep, PTL DEF Spec

(* What a time zone on its way looks like.                                 *)
ZoneChain ==
  type = "TimeZone" /\ cpp # None =>
    /\ cpp = first
    /\ turn = "Python" => py = Str(first.zone)
    /\ turn = "C++" /\ py.kind = "int" => cpp = FixedTimeZone(OffsetOf(py.n))

NoZoneYet == type = "TimeZone" /\ cpp = None => first = None

LEMMA ZoneChainInit == Init => ZoneChain /\ NoZoneYet
BY DEF Init, ZoneChain, NoZoneYet, None

LEMMA ZoneChainStep == TypeOK /\ ZoneChain /\ NoZoneYet /\ [Next]_vars => ZoneChain' /\ NoZoneYet'
<1> SUFFICES ASSUME TypeOK, ZoneChain, NoZoneYet, [Next]_vars, type' = "TimeZone"
             PROVE  ZoneChain' /\ NoZoneYet'
  BY DEF ZoneChain, NoZoneYet
<1>0. type = "TimeZone"
  BY DEF Next, vars, LoadDatetime, LoadDate, LoadFloat, LoadInt, Loaded, LoadRaises, ReturnTime,
         AsTimezone, LoadTimeOfDay, LoadTimedelta, ReturnDuration, CopyTimedelta, LoadCivil,
         ReturnCivil, LoadZone, ReturnZone, Returned, ReturnRaises
<1>1. CASE LoadZone
  <2>1. PICK v \in {[zone |-> py.zone], FixedTimeZone(OffsetOf(py.n))} :
          /\ v = IF py.kind = "str" THEN [zone |-> py.zone] ELSE FixedTimeZone(OffsetOf(py.n))
          /\ Loaded(v)
    BY <1>1 DEF LoadZone
  <2>2. v # None /\ turn = "Python"
    BY <1>1, <2>1 DEF LoadZone, Passing, FixedTimeZone, None
  <2>3. cpp = None \/ (cpp = first /\ v = first)
    <3>1. cpp # None => cpp \in Zones /\ py = Str(first.zone) /\ cpp = first
      BY <1>0, <2>2, ValuesByType DEF TypeOK, ZoneChain
    <3> QED
      BY <2>1, <3>1 DEF Str, Zones
  <2> QED
    BY <1>0, <2>1, <2>2, <2>3 DEF Loaded, ZoneChain, NoZoneYet
<1>2. CASE ReturnZone
  <2>1. cpp = first /\ cpp' = cpp /\ first' = first /\ cpp # None
    BY <1>0, <1>2 DEF ReturnZone, Returning, Returned, ReturnRaises, ZoneChain, TypeOK
  <2>2. \/ turn' = "Python" /\ py' = Str(cpp.zone)
        \/ turn' = "C++" /\ py' = None
    BY <1>2 DEF ReturnZone, Returning, Returned, ReturnRaises
  <2> QED
    BY <2>1, <2>2 DEF ZoneChain, NoZoneYet, None
<1>3. CASE CopyTimedelta \/ \E tz \in Offsets : AsTimezone(tz)
  <2>1. /\ turn = "Python" /\ py.kind \in {"timedelta", "datetime"}
        /\ cpp' = cpp /\ first' = first
    BY <1>3 DEF CopyTimedelta, AsTimezone
  <2>2. cpp = None
    BY <1>0, <2>1 DEF ZoneChain, Str
  <2> QED
    BY <1>0, <2>1, <2>2 DEF ZoneChain, NoZoneYet
<1>4. CASE \/ LoadDatetime \/ LoadDate \/ LoadFloat \/ LoadInt \/ ReturnTime
           \/ LoadTimeOfDay \/ LoadTimedelta \/ ReturnDuration
           \/ ReturnCivil \/ \E unit \in Units : LoadCivil(unit)
  BY <1>0, <1>4
  DEF LoadDatetime, LoadDate, LoadFloat, LoadInt, ReturnTime, LoadTimeOfDay, LoadTimedelta,
      ReturnDuration, ReturnCivil, LoadCivil, Passing, Returning
<1>5. CASE UNCHANGED vars
  BY <1>0, <1>5 DEF vars, ZoneChain, NoZoneYet
<1> QED
  BY <1>1, <1>2, <1>3, <1>4, <1>5 DEF Next

(* Time zones come back by name, and offsets within a C int are never      *)
(* taken for others, whatever the ranges of int and long are.              *)
THEOREM ZonesSurvive == Spec => []ZonesComeBack
<1>1. ASSUME NEW n \in (-IntMax - 1)..IntMax PROVE OffsetOf(n) = n
  <2>1. IntMax \in Nat /\ Int64Max \in Nat /\ IntMax <= Int64Max
    BY RangeAssumption
  <2>2. AsLong(n) = n
    BY <2>1 DEF AsLong, FitsLong
  <2>3. (n + IntMax + 1) % (2 * (IntMax + 1)) = n + IntMax + 1
    BY <2>1
  <2> QED
    BY <2>1, <2>2, <2>3 DEF OffsetOf, AsInt
<1>2. ZoneChain => ZonesComeBack
  BY <1>1 DEF ZoneChain, ZonesComeBack, FixedTimeZone
<1> QED
  BY <1>2, TypeCorrect, ZoneChainInit, ZoneChainStep, PTL DEF Spec

(* What a civil time on its way looks like: the first one, cut to the      *)
(* coarsest unit so far, that of the value or a coarser one; Python has it *)
(* as it is, with no time zone to move it.                                 *)
CivilChain ==
  type = "Civil" /\ first # None =>
    /\ {first, cpp} \subseteq Civils
    /\ cpp.civil = Align(first.civil, first.unit)
    /\ Starts[first.unit] \subseteq Starts[cpp.unit]
    /\ turn = "Python" =>
         py \in {Datetime(cpp.civil, 0, Naive), [kind |-> "date", civil |-> cpp.civil]}

NoCivilYet == type = "Civil" /\ first = None => cpp = None

LEMMA CivilChainInit == Init => CivilChain /\ NoCivilYet
<1> SUFFICES ASSUME Init, type = "Civil", turn = "C++" PROVE CivilChain /\ NoCivilYet
  BY DEF Init, CivilChain, NoCivilYet
<1>1. PICK u \in Units, c \in Seconds : cpp = [unit |-> u, civil |-> Align(c, u)] /\ first = cpp
  BY DEF Init, CppValues
<1>2. c \in Int
  BY RangeAssumption DEF Seconds
<1>3. Align(Align(c, u), u) = Align(c, u) /\ Align(c, u) \in Int
  BY <1>2, AlignInt, AlignNested
<1>4. first \in Civils /\ first # None
  BY <1>1, <1>3 DEF Civils, None
<1> QED
  BY <1>1, <1>3, <1>4 DEF CivilChain, NoCivilYet

LEMMA CivilChainStep ==
  TypeOK /\ CivilChain /\ NoCivilYet /\ [Next]_vars => CivilChain' /\ NoCivilYet'
<1> SUFFICES ASSUME TypeOK, CivilChain, NoCivilYet, [Next]_vars, type' = "Civil"
             PROVE  CivilChain' /\ NoCivilYet'
  BY DEF CivilChain, NoCivilYet
<1>0. type = "Civil"
  BY DEF Next, vars, LoadDatetime, LoadDate, LoadFloat, LoadInt, Loaded, LoadRaises, ReturnTime,
         AsTimezone, LoadTimeOfDay, LoadTimedelta, ReturnDuration, CopyTimedelta, LoadCivil,
         ReturnCivil, LoadZone, ReturnZone, Returned, ReturnRaises
<1>1. CASE \E unit \in Units : LoadCivil(unit)
  <2>1. PICK unit \in Units : LoadCivil(unit)
    BY <1>1
  <2>2. /\ turn' = "C++" /\ turn = "Python" /\ py.civil \in Int
        /\ cpp' = [unit |-> unit, civil |-> Align(py.civil, unit)]
    BY <2>1, ByKind DEF LoadCivil, SecondOf, Passing, TypeOK
  <2>3. cpp' \in Civils /\ Align(py.civil, unit) \in Int
    BY <2>2, AlignInt DEF Civils
  <2>4. None \notin Civils
    BY DEF Civils, None
  <2>5. CASE first = None
    <3>1. first' = cpp'
      BY <2>1, <2>5 DEF LoadCivil
    <3>2. Align(Align(py.civil, unit), unit) = Align(py.civil, unit)
      BY <2>2, AlignNested
    <3> QED
      BY <2>2, <2>3, <2>4, <3>1, <3>2 DEF CivilChain, NoCivilYet
  <2>6. CASE first # None
    <3>1. /\ first.unit \in Units /\ first.civil \in Int /\ first \in Civils
          /\ py.civil = Align(first.civil, first.unit)
      BY <1>0, <2>2, <2>6 DEF CivilChain, Civils, Datetime
    <3>2. CASE Starts[unit] \subseteq Starts[first.unit]
      <4>1. first' = [first EXCEPT !.unit = unit]
        BY <2>1, <2>6, <3>2 DEF LoadCivil
      <4>2. first' = [unit |-> unit, civil |-> first.civil] /\ first' \in Civils
        BY <3>1, <4>1 DEF Civils
      <4>3. Align(py.civil, unit) = Align(first.civil, unit)
        BY <3>1, <3>2, AlignNested
      <4>4. first'.unit = unit /\ first'.civil = first.civil /\ cpp'.unit = unit
        BY <2>2, <4>2
      <4>5. cpp'.civil = Align(first.civil, unit)
        BY <2>2, <4>3
      <4> QED
        BY <2>2, <2>3, <2>4, <4>2, <4>4, <4>5 DEF CivilChain, NoCivilYet
    <3>3. CASE ~(Starts[unit] \subseteq Starts[first.unit])
      <4>1. first' = first
        BY <2>1, <2>6, <3>3 DEF LoadCivil
      <4>2. Starts[first.unit] \subseteq Starts[unit]
        BY <3>1, <3>3, UnitsNested
      <4>3. Align(py.civil, unit) = Align(first.civil, first.unit)
        BY <3>1, <4>2, AlignNested
      <4> QED
        BY <2>2, <2>3, <2>4, <2>6, <3>1, <4>1, <4>2, <4>3 DEF CivilChain, NoCivilYet
    <3> QED
      BY <3>2, <3>3
  <2> QED
    BY <2>5, <2>6
<1>2. CASE ReturnCivil
  <2>1. /\ first # None /\ cpp' = cpp /\ first' = first
        /\ {first, cpp} \subseteq Civils /\ cpp.civil = Align(first.civil, first.unit)
        /\ Starts[first.unit] \subseteq Starts[cpp.unit]
    BY <1>0, <1>2
    DEF ReturnCivil, Returning, Returned, ReturnRaises, CivilChain, NoCivilYet, TypeOK
  <2>2. ASSUME cpp.unit \notin DatetimeUnits PROVE Align(cpp.civil, "CivilDay") = cpp.civil
    <3>1. cpp.unit \in {"CivilDay", "CivilMonth", "CivilYear"}
      BY <2>1, <2>2 DEF Civils, Units, DatetimeUnits
    <3>2. Starts[cpp.unit] \subseteq Starts["CivilDay"]
      BY <3>1, CalendarAssumption
    <3>3. first.civil \in Int /\ first.unit \in Units /\ "CivilDay" \in Units
      BY <2>1 DEF Civils, Units
    <3> QED
      BY <2>1, <3>2, <3>3, AlignNested
  <2>3. \/ turn' = "C++"
        \/ turn' = "Python" /\ py' \in {Datetime(cpp.civil, 0, Naive), [kind |-> "date", civil |-> cpp.civil]}
    BY <1>2, <2>2 DEF ReturnCivil, Returning, Returned, ReturnRaises, Date
  <2> QED
    BY <2>1, <2>3 DEF CivilChain, NoCivilYet
<1>3. CASE CopyTimedelta \/ \E tz \in Offsets : AsTimezone(tz)
  <2>1. /\ turn = "Python" /\ cpp' = cpp /\ first' = first
        /\ py.kind \notin {"datetime", "date"} \/ (py.kind = "datetime" /\ py.tz # Naive)
    BY <1>3 DEF CopyTimedelta, AsTimezone
  <2>2. first = None
    BY <1>0, <2>1 DEF CivilChain, Datetime
  <2> QED
    BY <1>0, <2>1, <2>2 DEF CivilChain, NoCivilYet
<1>4. CASE \/ LoadDatetime \/ LoadDate \/ LoadFloat \/ LoadInt \/ ReturnTime
           \/ LoadTimeOfDay \/ LoadTimedelta \/ ReturnDuration \/ LoadZone \/ ReturnZone
  BY <1>0, <1>4
  DEF LoadDatetime, LoadDate, LoadFloat, LoadInt, LoadTimeOfDay, LoadTimedelta, LoadZone, Passing,
      ReturnTime, ReturnDuration, ReturnZone, Returning
<1>5. CASE UNCHANGED vars
  BY <1>5 DEF vars, CivilChain, NoCivilYet
<1> QED
  BY <1>1, <1>2, <1>3, <1>4, <1>5 DEF Next

(* A civil time that went through any units in any order is the first one  *)
(* cut to the coarsest of them, in every calendar whose units are nested:  *)
(* months and years need not be of one length.                             *)
THEOREM CivilTimesCoarsen == Spec => []CivilOnlyCoarsens
<1>1. CivilChain /\ NoCivilYet => CivilOnlyCoarsens
  BY DEF CivilChain, NoCivilYet, CivilOnlyCoarsens
<1> QED
  BY <1>1, TypeCorrect, CivilChainInit, CivilChainStep, PTL DEF Spec

(* What a datetime with a time zone has to do with the Time: as long as    *)
(* Python has it, that is its instant, unless it has been cut to an int's  *)
(* years; what C++ has made of it is what load() computes.                 *)
AwareChain ==
  type = "Time" /\ cpp \in Finite /\ YearFits(cpp) /\ py.kind = "datetime" /\ py.tz # Naive =>
    \/ cpp.sec = py.civil - py.tz /\ cpp.us = py.us
    \/ /\ turn = "C++"
       /\ \/ is_special_datetime(py, DatetimeMax) \/ is_special_datetime(py, DatetimeMin)
          \/ RoundedUp(py.civil - py.tz, py.us)

LEMMA AwareChainInit == Init => AwareChain
BY Distinct DEF Init, AwareChain, None

LEMMA AwareChainStep == TypeOK /\ AwareChain /\ [Next]_vars => AwareChain'
<1> SUFFICES ASSUME TypeOK, AwareChain, [Next]_vars,
                    type' = "Time", cpp' \in Finite, YearFits(cpp)',
                    py'.kind = "datetime", py'.tz # Naive
             PROVE  AwareChain'
  BY DEF AwareChain
<1>0. type = "Time"
  BY DEF Next, vars, LoadDatetime, LoadDate, LoadFloat, LoadInt, Loaded, LoadRaises, ReturnTime,
         AsTimezone, LoadTimeOfDay, LoadTimedelta, ReturnDuration, CopyTimedelta, LoadCivil,
         ReturnCivil, LoadZone, ReturnZone, Returned, ReturnRaises
<1>1. CASE LoadDatetime
  <2>1. py' = py /\ py.civil \in Int /\ py.tz \in Int
    BY <1>1, ByKind, OffsetAssumption DEF LoadDatetime, Loaded, LoadRaises, Passing, TypeOK
  <2>2. CASE is_special_datetime(py, DatetimeMax) \/ is_special_datetime(py, DatetimeMin)
    <3>1. turn' = "C++"
      BY <1>1, <2>2 DEF LoadDatetime, Loaded
    <3> QED
      BY <2>1, <2>2, <3>1 DEF AwareChain, is_special_datetime, DatetimeMax, DatetimeMin
  <2>3. CASE ~is_special_datetime(py, DatetimeMax) /\ ~is_special_datetime(py, DatetimeMin)
    <3>1. cpp' = Exact(TimestampFloor(py), py.us) /\ turn' = "C++"
      BY <1>1, <2>1, <2>3, Distinct DEF LoadDatetime, Loaded, LoadRaises, TimestampRaises
    <3>2. InstantOf(py) = py.civil - py.tz
      BY <2>1 DEF InstantOf
    <3>3. \/ RoundedUp(py.civil - py.tz, py.us)
          \/ cpp'.sec = py.civil - py.tz /\ cpp'.us = py.us
      BY <2>1, <3>1, <3>2 DEF TimestampFloor, Exact
    <3> QED
      BY <2>1, <3>1, <3>3 DEF AwareChain, RoundedUp
  <2> QED
    BY <2>2, <2>3
<1>2. CASE ReturnTime
  <2>1. cpp' = cpp /\ cpp \in Finite /\ YearFits(cpp) /\ cpp.sec \in Int
    BY <1>2 DEF ReturnTime, Returned, ReturnRaises, YearFits, Finite
  <2>2. py' \in {Datetime(cpp.sec, cpp.us, 0), None}
    BY <1>2, <2>1, Distinct DEF ReturnTime, Returned, ReturnRaises
  <2> QED
    BY <2>1, <2>2 DEF AwareChain, Datetime, None
<1>3. CASE \E tz \in Offsets : AsTimezone(tz)
  <2>1. PICK tz \in Offsets : AsTimezone(tz)
    BY <1>3
  <2>2. /\ py.civil \in Int /\ py.tz \in Int /\ tz \in Int /\ py.tz # Naive
        /\ py' = Datetime(py.civil - py.tz + tz, py.us, tz)
        /\ cpp' = cpp /\ turn = "Python" /\ py.kind = "datetime"
    BY <2>1, ByKind, OffsetAssumption DEF AsTimezone, TypeOK
  <2>3. cpp.sec = py.civil - py.tz /\ cpp.us = py.us
    BY <1>0, <2>2 DEF AwareChain, YearFits
  <2>4. py'.civil - py'.tz = py.civil - py.tz /\ py'.us = py.us
    BY <2>2 DEF Datetime
  <2> QED
    BY <2>2, <2>3, <2>4 DEF AwareChain
<1>4. CASE LoadDate \/ LoadFloat \/ LoadInt
  BY <1>4 DEF LoadDate, LoadFloat, LoadInt, Loaded, LoadRaises, Passing
<1>5. CASE \/ LoadTimeOfDay \/ LoadTimedelta \/ ReturnDuration \/ ReturnCivil
           \/ \E unit \in Units : LoadCivil(unit)
           \/ LoadZone \/ ReturnZone
  BY <1>0, <1>5
  DEF LoadTimeOfDay, LoadTimedelta, ReturnDuration, ReturnCivil, LoadCivil, LoadZone, ReturnZone,
      Passing, Returning
<1>6. CASE CopyTimedelta
  BY <1>6 DEF CopyTimedelta, Timedelta
<1>7. CASE UNCHANGED vars
  BY <1>7 DEF vars, AwareChain, YearFits, RoundedUp, is_special_datetime, DatetimeMax, DatetimeMin
<1> QED
  BY <1>1, <1>2, <1>3, <1>4, <1>5, <1>6, <1>7 DEF Next

(* A datetime with a time zone determines the instant of the Time, as the  *)
(* README says, with no exceptions but the three that are named.           *)
THEOREM AwareDatetimesKeep == Spec => []AwareKeepsInstant
<1>1. AwareChain => AwareKeepsInstant
  BY DEF AwareChain, AwareKeepsInstant
<1> QED
  BY <1>1, TypeCorrect, AwareChainInit, AwareChainStep, PTL DEF Spec
=============================================================================
