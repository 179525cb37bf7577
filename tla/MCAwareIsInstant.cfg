SPECIFICATION Spec
CONSTANTS
  MicrosPerSecond = 9
  TicksPerMicro = 2
  Cycle = 64
  Starts <- MCStarts
  Day = 8
  FirstCivil <- MCFirstCivil
  LastCivil = 39
  IntFirst <- MCIntFirst
  IntLast = 63
  DoubleBits = 7
  TimedeltaDays = 1
  Int64Max = 127
  IntMax = 31
  ZoneNames = {Zurich}
  Offsets <- MCOffsets
  LocalOffset = 5
  Naive = Naive
  FirstSecond <- MCFirstSecond
  LastSecond = 127
INVARIANTS AwareIsInstant
