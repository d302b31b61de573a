SPECIFICATION FairSpec
CONSTANTS
  None = None
  Id = {i1, i2, i3, i4, i5}
  Day = 5
  Sunset = 2
  Start <- OneBefore
  Stop = 1
  Cron = {1, 3, 8}
  MaxClock = 9
  MaxFail = 1
INVARIANTS BothEnds
PROPERTIES  OffAtLast
