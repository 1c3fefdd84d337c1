CONSTANTS
  Job = {j1, j2}
  Worker = {w1, w2}
  Result <- MCTimes
  ZeroResult = zero
  Capacity = 2
  MaxPanics = 0
  Interval = 4
  JitterPercent = 25
  Timeout = 2
  MaxTime = 14
SPECIFICATION TimedSpec
INVARIANTS OneProbePerJob OldestFirst
PROPERTY Periodic
