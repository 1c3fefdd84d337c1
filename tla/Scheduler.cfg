CONSTANTS
  Job = {j1, j2}
  Worker = {w1, w2}
  Result = {ok}
  ZeroResult = zero
  Capacity = 2
  MaxPanics = 1
SPECIFICATION FairSpec
INVARIANTS TypeOK NoSendOnClosed DrainedAtReturn
PROPERTIES ServiceSpec JobsKeepBeingProbed
