CONSTANTS
  a = a
  b = b
  c = c
  Node = {a, b, c}
  Me = a
  PeersOf <- MCMesh
  Key = {k1, k2}
  Outcome = {ok, ko}
  Success = {ok}
  Cap = 2
  Window = 2
  Threshold = 1
  MaxResults = 3
  MaxStarts = 1
SPECIFICATION FairSpec
INVARIANTS TypeOK EntriesConsistent EveryPeerShown
PROPERTIES NoStepBack AggregateReturns
