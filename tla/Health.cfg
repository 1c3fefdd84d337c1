CONSTANTS
  Key = {k1, k2}
  Result = {ok, ko}
  Success = {ok}
  ZeroResult = zero
  Capacity = 3
  MaxHist = 7
  Settings <- MCFitting
SPECIFICATION HealthSpec
INVARIANTS HealthTypeOK SnapshotOnlyWritten MatchesHistory
PROPERTIES LogSpec NoFlap
