CONSTANTS
  Probe = {p1, p2}
  Host = {a, b, c}
  Allowed = {a, c}
  Keyed = {a, b}
  Port = {1}
  Skews <- MCSkews
  Steps = {1}
  Window = 1
  TTL = 2
  Timeout = 2
  MaxTime = 5
  MaxOffset = 1
  MaxEchoes = 2
SPECIFICATION FairSpec
INVARIANTS TypeOK EchoAtMostOnce OKMeansEchoed
PROPERTY ProbeEnds
