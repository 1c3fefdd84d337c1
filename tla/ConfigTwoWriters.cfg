CONSTANTS
  a = a
  b = b
  Name = {a, b}
  Writer = {w1, w2}
  InitConfigs <- MCOneConfig
  InitStrict = {TRUE}
  MaxCommands = 2
SPECIFICATION Spec
INVARIANT NeverPartial
