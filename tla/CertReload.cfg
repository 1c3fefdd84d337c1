CONSTANTS
  a = a
  b = b
  Name = {a, b}
  Writer = {w1}
  InitConfigs <- MCOneConfig
  InitStrict = {TRUE}
  MaxCommands = 1
  Host = {a, b}
  Self = a
  InitPKI <- MCInitReady
SPECIFICATION NodeSpec
INVARIANT ServesOwnName
