CONSTANTS
  a = a
  b = b
  Name = {a, b}
  Writer = {w1}
  InitConfigs <- MCInitConfigs
  InitStrict = {TRUE, FALSE}
  MaxCommands = 2
  Host = {a, b}
  Self = a
  InitPKI <- MCInitPKI
SPECIFICATION NodeFairSpec
INVARIANTS NodeTypeOK NeverPartial UpInOrder
PROPERTIES StaysValid EditsAreAtomic ReportsTruly IssuesTruly StartsIfInOrder
