SPECIFICATION CondenseSpec
CONSTANTS
  a = a  b = b  e = e  ifc = ifc  u = u  debugging = debugging  terminal = terminal  bypass = bypass
  Types = {a, b, e, ifc, u, debugging, terminal, bypass}
  Chains <- MCChains
  Collections <- MCCollections
  Implements <- AImplementsI
  Rank <- RankOf
  Unused = u
  Debugging = debugging
  Error = e
  TerminalError = terminal
  BypassDebug = bypass
INVARIANTS GreatestSupported DesiredKept NoDeadweight ClusterTogether NoInternalError ValuesAsMatched NothingOverridden NetFlowsAreNet Condensable
PROPERTIES TryDecidesRightly BindReturns
CHECK_DEADLOCK FALSE
