SPECIFICATION Spec
INVARIANT GlueFunctionsThere
CONSTANTS
  FeatureLists <- MCFeatureLists
  Declared <- MCDeclared
  MaxReserved = 2
  MaxTable = 7
  EngineEvents <- MCEngineEvents
  GlueEvents <- MCGlueEvents
  Foreign = {0, 1, 5}
  Pairs <- MCPairs
  Units = {u1, u2}
  Names = {A, B}
  Library = L
  Secure = {}
  MaxEdits = 2
  First = {B}
  OnDemand = {B}
  Shares = {A}
  MaxUpdates = 2
  Regions = {r1, r2, r3}
  Files = {a, bad}
  Loadable = {a}
  Usable = 1
  MaxCalls = 3
  Interests = {"start"}
