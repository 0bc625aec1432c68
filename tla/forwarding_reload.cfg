SPECIFICATION HistorySpec
CONSTANTS
  None = None
  Hash <- MCHash
  Client = {c1, c2}
  CountryOf <- MCCountryOf
  Path = {"/index", "/api/users"}
  Url = {"u1", "u2"}
  Unconnectable = {}
  Entry <- MCEntry
  Prefix = {"/", "/api"}
  Prefixes <- MCPrefixes
  Length <- MCLength
  Default = "/"
  Initial <- RoundRobinPair
  Files <- Edits
  Topologies <- Nothing
  MaxLoads = 1
INVARIANTS TypeOK ActiveConnectionsExact GaugeIsTruthful NeverAnErrorPage
PROPERTIES RetriesElsewhere LeastConnectionsServed
SYMMETRY ClientSymmetry
