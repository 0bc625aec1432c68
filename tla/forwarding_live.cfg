SPECIFICATION FairSpec
CONSTANTS
  None = None
  Hash <- MCHash
  Client = {c1}
  CountryOf <- MCCountryOf
  Path = {"/index", "/api/users"}
  Url = {"u1", "u2"}
  Unconnectable = {}
  Entry <- MCEntry
  Prefix = {"/", "/api"}
  Prefixes <- MCPrefixes
  Length <- MCLength
  Default = "/"
  Initial <- RoundRobinPair
  Files <- Edits
  Topologies <- Nothing
  MaxLoads = 1
PROPERTIES ImplementsService Recovery Quarantine Decided
