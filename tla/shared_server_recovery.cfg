SPECIFICATION FairSpec
CONSTANTS
  None = None
  Hash <- MCHash
  Client = {c1}
  CountryOf <- MCCountryOf
  Path = {"/index", "/api/users"}
  Url = {"u1"}
  Unconnectable = {}
  Entry <- MCEntry
  Prefix = {"/", "/api"}
  Prefixes <- MCPrefixes
  Length <- MCLength
  Default = "/"
  Initial <- SharedServer
  Files <- Nothing
  Topologies <- Nothing
  MaxLoads = 0
PROPERTIES Recovery
