SPECIFICATION Spec
CONSTANTS
  None = None
  Hash <- MCHash
  Client = {c1, c2}
  CountryOf <- MCCountryOf
  Path = {"/index", "/api/users"}
  Url = {"u1", "u2"}
  Unconnectable = {"u2"}
  Entry <- MCEntry
  Prefix = {"/", "/api"}
  Prefixes <- MCPrefixes
  Length <- MCLength
  Default = "/"
  Initial <- RoundRobinPair
  Files <- Mistaken
  Topologies <- DockerTopologies
  MaxLoads = 2
INVARIANTS OneKnownConfiguration
SYMMETRY ClientSymmetry
