SPECIFICATION Spec
CONSTANTS
  None = None
  Hash <- MCHash
  Routings <- MCRoutings
  Ip = {"us", "near", "far"}
  CountryOf <- MCCountryOf
  MaxCalls = 8
INVARIANTS EvenDistribution SelectsLikeTheList
