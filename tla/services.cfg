SPECIFICATION ServicesSpec
CONSTANTS
  Node = {"n1", "n2"}
  Nobody = "Nobody"
  Lease = 5
  Pause = 2
  Round = 1
  MaxFaults = 3
  Handler <- MCHandler
  Address = {"a"}
  CountryCode <- MCCountryCode
  Settings <- MCSettings
  GeoLimits <- MCGeoLimits
  One = 2
  MaxAllowed = 3
  MaxReassigned = 1
  MaxClock = 2
  Subscriber = {"s1", "s2", "s3"}
  Stream = {"/events"}
  Nothing = "Nothing"
  MaxChunks = 2
  Peer = {"c1", "c2", "c3"}
  NodeOf <- MCNodeOf
  Sends <- MCSends
  Lossy = {"c2"}
  Ip = {"a"}
  Visitor <- MCVisitor
  Command <- MCCommand
  Located <- MCLocated
  Unknown = "UNKNOWN"
  Files <- MCFiles
  MaxCommands = 3
  MaxReplaced = 1
  MaxHeaders = 5
INVARIANTS ServicesTypeOK AtMostOneLeader VacancyBounded BurstBounded WindowBounded
INVARIANTS NoGaps StreamEndsWithHandlers SenderOrder OneConversation AnswersHold HeadIsForwarded
PROPERTIES CountrySettled
CHECK_DEADLOCK FALSE
