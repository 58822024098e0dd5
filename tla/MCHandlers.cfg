CONSTANTS
  Letters = {"a", "b"}
  Users = {"m", "u"}
  Master = "m"
  Tokens = {"writer", "reader"}
  ReadOnly = {"reader"}
  PatternsOf <- ThePatterns
  SubnetsOf <- TheSubnets
  Stored <- ThePaths
  Asked <- TheAsked
  Arrivals <- TheArrivals
  Proxies <- TheProxies
SPECIFICATION Spec
INVARIANTS TypeOK EffectsEarned UseIsRecorded RowsAreTrue ListsAreExact
PROPERTIES OthersAreInterference
