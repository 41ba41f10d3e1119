SPECIFICATION FairSpec
CONSTANTS
  Calls <- AllCalls
  Faults = {"foreignReap", "waitError"}
  Leader = leader0
  Kids = {k1}
  PipeCapacity = 1
  MaxInput = 2
  MaxOutput = 2
INVARIANTS
  TypeOK
  OkOutputFinal
  LeaderCollected
  OkRanInJob
  GroupKillReachesAll
PROPERTIES
  ReturnsOrObstructed
  ImplementsContract
