SPECIFICATION FairSpec
CONSTANTS
  Calls <- AllCalls
  Faults = {"kill", "hostDeath", "foreignReap", "lockHeld"}
  PipeCapacity = 2
  ReadChunk = 1
  MaxInput = 3
  MaxOutput = 2
  MaxKids = 1
INVARIANTS
  TypeOK
  ConfinedBeyondGate
  OkOutputComplete
  OkLeavesNothing
  SuccessIsGenuine
  OomIsReported
  KillReachesAll
PROPERTIES
  ReturnsOrBlocked
  ImplementsContract
