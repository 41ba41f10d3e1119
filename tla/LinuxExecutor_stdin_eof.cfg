SPECIFICATION FairSpec
CONSTANTS
  Calls <- FilterCalls
  Faults = {}
  PipeCapacity = 1
  ReadChunk = 1
  MaxInput = 1
  MaxOutput = 1
  MaxKids = 1
INVARIANT
  InputEndReachesCommand
