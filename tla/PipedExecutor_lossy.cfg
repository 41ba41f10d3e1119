SPECIFICATION FairSpec
CONSTANTS
  Calls <- DefaultCalls
  Faults = {}
  Leader = leader0
  Kids = {}
  PipeCapacity = 2
  MaxInput = 0
  MaxOutput = 2
INVARIANT
  LossyOutput
