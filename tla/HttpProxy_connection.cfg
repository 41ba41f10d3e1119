SPECIFICATION FairSpec
CONSTANTS
  Characters <- Alphabet
  Requests <- AllRequests
  Hosts <- AllHosts
  Whitelist <- SomeNames
  HeaderLines = 2
  MaxPayload = 2
  MaxReply = 2
  BufferSize = 2
INVARIANTS
  TypeOK
  CoveredNotRefused
  OneAnswer
  ToldUnlessGone
PROPERTIES
  EndsOrUncovered
