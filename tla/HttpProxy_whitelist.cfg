SPECIFICATION Spec
CONSTANTS
  Characters <- Alphabet
  Requests <- AllRequests
  Hosts <- AllHosts
  Whitelist <- SomeNames
  HeaderLines = 2
  MaxPayload = 0
  MaxReply = 0
  BufferSize = 2
INVARIANT ReachedAsDocumented
