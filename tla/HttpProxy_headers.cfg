SPECIFICATION Spec
CONSTANTS
  Characters <- Alphabet
  Requests <- TunnelRequests
  Hosts <- AllHosts
  Whitelist <- SomeNames
  HeaderLines = 2
  MaxPayload = 1
  MaxReply = 1
  BufferSize = 3
INVARIANT NothingDropped
