SPECIFICATION FairSpec
CONSTANTS
  Clients <- MCClients
  Readers <- MCReaders
  Capacity = 2
  MaxLag = 3
  MaxSent = 7
PROPERTY GapsAreBounded
PROPERTY ReadersKeepUp
CHECK_DEADLOCK FALSE
