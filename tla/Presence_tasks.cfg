SPECIFICATION FairSpec
CONSTANTS
  Requests = {r1, r2}
  MaxRegistrations = 1
  Lossy = TRUE
INVARIANTS
  TypeOK
  OnlineIsShown
  OnePollerPerTerminal
PROPERTY DiscoveredIsConnected
