SPECIFICATION FairSpec
CONSTANTS
  Texts = {reboot, query}
  MaxCommands = 3
  EchoesId = TRUE
INVARIANTS
  TypeOK
  RemovedForCause
PROPERTY Settles
