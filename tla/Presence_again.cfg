SPECIFICATION FairSpec
CONSTANTS
  Requests = {r1}
  MaxRegistrations = 0
  Lossy = FALSE
PROPERTY ShownAgain
