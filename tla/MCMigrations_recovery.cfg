CONSTANTS
  Processes = {chat}
  MaxCrashes = 1
SPECIFICATION FairSpec
PROPERTY Recovers
