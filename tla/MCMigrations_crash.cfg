CONSTANTS
  Processes = {chat, fade}
  MaxCrashes = 2
SPECIFICATION FairSpec
INVARIANTS TypeOK VersionIsEarned
PROPERTIES VersionSettles StartsOpen VersionedFileOpens
