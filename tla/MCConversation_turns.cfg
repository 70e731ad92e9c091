CONSTANTS
  Owners = {alice, bob}
  Ids = {m1, m2, m3}
  Keys = {home}
  Contents = {"c1", "c2"}
  Tokens = {}
  MaxTime = 1
  Null = Null
  MaxEvents = 3
  MaxReinforced = 1
  Processes = {chat}
  Writers = {chat}
  Policies = {"fixed_expiry"}
  ArchiveAge = 1
  Budgets = {3}
  TopKs = {2}
  WrapperSize = 1
  Size <- LineSizes
  Radix = 2
  IdSize = 1
  Session = chat
  User = alice
  Builds <- AllBuilds
  Limit = 2
  Multiplier = 2
  MaxCandidates = 3
  MaxRows = 1
  Unindexed = {m1}
  MaxHeld = 2
  MaxLines = 1
SPECIFICATION ConversationSpec
INVARIANTS ContextWasActive DegradedIsTold NothingMissed
PROPERTIES EveryMessageAnswered
CHECK_DEADLOCK FALSE
