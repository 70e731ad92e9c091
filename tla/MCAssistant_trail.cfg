CONSTANTS
  Owners = {alice}
  Ids = {m1, m2}
  Keys = {home, food}
  Contents = {c1}
  Tokens = {}
  MaxTime = 0
  Null = Null
  MaxEvents = 3
  MaxReinforced = 0
  Processes = {chat}
  Writers = {chat}
  Policies = {"session_only"}
  ArchiveAge = 1
SPECIFICATION Spec
INVARIANT ErasedFromTrail
CHECK_DEADLOCK FALSE
