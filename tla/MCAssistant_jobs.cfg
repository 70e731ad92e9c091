CONSTANTS
  Owners = {alice, bob}
  Ids = {m1, m2}
  Keys = {home, food}
  Contents = {c1, c2}
  Tokens = {}
  MaxTime = 1
  Null = Null
  MaxEvents = 3
  MaxReinforced = 1
  Processes = {chat, fade}
  Writers = {chat, fade}
  Policies = {"session_only", "fixed_expiry"}
  ArchiveAge = 1
SPECIFICATION Spec
INVARIANT TypeOK
PROPERTIES NotebookUntilRace FadeExact DeleteAllDeletes
CHECK_DEADLOCK FALSE
SYMMETRY FullSymmetry
