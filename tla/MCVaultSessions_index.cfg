CONSTANTS
  Owners = {alice}
  Ids = {m1, m2}
  Keys = {k}
  Contents = {c1, c2}
  Tokens = {t}
  MaxTime = 0
  Null = Null
  MaxEvents = 4
  MaxReinforced = 1
  Processes = {chat, fade}
  Policies = {"durable"}
  Batches <- NoBatches
SPECIFICATION Spec
CHECK_DEADLOCK FALSE
INVARIANT NoForbiddenContent
