CONSTANTS
  Owners = {alice, bob}
  Ids = {m1, m2}
  Keys = {k}
  Contents = {c1, c2}
  Tokens = {t}
  MaxTime = 0
  Null = Null
  MaxEvents = 4
  MaxReinforced = 1
  Policies = {"durable"}
  Batches <- OneOrTwoRecords
  Builds = {TRUE, FALSE}
SPECIFICATION Spec
SYMMETRY Symmetry
INVARIANTS KeysUnique IndexSound AuditExplains
PROPERTIES OwnerIsolation
CHECK_DEADLOCK FALSE
