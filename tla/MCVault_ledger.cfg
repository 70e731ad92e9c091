CONSTANTS
  Owners = {alice}
  Ids = {m1, m2, m3}
  Keys = {k}
  Contents = {c1, c2}
  Tokens = {}
  MaxTime = 1
  Null = Null
  MaxEvents = 5
  MaxReinforced = 1
  Policies = {"fixed_expiry", "prohibited"}
  Batches <- NoBatches
  Builds = {TRUE}
SPECIFICATION Spec
SYMMETRY Symmetry
INVARIANTS TypeOK IndexComplete LinksMutual
PROPERTIES ImplementsLedger ForwardOnly
CHECK_DEADLOCK FALSE
