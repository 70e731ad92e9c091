CONSTANTS
  Owners = {alice, bob}
  Ids = {m1, m2}
  Keys = {k}
  Contents = {c1}
  Tokens = {t}
  MaxTime = 0
  Null = Null
  MaxEvents = 5
  MaxReinforced = 1
  Processes = {chat, fade}
  Policies = {"durable", "prohibited"}
  Batches <- OneRecord
SPECIFICATION Spec
SYMMETRY Symmetry
INVARIANTS TypeOK KeysUnique
PROPERTIES RowsAreBornOnce ChangesAudited
CHECK_DEADLOCK FALSE
