\* A login and four more requests, two of them at a time.
SPECIFICATION Spec
CONSTANTS
  Txs = {x, y}
  NoTx = none
  MaxOps = 5
INVARIANTS
  TypeOK
  EndedTogether
  OneCredentialAtATime
PROPERTY RequestsEnd
CHECK_DEADLOCK FALSE
