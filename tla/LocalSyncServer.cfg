\* One user with two devices and two documents, three manifest requests, one after
\* the other or together, against two changes.
SPECIFICATION Spec
CONSTANTS
  Assets = {a, b}
  Devices = {d1, d2}
  Requests = {r1, r2}
  MaxPayload = 2
  MaxBytes = 3
  MaxAttempts = 2
  MaxChanges = 2
  MaxRequests = 3
SYMMETRY Symmetry
INVARIANTS
  CountersIdentifyContent
  DeltasGiveTheSnapshot
PROPERTIES
  SignedIsCurrent
  CountersNeverFall
  ServesAsPromised
CHECK_DEADLOCK FALSE
