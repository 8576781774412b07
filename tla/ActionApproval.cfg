\* Two handlers and the worker over three requests, one or two of them an hour.
SPECIFICATION Spec
CONSTANTS
  Procs = {p, q}
  Keys = {k}
  NoKey = none
  HourLimits = {1, 2}
  DefaultLimit = 2
  Limit = 1
  MaxOps = 3
  MaxFaults = 1
INVARIANTS
  RequestsOK
  RetriesAgree
  RateIsBounded
PROPERTY StaleApprovalsExpire
CHECK_DEADLOCK FALSE
