\* Two requests and the reconciler over two attachments, of which a
\* reconciliation lists one.
SPECIFICATION Spec
CONSTANTS
  Procs = {p, q}
  MaxFiles = 1
  RecordLimit = 1
  MaxUploads = 2
  MaxFaults = 1
INVARIANT FilesAreKept
PROPERTY LeftoversGo
CHECK_DEADLOCK FALSE
