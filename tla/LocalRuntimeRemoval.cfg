\* One generation, a writer that removes it and one that enters meanwhile.
SPECIFICATION Spec
CONSTANTS
  Processes = {p1, p2}
  NoProcess = none
  Reads = 1
  MaxCount = 1
  MaxManifests = 1
  EntersFrom = 0
  MaxFaults = 1
INVARIANT OnePromiseKept
CHECK_DEADLOCK FALSE
