\* Two processes: a writer and a reader, or two writers, or two readers.
SPECIFICATION Spec
CONSTANTS
  Processes = {p1, p2}
  NoProcess = none
  Reads = 1
  MaxCount = 2
  MaxManifests = 2
  EntersFrom = 2
  MaxFaults = 1
SYMMETRY Symmetry
INVARIANTS
  ReadableIsLastWord
  AnswersAreAtomic
  WritersExcludeEachOther
PROPERTY HighWaterOnlyRises
CHECK_DEADLOCK FALSE
