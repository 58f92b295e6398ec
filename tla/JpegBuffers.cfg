\* Three pictures, two failures, two files of the caller.  The process stops after the
\* release, or when it writes through no mapping.
SPECIFICATION BuffersSpec
CONSTANTS
  Objects = {o1, o2, o3, o4, o5}
  MaxNumber = 11
  MaxCalls = 3
  MaxFailures = 2
  MaxFiles = 2
  NULL = NULL
CHECK_DEADLOCK FALSE
INVARIANTS
  OwnBuffersOnly
  NothingLeft
