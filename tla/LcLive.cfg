SPECIFICATION FairSpec
CONSTANTS
  n1 = n1  n2 = n2
  Names = {n1}
  Ops = {"create", "adopt", "ensure", "retry", "archive", "unarchive"}
  MaxBase = 1
  MaxCrashes = 1
  MaxMishaps = 2
PROPERTIES
  ArchivesResolve
CHECK_DEADLOCK FALSE
