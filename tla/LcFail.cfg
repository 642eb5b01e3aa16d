SPECIFICATION Spec
CONSTANTS
  n1 = n1  n2 = n2
  Names = {n1, n2}
  Ops = {"create", "adopt", "ensure", "retry", "archive", "unarchive", "delete", "rename"}
  MaxBase = 1
  MaxCrashes = 2
  MaxMishaps = 2
INVARIANTS
  PromptedOnce RecordsAreTrue ForceIsDurable
PROPERTIES
  AdoptedIsNotOurs ImplementsContract WorkIsKept
CHECK_DEADLOCK FALSE
