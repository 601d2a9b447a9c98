CONSTANTS
  f1 = f1  k1 = k1  k2 = k2
  None = None
  Files <- OneFile
  Names <- OneName
  Unregistered <- NoNames
  MaxTasks = 2
  Requests <- CreateOnly
  PsFails = FALSE
  MaxAsked = 3
  MaxSessions = 3
  MaxProcs = 3
  MaxCrashes = 1
  MaxReuse = 0
SPECIFICATION Spec
INVARIANT OneKernel
CHECK_DEADLOCK FALSE
