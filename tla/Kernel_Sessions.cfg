CONSTANTS
  f1 = f1  k1 = k1  k2 = k2
  None = None
  Files <- OneFile
  Names <- TwoNames
  Unregistered <- OneEnv
  MaxTasks = 2
  Requests <- AllRequests
  PsFails = TRUE
  MaxAsked = 3
  MaxSessions = 2
  MaxProcs = 2
  MaxCrashes = 1
  MaxReuse = 1
SPECIFICATION Spec
INVARIANTS TypeOK OneKernelPerFile ReadyIsRecorded StrangersSpared DeathIsNoticed
CHECK_DEADLOCK FALSE
