CONSTANTS
  a1 = a1
  NoAddress = NoAddress
  MaxJobs = 1
  Addresses <- OneAddress
  Polls <- OnePoll
  MaxTroubles = 2
SPECIFICATION Spec
INVARIANT TypeOK
PROPERTIES GivenUpIsOver JobEndNoticed ListSettles PageLearns
CHECK_DEADLOCK FALSE
