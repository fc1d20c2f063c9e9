CONSTANTS
  L9 = L9
  L6 = L6
  L2 = L2
  human = human
  first = first
  second = second
  third = third
  fourth = fourth
  alice = alice
  bob = bob
  None = None
  FILENAMES <- MCFilenames
  Jobs <- MCJobs
  ModelOf <- MCModelOf
  OwnerOf <- MCOwnerOf
  MaxWorkers = 3
  MaxRetired = 1
  max_jobs = 2
  max_owner_jobs = 1
SPECIFICATION Spec
INVARIANTS
  PoolQuotaKept
  JobsKept
PROPERTIES
  LockReleased
CHECK_DEADLOCK FALSE
