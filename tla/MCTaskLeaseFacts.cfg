\* One gateway probe that may expire and two concurrent acknowledgements of it; pulls, which touch no facts, are left out.
SPECIFICATION LeaseSpec
CONSTANTS
  i1 = i1  h1 = h1  h2 = h2  a1 = a1  a2 = a2
  data = data  up = up  down = down  v1 = v1
  Instances = {i1}
  Results = {up, down}
  NoResult = NoResult
  UpResults = {up}
  Versions = {v1}
  NoVersion = NoVersion
  VersionIn <- Versioned
  NoSnapshot = NoSnapshot
  FailureBound = 2
  NumTasks = 1
  ActionOf <- ProbeActions
  Eligible <- OneOwner
  GroupTasks <- NoTasks
  SystemTasks <- AllTasks
  Expiring <- FirstExpires
  ResultsOf <- UpOrDown
  PullHandlers = {}
  AckHandlers = {a1, a2}
  PullLimit = 1
  MaxAttempts = 1
  AttemptBound = 1
  ProbeLeaseTtl = 1
  DefaultLeaseTtl = 1
  BundleLeaseTtl = 1
  MaxStall = 0
SYMMETRY HandlerSymmetry
INVARIANTS
  BackoffOnlyAfterFailure
PROPERTIES
  FeedsReconciler
