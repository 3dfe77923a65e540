\* One task, two concurrent pulls, one acknowledgement at a time.
SPECIFICATION LeaseSpec
CONSTANTS
  i1 = i1  h1 = h1  h2 = h2  a1 = a1  a2 = a2
  data = data  up = up  down = down  v1 = v1
  Instances = {i1}
  Results = {data}
  NoResult = NoResult
  UpResults = {}
  Versions = {v1}
  NoVersion = NoVersion
  VersionIn <- Versioned
  NoSnapshot = NoSnapshot
  FailureBound = 1
  NumTasks = 1
  ActionOf <- PlainActions
  Eligible <- OneOwner
  GroupTasks <- NoTasks
  SystemTasks <- NoTasks
  Expiring <- NoTasks
  ResultsOf <- NothingReturned
  PullHandlers = {h1, h2}
  AckHandlers = {a1}
  PullLimit = 1
  MaxAttempts = 2
  AttemptBound = 2
  ProbeLeaseTtl = 3
  DefaultLeaseTtl = 3
  BundleLeaseTtl = 3
  MaxStall = 1
SYMMETRY HandlerSymmetry
INVARIANTS
  LeaseInv
  ExclusiveLease
  LeaseOutlivesKey
  NoDoubleLease
  FailedIsEarned
