\* One task, two overlapping runs of one sidecar, three attempts, one fault.
SPECIFICATION FleetSpec
CONSTANTS
  i1 = i1  r1 = r1  r2 = r2
  data = data  up = up  down = down  v1 = v1
  Instances = {i1}
  Sites = {i1}
  Runs = {r1, r2}
  Host <- OneHost
  Jobs <- AllTasks
  Concurrency = 1
  PullHandlers = {r1, r2}
  AckHandlers <- RunTaskPairs
  Results = {data}
  NoResult = NoResult
  UpResults = {}
  Versions = {v1}
  NoVersion = NoVersion
  VersionIn <- Versioned
  NoSnapshot = NoSnapshot
  FailureBound = 1
  NumTasks = 1
  ActionOf <- PlainActions
  Eligible <- OneOwner
  GroupTasks <- NoTasks
  SystemTasks <- NoTasks
  Expiring <- NoTasks
  ResultsOf <- NothingReturned
  PullLimit = 2
  MaxAttempts = 3
  AttemptBound = 3
  ProbeLeaseTtl = 2
  DefaultLeaseTtl = 2
  BundleLeaseTtl = 2
  MaxStall = 0
  MaxFaults = 1
SYMMETRY RunSymmetry
INVARIANTS
  DoneIsExecuted
  FleetInv
