\* Two tasks, pulls of one task at a time, one run, one fault: everything comes to rest.
SPECIFICATION FairFleetSpec
CONSTANTS
  i1 = i1  r1 = r1  r2 = r2
  data = data  up = up  down = down  v1 = v1
  Instances = {i1}
  Sites = {i1}
  Runs = {r1}
  Host <- OneHost
  Jobs <- AllTasks
  Concurrency = 1
  PullHandlers = {r1}
  AckHandlers <- RunTaskPairs
  Results = {data}
  NoResult = NoResult
  UpResults = {}
  Versions = {v1}
  NoVersion = NoVersion
  VersionIn <- Versioned
  NoSnapshot = NoSnapshot
  FailureBound = 1
  NumTasks = 2
  ActionOf <- PlainActions
  Eligible <- OneOwner
  GroupTasks <- NoTasks
  SystemTasks <- NoTasks
  Expiring <- FirstTask
  ResultsOf <- NothingReturned
  PullLimit = 1
  MaxAttempts = 2
  AttemptBound = 2
  ProbeLeaseTtl = 3
  DefaultLeaseTtl = 3
  BundleLeaseTtl = 3
  MaxStall = 1
  MaxFaults = 1
PROPERTIES
  ComesToRest
