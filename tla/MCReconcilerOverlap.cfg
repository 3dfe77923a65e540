\* Two overlapping runs on a campaign whose gate needs the gateway.
SPECIFICATION Spec
CONSTANTS
  i1 = i1  i2 = i2  r1 = r1  r2 = r2  e1 = e1  e2 = e2  p1 = p1  p2 = p2  p2r = p2r
  in = in  out = out  up = up  down = down  v1 = v1  m1 = m1  some = some
  Instances = {i1}
  Results = {up, down}
  NoResult = NoResult
  UpResults = {up}
  Versions = {v1}
  NoVersion = NoVersion
  VersionIn <- Unversioned
  NoSnapshot = NoSnapshot
  FailureBound = 1
  MinVersions = {m1}
  NoMinVersion = NoMinVersion
  Comparison <- AtLeast
  NumCampaigns = 1
  NewCampaigns <- RunCampaign
  Changes <- OnlyRenewal
  Keep = Keep
  Payloads = {p1, p2, p2r}
  Stored <- Reordered
  Selectors = {some}
  LabelSets = {in, out}
  Selects <- SomeIn
  FirstLabels <- AllIn
  LabelMoves <- NoMoves
  Lasting = {1}
  Flaky = {}
  ProbeResults <- GatewayUp
  Editors = {}
  GenerationBound = 1
  MaxReopens = 1
  Runs = {r1, r2}
  MaxCrashes = 0
CHECK_DEADLOCK FALSE
SYMMETRY RunSymmetry
INVARIANTS
  ExecutionsBounded
  ProbesBounded
  GateIsChecked
