SPECIFICATION ConsoleSpec
CONSTANTS
  Instances = {i1, i2}
  NumFiles = 2
  Texts = {x, y, z, w, e}
  Empty = e
  Typed = {z}
  Original <- Originals
  None = None
  MaxCalls = 2
  MaxEvents = 4
  k = k
  v = v
  bad = bad
  in = in
  notin = notin
  system = system
  i1 = i1
  i2 = i2
  x = x
  y = y
  e = e
  k1 = k1
  Words = {k, v, bad, in, notin, system}
  Shape <- Shapes
  InWord = in
  NotinWord = notin
  EmptyWord = EmptyWord
  Invalid = Invalid
  Sites = {s}
  GivenTexts <- Forms
  Pasted <- Starts
  BusinessKeys = {k}
  SystemKeys = {system}
  LabelValues = {v}
  NoNote = NoNote
  Notes = {}
  MaxGroups = 2
  MaxActs = 3
  MaxTyped = 4
  MaxReads = 1
  GroupPageSize = 1
  FirstRows <- OneRow
  FirstSite = s
  Typeable = {"(", ")", ",", "!", "=", " ", k, in, v}
  Nobody = Nobody
  Kinds = {k1}
  Old = 1
  OldKind = k1
  MaxTasks = 2
  MaxListLog = 4
  MaxTaskLog = 6
  AnyKind = AnyKind
  AnyStatus = AnyStatus
  FilterKinds = {}
  FilterStatus = {"done"}
  RowsPerPage = 1
  MaxClicks = 2
  MaxLosses = 1
  MaxLookups = 1
  NoTask = NoTask
  MaxSteps = 3
  MaxFailures = 1
  MaxLoads = 2
  MaxVisits = 2
INVARIANTS
  FilesInv
  SavedStays
  PageShowsSelection
  TargetingInv
  SelectorMeansWhatItSays
  NegationsAreComplements
  TaskPagesInv
PROPERTIES
  DraftsKept
  ListCatchesUp
  TaskIsFollowed
CHECK_DEADLOCK FALSE
