\* Three installations of one bundle name, a configuration patch and another
\* client that changes the configuration once.
SPECIFICATION Spec
CONSTANTS
  i1 = i1  i2 = i2  i3 = i3
  Installs = {i1, i2, i3}
  Patches = {p1}
  Root = Root
  OtherDirs = {d1}
  Old = Old
  NoBundle = NoBundle
SYMMETRY InstallSymmetry
INVARIANTS
  BundleKept
  KeptUntilDone
  PatchedOnce
PROPERTIES
  DirsKept
\* Every execution ends.
CHECK_DEADLOCK FALSE
