--------------------------- MODULE MCSkillInstall ---------------------------
EXTENDS SkillInstall, TLC

CONSTANTS i1, i2, i3

InstallSymmetry == Permutations({i1, i2, i3})
=============================================================================
