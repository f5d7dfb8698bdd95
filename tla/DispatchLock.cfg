SPECIFICATION Spec
CONSTANTS
  Procs = {p1, p2, p3}
  Inodes = {i1, i2, i3}
  NoFile = NoFile
  Unwritten = Unwritten
  MaxDeaths = 2
SYMMETRY Symmetry
INVARIANTS TypeOK ExclusiveUnlessRobbed RobbedOnlyAfterADeath
