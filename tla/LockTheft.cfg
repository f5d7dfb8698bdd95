SPECIFICATION Spec
CONSTANTS
  Procs = {p1, p2, p3}
  Inodes = {i1, i2, i3}
  NoFile = NoFile
  Unwritten = Unwritten
  MaxDeaths = 1
SYMMETRY Symmetry
INVARIANTS HolderKeepsLock
