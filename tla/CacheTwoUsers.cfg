SPECIFICATION Spec
CONSTANTS
  Procs = {p1, p2}
  Commits = {"c1"}
  NFiles = 3
  Marker = 2
  Inodes = {i1, i2, i3, i4}
  NoDir = NoDir
  NoCommit = NoCommit
SYMMETRY Symmetry
INVARIANTS
  ReturnedIsComplete
