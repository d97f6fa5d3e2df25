SPECIFICATION Spec
CONSTANTS
  Procs = {p1, p2}
  Dirs = {p1, p2}
  WorkDir <- OwnDir
  N = 1
  Cfgs = {"c1"}
  Want <- MCWantOne
  Contents <- MCContents
  Addr <- MCAddr
  Addresses <- MCAddresses
  NoInfra = NoInfra
  Partial = Partial
  NoState = NoState
  NoPlan = NoPlan
  NoCmd = NoCmd
  Free = Free
  Leftover = Leftover
  Verbs = {"apply", "destroy"}
  Kills = TRUE
  Serials = {0, 1, 2, 3, 4, 5}
SYMMETRY Symmetry
PROPERTIES
  ImplementsDeployment
