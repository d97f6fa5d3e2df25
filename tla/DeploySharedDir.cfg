SPECIFICATION Spec
CONSTANTS
  Procs = {"p1", "p2"}
  Dirs = {"d1"}
  WorkDir <- SharedDir
  N = 1
  Cfgs = {"c1", "c2"}
  Want <- MCWantOne
  Contents <- MCContents
  Addr <- MCAddr
  Addresses <- MCAddresses
  NoInfra = NoInfra
  Partial = Partial
  NoState = NoState
  NoPlan = NoPlan
  NoCmd = NoCmd
  Free = Free
  Leftover = Leftover
  Verbs = {"plan", "apply"}
  Kills = FALSE
  Serials = {0, 1, 2, 3, 4}
INVARIANTS
  AppliedAsApproved
