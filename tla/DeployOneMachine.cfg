SPECIFICATION Spec
CONSTANTS
  Procs = {"p1"}
  Dirs = {"d1"}
  WorkDir <- SharedDir
  N = 2
  Cfgs = {"c1", "c2"}
  Want <- MCWantTwo
  Contents <- MCContents
  Addr <- MCAddr
  Addresses <- MCAddresses
  NoInfra = NoInfra
  Partial = Partial
  NoState = NoState
  NoPlan = NoPlan
  NoCmd = NoCmd
  Free = Free
  Leftover = Leftover
  Verbs = {"plan", "apply", "destroy", "purge"}
  Kills = FALSE
  Serials = {0, 1, 2, 3}
INVARIANTS
  TypeOK
  AppliedAsApproved
  InfraIsTracked
  NetworkGoesLast
PROPERTIES
  SuccessMeansDone
  NothingBeforeApproval
  PlanTouchesNothing
