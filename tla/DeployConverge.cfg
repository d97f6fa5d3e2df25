SPECIFICATION RetrySpec
CONSTANTS
  Procs = {"p1"}
  Dirs = {"d1"}
  WorkDir <- SharedDir
  N = 2
  Cfgs = {"c1"}
  Want <- MCWantTwo
  Contents <- MCContents
  Addr <- MCAddr
  Addresses <- MCAddresses
  NoInfra = NoInfra
  Partial = Partial
  NoState = NoState
  NoPlan = NoPlan
  NoCmd = NoCmd
  Free = Free
  Leftover = Leftover
  Verbs = {"apply", "purge"}
  Kills = FALSE
  Serials = {0, 1, 2, 3}
PROPERTIES
  ApplyConverges
  PurgeConverges
