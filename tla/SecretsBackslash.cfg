SPECIFICATION Spec
CONSTANTS
  Procs = {"p1"}
  Keys = {"k1", "k2"}
  Given <- BackslashGiven
  Random <- MCRandom
  Limit = 8
  Absent = Absent
  Verbs = {"set"}
PROPERTIES
  SetKeepsOthers
