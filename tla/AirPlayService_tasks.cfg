SPECIFICATION Spec
CONSTANTS
  Starter = {s1}
  Renamer = {r1, r2}
  Flaky = {s1}
  Main = main
  None = none
INVARIANTS
  NoOrphanListener GuardedStartsSilent WaitsAreAnswered
SYMMETRY TaskSymmetry
CHECK_DEADLOCK FALSE
