SPECIFICATION Spec
CONSTANTS
  Starter = {s1, s2}
  Renamer = {}
  Flaky = {}
  Main = main
  None = none
PROPERTIES
  StaleStartSparesNewer
CHECK_DEADLOCK FALSE
