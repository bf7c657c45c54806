SPECIFICATION Spec
CONSTANTS
  Types <- MCTypes
  DefSets <- MCDefSets
  Inputs <- MCInputs
  Servers = {s1, s2}
  Clients = {c1, c2}
  Unknown = "Z"
  NUL = "nul"
  Backlog = 2
  Page = 6
INVARIANT ReadBack
PROPERTIES RegisterSpec Answered
CHECK_DEADLOCK FALSE
