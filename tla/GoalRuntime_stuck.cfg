SPECIFICATION FairSpec
CONSTANTS
  a = a
  b = b
  s = s
  p = p
  q = q
  Nodes = {a, b, s}
  Synthesis = {s}
  Generative = {b}
  Hard <- NeedsFirst
  Optional <- TakesFirst
  Planes = {p}
  MaxSteps = 2
  MaxParallelism = 1
  MaxReplans = 0
  MaxCalls = 2
  MaxRevision = 1
  NoNode = NoNode
PROPERTIES ResultReachesNode
CHECK_DEADLOCK FALSE
