SPECIFICATION Spec
CONSTANTS
  a = a
  b = b
  s = s
  p = p
  q = q
  Nodes = {a, b}
  Synthesis = {}
  Generative = {a, b}
  Hard <- NeedsNothing
  Optional <- NeedsNothing
  Planes = {p, q}
  MaxSteps = 2
  MaxParallelism = 1
  MaxReplans = 1
  MaxCalls = 2
  MaxRevision = 1
  NoNode = NoNode
SYMMETRY Interchangeable
INVARIANTS WorkAttached  CompletedGoalSettled
PROPERTIES PendingInstructionKept
CHECK_DEADLOCK FALSE
