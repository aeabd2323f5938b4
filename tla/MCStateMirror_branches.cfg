\* A viewed toggle answered after a checkout.
SPECIFICATION Spec
CONSTANTS
  main = main
  topic = topic
  c1 = c1
  c2 = c2
  c3 = c3
  Branch = {main, topic}
  Call = {c1, c2}
  None = None
  MaxChanges = 1
  MaxCheckouts = 1
  MaxFailures = 0
INVARIANT MarksOfSameBranch
CHECK_DEADLOCK FALSE
