SPECIFICATION Spec
CONSTANTS
  Session = {s1, s2, s3}
  ClientQp = {q1, q2}
  UpQp = {u1, u2}
  Slots = 2
  MaxOpen = 3
  None = None
SYMMETRY Symmetry
CHECK_DEADLOCK FALSE
INVARIANTS Isolation RulesOwn FailsBeforeRedirect PortKept RulesInv
