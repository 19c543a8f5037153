SPECIFICATION Spec
CONSTANTS
  Script <- MCScript
  InfoLengths = {2, 3, 4}
  Reserved = 1
  Transports = {"CM"}
CHECK_DEADLOCK FALSE
INVARIANTS Reserves
