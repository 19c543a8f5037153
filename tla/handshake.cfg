SPECIFICATION FairSpec
CONSTANTS
  Script <- MCScript
  InfoLengths = {2, 3, 4}
  Reserved = 1
  Transports = {"SKT", "CM"}
CHECK_DEADLOCK FALSE
INVARIANTS TypeOK Barrier Exact
PROPERTIES AllRounds
