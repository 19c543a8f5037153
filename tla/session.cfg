SPECIFICATION SessionFairSpec
CONSTANTS
  Programs = {"server", "proxy-switch", "proxy-server1", "proxy"}
  Faults = TRUE
CHECK_DEADLOCK FALSE
INVARIANTS SessionTypeOK OneUnread NodeLifetime
PROPERTIES SessionEnds AbandonedSetupEnds CommandTaken GoneUnnoticed
