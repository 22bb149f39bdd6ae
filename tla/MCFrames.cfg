SPECIFICATION FairSpec
CONSTANTS
  HSize = 2
  BufSize = 4
  Packets = 3
  MaxBytes = 14
  Slack = 1
  ReadFails = TRUE
INVARIANTS FramesExact Aligned SlicesInRange Prompt
PROPERTY AllDecoded
CHECK_DEADLOCK FALSE
