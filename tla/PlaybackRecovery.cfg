SPECIFICATION RecoverySpec
CONSTANTS
  StallTicks = 2
  TickWord = 5
PROPERTY StopsOnlyStalled
\* no playback need begin
CHECK_DEADLOCK FALSE
