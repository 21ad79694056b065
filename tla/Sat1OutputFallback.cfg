SPECIFICATION PoweredSpec
CONSTANTS
  Voltages = {15}
  Safe = 5
  Highest = 20
  HighPower = 9
  IdWord = 8
  MaxSourced = 2
PROPERTY FallbackIsSafe
\* a source may fall silent for ever
CHECK_DEADLOCK FALSE
