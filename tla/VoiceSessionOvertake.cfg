SPECIFICATION VoiceSpec
CONSTANTS
  Users = {reopener}
  Reopener = reopener
  Watchdogs = {}
  Mic = mic
  Tx = tx
  Rx = rx
  PrerollFrames = 1
  QueueFrames = 1
  Congested = 1
  Recovery = 0
  MaxStarts = 1
  MaxMarks = 0
PROPERTIES AudioAfterStart
