SPECIFICATION ModelSpec
CONSTANTS
  Urls = {u1, u2}
  NoUrl = NoUrl
  MaxSelections = 2
  MaxEarly = 1
  MaxDownloads = 5
PROPERTY RightModelListens
CHECK_DEADLOCK FALSE
