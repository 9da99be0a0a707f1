SPECIFICATION Spec
CONSTANTS
  NFiles = 3
  Length <- MCLength
  Fps = 2
  Gop = 2
  Seconds = {0, 2, 3, 4}
  MaxSeeks = 2
  MaxToggles = 2
INVARIANTS Position RightFile Landed InSequence
PROPERTIES Ends
