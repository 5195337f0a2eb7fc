SPECIFICATION BrowserSpec
CONSTANTS
  a = a
  b = b
  Collectors <- MCCollectors
  Chars <- MCChars
  MaxFilter = 2
  Heights = {0, 1, 2}
INVARIANTS
  BrowserTypeOK
  InStepUnlessClicked
PROPERTIES
  UnfilteredStaysInPane
  OpensSelected
CHECK_DEADLOCK FALSE
