SPECIFICATION StartupSpec
CONSTANTS
  h1 = h1
  h2 = h2
  b1 = b1
  b2 = b2
  None = None
  Absent = Absent
  Text = Text
  Handlers = {h1, h2}
  Browsers = {b1, b2}
  Instants = {0, 3601}
  Expirations = {3600, 3601}
  CookieAge = 3600
  MaxCrashes = 2
  Build = "prod"
  FileKeys <- AllKeys
  Options <- AllOptions
  MaxEdits = 1
  MaxArgs = 1
  LateOptions <- SessionOptions
  VisitedEdits = 0
  Visited = {"builtin", "given"}
SYMMETRY Symmetry
CHECK_DEADLOCK FALSE
INVARIANTS StartupTypeOK CookieIsDurable SessionsAreDistinct NumbersInRange
PROPERTIES NoSessionRefusedEarly FilesKeepTheirSessions UntouchedIsBuiltin
