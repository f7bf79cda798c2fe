SPECIFICATION Spec
CONSTANTS
  h1 = h1
  h2 = h2
  b1 = b1
  b2 = b2
  None = None
  Handlers = {h1, h2}
  Browsers = {b1, b2}
  Instants = {0, 1800}
  Expirations = {1800, 3600}
  CookieAge = 3600
  MaxCrashes = 1
SYMMETRY Symmetry
CHECK_DEADLOCK FALSE
INVARIANT ReadyHasAdmin
