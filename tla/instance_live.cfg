SPECIFICATION Spec
CONSTANTS
  s1 = s1
  h1 = h1
  h2 = h2
  Handlers = {h1, h2}
  Serves <- StartsAndStops
  MaxStarters = 1
  Stoppers = {s1}
  Operator = FALSE
PROPERTY StoppedIsShown
PROPERTY UpIsShown
PROPERTY BootingIsNotShownRunning
CHECK_DEADLOCK FALSE
