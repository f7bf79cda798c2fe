SPECIFICATION SafeSpec
CONSTANTS
  s1 = s1
  h1 = h1
  h2 = h2
  Handlers = {h1, h2}
  Serves <- OneActs
  MaxStarters = 1
  Stoppers = {s1}
  Operator = TRUE
INVARIANT TypeOK
PROPERTY StopIsHeard
CHECK_DEADLOCK FALSE
