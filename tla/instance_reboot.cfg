SPECIFICATION SafeSpec
CONSTANTS
  s1 = s1
  h1 = h1
  h2 = h2
  Handlers = {h1, h2}
  Serves <- Reboots
  MaxStarters = 1
  Stoppers = {s1}
  Operator = FALSE
PROPERTY AnnouncedStartBoots
CHECK_DEADLOCK FALSE
