SPECIFICATION FairSpec
CONSTANTS
  Conns = {c1, c2, c3}
  Workers = {w1}
  MaxQueue = 1
  NumFds = 2
  MaxFailures = 1
  Kinds = {"getPage", "handlerThrows", "postUnknown"}
  Silent = {c3}
  Remaining = {"some"}
  None = None

PROPERTIES EveryClientServed
