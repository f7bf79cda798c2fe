SPECIFICATION Spec
CONSTANTS
  Conns = {c1, c2}
  Workers = {w1, w2}
  MaxQueue = 1
  NumFds = 4
  MaxFailures = 2
  Kinds = {"getPage", "postUnknown"}
  Silent = {}
  Remaining = {"some"}
  None = None
SYMMETRY Symmetric
INVARIANTS OwnResponse
