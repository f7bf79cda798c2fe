SPECIFICATION Spec
CONSTANTS
  Conns = {c1, c2, c3, c4}
  Workers = {w1, w2}
  MaxQueue = 1
  NumFds = 4
  MaxFailures = 2
  Kinds = {"getPage", "handlerThrows"}
  Silent = {}
  Remaining = {"some"}
  None = None
SYMMETRY Symmetric
INVARIANTS TypeOK OwnResponse NoDescriptorLeak AcceptHasDescriptor
PROPERTIES ClosedByOwner
