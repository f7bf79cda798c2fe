SPECIFICATION Spec
CONSTANTS
  h1 = h1
  h2 = h2
  h3 = h3
  n1 = n1
  n2 = n2
  n3 = n3
  Handlers = {h1, h2, h3}
  Names = {n1, n2, n3}
  None = None
SYMMETRY Alike
INVARIANT TypeOK
INVARIANT OneInstanceEach
INVARIANT NoStaleElement
PROPERTY ServersAreFound
