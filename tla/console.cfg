SPECIFICATION Spec
CONSTANTS
  Players = {p, q}
  p = p
  q = q
  Height = 2
  Width = 1
  MaxInput = 2
  Loop = 2
  Queries = 2
CHECK_DEADLOCK FALSE
INVARIANTS TypeOK AnnouncedIsTyped
PROPERTIES OldAnswersFade
