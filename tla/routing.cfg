SPECIFICATION RouterSpec
CONSTANTS
  login = login
  status = status
  stop = stop
  summon = summon
  None = None
  Lanes = 2
  MaxPath = 9
  BufSize = 6
  Login = login
  AuthRoutes <- TheAuthRoutes
  ApiRoutes <- TheApiRoutes
  LoginPath <- TheLoginPath
  PanelPath <- ThePanelPath
  Files <- TheFiles
  LoginFile <- TheLoginFile
  PanelFile <- ThePanelFile
  Extensions <- TheExtensions
  Requests <- AllRequests
CHECK_DEADLOCK FALSE
INVARIANTS RouterTypeOK PathsAreChecked BodyIsWhole RoutesAsRegistered AnonymousOnlyLogsIn CheckedPathIsUsed
PROPERTIES PlainPathsPass
