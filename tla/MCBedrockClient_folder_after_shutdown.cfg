SPECIFICATION Spec
CONSTANTS
  u1 = u1
  u2 = u2
  h1 = h1
  h2 = h2
  Users = {u1}
  AuthUsers = {u1}
  Hooks = {h1}
  ShutdownHooks = {h1}
  NoHook = NoHook
  NoThread = NoThread
  Outcomes = {"ok", "raised"}
  AutomaticHeartbeats = TRUE
  ClockJumps = FALSE
  FolderTokens = TRUE
  MaxSessions = 1
INVARIANT FolderClosed
