SPECIFICATION Spec
CONSTANTS
  u1 = u1
  u2 = u2
  h1 = h1
  h2 = h2
  Users = {u1}
  AuthUsers = {u1}
  Hooks = {h1}
  ShutdownHooks = {}
  NoHook = NoHook
  NoThread = NoThread
  Outcomes = {"ok", "raised"}
  AutomaticHeartbeats = TRUE
  ClockJumps = TRUE
  FolderTokens = FALSE
  MaxSessions = 1
INVARIANT HookOnce
