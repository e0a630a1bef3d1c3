SPECIFICATION Spec
CONSTANTS
  u1 = u1
  u2 = u2
  h1 = h1
  h2 = h2
  Users = {u1, u2}
  AuthUsers = {u1, u2}
  Hooks = {h1}
  ShutdownHooks = {}
  NoHook = NoHook
  NoThread = NoThread
  Outcomes = {"ok"}
  AutomaticHeartbeats = TRUE
  ClockJumps = FALSE
  FolderTokens = FALSE
  MaxSessions = 2
SYMMETRY UserSymmetry
INVARIANT NoOrphan
