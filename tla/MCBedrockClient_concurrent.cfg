SPECIFICATION Spec
CONSTANTS
  u1 = u1
  u2 = u2
  h1 = h1
  h2 = h2
  Users = {u1, u2}
  AuthUsers = {u1}
  Hooks = {h1}
  ShutdownHooks = {h1}
  NoHook = NoHook
  NoThread = NoThread
  Outcomes = {"ok", "denied"}
  AutomaticHeartbeats = TRUE
  ClockJumps = TRUE
  FolderTokens = FALSE
  MaxSessions = 2
INVARIANTS TypeOK HookBound DeathIsReported BeatExclusion NoOrphan BeaterDeathKillsSession
