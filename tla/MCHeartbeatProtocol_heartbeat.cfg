SPECIFICATION FairSpec
CONSTANTS
  None = None
  daemon = daemon
  user = user
  Beaters = {daemon, user}
  Nobody = Nobody
  Config <- MCConfig
  OtherKey = "other_key"
  Timeout = 1
  Offset = 2
  MaxTime = 3
  MaxChallenges = 3
CHECK_DEADLOCK FALSE
INVARIANTS TypeOK InStep TokenSpentOnce OneLossSurvived TokenWasSigned
PROPERTIES ImplementsTokenChain HeartbeatReturns
