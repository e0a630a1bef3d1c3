SPECIFICATION Spec
CONSTANTS
  a1 = a1
  a2 = a2
  Signals <- MCSignals
  GroupName <- MCGroupName
  CurrentSignals <- MCCurrentSignals
  LegacySignals <- MCLegacySignals
  MinimumFactors = 8
  Apps = {a1, a2}
  ExtraMandatory <- MCExtraMandatory
  Forcing = {a2}
  Drifting = {"nic_identity", "board_serial", "disk_serial"}
  Sources <- MCSources
  Values = {1}
  Absent = Absent
  LegacyMandatory = {"board_serial"}
  Nobody = Nobody
  None = None
  MaxDrifts = 2
  MaxWrites = 3
  MaxSecrets = 2
INVARIANTS TypeOK OneIdentity SessionsAgree HelperMatchesSecret RecoversExactly TwoMayFail
PROPERTIES HardLocksKept SecretIsHardLock
