SPECIFICATION Spec
CONSTANTS
  t1 = t1
  t2 = t2
  driver = driver
  app = app
  tool = tool
  Threads = {t1, t2, driver}
  Apps = {app, tool}
  AppOf <- MCAppOf
  Driving = {driver}
  Writable <- MCWritable
  Corrupt = Corrupt
  None = None
  Nobody = Nobody
  MaxWrites = 3
  MaxSecrets = 2
SYMMETRY MCSymmetry
CHECK_DEADLOCK FALSE
INVARIANTS TypeOK PairsMatch NextLaunchRecovers SessionsAgree RefreshedOnce
PROPERTIES KeyLostToAnother
