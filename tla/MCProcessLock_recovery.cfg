SPECIFICATION FairSpec
CONSTANTS
  p1 = p1
  p2 = p2
  p3 = p3
  k1 = k1
  k2 = k2
  Processes = {p1, p2, p3}
  Tokens = {k1, k2}
  Nothing = Nothing
  Faults = {"crash", "refused"}
  MaxCrashes = 2
  MaxRefusals = 1
INVARIANTS TypeOK HolderIsMarked UnlinksWhatItCompared
PROPERTIES ImplementsMutex SomebodyEnters AbandonedRecovered
