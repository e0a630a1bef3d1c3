SPECIFICATION FairSpec
CONSTANTS
  t1 = t1
  t2 = t2
  Threads = {t1, t2}
  MaxRevision = 3
  MaxFailures = 2
INVARIANTS TypeOK  AtLeastItsRevision
 
