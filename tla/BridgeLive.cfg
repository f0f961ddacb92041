SPECIFICATION FairSpec
CONSTANTS
  Bridges = {b1}
  Threads = {t1, t2}
  MaxJobs = 2
  PrintRetries = 1
  MaxFaults = 2
  None = None
PROPERTY EventuallySettled
