SPECIFICATION Spec
CONSTANTS
  Bridges = {b1, b2}
  Threads = {t1, t2}
  MaxJobs = 1
  PrintRetries = 1
  MaxFaults = 2
  None = None
PROPERTY VerdictIsFinal
