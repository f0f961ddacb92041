SPECIFICATION Spec
CONSTANTS
  Bridges = {b1, b2}
  Threads = {t1, t2}
  MaxJobs = 2
  PrintRetries = 1
  MaxFaults = 1
  None = None
SYMMETRY Symmetry
INVARIANTS TypeOK DoneMeansHandedOver OneHolderPerClaim BoundedReprints
PROPERTIES SettledStaysSettled NoOvertaking ImplementsLifecycle
