SPECIFICATION Spec
CONSTANTS
  Passes = {p1}
  Scanners = {s1}
  Panels = {}
  Dismissed = Dismissed
  Null = Null
  MaxChanges = 2
  MaxFaults = 1
INVARIANT ScanMarkedIsCurrent
CHECK_DEADLOCK FALSE
