SPECIFICATION Spec
CONSTANTS
  Passes = {p1, p2}
  Scanners = {}
  Panels = {n1}
  Dismissed = Dismissed
  Null = Null
  MaxChanges = 2
  MaxFaults = 1
INVARIANTS MarkedHasLabel QuietShelfIsCurrent
PROPERTIES StaffVerdictsStand
CHECK_DEADLOCK FALSE
