SPECIFICATION FairSpec
CONSTANTS
  Passes = {p1, p2}
  Scanners = {s1}
  Panels = {}
  Dismissed = Dismissed
  Null = Null
  MaxChanges = 2
  MaxFaults = 1
INVARIANTS MarkedHasLabel PassLabelsAreDistinct QuietShelfIsCurrent
PROPERTIES StaffVerdictsStand ChangesAreReviewed ClaimsResolve
CHECK_DEADLOCK FALSE
