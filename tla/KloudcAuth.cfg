SPECIFICATION Spec
CONSTANTS
    Threads = {r1, r2}
    s = s
    Staff = {s}
    Fakes = {f1, f2}
    Clients = {c1, c2, c3}
    NoClient = none
    End = 3
    SessionEnd <- MCSessionEnd
    CacheTtl = 2
    NegTtl = 1
    Grace = 1
    Minute = 3
    MaxChecks = 2
    Timeout = 1
    HandoffAge = 3
    MaxEntries = 2
    MaxTracked = 2
    MaxFlips = 1
    MaxClock = 4
SYMMETRY Symmetric
INVARIANTS CallsWithinLimit SessionEndHolds NoGraceAfterNo RecentYesStillWorks
