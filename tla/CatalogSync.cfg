SPECIFICATION Spec
CONSTANTS
    k1 = k1
    k2 = k2
    Keys = {k1, k2}
    Feeds <- MCFeeds
    MinItems = 1
    MaxPrice = 2
    MaxFeeds = 2
    MaxEdits = 1
    MaxTrouble = 1
    MaxWeeks = 1
 
PROPERTIES ChangesReachTheQueue HandEditsSurvive
