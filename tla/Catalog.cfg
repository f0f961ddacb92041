SPECIFICATION FairSpec
CONSTANTS
    Keys = {k1, k2}
    NameOf <- MCNameOf
    Scheduled = {nightly}
    Manual = {manual}
    Nobody = Nobody
    k1 = k1
    k2 = k2
    FirstFeed <- MCFirstFeed
    MaxPrice = 2
    HandPrices = {2}
    PassCap = 1
    MaxChanges = 1
    MaxTrouble = 1
INVARIANTS LoggedPriceIsCurrent EventsAndLabelsAgree
PROPERTIES EventsAreHandled CatalogFollowsFeed
