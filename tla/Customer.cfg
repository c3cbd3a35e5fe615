CONSTANTS
    burger = burger
    cheese = cheese
    bacon = bacon
    plain = plain
    Items = {burger}
    Options = {cheese, bacon}
    Notes = {plain}
    Foreign = Foreign
    MaxLines = 2
    MaxQuantity = 2
    MaxTotal = 5
    Menus <- SmallMenus
    MaxLoads = 2
    SaleMenus <- PricesOnly
    Slots = {s1}
    Details = {d1}
    Nothing = Nothing
    Keys = {1, 2, 3, 4, 5, 6}
    MaxWire = 2
    MaxEdits = 2
    MaxVisits = 1
    MaxShopChanges = 2
    MaxFaults = 1
    MaxFlights = 3
    MaxClosings = 2
    MaxLosses = 1
    MaxOrders = 2
    BoardPage = 1
    InUse = {"reject"}
    Opened = {1}
    MaxBoardLosses = 1
    ListPage = 2
    MaxEntries = 4
    MaxPageEvents = 1
    MaxVisible = 3
    MaxNotices = 5
    MaxMoves = 4
    SiteStarts <- SmallSites
    MaxVersion = 2
    MaxRequests = 2
    MaxSiteEvents = 1
SPECIFICATION CustomerSpec
INVARIANTS CustomerTypeOK CartAsShownIsAccepted HeldKeyPinsContent RetryIsSafe BoardStaysTrue PagesAreOneList PageIsOneOfItsTime
PROPERTIES PersistencePays TrackerCatchesUp BoardCatchesUp OneGoesForAReason NoticesGo RequestIsAnswered
CHECK_DEADLOCK FALSE
