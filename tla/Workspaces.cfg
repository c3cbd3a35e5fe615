CONSTANTS
    NoData = NoData
    starters = starters
    mains = mains
    soup = soup
    pasta = pasta
    short = short
    long = long
    Designs = {classic}
    DefaultDesign = classic
    unfetched = unfetched
    Groups = {sizes, extras}
    ChoiceIds = {regular, large}
    Labels = {short, long}
    NoLimit = noLimit
    Limits = {0, 1, 2}
    TypedLimits = {2}
    MaxModifierEvents = 2
    Editors = {owner, other}
    Composers = {owner}
    Configs = {plain, rich}
    DefaultConfig = plain
    MaxRows = 2
    MaxLock = 1
    MinutesPerDay = 8
    DaysPerWeek = 3
    MaxIntervalsPerDay = 2
    SmallHours = 5
    ScanDays = 6
    DefaultPolicy <- Usual
    Policies <- TwoPolicies
    EditableDates = {1, 2}
    WeekForms <- TypedWeeks
    DateForms <- DateRows
    Dates = {2, 9}
    HoursStarts <- HoursAtFirst
    Zones <- FourZones
    FirstInstant = 8
    LastInstant = 24
    MaxHoursEvents = 2
    MaxAssets = 2
    Renditions <- TwoSizes
    MaxMediaEvents = 3
    MaxSessionEvents = 1
    MaxSessions = 2
    Threshold = 1
    MaxRequests = 3
    MaxTokens = 2
    PageEmails = {ann}
    PageRoles = {"owner", "staff"}
    PageInvitations = 2
    PageEvents = 1
    ServerEmails = {ann, bob}
    ServerRoles = {"owner", "manager", "staff"}
    ServerGuests = {1, 2}
    ServerInvitations = 3
    ServerEvents = 3
    Categories = {starters, mains}
    Dishes = {soup, pasta}
    Titles = {short, long}
    FeaturedLimit = 1
    MenuStarts <- SmallMenus
    MaxMenuEvents = 2
    Kinds = {"hero", "gallery"}
    Lead = "hero"
    Optional = {"gallery"}
    Headings = {short, long}
    TooLong = {long}
    Photos = {photo}
    Brands = {plain, rich}
    DefaultBrand = plain
    MaxImages = 2
    MaxEdits = 4
    MaxSectionEvents = 2
    Exponents = {0, 2, 3}
    StoredPrices = {0, 5, 505}
    Wholes <- NothingOrFive
    Fractions <- NothingToFive
    MaxPrice = 5000
    MaxSafe = 50000
    MaxPriceEvents = 2
SPECIFICATION WorkspacesSpec
INVARIANTS WorkspacesTypeOK CatalogStaysSound HoursMeanWhatTheySay GapsAreMarked SessionsStaySound InvitationsStaySound
PROPERTIES ImagesServable EditKeepsTheRest NothingUnseenIsSent CacheIsTheEditor
CHECK_DEADLOCK FALSE
