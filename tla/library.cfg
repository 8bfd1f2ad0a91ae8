SPECIFICATION LibrarySpec
CONSTANTS
    FlowSessions = {s1}
    Requesters = {r1, r2}
    MaxOutstanding = 2
    WindowSize = 2
    MaxTries = 2
    MaxAge = 2
    MaxWindows = 2
    RatedUsers = {n1}
    RateLimits = {1, 2}
    Minute = 4
    BucketAge = 1
    SlidingLimit = 2
    SlidingSize = 2
    MaxSpan = 5
    SystemIDs = {i1}
    Passwords = {p1, p2}
    Logins = {l1}
    MaxAccounts = 2
    MaxSalts = 3
    MaxSessions = 2
    SmsIDs = {k1, k2}
    ReportIDs = {k1}
    Texts = {x1}
    Statuses = {v1, v2}
    NoEntry = NoEntry
    Torn = Torn
    MaxSkips = 1
    MessageIDs = {m1, m2}
    LongTexts <- MCLongTexts
    References = {1, 2}
    MaxSingle = 3
    MaxMulti = 2
    MaxParts = 3
    MaxDraft = 4
    MaxInbox = 3
    StoredIDs = {d1, d2, d3}
    SubmitTimes = {1, 2, 3}
    Ranks = {1, 2}
INVARIANTS
    RateBound OutstandingExact
    LimitsKept
    AnswerAsOfLookup SessionsOfUsers
    Durability
    RoundTrip  NoPatchwork
    PagesTile
PROPERTY StoreContract
CHECK_DEADLOCK FALSE
