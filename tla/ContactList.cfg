SPECIFICATION MCSpec
CONSTANTS
    Individuals = {"a1", "a2", "b"}
    IdOf <- MCIdOf
    Local = {}
    Group = "g"
    TopLen = 1
    CheckEvery = 2
    MaxPop = 1
    Contacts <- MCContacts
    Groups <- MCGroups
    Events = {"e1", "e2"}
    EventOf <- MCEventOf
    MaxEntries = 3
    MaxIdles = 1
    Accounts = {"paid", "free"}
    Entities = {"x", "y"}
    AccountOf <- MCAccountOf
    LastDay = 2
    CallLogs <- MCCallLogs
    MaxActs = 3
    MaxSearches = 1
INVARIANTS
    ListenersKnowTheModel
    RowsFollowTheModel
    WindowTellsAccounts
    EventsFollowPanes
PROPERTIES
    SpinnerStops
CHECK_DEADLOCK FALSE
