SPECIFICATION Spec
CONSTANTS
    u1 = u1
    u2 = u2
    Spellings = {"sonu", "Sonu"}
    UserIds = {u1, u2}
    Tokens = {t1, t2}
    Requests = {r1, r2}
    LOGIN_FREE_ATTEMPTS = 0
    LOGIN_BACKOFF_CAP = 1
    MAX_DOUBLINGS = 1
    TIMEDELTA_MAX = 2
    SESSION_ABSOLUTE_LIFETIME = 3
    SESSION_IDLE_LIFETIME = 2
    SESSION_TOUCH_INTERVAL = 1
    MaxCount = 2
    Kinds = {"register", "login", "logout", "other"}
    Folded <- LowerCase
    StartUsers <- NobodyYet
    Unissued = Unissued
    Deleted = Deleted
    None = None
SYMMETRY Symmetric
INVARIANTS
    IInv
    OneAccountPerAddress
PROPERTIES
    EndedForGood
    OthersStaySignedIn
