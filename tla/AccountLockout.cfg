SPECIFICATION FairSpec
CONSTANTS
    u1 = u1
    u2 = u2
    Spellings = {"sonu"}
    UserIds = {u1}
    Tokens = {t1}
    Requests = {r1, r2}
    LOGIN_FREE_ATTEMPTS = 1
    LOGIN_BACKOFF_CAP = 2
    MAX_DOUBLINGS = 1
    TIMEDELTA_MAX = 2
    SESSION_ABSOLUTE_LIFETIME = 1
    SESSION_IDLE_LIFETIME = 1
    SESSION_TOUCH_INTERVAL = 1
    MaxCount = 4
    Kinds = {"login"}
    Folded <- LowerCase
    StartUsers <- OneAccount
    Unissued = Unissued
    Deleted = Deleted
    None = None
PROPERTIES
    Unlocks
    RefusalsAlike
