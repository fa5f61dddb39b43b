SPECIFICATION Spec
CHECK_DEADLOCK FALSE
CONSTANTS
    lan = lan
    p1 = p1
    p2 = p2
    a1 = a1
    a2 = a2
    nogeo = nogeo
    noentry = noentry
    nodoc = nodoc
    nobody = nobody
    noip = noip
    Ip <- MCIp
    Private = {lan}
    Offline <- MCOffline
    Attack <- MCAttack
    Said <- MCSaid
    CACHE_TTL = 1
    NEGATIVE_CACHE_TTL = 0
    MAX_CACHE_SIZE = 2
    NoGeo = nogeo
    NoEntry = noentry
    NoDoc = nodoc
    Nobody = nobody
    NoIp = noip
    GEO_PRIVATE_CITY = FALSE
    Stored <- MCStored
INVARIANTS
    CacheInOrder
    LanPlaced
    CityAndPointAgree
PROPERTIES
    GoesOn
