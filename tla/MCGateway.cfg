SPECIFICATION Spec
CHECK_DEADLOCK FALSE
CONSTANTS
    lan = lan
    local = local
    nginx = nginx
    other = other
    nobody = nobody
    unknown = unknown
    w1 = w1
    w2 = w2
    Address <- MCAddress
    Loopback = {local}
    Trusted = {nginx}
    NGINX = nginx
    PANEL = local
    NoAddress = nobody
    Unknown = unknown
    Client = {lan, local, nginx}
    Bannable = {local}
    Slot <- MCSlot
    Asks <- MCAsks
    GRANT_ON = 3
    SUSPICIOUS_ON = 2
    MAX_BYTES = 5
    HARD_MAX = 2
    LATE = 1
    TOTAL_CHUNKS = 1
    ENTRY_DEPTH = 2
    CHECKPOINT_DEPTH = 2
    MAX_DEPTH = 4
    MaxRestarts = 1
INVARIANTS
    TypeOK
    ChargedToSender
    StreamReportsOnce
    CountdownHonest
    RedirectsLead
    AttackIsLogged
PROPERTIES
    Answered
