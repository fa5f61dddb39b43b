SPECIFICATION Spec
CHECK_DEADLOCK FALSE
SYMMETRY Symmetry
CONSTANTS
    i1 = i1
    i2 = i2
    i3 = i3
    ann = ann
    bob = bob
    s1 = s1
    s2 = s2
    s3 = s3
    t1 = t1
    t2 = t2
    b1 = b1
    Id <- MCId
    Username <- MCUsername
    Secret <- MCSecret
    Tab <- MCTab
    Browser <- MCBrowser
    BrowserOf <- MCBrowserOf
    Seeded <- MCSeeded
    Unissued <- MCUnissued
    ALLOW_ADMIN_SELF_REGISTER = TRUE
    MIN_TRIGGER_AFTER = 2
    MAX_TRIGGER_AFTER = 2
    Unused = Unused
    Gone = Gone
    None = None
    Keep = Keep
    MaxAdminActs = 1
INVARIANTS
    UsernamesUnique
    SessionIsEarned
    EnabledIsProven
    EmployeeIsHimselfUnlessLate
PROPERTIES
    HandoffInRange
