SPECIFICATION Spec
CHECK_DEADLOCK FALSE
CONSTANTS
    Event = {e1}
    Mock = Mock
    NoFlight = NoFlight
    MaxToggles = 2
    MaxWipes = 1
    MaxMaintenance = 1
INVARIANT
    CleanDemoIsMock
PROPERTIES
    ShownStaysShown
    OwedIsPaid
    FeedConverges
