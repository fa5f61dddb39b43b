SPECIFICATION Spec
CHECK_DEADLOCK FALSE
CONSTANTS
    n1 = n1
    f1 = f1
    f2 = f2
    c1 = c1
    c2 = c2
    nonumber = nonumber
    notext = notext
    noticket = noticket
    notshown = notshown
    Number <- MCNumber
    Text <- MCText
    Form <- MCForm
    Call <- MCCall
    NoNumber = nonumber
    NoText = notext
    NoTicket = noticket
    NotShown = notshown
    Handle = {"safezone"}
    Warmed = {}
    Configured = {"safezone"}
    Status = {"open", "closed"}
    Filter = {"all", "open"}
    MaxOutages = 1
INVARIANTS
    ThankedIsKept
    PanelUpToDate
PROPERTIES
    CallsEnd
