SPECIFICATION Spec
CHECK_DEADLOCK FALSE
CONSTANTS
    r1 = r1
    r2 = r2
    ip1 = ip1
    Report <- MCReport
    Ip <- MCIp
    IpOf <- MCIpOf
    RiskDelta <- MCRiskDelta
    Verdict <- MCVerdict
    NoVerdict = NoVerdict
    NoProfile = NoProfile
    MaxAdminActs = 1
    MaxCrashes = 1
INVARIANT SeverityIsWorst
