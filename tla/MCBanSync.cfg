SPECIFICATION BanSpec
CONSTANTS
    ip1 = ip1
    ip2 = ip2
    Ip <- MCIp
    Period = 3
    Timeout = 1
    MaxWrites = 3
    MaxBoots = 1
INVARIANT
    BanWindow
PROPERTIES
    AgreementLasts
    BansConverge
