SPECIFICATION LiveSpec
CONSTANTS
    Clients = {c1, c2}
    Apps = {a1}
    Pids = {1, 2}
    Asked <- OneOrAll
    TotalUsage <- Totals
    UserUsage <- Users
    SysUsage <- Syss
    Polls = 1
    MaxServices = 1
    MaxAbilities = 2
INVARIANTS StaleProxyNoticed RepliesOwn
PROPERTIES LiveProxyKept CallersReturn
