SPECIFICATION FairSpec
CONSTANTS
    u1 = u1  u2 = u2  ip1 = ip1  ip2 = ip2  none = none
    Users = {u1, u2}  DefaultUser = u1
    Probed <- MCProbed  DefaultName = "faroldns1"  Chosen <- MCChosen
    Addresses = {ip1, ip2}  NoAddress = none
    Unsent = Unsent  Posts <- MCPosts  Absent = Absent
    FirstStores <- MCFirstStores
    ReadsFail = TRUE  MaxPosts = 1  MaxLeases = 1  MaxFailures = 1
INVARIANTS TypeOK AckedSaveDurable OnlyCurrentVersions
PROPERTIES FreshSaveKeepsTheRest SavedSettingsRun
CHECK_DEADLOCK FALSE
