SPECIFICATION FairSpec
CONSTANTS
    Configs <- MCAllConfigs
    Sites <- MCAllSites
    MaxPending = 2
INVARIANTS
    TypeOK
    NoLostWakeup
    StationNotStranded
    SettlesTruly
PROPERTIES
    StateAndRadioTakeTurns
    FailsOver
