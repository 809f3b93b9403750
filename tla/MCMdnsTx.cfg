SPECIFICATION FairSpec
CONSTANTS
    Services = {"s1", "s2"}
    TypeOf <- MCTypeOf
    Instanced = {"s1"}
    QueueLen = 2
    FailLimit = 1
    MaxEvents = 2
INVARIANTS
    TypeOK
    MemorySafe
    NoInterfaceStuck
PROPERTY Settles
CHECK_DEADLOCK FALSE
