SPECIFICATION Spec
CONSTANTS
    Services = {"s1"}
    TypeOf <- MCTypeOf
    Instanced = {"s1"}
    QueueLen = 2
    FailLimit = 1
    MaxEvents = 2
INVARIANT StoppedIsSilent
CHECK_DEADLOCK FALSE
