SPECIFICATION Spec
CONSTANTS
    n1 = n1  n2 = n2  i1 = i1  i2 = i2  u1 = u1  u2 = u2  u3 = u3  k1 = k1  k2 = k2  v1 = v1  v2 = v2
    Callers = {c1}
    Names = {n1}
    Instances = {i1, i2}
    None = None
    Mangled <- MCMangledRecords
    Delegates = {}
    Types = {t1}
    Ports = {1, 2}
    TxtLists <- MCTxtLists
    SubtypeLists <- MCSubtypeLists
    MaxServices = 1
    QueueLen = 1
PROPERTIES FailedCallUndone TellsWhatChanged
VIEW MCView
CHECK_DEADLOCK FALSE
