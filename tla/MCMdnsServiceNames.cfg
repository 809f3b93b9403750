SPECIFICATION FairSpec
CONSTANTS
    n1 = n1  n2 = n2  i1 = i1  i2 = i2  u1 = u1  u2 = u2  u3 = u3  k1 = k1  k2 = k2  v1 = v1  v2 = v2
    Callers = {c1}
    Names = {n1, n2}
    Instances = {i1}
    None = None
    Mangled <- MCMangledNames
    Delegates = {n2}
    Types = {t1}
    Ports = {1}
    TxtLists <- MCNoTxt
    SubtypeLists <- MCNoSubtypes
    MaxServices = 2
    QueueLen = 1
INVARIANTS TypeOK OwnServicesFollow LookupAgrees
PROPERTIES HostnameIsRegister
