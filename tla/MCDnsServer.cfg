SPECIFICATION FairSpec
CONSTANTS
    a = a
    b = b
    c = c
    None = None
    Malformed = Malformed
    NoData = NoData
    Questions <- MCThreeQuestions
    Ttls <- MCTtls
    MaxEntries = 2
    Modulus = 6
    Byte = 2
    UpstreamTimeout = 1
    MailboxSize = 1
    MaxDatagrams = 3
    MaxTime = 2
INVARIANTS
    TypeOK
    CacheSound
    AnswersItsQuestion
    ServedWhileLive
PROPERTY ServesAll
