SPECIFICATION Spec
CONSTANTS
    a = a
    b = b
    c = c
    None = None
    Malformed = Malformed
    NoData = NoData
    Questions <- MCTwoQuestions
    Ttls <- MCTtls
    MaxEntries = 2
    Modulus = 16
    Byte = 2
    UpstreamTimeout = 3
    MailboxSize = 1
    MaxDatagrams = 2
    MaxTime = 5
INVARIANT ServedWithinTtl
