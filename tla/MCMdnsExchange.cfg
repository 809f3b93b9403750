CONSTANTS
    Room = 200
    Long <- MCLong
    Responders <- MCResponders
    Queriers <- MCQueriers
    Queries <- MCQueries
    MaxNet = 3
    MaxKnown = 2
SPECIFICATION FairSpec
INVARIANTS TypeOK NamesReadBack ResultsSound SilenceIsKnown
PROPERTY Found
