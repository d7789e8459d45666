CONSTANTS
    c1 = c1
    c2 = c2
    c3 = c3
    Clients <- ThreeClients
    Request <- MixedRequests
    MaxConcurrentExports = 2
    MaxInFlight = 1
    MaxAttempts = 3
    MaxCrashes = 1
SPECIFICATION FairSpec
INVARIANTS
    BooksBalance
    AnswersAreHonest
PROPERTIES
    NoProduceAfterClose
    ComesToRest
CHECK_DEADLOCK FALSE
