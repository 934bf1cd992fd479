SPECIFICATION FairSpec
CONSTANTS
    Thread = { t1, t2 }
    Category <- TwoCategories
    Payload <- Payloads
    MaxRequests = 3
    MaxCrashes = 1
PROPERTIES
    ImplementsFeed
    AnswersTrue
    EveryRequestAnswered
