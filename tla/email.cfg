SPECIFICATION FairSpec
CONSTANTS
    r1 = r1
    r2 = r2
    NumConsumers = 2
    MaxBoots = 2
    MaxFaults = 1
    Requests = {r1, r2}
    MaxEmails = 2
    MaxMails = 2
    MaxRetries = 1
INVARIANTS
    LoopsHaveProducer
    StartedMeansRunning
    ShutdownStopsAll
    AnswersAreTrue
PROPERTIES
    ImplementsOrderedLog
    MailsAreSettled
CHECK_DEADLOCK FALSE
