SPECIFICATION Spec
CONSTANTS
    en = en
    fr = fr
    de = de
    Languages <- MCLanguages
    Tongues <- MCTongues
    MaxRetries = 1
    MaxEvents = 3
INVARIANTS CommittedIsAnswered SpokenWhenIdle
PROPERTIES ImplementsChannel
CHECK_DEADLOCK FALSE
