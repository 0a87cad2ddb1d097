CONSTANTS
    Documents <- MCDocuments
    OptionTexts <- MCOptionTexts
    Environments <- MCEnvironments
    MaxDepth = 2
    MaxClauses = 3
    MaxTerms = 1
    DefaultLimit = 2
    MaxLimit = 3
    DefaultTimeout = 2
    MaxInt = 3
    Answers <- MCAnswers
    Collection <- Now
    ShardKey <- MCShardKey
SPECIFICATION RouterSpec
INVARIANTS
    VerdictRight
    RequestAsWritten
    SignedWhereAsked
    TimeoutsTrue
    KeysFindDocuments
