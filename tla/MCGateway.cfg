SPECIFICATION FairSpec
CONSTANTS
    NULL = NULL
    Key = Key
    MaxSends = 3
INVARIANTS NoSurplusOrder AnswersTrue
PROPERTY EveryCallAnswered
