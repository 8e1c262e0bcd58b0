SPECIFICATION HistoryFairSpec
CONSTANTS
    N = 1
    Clients = {c1, c2, c3}
    Runs = {r1}
    NoOne = NoOne
INVARIANTS
    AnswersSettled
PROPERTIES
    EndedOnce
    LivesAsPromised
    LeaseReturned
