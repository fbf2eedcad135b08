CONSTANTS
    Process = {p1}
    Ident = {i1}
    Rates <- MCRates
    Window = 2
    MaxNow = 2
    MaxKills = 0
    MaxRequests = 3
SPECIFICATION Spec
INVARIANT VotesAreLimited
CHECK_DEADLOCK FALSE
