CONSTANTS
    Asset = {a, b}
    Quotes = {1, 2}
    W = 4
    Grain = 2
    MaxUnits = 3
    MaxCash = 4
SPECIFICATION PortfolioSpec
INVARIANT ProposalAnswers
