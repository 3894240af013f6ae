CONSTANTS
    ann = ann
    ben = ben
    Users = {ann, ben}
    Tokens <- MCTokens
    InitialPositions <- MCPositions
    InitialPrices <- MCPrices
    InitialWallets <- MCWallets
    PriceMoves <- MCMoves
    Liquidity <- MCLiquidity
    RETRIES = 1
    MaxMoves = 2
    MaxFaults = 2
SPECIFICATION Spec
CHECK_DEADLOCK FALSE
INVARIANTS
    SellsOnlyWhatItSeized
PROPERTIES
    RoundsGoOn
    RiskyUsersAreRun
