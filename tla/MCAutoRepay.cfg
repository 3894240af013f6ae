SPECIFICATION Spec
CONSTANTS
    ann = ann
    ben = ben
    cat = cat
    robot = robot
    Users = {ann, ben}
    Keepers = {cat, robot}
    Bot = robot
    LiquidationThreshold = 80
    FLASHLOAN_PREMIUM_TOTAL = 9
    FEE = 10
    MAX_SLIPPAGE = 200
    HUNDRED_PERCENT = 10000
    InitialWorlds <- MCWorlds
    InitialPrices <- MCInitialPrices
    InitialDepth <- MCInitialDepth
    Liquidity <- MCLiquidity
    Prices <- MCPrices
    Spreads = {101}
    Depths <- MCDepths
    Limits <- MCLimits
    Allowances = {100}
    KeeperAmounts = {400}
    MaxMoves = 2
    RETRIES = 1
    MaxFaults = 1
PROPERTIES
    PullsInProportion
    PullsAtMostTheQuote
    HelpedUnlessBlocked
