SPECIFICATION ScenarioSpec
CONSTANTS
    celo = celo
    cusd = cusd
    alice = alice
    bob = bob
    Assets = {celo, cusd}
    Users = {alice, bob, treasury}
    Treasury = treasury
    treasury = treasury
    WAD = 10
    WAD_RAY_RATIO = 100
    PERCENTAGE_FACTOR = 100
    SECONDS_PER_YEAR = 10
    STABLE_BORROWING_DEPRECATED = FALSE
    OPTIMAL_UTILIZATION_RATE = 800
    baseVariableBorrowRate = 100
    variableRateSlope1 = 150
    variableRateSlope2 = 600
    stableRateSlope1 = 20
    stableRateSlope2 = 600
    marketBorrowRate = 200
    MAX_UINT128 = 1000000
    MAX_UINT256 = 1000000
    TokenUnit <- MCTokenUnit
    Configurations <- MCConfigurations
    CollateralManager = "LendingPoolCollateralManager"
    LIQUIDATION_CLOSE_FACTOR_PERCENT = 50
    ReservePercent = 2
    InitialConfiguration <- MCInitialConfiguration
    InitialWallets <- MCInitialWallets
    InitialPrices <- MCInitialPrices
    Amounts = {300}
    DelegationAmounts = {300}
    Prices <- MCPrices
    PauseValues = {}
    MaxTime = 3
    Rounding = 1
    MaxStableLoanPercent = 100
    REBALANCE_UP_LIQUIDITY_RATE_THRESHOLD = 40
    REBALANCE_UP_USAGE_RATIO_THRESHOLD = 950
    MaxActions = 5
    BlockDelays = {0, 1}
    TimeTravels = {1}
CHECK_DEADLOCK FALSE
INVARIANTS
    PredictedAsMined
