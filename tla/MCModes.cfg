SPECIFICATION PoolSpec
CONSTANTS
    celo = celo
    cusd = cusd
    alice = alice
    bob = bob
    Assets = {celo, cusd}
    Users = {alice, bob}
    Treasury = bob
    WAD = 100
    WAD_RAY_RATIO = 100
    PERCENTAGE_FACTOR = 10000
    SECONDS_PER_YEAR = 1
    STABLE_BORROWING_DEPRECATED = FALSE
    OPTIMAL_UTILIZATION_RATE = 8000
    baseVariableBorrowRate = 0
    variableRateSlope1 = 0
    variableRateSlope2 = 0
    stableRateSlope1 = 0
    stableRateSlope2 = 0
    marketBorrowRate = 0
    MAX_UINT128 = 1000000
    MAX_UINT256 = 1000000
    TokenUnit <- MCTokenUnit
    Configurations <- MCConfigurations
    CollateralManager = "LendingPoolCollateralManager"
    LIQUIDATION_CLOSE_FACTOR_PERCENT = 5000
    ReservePercent = 200
    InitialConfiguration <- MCInitialConfiguration
    InitialWallets <- MCInitialWallets
    InitialPrices <- MCInitialPrices
    Amounts = {1}
    DelegationAmounts = {}
    Prices <- MCPrices
    PauseValues = {}
    MaxTime = 1
    Rounding = 0
    MaxStableLoanPercent = 5000
    REBALANCE_UP_LIQUIDITY_RATE_THRESHOLD = 4000
    REBALANCE_UP_USAGE_RATIO_THRESHOLD = 9500
INVARIANTS
    NoHiddenDebt
    BooksBalance
PROPERTIES
    HealthPreserved
