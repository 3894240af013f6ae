SPECIFICATION PoolSpec
CONSTANTS
    celo = celo
    ceur = ceur
    cusd = cusd
    alice = alice
    bob = bob
    Assets = {celo, ceur, cusd}
    Users = {alice, bob}
    Treasury = bob
    WAD = 100
    WAD_RAY_RATIO = 100
    PERCENTAGE_FACTOR = 10000
    SECONDS_PER_YEAR = 1
    STABLE_BORROWING_DEPRECATED = TRUE
    OPTIMAL_UTILIZATION_RATE = 8000
    baseVariableBorrowRate = 0
    variableRateSlope1 = 400
    variableRateSlope2 = 6000
    stableRateSlope1 = 200
    stableRateSlope2 = 6000
    marketBorrowRate = 300
    MAX_UINT128 = 1000000
    MAX_UINT256 = 1000000
    TokenUnit <- MCTokenUnit
    Configurations <- MCConfigurations
    CollateralManager = "LendingPoolCollateralManager"
    LIQUIDATION_CLOSE_FACTOR_PERCENT = 5000
    ReservePercent = 200
    InitialConfiguration <- MCInitialConfiguration
    InitialWallets <- MCInitialWallets
    InitialPrices <- MCInitialPrices
    Amounts = {1}
    DelegationAmounts = {}
    Prices <- MCPrices
    PauseValues = {}
    MaxTime = 0
    Rounding = 0
    MaxStableLoanPercent = 2500
    REBALANCE_UP_LIQUIDITY_RATE_THRESHOLD = 4000
    REBALANCE_UP_USAGE_RATIO_THRESHOLD = 9500
INVARIANTS
    SuppliesAddUp
PROPERTIES
    HealthPreserved
