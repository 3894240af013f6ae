SPECIFICATION BoundedSpec
CONSTANTS
    celo = celo
    cusd = cusd
    alice = alice
    bob = bob
    Assets = {celo, cusd}
    Users = {alice, bob}
    Treasury = bob
    WAD = 100
    WAD_RAY_RATIO = 100
    PERCENTAGE_FACTOR = 10000
    SECONDS_PER_YEAR = 1
    STABLE_BORROWING_DEPRECATED = FALSE
    OPTIMAL_UTILIZATION_RATE = 8000
    baseVariableBorrowRate = 1000
    variableRateSlope1 = 1500
    variableRateSlope2 = 6000
    stableRateSlope1 = 200
    stableRateSlope2 = 6000
    marketBorrowRate = 2000
    MAX_UINT128 = 1000000
    MAX_UINT256 = 1000000
    TokenUnit <- MCTokenUnit
    Configurations <- MCConfigurations
    CollateralManager = "LendingPoolCollateralManager"
    LIQUIDATION_CLOSE_FACTOR_PERCENT = 5000
    ReservePercent = 200
    InitialConfiguration <- MCFullFactorConfiguration
    InitialWallets <- MCInitialWallets
    InitialPrices <- MCInitialPrices
    Amounts = {10}
    DelegationAmounts = {}
    Prices <- MCPrices
    PauseValues = {}
    MaxTime = 3
    Rounding = 1
    MaxSteps = 9
    MaxStableLoanPercent = 7500
    REBALANCE_UP_LIQUIDITY_RATE_THRESHOLD = 4000
    REBALANCE_UP_USAGE_RATIO_THRESHOLD = 9500
INVARIANT
    WholeDebtRepayable
CHECK_DEADLOCK FALSE
