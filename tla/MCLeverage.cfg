SPECIFICATION BoundedSpec
CONSTANTS
    cusd = cusd
    alice = alice
    bob = bob
    treasury = treasury
    Assets = {cusd}
    Users = {alice, bob, treasury}
    Treasury = treasury
    WAD = 100
    WAD_RAY_RATIO = 100
    PERCENTAGE_FACTOR = 10000
    SECONDS_PER_YEAR = 1
    STABLE_BORROWING_DEPRECATED = TRUE
    OPTIMAL_UTILIZATION_RATE = 8000
    baseVariableBorrowRate = 1000
    variableRateSlope1 = 1500
    variableRateSlope2 = 6000
    stableRateSlope1 = 200
    stableRateSlope2 = 6000
    marketBorrowRate = 2000
    MAX_UINT128 = 1000000
    MAX_UINT256 = 1000000
    TokenUnit <- MCTokenUnit
    Configurations <- MCConfigurations
    CollateralManager = "LendingPoolCollateralManagerWithReserve"
    LIQUIDATION_CLOSE_FACTOR_PERCENT = 5000
    ReservePercent = 200
    InitialConfiguration <- MCInitialConfiguration
    InitialWallets <- MCInitialWallets
    InitialPrices <- MCInitialPrices
    Amounts = {30, 40}
    DelegationAmounts = {}
    Prices <- MCPrices
    PauseValues = {}
    MaxTime = 2
    Rounding = 1
    MaxSteps = 6
    MaxStableLoanPercent = 7500
    REBALANCE_UP_LIQUIDITY_RATE_THRESHOLD = 4000
    REBALANCE_UP_USAGE_RATIO_THRESHOLD = 9500
INVARIANTS
    SuppliesAddUp
    NoHiddenDebt
PROPERTIES
    RatesFollowLiquidity
    SeizureIsPaidFor
    HealthPreserved
CHECK_DEADLOCK FALSE
