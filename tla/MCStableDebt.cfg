SPECIFICATION MCSpec
CONSTANTS
    alice = alice
    bob = bob
    Users = {alice, bob}
    WAD = 10
    WAD_RAY_RATIO = 1000
    PERCENTAGE_FACTOR = 10000
    SECONDS_PER_YEAR = 1
    STABLE_BORROWING_DEPRECATED = FALSE
    Amounts = {10, 15}
    Rates = {1000, 3000}
    MaxSupply = 40
    MaxTime = 3
    RateRounding = 2
    MaxSteps = 8
INVARIANTS
    TokenTypeOK
    ClocksAgree
    RatesStayInBand
    NoSupplyNoRate
PROPERTIES
    InterestIsNeverLost
CHECK_DEADLOCK FALSE
