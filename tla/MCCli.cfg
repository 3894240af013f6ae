CONSTANTS
    c1 = c1
    c2 = c2
    Commands = {c1, c2}
    Calls <- MCCalls
    Together <- MCTogether
    InitialFunds = 3
    RETRIES = 1
    MaxFaults = 1
SPECIFICATION Spec
CHECK_DEADLOCK FALSE
INVARIANTS
    HandledEndsLeaveNoApproval
    ReportsWhatItTook
PROPERTIES
    CommandsEnd
