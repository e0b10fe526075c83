SPECIFICATION CapSpec
CONSTANTS
    Accounts = {u1}
    Bridge = Bridge
    ZeroAddress = ZeroAddress
    ZeroTx = ZeroTx
    Amounts = {1}
    MAX_SUPPLY = 3
    MAX_UINT = 9
    OperatorAddrs = {o1, o2, o3}
    RequestIds = {r1, r2, r3}
    L1TxIds = {t1, t2, t3}
    NUM_OPERATORS = 2
    REQUIRED_CONFIRMATIONS = 2
    RATE_LIMIT = 1
    TIMELOCK_DURATION = 1
    DayLength = 1
    MaxTime = 2
    MaxReleases = 1
SYMMETRY Symmetry
INVARIANTS
  
  AtMostTwoWindows
