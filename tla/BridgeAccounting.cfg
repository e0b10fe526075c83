SPECIFICATION Spec
CONSTANTS
    Accounts = {u1, u2}
    Bridge = Bridge
    ZeroAddress = ZeroAddress
    ZeroTx = ZeroTx
    Amounts = {0, 1}
    MAX_SUPPLY = 2
    MAX_UINT = 9
    OperatorAddrs = {o1, o2}
    RequestIds = {r1, r2}
    L1TxIds = {t1, t2}
    NUM_OPERATORS = 2
    REQUIRED_CONFIRMATIONS = 2
    RATE_LIMIT = 2
    TIMELOCK_DURATION = 1
    DayLength = 1
    MaxTime = 2
    MaxReleases = 1
SYMMETRY Symmetry
INVARIANTS
  TypeOK
  AccountsBalance
  OneMintPerL1Tx
PROPERTIES
  ImplementsWrappedAsset
