SPECIFICATION Spec
CONSTANTS
  Orders = {o1, o2}
  Workers = {w1}
  Outpoints = {1, 2}
  PaysTo <- Shared
  Coins = {1}
  Funds = {1}
  ShortCoins = {}
  Faults = TRUE
  NoDeposit = NoDeposit
  NoTx = NoTx
SYMMETRY Symmetry
INVARIANTS
  TypeOK
  NothingRunsAhead
  NoCoinSpentTwice
PROPERTIES
  FinalIsFinal
