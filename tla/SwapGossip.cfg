SPECIFICATION MCSpec
CONSTANTS
    n1 = n1
    n2 = n2
    n3 = n3
    a = a
    a2 = a2
    b = b
    Nodes = {n1, n2, n3}
    Seeds <- MCSeeds
    Intents = {a, a2, b}
    Order <- MCOrder
    Nonce <- MCNonce
    Home <- MCHome
    MayExpire = {b}
    Batch = 2
    Enough = 3
    Weak = {n1, n3}
    MaxFaults = 1
INVARIANTS
    GossipTypeOK
    QuietMeansSynced
PROPERTY GossipConverges
CHECK_DEADLOCK FALSE
