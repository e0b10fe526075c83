---------------------------- MODULE MCBaitChain ----------------------------
EXTENDS WorkTemplates, TLC

CONSTANTS t1, t2, t3

\* t1 and t2 spend one coinbase, t3 spends what t1 pays; t3 pays most.
MCSpends == (t1 :> 1) @@ (t2 :> 1) @@ (t3 :> t1)
MCFeeRate == (t1 :> 1) @@ (t2 :> 1) @@ (t3 :> 2)
MCAgent == (t1 :> "a") @@ (t2 :> "b") @@ (t3 :> "a")
MCNonce == (t1 :> 1) @@ (t2 :> 1) @@ (t3 :> 2)
=============================================================================
