--------------------------- MODULE BridgeDailyCap ---------------------------
(***************************************************************************)
(* How much one recipient really receives in one calendar day.  The        *)
(* contract keeps counters per recipient that only requestLockMint resets, *)
(* so they do not measure a day; mintedToday, a history variable, does.    *)
(***************************************************************************)
EXTENDS BridgeLock

VARIABLE mintedToday    \* [Accounts -> units minted since the day began]

\* A step that raises the supply is a mint, and pays its recipient alone.
MintedInStep(a) ==
    IF totalSupply' > totalSupply THEN balanceOf'[a] - balanceOf[a] ELSE 0

CapInit == Init /\ mintedToday = [a \in Accounts |-> 0]

CapNext ==
    /\ Next
    /\ mintedToday' = [a \in Accounts |->
            IF now' \div DayLength # currentDay THEN 0
            ELSE mintedToday[a] + MintedInStep(a)]

CapSpec == CapInit /\ [][CapNext]_<<vars, mintedToday>>

(* Requests made before midnight and executed after it spend the limit of   *)
(* the day they were made on, and the first request of the new day opens a  *)
(* second window; there is no third one.  No recipient receives more than   *)
(* twice RATE_LIMIT in a day, however requests and confirmations straddle   *)
(* midnight.                                                                *)
AtMostTwoWindows == \A a \in Accounts : mintedToday[a] <= 2 * RATE_LIMIT

(* Why: as long as no request of today reset the counters, they include     *)
(* everything minted today; from the reset on they miss at most what one    *)
(* full window held before it.                                              *)
WindowHistory ==
    /\ mintedToday \in [Accounts -> Nat]
    /\ \A a \in Accounts :
          mintedToday[a] <= dailyMinted[a]
                            + (IF lastMintDay[a] = currentDay THEN RATE_LIMIT ELSE 0)
=============================================================================
