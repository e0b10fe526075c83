---------------------------- MODULE WrappedAsset ----------------------------
(***************************************************************************)
(* What a lock-and-mint bridge promises, without operators, confirmations, *)
(* days, pauses or allowances.  A deposit on L1 is claimed once and issued *)
(* at most once; issued units are redeemed and each redemption is paid on  *)
(* L1 at most once.  custody is what L1 must hold for all of it.           *)
(***************************************************************************)
EXTENDS Integers, Sequences

CONSTANTS Deposits, MaxUnits

VARIABLES
    deposit,        \* [Deposits -> [amount, issued]], amount 0 until claimed
    custody,        \* units locked on L1
    outstanding,    \* units issued and not yet redeemed
    supply,         \* wrapped units that exist
    redemptions     \* sequence of [amount, paid]

vars == <<deposit, custody, outstanding, supply, redemptions>>

Init ==
    /\ deposit = [d \in Deposits |-> [amount |-> 0, issued |-> FALSE]]
    /\ custody = 0
    /\ outstanding = 0
    /\ supply = 0
    /\ redemptions = <<>>

Claim(d, amount) ==
    /\ deposit[d].amount = 0
    /\ deposit' = [deposit EXCEPT ![d].amount = amount]
    /\ custody' = custody + amount
    /\ UNCHANGED <<outstanding, supply, redemptions>>

Issue(d) ==
    /\ deposit[d].amount > 0
    /\ ~deposit[d].issued
    /\ deposit' = [deposit EXCEPT ![d].issued = TRUE]
    /\ outstanding' = outstanding + deposit[d].amount
    /\ supply' = supply + deposit[d].amount
    /\ outstanding' <= custody
    /\ UNCHANGED <<custody, redemptions>>

\* A redeemed unit is destroyed, so it must exist.
Redeem(amount) ==
    /\ amount <= supply
    /\ amount <= outstanding
    /\ outstanding' = outstanding - amount
    /\ supply' = supply - amount
    /\ redemptions' = Append(redemptions, [amount |-> amount, paid |-> FALSE])
    /\ UNCHANGED <<deposit, custody>>

\* Units thrown away by their holder stay in custody for ever.
Discard(amount) ==
    /\ amount <= supply
    /\ supply' = supply - amount
    /\ UNCHANGED <<deposit, custody, outstanding, redemptions>>

Pay(i) ==
    /\ ~redemptions[i].paid
    /\ redemptions[i].amount + outstanding <= custody
    /\ redemptions' = [redemptions EXCEPT ![i].paid = TRUE]
    /\ custody' = custody - redemptions[i].amount
    /\ UNCHANGED <<deposit, outstanding, supply>>

Next ==
    \/ \E d \in Deposits : Issue(d) \/ \E amount \in 1..MaxUnits : Claim(d, amount)
    \/ \E amount \in 1..MaxUnits : Redeem(amount) \/ Discard(amount)
    \/ \E i \in DOMAIN redemptions : Pay(i)

Spec == Init /\ [][Next]_vars
=============================================================================
