------------------------------- MODULE Vault -------------------------------
(***************************************************************************)
(* The vaults of the agents (defi_core/vault.py), which the facade creates *)
(* and calls.  An allocation earns simple interest since its entry, which  *)
(* is paid out with it or lost.  rebalance and check_stop_loss have no     *)
(* caller.  The time of a call is its argument.                            *)
(***************************************************************************)
EXTENDS Integers, Sequences, FiniteSets, Functions

CONSTANTS Owners, Strategies,
          Apy,        \* percent a year by strategy, risk included
          Year,
          VaultAmounts,
          AnyStrategy,
          MaxHistory  \* a bound: entries of tx_history

ASSUME VaultAssumption ==
  /\ Apy \in [Strategies -> Nat] /\ Year \in Nat \ {0} /\ MaxHistory \in Nat
  /\ VaultAmounts \subseteq Nat \ {0} /\ AnyStrategy \notin Strategies

VARIABLE vaults

Allocation == [amount : Nat \ {0}, strategy : Strategies, entry : Nat]
Deposited == [kind : {"deposit"}, amount : Nat \ {0}, strategy : Strategies, entry : Nat]
Withdrawn == [kind : {"withdraw"}, amount : Nat \ {0}]

VaultTypeOK ==
  \A w \in Owners :
    /\ vaults[w].exists \in BOOLEAN
    /\ vaults[w].allocations \in Seq(Allocation)
    /\ vaults[w].deposits \in Nat /\ vaults[w].withdrawals \in Nat
    /\ vaults[w].history \in Seq(Deposited \cup Withdrawn)

NewVault ==
  [exists |-> TRUE, allocations |-> <<>>, deposits |-> 0, withdrawals |-> 0, history |-> <<>>]

VaultInit == vaults = [w \in Owners |-> [NewVault EXCEPT !.exists = FALSE]]

\* accrued_yield rounds twice; a is an allocation or the record of a deposit.
Accrued(a, at) == (((a.amount * Apy[a.strategy]) \div 100) * (at - a.entry)) \div Year
Value(a, at) == a.amount + Accrued(a, at)

\* A vault the agent has already is replaced, whatever it holds.
CreateVault(w) == vaults' = [vaults EXCEPT ![w] = NewVault]

VaultDeposit(w, n, s, at) ==
  LET a == [amount |-> n, strategy |-> s, entry |-> at]
      d == [kind |-> "deposit", amount |-> n, strategy |-> s, entry |-> at]
  IN  /\ vaults[w].exists /\ Len(vaults[w].history) < MaxHistory
      /\ vaults' = [vaults EXCEPT ![w].allocations = Append(@, a), ![w].deposits = @ + n,
                                  ![w].history = Append(@, d)]

Lesser(m, n) == IF m < n THEN m ELSE n

\* Allocations that hold nothing are dropped.
Nonempty(all) ==
  LET kept[n \in 0..Len(all)] == IF n = 0 THEN <<>>
                                 ELSE IF all[n].amount > 0 THEN Append(kept[n - 1], all[n])
                                 ELSE kept[n - 1]
  IN  kept[Len(all)]

\* The newest allocations are emptied first.  What is taken is taken off the
\* amount, so the interest of what stays is counted on the rest from its entry.
VaultWithdraw(w, n, s, at) ==
  LET all       == vaults[w].allocations
      targets   == {i \in DOMAIN all : s \in {AnyStrategy, all[i].strategy}}
      Worth(T)  == SumFunctionOnSet([i \in DOMAIN all |-> Value(all[i], at)], T)
      actual    == Lesser(n, Worth(targets))
      before(i) == Lesser(actual, Worth({j \in targets : j > i}))
      take(i)   == IF i \in targets THEN Lesser(actual - before(i), Value(all[i], at)) ELSE 0
      left(i)   == IF take(i) < all[i].amount THEN all[i].amount - take(i) ELSE 0
      reduced   == [i \in DOMAIN all |-> [all[i] EXCEPT !.amount = left(i)]]
      entry     == [kind |-> "withdraw", amount |-> actual]
  IN  /\ actual > 0 /\ Len(vaults[w].history) < MaxHistory
      /\ vaults' = [vaults EXCEPT
           ![w].allocations = Nonempty(reduced),
           ![w].withdrawals = @ + actual, ![w].history = Append(@, entry)]
=============================================================================
