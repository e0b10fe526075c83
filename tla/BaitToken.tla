----------------------------- MODULE BaitToken -----------------------------
(***************************************************************************)
(* The BAIT token (bait_token.py) and the faucet that mints it             *)
(* (faucet.py).  Amounts stay in satoshis; a missing entry of a dictionary *)
(* of balances or allowances counts as 0.  The event log, nonces and       *)
(* identifiers of claims decide nothing and are left out.                  *)
(***************************************************************************)
EXTENDS Integers, Sequences, FiniteSets, Functions

CONSTANTS Agents,
          Amounts,       \* amounts a client asks for
          TotalSupply,
          FaucetAmount, MaxTotal, Cooldown, Window, RateLimit,
          MaxTime        \* a bound: the clock stops here

ASSUME TokenAssumption ==
  /\ IsFiniteSet(Agents)
  /\ Amounts \subseteq Nat \ {0} /\ TotalSupply \in Nat /\ MaxTime \in Nat
  /\ FaucetAmount \in Nat \ {0} /\ MaxTotal \in Nat
  /\ Cooldown \in Nat /\ Window \in Nat /\ RateLimit \in Nat

VARIABLES token,  \* granted is a history: when the faucet minted coins of this balance
          faucet, now

Holdings == SumFunctionOnSet(token.balances, Agents)

TokenTypeOK ==
  /\ token.balances \in [Agents -> Nat]
  /\ token.allowances \in [Agents -> [Agents -> Nat]]
  /\ token.minted \in Nat /\ token.burned \in Nat
  /\ token.granted \in [Agents -> Seq(Nat)]
  /\ faucet.claims \in [Agents -> Seq(Nat)] /\ faucet.count \in Nat /\ faucet.start \in Nat
  /\ now \in 0..MaxTime

TokenInit ==
  /\ token = [balances |-> [a \in Agents |-> 0],
              allowances |-> [o \in Agents |-> [s \in Agents |-> 0]],
              minted |-> 0, burned |-> 0, granted |-> [a \in Agents |-> <<>>]]
  /\ faucet = [claims |-> [a \in Agents |-> <<>>], count |-> 0, start |-> 0]
  /\ now = 0

Minted(a, n) == [token EXCEPT !.balances[a] = @ + n, !.minted = @ + n]

Mint(a, n) ==
  /\ token.minted + n <= TotalSupply
  /\ token' = Minted(a, n)

BurnUnchecked(a, n) == token' = [token EXCEPT !.balances[a] = @ - n, !.burned = @ + n]

Burn(a, n) ==
  /\ n <= token.balances[a]
  /\ token' = [token EXCEPT !.balances[a] = @ - n, !.burned = @ + n]

MovedReadingTwice(a, b, n) ==
  [token EXCEPT !.balances[a] = @ - n, !.balances[b] = token.balances[b] + n]

\* The sum is stored after the debit is, so that a transfer to oneself moves nothing.
Moved(a, b, n) ==
  LET debited == [token EXCEPT !.balances[a] = @ - n]
  IN  [debited EXCEPT !.balances[b] = @ + n]

Transfer(a, b, n) ==
  /\ n <= token.balances[a]
  /\ token' = Moved(a, b, n)

Approve(o, s, n) == token' = [token EXCEPT !.allowances[o][s] = n]

TransferFrom(s, a, b, n) ==
  /\ n <= token.allowances[a][s] /\ n <= token.balances[a]
  /\ token' = [Moved(a, b, n) EXCEPT !.allowances[a][s] = @ - n]

\* The allowance is spent before transfer finds the balance too low.
TransferFromRefused(s, a, n) ==
  /\ n <= token.allowances[a][s] /\ n > token.balances[a]
  /\ token' = [token EXCEPT !.allowances[a][s] = @ - n]

(***************************************************************************)
(* The faucet.                                                             *)
(***************************************************************************)
\* A window that has passed is forgotten, by a claim that is refused too.
Opened ==
  IF now - faucet.start > Window THEN [faucet EXCEPT !.count = 0, !.start = now] ELSE faucet

MayClaim(a) ==
  LET past == faucet.claims[a]
  IN  /\ Opened.count < RateLimit
      /\ past # <<>> => now - past[Len(past)] >= Cooldown
      /\ (Len(past) + 1) * FaucetAmount <= MaxTotal
      /\ token.minted + FaucetAmount <= TotalSupply

Claim(a) ==
  /\ MayClaim(a)
  /\ token' = [Minted(a, FaucetAmount) EXCEPT !.granted[a] = Append(@, now)]
  /\ faucet' = [Opened EXCEPT !.claims[a] = Append(@, now), !.count = @ + 1]

ClaimRefused(a) ==
  /\ ~MayClaim(a)
  /\ faucet' = Opened /\ faucet' # faucet
  /\ UNCHANGED token
=============================================================================
