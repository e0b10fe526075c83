--------------------------- MODULE LendingEngine ---------------------------
(***************************************************************************)
(* Peer-to-peer loans (lending/engine.py).  An offer is taken whole by one *)
(* borrower, so a loan goes by the name of its offer.  Interest is only    *)
(* computed for answers: it never enters the principal.  liquidity_pool is *)
(* minus lent, and a due date changes nothing.                             *)
(***************************************************************************)
EXTENDS Integers, FiniteSets

CONSTANTS Offers, OfferAmount, Collaterals, Repayments

ASSUME LendingAssumption ==
  /\ IsFiniteSet(Offers) /\ OfferAmount \in [Offers -> Nat]
  /\ Collaterals \subseteq Nat /\ Repayments \subseteq Nat

VARIABLE lending

LoanStates == {"none", "active", "repaid", "liquidated"}
Loan == [state : LoanStates, principal : Nat, collateral : Nat]

LendingTypeOK ==
  /\ lending.offers \subseteq Offers
  /\ lending.loans \in [Offers -> Loan]
  /\ lending.lent \in Nat /\ lending.repaid \in Nat

LendingInit ==
  lending = [offers |-> {}, lent |-> 0, repaid |-> 0,
             loans |-> [o \in Offers |-> [state |-> "none", principal |-> 0, collateral |-> 0]]]

AtLeast1(n) == IF n > 1 THEN n ELSE 1

\* collateral / max(principal, 1) is at least 150 %, or below 120 %.
Covers(collateral, principal) == 2 * collateral >= 3 * AtLeast1(principal)
Undercollateralized(l) ==
  l.state = "active" /\ 5 * l.collateral < 6 * AtLeast1(l.principal)

CreateOffer(o) ==
  /\ o \notin lending.offers /\ lending.loans[o].state = "none"
  /\ lending' = [lending EXCEPT !.offers = @ \cup {o}]

Borrow(o, c) ==
  /\ o \in lending.offers
  /\ Covers(c, OfferAmount[o])
  /\ lending' = [lending EXCEPT
       !.offers = @ \ {o},
       !.loans[o] = [state |-> "active", principal |-> OfferAmount[o], collateral |-> c],
       !.lent = @ + OfferAmount[o]]

\* More than the principal may be paid, and counts as repaid.
Repay(o, n) ==
  LET l    == lending.loans[o]
      rest == IF n < l.principal THEN l.principal - n ELSE 0
  IN  /\ l.state = "active"
      /\ lending' = [lending EXCEPT
           !.loans[o] = [state |-> IF rest = 0 THEN "repaid" ELSE "active",
                         principal |-> rest, collateral |-> l.collateral],
           !.repaid = @ + n]

Liquidatable == {o \in Offers : Undercollateralized(lending.loans[o])}

CheckLiquidations ==
  lending' = [lending EXCEPT !.loans =
    [o \in Offers |-> IF o \in Liquidatable THEN [@[o] EXCEPT !.state = "liquidated"] ELSE @[o]]]
=============================================================================
