---------------------------- MODULE Marketplace ----------------------------
(***************************************************************************)
(* The marketplace of services (services.py): a purchase is settled by an  *)
(* external payment and then rated.  Only the number of ratings of a       *)
(* listing is kept of its average.                                         *)
(***************************************************************************)
EXTENDS Integers, FiniteSets

CONSTANTS Listings, Purchases, Txids, Price, None

ASSUME MarketAssumption ==
  /\ Price \in [Listings -> Nat \ {0}] /\ IsFiniteSet(Purchases)
  /\ None \notin Txids \cup Listings

VARIABLE market

\* price_sats of a purchase: 2.5 % of fee on top.
Total(l) == Price[l] + (Price[l] * 25) \div 1000

Bought == {p \in Purchases : market.listing[p] # None}
PurchasesOf(l, S) == {p \in S : market.listing[p] = l}

MarketTypeOK ==
  /\ market.listed \subseteq Listings
  /\ market.listing \in [Purchases -> Listings \cup {None}]
  /\ market.txid \in [Purchases -> Txids \cup {None}]
  /\ market.settled \subseteq Bought /\ market.rated \subseteq market.settled
  /\ market.calls \in [Listings -> Nat] /\ market.revenue \in [Listings -> Nat]
  /\ market.ratings \in [Listings -> Nat] /\ market.volume \in Nat

MarketInit ==
  market = [listed |-> {}, listing |-> [p \in Purchases |-> None],
            txid |-> [p \in Purchases |-> None], settled |-> {}, rated |-> {},
            calls |-> [l \in Listings |-> 0], revenue |-> [l \in Listings |-> 0],
            ratings |-> [l \in Listings |-> 0], volume |-> 0]

ListService(l) ==
  /\ l \notin market.listed
  /\ market' = [market EXCEPT !.listed = @ \cup {l}]

PurchaseService(p, l) ==
  /\ p \notin Bought /\ l \in market.listed
  /\ market' = [market EXCEPT !.listing[p] = l]

\* A purchase that is settled already is answered from its record.
SettlePurchase(p, x) ==
  LET l == market.listing[p]
  IN  /\ p \in Bought \ market.settled
      /\ market' = [market EXCEPT !.settled = @ \cup {p}, !.txid[p] = x, !.calls[l] = @ + 1,
                                  !.revenue[l] = @ + Price[l], !.volume = @ + Total(l)]

RateService(p) ==
  /\ p \in market.settled \ market.rated
  /\ market' = [market EXCEPT !.rated = @ \cup {p}, !.ratings[market.listing[p]] = @ + 1]
=============================================================================
