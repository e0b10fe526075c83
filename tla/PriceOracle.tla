---------------------------- MODULE PriceOracle ----------------------------
(***************************************************************************)
(* The price oracle (oracle/feed.py), for one symbol.  The time of a call  *)
(* is its argument; the list of reports repeats the feed.                  *)
(***************************************************************************)
EXTENDS Integers, Sequences, FiniteSets, Functions

CONSTANTS Sources,
          Weights,    \* reputations of oracles, integer part
          Prices, MinSources, MaxAge,
          MaxPoints   \* a bound: points of the feed

ASSUME OracleAssumption ==
  /\ Weights \subseteq Nat /\ Prices \subseteq Nat
  /\ MinSources \in Nat \ {0} /\ MaxAge \in Nat /\ MaxPoints \in Nat

VARIABLE oracle

Unknown == -1   \* no such oracle, or no price yet

OracleTypeOK ==
  /\ oracle.oracles \in [Sources -> Weights \cup {Unknown}]
  /\ oracle.feed \in Seq([price : Prices, at : Nat, source : Sources])
  /\ oracle.lastValid \in Prices \cup {Unknown}

OracleInit ==
  oracle = [oracles |-> [m \in Sources |-> Unknown], feed |-> <<>>, lastValid |-> Unknown]

RegisterOracle(m, weight) == oracle' = [oracle EXCEPT !.oracles[m] = weight]

SubmitPrice(m, price, at) ==
  /\ oracle.oracles[m] # Unknown /\ Len(oracle.feed) < MaxPoints
  /\ oracle' = [oracle EXCEPT !.feed = Append(@, [price |-> price, at |-> at, source |-> m])]

ValidPoints(at) ==
  {i \in DOMAIN oracle.feed :
     at - oracle.feed[i].at < MaxAge /\ oracle.oracles[oracle.feed[i].source] # Unknown}

WeightOf(S) ==
  SumFunctionOnSet([i \in DOMAIN oracle.feed |-> oracle.oracles[oracle.feed[i].source]], S)

\* p is in the middle of the points, each counted as often as its oracle weighs.
IsMedian(p, S) ==
  LET Below == {i \in S : oracle.feed[i].price < p}
      UpTo  == {i \in S : oracle.feed[i].price <= p}
  IN  WeightOf(Below) <= WeightOf(S) \div 2 /\ WeightOf(S) \div 2 < WeightOf(UpTo)

\* Points are counted, not oracles.  An answer that is a new price is
\* remembered; if no oracle weighs anything, there is no answer.
GetPrice(at) ==
  LET S == ValidPoints(at)
  IN  /\ Cardinality(S) >= MinSources
      /\ \E p \in Prices : IsMedian(p, S) /\ oracle' = [oracle EXCEPT !.lastValid = p]
=============================================================================
