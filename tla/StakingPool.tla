---------------------------- MODULE StakingPool ----------------------------
(***************************************************************************)
(* The staking pool (staking/pool.py).  Whether an unstake comes before    *)
(* the end of the lock period is a choice of the clock; a position is      *)
(* never deleted, so an agent stakes once.                                 *)
(***************************************************************************)
EXTENDS Integers, FiniteSets

CONSTANTS Stakers, Stakes, MinStake, Percents, Rewards,
          MaxRewards  \* a bound

ASSUME StakingAssumption ==
  /\ IsFiniteSet(Stakers)
  /\ Stakes \subseteq Nat /\ MinStake \in Nat \ {0}
  /\ Percents \subseteq 0..100 /\ Rewards \subseteq Nat

VARIABLE staking

States == {"none", "active", "withdrawn", "slashed"}

StakingTypeOK ==
  /\ staking.pos \in [Stakers -> [state : States, amount : Nat, reward : Int]]
  /\ staking.total \in Int /\ staking.distributed \in Nat

StakingInit ==
  staking = [pos |-> [a \in Stakers |-> [state |-> "none", amount |-> 0, reward |-> 0]],
             total |-> 0, distributed |-> 0]

Stake(a, n) ==
  /\ n >= MinStake
  /\ staking.pos[a].state = "none"
  /\ staking' = [staking EXCEPT !.pos[a] = [state |-> "active", amount |-> n, reward |-> 0],
                                !.total = @ + n]

UnstakeLeavingActive(a) ==
  /\ staking.pos[a].state = "active"
  /\ staking' = [staking EXCEPT !.total = @ - staking.pos[a].amount]

\* The penalty of an early unstake lowers what is paid, not what leaves the total.
Unstake(a) ==
  /\ staking.pos[a].state = "active"
  /\ staking' = [staking EXCEPT !.pos[a].state = "withdrawn",
                                !.total = @ - staking.pos[a].amount]

Effective(a) == IF staking.pos[a].state = "active" THEN staking.pos[a].amount ELSE 0

\* int() of a quotient of either sign.
Truncated(x, y) == IF y > 0 THEN x \div y ELSE -(x \div (-y))

Share(a, n) == IF Effective(a) > 0 THEN Truncated(n * Effective(a), staking.total) ELSE 0

DistributeRewards(n) ==
  /\ staking.total # 0
  /\ staking.distributed + n <= MaxRewards
  /\ staking' = [staking EXCEPT
       !.pos = [a \in Stakers |-> [staking.pos[a] EXCEPT !.reward = @ + Share(a, n)]],
       !.distributed = @ + n]

\* Any position can be slashed, and stays so: also one that was withdrawn.
Slash(a, percent) ==
  LET cut == (staking.pos[a].amount * percent) \div 100
  IN  /\ staking.pos[a].state # "none"
      /\ staking' = [staking EXCEPT !.pos[a].amount = @ - cut, !.pos[a].state = "slashed",
                                    !.total = @ - cut]
=============================================================================
