--------------------------- MODULE AgentRegistry ---------------------------
(***************************************************************************)
(* The registry of agents (agent_protocol/registry.py).  Keys and          *)
(* capabilities of an agent decide nothing here, and stake_sats and        *)
(* is_active are never set.                                                *)
(***************************************************************************)
EXTENDS Integers, Sequences, FiniteSets

CONSTANTS Members, Deltas, MaxAgents,
          MaxEvents  \* a bound: reputation events of one process

ASSUME RegistryAssumption == Deltas \subseteq Int /\ MaxAgents \in Nat /\ MaxEvents \in Nat

VARIABLE registry

Absent == -1

RegistryTypeOK ==
  /\ registry.score \in [Members -> (0..100) \cup {Absent}]
  /\ registry.events \in Seq([agent : Members, delta : Deltas])

RegistryInit == registry = [score |-> [m \in Members |-> Absent], events |-> <<>>]

Registered == {m \in Members : registry.score[m] # Absent}

Register(m) ==
  /\ m \notin Registered /\ Cardinality(Registered) < MaxAgents
  /\ registry' = [registry EXCEPT !.score[m] = 50]

Clamped(n) == IF n > 100 THEN 100 ELSE IF n < 0 THEN 0 ELSE n

UpdateReputation(m, delta) ==
  /\ m \in Registered /\ Len(registry.events) < MaxEvents
  /\ registry' = [registry EXCEPT !.score[m] = Clamped(@ + delta),
                                  !.events = Append(@, [agent |-> m, delta |-> delta])]

\* What a list of events makes of the initial score of an agent.
ScoreAfter(m, events) ==
  LET score[n \in 0..Len(events)] ==
        IF n = 0 THEN 50
        ELSE IF events[n].agent = m THEN Clamped(score[n - 1] + events[n].delta)
        ELSE score[n - 1]
  IN  score[Len(events)]
=============================================================================
