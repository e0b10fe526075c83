--------------------------- MODULE WorkTemplates ---------------------------
(***************************************************************************)
(* External mining: work_template.py, block_validation.py and the rate     *)
(* limit of mining_transport.py, over the chain of BaitChain.  The HTTP    *)
(* server takes one request at a time (server.py, create_app), the chain   *)
(* is held in memory, and its own miner goes on mining between requests.   *)
(* A candidate is admitted, never applied.                                 *)
(***************************************************************************)
EXTENDS BaitChain, Functions

CONSTANTS Clients, MaxRequests, Window,
          TTL,
          Shares,                \* what a submission of work identifies: miner, nonce, extra nonce
          MaxTemplates, MaxTime  \* bounds

ASSUME WorkAssumption ==
  /\ MaxRequests \in Nat \ {0} /\ Window \in Nat \ {0} /\ TTL \in Nat
  /\ MaxTemplates \in Nat /\ MaxTime \in Nat

VARIABLES now,
          buckets,    \* _request_times
          templates,  \* _templates, by number
          issued,     \* how many were made
          credit,     \* history: how often each share of a template was accepted
          served      \* history: how many requests of a client went through at each time

workVars == <<now, buckets, templates, issued, credit, served>>

WorkTypeOK ==
  /\ TypeOK
  /\ now \in 0..MaxTime /\ issued \in 0..MaxTemplates
  /\ buckets \in [Clients -> Seq(0..MaxTime)]
  /\ DOMAIN templates \subseteq 1..issued
  /\ \A n \in DOMAIN templates :
       /\ templates[n].prev \in InChain /\ templates[n].expires \in Nat
       /\ templates[n].shares \subseteq Shares /\ templates[n].admitted \subseteq SUBSET Txs
  /\ credit \in [1..MaxTemplates -> [Shares -> Nat]]
  /\ served \in [Clients -> [0..MaxTime -> Nat]]

WorkInit ==
  /\ now = 0 /\ issued = 0
  /\ buckets = [c \in Clients |-> <<>>]
  /\ templates = <<>>
  /\ credit = [n \in 1..MaxTemplates |-> [s \in Shares |-> 0]]
  /\ served = [c \in Clients |-> [t \in 0..MaxTime |-> 0]]

Fresh(bucket) == Kept(bucket, (now - Window + 1)..now)

CheckRateAhead(c) ==
  /\ Len(Fresh(buckets[c])) < MaxRequests
  /\ buckets' = [buckets EXCEPT ![c] = Append(Fresh(@), now + 1)]
  /\ served' = [served EXCEPT ![c][now] = @ + 1]

\* _check_rate passes and counts the request.
CheckRate(c) ==
  /\ Len(Fresh(buckets[c])) < MaxRequests
  /\ buckets' = [buckets EXCEPT ![c] = Append(Fresh(@), now)]
  /\ served' = [served EXCEPT ![c][now] = @ + 1]

\* A request over the limit only drops what is old.
RateExceeded(c) ==
  /\ Len(Fresh(buckets[c])) >= MaxRequests
  /\ buckets' = [buckets EXCEPT ![c] = Fresh(@)]
  /\ UNCHANGED <<now, templates, issued, credit, served>>

IssueTemplate(c) ==
  /\ CheckRate(c)
  /\ issued < MaxTemplates
  /\ issued' = issued + 1
  /\ templates' = [n \in DOMAIN templates \cup {issued'} |->
       IF n = issued' THEN [prev |-> Tip, expires |-> now + TTL, shares |-> {}, admitted |-> {}]
       ELSE templates[n]]
  /\ UNCHANGED <<now, credit>>

Live(n) == n \in DOMAIN templates /\ now < templates[n].expires

SubmitShareAgain(c, n, share) ==
  /\ CheckRate(c)
  /\ n \in 1..issued
  /\ IF Live(n)
     THEN /\ templates' = [templates EXCEPT ![n].shares = @ \cup {share}]
          /\ credit' = [credit EXCEPT ![n][share] = @ + 1]
     ELSE UNCHANGED <<templates, credit>>
  /\ UNCHANGED <<now, issued>>

\* Work that meets the target of its template; the tip is not looked at.
SubmitShare(c, n, share) ==
  /\ CheckRate(c)
  /\ n \in 1..issued
  /\ IF Live(n) /\ share \notin templates[n].shares
     THEN /\ templates' = [templates EXCEPT ![n].shares = @ \cup {share}]
          /\ credit' = [credit EXCEPT ![n][share] = @ + 1]
     ELSE UNCHANGED <<templates, credit>>
  /\ UNCHANGED <<now, issued>>

\* CandidateBlockValidator, for a block on prev with the template's coinbase, a
\* proof of work, and transactions in some order.
ValidCandidate(prev, txs) ==
  /\ prev = Tip
  /\ txs \subseteq WellFormed /\ {Spends[t] : t \in txs} \subseteq utxo
  /\ \A t, u \in txs : t # u => Spends[t] # Spends[u] /\ (Agent[t] = Agent[u] => Nonce[t] # Nonce[u])

\* The block has to be the template's: same parent, same coinbase.
SubmitBlock(c, n, txs) ==
  /\ CheckRate(c)
  /\ n \in 1..issued
  /\ IF Live(n) /\ ValidCandidate(templates[n].prev, txs)
     THEN templates' = [templates EXCEPT ![n].admitted = @ \cup {txs}]
     ELSE UNCHANGED templates
  /\ UNCHANGED <<now, issued, credit>>

Expire ==
  /\ templates' = [n \in {m \in DOMAIN templates : now < templates[m].expires} |-> templates[n]]
  /\ UNCHANGED <<now, buckets, issued, credit, served>>

Tick ==
  /\ now < MaxTime
  /\ now' = now + 1
  /\ UNCHANGED <<buckets, templates, issued, credit, served>>

WorkNext ==
  \/ \E c \in Clients : RateExceeded(c) \/ IssueTemplate(c)
  \/ \E c \in Clients : \E n \in 1..issued : \E share \in Shares : SubmitShare(c, n, share)
  \/ \E c \in Clients : \E n \in 1..issued : \E txs \in SUBSET Txs : SubmitBlock(c, n, txs)
  \/ Expire
  \/ Tick

ServiceInit == Init /\ WorkInit

\* The chain moves under the service, by the node's own miner.
ServiceNext ==
  \/ Next /\ UNCHANGED workVars
  \/ mode = "service" /\ WorkNext /\ UNCHANGED vars

ServiceSpec == ServiceInit /\ [][ServiceNext]_<<vars, workVars>>

\* No client has more than max_requests requests served in any window that
\* ends now (mining_transport.py:47-57: the deque is pruned on the way in).
RateLimited ==
  \A c \in Clients : \A t \in 0..now :
    SumFunctionOnSet(served[c], {u \in 0..t : t - Window < u}) <= MaxRequests

\* Work is credited at most once, also after its template expired
\* (work_template.py:155-182, 213-218).
CreditedOnce == \A n \in 1..MaxTemplates : \A s \in Shares : credit[n][s] <= 1

\* What a template admitted can be applied while its parent is the tip: the
\* transactions still spend coins that are there (block_validation.py:79-92).
AdmittedStaysApplicable ==
  \A n \in DOMAIN templates : templates[n].prev = Tip =>
    \A txs \in templates[n].admitted : {Spends[t] : t \in txs} \subseteq utxo

\* External work is served, credited and admitted within its bounds while the
\* tip and the clock move under it (work_template.py:155-218).
WorkSound == RateLimited /\ CreditedOnce /\ AdmittedStaysApplicable
=============================================================================
