------------------------------ MODULE Propagation ------------------------------
(***************************************************************************)
(* The exchange of capacity summaries between brokers: every broker pushes *)
(* its own summary to its peers in rounds, skips peers that keep failing   *)
(* except for a probe now and then, and keeps the newest summary of each   *)
(* domain it hears from.                                                   *)
(*                                                                         *)
(* A push is an HTTP request: it may be refused, its answer may come too   *)
(* late, and a request given up by the sender may still be served, after   *)
(* requests that were sent later.                                          *)
(***************************************************************************)
EXTENDS Naturals, FiniteSets

CONSTANTS
  Brokers,          \* one broker per domain, named by it
  Peers,            \* Peers[d]: the peers broker d is configured with
  Capacities,       \* the figures a domain's spare capacity may take
  MaxPeerFailures,  \* consecutive failures that make a peer unhealthy
  ProbeInterval,    \* an unhealthy peer is tried every so many rounds
  MaxClock,         \* bound: topology changes, each at a time of its own
  MaxFaults         \* bound: crashes and time-outs

ASSUME PropagationAssumption ==
  /\ Peers \in [Brokers -> SUBSET Brokers]
  /\ \A d \in Brokers : d \notin Peers[d]
  /\ 0 \in Capacities
  /\ MaxPeerFailures \in Nat \ {0}
  /\ ProbeInterval \in Nat \ {0}
  /\ MaxClock \in Nat
  /\ MaxFaults \in Nat

VARIABLES
  up,         \* brokers whose process runs
  clock,      \* time of the last topology change
  spare,      \* spare[d]: what the workers of d could still take
  local,      \* _local_summary of the propagator
  seen,       \* seen[p][d]: the propagator's _peer_summaries entry of d at p
  cache,      \* cache[p][d]: the broker's own _peer_summaries entry
  failures,   \* _peer_failures, no longer counted at MaxPeerFailures
  healthy,    \* healthy[d]: the peers d takes for healthy
  skip,       \* _peer_skip_counter
  net,        \* requests under way
  awaiting,   \* awaiting[d]: peers whose answer d's round waits for
  answered,   \* answered[d]: peers whose answer is on its way to d
  faults      \* crashes and time-outs so far

sender == <<failures, healthy, skip>>
copies == <<seen, cache>>
world == <<clock, spare, local>>
wire == <<net, awaiting, answered>>
vars == <<up, world, copies, sender, wire, faults>>

\* A summary counts here by its time and its capacity; time 0 is no summary.
\* (A summary without a time is none a broker sends: each stamps its own.)
Summaries == [ts : 0..MaxClock, spare : Capacities]
NoSummary == [ts |-> 0, spare |-> 0]

\* "live": the sender still waits for the answer.
Requests == [from : Brokers, to : Brokers, summary : Summaries, live : BOOLEAN]

TypeOK ==
  /\ up \subseteq Brokers
  /\ clock \in 0..MaxClock
  /\ spare \in [Brokers -> Capacities]
  /\ local \in [Brokers -> Summaries]
  /\ seen \in [Brokers -> [Brokers -> Summaries]]
  /\ cache \in [Brokers -> [Brokers -> Summaries]]
  /\ failures \in [Brokers -> [Brokers -> 0..MaxPeerFailures]]
  /\ healthy \in [Brokers -> SUBSET Brokers]
  /\ skip \in [Brokers -> [Brokers -> 0..(ProbeInterval - 1)]]
  /\ net \subseteq Requests
  /\ awaiting \in [Brokers -> SUBSET Brokers]
  /\ answered \in [Brokers -> SUBSET Brokers]
  /\ faults \in 0..MaxFaults

Init ==
  /\ up = Brokers
  /\ clock = 0
  /\ spare = [d \in Brokers |-> 0]
  /\ local = [d \in Brokers |-> NoSummary]
  /\ seen = [p \in Brokers |-> [d \in Brokers |-> NoSummary]]
  /\ cache = [p \in Brokers |-> [d \in Brokers |-> NoSummary]]
  /\ failures = [d \in Brokers |-> [p \in Brokers |-> 0]]
  /\ healthy = [d \in Brokers |-> Brokers]
  /\ skip = [d \in Brokers |-> [p \in Brokers |-> 0]]
  /\ net = {}
  /\ awaiting = [d \in Brokers |-> {}]
  /\ answered = [d \in Brokers |-> {}]
  /\ faults = 0

-----------------------------------------------------------------------------
(* The local summary.                                                       *)

\* A worker registers, leaves or is found dead: _rebuild_topology ends in
\* _update_and_propagate_summary, which reads the registry as it now is.
ChangeTopology(d, c) ==
  /\ d \in up
  /\ clock < MaxClock
  /\ clock' = clock + 1
  /\ spare' = [spare EXCEPT ![d] = c]
  /\ local' = [local EXCEPT ![d] = [ts |-> clock', spare |-> c]]
  /\ UNCHANGED <<up, copies, sender, wire, faults>>

\* A stage is dispatched, its result comes in or a probe reports a load: the
\* registry's figure changes (_update_worker_load), the summary does not.
ChangeLoad(d, c) ==
  /\ d \in up
  /\ local[d] # NoSummary
  /\ spare' = [spare EXCEPT ![d] = c]
  /\ UNCHANGED <<up, clock, local, copies, sender, wire, faults>>

-----------------------------------------------------------------------------
(* The push rounds: _loop, push_summary and _select_eligible_peers.         *)

\* The unhealthy peers this round passes over, and those it probes.
Unhealthy(d) == Peers[d] \ healthy[d]
Passed(d) == {p \in Unhealthy(d) : skip[d][p] + 1 < ProbeInterval}
Eligible_NoProbe(d) == Peers[d] \cap healthy[d]
Eligible(d) == Peers[d] \ Passed(d)

\* A round begins when the one before has all its answers.  A peer that is
\* down gets no request: its answer can only be a broken connection.
StartRound(d) ==
  /\ d \in up
  /\ local[d] # NoSummary
  /\ awaiting[d] = {}
  /\ skip' = [skip EXCEPT ![d] = [p \in Brokers |->
       IF p \in Passed(d) THEN skip[d][p] + 1
       ELSE IF p \in Unhealthy(d) THEN 0 ELSE skip[d][p]]]
  /\ awaiting' = [awaiting EXCEPT ![d] = Eligible(d)]
  /\ net' = net \cup {[from |-> d, to |-> p, summary |-> local[d], live |-> TRUE] :
                        p \in Eligible(d) \cap up}
  /\ UNCHANGED <<up, world, copies, failures, healthy, answered, faults>>

\* The answer of p reaches the round: _send_to_peer's success branch; first
\* without resetting the failures and without restoring the health.
Answer_KeepsFailures(d, p) ==
  /\ p \in answered[d]
  /\ healthy' = [healthy EXCEPT ![d] = @ \cup {p}]
  /\ skip' = [skip EXCEPT ![d][p] = 0]
  /\ awaiting' = [awaiting EXCEPT ![d] = @ \ {p}]
  /\ answered' = [answered EXCEPT ![d] = @ \ {p}]
  /\ UNCHANGED <<up, world, copies, failures, net, faults>>

Answer_KeepsHealth(d, p) ==
  /\ p \in answered[d]
  /\ failures' = [failures EXCEPT ![d][p] = 0]
  /\ skip' = [skip EXCEPT ![d][p] = 0]
  /\ awaiting' = [awaiting EXCEPT ![d] = @ \ {p}]
  /\ answered' = [answered EXCEPT ![d] = @ \ {p}]
  /\ UNCHANGED <<up, world, copies, healthy, net, faults>>

Answer(d, p) ==
  /\ p \in answered[d]
  /\ failures' = [failures EXCEPT ![d][p] = 0]
  /\ healthy' = [healthy EXCEPT ![d] = @ \cup {p}]
  /\ skip' = [skip EXCEPT ![d][p] = 0]
  /\ awaiting' = [awaiting EXCEPT ![d] = @ \ {p}]
  /\ answered' = [answered EXCEPT ![d] = @ \ {p}]
  /\ UNCHANGED <<up, world, copies, net, faults>>

\* _record_peer_failure.
RecordFailure(d, p) ==
  IF failures[d][p] + 1 >= MaxPeerFailures
  THEN /\ failures' = [failures EXCEPT ![d][p] = MaxPeerFailures]
       /\ healthy' = [healthy EXCEPT ![d] = @ \ {p}]
  ELSE /\ failures' = [failures EXCEPT ![d][p] = @ + 1]
       /\ UNCHANGED healthy

LiveRequests(d, p) == {m \in net : m.from = d /\ m.to = p /\ m.live}
GivenUp(M) == {[m EXCEPT !.live = FALSE] : m \in M}

\* The peer was down, or went down before it answered.
BrokenConnection(d, p) ==
  /\ p \in awaiting[d] \ answered[d]
  /\ LiveRequests(d, p) = {}
  /\ RecordFailure(d, p)
  /\ awaiting' = [awaiting EXCEPT ![d] = @ \ {p}]
  /\ UNCHANGED <<up, world, copies, skip, net, answered, faults>>

\* The answer does not come in time.  The request is lost or still to be
\* served, or it has been served and its answer is lost.
Timeout(d, p) ==
  /\ p \in awaiting[d]
  /\ LiveRequests(d, p) # {} \/ p \in answered[d]
  /\ faults < MaxFaults
  /\ faults' = faults + 1
  /\ RecordFailure(d, p)
  /\ awaiting' = [awaiting EXCEPT ![d] = @ \ {p}]
  /\ answered' = [answered EXCEPT ![d] = @ \ {p}]
  /\ \E late \in SUBSET LiveRequests(d, p) :
       net' = (net \ LiveRequests(d, p)) \cup GivenUp(late)
  /\ UNCHANGED <<up, world, copies, skip>>

-----------------------------------------------------------------------------
(* The receiving broker: POST /federation/summary and receive_summary.      *)

\* The propagator keeps a summary unless it is older than the one it has; a time
\* of 0, of either, is legacy and no reason to refuse.
Fresh_Always(new, old) == TRUE
Fresh(new, old) == new.ts >= old.ts \/ 0 \in {new.ts, old.ts}

\* The propagator keeps the fresher summary; the broker's own list takes
\* whatever came.
Receive(m) ==
  /\ m \in net
  /\ m.to \in up
  /\ seen' = IF Fresh(m.summary, seen[m.to][m.from])
             THEN [seen EXCEPT ![m.to][m.from] = m.summary]
             ELSE seen
  /\ cache' = [cache EXCEPT ![m.to][m.from] = m.summary]
  /\ net' = net \ {m}
  /\ answered' = IF m.live
                 THEN [answered EXCEPT ![m.from] = @ \cup {m.to}]
                 ELSE answered
  /\ UNCHANGED <<up, world, sender, awaiting, faults>>

-----------------------------------------------------------------------------
(* The broker process.                                                      *)

\* Everything the broker knew is gone; requests to it are broken, those it
\* had sent may still arrive.
Crash(d) ==
  /\ d \in up
  /\ faults < MaxFaults
  /\ faults' = faults + 1
  /\ up' = up \ {d}
  /\ spare' = [spare EXCEPT ![d] = 0]
  /\ local' = [local EXCEPT ![d] = NoSummary]
  /\ seen' = [seen EXCEPT ![d] = [e \in Brokers |-> NoSummary]]
  /\ cache' = [cache EXCEPT ![d] = [e \in Brokers |-> NoSummary]]
  /\ failures' = [failures EXCEPT ![d] = [p \in Brokers |-> 0]]
  /\ healthy' = [healthy EXCEPT ![d] = Brokers]
  /\ skip' = [skip EXCEPT ![d] = [p \in Brokers |-> 0]]
  /\ awaiting' = [awaiting EXCEPT ![d] = {}]
  /\ answered' = [answered EXCEPT ![d] = {}]
  /\ net' = {m \in net : d \notin {m.from, m.to}}
              \cup GivenUp({m \in net : m.from = d})
  /\ UNCHANGED clock

Restart(d) ==
  /\ d \in Brokers \ up
  /\ up' = up \cup {d}
  /\ UNCHANGED <<world, copies, sender, wire, faults>>

-----------------------------------------------------------------------------
Next ==
  \/ \E d \in Brokers, c \in Capacities : ChangeTopology(d, c) \/ ChangeLoad(d, c)
  \/ \E d \in Brokers : StartRound(d) \/ Crash(d) \/ Restart(d)
  \/ \E d \in Brokers : \E p \in Peers[d] :
       Answer(d, p) \/ BrokenConnection(d, p) \/ Timeout(d, p)
  \/ \E m \in net : Receive(m)

Spec == Init /\ [][Next]_vars

\* The event loop of a running broker gets to its rounds and its answers, and
\* a peer that runs serves the requests it gets.
Fairness ==
  /\ \A d \in Brokers : WF_vars(StartRound(d))
  /\ \A d \in Brokers : \A p \in Peers[d] :
       /\ WF_vars(Answer(d, p))
       /\ WF_vars(BrokenConnection(d, p))
       /\ WF_vars(\E m \in LiveRequests(d, p) : Receive(m))
  /\ WF_vars(\E m \in {n \in net : ~n.live} : Receive(m))

FairSpec == Spec /\ Fairness

-----------------------------------------------------------------------------
(* Properties.                                                              *)

\* The health of a peer is decided by its failures in a row: it is unhealthy
\* from the MaxPeerFailures-th on until a push succeeds, and rounds are only
\* skipped for an unhealthy peer.  (_record_peer_failure, _send_to_peer)
HealthIsEarned ==
  \A d \in Brokers, p \in Brokers :
    /\ p \in healthy[d] <=> failures[d][p] < MaxPeerFailures
    /\ p \in healthy[d] => skip[d][p] = 0

\* While a broker runs, its propagator's copy of a domain's summary is never
\* replaced by an older one, whatever requests are served late, although it would
\* take one without a time for any other.  The broker's own copy is replaced by
\* whatever comes, and does go back.  (receive_summary)
SummaryNeverGoesBack ==
  [][\A p \in up \cap up', d \in Brokers : seen'[p][d].ts >= seen[p][d].ts]_vars

BothStayUp(d, p) == <>[]({d, p} \subseteq up)

\* When a broker and its peer stay up, the peer comes to hold the broker's
\* last summary in both caches for good: failed pushes, crashes and late
\* requests before do not keep it from it.  (push_summary, receive_summary)
PeersConverge ==
  \A d \in Brokers : \A p \in Peers[d] :
    BothStayUp(d, p) =>
      <>[](local[d] # NoSummary =>
             /\ seen[p][d] = local[d]
             /\ cache[p][d] = local[d])

\* When both stay up the broker takes the peer for healthy in the end: the
\* probes find an unhealthy peer again.  (_select_eligible_peers)
ReachablePeerIsHealthy ==
  \A d \in Brokers : \A p \in Peers[d] : BothStayUp(d, p) => <>[](p \in healthy[d])

\* The docstring of _update_and_propagate_summary: it is called after any load
\* change that affects the available capacity, so that when both stay up and
\* the load settles, the peer learns the capacity that is left.
PeersLearnCapacity ==
  \A d \in Brokers, c \in Capacities : \A p \in Peers[d] :
    BothStayUp(d, p) /\ <>[](spare[d] = c /\ local[d] # NoSummary)
      => <>[](seen[p][d].spare = c)
=============================================================================
