---------------------------- MODULE Federation_proofs ----------------------------
(***************************************************************************)
(* What brokers do with one another, for any federation: the summaries     *)
(* they push and what they make of a peer that does not answer; the        *)
(* coordinator of a sharded oracle; and the requests that are forwarded.   *)
(***************************************************************************)
EXTENDS Propagation, ShardedOracle, Workload, SequenceTheorems, TLAPS

(***************************************************************************)
(* Types, peer health and freshness of the summaries.                      *)
(***************************************************************************)
\* No summary is a summary, and so is every summary a topology change makes.
LEMMA SummaryFacts ==
  /\ NoSummary \in Summaries
  /\ \A n \in 0..MaxClock, c \in Capacities : [ts |-> n, spare |-> c] \in Summaries
BY PropagationAssumption DEF NoSummary, Summaries

\* A request that is given up is a request.
LEMMA GivenUpFacts ==
  ASSUME NEW M \in SUBSET Requests
  PROVE  GivenUp(M) \subseteq Requests
BY DEF GivenUp, Requests

\* The initial states have the right types.
LEMMA InitTypes == Init => TypeOK
BY SummaryFacts, PropagationAssumption DEF Init, TypeOK

\* Changing one entry of a table of tables keeps its type.
LEMMA EntryTypes ==
  ASSUME NEW D, NEW R, NEW f \in [D -> [D -> R]], NEW d \in D, NEW p \in D, NEW r \in R
  PROVE  [f EXCEPT ![d][p] = r] \in [D -> [D -> R]]
<1>1. f[d] \in [D -> R]
  OBVIOUS
<1>2. [f[d] EXCEPT ![p] = r] \in [D -> R]
  BY <1>1
<1>3. [f EXCEPT ![d][p] = r] = [f EXCEPT ![d] = [f[d] EXCEPT ![p] = r]]
  OBVIOUS
<1> QED BY <1>2, <1>3

\* One more failure keeps the types of what is known of a peer.
LEMMA FailureTypes ==
  ASSUME TypeOK, NEW d \in Brokers, NEW p \in Brokers, RecordFailure(d, p)
  PROVE  /\ failures' \in [Brokers -> [Brokers -> 0..MaxPeerFailures]]
         /\ healthy' \in [Brokers -> SUBSET Brokers]
<1>1. failures[d][p] \in 0..MaxPeerFailures
  BY DEF TypeOK
<1>2. healthy' \in [Brokers -> SUBSET Brokers]
  BY DEF RecordFailure, TypeOK
<1>3. PICK n \in 0..MaxPeerFailures : failures' = [failures EXCEPT ![d][p] = n]
  <2>1. CASE failures[d][p] + 1 >= MaxPeerFailures
    BY <2>1, PropagationAssumption DEF RecordFailure
  <2>2. CASE ~(failures[d][p] + 1 >= MaxPeerFailures)
    <3>1. failures[d][p] + 1 \in 0..MaxPeerFailures
      BY <1>1, <2>2, PropagationAssumption
    <3> QED BY <2>2, <3>1 DEF RecordFailure
  <2> QED BY <2>1, <2>2
<1>4. failures \in [Brokers -> [Brokers -> 0..MaxPeerFailures]]
  BY DEF TypeOK
<1> QED BY <1>2, <1>3, <1>4, EntryTypes

\* A step of any kind keeps the types.
LEMMA StepTypes ==
  ASSUME TypeOK, [Next]_vars
  PROVE  TypeOK'
<1> USE DEF world, copies, sender, wire
<1>1. CASE UNCHANGED vars
  BY <1>1 DEF vars, TypeOK
<1>2. ASSUME NEW d \in Brokers, NEW c \in Capacities, ChangeTopology(d, c)
      PROVE  TypeOK'
  <2>1. clock' \in 0..MaxClock
    BY <1>2, PropagationAssumption DEF ChangeTopology, TypeOK
  <2>2. [ts |-> clock', spare |-> c] \in Summaries
    BY <2>1, SummaryFacts
  <2> QED BY <1>2, <2>1, <2>2 DEF ChangeTopology, TypeOK
<1>3. ASSUME NEW d \in Brokers, NEW c \in Capacities, ChangeLoad(d, c)
      PROVE  TypeOK'
  BY <1>3 DEF ChangeLoad, TypeOK
<1>4. ASSUME NEW d \in Brokers, StartRound(d)
      PROVE  TypeOK'
  <2>1. Eligible(d) \subseteq Brokers
    BY PropagationAssumption DEF Eligible
  <2>2. \A p \in Passed(d) : skip[d][p] + 1 \in 0..(ProbeInterval - 1)
    BY PropagationAssumption DEF Passed, Unhealthy, TypeOK
  <2>3. skip' \in [Brokers -> [Brokers -> 0..(ProbeInterval - 1)]]
    BY <1>4, <2>2, PropagationAssumption DEF StartRound, TypeOK
  <2>4. net' \subseteq Requests
    <3>1. local[d] \in Summaries
      BY DEF TypeOK
    <3>2. \A p \in Eligible(d) :
            [from |-> d, to |-> p, summary |-> local[d], live |-> TRUE] \in Requests
      BY <2>1, <3>1 DEF Requests
    <3> QED BY <1>4, <3>2 DEF StartRound, TypeOK
  <2>5. awaiting' \in [Brokers -> SUBSET Brokers]
    BY <1>4, <2>1 DEF StartRound, TypeOK
  <2> QED BY <1>4, <2>3, <2>4, <2>5 DEF StartRound, TypeOK
<1>5. ASSUME NEW d \in Brokers, NEW p \in Peers[d], Answer(d, p)
      PROVE  TypeOK'
  <2>1. p \in Brokers
    BY PropagationAssumption
  <2>2. /\ failures' \in [Brokers -> [Brokers -> 0..MaxPeerFailures]]
        /\ skip' \in [Brokers -> [Brokers -> 0..(ProbeInterval - 1)]]
    <3>1. 0 \in 0..MaxPeerFailures /\ 0 \in 0..(ProbeInterval - 1)
      BY PropagationAssumption
    <3>2. /\ failures \in [Brokers -> [Brokers -> 0..MaxPeerFailures]]
          /\ skip \in [Brokers -> [Brokers -> 0..(ProbeInterval - 1)]]
      BY DEF TypeOK
    <3>3. /\ failures' = [failures EXCEPT ![d][p] = 0]
          /\ skip' = [skip EXCEPT ![d][p] = 0]
      BY <1>5 DEF Answer
    <3> QED BY <2>1, <3>1, <3>2, <3>3, EntryTypes
  <2> QED BY <1>5, <2>1, <2>2 DEF Answer, TypeOK
<1>6. ASSUME NEW d \in Brokers, NEW p \in Peers[d], BrokenConnection(d, p)
      PROVE  TypeOK'
  <2>1. RecordFailure(d, p) /\ p \in Brokers
    BY <1>6, PropagationAssumption DEF BrokenConnection
  <2> QED BY <1>6, <2>1, FailureTypes DEF BrokenConnection, TypeOK
<1>7. ASSUME NEW d \in Brokers, NEW p \in Peers[d], Timeout(d, p)
      PROVE  TypeOK'
  <2>1. RecordFailure(d, p) /\ p \in Brokers
    BY <1>7, PropagationAssumption DEF Timeout
  <2>2. net' \subseteq Requests
    <3>1. PICK delayed \in SUBSET LiveRequests(d, p) :
            net' = (net \ LiveRequests(d, p)) \cup GivenUp(delayed)
      BY <1>7 DEF Timeout
    <3>2. delayed \in SUBSET Requests
      BY <3>1 DEF LiveRequests, TypeOK
    <3> QED BY <3>1, <3>2, GivenUpFacts DEF TypeOK
  <2>3. faults' \in 0..MaxFaults
    BY <1>7, PropagationAssumption DEF Timeout, TypeOK
  <2> QED BY <1>7, <2>1, <2>2, <2>3, FailureTypes DEF Timeout, TypeOK
<1>8. ASSUME NEW m \in net, Receive(m)
      PROVE  TypeOK'
  <2>1. /\ m.from \in Brokers /\ m.to \in Brokers
        /\ m.summary \in Summaries
    BY DEF TypeOK, Requests
  <2>2. /\ [seen EXCEPT ![m.to][m.from] = m.summary]
             \in [Brokers -> [Brokers -> Summaries]]
        /\ [cache EXCEPT ![m.to][m.from] = m.summary]
             \in [Brokers -> [Brokers -> Summaries]]
    BY <2>1, EntryTypes DEF TypeOK
  <2>3. answered' \in [Brokers -> SUBSET Brokers]
    BY <1>8, <2>1 DEF Receive, TypeOK
  <2> QED BY <1>8, <2>2, <2>3 DEF Receive, TypeOK
<1>9. ASSUME NEW d \in Brokers, Crash(d)
      PROVE  TypeOK'
  <2>1. net' \subseteq Requests
    <3>1. {m \in net : m.from = d} \in SUBSET Requests
      BY DEF TypeOK
    <3> QED BY <1>9, <3>1, GivenUpFacts DEF Crash, TypeOK
  <2>2. /\ local' \in [Brokers -> Summaries]
        /\ seen' \in [Brokers -> [Brokers -> Summaries]]
        /\ cache' \in [Brokers -> [Brokers -> Summaries]]
    BY <1>9, SummaryFacts DEF Crash, TypeOK
  <2>3. /\ failures' \in [Brokers -> [Brokers -> 0..MaxPeerFailures]]
        /\ skip' \in [Brokers -> [Brokers -> 0..(ProbeInterval - 1)]]
        /\ faults' \in 0..MaxFaults
        /\ spare' \in [Brokers -> Capacities]
    BY <1>9, PropagationAssumption DEF Crash, TypeOK
  <2> QED BY <1>9, <2>1, <2>2, <2>3 DEF Crash, TypeOK
<1>10. ASSUME NEW d \in Brokers, Restart(d)
       PROVE  TypeOK'
  BY <1>10 DEF Restart, TypeOK
<1> QED
  BY <1>1, <1>2, <1>3, <1>4, <1>5, <1>6, <1>7, <1>8, <1>9, <1>10 DEF Next

\* Every variable of a federation keeps its type.
THEOREM TypeCorrect == Spec => []TypeOK
<1>1. TypeOK /\ [Next]_vars => TypeOK'
  BY StepTypes
<1> QED BY InitTypes, <1>1, PTL DEF Spec

-----------------------------------------------------------------------------
\* One more failure keeps the link between health and failures.
LEMMA FailureIsEarned ==
  ASSUME TypeOK, HealthIsEarned, NEW d \in Brokers, NEW p \in Brokers, RecordFailure(d, p),
         UNCHANGED skip
  PROVE  HealthIsEarned'
<1> SUFFICES ASSUME NEW e \in Brokers, NEW q \in Brokers
             PROVE  /\ q \in healthy'[e] <=> failures'[e][q] < MaxPeerFailures
                    /\ q \in healthy'[e] => skip[e][q] = 0
  BY DEF HealthIsEarned
<1>1. /\ q \in healthy[e] <=> failures[e][q] < MaxPeerFailures
      /\ q \in healthy[e] => skip[e][q] = 0
  BY DEF HealthIsEarned
<1>2. /\ failures \in [Brokers -> [Brokers -> 0..MaxPeerFailures]]
      /\ healthy \in [Brokers -> SUBSET Brokers]
  BY DEF TypeOK
<1>3. CASE failures[d][p] + 1 >= MaxPeerFailures
  <2>1. /\ failures' = [failures EXCEPT ![d][p] = MaxPeerFailures]
        /\ healthy' = [healthy EXCEPT ![d] = @ \ {p}]
    BY <1>3 DEF RecordFailure
  <2>2. CASE e = d /\ q = p
    BY <1>2, <2>1, <2>2, PropagationAssumption
  <2>3. CASE ~(e = d /\ q = p)
    BY <1>1, <1>2, <2>1, <2>3
  <2> QED BY <2>2, <2>3
<1>4. CASE ~(failures[d][p] + 1 >= MaxPeerFailures)
  <2>1. /\ failures' = [failures EXCEPT ![d][p] = @ + 1]
        /\ healthy' = healthy
    BY <1>4 DEF RecordFailure
  <2>2. CASE e = d /\ q = p
    BY <1>1, <1>2, <1>4, <2>1, <2>2, PropagationAssumption
  <2>3. CASE ~(e = d /\ q = p)
    BY <1>1, <1>2, <2>1, <2>3
  <2> QED BY <2>2, <2>3
<1> QED BY <1>3, <1>4

\* A step of any kind keeps the link between health and failures.
LEMMA StepHealth ==
  ASSUME TypeOK, HealthIsEarned, [Next]_vars
  PROVE  HealthIsEarned'
<1> USE DEF sender
<1>1. CASE UNCHANGED sender
  BY <1>1 DEF HealthIsEarned
<1>2. ASSUME NEW d \in Brokers, StartRound(d)
      PROVE  HealthIsEarned'
  <2>1. \A e \in Brokers, p \in Brokers : p \in healthy[e] => skip'[e][p] = skip[e][p]
    BY <1>2 DEF StartRound, Passed, Unhealthy, TypeOK
  <2> QED BY <1>2, <2>1 DEF StartRound, HealthIsEarned
<1>3. ASSUME NEW d \in Brokers, NEW p \in Peers[d], Answer(d, p)
      PROVE  HealthIsEarned'
  <2>1. p \in Brokers
    BY PropagationAssumption
  <2> QED BY <1>3, <2>1, PropagationAssumption DEF Answer, HealthIsEarned, TypeOK
<1>4. ASSUME NEW d \in Brokers, NEW p \in Peers[d], BrokenConnection(d, p)
      PROVE  HealthIsEarned'
  BY <1>4, FailureIsEarned, PropagationAssumption DEF BrokenConnection
<1>5. ASSUME NEW d \in Brokers, NEW p \in Peers[d], Timeout(d, p)
      PROVE  HealthIsEarned'
  BY <1>5, FailureIsEarned, PropagationAssumption DEF Timeout
<1>6. ASSUME NEW d \in Brokers, Crash(d)
      PROVE  HealthIsEarned'
  BY <1>6, PropagationAssumption DEF Crash, HealthIsEarned, TypeOK
<1> QED
  BY <1>1, <1>2, <1>3, <1>4, <1>5, <1>6
  DEF Next, vars, ChangeTopology, ChangeLoad, Restart, Receive

\* A peer is unhealthy exactly after MaxPeerFailures failures in a row, and is
\* skipped only then.  (_record_peer_failure, _send_to_peer)
THEOREM HealthCorrect == Spec => []HealthIsEarned
<1>1. Init => HealthIsEarned
  BY PropagationAssumption DEF Init, HealthIsEarned
<1>2. TypeOK /\ HealthIsEarned /\ [Next]_vars => HealthIsEarned'
  BY StepHealth
<1> QED BY <1>1, <1>2, TypeCorrect, PTL DEF Spec

-----------------------------------------------------------------------------
\* A summary that is on its way has a time, as has a broker's own if it has one.
SentSummariesHaveTimes ==
  /\ \A d \in Brokers : local[d] = NoSummary \/ local[d].ts > 0
  /\ \A m \in net : m.summary.ts > 0

\* A step of any kind sends only summaries with a time.
LEMMA StepTimes ==
  ASSUME TypeOK, SentSummariesHaveTimes, [Next]_vars
  PROVE  SentSummariesHaveTimes'
<1> USE DEF world, copies, sender, wire
<1>1. CASE UNCHANGED <<local, net>>
  BY <1>1 DEF SentSummariesHaveTimes
<1>2. ASSUME NEW d \in Brokers, NEW c \in Capacities, ChangeTopology(d, c)
      PROVE  SentSummariesHaveTimes'
  <2>1. clock' > 0
    BY <1>2, PropagationAssumption DEF ChangeTopology, TypeOK
  <2> QED BY <1>2, <2>1 DEF ChangeTopology, SentSummariesHaveTimes, TypeOK
<1>3. ASSUME NEW d \in Brokers, StartRound(d)
      PROVE  SentSummariesHaveTimes'
  BY <1>3 DEF StartRound, SentSummariesHaveTimes
<1>4. ASSUME NEW d \in Brokers, NEW p \in Peers[d], Timeout(d, p)
      PROVE  SentSummariesHaveTimes'
  <2>1. PICK delayed \in SUBSET LiveRequests(d, p) :
          net' = (net \ LiveRequests(d, p)) \cup GivenUp(delayed)
    BY <1>4 DEF Timeout
  <2>2. \A m \in GivenUp(delayed) : \E n \in net : m.summary = n.summary
    BY <2>1 DEF GivenUp, LiveRequests, TypeOK, Requests
  <2> QED BY <1>4, <2>1, <2>2 DEF Timeout, SentSummariesHaveTimes
<1>5. ASSUME NEW m \in net, Receive(m)
      PROVE  SentSummariesHaveTimes'
  BY <1>5 DEF Receive, SentSummariesHaveTimes
<1>6. ASSUME NEW d \in Brokers, Crash(d)
      PROVE  SentSummariesHaveTimes'
  <2>1. \A m \in GivenUp({n \in net : n.from = d}) : \E n \in net : m.summary = n.summary
    BY DEF GivenUp, TypeOK, Requests
  <2> QED BY <1>6, <2>1 DEF Crash, SentSummariesHaveTimes, TypeOK
<1> QED
  BY <1>1, <1>2, <1>3, <1>4, <1>5, <1>6
  DEF Next, vars, ChangeLoad, Restart, Answer, BrokenConnection

\* A step never makes the copy of a running broker's propagator older.
LEMMA StepFresh ==
  ASSUME TypeOK, SentSummariesHaveTimes, [Next]_vars,
         NEW p \in up \cap up', NEW d \in Brokers
  PROVE  seen'[p][d].ts >= seen[p][d].ts
<1> USE DEF copies
<1>1. p \in Brokers /\ \A e \in Brokers : seen[p][e].ts \in Nat
  BY PropagationAssumption DEF TypeOK, Summaries
<1>2. CASE UNCHANGED seen
  BY <1>1, <1>2
<1>3. ASSUME NEW m \in net, Receive(m)
      PROVE  seen'[p][d].ts >= seen[p][d].ts
  <2>1. m.from \in Brokers /\ m.to \in Brokers /\ m.summary.ts \in Nat /\ m.summary.ts > 0
    BY PropagationAssumption DEF TypeOK, Requests, Summaries, SentSummariesHaveTimes
  <2>2. seen[m.to][m.from].ts \in Nat
    BY <2>1, PropagationAssumption DEF TypeOK, Summaries
  <2>3. CASE Fresh(m.summary, seen[m.to][m.from])
    <3>1. m.summary.ts >= seen[m.to][m.from].ts
      BY <2>1, <2>2, <2>3 DEF Fresh
    <3> QED BY <1>1, <1>3, <2>1, <2>3, <3>1 DEF Receive, TypeOK
  <2>4. CASE ~Fresh(m.summary, seen[m.to][m.from])
    BY <1>1, <1>3, <2>4 DEF Receive
  <2> QED BY <2>3, <2>4
<1>4. ASSUME NEW e \in Brokers, Crash(e)
      PROVE  seen'[p][d].ts >= seen[p][d].ts
  BY <1>1, <1>4 DEF Crash, TypeOK
<1> QED
  BY <1>2, <1>3, <1>4
  DEF Next, vars, ChangeTopology, ChangeLoad, StartRound, Restart, Answer,
      BrokenConnection, Timeout

\* The propagator's copy of a domain's summary never becomes older at a broker
\* that stays up, in whatever order the requests of its peers are served: a copy
\* without a time, which would let anything in, is none any peer sends.
\* (receive_summary)
THEOREM FreshnessCorrect == Spec => SummaryNeverGoesBack
<1>1. Init => SentSummariesHaveTimes
  BY DEF Init, SentSummariesHaveTimes
<1>2. TypeOK /\ SentSummariesHaveTimes /\ [Next]_vars => SentSummariesHaveTimes'
  BY StepTimes
<1>3. TypeOK /\ SentSummariesHaveTimes /\ [Next]_vars =>
        [\A p \in up \cap up', d \in Brokers :
           seen'[p][d].ts >= seen[p][d].ts]_vars
  BY StepFresh
<1> QED BY <1>1, <1>2, <1>3, TypeCorrect, PTL DEF Spec, SummaryNeverGoesBack

-----------------------------------------------------------------------------
(***************************************************************************)
(* That publishes that overlap leave each other's URLs alone.  As long as  *)
(* nothing has gone wrong, every pull ends with the workers of all shards: *)
(* what one publish takes for the URLs is what every other does.           *)
(***************************************************************************)
\* The workers of the first n peers.
Behind(n) == {w \in Units : \E i \in 1..n : OwnerOf[w] = Shards[i]}

\* A pull has found all it could so far; a pipeline that was placed has its
\* stages on workers that exist, and the URLs are those of all shards.
JobIsSound(j) ==
  /\ job[j] = "pulling" =>
       pull[j].next \in 1..(Len(Shards) + 1) /\ pull[j].found = Behind(pull[j].next - 1)
  /\ job[j] = "active" =>
       /\ assigned[j] \in [1..Length -> Units]
       /\ urls = Behind(Len(Shards))

Pulls == [local : SUBSET Units, found : SUBSET Units, next : Nat]
Works == [stage : 1..Length, at : {"ready", "sent", "reported"}, again : BOOLEAN]

OracleTypes ==
  /\ job \in [Jobs -> {"new", "pulling", "active", "delivered", "unknown", "failed", "refused"}]
  /\ pull \in [Jobs -> Pulls]
  /\ assigned = [j \in Jobs |-> assigned[j]]
  /\ work \in [Jobs -> Works]
  /\ present \subseteq Units
  /\ urls \subseteq Units
  /\ mishaps \in Nat

NothingWrong ==
  mishaps = 0 =>
    /\ present = Units
    /\ \A j \in Jobs : JobIsSound(j) /\ job[j] # "unknown"

OracleInv == OracleTypes /\ NothingWrong

-----------------------------------------------------------------------------
\* Every worker is the coordinator's or a peer's.
LEMMA EveryUnitHasAnOwner ==
  ASSUME present = Units
  PROVE  Units = Local \cup Behind(Len(Shards))
BY OracleAssumption DEF Local, Behind

\* The number of the peers.
LEMMA NumberOfShards == Len(Shards) \in Nat
BY OracleAssumption

\* At first nothing is published.
LEMMA OracleInitial == OracleInit => OracleInv
BY OracleAssumption DEF OracleInit, OracleInv, OracleTypes, NothingWrong, JobIsSound, Pulls, Works

\* A step keeps the types.
LEMMA OracleStepTypes ==
  ASSUME OracleTypes, OracleNext
  PROVE  OracleTypes'
<1> USE DEF OracleTypes
<1>1. ASSUME NEW w \in Units, UnitLeaves(w)
      PROVE  OracleTypes'
  BY <1>1 DEF UnitLeaves, OracleMishap
<1>2. ASSUME NEW j \in Jobs, StartPull(j)
      PROVE  OracleTypes'
  BY <1>2 DEF StartPull, Local, Pulls
<1>3. ASSUME NEW j \in Jobs, PullPeer(j)
      PROVE  OracleTypes'
  <2>1. PICK found \in SUBSET Units, next \in Nat :
          pull' = [pull EXCEPT ![j] = [local |-> pull[j].local, found |-> found, next |-> next]]
    <3>1. pull[j] = [local |-> pull[j].local, found |-> pull[j].found, next |-> pull[j].next]
          /\ pull[j].found \in SUBSET Units /\ pull[j].next + 1 \in Nat
      BY DEF Pulls
    <3>2. CASE pull' = [pull EXCEPT ![j].next = @ + 1]
      <4>1. pull' = [pull EXCEPT ![j] = [local |-> pull[j].local, found |-> pull[j].found,
                                        next |-> pull[j].next + 1]]
        <5>1. [pull[j] EXCEPT !.next = @ + 1]
                = [local |-> pull[j].local, found |-> pull[j].found, next |-> pull[j].next + 1]
          BY <3>1
        <5>2. pull' = [pull EXCEPT ![j] = [pull[j] EXCEPT !.next = @ + 1]]
          BY <3>2
        <5> QED BY <5>1, <5>2
      <4> QED BY <3>1, <4>1
    <3>3. CASE pull' = [pull EXCEPT ![j].found = @ \cup WorkersOf(Shards[pull[j].next]), ![j].next = @ + 1]
      <4>1. pull[j].found \cup WorkersOf(Shards[pull[j].next]) \in SUBSET Units
        BY <3>1 DEF WorkersOf
      <4> QED BY <3>1, <3>3, <4>1
    <3> QED BY <1>3, <3>2, <3>3 DEF PullPeer
  <2>2. pull' \in [Jobs -> Pulls]
    BY <2>1 DEF Pulls
  <2>3. mishaps' \in Nat
    BY <1>3 DEF PullPeer, OracleMishap
  <2> QED BY <1>3, <2>2, <2>3 DEF PullPeer
<1>4. ASSUME NEW j \in Jobs, Decide(j)
      PROVE  OracleTypes'
  <2>1. urls' \subseteq Units
    BY <1>4 DEF Decide, Pulls
  <2>2. assigned' = [i \in Jobs |-> assigned'[i]]
    BY <1>4 DEF Decide
  <2> QED BY <1>4, <2>1, <2>2 DEF Decide
<1>5. ASSUME NEW j \in Jobs, DispatchStage(j)
      PROVE  OracleTypes'
  BY <1>5 DEF DispatchStage, Works
<1>6. ASSUME NEW j \in Jobs, ReceiveResult(j)
      PROVE  OracleTypes'
  <2>1. work' \in [Jobs -> Works]
    <3>1. work[j] \in Works /\ work[j].stage \in 1..Length
      BY DEF Works
    <3>2. CASE work' = [work EXCEPT ![j].at = "reported"]
      BY <3>1, <3>2 DEF Works
    <3>3. CASE UNCHANGED work
      BY <3>3
    <3>4. CASE Stage(j) # Length
               /\ work' = [work EXCEPT ![j] = [stage |-> Stage(j) + 1, at |-> "ready", again |-> FALSE]]
      <4>1. Stage(j) + 1 \in 1..Length
        BY <3>1, <3>4, OracleAssumption DEF Stage
      <4> QED BY <3>4, <4>1 DEF Works
    <3> QED BY <1>6, <3>2, <3>3, <3>4 DEF ReceiveResult
  <2> QED BY <1>6, <2>1 DEF ReceiveResult
<1>7. ASSUME NEW j \in Jobs, DispatchFails(j)
      PROVE  OracleTypes'
  <2>1. assigned' = [i \in Jobs |-> assigned'[i]]
    BY <1>7 DEF DispatchFails
  <2>2. work' \in [Jobs -> Works] /\ mishaps' \in Nat
    <3>1. UNCHANGED work \/ work' = [work EXCEPT ![j].again = TRUE]
      BY <1>7 DEF DispatchFails
    <3>2. work' \in [Jobs -> Works]
      <4>1. [work[j] EXCEPT !.again = TRUE] \in Works
        <5>1. work[j] \in Works
          OBVIOUS
        <5> QED BY <5>1 DEF Works
      <4> QED BY <3>1, <4>1
    <3>3. mishaps' = mishaps \/ mishaps' = mishaps + 1
      BY <1>7 DEF DispatchFails, OracleMishap
    <3> QED BY <3>2, <3>3
  <2> QED BY <1>7, <2>1, <2>2 DEF DispatchFails
<1> QED BY <1>1, <1>2, <1>3, <1>4, <1>5, <1>6, <1>7 DEF OracleNext

\* As long as nothing goes wrong no step makes a pull miss a worker, a pipeline
\* use a worker that is not there, or a worker's URL unknown.
LEMMA OracleStepSound ==
  ASSUME OracleInv, OracleNext, mishaps' = 0
  PROVE  present' = Units /\ \A j \in Jobs : JobIsSound(j)' /\ job'[j] # "unknown"
<1> USE DEF OracleInv, OracleTypes
<1>1. mishaps = 0
  <2>1. mishaps' = mishaps \/ OracleMishap
    BY DEF OracleNext, UnitLeaves, StartPull, PullPeer, Decide, DispatchStage, ReceiveResult,
       DispatchFails
  <2> QED BY <2>1 DEF OracleMishap
<1>2. present = Units /\ \A j \in Jobs : JobIsSound(j) /\ job[j] # "unknown"
  BY <1>1 DEF NothingWrong
<1>3. ~OracleMishap
  BY <1>1 DEF OracleMishap
<1>4. PICK k \in Jobs : StartPull(k) \/ PullPeer(k) \/ Decide(k) \/ DispatchStage(k) \/ ReceiveResult(k)
                          \/ DispatchFails(k)
  BY <1>3 DEF OracleNext, UnitLeaves
<1>5. present' = present
  BY <1>4 DEF StartPull, PullPeer, Decide, DispatchStage, ReceiveResult, DispatchFails
<1>6. CASE StartPull(k)
  <2>1. \A j \in Jobs : pull'[j] = IF j = k THEN [local |-> Local, found |-> {}, next |-> 1] ELSE pull[j]
    BY <1>6 DEF StartPull
  <2>2. \A j \in Jobs : job'[j] = IF j = k THEN "pulling" ELSE job[j]
    BY <1>6 DEF StartPull
  <2>3. Behind(0) = {}
    BY DEF Behind
  <2>4. UNCHANGED <<urls, assigned>>
    BY <1>6 DEF StartPull
  <2>5. ASSUME NEW j \in Jobs
        PROVE  JobIsSound(j)' /\ job'[j] # "unknown"
    <3>1. CASE j = k
      BY <2>1, <2>2, <2>3, <3>1, NumberOfShards DEF JobIsSound, Behind
    <3>2. CASE j # k
      BY <1>2, <2>1, <2>2, <2>4, <3>2 DEF JobIsSound, Behind
    <3> QED BY <3>1, <3>2
  <2> QED BY <1>2, <1>5, <2>5
<1>7. CASE PullPeer(k)
  <2>1. /\ pull' = [pull EXCEPT ![k].found = @ \cup WorkersOf(Shards[pull[k].next]), ![k].next = @ + 1]
        /\ job[k] = "pulling" /\ pull[k].next <= Len(Shards) /\ UNCHANGED <<job, urls, assigned>>
    BY <1>3, <1>7 DEF PullPeer
  <2>2. \A j \in Jobs \ {k} : pull'[j] = pull[j]
    BY <2>1
  <2>3. /\ pull[k].next \in 1..Len(Shards) /\ pull[k].found = Behind(pull[k].next - 1)
        /\ pull'[k].next = pull[k].next + 1
        /\ pull'[k].found = pull[k].found \cup WorkersOf(Shards[pull[k].next])
    BY <1>2, <2>1, NumberOfShards DEF JobIsSound, Pulls
  <2>4. pull'[k].found = Behind(pull[k].next)
    BY <1>2, <2>3 DEF Behind, WorkersOf
  <2>5. ASSUME NEW j \in Jobs
        PROVE  JobIsSound(j)' /\ job'[j] # "unknown"
    <3>1. CASE j = k
      <4>1. pull'[k].next \in 1..(Len(Shards) + 1) /\ pull'[k].next - 1 = pull[k].next
        BY <2>3, NumberOfShards
      <4> QED BY <2>1, <2>4, <3>1, <4>1 DEF JobIsSound, Behind
    <3>2. CASE j # k
      BY <1>2, <2>1, <2>2, <3>2 DEF JobIsSound, Behind
    <3> QED BY <3>1, <3>2
  <2> QED BY <1>2, <1>5, <2>5
<1>8. CASE Decide(k)
  <2>1. /\ job[k] = "pulling" /\ pull[k].next > Len(Shards) /\ urls' = pull[k].found
        /\ UNCHANGED pull
    BY <1>8 DEF Decide
  <2>2. urls' = Behind(Len(Shards))
    <3>1. pull[k].next = Len(Shards) + 1 /\ pull[k].found = Behind(pull[k].next - 1)
      BY <1>2, <2>1, NumberOfShards DEF JobIsSound
    <3> QED BY <2>1, <3>1, NumberOfShards
  <2>3. ASSUME NEW j \in Jobs
        PROVE  JobIsSound(j)' /\ job'[j] # "unknown"
    <3>1. CASE j = k /\ pull[k].local = {}
      BY <1>8, <3>1 DEF Decide, JobIsSound
    <3>2. CASE j = k /\ pull[k].local # {}
      <4>1. job' = [job EXCEPT ![k] = "active"]
            /\ \E f \in [1..Length -> pull[k].local \cup pull[k].found] :
                 assigned' = [assigned EXCEPT ![k] = f]
        BY <1>8, <3>2 DEF Decide
      <4>2. pull[k].local \cup pull[k].found \subseteq Units
        BY DEF Pulls
      <4>3. assigned'[k] \in [1..Length -> Units]
        BY <4>1, <4>2
      <4>4. job'[k] = "active"
        BY <4>1
      <4> QED BY <2>2, <3>2, <4>3, <4>4 DEF JobIsSound, Behind
    <3>3. CASE j # k
      <4>1. job'[j] = job[j] /\ assigned'[j] = assigned[j]
        BY <1>8, <3>3 DEF Decide
      <4> QED BY <1>2, <2>1, <2>2, <4>1 DEF JobIsSound, Behind
    <3> QED BY <3>1, <3>2, <3>3
  <2> QED BY <1>2, <1>5, <2>3
<1>9. CASE DispatchStage(k)
  <2>1. Worker(k) \in Local \cup urls
    <3>1. job[k] = "active" /\ work[k].stage \in 1..Length
      BY <1>9 DEF DispatchStage, Works
    <3>2. Worker(k) \in Units
      BY <1>2, <3>1 DEF JobIsSound, Worker, Stage
    <3> QED BY <1>2, <3>1, <3>2, EveryUnitHasAnOwner DEF JobIsSound
  <2>2. UNCHANGED <<job, pull, urls, assigned>>
    BY <1>9, <2>1 DEF DispatchStage
  <2> QED BY <1>2, <1>5, <2>2 DEF JobIsSound, Behind
<1>10. CASE ReceiveResult(k)
  <2>1. UNCHANGED <<pull, urls, assigned>> /\ (job' = job \/ job' = [job EXCEPT ![k] = "delivered"])
    BY <1>10 DEF ReceiveResult
  <2>2. \A j \in Jobs : job'[j] = job[j] \/ job'[j] = "delivered"
    BY <2>1
  <2> QED BY <1>2, <1>5, <2>1, <2>2 DEF JobIsSound, Behind
<1>11. CASE DispatchFails(k)
  <2>1. job[k] = "active" /\ Worker(k) \notin present
    BY <1>3, <1>11 DEF DispatchFails
  <2>2. Worker(k) \in Units
    BY <1>2, <2>1 DEF JobIsSound, Worker, Stage, Works
  <2> QED BY <1>2, <2>1, <2>2
<1> QED BY <1>4, <1>6, <1>7, <1>8, <1>9, <1>10, <1>11

\* Every step keeps the invariant.
LEMMA OracleStep ==
  ASSUME OracleInv, [OracleNext]_oracleVars
  PROVE  OracleInv'
<1>1. CASE OracleNext
  BY <1>1, OracleStepTypes, OracleStepSound DEF OracleInv, NothingWrong
<1>2. CASE UNCHANGED oracleVars
  BY <1>2 DEF oracleVars, OracleInv, OracleTypes, NothingWrong, JobIsSound, Behind
<1> QED BY <1>1, <1>2

\* However many publishes overlap and whatever the solver decides, a stage finds
\* its worker's URL unless a pull or a dispatch failed or a worker left, for any
\* shards and pipelines.  (_fetch_sharded_oracle_peer_topologies, _dispatch_stage)
THEOREM PeersStayKnownHolds == OracleSpec => []PeersStayKnown
<1>1. OracleInit => OracleInv
  BY OracleInitial
<1>2. OracleInv /\ [OracleNext]_oracleVars => OracleInv'
  BY OracleStep
<1>3. OracleInv => PeersStayKnown
  BY DEF OracleInv, NothingWrong, PeersStayKnown
<1> QED BY <1>1, <1>2, <1>3, PTL DEF OracleSpec

-----------------------------------------------------------------------------
(***************************************************************************)
(* That no request is forwarded in circles and that the generator's        *)
(* figures are those of the brokers.                                       *)
(*                                                                         *)
(* The invariant follows the calls made for one request: the call to the   *)
(* home broker, and one for each peer that was asked.  As long as no       *)
(* answer for the request came too late, at most one of the peers asked    *)
(* has not refused it.                                                     *)
(***************************************************************************)
Via(p) == <<Home, p>>
Ways(r) == DOMAIN calls[r]
Children(r) == Ways(r) \ {Direct}
At(r, w) == calls[r][w].at
Open(r) == {w \in Children(r) : At(r, w) # "refused"}
AskedPeer(r) == PeersOf[Home][calls[r][Direct].peer]

WaysAreShort(r) ==
  /\ calls[r] = [w \in Ways(r) |-> calls[r][w]]
  /\ Ways(r) \subseteq {Direct} \cup {Via(p) : p \in Domains \ {Home}}
  /\ Ways(r) # {} => Direct \in Ways(r)

\* A peer does not forward, and is asked only when the home broker cannot place.
CallsAreOrdered(r) ==
  /\ \A w \in Children(r) : At(r, w) \in {"placing", "running", "placed", "refused"}
  /\ Direct \in Ways(r) =>
       /\ At(r, Direct) \in {"placing", "running", "placed", "asking", "forwarded", "refused"}
       /\ At(r, Direct) \in {"placing", "running", "placed"} => Children(r) = {}
       /\ At(r, Direct) = "asking" => /\ calls[r][Direct].peer \in 1..Len(PeersOf[Home])
                                     /\ Via(AskedPeer(r)) \in Ways(r)
       /\ At(r, Direct) = "forwarded" => \E w \in Children(r) : At(r, w) = "placed"

OneIsOpen(r) ==
  late[r] = 0 /\ Direct \in Ways(r) =>
    /\ At(r, Direct) = "asking" => Open(r) \subseteq {Via(AskedPeer(r))}
    /\ At(r, Direct) = "forwarded" => \A v, w \in Open(r) : v = w
    /\ At(r, Direct) = "refused" => Open(r) = {}

AnswersAreTrue(r) ==
  /\ request[r] = "accepted" => Direct \in Ways(r) /\ At(r, Direct) \in {"placed", "forwarded"}
  /\ request[r] = "rejected" =>
       \/ late[r] > 0 \/ ~homeUp \/ Ways(r) = {}
       \/ Direct \in Ways(r) /\ At(r, Direct) = "refused"

RequestInv(r) == WaysAreShort(r) /\ CallsAreOrdered(r) /\ OneIsOpen(r) /\ AnswersAreTrue(r)

WorkloadTypes ==
  /\ calls = [r \in Submissions |-> calls[r]]
  /\ request = [r \in Submissions |-> request[r]]
  /\ late \in [Submissions -> Nat]

WorkloadInv == WorkloadTypes /\ \A r \in Submissions : RequestInv(r)

-----------------------------------------------------------------------------
\* Sequences of one and of two brokers.
LEMMA WayFacts ==
  ASSUME NEW p
  PROVE  /\ Append(Direct, p) = Via(p)
         /\ Last(Direct) = Home /\ ~IsForwarded(Direct)
         /\ Last(Via(p)) = p /\ IsForwarded(Via(p)) /\ Via(p) # Direct
<1>1. Append(Direct, p) = Via(p)
  <2>1. <<Home>> \in Seq({Home, p}) /\ <<Home, p>> \in Seq({Home, p})
    OBVIOUS
  <2>2. Append(<<Home>>, p) \in Seq({Home, p}) /\ Len(Append(<<Home>>, p)) = 2
    BY <2>1
  <2>3. Append(<<Home>>, p)[1] = Home /\ Append(<<Home>>, p)[2] = p
    BY <2>1
  <2>4. Len(<<Home, p>>) = 2 /\ <<Home, p>>[1] = Home /\ <<Home, p>>[2] = p
    OBVIOUS
  <2>5. \A i \in 1..2 : Append(<<Home>>, p)[i] = <<Home, p>>[i]
    BY <2>3, <2>4
  <2>6. Append(<<Home>>, p) = <<Home, p>>
    BY <2>1, <2>2, <2>4, <2>5, SeqEqual
  <2> QED BY <2>6 DEF Direct, Via
<1>2. Len(Direct) = 1 /\ Len(Via(p)) = 2
  BY DEF Direct, Via
<1>3. Last(Direct) = Home /\ Last(Via(p)) = p
  BY DEF Last, Direct, Via
<1> QED BY <1>1, <1>2, <1>3 DEF IsForwarded

\* The peers of the home broker are other brokers.
LEMMA PeerFacts ==
  ASSUME NEW i \in 1..Len(PeersOf[Home])
  PROVE  PeersOf[Home][i] \in Domains \ {Home} /\ Len(PeersOf[Home]) \in Nat
<1>1. PeersOf[Home] \in Seq(Domains) /\ Home \in Domains
  BY WorkloadAssumption
<1> QED BY <1>1, WorkloadAssumption

\* The number of the peers.
LEMMA NumberOfPeers == Len(PeersOf[Home]) \in Nat
<1>1. PeersOf[Home] \in Seq(Domains)
  BY WorkloadAssumption
<1> QED BY <1>1

\* A way of two brokers ends at another broker than the home broker's.
LEMMA ChildWays ==
  ASSUME NEW r \in Submissions, WaysAreShort(r), NEW w \in Children(r)
  PROVE  \E p \in Domains \ {Home} : w = Via(p)
BY DEF WaysAreShort, Children

\* One call of r is changed.
Changes(r, way, call) == calls' = [calls EXCEPT ![r][way] = call]

\* Nothing but that call changes, and no call is added.
LEMMA ChangeCall ==
  ASSUME WorkloadTypes, NEW r \in Submissions, WaysAreShort(r), NEW way \in Ways(r), NEW call,
         Changes(r, way, call)
  PROVE  /\ calls' = [q \in Submissions |-> calls'[q]]
         /\ \A q \in Submissions \ {r} : calls'[q] = calls[q]
         /\ WaysAreShort(r)'
         /\ Ways(r)' = Ways(r)
         /\ calls'[r][way] = call
         /\ \A w \in Ways(r) \ {way} : calls'[r][w] = calls[r][w]
<1>1. calls' = [q \in Submissions |-> IF q = r THEN [calls[r] EXCEPT ![way] = call] ELSE calls[q]]
  BY DEF WorkloadTypes, Changes
<1>2. calls'[r] = [w \in Ways(r) |-> IF w = way THEN call ELSE calls[r][w]]
  BY <1>1 DEF WaysAreShort
<1>3. Ways(r)' = Ways(r)
  BY <1>2 DEF Ways
<1>4. WaysAreShort(r)'
  BY <1>2, <1>3 DEF WaysAreShort, Ways
<1> QED BY <1>1, <1>2, <1>3, <1>4

\* The home broker offers the request: nobody is left to ask, or one more is.
LEMMA OfferFacts ==
  ASSUME WorkloadTypes, NEW r \in Submissions, WaysAreShort(r), Direct \in Ways(r),
         NEW i \in Nat \ {0}, Offer(r, Direct, i)
  PROVE  /\ calls' = [q \in Submissions |-> calls'[q]]
         /\ \A q \in Submissions \ {r} : calls'[q] = calls[q]
         /\ WaysAreShort(r)'
         /\ \/ /\ i > Len(PeersOf[Home])
               /\ Ways(r)' = Ways(r)
               /\ calls'[r][Direct] = Call("refused", 0)
               /\ \A w \in Children(r) : calls'[r][w] = calls[r][w]
            \/ /\ i \in 1..Len(PeersOf[Home])
               /\ Ways(r)' = Ways(r) \cup {Via(PeersOf[Home][i])}
               /\ calls'[r][Direct] = Call("asking", i)
               /\ calls'[r][Via(PeersOf[Home][i])] = Call("placing", 0)
               /\ \A w \in Children(r) \ {Via(PeersOf[Home][i])} : calls'[r][w] = calls[r][w]
<1>1. CASE i > Len(PeersOf[Home])
  <2>1. Changes(r, Direct, Call("refused", 0))
    BY <1>1, WayFacts DEF Offer, Changes
  <2> QED BY <1>1, <2>1, ChangeCall DEF Children
<1>2. CASE ~(i > Len(PeersOf[Home]))
  <2> DEFINE w == Via(PeersOf[Home][i])
  <2>1. i \in 1..Len(PeersOf[Home])
    BY <1>2, NumberOfPeers
  <2>2. PeersOf[Home][i] \in Domains \ {Home} /\ w # Direct
    BY <2>1, PeerFacts, WayFacts
  <2>3. calls' = [calls EXCEPT ![r] =
          WithCall([calls[r] EXCEPT ![Direct] = Call("asking", i)], w, Call("placing", 0))]
    BY <1>2, WayFacts DEF Offer
  <2>4. calls'[r] = WithCall([calls[r] EXCEPT ![Direct] = Call("asking", i)], w, Call("placing", 0))
        /\ calls' = [q \in Submissions |-> calls'[q]]
        /\ \A q \in Submissions \ {r} : calls'[q] = calls[q]
    BY <2>3 DEF WorkloadTypes
  <2>5. DOMAIN [calls[r] EXCEPT ![Direct] = Call("asking", i)] = Ways(r)
    BY DEF Ways
  <2>6. calls'[r] = [v \in Ways(r) \cup {w} |->
          IF v = w THEN Call("placing", 0)
          ELSE [calls[r] EXCEPT ![Direct] = Call("asking", i)][v]]
    BY <2>4, <2>5 DEF WithCall
  <2>7. Ways(r)' = Ways(r) \cup {w}
    BY <2>6 DEF Ways
  <2>8. /\ calls'[r][Direct] = Call("asking", i)
        /\ calls'[r][w] = Call("placing", 0)
        /\ \A v \in Children(r) \ {w} : calls'[r][v] = calls[r][v]
    BY <2>2, <2>6 DEF Ways, Children
  <2>9. WaysAreShort(r)'
    BY <2>2, <2>6, <2>7 DEF WaysAreShort
  <2> QED BY <2>1, <2>4, <2>7, <2>8, <2>9
<1> QED BY <1>1, <1>2

\* What is claimed of a request rests on its own calls, answer and late answers.
LEMMA Unaffected ==
  ASSUME NEW q \in Submissions, RequestInv(q), calls'[q] = calls[q], request'[q] = request[q],
         late'[q] = late[q], homeUp' => homeUp
  PROVE  RequestInv(q)'
<1>1. Ways(q)' = Ways(q) /\ Children(q)' = Children(q) /\ AskedPeer(q)' = AskedPeer(q)
      /\ \A w : At(q, w)' = At(q, w)
  BY DEF Ways, Children, AskedPeer, At
<1>2. Open(q)' = Open(q)
  BY <1>1 DEF Open
<1>3. WaysAreShort(q)' /\ CallsAreOrdered(q)' /\ OneIsOpen(q)' /\ AnswersAreTrue(q)'
  BY <1>1, <1>2 DEF RequestInv, WaysAreShort, CallsAreOrdered, OneIsOpen, AnswersAreTrue
<1> QED BY <1>3 DEF RequestInv

-----------------------------------------------------------------------------
\* A call that is served goes on from one place to the next.
LEMMA ServedCall ==
  ASSUME WorkloadTypes, NEW r \in Submissions, RequestInv(r), NEW way \in Ways(r), NEW peer,
         NEW before, NEW after,
         \/ before = "placing" /\ after \in {"running", "refused"}
         \/ before = "running" /\ after = "placed",
         At(r, way) = before,
         Changes(r, way, Call(after, peer)),
         UNCHANGED <<request, late, homeUp>>
  PROVE  RequestInv(r)'
<1> USE DEF RequestInv
<1>1. /\ WaysAreShort(r)' /\ Ways(r)' = Ways(r)
      /\ calls'[r][way] = Call(after, peer)
      /\ \A w \in Ways(r) \ {way} : calls'[r][w] = calls[r][w]
  <2>1. WaysAreShort(r)
    OBVIOUS
  <2> QED BY <2>1, ChangeCall
<1>2. /\ Children(r)' = Children(r) /\ At(r, way)' = after
      /\ \A w \in Ways(r) \ {way} : At(r, w)' = At(r, w)
  BY <1>1 DEF Children, At, Call
<1>3. /\ before \in {"placing", "running"} /\ after \in {"running", "placed", "refused"}
      /\ after = "refused" \/ before = "placing" \/ after = "placed"
  OBVIOUS
<1>4. Children(r) \subseteq Ways(r) \ {Direct}
  BY DEF Children
<1>5. CASE way = Direct
  <2>1. Children(r) = {} /\ Open(r) = {} /\ Open(r)' = {}
    BY <1>2, <1>3, <1>5 DEF CallsAreOrdered, Open
  <2>2. CallsAreOrdered(r)'
    BY <1>1, <1>2, <1>3, <1>5, <2>1 DEF CallsAreOrdered
  <2>3. OneIsOpen(r)'
    BY <1>1, <1>2, <1>3, <1>5, <2>1 DEF OneIsOpen
  <2>4. AnswersAreTrue(r)'
    BY <1>1, <1>2, <1>3, <1>5 DEF AnswersAreTrue
  <2> QED BY <1>1, <2>2, <2>3, <2>4
<1>6. CASE way # Direct
  <2>1. /\ way \in Children(r) /\ Direct \in Ways(r)
        /\ At(r, Direct)' = At(r, Direct) /\ calls'[r][Direct] = calls[r][Direct]
    BY <1>1, <1>2, <1>6 DEF Children, WaysAreShort
  <2>2. Open(r)' \subseteq Open(r) /\ AskedPeer(r)' = AskedPeer(r)
    BY <1>2, <1>3, <1>4, <2>1 DEF Open, AskedPeer
  <2>3. CallsAreOrdered(r)'
    <3>1. Via(AskedPeer(r))' = Via(AskedPeer(r))
      BY <2>2 DEF Via
    <3>2. \A w \in Children(r) : At(r, w)' = At(r, w) \/ w = way
      BY <1>2, <1>4
    <3>3. after \in {"running", "placed", "refused"} /\ At(r, way) # "placed"
      BY <1>3
    <3> QED BY <1>1, <1>2, <2>1, <3>1, <3>2, <3>3 DEF CallsAreOrdered
  <2>4. OneIsOpen(r)'
    BY <1>1, <2>1, <2>2 DEF OneIsOpen
  <2>5. AnswersAreTrue(r)'
    BY <1>1, <2>1 DEF AnswersAreTrue
  <2> QED BY <1>1, <2>3, <2>4, <2>5
<1> QED BY <1>5, <1>6

\* The home broker offers the request when it cannot place it itself, or when
\* the peer it asked has refused or has not answered in time.
LEMMA OfferedCall ==
  ASSUME WorkloadTypes, NEW r \in Submissions, RequestInv(r), Direct \in Ways(r),
         NEW i \in Nat \ {0}, Offer(r, Direct, i),
         At(r, Direct) \in {"placing", "asking"},
         late'[r] = 0 => late[r] = 0 /\ Open(r) = {},
         UNCHANGED <<request, homeUp>>, late' \in [Submissions -> Nat]
  PROVE  RequestInv(r)'
<1> USE DEF RequestInv
<1>1. WaysAreShort(r)'
  BY OfferFacts
<1>2. AnswersAreTrue(r)' /\ Direct \in Ways(r)'
  <2>1. request[r] # "accepted"
    BY DEF AnswersAreTrue
  <2>2. request[r] = "rejected" => late[r] > 0 \/ ~homeUp
    BY DEF AnswersAreTrue
  <2>3. late[r] > 0 => late'[r] > 0
    BY DEF WorkloadTypes
  <2>4. Direct \in Ways(r)'
    BY OfferFacts
  <2> QED BY <2>1, <2>2, <2>3, <2>4 DEF AnswersAreTrue
<1>3. CASE /\ Ways(r)' = Ways(r)
           /\ calls'[r][Direct] = Call("refused", 0)
           /\ \A w \in Children(r) : calls'[r][w] = calls[r][w]
  <2>1. /\ Children(r)' = Children(r) /\ At(r, Direct)' = "refused"
        /\ \A w \in Children(r) : At(r, w)' = At(r, w)
    BY <1>3 DEF Children, At, Call
  <2>2. Open(r)' = Open(r)
    BY <2>1 DEF Open
  <2>3. CallsAreOrdered(r)'
    BY <2>1 DEF CallsAreOrdered
  <2>4. OneIsOpen(r)'
    BY <2>1, <2>2 DEF OneIsOpen
  <2> QED BY <1>1, <1>2, <2>3, <2>4
<1>4. CASE /\ i \in 1..Len(PeersOf[Home])
           /\ Ways(r)' = Ways(r) \cup {Via(PeersOf[Home][i])}
           /\ calls'[r][Direct] = Call("asking", i)
           /\ calls'[r][Via(PeersOf[Home][i])] = Call("placing", 0)
           /\ \A w \in Children(r) \ {Via(PeersOf[Home][i])} : calls'[r][w] = calls[r][w]
  <2>1. PICK v : v = Via(PeersOf[Home][i])
    OBVIOUS
  <2>2. v # Direct
    BY <2>1, WayFacts
  <2>3. /\ Children(r)' = Children(r) \cup {v}
        /\ At(r, Direct)' = "asking" /\ calls'[r][Direct].peer = i
        /\ At(r, v)' = "placing"
        /\ \A w \in Children(r) \ {v} : At(r, w)' = At(r, w)
    BY <1>4, <2>1, <2>2 DEF Children, At, Call
  <2>4. Open(r)' \subseteq Open(r) \cup {v}
    BY <2>3 DEF Open
  <2>5. Via(AskedPeer(r))' = v
    BY <2>1, <2>3 DEF AskedPeer, Via
  <2>6. CallsAreOrdered(r)'
    BY <1>4, <2>1, <2>3, <2>5 DEF CallsAreOrdered
  <2>7. OneIsOpen(r)'
    BY <2>3, <2>4, <2>5 DEF OneIsOpen
  <2> QED BY <1>1, <1>2, <2>6, <2>7
<1> QED BY <1>3, <1>4, OfferFacts

\* Only the home broker asks a peer.
LEMMA OnlyHomeAsks ==
  ASSUME NEW r \in Submissions, RequestInv(r), NEW way \in Ways(r), At(r, way) = "asking"
  PROVE  way = Direct /\ calls[r][Direct].peer \in 1..Len(PeersOf[Home])
BY DEF RequestInv, CallsAreOrdered, Children

\* The call the home broker waits for.
LEMMA AskedWay ==
  ASSUME NEW r \in Submissions
  PROVE  Asked(r, Direct) = At(r, Via(AskedPeer(r)))
BY WayFacts DEF Asked, At, AskedPeer

\* A step of a broker keeps what is claimed of the request it is about.
LEMMA BrokerCall ==
  ASSUME WorkloadInv, NEW r \in Submissions, NEW way \in DOMAIN calls[r],
         \/ Place(r, way) \/ CannotPlace(r, way) \/ SourcesDispatched(r, way)
         \/ PeerAnswers(r, way) \/ PeerTimesOut(r, way)
  PROVE  RequestInv(r)'
<1> USE DEF generatorVars
<1>0. WorkloadTypes /\ RequestInv(r) /\ way \in Ways(r)
  BY DEF WorkloadInv, Ways
<1>1. CASE Place(r, way)
  <2>1. At(r, way) = "placing" /\ Changes(r, way, Call("running", 0))
        /\ UNCHANGED <<request, late, homeUp>>
    BY <1>1 DEF Place, Handling, At, Changes
  <2> QED BY <1>0, <2>1, ServedCall
<1>2. CASE SourcesDispatched(r, way)
  <2>1. At(r, way) = "running" /\ Changes(r, way, Call("placed", 0))
        /\ UNCHANGED <<request, late, homeUp>>
    BY <1>2 DEF SourcesDispatched, Handling, At, Changes
  <2> QED BY <1>0, <2>1, ServedCall
<1>3. CASE CannotPlace(r, way)
  <2>1. At(r, way) = "placing" /\ Offer(r, way, 1) /\ UNCHANGED <<request, late, homeUp>>
    BY <1>3 DEF CannotPlace, Handling, At
  <2>2. CASE way = Direct
    <3>1. Open(r) = {}
      BY <1>0, <2>1, <2>2 DEF RequestInv, CallsAreOrdered, Open
    <3> QED BY <1>0, <2>1, <2>2, <3>1, OfferedCall DEF WorkloadTypes
  <2>3. CASE way # Direct
    <3>1. IsForwarded(way)
      BY <1>0, <2>3, ChildWays, WayFacts DEF RequestInv, Children
    <3>2. Changes(r, way, Call("refused", 0))
      BY <2>1, <3>1 DEF Offer, Changes
    <3> QED BY <1>0, <2>1, <3>2, ServedCall
  <2> QED BY <2>2, <2>3
<1>4. CASE PeerAnswers(r, way)
  <2>1. way = Direct /\ At(r, Direct) = "asking" /\ calls[r][Direct].peer \in 1..Len(PeersOf[Home])
    BY <1>0, <1>4, OnlyHomeAsks DEF PeerAnswers, Handling, At
  <2>2. UNCHANGED <<request, late, homeUp>>
    BY <1>4 DEF PeerAnswers
  <2>3. PICK v : v = Via(AskedPeer(r))
    OBVIOUS
  <2>4. v # Direct /\ Asked(r, Direct) = At(r, v)
    BY <2>3, WayFacts, AskedWay
  <2>5. CASE Asked(r, way) \in Failures /\ Offer(r, way, calls[r][way].peer + 1)
    <3>1. At(r, v) = "refused"
      BY <2>1, <2>4, <2>5 DEF Failures
    <3>2. late[r] = 0 => Open(r) = {}
      BY <1>0, <2>1, <2>3, <3>1 DEF RequestInv, OneIsOpen, Open
    <3>3. calls[r][Direct].peer + 1 \in Nat \ {0}
      BY <2>1, NumberOfPeers
    <3> QED BY <1>0, <2>1, <2>2, <2>5, <3>2, <3>3, OfferedCall DEF WorkloadTypes
  <2>6. CASE Asked(r, way) \in Successes /\ calls' = [calls EXCEPT ![r][way] = Call("forwarded", 0)]
    <3>1. At(r, v) \in {"placed", "forwarded"}
      BY <2>1, <2>4, <2>6 DEF Successes
    <3>1a. Changes(r, Direct, Call("forwarded", 0))
      BY <2>1, <2>6 DEF Changes
    <3>2. /\ WaysAreShort(r)' /\ Ways(r)' = Ways(r)
          /\ calls'[r][Direct] = Call("forwarded", 0)
          /\ \A w \in Ways(r) \ {Direct} : calls'[r][w] = calls[r][w]
      BY <1>0, <2>1, <3>1a, ChangeCall DEF RequestInv
    <3>3. /\ Children(r)' = Children(r) /\ At(r, Direct)' = "forwarded"
          /\ \A w \in Children(r) : At(r, w)' = At(r, w)
      BY <3>2 DEF Children, At, Call
    <3>4. Open(r)' = Open(r)
      BY <3>3 DEF Open
    <3>5. v \in Children(r) /\ At(r, v) = "placed"
      <4>1. v \in Ways(r)
        BY <1>0, <1>4, <2>1, <2>3, <2>4, <3>1 DEF RequestInv, CallsAreOrdered
      <4> QED BY <1>0, <2>4, <3>1, <4>1 DEF Children, RequestInv, CallsAreOrdered
    <3>6. CallsAreOrdered(r)'
      BY <1>0, <3>2, <3>3, <3>5 DEF RequestInv, CallsAreOrdered
    <3>7. OneIsOpen(r)'
      BY <1>0, <2>1, <2>2, <3>2, <3>3, <3>4 DEF RequestInv, OneIsOpen
    <3>8. AnswersAreTrue(r)'
      BY <1>0, <2>1, <2>2, <3>2, <3>3 DEF RequestInv, AnswersAreTrue
    <3> QED BY <3>2, <3>6, <3>7, <3>8 DEF RequestInv
  <2> QED BY <1>4, <2>5, <2>6 DEF PeerAnswers
<1>5. CASE PeerTimesOut(r, way)
  <2>1. way = Direct /\ At(r, Direct) = "asking" /\ calls[r][Direct].peer \in 1..Len(PeersOf[Home])
    BY <1>0, <1>5, OnlyHomeAsks DEF PeerTimesOut, Handling, At
  <2>2. late' = [late EXCEPT ![r] = @ + 1] /\ UNCHANGED <<request, homeUp>>
        /\ Offer(r, Direct, calls[r][Direct].peer + 1)
    BY <1>5, <2>1 DEF PeerTimesOut, GiveUp
  <2>3. late'[r] # 0 /\ late' \in [Submissions -> Nat]
    BY <1>0, <2>2 DEF WorkloadTypes
  <2>4. calls[r][Direct].peer + 1 \in Nat \ {0}
    BY <2>1, NumberOfPeers
  <2> QED BY <1>0, <2>1, <2>2, <2>3, <2>4, OfferedCall
<1> QED BY <1>1, <1>2, <1>3, <1>4, <1>5

\* A broker touches the calls of one request only.
LEMMA OneRequest ==
  ASSUME WorkloadTypes, NEW r \in Submissions, NEW way, NEW i,
         Offer(r, way, i) \/ \E call : Changes(r, way, call)
  PROVE  /\ calls' = [q \in Submissions |-> calls'[q]]
         /\ \A q \in Submissions \ {r} : calls'[q] = calls[q]
<1>1. \E made : calls' = [calls EXCEPT ![r] = made]
  <2>1. CASE \E call : Changes(r, way, call)
    BY <2>1 DEF Changes
  <2>2. CASE Offer(r, way, i)
    BY <2>2 DEF Offer
  <2> QED BY <2>1, <2>2
<1> QED BY <1>1 DEF WorkloadTypes

\* A step of a broker keeps the invariant.
LEMMA BrokerKeepsInv ==
  ASSUME WorkloadInv, BrokerStep
  PROVE  WorkloadInv'
<1>0. WorkloadTypes /\ \A q \in Submissions : RequestInv(q)
  BY DEF WorkloadInv
<1>1. CASE HomeCrashes
  <2>1. UNCHANGED <<calls, request, late>> /\ (homeUp' => homeUp)
    BY <1>1 DEF HomeCrashes
  <2>2. WorkloadTypes'
    BY <1>0, <2>1 DEF WorkloadTypes
  <2>3. \A q \in Submissions : RequestInv(q)'
    BY <1>0, <2>1, Unaffected
  <2> QED BY <2>2, <2>3 DEF WorkloadInv
<1>2. ASSUME NEW r \in Submissions, NEW way \in DOMAIN calls[r],
             \/ Place(r, way) \/ CannotPlace(r, way) \/ SourcesDispatched(r, way)
             \/ PeerAnswers(r, way) \/ PeerTimesOut(r, way)
      PROVE  WorkloadInv'
  <2>1. RequestInv(r)'
    BY <1>2, BrokerCall
  <2>2. \/ \E i : Offer(r, way, i)
        \/ \E call : Changes(r, way, call)
    BY <1>2 DEF Place, CannotPlace, SourcesDispatched, PeerAnswers, PeerTimesOut, Changes
  <2>3. /\ calls' = [q \in Submissions |-> calls'[q]]
        /\ \A q \in Submissions \ {r} : calls'[q] = calls[q]
    BY <1>0, <2>2, OneRequest
  <2>4. UNCHANGED <<request, homeUp>>
    BY <1>2 DEF Place, CannotPlace, SourcesDispatched, PeerAnswers, PeerTimesOut, generatorVars
  <2>5. late' = late \/ late' = [late EXCEPT ![r] = @ + 1]
    BY <1>2 DEF Place, CannotPlace, SourcesDispatched, PeerAnswers, PeerTimesOut, GiveUp
  <2>6. late' \in [Submissions -> Nat] /\ \A q \in Submissions \ {r} : late'[q] = late[q]
    BY <1>0, <2>5 DEF WorkloadTypes
  <2>7. WorkloadTypes'
    BY <1>0, <2>3, <2>4, <2>6 DEF WorkloadTypes
  <2>8. \A q \in Submissions \ {r} : RequestInv(q)'
    BY <1>0, <2>3, <2>4, <2>6, Unaffected
  <2> QED BY <2>1, <2>7, <2>8 DEF WorkloadInv
<1> QED BY <1>1, <1>2 DEF BrokerStep

-----------------------------------------------------------------------------
\* Only the state of r at the generator changes, and its late answers.
Marks(r, state) ==
  /\ request' = [request EXCEPT ![r] = state]
  /\ late' \in [Submissions -> Nat]
  /\ late'[r] >= late[r]
  /\ \A q \in Submissions \ {r} : late'[q] = late[q]
  /\ UNCHANGED <<calls, homeUp>>

\* The generator learns the outcome of r, which is what its calls say.
LEMMA MarkedRequest ==
  ASSUME WorkloadInv, NEW r \in Submissions, NEW state, Marks(r, state),
         state = "accepted" => Direct \in Ways(r) /\ At(r, Direct) \in {"placed", "forwarded"},
         state = "rejected" => \/ late'[r] > 0 \/ ~homeUp
                               \/ Direct \in Ways(r) /\ At(r, Direct) = "refused"
  PROVE  WorkloadInv'
<1>0. WorkloadTypes /\ \A q \in Submissions : RequestInv(q)
  BY DEF WorkloadInv
<1>1. WorkloadTypes' /\ request'[r] = state
  BY <1>0 DEF WorkloadTypes, Marks
<1>2. \A q \in Submissions \ {r} : RequestInv(q)'
  <2>1. \A q \in Submissions \ {r} : calls'[q] = calls[q] /\ request'[q] = request[q]
                                     /\ late'[q] = late[q] /\ (homeUp' => homeUp)
    BY <1>0 DEF WorkloadTypes, Marks
  <2> QED BY <1>0, <2>1, Unaffected
<1>3. RequestInv(r)'
  <2>1. Ways(r)' = Ways(r) /\ Children(r)' = Children(r) /\ AskedPeer(r)' = AskedPeer(r)
        /\ \A w : At(r, w)' = At(r, w)
    BY DEF Ways, Children, AskedPeer, At, Marks
  <2>2. Open(r)' = Open(r)
    BY <2>1 DEF Open
  <2>3. calls'[r] = calls[r] /\ homeUp' = homeUp
    BY DEF Marks
  <2>4. WaysAreShort(r)' /\ CallsAreOrdered(r)'
    BY <1>0, <2>1, <2>3 DEF RequestInv, WaysAreShort, CallsAreOrdered
  <2>5. late'[r] = 0 => late[r] = 0
    BY <1>0 DEF WorkloadTypes, Marks
  <2>6. OneIsOpen(r)'
    BY <1>0, <2>1, <2>2, <2>5 DEF RequestInv, OneIsOpen
  <2>7. AnswersAreTrue(r)'
    BY <1>1, <2>1, <2>3 DEF AnswersAreTrue
  <2> QED BY <2>4, <2>6, <2>7 DEF RequestInv
<1> QED BY <1>1, <1>2, <1>3 DEF WorkloadInv

\* The request of a running broker is posted: its first call.
LEMMA PostedRequest ==
  ASSUME WorkloadInv, NEW r \in Submissions, Post(r), homeUp
  PROVE  WorkloadInv'
<1>0. WorkloadTypes /\ \A q \in Submissions : RequestInv(q)
  BY DEF WorkloadInv
<1>1. /\ request' = [request EXCEPT ![r] = "posted"]
      /\ calls' = [calls EXCEPT ![r] = WithCall(<<>>, Direct, Call("placing", 0))]
      /\ UNCHANGED <<homeUp, late>>
  BY DEF Post
<1>2. calls'[r] = [w \in {Direct} |-> Call("placing", 0)]
  <2>1. DOMAIN <<>> = {}
    OBVIOUS
  <2>2. WithCall(<<>>, Direct, Call("placing", 0)) = [w \in {Direct} |-> Call("placing", 0)]
    BY <2>1 DEF WithCall
  <2> QED BY <1>0, <1>1, <2>2 DEF WorkloadTypes
<1>3. WorkloadTypes' /\ request'[r] = "posted"
      /\ \A q \in Submissions \ {r} : calls'[q] = calls[q] /\ request'[q] = request[q]
  BY <1>0, <1>1 DEF WorkloadTypes
<1>4. \A q \in Submissions \ {r} : RequestInv(q)'
  BY <1>0, <1>1, <1>3, Unaffected
<1>5. RequestInv(r)'
  <2>1. Ways(r)' = {Direct} /\ Children(r)' = {} /\ At(r, Direct)' = "placing"
    BY <1>2 DEF Ways, Children, At, Call
  <2>2. WaysAreShort(r)'
    BY <1>2, <2>1 DEF WaysAreShort
  <2>3. CallsAreOrdered(r)' /\ OneIsOpen(r)' /\ AnswersAreTrue(r)'
    BY <1>3, <2>1 DEF CallsAreOrdered, OneIsOpen, AnswersAreTrue
  <2> QED BY <2>2, <2>3 DEF RequestInv
<1> QED BY <1>3, <1>4, <1>5 DEF WorkloadInv

\* A step in which no request changes.
LEMMA NothingChanges ==
  ASSUME WorkloadInv, UNCHANGED <<request, calls, homeUp, late>>
  PROVE  WorkloadInv'
<1>1. WorkloadTypes'
  BY DEF WorkloadInv, WorkloadTypes
<1>2. \A q \in Submissions : RequestInv(q)'
  BY Unaffected DEF WorkloadInv
<1> QED BY <1>1, <1>2 DEF WorkloadInv

\* A step of the generator keeps the invariant.
LEMMA GeneratorKeepsInv ==
  ASSUME WorkloadInv, GeneratorStep
  PROVE  WorkloadInv'
<1>0. WorkloadTypes /\ \A q \in Submissions : RequestInv(q)
  BY DEF WorkloadInv
<1>1. CASE WarmupEnds \/ Deadline \/ Drained \/ Export
  <2>1. UNCHANGED <<request, calls, homeUp, late>>
    BY <1>1 DEF WarmupEnds, Deadline, Drained, Export
  <2> QED BY <2>1, NothingChanges
<1>2. CASE DrainTimeout
  <2>1. /\ UNCHANGED <<calls, homeUp, late>>
        /\ request' = [q \in Submissions |-> IF q \in Pending THEN "cancelled" ELSE request[q]]
    BY <1>2 DEF DrainTimeout
  <2>2. WorkloadTypes'
    BY <1>0, <2>1 DEF WorkloadTypes
  <2>3. ASSUME NEW q \in Submissions PROVE RequestInv(q)'
    <3>1. CASE q \notin Pending
      BY <1>0, <2>1, <3>1, Unaffected
    <3>2. CASE q \in Pending
      <4>1. Ways(q)' = Ways(q) /\ Children(q)' = Children(q) /\ AskedPeer(q)' = AskedPeer(q)
            /\ (\A w : At(q, w)' = At(q, w)) /\ calls'[q] = calls[q]
        BY <2>1 DEF Ways, Children, AskedPeer, At
      <4>2. Open(q)' = Open(q) /\ late'[q] = late[q] /\ request'[q] = "cancelled"
        BY <2>1, <3>2, <4>1 DEF Open
      <4>3. WaysAreShort(q)' /\ CallsAreOrdered(q)' /\ OneIsOpen(q)' /\ AnswersAreTrue(q)'
        BY <1>0, <4>1, <4>2
           DEF RequestInv, WaysAreShort, CallsAreOrdered, OneIsOpen, AnswersAreTrue
      <4> QED BY <4>3 DEF RequestInv
    <3> QED BY <3>1, <3>2
  <2> QED BY <2>2, <2>3 DEF WorkloadInv
<1>3. ASSUME NEW r \in Submissions, Arrive(r) PROVE WorkloadInv'
  <2>1. Marks(r, "queued")
    BY <1>0, <1>3 DEF Arrive, Marks, WorkloadTypes
  <2> QED BY <2>1, MarkedRequest
<1>4. ASSUME NEW r \in Submissions, Post(r) PROVE WorkloadInv'
  <2>1. CASE homeUp
    BY <1>4, <2>1, PostedRequest
  <2>2. CASE ~homeUp
    <3>1. Marks(r, "rejected")
      BY <1>0, <1>4, <2>2 DEF Post, Marks, WorkloadTypes
    <3> QED BY <2>2, <3>1, MarkedRequest
  <2> QED BY <2>1, <2>2
<1>5. ASSUME NEW r \in Submissions, Answered(r) PROVE WorkloadInv'
  <2>1. CASE Handling(r, Direct, "refused") /\ Marks(r, "rejected")
    BY <2>1, MarkedRequest DEF Handling, Ways, At
  <2>2. CASE (\E at \in Successes : Handling(r, Direct, at)) /\ Marks(r, "accepted")
    <3>1. Direct \in Ways(r) /\ At(r, Direct) \in {"placed", "forwarded"}
      BY <2>2 DEF Handling, Ways, At, Successes
    <3> QED BY <2>2, <3>1, MarkedRequest
  <2>3. \/ Handling(r, Direct, "refused") /\ Marks(r, "rejected")
        \/ (\E at \in Successes : Handling(r, Direct, at)) /\ Marks(r, "accepted")
    BY <1>0, <1>5 DEF Answered, Marks, WorkloadTypes
  <2> QED BY <2>1, <2>2, <2>3
<1>6. ASSUME NEW r \in Submissions, PostFails(r) PROVE WorkloadInv'
  <2>1. (~homeUp /\ late' = late) \/ late' = [late EXCEPT ![r] = @ + 1]
    BY <1>6 DEF PostFails, GiveUp
  <2>2. Marks(r, "rejected") /\ (~homeUp \/ late'[r] > 0)
    BY <1>0, <1>6, <2>1 DEF PostFails, Marks, WorkloadTypes
  <2> QED BY <2>2, MarkedRequest
<1> QED BY <1>1, <1>2, <1>3, <1>4, <1>5, <1>6 DEF GeneratorStep

\* The invariant holds in every state.
LEMMA WorkloadInvHolds == WorkloadSpec => []WorkloadInv
<1>1. ASSUME WorkloadInit PROVE WorkloadInv
  <2>1. WorkloadTypes
    BY <1>1 DEF WorkloadInit, WorkloadTypes
  <2>2. ASSUME NEW r \in Submissions PROVE RequestInv(r)
    <3>1. calls[r] = << >> /\ DOMAIN << >> = {} /\ request[r] = "unborn"
      BY <1>1 DEF WorkloadInit
    <3>2. Ways(r) = {} /\ Children(r) = {} /\ << >> = [w \in {} |-> calls[r][w]]
      BY <3>1 DEF Ways, Children
    <3> QED BY <3>1, <3>2
         DEF RequestInv, WaysAreShort, CallsAreOrdered, OneIsOpen, AnswersAreTrue
  <2> QED BY <2>1, <2>2 DEF WorkloadInv
<1>2. ASSUME WorkloadInv, [WorkloadNext]_workloadVars PROVE WorkloadInv'
  <2>1. CASE WorkloadNext
    BY <1>2, <2>1, BrokerKeepsInv, GeneratorKeepsInv DEF WorkloadNext
  <2>2. CASE UNCHANGED workloadVars
    BY <1>2, <2>2, NothingChanges DEF workloadVars
  <2> QED BY <1>2, <2>1, <2>2
<1> QED BY <1>1, <1>2, PTL DEF WorkloadSpec

\* A request never comes twice to a broker: publish and
\* _try_federation_forward do not hand on what has been handed on.
THEOREM NoForwardingLoopHolds == WorkloadSpec => []NoForwardingLoop
<1>1. ASSUME WorkloadInv PROVE NoForwardingLoop
  <2>1. SUFFICES ASSUME NEW r \in Submissions, NEW v \in Ways(r), NEW w \in Ways(r),
                        Last(v) = Last(w)
                 PROVE  v = w
    BY DEF NoForwardingLoop, Ways
  <2>2. \A x \in Ways(r) : x = Direct \/ \E p \in Domains \ {Home} : x = Via(p)
    BY <1>1 DEF WorkloadInv, RequestInv, WaysAreShort
  <2>3. Last(Direct) = Home /\ \A p : Last(Via(p)) = p
    BY WayFacts
  <2> QED BY <2>1, <2>2, <2>3
<1> QED BY <1>1, WorkloadInvHolds, PTL

\* The generator's figures are those of the brokers: see _publish, which
\* counts every answer but a 200 as a rejection, and _try_federation_forward,
\* which goes on to the next peer when one does not answer.
THEOREM RunsMatchAnswersHolds == WorkloadSpec => []RunsMatchAnswers
<1>1. ASSUME WorkloadInv PROVE RunsMatchAnswers
  <2>1. SUFFICES ASSUME NEW r \in Submissions
                 PROVE  /\ request[r] = "accepted" => Created(r) # {}
                        /\ \A v, w \in Created(r) : v # w => late[r] > 0
                        /\ request[r] = "rejected" /\ Created(r) # {} => late[r] > 0 \/ ~homeUp
    BY DEF RunsMatchAnswers
  <2>2. RequestInv(r) /\ late[r] \in Nat
    BY <1>1 DEF WorkloadInv, WorkloadTypes
  <2>3. \A w : w \in Created(r) <=> w \in Ways(r) /\ At(r, w) \in {"running", "placed"}
    BY DEF Created, Ways, At
  <2>4. request[r] = "accepted" => Created(r) # {}
    BY <2>2, <2>3 DEF RequestInv, AnswersAreTrue, CallsAreOrdered, Children
  <2>5. ASSUME late[r] = 0, NEW v \in Created(r), NEW w \in Created(r) PROVE v = w
    <3>1. /\ v \in Ways(r) /\ w \in Ways(r) /\ Direct \in Ways(r)
          /\ At(r, v) \in {"running", "placed"} /\ At(r, w) \in {"running", "placed"}
      BY <2>2, <2>3, <2>5 DEF RequestInv, WaysAreShort
    <3>2. CASE v = Direct \/ w = Direct
      BY <2>2, <3>1, <3>2 DEF RequestInv, CallsAreOrdered, Children
    <3>3. CASE v # Direct /\ w # Direct
      <4>1. v \in Open(r) /\ w \in Open(r)
        BY <3>1, <3>3 DEF Open, Children
      <4>2. At(r, Direct) \in {"asking", "forwarded", "refused"}
        BY <2>2, <3>1, <4>1 DEF RequestInv, CallsAreOrdered, Open
      <4> QED BY <2>2, <2>5, <3>1, <4>1, <4>2 DEF RequestInv, OneIsOpen
    <3> QED BY <3>2, <3>3
  <2>6. ASSUME request[r] = "rejected", NEW v \in Created(r), late[r] = 0, homeUp
        PROVE  FALSE
    <3>1. v \in Ways(r) /\ At(r, v) \in {"running", "placed"}
      BY <2>3, <2>6
    <3>2. Direct \in Ways(r) /\ At(r, Direct) = "refused"
      BY <2>2, <2>6, <3>1 DEF RequestInv, AnswersAreTrue
    <3>3. v \in Open(r)
      BY <3>1, <3>2 DEF Open, Children
    <3> QED BY <2>2, <2>6, <3>2, <3>3 DEF RequestInv, OneIsOpen
  <2> QED BY <2>2, <2>4, <2>5, <2>6
<1> QED BY <1>1, WorkloadInvHolds, PTL
=============================================================================
