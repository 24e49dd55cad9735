----------------------------- MODULE ShardedOracle -----------------------------
(***************************************************************************)
(* The coordinator of the sharded oracle: a publish pulls the state of the *)
(* peer shards one after the other, places the pipeline on the workers of  *)
(* all shards and dispatches stages to the peers' workers directly, by the *)
(* URLs the latest pull brought.                                           *)
(*                                                                         *)
(* Publishes interleave at every pull and at every dispatch.  What the     *)
(* solver prefers is left open: any worker it was shown will do.           *)
(***************************************************************************)
EXTENDS Naturals, Sequences

CONSTANTS
  Shards,       \* the peers, in the order of peer_urls
  Coordinator,  \* the coordinator's own shard
  Units,        \* the workers of all shards
  OwnerOf,      \* OwnerOf[w]: the shard worker w is registered with
  Jobs,         \* the pipelines published
  Length,       \* stages of a pipeline, one after the other
  MaxMishaps     \* bound: pulls and dispatches that fail, workers that leave

ASSUME OracleAssumption ==
  /\ Shards \in Seq({Shards[i] : i \in 1..Len(Shards)})
  /\ OwnerOf \in [Units -> {Coordinator} \cup {Shards[i] : i \in 1..Len(Shards)}]
  /\ Length \in Nat \ {0}

VARIABLES
  present,    \* workers that run and are registered with their shard
  job,        \* job[j]: "new", "pulling", "active", "delivered", "unknown", "failed", "refused"
  pull,       \* pull[j]: local workers at its start, peers' found so far, next peer
  urls,       \* _sharded_peer_worker_urls: peers' workers that have an entry
  assigned,   \* assigned[j][i]: the worker of stage i
  work,       \* work[j]: the stage j is at and what became of it
  mishaps

oracleVars == <<present, job, pull, urls, assigned, work, mishaps>>

Local == {w \in present : OwnerOf[w] = Coordinator}
WorkersOf(shard) == {w \in present : OwnerOf[w] = shard}

OracleInit ==
  /\ present = Units
  /\ job = [j \in Jobs |-> "new"]
  /\ pull = [j \in Jobs |-> [local |-> {}, found |-> {}, next |-> 1]]
  /\ urls = {}
  /\ assigned = [j \in Jobs |-> << >>]
  /\ work = [j \in Jobs |-> [stage |-> 1, at |-> "ready", again |-> FALSE]]
  /\ mishaps = 0

OracleMishap ==
  /\ mishaps < MaxMishaps
  /\ mishaps' = mishaps + 1

\* A worker dies or is deregistered, in whichever shard.
UnitLeaves(w) ==
  /\ w \in present
  /\ OracleMishap
  /\ present' = present \ {w}
  /\ UNCHANGED <<job, pull, urls, assigned, work>>

-----------------------------------------------------------------------------
(* publish and _fetch_sharded_oracle_peer_topologies.                       *)

\* The local workers are taken down before the first pull; the first form
\* clears the URLs with it.
StartPull_Clears(j) ==
  /\ job[j] = "new"
  /\ job' = [job EXCEPT ![j] = "pulling"]
  /\ pull' = [pull EXCEPT ![j] = [local |-> Local, found |-> {}, next |-> 1]]
  /\ urls' = {}
  /\ UNCHANGED <<present, assigned, work, mishaps>>

StartPull(j) ==
  /\ job[j] = "new"
  /\ job' = [job EXCEPT ![j] = "pulling"]
  /\ pull' = [pull EXCEPT ![j] = [local |-> Local, found |-> {}, next |-> 1]]
  /\ UNCHANGED <<present, urls, assigned, work, mishaps>>

\* A peer answers with its workers, or is skipped with a warning.
PullPeer(j) ==
  /\ job[j] = "pulling"
  /\ pull[j].next <= Len(Shards)
  /\ \/ /\ pull' = [pull EXCEPT ![j].found = @ \cup WorkersOf(Shards[pull[j].next]),
                                ![j].next = @ + 1]
        /\ UNCHANGED mishaps
     \/ pull' = [pull EXCEPT ![j].next = @ + 1] /\ OracleMishap
  /\ UNCHANGED <<present, job, urls, assigned, work>>

\* The pull's URLs replace those of the pull before; merge_topologies and
\* decide_globally follow at once.  Without workers of its own the coordinator
\* does not place at all.
Decide(j) ==
  /\ job[j] = "pulling"
  /\ pull[j].next > Len(Shards)
  /\ urls' = pull[j].found
  /\ LET candidates == pull[j].local \cup pull[j].found
     IN  IF pull[j].local = {}
         THEN job' = [job EXCEPT ![j] = "refused"] /\ UNCHANGED assigned
         ELSE /\ job' = [job EXCEPT ![j] = "active"]
              /\ \E f \in [1..Length -> candidates] : assigned' = [assigned EXCEPT ![j] = f]
  /\ UNCHANGED <<present, pull, work, mishaps>>

-----------------------------------------------------------------------------
(* _dispatch_stage and the /result handler.                                 *)

Stage(j) == work[j].stage
Worker(j) == assigned[j][Stage(j)]

\* An unknown worker fails the pipeline.
DispatchStage(j) ==
  /\ job[j] = "active"
  /\ work[j].at = "ready"
  /\ IF Worker(j) \in Local \cup urls
     THEN work' = [work EXCEPT ![j].at = "sent"] /\ UNCHANGED job
     ELSE job' = [job EXCEPT ![j] = "unknown"] /\ UNCHANGED work
  /\ UNCHANGED <<present, pull, urls, assigned, mishaps>>

\* The broker a worker reports the stage to: the coordinator names itself in
\* the request when the worker is a peer's.
ReportsTo(w) == Coordinator

\* The stage is done; a result that goes to another broker is unknown there.
ReceiveResult(j) ==
  /\ job[j] = "active"
  /\ work[j].at = "sent"
  /\ Worker(j) \in present
  /\ IF ReportsTo(Worker(j)) # Coordinator
     THEN work' = [work EXCEPT ![j].at = "reported"] /\ UNCHANGED job
     ELSE IF Stage(j) = Length
     THEN job' = [job EXCEPT ![j] = "delivered"] /\ UNCHANGED work
     ELSE /\ work' = [work EXCEPT ![j] = [stage |-> Stage(j) + 1, at |-> "ready", again |-> FALSE]]
          /\ UNCHANGED job
  /\ UNCHANGED <<present, pull, urls, assigned, mishaps>>

\* The request fails: the stage is placed anew on the coordinator's own
\* workers, once, and the pipeline fails when that does not help.
DispatchFails(j) ==
  /\ job[j] = "active"
  /\ work[j].at = "sent"
  /\ (Worker(j) \notin present /\ UNCHANGED mishaps) \/ OracleMishap
  /\ IF work[j].again \/ Local = {}
     THEN job' = [job EXCEPT ![j] = "failed"] /\ UNCHANGED <<assigned, work>>
     ELSE /\ \E w \in Local : assigned' = [assigned EXCEPT ![j][Stage(j)] = w]
          /\ work' = [work EXCEPT ![j].again = TRUE]
          /\ UNCHANGED job
  /\ UNCHANGED <<present, pull, urls>>

-----------------------------------------------------------------------------
OracleNext ==
  \/ \E w \in Units : UnitLeaves(w)
  \/ \E j \in Jobs : StartPull(j) \/ PullPeer(j) \/ Decide(j)
                       \/ DispatchStage(j) \/ ReceiveResult(j) \/ DispatchFails(j)

OracleSpec == OracleInit /\ [][OracleNext]_oracleVars

\* Every pull and every dispatch of the coordinator has a time-out, and a worker
\* that runs reports; a worker that has left is noticed by a dispatch.
OracleFairness ==
  \A j \in Jobs : WF_oracleVars(\/ PullPeer(j) \/ Decide(j)
                                \/ DispatchStage(j) \/ ReceiveResult(j) \/ DispatchFails(j))

\* Publishes that overlap do not take each other's URLs away: a stage finds its
\* worker's URL unless a pull failed or a worker left.  (_dispatch_stage)
PeersStayKnown == mishaps = 0 => \A j \in Jobs : job[j] # "unknown"

\* A pipeline placed on any shard comes to an end at the coordinator: the
\* results of the peers' workers reach it.  (result_url)
JobsSettle == \A j \in Jobs : job[j] = "active" ~> job[j] # "active"
=============================================================================
