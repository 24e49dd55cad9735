------------------------------- MODULE Workload -------------------------------
(***************************************************************************)
(* The workload generator and the way of a request through the federation: *)
(* requests are generated while the run lasts and published in the         *)
(* background, a few at a time; a broker that cannot place one offers it   *)
(* to its peers in turn; the run ends with a drain and with the export of  *)
(* the home broker's metrics, in which the rows of the warm-up are tagged. *)
(*                                                                         *)
(* Every call has a time-out.  The callee knows nothing of it and goes on. *)
(***************************************************************************)
EXTENDS Naturals, SequencesExt

CONSTANTS
  Submissions,      \* the requests of a run
  Domains,       \* the brokers
  Home,          \* the broker the generator publishes to
  PeersOf,       \* PeersOf[d]: peer_urls of broker d, in their order
  MaxPublishes,  \* _MAX_CONCURRENT_PUBLISHES
  MaxTimeouts    \* bound: answers that come too late, and broken brokers

ASSUME WorkloadAssumption ==
  /\ Home \in Domains
  /\ PeersOf \in [Domains -> Seq(Domains)]
  /\ \A d \in Domains : \A i \in 1..Len(PeersOf[d]) :
       /\ PeersOf[d][i] # d
       /\ \A k \in 1..Len(PeersOf[d]) : PeersOf[d][i] = PeersOf[d][k] => i = k
  /\ MaxPublishes \in Nat \ {0}

VARIABLES
  stage,     \* where run is: "arrivals", "drain", "export", "done"
  warm,      \* the warm-up lasts
  request,   \* request[r]: what became of it at the generator
  early,     \* _warmup_pipeline_ids
  calls,     \* calls[r]: the publish calls made for r, by the way they took
  homeUp,    \* the home broker runs
  csv,       \* the exported rows, and those of them tagged as warm-up
  late       \* late[r]: answers for r that came too late or were lost

workloadVars == <<stage, warm, request, early, calls, homeUp, csv, late>>

\* A way is the sequence of brokers that handed the request on.  The broker
\* draws the identity of a pipeline, the generator that of a request.
Direct == <<Home>>
RequestId(r) == <<"request", r>>
PipelineId(r, way) == <<"pipeline", r, way>>

WorkloadInit ==
  /\ stage = "arrivals"
  /\ warm = TRUE
  /\ request = [r \in Submissions |-> "unborn"]
  /\ early = {}
  /\ calls = [r \in Submissions |-> << >>]
  /\ homeUp = TRUE
  /\ csv = [rows |-> {}, tagged |-> {}]
  /\ late = [r \in Submissions |-> 0]

TotalLate == SumFunction(late)

\* The answer for r is given up by the one who waits for it.
GiveUp(r) ==
  /\ TotalLate < MaxTimeouts
  /\ late' = [late EXCEPT ![r] = @ + 1]

-----------------------------------------------------------------------------
(* The brokers: POST /publish and _try_federation_forward.                  *)

Call(at, peer) == [at |-> at, peer |-> peer]
Successes == {"placed", "forwarded"}
Failures == {"refused"}

Runs(d) == d = Home => homeUp
IsForwarded_Never(way) == FALSE
IsForwarded(way) == Len(way) > 1

WithCall(made, way, call) ==
  [w \in DOMAIN made \cup {way} |-> IF w = way THEN call ELSE made[w]]

\* The next peer is asked, if there is one and the request came from a client.
Offer(r, way, i) ==
  LET peers == PeersOf[Last(way)]
  IN  IF i > Len(peers) \/ IsForwarded(way)
      THEN calls' = [calls EXCEPT ![r][way] = Call("refused", 0)]
      ELSE calls' = [calls EXCEPT ![r] =
             WithCall([@ EXCEPT ![way] = Call("asking", i)], Append(way, peers[i]), Call("placing", 0))]

Handling(r, way, at) ==
  /\ way \in DOMAIN calls[r]
  /\ Runs(Last(way))
  /\ calls[r][way].at = at

generatorVars == <<stage, warm, request, early, homeUp, csv>>

\* The pipeline is created; the call goes on to dispatch its sources.
Place(r, way) ==
  /\ Handling(r, way, "placing")
  /\ calls' = [calls EXCEPT ![r][way] = Call("running", 0)]
  /\ UNCHANGED <<generatorVars, late>>

CannotPlace(r, way) ==
  /\ Handling(r, way, "placing")
  /\ Offer(r, way, 1)
  /\ UNCHANGED <<generatorVars, late>>

SourcesDispatched(r, way) ==
  /\ Handling(r, way, "running")
  /\ calls' = [calls EXCEPT ![r][way] = Call("placed", 0)]
  /\ UNCHANGED <<generatorVars, late>>

Asked(r, way) == calls[r][Append(way, PeersOf[Last(way)][calls[r][way].peer])].at

\* Only an answer of 200 is passed on; the first form passes on any.
PeerAnswers_AnyStatus(r, way) ==
  /\ Handling(r, way, "asking")
  /\ Asked(r, way) \in Successes \cup Failures
  /\ calls' = [calls EXCEPT ![r][way] = Call("forwarded", 0)]
  /\ UNCHANGED <<generatorVars, late>>

PeerAnswers(r, way) ==
  /\ Handling(r, way, "asking")
  /\ \/ /\ Asked(r, way) \in Successes
        /\ calls' = [calls EXCEPT ![r][way] = Call("forwarded", 0)]
     \/ /\ Asked(r, way) \in Failures
        /\ Offer(r, way, calls[r][way].peer + 1)
  /\ UNCHANGED <<generatorVars, late>>

\* 30 s are over, or the answer is lost: the next peer, whatever this one does.
PeerTimesOut(r, way) ==
  /\ Handling(r, way, "asking")
  /\ GiveUp(r)
  /\ Offer(r, way, calls[r][way].peer + 1)
  /\ UNCHANGED generatorVars

\* The home broker breaks down for good: its calls stop where they are.
HomeCrashes ==
  /\ homeUp
  /\ homeUp' = FALSE
  /\ UNCHANGED <<stage, warm, request, early, calls, csv, late>>

-----------------------------------------------------------------------------
(* The generator: run, _guarded_publish and _publish.                       *)

WarmupEnds ==
  /\ warm
  /\ stage = "arrivals"
  /\ warm' = FALSE
  /\ UNCHANGED <<stage, request, early, calls, homeUp, csv, late>>

\* generate_request; the publish becomes a task of its own.
Arrive(r) ==
  /\ stage = "arrivals"
  /\ request[r] = "unborn"
  /\ request' = [request EXCEPT ![r] = "queued"]
  /\ early' = IF warm THEN early \cup {RequestId(r)} ELSE early
  /\ UNCHANGED <<stage, warm, calls, homeUp, csv, late>>

Deadline ==
  /\ stage = "arrivals"
  /\ stage' = "drain"
  /\ UNCHANGED <<warm, request, early, calls, homeUp, csv, late>>

Posted == {r \in Submissions : request[r] = "posted"}
Pending == {r \in Submissions : request[r] = "queued"} \cup Posted

\* The task gets the semaphore and posts; a broker that is down refuses.
Post(r) ==
  /\ request[r] = "queued"
  /\ Cardinality(Posted) < MaxPublishes
  /\ IF homeUp
     THEN /\ request' = [request EXCEPT ![r] = "posted"]
          /\ calls' = [calls EXCEPT ![r] = WithCall(<<>>, Direct, Call("placing", 0))]
     ELSE request' = [request EXCEPT ![r] = "rejected"] /\ UNCHANGED calls
  /\ UNCHANGED <<stage, warm, early, homeUp, csv, late>>

\* Anything but a success counts as a rejection.
Answered(r) ==
  /\ r \in Posted
  /\ \/ Handling(r, Direct, "refused") /\ request' = [request EXCEPT ![r] = "rejected"]
     \/ \E at \in Successes : Handling(r, Direct, at) /\ request' = [request EXCEPT ![r] = "accepted"]
  /\ UNCHANGED <<stage, warm, early, calls, homeUp, csv, late>>

\* No answer within 5 s, or the connection broke with the broker.
PostFails(r) ==
  /\ r \in Posted
  /\ (~homeUp /\ UNCHANGED late) \/ GiveUp(r)
  /\ request' = [request EXCEPT ![r] = "rejected"]
  /\ UNCHANGED <<stage, warm, early, calls, homeUp, csv>>

\* The drain ends when no task is left, or cancels those that are.
Drained ==
  /\ stage = "drain"
  /\ Pending = {}
  /\ stage' = "export"
  /\ UNCHANGED <<warm, request, early, calls, homeUp, csv, late>>

DrainTimeout ==
  /\ stage = "drain"
  /\ Pending # {}
  /\ request' = [r \in Submissions |-> IF r \in Pending THEN "cancelled" ELSE request[r]]
  /\ stage' = "export"
  /\ UNCHANGED <<warm, early, calls, homeUp, csv, late>>

\* The pipelines created for r, and those the home broker has a trace of.
Created(r) == {way \in DOMAIN calls[r] : calls[r][way].at \in {"running", "placed"}}
HomeRows == UNION {{PipelineId(r, way) : way \in {w \in Created(r) : Last(w) = Home}} : r \in Submissions}

\* POST /metrics/export, then _tag_warmup_in_csv on what was written.
Exported ==
  /\ homeUp
  /\ csv' = [rows |-> HomeRows, tagged |-> HomeRows \cap early]

\* The export fails, or takes longer than 10 s: a warning, and the run ends.
Export_Waits ==
  /\ stage = "export"
  /\ Exported
  /\ stage' = "done"
  /\ UNCHANGED <<warm, request, early, calls, homeUp, late>>

Export ==
  /\ stage = "export"
  /\ Exported \/ UNCHANGED csv
  /\ stage' = "done"
  /\ UNCHANGED <<warm, request, early, calls, homeUp, late>>

-----------------------------------------------------------------------------
BrokerStep ==
  \/ \E r \in Submissions : \E way \in DOMAIN calls[r] :
       \/ Place(r, way) \/ CannotPlace(r, way) \/ SourcesDispatched(r, way)
       \/ PeerAnswers(r, way) \/ PeerTimesOut(r, way)
  \/ HomeCrashes

GeneratorStep ==
  \/ WarmupEnds \/ Deadline \/ Drained \/ DrainTimeout \/ Export
  \/ \E r \in Submissions : Arrive(r) \/ Post(r) \/ Answered(r) \/ PostFails(r)

WorkloadNext == BrokerStep \/ GeneratorStep

WorkloadSpec == WorkloadInit /\ [][WorkloadNext]_workloadVars

\* The generator's own deadlines pass: it waits for no broker without one.
Closing == Deadline \/ Drained \/ DrainTimeout \/ Export
WorkloadFairness == WF_workloadVars(Closing)

\* No broker is asked to run the same request twice: a request that was
\* forwarded is not forwarded again.  (publish, _try_federation_forward)
NoForwardingLoop ==
  \A r \in Submissions : \A v, w \in DOMAIN calls[r] : Last(v) = Last(w) => v = w

\* What the generator counts is what the brokers run: an accepted request runs
\* somewhere, and it takes an answer that came too late for it to run twice,
\* or for a rejected one to run.  (_publish, _try_federation_forward)
RunsMatchAnswers ==
  \A r \in Submissions :
    /\ request[r] = "accepted" => Created(r) # {}
    /\ \A v, w \in Created(r) : v # w => late[r] > 0
    /\ request[r] = "rejected" /\ Created(r) # {} => late[r] > 0 \/ ~homeUp

\* The generator comes to its end whatever the brokers do.  (run)
GeneratorFinishes == <>(stage = "done")

\* The docstring of _tag_warmup_in_csv: the identities collected in the run
\* identify the pipelines that were submitted during the warm-up.
WarmupRowsAreTagged ==
  \A r \in Submissions, way \in UNION {DOMAIN calls[q] : q \in Submissions} :
    RequestId(r) \in early /\ PipelineId(r, way) \in csv.rows
      => PipelineId(r, way) \in csv.tagged
=============================================================================
