-------------------------------- MODULE Traces --------------------------------
(***************************************************************************)
(* What the metrics collector makes of one pipeline's records: the stages  *)
(* of a chain run one after the other, some of them twice, and the broker  *)
(* records what it does and what the workers report.                       *)
(***************************************************************************)
EXTENDS Integers, SequencesExt

CONSTANTS
  ChainLength,   \* stages of the pipeline, named by their place
  ExecNodes,     \* nodes
  NodeDomain,    \* NodeDomain[n]: the domain of node n
  MaxResends     \* bound: stages sent a second time, results reported twice

ASSUME TracesAssumption == ChainLength \in Nat \ {0}

VARIABLES
  now,        \* one tick per step
  records,    \* timestamps of the trace
  ranOn,      \* placement of the trace
  runs,       \* executions of stages at workers
  reports,    \* results on their way to the broker
  completed,  \* completed_stages
  finished,  \* the pipeline is finished and out of the broker's table
  resends

traceVars == <<now, records, ranOn, runs, reports, completed, finished, resends>>

ChainStages == 1..ChainLength
TracesInit ==
  /\ now = 2
  /\ records = <<[stage |-> 0, event |-> "created", at |-> 1]>>
  /\ ranOn = << >>
  /\ runs = {}
  /\ reports = {}
  /\ completed = {}
  /\ finished = FALSE
  /\ resends = 0

-----------------------------------------------------------------------------
(* PipelineTrace.                                                           *)

\* The records of an event, and those of a stage among them, by their places.
Of(events, e) == {i \in DOMAIN events : events[i].event = e}
Times(events, e, s) == {i \in Of(events, e) : events[i].stage = s}

\* The start of a stage is its first, its end the last.
StartOf_Last(events, s) == events[Max(Times(events, "stage_start", s))].at
StartOf(events, s) == events[Min(Times(events, "stage_start", s))].at
EndOf(events, s) == events[Max(Times(events, "stage_end", s))].at

CreatedAt(events) == events[Min(Of(events, "created"))].at
DeliveredAt(events) == events[Max(Of(events, "delivered"))].at
EndToEndLatency(events) == DeliveredAt(events) - CreatedAt(events)

Started(events) == {s \in ChainStages : Times(events, "stage_start", s) # {}}
StageLatency(events, s) == EndOf(events, s) - StartOf(events, s)

\* The stages are sorted by their start, those of the same time as they were
\* recorded first.
Earlier(events, s, t) ==
  \/ StartOf(events, s) < StartOf(events, t)
  \/ /\ StartOf(events, s) = StartOf(events, t)
     /\ Min(Times(events, "stage_start", s)) < Min(Times(events, "stage_start", t))

\* Next to each other in this order: counted as joined by an edge.
Consecutive(events) ==
  {e \in Started(events) \X Started(events) :
     /\ Earlier(events, e[1], e[2])
     /\ ~\E u \in Started(events) : Earlier(events, e[1], u) /\ Earlier(events, u, e[2])}

Crosses(placed, s, t) == NodeDomain[placed[s]] # NodeDomain[placed[t]]

DomainCrossings(events, placed) ==
  Cardinality({e \in Consecutive(events) : Crosses(placed, e[1], e[2])})

-----------------------------------------------------------------------------
(* The records of the broker: _dispatch_stage and the /result handler.      *)

Record(stage, event, at) == [stage |-> stage, event |-> event, at |-> at]
PlacedOn(s, n) ==
  ranOn' = [t \in DOMAIN ranOn \cup {s} |-> IF t = s THEN n ELSE ranOn[t]]

Next1 == now' = now + 1

\* A worker starts the stage as soon as it gets it.
Dispatch(s, n) ==
  /\ ~finished
  /\ s \notin DOMAIN ranOn
  /\ 1..(s - 1) \subseteq completed
  /\ records' = Append(records, Record(s, "dispatched", now))
  /\ PlacedOn(s, n)
  /\ runs' = runs \cup {[stage |-> s, node |-> n, start |-> now]}
  /\ Next1
  /\ UNCHANGED <<reports, completed, finished, resends>>

\* The stage is sent to another worker: nothing is recorded.
Resend(s, n) ==
  /\ ~finished
  /\ s \in DOMAIN ranOn
  /\ resends < MaxResends
  /\ resends' = resends + 1
  /\ runs' = runs \cup {[stage |-> s, node |-> n, start |-> now]}
  /\ Next1
  /\ UNCHANGED <<records, ranOn, reports, completed, finished>>

Finish(run) ==
  /\ run \in runs
  /\ runs' = runs \ {run}
  /\ reports' = reports \cup {[stage |-> run.stage, node |-> run.node, start |-> run.start, end |-> now]}
  /\ Next1
  /\ UNCHANGED <<records, ranOn, completed, finished, resends>>

Received(m) == <<Record(m.stage, "stage_result_received", now)>>
Timing(m) == <<Record(m.stage, "stage_start", m.start), Record(m.stage, "stage_end", m.end)>>

\* The result of a pipeline that is out of the table is recorded as received,
\* and no more.
ResultRecords(m) ==
  IF finished THEN Received(m)
  ELSE Received(m) \o Timing(m)
         \o IF completed \cup {m.stage} = ChainStages
            THEN <<Record(m.stage, "delivered", now)>> ELSE <<>>

\* A worker whose report is not answered in time reports again.
Result(m) ==
  /\ m \in reports
  /\ records' = records \o ResultRecords(m)
  /\ PlacedOn(m.stage, m.node)
  /\ IF finished THEN UNCHANGED <<completed, finished>>
     ELSE /\ completed' = completed \cup {m.stage}
          /\ finished' = (completed' = ChainStages)
  /\ \/ reports' = reports \ {m} /\ UNCHANGED resends
     \/ resends < MaxResends /\ resends' = resends + 1 /\ UNCHANGED reports
  /\ Next1
  /\ UNCHANGED runs

TracesNext ==
  \/ \E s \in ChainStages, n \in ExecNodes : Dispatch(s, n) \/ Resend(s, n)
  \/ \E run \in runs : Finish(run)
  \/ \E m \in reports : Result(m)

TracesSpec == TracesInit /\ [][TracesNext]_traceVars

-----------------------------------------------------------------------------
\* What counts as the start and the end of a stage lies within the pipeline's
\* life, however often the stage ran and however late its last result, so that
\* no stage takes longer than the pipeline.  (stage_latencies_ms)
StageWithinPipeline ==
  finished => \A s \in ChainStages :
    /\ StartOf(records, s) >= CreatedAt(records)
    /\ EndOf(records, s) <= DeliveredAt(records)
    /\ StageLatency(records, s) <= EndToEndLatency(records)

\* The order of the first starts is the order of the chain, so that the counted
\* crossings are those of its edges.  (domain_crossings)
CrossingsAreEdges ==
  finished =>
    DomainCrossings(records, ranOn) =
      Cardinality({s \in 1..(ChainLength - 1) : Crosses(ranOn, s, s + 1)})

\* What a figure of a finished pipeline may be relied on for, whatever ran twice.
FiguresFitTheRun == StageWithinPipeline /\ CrossingsAreEdges
=============================================================================
