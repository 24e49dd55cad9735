-------------------------- MODULE PipelineLifecycle --------------------------
(***************************************************************************)
(* What a broker promises about the pipelines it accepts, whatever workers *)
(* crash, results are repeated and stages are sent twice: stages start in  *)
(* the order of the DAG, a pipeline ends at most once and for good, and it *)
(* succeeds only with every stage done.                                    *)
(***************************************************************************)
CONSTANTS
  Pipelines,   \* pipeline ids
  Stages,      \* stage ids of the template
  Preds        \* Preds[s]: the stages with an edge into s

VARIABLES
  life,        \* life[p]: where pipeline p stands
  started,     \* <<p, s>>: stage s of p has been handed to dispatch
  done         \* <<p, s>>: a worker's success for s of p was accepted

vars == <<life, started, done>>

StagesOf(p) == {p} \X Stages
Before(j) == {j[1]} \X Preds[j[2]]

TypeOK ==
  /\ life \in [Pipelines -> {"new", "running", "succeeded", "failed"}]
  /\ started \subseteq Pipelines \X Stages
  /\ done \subseteq Pipelines \X Stages

Init ==
  /\ life = [p \in Pipelines |-> "new"]
  /\ started = {}
  /\ done = {}

\* Start any stages of p whose predecessors are all done.
Starts(p) ==
  \E S \in SUBSET {j \in StagesOf(p) : Before(j) \subseteq done'} :
    started' = started \cup S

Accept(p) ==
  /\ life[p] = "new"
  /\ life' = [life EXCEPT ![p] = "running"]
  /\ UNCHANGED done
  /\ Starts(p)

Advance(p) ==
  /\ life[p] = "running"
  /\ \/ \E j \in started \cap StagesOf(p) : done' = done \cup {j}
     \/ UNCHANGED done
  /\ UNCHANGED life
  /\ Starts(p)

Succeed(p) ==
  /\ life[p] = "running"
  /\ \E j \in started \cap StagesOf(p) : done' = done \cup {j}
  /\ StagesOf(p) \subseteq done'
  /\ life' = [life EXCEPT ![p] = "succeeded"]
  /\ UNCHANGED started

Fail(p) ==
  /\ life[p] = "running"
  /\ \/ \E j \in started \cap StagesOf(p) : done' = done \cup {j}
     \/ UNCHANGED done
  /\ life' = [life EXCEPT ![p] = "failed"]
  /\ UNCHANGED started

Next == \E p \in Pipelines : Accept(p) \/ Advance(p) \/ Succeed(p) \/ Fail(p)

Spec == Init /\ [][Next]_vars

-----------------------------------------------------------------------------

\* Stages run in DAG order: whatever was started has all its inputs, and
\* nothing is done that was not started.
DagOrder ==
  /\ \A j \in started : Before(j) \subseteq done
  /\ done \subseteq started

=============================================================================
