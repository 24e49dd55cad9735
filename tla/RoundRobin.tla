----------------------------- MODULE RoundRobin -----------------------------
(***************************************************************************)
(* The placement of the static broker: one cycle of workers per slice,     *)
(* rebuilt whenever the registry changes.  A cycle is the sequence of its  *)
(* workers with the next one first.                                        *)
(***************************************************************************)
EXTENDS Integers, Sequences, FiniteSets, SequencesExt

CONSTANTS
  Units,       \* the node ids, numbers in their sorting order
  SliceOf,     \* the slice of each worker
  Requests,    \* the slice requirements of the stages that arrive
  Flat,        \* the slice of workers that take every stage
  Anything,    \* no slice requirement
  MaxPicks     \* bound on the picks between two changes of the registry

ASSUME UnitsAssumption == Units \subseteq Int

VARIABLES
  registered,  \* _workers
  cycles,      \* _slice_cycles
  picks        \* per requirement, the picks since the cycles were rebuilt

rotorVars == <<registered, cycles, picks>>

SliceAllows(slice, required) == required = Anything \/ slice = Flat \/ slice = required

Eligible(workers, required) == {w \in workers : SliceAllows(SliceOf[w], required)}

\* The sorted list of a set of numbers.
Sorted(S) ==
  CHOOSE seq \in [1..Cardinality(S) -> S] :
    \A i, j \in 1..Cardinality(S) : i < j => seq[i] < seq[j]

EligibleWorkers(workers, required) == Sorted(Eligible(workers, required))

SliceKeys(workers) == {Anything} \cup ({SliceOf[w] : w \in workers} \ {Flat})

\* Broken variant: cycles that exist are kept, whoever has left.
RebuildCycle_OnlyNew(workers) ==
  [k \in {s \in SliceKeys(workers) : EligibleWorkers(workers, s) # <<>>} |->
     IF k \in DOMAIN cycles THEN cycles[k] ELSE EligibleWorkers(workers, k)]

RebuildCycle(workers) ==
  [k \in {s \in SliceKeys(workers) : EligibleWorkers(workers, s) # <<>>} |->
     EligibleWorkers(workers, k)]

\* A cycle for a slice no worker is dedicated to is built when it is asked for.
Cycle(required) ==
  IF required \in DOMAIN cycles THEN cycles[required]
  ELSE EligibleWorkers(registered, required)

Turn(cycle) == Append(Tail(cycle), Head(cycle))

RotorInit == registered = {} /\ cycles = << >> /\ picks = [r \in Requests |-> <<>>]

\* _on_worker_change: (de)registration, a dead worker, an eviction.
ChangeWorkers(workers) ==
  /\ workers # registered
  /\ registered' = workers
  /\ cycles' = RebuildCycle(workers)
  /\ picks' = [r \in Requests |-> <<>>]

\* Nobody eligible: RuntimeError, and nothing changes.
PickWorker(required) ==
  /\ Len(picks[required]) < MaxPicks
  /\ Cycle(required) # <<>>
  /\ picks' = [picks EXCEPT ![required] = Append(@, Head(Cycle(required)))]
  /\ cycles' = [k \in DOMAIN cycles \cup {required} |->
                  IF k = required THEN Turn(Cycle(required)) ELSE cycles[k]]
  /\ UNCHANGED registered

RotorNext ==
  \/ \E w \in Units : \/ ChangeWorkers(registered \cup {w})
                     \/ ChangeWorkers(registered \ {w})
  \/ \E r \in Requests : PickWorker(r)

RotorSpec == RotorInit /\ [][RotorNext]_rotorVars

Times(required, w) == Cardinality({i \in DOMAIN picks[required] : picks[required][i] = w})

\* While the registry stays as it is every eligible worker has its turn before
\* one is picked twice, and nobody who left or serves another slice is picked,
\* although cycles are built at different moments and never all at once.
RoundRobinIsEven ==
  \A r \in Requests :
    /\ \A i \in DOMAIN picks[r] :
         picks[r][i] \in Eligible(registered, r)
    /\ \A v, w \in Eligible(registered, r) : Times(r, v) <= Times(r, w) + 1
=============================================================================
