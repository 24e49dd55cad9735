---------------------------- MODULE Services_proofs ----------------------------
(***************************************************************************)
(* Three services next to the brokers: the failure injector of an          *)
(* experiment and the tracker of its outages, the Kafka sidecar of a       *)
(* worker, and what the metrics collector makes of a pipeline's records.   *)
(***************************************************************************)
EXTENDS FailureInjection, KafkaTransport, Traces, SequenceTheorems, FiniteSetTheorems,
        WellFoundedInduction, TLAPS

(***************************************************************************)
(* That the cleanup restores what the scenarios broke, for any scenarios.  *)
(*                                                                         *)
(* What is down is on the books, or is about to be put there; and no task  *)
(* is about to strike it off: a restart takes a container out of "down" at *)
(* the moment from which its entry is dead, and a container that is killed *)
(* again before the entry is deleted is the case the property excludes.    *)
(***************************************************************************)

\* A task is somewhere, at some target.
Places == {"delayed", "injected", "active", "restoring", "restarting", "restarted",
           "ended", "raised"}
TaskType == task \in [Scenarios -> [at : Places, i : Nat]]

\* Some task has broken x and is not resumed yet; some task has restored it.
BeingBooked(x) == \E s \in Scenarios : task[s].at = "injected" /\ Target(s) = x
BeingStruckOff(x) == \E s \in Scenarios : task[s].at = "restarted" /\ Target(s) = x

OutagesAreBooked ==
  \A x \in down \ overtaken :
    /\ x \in killed \cup partitions \/ BeingBooked(x)
    /\ ~BeingStruckOff(x)

CleanupIsLast ==
  /\ cleaning # "no" => \A s \in Scenarios : task[s].at \in {"ended", "raised"}
  /\ cleaning \in {"containers", "done"} => partitions \subseteq unrestored
  /\ cleaning = "done" => killed \subseteq unrestored

FailureInv == TaskType /\ OutagesAreBooked /\ CleanupIsLast

-----------------------------------------------------------------------------
\* Only the task of s moves.
MovesOnly(s) ==
  /\ TaskType'
  /\ \A r \in Scenarios \ {s} : task'[r] = task[r]

\* It is not between an effect and its booking.
HoldsNothing(s) == task'[s].at \notin {"injected", "restarted"}

\* A task that raises, ends or waits for its duration.
LEMMA GoToMoves ==
  ASSUME TaskType, NEW s \in Scenarios, NEW where \in Places, GoTo(s, where)
  PROVE  MovesOnly(s) /\ task'[s].at = where
BY DEF GoTo, TaskType, MovesOnly

\* A task that is resumed at the same target.
LEMMA StayMoves ==
  ASSUME TaskType, NEW s \in Scenarios, NEW where \in Places,
         task' = [task EXCEPT ![s].at = where]
  PROVE  MovesOnly(s) /\ Target(s)' = Target(s) /\ task'[s].at = where
BY DEF TaskType, MovesOnly, Target

\* A task that goes on to its next target or is through.
LEMMA AdvanceMoves ==
  ASSUME TaskType, NEW s \in Scenarios, NEW where \in Places, NEW after \in Places,
         Advance(s, where, after)
  PROVE  MovesOnly(s) /\ task'[s].at \in {where, after}
<1>1. CASE IsLast(s)
  BY <1>1, GoToMoves DEF Advance
<1>2. CASE ~IsLast(s)
  <2>1. task' = [task EXCEPT ![s] = [at |-> where, i |-> task[s].i + 1]]
    BY <1>2 DEF Advance
  <2> QED BY <2>1 DEF TaskType, MovesOnly
<1> QED BY <1>1, <1>2

\* The targets of the tasks that do not move are what they were, so that an
\* outage another task is about to book still is, and one that s strikes off
\* nobody else does.
LEMMA OthersStay ==
  ASSUME NEW s \in Scenarios, MovesOnly(s), HoldsNothing(s), NEW x
  PROVE  /\ BeingBooked(x) => BeingBooked(x)' \/ (task[s].at = "injected" /\ Target(s) = x)
         /\ BeingStruckOff(x)' => BeingStruckOff(x)
<1>1. \A r \in Scenarios \ {s} : task'[r] = task[r] /\ Target(r)' = Target(r)
  BY DEF MovesOnly, Target
<1> QED BY <1>1 DEF BeingBooked, BeingStruckOff, HoldsNothing

\* A scenario runs only while the cleanup has not begun.
LEMMA ScenarioBeforeCleanup ==
  ASSUME CleanupIsLast, NEW s \in Scenarios, task[s].at \notin {"ended", "raised"}
  PROVE  cleaning = "no"
BY DEF CleanupIsLast

-----------------------------------------------------------------------------
\* A task that does nothing but leave for a place where it holds nothing.
LEMMA LeavingKeeps ==
  ASSUME FailureInv, NEW s \in Scenarios, task[s].at \notin {"ended", "raised", "injected"},
         MovesOnly(s), HoldsNothing(s),
         UNCHANGED <<down, killed, partitions, overtaken, cleaning, unrestored>>
  PROVE  FailureInv'
<1>1. TaskType'
  BY DEF MovesOnly
<1>2. OutagesAreBooked'
  BY OthersStay DEF FailureInv, OutagesAreBooked
<1>3. CleanupIsLast'
  BY ScenarioBeforeCleanup DEF FailureInv, CleanupIsLast
<1> QED BY <1>1, <1>2, <1>3 DEF FailureInv

\* A step of the injector.
LEMMA ScenarioStep ==
  ASSUME FailureInv, NEW s \in Scenarios,
         \/ Inject(s) \/ InjectFails(s) \/ BookInjection(s) \/ Expire(s)
         \/ CheckRestart(s) \/ RestartContainer(s) \/ RestartFails(s) \/ BookRestart(s)
  PROVE  FailureInv'
<1> USE DEF books
<1>0. TaskType
  BY DEF FailureInv
<1>1. CASE Inject(s)
  <2>1. MovesOnly(s) /\ Target(s)' = Target(s) /\ task'[s].at = "injected" /\ task[s].at = "delayed"
    BY <1>0, <1>1, StayMoves DEF Inject, Places
  <2>2. \A r \in Scenarios \ {s} : task'[r] = task[r] /\ Target(r)' = Target(r)
    BY <2>1 DEF MovesOnly, Target
  <2>3. task'[s].at = "injected"
    BY <2>1
  <2>4. ASSUME NEW x \in down' \ overtaken'
        PROVE  (x \in killed' \cup partitions' \/ BeingBooked(x)') /\ ~BeingStruckOff(x)'
    <3>1. CASE x = Target(s)
      <4>1. BeingBooked(x)'
        BY <3>1, <2>1, <2>3 DEF BeingBooked
      <4>2. ~BeingStruckOff(x)
        BY <1>1, <2>4, <3>1 DEF Inject, BeingStruckOff
      <4>3. ~BeingStruckOff(x)'
        BY <4>2, <2>2, <2>3 DEF BeingStruckOff
      <4> QED BY <4>1, <4>3
    <3>2. CASE x # Target(s)
      <4>1. x \in down \ overtaken
        BY <1>1, <2>4, <3>2 DEF Inject
      <4>2. BeingBooked(x) => BeingBooked(x)'
        BY <2>1, <2>2 DEF BeingBooked
      <4>3. BeingStruckOff(x)' => BeingStruckOff(x)
        BY <2>2, <2>3 DEF BeingStruckOff
      <4>4. killed' = killed /\ partitions' = partitions
        BY <1>1 DEF Inject
      <4> QED BY <4>1, <4>2, <4>3, <4>4 DEF FailureInv, OutagesAreBooked
    <3> QED BY <3>1, <3>2
  <2>5. CleanupIsLast'
    BY <1>1, <2>1, ScenarioBeforeCleanup DEF Inject, FailureInv, CleanupIsLast
  <2> QED BY <2>1, <2>4, <2>5 DEF FailureInv, OutagesAreBooked, MovesOnly
<1>2. CASE InjectFails(s)
  <2>1. MovesOnly(s) /\ HoldsNothing(s)
    BY <1>0, <1>2, GoToMoves DEF InjectFails, Raise, HoldsNothing, Places
  <2> QED BY <1>2, <2>1, LeavingKeeps DEF InjectFails
<1>3. CASE BookInjection(s)
  <2>1. MovesOnly(s) /\ HoldsNothing(s) /\ task[s].at = "injected"
    <3>1. CASE s.ends
      BY <1>0, <1>3, <3>1, AdvanceMoves DEF BookInjection, HoldsNothing, Places
    <3>2. CASE ~s.ends
      BY <1>0, <1>3, <3>2, AdvanceMoves DEF BookInjection, HoldsNothing, Places
    <3> QED BY <3>1, <3>2
  <2>2. ASSUME NEW x \in down' \ overtaken'
        PROVE  (x \in killed' \cup partitions' \/ BeingBooked(x)') /\ ~BeingStruckOff(x)'
    <3>1. x \in down \ overtaken
      BY <1>3, <2>2 DEF BookInjection
    <3>2. killed \cup partitions \cup {Target(s)} = killed' \cup partitions'
      BY <1>3 DEF BookInjection
    <3>3. BeingBooked(x) => BeingBooked(x)' \/ x = Target(s)
      BY <2>1, OthersStay
    <3>4. BeingStruckOff(x)' => BeingStruckOff(x)
      BY <2>1, OthersStay
    <3> QED BY <3>1, <3>2, <3>3, <3>4 DEF FailureInv, OutagesAreBooked
  <2>3. CleanupIsLast'
    BY <1>3, <2>1, ScenarioBeforeCleanup DEF BookInjection, FailureInv, CleanupIsLast
  <2> QED BY <2>1, <2>2, <2>3 DEF FailureInv, OutagesAreBooked, MovesOnly
<1>4. CASE Expire(s)
  <2>1. MovesOnly(s) /\ HoldsNothing(s)
    BY <1>0, <1>4, GoToMoves DEF Expire, HoldsNothing, Places
  <2> QED BY <1>4, <2>1, LeavingKeeps DEF Expire
<1>5. CASE CheckRestart(s)
  <2>1. MovesOnly(s) /\ HoldsNothing(s)
    BY <1>0, <1>5, GoToMoves, StayMoves DEF CheckRestart, Raise, HoldsNothing, Places
  <2> QED BY <1>5, <2>1, LeavingKeeps DEF CheckRestart
<1>6. CASE RestartContainer(s)
  <2>1. MovesOnly(s) /\ Target(s)' = Target(s) /\ task'[s].at = "restarted" /\ task[s].at = "restarting"
    BY <1>0, <1>6, StayMoves DEF RestartContainer, Places
  <2>2. \A r \in Scenarios \ {s} : task'[r] = task[r] /\ Target(r)' = Target(r)
    BY <2>1 DEF MovesOnly, Target
  <2>3. ASSUME NEW x \in down' \ overtaken'
        PROVE  (x \in killed' \cup partitions' \/ BeingBooked(x)') /\ ~BeingStruckOff(x)'
    <3>1. x \in down \ overtaken /\ x # Target(s) /\ killed' = killed /\ partitions' = partitions
      BY <1>6, <2>3 DEF RestartContainer
    <3>2. BeingBooked(x) => BeingBooked(x)'
      BY <2>1, <2>2 DEF BeingBooked
    <3>3. BeingStruckOff(x)' => BeingStruckOff(x)
      BY <3>1, <2>1, <2>2 DEF BeingStruckOff
    <3> QED BY <3>1, <3>2, <3>3 DEF FailureInv, OutagesAreBooked
  <2>4. CleanupIsLast'
    BY <1>6, <2>1, ScenarioBeforeCleanup DEF RestartContainer, FailureInv, CleanupIsLast
  <2> QED BY <2>1, <2>3, <2>4 DEF FailureInv, OutagesAreBooked, MovesOnly
<1>7. CASE RestartFails(s)
  <2>1. MovesOnly(s) /\ HoldsNothing(s)
    BY <1>0, <1>7, GoToMoves DEF RestartFails, Raise, HoldsNothing, Places
  <2> QED BY <1>7, <2>1, LeavingKeeps DEF RestartFails
<1>8. CASE BookRestart(s)
  <2>1. MovesOnly(s) /\ HoldsNothing(s) /\ task[s].at = "restarted"
    <3>1. CASE Advance(s, "restoring", "ended")
      BY <1>0, <1>8, <3>1, AdvanceMoves DEF BookRestart, HoldsNothing, Places
    <3>2. CASE Raise(s)
      BY <1>0, <1>8, <3>2, GoToMoves DEF BookRestart, Raise, HoldsNothing, Places
    <3> QED BY <1>8, <3>1, <3>2 DEF BookRestart
  <2>2. ASSUME NEW x \in down' \ overtaken'
        PROVE  (x \in killed' \cup partitions' \/ BeingBooked(x)') /\ ~BeingStruckOff(x)'
    <3>1. x \in down \ overtaken
      BY <1>8, <2>2 DEF BookRestart
    <3>2. x # Target(s)
      BY <2>1, <3>1 DEF FailureInv, OutagesAreBooked, BeingStruckOff
    <3>3. x \in killed \cup partitions => x \in killed' \cup partitions'
      BY <1>8, <3>2 DEF BookRestart
    <3>4. BeingBooked(x) => BeingBooked(x)'
      BY <2>1, <3>2, OthersStay
    <3>5. BeingStruckOff(x)' => BeingStruckOff(x)
      BY <2>1, OthersStay
    <3> QED BY <3>1, <3>3, <3>4, <3>5 DEF FailureInv, OutagesAreBooked
  <2>3. CleanupIsLast'
    BY <1>8, <2>1, ScenarioBeforeCleanup DEF BookRestart, FailureInv, CleanupIsLast
  <2> QED BY <2>1, <2>2, <2>3 DEF FailureInv, OutagesAreBooked, MovesOnly
<1> QED BY <1>1, <1>2, <1>3, <1>4, <1>5, <1>6, <1>7, <1>8

-----------------------------------------------------------------------------
\* While the tasks stay where they are, so does what they are about to do.
LEMMA TasksStay ==
  ASSUME UNCHANGED task, NEW x
  PROVE  BeingBooked(x)' = BeingBooked(x) /\ BeingStruckOff(x)' = BeingStruckOff(x)
BY DEF BeingBooked, BeingStruckOff, Target

\* A step of the cleanup.
LEMMA CleanupStep ==
  ASSUME FailureInv,
         \/ StartCleanup \/ CleanContainers \/ FinishCleanup
         \/ \E l \in Links : CleanLink(l)
         \/ \E c \in Containers : CleanContainer(c)
  PROVE  FailureInv'
<1> USE DEF books
<1>1. UNCHANGED task
  BY DEF StartCleanup, CleanContainers, FinishCleanup, CleanLink, CleanContainer
<1>2. TaskType'
  BY <1>1 DEF FailureInv, TaskType
<1>3. ASSUME NEW x \in down' \ overtaken'
      PROVE  x \in down \ overtaken /\ (x \in killed \cup partitions => x \in killed' \cup partitions')
  BY <1>3 DEF StartCleanup, CleanContainers, FinishCleanup, CleanLink, CleanContainer
<1>4. OutagesAreBooked'
  BY <1>1, <1>3, TasksStay DEF FailureInv, OutagesAreBooked
<1>5. CleanupIsLast'
  BY <1>1 DEF FailureInv, CleanupIsLast,
     StartCleanup, CleanContainers, FinishCleanup, CleanLink, CleanContainer
<1> QED BY <1>2, <1>4, <1>5 DEF FailureInv

\* Every step keeps the invariant.
LEMMA FailureStep ==
  ASSUME FailureInv, [FailureNext]_failureVars
  PROVE  FailureInv'
<1>1. CASE FailureNext
  BY <1>1, ScenarioStep, CleanupStep DEF FailureNext
<1>2. CASE UNCHANGED failureVars
  BY <1>2, TasksStay DEF failureVars, books, FailureInv, TaskType, OutagesAreBooked, CleanupIsLast
<1> QED BY <1>1, <1>2

\* After the cleanup everything runs again, but for what Docker refused to
\* restore and what was killed again before its restart was booked, for any
\* scenarios over any containers and links.  (restart_worker, cleanup)
THEOREM CleanupRestoresHolds == FailureSpec => []CleanupRestores
<1>1. FailureInit => FailureInv
  BY DEF FailureInit, FailureInv, TaskType, Places, OutagesAreBooked, CleanupIsLast
<1>2. FailureInv /\ [FailureNext]_failureVars => FailureInv'
  BY FailureStep
<1>3. FailureInv => CleanupRestores
  BY DEF FailureInv, OutagesAreBooked, CleanupIsLast, CleanupRestores, BeingBooked
<1> QED BY <1>1, <1>2, <1>3, PTL DEF FailureSpec

-----------------------------------------------------------------------------
(***************************************************************************)
(* That each adaptation time is measured from the failure of its own       *)
(* outage, for any scenarios.                                              *)
(*                                                                         *)
(* The tracker pairs a recovery with the earliest open failure of its key; *)
(* that is the right one if a key never fails twice without a recovery in  *)
(* between.  The rest of the invariant shows why it does not.  A scenario  *)
(* holds what it has broken and not restored.  What is held is down and    *)
(* on the books, and nobody else holds it; a failure that is open is of a  *)
(* target that is down, so that nobody can break it again; and a target    *)
(* that is held is open under the type of its holder alone.  For the sets  *)
(* of kill_partial_inputs: while one is open, some scenario holds the      *)
(* whole of it, or a container of it is down for good.                     *)
(***************************************************************************)

\* Some numbers have a least one.
LEMMA LeastPlace ==
  ASSUME NEW P, P \subseteq Nat, P # {}
  PROVE  \E i \in P : \A j \in P : i <= j
<1>1. \E i \in P : \A j \in P : <<j, i>> \notin OpToRel(<, Nat)
  BY NatLessThanWellFounded, WFMin
<1>2. PICK i \in P : \A j \in P : ~(j < i)
  BY <1>1 DEF OpToRel
<1> QED BY <1>2

\* An induction is an argument about the first number that fails.
LEMMA UpTo ==
  ASSUME NEW n \in Nat, NEW S, 0 \in S, \A i \in 1..n : i - 1 \in S => i \in S
  PROVE  \A i \in 0..n : i \in S
<1> DEFINE Bad == (0..n) \ S
<1> SUFFICES ASSUME Bad # {}
             PROVE  FALSE
  OBVIOUS
<1>1. Bad \subseteq Nat
  OBVIOUS
<1> HIDE DEF Bad
<1>2. PICK k \in Bad : \A m \in Bad : k <= m
  BY <1>1, LeastPlace
<1>3. k \in 1..n /\ k - 1 \in 0..n /\ ~(k <= k - 1)
  BY DEF Bad
<1>4. k - 1 \in S
  BY <1>2, <1>3 DEF Bad
<1> QED BY <1>3, <1>4 DEF Bad

-----------------------------------------------------------------------------
\* What the injector records: types with a target, and the one with a set.
Singles == {"worker_kill", "broker_kill", "network_partition"}
Events == [kind : {"failure", "recovery"},
           key : (Singles \cup {"partial_input"}) \X (Containers \cup Links \cup SUBSET Containers)]

Fails(l, j, key) == l[j].kind = "failure" /\ l[j].key = key
Recovers(l, j, key) == l[j].kind = "recovery" /\ l[j].key = key

\* A failure of the key that nothing has recovered yet.
IsOpen(l, key) ==
  \E j \in 1..Len(l) : Fails(l, j, key) /\ \A m \in (j + 1)..Len(l) : ~Recovers(l, m, key)

\* Between two failures of a key it has recovered.
Separated(l) ==
  \A k \in 1..Len(l) : \A j \in 1..(k - 1) :
    l[k].kind = "failure" /\ Fails(l, j, l[k].key) =>
      \E m \in (j + 1)..(k - 1) : Recovers(l, m, l[k].key)

\* A sequence with one event more.
LEMMA OneIsAdded ==
  ASSUME NEW l \in Seq(Events), NEW e \in Events
  PROVE  /\ Append(l, e) \in Seq(Events)
         /\ Len(l) \in Nat /\ Len(Append(l, e)) = Len(l) + 1
         /\ \A i \in 1..Len(l) : Append(l, e)[i] = l[i]
         /\ Append(l, e)[Len(l) + 1] = e
OBVIOUS

\* A failure may be added whose key is not open.
LEMMA FailureIsAdded ==
  ASSUME NEW l \in Seq(Events), NEW e \in Events, e.kind = "failure",
         Separated(l), ~IsOpen(l, e.key)
  PROVE  /\ Append(l, e) \in Seq(Events)
         /\ Separated(Append(l, e))
         /\ \A key : IsOpen(Append(l, e), key) => IsOpen(l, key) \/ key = e.key
<1> DEFINE n == Len(l)
           a == Append(l, e)
<1>1. a \in Seq(Events) /\ n \in Nat /\ Len(a) = n + 1 /\ (\A i \in 1..n : a[i] = l[i]) /\ a[n + 1] = e
  BY OneIsAdded
<1> HIDE DEF n, a
<1>2. ASSUME NEW k \in 1..(n + 1), NEW j \in 1..(k - 1),
             a[k].kind = "failure", Fails(a, j, a[k].key)
      PROVE  \E m \in (j + 1)..(k - 1) : Recovers(a, m, a[k].key)
  <2>1. j \in 1..n /\ a[j] = l[j]
    BY <1>1
  <2>2. CASE k = n + 1
    <3>1. PICK m \in (j + 1)..n : Recovers(l, m, e.key)
      BY <1>1, <1>2, <2>1, <2>2 DEF IsOpen, Fails, n
    <3>2. m \in 1..n /\ m \in (j + 1)..(k - 1)
      BY <1>1, <2>1, <2>2, <3>1
    <3> QED BY <1>1, <2>2, <3>1, <3>2 DEF Recovers
  <2>3. CASE k # n + 1
    <3>1. k \in 1..n /\ a[k] = l[k]
      BY <1>1, <2>3
    <3>2. PICK m \in (j + 1)..(k - 1) : Recovers(l, m, l[k].key)
      BY <1>2, <2>1, <3>1 DEF Separated, Fails, n
    <3>3. m \in 1..n
      BY <1>1, <2>1, <3>1, <3>2
    <3> QED BY <1>1, <3>1, <3>2, <3>3 DEF Recovers
  <2> QED BY <2>2, <2>3
<1>3. ASSUME NEW key, IsOpen(a, key), key # e.key
      PROVE  IsOpen(l, key)
  <2>1. PICK j \in 1..(n + 1) : Fails(a, j, key) /\ \A m \in (j + 1)..(n + 1) : ~Recovers(a, m, key)
    BY <1>1, <1>3 DEF IsOpen
  <2>2. j \in 1..n /\ Fails(l, j, key)
    BY <1>1, <1>3, <2>1 DEF Fails
  <2>3. ASSUME NEW m \in (j + 1)..n
        PROVE  ~Recovers(l, m, key)
    <3>1. m \in 1..n /\ m \in (j + 1)..(n + 1)
      BY <1>1, <2>2
    <3> QED BY <1>1, <2>1, <3>1 DEF Recovers
  <2> QED BY <2>2, <2>3 DEF IsOpen, n
<1>4. Separated(a)
  BY <1>1, <1>2 DEF Separated
<1> QED BY <1>1, <1>3, <1>4 DEF a

\* A recovery may always be added, and closes its key.
LEMMA RecoveryIsAdded ==
  ASSUME NEW l \in Seq(Events), NEW e \in Events, e.kind = "recovery", Separated(l)
  PROVE  /\ Append(l, e) \in Seq(Events)
         /\ Separated(Append(l, e))
         /\ \A key : IsOpen(Append(l, e), key) => IsOpen(l, key) /\ key # e.key
<1> DEFINE n == Len(l)
           a == Append(l, e)
<1>1. a \in Seq(Events) /\ n \in Nat /\ Len(a) = n + 1 /\ (\A i \in 1..n : a[i] = l[i]) /\ a[n + 1] = e
  BY OneIsAdded
<1> HIDE DEF n, a
<1>2. ASSUME NEW k \in 1..(n + 1), NEW j \in 1..(k - 1),
             a[k].kind = "failure", Fails(a, j, a[k].key)
      PROVE  \E m \in (j + 1)..(k - 1) : Recovers(a, m, a[k].key)
  <2>1. j \in 1..n /\ k \in 1..n /\ a[j] = l[j] /\ a[k] = l[k]
    BY <1>1, <1>2
  <2>2. PICK m \in (j + 1)..(k - 1) : Recovers(l, m, l[k].key)
    BY <1>2, <2>1 DEF Separated, Fails, n
  <2>3. m \in 1..n
    BY <1>1, <2>1, <2>2
  <2> QED BY <1>1, <2>1, <2>2, <2>3 DEF Recovers
<1>3. ASSUME NEW key, IsOpen(a, key)
      PROVE  IsOpen(l, key) /\ key # e.key
  <2>1. PICK j \in 1..(n + 1) : Fails(a, j, key) /\ \A m \in (j + 1)..(n + 1) : ~Recovers(a, m, key)
    BY <1>1, <1>3 DEF IsOpen
  <2>2. j \in 1..n /\ Fails(l, j, key)
    BY <1>1, <2>1 DEF Fails
  <2>3. ASSUME NEW m \in (j + 1)..n
        PROVE  ~Recovers(l, m, key)
    <3>1. m \in 1..n /\ m \in (j + 1)..(n + 1)
      BY <1>1, <2>2
    <3> QED BY <1>1, <2>1, <3>1 DEF Recovers
  <2>4. n + 1 \in (j + 1)..(n + 1)
    BY <1>1, <2>2
  <2>5. key # e.key
    BY <1>1, <2>1, <2>4 DEF Recovers
  <2> QED BY <2>2, <2>3, <2>5 DEF IsOpen, n
<1>4. Separated(a)
  BY <1>1, <1>2 DEF Separated
<1> QED BY <1>1, <1>3, <1>4 DEF a

-----------------------------------------------------------------------------
\* What OpenAfter counts: the places of the events that are open by then.
Counted(l, open) ==
  \A i \in 0..Len(l) :
    open[i] = IF i = 0 THEN {}
              ELSE IF l[i].kind # "recovery" THEN open[i - 1] \cup {i}
              ELSE open[i - 1] \ FirstOpen(l, open[i - 1], l[i].key)

\* The recursive function exists, by induction on its domain.
LEMMA OpenAfterCounts ==
  ASSUME NEW l \in Seq(Events)
  PROVE  Counted(l, OpenAfter(l))
<1> DEFINE n == Len(l)
           Is(f, k) == f = [i \in 0..k |-> IF i = 0 THEN {}
              ELSE IF l[i].kind # "recovery" THEN f[i - 1] \cup {i}
              ELSE f[i - 1] \ FirstOpen(l, f[i - 1], l[i].key)]
           S == {k \in 0..n : \E f : Is(f, k)}
<1>0. n \in Nat
  OBVIOUS
<1>1. 0 \in S
  <2> DEFINE f == [i \in 0..0 |-> {}]
  <2>1. Is(f, 0)
    OBVIOUS
  <2> HIDE DEF f
  <2> QED BY <2>1, <1>0
<1>2. ASSUME NEW k \in 1..n, k - 1 \in S
      PROVE  k \in S
  <2>1. PICK f : Is(f, k - 1)
    BY <1>2
  <2> DEFINE latest == IF l[k].kind # "recovery" THEN f[k - 1] \cup {k}
                      ELSE f[k - 1] \ FirstOpen(l, f[k - 1], l[k].key)
             g == [i \in 0..k |-> IF i = k THEN latest ELSE f[i]]
  <2>2. g[k] = latest /\ \A i \in 0..(k - 1) : g[i] = f[i]
    OBVIOUS
  <2>3. DOMAIN g = 0..k /\ g = [i \in DOMAIN g |-> g[i]]
    OBVIOUS
  <2> HIDE DEF g
  <2>4. ASSUME NEW i \in 0..k
        PROVE  g[i] = IF i = 0 THEN {}
                      ELSE IF l[i].kind # "recovery" THEN g[i - 1] \cup {i}
                      ELSE g[i - 1] \ FirstOpen(l, g[i - 1], l[i].key)
    <3>1. CASE i = k
      <4>1. i # 0 /\ g[i - 1] = f[k - 1]
        BY <2>2, <3>1
      <4> QED BY <2>2, <3>1, <4>1
    <3>2. CASE i # k
      <4>1. i \in 0..(k - 1) /\ (i # 0 => i - 1 \in 0..(k - 1))
        BY <3>2
      <4>2. f[i] = IF i = 0 THEN {}
                   ELSE IF l[i].kind # "recovery" THEN f[i - 1] \cup {i}
                   ELSE f[i - 1] \ FirstOpen(l, f[i - 1], l[i].key)
        BY <2>1, <4>1
      <4> QED BY <2>2, <4>1, <4>2
    <3> QED BY <3>1, <3>2
  <2>5. Is(g, k)
    BY <2>3, <2>4
  <2> QED BY <1>0, <2>5
<1> HIDE DEF S
<1> HIDE DEF n
<1>3. \A k \in 0..n : k \in S
  BY <1>0, <1>1, <1>2, UpTo
<1>4. Is(OpenAfter(l), n)
  <2>1. n \in S
    BY <1>0, <1>3
  <2> QED BY <2>1 DEF S, OpenAfter, n
<1> QED BY <1>4 DEF Counted, n

\* What is open is a failure its key has neither recovered nor repeated since.
StillOpen(l, open, i) ==
  \A j \in open[i] :
    /\ j \in 1..i
    /\ l[j].kind = "failure"
    /\ \A m \in (j + 1)..i : l[m].key # l[j].key

\* When the failures of a key are separated, what is open is the last of them.
LEMMA OpenIsTheLast ==
  ASSUME NEW l \in Seq(Events), Separated(l), NEW open, Counted(l, open)
  PROVE  \A i \in 0..Len(l) : StillOpen(l, open, i)
<1> DEFINE n == Len(l)
           S == {i \in 0..n : StillOpen(l, open, i)}
<1>0. n \in Nat
  OBVIOUS
<1>4. \A i \in 0..n :
        open[i] = IF i = 0 THEN {}
                  ELSE IF l[i].kind # "recovery" THEN open[i - 1] \cup {i}
                  ELSE open[i - 1] \ FirstOpen(l, open[i - 1], l[i].key)
  BY DEF Counted
<1> HIDE DEF n
<1>1. 0 \in S
  <2>1. 0 \in 0..n /\ open[0] = {}
    <3>1. 0 \in 0..n
      BY <1>0
    <3>2. \A i \in 0..n : i = 0 => open[i] = {}
      BY <1>4
    <3> QED BY <3>1, <3>2
  <2> QED BY <2>1 DEF StillOpen
<1>2. ASSUME NEW i \in 1..n, i - 1 \in S
      PROVE  i \in S
  <2>1. /\ i \in 0..n
        /\ open[i] = IF l[i].kind # "recovery" THEN open[i - 1] \cup {i}
                     ELSE open[i - 1] \ FirstOpen(l, open[i - 1], l[i].key)
    <3>1. i \in 0..n /\ i # 0
      BY <1>0
    <3> QED BY <1>4, <3>1
  <2>0. l[i].kind = "failure" \/ l[i].kind = "recovery"
    <3>1. l[i] \in Events
      BY DEF n
    <3> QED BY <3>1 DEF Events
  <2>2. ASSUME NEW j \in open[i - 1]
        PROVE  /\ j \in 1..(i - 1) /\ l[j].kind = "failure"
               /\ \A m \in (j + 1)..(i - 1) : l[m].key # l[j].key
    BY <1>2 DEF StillOpen
  <2>3. ASSUME NEW j \in open[i - 1], j \in open[i]
        PROVE  l[i].key # l[j].key
    <3> SUFFICES ASSUME l[i].key = l[j].key
                 PROVE  FALSE
      OBVIOUS
    <3>1. CASE l[i].kind = "failure"
      <4>1. PICK m \in (j + 1)..(i - 1) : Recovers(l, m, l[i].key)
        BY <2>2, <3>1 DEF Separated, Fails, n
      <4> QED BY <2>2, <4>1 DEF Recovers
    <3>2. CASE l[i].kind # "failure"
      <4>1. ASSUME NEW k \in open[i - 1], l[k].key = l[i].key
            PROVE  k = j
        <5>1. k \in 1..(i - 1) /\ j \in 1..(i - 1)
          BY <2>2
        <5>2. k \notin (j + 1)..(i - 1) /\ j \notin (k + 1)..(i - 1)
          BY <2>2, <4>1
        <5> QED BY <5>1, <5>2
      <4>2. j \in 1..(i - 1)
        BY <2>2
      <4>3. j \in FirstOpen(l, open[i - 1], l[i].key)
        BY <4>1, <4>2 DEF FirstOpen
      <4> QED BY <2>0, <2>1, <2>3, <3>2, <4>3
    <3> QED BY <3>1, <3>2
  <2>4. ASSUME NEW j \in open[i], j \in open[i - 1]
        PROVE  /\ j \in 1..i /\ l[j].kind = "failure"
               /\ \A m \in (j + 1)..i : l[m].key # l[j].key
    <3>1. j \in 1..(i - 1)
      BY <2>2, <2>4
    <3>2. \A m \in (j + 1)..i : m \in (j + 1)..(i - 1) \/ m = i
      BY <3>1
    <3> QED BY <2>2, <2>3, <2>4, <3>1, <3>2
  <2>5. ASSUME NEW j \in open[i], j \notin open[i - 1]
        PROVE  /\ j \in 1..i /\ l[j].kind = "failure"
               /\ \A m \in (j + 1)..i : l[m].key # l[j].key
    BY <2>0, <2>1, <2>5
  <2>6. StillOpen(l, open, i)
    BY <2>4, <2>5 DEF StillOpen
  <2> QED BY <2>1, <2>6
<1> HIDE DEF S
<1>3. \A i \in 0..n : i \in S
  BY <1>0, <1>1, <1>2, UpTo
<1> QED BY <1>3 DEF S, n

\* Then the earliest open failure a recovery closes is that of its outage.
LEMMA SeparatedIsMeasured ==
  ASSUME NEW l \in Seq(Events), Separated(l), NEW o \in AdaptationOutages(l)
  PROVE  /\ l[o.from] = [kind |-> "failure", key |-> o.key]
         /\ \A i \in (o.from + 1)..(o.to - 1) : l[i].key # o.key
<1> DEFINE open == OpenAfter(l)
<1>1. Counted(l, open)
  BY OpenAfterCounts
<1>2. PICK i \in 1..Len(l) : \E j \in FirstOpen(l, open[i - 1], l[i].key) :
        o = [key |-> l[i].key, from |-> j, to |-> i]
  BY DEF AdaptationOutages
<1>9. PICK j \in FirstOpen(l, open[i - 1], l[i].key) : o = [key |-> l[i].key, from |-> j, to |-> i]
  BY <1>2
<1> HIDE DEF open
<1>3. j \in open[i - 1] /\ l[j].key = l[i].key
  BY DEF FirstOpen
<1>4. i - 1 \in 0..Len(l)
  OBVIOUS
<1>5. StillOpen(l, open, i - 1)
  BY <1>1, <1>4, OpenIsTheLast
<1>6. j \in 1..(i - 1) /\ l[j].kind = "failure" /\ \A m \in (j + 1)..(i - 1) : l[m].key # l[j].key
  BY <1>3, <1>5 DEF StillOpen
<1>7. l[j] \in Events
  BY <1>6
<1>8. l[j] = [kind |-> "failure", key |-> l[i].key]
  BY <1>3, <1>6, <1>7 DEF Events
<1> QED BY <1>9, <1>3, <1>6, <1>8

-----------------------------------------------------------------------------
\* What a scenario has broken and not restored, as places of its targets.
Holds(s, k) ==
  /\ k \in 1..Len(s.targets)
  /\ \/ task[s].at = "delayed" /\ k < task[s].i
     \/ task[s].at = "injected" /\ k <= task[s].i
     \/ task[s].at = "active"
     \/ task[s].at \in {"restoring", "restarting", "restarted"} /\ task[s].i <= k

\* It has broken the target and not booked it; has restored it and not struck
\* it off.
IsFresh(s, k) == task[s].at = "injected" /\ k = task[s].i
IsBack(s, k) == task[s].at = "restarted" /\ k = task[s].i

\* The whole is on record as failed and not as recovered.
HoldsWhole(s, S) ==
  /\ s.type = "partial_input" /\ ToSet(s.targets) = S
  /\ task[s].at \in {"active", "restoring", "restarting", "restarted"}

\* What is held is down, until it is restored.
HeldIsDown ==
  \A s \in Scenarios : \A k \in Nat : Holds(s, k) => (s.targets[k] \in down <=> ~IsBack(s, k))
\* Nothing is held twice.
HeldOnce ==
  \A r, s \in Scenarios : \A j, k \in Nat :
    Holds(r, j) /\ Holds(s, k) /\ r.targets[j] = s.targets[k] => r = s /\ j = k
\* A container that is held is on the books once its task was resumed.
HeldIsKilled ==
  \A s \in Scenarios : \A k \in Nat :
    Holds(s, k) /\ ~Cuts(s) /\ ~IsFresh(s, k) => s.targets[k] \in killed
\* A target with an open failure is down, or its recovery is about to be recorded.
OpenIsDown ==
  \A type \in Singles : \A x : IsOpen(log, <<type, x>>) =>
    x \in down \/ \E s \in Scenarios : \E k \in Nat : Holds(s, k) /\ IsBack(s, k) /\ s.targets[k] = x
\* What is held is open under no other type than that of its holder.
OpenIsHeld ==
  \A s \in Scenarios : \A k \in Nat : \A type \in Singles :
    Holds(s, k) /\ IsOpen(log, <<type, s.targets[k]>>) => type = RecordedType(s) /\ ~IsFresh(s, k)
\* What is down and held by nobody stays down until the cleanup.
Abandoned(x) == x \in down /\ \A s \in Scenarios : \A k \in Nat : Holds(s, k) => s.targets[k] # x
\* A set that is open is held, or a part of it is down for good.
WholeIsBroken ==
  \A S : IsOpen(log, <<"partial_input", S>>) =>
    (\E x \in S : Abandoned(x)) \/ \E s \in Scenarios : HoldsWhole(s, S)

Tracked == HeldIsDown /\ HeldOnce /\ HeldIsKilled /\ OpenIsDown /\ OpenIsHeld /\ WholeIsBroken

\* No task is past its targets.
AtATarget == \A s \in Scenarios : task[s].i \in 1..Len(s.targets)

TrackerInv ==
  overtaken = {} =>
    /\ AtATarget
    /\ log \in Seq(Events)
    /\ Separated(log)
    /\ cleaning = "no" => Tracked

-----------------------------------------------------------------------------
\* What the assumption on the scenarios gives.
LEMMA ScenarioFacts ==
  ASSUME NEW s \in Scenarios
  PROVE  /\ s.targets \in Seq(Containers \cup Links)
         /\ Len(s.targets) \in Nat /\ 1 \in 1..Len(s.targets)
         /\ DOMAIN s.targets = 1..Len(s.targets)
         /\ RecordedType(s) \in Singles
         /\ s.type = "partial_input" => ToSet(s.targets) \in SUBSET Containers
         /\ s.type = "partial_input" <=> RecordedType(s) # s.type
<1>1. /\ s.type \in {"worker_kill", "broker_kill", "network_partition", "partial_input"}
      /\ s.targets # <<>>
      /\ s.targets \in Seq(IF s.type = "network_partition" THEN Links ELSE Containers)
  BY FailureAssumption
<1>2. s.targets \in Seq(Containers \cup Links)
  <2>1. CASE s.type = "network_partition"
    BY <1>1, <2>1
  <2>2. CASE s.type # "network_partition"
    BY <1>1, <2>2
  <2> QED BY <2>1, <2>2
<1>3. Len(s.targets) \in Nat /\ 1 \in 1..Len(s.targets) /\ DOMAIN s.targets = 1..Len(s.targets)
  BY <1>1, <1>2
<1>4. RecordedType(s) \in Singles /\ (s.type = "partial_input" <=> RecordedType(s) # s.type)
  BY <1>1 DEF RecordedType, Singles
<1>5. s.type = "partial_input" => ToSet(s.targets) \in SUBSET Containers
  <2>1. s.type = "partial_input" => s.targets \in Seq(Containers)
    BY <1>1
  <2> QED BY <2>1 DEF ToSet
<1> QED BY <1>2, <1>3, <1>4, <1>5

\* The events a step of s records.
Single(s, kind) == Event(kind, RecordedType(s), Target(s))
WholeOf(s, kind) == Event(kind, "partial_input", ToSet(s.targets))

\* A step records one event, or two at the end of kill_partial_inputs.
LEMMA RecordedEvents ==
  ASSUME NEW s \in Scenarios, AtATarget, log \in Seq(Events), NEW kind \in {"failure", "recovery"}
  PROVE  /\ Single(s, kind) \in Events
         /\ s.type = "partial_input" => WholeOf(s, kind) \in Events
         /\ ~(s.type = "partial_input" /\ IsLast(s)) =>
              log \o Records(s, kind) = Append(log, Single(s, kind))
         /\ s.type = "partial_input" /\ IsLast(s) =>
              log \o Records(s, kind) = Append(Append(log, Single(s, kind)), WholeOf(s, kind))
<1>1. /\ RecordedType(s) \in Singles
      /\ Target(s) \in Containers \cup Links
      /\ s.type = "partial_input" => ToSet(s.targets) \in SUBSET Containers
  <2>1. task[s].i \in 1..Len(s.targets)
    BY DEF AtATarget
  <2>2. \A i \in 1..Len(s.targets) : s.targets[i] \in Containers \cup Links
    BY ScenarioFacts
  <2> QED BY <2>1, <2>2, ScenarioFacts DEF Target
<1>2. Single(s, kind) \in Events
  BY <1>1 DEF Single, Event, Events
<1>3. s.type = "partial_input" => WholeOf(s, kind) \in Events
  BY <1>1 DEF WholeOf, Event, Events
<1> HIDE DEF Events
<1>4. \A e \in Events : log \o <<e>> = Append(log, e)
  BY AppendProperties, ConcatProperties
<1>5. ASSUME ~(s.type = "partial_input" /\ IsLast(s))
      PROVE  log \o Records(s, kind) = Append(log, Single(s, kind))
  <2>1. Records(s, kind) = <<Single(s, kind)>> \o <<>>
    BY <1>5 DEF Records, Whole, Single
  <2>2. \A d \in Events : <<d>> \o <<>> = <<d>>
    OBVIOUS
  <2> QED BY <1>2, <1>4, <2>1, <2>2
<1>6. ASSUME s.type = "partial_input", IsLast(s)
      PROVE  log \o Records(s, kind) = Append(Append(log, Single(s, kind)), WholeOf(s, kind))
  <2>1. Records(s, kind) = <<Single(s, kind)>> \o <<WholeOf(s, kind)>>
    BY <1>6 DEF Records, Whole, Single, WholeOf
  <2>2. \A d, e \in Events : log \o (<<d>> \o <<e>>) = Append(Append(log, d), e)
    OBVIOUS
  <2> QED BY <1>2, <1>3, <1>6, <2>1, <2>2
<1> QED BY <1>2, <1>3, <1>5, <1>6

\* The keys they have.
LEMMA KeysOfEvents ==
  ASSUME NEW s \in Scenarios, NEW kind
  PROVE  /\ Single(s, kind).kind = kind /\ WholeOf(s, kind).kind = kind
         /\ \A type, x : <<type, x>> = Single(s, kind).key <=> type = RecordedType(s) /\ x = Target(s)
         /\ \A type, x : <<type, x>> = WholeOf(s, kind).key <=> type = "partial_input" /\ x = ToSet(s.targets)
         /\ WholeOf(s, kind).key # Single(s, kind).key
<1>1. RecordedType(s) # "partial_input"
  BY ScenarioFacts DEF Singles
<1> QED BY <1>1 DEF Single, WholeOf, Event

\* The log after a failure, and after a recovery.
LEMMA FailureIsRecorded ==
  ASSUME NEW s \in Scenarios, AtATarget, log \in Seq(Events), Separated(log),
         log' = log \o Records(s, "failure"),
         ~IsOpen(log, <<RecordedType(s), Target(s)>>),
         s.type = "partial_input" /\ IsLast(s) => ~IsOpen(log, <<"partial_input", ToSet(s.targets)>>)
  PROVE  /\ log' \in Seq(Events) /\ Separated(log')
         /\ \A type \in Singles : \A x : IsOpen(log', <<type, x>>) =>
              IsOpen(log, <<type, x>>) \/ (type = RecordedType(s) /\ x = Target(s))
         /\ \A S : IsOpen(log', <<"partial_input", S>>) =>
              \/ IsOpen(log, <<"partial_input", S>>)
              \/ s.type = "partial_input" /\ IsLast(s) /\ S = ToSet(s.targets)
<1> DEFINE d == Single(s, "failure")
           e == WholeOf(s, "failure")
           one == Append(log, d)
           both == Append(one, e)
<1>1. /\ d \in Events /\ d.kind = "failure"
      /\ \A type, x : <<type, x>> = d.key <=> type = RecordedType(s) /\ x = Target(s)
      /\ \A type, x : <<type, x>> = e.key <=> type = "partial_input" /\ x = ToSet(s.targets)
      /\ e.key # d.key /\ e.kind = "failure"
  BY RecordedEvents, KeysOfEvents
<1>2. RecordedType(s) \in Singles /\ RecordedType(s) # "partial_input" /\ "partial_input" \notin Singles
  BY ScenarioFacts DEF Singles
<1>3. d.key = <<RecordedType(s), Target(s)>>
  BY <1>1
<1>4. /\ one \in Seq(Events) /\ Separated(one)
      /\ \A key : IsOpen(one, key) => IsOpen(log, key) \/ key = d.key
  BY <1>1, <1>3, FailureIsAdded
<1>5. CASE ~(s.type = "partial_input" /\ IsLast(s))
  <2>1. log' = one
    BY <1>5, RecordedEvents
  <2> HIDE DEF one, d
  <2> QED BY <1>1, <1>2, <1>4, <2>1
<1>6. CASE s.type = "partial_input" /\ IsLast(s)
  <2>1. log' = both /\ e \in Events
    BY <1>6, RecordedEvents
  <2>2. e.key = <<"partial_input", ToSet(s.targets)>>
    BY <1>1
  <2> HIDE DEF one, d, e
  <2>3. ~IsOpen(one, e.key)
    BY <1>1, <1>4, <1>6, <2>2
  <2>4. /\ both \in Seq(Events) /\ Separated(both)
        /\ \A key : IsOpen(both, key) => IsOpen(one, key) \/ key = e.key
    BY <1>1, <1>4, <2>1, <2>3, FailureIsAdded
  <2> HIDE DEF both
  <2>5. ASSUME NEW type \in Singles, NEW x, IsOpen(log', <<type, x>>)
        PROVE  IsOpen(log, <<type, x>>) \/ (type = RecordedType(s) /\ x = Target(s))
    BY <1>1, <1>2, <1>4, <2>1, <2>4, <2>5
  <2>6. ASSUME NEW S, IsOpen(log', <<"partial_input", S>>), S # ToSet(s.targets)
        PROVE  IsOpen(log, <<"partial_input", S>>)
    <3>1. <<"partial_input", S>> # e.key /\ <<"partial_input", S>> # d.key
      BY <1>2, <1>3, <2>2, <2>6
    <3> QED BY <1>4, <2>1, <2>4, <2>6, <3>1
  <2> QED BY <1>6, <2>1, <2>4, <2>5, <2>6
<1> QED BY <1>5, <1>6

LEMMA RecoveryIsRecorded ==
  ASSUME NEW s \in Scenarios, AtATarget, log \in Seq(Events), Separated(log),
         log' = log \o Records(s, "recovery")
  PROVE  /\ log' \in Seq(Events) /\ Separated(log')
         /\ \A key : IsOpen(log', key) => IsOpen(log, key)
         /\ ~IsOpen(log', <<RecordedType(s), Target(s)>>)
         /\ s.type = "partial_input" /\ IsLast(s) => ~IsOpen(log', <<"partial_input", ToSet(s.targets)>>)
<1> DEFINE d == Single(s, "recovery")
           e == WholeOf(s, "recovery")
           one == Append(log, d)
           both == Append(one, e)
<1>1. /\ d \in Events /\ d.kind = "recovery"
      /\ \A type, x : <<type, x>> = d.key <=> type = RecordedType(s) /\ x = Target(s)
      /\ \A type, x : <<type, x>> = e.key <=> type = "partial_input" /\ x = ToSet(s.targets)
      /\ e.kind = "recovery"
  BY RecordedEvents, KeysOfEvents
<1>2. d.key = <<RecordedType(s), Target(s)>> /\ e.key = <<"partial_input", ToSet(s.targets)>>
  BY <1>1
<1>3. /\ one \in Seq(Events) /\ Separated(one)
      /\ \A key : IsOpen(one, key) => IsOpen(log, key) /\ key # d.key
  BY <1>1, RecoveryIsAdded
<1>4. CASE ~(s.type = "partial_input" /\ IsLast(s))
  <2>1. log' = one
    BY <1>4, RecordedEvents
  <2> HIDE DEF one, d
  <2> QED BY <1>2, <1>3, <1>4, <2>1
<1>5. CASE s.type = "partial_input" /\ IsLast(s)
  <2>1. log' = both /\ e \in Events
    BY <1>5, RecordedEvents
  <2> HIDE DEF one, d, e
  <2>2. /\ both \in Seq(Events) /\ Separated(both)
        /\ \A key : IsOpen(both, key) => IsOpen(one, key) /\ key # e.key
    BY <1>1, <1>3, <2>1, RecoveryIsAdded
  <2> HIDE DEF both
  <2> QED BY <1>2, <1>3, <1>5, <2>1, <2>2
<1> QED BY <1>4, <1>5

-----------------------------------------------------------------------------
\* Nothing changes for the others.
OthersHold(s) ==
  \A r \in Scenarios \ {s} :
    /\ \A k \in Nat : (Holds(r, k)' <=> Holds(r, k)) /\ (IsBack(r, k)' <=> IsBack(r, k))
                      /\ (IsFresh(r, k)' <=> IsFresh(r, k))
    /\ \A S : HoldsWhole(r, S)' <=> HoldsWhole(r, S)

\* When only s moves, the others hold what they held.
LEMMA OthersHoldOn ==
  ASSUME NEW s \in Scenarios, MovesOnly(s)
  PROVE  OthersHold(s)
BY DEF MovesOnly, OthersHold, Holds, IsBack, IsFresh, HoldsWhole

\* Where the target a task is at stands.
LEMMA AtTarget ==
  ASSUME NEW s \in Scenarios, AtATarget
  PROVE  /\ task[s].i \in Nat /\ task[s].i \in 1..Len(s.targets) /\ Len(s.targets) \in Nat
         /\ Target(s) = s.targets[task[s].i]
         /\ IsLast(s) <=> task[s].i = Len(s.targets)
<1>1. task[s].i \in 1..Len(s.targets) /\ Len(s.targets) \in Nat
  BY ScenarioFacts DEF AtATarget
<1> QED BY <1>1 DEF Target, IsLast

\* A task that is resumed breaks and restores nothing, or lets go of all it
\* holds: what it held stays broken.
LEMMA QuietStep ==
  ASSUME Tracked, NEW s \in Scenarios, OthersHold(s), UNCHANGED <<down, killed, log>>,
         \A k \in Nat : /\ Holds(s, k)' => Holds(s, k)
                        /\ ~IsBack(s, k) /\ ~IsBack(s, k)' /\ ~IsFresh(s, k) /\ ~IsFresh(s, k)',
         \A S : HoldsWhole(s, S) =>
                  HoldsWhole(s, S)' \/ \E k \in Nat : Holds(s, k) /\ \A j \in Nat : ~Holds(s, j)'
  PROVE  Tracked'
<1>0. /\ HeldIsDown /\ HeldOnce /\ HeldIsKilled /\ OpenIsDown /\ OpenIsHeld /\ WholeIsBroken
      /\ down' = down /\ killed' = killed /\ log' = log
  BY DEF Tracked
<1>1. \A r \in Scenarios : \A k \in Nat :
        /\ Holds(r, k)' => Holds(r, k)
        /\ IsBack(r, k)' <=> IsBack(r, k)
        /\ IsFresh(r, k)' <=> IsFresh(r, k)
  BY DEF OthersHold
<1>2. HeldIsDown'
  BY <1>0, <1>1 DEF HeldIsDown
<1>3. HeldOnce'
  BY <1>0, <1>1 DEF HeldOnce
<1>4. HeldIsKilled'
  BY <1>0, <1>1 DEF HeldIsKilled, Cuts
<1>5. OpenIsDown'
  <2> SUFFICES ASSUME NEW type \in Singles, NEW x, IsOpen(log', <<type, x>>), x \notin down
               PROVE  \E r \in Scenarios : \E k \in Nat :
                        Holds(r, k)' /\ IsBack(r, k)' /\ r.targets[k] = x
    BY <1>0 DEF OpenIsDown
  <2>1. PICK r \in Scenarios : \E k \in Nat : Holds(r, k) /\ IsBack(r, k) /\ r.targets[k] = x
    BY <1>0 DEF OpenIsDown
  <2>2. r \in Scenarios \ {s}
    BY <2>1
  <2> QED BY <2>1, <2>2 DEF OthersHold
<1>6. OpenIsHeld'
  BY <1>0, <1>1 DEF OpenIsHeld, RecordedType
<1>7. WholeIsBroken'
  <2> SUFFICES ASSUME NEW S, IsOpen(log', <<"partial_input", S>>)
               PROVE  (\E x \in S : Abandoned(x)') \/ \E r \in Scenarios : HoldsWhole(r, S)'
    BY DEF WholeIsBroken
  <2>1. CASE \E x \in S : Abandoned(x)
    BY <1>0, <1>1, <2>1 DEF Abandoned
  <2>2. CASE \E r \in Scenarios \ {s} : HoldsWhole(r, S)
    BY <2>2 DEF OthersHold
  <2>3. CASE HoldsWhole(s, S) /\ ~HoldsWhole(s, S)'
    <3>1. PICK k \in Nat : Holds(s, k) /\ \A j \in Nat : ~Holds(s, j)'
      BY <2>3
    <3>2. s.targets[k] \in down'
      BY <1>0, <3>1 DEF HeldIsDown
    <3>3. \A r \in Scenarios : \A j \in Nat : Holds(r, j)' => r.targets[j] # s.targets[k]
      BY <1>0, <1>1, <3>1 DEF HeldOnce
    <3>4. s.targets[k] \in S
      BY <2>3, <3>1, ScenarioFacts DEF HoldsWhole, Holds, ToSet
    <3> QED BY <3>2, <3>3, <3>4 DEF Abandoned
  <2> QED BY <1>0, <2>1, <2>2, <2>3 DEF WholeIsBroken
<1> QED BY <1>2, <1>3, <1>4, <1>5, <1>6, <1>7 DEF Tracked

\* A target is broken that nobody holds.
LEMMA InjectTracks ==
  ASSUME Tracked, TaskType, AtATarget, NEW s \in Scenarios, Inject(s), overtaken' = {}
  PROVE  Tracked' /\ AtATarget'
<1> DEFINE x == Target(s)
           i == task[s].i
<1>0. /\ HeldIsDown /\ HeldOnce /\ HeldIsKilled /\ OpenIsDown /\ OpenIsHeld /\ WholeIsBroken
      /\ down' = down \cup {x} /\ killed' = killed /\ log' = log /\ x \notin down
  BY DEF Tracked, Inject, books
<1>1. MovesOnly(s) /\ Target(s)' = Target(s) /\ task'[s].at = "injected" /\ task[s].at = "delayed"
      /\ task'[s].i = task[s].i
  <2>1. task' = [task EXCEPT ![s].at = "injected"] /\ task[s].at = "delayed"
    BY DEF Inject
  <2>2. task'[s].i = task[s].i
    BY <2>1 DEF TaskType
  <2> QED BY <2>1, <2>2, StayMoves DEF Places
<1>2. OthersHold(s) /\ i \in Nat /\ i \in 1..Len(s.targets) /\ Len(s.targets) \in Nat /\ x = s.targets[i]
  BY <1>1, OthersHoldOn, AtTarget
<1>3. ~\E r \in Scenarios : task[r].at = "restarted" /\ Target(r) = x
  BY DEF Inject
<1>4. \A k \in Nat :
        /\ Holds(s, k)' <=> Holds(s, k) \/ k = i
        /\ IsFresh(s, k)' <=> k = i
        /\ ~IsBack(s, k) /\ ~IsBack(s, k)' /\ ~IsFresh(s, k)
  BY <1>1, <1>2 DEF Holds, IsFresh, IsBack
<1>5. \A S : ~HoldsWhole(s, S)
  BY <1>1 DEF HoldsWhole
<1> HIDE DEF x, i
<1>6. ~\E r \in Scenarios : \E k \in Nat : Holds(r, k) /\ IsBack(r, k) /\ r.targets[k] = x
  BY <1>3 DEF IsBack, Target
<1>7. \A r \in Scenarios : \A k \in Nat : Holds(r, k) => r.targets[k] # x
  BY <1>0, <1>6 DEF HeldIsDown
<1>8. \A r \in Scenarios : \A k \in Nat :
        /\ Holds(r, k)' => Holds(r, k) \/ (r = s /\ k = i)
        /\ IsFresh(r, k)' <=> IsFresh(r, k) \/ (r = s /\ k = i)
        /\ IsBack(r, k)' <=> IsBack(r, k)
  BY <1>4, <1>2 DEF OthersHold
<1>9. HeldIsDown'
  BY <1>0, <1>2, <1>4, <1>7, <1>8 DEF HeldIsDown
<1>10. HeldOnce'
  BY <1>0, <1>2, <1>7, <1>8 DEF HeldOnce
<1>11. HeldIsKilled'
  BY <1>0, <1>8 DEF HeldIsKilled, Cuts
<1>12. \A type \in Singles : ~IsOpen(log, <<type, x>>)
  BY <1>0, <1>6 DEF OpenIsDown
<1>13. OpenIsDown'
  <2> SUFFICES ASSUME NEW type \in Singles, NEW y, IsOpen(log', <<type, y>>), y \notin down'
               PROVE  \E r \in Scenarios : \E k \in Nat :
                        Holds(r, k)' /\ IsBack(r, k)' /\ r.targets[k] = y
    BY DEF OpenIsDown
  <2>1. PICK r \in Scenarios : \E k \in Nat : Holds(r, k) /\ IsBack(r, k) /\ r.targets[k] = y
    BY <1>0 DEF OpenIsDown
  <2>2. r \in Scenarios \ {s}
    BY <1>4, <2>1
  <2> QED BY <1>2, <2>1, <2>2 DEF OthersHold
<1>14. OpenIsHeld'
  BY <1>0, <1>2, <1>8, <1>12 DEF OpenIsHeld, RecordedType
<1>15. WholeIsBroken'
  <2> SUFFICES ASSUME NEW S, IsOpen(log', <<"partial_input", S>>)
               PROVE  (\E y \in S : Abandoned(y)') \/ \E r \in Scenarios : HoldsWhole(r, S)'
    BY DEF WholeIsBroken
  <2>1. CASE \E y \in S : Abandoned(y)
    <3>1. PICK y \in S : Abandoned(y)
      BY <2>1
    <3>2. y # x /\ y \in down'
      BY <1>0, <3>1 DEF Abandoned
    <3> QED BY <1>2, <1>8, <3>1, <3>2 DEF Abandoned
  <2>2. CASE \E r \in Scenarios \ {s} : HoldsWhole(r, S)
    BY <1>2, <2>2 DEF OthersHold
  <2> QED BY <1>0, <1>5, <2>1, <2>2 DEF WholeIsBroken
<1>16. AtATarget'
  BY <1>1 DEF AtATarget, MovesOnly
<1> QED BY <1>9, <1>10, <1>11, <1>13, <1>14, <1>15, <1>16 DEF Tracked

\* A task that waits, raises or goes on to restore.
LEMMA QuietTracks ==
  ASSUME Tracked, TaskType, AtATarget, NEW s \in Scenarios,
         InjectFails(s) \/ Expire(s) \/ CheckRestart(s) \/ RestartFails(s)
  PROVE  Tracked' /\ AtATarget'
<1> DEFINE i == task[s].i
<1>0. /\ down' = down /\ killed' = killed /\ log' = log
  BY DEF InjectFails, Expire, CheckRestart, RestartFails, books
<1>1. i \in Nat /\ i \in 1..Len(s.targets) /\ Len(s.targets) \in Nat /\ 1 \in 1..Len(s.targets)
      /\ Target(s) = s.targets[i]
  BY AtTarget, ScenarioFacts
<1>2. /\ MovesOnly(s)
      /\ \/ task[s].at = "delayed" /\ task'[s].at = "raised" /\ task'[s].i = 1
         \/ task[s].at = "active" /\ task'[s].at = "restoring" /\ task'[s].i = 1
         \/ task[s].at = "restoring" /\ task'[s].at = "restarting" /\ task'[s].i = task[s].i
         \/ task[s].at = "restoring" /\ task'[s].at = "raised" /\ task'[s].i = 1
         \/ task[s].at = "restarting" /\ task'[s].at = "raised" /\ task'[s].i = 1
  <2>1. CASE InjectFails(s)
    <3>1. task[s].at = "delayed" /\ GoTo(s, "raised")
      BY <2>1 DEF InjectFails, Raise
    <3>2. task'[s].i = 1
      BY <3>1 DEF GoTo, TaskType
    <3> QED BY <3>1, <3>2, GoToMoves DEF Places
  <2>2. CASE Expire(s)
    <3>1. task[s].at = "active" /\ GoTo(s, "restoring")
      BY <2>2 DEF Expire
    <3>2. task'[s].i = 1
      BY <3>1 DEF GoTo, TaskType
    <3> QED BY <3>1, <3>2, GoToMoves DEF Places
  <2>3. CASE CheckRestart(s) /\ GoTo(s, "raised")
    <3>1. task[s].at = "restoring"
      BY <2>3 DEF CheckRestart
    <3>2. task'[s].i = 1
      BY <2>3 DEF GoTo, TaskType
    <3> QED BY <2>3, <3>1, <3>2, GoToMoves DEF Places
  <2>4. CASE CheckRestart(s) /\ task' = [task EXCEPT ![s].at = "restarting"]
    <3>1. task[s].at = "restoring"
      BY <2>4 DEF CheckRestart
    <3>2. task'[s].i = task[s].i
      BY <2>4 DEF TaskType
    <3> QED BY <2>4, <3>1, <3>2, StayMoves DEF Places
  <2>5. CASE RestartFails(s)
    <3>1. task[s].at = "restarting" /\ GoTo(s, "raised")
      BY <2>5 DEF RestartFails, Raise
    <3>2. task'[s].i = 1
      BY <3>1 DEF GoTo, TaskType
    <3> QED BY <3>1, <3>2, GoToMoves DEF Places
  <2> QED BY <2>1, <2>2, <2>3, <2>4, <2>5 DEF CheckRestart, Raise
<1>3. OthersHold(s)
  BY <1>2, OthersHoldOn
<1>4. \A k \in Nat : /\ Holds(s, k)' => Holds(s, k)
                     /\ ~IsBack(s, k) /\ ~IsBack(s, k)' /\ ~IsFresh(s, k) /\ ~IsFresh(s, k)'
  BY <1>1, <1>2 DEF Holds, IsBack, IsFresh
<1>5. ASSUME NEW S, HoldsWhole(s, S), ~HoldsWhole(s, S)'
      PROVE  \E k \in Nat : Holds(s, k) /\ \A j \in Nat : ~Holds(s, j)'
  <2>1. task[s].at \in {"restoring", "restarting"} /\ task'[s].at = "raised"
    BY <1>2, <1>5 DEF HoldsWhole
  <2>2. Holds(s, i) /\ \A j \in Nat : ~Holds(s, j)'
    BY <1>1, <2>1 DEF Holds
  <2> QED BY <1>1, <2>2
<1>6. AtATarget'
  BY <1>1, <1>2 DEF AtATarget, MovesOnly
<1>7. Tracked'
  BY <1>0, <1>3, <1>4, <1>5, QuietStep
<1> QED BY <1>6, <1>7

\* The task that broke a target records it: its key was not open.
LEMMA BookInjectionTracks ==
  ASSUME Tracked, TaskType, AtATarget, log \in Seq(Events), Separated(log),
         NEW s \in Scenarios, BookInjection(s)
  PROVE  Tracked' /\ AtATarget' /\ log' \in Seq(Events) /\ Separated(log')
<1> DEFINE x == Target(s)
           i == task[s].i
           complete == s.type = "partial_input" /\ IsLast(s)
<1>0. /\ HeldIsDown /\ HeldOnce /\ HeldIsKilled /\ OpenIsDown /\ OpenIsHeld /\ WholeIsBroken
      /\ down' = down /\ killed \subseteq killed' /\ (~Cuts(s) => x \in killed')
      /\ log' = log \o Records(s, "failure") /\ task[s].at = "injected"
  BY DEF Tracked, BookInjection
<1>1. i \in Nat /\ i \in 1..Len(s.targets) /\ Len(s.targets) \in Nat /\ 1 \in 1..Len(s.targets)
      /\ x = s.targets[i] /\ (IsLast(s) <=> i = Len(s.targets))
  BY AtTarget, ScenarioFacts
<1>2. /\ MovesOnly(s)
      /\ \/ ~IsLast(s) /\ task'[s].at = "delayed" /\ task'[s].i = i + 1
         \/ IsLast(s) /\ task'[s].at = (IF s.ends THEN "active" ELSE "ended") /\ task'[s].i = 1
  <2>1. PICK after \in {"active", "ended"} :
          Advance(s, "delayed", after) /\ after = IF s.ends THEN "active" ELSE "ended"
    BY DEF BookInjection
  <2>2. MovesOnly(s)
    BY <2>1, AdvanceMoves DEF Places
  <2>3. CASE IsLast(s)
    <3>1. GoTo(s, after)
      BY <2>1, <2>3 DEF Advance
    <3>2. task'[s].at = after /\ task'[s].i = 1
      BY <3>1 DEF GoTo, TaskType
    <3> QED BY <2>1, <2>2, <2>3, <3>2
  <2>4. CASE ~IsLast(s)
    <3>1. task' = [task EXCEPT ![s] = [at |-> "delayed", i |-> task[s].i + 1]]
      BY <2>1, <2>4 DEF Advance
    <3>2. task'[s].at = "delayed" /\ task'[s].i = i + 1
      BY <3>1 DEF TaskType
    <3> QED BY <2>2, <2>4, <3>2
  <2> QED BY <2>3, <2>4
<1>3. OthersHold(s)
  BY <1>2, OthersHoldOn
<1>4. \A k \in Nat : /\ Holds(s, k)' => Holds(s, k)
                     /\ IsFresh(s, k) <=> k = i
                     /\ ~IsBack(s, k) /\ ~IsBack(s, k)' /\ ~IsFresh(s, k)'
  BY <1>0, <1>1, <1>2 DEF Holds, IsBack, IsFresh
<1>5. Holds(s, i) /\ \A S : ~HoldsWhole(s, S)
  BY <1>0, <1>1 DEF Holds, HoldsWhole
<1>6. IsLast(s) => \A k \in 1..Len(s.targets) : Holds(s, k)
  BY <1>0, <1>1 DEF Holds
<1>7. AtATarget'
  BY <1>1, <1>2 DEF AtATarget, MovesOnly
<1> HIDE DEF x, i
<1>8. \A r \in Scenarios : \A k \in Nat :
        /\ Holds(r, k)' => Holds(r, k)
        /\ IsBack(r, k)' <=> IsBack(r, k)
        /\ IsFresh(r, k)' => IsFresh(r, k)
        /\ IsFresh(r, k) /\ ~IsFresh(r, k)' => r = s /\ k = i
  BY <1>3, <1>4 DEF OthersHold
<1>9. \A type \in Singles : ~IsOpen(log, <<type, x>>)
  BY <1>0, <1>1, <1>4, <1>5 DEF OpenIsHeld
<1>10. ASSUME complete
       PROVE  ~IsOpen(log, <<"partial_input", ToSet(s.targets)>>)
  <2>1. \A y \in ToSet(s.targets) : \E k \in Nat : Holds(s, k) /\ s.targets[k] = y
    BY <1>1, <1>6, <1>10, ScenarioFacts DEF ToSet
  <2>2. \A y \in ToSet(s.targets) : ~Abandoned(y)
    BY <2>1 DEF Abandoned
  <2>3. ASSUME NEW r \in Scenarios, HoldsWhole(r, ToSet(s.targets))
        PROVE  FALSE
    <3>1. Len(r.targets) \in Nat /\ Len(r.targets) \in 1..Len(r.targets)
          /\ DOMAIN r.targets = 1..Len(r.targets) /\ task[r].i \in 1..Len(r.targets)
      BY ScenarioFacts, AtTarget
    <3>2. Holds(r, Len(r.targets))
      BY <2>3, <3>1 DEF HoldsWhole, Holds
    <3>3. r.targets[Len(r.targets)] \in ToSet(s.targets)
      BY <2>3, <3>1 DEF HoldsWhole, ToSet
    <3>4. r = s
      BY <1>0, <2>1, <3>1, <3>2, <3>3 DEF HeldOnce
    <3> QED BY <1>5, <2>3, <3>4
  <2> QED BY <1>0, <2>2, <2>3 DEF WholeIsBroken
<1>11. /\ log' \in Seq(Events) /\ Separated(log')
       /\ \A type \in Singles : \A y : IsOpen(log', <<type, y>>) =>
            IsOpen(log, <<type, y>>) \/ (type = RecordedType(s) /\ y = x)
       /\ \A S : IsOpen(log', <<"partial_input", S>>) =>
            IsOpen(log, <<"partial_input", S>>) \/ (complete /\ S = ToSet(s.targets))
  <2>1. ~IsOpen(log, <<RecordedType(s), Target(s)>>)
    BY <1>9, ScenarioFacts DEF x
  <2> QED BY <1>0, <1>10, <2>1, FailureIsRecorded DEF x
<1> HIDE DEF complete
<1>12. HeldIsDown'
  BY <1>0, <1>8 DEF HeldIsDown
<1>13. HeldOnce'
  BY <1>0, <1>8 DEF HeldOnce
<1>14. HeldIsKilled'
  <2> SUFFICES ASSUME NEW r \in Scenarios, NEW k \in Nat, Holds(r, k)', ~Cuts(r), ~IsFresh(r, k)'
               PROVE  r.targets[k] \in killed'
    BY DEF HeldIsKilled, Cuts
  <2>1. CASE IsFresh(r, k)
    BY <1>0, <1>1, <1>8, <2>1
  <2>2. CASE ~IsFresh(r, k)
    BY <1>0, <1>8, <2>2 DEF HeldIsKilled
  <2> QED BY <2>1, <2>2
<1>15. OpenIsDown'
  <2> SUFFICES ASSUME NEW type \in Singles, NEW y, IsOpen(log', <<type, y>>), y \notin down'
               PROVE  \E r \in Scenarios : \E k \in Nat :
                        Holds(r, k)' /\ IsBack(r, k)' /\ r.targets[k] = y
    BY DEF OpenIsDown
  <2>1. x \in down
    BY <1>0, <1>1, <1>4, <1>5 DEF HeldIsDown
  <2>2. IsOpen(log, <<type, y>>)
    BY <1>0, <1>11, <2>1
  <2>3. PICK r \in Scenarios : \E k \in Nat : Holds(r, k) /\ IsBack(r, k) /\ r.targets[k] = y
    BY <1>0, <2>2 DEF OpenIsDown
  <2>4. r \in Scenarios \ {s}
    BY <1>4, <2>3
  <2> QED BY <1>3, <2>3, <2>4 DEF OthersHold
<1>16. OpenIsHeld'
  <2> SUFFICES ASSUME NEW r \in Scenarios, NEW k \in Nat, NEW type \in Singles,
                      Holds(r, k)', IsOpen(log', <<type, r.targets[k]>>)
               PROVE  type = RecordedType(r) /\ ~IsFresh(r, k)'
    BY DEF OpenIsHeld, RecordedType
  <2>1. CASE IsOpen(log, <<type, r.targets[k]>>)
    BY <1>0, <1>8, <2>1 DEF OpenIsHeld
  <2>2. CASE type = RecordedType(s) /\ r.targets[k] = x
    <3>1. r = s
      BY <1>0, <1>1, <1>5, <1>8, <2>2 DEF HeldOnce
    <3> QED BY <1>4, <2>2, <3>1
  <2> QED BY <1>11, <2>1, <2>2
<1>17. WholeIsBroken'
  <2> SUFFICES ASSUME NEW S, IsOpen(log', <<"partial_input", S>>)
               PROVE  (\E y \in S : Abandoned(y)') \/ \E r \in Scenarios : HoldsWhole(r, S)'
    BY DEF WholeIsBroken
  <2>1. CASE \E y \in S : Abandoned(y)
    BY <1>0, <1>8, <2>1 DEF Abandoned
  <2>2. CASE \E r \in Scenarios \ {s} : HoldsWhole(r, S)
    BY <1>3, <2>2 DEF OthersHold
  <2>3. CASE complete /\ S = ToSet(s.targets)
    <3>1. CASE s.ends
      <4>1. HoldsWhole(s, S)'
        BY <1>2, <2>3, <3>1 DEF HoldsWhole, complete
      <4> QED BY <4>1
    <3>2. CASE ~s.ends
      <4>1. \A k \in Nat : ~Holds(s, k)'
        BY <1>2, <2>3, <3>2 DEF Holds, complete
      <4>2. x \in S /\ x \in down'
        BY <1>0, <1>1, <1>4, <1>5, <2>3, ScenarioFacts DEF HeldIsDown, ToSet
      <4>3. \A r \in Scenarios : \A k \in Nat : Holds(r, k)' => r.targets[k] # x
        BY <1>0, <1>1, <1>5, <1>8, <4>1 DEF HeldOnce
      <4> QED BY <4>2, <4>3 DEF Abandoned
    <3> QED BY <3>1, <3>2
  <2> QED BY <1>0, <1>5, <1>11, <2>1, <2>2, <2>3 DEF WholeIsBroken
<1> QED BY <1>7, <1>11, <1>12, <1>13, <1>14, <1>15, <1>16, <1>17 DEF Tracked

\* A target is restored, by the task that holds it.
LEMMA RestartTracks ==
  ASSUME Tracked, TaskType, AtATarget, NEW s \in Scenarios, RestartContainer(s)
  PROVE  Tracked' /\ AtATarget'
<1> DEFINE x == Target(s)
           i == task[s].i
<1>0. /\ HeldIsDown /\ HeldOnce /\ HeldIsKilled /\ OpenIsDown /\ OpenIsHeld /\ WholeIsBroken
      /\ down' = down \ {x} /\ killed' = killed /\ log' = log
  BY DEF Tracked, RestartContainer, books
<1>1. /\ MovesOnly(s) /\ task'[s].at = "restarted" /\ task[s].at = "restarting"
      /\ task'[s].i = task[s].i
  <2>1. task' = [task EXCEPT ![s].at = "restarted"] /\ task[s].at = "restarting"
    BY DEF RestartContainer
  <2>2. task'[s].i = task[s].i
    BY <2>1 DEF TaskType
  <2> QED BY <2>1, <2>2, StayMoves DEF Places
<1>2. OthersHold(s) /\ i \in Nat /\ i \in 1..Len(s.targets) /\ Len(s.targets) \in Nat /\ x = s.targets[i]
  BY <1>1, OthersHoldOn, AtTarget
<1>3. \A k \in Nat : /\ Holds(s, k)' <=> Holds(s, k)
                     /\ IsBack(s, k)' <=> k = i
                     /\ ~IsBack(s, k) /\ ~IsFresh(s, k) /\ ~IsFresh(s, k)'
  BY <1>1, <1>2 DEF Holds, IsFresh, IsBack
<1>4. Holds(s, i) /\ \A S : HoldsWhole(s, S) => HoldsWhole(s, S)'
  BY <1>1, <1>2 DEF Holds, HoldsWhole
<1>5. AtATarget'
  BY <1>1 DEF AtATarget, MovesOnly
<1> HIDE DEF x, i
<1>6. \A r \in Scenarios : \A k \in Nat :
        /\ Holds(r, k)' <=> Holds(r, k)
        /\ IsFresh(r, k)' <=> IsFresh(r, k)
        /\ IsBack(r, k)' <=> IsBack(r, k) \/ (r = s /\ k = i)
  BY <1>2, <1>3 DEF OthersHold
<1>7. \A r \in Scenarios : \A k \in Nat : Holds(r, k) /\ r.targets[k] = x => r = s /\ k = i
  BY <1>0, <1>2, <1>4 DEF HeldOnce
<1>8. HeldIsDown'
  <2> SUFFICES ASSUME NEW r \in Scenarios, NEW k \in Nat, Holds(r, k)
               PROVE  r.targets[k] \in down' <=> ~IsBack(r, k)'
    BY <1>6 DEF HeldIsDown
  <2>1. CASE r = s /\ k = i
    BY <1>0, <1>2, <1>3, <2>1
  <2>2. CASE ~(r = s /\ k = i)
    BY <1>0, <1>6, <1>7, <2>2 DEF HeldIsDown
  <2> QED BY <2>1, <2>2
<1>9. HeldOnce'
  BY <1>0, <1>6 DEF HeldOnce
<1>10. HeldIsKilled'
  BY <1>0, <1>6 DEF HeldIsKilled, Cuts
<1>11. OpenIsDown'
  <2> SUFFICES ASSUME NEW type \in Singles, NEW y, IsOpen(log', <<type, y>>), y \notin down'
               PROVE  \E r \in Scenarios : \E k \in Nat :
                        Holds(r, k)' /\ IsBack(r, k)' /\ r.targets[k] = y
    BY DEF OpenIsDown
  <2>1. CASE y \in down
    <3>1. y = x
      BY <1>0, <2>1
    <3> QED BY <1>2, <1>3, <1>4, <3>1
  <2>2. CASE y \notin down
    <3>1. PICK r \in Scenarios : \E k \in Nat : Holds(r, k) /\ IsBack(r, k) /\ r.targets[k] = y
      BY <1>0, <2>2 DEF OpenIsDown
    <3> QED BY <1>6, <3>1
  <2> QED BY <2>1, <2>2
<1>12. OpenIsHeld'
  BY <1>0, <1>6 DEF OpenIsHeld, RecordedType
<1>13. WholeIsBroken'
  <2> SUFFICES ASSUME NEW S, IsOpen(log', <<"partial_input", S>>)
               PROVE  (\E y \in S : Abandoned(y)') \/ \E r \in Scenarios : HoldsWhole(r, S)'
    BY DEF WholeIsBroken
  <2>1. CASE \E y \in S : Abandoned(y)
    <3>1. PICK y \in S : Abandoned(y)
      BY <2>1
    <3>2. y # x
      BY <1>2, <1>4, <3>1 DEF Abandoned
    <3> QED BY <1>0, <1>6, <3>1, <3>2 DEF Abandoned
  <2>2. CASE \E r \in Scenarios : HoldsWhole(r, S)
    BY <1>2, <1>4, <2>2 DEF OthersHold
  <2> QED BY <1>0, <2>1, <2>2 DEF WholeIsBroken
<1> QED BY <1>5, <1>8, <1>9, <1>10, <1>11, <1>12, <1>13 DEF Tracked

\* The entry is still there, so the restart is recorded.
LEMMA BookRestartTracks ==
  ASSUME Tracked, TaskType, AtATarget, log \in Seq(Events), Separated(log),
         NEW s \in Scenarios, BookRestart(s)
  PROVE  Tracked' /\ AtATarget' /\ log' \in Seq(Events) /\ Separated(log')
<1> DEFINE x == Target(s)
           i == task[s].i
<1>0. /\ HeldIsDown /\ HeldOnce /\ HeldIsKilled /\ OpenIsDown /\ OpenIsHeld /\ WholeIsBroken
      /\ down' = down /\ killed' = killed \ {x} /\ task[s].at = "restarted"
  BY DEF Tracked, BookRestart
<1>1. i \in Nat /\ i \in 1..Len(s.targets) /\ Len(s.targets) \in Nat /\ 1 \in 1..Len(s.targets)
      /\ x = s.targets[i] /\ (IsLast(s) <=> i = Len(s.targets))
  BY AtTarget, ScenarioFacts
<1>2. Holds(s, i) /\ IsBack(s, i) /\ ~IsFresh(s, i)
  BY <1>0, <1>1 DEF Holds, IsBack, IsFresh
<1>3. log' = log \o Records(s, "recovery") /\ Advance(s, "restoring", "ended")
  <2>1. Cuts(s) \/ x \in killed
    BY <1>0, <1>1, <1>2 DEF HeldIsKilled
  <2> QED BY <2>1 DEF BookRestart
<1>4. /\ MovesOnly(s)
      /\ \/ ~IsLast(s) /\ task'[s].at = "restoring" /\ task'[s].i = i + 1
         \/ IsLast(s) /\ task'[s].at = "ended" /\ task'[s].i = 1
  <2>1. MovesOnly(s)
    BY <1>3, AdvanceMoves DEF Places
  <2>2. CASE IsLast(s)
    <3>1. GoTo(s, "ended")
      BY <1>3, <2>2 DEF Advance
    <3>2. task'[s].at = "ended" /\ task'[s].i = 1
      BY <3>1 DEF GoTo, TaskType
    <3> QED BY <2>1, <2>2, <3>2
  <2>3. CASE ~IsLast(s)
    <3>1. task' = [task EXCEPT ![s] = [at |-> "restoring", i |-> task[s].i + 1]]
      BY <1>3, <2>3 DEF Advance
    <3>2. task'[s].at = "restoring" /\ task'[s].i = i + 1
      BY <3>1 DEF TaskType
    <3> QED BY <2>1, <2>3, <3>2
  <2> QED BY <2>2, <2>3
<1>5. OthersHold(s)
  BY <1>4, OthersHoldOn
<1>6. \A k \in Nat : /\ Holds(s, k)' => Holds(s, k) /\ k # i
                     /\ IsBack(s, k) <=> k = i
                     /\ ~IsBack(s, k)' /\ ~IsFresh(s, k) /\ ~IsFresh(s, k)'
  BY <1>0, <1>1, <1>4 DEF Holds, IsBack, IsFresh
<1>7. ASSUME NEW S, HoldsWhole(s, S), ~HoldsWhole(s, S)'
      PROVE  s.type = "partial_input" /\ IsLast(s) /\ S = ToSet(s.targets)
  BY <1>4, <1>7 DEF HoldsWhole
<1>8. AtATarget'
  BY <1>1, <1>4 DEF AtATarget, MovesOnly
<1>9. /\ log' \in Seq(Events) /\ Separated(log')
      /\ \A key : IsOpen(log', key) => IsOpen(log, key)
      /\ ~IsOpen(log', <<RecordedType(s), x>>)
      /\ s.type = "partial_input" /\ IsLast(s) => ~IsOpen(log', <<"partial_input", ToSet(s.targets)>>)
  BY <1>3, RecoveryIsRecorded
<1> HIDE DEF x, i
<1>10. \A r \in Scenarios : \A k \in Nat :
         /\ Holds(r, k)' => Holds(r, k) /\ ~(r = s /\ k = i)
         /\ IsBack(r, k) <=> IsBack(r, k)' \/ (r = s /\ k = i)
         /\ IsFresh(r, k)' <=> IsFresh(r, k)
  BY <1>5, <1>6 DEF OthersHold
<1>11. HeldIsDown'
  BY <1>0, <1>10 DEF HeldIsDown
<1>12. HeldOnce'
  BY <1>0, <1>10 DEF HeldOnce
<1>13. HeldIsKilled'
  <2> SUFFICES ASSUME NEW r \in Scenarios, NEW k \in Nat, Holds(r, k)', ~Cuts(r), ~IsFresh(r, k)
               PROVE  r.targets[k] \in killed'
    BY <1>10 DEF HeldIsKilled, Cuts
  <2>1. Holds(r, k) /\ ~(r = s /\ k = i)
    BY <1>10
  <2>2. r.targets[k] # x
    BY <1>0, <1>1, <1>2, <2>1 DEF HeldOnce
  <2> QED BY <1>0, <2>1, <2>2 DEF HeldIsKilled
<1>14. OpenIsDown'
  <2> SUFFICES ASSUME NEW type \in Singles, NEW y, IsOpen(log', <<type, y>>), y \notin down'
               PROVE  \E r \in Scenarios : \E k \in Nat :
                        Holds(r, k)' /\ IsBack(r, k)' /\ r.targets[k] = y
    BY DEF OpenIsDown
  <2>1. IsOpen(log, <<type, y>>)
    BY <1>9
  <2>2. PICK r \in Scenarios, k \in Nat : Holds(r, k) /\ IsBack(r, k) /\ r.targets[k] = y
    BY <1>0, <2>1 DEF OpenIsDown
  <2>3. CASE r = s /\ k = i
    <3>1. type = RecordedType(s) /\ y = x
      BY <1>0, <1>1, <2>1, <2>2, <2>3 DEF OpenIsHeld
    <3> QED BY <1>9, <3>1
  <2>4. CASE ~(r = s /\ k = i)
    <3>1. r \in Scenarios \ {s}
      BY <1>6, <2>2, <2>4
    <3> QED BY <1>5, <2>2, <3>1 DEF OthersHold
  <2> QED BY <2>3, <2>4
<1>15. OpenIsHeld'
  BY <1>0, <1>9, <1>10 DEF OpenIsHeld, RecordedType
<1>16. WholeIsBroken'
  <2> SUFFICES ASSUME NEW S, IsOpen(log', <<"partial_input", S>>)
               PROVE  (\E y \in S : Abandoned(y)') \/ \E r \in Scenarios : HoldsWhole(r, S)'
    BY DEF WholeIsBroken
  <2>1. CASE \E y \in S : Abandoned(y)
    BY <1>0, <1>10, <2>1 DEF Abandoned
  <2>2. CASE \E r \in Scenarios \ {s} : HoldsWhole(r, S)
    BY <1>5, <2>2 DEF OthersHold
  <2>3. CASE HoldsWhole(s, S)
    BY <1>7, <1>9, <2>3
  <2> QED BY <1>0, <1>9, <2>1, <2>2, <2>3 DEF WholeIsBroken
<1> QED BY <1>8, <1>9, <1>11, <1>12, <1>13, <1>14, <1>15, <1>16 DEF Tracked

-----------------------------------------------------------------------------
\* Without a task at work only recoveries are recorded, by the cleanup.
LEMMA CleanupTracks ==
  ASSUME TrackerInv,
         \/ StartCleanup \/ CleanContainers \/ FinishCleanup
         \/ \E l \in Links : CleanLink(l)
         \/ \E c \in Containers : CleanContainer(c)
  PROVE  TrackerInv'
<1>1. task' = task /\ overtaken' = overtaken /\ cleaning' # "no"
  BY DEF StartCleanup, CleanContainers, FinishCleanup, CleanLink, CleanContainer
<1> SUFFICES ASSUME overtaken = {}
             PROVE  AtATarget' /\ log' \in Seq(Events) /\ Separated(log')
  BY <1>1 DEF TrackerInv
<1>2. AtATarget'
  BY <1>1 DEF TrackerInv, AtATarget
<1>3. log' = log \/ \E l \in Links : log' = Append(log, Event("recovery", "network_partition", l))
  BY DEF StartCleanup, CleanContainers, FinishCleanup, CleanLink, CleanContainer, books
<1>4. \A l \in Links : /\ Event("recovery", "network_partition", l) \in Events
                       /\ Event("recovery", "network_partition", l).kind = "recovery"
  BY DEF Event, Events, Singles
<1>5. log' \in Seq(Events) /\ Separated(log')
  BY <1>3, <1>4, RecoveryIsAdded DEF TrackerInv
<1> QED BY <1>2, <1>5

\* Every step of a scenario comes before the cleanup.
LEMMA ScenarioTracks ==
  ASSUME FailureInv, TrackerInv, NEW s \in Scenarios,
         \/ Inject(s) \/ InjectFails(s) \/ BookInjection(s) \/ Expire(s)
         \/ CheckRestart(s) \/ RestartContainer(s) \/ RestartFails(s) \/ BookRestart(s)
  PROVE  TrackerInv'
<1> DEFINE Kept == Tracked' /\ AtATarget' /\ log' \in Seq(Events) /\ Separated(log')
<1>1. cleaning = "no"
  BY ScenarioBeforeCleanup DEF FailureInv, Inject, InjectFails, BookInjection, Expire,
     CheckRestart, RestartContainer, RestartFails, BookRestart
<1>2. overtaken' = {} => overtaken = {}
  BY DEF Inject, InjectFails, BookInjection, Expire, CheckRestart, RestartContainer,
     RestartFails, BookRestart
<1> SUFFICES ASSUME overtaken' = {}
             PROVE  Kept
  BY DEF TrackerInv
<1>3. TaskType /\ Tracked /\ AtATarget /\ log \in Seq(Events) /\ Separated(log)
  BY <1>1, <1>2 DEF FailureInv, TrackerInv
<1>4. CASE Inject(s)
  <2>1. log' = log
    BY <1>4 DEF Inject
  <2> QED BY <1>3, <1>4, <2>1, InjectTracks
<1>5. CASE InjectFails(s) \/ Expire(s) \/ CheckRestart(s) \/ RestartFails(s)
  <2>1. log' = log
    BY <1>5 DEF InjectFails, Expire, CheckRestart, RestartFails
  <2> QED BY <1>3, <1>5, <2>1, QuietTracks
<1>6. CASE BookInjection(s)
  BY <1>3, <1>6, BookInjectionTracks
<1>7. CASE RestartContainer(s)
  <2>1. log' = log
    BY <1>7 DEF RestartContainer
  <2> QED BY <1>3, <1>7, <2>1, RestartTracks
<1>8. CASE BookRestart(s)
  BY <1>3, <1>8, BookRestartTracks
<1> QED BY <1>4, <1>5, <1>6, <1>7, <1>8

\* Nothing is held and nothing recorded at first.
LEMMA TrackerInitial == FailureInit => TrackerInv
<1> SUFFICES ASSUME FailureInit
             PROVE  TrackerInv
  OBVIOUS
<1>1. log = <<>> /\ log \in Seq(Events) /\ Len(log) = 0
  BY DEF FailureInit
<1>2. Separated(log) /\ \A key : ~IsOpen(log, key)
  BY <1>1 DEF Separated, IsOpen
<1>3. \A s \in Scenarios : task[s].at = "delayed" /\ task[s].i = 1
  BY DEF FailureInit
<1>4. AtATarget
  BY <1>3, ScenarioFacts DEF AtATarget
<1>5. \A s \in Scenarios : \A k \in Nat : ~Holds(s, k)
  BY <1>3 DEF Holds
<1>6. Tracked
  BY <1>2, <1>5 DEF Tracked, HeldIsDown, HeldOnce, HeldIsKilled, OpenIsDown, OpenIsHeld,
     WholeIsBroken
<1> QED BY <1>1, <1>2, <1>4, <1>6 DEF TrackerInv

\* Every step keeps the invariant.
LEMMA TrackerStep ==
  ASSUME FailureInv, TrackerInv, [FailureNext]_failureVars
  PROVE  TrackerInv'
<1>1. CASE FailureNext
  BY <1>1, ScenarioTracks, CleanupTracks DEF FailureNext
<1>2. CASE UNCHANGED failureVars
  BY <1>2 DEF failureVars, books, TrackerInv, AtATarget, Tracked, HeldIsDown, HeldOnce,
     HeldIsKilled, OpenIsDown, OpenIsHeld, WholeIsBroken, Abandoned, Holds, IsBack, IsFresh,
     HoldsWhole, RecordedType, Cuts
<1> QED BY <1>1, <1>2

\* As long as no container is killed between its restart and the booking, each
\* adaptation time runs from the failure of that very outage, for any scenarios
\* over any containers and links.  (adaptation_times_ms)
THEOREM OutagesAreMeasuredHolds == FailureSpec => []OutagesAreMeasured
<1>1. FailureInit => FailureInv /\ TrackerInv
  BY TrackerInitial DEF FailureInit, FailureInv, TaskType, Places, OutagesAreBooked, CleanupIsLast
<1>2. FailureInv /\ TrackerInv /\ [FailureNext]_failureVars => FailureInv' /\ TrackerInv'
  BY FailureStep, TrackerStep
<1>3. TrackerInv => OutagesAreMeasured
  BY SeparatedIsMeasured DEF TrackerInv, OutagesAreMeasured
<1> QED BY <1>1, <1>2, <1>3, PTL DEF FailureSpec

-----------------------------------------------------------------------------
(***************************************************************************)
(* That the sidecar loses no stage without a cause and repeats a stage at  *)
(* most once per crash, for any messages and any size of the semaphore.    *)
(*                                                                         *)
(* A place of the topic is passed when it is below the position or below   *)
(* the committed position: the second keeps the claim through a crash.     *)
(***************************************************************************)

KafkaTypes ==
  /\ sent \subseteq Messages
  /\ topic \in Seq(Messages)
  /\ consuming \in BOOLEAN
  /\ position \in 0..Len(topic)
  /\ committed \in {NoCommit} \cup 0..Len(topic)
  /\ waiting \in [Messages -> Nat]
  /\ posting \in [Messages -> Nat]
  /\ delivered \in [Messages -> Nat]
  /\ excused \subseteq Messages
  /\ crashes \in Nat

\* Every stage is produced once.
TopicHasNoDuplicates ==
  /\ \A i \in 1..Len(topic) : topic[i] \in sent
  /\ \A i, k \in 1..Len(topic) : topic[i] = topic[k] => i = k

Passed(i) == (consuming /\ i <= position) \/ (committed # NoCommit /\ i <= committed)
Attempts(m) == waiting[m] + posting[m] + delivered[m]

PassedIsHandled ==
  \A i \in 1..Len(topic) : Passed(i) => Attempts(topic[i]) > 0 \/ topic[i] \in excused

\* The sidecar has not read m since it last started.
Unread(m) == \A i \in 1..Len(topic) : topic[i] = m => ~(consuming /\ i <= position)

RepeatedByCrashes ==
  \A m \in Messages :
    /\ Attempts(m) <= crashes + 1
    /\ Unread(m) => Attempts(m) <= crashes

KafkaInv == KafkaTypes /\ TopicHasNoDuplicates /\ PassedIsHandled /\ RepeatedByCrashes

\* What the types say of single places and messages.
LEMMA KafkaShape ==
  ASSUME KafkaTypes
  PROVE  /\ Len(topic) \in Nat /\ position \in Nat /\ crashes \in Nat
         /\ \A i \in 1..Len(topic) : topic[i] \in Messages
         /\ waiting \in [Messages -> Nat] /\ posting \in [Messages -> Nat]
         /\ delivered \in [Messages -> Nat]
<1>1. topic \in Seq(Messages) /\ position \in 0..Len(topic)
  BY DEF KafkaTypes
<1>2. Len(topic) \in Nat /\ \A i \in 1..Len(topic) : topic[i] \in Messages
  BY <1>1
<1> QED BY <1>1, <1>2 DEF KafkaTypes

\* At first nothing is sent.
LEMMA KafkaInitial == KafkaInit => KafkaInv
<1> SUFFICES ASSUME KafkaInit PROVE KafkaInv
  OBVIOUS
<1>1. Len(topic) = 0 /\ topic \in Seq(Messages) /\ 1..Len(topic) = {}
  BY DEF KafkaInit
<1>2. KafkaTypes
  <2>1. Nobody \in [Messages -> Nat]
    BY DEF Nobody
  <2>2. position \in 0..Len(topic) /\ committed \in {NoCommit} \cup 0..Len(topic)
    BY <1>1 DEF KafkaInit
  <2> QED BY <1>1, <2>1, <2>2 DEF KafkaInit, KafkaTypes
<1>3. TopicHasNoDuplicates /\ PassedIsHandled
  BY <1>1 DEF TopicHasNoDuplicates, PassedIsHandled
<1>4. RepeatedByCrashes
  BY DEF KafkaInit, RepeatedByCrashes, Attempts, Nobody
<1> QED BY <1>2, <1>3, <1>4 DEF KafkaInv

-----------------------------------------------------------------------------
\* A stage is appended that is not in the topic, beyond every position.
LEMMA ProduceStep ==
  ASSUME KafkaInv, NEW m \in Messages, Produce(m)
  PROVE  KafkaInv'
<1> USE DEF KafkaInv, taskVars
<1>0. UNCHANGED <<consuming, position, committed, waiting, posting, delivered, excused, crashes>>
  BY DEF Produce
<1>1. CASE m \notin Subscribed
  <2>1. topic' = topic /\ sent \subseteq sent' /\ sent' \subseteq Messages
    BY <1>1 DEF Produce, KafkaTypes
  <2> QED BY <1>0, <2>1 DEF KafkaTypes, TopicHasNoDuplicates, PassedIsHandled, RepeatedByCrashes,
     Passed, Attempts, Unread
<1>2. CASE m \in Subscribed
  <2>1. topic' = Append(topic, m) /\ m \notin sent /\ sent' = sent \cup {m}
    BY <1>2 DEF Produce
  <2>2. /\ topic' \in Seq(Messages)
        /\ Len(topic') = Len(topic) + 1
        /\ Len(topic) \in Nat
        /\ \A i \in 1..Len(topic) : topic'[i] = topic[i]
        /\ topic'[Len(topic) + 1] = m
    BY <2>1 DEF KafkaTypes
  <2>3. KafkaTypes'
    BY <1>0, <2>1, <2>2 DEF KafkaTypes
  <2>4. TopicHasNoDuplicates'
    BY <2>1, <2>2 DEF TopicHasNoDuplicates
  <2>5. PassedIsHandled'
    <3>1. ASSUME NEW i \in 1..Len(topic'), Passed(i)'
          PROVE  (Attempts(topic[i]) > 0 \/ topic[i] \in excused)'
      <4>1. i \in 1..Len(topic) /\ Passed(i)
        BY <1>0, <2>2, <3>1, KafkaAssumption DEF Passed, KafkaTypes
      <4>2. topic'[i] = topic[i] /\ (Attempts(topic[i]) > 0 \/ topic[i] \in excused)
        BY <2>2, <4>1 DEF PassedIsHandled
      <4> QED BY <1>0, <4>2 DEF Attempts
    <3> QED BY <3>1 DEF PassedIsHandled
  <2>6. RepeatedByCrashes'
    <3>1. \A n \in Messages : Unread(n)' => Unread(n)
      BY <1>0, <2>2 DEF Unread
    <3>2. \A n \in Messages : Attempts(n)' = Attempts(n)
      BY <1>0 DEF Attempts
    <3> QED BY <1>0, <3>1, <3>2 DEF RepeatedByCrashes
  <2> QED BY <2>3, <2>4, <2>5, <2>6
<1> QED BY <1>1, <1>2

\* The sidecar starts from what was committed, or skips what is there.
LEMMA StartStep ==
  ASSUME KafkaInv, Start
  PROVE  KafkaInv'
<1> USE DEF KafkaInv
<1>0. ~consuming /\ UNCHANGED <<sent, topic, committed, waiting, posting, delivered, crashes>>
  BY DEF Start
<1>1. KafkaTypes' /\ excused \subseteq excused'
  <2>1. CASE committed = NoCommit
    BY <1>0, <2>1 DEF Start, KafkaTypes, ToSet
  <2>2. CASE committed # NoCommit
    BY <1>0, <2>2 DEF Start, KafkaTypes
  <2> QED BY <2>1, <2>2
<1>2. PassedIsHandled'
  <2>1. CASE committed = NoCommit
    <3>1. \A i \in 1..Len(topic) : topic[i] \in excused'
      <4>1. excused' = excused \cup ToSet(topic)
        BY <2>1 DEF Start
      <4> QED BY <4>1 DEF ToSet, KafkaTypes
    <3> QED BY <1>0, <3>1 DEF PassedIsHandled
  <2>2. CASE committed # NoCommit
    <3>1. \A i \in 1..Len(topic) : Passed(i)' => Passed(i)
      BY <1>0, <2>2 DEF Start, Passed
    <3>2. \A i \in 1..Len(topic) : Attempts(topic[i])' = Attempts(topic[i])
      BY <1>0 DEF Attempts
    <3> QED BY <1>0, <1>1, <3>1, <3>2 DEF PassedIsHandled
  <2> QED BY <2>1, <2>2
<1>3. RepeatedByCrashes'
  <2>1. \A m \in Messages : Unread(m) /\ Attempts(m)' = Attempts(m) /\ Attempts(m) \in Nat
    BY <1>0 DEF Unread, Attempts, KafkaTypes
  <2> QED BY <1>0, <2>1 DEF RepeatedByCrashes, KafkaTypes
<1> QED BY <1>0, <1>1, <1>2, <1>3 DEF TopicHasNoDuplicates

\* A task is made for the next stage, which was not read since the start.
LEMMA ReadStep ==
  ASSUME KafkaInv, Read
  PROVE  KafkaInv'
<1> USE DEF KafkaInv
<1>0. PICK next \in Messages :
      /\ consuming /\ position + 1 \in 1..Len(topic) /\ next = topic[position + 1]
      /\ position' = position + 1
      /\ waiting' = [waiting EXCEPT ![next] = @ + 1]
      /\ UNCHANGED <<sent, topic, consuming, committed, posting, delivered, excused, crashes>>
  <2>1. position + 1 \in 1..Len(topic) /\ topic[position + 1] \in Messages
    BY DEF Read, KafkaTypes
  <2> QED BY <2>1 DEF Read
<1>1. KafkaTypes'
  <2>1. waiting' \in [Messages -> Nat]
    BY <1>0, KafkaShape
  <2>2. position' \in 0..Len(topic')
    BY <1>0, KafkaShape
  <2> QED BY <1>0, <2>1, <2>2 DEF KafkaTypes
<1>2. /\ Attempts(next)' = Attempts(next) + 1
      /\ \A m \in Messages \ {next} : Attempts(m)' = Attempts(m)
      /\ \A m \in Messages : Attempts(m) \in Nat
  <2>1. waiting \in [Messages -> Nat] /\ posting \in [Messages -> Nat] /\ delivered \in [Messages -> Nat]
    BY DEF KafkaTypes
  <2>2. waiting'[next] = waiting[next] + 1 /\ \A m \in Messages \ {next} : waiting'[m] = waiting[m]
    BY <1>0, <2>1
  <2> QED BY <1>0, <2>1, <2>2 DEF Attempts
<1>3. PassedIsHandled'
  <2>1. ASSUME NEW i \in 1..Len(topic), Passed(i)', i # position + 1
        PROVE  Passed(i)
    BY <1>0, <2>1 DEF Passed, KafkaTypes
  <2>2. \A i \in 1..Len(topic) : topic[i] \in Messages
    BY DEF KafkaTypes
  <2>3. ASSUME NEW i \in 1..Len(topic), Passed(i)'
        PROVE  Attempts(topic[i])' > 0 \/ topic[i] \in excused'
    <3>1. CASE topic[i] = next
      BY <1>0, <1>2, <3>1
    <3>2. CASE topic[i] # next
      <4>1. Attempts(topic[i]) > 0 \/ topic[i] \in excused
        <5>1. i # position + 1
          BY <1>0, <3>2
        <5> QED BY <2>1, <2>3, <5>1 DEF PassedIsHandled
      <4> QED BY <1>0, <1>2, <2>2, <3>2, <4>1
    <3> QED BY <3>1, <3>2
  <2> QED BY <1>0, <2>3 DEF PassedIsHandled
<1>4. RepeatedByCrashes'
  <2>0. position \in Nat /\ Len(topic) \in Nat
    BY KafkaShape
  <2>1. Unread(next)
    <3>1. ASSUME NEW i \in 1..Len(topic), topic[i] = next
          PROVE  i = position + 1
      BY <1>0, <3>1 DEF TopicHasNoDuplicates
    <3> QED BY <2>0, <3>1 DEF Unread
  <2>2. ASSUME NEW m \in Messages, Unread(m)'
        PROVE  Unread(m) /\ m # next
    <3>1. \A i \in 1..Len(topic) : topic[i] = m => ~(i <= position + 1)
      BY <1>0, <2>2 DEF Unread
    <3>2. m # next
      BY <1>0, <2>0, <3>1
    <3> QED BY <2>0, <3>1, <3>2 DEF Unread
  <2>3. ASSUME NEW m \in Messages
        PROVE  Attempts(m)' <= crashes + 1 /\ (Unread(m)' => Attempts(m)' <= crashes)
    <3>1. crashes \in Nat /\ Attempts(m) \in Nat /\ Attempts(m) <= crashes + 1
          /\ (Unread(m) => Attempts(m) <= crashes)
      BY <1>2 DEF RepeatedByCrashes, KafkaTypes
    <3>2. CASE m = next
      BY <1>2, <2>1, <2>2, <3>1, <3>2
    <3>3. CASE m # next
      BY <1>2, <2>2, <3>1, <3>3
    <3> QED BY <3>2, <3>3
  <2> QED BY <1>0, <2>3 DEF RepeatedByCrashes
<1> QED BY <1>0, <1>1, <1>3, <1>4 DEF TopicHasNoDuplicates

\* What was read is committed.
LEMMA CommitStep ==
  ASSUME KafkaInv, Commit
  PROVE  KafkaInv'
<1> USE DEF KafkaInv, taskVars
<1>0. /\ consuming /\ committed' = position
      /\ UNCHANGED <<sent, topic, consuming, position, waiting, posting, delivered, excused, crashes>>
  BY DEF Commit
<1>1. \A i \in 1..Len(topic) : Passed(i)' => Passed(i)
  BY <1>0 DEF Passed
<1> QED BY <1>0, <1>1 DEF KafkaTypes, TopicHasNoDuplicates, PassedIsHandled, RepeatedByCrashes,
   Attempts, Unread

\* A task goes on, or its post fails: an attempt stays one or is excused.
LEMMA TaskStep ==
  ASSUME KafkaInv, NEW m \in Messages, Acquire(m) \/ TaskSucceeds(m) \/ TaskFails(m)
  PROVE  KafkaInv'
<1> USE DEF KafkaInv
<1>0. /\ UNCHANGED <<sent, topic, consuming, position, committed, crashes>>
      /\ excused \subseteq excused' /\ excused' \subseteq Messages
  BY DEF Acquire, TaskSucceeds, TaskFails, KafkaTypes
<1>1. waiting \in [Messages -> Nat] /\ posting \in [Messages -> Nat]
      /\ delivered \in [Messages -> Nat]
  BY KafkaShape
<1>2. \A n \in Messages : Attempts(n) \in Nat
  BY <1>1 DEF Attempts
<1>3. /\ waiting' \in [Messages -> Nat] /\ posting' \in [Messages -> Nat]
      /\ delivered' \in [Messages -> Nat]
      /\ \A n \in Messages \ {m} : Attempts(n)' = Attempts(n)
      /\ Attempts(m)' <= Attempts(m)
      /\ Attempts(m)' = Attempts(m) \/ m \in excused'
  <2>1. CASE Acquire(m)
    <3>1. /\ waiting' = [waiting EXCEPT ![m] = @ - 1] /\ waiting[m] > 0
          /\ posting' = [posting EXCEPT ![m] = @ + 1] /\ delivered' = delivered
      BY <2>1 DEF Acquire
    <3> QED BY <1>1, <3>1 DEF Attempts
  <2>2. CASE TaskSucceeds(m)
    <3>1. /\ posting' = [posting EXCEPT ![m] = @ - 1] /\ posting[m] > 0
          /\ delivered' = [delivered EXCEPT ![m] = @ + 1] /\ waiting' = waiting
      BY <2>2 DEF TaskSucceeds
    <3> QED BY <1>1, <3>1 DEF Attempts
  <2>3. CASE TaskFails(m)
    <3>1. /\ posting' = [posting EXCEPT ![m] = @ - 1] /\ posting[m] > 0
          /\ waiting' = waiting /\ m \in excused'
          /\ delivered' = delivered \/ delivered' = [delivered EXCEPT ![m] = @ + 1]
      BY <2>3 DEF TaskFails
    <3>2. CASE delivered' = delivered
      BY <1>1, <3>1, <3>2 DEF Attempts
    <3>3. CASE delivered' = [delivered EXCEPT ![m] = @ + 1]
      BY <1>1, <3>1, <3>3 DEF Attempts
    <3> QED BY <3>1, <3>2, <3>3
  <2> QED BY <2>1, <2>2, <2>3
<1>4. \A n \in Messages :
        /\ Attempts(n)' \in Nat /\ Attempts(n)' <= Attempts(n)
        /\ Attempts(n)' = Attempts(n) \/ n \in excused'
  <2>1. \A n \in Messages : Attempts(n)' \in Nat
    BY <1>3 DEF Attempts
  <2> QED BY <1>2, <1>3, <2>1
<1>5. PassedIsHandled'
  <2>1. \A i \in 1..Len(topic) : topic[i] \in Messages
    BY KafkaShape
  <2>2. \A i \in 1..Len(topic) : Passed(i)' => Passed(i)
    BY <1>0 DEF Passed
  <2> QED BY <1>0, <1>2, <1>4, <2>1, <2>2 DEF PassedIsHandled
<1>6. RepeatedByCrashes'
  <2>1. \A n \in Messages : Unread(n)' => Unread(n)
    BY <1>0 DEF Unread
  <2> QED BY <1>0, <1>2, <1>4, <2>1, KafkaShape DEF RepeatedByCrashes
<1> QED BY <1>0, <1>3, <1>5, <1>6 DEF KafkaTypes, TopicHasNoDuplicates

\* What a crash takes is excused, and counts for the crash.
LEMMA CrashStep ==
  ASSUME KafkaInv, SidecarCrashes
  PROVE  KafkaInv'
<1> USE DEF KafkaInv
<1>0. /\ UNCHANGED <<sent, topic, position, committed, delivered>>
      /\ ~consuming' /\ consuming' \in BOOLEAN /\ crashes' = crashes + 1
      /\ waiting' = Nobody /\ posting' = Nobody
      /\ excused' = excused \cup {n \in Messages : waiting[n] + posting[n] > 0}
  BY DEF SidecarCrashes
<1>1. KafkaTypes'
  BY <1>0 DEF KafkaTypes, Nobody
<1>2. \A n \in Messages :
        /\ Attempts(n)' = delivered[n] /\ delivered[n] <= Attempts(n)
        /\ Attempts(n) > 0 => Attempts(n)' > 0 \/ n \in excused'
        /\ Attempts(n) \in Nat /\ delivered[n] \in Nat
  BY <1>0 DEF Attempts, KafkaTypes, Nobody
<1>3. PassedIsHandled'
  <2>1. \A i \in 1..Len(topic) : topic[i] \in Messages
    BY DEF KafkaTypes
  <2>2. \A i \in 1..Len(topic) : Passed(i)' => Passed(i)
    BY <1>0 DEF Passed
  <2> QED BY <1>0, <1>2, <2>1, <2>2 DEF PassedIsHandled
<1>4. RepeatedByCrashes'
  BY <1>0, <1>2 DEF RepeatedByCrashes, KafkaTypes
<1> QED BY <1>0, <1>1, <1>3, <1>4 DEF TopicHasNoDuplicates

-----------------------------------------------------------------------------
\* Every step keeps the invariant.
LEMMA KafkaStep ==
  ASSUME KafkaInv, [KafkaNext]_kafkaVars
  PROVE  KafkaInv'
<1>1. CASE KafkaNext
  BY <1>1, ProduceStep, StartStep, ReadStep, CommitStep, TaskStep, CrashStep DEF KafkaNext
<1>2. CASE UNCHANGED kafkaVars
  BY <1>2 DEF kafkaVars, taskVars, KafkaInv, KafkaTypes, TopicHasNoDuplicates, PassedIsHandled,
     RepeatedByCrashes, Passed, Attempts, Unread
<1> QED BY <1>1, <1>2

\* No stage the sidecar has passed over is lost without a known cause, and each
\* is posted at most once more than the sidecar crashed, for any messages and
\* any number of crashes.  (run_consumer, dispatch_message)
THEOREM LossHasCauseHolds == KafkaSpec => []LossHasCause
<1>1. KafkaInit => KafkaInv
  BY KafkaInitial
<1>2. KafkaInv /\ [KafkaNext]_kafkaVars => KafkaInv'
  BY KafkaStep
<1>3. KafkaInv => LossHasCause
  <2> SUFFICES ASSUME KafkaInv PROVE LossHasCause
    OBVIOUS
  <2>1. ASSUME NEW i \in 1..(IF consuming THEN position ELSE 0)
        PROVE  waiting[topic[i]] + posting[topic[i]] + delivered[topic[i]] > 0 \/ topic[i] \in excused
    BY <2>1 DEF KafkaInv, KafkaTypes, PassedIsHandled, Passed, Attempts
  <2>2. ASSUME NEW m \in Messages
        PROVE  delivered[m] <= 1 + crashes
    BY <2>2 DEF KafkaInv, KafkaTypes, RepeatedByCrashes, Attempts
  <2> QED BY <2>1, <2>2 DEF LossHasCause
<1> QED BY <1>1, <1>2, <1>3, PTL DEF KafkaSpec


-----------------------------------------------------------------------------
(***************************************************************************)
(* That the figures of a trace lie within the run, for a chain of any      *)
(* length and any number of stages that are sent or reported twice.        *)
(*                                                                         *)
(* A stage is sent when those before it are complete, so whatever run of   *)
(* it is reported, it started after the first run of each of those; and    *)
(* the first start of a stage is never touched again.                      *)
(***************************************************************************)

\* Some places of a sequence have a first and a last.
LEMMA EndsOfAPart ==
  ASSUME NEW n \in Nat, NEW S, S \subseteq 1..n, S # {}
  PROVE  /\ Min(S) \in S /\ \A i \in S : Min(S) <= i
         /\ Max(S) \in S /\ \A i \in S : i <= Max(S)
<1>1. \A i \in S : i \in 1..n
  OBVIOUS
<1>2. \E i \in S : \A j \in S : i <= j
  <2>1. S \subseteq Nat
    BY <1>1
  <2> QED BY <2>1, LeastPlace
<1>3. \E i \in S : \A j \in S : i >= j
  <2> DEFINE P == {n - i : i \in S}
  <2>1. \A k \in P : k \in Nat
    BY <1>1
  <2>2. P \subseteq Nat /\ P # {}
    BY <2>1
  <2>3. PICK k \in P : \A j \in P : k <= j
    BY <2>2, LeastPlace
  <2>4. PICK i \in S : k = n - i
    OBVIOUS
  <2>5. ASSUME NEW j \in S
        PROVE  i >= j
    <3>1. n - j \in P
      OBVIOUS
    <3>2. n - i <= n - j
      BY <2>3, <2>4, <3>1
    <3>3. i \in Int /\ j \in Int
      BY <1>1
    <3> QED BY <3>2, <3>3
  <2> QED BY <2>5
<1>4. Min(S) \in S /\ \A i \in S : Min(S) <= i
  BY <1>2 DEF Min
<1>5. Max(S) \in S /\ \A i \in S : Max(S) >= i
  BY <1>3 DEF Max
<1>6. Max(S) \in 1..n
  BY <1>1, <1>5
<1>7. ASSUME NEW i \in S
      PROVE  i <= Max(S)
  <2>1. Max(S) >= i /\ i \in 1..n
    BY <1>1, <1>5
  <2> QED BY <1>6, <2>1
<1> QED BY <1>4, <1>5, <1>7

\* What the broker records.
Recorded ==
  [stage : 0..ChainLength, at : Nat,
   event : {"created", "dispatched", "stage_result_received", "stage_start", "stage_end",
            "delivered"}]

\* What has happened lies in the past, of stages of the chain.
TracesTypes ==
  /\ now \in Nat /\ 2 <= now
  /\ records \in Seq(Recorded)
  /\ completed \subseteq ChainStages
  /\ DOMAIN ranOn \subseteq ChainStages
  /\ \A m \in runs \cup reports : m.stage \in ChainStages /\ m.start \in 2..(now - 1)
  /\ \A m \in reports : m.end \in 0..(now - 1)

\* The times of a stage come with its first result, and none after the last one.
RecordsFit ==
  /\ Of(records, "created") = {1} /\ records[1].at = 1
  /\ \A i \in Of(records, "stage_start") : records[i].at \in 2..(now - 1)
  /\ \A i \in Of(records, "stage_end") : records[i].at < now
  /\ \A s \in ChainStages : s \in completed <=> Times(records, "stage_start", s) # {}
  /\ \A s \in completed : Times(records, "stage_end", s) # {}
  /\ finished => completed = ChainStages /\ Of(records, "delivered") # {}
  /\ ~finished => Of(records, "delivered") = {}
  /\ \A i \in Of(records, "delivered"), j \in Of(records, "stage_end") :
       records[j].at <= records[i].at

\* A stage is sent when those before it are complete, so it starts after them.
Follows(s, start) == \A t \in 1..(s - 1) : t \in completed /\ StartOf(records, t) < start
ChainIsTimed ==
  /\ \A s \in DOMAIN ranOn : Follows(s, now)
  /\ \A m \in runs \cup reports : Follows(m.stage, m.start)
  /\ \A s \in completed : Follows(s, StartOf(records, s))

TracesInv == TracesTypes /\ RecordsFit /\ ChainIsTimed

\* Records carry a time.
LEMMA RecordTimes ==
  ASSUME TracesTypes, NEW i \in DOMAIN records
  PROVE  records[i].at \in Nat
<1>1. records[i] \in Recorded
  BY DEF TracesTypes
<1> QED BY <1>1 DEF Recorded

\* The start of a complete stage is that of one of its records.
LEMMA StartIsRecorded ==
  ASSUME TracesTypes, RecordsFit, NEW s \in completed
  PROVE  /\ Min(Times(records, "stage_start", s)) \in Times(records, "stage_start", s)
         /\ StartOf(records, s) \in 2..(now - 1)
<1>1. Times(records, "stage_start", s) # {}
  BY DEF TracesTypes, RecordsFit
<1>2. Times(records, "stage_start", s) \subseteq 1..Len(records) /\ Len(records) \in Nat
  BY DEF TracesTypes, Times, Of
<1>3. Min(Times(records, "stage_start", s)) \in Times(records, "stage_start", s)
  BY <1>1, <1>2, EndsOfAPart
<1>4. Min(Times(records, "stage_start", s)) \in Of(records, "stage_start")
  BY <1>3 DEF Times
<1> QED BY <1>3, <1>4 DEF StartOf, RecordsFit

\* A new trace has been created and no more.
LEMMA TracesStart == TracesInit => TracesInv
<1> SUFFICES ASSUME TracesInit PROVE TracesInv
  OBVIOUS
<1>1. /\ records \in Seq(Recorded) /\ DOMAIN records = {1}
      /\ records[1] = [stage |-> 0, event |-> "created", at |-> 1]
  BY TracesAssumption DEF TracesInit, Recorded
<1>2. Of(records, "created") = {1} /\ \A e : e # "created" => Of(records, e) = {}
  BY <1>1 DEF Of
<1>3. \A s : Times(records, "stage_start", s) = {}
  BY <1>2 DEF Times
<1>4. TracesTypes
  BY <1>1 DEF TracesInit, TracesTypes
<1>5. RecordsFit
  BY <1>1, <1>2, <1>3 DEF TracesInit, RecordsFit
<1>6. ChainIsTimed
  BY DEF TracesInit, ChainIsTimed
<1> QED BY <1>4, <1>5, <1>6 DEF TracesInv

\* Records that are added leave the others where they are.
LEMMA RecordsAreAdded ==
  ASSUME NEW new \in Seq(Recorded), TracesTypes, records' = records \o new
  PROVE  /\ records' \in Seq(Recorded) /\ Len(records) \in Nat
         /\ \A i \in DOMAIN records : i \in DOMAIN records' /\ records'[i] = records[i]
         /\ \A e : Of(records, e)' = Of(records, e) \cup {Len(records) + k : k \in Of(new, e)}
         /\ \A e, s : Times(records, e, s)' =
              Times(records, e, s) \cup {Len(records) + k : k \in Times(new, e, s)}
         /\ \A k \in DOMAIN new : /\ Len(records) + k \in DOMAIN records'
                                  /\ records'[Len(records) + k] = new[k]
<1>1. /\ records \in Seq(Recorded) /\ Len(records) \in Nat /\ Len(new) \in Nat
      /\ DOMAIN records = 1..Len(records) /\ DOMAIN new = 1..Len(new)
  BY DEF TracesTypes
<1>2. /\ records' \in Seq(Recorded)
      /\ DOMAIN records' = 1..(Len(records) + Len(new))
      /\ \A i \in 1..(Len(records) + Len(new)) :
           records'[i] = IF i <= Len(records) THEN records[i] ELSE new[i - Len(records)]
  <2>1. records' \in Seq(Recorded) /\ Len(records') = Len(records) + Len(new)
    BY <1>1, ConcatProperties
  <2>2. DOMAIN records' = 1..Len(records')
    BY <2>1
  <2> QED BY <1>1, <2>1, <2>2, ConcatProperties
<1>3. \A i \in DOMAIN records : i \in DOMAIN records' /\ records'[i] = records[i]
  BY <1>1, <1>2
<1>4. \A k \in DOMAIN new : /\ Len(records) + k \in DOMAIN records'
                            /\ records'[Len(records) + k] = new[k]
  <2> TAKE k \in DOMAIN new
  <2>1. k \in 1..Len(new) /\ Len(records) + k \in 1..(Len(records) + Len(new))
        /\ ~(Len(records) + k <= Len(records)) /\ (Len(records) + k) - Len(records) = k
    BY <1>1
  <2> QED BY <1>2, <2>1
<1>5. \A i \in DOMAIN records' : i \in DOMAIN records \/ \E k \in DOMAIN new : i = Len(records) + k
  <2> TAKE i \in DOMAIN records'
  <2>1. CASE i > Len(records)
    <3>1. i - Len(records) \in DOMAIN new /\ i = Len(records) + (i - Len(records))
      BY <1>1, <1>2, <2>1
    <3> QED BY <3>1
  <2> QED BY <1>1, <1>2, <2>1
<1>6. ASSUME NEW e
      PROVE  Of(records, e)' = Of(records, e) \cup {Len(records) + k : k \in Of(new, e)}
  BY <1>3, <1>4, <1>5 DEF Of
<1>7. ASSUME NEW e, NEW s
      PROVE  Times(records, e, s)' =
               Times(records, e, s) \cup {Len(records) + k : k \in Times(new, e, s)}
  BY <1>3, <1>4, <1>6 DEF Times, Of
<1> QED BY <1>1, <1>2, <1>3, <1>4, <1>6, <1>7

\* A stage that has started keeps its start.
LEMMA StartStays ==
  ASSUME NEW new \in Seq(Recorded), TracesTypes, RecordsFit, records' = records \o new,
         NEW s \in completed
  PROVE  StartOf(records, s)' = StartOf(records, s)
<1> DEFINE Old == Times(records, "stage_start", s)
           New == Times(records', "stage_start", s)
<1>1. Min(Old) \in Old /\ Old \subseteq 1..Len(records) /\ Len(records) \in Nat
  BY StartIsRecorded DEF Times, Of, TracesTypes
<1>2. New = Old \cup {Len(records) + k : k \in Times(new, "stage_start", s)}
  BY RecordsAreAdded
<1>3. Times(new, "stage_start", s) \subseteq 1..Len(new) /\ Len(new) \in Nat
  BY DEF Times, Of
<1>4. New \subseteq 1..(Len(records) + Len(new)) /\ New # {}
  BY <1>1, <1>2, <1>3
<1>5. \A i \in Old : Min(Old) <= i
  BY <1>1, EndsOfAPart
<1>6. Min(New) \in New /\ \A i \in New : Min(New) <= i
  <2>1. Len(records) + Len(new) \in Nat
    BY <1>1, <1>3
  <2> HIDE DEF New
  <2> QED BY <1>4, <2>1, EndsOfAPart
<1>7. Min(New) = Min(Old)
  <2>1. \A i \in New : Min(Old) <= i
    BY <1>1, <1>2, <1>3, <1>5
  <2>2. Min(Old) \in New /\ Min(Old) \in Int /\ Min(New) \in Int
    BY <1>1, <1>2, <1>4, <1>6
  <2> HIDE DEF New, Old
  <2> QED BY <1>6, <2>1, <2>2
<1>8. records'[Min(Old)] = records[Min(Old)]
  BY <1>1, RecordsAreAdded DEF Times, Of
<1> QED BY <1>7, <1>8 DEF StartOf

\* The order survives a step that only sends and starts stages that follow.
LEMMA TimedStep ==
  ASSUME TracesInv, NEW new \in Seq(Recorded), records' = records \o new,
         completed \subseteq completed', now' = now + 1,
         \A s \in DOMAIN ranOn' : Follows(s, now),
         \A m \in (runs \cup reports)' : Follows(m.stage, m.start),
         \A s \in completed' : Follows(s, StartOf(records, s)')
  PROVE  ChainIsTimed'
<1> USE DEF TracesInv
<1>1. ASSUME NEW s \in DOMAIN ranOn'
      PROVE  Follows(s, now)'
  <2>1. ASSUME NEW t \in 1..(s - 1)
        PROVE  t \in completed' /\ StartOf(records, t)' < now + 1
    <3>1. t \in completed
      BY DEF Follows
    <3>2. StartOf(records, t)' = StartOf(records, t) /\ StartOf(records, t) \in 2..(now - 1)
      BY <3>1, StartStays, StartIsRecorded
    <3>3. now \in Nat
      BY DEF TracesTypes
    <3> QED BY <3>1, <3>2, <3>3
  <2> QED BY <2>1 DEF Follows
<1>2. ASSUME NEW m \in (runs \cup reports)'
      PROVE  Follows(m.stage, m.start)'
  <2> DEFINE a == m.stage
             b == m.start
  <2>1. Follows(a, b)
    OBVIOUS
  <2> HIDE DEF a, b
  <2>2. \A t \in 1..(a - 1) : t \in completed' /\ StartOf(records, t)' < b
    BY <2>1, StartStays DEF Follows
  <2> QED BY <2>2 DEF Follows, a, b
<1>3. ASSUME NEW s \in completed'
      PROVE  Follows(s, StartOf(records, s))'
  <2>1. \A t \in 1..(s - 1) : t \in completed /\ StartOf(records, t) < StartOf(records, s)'
    BY DEF Follows
  <2>2. \A t \in 1..(s - 1) : t \in completed' /\ StartOf(records, t)' < StartOf(records, s)'
    BY <2>1, StartStays
  <2> QED BY <2>2 DEF Follows
<1> QED BY <1>1, <1>2, <1>3 DEF ChainIsTimed

\* Records of a dispatch or of a result alone are part of no figure.
LEMMA IdleRecords ==
  ASSUME TracesInv, NEW new \in Seq(Recorded), records' = records \o new,
         \A k \in DOMAIN new : new[k].event \in {"dispatched", "stage_result_received"},
         UNCHANGED <<completed, finished>>, now' = now + 1
  PROVE  RecordsFit' /\ \A s \in completed' : Follows(s, StartOf(records, s)')
<1> USE DEF TracesInv
<1>1. now \in Nat
  BY DEF TracesTypes
<1>2. \A e \in {"created", "stage_start", "stage_end", "delivered"} : Of(new, e) = {}
  BY DEF Of
<1>3. \A e \in {"created", "stage_start", "stage_end", "delivered"} :
        /\ Of(records, e)' = Of(records, e)
        /\ \A s : Times(records, e, s)' = Times(records, e, s)
        /\ \A i \in Of(records, e) : records'[i] = records[i]
  <2> TAKE e \in {"created", "stage_start", "stage_end", "delivered"}
  <2>1. Of(new, e) = {} /\ \A s : Times(new, e, s) = {}
    BY <1>2 DEF Times
  <2>2. \A i \in Of(records, e) : records'[i] = records[i]
    BY RecordsAreAdded DEF Of
  <2>3. Of(records, e)' = Of(records, e)
    <3>1. Of(records, e)' = Of(records, e) \cup {Len(records) + k : k \in Of(new, e)}
      BY RecordsAreAdded
    <3> QED BY <2>1, <3>1
  <2>4. ASSUME NEW s
        PROVE  Times(records, e, s)' = Times(records, e, s)
    <3>1. Times(records, e, s)' =
            Times(records, e, s) \cup {Len(records) + k : k \in Times(new, e, s)}
      BY RecordsAreAdded
    <3> QED BY <2>1, <3>1
  <2> QED BY <2>2, <2>3, <2>4
<1>4. RecordsFit'
  <2>1. Of(records, "created")' = Of(records, "created") /\ records'[1] = records[1]
    BY <1>3 DEF RecordsFit
  <2>2. /\ Of(records, "stage_start")' = Of(records, "stage_start")
        /\ \A s : Times(records, "stage_start", s)' = Times(records, "stage_start", s)
        /\ \A i \in Of(records, "stage_start") : records'[i] = records[i]
    BY <1>3
  <2>3. /\ Of(records, "stage_end")' = Of(records, "stage_end")
        /\ \A s : Times(records, "stage_end", s)' = Times(records, "stage_end", s)
        /\ \A i \in Of(records, "stage_end") : records'[i] = records[i]
    BY <1>3
  <2>4. /\ Of(records, "delivered")' = Of(records, "delivered")
        /\ \A i \in Of(records, "delivered") : records'[i] = records[i]
    BY <1>3
  <2>5. \A i \in Of(records, "stage_start") : records[i].at \in 2..(now + 1 - 1)
    BY <1>1 DEF RecordsFit
  <2>6. \A i \in Of(records, "stage_end") : records[i].at < now + 1
    <3> TAKE i \in Of(records, "stage_end")
    <3>1. records[i].at < now /\ records[i].at \in Nat
      BY RecordTimes DEF RecordsFit, Of
    <3> QED BY <1>1, <3>1
  <2>7. /\ \A i \in Of(records, "stage_start")' : records'[i].at \in 2..(now' - 1)
        /\ \A i \in Of(records, "stage_end")' : records'[i].at < now'
    <3>1. \A a : a \in 2..(now + 1 - 1) => a \in 2..(now' - 1)
      BY <1>1
    <3>2. \A a : a < now + 1 => a < now'
      OBVIOUS
    <3> QED BY <2>2, <2>3, <2>5, <2>6, <3>1, <3>2, Zenon
  <2>8. /\ \A s \in ChainStages : s \in completed' <=> Times(records, "stage_start", s)' # {}
        /\ \A s \in completed' : Times(records, "stage_end", s)' # {}
    BY <2>2, <2>3 DEF RecordsFit
  <2>9. /\ finished' => completed' = ChainStages /\ Of(records, "delivered")' # {}
        /\ ~finished' => Of(records, "delivered")' = {}
        /\ \A i \in Of(records, "delivered")', j \in Of(records, "stage_end")' :
             records'[j].at <= records'[i].at
    BY <2>3, <2>4 DEF RecordsFit
  <2> QED BY <2>1, <2>7, <2>8, <2>9 DEF RecordsFit
<1>5. \A s \in completed' : Follows(s, StartOf(records, s)')
  BY StartStays DEF ChainIsTimed, Follows
<1> QED BY <1>4, <1>5

\* The records of a result, one after another.
LEMMA JoinedRecords ==
  ASSUME NEW S, NEW a \in S, NEW b \in S, NEW c \in S, NEW d \in S
  PROVE  /\ <<a>> \o <<b, c>> \o <<>> = <<a, b, c>>
         /\ <<a>> \o <<b, c>> \o <<d>> = <<a, b, c, d>>
<1>1. <<a>> \in Seq(S) /\ <<b, c>> \in Seq(S) /\ <<d>> \in Seq(S)
      /\ <<a, b, c>> \in Seq(S) /\ <<a, b, c, d>> \in Seq(S)
  OBVIOUS
<1> DEFINE x == <<a>> \o <<b, c>>
           y == <<a, b, c>> \o <<d>>
<1>2. x = <<a, b, c>>
  <2>1. x \in Seq(S) /\ Len(x) = 3 /\ x[1] = a /\ x[2] = b /\ x[3] = c
    BY <1>1, ConcatProperties
  <2> HIDE DEF x
  <2> QED BY <1>1, <2>1, SeqEqual
<1>3. y = <<a, b, c, d>>
  <2>1. y \in Seq(S) /\ Len(y) = 4 /\ y[1] = a /\ y[2] = b /\ y[3] = c /\ y[4] = d
    BY <1>1, ConcatProperties
  <2> HIDE DEF y
  <2> QED BY <1>1, <2>1, SeqEqual
<1> QED BY <1>1, <1>2, <1>3, ConcatEmptySeq

\* What the first result of a stage, or one that repeats it in time, adds.
LEMMA TimingRecords ==
  ASSUME TracesTypes, ~finished, NEW m \in reports
  PROVE  \E new \in Seq(Recorded) :
           /\ new = ResultRecords(m)
           /\ \A e \in {"created", "dispatched"} : Of(new, e) = {}
           /\ Of(new, "stage_start") = {2} /\ new[2] = Record(m.stage, "stage_start", m.start)
           /\ Of(new, "stage_end") = {3} /\ new[3] = Record(m.stage, "stage_end", m.end)
           /\ IF completed \cup {m.stage} = ChainStages
              THEN Of(new, "delivered") = {4} /\ new[4].at = now
              ELSE Of(new, "delivered") = {}
<1>1. m.stage \in 0..ChainLength /\ m.start \in Nat /\ m.end \in Nat /\ now \in Nat
  BY TracesAssumption DEF TracesTypes, ChainStages
<1> DEFINE a == Record(m.stage, "stage_result_received", now)
           b == Record(m.stage, "stage_start", m.start)
           c == Record(m.stage, "stage_end", m.end)
           d == Record(m.stage, "delivered", now)
<1>2. a \in Recorded /\ b \in Recorded /\ c \in Recorded /\ d \in Recorded
  BY <1>1 DEF Record, Recorded
<1>3. a.event = "stage_result_received" /\ b.event = "stage_start" /\ c.event = "stage_end"
      /\ d.event = "delivered" /\ d.at = now
  BY DEF Record
<1> HIDE DEF a, b, c, d
<1>4. CASE completed \cup {m.stage} = ChainStages
  <2>1. ResultRecords(m) = <<a>> \o <<b, c>> \o <<d>>
    BY <1>4 DEF ResultRecords, Received, Timing, a, b, c, d
  <2>2. ResultRecords(m) = <<a, b, c, d>>
    BY <1>2, <2>1, JoinedRecords
  <2> DEFINE new == <<a, b, c, d>>
  <2>3. new \in Seq(Recorded) /\ DOMAIN new = {1, 2, 3, 4}
    BY <1>2
  <2>4. new[1] = a /\ new[2] = b /\ new[3] = c /\ new[4] = d
    OBVIOUS
  <2> HIDE DEF new
  <2>5. /\ \A e \in {"created", "dispatched"} : Of(new, e) = {}
        /\ Of(new, "stage_start") = {2} /\ Of(new, "stage_end") = {3}
        /\ Of(new, "delivered") = {4}
    BY <1>3, <2>3, <2>4 DEF Of
  <2> QED BY <1>3, <1>4, <2>2, <2>3, <2>4, <2>5 DEF new, b, c
<1>5. CASE completed \cup {m.stage} # ChainStages
  <2>1. ResultRecords(m) = <<a>> \o <<b, c>> \o << >>
    BY <1>5 DEF ResultRecords, Received, Timing, a, b, c, d
  <2>2. ResultRecords(m) = <<a, b, c>>
    BY <1>2, <2>1, JoinedRecords
  <2> DEFINE new == <<a, b, c>>
  <2>3. new \in Seq(Recorded) /\ DOMAIN new = {1, 2, 3}
    BY <1>2
  <2>4. new[1] = a /\ new[2] = b /\ new[3] = c
    OBVIOUS
  <2> HIDE DEF new
  <2>5. /\ \A e \in {"created", "dispatched"} : Of(new, e) = {}
        /\ Of(new, "stage_start") = {2} /\ Of(new, "stage_end") = {3}
        /\ Of(new, "delivered") = {}
    BY <1>3, <2>3, <2>4 DEF Of
  <2> QED BY <1>3, <1>5, <2>2, <2>3, <2>4, <2>5 DEF new, b, c
<1> QED BY <1>4, <1>5

\* A result in time completes its stage; its records start and end that stage.
LEMMA ResultFits ==
  ASSUME TracesInv, ~finished, NEW m \in reports, records' = records \o ResultRecords(m),
         completed' = completed \cup {m.stage}, finished' = (completed' = ChainStages),
         now' = now + 1
  PROVE  /\ RecordsFit' /\ \E new \in Seq(Recorded) : records' = records \o new
         /\ \A s \in completed' : Follows(s, StartOf(records, s)')
<1> USE DEF TracesInv
<1>1. /\ now \in Nat /\ m.stage \in ChainStages /\ m.start \in 2..(now - 1)
      /\ m.end \in 0..(now - 1)
  BY DEF TracesTypes
<1>2. PICK new \in Seq(Recorded) :
           /\ new = ResultRecords(m)
           /\ \A e \in {"created", "dispatched"} : Of(new, e) = {}
           /\ Of(new, "stage_start") = {2} /\ new[2] = Record(m.stage, "stage_start", m.start)
           /\ Of(new, "stage_end") = {3} /\ new[3] = Record(m.stage, "stage_end", m.end)
           /\ IF completed' = ChainStages
              THEN Of(new, "delivered") = {4} /\ new[4].at = now
              ELSE Of(new, "delivered") = {}
  BY TimingRecords
<1> DEFINE n == Len(records)
<1>3. /\ n \in Nat
      /\ \A i \in DOMAIN records : i \in DOMAIN records' /\ records'[i] = records[i]
      /\ \A e : Of(records, e)' = Of(records, e) \cup {n + k : k \in Of(new, e)}
      /\ \A e, s : Times(records, e, s)' = Times(records, e, s) \cup {n + k : k \in Times(new, e, s)}
      /\ \A k \in DOMAIN new : records'[n + k] = new[k]
  BY <1>2, RecordsAreAdded
<1> HIDE DEF n
<1>4. Of(records, "created")' = {1} /\ records'[1] = records[1]
  <2>1. Of(new, "created") = {} /\ Of(records, "created") = {1}
    BY <1>2 DEF RecordsFit
  <2>2. Of(records, "created")' = Of(records, "created") \cup {n + k : k \in Of(new, "created")}
    BY <1>3
  <2>3. 1 \in DOMAIN records
    BY <2>1 DEF Of
  <2> QED BY <1>3, <2>1, <2>2, <2>3
<1>5. /\ Of(records, "stage_start")' = Of(records, "stage_start") \cup {n + 2}
      /\ records'[n + 2] = new[2]
      /\ \A s : Times(records, "stage_start", s)' =
                  Times(records, "stage_start", s) \cup (IF s = m.stage THEN {n + 2} ELSE {})
  <2>1. 2 \in DOMAIN new /\ Of(new, "stage_start") = {2}
    BY <1>2 DEF Of
  <2>2. \A s : Times(new, "stage_start", s) = IF s = m.stage THEN {2} ELSE {}
    BY <1>2 DEF Times, Record
  <2>3. Of(records, "stage_start")' =
          Of(records, "stage_start") \cup {n + k : k \in Of(new, "stage_start")}
    BY <1>3
  <2>4. ASSUME NEW s
        PROVE  Times(records, "stage_start", s)' =
                 Times(records, "stage_start", s) \cup (IF s = m.stage THEN {n + 2} ELSE {})
    <3>1. Times(records, "stage_start", s)' =
            Times(records, "stage_start", s) \cup {n + k : k \in Times(new, "stage_start", s)}
      BY <1>3
    <3>2. CASE s = m.stage
      <4>1. Times(new, "stage_start", s) = {2}
        BY <2>2, <3>2
      <4> QED BY <3>1, <3>2, <4>1
    <3>3. CASE s # m.stage
      <4>1. Times(new, "stage_start", s) = {}
        BY <2>2, <3>3
      <4> QED BY <3>1, <3>3, <4>1
    <3> QED BY <3>2, <3>3
  <2>5. Of(records, "stage_start")' = Of(records, "stage_start") \cup {n + 2}
    BY <2>1, <2>3
  <2>6. records'[n + 2] = new[2]
    BY <1>3, <2>1
  <2> QED BY <2>4, <2>5, <2>6
<1>6. /\ Of(records, "stage_end")' = Of(records, "stage_end") \cup {n + 3}
      /\ records'[n + 3] = new[3]
      /\ \A s : /\ Times(records, "stage_end", s) \subseteq Times(records, "stage_end", s)'
                /\ s = m.stage => n + 3 \in Times(records, "stage_end", s)'
  <2>1. 3 \in DOMAIN new /\ Of(new, "stage_end") = {3}
    BY <1>2 DEF Of
  <2>2. 3 \in Times(new, "stage_end", m.stage)
    BY <1>2, <2>1 DEF Times, Record
  <2>3. Of(records, "stage_end")' =
          Of(records, "stage_end") \cup {n + k : k \in Of(new, "stage_end")}
    BY <1>3
  <2>4. ASSUME NEW s
        PROVE  /\ Times(records, "stage_end", s) \subseteq Times(records, "stage_end", s)'
               /\ s = m.stage => n + 3 \in Times(records, "stage_end", s)'
    <3>1. Times(records, "stage_end", s)' =
            Times(records, "stage_end", s) \cup {n + k : k \in Times(new, "stage_end", s)}
      BY <1>3
    <3> QED BY <2>2, <3>1
  <2>5. Of(records, "stage_end")' = Of(records, "stage_end") \cup {n + 3}
    BY <2>1, <2>3
  <2>6. records'[n + 3] = new[3]
    BY <1>3, <2>1
  <2> QED BY <2>4, <2>5, <2>6
<1>7. /\ completed' = ChainStages =>
           Of(records, "delivered")' = {n + 4} /\ records'[n + 4].at = now
      /\ completed' # ChainStages => Of(records, "delivered")' = {}
  <2>1. Of(records, "delivered") = {}
    BY DEF RecordsFit
  <2>2. Of(records, "delivered")' = {n + k : k \in Of(new, "delivered")}
    BY <1>3, <2>1
  <2>3. CASE completed' = ChainStages
    <3>1. Of(new, "delivered") = {4} /\ new[4].at = now
      BY <1>2, <2>3
    <3>2. 4 \in DOMAIN new
      BY <3>1 DEF Of
    <3>3. records'[n + 4] = new[4]
      BY <1>3, <3>2
    <3>4. Of(records, "delivered")' = {n + 4}
      BY <2>2, <3>1
    <3> QED BY <2>3, <3>1, <3>3, <3>4
  <2>4. CASE completed' # ChainStages
    <3>1. Of(new, "delivered") = {}
      BY <1>2, <2>4
    <3> QED BY <2>2, <2>4, <3>1
  <2> QED BY <2>3, <2>4
<1>8. \A i \in Of(records, "stage_start")' : records'[i].at \in 2..(now' - 1)
  <2> SUFFICES ASSUME NEW i \in Of(records, "stage_start")'
               PROVE  records'[i].at \in 2..(now' - 1)
    OBVIOUS
  <2>1. CASE i \in Of(records, "stage_start")
    <3>1. records'[i] = records[i] /\ records[i].at \in 2..(now - 1)
      BY <1>3, <2>1 DEF RecordsFit, Of
    <3> QED BY <1>1, <3>1
  <2>2. CASE i = n + 2
    <3>1. records'[i] = Record(m.stage, "stage_start", m.start)
      BY <1>2, <1>5, <2>2
    <3>2. records'[i].at = m.start
      BY <3>1 DEF Record
    <3> QED BY <1>1, <3>2
  <2> QED BY <1>5, <2>1, <2>2
<1>9. \A i \in Of(records, "stage_end")' : records'[i].at \in Nat /\ records'[i].at < now
  <2> SUFFICES ASSUME NEW i \in Of(records, "stage_end")'
               PROVE  records'[i].at \in Nat /\ records'[i].at < now
    OBVIOUS
  <2>1. CASE i \in Of(records, "stage_end")
    <3>1. records'[i] = records[i] /\ records[i].at < now /\ records[i].at \in Nat
      BY <1>3, <2>1, RecordTimes DEF RecordsFit, Of
    <3> QED BY <3>1
  <2>2. CASE i = n + 3
    <3>1. records'[i] = Record(m.stage, "stage_end", m.end)
      BY <1>2, <1>6, <2>2
    <3>2. records'[i].at = m.end
      BY <3>1 DEF Record
    <3> QED BY <1>1, <3>2
  <2> QED BY <1>6, <2>1, <2>2
<1>10. RecordsFit'
  <2>1. ASSUME NEW i \in Of(records, "stage_end")'
        PROVE  records'[i].at < now'
    <3>1. records'[i].at \in Nat /\ records'[i].at < now
      BY <1>9
    <3>2. \A a \in Nat : a < now => a < now'
      BY <1>1
    <3> QED BY <3>1, <3>2
  <2>2. ASSUME NEW s \in ChainStages
        PROVE  s \in completed' <=> Times(records, "stage_start", s)' # {}
    <3>1. s \in completed <=> Times(records, "stage_start", s) # {}
      BY DEF RecordsFit
    <3> QED BY <1>5, <3>1
  <2>3. ASSUME NEW s \in completed'
        PROVE  Times(records, "stage_end", s)' # {}
    <3>1. CASE s \in completed
      <4>1. Times(records, "stage_end", s) # {}
        BY <3>1 DEF RecordsFit
      <4> QED BY <1>6, <4>1
    <3>2. CASE s = m.stage
      BY <1>6, <3>2
    <3> QED BY <3>1, <3>2
  <2>4. \A i \in Of(records, "delivered")', j \in Of(records, "stage_end")' :
          records'[j].at <= records'[i].at
    <3> SUFFICES ASSUME NEW i \in Of(records, "delivered")', NEW j \in Of(records, "stage_end")'
                 PROVE  records'[j].at <= records'[i].at
      OBVIOUS
    <3>1. records'[i].at = now
      BY <1>7
    <3>2. records'[j].at \in Nat /\ records'[j].at < now
      BY <1>9
    <3>3. \A a \in Nat : a < now => a <= now
      BY <1>1
    <3> QED BY <3>1, <3>2, <3>3
  <2>5. records'[1].at = 1
    BY <1>4 DEF RecordsFit
  <2> QED BY <1>4, <1>7, <1>8, <2>1, <2>2, <2>3, <2>4, <2>5 DEF RecordsFit
<1>11. ASSUME NEW s \in completed'
       PROVE  Follows(s, StartOf(records, s)')
  <2>1. CASE s \in completed
    <3>1. StartOf(records, s)' = StartOf(records, s)
      BY <1>2, <2>1, StartStays
    <3> QED BY <2>1, <3>1 DEF ChainIsTimed
  <2>2. CASE s \notin completed
    <3>1. s = m.stage /\ Times(records, "stage_start", s) = {}
      BY <1>1, <2>2 DEF RecordsFit
    <3>2. Times(records, "stage_start", s)' = {n + 2}
      BY <1>5, <3>1
    <3>3. Min({n + 2}) = n + 2
      BY <1>3 DEF Min
    <3>4. StartOf(records, s)' = records'[n + 2].at
      BY <3>2, <3>3 DEF StartOf
    <3>5. StartOf(records, s)' = m.start
      BY <1>2, <1>5, <3>4 DEF Record
    <3>6. Follows(m.stage, m.start)
      BY DEF ChainIsTimed
    <3> QED BY <3>1, <3>5, <3>6
  <2> QED BY <2>1, <2>2
<1> QED BY <1>2, <1>10, <1>11

\* Time passes: what lay in the past still does.
LEMMA PastStays ==
  ASSUME TracesTypes, now' = now + 1
  PROVE  /\ now' \in Nat /\ 2 <= now' /\ now \in 2..(now' - 1)
         /\ \A a \in 2..(now - 1) : a \in 2..(now' - 1)
         /\ \A a \in 0..(now - 1) : a \in 0..(now' - 1)
BY DEF TracesTypes

\* A step that leaves records alone appends nothing.
LEMMA NothingAdded ==
  ASSUME TracesInv, records' = records
  PROVE  <<>> \in Seq(Recorded) /\ records' = records \o <<>> /\ DOMAIN <<>> = {}
BY ConcatEmptySeq DEF TracesInv, TracesTypes

\* A stage goes to a worker, for the first time or again.
LEMMA SendFits ==
  ASSUME TracesInv, NEW s \in ChainStages, NEW n \in ExecNodes, Dispatch(s, n) \/ Resend(s, n)
  PROVE  TracesInv'
<1> USE DEF TracesInv
<1>1. now \in Nat /\ now' = now + 1
  BY DEF TracesTypes, Dispatch, Resend, Next1
<1>2. \E new \in Seq(Recorded) :
        /\ records' = records \o new
        /\ \A k \in DOMAIN new : new[k].event \in {"dispatched", "stage_result_received"}
  <2>1. CASE Dispatch(s, n)
    <3> DEFINE r == Record(s, "dispatched", now)
    <3>1. r \in Recorded /\ r.event = "dispatched"
      BY <1>1, TracesAssumption DEF Record, Recorded, ChainStages
    <3>2. records' = records \o <<r>>
      BY <2>1, <3>1, AppendIsConcat DEF Dispatch, TracesTypes
    <3> HIDE DEF r
    <3>3. <<r>> \in Seq(Recorded) /\ \A k \in DOMAIN <<r>> : <<r>>[k] = r
      BY <3>1
    <3> QED BY <3>1, <3>2, <3>3
  <2>2. CASE Resend(s, n)
    BY <2>2, NothingAdded DEF Resend
  <2> QED BY <2>1, <2>2
<1>3. PICK new \in Seq(Recorded) :
        /\ records' = records \o new
        /\ \A k \in DOMAIN new : new[k].event \in {"dispatched", "stage_result_received"}
  BY <1>2
<1>4. /\ UNCHANGED <<completed, finished, reports>>
      /\ DOMAIN ranOn' \subseteq DOMAIN ranOn \cup {s}
      /\ s \in DOMAIN ranOn \/ 1..(s - 1) \subseteq completed
      /\ \A m \in runs' : m \in runs \/ (m.stage = s /\ m.start = now)
  BY DEF Dispatch, Resend, PlacedOn
<1>5. RecordsFit' /\ \A t \in completed' : Follows(t, StartOf(records, t)')
  BY <1>1, <1>3, <1>4, IdleRecords
<1>6. Follows(s, now)
  <2>1. ASSUME 1..(s - 1) \subseteq completed, NEW t \in 1..(s - 1)
        PROVE  t \in completed /\ StartOf(records, t) < now
    <3>1. t \in completed /\ StartOf(records, t) \in 2..(now - 1)
      BY <2>1, StartIsRecorded
    <3> QED BY <1>1, <3>1
  <2> QED BY <1>4, <2>1 DEF ChainIsTimed, Follows
<1>7. ChainIsTimed'
  <2>1. \A t \in DOMAIN ranOn' : Follows(t, now)
    BY <1>4, <1>6 DEF ChainIsTimed
  <2>2. \A m \in (runs \cup reports)' : Follows(m.stage, m.start)
    BY <1>4, <1>6 DEF ChainIsTimed
  <2> QED BY <1>1, <1>3, <1>4, <1>5, <2>1, <2>2, TimedStep
<1>8. TracesTypes'
  <2>1. records' \in Seq(Recorded)
    BY <1>3, RecordsAreAdded
  <2>2. \A m \in (runs \cup reports)' : m.stage \in ChainStages /\ m.start \in 2..(now' - 1)
    BY <1>1, <1>4, PastStays DEF TracesTypes
  <2>3. \A m \in reports' : m.end \in 0..(now' - 1)
    BY <1>1, <1>4, PastStays DEF TracesTypes
  <2> QED BY <1>1, <1>4, <2>1, <2>2, <2>3, PastStays DEF TracesTypes
<1> QED BY <1>5, <1>7, <1>8

\* A worker ends its run of a stage and reports it.
LEMMA FinishFits ==
  ASSUME TracesInv, NEW run \in runs, Finish(run)
  PROVE  TracesInv'
<1> USE DEF TracesInv
<1>1. now' = now + 1 /\ records' = records /\ UNCHANGED <<ranOn, completed, finished>>
  BY DEF Finish, Next1
<1>2. /\ \A m \in (runs \cup reports)' :
           \E k \in runs \cup reports : m.stage = k.stage /\ m.start = k.start
      /\ \A m \in reports' : m \in reports \/ m.end = now
  BY DEF Finish
<1>3. <<>> \in Seq(Recorded) /\ records' = records \o <<>> /\ DOMAIN <<>> = {}
  BY <1>1, NothingAdded
<1>4. RecordsFit' /\ \A t \in completed' : Follows(t, StartOf(records, t)')
  BY <1>1, <1>3, IdleRecords
<1>5. ChainIsTimed'
  <2>1. \A t \in DOMAIN ranOn' : Follows(t, now)
    BY <1>1 DEF ChainIsTimed
  <2>2. \A m \in (runs \cup reports)' : Follows(m.stage, m.start)
    BY <1>2 DEF ChainIsTimed
  <2> QED BY <1>1, <1>3, <1>4, <2>1, <2>2, TimedStep
<1>6. TracesTypes'
  <2>1. \A m \in (runs \cup reports)' : m.stage \in ChainStages /\ m.start \in 2..(now' - 1)
    BY <1>1, <1>2, PastStays DEF TracesTypes
  <2>2. \A m \in reports' : m.end \in 0..(now' - 1)
    <3>1. now \in 0..(now' - 1)
      BY <1>1 DEF TracesTypes
    <3> QED BY <1>1, <1>2, <3>1, PastStays DEF TracesTypes
  <2> QED BY <1>1, <2>1, <2>2, PastStays DEF TracesTypes
<1> QED BY <1>4, <1>5, <1>6

\* A result arrives, in time or when the pipeline is finished.
LEMMA ResultArrives ==
  ASSUME TracesInv, NEW m \in reports, Result(m)
  PROVE  TracesInv'
<1> USE DEF TracesInv
<1>1. /\ now' = now + 1 /\ records' = records \o ResultRecords(m) /\ runs' = runs
      /\ DOMAIN ranOn' \subseteq DOMAIN ranOn \cup {m.stage} /\ reports' \subseteq reports
  BY DEF Result, Next1, PlacedOn
<1>2. m.stage \in ChainStages /\ now \in Nat
  BY DEF TracesTypes
<1>3. /\ completed \subseteq completed' /\ completed' \subseteq ChainStages
      /\ RecordsFit' /\ \E new \in Seq(Recorded) : records' = records \o new
      /\ \A s \in completed' : Follows(s, StartOf(records, s)')
  <2>1. CASE ~finished
    <3>1. completed' = completed \cup {m.stage} /\ finished' = (completed' = ChainStages)
      BY <2>1 DEF Result
    <3> QED BY <1>1, <1>2, <2>1, <3>1, ResultFits DEF TracesTypes
  <2>2. CASE finished
    <3> DEFINE r == Record(m.stage, "stage_result_received", now)
    <3>1. UNCHANGED <<completed, finished>> /\ ResultRecords(m) = <<r>>
      BY <2>2 DEF Result, ResultRecords, Received
    <3>2. r \in Recorded /\ r.event = "stage_result_received"
      BY <1>2, TracesAssumption DEF Record, Recorded, ChainStages
    <3> HIDE DEF r
    <3>3. <<r>> \in Seq(Recorded) /\ \A k \in DOMAIN <<r>> : <<r>>[k] = r
      BY <3>2
    <3>4. RecordsFit' /\ \A s \in completed' : Follows(s, StartOf(records, s)')
      BY <1>1, <3>1, <3>2, <3>3, IdleRecords
    <3> QED BY <1>1, <3>1, <3>3, <3>4 DEF TracesTypes
  <2> QED BY <2>1, <2>2
<1>4. PICK new \in Seq(Recorded) : records' = records \o new
  BY <1>3
<1>5. ChainIsTimed'
  <2>1. Follows(m.stage, now)
    <3>1. ASSUME NEW t \in 1..(m.stage - 1)
          PROVE  t \in completed /\ StartOf(records, t) < now
      <4>1. Follows(m.stage, m.start)
        BY DEF ChainIsTimed
      <4>2. t \in completed
        BY <4>1 DEF Follows
      <4>3. StartOf(records, t) \in 2..(now - 1)
        BY <4>2, StartIsRecorded
      <4> QED BY <1>2, <4>2, <4>3
    <3> QED BY <3>1 DEF Follows
  <2>2. \A t \in DOMAIN ranOn' : Follows(t, now)
    BY <1>1, <2>1 DEF ChainIsTimed
  <2>3. \A k \in (runs \cup reports)' : Follows(k.stage, k.start)
    BY <1>1 DEF ChainIsTimed
  <2> QED BY <1>1, <1>3, <1>4, <2>2, <2>3, TimedStep
<1>6. TracesTypes'
  <2>1. records' \in Seq(Recorded)
    BY <1>4, RecordsAreAdded
  <2>2. \A k \in (runs \cup reports)' : k.stage \in ChainStages /\ k.start \in 2..(now' - 1)
    BY <1>1, PastStays DEF TracesTypes
  <2>3. \A k \in reports' : k.end \in 0..(now' - 1)
    BY <1>1, PastStays DEF TracesTypes
  <2> QED BY <1>1, <1>2, <1>3, <2>1, <2>2, <2>3, PastStays DEF TracesTypes
<1> QED BY <1>3, <1>5, <1>6

\* Every step keeps the invariant.
LEMMA TracesInvariance == TracesSpec => []TracesInv
<1>1. TracesInit => TracesInv
  BY TracesStart
<1>2. TracesInv /\ [TracesNext]_traceVars => TracesInv'
  <2> SUFFICES ASSUME TracesInv, [TracesNext]_traceVars
               PROVE  TracesInv'
    OBVIOUS
  <2>1. CASE UNCHANGED traceVars
    <3>1. TracesTypes'
      BY <2>1 DEF TracesInv, TracesTypes, traceVars
    <3>2. RecordsFit'
      BY <2>1 DEF TracesInv, RecordsFit, Of, Times, traceVars
    <3>3. ChainIsTimed'
      BY <2>1 DEF TracesInv, ChainIsTimed, Follows, StartOf, Times, Of, traceVars
    <3> QED BY <3>1, <3>2, <3>3 DEF TracesInv
  <2> QED BY <2>1, SendFits, FinishFits, ResultArrives DEF TracesNext
<1> QED BY <1>1, <1>2, PTL DEF TracesSpec

\* Of a finished pipeline: every stage lies between its creation and its end.
LEMMA StagesLieWithin ==
  ASSUME TracesInv, finished
  PROVE  StageWithinPipeline
<1> USE DEF TracesInv
<1>1. Len(records) \in Nat /\ \A e : Of(records, e) \subseteq 1..Len(records)
  BY DEF TracesTypes, Of
<1>2. CreatedAt(records) = 1
  <2>1. Min({1}) = 1
    BY DEF Min
  <2> QED BY <2>1 DEF RecordsFit, CreatedAt
<1>3. /\ DeliveredAt(records) \in Nat
      /\ \A j \in Of(records, "stage_end") : records[j].at <= DeliveredAt(records)
  <2> DEFINE last == Max(Of(records, "delivered"))
  <2>1. last \in Of(records, "delivered")
    BY <1>1, EndsOfAPart DEF RecordsFit
  <2>2. last \in DOMAIN records
    BY <2>1 DEF Of
  <2> QED BY <2>1, <2>2, RecordTimes DEF RecordsFit, DeliveredAt
<1>4. ASSUME NEW s \in ChainStages
      PROVE  /\ StartOf(records, s) >= CreatedAt(records)
             /\ EndOf(records, s) <= DeliveredAt(records)
             /\ StageLatency(records, s) <= EndToEndLatency(records)
  <2>1. s \in completed
    BY DEF RecordsFit
  <2>2. StartOf(records, s) \in 2..(now - 1)
    BY <2>1, StartIsRecorded
  <2> DEFINE last == Max(Times(records, "stage_end", s))
  <2>3. last \in Times(records, "stage_end", s)
    <3>1. Times(records, "stage_end", s) \subseteq 1..Len(records)
      BY <1>1 DEF Times
    <3> QED BY <1>1, <2>1, <3>1, EndsOfAPart DEF RecordsFit
  <2>4. last \in Of(records, "stage_end") /\ last \in DOMAIN records
    BY <2>3 DEF Times, Of
  <2>5. EndOf(records, s) \in Nat /\ EndOf(records, s) <= DeliveredAt(records)
    BY <1>3, <2>4, RecordTimes DEF EndOf
  <2>6. now \in Nat
    BY DEF TracesTypes
  <2> QED BY <1>2, <1>3, <2>2, <2>5, <2>6 DEF StageLatency, EndToEndLatency
<1> QED BY <1>4 DEF StageWithinPipeline

\* Of a finished pipeline: sorted by their starts, the stages are the chain.
LEMMA ChainIsSorted ==
  ASSUME TracesInv, finished
  PROVE  Consecutive(records) = {<<s, s + 1>> : s \in 1..(ChainLength - 1)}
<1> USE DEF TracesInv
<1>1. ChainLength \in Nat \ {0} /\ now \in Nat
  BY TracesAssumption DEF TracesTypes
<1>2. Started(records) = 1..ChainLength /\ completed = 1..ChainLength
  BY DEF RecordsFit, Started, ChainStages
<1>3. \A s \in 1..ChainLength : StartOf(records, s) \in Nat
  <2> TAKE s \in 1..ChainLength
  <2>1. StartOf(records, s) \in 2..(now - 1)
    BY <1>2, StartIsRecorded
  <2> QED BY <1>1, <2>1
<1>4. \A s, t \in 1..ChainLength : t < s => StartOf(records, t) < StartOf(records, s)
  <2> SUFFICES ASSUME NEW s \in 1..ChainLength, NEW t \in 1..ChainLength, t < s
               PROVE  StartOf(records, t) < StartOf(records, s)
    OBVIOUS
  <2>1. t \in 1..(s - 1)
    BY <1>1
  <2> QED BY <1>2, <2>1 DEF ChainIsTimed, Follows
<1>5. \A s, t \in 1..ChainLength : Earlier(records, s, t) <=> s < t
  <2> SUFFICES ASSUME NEW s \in 1..ChainLength, NEW t \in 1..ChainLength
               PROVE  Earlier(records, s, t) <=> s < t
    OBVIOUS
  <2>1. StartOf(records, s) \in Nat /\ StartOf(records, t) \in Nat
    BY <1>3
  <2>2. CASE s < t
    BY <1>4, <2>2 DEF Earlier
  <2>3. CASE s = t
    <3>1. Min(Times(records, "stage_start", s)) \in Nat
      <4>1. Min(Times(records, "stage_start", s)) \in DOMAIN records
        BY <1>2, StartIsRecorded DEF Times, Of
      <4> QED BY <4>1 DEF TracesTypes
    <3> QED BY <1>1, <2>1, <2>3, <3>1 DEF Earlier
  <2>4. CASE t < s
    <3>1. StartOf(records, t) < StartOf(records, s)
      BY <1>4, <2>4
    <3> QED BY <1>1, <2>1, <2>4, <3>1 DEF Earlier
  <2> QED BY <1>1, <2>2, <2>3, <2>4
<1>6. ASSUME NEW s \in 1..ChainLength, NEW t \in 1..ChainLength
      PROVE  (s < t /\ ~\E u \in 1..ChainLength : s < u /\ u < t) <=> t = s + 1
  <2>1. CASE s < t /\ t # s + 1
    <3>1. s + 1 \in 1..ChainLength /\ s < s + 1 /\ s + 1 < t
      BY <1>1, <2>1
    <3> QED BY <2>1, <3>1
  <2> QED BY <1>1, <2>1
<1>7. Consecutive(records) =
        {e \in (1..ChainLength) \X (1..ChainLength) : e[2] = e[1] + 1}
  <2>1. \A e \in (1..ChainLength) \X (1..ChainLength) :
          (/\ Earlier(records, e[1], e[2])
           /\ ~\E u \in 1..ChainLength : Earlier(records, e[1], u) /\ Earlier(records, u, e[2]))
            <=> e[2] = e[1] + 1
    BY <1>5, <1>6
  <2> QED BY <1>2, <2>1 DEF Consecutive
<1>8. ASSUME NEW e \in (1..ChainLength) \X (1..ChainLength), e[2] = e[1] + 1
      PROVE  e[1] \in 1..(ChainLength - 1) /\ e = <<e[1], e[1] + 1>>
  BY <1>1, <1>8
<1>9. ASSUME NEW s \in 1..(ChainLength - 1)
      PROVE  <<s, s + 1>> \in (1..ChainLength) \X (1..ChainLength)
  BY <1>1
<1> QED BY <1>7, <1>8, <1>9

\* The latencies of a finished pipeline fit into it, and its crossings are those
\* of its edges, for any chain and any number of stages sent or reported twice.
\* (stage_latencies_ms, domain_crossings)
THEOREM FiguresFitTheRunHolds == TracesSpec => []FiguresFitTheRun
<1>1. ASSUME TracesInv, finished
      PROVE  DomainCrossings(records, ranOn) =
               Cardinality({s \in 1..(ChainLength - 1) : Crosses(ranOn, s, s + 1)})
  <2> DEFINE S == {s \in 1..(ChainLength - 1) : Crosses(ranOn, s, s + 1)}
             E == {e \in Consecutive(records) : Crosses(ranOn, e[1], e[2])}
             f == [s \in S |-> <<s, s + 1>>]
  <2>1. ChainLength - 1 \in Int
    BY TracesAssumption
  <2>2. IsFiniteSet(S)
    <3>1. IsFiniteSet(1..(ChainLength - 1))
      BY <2>1, FS_Interval
    <3>2. S \in SUBSET (1..(ChainLength - 1))
      OBVIOUS
    <3> QED BY <3>1, <3>2, FS_Subset
  <2>3. f \in Bijection(S, E)
    <3>1. E = {<<s, s + 1>> : s \in S}
      BY <1>1, ChainIsSorted
    <3>2. f \in Surjection(S, E)
      BY <3>1 DEF Surjection
    <3>3. f \in Injection(S, E)
      BY <3>1 DEF Injection, IsInjective
    <3> QED BY <3>2, <3>3 DEF Bijection
  <2>4. Cardinality(S) = Cardinality(E)
    <3>1. ExistsBijection(S, E)
      BY <2>3 DEF ExistsBijection
    <3> HIDE DEF S, E
    <3> QED BY <2>2, <3>1, FS_Bijection
  <2> QED BY <2>4 DEF DomainCrossings
<1>2. TracesInv => FiguresFitTheRun
  BY <1>1, StagesLieWithin DEF FiguresFitTheRun, CrossingsAreEdges, StageWithinPipeline
<1> QED BY <1>2, TracesInvariance, PTL
=============================================================================
