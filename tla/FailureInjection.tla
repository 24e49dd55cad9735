--------------------------- MODULE FailureInjection ---------------------------
(***************************************************************************)
(* The failure injector of the experiments: scenarios that run as tasks of *)
(* their own, each killing containers or cutting links through Docker and  *)
(* restoring them after a while, a final cleanup, and the tracker that     *)
(* turns the recorded events into adaptation times.                        *)
(*                                                                         *)
(* A call of Docker takes effect while the task waits for it; what the     *)
(* task does next, it does when it is resumed.                             *)
(***************************************************************************)
EXTENDS AdaptationTracker, SequencesExt

CONSTANTS
  Containers,   \* containers that can be killed
  Links,        \* <<container, network>> pairs that can be cut
  Scenarios,    \* a scenario: its type, its targets in order, and whether it ends by itself
  MaxErrors     \* bound: errors of Docker

ASSUME FailureAssumption ==
  \A s \in Scenarios :
    /\ s.type \in {"worker_kill", "broker_kill", "network_partition", "partial_input"}
    /\ s.targets # <<>>
    /\ s.targets \in Seq(IF s.type = "network_partition" THEN Links ELSE Containers)

VARIABLES
  task,        \* task[s]: where scenario s is, and the target it is at
  down,        \* containers that do not run and links that are cut
  killed,      \* _killed
  partitions,  \* _partitions
  log,         \* the tracker's _events; an event's place stands for its time
  cleaning,    \* where cleanup is: "no", "links", "containers", "done"
  unrestored,  \* what cleanup tried to restore in vain
  overtaken,   \* containers killed again before their restart was booked
  errors       \* errors of Docker so far

books == <<killed, partitions>>
failureVars == <<task, down, books, log, cleaning, unrestored, overtaken, errors>>

FailureInit ==
  /\ task = [s \in Scenarios |-> [at |-> "delayed", i |-> 1]]
  /\ down = {}
  /\ killed = {}
  /\ partitions = {}
  /\ log = <<>>
  /\ cleaning = "no"
  /\ unrestored = {}
  /\ overtaken = {}
  /\ errors = 0

-----------------------------------------------------------------------------
(* run_scenario and what it calls.                                          *)

Target(s) == s.targets[task[s].i]
IsLast(s) == task[s].i = Len(s.targets)
Cuts(s) == s.type = "network_partition"

\* The type kill_worker and restart_worker record; kill_partial_inputs calls
\* them for each container and records the whole on top at the end.
RecordedType(s) == IF s.type = "partial_input" THEN "worker_kill" ELSE s.type
Whole(s, kind) ==
  IF s.type = "partial_input" /\ IsLast(s)
  THEN <<Event(kind, "partial_input", ToSet(s.targets))>>
  ELSE <<>>
Records(s, kind) == <<Event(kind, RecordedType(s), Target(s))>> \o Whole(s, kind)

GoTo(s, where) == task' = [task EXCEPT ![s] = [at |-> where, i |-> 1]]
Advance(s, where, after) ==
  IF IsLast(s) THEN GoTo(s, after)
  ELSE task' = [task EXCEPT ![s] = [at |-> where, i |-> @.i + 1]]

\* An error of Docker, or one of the injector's own, ends the scenario:
\* run_scenarios gathers the exceptions and drops them.
Raise(s) == GoTo(s, "raised")

DockerFails ==
  /\ errors < MaxErrors
  /\ errors' = errors + 1

\* container.kill or network.disconnect takes effect; it fails when the
\* container does not run, or the link is cut already.
Inject(s) ==
  /\ task[s].at = "delayed"
  /\ Target(s) \notin down
  /\ down' = down \cup {Target(s)}
  /\ overtaken' = IF \E r \in Scenarios : task[r].at = "restarted" /\ Target(r) = Target(s)
                  THEN overtaken \cup {Target(s)} ELSE overtaken
  /\ task' = [task EXCEPT ![s].at = "injected"]
  /\ UNCHANGED <<books, log, cleaning, unrestored, errors>>

InjectFails(s) ==
  /\ task[s].at = "delayed"
  /\ \/ Target(s) \in down /\ UNCHANGED errors
     \/ DockerFails
  /\ Raise(s)
  /\ UNCHANGED <<down, books, log, cleaning, unrestored, overtaken>>

\* The task is resumed: it books the container or the link and records.
BookInjection(s) ==
  /\ task[s].at = "injected"
  /\ IF Cuts(s)
     THEN partitions' = partitions \cup {Target(s)} /\ UNCHANGED killed
     ELSE killed' = killed \cup {Target(s)} /\ UNCHANGED partitions
  /\ log' = log \o Records(s, "failure")
  /\ Advance(s, "delayed", IF s.ends THEN "active" ELSE "ended")
  /\ UNCHANGED <<down, cleaning, unrestored, overtaken, errors>>

\* duration_s is over: _auto_recover.
Expire(s) ==
  /\ task[s].at = "active"
  /\ GoTo(s, "restoring")
  /\ UNCHANGED <<down, books, log, cleaning, unrestored, overtaken, errors>>

\* restart_worker and restart_broker refuse what is not booked, then wait for
\* container.restart; heal_partition connects without looking.  The first form
\* books the restart before it waits.
CheckRestart_BooksFirst(s) ==
  /\ task[s].at = "restoring"
  /\ IF Cuts(s) \/ Target(s) \in killed
     THEN task' = [task EXCEPT ![s].at = "restarting"]
     ELSE Raise(s)
  /\ killed' = killed \ {Target(s)}
  /\ UNCHANGED <<down, partitions, log, cleaning, unrestored, overtaken, errors>>

CheckRestart(s) ==
  /\ task[s].at = "restoring"
  /\ IF Cuts(s) \/ Target(s) \in killed
     THEN task' = [task EXCEPT ![s].at = "restarting"]
     ELSE Raise(s)
  /\ UNCHANGED <<down, books, log, cleaning, unrestored, overtaken, errors>>

\* A running container is restarted all the same; a link that is up is not
\* connected twice.
RestartContainer(s) ==
  /\ task[s].at = "restarting"
  /\ Cuts(s) => Target(s) \in down
  /\ down' = down \ {Target(s)}
  /\ task' = [task EXCEPT ![s].at = "restarted"]
  /\ UNCHANGED <<books, log, cleaning, unrestored, overtaken, errors>>

RestartFails(s) ==
  /\ task[s].at = "restarting"
  /\ \/ Cuts(s) /\ Target(s) \notin down /\ UNCHANGED errors
     \/ DockerFails
  /\ Raise(s)
  /\ UNCHANGED <<down, books, log, cleaning, unrestored, overtaken>>

\* The task is resumed: deleting an entry that another restart has deleted is
\* a KeyError, and nothing is recorded.
BookRestart(s) ==
  /\ task[s].at = "restarted"
  /\ IF Cuts(s) \/ Target(s) \in killed
     THEN /\ log' = log \o Records(s, "recovery")
          /\ Advance(s, "restoring", "ended")
     ELSE Raise(s) /\ UNCHANGED log
  /\ killed' = killed \ {Target(s)}
  /\ partitions' = partitions \ {Target(s)}
  /\ UNCHANGED <<down, cleaning, unrestored, overtaken, errors>>

-----------------------------------------------------------------------------
(* cleanup, called when the scenarios have come to their end.               *)

StartCleanup ==
  /\ cleaning = "no"
  /\ \A s \in Scenarios : task[s].at \in {"ended", "raised"}
  /\ cleaning' = "links"
  /\ UNCHANGED <<task, down, books, log, unrestored, overtaken, errors>>

\* heal_partition records a recovery; an error is logged and the link stays.
CleanLink(l) ==
  /\ cleaning = "links"
  /\ l \in partitions \ unrestored
  /\ \/ /\ l \in down
        /\ down' = down \ {l}
        /\ partitions' = partitions \ {l}
        /\ log' = Append(log, Event("recovery", "network_partition", l))
        /\ UNCHANGED <<unrestored, errors>>
     \/ /\ (l \notin down /\ UNCHANGED errors) \/ DockerFails
        /\ unrestored' = unrestored \cup {l}
        /\ UNCHANGED <<down, partitions, log>>
  /\ UNCHANGED <<task, killed, cleaning, overtaken>>

CleanContainers ==
  /\ cleaning = "links"
  /\ partitions \subseteq unrestored
  /\ cleaning' = "containers"
  /\ UNCHANGED <<task, down, books, log, unrestored, overtaken, errors>>

\* A container is restarted and struck off the books; nothing is recorded.
CleanContainer(c) ==
  /\ cleaning = "containers"
  /\ c \in killed \ unrestored
  /\ \/ /\ down' = down \ {c}
        /\ killed' = killed \ {c}
        /\ UNCHANGED <<unrestored, errors>>
     \/ /\ DockerFails
        /\ unrestored' = unrestored \cup {c}
        /\ UNCHANGED <<down, killed>>
  /\ UNCHANGED <<task, partitions, log, cleaning, overtaken>>

FinishCleanup ==
  /\ cleaning = "containers"
  /\ killed \subseteq unrestored
  /\ cleaning' = "done"
  /\ UNCHANGED <<task, down, books, log, unrestored, overtaken, errors>>

-----------------------------------------------------------------------------
FailureNext ==
  \/ \E s \in Scenarios :
       \/ Inject(s) \/ InjectFails(s) \/ BookInjection(s) \/ Expire(s)
       \/ CheckRestart(s) \/ RestartContainer(s) \/ RestartFails(s) \/ BookRestart(s)
  \/ StartCleanup \/ CleanContainers \/ FinishCleanup
  \/ \E l \in Links : CleanLink(l)
  \/ \E c \in Containers : CleanContainer(c)

FailureSpec == FailureInit /\ [][FailureNext]_failureVars

\* After the cleanup everything runs again, whatever scenarios overlapped or
\* broke off, but for what Docker refused to restore and a container that was
\* killed again before its restart was booked.  (restart_worker, cleanup)
CleanupRestores == cleaning = "done" => down \subseteq unrestored \cup overtaken

\* As long as no container is killed between its restart and the booking, each
\* adaptation time runs from the failure of that very outage: the last one of
\* its key before the recovery.  (adaptation_times_ms)
OutagesAreMeasured ==
  overtaken = {} =>
    \A o \in AdaptationOutages(log) :
      /\ log[o.from] = [kind |-> "failure", key |-> o.key]
      /\ \A i \in (o.from + 1)..(o.to - 1) : log[i].key # o.key
=============================================================================
