--------------------------- MODULE AdaptationTracker ---------------------------
(***************************************************************************)
(* The matching of failures and recoveries in the AdaptationTracker.  The  *)
(* failure injector and every neural broker have one of their own; events  *)
(* are logged as they happen, so that the place of one stands for its time *)
(* and sorting by time changes nothing.                                    *)
(***************************************************************************)
EXTENDS Naturals, Sequences

\* The kinds are "failure", "detected" (is_detection_complete) and "recovery".
Event(kind, type, target) == [kind |-> kind, key |-> <<type, target>>]

\* Of the events no recovery has closed yet, the one a recovery closes: the
\* earliest of its key, if there is one; the first form, of its type.
FirstOpen_OfType(events, open, key) ==
  {j \in open : /\ events[j].key[1] = key[1]
                /\ \A k \in open : events[k].key[1] = key[1] => j <= k}
FirstOpen(events, open, key) ==
  {j \in open : /\ events[j].key = key
                /\ \A k \in open : events[k].key = key => j <= k}

\* What is open when so many events have passed: pending, as places of events.
\* Everything but a recovery opens.
OpenAfter(events) ==
  LET open[i \in 0..Len(events)] ==
        IF i = 0 THEN {}
        ELSE IF events[i].kind # "recovery" THEN open[i - 1] \cup {i}
        ELSE open[i - 1] \ FirstOpen(events, open[i - 1], events[i].key)
  IN  open

\* adaptation_times_ms: an outage is its key and its two ends.
AdaptationOutages(events) ==
  LET open == OpenAfter(events)
      Recoveries == {i \in 1..Len(events) : events[i].kind = "recovery"}
  IN  UNION {{[key |-> events[i].key, from |-> j, to |-> i] :
               j \in FirstOpen(events, open[i - 1], events[i].key)} : i \in Recoveries}
=============================================================================
