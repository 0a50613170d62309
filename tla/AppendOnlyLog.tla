--------------------------- MODULE AppendOnlyLog ---------------------------
(***************************************************************************)
(* What the EventStore port promises its readers of the global append      *)
(* order: a log that only grows at its end, a few events at a time.  A     *)
(* crash, a failed append, archiving and reopening change nothing in it.   *)
(***************************************************************************)
EXTENDS Naturals, Sequences

CONSTANT Event

VARIABLE events    \* the committed events, in order: EventId n is events[n]

Init == events \in Seq(Event)

\* Some non-empty run of events is appended.
Extend ==
    /\ events' \in Seq(Event)
    /\ Len(events') > Len(events)
    /\ SubSeq(events', 1, Len(events)) = events

Spec == Init /\ [][Extend]_events
=============================================================================
