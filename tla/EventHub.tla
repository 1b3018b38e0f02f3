------------------------------ MODULE EventHub ------------------------------
(***************************************************************************)
(* The event stream of the run service (cmd/syncbridge/run_service.go):    *)
(* the counter eventID, the bounded window of past events and the buffered *)
(* channel of every subscriber.  All of it is guarded by RunService.mu, so *)
(* the hub is one value and every operation on it is a function of it; the *)
(* actions of RunService apply them inside their critical sections.        *)
(*                                                                         *)
(* A subscriber is a slot for an HTTP client (handleV1Events in app.go,    *)
(* legacyStream in api_legacy.go), represented by last, the identifier of  *)
(* the last event it has read: the former sends it back as Last-Event-ID   *)
(* when it reconnects.  Two history variables say what was discarded: lost *)
(* is TRUE once this connection's channel was full; sawAll is FALSE once   *)
(* the client missed an event in any way.                                  *)
(***************************************************************************)
EXTENDS Filtering

CONSTANTS
  Runs,          \* run identifiers, newRunID()
  Subscribers,   \* clients of /api/v1/events
  MaxRuns,       \* limits.MaxRuns
  EventsPerRun,  \* the window keeps MaxRuns * EventsPerRun events, 8 in the code
  ChannelSlack   \* room of a channel beyond its replay, 64 in Subscribe

ASSUME HubAssumption ==
  /\ MaxRuns \in Nat \ {0}
  /\ EventsPerRun \in Nat
  /\ ChannelSlack \in Nat

\* RunStatus of run_service.go and host_executor.go
Terminal == {"succeeded", "failed", "killed", "timed_out", "start_failed",
             "skipped_overlap"}
Status == {"queued", "running"} \cup Terminal

MaxEvents == MaxRuns * EventsPerRun

\* Of kind, status and log line only this matters: does the event tell that
\* its run is terminal?
Event == [id : Nat, run : Runs, final : BOOLEAN]

Subscription ==
  [open : BOOLEAN, room : Nat, chan : Seq(Event), last : Nat,
   lost : BOOLEAN, sawAll : BOOLEAN]

Hub == [eventID : Nat, events : Seq(Event), subs : [Subscribers -> Subscription]]

EmptyHub ==
  [eventID |-> 0,
   events  |-> << >>,
   subs    |-> [s \in Subscribers |-> [open |-> FALSE, room |-> 0,
                                       chan |-> << >>, last |-> 0,
                                       lost |-> FALSE, sawAll |-> TRUE]]]
-----------------------------------------------------------------------------
\* events[len(events)-maxEvents:] when the window overflows
Window(evs) ==
  IF Len(evs) > MaxEvents
  THEN SubSeq(evs, Len(evs) - MaxEvents + 1, Len(evs))
  ELSE evs

\* select { case subscriber <- event: default: }
Offer(sub, e) ==
  IF ~sub.open THEN sub
  ELSE IF Len(sub.chan) < sub.room
       THEN [sub EXCEPT !.chan = Append(sub.chan, e)]
       ELSE [sub EXCEPT !.lost = TRUE, !.sawAll = FALSE]

\* publishLocked and the tail of publishLog, for run r with status st
Publish(h, r, st) ==
  LET e == [id |-> h.eventID + 1, run |-> r, final |-> st \in Terminal]
  IN  [eventID |-> h.eventID + 1,
       events  |-> Window(Append(h.events, e)),
       subs    |-> [s \in Subscribers |-> Offer(h.subs[s], e)]]

\* Mutant: the last event read is replayed.
ReplayInclusive(h, after) ==
  Filtered(h.events, {n \in 1..Len(h.events) : h.events[n].id >= after})

\* The events a client that has read up to `after' gets on (re)connection.
Replay(h, after) ==
  Filtered(h.events, {n \in 1..Len(h.events) : h.events[n].id > after})

\* Subscribe(after): the replay is buffered and the channel registered in
\* one critical section.  A client without Last-Event-ID starts anew.
Subscribe(h, s, after) ==
  LET replay == Replay(h, after)
      sub    == h.subs[s]
  IN  [h EXCEPT !.subs[s] =
         [open   |-> TRUE,
          room   |-> Len(replay) + ChannelSlack,
          chan   |-> replay,
          last   |-> after,
          lost   |-> FALSE,
          sawAll |-> /\ sub.sawAll \/ after = 0
                     /\ h.eventID <= after + Len(h.events)]]

Delivered(sub) ==
  [sub EXCEPT !.chan = Tail(sub.chan), !.last = Head(sub.chan).id]

\* The handler takes one event and writes it out.
Deliver(h, s) == [h EXCEPT !.subs[s] = Delivered(@)]

Disconnected(sub) == [sub EXCEPT !.open = FALSE, !.room = 0, !.chan = << >>]

\* RunSubscription.Close: what the handler had not read is dropped.
Unsubscribe(h, s) == [h EXCEPT !.subs[s] = Disconnected(@)]

\* NewRunService after the process has ended: identifiers start from zero
\* again, while the clients keep the last one they read.
RestartedHub(h) ==
  [eventID |-> 0,
   events  |-> << >>,
   subs    |-> [s \in Subscribers |->
                  [Disconnected(h.subs[s]) EXCEPT !.sawAll = FALSE]]]
=============================================================================
