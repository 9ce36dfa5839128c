------------------------------- MODULE History -------------------------------
(***************************************************************************)
(* internal/store: the batch writer between the pipeline's callbacks and   *)
(* the history database, with the database's session, island, sample and   *)
(* alert rows, a failing write, a crash at any step, and the restart.      *)
(*                                                                         *)
(* Three actors meet here. The callbacks hand events over without ever     *)
(* waiting (Offer). Batcher.Run takes them one at a time; what it still    *)
(* has to write for the event in hand is the sequence `work', one write    *)
(* per step, so that events arrive and crashes fall between two writes of  *)
(* one event. Every write is one transaction: it commits, or it fails (the *)
(* five-second timeout, a full disk) and changes nothing in the database.  *)
(*                                                                         *)
(* Each event carries a serial n, by which the properties recognise it.    *)
(***************************************************************************)
EXTENDS Naturals, Sequences, FiniteSets, SequencesExt

CONSTANTS
    Island,      \* islands; an alert is identified by its island here
    QueueSize,   \* batchQueue
    BatchSize,   \* batchSize
    MaxEvents,   \* bound: events the game causes, over all processes
    MaxTime,     \* bound: the clock
    MaxOpens     \* bound: times the database is opened

ASSUME HistoryAssumption ==
    /\ IsFiniteSet(Island) /\ Island # {}
    /\ QueueSize \in Nat /\ {BatchSize, MaxEvents, MaxTime, MaxOpens} \subseteq Nat \ {0}

VARIABLES
    mode,        \* "up", "stopping" and "closing" (Run after ctx.Done),
                 \* "closed" (history.Close returned), "crashed"
    outbox,      \* what the running callbacks still have to hand over
    watched,     \* the alerts the rule engine holds open
    queue,       \* Batcher.in
    pending,     \* snapshots waiting for the next flush
    work,        \* writes still to do for the event in hand
    sessionUp,   \* Batcher.sessionUp
    sessionID,   \* Batcher.sessionID
    dropped,     \* Batcher.dropped
    lastErr,     \* Run has seen a write fail
    lastSample,  \* Store.lastSample
    sessions,    \* table game_session, by row id
    islands,     \* table island
    samples,     \* table sample
    alerts,      \* table alert, by row id
    said,        \* serial of the last event the game caused
    written,     \* serials of the events this process has dealt with
    since,       \* the value of said when this process opened the database
    now,         \* the clock
    opens        \* times the database has been opened

producer == <<outbox, watched, said>>
run      == <<pending, sessionUp, sessionID, lastErr, written>>
db       == <<sessions, islands, samples, alerts>>
process  == <<since, now, opens>>
histVars == <<mode, producer, queue, work, dropped, lastSample, run, db, process>>

Open == 0   \* ended_at or cleared_at IS NULL

Kind == {"snapshot", "start", "end", "raised", "cleared"}

Event == [kind : Kind, island : Island, at : 1..MaxTime, n : 1..MaxEvents]

\* Session boundaries name no island; the field then holds any one.
NoIsland == CHOOSE i \in Island : TRUE

Serials(s) == [k \in 1..Len(s) |-> s[k].n]

-----------------------------------------------------------------------------
(* The callbacks *)

HistoryInit ==
    /\ mode = "up"
    /\ outbox = <<>> /\ queue = <<>> /\ pending = <<>> /\ work = <<>>
    /\ watched = {}
    /\ sessionUp = FALSE /\ sessionID = 0
    /\ dropped = 0 /\ lastErr = FALSE /\ lastSample = 0
    /\ sessions = <<>> /\ islands = {} /\ samples = {} /\ alerts = <<>>
    /\ said = 0 /\ written = <<>> /\ since = 0
    /\ now = 1 /\ opens = 1

(***************************************************************************)
(* One callback of the pipeline produces the events <<kind, island>>.      *)
(***************************************************************************)
Produce(events) ==
    /\ mode = "up" /\ outbox = <<>>
    /\ said + Len(events) <= MaxEvents
    /\ outbox' = [k \in 1..Len(events) |->
                    [kind |-> events[k][1], island |-> events[k][2],
                     at |-> now, n |-> said + k]]
    /\ said' = said + Len(events)

(***************************************************************************)
(* OnSnapshot: the snapshot, then what the rule engine says about it.      *)
(***************************************************************************)
Snapshot(i) ==
    /\ \/ Produce(<< <<"snapshot", i>> >>) /\ UNCHANGED watched
       \/ /\ i \notin watched
          /\ Produce(<< <<"snapshot", i>>, <<"raised", i>> >>)
          /\ watched' = watched \cup {i}
       \/ /\ i \in watched
          /\ Produce(<< <<"snapshot", i>>, <<"cleared", i>> >>)
          /\ watched' = watched \ {i}
    /\ UNCHANGED <<mode, queue, work, dropped, lastSample, run, db, process>>

(***************************************************************************)
(* OnSessionStart and OnSessionEnd: the boundary, then the clearing of     *)
(* every open alert by Engine.Reset.                                       *)
(***************************************************************************)
SessionBoundary(kind) ==
    /\ Produce(<< <<kind, NoIsland>> >>
               \o [k \in 1..Cardinality(watched) |-> <<"cleared", SetToSeq(watched)[k]>>])
    /\ watched' = {}
    /\ UNCHANGED <<mode, queue, work, dropped, lastSample, run, db, process>>

(***************************************************************************)
(* Batcher.enqueue: never blocks; a full queue costs the event.            *)
(***************************************************************************)
Offer ==
    /\ mode = "up" /\ outbox # <<>>
    /\ \/ /\ Len(queue) < QueueSize
          /\ queue' = Append(queue, Head(outbox))
          /\ UNCHANGED dropped
       \/ /\ Len(queue) >= QueueSize
          /\ dropped' = dropped + 1
          /\ UNCHANGED queue
    /\ outbox' = Tail(outbox)
    /\ UNCHANGED <<mode, watched, said, work, lastSample, run, db, process>>

-----------------------------------------------------------------------------
(* Batcher.Run *)

FlushStep == [op |-> "flush", at |-> now, island |-> NoIsland, n |-> 0]

(***************************************************************************)
(* The write that event ev itself asks for.                                *)
(***************************************************************************)
Step(op, ev) == [op |-> op, at |-> ev.at, island |-> ev.island, n |-> ev.n]

\* A boundary does not flush the snapshots before it.
MutBoundaryUnflushed(ev) ==
    CASE ev.kind = "start" -> <<[Step("end", ev) EXCEPT !.n = 0], Step("start", ev)>>
      [] ev.kind = "end"   -> <<Step("end", ev)>>
      [] OTHER             -> <<FlushStep, Step(ev.kind, ev)>>

\* An alert does not wait for the snapshots before it.
MutAlertUnflushed(ev) ==
    CASE ev.kind = "start" -> <<FlushStep, [Step("end", ev) EXCEPT !.n = 0], Step("start", ev)>>
      [] ev.kind = "end"   -> <<FlushStep, Step("end", ev)>>
      [] OTHER             -> <<Step(ev.kind, ev)>>

(***************************************************************************)
(* Batcher.apply for everything but a snapshot: the pending snapshots go   *)
(* first, and a start ends the session before it.                          *)
(***************************************************************************)
Writes(ev) ==
    CASE ev.kind = "start" -> <<FlushStep, [Step("end", ev) EXCEPT !.n = 0], Step("start", ev)>>
      [] ev.kind = "end"   -> <<FlushStep, Step("end", ev)>>
      [] OTHER             -> <<FlushStep, Step(ev.kind, ev)>>

(***************************************************************************)
(* The batch is written without waiting for the ticker.                    *)
(***************************************************************************)
Full(batch) == Len(batch) >= BatchSize

(***************************************************************************)
(* Run takes the next event, in its loop or while it drains the queue.     *)
(***************************************************************************)
Receive ==
    /\ mode \in {"up", "stopping"} /\ work = <<>> /\ queue # <<>>
    /\ queue' = Tail(queue)
    /\ LET ev == Head(queue)
       IN IF ev.kind = "snapshot"
          THEN /\ pending' = Append(pending, ev)
               /\ work' = IF Full(pending') THEN <<FlushStep>> ELSE <<>>
          ELSE work' = Writes(ev) /\ UNCHANGED pending
    /\ UNCHANGED <<mode, producer, dropped, lastSample, sessionUp, sessionID, lastErr,
                   written, db, process>>

(***************************************************************************)
(* The flush interval has passed.                                          *)
(***************************************************************************)
TickerFires ==
    /\ mode = "up" /\ work = <<>> /\ pending # <<>>
    /\ work' = <<FlushStep>>
    /\ UNCHANGED <<mode, producer, queue, dropped, lastSample, run, db, process>>

\* Shutdown forgets the session that is still open.
MutDrained ==
    /\ mode = "stopping" /\ work = <<>> /\ queue = <<>>
    /\ mode' = "closing"
    /\ work' = <<FlushStep>>
    /\ UNCHANGED <<producer, queue, dropped, lastSample, run, db, process>>

\* The last batch is left to the ticker.
MutDrainedByTicker ==
    /\ mode = "stopping" /\ work = <<>> /\ queue = <<>> /\ pending = <<>>
    /\ mode' = "closing"
    /\ work' = <<[FlushStep EXCEPT !.op = "close"]>>
    /\ UNCHANGED <<producer, queue, dropped, lastSample, run, db, process>>

(***************************************************************************)
(* The queue is drained: the last flush, then closeSession.                *)
(***************************************************************************)
Drained ==
    /\ mode = "stopping" /\ work = <<>> /\ queue = <<>>
    /\ mode' = "closing"
    /\ work' = <<FlushStep, [FlushStep EXCEPT !.op = "close"]>>
    /\ UNCHANGED <<producer, queue, dropped, lastSample, run, db, process>>

-----------------------------------------------------------------------------
(* The writes: each commits (ok) or fails and leaves the tables alone *)

\* A failed batch counts as one record.
MutCounted(ok, k) == IF ok THEN dropped ELSE dropped + 1

(***************************************************************************)
(* Batcher.dropped after the write of k records.                           *)
(***************************************************************************)
Counted(ok, k) == IF ok THEN dropped ELSE dropped + k

\* The anchor moves before the batch is committed.
MutNoted(ok, times) == Max(times \cup {lastSample})

(***************************************************************************)
(* Store.noteSampleTime, only after a commit.                              *)
(***************************************************************************)
Noted(ok, times) == IF ok THEN Max(times \cup {lastSample}) ELSE lastSample

(***************************************************************************)
(* INSERT OR REPLACE of the snapshots: the later one of an island and time *)
(* stays.                                                                  *)
(***************************************************************************)
Replaced(rows, snaps) ==
    LET new == {snaps[k] : k \in DOMAIN snaps}
        all == rows \cup {[island |-> e.island, at |-> e.at, n |-> e.n] : e \in new}
    IN {r \in all : \A q \in all : (q.island = r.island /\ q.at = r.at) => q.n <= r.n}

(***************************************************************************)
(* Batcher.flush with Store.WriteSnapshots; nothing to do without          *)
(* snapshots.                                                              *)
(***************************************************************************)
Flush(ok) ==
    /\ work # <<>> /\ Head(work).op = "flush"
    /\ IF pending = <<>>
       THEN ok /\ UNCHANGED <<pending, written, islands, samples, dropped, lastErr, lastSample>>
       ELSE /\ dropped' = Counted(ok, Len(pending))
            /\ lastErr' = (lastErr \/ ~ok)
            /\ lastSample' = Noted(ok, {pending[k].at : k \in DOMAIN pending})
            /\ IF ok
               THEN /\ islands' = islands \cup {pending[k].island : k \in DOMAIN pending}
                    /\ samples' = Replaced(samples, pending)
                    /\ written' = written \o Serials(pending)
               ELSE UNCHANGED <<islands, samples, written>>
            /\ pending' = <<>>
    /\ work' = Tail(work)
    /\ UNCHANGED <<mode, producer, queue, sessionUp, sessionID, sessions, alerts, process>>

(***************************************************************************)
(* The serial of a write that succeeded, 0 for one no event asked for.     *)
(***************************************************************************)
Recorded(ok, n) == IF ok /\ n # 0 THEN Append(written, n) ELSE written

(***************************************************************************)
(* Batcher.endSession at time t, with Store.EndSession, which leaves a row *)
(* alone that has an end.                                                  *)
(***************************************************************************)
EndAt(t, ok) ==
    /\ IF ~sessionUp
       THEN ok /\ UNCHANGED <<sessions, dropped, lastErr>>
       ELSE /\ dropped' = Counted(ok, 1)
            /\ lastErr' = (lastErr \/ ~ok)
            /\ sessions' = IF ok /\ sessions[sessionID].end = Open
                           THEN [sessions EXCEPT ![sessionID].end = t] ELSE sessions
    /\ sessionUp' = FALSE
    /\ written' = Recorded(ok, Head(work).n)
    /\ work' = Tail(work)
    /\ UNCHANGED <<mode, producer, queue, pending, sessionID, lastSample, islands, samples,
                   alerts, process>>

EndSession(ok) ==
    /\ work # <<>> /\ Head(work).op = "end"
    /\ EndAt(Head(work).at, ok)

(***************************************************************************)
(* Batcher.closeSession: the newest sample's time, or the clock's.         *)
(***************************************************************************)
CloseSession(ok) ==
    /\ work # <<>> /\ Head(work).op = "close"
    /\ EndAt(IF lastSample = 0 THEN now ELSE lastSample, ok)

(***************************************************************************)
(* Batcher.startSession, the session before it being ended already.        *)
(***************************************************************************)
StartSession(ok) ==
    /\ work # <<>> /\ Head(work).op = "start"
    /\ dropped' = Counted(ok, 1)
    /\ lastErr' = (lastErr \/ ~ok)
    /\ IF ok
       THEN /\ sessions' = Append(sessions, [start |-> Head(work).at, end |-> Open,
                                             n |-> Head(work).n])
            /\ sessionID' = Len(sessions) + 1
            /\ sessionUp' = TRUE
       ELSE UNCHANGED <<sessions, sessionID, sessionUp>>
    /\ written' = Recorded(ok, Head(work).n)
    /\ work' = Tail(work)
    /\ UNCHANGED <<mode, producer, queue, pending, lastSample, islands, samples, alerts, process>>

(***************************************************************************)
(* The alert rows closed at time t, those of island i or all of them.      *)
(***************************************************************************)
Cleared(whose, t) ==
    [k \in DOMAIN alerts |->
        IF alerts[k].cleared = Open /\ alerts[k].island \in whose
        THEN [alerts[k] EXCEPT !.cleared = t] ELSE alerts[k]]

(***************************************************************************)
(* Batcher.writeAlert: Store.RaiseAlert creates a missing island row;      *)
(* Store.ClearAlert closes nothing when there is no such row.              *)
(***************************************************************************)
WriteAlert(ok) ==
    /\ work # <<>> /\ Head(work).op \in {"raised", "cleared"}
    /\ dropped' = Counted(ok, 1)
    /\ lastErr' = (lastErr \/ ~ok)
    /\ \/ /\ ~ok
          /\ UNCHANGED <<islands, alerts>>
       \/ /\ ok /\ Head(work).op = "raised"
          /\ islands' = islands \cup {Head(work).island}
          /\ alerts' = Append(alerts, [island |-> Head(work).island, raised |-> Head(work).at,
                                       cleared |-> Open])
       \/ /\ ok /\ Head(work).op = "cleared"
          /\ alerts' = Cleared({Head(work).island}, Head(work).at)
          /\ UNCHANGED islands
    /\ written' = Recorded(ok, Head(work).n)
    /\ work' = Tail(work)
    /\ UNCHANGED <<mode, producer, queue, pending, sessionUp, sessionID, lastSample, sessions,
                   samples, process>>

-----------------------------------------------------------------------------
(* The process *)

(***************************************************************************)
(* history.Close, called after the pipeline has returned, cancels Run.     *)
(***************************************************************************)
Stop ==
    /\ mode = "up" /\ outbox = <<>>
    /\ mode' = "stopping"
    /\ UNCHANGED <<producer, queue, work, dropped, lastSample, run, db, process>>

(***************************************************************************)
(* Run has returned and the database is closed.                            *)
(***************************************************************************)
Closed ==
    /\ mode = "closing" /\ work = <<>>
    /\ mode' = "closed"
    /\ UNCHANGED <<producer, queue, work, dropped, lastSample, run, db, process>>

(***************************************************************************)
(* The process dies; what only memory held is gone.                        *)
(***************************************************************************)
Crash ==
    /\ mode \in {"up", "stopping", "closing"}
    /\ mode' = "crashed"
    /\ outbox' = <<>> /\ queue' = <<>> /\ pending' = <<>> /\ work' = <<>>
    /\ watched' = {}
    /\ sessionUp' = FALSE /\ sessionID' = 0
    /\ UNCHANGED <<said, dropped, lastErr, lastSample, written, db, process>>

\* Only the sessions are closed.
MutOrphansClosed == alerts

(***************************************************************************)
(* CloseOpenAlerts: nobody watches the alerts of an earlier process.       *)
(***************************************************************************)
OrphansClosed == Cleared(Island, now)

(***************************************************************************)
(* Store.Open closes the rows an earlier process left open, sessions first *)
(* and alerts second; the program does not start when either write fails.  *)
(* Of the two, so many commit.                                             *)
(***************************************************************************)
OpenStore(commits) ==
    /\ mode \in {"closed", "crashed"} /\ opens < MaxOpens
    /\ sessions' = IF commits = 0 THEN sessions
                   ELSE [id \in DOMAIN sessions |->
                           IF sessions[id].end = Open THEN [sessions[id] EXCEPT !.end = now]
                           ELSE sessions[id]]
    /\ alerts' = IF commits = 2 THEN OrphansClosed ELSE alerts
    /\ mode' = IF commits = 2 THEN "up" ELSE "crashed"
    /\ outbox' = <<>> /\ queue' = <<>> /\ pending' = <<>> /\ work' = <<>>
    /\ watched' = {}
    /\ sessionUp' = FALSE /\ sessionID' = 0
    /\ dropped' = 0 /\ lastErr' = FALSE /\ lastSample' = 0
    /\ written' = <<>> /\ since' = said
    /\ opens' = opens + 1
    /\ UNCHANGED <<islands, samples, said, now>>

ClockTicks ==
    /\ now < MaxTime
    /\ now' = now + 1
    /\ UNCHANGED <<mode, producer, queue, work, dropped, lastSample, run, db, since, opens>>

Batcher ==
    \/ Receive
    \/ TickerFires
    \/ Drained
    \/ \E ok \in BOOLEAN : Flush(ok)
    \/ \E ok \in BOOLEAN : EndSession(ok)
    \/ \E ok \in BOOLEAN : StartSession(ok)
    \/ \E ok \in BOOLEAN : WriteAlert(ok)
    \/ \E ok \in BOOLEAN : CloseSession(ok)
    \/ Closed

HistoryNext ==
    \/ \E i \in Island : Snapshot(i)
    \/ \E kind \in {"start", "end"} : SessionBoundary(kind)
    \/ Offer
    \/ Batcher
    \/ Stop
    \/ Crash
    \/ \E commits \in 0 .. 2 : OpenStore(commits)
    \/ ClockTicks

(***************************************************************************)
(* Run is one goroutine that nothing blocks for ever: every write it waits *)
(* for has a timeout.                                                      *)
(***************************************************************************)
HistorySpec ==
    /\ HistoryInit /\ [][HistoryNext]_histVars
    /\ WF_histVars(Batcher)

-----------------------------------------------------------------------------
(* Properties *)

(***************************************************************************)
(* Type invariant.                                                         *)
(***************************************************************************)
HistoryTypeOK ==
    /\ mode \in {"up", "stopping", "closing", "closed", "crashed"}
    /\ outbox \in Seq(Event) /\ queue \in Seq(Event) /\ pending \in Seq(Event)
    /\ Len(queue) <= QueueSize /\ Len(pending) <= BatchSize
    /\ work \in Seq([op : Kind \cup {"flush", "close"}, at : 1..MaxTime, island : Island,
                     n : 0..MaxEvents])
    /\ watched \subseteq Island
    /\ sessionUp => sessionID \in DOMAIN sessions
    /\ dropped \in Nat /\ lastErr \in BOOLEAN /\ lastSample \in 0..MaxTime
    /\ sessions \in Seq([start : 1..MaxTime, end : 0..MaxTime, n : 1..MaxEvents])
    /\ islands \subseteq Island
    /\ samples \subseteq [island : Island, at : 1..MaxTime, n : 1..MaxEvents]
    /\ alerts \in Seq([island : Island, raised : 1..MaxTime, cleared : 0..MaxTime])
    /\ said \in 0..MaxEvents /\ since \in 0..said /\ written \in Seq(1..MaxEvents)
    /\ now \in 1..MaxTime /\ opens \in 1..MaxOpens

(***************************************************************************)
(* The event in hand: the last of its writes carries its serial.           *)
(***************************************************************************)
InHand == IF work = <<>> \/ Last(work).n = 0 THEN <<>> ELSE <<Last(work).n>>

(***************************************************************************)
(* The serials of this process's events that are not lost, in the order in *)
(* which the database has seen them or will.                               *)
(***************************************************************************)
Kept == written \o Serials(pending) \o InHand \o Serials(queue) \o Serials(outbox)

(***************************************************************************)
(* "The database sees it in the order ingest saw it" (batch.go:37-40):     *)
(* whatever is batched, dropped or fails, no event overtakes another.      *)
(***************************************************************************)
ArrivalOrder == \A k \in 1..Len(Kept) - 1 : Kept[k] < Kept[k + 1]

(***************************************************************************)
(* Dropped (batch.go:129) never understates the loss: every event is in    *)
(* the database, on its way there, or counted.                             *)
(***************************************************************************)
LossesAreCounted == mode # "crashed" => said - since - Len(Kept) <= dropped

(***************************************************************************)
(* An alert finds the island row its snapshot created (batch.go:109-111)   *)
(* as long as nothing was lost.                                            *)
(***************************************************************************)
AlertHasItsIsland ==
    (work # <<>> /\ Head(work).op = "raised" /\ dropped = 0) =>
        Head(work).island \in islands

(***************************************************************************)
(* The retention anchor is the newest sample this process has committed    *)
(* (store.go:36-42): not an older one, and never one that was rolled back. *)
(***************************************************************************)
AnchorIsCommitted ==
    LET own == {s.at : s \in {r \in samples : r.n > since}}
    IN lastSample = IF own = {} THEN 0 ELSE Max(own)

(***************************************************************************)
(* "A row with no end time always means 'this process owns it'"            *)
(* (store.go:48-49), across crashes and restarts: without a failed write   *)
(* the one open session is the batcher's, and once every event has been    *)
(* dealt with and none lost, the open alerts are the engine's, one row     *)
(* each.                                                                   *)
(***************************************************************************)
OpenSessions == {id \in DOMAIN sessions : sessions[id].end = Open}

OpenAlerts == {k \in DOMAIN alerts : alerts[k].cleared = Open}

OpenRowsAreOwned ==
    mode \in {"up", "stopping", "closing"} =>
        /\ ~lastErr => OpenSessions = IF sessionUp THEN {sessionID} ELSE {}
        /\ (dropped = 0 /\ outbox = <<>> /\ queue = <<>> /\ work = <<>>) =>
              /\ {alerts[k].island : k \in OpenAlerts} = watched
              /\ Cardinality(OpenAlerts) = Cardinality(watched)

(***************************************************************************)
(* After a clean shutdown (batch.go:133-134) nothing is left in the queue  *)
(* or the batch, and no session is open unless a write failed.             *)
(***************************************************************************)
ShutdownLeavesNothing ==
    mode = "closed" =>
        /\ outbox = <<>> /\ queue = <<>> /\ pending = <<>>
        /\ ~lastErr => OpenSessions = {}

(***************************************************************************)
(* Shutdown ends (batch.go:23-25), whatever the database refuses.          *)
(***************************************************************************)
ShutdownFinishes == mode = "stopping" ~> mode \in {"closed", "crashed"}

(***************************************************************************)
(* "Two sessions are never open at the same time" (batch.go:224-226).      *)
(***************************************************************************)
OneSessionOpen == Cardinality(OpenSessions) <= 1

(***************************************************************************)
(* closeSession ends a session that saw no data by the clock               *)
(* (batch.go:262-263).                                                     *)
(***************************************************************************)
SawData(id) == \E s \in samples : s.n > sessions[id].n

EmptySessionEndsByTheClock ==
    [][\A id \in OpenSessions :
          (mode = "closing" /\ sessions'[id].end # Open /\ ~SawData(id)) =>
              sessions'[id].end = now]_histVars

=============================================================================
