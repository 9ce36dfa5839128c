----------------------------- MODULE EventStream -----------------------------
(***************************************************************************)
(* internal/server's event stream, seen by one browser: the pipeline       *)
(* changes the state and broadcasts what it changed, the hub keeps a       *)
(* bounded queue for the client, and the handler first catches the client  *)
(* up and then forwards the queue.                                         *)
(*                                                                         *)
(* Three goroutines meet. The pipeline's goroutine does, one step at a     *)
(* time, what is left of the frame in hand (`work'). The pipe client's     *)
(* goroutine changes the connection and publishes a status of its own      *)
(* (`notice'). The handler reads the session, the islands and the open     *)
(* alerts one after the other while the other two go on.                   *)
(*                                                                         *)
(* An island's figures are a revision, 0 while the server does not know    *)
(* the island; the one alert a watched island can have is the number of    *)
(* its raising, 0 while it is not open. What the socket holds counts as    *)
(* not yet written: the browser takes each frame from the handler.         *)
(***************************************************************************)
EXTENDS Naturals, Sequences, FiniteSets, SequencesExt

CONSTANTS
    QueueSize,   \* clientQueue
    Plays        \* the games looked at, each with its bounds

(***************************************************************************)
(* A play: its islands, the watched ones among them, the kinds of things   *)
(* that happen, and the bounds                                             *)
(*   changes  changes of figures, alerts, session and connection,          *)
(*   drops    events lost to a full queue; the browser keeps up after,     *)
(*   opens    streams the page opens,                                      *)
(*   fails    fetches of the page that fail;                               *)
(* settled says that the page's first fetches were applied at the start.   *)
(***************************************************************************)
Kind == {"fresh", "start", "end", "link", "alert", "close"}

ASSUME PlayAssumption ==
    \A p \in Plays :
        /\ IsFiniteSet(p.isles) /\ p.watched \subseteq p.isles /\ p.kinds \subseteq Kind
        /\ {p.changes, p.drops, p.opens, p.fails} \subseteq Nat
        /\ p.settled \in BOOLEAN

VARIABLES
    play,     \* the play of this behaviour
    island,   \* State.islands
    session,  \* State.headline and startedAt: the number of the SetSession
    linked,   \* State.connection.State = "connected"
    alert,    \* the open alerts of the rule engine
    work,     \* what the pipeline still does for the frame in hand
    notice,   \* the status the pipe client's goroutine publishes
    hub,      \* "open" or "closed": hub.closed
    client,   \* what the handler does next, "none" without a stream
    sending,  \* catch-up frames the browser has not taken
    queue,    \* streamClient.out
    lossy,    \* this stream has lost an event: streamClient.dropped > 0
    told,     \* the newest revision of each island this stream has delivered
    toldAlert,\* the newest word on each alert this stream has delivered
    changes, drops, opens   \* for the bounds

game   == <<island, session, linked, alert, work, notice, changes>>
stream == <<hub, client, sending, queue, lossy, told, toldAlert, drops, opens>>
streamVars == <<play, game, stream>>

Present == {i \in play.isles : island[i] # 0}

Zero == [i \in play.isles |-> 0]

MayChange(kind) == kind \in play.kinds /\ changes < play.changes

-----------------------------------------------------------------------------
(* Frames *)

OpenFrame == [ev |-> "open"]   \* the response header: EventSource's open event

StatusFrame(s, count) == [ev |-> "status", session |-> s, linked |-> linked, count |-> count]

SnapshotFrame(i, rev) == [ev |-> "snapshot", island |-> i, rev |-> rev]

\* rev = 0 says that the alert is cleared.
AlertFrame(i, rev) == [ev |-> "alert", island |-> i, rev |-> rev]

StatusNow == StatusFrame(session, Cardinality(Present))

-----------------------------------------------------------------------------
(* The pipeline *)

StreamInit ==
    /\ play \in Plays
    /\ island \in {Zero, [i \in play.isles |-> 1]}
    /\ session = 1 /\ linked = TRUE /\ alert = Zero
    /\ work = <<>> /\ notice = [at |-> "idle", session |-> 0] /\ changes = 0
    /\ hub = "open" /\ client = "none" /\ sending = <<>> /\ queue = <<>>
    /\ lossy = FALSE /\ told = Zero /\ toldAlert = Zero /\ drops = 0 /\ opens = 0

(***************************************************************************)
(* The pipeline's work for the islands of one tick, a snapshot each.       *)
(***************************************************************************)
TickWork(isles, rev) ==
    [k \in 1..Cardinality(isles) |->
        LET i == SetToSeq(isles)[k] IN [op |-> "put", island |-> i, rev |-> rev[i]]]

(***************************************************************************)
(* The game reports every island; those of fresh have new figures or are   *)
(* new.                                                                    *)
(***************************************************************************)
Tick(fresh) ==
    LET isles == Present \cup fresh
        rev == [i \in play.isles |-> IF i \in fresh THEN changes + 2 ELSE island[i]]
    IN /\ work = <<>> /\ isles # {}
       /\ fresh # {} => MayChange("fresh")
       /\ changes' = IF fresh = {} THEN changes ELSE changes + 1
       /\ work' = TickWork(isles, rev)
       /\ UNCHANGED <<play, island, session, linked, alert, notice, stream>>

(***************************************************************************)
(* SessionStart and SessionEnd, with the callbacks of attachAlerts.        *)
(***************************************************************************)
SessionStart ==
    /\ work = <<>> /\ MayChange("start")
    /\ changes' = changes + 1
    /\ work' = <<[op |-> "reset"], [op |-> "session"], [op |-> "clear"], [op |-> "status"]>>
    /\ UNCHANGED <<play, island, session, linked, alert, notice, stream>>

SessionEnd ==
    /\ work = <<>> /\ MayChange("end")
    /\ changes' = changes + 1
    /\ work' = <<[op |-> "reset"], [op |-> "clear"], [op |-> "status"]>>
    /\ UNCHANGED <<play, island, session, linked, alert, notice, stream>>

Doing(op) == work # <<>> /\ Head(work).op = op

(***************************************************************************)
(* handleStatistics: Put, then OnSnapshot with PublishSnapshot and         *)
(* PublishStatus, then the rule engine.                                    *)
(***************************************************************************)
Put ==
    /\ Doing("put")
    /\ LET i == Head(work).island
       IN /\ island' = [island EXCEPT ![i] = Head(work).rev]
          /\ work' = <<[op |-> "snapshot", island |-> i, rev |-> Head(work).rev],
                       [op |-> "status"],
                       [op |-> "apply", island |-> i]>> \o Tail(work)
    /\ UNCHANGED <<play, session, linked, alert, notice, changes, stream>>

Reset ==
    /\ Doing("reset")
    /\ island' = Zero
    /\ work' = Tail(work)
    /\ UNCHANGED <<play, session, linked, alert, notice, changes, stream>>

SetSession ==
    /\ Doing("session")
    /\ session' = session + 1
    /\ work' = Tail(work)
    /\ UNCHANGED <<play, island, linked, alert, notice, changes, stream>>

(***************************************************************************)
(* Engine.Apply: a watched island's alert may be raised or cleared.        *)
(***************************************************************************)
Apply ==
    /\ Doing("apply")
    /\ \/ work' = Tail(work) /\ UNCHANGED <<alert, changes>>
       \/ LET i == Head(work).island
              new == IF alert[i] = 0 THEN changes + 2 ELSE 0
          IN /\ i \in play.watched /\ MayChange("alert")
             /\ alert' = [alert EXCEPT ![i] = new]
             /\ work' = <<[op |-> "alert", island |-> i, rev |-> new]>> \o Tail(work)
             /\ changes' = changes + 1
    /\ UNCHANGED <<play, island, session, linked, notice, stream>>

(***************************************************************************)
(* Engine.Reset: every open alert is cleared.                              *)
(***************************************************************************)
ClearAlerts ==
    /\ Doing("clear")
    /\ LET isles == SetToSeq({i \in play.isles : alert[i] # 0})
       IN work' = [k \in DOMAIN isles |-> [op |-> "alert", island |-> isles[k], rev |-> 0]]
                  \o Tail(work)
    /\ alert' = Zero
    /\ UNCHANGED <<play, island, session, linked, notice, changes, stream>>

-----------------------------------------------------------------------------
(* The hub *)

\* The client is known to the hub only once it is caught up.
MutRegistered == client = "live"

(***************************************************************************)
(* hub.clients holds the client, from hub.add on.                          *)
(***************************************************************************)
Registered == client # "none"

Room == Len(queue) < QueueSize

(***************************************************************************)
(* hub.broadcast: nothing without a client, and a full queue costs the     *)
(* client the event. Its lock is taken while a notice renders its frame.   *)
(***************************************************************************)
Broadcast(frame) ==
    /\ \/ /\ hub = "closed" \/ ~Registered
          /\ UNCHANGED <<queue, lossy, drops>>
       \/ /\ hub = "open" /\ Registered /\ Room
          /\ queue' = Append(queue, frame)
          /\ UNCHANGED <<lossy, drops>>
       \/ /\ hub = "open" /\ Registered /\ ~Room
          /\ drops < play.drops
          /\ drops' = drops + 1 /\ lossy' = TRUE
          /\ UNCHANGED queue
    /\ UNCHANGED <<hub, client, sending, told, toldAlert, opens>>

Unlocked == notice.at # "rendering"

(***************************************************************************)
(* The pipeline's broadcasts: PublishSnapshot, PublishStatus, PublishAlert *)
(***************************************************************************)
Publish ==
    /\ Unlocked
    /\ \/ Doing("snapshot") /\ Broadcast(SnapshotFrame(Head(work).island, Head(work).rev))
       \/ Doing("status")   /\ Broadcast(StatusNow)
       \/ Doing("alert")    /\ Broadcast(AlertFrame(Head(work).island, Head(work).rev))
    /\ work' = Tail(work)
    /\ UNCHANGED <<play, island, session, linked, alert, notice, changes>>

(***************************************************************************)
(* Pipeline.PipeStatus: the connection changes, and a status says so. It   *)
(* is rendered under the hub's lock, the islands read after the session.   *)
(***************************************************************************)
LinkChanges ==
    /\ notice.at = "idle" /\ MayChange("link")
    /\ linked' = ~linked /\ changes' = changes + 1
    /\ notice' = [notice EXCEPT !.at = "due"]
    /\ UNCHANGED <<play, island, session, alert, work, stream>>

RenderNotice ==
    /\ notice.at = "due"
    /\ notice' = [at |-> "rendering", session |-> session]
    /\ UNCHANGED <<play, island, session, linked, alert, work, changes, stream>>

SendNotice ==
    /\ notice.at = "rendering"
    /\ Broadcast(StatusFrame(notice.session, Cardinality(Present)))
    /\ notice' = [at |-> "idle", session |-> 0]
    /\ UNCHANGED <<play, island, session, linked, alert, work, changes>>

-----------------------------------------------------------------------------
(* The handler *)

(***************************************************************************)
(* handleEvents: the client is registered and the header sent.             *)
(***************************************************************************)
Connect ==
    /\ client = "none" /\ hub = "open" /\ Unlocked /\ opens < play.opens
    /\ client' = "session"
    /\ sending' = <<OpenFrame>> /\ queue' = <<>>
    /\ lossy' = FALSE /\ told' = Zero /\ toldAlert' = Zero
    /\ opens' = opens + 1
    /\ UNCHANGED <<play, game, hub, drops>>

(***************************************************************************)
(* writeCatchUp: the status (its session, then its count), the islands and *)
(* the open alerts, each read when its turn comes.                         *)
(***************************************************************************)
CatchUp ==
    /\ \/ /\ client = "session" /\ client' = "count"
          /\ sending' = Append(sending, StatusFrame(session, 0))
       \/ /\ client = "count" /\ client' = "islands"
          /\ sending' = [sending EXCEPT ![Len(sending)].count = Cardinality(Present)]
       \/ /\ client = "islands" /\ client' = "alerts"
          /\ sending' = sending \o [k \in 1..Cardinality(Present) |->
                LET i == SetToSeq(Present)[k] IN SnapshotFrame(i, island[i])]
       \/ /\ client = "alerts" /\ client' = "live"
          /\ LET raised == SetToSeq({i \in play.isles : alert[i] # 0})
             IN sending' = sending \o [k \in DOMAIN raised |->
                                          AlertFrame(raised[k], alert[raised[k]])]
    /\ UNCHANGED <<play, game, hub, queue, lossy, told, toldAlert, drops, opens>>

(***************************************************************************)
(* The frame the browser takes next: the catch-up before the queue.        *)
(***************************************************************************)
NextFrame ==
    IF sending # <<>> THEN Head(sending) ELSE Head(queue)

Deliverable ==
    \/ sending # <<>> /\ (client = "count" => Len(sending) > 1)
    \/ sending = <<>> /\ queue # <<>> /\ client = "live"

Deliver ==
    /\ Deliverable
    /\ IF sending # <<>>
       THEN sending' = Tail(sending) /\ UNCHANGED queue
       ELSE queue' = Tail(queue) /\ UNCHANGED sending
    /\ told' = IF NextFrame.ev = "snapshot"
               THEN [told EXCEPT ![NextFrame.island] = NextFrame.rev] ELSE told
    /\ toldAlert' = IF NextFrame.ev = "alert"
                    THEN [toldAlert EXCEPT ![NextFrame.island] = NextFrame.rev] ELSE toldAlert
    /\ UNCHANGED <<play, game, hub, client, lossy, drops, opens>>

Disconnected ==
    /\ client' = "none"
    /\ sending' = <<>> /\ queue' = <<>> /\ lossy' = FALSE
    /\ told' = Zero /\ toldAlert' = Zero
    /\ UNCHANGED <<play, game, hub, drops, opens>>

(***************************************************************************)
(* The connection is lost, or the page reopens it for another language.    *)
(***************************************************************************)
Reopen == client # "none" /\ opens < play.opens /\ Disconnected

\* closeAll refuses new streams and leaves the open ones alone.
MutDone == FALSE

(***************************************************************************)
(* client.done is closed.                                                  *)
(***************************************************************************)
Done == hub = "closed"

(***************************************************************************)
(* The live loop finds client.done closed; until its select picks that, it *)
(* may go on forwarding.                                                   *)
(***************************************************************************)
StreamEnds == client = "live" /\ Done /\ Disconnected

(***************************************************************************)
(* hub.closeAll                                                            *)
(***************************************************************************)
CloseAll ==
    /\ hub = "open" /\ Unlocked /\ "close" \in play.kinds
    /\ hub' = "closed"
    /\ UNCHANGED <<play, game, client, sending, queue, lossy, told, toldAlert, drops, opens>>

-----------------------------------------------------------------------------

PipelineStep == Put \/ Reset \/ SetSession \/ Apply \/ ClearAlerts \/ Publish

NoticeStep == RenderNotice \/ SendNotice

HandlerStep == Connect \/ CatchUp \/ StreamEnds

Outside ==
    \/ \E fresh \in SUBSET play.isles : Tick(fresh)
    \/ SessionStart \/ SessionEnd \/ LinkChanges \/ Reopen \/ CloseAll

-----------------------------------------------------------------------------
(* Properties of the stream alone *)

IsAbout(f, ev, i) == f.ev = ev /\ f.island = i

\* No frame of the list is about the island.
Silent(frames, ev, i) == \A k \in DOMAIN frames : ~IsAbout(frames[k], ev, i)

\* The last frame about the island says rev.
EndsWith(frames, ev, i, rev) ==
    \E k \in DOMAIN frames :
        /\ IsAbout(frames[k], ev, i) /\ frames[k].rev = rev
        /\ \A l \in DOMAIN frames : k < l => ~IsAbout(frames[l], ev, i)

\* The newest word of what the stream has delivered or still holds.
Newest(ev, i, delivered, rev) ==
    \/ EndsWith(queue, ev, i, rev)
    \/ /\ Silent(queue, ev, i)
       /\ \/ EndsWith(sending, ev, i, rev)
          \/ Silent(sending, ev, i) /\ delivered[i] = rev

(***************************************************************************)
(* The stream ends in the newest state: once the pipeline is through with  *)
(* a frame, a caught-up client that has lost no event is told, last of     *)
(* all, the revision each island has and whether each alert is open,       *)
(* whatever happened while its catch-up was read.                          *)
(***************************************************************************)
StreamIsNewest ==
    work = <<>> /\ client = "live" /\ hub = "open" /\ ~lossy =>
        /\ \A i \in Present : Newest("snapshot", i, told, island[i])
        /\ \A i \in play.isles : Newest("alert", i, toldAlert, alert[i])

(***************************************************************************)
(* A graceful shutdown ends every stream.                                  *)
(***************************************************************************)
ShutdownEndsStreams == hub = "closed" ~> client = "none"

=============================================================================
