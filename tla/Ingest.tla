------------------------------- MODULE Ingest -------------------------------
(***************************************************************************)
(* The named pipe's client and the ingest pipeline: two goroutines that    *)
(* share a channel, the version gate and the connection status.            *)
(*                                                                         *)
(* The client dials, reads frames, reports what became of the connection   *)
(* and dials again (pipe.Client.Run); its reports write the gate and the   *)
(* status in the client's goroutine (Pipeline.PipeStatus). The pipeline    *)
(* takes one frame at a time from the unbuffered channel and applies it to *)
(* internal/state (Pipeline.handle). Every step below ends where the code  *)
(* unlocks Pipeline.mu, State.mu or the hub's mutex, or blocks.            *)
(*                                                                         *)
(* The game decides what a read returns. Delays have no length here, and   *)
(* a snapshot is told apart by the connection it came over.                *)
(***************************************************************************)
EXTENDS TickState

CONSTANTS
    Versions,          \* protocol versions a game may announce
    SupportedVersion,  \* protocol.SupportedVersion
    MaxConn,           \* bound: connections the game accepts
    MaxFrames,         \* bound: frames it sends on each
    NoFrame,           \* no frame is held
    NoRow              \* no session row is open

VARIABLES
    \* the process
    ctxDone,     \* the context of Pipeline.Run is cancelled
    \* the client's goroutine
    cpc,         \* where Client.Run is
    event,       \* the status it is reporting
    after,       \* where it continues after the report
    last,        \* the state reported last, Client.last
    conn,        \* which connection this is, 0 before the first
    open,        \* the connection is not closed
    sent,        \* frames read from it
    held,        \* the frame being handed over
    \* the pipeline's goroutine
    ppc,         \* where Pipeline.Run is
    frame,       \* the frame being handled
    \* shared between them
    rejected,    \* Pipeline.versionRejected
    connection,  \* State.conn
    headline,    \* State.headline: the connection it was set over
    published,   \* the status every browser was sent last
    row,         \* the session row last handed to the history
    \* history variables
    version,     \* what the game announced on each connection, 0 = nothing
    heard        \* the connection whose version was applied last

clientVars == <<cpc, event, after, last, conn, open, sent, held>>
pipelineVars == <<ppc, frame>>
sharedVars == <<rejected, connection, headline, published, row>>
vars == <<ctxDone, clientVars, pipelineVars, sharedVars, version, heard, tickVars>>

Conn == 1 .. MaxConn

Announcement == [kind : {"version"}, conn : Conn, number : Versions]
Statistics == [kind : {"stats"}, conn : Conn, island : Island, stamp : Stamp]
OtherFrame == [kind : {"start", "end", "garbled"}, conn : Conn]
Frame == Announcement \cup Statistics \cup OtherFrame

(***************************************************************************)
(* Versions are the non-zero numbers CheckVersion compares; a snapshot's   *)
(* revision is the connection it came over.                                *)
(***************************************************************************)
ASSUME IngestAssumption ==
    /\ MaxConn \in Nat /\ MaxFrames \in Nat
    /\ Versions \subseteq Nat \ {0}
    /\ SupportedVersion \in Versions
    /\ Conn \subseteq Rev
    /\ NoFrame \notin Frame

ConnStates == {"none", "waiting", "connected", "disconnected"}

(***************************************************************************)
(* The part of GET /status that these two goroutines decide. The receive   *)
(* time is left out: by design it moves without a notification.            *)
(***************************************************************************)
Status ==
    [connection |-> connection, headline |-> headline, islands |-> Cardinality(DOMAIN islands)]

IngestInit ==
    /\ ctxDone = FALSE
    /\ cpc = "dial" /\ event = "none" /\ after = "dial" /\ last = "none"
    /\ conn = 0 /\ open = FALSE /\ sent = 0 /\ held = NoFrame
    /\ ppc = "idle" /\ frame = NoFrame
    /\ rejected = FALSE
    /\ connection = [state |-> "none", err |-> "none", proto |-> 0]
    /\ headline = 0
    /\ row = NoRow
    /\ version = [c \in Conn |-> 0]
    /\ heard = 0
    /\ TickInit
    /\ published = Status

-----------------------------------------------------------------------------
(* The client *)

(***************************************************************************)
(* Client.emit: only a repeated "waiting" is no news.                      *)
(***************************************************************************)
Report(state, next) ==
    /\ after' = next
    /\ IF state = "waiting" /\ last = "waiting"
       THEN cpc' = next /\ UNCHANGED <<event, last>>
       ELSE /\ cpc' = IF state = "connected" THEN "gate" ELSE "update"
            /\ event' = state
            /\ last' = state

Stopped == cpc' = "done" /\ UNCHANGED <<event, after, last>>

(***************************************************************************)
(* Dial fails: there is no pipe yet, or another reason. A cancelled        *)
(* context ends Run first.                                                 *)
(***************************************************************************)
DialFails ==
    /\ cpc = "dial"
    /\ IF ctxDone THEN Stopped
       ELSE \E state \in {"waiting", "disconnected"} : Report(state, "sleep")
    /\ UNCHANGED <<ctxDone, conn, open, sent, held, pipelineVars, sharedVars,
                   version, heard, tickVars>>

(***************************************************************************)
(* ErrUnsupportedPlatform is the one failure that ends Run.                *)
(***************************************************************************)
DialUnsupported ==
    /\ cpc = "dial" /\ conn = 0 /\ ~ctxDone
    /\ Report("disconnected", "done")
    /\ UNCHANGED <<ctxDone, conn, open, sent, held, pipelineVars, sharedVars,
                   version, heard, tickVars>>

(***************************************************************************)
(* The dial succeeds, also when the context was cancelled meanwhile. The   *)
(* connection is reported before anything is read from it.                 *)
(***************************************************************************)
Connect ==
    /\ cpc = "dial" /\ conn < MaxConn
    /\ conn' = conn + 1 /\ open' = TRUE /\ sent' = 0
    /\ Report("connected", "read")
    /\ UNCHANGED <<ctxDone, held, pipelineVars, sharedVars, version, heard, tickVars>>

(***************************************************************************)
(* PipeStatus, first half: a connection opens the gate for its own         *)
(* version.                                                                *)
(***************************************************************************)
OpenGate ==
    /\ cpc = "gate"
    /\ cpc' = "update"
    /\ rejected' = FALSE
    /\ UNCHANGED <<ctxDone, event, after, last, conn, open, sent, held, pipelineVars,
                   connection, headline, published, row, version, heard, tickVars>>

(***************************************************************************)
(* The status a report leaves: only a lost or refused connection has a     *)
(* reason, and a new one has announced nothing yet.                        *)
(***************************************************************************)
Reported(state) ==
    [state |-> state,
     err   |-> IF state = "disconnected" THEN "lost" ELSE "none",
     proto |-> IF state = "connected" THEN 0 ELSE connection.proto]

(***************************************************************************)
(* PipeStatus, second half. Losing the connection keeps the islands.       *)
(***************************************************************************)
UpdateStatus ==
    /\ cpc = "update"
    /\ cpc' = "notify"
    /\ connection' = Reported(event)
    /\ UNCHANGED <<ctxDone, event, after, last, conn, open, sent, held, pipelineVars,
                   rejected, headline, published, row, version, heard, tickVars>>

(***************************************************************************)
(* PublishStatus renders the status under the hub's mutex, so two          *)
(* notifications cannot overtake each other.                               *)
(***************************************************************************)
NotifyStatus ==
    /\ cpc = "notify"
    /\ cpc' = after
    /\ published' = Status
    /\ UNCHANGED <<ctxDone, event, after, last, conn, open, sent, held, pipelineVars,
                   rejected, connection, headline, row, version, heard, tickVars>>

(***************************************************************************)
(* What the game may send next: a connection begins with its version,      *)
(* and any frame may be one this decoder cannot read.                      *)
(***************************************************************************)
NextFrames ==
    IF sent = 0
    THEN {f \in Announcement : f.conn = conn} \cup {[kind |-> "garbled", conn |-> conn]}
    ELSE {f \in Statistics \cup OtherFrame : f.conn = conn}

(***************************************************************************)
(* ReadFrame returns a frame. After the watcher closed the connection it   *)
(* may still come out of the read buffer.                                  *)
(***************************************************************************)
ReadFrame ==
    /\ cpc = "read" /\ sent < MaxFrames
    /\ \E f \in NextFrames :
          /\ held' = f
          /\ version' = IF f.kind = "version" THEN [version EXCEPT ![conn] = f.number] ELSE version
    /\ cpc' = "send"
    /\ sent' = sent + 1
    /\ UNCHANGED <<ctxDone, event, after, last, conn, open, pipelineVars, sharedVars,
                   heard, tickVars>>

(***************************************************************************)
(* readFrames has returned: the connection is closed and, unless that is   *)
(* what cancelling asked for, reported as lost.                            *)
(***************************************************************************)
LeaveConnection ==
    /\ open' = FALSE
    /\ held' = NoFrame
    /\ IF ctxDone THEN Stopped ELSE Report("disconnected", "sleep")

(***************************************************************************)
(* The read fails: the game closed the pipe, the stream is out of sync, or *)
(* the watcher closed the connection.                                      *)
(***************************************************************************)
ReadFails ==
    /\ cpc = "read"
    /\ LeaveConnection
    /\ UNCHANGED <<ctxDone, conn, sent, pipelineVars, sharedVars, version, heard, tickVars>>

(***************************************************************************)
(* Waiting to hand a frame over, the client sees the cancelled context.    *)
(***************************************************************************)
SendCancelled ==
    /\ cpc = "send" /\ ctxDone
    /\ LeaveConnection
    /\ UNCHANGED <<ctxDone, conn, sent, pipelineVars, sharedVars, version, heard, tickVars>>

\* Nobody closes the connection.
MutWatch == FALSE /\ UNCHANGED vars

(***************************************************************************)
(* The watcher goroutine of readFrames closes the connection, because a    *)
(* blocked read does not see the context.                                  *)
(***************************************************************************)
Watch ==
    /\ cpc \in {"read", "send"} /\ ctxDone /\ open
    /\ open' = FALSE
    /\ UNCHANGED <<ctxDone, cpc, event, after, last, conn, sent, held, pipelineVars,
                   sharedVars, version, heard, tickVars>>

(***************************************************************************)
(* The delay before the next attempt ends, or the context does.            *)
(***************************************************************************)
Sleep ==
    /\ cpc = "sleep"
    /\ cpc' = IF ctxDone THEN "done" ELSE "dial"
    /\ UNCHANGED <<ctxDone, event, after, last, conn, open, sent, held, pipelineVars,
                   sharedVars, version, heard, tickVars>>

-----------------------------------------------------------------------------
(* The pipeline *)

(***************************************************************************)
(* The first step of handling a frame. One that does not decode is counted *)
(* and skipped.                                                            *)
(***************************************************************************)
Dispatch(f) ==
    CASE f.kind = "version"         -> "versionGate"
      [] f.kind \in {"start", "end"} -> "boundary"
      [] f.kind = "stats"           -> "statsGate"
      [] f.kind = "garbled"         -> "idle"

(***************************************************************************)
(* The unbuffered channel: the client's send and the pipeline's receive    *)
(* are one step. After cancelling the pipeline only drains.                *)
(***************************************************************************)
HandOver ==
    /\ cpc = "send" /\ ppc \in {"idle", "drain"}
    /\ cpc' = "read" /\ held' = NoFrame
    /\ IF ppc = "idle"
       THEN /\ ppc' = Dispatch(held)
            /\ frame' = IF Dispatch(held) = "idle" THEN NoFrame ELSE held
       ELSE UNCHANGED pipelineVars
    /\ UNCHANGED <<ctxDone, event, after, last, conn, open, sent, sharedVars,
                   version, heard, tickVars>>

\* The gate is only ever shut by a version.
MutRejects(v) == rejected \/ v # SupportedVersion

(***************************************************************************)
(* protocol.CheckVersion decides the gate.                                 *)
(***************************************************************************)
Rejects(v) == v # SupportedVersion

VersionGate ==
    /\ ppc = "versionGate"
    /\ ppc' = "versionStatus"
    /\ rejected' = Rejects(frame.number)
    /\ UNCHANGED <<ctxDone, clientVars, frame, connection, headline, published, row,
                   version, heard, tickVars>>

\* A version this decoder cannot read is not recorded.
MutAnnounced(v) ==
    IF v = SupportedVersion THEN [connection EXCEPT !.proto = v, !.err = "none"]
    ELSE [connection EXCEPT !.err = "version"]

(***************************************************************************)
(* The announced version is recorded either way, so the UI can name it.    *)
(***************************************************************************)
Announced(v) ==
    [connection EXCEPT !.proto = v, !.err = IF v = SupportedVersion THEN "none" ELSE "version"]

VersionStatus ==
    /\ ppc = "versionStatus"
    /\ ppc' = "notify"
    /\ connection' = Announced(frame.number)
    /\ heard' = frame.conn
    /\ UNCHANGED <<ctxDone, clientVars, frame, rejected, headline, published, row,
                   version, tickVars>>

(***************************************************************************)
(* SessionStart and SessionEnd both reset the islands.                     *)
(***************************************************************************)
Boundaries ==
    /\ ppc = "boundary"
    /\ Reset
    /\ ppc' = IF frame.kind = "start" THEN "setSession" ELSE "callback"
    /\ UNCHANGED <<ctxDone, clientVars, frame, sharedVars, version, heard>>

SetSession ==
    /\ ppc = "setSession"
    /\ ppc' = "callback"
    /\ headline' = frame.conn
    /\ UNCHANGED <<ctxDone, clientVars, frame, rejected, connection, published, row,
                   version, heard, tickVars>>

(***************************************************************************)
(* OnSessionStart reads the protocol version for the session row only now; *)
(* OnSessionEnd ends the row (history.attach).                             *)
(***************************************************************************)
Callback ==
    /\ ppc = "callback"
    /\ ppc' = "notify"
    /\ row' = IF frame.kind = "start"
              THEN [conn |-> frame.conn, proto |-> connection.proto]
              ELSE NoRow
    /\ UNCHANGED <<ctxDone, clientVars, frame, rejected, connection, headline, published,
                   version, heard, tickVars>>

\* Statistics are stored whatever was announced.
MutAfterGate == "store"

(***************************************************************************)
(* The gate decides what becomes of a statistics frame.                    *)
(***************************************************************************)
AfterGate == IF rejected THEN "idle" ELSE "store"

StatsGate ==
    /\ ppc = "statsGate"
    /\ ppc' = AfterGate
    /\ frame' = IF AfterGate = "idle" THEN NoFrame ELSE frame
    /\ UNCHANGED <<ctxDone, clientVars, sharedVars, version, heard, tickVars>>

Store ==
    /\ ppc = "store"
    /\ ppc' = "notify"
    /\ Put(frame.island, frame.stamp, frame.conn)
    /\ UNCHANGED <<ctxDone, clientVars, frame, sharedVars, version, heard>>

\* The status is not sent again after a session boundary.
MutSent == IF frame.kind \in {"start", "end"} THEN published ELSE Status

(***************************************************************************)
(* What the browsers have been sent after a frame was applied: by          *)
(* notifyStatus, or by PublishSnapshot, which sends the status as well.    *)
(***************************************************************************)
Sent == Status

Notify ==
    /\ ppc = "notify"
    /\ ppc' = "idle"
    /\ frame' = NoFrame
    /\ published' = Sent
    /\ UNCHANGED <<ctxDone, clientVars, rejected, connection, headline, row, version,
                   heard, tickVars>>

Drain ==
    /\ ppc = "idle" /\ ctxDone
    /\ ppc' = "drain"
    /\ UNCHANGED <<ctxDone, clientVars, frame, sharedVars, version, heard, tickVars>>

\* A cancelled pipeline does not wait for its source.
MutSourceEnded == ppc \in {"idle", "drain"} /\ (cpc = "done" \/ ctxDone)

(***************************************************************************)
(* Run returns only with the source's answer in hand.                      *)
(***************************************************************************)
SourceEnded == ppc \in {"idle", "drain"} /\ cpc = "done"

Return ==
    /\ SourceEnded
    /\ ppc' = "done"
    /\ UNCHANGED <<ctxDone, clientVars, frame, sharedVars, version, heard, tickVars>>

-----------------------------------------------------------------------------

Cancel ==
    /\ ~ctxDone
    /\ ctxDone' = TRUE
    /\ UNCHANGED <<clientVars, pipelineVars, sharedVars, version, heard, tickVars>>

Terminated == ppc = "done" /\ ctxDone /\ UNCHANGED vars

Dial == DialFails \/ DialUnsupported \/ Connect

Client ==
    \/ Dial \/ OpenGate \/ UpdateStatus \/ NotifyStatus
    \/ ReadFrame \/ ReadFails \/ SendCancelled \/ Watch \/ Sleep

PipelineStep ==
    \/ VersionGate \/ VersionStatus \/ Boundaries \/ SetSession \/ Callback
    \/ StatsGate \/ Store \/ Notify

IngestNext == Client \/ HandOver \/ PipelineStep \/ Drain \/ Return \/ Cancel \/ Terminated

(***************************************************************************)
(* The program's goroutines go on; the game need not send anything, and    *)
(* nobody need ever cancel. A read of a closed connection fails.           *)
(***************************************************************************)
Fairness ==
    /\ WF_vars(Dial) /\ WF_vars(OpenGate) /\ WF_vars(UpdateStatus) /\ WF_vars(NotifyStatus)
    /\ WF_vars(ReadFails /\ ~open) /\ WF_vars(SendCancelled) /\ WF_vars(Watch) /\ WF_vars(Sleep)
    /\ WF_vars(HandOver) /\ WF_vars(PipelineStep) /\ WF_vars(Drain) /\ WF_vars(Return)

IngestSpec == IngestInit /\ [][IngestNext]_vars /\ Fairness

-----------------------------------------------------------------------------
(* Properties *)

ClientTypeOK ==
    /\ cpc \in {"dial", "gate", "update", "notify", "read", "send", "sleep", "done"}
    /\ after \in {"dial", "read", "sleep", "done"}
    /\ event \in ConnStates /\ last \in ConnStates
    /\ conn \in 0 .. MaxConn /\ open \in BOOLEAN /\ sent \in 0 .. MaxFrames
    /\ conn = 0 => after # "read" /\ cpc \notin {"read", "send"}
    /\ held \in Frame \cup {NoFrame} /\ (cpc = "send" <=> held # NoFrame)

PipelineTypeOK ==
    /\ ppc \in {"idle", "versionGate", "versionStatus", "boundary", "setSession", "callback",
                "statsGate", "store", "notify", "drain", "done"}
    /\ frame \in Frame \cup {NoFrame}
    /\ ppc \in {"idle", "drain", "done"} <=> frame = NoFrame
    /\ ppc \in {"versionGate", "versionStatus"} => frame \in Announcement
    /\ ppc \in {"boundary", "setSession", "callback"} => frame \in OtherFrame
    /\ ppc \in {"statsGate", "store"} => frame \in Statistics

SharedTypeOK ==
    /\ ctxDone \in BOOLEAN /\ rejected \in BOOLEAN
    /\ connection \in [state : ConnStates, err : {"none", "lost", "version"},
                       proto : Versions \cup {0}]
    /\ headline \in 0 .. MaxConn
    /\ row \in [conn : Conn, proto : Versions \cup {0}] \cup {NoRow}
    /\ version \in [Conn -> Versions \cup {0}]
    /\ heard \in 0 .. MaxConn

GoroutinesTypeOK == ClientTypeOK /\ PipelineTypeOK /\ SharedTypeOK

(***************************************************************************)
(* Type invariant.                                                         *)
(***************************************************************************)
IngestTypeOK == TickTypeOK /\ GoroutinesTypeOK

(***************************************************************************)
(* The gate reset of a connection can never swallow that connection's own  *)
(* version (pipeline.go:297-300): from the moment the version is applied   *)
(* until the next connection, the gate and the status speak of it - frames *)
(* and reports of the connection before may still be in the works.         *)
(***************************************************************************)
GateFollowsVersion ==
    (heard # 0 /\ heard = conn) =>
        /\ rejected <=> version[conn] # SupportedVersion
        /\ connection.proto = version[conn]
        /\ cpc \in {"read", "send"} =>
              /\ connection.state = "connected"
              /\ connection.err = IF rejected THEN "version" ELSE "none"

(***************************************************************************)
(* Statistics of a connection whose game speaks an unsupported version are *)
(* not stored (ingest/doc.go) - except, at most, the one frame that was in *)
(* the pipeline's hands when the next connection opened the gate           *)
(* (pipeline.go:188, 230): never one of the connection that is up, and     *)
(* never a second one.                                                     *)
(***************************************************************************)
UnsupportedNeverStored ==
    [][ (ppc = "store" /\ ppc' = "notify" /\ version[frame.conn] \notin {0, SupportedVersion})
           => frame.conn < conn /\ \A i \in DOMAIN islands : islands[i].rev # frame.conn ]_vars

(***************************************************************************)
(* A session row names the version of the connection its SessionStart came *)
(* over, although the version is read after the frame was taken: at worst, *)
(* when the client has reconnected meanwhile, it names none.               *)
(***************************************************************************)
RowNamesItsVersion ==
    [][ (ppc = "callback" /\ ppc' = "notify" /\ frame.kind = "start" /\ heard = frame.conn)
           => \/ row'.proto = version[frame.conn]
              \/ row'.proto = 0 /\ frame.conn < conn ]_vars

(***************************************************************************)
(* Whenever both goroutines are between two frames and two reports, the    *)
(* browsers have been told the current status, in whatever order the two   *)
(* updated and announced it (Pipeline.OnStatus).                           *)
(***************************************************************************)
BrowsersAreCurrent ==
    (cpc \notin {"update", "notify"} /\ frame = NoFrame) => published = Status

(***************************************************************************)
(* No goroutine outlives Run (pipeline.go:83): when it has returned, the   *)
(* client has too and its connection is closed.                            *)
(***************************************************************************)
NothingOutlivesRun == ppc = "done" => cpc = "done" /\ ~open

(***************************************************************************)
(* A cancelled context ends Run, wherever both goroutines are: nobody      *)
(* waits on a read, on the channel or on the other forever.                *)
(***************************************************************************)
CancelEndsRun == ctxDone ~> ppc = "done"

(***************************************************************************)
(* Connection.Err is the reason for the current state (state.go:42): a     *)
(* connection that was lost says why.                                      *)
(***************************************************************************)
LostConnectionSaysWhy == connection.state = "disconnected" => connection.err = "lost"

(***************************************************************************)
(* Why the gate follows the version: frames come over the current          *)
(* connection or an earlier one, in the order of the connections; while a  *)
(* new connection is being reported nothing of it has been read; and a     *)
(* connection announces its version once.                                  *)
(***************************************************************************)
FramesInOrder ==
    /\ heard <= conn
    /\ held # NoFrame => held.conn = conn /\ sent > 0
    /\ frame # NoFrame =>
          /\ heard <= frame.conn /\ frame.conn <= conn
          /\ frame.conn = conn => sent > 0
    /\ heard = conn /\ heard # 0 => sent > 0
    /\ held # NoFrame /\ held.kind = "version" => held.number = version[held.conn]
    /\ frame # NoFrame /\ frame.kind = "version" => frame.number = version[frame.conn]

ReportsInOrder ==
    /\ cpc = "gate" => event = "connected"
    /\ cpc \in {"gate", "update", "notify"} =>
          /\ event = "connected" <=> after = "read"
          /\ event = "connected" => sent = 0 /\ conn # 0
    /\ cpc \in {"read", "send"} => after = "read"
    /\ cpc = "notify" /\ after = "read" => connection.state = "connected"

GateInOrder ==
    /\ GateFollowsVersion
    /\ cpc \in {"read", "send"} => connection.state = "connected"
    /\ ppc = "versionStatus" /\ frame.conn = conn => (rejected <=> frame.number # SupportedVersion)
    /\ ppc = "store" /\ frame.conn = conn /\ heard = conn => version[conn] = SupportedVersion

IngestInv == FramesInOrder /\ ReportsInOrder /\ GateInOrder

(***************************************************************************)
(* Why hardly anything unsupported gets past the gate: a connection        *)
(* announces nothing before it sends, its version is applied before its    *)
(* statistics are looked at, and what is stored came over a connection     *)
(* that has sent something.                                                *)
(***************************************************************************)
Unsupported(c) == version[c] \notin {0, SupportedVersion}

StoredFrom(c) == \E i \in DOMAIN islands : islands[i].rev = c

VersionOnItsWay ==
    \/ held # NoFrame /\ held.kind = "version"
    \/ ppc \in {"versionGate", "versionStatus"} /\ frame.conn = conn
    \/ ppc \in {"drain", "done"}

AppliedFirst ==
    /\ \A c \in Conn : c > conn \/ (c = conn /\ sent = 0) => version[c] = 0 /\ ~StoredFrom(c)
    /\ cpc \in {"read", "send"} /\ version[conn] # 0 => heard = conn \/ VersionOnItsWay
    /\ frame # NoFrame /\ frame.kind # "version" /\ version[frame.conn] # 0 => heard = frame.conn

OneSlipsIn ==
    /\ conn # 0 /\ Unsupported(conn) => ~StoredFrom(conn)
    /\ frame # NoFrame /\ ppc # "notify" /\ Unsupported(frame.conn) => ~StoredFrom(frame.conn)
    /\ ppc = "store" /\ Unsupported(frame.conn) => frame.conn < conn

(***************************************************************************)
(* The version in the status is that of the connection applied last, or    *)
(* was reset by a later connection.                                        *)
(***************************************************************************)
ProtoOfHeard ==
    heard # 0 => \/ connection.proto = version[heard]
                 \/ connection.proto = 0 /\ heard < conn
=============================================================================
