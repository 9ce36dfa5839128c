---------------------------- MODULE IngestProofs ----------------------------
(***************************************************************************)
(* Theorems about Ingest: however the client's and the pipeline's steps    *)
(* interleave, internal/state goes through the steps of TickState and      *)
(* keeps what is proved of it in TickProofs; no goroutine outlives         *)
(* Pipeline.Run; and about Replay, a recording in place of the client: the *)
(* frames handed over are those Playback promises.                         *)
(***************************************************************************)
EXTENDS Ingest, TickProofs, Replay

(***************************************************************************)
(* A frame's kind says what else is in it.                                 *)
(***************************************************************************)
LEMMA FrameByKind ==
    ASSUME NEW f \in Frame
    PROVE  /\ f.kind = "version" => f \in Announcement
           /\ f.kind = "stats" => f \in Statistics
           /\ f.kind \in {"start", "end", "garbled"} => f \in OtherFrame
           /\ f.kind \in {"version", "stats", "start", "end", "garbled"}
           /\ f.conn \in Conn
<1>1. CASE f \in Announcement
  BY <1>1 DEF Announcement
<1>2. CASE f \in Statistics
  BY <1>2 DEF Statistics
<1>3. CASE f \in OtherFrame
  BY <1>3 DEF OtherFrame
<1>4. QED
  BY <1>1, <1>2, <1>3 DEF Frame

LEMMA NextFramesType ==
    ASSUME ClientTypeOK, cpc = "read", NEW f \in NextFrames
    PROVE  f \in Frame /\ (f.kind = "version" => f.number \in Versions)
<1>1. conn \in Conn
  BY IngestAssumption DEF ClientTypeOK, Conn
<1>2. CASE f \in Announcement
  BY <1>2 DEF Announcement, Frame
<1>3. CASE f \in Statistics
  BY <1>3 DEF Statistics, Frame
<1>4. CASE f \in OtherFrame
  BY <1>4 DEF OtherFrame, Frame
<1>5. [kind |-> "garbled", conn |-> conn] \in OtherFrame
  BY <1>1 DEF OtherFrame
<1>6. QED
  BY <1>2, <1>3, <1>4, <1>5 DEF NextFrames

LEMMA ReportType ==
    ASSUME ClientTypeOK,
           NEW state \in {"waiting", "connected", "disconnected"},
           NEW next \in {"read", "sleep", "done"},
           Report(state, next)
    PROVE  /\ cpc' \in {"gate", "update", "sleep", "read", "done"}
           /\ cpc' = "read" => next = "read"
           /\ after' = next
           /\ event' \in ConnStates /\ last' \in ConnStates
BY DEF ClientTypeOK, Report, ConnStates

-----------------------------------------------------------------------------

LEMMA GoroutinesTypeInit == IngestInit => GoroutinesTypeOK
<1>1. SUFFICES ASSUME IngestInit PROVE GoroutinesTypeOK
  OBVIOUS
<1>2. MaxConn \in Nat /\ MaxFrames \in Nat
  BY IngestAssumption
<1>3. ClientTypeOK
  <2>1. open \in BOOLEAN
    BY <1>1, Zenon DEF IngestInit
  <2>2. QED
    BY <1>1, <1>2, <2>1 DEF IngestInit, ClientTypeOK, ConnStates
<1>4. PipelineTypeOK
  BY <1>1 DEF IngestInit, PipelineTypeOK
<1>5. SharedTypeOK
  <2>1. ctxDone \in BOOLEAN /\ rejected \in BOOLEAN
    BY <1>1, Zenon DEF IngestInit
  <2>2. connection \in [state : ConnStates, err : {"none", "lost", "version"},
                        proto : Versions \cup {0}]
    BY <1>1 DEF IngestInit, ConnStates
  <2>3. version \in [Conn -> Versions \cup {0}]
    BY <1>1 DEF IngestInit
  <2>4. headline \in 0 .. MaxConn /\ heard \in 0 .. MaxConn
    BY <1>1, <1>2 DEF IngestInit
  <2>5. QED
    BY <1>1, <2>1, <2>2, <2>3, <2>4, Zenon DEF IngestInit, SharedTypeOK
<1>6. QED
  BY <1>3, <1>4, <1>5 DEF GoroutinesTypeOK

(***************************************************************************)
(* The client's steps leave the pipeline's variables alone, and keep the   *)
(* types of its own and of the shared ones.                                *)
(***************************************************************************)
LEMMA ClientStepTypes ==
    ASSUME GoroutinesTypeOK, Client PROVE ClientTypeOK' /\ SharedTypeOK'
<1>1. MaxConn \in Nat /\ MaxFrames \in Nat /\ NoFrame \notin Frame
  BY IngestAssumption
<1>2. ClientTypeOK /\ SharedTypeOK
  BY DEF GoroutinesTypeOK
<1>3. CASE DialFails
  <2>1. SharedTypeOK'
    BY <1>2, <1>3 DEF DialFails, SharedTypeOK, sharedVars
  <2>2. CASE ctxDone
    BY <1>2, <1>3, <2>1, <2>2 DEF DialFails, Stopped, ClientTypeOK
  <2>3. CASE ~ctxDone
    <3>1. PICK state \in {"waiting", "disconnected"} : Report(state, "sleep")
      BY <1>3, <2>3 DEF DialFails
    <3>2. /\ cpc' \in {"gate", "update", "sleep", "done"}
          /\ after' = "sleep" /\ event' \in ConnStates /\ last' \in ConnStates
      BY <1>2, <3>1, ReportType
    <3>3. QED
      BY <1>2, <1>3, <2>1, <3>2 DEF DialFails, ClientTypeOK
  <2>4. QED
    BY <2>2, <2>3
<1>4. CASE DialUnsupported
  <2>1. /\ cpc' \in {"gate", "update", "sleep", "done"}
        /\ after' = "done" /\ event' \in ConnStates /\ last' \in ConnStates
    BY <1>2, <1>4, ReportType DEF DialUnsupported
  <2>2. SharedTypeOK'
    BY <1>2, <1>4 DEF DialUnsupported, SharedTypeOK, sharedVars
  <2>3. QED
    BY <1>2, <1>4, <2>1, <2>2 DEF DialUnsupported, ClientTypeOK
<1>5. CASE Connect
  <2>1. /\ cpc' \in {"gate", "update", "sleep", "read", "done"}
        /\ after' = "read" /\ event' \in ConnStates /\ last' \in ConnStates
    BY <1>2, <1>5, ReportType DEF Connect
  <2>2. conn' \in 1 .. MaxConn /\ open' \in BOOLEAN /\ sent' \in 0 .. MaxFrames
    BY <1>1, <1>2, <1>5 DEF Connect, ClientTypeOK
  <2>3. SharedTypeOK'
    BY <1>2, <1>5 DEF Connect, SharedTypeOK, sharedVars
  <2>4. QED
    BY <1>2, <1>5, <2>1, <2>2, <2>3 DEF Connect, ClientTypeOK
<1>6. CASE OpenGate
  BY <1>2, <1>6 DEF OpenGate, ClientTypeOK, SharedTypeOK
<1>7. CASE UpdateStatus
  <2>1. connection' \in [state : ConnStates, err : {"none", "lost", "version"},
                         proto : Versions \cup {0}]
    BY <1>2, <1>7 DEF UpdateStatus, Reported, ClientTypeOK, SharedTypeOK, ConnStates
  <2>2. QED
    BY <1>2, <1>7, <2>1 DEF UpdateStatus, ClientTypeOK, SharedTypeOK
<1>8. CASE NotifyStatus
  BY <1>2, <1>8 DEF NotifyStatus, ClientTypeOK, SharedTypeOK
<1>9. CASE ReadFrame
  <2>1. PICK f \in NextFrames :
          /\ held' = f
          /\ version' = IF f.kind = "version" THEN [version EXCEPT ![conn] = f.number] ELSE version
    BY <1>9 DEF ReadFrame
  <2>2. f \in Frame /\ (f.kind = "version" => f.number \in Versions)
    BY <1>2, <1>9, NextFramesType DEF ReadFrame
  <2>3. version' \in [Conn -> Versions \cup {0}]
    BY <1>2, <2>1, <2>2 DEF SharedTypeOK
  <2>4. SharedTypeOK'
    BY <1>2, <1>9, <2>3 DEF ReadFrame, SharedTypeOK, sharedVars
  <2>5. sent' \in 0 .. MaxFrames
    BY <1>1, <1>2, <1>9 DEF ReadFrame, ClientTypeOK
  <2>6. conn # 0
    BY <1>2, <1>9 DEF ReadFrame, ClientTypeOK
  <2>7. QED
    BY <1>1, <1>2, <1>9, <2>1, <2>2, <2>4, <2>5, <2>6 DEF ReadFrame, ClientTypeOK
<1>10. ASSUME LeaveConnection, UNCHANGED <<ctxDone, conn, sent, sharedVars, version, heard>>
       PROVE  ClientTypeOK' /\ SharedTypeOK'
  <2>1. SharedTypeOK'
    BY <1>2, <1>10 DEF SharedTypeOK, sharedVars
  <2>2. CASE ctxDone
    BY <1>2, <1>10, <2>1, <2>2 DEF LeaveConnection, Stopped, ClientTypeOK
  <2>3. CASE ~ctxDone
    <3>1. /\ cpc' \in {"gate", "update", "sleep", "done"}
          /\ after' = "sleep" /\ event' \in ConnStates /\ last' \in ConnStates
      BY <1>2, <1>10, <2>3, ReportType DEF LeaveConnection
    <3>2. QED
      BY <1>2, <1>10, <2>1, <3>1 DEF LeaveConnection, ClientTypeOK
  <2>4. QED
    BY <2>2, <2>3
<1>11. CASE ReadFails
  BY <1>10, <1>11 DEF ReadFails
<1>12. CASE SendCancelled
  BY <1>10, <1>12 DEF SendCancelled
<1>13. CASE Watch
  BY <1>2, <1>13 DEF Watch, ClientTypeOK, SharedTypeOK, sharedVars
<1>14. CASE Sleep
  BY <1>2, <1>14 DEF Sleep, ClientTypeOK, SharedTypeOK, sharedVars
<1>15. QED
  BY <1>3, <1>4, <1>5, <1>6, <1>7, <1>8, <1>9, <1>11, <1>12, <1>13, <1>14 DEF Client, Dial

(***************************************************************************)
(* The pipeline's steps: which of them a frame reaches is decided by its   *)
(* kind, so that the fields a step reads are there.                        *)
(***************************************************************************)
LEMMA PipelineStepTypes ==
    ASSUME GoroutinesTypeOK, PipelineStep PROVE PipelineTypeOK' /\ SharedTypeOK'
<1>1. NoFrame \notin Frame
  BY IngestAssumption
<1>2. PipelineTypeOK /\ SharedTypeOK
  BY DEF GoroutinesTypeOK
<1>3. ppc \notin {"idle", "drain", "done"} => frame \in Frame /\ frame # NoFrame
  BY <1>2 DEF PipelineTypeOK
<1>4. ASSUME frame \in Announcement PROVE frame.number \in Versions /\ frame.conn \in Conn
  BY <1>4 DEF Announcement
<1>5. ASSUME frame \in OtherFrame PROVE frame.conn \in Conn
  BY <1>5 DEF OtherFrame
<1>6. Conn \subseteq 0 .. MaxConn
  BY IngestAssumption DEF Conn
<1>7. CASE VersionGate
  <2>1. rejected' \in BOOLEAN
    BY <1>7 DEF VersionGate, Rejects
  <2>2. QED
    BY <1>2, <1>3, <1>7, <2>1 DEF VersionGate, PipelineTypeOK, SharedTypeOK
<1>8. CASE VersionStatus
  <2>1. frame.number \in Versions /\ frame.conn \in Conn
    BY <1>2, <1>4, <1>8 DEF VersionStatus, PipelineTypeOK
  <2>2. connection' \in [state : ConnStates, err : {"none", "lost", "version"},
                         proto : Versions \cup {0}]
    BY <1>2, <1>8, <2>1 DEF VersionStatus, Announced, SharedTypeOK
  <2>3. QED
    BY <1>2, <1>3, <1>6, <1>8, <2>1, <2>2 DEF VersionStatus, PipelineTypeOK, SharedTypeOK
<1>9. CASE Boundaries
  BY <1>2, <1>3, <1>9 DEF Boundaries, PipelineTypeOK, SharedTypeOK, sharedVars
<1>10. CASE SetSession
  <2>1. frame.conn \in Conn
    BY <1>2, <1>5, <1>10 DEF SetSession, PipelineTypeOK
  <2>2. QED
    BY <1>2, <1>3, <1>6, <1>10, <2>1 DEF SetSession, PipelineTypeOK, SharedTypeOK
<1>11. CASE Callback
  <2>1. frame.conn \in Conn
    BY <1>2, <1>5, <1>11 DEF Callback, PipelineTypeOK
  <2>2. row' \in [conn : Conn, proto : Versions \cup {0}] \cup {NoRow}
    BY <1>2, <1>11, <2>1 DEF Callback, SharedTypeOK
  <2>3. QED
    BY <1>2, <1>3, <1>11, <2>2 DEF Callback, PipelineTypeOK, SharedTypeOK
<1>12. CASE StatsGate
  <2>1. SharedTypeOK'
    BY <1>2, <1>12 DEF StatsGate, SharedTypeOK, sharedVars
  <2>2. QED
    BY <1>2, <1>3, <1>12, <2>1 DEF StatsGate, AfterGate, PipelineTypeOK
<1>13. CASE Store
  BY <1>2, <1>3, <1>13 DEF Store, PipelineTypeOK, SharedTypeOK, sharedVars
<1>14. CASE Notify
  BY <1>2, <1>14 DEF Notify, PipelineTypeOK, SharedTypeOK
<1>15. QED
  BY <1>7, <1>8, <1>9, <1>10, <1>11, <1>12, <1>13, <1>14 DEF PipelineStep

LEMMA HandOverTypes ==
    ASSUME GoroutinesTypeOK, HandOver PROVE ClientTypeOK' /\ PipelineTypeOK' /\ SharedTypeOK'
<1>1. NoFrame \notin Frame
  BY IngestAssumption
<1>2. ClientTypeOK /\ PipelineTypeOK /\ SharedTypeOK
  BY DEF GoroutinesTypeOK
<1>3. ClientTypeOK' /\ SharedTypeOK'
  BY <1>2 DEF HandOver, ClientTypeOK, SharedTypeOK, sharedVars
<1>4. held \in Frame
  BY <1>2 DEF HandOver, ClientTypeOK
<1>5. CASE ppc = "idle"
  <2>1. /\ held.kind = "version" => held \in Announcement
        /\ held.kind = "stats" => held \in Statistics
        /\ held.kind \in {"start", "end", "garbled"} => held \in OtherFrame
        /\ held.kind \in {"version", "stats", "start", "end", "garbled"}
    BY <1>4, FrameByKind
  <2>2. /\ Dispatch(held) = "versionGate" => held \in Announcement
        /\ Dispatch(held) = "boundary" => held \in OtherFrame
        /\ Dispatch(held) = "statsGate" => held \in Statistics
        /\ Dispatch(held) \in {"versionGate", "boundary", "statsGate", "idle"}
    BY <2>1 DEF Dispatch
  <2>3. /\ ppc' = Dispatch(held)
        /\ frame' = IF Dispatch(held) = "idle" THEN NoFrame ELSE held
    BY <1>5 DEF HandOver
  <2>4. QED
    BY <1>1, <1>3, <1>4, <2>2, <2>3 DEF PipelineTypeOK
<1>6. CASE ppc # "idle"
  BY <1>2, <1>3, <1>6 DEF HandOver, PipelineTypeOK, pipelineVars
<1>7. QED
  BY <1>5, <1>6

LEMMA GoroutinesTypeStep == GoroutinesTypeOK /\ [IngestNext]_vars => GoroutinesTypeOK'
<1>1. SUFFICES ASSUME GoroutinesTypeOK, [IngestNext]_vars PROVE GoroutinesTypeOK'
  OBVIOUS
<1>2. ClientTypeOK /\ PipelineTypeOK /\ SharedTypeOK
  BY <1>1 DEF GoroutinesTypeOK
<1>3. CASE Client
  <2>1. UNCHANGED pipelineVars
    BY <1>3 DEF Client, Dial, DialFails, DialUnsupported, Connect, OpenGate, UpdateStatus,
                NotifyStatus, ReadFrame, ReadFails, SendCancelled, Watch, Sleep
  <2>2. PipelineTypeOK'
    BY <1>2, <2>1 DEF PipelineTypeOK, pipelineVars
  <2>3. QED
    BY <1>1, <1>3, <2>2, ClientStepTypes DEF GoroutinesTypeOK
<1>4. CASE HandOver
  BY <1>1, <1>4, HandOverTypes DEF GoroutinesTypeOK
<1>5. CASE PipelineStep
  <2>1. UNCHANGED clientVars
    BY <1>5 DEF PipelineStep, VersionGate, VersionStatus, Boundaries, SetSession, Callback,
                StatsGate, Store, Notify
  <2>2. ClientTypeOK'
    BY <1>2, <2>1 DEF ClientTypeOK, clientVars
  <2>3. QED
    BY <1>1, <1>5, <2>2, PipelineStepTypes DEF GoroutinesTypeOK
<1>6. ASSUME UNCHANGED clientVars, UNCHANGED sharedVars, UNCHANGED <<version, heard>>,
             ctxDone' \in BOOLEAN, PipelineTypeOK'
      PROVE  GoroutinesTypeOK'
  <2>1. ClientTypeOK'
    BY <1>2, <1>6 DEF ClientTypeOK, clientVars
  <2>2. SharedTypeOK'
    BY <1>2, <1>6 DEF SharedTypeOK, sharedVars
  <2>3. QED
    BY <1>6, <2>1, <2>2 DEF GoroutinesTypeOK
<1>7. ctxDone \in BOOLEAN
  BY <1>2 DEF SharedTypeOK
<1>8. CASE Drain
  <2>1. PipelineTypeOK'
    BY <1>2, <1>8 DEF Drain, PipelineTypeOK
  <2>2. QED
    BY <1>6, <1>7, <1>8, <2>1 DEF Drain
<1>9. CASE Return
  <2>1. PipelineTypeOK'
    BY <1>2, <1>9 DEF Return, SourceEnded, PipelineTypeOK
  <2>2. QED
    BY <1>6, <1>7, <1>9, <2>1 DEF Return
<1>10. CASE Cancel
  <2>1. PipelineTypeOK'
    BY <1>2, <1>10 DEF Cancel, PipelineTypeOK, pipelineVars
  <2>2. QED
    BY <1>6, <1>10, <2>1 DEF Cancel
<1>11. CASE UNCHANGED vars
  <2>1. PipelineTypeOK'
    BY <1>2, <1>11 DEF PipelineTypeOK, vars, pipelineVars
  <2>2. QED
    BY <1>6, <1>7, <1>11, <2>1 DEF vars
<1>12. QED
  BY <1>1, <1>3, <1>4, <1>5, <1>8, <1>9, <1>10, <1>11 DEF IngestNext, Terminated

LEMMA GoroutinesTypeCorrect == IngestSpec => []GoroutinesTypeOK
<1>1. QED
  BY GoroutinesTypeInit, GoroutinesTypeStep, PTL DEF IngestSpec

-----------------------------------------------------------------------------

(***************************************************************************)
(* A step of either goroutine is a step of internal/state or leaves it     *)
(* alone.                                                                  *)
(***************************************************************************)
LEMMA IngestStepIsTickStep == GoroutinesTypeOK /\ [IngestNext]_vars => [TickNext]_tickVars
<1>1. SUFFICES ASSUME GoroutinesTypeOK, [IngestNext]_vars PROVE [TickNext]_tickVars
  OBVIOUS
<1>2. CASE Client
  BY <1>2 DEF Client, Dial, DialFails, DialUnsupported, Connect, OpenGate, UpdateStatus,
              NotifyStatus, ReadFrame, ReadFails, SendCancelled, Watch, Sleep
<1>3. CASE Store
  <2>1. frame \in Statistics
    BY <1>1, <1>3 DEF Store, GoroutinesTypeOK, PipelineTypeOK
  <2>2. frame.island \in Island /\ frame.stamp \in Stamp /\ frame.conn \in Rev
    BY <2>1, IngestAssumption DEF Statistics
  <2>3. QED
    BY <1>3, <2>2 DEF Store, TickNext
<1>4. CASE Boundaries
  BY <1>4 DEF Boundaries, TickNext
<1>5. CASE HandOver \/ Drain \/ Return \/ Cancel \/ UNCHANGED vars
  BY <1>5 DEF HandOver, Drain, Return, Cancel, vars
<1>6. CASE VersionGate \/ VersionStatus \/ SetSession \/ Callback \/ StatsGate \/ Notify
  BY <1>6 DEF VersionGate, VersionStatus, SetSession, Callback, StatsGate, Notify
<1>7. QED
  BY <1>1, <1>2, <1>3, <1>4, <1>5, <1>6 DEF IngestNext, PipelineStep, Terminated

(***************************************************************************)
(* Whatever the game sends, over however many connections, and however the *)
(* two goroutines interleave: the pipeline drives internal/state through   *)
(* Put and Reset only, so everything proved of the ticks holds here.       *)
(***************************************************************************)
THEOREM IngestDrivesTicks == IngestSpec => TickSpec
<1>1. IngestInit => TickInit
  BY DEF IngestInit
<1>2. QED
  BY <1>1, GoroutinesTypeCorrect, IngestStepIsTickStep, PTL DEF IngestSpec, TickSpec

(***************************************************************************)
(* Type correctness of the two goroutines and what they share.             *)
(***************************************************************************)
THEOREM IngestTypeCorrect == IngestSpec => []IngestTypeOK
<1>1. TickTypeOK /\ GoroutinesTypeOK => IngestTypeOK
  BY DEF IngestTypeOK
<1>2. QED
  BY <1>1, GoroutinesTypeCorrect, IngestDrivesTicks, TickTypeCorrect, PTL

-----------------------------------------------------------------------------

(***************************************************************************)
(* Why nothing outlives Run: a connection is open only while the client    *)
(* serves it, and Run waits for the client.                                *)
(***************************************************************************)
ServedWhileOpen ==
    /\ open => cpc \in {"read", "send"} \/ (cpc \in {"gate", "update", "notify"} /\ after = "read")
    /\ ppc = "done" => cpc = "done"

LEMMA ServedStep ==
    GoroutinesTypeOK /\ ServedWhileOpen /\ [IngestNext]_vars => ServedWhileOpen'
<1>1. SUFFICES ASSUME GoroutinesTypeOK, ServedWhileOpen, [IngestNext]_vars PROVE ServedWhileOpen'
  OBVIOUS
<1>2. CASE DialFails \/ DialUnsupported
  BY <1>1, <1>2 DEF DialFails, DialUnsupported, Stopped, Report, ServedWhileOpen, pipelineVars
<1>3. CASE Connect
  BY <1>1, <1>3 DEF Connect, Report, ServedWhileOpen, pipelineVars
<1>4. CASE OpenGate \/ UpdateStatus \/ NotifyStatus
  BY <1>1, <1>4 DEF OpenGate, UpdateStatus, NotifyStatus, ServedWhileOpen, pipelineVars
<1>5. CASE ReadFrame \/ Watch \/ Sleep
  BY <1>1, <1>5 DEF ReadFrame, Watch, Sleep, ServedWhileOpen, pipelineVars
<1>6. CASE ReadFails \/ SendCancelled
  BY <1>1, <1>6 DEF ReadFails, SendCancelled, LeaveConnection, ServedWhileOpen, pipelineVars
<1>7. CASE HandOver
  <2>1. held.kind \in {"version", "stats", "start", "end", "garbled"}
    BY <1>1, <1>7, FrameByKind, IngestAssumption DEF GoroutinesTypeOK, ClientTypeOK, HandOver
  <2>2. Dispatch(held) # "done"
    BY <2>1 DEF Dispatch
  <2>3. ppc' # "done"
    BY <1>7, <2>2 DEF HandOver, pipelineVars
  <2>4. QED
    BY <1>1, <1>7, <2>3 DEF HandOver, ServedWhileOpen
<1>8. CASE PipelineStep
  <2>1. UNCHANGED clientVars /\ ppc' # "done"
    BY <1>8 DEF PipelineStep, VersionGate, VersionStatus, Boundaries, SetSession, Callback,
                StatsGate, AfterGate, Store, Notify
  <2>2. QED
    BY <1>1, <2>1 DEF ServedWhileOpen, clientVars
<1>9. CASE Drain \/ Return \/ Cancel \/ UNCHANGED vars
  BY <1>1, <1>9 DEF Drain, Return, SourceEnded, Cancel, ServedWhileOpen, vars, clientVars,
                    pipelineVars
<1>10. QED
  BY <1>1, <1>2, <1>3, <1>4, <1>5, <1>6, <1>7, <1>8, <1>9 DEF IngestNext, Client, Dial, Terminated

(***************************************************************************)
(* When Pipeline.Run has returned, the client has too and no connection is *)
(* left open.                                                              *)
(***************************************************************************)
THEOREM RunOutlivesEverything == IngestSpec => []NothingOutlivesRun
<1>1. IngestInit => ServedWhileOpen
  BY DEF IngestInit, ServedWhileOpen
<1>2. ServedWhileOpen => NothingOutlivesRun
  BY DEF ServedWhileOpen, NothingOutlivesRun
<1>3. QED
  BY <1>1, <1>2, GoroutinesTypeCorrect, ServedStep, PTL DEF IngestSpec

-----------------------------------------------------------------------------
(* The version gate *)

(***************************************************************************)
(* Before the first dial nothing is in flight and no version is known, so  *)
(* every part of the invariant of gate, report and pipeline state holds.   *)
(***************************************************************************)
LEMMA IngestInvInit == IngestInit => IngestInv
<1>1. SUFFICES ASSUME IngestInit PROVE IngestInv
  OBVIOUS
<1>2. FramesInOrder
  BY <1>1 DEF IngestInit, FramesInOrder
<1>3. ReportsInOrder
  BY <1>1 DEF IngestInit, ReportsInOrder
<1>4. GateInOrder
  BY <1>1 DEF IngestInit, GateInOrder, GateFollowsVersion
<1>5. QED
  BY <1>2, <1>3, <1>4 DEF IngestInv

(***************************************************************************)
(* A connection may be reported because nothing of it has been applied.    *)
(***************************************************************************)
LEMMA ConnectInv == ASSUME GoroutinesTypeOK, IngestInv, Connect PROVE IngestInv'
<1>1. /\ cpc = "dial" /\ conn' = conn + 1 /\ sent' = 0 /\ conn \in Nat
      /\ cpc' = "gate" /\ event' = "connected" /\ after' = "read"
      /\ UNCHANGED <<held, ppc, frame, rejected, connection, version, heard>>
  BY IngestAssumption DEF Connect, Report, GoroutinesTypeOK, ClientTypeOK, pipelineVars, sharedVars
<1>2. held = NoFrame /\ heard \in Nat
  BY <1>1, IngestAssumption DEF GoroutinesTypeOK, ClientTypeOK, SharedTypeOK
<1>3. frame # NoFrame => frame.conn \in Nat
  <2>1. SUFFICES ASSUME frame # NoFrame PROVE frame.conn \in Nat
    OBVIOUS
  <2>2. frame \in Frame
    BY <2>1 DEF GoroutinesTypeOK, PipelineTypeOK
  <2>3. QED
    BY <2>2, FrameByKind DEF Conn
<1>4. heard < conn' /\ (frame # NoFrame => frame.conn < conn')
  BY <1>1, <1>2, <1>3 DEF IngestInv, FramesInOrder
<1>5. FramesInOrder'
  BY <1>1, <1>2, <1>3, <1>4 DEF IngestInv, FramesInOrder
<1>6. ReportsInOrder'
  BY <1>1 DEF ReportsInOrder
<1>7. ppc \in {"versionStatus", "store"} => frame # NoFrame
  BY DEF GoroutinesTypeOK, PipelineTypeOK
<1>8. GateInOrder'
  BY <1>1, <1>2, <1>3, <1>4, <1>7 DEF GateInOrder, GateFollowsVersion
<1>9. QED
  BY <1>5, <1>6, <1>8 DEF IngestInv

(***************************************************************************)
(* The client leaves a connection, or fails to make one.                   *)
(***************************************************************************)
LEMMA LeaveInv ==
    ASSUME GoroutinesTypeOK, IngestInv, DialFails \/ DialUnsupported \/ ReadFails \/ SendCancelled
    PROVE  IngestInv'
<1>1. UNCHANGED <<conn, sent, ppc, frame, rejected, connection, version, heard>>
  BY DEF DialFails, DialUnsupported, ReadFails, SendCancelled, pipelineVars, sharedVars
<1>2. held' = held \/ held' = NoFrame
  BY DEF DialFails, DialUnsupported, ReadFails, SendCancelled, LeaveConnection
<1>3. \/ cpc' \in {"done", "sleep"}
      \/ cpc' = "update" /\ event' # "connected" /\ after' # "read"
  BY DEF DialFails, DialUnsupported, ReadFails, SendCancelled, LeaveConnection, Stopped, Report
<1>4. FramesInOrder'
  BY <1>1, <1>2 DEF IngestInv, FramesInOrder
<1>5. ReportsInOrder'
  BY <1>3 DEF ReportsInOrder
<1>6. GateInOrder'
  BY <1>1, <1>3 DEF IngestInv, GateInOrder, GateFollowsVersion
<1>7. QED
  BY <1>4, <1>5, <1>6 DEF IngestInv

(***************************************************************************)
(* A report is applied. One of a new connection comes before the           *)
(* connection's version, so the gate it opens is nobody's yet.             *)
(***************************************************************************)
LEMMA ReportInv ==
    ASSUME GoroutinesTypeOK, IngestInv, OpenGate \/ UpdateStatus \/ NotifyStatus
    PROVE  IngestInv'
<1>1. UNCHANGED <<event, after, conn, sent, held, ppc, frame, version, heard>>
  BY DEF OpenGate, UpdateStatus, NotifyStatus, pipelineVars
<1>2. FramesInOrder'
  BY <1>1 DEF IngestInv, FramesInOrder
<1>3. cpc \in {"gate", "update", "notify"} /\ (event = "connected" <=> after = "read")
  BY DEF IngestInv, ReportsInOrder, OpenGate, UpdateStatus, NotifyStatus
<1>4. event = "connected" => sent = 0 /\ conn # 0 /\ heard # conn
  BY <1>3 DEF IngestInv, ReportsInOrder, FramesInOrder
<1>5. ppc \in {"versionStatus", "store"} => frame # NoFrame
  BY DEF GoroutinesTypeOK, PipelineTypeOK
<1>6. CASE OpenGate
  <2>1. event = "connected" /\ cpc' = "update"
    BY <1>6 DEF OpenGate, IngestInv, ReportsInOrder
  <2>2. ReportsInOrder'
    BY <1>1, <1>3, <1>4, <2>1 DEF ReportsInOrder
  <2>3. frame # NoFrame => frame.conn # conn
    BY <1>4, <2>1 DEF IngestInv, FramesInOrder
  <2>4. GateInOrder'
    BY <1>1, <1>4, <1>5, <2>1, <2>3 DEF GateInOrder, GateFollowsVersion
  <2>5. QED
    BY <1>2, <2>2, <2>4 DEF IngestInv
<1>7. CASE UpdateStatus
  <2>1. /\ cpc' = "notify" /\ rejected' = rejected
        /\ connection'.state = event
        /\ event # "connected" => connection'.proto = connection.proto
    BY <1>7 DEF UpdateStatus, Reported
  <2>2. ReportsInOrder'
    BY <1>1, <1>3, <1>4, <2>1 DEF ReportsInOrder
  <2>3. GateInOrder'
    BY <1>1, <1>4, <2>1 DEF IngestInv, GateInOrder, GateFollowsVersion
  <2>4. QED
    BY <1>2, <2>2, <2>3 DEF IngestInv
<1>8. CASE NotifyStatus
  <2>1. cpc' = after /\ UNCHANGED <<rejected, connection>>
    BY <1>8 DEF NotifyStatus
  <2>2. after \in {"dial", "read", "sleep", "done"}
    BY DEF GoroutinesTypeOK, ClientTypeOK
  <2>3. after = "read" => connection.state = "connected"
    BY <1>8 DEF NotifyStatus, IngestInv, ReportsInOrder
  <2>4. ReportsInOrder'
    BY <1>1, <2>1, <2>2 DEF ReportsInOrder
  <2>5. GateInOrder'
    BY <1>1, <1>3, <1>4, <2>1, <2>2, <2>3 DEF IngestInv, GateInOrder, GateFollowsVersion
  <2>6. QED
    BY <1>2, <2>4, <2>5 DEF IngestInv
<1>9. QED
  BY <1>6, <1>7, <1>8

(***************************************************************************)
(* A frame is read. Only the first of a connection is its version.         *)
(***************************************************************************)
LEMMA ReadFrameInv == ASSUME GoroutinesTypeOK, IngestInv, ReadFrame PROVE IngestInv'
<1>1. PICK f \in NextFrames :
        /\ held' = f
        /\ version' = IF f.kind = "version" THEN [version EXCEPT ![conn] = f.number] ELSE version
  BY DEF ReadFrame
<1>2. /\ cpc = "read" /\ cpc' = "send" /\ sent' = sent + 1 /\ sent \in Nat
      /\ UNCHANGED <<event, after, conn, ppc, frame, rejected, connection, heard>>
  BY IngestAssumption DEF ReadFrame, GoroutinesTypeOK, ClientTypeOK, pipelineVars, sharedVars
<1>3. conn \in Conn /\ conn # 0 /\ version \in [Conn -> Versions \cup {0}]
  BY <1>2, IngestAssumption DEF GoroutinesTypeOK, ClientTypeOK, SharedTypeOK, Conn
<1>4. f \in Frame
  BY <1>1, <1>2, NextFramesType DEF GoroutinesTypeOK
<1>5. f.conn = conn /\ (f.kind = "version" => sent = 0)
  BY <1>1 DEF NextFrames, Statistics, OtherFrame
<1>6. f # NoFrame
  BY <1>4, IngestAssumption
<1>7. \A c \in Conn : sent = 0 \/ version'[c] = version[c]
  BY <1>1, <1>3, <1>5
<1>8. \A c \in Conn : c # conn => version'[c] = version[c]
  BY <1>1, <1>3
<1>9. f.kind = "version" => version'[conn] = f.number
  BY <1>1, <1>3
<1>10. frame # NoFrame => frame \in Frame /\ frame.conn \in Conn
  BY FrameByKind DEF GoroutinesTypeOK, PipelineTypeOK
<1>11. frame # NoFrame => version'[frame.conn] = version[frame.conn]
  BY <1>7, <1>8, <1>10 DEF IngestInv, FramesInOrder
<1>12. heard = conn => version'[conn] = version[conn]
  BY <1>3, <1>7 DEF IngestInv, FramesInOrder
<1>13. FramesInOrder'
  BY <1>1, <1>2, <1>5, <1>6, <1>9, <1>11 DEF IngestInv, FramesInOrder
<1>14. ReportsInOrder'
  BY <1>2 DEF IngestInv, ReportsInOrder
<1>15. GateInOrder'
  BY <1>2, <1>12 DEF IngestInv, GateInOrder, GateFollowsVersion
<1>16. QED
  BY <1>13, <1>14, <1>15 DEF IngestInv

(***************************************************************************)
(* A frame is handed over: it comes over the current connection, so it is  *)
(* no older than anything applied.                                         *)
(***************************************************************************)
LEMMA HandOverInv == ASSUME GoroutinesTypeOK, IngestInv, HandOver PROVE IngestInv'
<1>1. /\ cpc = "send" /\ cpc' = "read" /\ held' = NoFrame
      /\ UNCHANGED <<event, after, conn, sent, rejected, connection, version, heard>>
  BY DEF HandOver, sharedVars
<1>2. held \in Frame /\ held # NoFrame /\ held.conn = conn /\ sent > 0 /\ heard <= conn
  BY <1>1 DEF GoroutinesTypeOK, ClientTypeOK, IngestInv, FramesInOrder
<1>3. held.kind \in {"version", "stats", "start", "end", "garbled"}
  BY <1>2, FrameByKind
<1>4. Dispatch(held) \notin {"versionStatus", "store"}
  BY <1>3 DEF Dispatch
<1>5. ppc' \notin {"versionStatus", "store"}
  BY <1>4 DEF HandOver, pipelineVars
<1>6. frame' \in {frame, held, NoFrame}
  BY DEF HandOver, pipelineVars
<1>7. conn \in Nat
  BY IngestAssumption DEF GoroutinesTypeOK, ClientTypeOK
<1>8. FramesInOrder'
  BY <1>1, <1>2, <1>6, <1>7 DEF IngestInv, FramesInOrder
<1>9. ReportsInOrder'
  BY <1>1 DEF IngestInv, ReportsInOrder
<1>10. GateInOrder'
  BY <1>1, <1>5 DEF IngestInv, GateInOrder, GateFollowsVersion
<1>11. QED
  BY <1>8, <1>9, <1>10 DEF IngestInv

(***************************************************************************)
(* The version is applied in two steps. If its connection is still the     *)
(* current one, nothing has touched the gate in between; if not, it is     *)
(* nobody's version any more.                                              *)
(***************************************************************************)
LEMMA VersionInv ==
    ASSUME GoroutinesTypeOK, IngestInv, VersionGate \/ VersionStatus PROVE IngestInv'
<1>1. UNCHANGED <<cpc, event, after, conn, sent, held, frame, version>>
  BY DEF VersionGate, VersionStatus, clientVars
<1>2. frame \in Announcement
  BY DEF GoroutinesTypeOK, PipelineTypeOK, VersionGate, VersionStatus
<1>3. frame \in Frame /\ frame # NoFrame /\ frame.kind = "version"
  BY <1>2, IngestAssumption DEF Frame, Announcement
<1>4. /\ frame.number = version[frame.conn]
      /\ heard <= frame.conn /\ frame.conn <= conn
      /\ frame.conn = conn => sent > 0
  BY <1>3 DEF IngestInv, FramesInOrder
<1>5. heard \in Nat /\ conn \in Nat /\ frame.conn \in Nat
  BY <1>3, FrameByKind, IngestAssumption DEF GoroutinesTypeOK, ClientTypeOK, SharedTypeOK, Conn
<1>6. CASE VersionGate
  <2>1. /\ ppc' = "versionStatus" /\ rejected' = (frame.number # SupportedVersion)
        /\ UNCHANGED <<connection, heard>>
    BY <1>6 DEF VersionGate, Rejects
  <2>2. FramesInOrder' /\ ReportsInOrder'
    BY <1>1, <2>1 DEF IngestInv, FramesInOrder, ReportsInOrder
  <2>3. heard = conn => frame.number = version[conn]
    BY <1>4, <1>5
  <2>4. GateFollowsVersion'
    BY <1>1, <2>1, <2>3 DEF IngestInv, GateInOrder, GateFollowsVersion
  <2>5. GateInOrder'
    BY <1>1, <2>1, <2>4 DEF IngestInv, GateInOrder
  <2>6. QED
    BY <2>2, <2>5 DEF IngestInv
<1>7. CASE VersionStatus
  <2>1. /\ ppc = "versionStatus" /\ ppc' = "notify" /\ rejected' = rejected
        /\ heard' = frame.conn
        /\ connection' = Announced(frame.number)
    BY <1>7 DEF VersionStatus
  <2>2. /\ connection'.proto = frame.number
        /\ connection'.err = IF frame.number = SupportedVersion THEN "none" ELSE "version"
        /\ connection'.state = connection.state
    BY <2>1 DEF Announced, GoroutinesTypeOK, SharedTypeOK
  <2>3. FramesInOrder'
    BY <1>1, <1>4, <1>5, <2>1 DEF IngestInv, FramesInOrder
  <2>4. ReportsInOrder'
    BY <1>1, <2>2 DEF IngestInv, ReportsInOrder
  <2>5. frame.conn = conn => (rejected <=> frame.number # SupportedVersion)
    BY <2>1 DEF IngestInv, GateInOrder
  <2>6. cpc \in {"read", "send"} => connection.state = "connected"
    BY DEF IngestInv, GateInOrder
  <2>7. GateFollowsVersion'
    BY <1>1, <1>4, <2>1, <2>2, <2>5, <2>6 DEF GateFollowsVersion
  <2>8. GateInOrder'
    BY <1>1, <2>1, <2>2, <2>6, <2>7 DEF GateInOrder
  <2>9. QED
    BY <2>3, <2>4, <2>8 DEF IngestInv
<1>8. QED
  BY <1>6, <1>7

(***************************************************************************)
(* The gate lets statistics through: those of the current connection only  *)
(* with its version applied and supported.                                 *)
(***************************************************************************)
LEMMA StatsGateInv == ASSUME GoroutinesTypeOK, IngestInv, StatsGate PROVE IngestInv'
<1>1. /\ UNCHANGED <<cpc, event, after, conn, sent, held, rejected, connection, version, heard>>
      /\ ppc' = IF rejected THEN "idle" ELSE "store"
      /\ frame' \in {frame, NoFrame}
  BY DEF StatsGate, AfterGate, clientVars, sharedVars
<1>2. FramesInOrder' /\ ReportsInOrder'
  BY <1>1 DEF IngestInv, FramesInOrder, ReportsInOrder
<1>3. GateFollowsVersion'
  BY <1>1 DEF IngestInv, GateInOrder, GateFollowsVersion
<1>4. conn \in Nat /\ (frame # NoFrame => frame.conn # 0)
  BY IngestAssumption, FrameByKind DEF GoroutinesTypeOK, ClientTypeOK, PipelineTypeOK, Conn
<1>5. ~rejected /\ heard = conn /\ heard # 0 => version[conn] = SupportedVersion
  BY DEF IngestInv, GateInOrder, GateFollowsVersion
<1>6. ppc' = "store" => frame # NoFrame /\ frame' = frame
  BY <1>1 DEF StatsGate, AfterGate, GoroutinesTypeOK, PipelineTypeOK
<1>7. GateInOrder'
  BY <1>1, <1>3, <1>4, <1>5, <1>6 DEF IngestInv, GateInOrder
<1>8. QED
  BY <1>2, <1>7 DEF IngestInv

(***************************************************************************)
(* The other steps of the pipeline touch neither gate nor status.          *)
(***************************************************************************)
LEMMA OtherStepInv ==
    ASSUME IngestInv,
           UNCHANGED <<cpc, event, after, conn, sent, rejected, connection, version, heard>>,
           held' \in {held, NoFrame}, frame' \in {frame, NoFrame},
           ppc' \notin {"versionStatus", "store"} \/ UNCHANGED <<ppc, frame>>
    PROVE  IngestInv'
<1>1. FramesInOrder' /\ ReportsInOrder'
  BY DEF IngestInv, FramesInOrder, ReportsInOrder
<1>2. GateInOrder'
  BY DEF IngestInv, GateInOrder, GateFollowsVersion
<1>3. QED
  BY <1>1, <1>2 DEF IngestInv

(***************************************************************************)
(* Watch and Sleep move the client without reading or reporting.           *)
(***************************************************************************)
LEMMA WatchSleepInv == ASSUME IngestInv, Watch \/ Sleep PROVE IngestInv'
<1>1. CASE Watch
  BY <1>1, OtherStepInv DEF Watch, pipelineVars, sharedVars
<1>2. CASE Sleep
  <2>1. /\ cpc' \in {"dial", "done"}
        /\ UNCHANGED <<event, after, conn, sent, held, ppc, frame, rejected, connection,
                       version, heard>>
    BY <1>2 DEF Sleep, pipelineVars, sharedVars
  <2>2. QED
    BY <2>1 DEF IngestInv, FramesInOrder, ReportsInOrder, GateInOrder, GateFollowsVersion
<1>3. QED
  BY <1>1, <1>2

LEMMA IngestInvStep == GoroutinesTypeOK /\ IngestInv /\ [IngestNext]_vars => IngestInv'
<1>1. SUFFICES ASSUME GoroutinesTypeOK, IngestInv, [IngestNext]_vars PROVE IngestInv'
  OBVIOUS
<1>2. CASE Client
  BY <1>1, <1>2, ConnectInv, LeaveInv, ReportInv, ReadFrameInv, WatchSleepInv DEF Client, Dial
<1>3. CASE HandOver
  BY <1>1, <1>3, HandOverInv
<1>4. CASE VersionGate \/ VersionStatus
  BY <1>1, <1>4, VersionInv
<1>5. CASE StatsGate
  BY <1>1, <1>5, StatsGateInv
<1>6. CASE Boundaries \/ SetSession \/ Callback \/ Store \/ Notify
  <2>1. /\ UNCHANGED <<cpc, event, after, conn, sent, held, rejected, connection, version, heard>>
        /\ frame' \in {frame, NoFrame}
        /\ ppc' \in {"setSession", "callback", "notify", "idle"}
    BY <1>6 DEF Boundaries, SetSession, Callback, Store, Notify, clientVars, sharedVars
  <2>2. QED
    BY <1>1, <2>1, OtherStepInv
<1>7. CASE Drain \/ Return
  <2>1. /\ UNCHANGED <<clientVars, frame, sharedVars, version, heard>>
        /\ ppc' \in {"drain", "done"}
    BY <1>7 DEF Drain, Return
  <2>2. QED
    BY <1>1, <2>1, OtherStepInv DEF clientVars, sharedVars
<1>8. CASE Cancel \/ UNCHANGED vars
  <2>1. UNCHANGED <<clientVars, pipelineVars, sharedVars, version, heard>>
    BY <1>8 DEF Cancel, vars
  <2>2. QED
    BY <1>1, <2>1, OtherStepInv DEF clientVars, pipelineVars, sharedVars
<1>9. QED
  BY <1>1, <1>2, <1>3, <1>4, <1>5, <1>6, <1>7, <1>8 DEF IngestNext, PipelineStep, Terminated

LEMMA IngestInvariance == IngestSpec => []IngestInv
<1>1. QED
  BY IngestInvInit, GoroutinesTypeCorrect, IngestInvStep, PTL DEF IngestSpec

(***************************************************************************)
(* From the moment a connection's version is applied until the next        *)
(* connection, the gate and the status speak of that version.              *)
(***************************************************************************)
THEOREM GateAlwaysFollowsVersion == IngestSpec => []GateFollowsVersion
<1>1. IngestInv => GateFollowsVersion
  BY DEF IngestInv, GateInOrder
<1>2. QED
  BY <1>1, IngestInvariance, PTL

(***************************************************************************)
(* What slips past the gate: at most one frame of a connection that has    *)
(* been replaced.                                                          *)
(***************************************************************************)
SlipInv == AppliedFirst /\ OneSlipsIn

LEMMA SlipTypes ==
    ASSUME GoroutinesTypeOK, IngestInv
    PROVE  /\ conn \in Nat /\ heard \in Nat /\ sent \in Nat /\ Conn = 1 .. MaxConn
           /\ MaxConn \in Nat /\ (conn # 0 => conn \in Conn)
           /\ cpc \in {"read", "send"} => conn \in Conn
           /\ version \in [Conn -> Versions \cup {0}]
           /\ frame # NoFrame => /\ frame \in Frame /\ frame.conn \in Conn
                                 /\ heard <= frame.conn /\ frame.conn <= conn
                                 /\ frame.conn = conn => sent > 0
BY FrameByKind, IngestAssumption
   DEF GoroutinesTypeOK, ClientTypeOK, PipelineTypeOK, SharedTypeOK, IngestInv, FramesInOrder, Conn

\* Steps that neither connect, read, apply a version nor store.
LEMMA SlipQuiet ==
    ASSUME GoroutinesTypeOK, IngestInv, SlipInv,
           UNCHANGED <<conn, sent, version, heard>>,
           \A c : StoredFrom(c)' => StoredFrom(c),
           cpc' \in {"read", "send"} =>
              (sent = 0 /\ conn \in Conn) \/ (cpc \in {"read", "send"} /\ held' = held),
           \/ UNCHANGED <<ppc, frame>>
           \/ /\ frame' = NoFrame /\ ppc' # "store" /\ ppc \notin {"versionGate", "versionStatus"}
              /\ ppc \in {"drain", "done"} => ppc' \in {"drain", "done"}
           \/ /\ frame' = frame /\ ppc' # "store"
              /\ ppc \notin {"versionGate", "versionStatus", "notify", "drain", "done"}
           \/ frame' = frame /\ ppc = "versionGate" /\ ppc' = "versionStatus"
    PROVE  SlipInv'
<1>1. \A c : Unsupported(c)' <=> Unsupported(c)
  BY DEF Unsupported
<1>2. VersionOnItsWay /\ held' = held => VersionOnItsWay'
  BY DEF VersionOnItsWay
<1>3. sent = 0 /\ conn \in Conn => version[conn] = 0
  BY DEF SlipInv, AppliedFirst
<1>4. AppliedFirst'
  <2>1. (cpc \in {"read", "send"} /\ version[conn] # 0 => heard = conn \/ VersionOnItsWay)'
    BY <1>2, <1>3 DEF SlipInv, AppliedFirst
  <2>2. (\A c \in Conn : c > conn \/ (c = conn /\ sent = 0) => version[c] = 0 /\ ~StoredFrom(c))'
    BY DEF SlipInv, AppliedFirst, Conn
  <2>3. (frame # NoFrame /\ frame.kind # "version" /\ version[frame.conn] # 0
           => heard = frame.conn)'
    BY DEF SlipInv, AppliedFirst
  <2> QED BY <2>1, <2>2, <2>3 DEF AppliedFirst
<1>5. OneSlipsIn'
  <2>1. (conn # 0 /\ Unsupported(conn) => ~StoredFrom(conn))'
    <3>1. PICK c : c = conn
      OBVIOUS
    <3>2. c # 0 /\ Unsupported(c)' => ~StoredFrom(c)'
      BY <1>1, <3>1 DEF SlipInv, OneSlipsIn
    <3> QED BY <3>1, <3>2 DEF StoredFrom, Unsupported
  <2>2. (frame # NoFrame /\ ppc # "notify" /\ Unsupported(frame.conn)
           => ~StoredFrom(frame.conn))'
    <3>1. SUFFICES ASSUME frame' # NoFrame, ppc' # "notify", Unsupported(frame.conn)'
                   PROVE  ~StoredFrom(frame.conn)'
      OBVIOUS
    <3>2. frame' = frame /\ ppc # "notify"
      BY <3>1
    <3>3. PICK c : c = frame.conn
      OBVIOUS
    <3>4. Unsupported(c)
      BY <3>1, <3>2, <3>3 DEF Unsupported
    <3>5. ~StoredFrom(c)
      BY <3>1, <3>2, <3>3, <3>4 DEF SlipInv, OneSlipsIn
    <3>6. ~StoredFrom(c)'
      BY <3>5
    <3> QED BY <3>2, <3>3, <3>6 DEF StoredFrom
  <2>3. (ppc = "store" /\ Unsupported(frame.conn) => frame.conn < conn)'
    BY DEF SlipInv, OneSlipsIn, Unsupported
  <2> QED BY <2>1, <2>2, <2>3 DEF OneSlipsIn
<1> QED BY <1>4, <1>5 DEF SlipInv

LEMMA SlipConnect == ASSUME GoroutinesTypeOK, IngestInv, SlipInv, Connect PROVE SlipInv'
<1>1. /\ conn' = conn + 1 /\ conn < MaxConn /\ cpc' = "gate"
      /\ UNCHANGED <<ppc, frame, version, heard, islands>>
  BY DEF Connect, Report, pipelineVars, tickVars
<1>2. conn' \in Conn /\ conn' > conn /\ conn \in Nat
  BY <1>1, SlipTypes
<1>3. PICK n : n = conn'
  OBVIOUS
<1>4. version[n] = 0 /\ n \in Conn /\ n > conn
  BY <1>2, <1>3 DEF SlipInv, AppliedFirst
<1>5. \A c : /\ Unsupported(c)' <=> Unsupported(c)
             /\ StoredFrom(c)' <=> StoredFrom(c)
  BY <1>1 DEF Unsupported, StoredFrom
<1>6. AppliedFirst'
  <2>1. \A c \in Conn : c > n \/ c = n => version[c] = 0 /\ ~StoredFrom(c)
    BY <1>1, <1>2, <1>3, SlipTypes DEF SlipInv, AppliedFirst
  <2>2. \A c \in Conn : c > n \/ c = n => version'[c] = 0 /\ ~StoredFrom(c)'
    BY <1>1, <1>5, <2>1
  <2>3. (\A c \in Conn : c > conn \/ (c = conn /\ sent = 0) => version[c] = 0 /\ ~StoredFrom(c))'
    BY <1>3, <2>2 DEF Conn
  <2>4. (frame # NoFrame /\ frame.kind # "version" /\ version[frame.conn] # 0
           => heard = frame.conn)'
    BY <1>1 DEF SlipInv, AppliedFirst
  <2> QED BY <1>1, <2>3, <2>4 DEF AppliedFirst
<1>7. OneSlipsIn'
  <2>1. ~Unsupported(n)'
    BY <1>1, <1>4 DEF Unsupported
  <2>2. (conn # 0 /\ Unsupported(conn) => ~StoredFrom(conn))'
    BY <1>3, <2>1 DEF Unsupported
  <2>3. (frame # NoFrame /\ ppc # "notify" /\ Unsupported(frame.conn)
           => ~StoredFrom(frame.conn))'
    BY <1>1 DEF SlipInv, OneSlipsIn, Unsupported, StoredFrom
  <2>4. ppc = "store" => frame # NoFrame
    BY DEF GoroutinesTypeOK, PipelineTypeOK
  <2>5. (ppc = "store" /\ Unsupported(frame.conn) => frame.conn < conn)'
    <3>1. frame # NoFrame => frame.conn <= conn /\ frame.conn \in Nat
      BY SlipTypes
    <3> QED BY <1>1, <1>2, <2>4, <3>1
  <2> QED BY <2>2, <2>3, <2>5 DEF OneSlipsIn
<1> QED BY <1>6, <1>7 DEF SlipInv

LEMMA SlipRead == ASSUME GoroutinesTypeOK, IngestInv, SlipInv, ReadFrame PROVE SlipInv'
<1>1. PICK f \in NextFrames :
        /\ held' = f
        /\ version' = IF f.kind = "version" THEN [version EXCEPT ![conn] = f.number] ELSE version
  BY DEF ReadFrame
<1>2. /\ cpc = "read" /\ cpc' = "send" /\ sent' = sent + 1
      /\ UNCHANGED <<conn, ppc, frame, heard, islands>>
  BY DEF ReadFrame, pipelineVars, tickVars
<1>3. conn \in Conn /\ sent \in Nat /\ version \in [Conn -> Versions \cup {0}]
  BY <1>2, SlipTypes
<1>4. f \in Frame /\ f # NoFrame /\ (f.kind = "version" => sent = 0) /\ held = NoFrame
  BY <1>1, <1>2, NextFramesType, IngestAssumption
     DEF NextFrames, Statistics, OtherFrame, GoroutinesTypeOK, ClientTypeOK
<1>5. \A c \in Conn : c # conn \/ sent > 0 => version'[c] = version[c]
  BY <1>1, <1>3, <1>4
<1>6. \A c : StoredFrom(c)' <=> StoredFrom(c)
  BY <1>2 DEF StoredFrom
<1>7. frame # NoFrame => frame.conn \in Conn /\ version'[frame.conn] = version[frame.conn]
  BY <1>5, SlipTypes
<1>8. AppliedFirst'
  <2>1. (\A c \in Conn : c > conn \/ (c = conn /\ sent = 0) => version[c] = 0 /\ ~StoredFrom(c))'
    <3>1. \A c \in Conn : c > conn => version[c] = 0 /\ ~StoredFrom(c)
      BY DEF SlipInv, AppliedFirst
    <3>2. \A c \in Conn : c > conn => version'[c] = version[c]
      BY <1>3, <1>5, SlipTypes
    <3>3. \A c \in Conn : c > conn => version'[c] = 0 /\ ~StoredFrom(c)'
      BY <1>6, <3>1, <3>2
    <3> QED BY <1>2, <1>3, <3>3 DEF Conn
  <2>2. (cpc \in {"read", "send"} /\ version[conn] # 0 => heard = conn \/ VersionOnItsWay)'
    <3>1. CASE f.kind = "version"
      BY <1>1, <1>4, <3>1 DEF VersionOnItsWay
    <3>2. CASE f.kind # "version"
      BY <1>1, <1>2, <1>4, <3>2 DEF VersionOnItsWay, SlipInv, AppliedFirst
    <3> QED BY <3>1, <3>2
  <2>3. (frame # NoFrame /\ frame.kind # "version" /\ version[frame.conn] # 0
           => heard = frame.conn)'
    BY <1>2, <1>7 DEF SlipInv, AppliedFirst
  <2> QED BY <2>1, <2>2, <2>3 DEF AppliedFirst
<1>9. OneSlipsIn'
  <2>1. (conn # 0 /\ Unsupported(conn) => ~StoredFrom(conn))'
    <3>1. CASE sent = 0
      BY <1>2, <1>3, <3>1 DEF SlipInv, AppliedFirst, StoredFrom
    <3>2. CASE sent > 0
      BY <1>2, <1>3, <1>5, <3>2 DEF SlipInv, OneSlipsIn, StoredFrom, Unsupported
    <3> QED BY <1>3, <3>1, <3>2
  <2>2. (frame # NoFrame /\ ppc # "notify" /\ Unsupported(frame.conn)
           => ~StoredFrom(frame.conn))'
    BY <1>2, <1>7 DEF SlipInv, OneSlipsIn, StoredFrom, Unsupported
  <2>3. ppc = "store" => frame # NoFrame
    BY DEF GoroutinesTypeOK, PipelineTypeOK
  <2>4. (ppc = "store" /\ Unsupported(frame.conn) => frame.conn < conn)'
    BY <1>2, <1>7, <2>3 DEF SlipInv, OneSlipsIn, Unsupported
  <2> QED BY <2>1, <2>2, <2>4 DEF OneSlipsIn
<1> QED BY <1>8, <1>9 DEF SlipInv

LEMMA SlipHandOver == ASSUME GoroutinesTypeOK, IngestInv, SlipInv, HandOver PROVE SlipInv'
<1>1. /\ cpc = "send" /\ cpc' = "read" /\ held' = NoFrame /\ ppc \in {"idle", "drain"}
      /\ UNCHANGED <<conn, sent, version, heard, islands>>
  BY DEF HandOver, tickVars
<1>2. held \in Frame /\ held # NoFrame /\ held.conn = conn /\ conn \in Conn /\ frame = NoFrame
  BY <1>1, SlipTypes DEF GoroutinesTypeOK, ClientTypeOK, PipelineTypeOK, IngestInv, FramesInOrder
<1>3. held.kind \in {"version", "stats", "start", "end", "garbled"}
  BY <1>2, FrameByKind
<1>4. \A c : /\ Unsupported(c)' <=> Unsupported(c)
             /\ StoredFrom(c)' <=> StoredFrom(c)
  BY <1>1 DEF Unsupported, StoredFrom
<1>5. CASE ppc = "drain"
  <2>1. UNCHANGED <<ppc, frame>>
    BY <1>5 DEF HandOver, pipelineVars
  <2> QED BY <1>1, <1>2, <1>5, <2>1
             DEF SlipInv, AppliedFirst, OneSlipsIn, VersionOnItsWay, Unsupported, StoredFrom, Conn
<1>6. CASE ppc = "idle"
  <2>1. ppc' = Dispatch(held) /\ frame' = IF Dispatch(held) = "idle" THEN NoFrame ELSE held
    BY <1>6 DEF HandOver
  <2>2. ppc' \notin {"store", "notify"} /\ (held.kind = "version" => ppc' = "versionGate")
    BY <1>3, <2>1 DEF Dispatch
  <2>3. held.kind # "version" /\ version[conn] # 0 => heard = conn
    BY <1>1, <1>6 DEF SlipInv, AppliedFirst, VersionOnItsWay
  <2>4. frame' # NoFrame => frame' = held
    BY <2>1
  <2>5. held.kind = "version" => frame' = held
    BY <2>1, <2>2
  <2>6. AppliedFirst'
    <3>1. (\A c \in Conn : c > conn \/ (c = conn /\ sent = 0) => version[c] = 0 /\ ~StoredFrom(c))'
      BY <1>1 DEF SlipInv, AppliedFirst, StoredFrom, Conn
    <3>2. (cpc \in {"read", "send"} /\ version[conn] # 0 => heard = conn \/ VersionOnItsWay)'
      BY <1>1, <1>2, <2>2, <2>3, <2>5 DEF VersionOnItsWay
    <3>3. (frame # NoFrame /\ frame.kind # "version" /\ version[frame.conn] # 0
             => heard = frame.conn)'
      BY <1>1, <1>2, <2>3, <2>4
    <3> QED BY <3>1, <3>2, <3>3 DEF AppliedFirst
  <2>7. conn # 0
    BY <1>2, SlipTypes
  <2>8. OneSlipsIn'
    BY <1>1, <1>2, <2>2, <2>4, <2>7 DEF SlipInv, OneSlipsIn, Unsupported, StoredFrom
  <2> QED BY <2>6, <2>8 DEF SlipInv
<1> QED BY <1>1, <1>5, <1>6

LEMMA SlipVersion == ASSUME GoroutinesTypeOK, IngestInv, SlipInv, VersionStatus PROVE SlipInv'
<1>1. /\ ppc = "versionStatus" /\ ppc' = "notify" /\ heard' = frame.conn
      /\ UNCHANGED <<cpc, conn, sent, held, frame, version, islands>>
  BY DEF VersionStatus, clientVars, tickVars
<1>2. frame \in Announcement /\ frame # NoFrame /\ frame.kind = "version"
  BY <1>1 DEF GoroutinesTypeOK, PipelineTypeOK, Announcement
<1>3. heard <= frame.conn /\ frame.conn <= conn /\ heard \in Nat /\ conn \in Nat /\ frame.conn \in Nat
  BY <1>2, SlipTypes
<1>4. heard = conn => frame.conn = conn
  BY <1>3
<1>5. AppliedFirst'
  <2>1. (\A c \in Conn : c > conn \/ (c = conn /\ sent = 0) => version[c] = 0 /\ ~StoredFrom(c))'
    BY <1>1 DEF SlipInv, AppliedFirst, StoredFrom, Conn
  <2>2. (cpc \in {"read", "send"} /\ version[conn] # 0 => heard = conn \/ VersionOnItsWay)'
    BY <1>1, <1>4 DEF SlipInv, AppliedFirst, VersionOnItsWay
  <2> QED BY <1>1, <1>2, <2>1, <2>2 DEF AppliedFirst
<1>6. OneSlipsIn'
  BY <1>1 DEF SlipInv, OneSlipsIn, Unsupported, StoredFrom
<1> QED BY <1>5, <1>6 DEF SlipInv

\* The gate lets statistics of the current connection through if it is supported.
LEMMA SlipGate == ASSUME GoroutinesTypeOK, IngestInv, SlipInv, StatsGate PROVE SlipInv'
<1>1. /\ UNCHANGED <<cpc, conn, sent, held, version, heard, islands>> /\ ppc = "statsGate"
      /\ ppc' = IF rejected THEN "idle" ELSE "store"
      /\ frame' = IF rejected THEN NoFrame ELSE frame
  BY DEF StatsGate, AfterGate, clientVars, tickVars
<1>2. \A c : StoredFrom(c)' => StoredFrom(c)
  BY <1>1 DEF StoredFrom
<1>3. CASE rejected
  BY <1>1, <1>2, <1>3, SlipQuiet
<1>4. CASE ~rejected
  <2>1. frame \in Statistics /\ frame # NoFrame /\ frame.kind = "stats"
    BY <1>1 DEF GoroutinesTypeOK, PipelineTypeOK, Statistics
  <2>2. frame.conn \in Conn /\ frame.conn <= conn /\ conn \in Nat /\ frame.conn \in Nat /\ frame.conn # 0
    BY <2>1, SlipTypes
  <2>3. Unsupported(frame.conn) => frame.conn < conn
    <3>1. SUFFICES ASSUME Unsupported(frame.conn), frame.conn = conn PROVE FALSE
      BY <2>2
    <3>2. heard = conn /\ heard # 0
      BY <2>1, <2>2, <3>1 DEF SlipInv, AppliedFirst, Unsupported
    <3>3. version[conn] = SupportedVersion
      BY <1>4, <3>2 DEF IngestInv, GateInOrder, GateFollowsVersion
    <3> QED BY <3>1, <3>3 DEF Unsupported
  <2>4. AppliedFirst'
    BY <1>1, <1>4 DEF SlipInv, AppliedFirst, VersionOnItsWay, StoredFrom, Conn
  <2>5. OneSlipsIn'
    BY <1>1, <1>4, <2>1, <2>3 DEF SlipInv, OneSlipsIn, Unsupported, StoredFrom
  <2> QED BY <2>4, <2>5 DEF SlipInv
<1> QED BY <1>3, <1>4

LEMMA SlipStore == ASSUME GoroutinesTypeOK, IngestInv, SlipInv, Store PROVE SlipInv'
<1>1. /\ ppc = "store" /\ ppc' = "notify"
      /\ UNCHANGED <<cpc, conn, sent, held, frame, version, heard>>
      /\ islands' = With(islands, frame.island, [stamp |-> frame.stamp, rev |-> frame.conn])
  BY DEF Store, Put, clientVars
<1>2. frame # NoFrame
  BY <1>1 DEF GoroutinesTypeOK, PipelineTypeOK
<1>3. frame.conn \in Conn /\ frame.conn <= conn /\ conn \in Nat /\ (frame.conn = conn => sent > 0)
      /\ sent \in Nat /\ frame.conn \in Nat
  BY <1>2, SlipTypes
<1>4. \A c : StoredFrom(c)' => StoredFrom(c) \/ c = frame.conn
  <2>1. SUFFICES ASSUME NEW c, NEW i \in DOMAIN islands', islands'[i].rev = c
                 PROVE  StoredFrom(c) \/ c = frame.conn
    BY DEF StoredFrom
  <2>2. CASE i = frame.island
    BY <1>1, <2>1, <2>2 DEF With
  <2>3. CASE i # frame.island
    BY <1>1, <2>1, <2>3 DEF With, StoredFrom
  <2> QED BY <2>2, <2>3
<1>5. AppliedFirst'
  <2>1. (\A c \in Conn : c > conn \/ (c = conn /\ sent = 0) => version[c] = 0 /\ ~StoredFrom(c))'
    <3>1. SUFFICES ASSUME NEW c \in Conn, c > conn \/ (c = conn /\ sent = 0)
                   PROVE  version[c] = 0 /\ ~StoredFrom(c)'
      BY <1>1 DEF Conn
    <3>2. version[c] = 0 /\ ~StoredFrom(c) /\ c \in Nat
      BY <3>1, SlipTypes DEF SlipInv, AppliedFirst
    <3>3. c # frame.conn
      BY <1>3, <3>1, <3>2
    <3> QED BY <1>4, <3>2, <3>3
  <2>2. (cpc \in {"read", "send"} /\ version[conn] # 0 => heard = conn \/ VersionOnItsWay)'
    BY <1>1 DEF SlipInv, AppliedFirst, VersionOnItsWay
  <2>3. (frame # NoFrame /\ frame.kind # "version" /\ version[frame.conn] # 0
           => heard = frame.conn)'
    BY <1>1 DEF SlipInv, AppliedFirst
  <2> QED BY <2>1, <2>2, <2>3 DEF AppliedFirst
<1>6. OneSlipsIn'
  <2>1. (conn # 0 /\ Unsupported(conn) => ~StoredFrom(conn))'
    <3>1. SUFFICES ASSUME conn # 0, Unsupported(conn) PROVE ~StoredFrom(conn)'
      BY <1>1 DEF Unsupported
    <3>2. frame.conn # conn
      BY <1>1, <1>3, <3>1 DEF SlipInv, OneSlipsIn
    <3>3. PICK c : c = conn
      OBVIOUS
    <3>4. ~StoredFrom(c)
      BY <3>1, <3>3 DEF SlipInv, OneSlipsIn
    <3>5. ~StoredFrom(c)'
      BY <1>4, <3>2, <3>3, <3>4
    <3> QED BY <1>1, <3>3, <3>5 DEF StoredFrom
  <2> QED BY <1>1, <2>1 DEF OneSlipsIn
<1> QED BY <1>5, <1>6 DEF SlipInv

LEMMA SlipStep == GoroutinesTypeOK /\ IngestInv /\ SlipInv /\ [IngestNext]_vars => SlipInv'
<1>1. SUFFICES ASSUME GoroutinesTypeOK, IngestInv, SlipInv, [IngestNext]_vars PROVE SlipInv'
  OBVIOUS
<1>2. UNCHANGED islands => \A c : StoredFrom(c)' => StoredFrom(c)
  BY DEF StoredFrom
<1>3. CASE Connect \/ ReadFrame \/ HandOver \/ VersionStatus \/ StatsGate \/ Store
  BY <1>1, <1>3, SlipConnect, SlipRead, SlipHandOver, SlipVersion, SlipGate, SlipStore
<1>4. CASE \/ DialFails \/ DialUnsupported \/ OpenGate \/ UpdateStatus \/ ReadFails
           \/ SendCancelled \/ Sleep
  <2>1. cpc' \notin {"read", "send"}
    BY <1>4 DEF DialFails, DialUnsupported, OpenGate, UpdateStatus, ReadFails, SendCancelled,
                Sleep, LeaveConnection, Report, Stopped
  <2>2. UNCHANGED <<conn, sent, version, heard, ppc, frame, islands>>
    BY <1>4 DEF DialFails, DialUnsupported, OpenGate, UpdateStatus, ReadFails, SendCancelled,
                Sleep, pipelineVars, tickVars
  <2> QED BY <1>1, <1>2, <2>1, <2>2, SlipQuiet
<1>5. CASE NotifyStatus
  <2>1. UNCHANGED <<conn, sent, version, heard, ppc, frame, islands>> /\ cpc' = after
    BY <1>5 DEF NotifyStatus, pipelineVars, tickVars
  <2>2. cpc' \in {"read", "send"} => sent = 0 /\ conn \in Conn
    BY <1>1, <1>5, <2>1, SlipTypes
       DEF NotifyStatus, IngestInv, ReportsInOrder, GoroutinesTypeOK, ClientTypeOK
  <2> QED BY <1>1, <1>2, <2>1, <2>2, SlipQuiet
<1>6. CASE Watch \/ Cancel \/ UNCHANGED vars
  <2>1. UNCHANGED <<cpc, conn, sent, held, version, heard, ppc, frame, islands>>
    BY <1>6 DEF Watch, Cancel, vars, clientVars, pipelineVars, tickVars
  <2> QED BY <1>1, <1>2, <2>1, SlipQuiet
<1>7. CASE VersionGate \/ SetSession \/ Callback \/ Notify \/ Drain \/ Return
  <2>1. UNCHANGED <<cpc, conn, sent, held, version, heard, islands>>
    BY <1>7 DEF VersionGate, SetSession, Callback, Notify, Drain, Return, clientVars, tickVars
  <2>2. ppc \in {"idle", "drain", "done"} => frame = NoFrame
    BY <1>1 DEF GoroutinesTypeOK, PipelineTypeOK
  <2>3. \/ /\ frame' = NoFrame /\ ppc' # "store" /\ ppc \notin {"versionGate", "versionStatus"}
           /\ ppc \in {"drain", "done"} => ppc' \in {"drain", "done"}
        \/ /\ frame' = frame /\ ppc' # "store"
           /\ ppc \notin {"versionGate", "versionStatus", "notify", "drain", "done"}
        \/ frame' = frame /\ ppc = "versionGate" /\ ppc' = "versionStatus"
    BY <1>7, <2>2 DEF VersionGate, SetSession, Callback, Notify, Drain, Return, SourceEnded
  <2> QED BY <1>1, <1>2, <2>1, <2>3, SlipQuiet
<1>8. CASE Boundaries
  <2>1. /\ UNCHANGED <<cpc, conn, sent, held, version, heard, frame>>
        /\ ppc = "boundary" /\ ppc' \in {"setSession", "callback"} /\ islands' = NoIslands
    BY <1>8 DEF Boundaries, Reset, clientVars
  <2>2. \A c : ~StoredFrom(c)'
    BY <2>1 DEF StoredFrom, NoIslands
  <2> QED BY <1>1, <2>1, <2>2, SlipQuiet
<1> QED BY <1>1, <1>3, <1>4, <1>5, <1>6, <1>7, <1>8
           DEF IngestNext, Client, Dial, PipelineStep, Terminated

LEMMA SlipInvariance == IngestSpec => []SlipInv
<1>1. IngestInit => SlipInv
  BY IngestAssumption
     DEF IngestInit, TickInit, NoIslands, SlipInv, AppliedFirst, OneSlipsIn, StoredFrom, Unsupported
<1> QED BY <1>1, GoroutinesTypeCorrect, IngestInvariance, SlipStep, PTL DEF IngestSpec

(***************************************************************************)
(* Of a connection whose version is not supported no statistics are stored *)
(* while it is up, and at most one frame that was already in the           *)
(* pipeline's hands when it was replaced.                                  *)
(***************************************************************************)
THEOREM UnsupportedStatisticsStayOut == IngestSpec => UnsupportedNeverStored
<1>1. GoroutinesTypeOK /\ SlipInv =>
        [(ppc = "store" /\ ppc' = "notify" /\ version[frame.conn] \notin {0, SupportedVersion})
           => frame.conn < conn /\ \A i \in DOMAIN islands : islands[i].rev # frame.conn]_vars
  <2>1. SUFFICES ASSUME GoroutinesTypeOK, SlipInv, ppc = "store", Unsupported(frame.conn)
                 PROVE  frame.conn < conn /\ ~StoredFrom(frame.conn)
    BY DEF Unsupported, StoredFrom
  <2>2. frame # NoFrame
    BY <2>1 DEF GoroutinesTypeOK, PipelineTypeOK
  <2> QED BY <2>1, <2>2 DEF SlipInv, OneSlipsIn
<1>2. QED
  BY <1>1, GoroutinesTypeCorrect, SlipInvariance, PTL DEF UnsupportedNeverStored

(***************************************************************************)
(* The version in the status changes when one is applied and when a new    *)
(* connection is reported; a connection's version is set before it is      *)
(* heard.                                                                  *)
(***************************************************************************)
LEMMA ProtoStep ==
    GoroutinesTypeOK /\ IngestInv /\ ProtoOfHeard /\ [IngestNext]_vars => ProtoOfHeard'
<1>1. SUFFICES ASSUME GoroutinesTypeOK, IngestInv, ProtoOfHeard, [IngestNext]_vars
               PROVE  ProtoOfHeard'
  OBVIOUS
<1>2. /\ conn \in Nat /\ heard \in Nat /\ heard <= conn /\ Conn = 1 .. MaxConn
      /\ heard # 0 => heard \in Conn
  BY <1>1, IngestAssumption DEF GoroutinesTypeOK, ClientTypeOK, SharedTypeOK, IngestInv,
                                FramesInOrder, Conn
<1>3. CASE Connect
  BY <1>1, <1>2, <1>3 DEF Connect, ProtoOfHeard, sharedVars
<1>4. CASE UpdateStatus
  <2>1. /\ UNCHANGED <<conn, version, heard>>
        /\ connection'.proto = IF event = "connected" THEN 0 ELSE connection.proto
    BY <1>4 DEF UpdateStatus, Reported
  <2>2. event = "connected" /\ heard # 0 => heard < conn
    BY <1>1, <1>2, <1>4 DEF UpdateStatus, IngestInv, ReportsInOrder, FramesInOrder
  <2>3. QED
    BY <1>1, <2>1, <2>2 DEF ProtoOfHeard
<1>5. CASE ReadFrame
  <2>1. PICK f \in NextFrames :
          version' = IF f.kind = "version" THEN [version EXCEPT ![conn] = f.number] ELSE version
    BY <1>5 DEF ReadFrame
  <2>2. f.kind = "version" => sent = 0
    BY <2>1 DEF NextFrames, Statistics, OtherFrame
  <2>3. heard # 0 => version'[heard] = version[heard]
    BY <1>1, <1>2, <2>1, <2>2 DEF IngestInv, FramesInOrder, GoroutinesTypeOK, SharedTypeOK
  <2>4. QED
    BY <1>1, <1>5, <2>3 DEF ReadFrame, ProtoOfHeard, sharedVars
<1>6. CASE VersionStatus
  <2>1. frame \in Announcement /\ frame # NoFrame
    BY <1>1, <1>6 DEF VersionStatus, GoroutinesTypeOK, PipelineTypeOK
  <2>2. frame.number = version[frame.conn]
    BY <1>1, <2>1 DEF Announcement, IngestInv, FramesInOrder
  <2>3. connection'.proto = frame.number /\ heard' = frame.conn /\ version' = version
    BY <1>1, <1>6 DEF VersionStatus, Announced, GoroutinesTypeOK, SharedTypeOK
  <2>4. QED
    BY <2>2, <2>3 DEF ProtoOfHeard
<1>7. CASE \/ DialFails \/ DialUnsupported \/ OpenGate \/ NotifyStatus \/ ReadFails
           \/ SendCancelled \/ Watch \/ Sleep
  <2>1. UNCHANGED <<conn, connection, version, heard>>
    BY <1>7 DEF DialFails, DialUnsupported, OpenGate, NotifyStatus, ReadFails, SendCancelled,
                Watch, Sleep, sharedVars
  <2>2. QED
    BY <1>1, <2>1 DEF ProtoOfHeard
<1>8. CASE \/ HandOver \/ VersionGate \/ Boundaries \/ SetSession \/ Callback \/ StatsGate
           \/ Store \/ Notify \/ Drain \/ Return \/ Cancel \/ UNCHANGED vars
  <2>1. UNCHANGED <<conn, connection, version, heard>>
    BY <1>8 DEF HandOver, VersionGate, Boundaries, SetSession, Callback, StatsGate, Store,
                Notify, Drain, Return, Cancel, vars, clientVars, sharedVars
  <2>2. QED
    BY <1>1, <2>1 DEF ProtoOfHeard
<1>9. QED
  BY <1>1, <1>3, <1>4, <1>5, <1>6, <1>7, <1>8
     DEF IngestNext, Client, Dial, PipelineStep, Terminated

(***************************************************************************)
(* A session row names the version of the connection its SessionStart came *)
(* over, or none if the client has reconnected meanwhile.                  *)
(***************************************************************************)
THEOREM SessionRowNamesItsVersion == IngestSpec => RowNamesItsVersion
<1>1. IngestInit => ProtoOfHeard
  BY DEF IngestInit, ProtoOfHeard
<1>2. IngestSpec => []ProtoOfHeard
  BY <1>1, GoroutinesTypeCorrect, IngestInvariance, ProtoStep, PTL DEF IngestSpec
<1>3. ASSUME GoroutinesTypeOK, ProtoOfHeard, [IngestNext]_vars
      PROVE  [(ppc = "callback" /\ ppc' = "notify" /\ frame.kind = "start" /\ heard = frame.conn)
                => \/ row'.proto = version[frame.conn]
                   \/ row'.proto = 0 /\ frame.conn < conn]_vars
  <2>1. SUFFICES ASSUME ppc = "callback", ppc' = "notify", frame.kind = "start",
                        heard = frame.conn, IngestNext
                 PROVE  \/ row'.proto = version[frame.conn]
                        \/ row'.proto = 0 /\ frame.conn < conn
    BY <1>3 DEF vars
  <2>2. Callback
    BY <2>1 DEF IngestNext, Client, Dial, DialFails, DialUnsupported, Connect, OpenGate,
                UpdateStatus, NotifyStatus, ReadFrame, ReadFails, SendCancelled, Watch, Sleep,
                HandOver, PipelineStep, VersionGate, VersionStatus, Boundaries, SetSession,
                StatsGate, Store, Notify, Drain, Return, SourceEnded, Cancel, Terminated,
                pipelineVars, vars
  <2>3. row'.proto = connection.proto /\ heard # 0
    <3>1. frame.conn \in Conn
      BY <1>3, <2>1, FrameByKind DEF GoroutinesTypeOK, PipelineTypeOK
    <3>2. QED
      BY <2>1, <2>2, <3>1 DEF Callback, Conn
  <2>4. QED
    BY <1>3, <2>1, <2>3 DEF ProtoOfHeard
<1>4. QED
  BY <1>2, <1>3, GoroutinesTypeCorrect, PTL DEF IngestSpec, RowNamesItsVersion

-----------------------------------------------------------------------------

(***************************************************************************)
(* Between a change of the status and the frame that brings it to the      *)
(* browsers, the goroutine that made the change still has to announce it;  *)
(* it announces what the status has become by then.                        *)
(***************************************************************************)
Told ==
    \/ published = Status
    \/ cpc = "notify"
    \/ ppc \in {"setSession", "callback", "notify"}

LEMMA ToldStep == Told /\ [IngestNext]_vars => Told'
<1>1. SUFFICES ASSUME Told, [IngestNext]_vars PROVE Told'
  OBVIOUS
<1>2. ASSUME UNCHANGED <<published, connection, headline, tickVars>>,
             cpc = "notify" => cpc' = "notify",
             ppc \in {"setSession", "callback", "notify"} =>
                ppc' \in {"setSession", "callback", "notify"}
      PROVE  Told'
  <2>1. Status' = Status
    BY <1>2 DEF Status, tickVars
  <2>2. QED
    BY <1>1, <1>2, <2>1 DEF Told
<1>3. ASSUME published' = Status, UNCHANGED <<connection, headline, tickVars>> PROVE Told'
  BY <1>3 DEF Told, Status, tickVars
<1>4. CASE DialFails \/ DialUnsupported \/ Connect \/ OpenGate \/ ReadFrame \/ ReadFails
           \/ SendCancelled \/ Watch \/ Sleep
  <2>1. /\ UNCHANGED <<published, connection, headline, tickVars, ppc>>
        /\ cpc # "notify"
    BY <1>4 DEF DialFails, DialUnsupported, Connect, OpenGate, ReadFrame, ReadFails,
                SendCancelled, Watch, Sleep, pipelineVars, sharedVars
  <2>2. QED
    BY <1>2, <2>1
<1>5. CASE UpdateStatus
  BY <1>5 DEF UpdateStatus, Told
<1>6. CASE NotifyStatus
  BY <1>3, <1>6 DEF NotifyStatus
<1>7. CASE VersionStatus \/ Boundaries \/ SetSession \/ Callback \/ Store
  <2>1. ppc' \in {"setSession", "callback", "notify"}
    BY <1>7 DEF VersionStatus, Boundaries, SetSession, Callback, Store
  <2>2. QED
    BY <2>1 DEF Told
<1>8. CASE Notify
  BY <1>3, <1>8 DEF Notify, Sent
<1>9. CASE HandOver
  <2>1. /\ UNCHANGED <<published, connection, headline, tickVars>>
        /\ cpc # "notify" /\ ppc \notin {"setSession", "callback", "notify"}
    BY <1>9 DEF HandOver, sharedVars
  <2>2. QED
    BY <1>2, <2>1
<1>10. CASE VersionGate \/ StatsGate \/ Drain \/ Return
  <2>1. /\ UNCHANGED <<published, connection, headline, tickVars, cpc>>
        /\ ppc \notin {"setSession", "callback", "notify"}
    BY <1>10 DEF VersionGate, StatsGate, Drain, Return, SourceEnded, clientVars, sharedVars
  <2>2. QED
    BY <1>2, <2>1
<1>11. CASE Cancel \/ UNCHANGED vars
  <2>1. UNCHANGED <<published, connection, headline, tickVars, cpc, ppc>>
    BY <1>11 DEF Cancel, vars, clientVars, pipelineVars, sharedVars
  <2>2. QED
    BY <1>2, <2>1
<1>12. QED
  BY <1>1, <1>4, <1>5, <1>6, <1>7, <1>8, <1>9, <1>10, <1>11
     DEF IngestNext, Client, Dial, PipelineStep, Terminated

(***************************************************************************)
(* The client's goroutine and the pipeline's both change the status and    *)
(* announce it. In whatever order they do, once neither is between its     *)
(* change and its announcement the browsers have been sent the current     *)
(* status (pipeline.go:220-225, 324-327; sse.go:171-207).                  *)
(***************************************************************************)
THEOREM AnnouncedStatusIsCurrent == IngestSpec => []BrowsersAreCurrent
<1>1. IngestInit => Told
  BY DEF IngestInit, Told
<1>2. GoroutinesTypeOK /\ Told => BrowsersAreCurrent
  BY DEF GoroutinesTypeOK, PipelineTypeOK, Told, BrowsersAreCurrent
<1>3. QED
  BY <1>1, <1>2, ToldStep, GoroutinesTypeCorrect, PTL DEF IngestSpec

-----------------------------------------------------------------------------
(* A recording instead of the game *)

\* The lines of this pass that have been dealt with.
Dealt == IF reader \in {"send", "wait"} THEN line - 1 ELSE line

OnlyBlank(from, to) == \A n \in from .. to : file[n].kind = "blank"

(***************************************************************************)
(* In a pass under way no line was unreadable. Before its first frame all  *)
(* were blank, and the pass before, if there was one, has read the whole   *)
(* file and ended with its last frame; after it, all since the frame       *)
(* handed over last were blank.                                            *)
(***************************************************************************)
PassInv ==
    /\ line \in 0 .. Len(file) /\ emitted \in {0, 1}
    /\ reader \in {"send", "wait"} => line > 0 /\ IsFrame(line)
    /\ \A n \in 1 .. Dealt : file[n].kind # "bad"
    /\ emitted = 0 => /\ OnlyBlank(1, Dealt)
                      /\ played.line # 0 => /\ opts.loop /\ OnlyBlank(played.line + 1, Len(file))
                                            /\ \A n \in 1 .. Len(file) : file[n].kind # "bad"
    /\ emitted = 1 => /\ played.line \in 1 .. Dealt /\ OnlyBlank(played.line + 1, Dealt)

\* Once the reader has returned, its result is one Playback could end with.
Justified ==
    \/ result = "nil" /\ Recorded!AtTheEnd /\ (opts.loop => Recorded!Frames = {})
    \/ result = "malformed" /\ Recorded!Malformed
    \/ result = "ctx" /\ cancelled
    \/ result = "read"
    \/ result = "init" /\ opts.loop /\ played.line = 0
    \/ result = "rewind" /\ opts.loop /\ Recorded!AtTheEnd /\ Recorded!Frames # {}

ReplayInv ==
    /\ file \in Recordings /\ cancelled \in BOOLEAN
    /\ played.line \in 0 .. Len(file) /\ (played.line # 0 => IsFrame(played.line))
    /\ reader \in {"start", "scan", "wait", "send", "done"}
    /\ runner \in {"select", "handle", "drain", "returned"}
    /\ runner = "drain" => cancelled
    /\ runner # "returned" => returned = "none"
    /\ runner = "returned" => reader = "done"
    /\ reader = "start" => line = 0 /\ emitted = 0 /\ played.line = 0
    /\ reader \in {"scan", "wait", "send"} => PassInv
    /\ reader = "done" => Justified

LEMMA ReplayStart == ReplayInit => ReplayInv /\ Recorded!Init
<1> SUFFICES ASSUME ReplayInit PROVE ReplayInv /\ Recorded!Init
  OBVIOUS
<1>1. /\ file \in Recordings /\ cancelled = FALSE /\ reader = "start" /\ line = 0 /\ emitted = 0
      /\ runner = "select" /\ returned = "none" /\ played = [line |-> 0, turn |-> 0]
      /\ opts.loop \in BOOLEAN
  BY DEF ReplayInit
<1>2. Recorded!Init
  BY <1>1 DEF Recorded!Init
<1>3. Len(file) \in Nat
  BY <1>1, ReplayAssumption
<1>4. /\ played.line = 0 /\ played.line \in 0 .. Len(file)
      /\ reader \in {"start", "scan", "wait", "send", "done"}
      /\ reader \notin {"scan", "wait", "send"} /\ reader # "done"
      /\ runner \in {"select", "handle", "drain", "returned"}
      /\ runner # "drain" /\ runner # "returned"
  BY <1>1, <1>3, SMT
<1>5. cancelled \in BOOLEAN
  BY <1>1
<1>6. ReplayInv
  BY <1>1, <1>4, <1>5, Zenon DEF ReplayInv
<1> QED BY <1>2, <1>6

LEMMA FileLines ==
    ASSUME ReplayInv
    PROVE  /\ Len(file) \in Nat /\ DOMAIN file = 1 .. Len(file)
           /\ \A n \in 1 .. Len(file) : file[n].kind \in {"blank", "bad", "frame"}
BY ReplayAssumption DEF ReplayInv

\* Steps that neither move the reader nor hand anything over.
LEMMA ReaderStands ==
    ASSUME ReplayInv, UNCHANGED <<file, opts, readerVars, played>>, cancelled => cancelled'
    PROVE  /\ reader \in {"scan", "wait", "send"} => PassInv'
           /\ reader = "done" => Justified'
<1>1. reader \in {"scan", "wait", "send"} => PassInv'
  BY DEF ReplayInv, PassInv, Dealt, OnlyBlank, IsFrame, readerVars
<1>2. reader = "done" => Justified'
  BY DEF ReplayInv, Justified, readerVars, Recorded!AtTheEnd, Recorded!Frames,
         Recorded!Malformed, Recorded!Blank
<1> QED BY <1>1, <1>2

\* Steps of the reader alone: nothing of them shows.
LEMMA ReaderMoves ==
    ASSUME ReplayInv, UNCHANGED <<file, opts, cancelled, runnerVars>>, reader # "done",
           reader' \in {"scan", "wait", "send", "done"},
           reader' # "done" => PassInv', reader' = "done" => Justified'
    PROVE  ReplayInv' /\ UNCHANGED Recorded!vars
<1>1. UNCHANGED <<file, opts, cancelled, runner, returned, played>>
  BY DEF runnerVars
<1>2. UNCHANGED Recorded!vars
  BY <1>1 DEF Recorded!vars
<1>3. /\ file' \in Recordings /\ cancelled' \in BOOLEAN
      /\ played'.line \in 0 .. Len(file') /\ (played'.line # 0 => IsFrame(played.line)')
  BY <1>1 DEF ReplayInv, IsFrame
<1>4. /\ runner' \in {"select", "handle", "drain", "returned"}
      /\ runner' = "drain" => cancelled'
      /\ runner' # "returned" => returned' = "none"
      /\ runner' # "returned"
  BY <1>1 DEF ReplayInv
<1>5. /\ reader' \in {"start", "scan", "wait", "send", "done"} /\ reader' # "start"
      /\ reader' \in {"scan", "wait", "send"} => reader' # "done"
  OBVIOUS
<1>6. ReplayInv'
  BY <1>3, <1>4, <1>5 DEF ReplayInv
<1> QED BY <1>2, <1>6

LEMMA BeginStep == ASSUME ReplayInv, Begin PROVE ReplayInv' /\ UNCHANGED Recorded!vars
<1>1. /\ reader = "start" /\ line' = 0 /\ emitted' = 0 /\ played'.line = 0
      /\ UNCHANGED <<file, opts, cancelled, runnerVars, played>>
  BY DEF Begin, ReplayInv, runnerVars
<1>2. CASE reader' = "scan"
  <2>1. Len(file') \in Nat
    BY <1>1, FileLines
  <2>2. Dealt' = 0
    BY <1>1, <1>2 DEF Dealt
  <2>3. PassInv'
    BY <1>1, <1>2, <2>1, <2>2 DEF PassInv, OnlyBlank
  <2> QED BY <1>1, <1>2, <2>3, ReaderMoves
<1>3. CASE reader' = "done" /\ result' = "init" /\ opts.loop
  <2>1. Justified'
    BY <1>1, <1>3 DEF Justified
  <2> QED BY <1>1, <1>3, <2>1, ReaderMoves
<1> QED BY <1>2, <1>3 DEF Begin, ReturnWith

LEMMA ScanStep == ASSUME ReplayInv, Scan PROVE ReplayInv' /\ UNCHANGED Recorded!vars
<1>1. /\ reader = "scan" /\ line < Len(file) /\ line' = line + 1 /\ Dealt = line
      /\ UNCHANGED <<file, opts, cancelled, emitted, runnerVars, played>> /\ PassInv
  BY DEF Scan, ReplayInv, Dealt, runnerVars
<1>2. /\ Len(file) \in Nat /\ line \in 0 .. Len(file) /\ line + 1 \in 1 .. Len(file)
      /\ file[line + 1].kind \in {"blank", "bad", "frame"}
  BY <1>1, FileLines DEF PassInv
<1>3. CASE file[line + 1].kind = "blank"
  <2>1. reader' = "scan" /\ Dealt' = line + 1
    BY <1>1, <1>3 DEF Scan, Skips, Dealt
  <2>2. PassInv'
    BY <1>1, <1>2, <1>3, <2>1 DEF PassInv, OnlyBlank
  <2> QED BY <1>1, <2>1, <2>2, ReaderMoves
<1>4. CASE file[line + 1].kind = "bad"
  <2>1. reader' = "done" /\ result' = "malformed"
    BY <1>4 DEF Scan, Skips, IsFrame, ReturnWith
  <2>2. /\ played.line \in 0 .. line
        /\ \A n \in played.line + 1 .. line : file[n].kind = "blank"
    BY <1>1, <1>2, <1>4 DEF PassInv, OnlyBlank, ReplayInv
  <2>3. Recorded!Malformed'
    BY <1>1, <1>2, <1>4, <2>2 DEF Recorded!Malformed, Recorded!Blank
  <2>4. Justified'
    BY <2>1, <2>3 DEF Justified
  <2> QED BY <1>1, <2>1, <2>4, ReaderMoves
<1>5. CASE file[line + 1].kind = "frame"
  <2>1. reader' \in {"send", "wait"} /\ Dealt' = line
    BY <1>1, <1>2, <1>5 DEF Scan, Skips, IsFrame, Dealt
  <2>2. PassInv'
    BY <1>1, <1>2, <1>5, <2>1 DEF PassInv, OnlyBlank, IsFrame
  <2> QED BY <1>1, <2>1, <2>2, ReaderMoves
<1> QED BY <1>2, <1>3, <1>4, <1>5

LEMMA WaitStep ==
    ASSUME ReplayInv, ScanFails \/ Wait \/ StopSending
    PROVE  ReplayInv' /\ UNCHANGED Recorded!vars
<1>1. /\ reader \in {"scan", "wait", "send"} /\ PassInv
      /\ UNCHANGED <<file, opts, cancelled, line, emitted, runnerVars, played>>
  BY DEF ScanFails, Wait, StopSending, ReplayInv, runnerVars
<1>2. CASE reader' = "done" /\ (result' = "read" \/ (result' = "ctx" /\ cancelled))
  <2>1. Justified'
    BY <1>1, <1>2 DEF Justified
  <2> QED BY <1>1, <1>2, <2>1, ReaderMoves
<1>3. CASE reader = "wait" /\ reader' = "send"
  <2>1. Dealt' = Dealt
    BY <1>1, <1>3 DEF Dealt
  <2>2. PassInv'
    BY <1>1, <1>3, <2>1 DEF PassInv, OnlyBlank, IsFrame
  <2> QED BY <1>1, <1>3, <2>2, ReaderMoves
<1> QED BY <1>2, <1>3 DEF ScanFails, Wait, StopSending, ReturnWith

LEMMA PassEndsStep == ASSUME ReplayInv, PassEnds PROVE ReplayInv' /\ UNCHANGED Recorded!vars
<1>1. /\ reader = "scan" /\ line = Len(file) /\ Dealt = Len(file)
      /\ UNCHANGED <<file, opts, cancelled, runnerVars, played>> /\ PassInv
  BY DEF PassEnds, ReplayInv, Dealt, runnerVars
<1>2. /\ Len(file) \in Nat /\ DOMAIN file = 1 .. Len(file)
      /\ emitted \in {0, 1} /\ played.line \in 0 .. Len(file)
  BY <1>1, FileLines DEF PassInv, ReplayInv
<1>3. CASE reader' = "scan" /\ GoesOn /\ line' = 0 /\ emitted' = 0
  <2>1. Dealt' = 0
    BY <1>3 DEF Dealt
  <2>2. PassInv'
    BY <1>1, <1>2, <1>3, <2>1 DEF PassInv, OnlyBlank, GoesOn
  <2> QED BY <1>1, <1>3, <2>2, ReaderMoves
<1>4. emitted = 1 => Recorded!AtTheEnd /\ Recorded!Frames # {}
  BY <1>1, <1>2 DEF PassInv, OnlyBlank, ReplayInv, IsFrame,
                    Recorded!AtTheEnd, Recorded!Blank, Recorded!Frames
<1>5. emitted = 0 => played.line = 0 /\ Recorded!AtTheEnd /\ Recorded!Frames = {}
  <2>1. SUFFICES ASSUME emitted = 0 PROVE played.line = 0 /\ Recorded!AtTheEnd /\ Recorded!Frames = {}
    OBVIOUS
  <2>2. \A n \in 1 .. Len(file) : file[n].kind = "blank"
    BY <1>1, <2>1 DEF PassInv, OnlyBlank
  <2>3. played.line = 0
    BY <1>2, <2>2 DEF ReplayInv, IsFrame
  <2> QED BY <1>2, <2>2, <2>3 DEF Recorded!AtTheEnd, Recorded!Blank, Recorded!Frames
<1>6. UNCHANGED <<Recorded!AtTheEnd, Recorded!Frames>>
  BY <1>1 DEF Recorded!AtTheEnd, Recorded!Blank, Recorded!Frames
<1>7. CASE reader' = "done" /\ result' = "rewind" /\ GoesOn
  <2>1. Justified'
    BY <1>1, <1>2, <1>4, <1>6, <1>7 DEF Justified, GoesOn
  <2> QED BY <1>1, <1>7, <2>1, ReaderMoves
<1>8. CASE reader' = "done" /\ result' = "nil" /\ ~GoesOn
  <2>1. Justified'
    BY <1>1, <1>2, <1>4, <1>5, <1>6, <1>8 DEF Justified, GoesOn
  <2> QED BY <1>1, <1>8, <2>1, ReaderMoves
<1> QED BY <1>1, <1>3, <1>7, <1>8 DEF PassEnds, ReturnWith

\* A frame is handed over: the one Playback names next.
LEMMA HandStep == ASSUME ReplayInv, Hand PROVE ReplayInv' /\ Recorded!Play
<1>1. /\ reader = "send" /\ reader' = "scan" /\ emitted' = 1 /\ runner \in {"select", "drain"}
      /\ UNCHANGED <<file, opts, cancelled, line, returned>>
      /\ played' = [line |-> line, turn |-> 1 - played.turn]
      /\ returned = "none" /\ PassInv
  BY DEF Hand, ReplayInv, Takes
<1>2. /\ Len(file) \in Nat /\ DOMAIN file = 1 .. Len(file)
      /\ line \in 1 .. Len(file) /\ IsFrame(line) /\ Dealt = line - 1 /\ Dealt' = line
      /\ played'.line = line
  BY <1>1, FileLines DEF PassInv, Dealt
<1>3. Recorded!Play
  <2>1. line \in Recorded!Frames
    BY <1>2 DEF Recorded!Frames, IsFrame
  <2>2. CASE emitted = 1
    <3>1. line > played.line /\ Recorded!Blank(played.line + 1, line - 1)
      BY <1>1, <1>2, <2>2 DEF PassInv, OnlyBlank, Recorded!Blank
    <3> QED BY <1>1, <2>1, <3>1 DEF Recorded!Play
  <2>3. CASE emitted = 0
    <3>1. Recorded!Blank(1, line - 1)
      BY <1>1, <1>2, <2>3 DEF PassInv, OnlyBlank, Recorded!Blank
    <3>2. CASE played.line = 0
      <4>1. line > played.line /\ Recorded!Blank(played.line + 1, line - 1)
        BY <1>2, <3>1, <3>2
      <4> QED BY <1>1, <2>1, <4>1 DEF Recorded!Play
    <3>3. CASE played.line # 0
      <4>1. opts.loop /\ Recorded!AtTheEnd
        BY <1>1, <2>3, <3>3 DEF PassInv, OnlyBlank, Recorded!AtTheEnd, Recorded!Blank
      <4> QED BY <1>1, <2>1, <3>1, <4>1 DEF Recorded!Play
    <3> QED BY <3>2, <3>3
  <2> QED BY <1>1, <2>2, <2>3 DEF PassInv
<1>4. PassInv'
  BY <1>1, <1>2 DEF PassInv, OnlyBlank, IsFrame
<1>5. /\ file' \in Recordings /\ cancelled' \in BOOLEAN
      /\ played'.line \in 0 .. Len(file') /\ IsFrame(played.line)'
  BY <1>1, <1>2 DEF ReplayInv, IsFrame
<1>6. /\ runner' \in {"select", "handle", "drain", "returned"}
      /\ runner' = "drain" => cancelled'
      /\ returned' = "none" /\ runner' # "returned"
  BY <1>1 DEF ReplayInv, Hand
<1>7. /\ reader' \in {"start", "scan", "wait", "send", "done"}
      /\ reader' # "start" /\ reader' # "done"
  BY <1>1
<1>8. ReplayInv'
  BY <1>4, <1>5, <1>6, <1>7 DEF ReplayInv
<1> QED BY <1>3, <1>8

\* Steps that leave the reader where it is and hand nothing over.
LEMMA RunnerMoves ==
    ASSUME ReplayInv, UNCHANGED <<file, opts, readerVars, played>>,
           cancelled' \in BOOLEAN, cancelled => cancelled',
           runner' \in {"select", "handle", "drain", "returned"},
           runner' = "drain" => cancelled',
           runner' # "returned" => returned' = "none",
           runner' = "returned" => reader = "done"
    PROVE  ReplayInv'
<1>1. UNCHANGED <<file, opts, reader, line, emitted, result, played>>
  BY DEF readerVars
<1>2. /\ file' \in Recordings
      /\ played'.line \in 0 .. Len(file') /\ (played'.line # 0 => IsFrame(played.line)')
      /\ reader' \in {"start", "scan", "wait", "send", "done"}
      /\ reader' = "start" => line' = 0 /\ emitted' = 0 /\ played'.line = 0
  BY <1>1 DEF ReplayInv, IsFrame
<1>3. /\ reader' \in {"scan", "wait", "send"} => PassInv'
      /\ reader' = "done" => Justified'
  BY <1>1, ReaderStands
<1> QED BY <1>1, <1>2, <1>3 DEF ReplayInv

LEMMA RunnerStays ==
    ASSUME ReplayInv, Handled \/ StopHandling
    PROVE  ReplayInv' /\ UNCHANGED Recorded!vars
<1>1. /\ UNCHANGED <<file, opts, cancelled, readerVars, returned, played>>
      /\ runner \in {"select", "handle"} /\ runner' \in {"select", "drain"}
      /\ runner' = "drain" => cancelled
  BY DEF Handled, StopHandling
<1>2. cancelled \in BOOLEAN /\ returned = "none"
  BY <1>1 DEF ReplayInv
<1>3. ReplayInv'
  BY <1>1, <1>2, RunnerMoves
<1> QED BY <1>1, <1>3 DEF Recorded!vars

LEMMA ReturnStep == ASSUME ReplayInv, ReaderReturned PROVE ReplayInv' /\ Recorded!End
<1>1. /\ UNCHANGED <<file, opts, cancelled, readerVars, played>>
      /\ runner \in {"select", "drain"} /\ reader = "done" /\ runner' = "returned"
      /\ returned' = IF runner = "drain" THEN "ctx" ELSE result
  BY DEF ReaderReturned
<1>2. /\ cancelled \in BOOLEAN /\ returned = "none" /\ Justified
      /\ runner = "drain" => cancelled
  BY <1>1 DEF ReplayInv
<1>3. ReplayInv'
  BY <1>1, <1>2, RunnerMoves
<1>4. Recorded!End
  BY <1>1, <1>2 DEF Justified, Recorded!End
<1> QED BY <1>3, <1>4

LEMMA InterruptStep == ASSUME ReplayInv, Interrupt PROVE ReplayInv' /\ Recorded!Cancel
<1>1. /\ UNCHANGED <<file, opts, readerVars, runner, returned, played>> /\ cancelled' = TRUE
  BY DEF Interrupt, runnerVars
<1>2. /\ runner \in {"select", "handle", "drain", "returned"}
      /\ runner # "returned" => returned = "none"
      /\ runner = "returned" => reader = "done"
  BY DEF ReplayInv
<1>3. ReplayInv'
  BY <1>1, <1>2, RunnerMoves
<1> QED BY <1>1, <1>3 DEF Recorded!Cancel

LEMMA ReplayStep ==
    ReplayInv /\ [ReplayNext]_replayVars => ReplayInv' /\ [Recorded!Next]_(Recorded!vars)
<1> SUFFICES ASSUME ReplayInv, [ReplayNext]_replayVars
             PROVE  ReplayInv' /\ [Recorded!Next]_(Recorded!vars)
  OBVIOUS
<1>1. CASE UNCHANGED replayVars
  <2>1. /\ UNCHANGED <<file, opts, cancelled, readerVars, runner, returned, played>>
    BY <1>1 DEF replayVars, runnerVars
  <2>2. /\ cancelled \in BOOLEAN
        /\ runner \in {"select", "handle", "drain", "returned"}
        /\ runner = "drain" => cancelled
        /\ runner # "returned" => returned = "none"
        /\ runner = "returned" => reader = "done"
    BY DEF ReplayInv
  <2>3. ReplayInv'
    BY <2>1, <2>2, RunnerMoves
  <2> QED BY <2>1, <2>3 DEF Recorded!vars
<1>2. CASE ReplayNext
  BY <1>2, BeginStep, ScanStep, WaitStep, PassEndsStep, HandStep, RunnerStays, ReturnStep,
     InterruptStep DEF ReplayNext, ReaderStep, RunnerStep, Recorded!Next
<1> QED BY <1>1, <1>2

(***************************************************************************)
(* Whatever the file holds, and wherever the reader and the pipeline are   *)
(* when they are interrupted, the frames handed over are those of the file *)
(* in its order, none left out and none past a line that cannot be read,   *)
(* from the first again after the last only if asked to; and what          *)
(* Pipeline.Run returns is true of the file and of what was played         *)
(* (reader.go:76, 117-147; pipeline.go:95-120): the safety half of         *)
(* ImplementsPlayback.                                                     *)
(***************************************************************************)
THEOREM ReplayKeepsItsPromise ==
    ReplaySpec => Recorded!Init /\ [][Recorded!Next]_(Recorded!vars)
<1>1. ReplaySpec => []ReplayInv
  BY ReplayStart, ReplayStep, PTL DEF ReplaySpec
<1>2. QED
  BY <1>1, ReplayStart, ReplayStep, PTL DEF ReplaySpec

=============================================================================
