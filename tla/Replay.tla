------------------------------- MODULE Replay -------------------------------
(***************************************************************************)
(* internal/replay: a recording played into the pipeline. The reader and   *)
(* the pipeline are two goroutines joined by an unbuffered channel; the    *)
(* reader sleeps for the recorded gaps and, with Loop, starts over at the  *)
(* end. What a frame holds is not looked at: it is the line it came from.  *)
(***************************************************************************)
EXTENDS Integers, Sequences, FiniteSets

CONSTANTS
    Recordings,  \* files: sequences of lines
    NoTime       \* no frame has been handed over in this pass

(***************************************************************************)
(* A line is blank, unreadable or a frame with its time.                   *)
(***************************************************************************)
ASSUME ReplayAssumption ==
    \A f \in Recordings :
        /\ Len(f) \in Nat /\ DOMAIN f = 1 .. Len(f)
        /\ \A n \in DOMAIN f : f[n].kind \in {"blank", "bad", "frame"}

VARIABLES
    file,     \* the recording
    opts,     \* Options, and whether the input can seek
    cancelled,\* the context is cancelled
    reader,   \* where Reader.Run is
    line,     \* the lines scanned in this pass, playOnce's lineNo
    emitted,  \* the frames emitted in this pass, up to one
    prev,     \* the time of the last frame of this pass, or NoTime
    result,   \* what Reader.Run returned
    runner,   \* where Pipeline.Run is
    returned, \* what Pipeline.Run returned
    played    \* the line handed over last, and a bit that each one flips

readerVars == <<reader, line, emitted, prev, result>>
runnerVars == <<runner, returned, played>>
replayVars == <<file, opts, cancelled, readerVars, runnerVars>>

IsFrame(n) == file[n].kind = "frame"

ReplayInit ==
    /\ file \in Recordings
    /\ opts \in [paced : BOOLEAN, loop : BOOLEAN, seekable : BOOLEAN]
    /\ cancelled = FALSE
    /\ reader = "start" /\ line = 0 /\ emitted = 0 /\ prev = NoTime /\ result = "none"
    /\ runner = "select" /\ returned = "none"
    /\ played = [line |-> 0, turn |-> 0]

-----------------------------------------------------------------------------
(* Reader.Run *)

ReturnWith(r) == reader' = "done" /\ result' = r

(***************************************************************************)
(* Loop without a seekable input is reported here, by initErr.             *)
(***************************************************************************)
Begin ==
    /\ reader = "start"
    /\ IF opts.loop /\ ~opts.seekable THEN ReturnWith("init")
       ELSE reader' = "scan" /\ UNCHANGED result
    /\ UNCHANGED <<file, opts, cancelled, line, emitted, prev, runnerVars>>

Skips(kind) == kind = "blank"

(***************************************************************************)
(* The scanner has a line. One that is unreadable ends the replay: lines   *)
(* are never skipped silently.                                             *)
(***************************************************************************)
Scan ==
    /\ reader = "scan" /\ line < Len(file)
    /\ line' = line + 1
    /\ IF Skips(file[line + 1].kind) THEN UNCHANGED <<reader, result>>
       ELSE IF ~IsFrame(line + 1) THEN ReturnWith("malformed")
       ELSE reader' = (IF prev = NoTime THEN "send" ELSE "wait") /\ UNCHANGED result
    /\ UNCHANGED <<file, opts, cancelled, emitted, prev, runnerVars>>

(***************************************************************************)
(* The input itself fails.                                                 *)
(***************************************************************************)
ScanFails ==
    /\ reader = "scan"
    /\ ReturnWith("read")
    /\ UNCHANGED <<file, opts, cancelled, line, emitted, prev, runnerVars>>

(***************************************************************************)
(* wait. Without a gap there is nothing to sleep for, but a cancelled      *)
(* context still stops the replay. (A gap of less than a nanosecond after  *)
(* scaling ends at once, like a timer that fires first.) The time of the   *)
(* frame becomes prev when it is handed over: nobody reads it before.      *)
(***************************************************************************)
Gap == file[line].at - prev

Sleeps == opts.paced /\ Gap > 0

Wait ==
    /\ reader = "wait"
    /\ \/ (cancelled => Sleeps) /\ reader' = "send" /\ UNCHANGED result
       \/ cancelled /\ ReturnWith("ctx")
    /\ UNCHANGED <<file, opts, cancelled, line, emitted, prev, runnerVars>>

(***************************************************************************)
(* The select of playOnce, its other case: Hand, below.                    *)
(***************************************************************************)
StopSending ==
    /\ reader = "send" /\ cancelled
    /\ ReturnWith("ctx")
    /\ UNCHANGED <<file, opts, cancelled, line, emitted, prev, runnerVars>>

\* An empty recording is played again.
MutGoesOn == opts.loop

GoesOn == opts.loop /\ emitted > 0

(***************************************************************************)
(* The recording ends: played again from its first line, or done.          *)
(***************************************************************************)
PassEnds ==
    /\ reader = "scan" /\ line = Len(file)
    /\ IF GoesOn
       THEN \/ line' = 0 /\ emitted' = 0 /\ prev' = NoTime /\ UNCHANGED <<reader, result>>
            \/ ReturnWith("rewind") /\ UNCHANGED <<line, emitted, prev>>
       ELSE ReturnWith("nil") /\ UNCHANGED <<line, emitted, prev>>
    /\ UNCHANGED <<file, opts, cancelled, runnerVars>>

-----------------------------------------------------------------------------
(* Pipeline.Run *)

\* Frames are handled in one, dropped in the other.
Takes == {"select", "drain"}

(***************************************************************************)
(* The unbuffered channel: send and receive are one step.                  *)
(***************************************************************************)
Hand ==
    /\ reader = "send" /\ runner \in Takes
    /\ reader' = "scan" /\ emitted' = 1 /\ prev' = file[line].at
    /\ runner' = IF runner = "select" THEN "handle" ELSE runner
    /\ played' = [line |-> line, turn |-> 1 - played.turn]
    /\ UNCHANGED <<file, opts, cancelled, line, result, returned>>

Handled ==
    /\ runner = "handle"
    /\ runner' = "select"
    /\ UNCHANGED <<file, opts, cancelled, readerVars, returned, played>>

StopHandling ==
    /\ runner = "select" /\ cancelled
    /\ runner' = "drain"
    /\ UNCHANGED <<file, opts, cancelled, readerVars, returned, played>>

ReaderReturned ==
    /\ runner \in {"select", "drain"} /\ reader = "done"
    /\ runner' = "returned"
    /\ returned' = IF runner = "drain" THEN "ctx" ELSE result
    /\ UNCHANGED <<file, opts, cancelled, readerVars, played>>

Interrupt ==
    /\ ~cancelled
    /\ cancelled' = TRUE
    /\ UNCHANGED <<file, opts, readerVars, runnerVars>>

ReaderStep == Begin \/ Scan \/ Wait \/ PassEnds
RunnerStep == Handled \/ ReaderReturned

ReplayNext ==
    \/ ReaderStep \/ ScanFails \/ StopSending
    \/ RunnerStep \/ Hand \/ StopHandling
    \/ Interrupt

(***************************************************************************)
(* Goroutines run, timers fire, and a select with several ready cases      *)
(* draws among them, so that one which is ready again and again is taken   *)
(* at some time.                                                           *)
(***************************************************************************)
ReplayFairness ==
    /\ WF_replayVars(ReaderStep) /\ WF_replayVars(RunnerStep) /\ WF_replayVars(Hand)
    /\ SF_replayVars(StopSending) /\ SF_replayVars(StopHandling)

ReplaySpec == ReplayInit /\ [][ReplayNext]_replayVars /\ ReplayFairness

-----------------------------------------------------------------------------
(* Properties *)

Recorded == INSTANCE Playback WITH loop <- opts.loop

(***************************************************************************)
(* The reader, the pipeline and the channel between them keep what a       *)
(* replay promises: every frame is handed over once per pass and in order, *)
(* Pipeline.Run says why it ended, and it does end - whatever the reader   *)
(* waits for when it is cancelled, in the middle of a loop, with nothing   *)
(* to play (reader.go:76, "would otherwise spin forever"), and without     *)
(* leaving the source blocked on the channel (pipeline.go:102-104).        *)
(***************************************************************************)
ImplementsPlayback == Recorded!Spec
=============================================================================
