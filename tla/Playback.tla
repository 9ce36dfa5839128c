------------------------------ MODULE Playback ------------------------------
(***************************************************************************)
(* What replaying a recording promises to whoever started it               *)
(* (reader.go:21-31, 63-65): its frames one after the other in the order   *)
(* of the file, with Loop from the first again after the last; an end,     *)
(* once it is asked for or nothing is left to play; and a result that      *)
(* says why.                                                               *)
(***************************************************************************)
EXTENDS Naturals, Sequences

CONSTANT Recordings

VARIABLES
    file,      \* the recording, a sequence of lines
    loop,      \* Options.Loop
    cancelled, \* the replay was asked to end
    played,    \* the line handed over last, 0 before the first, and a bit each one flips
    returned   \* how the replay ended

vars == <<file, loop, cancelled, played, returned>>

Blank(from, to) == \A n \in from .. to : file[n].kind = "blank"

AtTheEnd == Blank(played.line + 1, Len(file))

Frames == {n \in DOMAIN file : file[n].kind = "frame"}

Init ==
    /\ file \in Recordings /\ loop \in BOOLEAN /\ cancelled = FALSE
    /\ played = [line |-> 0, turn |-> 0] /\ returned = "none"

(***************************************************************************)
(* The next frame: none is left out, and no line that cannot be read is    *)
(* passed.                                                                 *)
(***************************************************************************)
Play ==
    /\ returned = "none"
    /\ \E n \in Frames :
          /\ \/ n > played.line /\ Blank(played.line + 1, n - 1)
             \/ loop /\ AtTheEnd /\ Blank(1, n - 1)
          /\ played' = [line |-> n, turn |-> 1 - played.turn]
    /\ UNCHANGED <<file, loop, cancelled, returned>>

Cancel ==
    /\ cancelled' = TRUE
    /\ UNCHANGED <<file, loop, played, returned>>

Malformed ==
    \E n \in played.line + 1 .. Len(file) :
        file[n].kind = "bad" /\ Blank(played.line + 1, n - 1)

(***************************************************************************)
(* The replay ends: played to the end, at a line that cannot be read,      *)
(* because it was asked to, because the input fails, or because it could   *)
(* not be looped.                                                          *)
(***************************************************************************)
End ==
    /\ returned = "none"
    /\ \/ returned' = "nil" /\ AtTheEnd /\ (loop => Frames = {})
       \/ returned' = "malformed" /\ Malformed
       \/ returned' = "ctx" /\ cancelled
       \/ returned' = "read"
       \/ returned' = "init" /\ loop /\ played.line = 0
       \/ returned' = "rewind" /\ loop /\ AtTheEnd /\ Frames # {}
    /\ UNCHANGED <<file, loop, cancelled, played>>

Next == Play \/ Cancel \/ End

Ends == (cancelled \/ ~loop \/ Frames = {}) ~> returned # "none"

Spec == Init /\ [][Next]_vars /\ Ends
=============================================================================
