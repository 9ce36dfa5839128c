------------------------------ MODULE LanMode --------------------------------
(***************************************************************************)
(* internal/server's lanMode: the second listener, switched on and off by  *)
(* requests, by --lan at the start, and ended by the server's shutdown.    *)
(*                                                                         *)
(* opMu lets one enable or disable run at a time, whoever holds it does    *)
(* its steps one after the other; the fields under mu are read and written *)
(* by anybody in between, and closeAll sets `closed' without opMu.         *)
(* net.Listen opens a socket at once, the goroutine that serves it starts  *)
(* later; a server closed before that keeps its socket until the goroutine *)
(* runs (net/http, from how lan.go uses it).                               *)
(*                                                                         *)
(* A socket that is closed is forgotten, so Sockets bounds how many are    *)
(* open at once. Available, interface, port and URL follow the address.    *)
(***************************************************************************)
EXTENDS Naturals, FiniteSets

CONSTANTS
    Callers,   \* requests that toggle, each again and again
    Main,      \* startServer and serve: --lan at the start, closeAll at the end
    Addresses, \* private addresses the machine can have
    Sockets,   \* bound: sockets open at once
    None       \* no address, no socket, nobody

ASSUME LanAssumption ==
    /\ Main \notin Callers /\ None \notin Callers /\ None # Main
    /\ None \notin Addresses /\ None \notin Sockets

VARIABLES
    nic,      \* what lanMode.candidate finds, None: no private address
    closed, enabled, addr,   \* the fields of lanMode
    ln,       \* lanMode.ln and srv
    holder,   \* who holds opMu
    at,       \* the holder's next step
    target,   \* enable's addr
    held,     \* enable's ln, disable's srv
    pc,       \* each process: what it is about to do, or what its call returned
    sock,     \* each socket: [st, addr]
    main      \* "starting", "up", "failed", "closing", "down"

lanFields == <<closed, enabled, addr, ln>>
lanVars   == <<nic, lanFields, holder, at, target, held, pc, sock, main>>

Processes == Callers \cup {Main}

(***************************************************************************)
(* "bound": Listen has returned; "starting": go Serve is due; "serving";   *)
(* "shut": its server was closed and Serve is still due.                   *)
(***************************************************************************)
SocketState == {"closed", "bound", "starting", "serving", "shut"}

IsOpen(s) == sock[s].st # "closed"

Closed == [st |-> "closed", addr |-> None]

LanInit ==
    /\ nic \in Addresses \cup {None}
    /\ closed = FALSE /\ enabled = FALSE /\ addr = None /\ ln = None
    /\ holder = None /\ at = "free" /\ target = None /\ held = None
    /\ \E flag \in {"enable", "idle"} :
          pc = [p \in Processes |-> IF p = Main THEN flag ELSE "idle"]
    /\ sock = [s \in Sockets |-> Closed]
    /\ main = "starting"

-----------------------------------------------------------------------------
(* Who wants what *)

(***************************************************************************)
(* handleLANToggle, past its checks, calls enable or disable. A handler in *)
(* flight may come to it during or after the shutdown.                     *)
(***************************************************************************)
Toggle(c, what) ==
    /\ pc[c] = "idle" /\ what \in {"enable", "disable"}
    /\ pc' = [pc EXCEPT ![c] = what]
    /\ UNCHANGED <<nic, lanFields, holder, at, target, held, sock, main>>

(***************************************************************************)
(* startServer is through, with or without EnableLAN.                      *)
(***************************************************************************)
Started ==
    /\ main = "starting" /\ pc[Main] = "idle"
    /\ main' = "up"
    /\ UNCHANGED <<nic, lanFields, holder, at, target, held, pc, sock>>

(***************************************************************************)
(* Server.serve returns because the loopback listener failed: LAN mode is  *)
(* left as it is.                                                          *)
(***************************************************************************)
ServeFails ==
    /\ main = "up"
    /\ main' = "failed"
    /\ UNCHANGED <<nic, lanFields, holder, at, target, held, pc, sock>>

\* closeAll is no more than a disable.
MutEndsForGood == closed

EndsForGood == TRUE

(***************************************************************************)
(* closeAll: the flag, then disable.                                       *)
(***************************************************************************)
CloseAll ==
    /\ main = "up"
    /\ closed' = EndsForGood
    /\ main' = "closing"
    /\ pc' = [pc EXCEPT ![Main] = "disable"]
    /\ UNCHANGED <<nic, enabled, addr, ln, holder, at, target, held, sock>>

\* The machine gets another address, or loses it.
Roam ==
    /\ nic' \in (Addresses \cup {None}) \ {nic}
    /\ UNCHANGED <<lanFields, holder, at, target, held, pc, sock, main>>

-----------------------------------------------------------------------------
(* opMu *)

Lock(p) ==
    /\ pc[p] \in {"enable", "disable"} /\ holder = None
    /\ holder' = p
    /\ at' = IF pc[p] = "enable" THEN "check" ELSE "take"
    /\ pc' = [pc EXCEPT ![p] = "inside"]
    /\ UNCHANGED <<nic, lanFields, target, held, sock, main>>

Goes(step) == at' = step /\ UNCHANGED <<holder, pc, main>>

(***************************************************************************)
(* opMu is released and the call returns: "done", or "refused" with an     *)
(* error. The main goroutine goes on at once.                              *)
(***************************************************************************)
Return(result) ==
    /\ holder' = None /\ at' = "free" /\ target' = None
    /\ pc' = [pc EXCEPT ![holder] = IF holder = Main THEN "idle" ELSE result]
    /\ main' = IF holder = Main /\ main = "closing" THEN "down" ELSE main

(***************************************************************************)
(* handleLANToggle answers and is gone.                                    *)
(***************************************************************************)
Answer(c) ==
    /\ pc[c] \in {"done", "refused"}
    /\ pc' = [pc EXCEPT ![c] = "idle"]
    /\ UNCHANGED <<nic, lanFields, holder, at, target, held, sock, main>>

-----------------------------------------------------------------------------
(* enable *)

Check ==
    /\ at = "check"
    /\ \/ closed /\ Return("refused")
       \/ ~closed /\ enabled /\ Return("done")
       \/ ~closed /\ ~enabled /\ Goes("candidate") /\ UNCHANGED target
    /\ UNCHANGED <<nic, lanFields, held, sock>>

Candidate ==
    /\ at = "candidate"
    /\ \/ nic = None /\ Return("refused")
       \/ nic # None /\ target' = nic /\ Goes("listen")
    /\ UNCHANGED <<nic, lanFields, held, sock>>

(***************************************************************************)
(* net.Listen fails: the port is taken, by this program or another one.    *)
(***************************************************************************)
ListenFails ==
    /\ at = "listen"
    /\ Return("refused")
    /\ UNCHANGED <<nic, lanFields, held, sock>>

Listen ==
    /\ at = "listen"
    /\ \A s \in Sockets : sock[s].addr # target
    /\ \E s \in Sockets :
          /\ ~IsOpen(s)
          /\ sock' = [sock EXCEPT ![s] = [st |-> "bound", addr |-> target]]
          /\ held' = s
    /\ Goes("publish")
    /\ UNCHANGED <<nic, lanFields, target>>

(***************************************************************************)
(* Somebody won the race while the socket was bound.                       *)
(***************************************************************************)
Lost == closed \/ enabled

Publish ==
    /\ at = "publish" /\ ~Lost
    /\ enabled' = TRUE /\ addr' = target /\ ln' = held
    /\ sock' = [sock EXCEPT ![held].st = "starting"]
    /\ held' = None
    /\ Goes("return")
    /\ UNCHANGED <<nic, closed, target>>

\* What was just opened is not closed.
MutDropped == UNCHANGED sock

Dropped == sock' = [sock EXCEPT ![held] = Closed]

Drop ==
    /\ at = "publish" /\ Lost
    /\ Dropped /\ held' = None
    /\ Goes("return")
    /\ UNCHANGED <<nic, lanFields, target>>

-----------------------------------------------------------------------------
(* disable *)

Take ==
    /\ at = "take"
    /\ held' = ln
    /\ enabled' = FALSE /\ addr' = None /\ ln' = None
    /\ Goes(IF ln = None THEN "return" ELSE "close")
    /\ UNCHANGED <<nic, closed, target, sock>>

(***************************************************************************)
(* srv.Close: the sockets it serves are closed, one it is yet to serve is  *)
(* not known to it.                                                        *)
(***************************************************************************)
CloseServer ==
    /\ at = "close"
    /\ sock' = [sock EXCEPT ![held] =
                    IF sock[held].st = "starting" THEN [@ EXCEPT !.st = "shut"] ELSE Closed]
    /\ held' = None
    /\ Goes("return")
    /\ UNCHANGED <<nic, lanFields, target>>

ReturnState ==
    /\ at = "return"
    /\ Return("done")
    /\ UNCHANGED <<nic, lanFields, held, sock>>

(***************************************************************************)
(* The goroutine with srv.Serve: on a closed server it closes the socket.  *)
(***************************************************************************)
Serve(s) ==
    /\ \/ sock[s].st = "starting" /\ sock' = [sock EXCEPT ![s].st = "serving"]
       \/ sock[s].st = "shut" /\ sock' = [sock EXCEPT ![s] = Closed]
    /\ UNCHANGED <<nic, lanFields, holder, at, target, held, pc, main>>

-----------------------------------------------------------------------------

Inside ==
    \/ Check \/ Candidate \/ ListenFails \/ Listen \/ Publish \/ Drop
    \/ Take \/ CloseServer \/ ReturnState

LanNext ==
    \/ Inside
    \/ \E p \in Processes : Lock(p)
    \/ \E c \in Callers : Answer(c) \/ \E what \in {"enable", "disable"} : Toggle(c, what)
    \/ \E s \in Sockets : Serve(s)
    \/ Started \/ CloseAll \/ ServeFails \/ Roam

LanSpec == LanInit /\ [][LanNext]_lanVars

-----------------------------------------------------------------------------

(***************************************************************************)
(* Type invariant.                                                         *)
(***************************************************************************)
LanTypeOK ==
    /\ nic \in Addresses \cup {None}
    /\ closed \in BOOLEAN /\ enabled \in BOOLEAN
    /\ addr \in Addresses \cup {None} /\ ln \in Sockets \cup {None}
    /\ holder \in Processes \cup {None}
    /\ at \in {"free", "check", "candidate", "listen", "publish", "take", "close", "return"}
    /\ target \in Addresses \cup {None} /\ held \in Sockets \cup {None}
    /\ pc \in [Processes -> {"idle", "enable", "disable", "inside", "done", "refused"}]
    /\ sock \in [Sockets -> [st : SocketState, addr : Addresses \cup {None}]]
    /\ main \in {"starting", "up", "failed", "closing", "down"}

(***************************************************************************)
(* Two toggles and a shutdown "cannot leave the listener in a state nobody *)
(* asked for": LAN mode that says it is on has its listener open, on the   *)
(* address it says, and an open listener is that one, the one an enable or *)
(* a disable has in hand, or one of a closed server.                       *)
(***************************************************************************)
ListenersOwned ==
    /\ enabled => ln # None /\ sock[ln].st \in {"starting", "serving"} /\ sock[ln].addr = addr
    /\ \A s \in Sockets :
          /\ sock[s].st = "bound" => at = "publish" /\ held = s
          /\ sock[s].st \in {"starting", "serving"} =>
                (enabled /\ ln = s) \/ (at = "close" /\ held = s)

(***************************************************************************)
(* "closeAll ends LAN mode for good": once it has returned nothing is      *)
(* served on the network, whatever toggles were halfway through enabling.  *)
(***************************************************************************)
GoneAfterShutdown ==
    main = "down" => /\ ~enabled
                     /\ \A s \in Sockets : sock[s].st \in {"closed", "shut"}

=============================================================================
