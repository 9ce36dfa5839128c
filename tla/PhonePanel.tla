----------------------------- MODULE PhonePanel ------------------------------
(***************************************************************************)
(* web/js/views/phone.js over lanMode: the panel with the LAN switch, open *)
(* in one tab while another tab toggles too. A click sends a POST, whose   *)
(* handler calls enable or disable, publishes a status and answers with    *)
(* the state of that moment; the panel fetches the state when it opens,    *)
(* after a refusal, and when a status event disagrees with the switch.     *)
(* Answers arrive in any order, and each is painted when it arrives.       *)
(*                                                                         *)
(* The event stream loses nothing here (EventStream models its losses);    *)
(* every statistics tick publishes the status again.                       *)
(***************************************************************************)
EXTENDS LanMode, Sequences

CONSTANTS
    Clicks,     \* the panel's POSTs, the other callers are other tabs'
    Fetches,    \* bound: GETs of the panel in flight at once
    MaxToggles, \* bound: toggles, of all tabs
    MaxFails    \* bound: requests of the panel that fail

ASSUME PanelAssumption == Clicks \subseteq Callers /\ {MaxToggles, MaxFails} \subseteq Nat

VARIABLES
    checked,   \* the switch: toggle.checked
    usable,    \* ~toggle.disabled
    listening, \* the first answer is there, the status listener attached
    want,      \* each click: what it asks for in its POST
    reply,     \* each click: "none", "awaited" while it is posted, or what came back
    fetch,     \* each GET: [for, wanted, at, on, available]
    words,     \* status events on their way: lan.enabled
    published, \* handlers that have published their status
    toggles, panelFails   \* for the bounds

panelVars == <<checked, usable, listening, want, reply, fetch, words, published, toggles,
               panelFails>>

NoFetch == [for |-> "nothing", wanted |-> FALSE, at |-> "idle", on |-> FALSE, available |-> FALSE]

(***************************************************************************)
(* GET for whom: the opening panel, a status, or a click whose POST failed *)
(* and which keeps what it wanted.                                         *)
(***************************************************************************)
Ask(for, wanted) == [NoFetch EXCEPT !.for = for, !.wanted = wanted, !.at = "asked"]

\* The program was started without --lan.
PanelOpens ==
    /\ checked = FALSE /\ usable = TRUE /\ listening = FALSE
    /\ want = [c \in Clicks |-> FALSE] /\ reply = [c \in Clicks |-> "none"]
    /\ LET first == CHOOSE f \in Fetches : TRUE
       IN fetch = [f \in Fetches |-> IF f = first THEN Ask("opening", FALSE) ELSE NoFetch]
    /\ words = <<>> /\ published = {} /\ toggles = 0 /\ panelFails = 0

PanelInit == LanInit /\ pc[Main] = "idle" /\ PanelOpens

-----------------------------------------------------------------------------
(* Clicks, and another tab's *)

(***************************************************************************)
(* The browser flips the switch, the listener disables it and posts. The   *)
(* POST comes to the server or does not.                                   *)
(***************************************************************************)
Click(c) ==
    /\ usable /\ c \in Clicks /\ toggles < MaxToggles /\ main \in {"starting", "up"}
    /\ reply[c] = "none" /\ pc[c] = "idle"
    /\ \/ /\ Toggle(c, IF checked THEN "disable" ELSE "enable")
          /\ reply' = [reply EXCEPT ![c] = "awaited"]
          /\ UNCHANGED panelFails
       \/ /\ panelFails < MaxFails /\ panelFails' = panelFails + 1
          /\ reply' = [reply EXCEPT ![c] = "failed"]
          /\ UNCHANGED lanVars
    /\ checked' = ~checked /\ usable' = FALSE
    /\ want' = [want EXCEPT ![c] = ~checked]
    /\ toggles' = toggles + 1
    /\ UNCHANGED <<listening, fetch, words, published>>

OtherTab(c, what) ==
    /\ c \notin Clicks /\ toggles < MaxToggles /\ main \in {"starting", "up"}
    /\ Toggle(c, what)
    /\ toggles' = toggles + 1
    /\ UNCHANGED <<checked, usable, listening, want, reply, fetch, words, published, panelFails>>

-----------------------------------------------------------------------------
(* The server's side *)

(***************************************************************************)
(* PublishStatus, after an enable or a disable that was not refused.       *)
(***************************************************************************)
PublishLan(c) ==
    /\ pc[c] = "done" /\ c \notin published
    /\ published' = published \cup {c}
    /\ words' = Append(words, enabled)
    /\ UNCHANGED <<lanVars, checked, usable, listening, want, reply, fetch, toggles, panelFails>>

(***************************************************************************)
(* The answer: the state as lanStateDTO finds it, or the error. Nobody     *)
(* waits for the answer to a POST the browser has given up.                *)
(***************************************************************************)
Respond(c) ==
    /\ pc[c] = "refused" \/ c \in published
    /\ Answer(c)
    /\ published' = published \ {c}
    /\ reply' = IF c \in Clicks /\ reply[c] = "awaited"
                THEN [reply EXCEPT ![c] = IF pc[c] = "refused" THEN "failed"
                                          ELSE IF enabled THEN "on" ELSE "off"]
                ELSE reply
    /\ UNCHANGED <<checked, usable, listening, want, fetch, words, toggles, panelFails>>

ServeFetch(f) ==
    /\ fetch[f].at = "asked"
    /\ fetch' = [fetch EXCEPT ![f].at = "answered", ![f].on = enabled,
                              ![f].available = enabled \/ (~closed /\ nic # None)]
    /\ UNCHANGED <<lanVars, checked, usable, listening, want, reply, words, published, toggles,
                   panelFails>>

(***************************************************************************)
(* The next tick: its answers were due long ago.                           *)
(***************************************************************************)
TickStatus ==
    /\ words = <<>> /\ \A f \in Fetches : fetch[f] = NoFetch
    /\ words' = <<enabled>>
    /\ UNCHANGED <<lanVars, checked, usable, listening, want, reply, fetch, published, toggles,
                   panelFails>>

-----------------------------------------------------------------------------
(* The panel *)

(***************************************************************************)
(* The answer to a click is painted, and the switch is usable again        *)
(* whatever it says. A POST that failed is followed by a GET.              *)
(***************************************************************************)
ApplyReply(c) ==
    /\ \/ /\ reply[c] \in {"on", "off"}
          /\ checked' = (reply[c] = "on") /\ usable' = TRUE
          /\ UNCHANGED fetch
       \/ /\ reply[c] = "failed"
          /\ \E f \in Fetches : fetch[f] = NoFetch /\ fetch' = [fetch EXCEPT ![f] = Ask(c, want[c])]
          /\ UNCHANGED <<checked, usable>>
    /\ reply' = [reply EXCEPT ![c] = "none"]
    /\ UNCHANGED <<lanVars, listening, want, words, published, toggles, panelFails>>

(***************************************************************************)
(* The POST fails for the browser, whether its handler is still at work,   *)
(* goes on to the end, or has answered.                                    *)
(***************************************************************************)
FailPost(c) ==
    /\ reply[c] \in {"awaited", "on", "off"} /\ panelFails < MaxFails
    /\ panelFails' = panelFails + 1
    /\ reply' = [reply EXCEPT ![c] = "failed"]
    /\ UNCHANGED <<lanVars, checked, usable, listening, want, fetch, words, published, toggles>>

(***************************************************************************)
(* render(await api.lan()): the click that waited for it ends with it.     *)
(***************************************************************************)
ApplyFetch(f) ==
    /\ fetch[f].at = "answered"
    /\ checked' = fetch[f].on
    /\ usable' = (fetch[f].for \in Clicks \/ fetch[f].available)
    /\ listening' = (listening \/ fetch[f].for = "opening")
    /\ fetch' = [fetch EXCEPT ![f] = NoFetch]
    /\ UNCHANGED <<lanVars, want, reply, words, published, toggles, panelFails>>

(***************************************************************************)
(* The panel keeps what it shows; a click takes itself back, whatever was  *)
(* clicked since.                                                          *)
(***************************************************************************)
FailFetch(f) ==
    /\ fetch[f].at # "idle" /\ panelFails < MaxFails
    /\ panelFails' = panelFails + 1
    /\ IF fetch[f].for \in Clicks
       THEN checked' = ~fetch[f].wanted /\ usable' = TRUE
       ELSE UNCHANGED <<checked, usable>>
    /\ listening' = (listening \/ fetch[f].for = "opening")
    /\ fetch' = [fetch EXCEPT ![f] = NoFetch]
    /\ UNCHANGED <<lanVars, want, reply, words, published, toggles>>

\* A status that finds the switch on is not looked at.
MutDisagrees(on) == on /\ ~checked

(***************************************************************************)
(* onStatus fetches the state only where the event and the switch differ.  *)
(***************************************************************************)
Disagrees(on) == on # checked

OnLanStatus ==
    /\ words # <<>>
    /\ words' = Tail(words)
    /\ IF listening /\ Disagrees(Head(words))
       THEN \E f \in Fetches : fetch[f] = NoFetch /\ fetch' = [fetch EXCEPT ![f] = Ask("status", FALSE)]
       ELSE UNCHANGED fetch
    /\ UNCHANGED <<lanVars, checked, usable, listening, want, reply, published, toggles,
                   panelFails>>

-----------------------------------------------------------------------------

\* What the server and the page do by themselves, once they are asked.
PanelWorking ==
    \/ (Inside \/ Started \/ \E s \in Sockets : Serve(s)) /\ UNCHANGED panelVars
    \/ \E p \in Processes : Lock(p) /\ UNCHANGED panelVars
    \/ \E c \in Callers : PublishLan(c) \/ Respond(c)
    \/ \E c \in Clicks : ApplyReply(c)
    \/ \E f \in Fetches : ServeFetch(f) \/ ApplyFetch(f)
    \/ OnLanStatus

PanelNext ==
    \/ PanelWorking \/ TickStatus
    \/ \E c \in Clicks : Click(c) \/ FailPost(c)
    \/ \E c \in Callers, what \in {"enable", "disable"} : OtherTab(c, what)
    \/ \E f \in Fetches : FailFetch(f)
    \/ Roam /\ UNCHANGED panelVars

(***************************************************************************)
(* Everything asked for is answered, and ticks go on: the work of toggles  *)
(* is finite, so it all gets done.                                         *)
(***************************************************************************)
PanelFairness ==
    /\ WF_<<lanVars, panelVars>>(PanelWorking)
    /\ WF_<<lanVars, panelVars>>(TickStatus)

PanelSpec == PanelInit /\ [][PanelNext]_<<lanVars, panelVars>> /\ PanelFairness

-----------------------------------------------------------------------------

(***************************************************************************)
(* "The checkbox follows what the server did, not what was clicked": with  *)
(* answers painted in any order, clicks during clicks and another tab's    *)
(* toggles, the switch of an open panel ends up saying whether LAN mode is *)
(* on, as long as ticks go on.                                             *)
(***************************************************************************)
PanelConverges == <>[](checked = enabled)

=============================================================================
