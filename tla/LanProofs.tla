------------------------------ MODULE LanProofs ------------------------------
(***************************************************************************)
(* Proofs about lanMode, for any number of callers, addresses and sockets, *)
(* and about the address it takes, for any interfaces and flags.           *)
(*                                                                         *)
(* What the two properties of lanMode need beside themselves: opMu has one *)
(* holder, the socket in the holder's hand is the one its step is about,   *)
(* LAN mode is on exactly when it has a listener, and the shutdown's own   *)
(* disable comes after every enable that could still publish.              *)
(*                                                                         *)
(* What the choice of an address needs: a list, in whatever order, has the *)
(* addresses of its interfaces and no other, and any two of them are told  *)
(* apart by the comparison, so that only one can come first.               *)
(***************************************************************************)
EXTENDS PhonePanel, LanAddress, FiniteSetTheorems, WellFoundedInduction, TLAPS

Serving == {"starting", "serving"}

\* opMu: one process is between Lock and Return, and `at' is its step.
OneInside ==
    /\ holder = None <=> at = "free"
    /\ \A p \in Processes : pc[p] = "inside" <=> holder = p

\* The step of the holder and what it has in hand.
InHand ==
    /\ held # None <=> at \in {"publish", "close"}
    /\ at \in {"listen", "publish"} => target # None
    /\ at = "publish" => sock[held] = [st |-> "bound", addr |-> target]
    /\ at = "close" => ~enabled /\ sock[held].st \in Serving

\* LAN mode is on exactly when it has a listener.
OnIsListening == enabled <=> ln # None

\* Where the main goroutine is: it enables while it starts, if at all, and
\* disables while it closes, after it has set closed.
MainsWay ==
    /\ main = "starting" =>
          /\ pc[Main] \in {"idle", "enable", "inside"}
          /\ holder = Main => at \notin {"take", "close"}
    /\ main \in {"up", "failed", "down"} => pc[Main] = "idle"
    /\ main = "closing" =>
          /\ pc[Main] \in {"disable", "inside"}
          /\ holder = Main => at \in {"take", "close", "return"}
    /\ main \in {"closing", "down"} => closed

\* Once the shutdown has taken the listener there is no other, and whoever
\* gets opMu after it finds closed.
Ending ==
    /\ main = "closing" /\ holder = Main /\ at \in {"close", "return"} => ~enabled
    /\ main = "down" => ~enabled /\ at \in {"free", "check", "take", "return"}

LanInv ==
    /\ LanTypeOK /\ OneInside /\ InHand /\ OnIsListening /\ MainsWay /\ Ending
    /\ ListenersOwned

-----------------------------------------------------------------------------

LEMMA InitHolds == LanInit => LanInv
<1> SUFFICES ASSUME LanInit PROVE LanInv
  OBVIOUS
<1>1. PICK flag \in {"enable", "idle"} :
          pc = [p \in Processes |-> IF p = Main THEN flag ELSE "idle"]
  BY DEF LanInit
<1>2. Main \in Processes /\ \A p \in Processes : pc[p] \in {"enable", "idle"}
  BY <1>1 DEF Processes
<1>3. \A s \in Sockets : sock[s] = [st |-> "closed", addr |-> None]
  BY DEF LanInit, Closed
<1>4. LanTypeOK
  BY <1>1 DEF LanInit, LanTypeOK, Closed, SocketState
<1>5. OneInside
  BY <1>2, LanAssumption DEF LanInit, OneInside, Processes
<1>6. InHand /\ OnIsListening /\ MainsWay /\ Ending
  BY <1>2, LanAssumption DEF LanInit, InHand, OnIsListening, MainsWay, Ending
<1>7. ListenersOwned
  BY <1>3 DEF LanInit, ListenersOwned
<1> QED BY <1>4, <1>5, <1>6, <1>7 DEF LanInv

(***************************************************************************)
(* Every step keeps the invariant. The steps that carry it are CloseAll    *)
(* (closed before the disable), Lock and the returns (one inside), Publish *)
(* and Take (the listener changes hands); each of these has its argument   *)
(* below, the others disturb one conjunct and change little of it.         *)
(***************************************************************************)
LEMMA StepKeeps == LanInv /\ [LanNext]_lanVars => LanInv'
<1> SUFFICES ASSUME LanInv, [LanNext]_lanVars PROVE LanInv'
    OBVIOUS
<1> USE LanAssumption
    DEF LanInv, LanTypeOK, OneInside, InHand, OnIsListening, MainsWay, Ending, ListenersOwned,
        Processes, SocketState, Serving, lanFields
<1>1. ASSUME NEW c \in Callers, NEW what \in {"enable", "disable"}, Toggle(c, what) PROVE LanInv'
  BY <1>1 DEF Toggle
<1>2. CASE Started
  BY <1>2 DEF Started
<1>3. CASE ServeFails
  BY <1>3 DEF ServeFails
<1>4. CASE CloseAll
  <2>1. closed' /\ main' = "closing" /\ pc' = [pc EXCEPT ![Main] = "disable"]
    BY <1>4 DEF CloseAll, EndsForGood
  <2>2. holder # Main
    BY <1>4 DEF CloseAll
  <2>3. OneInside' /\ MainsWay' /\ Ending'
    BY <1>4, <2>1, <2>2 DEF CloseAll
  <2> QED BY <1>4, <2>1, <2>3 DEF CloseAll
<1>5. CASE Roam
  BY <1>5 DEF Roam
<1>6. ASSUME NEW p \in Processes, Lock(p) PROVE LanInv'
  <2>1. at = "free" /\ held = None /\ at' \in {"check", "take"}
    BY <1>6 DEF Lock
  <2>2. p = Main /\ main = "closing" => at' = "take"
    BY <1>6 DEF Lock
  <2>3. p = Main /\ main = "starting" => at' = "check"
    BY <1>6 DEF Lock
  <2>4. OneInside'
    BY <1>6 DEF Lock
  <2>5. MainsWay' /\ Ending'
    BY <1>6, <2>1, <2>2, <2>3 DEF Lock
  <2> QED BY <1>6, <2>1, <2>4, <2>5 DEF Lock
<1>7. ASSUME NEW c \in Callers, Answer(c) PROVE LanInv'
  BY <1>7 DEF Answer
<1>8. CASE Check
  BY <1>8 DEF Check, Return, Goes
<1>9. CASE Candidate
  BY <1>9 DEF Candidate, Return, Goes
<1>10. CASE ListenFails
  BY <1>10 DEF ListenFails, Return
<1>11. CASE Listen
  <2>1. PICK s \in Sockets : /\ ~IsOpen(s) /\ held' = s
                            /\ sock' = [sock EXCEPT ![s] = [st |-> "bound", addr |-> target]]
    BY <1>11 DEF Listen
  <2>2. \A u \in Sockets : sock[u].st # "bound"
    BY <1>11 DEF Listen
  <2>3. ListenersOwned'
    BY <1>11, <2>1, <2>2 DEF Listen, Goes, IsOpen
  <2> QED BY <1>11, <2>1, <2>3 DEF Listen, Goes, IsOpen
<1>12. CASE Publish
  <2>1. sock[held] = [st |-> "bound", addr |-> target] /\ target # None /\ held # None
    BY <1>12 DEF Publish
  <2>2. \A s \in Sockets : sock[s].st \notin Serving
    BY <1>12 DEF Publish, Lost
  <2>3. enabled' /\ ln' = held /\ addr' = target /\ sock' = [sock EXCEPT ![held].st = "starting"]
    BY <1>12 DEF Publish
  <2>4. ListenersOwned'
    BY <1>12, <2>1, <2>2, <2>3 DEF Publish, Goes
  <2>5. MainsWay' /\ Ending'
    BY <1>12 DEF Publish, Goes, Lost
  <2> QED BY <1>12, <2>1, <2>3, <2>4, <2>5 DEF Publish, Goes
<1>13. CASE Drop
  BY <1>13 DEF Drop, Dropped, Goes, Closed
<1>14. CASE Take
  <2>1. ~enabled' /\ ln' = None /\ held' = ln /\ held = None
    BY <1>14 DEF Take
  <2>2. ln # None => enabled /\ sock[ln].st \in Serving /\ at' = "close"
    BY <1>14 DEF Take, Goes
  <2>3. InHand' /\ ListenersOwned'
    BY <1>14, <2>1, <2>2 DEF Take, Goes
  <2>4. main = "down" => at' = "return"
    BY <1>14 DEF Take, Goes
  <2>5. MainsWay' /\ Ending'
    BY <1>14, <2>1, <2>4 DEF Take, Goes
  <2> QED BY <1>14, <2>1, <2>3, <2>5 DEF Take, Goes
<1>15. CASE CloseServer
  BY <1>15 DEF CloseServer, Goes, Closed
<1>16. CASE ReturnState
  <2>1. holder \in Processes /\ holder' = None /\ at' = "free" /\ pc'[holder] # "inside"
    BY <1>16 DEF ReturnState, Return
  <2>2. OneInside'
    BY <1>16, <2>1 DEF ReturnState, Return
  <2>3. main' = "down" /\ main # "down" => ~enabled'
    BY <1>16 DEF ReturnState, Return
  <2>4. MainsWay' /\ Ending'
    BY <1>16, <2>1, <2>3 DEF ReturnState, Return
  <2> QED BY <1>16, <2>1, <2>2, <2>4 DEF ReturnState, Return
<1>17. ASSUME NEW s \in Sockets, Serve(s) PROVE LanInv'
  BY <1>17 DEF Serve, Closed
<1>18. CASE UNCHANGED lanVars
  BY <1>18 DEF lanVars
<1> QED BY <1>1, <1>2, <1>3, <1>4, <1>5, <1>6, <1>7, <1>8, <1>9, <1>10, <1>11, <1>12, <1>13,
           <1>14, <1>15, <1>16, <1>17, <1>18 DEF LanNext, Inside

LEMMA InvHolds == LanSpec => []LanInv
<1>1. LanInit => LanInv
  BY InitHolds
<1>2. LanInv /\ [LanNext]_lanVars => LanInv'
  BY StepKeeps
<1> QED BY <1>1, <1>2, PTL DEF LanSpec

-----------------------------------------------------------------------------

(***************************************************************************)
(* The fields of lanMode, both mutexes' holder and the sockets stay in     *)
(* their types.                                                            *)
(***************************************************************************)
THEOREM LanTypeCorrect == LanSpec => []LanTypeOK
<1>1. LanInv => LanTypeOK
  BY DEF LanInv
<1> QED BY <1>1, InvHolds, PTL

(***************************************************************************)
(* However enables, disables and the shutdown interleave around the bind,  *)
(* no listener is left open that nobody owns, and LAN mode that says it is *)
(* on listens where it says (lan.go:129).                                  *)
(***************************************************************************)
THEOREM ListenersStayOwned == LanSpec => []ListenersOwned
<1>1. LanInv => ListenersOwned
  BY DEF LanInv
<1> QED BY <1>1, InvHolds, PTL

(***************************************************************************)
(* closeAll ends LAN mode for good (lan.go:309): when it has returned, an  *)
(* open socket is one whose server is closed, whatever comes after.        *)
(***************************************************************************)
THEOREM NothingServedAfterShutdown == LanSpec => []GoneAfterShutdown
<1>1. LanInv => GoneAfterShutdown
  <2> SUFFICES ASSUME LanInv, main = "down", NEW s \in Sockets
               PROVE  ~enabled /\ sock[s].st \in {"closed", "shut"}
    BY DEF GoneAfterShutdown, LanInv, Ending
  <2>1. ~enabled /\ at \in {"free", "check", "take", "return"}
    BY DEF LanInv, Ending
  <2>2. sock[s].st \notin {"bound", "starting", "serving"}
    BY <2>1 DEF LanInv, ListenersOwned
  <2>3. sock[s].st \in SocketState
    BY DEF LanInv, LanTypeOK
  <2> QED BY <2>1, <2>2, <2>3 DEF SocketState
<1> QED BY <1>1, InvHolds, PTL

(***************************************************************************)
(* The phone panel, the other tabs and the requests between them change    *)
(* lanMode only by its own steps, so all of the above holds under them.    *)
(***************************************************************************)
THEOREM PanelDrivesLan ==
    PanelInit /\ [][PanelNext]_<<lanVars, panelVars>> => LanSpec
<1>1. PanelInit => LanInit
  BY DEF PanelInit
<1>2. [PanelNext]_<<lanVars, panelVars>> => [LanNext]_lanVars
  <2> SUFFICES ASSUME [PanelNext]_<<lanVars, panelVars>> PROVE [LanNext]_lanVars
    OBVIOUS
  <2>1. CASE PanelWorking
    <3>1. CASE Inside \/ Started \/ \E s \in Sockets : Serve(s)
      BY <3>1 DEF LanNext
    <3>2. CASE \E p \in Processes : Lock(p)
      BY <3>2 DEF LanNext
    <3>3. ASSUME NEW c \in Callers, PublishLan(c) PROVE UNCHANGED lanVars
      BY <3>3 DEF PublishLan
    <3>4. ASSUME NEW c \in Callers, Respond(c) PROVE LanNext
      BY <3>4 DEF Respond, LanNext
    <3>5. ASSUME NEW c \in Clicks, ApplyReply(c) PROVE UNCHANGED lanVars
      BY <3>5 DEF ApplyReply
    <3>6. ASSUME NEW f \in Fetches, ServeFetch(f) \/ ApplyFetch(f) PROVE UNCHANGED lanVars
      BY <3>6 DEF ServeFetch, ApplyFetch
    <3>7. CASE OnLanStatus
      BY <3>7 DEF OnLanStatus
    <3> QED BY <2>1, <3>1, <3>2, <3>3, <3>4, <3>5, <3>6, <3>7 DEF PanelWorking
  <2>2. CASE TickStatus
    BY <2>2 DEF TickStatus
  <2>3. ASSUME NEW c \in Clicks, Click(c) PROVE [LanNext]_lanVars
    <3>1. CASE UNCHANGED lanVars
      BY <3>1
    <3>2. CASE Toggle(c, IF checked THEN "disable" ELSE "enable")
      BY <3>2, PanelAssumption DEF LanNext
    <3> QED BY <2>3, <3>1, <3>2 DEF Click
  <2>6. ASSUME NEW c \in Clicks, FailPost(c) PROVE UNCHANGED lanVars
    BY <2>6 DEF FailPost
  <2>7. CASE Roam
    BY <2>7 DEF LanNext
  <2>4. ASSUME NEW c \in Callers, NEW what \in {"enable", "disable"}, OtherTab(c, what) PROVE LanNext
    BY <2>4 DEF OtherTab, LanNext
  <2>5. ASSUME NEW f \in Fetches, FailFetch(f) PROVE UNCHANGED lanVars
    BY <2>5 DEF FailFetch
  <2> QED BY <2>1, <2>2, <2>3, <2>4, <2>5, <2>6, <2>7 DEF PanelNext
<1> QED BY <1>1, <1>2, PTL DEF LanSpec

-----------------------------------------------------------------------------
(* The address *)

LEMMA Ranges ==
    /\ DOMAIN privateRanges = 1..3
    /\ privateRanges[1] = "192.168" /\ privateRanges[2] = "10" /\ privateRanges[3] = "172.16"
    /\ \A net : net \in Range(privateRanges) <=> net \in {"192.168", "10", "172.16"}
<1>1. /\ DOMAIN privateRanges = 1..3
      /\ privateRanges[1] = "192.168" /\ privateRanges[2] = "10" /\ privateRanges[3] = "172.16"
  BY DEF privateRanges
<1> HIDE DEF privateRanges
<1>2. \A net : net \in Range(privateRanges) <=> \E n \in 1..3 : net = privateRanges[n]
  BY <1>1 DEF Range
<1>3. \A n \in 1..3 : n = 1 \/ n = 2 \/ n = 3
  OBVIOUS
<1>4. 1 \in 1..3 /\ 2 \in 1..3 /\ 3 \in 1..3
  OBVIOUS
<1> QED BY <1>1, <1>2, <1>3, <1>4

LEMMA RankOf ==
    ASSUME NEW ip, ip.net \in Range(privateRanges)
    PROVE  rank(ip) \in Nat /\ rank(ip) \in 1..3 /\ privateRanges[rank(ip)] = ip.net
<1>1. \E n \in DOMAIN privateRanges : privateRanges[n] = ip.net
  BY DEF Range
<1>2. rank(ip) \in DOMAIN privateRanges /\ privateRanges[rank(ip)] = ip.net
  BY <1>1 DEF rank
<1> QED BY <1>2, Ranges

LEMMA Unmapped ==
    ASSUME NEW a, IsIp(a)
    PROVE  /\ IsIp(Unmap(a)) /\ Unmap(Unmap(a)) = Unmap(a)
           /\ Unmap(a).net = a.net /\ Unmap(a).host = a.host
<1>1. PICK f : f = IF a.form = "mapped" THEN "v4" ELSE a.form
  OBVIOUS
<1>2. Unmap(a) = [form |-> f, net |-> a.net, host |-> a.host]
  <2>1. a = [form |-> a.form, net |-> a.net, host |-> a.host]
    BY DEF IsIp
  <2>2. Unmap(a) = [a EXCEPT !.form = f]
    BY <1>1, <2>1 DEF Unmap
  <2> QED BY <2>1, <2>2
<1>3. f \in {"v4", "v6"} /\ a.host \in Nat
  BY <1>1 DEF IsIp
<1>4. \A b : b = [form |-> f, net |-> a.net, host |-> a.host] => Unmap(b) = b
  <2>1. SUFFICES ASSUME NEW b, b = [form |-> f, net |-> a.net, host |-> a.host]
                 PROVE  [b EXCEPT !.form = IF f = "mapped" THEN "v4" ELSE f] = b
    BY DEF Unmap
  <2> QED BY <1>3, <2>1
<1> QED BY <1>2, <1>3, <1>4 DEF IsIp

\* An order of a finite set holds every member.
LEMMA OrderCovers ==
    ASSUME NEW S, IsFiniteSet(S), NEW order \in Orders(S)
    PROVE  /\ Cardinality(S) \in Nat /\ DOMAIN order = 1..Cardinality(S)
           /\ Len(order) = Cardinality(S)
           /\ \A n \in DOMAIN order : order[n] \in S
           /\ \A x \in S : \E n \in DOMAIN order : order[n] = x
<1> DEFINE D == 1..Cardinality(S)
<1>1. Cardinality(S) \in Nat
  BY FS_CardinalityType
<1>2. order \in [D -> S] /\ \A i, j \in D : i # j => order[i] # order[j]
  BY DEF Orders, SetToSeqs
<1>3. IsFiniteSet(D) /\ Cardinality(D) = Cardinality(S)
  <2>1. IsFiniteSet(D) /\ Cardinality(D) = IF 1 > Cardinality(S) THEN 0 ELSE Cardinality(S) - 1 + 1
    BY <1>1, FS_Interval
  <2> QED BY <1>1, <2>1
<1>4. order \in Injection(D, S)
  BY <1>2 DEF Injection, IsInjective
<1>5. order \in Surjection(D, S)
  <2> HIDE DEF D
  <2> QED BY <1>3, <1>4, FS_Injection
<1>6. Len(order) = Cardinality(S)
  BY <1>1, <1>2
<1> QED BY <1>1, <1>2, <1>5, <1>6 DEF Surjection

\* One address of an interface that could be taken.
Offer(M, v) ==
    \E i \in Described(M) :
        /\ IsUp(i) /\ ~i.loopback
        /\ \E a \in i.addrs : IsPrivate(a) /\ v = [interface |-> i.name, ip |-> Unmap(a)]

\* The entry n of a list is the interface i, its addresses in some order.
Lists(list, n, i) ==
    /\ list[n].name = i.name /\ list[n].up = IsUp(i) /\ list[n].loopback = i.loopback
    /\ DOMAIN list[n].addrs \subseteq Nat
    /\ \A m \in DOMAIN list[n].addrs : \E a \in i.addrs : list[n].addrs[m] = Unmap(a)
    /\ \A a \in i.addrs : \E m \in DOMAIN list[n].addrs : list[n].addrs[m] = Unmap(a)

\* Whatever the order, the list is of the interfaces that describe themselves.
LEMMA ListCovers ==
    ASSUME NEW M \in Machine, NEW list \in SystemInterfaces(M)
    PROVE  /\ DOMAIN list \subseteq Nat
           /\ \A n \in DOMAIN list : \E i \in Described(M) : Lists(list, n, i)
           /\ \A i \in Described(M) : \E n \in DOMAIN list : Lists(list, n, i)
<1> DEFINE listed(i) == {Reduced(i, addrs) : addrs \in Orders(i.addrs)}
<1> DEFINE D == Described(M)
<1>1. IsFiniteSet(D) /\ \A i \in D : IsFiniteSet(i.addrs)
  <2>1. IsFiniteSet(M) /\ D \subseteq M
    BY AddressAssumption DEF Described
  <2>2. IsFiniteSet(D)
    <3> HIDE DEF D
    <3> QED BY <2>1, FS_Subset
  <2> QED BY <2>1, <2>2, AddressAssumption
<1>2. PICK order \in Orders(D) : /\ DOMAIN list = 1 .. Len(order)
                                 /\ \A n \in DOMAIN list : list[n] \in listed(order[n])
  BY DEF SystemInterfaces
<1> HIDE DEF D
<1>3. /\ DOMAIN order = 1..Cardinality(D) /\ Len(order) = Cardinality(D) /\ Cardinality(D) \in Nat
      /\ \A n \in DOMAIN order : order[n] \in D
      /\ \A i \in D : \E n \in DOMAIN order : order[n] = i
  BY <1>1, OrderCovers
<1>4. ASSUME NEW n \in DOMAIN list PROVE order[n] \in D /\ Lists(list, n, order[n])
  <2>1. PICK i \in D : i = order[n]
    BY <1>2, <1>3
  <2>2. PICK addrs \in Orders(i.addrs) : list[n] = Reduced(i, addrs)
    BY <1>2, <2>1
  <2>3. /\ DOMAIN addrs = 1..Cardinality(i.addrs)
        /\ \A m \in DOMAIN addrs : addrs[m] \in i.addrs
        /\ \A a \in i.addrs : \E m \in DOMAIN addrs : addrs[m] = a
    BY <1>1, OrderCovers
  <2>4. PICK seq : seq = [m \in DOMAIN addrs |-> Unmap(addrs[m])]
    OBVIOUS
  <2>5. DOMAIN seq = DOMAIN addrs /\ \A m \in DOMAIN addrs : seq[m] = Unmap(addrs[m])
    BY <2>4
  <2>6. list[n] = [name |-> i.name, up |-> IsUp(i), loopback |-> i.loopback, addrs |-> seq]
    BY <2>2, <2>4 DEF Reduced
  <2>7. /\ list[n].name = i.name /\ list[n].up = IsUp(i) /\ list[n].loopback = i.loopback
        /\ list[n].addrs = seq
    BY <2>6
  <2>8. DOMAIN seq \subseteq Nat
    BY <2>3, <2>5
  <2>9. Lists(list, n, i)
    BY <2>3, <2>5, <2>7, <2>8 DEF Lists
  <2> QED BY <2>1, <2>9
<1>5. DOMAIN list \subseteq Nat /\ DOMAIN list = DOMAIN order
  BY <1>2, <1>3
<1> QED BY <1>3, <1>4, <1>5 DEF D

LEMMA PrivateUnmapped ==
    ASSUME NEW a, IsIp(a)
    PROVE  /\ IsPrivate(Unmap(a)) <=> IsPrivate(a)
           /\ IsPrivate(a) => Unmap(a).form = "v4" /\ Unmap(a).net \in Range(privateRanges)
BY Unmapped DEF IsPrivate, Is4

\* The candidates of a list are the offers of its interfaces.
LEMMA CandidatesAreOffers ==
    ASSUME NEW M \in Machine, NEW list \in SystemInterfaces(M)
    PROVE  /\ \A p \in Candidates(list) : /\ p = <<p[1], p[2]>> /\ p[1] \in Nat /\ p[2] \in Nat
                                          /\ Offer(M, At(list, p))
           /\ \A v : Offer(M, v) => \E p \in Candidates(list) : At(list, p) = v
<1>0. \A i \in Described(M) : \A a \in i.addrs : IsIp(a)
  BY AddressAssumption DEF Described
<1>1. \A p : p \in Candidates(list) <=>
          \E n \in DOMAIN list : \E m \in DOMAIN list[n].addrs :
              p = <<n, m>> /\ Usable(list[n]) /\ IsPrivate(list[n].addrs[m])
  BY DEF Candidates
<1>2. ASSUME NEW p \in Candidates(list)
      PROVE  p = <<p[1], p[2]>> /\ p[1] \in Nat /\ p[2] \in Nat /\ Offer(M, At(list, p))
  <2>1. PICK n \in DOMAIN list : \E m \in DOMAIN list[n].addrs :
              p = <<n, m>> /\ Usable(list[n]) /\ IsPrivate(list[n].addrs[m])
    BY <1>1
  <2>2. PICK m \in DOMAIN list[n].addrs :
              p = <<n, m>> /\ Usable(list[n]) /\ IsPrivate(list[n].addrs[m])
    BY <2>1
  <2>3. PICK i \in Described(M) : Lists(list, n, i)
    BY ListCovers
  <2>4. PICK a \in i.addrs : list[n].addrs[m] = Unmap(a)
    BY <2>3 DEF Lists
  <2>5. IsIp(a) /\ Unmap(Unmap(a)) = Unmap(a) /\ IsPrivate(a)
    BY <1>0, <2>2, <2>4, Unmapped, PrivateUnmapped
  <2>6. At(list, p) = [interface |-> i.name, ip |-> Unmap(a)]
    BY <2>2, <2>3, <2>4, <2>5 DEF At, Lists
  <2>7. IsUp(i) /\ ~i.loopback
    BY <2>2, <2>3 DEF Lists, Usable
  <2>8. n \in Nat /\ m \in Nat
    BY <2>3, ListCovers DEF Lists
  <2> QED BY <2>2, <2>5, <2>6, <2>7, <2>8 DEF Offer
<1>3. ASSUME NEW v, Offer(M, v) PROVE \E p \in Candidates(list) : At(list, p) = v
  <2>1. PICK i \in Described(M) :
            /\ IsUp(i) /\ ~i.loopback
            /\ \E a \in i.addrs : IsPrivate(a) /\ v = [interface |-> i.name, ip |-> Unmap(a)]
    BY <1>3 DEF Offer
  <2>2. PICK a \in i.addrs : IsPrivate(a) /\ v = [interface |-> i.name, ip |-> Unmap(a)]
    BY <2>1
  <2>3. PICK n \in DOMAIN list : Lists(list, n, i)
    BY ListCovers
  <2>4. PICK m \in DOMAIN list[n].addrs : list[n].addrs[m] = Unmap(a)
    BY <2>3 DEF Lists
  <2>5. IsIp(a) /\ Unmap(Unmap(a)) = Unmap(a) /\ IsPrivate(Unmap(a))
    BY <1>0, <2>2, Unmapped, PrivateUnmapped
  <2>6. Usable(list[n])
    BY <2>1, <2>3 DEF Lists, Usable
  <2>7. PICK p : p = <<n, m>>
    OBVIOUS
  <2>8. p \in Candidates(list)
    BY <1>1, <2>4, <2>5, <2>6, <2>7
  <2>9. At(list, p) = v
    BY <2>2, <2>3, <2>4, <2>5, <2>7 DEF At, Lists
  <2> QED BY <2>8, <2>9
<1> QED BY <1>2, <1>3

\* What the order of the candidates compares.
LEMMA OfferType ==
    ASSUME NEW M \in Machine, NEW v, Offer(M, v)
    PROVE  /\ v = [interface |-> v.interface, ip |-> v.ip] /\ v.interface \in Nat
           /\ v.ip = [form |-> "v4", net |-> v.ip.net, host |-> v.ip.host] /\ v.ip.host \in Nat
           /\ rank(v.ip) \in Nat /\ privateRanges[rank(v.ip)] = v.ip.net
           /\ IsPrivate(v.ip) /\ Unmap(v.ip) = v.ip
<1>1. PICK i \in M : \E a \in i.addrs : IsPrivate(a) /\ v = [interface |-> i.name, ip |-> Unmap(a)]
  BY DEF Offer, Described
<1>2. PICK a \in i.addrs : IsPrivate(a) /\ v = [interface |-> i.name, ip |-> Unmap(a)]
  BY <1>1
<1>3. IsIp(a) /\ i.name \in Nat
  BY AddressAssumption
<1>4. IsIp(Unmap(a)) /\ Unmap(Unmap(a)) = Unmap(a) /\ IsPrivate(Unmap(a))
      /\ Unmap(a).form = "v4" /\ Unmap(a).net \in Range(privateRanges)
  BY <1>2, <1>3, Unmapped, PrivateUnmapped
<1>5. v.ip = Unmap(a) /\ v.interface = i.name /\ v = [interface |-> v.interface, ip |-> v.ip]
  BY <1>2
<1>6. rank(v.ip) \in Nat /\ privateRanges[rank(v.ip)] = v.ip.net
  BY <1>4, <1>5, RankOf
<1> QED BY <1>3, <1>4, <1>5, <1>6 DEF IsIp

\* Two different offers are told apart.
LEMMA BetterTotal ==
    ASSUME NEW M \in Machine, NEW v, NEW w, Offer(M, v), Offer(M, w)
    PROVE  /\ v = w \/ Better(v, w) \/ Better(w, v)
           /\ ~(Better(v, w) /\ Better(w, v)) /\ ~Better(v, v)
<1>1. PICK rv \in Nat, iv \in Nat, hv \in Nat :
         rv = rank(v.ip) /\ iv = v.interface /\ hv = v.ip.host
  BY OfferType
<1>2. PICK rw \in Nat, iw \in Nat, hw \in Nat :
         rw = rank(w.ip) /\ iw = w.interface /\ hw = w.ip.host
  BY OfferType
<1>3. /\ Better(v, w) <=> rv < rw \/ (rv = rw /\ iv < iw) \/ (rv = rw /\ iv = iw /\ hv < hw)
      /\ Better(w, v) <=> rw < rv \/ (rw = rv /\ iw < iv) \/ (rw = rv /\ iw = iv /\ hw < hv)
      /\ Better(v, v) <=> rv < rv \/ (rv = rv /\ iv < iv) \/ (rv = rv /\ iv = iv /\ hv < hv)
  BY <1>1, <1>2 DEF Better
<1>4. ASSUME rv = rw, iv = iw, hv = hw PROVE v = w
  <2>1. /\ v = [interface |-> v.interface, ip |-> v.ip] /\ privateRanges[rank(v.ip)] = v.ip.net
        /\ v.ip = [form |-> "v4", net |-> v.ip.net, host |-> v.ip.host]
    BY OfferType
  <2>2. /\ w = [interface |-> w.interface, ip |-> w.ip] /\ privateRanges[rank(w.ip)] = w.ip.net
        /\ w.ip = [form |-> "v4", net |-> w.ip.net, host |-> w.ip.host]
    BY OfferType
  <2>3. v.ip.net = w.ip.net
    BY <1>1, <1>2, <1>4, <2>1, <2>2
  <2>4. v.ip = w.ip
    BY <1>1, <1>2, <1>4, <2>1, <2>2, <2>3
  <2> QED BY <1>1, <1>2, <1>4, <2>1, <2>2, <2>4
<1>5. \/ rv = rw /\ iv = iw /\ hv = hw
      \/ rv < rw \/ (rv = rw /\ iv < iw) \/ (rv = rw /\ iv = iw /\ hv < hw)
      \/ rw < rv \/ (rw = rv /\ iw < iv) \/ (rw = rv /\ iw = iv /\ hw < hv)
  OBVIOUS
<1>6. v = w \/ Better(v, w) \/ Better(w, v)
  BY <1>3, <1>4, <1>5
<1>7. ~(Better(v, w) /\ Better(w, v)) /\ ~Better(v, v)
  BY <1>3
<1> QED BY <1>6, <1>7

\* Min is the least member.
LEMMA MinIsLeast ==
    ASSUME NEW S, S \subseteq Nat, S # {}
    PROVE  Min(S) \in S /\ \A x \in S : Min(S) <= x
<1> DEFINE R == OpToRel(<, Nat)
<1>1. \A x, y \in Nat : x < y => <<x, y>> \in R
  BY DEF OpToRel
<1>2. IsWellFoundedOn(R, Nat)
  BY NatLessThanWellFounded
<1> HIDE DEF R
<1>3. PICK m \in S : \A y \in S : <<y, m>> \notin R
  BY <1>2, WFMin
<1>4. ASSUME NEW y \in S PROVE m <= y
  <2>1. m \in Nat /\ y \in Nat
    OBVIOUS
  <2>2. ~(y < m)
    BY <1>1, <1>3, <2>1
  <2> QED BY <2>1, <2>2
<1>5. \E x \in S : \A y \in S : x <= y
  BY <1>4
<1> QED BY <1>5 DEF Min

\* Q are those of P with the least value of f.
Least(Q, P, f) ==
    /\ Q # {} /\ Q \subseteq P
    /\ \A q, r \in Q : f[q] = f[r]
    /\ \A q \in Q, p \in P \ Q : f[q] < f[p]

LEMMA LeastBy ==
    ASSUME NEW P, P # {}, NEW f, \A p \in P : f[p] \in Nat
    PROVE  \E Q : Least(Q, P, f)
<1> DEFINE values == {f[p] : p \in P}
           m == Min(values)
           Q == {p \in P : f[p] = m}
<1>1. values \subseteq Nat /\ values # {}
  OBVIOUS
<1>2. m \in values /\ \A x \in values : m <= x
  <2> HIDE DEF values
  <2> QED BY <1>1, MinIsLeast
<1>3. Q # {}
  BY <1>2
<1>4. ASSUME NEW q \in Q, NEW p \in P \ Q PROVE f[q] < f[p]
  <2>1. f[p] \in values /\ f[p] \in Nat /\ f[q] \in Nat /\ f[p] # m /\ f[q] = m
    OBVIOUS
  <2> HIDE DEF m, Q, values
  <2>2. m <= f[p]
    BY <1>2, <2>1
  <2> QED BY <2>1, <2>2
<1>5. \A q, r \in Q : f[q] = f[r]
  OBVIOUS
<1>6. Q \subseteq P
  OBVIOUS
<1> HIDE DEF Q
<1> QED BY <1>3, <1>4, <1>5, <1>6 DEF Least

\* A list with candidates has a first one: least in range, name, host and place.
LEMMA FirstExists ==
    ASSUME NEW M \in Machine, NEW list \in SystemInterfaces(M), Candidates(list) # {}
    PROVE  \E p \in Candidates(list) : \A q \in Candidates(list) \ {p} : Before(list, p, q)
<1> DEFINE P == Candidates(list)
           r == [p \in P |-> rank(At(list, p).ip)]
           i == [p \in P |-> At(list, p).interface]
           h == [p \in P |-> At(list, p).ip.host]
           n == [p \in P |-> p[1]]
           m == [p \in P |-> p[2]]
<1>1. ASSUME NEW p \in P
      PROVE  /\ r[p] \in Nat /\ i[p] \in Nat /\ h[p] \in Nat /\ n[p] \in Nat /\ m[p] \in Nat
             /\ r[p] = rank(At(list, p).ip) /\ i[p] = At(list, p).interface
             /\ h[p] = At(list, p).ip.host /\ n[p] = p[1] /\ m[p] = p[2] /\ p = <<n[p], m[p]>>
  <2>1. p = <<p[1], p[2]>> /\ p[1] \in Nat /\ p[2] \in Nat /\ Offer(M, At(list, p))
    BY CandidatesAreOffers
  <2>2. /\ At(list, p).interface \in Nat /\ At(list, p).ip.host \in Nat
        /\ rank(At(list, p).ip) \in Nat
    BY <2>1, OfferType
  <2> QED BY <2>1, <2>2
<1> HIDE DEF P, r, i, h, n, m
<1>2. P # {}
  BY DEF P
<1>3. PICK A : Least(A, P, r)
  BY <1>1, <1>2, LeastBy
<1>4. PICK B : Least(B, A, i)
  <2>1. \A p \in A : i[p] \in Nat
    BY <1>1, <1>3 DEF Least
  <2>2. A # {}
    BY <1>3 DEF Least
  <2> QED BY <2>1, <2>2, LeastBy
<1>5. PICK C : Least(C, B, h)
  <2>1. \A p \in B : h[p] \in Nat
    BY <1>1, <1>3, <1>4 DEF Least
  <2>2. B # {}
    BY <1>4 DEF Least
  <2> QED BY <2>1, <2>2, LeastBy
<1>6. PICK D : Least(D, C, n)
  <2>1. \A p \in C : n[p] \in Nat
    BY <1>1, <1>3, <1>4, <1>5 DEF Least
  <2>2. C # {}
    BY <1>5 DEF Least
  <2> QED BY <2>1, <2>2, LeastBy
<1>7. PICK F : Least(F, D, m)
  <2>1. \A p \in D : m[p] \in Nat
    BY <1>1, <1>3, <1>4, <1>5, <1>6 DEF Least
  <2>2. D # {}
    BY <1>6 DEF Least
  <2> QED BY <2>1, <2>2, LeastBy
<1>8. PICK p \in F : TRUE
  BY <1>7 DEF Least
<1>9. p \in P
  BY <1>3, <1>4, <1>5, <1>6, <1>7, <1>8 DEF Least
<1>10. ASSUME NEW q \in P \ {p} PROVE Before(list, p, q)
  <2>1. \/ r[p] < r[q]
        \/ r[p] = r[q] /\ i[p] < i[q]
        \/ r[p] = r[q] /\ i[p] = i[q] /\ h[p] < h[q]
        \/ r[p] = r[q] /\ i[p] = i[q] /\ h[p] = h[q] /\ n[p] < n[q]
        \/ r[p] = r[q] /\ i[p] = i[q] /\ h[p] = h[q] /\ n[p] = n[q] /\ m[p] <= m[q]
    <3>1. CASE q \notin A
      BY <1>3, <1>4, <1>5, <1>6, <1>7, <1>8, <3>1 DEF Least
    <3>2. CASE q \in A \ B
      BY <1>3, <1>4, <1>5, <1>6, <1>7, <1>8, <3>2 DEF Least
    <3>3. CASE q \in B \ C
      BY <1>3, <1>4, <1>5, <1>6, <1>7, <1>8, <3>3 DEF Least
    <3>4. CASE q \in C \ D
      BY <1>3, <1>4, <1>5, <1>6, <1>7, <1>8, <3>4 DEF Least
    <3>5. CASE q \in D
      <4>1. p \in A /\ p \in B /\ p \in C /\ p \in D /\ q \in A /\ q \in B /\ q \in C
        BY <1>4, <1>5, <1>6, <1>7, <1>8, <3>5 DEF Least
      <4>2. r[p] = r[q] /\ i[p] = i[q] /\ h[p] = h[q] /\ n[p] = n[q]
        BY <1>3, <1>4, <1>5, <1>6, <3>5, <4>1 DEF Least
      <4>3. m[p] <= m[q]
        <5>1. CASE q \in F
          <6>1. m[p] = m[q]
            BY <1>7, <1>8, <5>1 DEF Least
          <6> QED BY <1>1, <1>9, <6>1
        <5>2. CASE q \notin F
          <6>1. m[p] < m[q]
            BY <1>7, <1>8, <3>5, <5>2 DEF Least
          <6> QED BY <1>1, <1>9, <6>1
        <5> QED BY <5>1, <5>2
      <4> QED BY <4>2, <4>3
    <3> QED BY <3>1, <3>2, <3>3, <3>4, <3>5
  <2>2. p = <<n[p], m[p]>> /\ q = <<n[q], m[q]>> /\ p # q
    BY <1>1, <1>9
  <2>3. PICK rp \in Nat, ip \in Nat, hp \in Nat, np \in Nat, mp \in Nat :
          rp = r[p] /\ ip = i[p] /\ hp = h[p] /\ np = n[p] /\ mp = m[p]
    BY <1>1, <1>9
  <2>4. PICK rq \in Nat, iq \in Nat, hq \in Nat, nq \in Nat, mq \in Nat :
          rq = r[q] /\ iq = i[q] /\ hq = h[q] /\ nq = n[q] /\ mq = m[q]
    BY <1>1
  <2>5. /\ Better(At(list, p), At(list, q)) <=>
              rp < rq \/ (rp = rq /\ ip < iq) \/ (rp = rq /\ ip = iq /\ hp < hq)
        /\ Better(At(list, q), At(list, p)) <=>
              rq < rp \/ (rq = rp /\ iq < ip) \/ (rq = rp /\ iq = ip /\ hq < hp)
    BY <1>1, <1>9, <2>3, <2>4 DEF Better
  <2>6. Earlier(p, q) <=> np < nq \/ (np = nq /\ mp < mq)
    BY <1>1, <1>9, <2>3, <2>4 DEF Earlier
  <2>7. np = nq => mp # mq
    BY <2>2, <2>3, <2>4
  <2>8. \/ rp < rq \/ (rp = rq /\ ip < iq) \/ (rp = rq /\ ip = iq /\ hp < hq)
        \/ /\ ~(rq < rp \/ (rq = rp /\ iq < ip) \/ (rq = rp /\ iq = ip /\ hq < hp))
           /\ np < nq \/ (np = nq /\ mp < mq)
    BY <2>1, <2>3, <2>4, <2>7
  <2> QED BY <2>5, <2>6, <2>8 DEF Before
<1> QED BY <1>9, <1>10 DEF P

\* The best of what the interfaces M offer, or that they offer nothing.
BestOf(M, f) ==
    \/ f = Refused("none") /\ ~\E v : Offer(M, v)
    \/ \E v : /\ Offer(M, v) /\ f = Address(v.interface, v.ip)
              /\ \A w : Offer(M, w) => w = v \/ Better(v, w)

LEMMA PickIsBest ==
    ASSUME NEW M \in Machine, NEW list \in SystemInterfaces(M)
    PROVE  BestOf(M, Pick(list))
<1>1. CASE Candidates(list) = {}
  <2>1. Pick(list) = Refused("none")
    BY <1>1 DEF Pick
  <2>2. ~\E v : Offer(M, v)
    BY <1>1, CandidatesAreOffers
  <2> QED BY <2>1, <2>2 DEF BestOf
<1>2. CASE Candidates(list) # {}
  <2> DEFINE first == CHOOSE p \in Candidates(list) :
                          \A q \in Candidates(list) \ {p} : Before(list, p, q)
  <2>1. \E p \in Candidates(list) : \A q \in Candidates(list) \ {p} : Before(list, p, q)
    BY <1>2, FirstExists
  <2>2. first \in Candidates(list) /\ \A q \in Candidates(list) \ {first} : Before(list, first, q)
    BY <2>1
  <2>3. Pick(list) = Address(At(list, first).interface, At(list, first).ip)
    BY <1>2 DEF Pick
  <2> HIDE DEF first
  <2>4. PICK v : v = At(list, first)
    OBVIOUS
  <2>5. Offer(M, v)
    BY <2>2, <2>4, CandidatesAreOffers
  <2>6. ASSUME NEW w, Offer(M, w) PROVE w = v \/ Better(v, w)
    <3>1. PICK q \in Candidates(list) : At(list, q) = w
      BY <2>6, CandidatesAreOffers
    <3>2. q = first \/ Before(list, first, q)
      BY <2>2
    <3>3. w = v \/ Better(v, w) \/ ~Better(w, v)
      BY <2>4, <3>1, <3>2 DEF Before
    <3> QED BY <2>5, <2>6, <3>3, BetterTotal
  <2> QED BY <2>3, <2>4, <2>5, <2>6 DEF BestOf
<1> QED BY <1>1, <1>2

LEMMA OneBest ==
    ASSUME NEW M \in Machine, NEW f, NEW g, BestOf(M, f), BestOf(M, g)
    PROVE  f = g
<1>1. CASE ~\E v : Offer(M, v)
  BY <1>1 DEF BestOf
<1>2. CASE \E v : Offer(M, v)
  <2>1. PICK v : /\ Offer(M, v) /\ f = Address(v.interface, v.ip)
                 /\ \A w : Offer(M, w) => w = v \/ Better(v, w)
    BY <1>2 DEF BestOf
  <2>2. PICK w : /\ Offer(M, w) /\ g = Address(w.interface, w.ip)
                 /\ \A u : Offer(M, u) => u = w \/ Better(w, u)
    BY <1>2 DEF BestOf
  <2>3. v = w
    BY <2>1, <2>2, BetterTotal
  <2> QED BY <2>1, <2>2, <2>3
<1> QED BY <1>1, <1>2

\* What the flag asks for is taken from an interface that has it and is up.
Resolved(M, ip, allow, f) ==
    /\ Is4(ip)
    /\ \/ f = Refused("absent") \/ f = Refused("down")
       \/ IsLoopback(ip) /\ allow /\ f = Address(0, ip)
       \/ /\ IsPrivate(ip)
          /\ \E i \in M : i.up /\ i.running /\ ip \in {Unmap(a) : a \in i.addrs}
                          /\ f = Address(i.name, ip)

LEMMA ResolveStays ==
    ASSUME NEW M \in Machine, NEW list \in SystemInterfaces(M),
           NEW asked, IsIp(asked), NEW allow, Unusable(asked, allow) = ""
    PROVE  Resolved(M, Unmap(asked), allow, Resolve(asked, list, allow))
<1>1. PICK ip : ip = Unmap(asked)
  OBVIOUS
<1>2. Is4(ip) /\ (IsLoopback(ip) <=> IsLoopback(asked)) /\ (IsPrivate(ip) <=> IsPrivate(asked))
  <2>1. Is4(ip)
    BY <1>1 DEF Unusable
  <2> QED BY <1>1, <2>1, Unmapped, PrivateUnmapped DEF IsLoopback
<1>3. PICK f : f = Resolve(asked, list, allow)
  OBVIOUS
<1>4. CASE IsLoopback(ip)
  <2>1. allow
    BY <1>1, <1>2, <1>4 DEF Unusable
  <2>2. f = Address(0, ip)
    BY <1>1, <1>3, <1>4 DEF Resolve
  <2> QED BY <1>1, <1>2, <1>3, <1>4, <2>1, <2>2 DEF Resolved
<1>5. CASE ~IsLoopback(ip)
  <2>1. IsPrivate(ip)
    BY <1>1, <1>2, <1>5 DEF Unusable
  <2>2. PICK carriers : carriers = {n \in DOMAIN list : \E a \in Range(list[n].addrs) : Unmap(a) = ip}
    OBVIOUS
  <2>3. f = IF carriers = {} THEN Refused("absent")
            ELSE IF ~list[Min(carriers)].up THEN Refused("down")
            ELSE Address(list[Min(carriers)].name, ip)
    BY <1>1, <1>3, <1>5, <2>2 DEF Resolve
  <2>4. ASSUME carriers # {}, list[Min(carriers)].up
        PROVE  \E i \in M : i.up /\ i.running /\ ip \in {Unmap(a) : a \in i.addrs}
                            /\ f = Address(i.name, ip)
    <3>1. carriers \subseteq Nat
      BY <2>2, ListCovers
    <3>2. PICK n \in carriers : n = Min(carriers)
      BY <2>4, <3>1, MinIsLeast
    <3>3. n \in DOMAIN list /\ \E b \in Range(list[n].addrs) : Unmap(b) = ip
      BY <2>2
    <3>4. PICK i \in M : Lists(list, n, i)
      BY <3>3, ListCovers DEF Described
    <3>5. PICK m \in DOMAIN list[n].addrs : Unmap(list[n].addrs[m]) = ip
      BY <3>3 DEF Range
    <3>6. PICK a \in i.addrs : list[n].addrs[m] = Unmap(a)
      BY <3>4, <3>5 DEF Lists
    <3>7. Unmap(Unmap(a)) = Unmap(a)
      BY AddressAssumption, Unmapped
    <3>8. ip \in {Unmap(c) : c \in i.addrs}
      BY <3>5, <3>6, <3>7
    <3>9. i.up /\ i.running /\ list[n].name = i.name
      BY <2>4, <3>2, <3>4 DEF Lists, IsUp
    <3> QED BY <2>3, <2>4, <3>2, <3>8, <3>9
  <2> QED BY <1>1, <1>2, <1>3, <2>1, <2>3, <2>4 DEF Resolved
<1> QED BY <1>4, <1>5

-----------------------------------------------------------------------------

AddressInv ==
    /\ machine \in Machine /\ flags \in [ip : Wanted \cup {NoFlag}, allowLoopback : BOOLEAN]
    /\ mode = "running" => FlagsAccepted
    /\ StaysInHousehold
    /\ found = NotAsked \/ flags.ip # NoFlag \/ BestOf(machine, found)

\* A choice of the running program.
LEMMA ChoiceStays ==
    ASSUME AddressInv, Choose
    PROVE  StaysInHousehold' /\ (flags.ip = NoFlag => BestOf(machine, found'))
<1>1. /\ UNCHANGED <<flags, machine>> /\ machine \in Machine /\ FlagsAccepted
      /\ flags \in [ip : Wanted \cup {NoFlag}, allowLoopback : BOOLEAN]
  BY DEF Choose, AddressInv
<1>2. PICK list \in SystemInterfaces(machine) :
          found' = IF flags.ip = NoFlag THEN Pick(list)
                   ELSE Resolve(flags.ip, list, flags.allowLoopback)
  BY DEF Choose, candidate
<1>3. SUFFICES ASSUME NEW f, f = found'
               PROVE  /\ f.ok =>
                         /\ Is4(f.ip) /\ isClientAllowed(f.ip)
                         /\ \/ \E i \in machine : i.up /\ i.running /\ i.name = f.interface
                                                  /\ f.ip \in {Unmap(a) : a \in i.addrs}
                            \/ IsLoopback(f.ip) /\ flags.ip # NoFlag /\ flags.allowLoopback
                      /\ ~f.ok => f.why \in {"notAsked", "none", "absent", "down"}
                      /\ flags.ip = NoFlag => BestOf(machine, f)
  BY <1>1 DEF StaysInHousehold, isClientAllowed
<1>4. CASE flags.ip = NoFlag
  <2>1. BestOf(machine, f)
    BY <1>1, <1>2, <1>3, <1>4, PickIsBest
  <2>2. CASE f = Refused("none")
    BY <2>1, <2>2 DEF Refused
  <2>3. ASSUME NEW v, Offer(machine, v), f = Address(v.interface, v.ip)
        PROVE  /\ f.ok /\ Is4(f.ip) /\ IsPrivate(f.ip)
               /\ \E i \in machine : i.up /\ i.running /\ i.name = f.interface
                                     /\ f.ip \in {Unmap(a) : a \in i.addrs}
    <3>1. f.ok /\ f.interface = v.interface /\ f.ip = v.ip
      BY <2>3 DEF Address
    <3>2. IsPrivate(v.ip) /\ v.ip = [form |-> "v4", net |-> v.ip.net, host |-> v.ip.host]
      BY <1>1, <2>3, OfferType
    <3>3. Is4(v.ip)
      BY <3>2 DEF Is4
    <3>4. PICK i \in machine : /\ IsUp(i)
                               /\ \E a \in i.addrs : v = [interface |-> i.name, ip |-> Unmap(a)]
      BY <2>3 DEF Offer, Described
    <3>5. i.up /\ i.running /\ i.name = v.interface /\ v.ip \in {Unmap(a) : a \in i.addrs}
      BY <3>4 DEF IsUp
    <3> QED BY <3>1, <3>2, <3>3, <3>5
  <2> QED BY <2>1, <2>2, <2>3 DEF BestOf, isClientAllowed
<1>5. CASE flags.ip # NoFlag
  <2>1. PICK asked \in Wanted : asked = flags.ip
    BY <1>1, <1>5
  <2>2. /\ asked # Nonsense /\ Is4(Unmap(asked))
        /\ \/ IsLoopback(Unmap(asked)) /\ flags.allowLoopback
           \/ ~IsLoopback(Unmap(asked)) /\ IsPrivate(Unmap(asked))
    BY <1>1, <1>5, <2>1 DEF FlagsAccepted
  <2>3. IsIp(asked)
    BY <2>2, AddressAssumption
  <2>9. Unusable(asked, flags.allowLoopback) = ""
    <3>1. /\ IsLoopback(Unmap(asked)) <=> IsLoopback(asked)
          /\ IsPrivate(Unmap(asked)) <=> IsPrivate(asked)
      BY <2>3, Unmapped, PrivateUnmapped DEF IsLoopback
    <3> QED BY <2>2, <3>1 DEF Unusable
  <2>4. PICK ip : ip = Unmap(asked)
    OBVIOUS
  <2>5. Resolved(machine, ip, flags.allowLoopback, f)
    BY <1>1, <1>2, <1>3, <1>5, <2>1, <2>3, <2>4, <2>9, ResolveStays
  <2>6. CASE f = Refused("absent") \/ f = Refused("down")
    BY <1>5, <2>6 DEF Refused
  <2>7. CASE IsLoopback(ip) /\ flags.allowLoopback /\ f = Address(0, ip)
    <3>1. f.ok /\ f.ip = ip
      BY <2>7 DEF Address
    <3> QED BY <1>5, <2>5, <2>7, <3>1 DEF isClientAllowed, Resolved
  <2>8. ASSUME IsPrivate(ip), NEW i \in machine, i.up, i.running,
               ip \in {Unmap(a) : a \in i.addrs}, f = Address(i.name, ip)
        PROVE  /\ f.ok /\ Is4(f.ip) /\ IsPrivate(f.ip)
               /\ i.name = f.interface /\ f.ip \in {Unmap(a) : a \in i.addrs}
    <3>1. f.ok /\ f.ip = ip /\ f.interface = i.name
      BY <2>8 DEF Address
    <3> QED BY <2>5, <2>8, <3>1 DEF Resolved
  <2> QED BY <1>5, <2>5, <2>6, <2>7, <2>8 DEF isClientAllowed, Resolved
<1> QED BY <1>4, <1>5

LEMMA AddressHolds == AddressSpec => []AddressInv
<1>1. AddressInit => AddressInv
  BY DEF AddressInit, AddressInv, StaysInHousehold, NotAsked, Refused
<1>2. AddressInv /\ [AddressNext]_addressVars => AddressInv'
  <2> SUFFICES ASSUME AddressInv, [AddressNext]_addressVars PROVE AddressInv'
    OBVIOUS
  <2>1. CASE Choose
    <3>1. UNCHANGED <<flags, mode, machine>>
      BY <2>1 DEF Choose
    <3>2. FlagsAccepted' = FlagsAccepted
      BY <3>1 DEF FlagsAccepted
    <3>3. StaysInHousehold' /\ (flags.ip = NoFlag => BestOf(machine, found'))
      BY <2>1, ChoiceStays
    <3> QED BY <3>1, <3>2, <3>3 DEF AddressInv
  <2>2. CASE Start \/ UNCHANGED addressVars
    <3>1. UNCHANGED <<flags, machine, found>> /\ (mode' = "running" => FlagsAccepted)
      BY <2>2 DEF Start, addressVars, AddressInv
    <3>2. FlagsAccepted' = FlagsAccepted /\ StaysInHousehold' = StaysInHousehold
      BY <3>1 DEF FlagsAccepted, StaysInHousehold, isClientAllowed
    <3> QED BY <3>1, <3>2 DEF AddressInv
  <2> QED BY <2>1, <2>2 DEF AddressNext
<1> QED BY <1>1, <1>2, PTL DEF AddressSpec

(***************************************************************************)
(* Whatever interfaces and flags a PC has, LAN mode takes no address beyond*)
(* the household, and none whose own clients it would turn away            *)
(* (address.go:77-161, main.go:74).                                        *)
(***************************************************************************)
THEOREM AlwaysInHousehold == AddressSpec => []StaysInHousehold
<1>1. AddressInv => StaysInHousehold
  BY DEF AddressInv
<1> QED BY <1>1, AddressHolds, PTL

(***************************************************************************)
(* The comparison of Candidates tells any two addresses apart, so that the *)
(* choice is the same in whatever order the system lists them.             *)
(***************************************************************************)
THEOREM ChoiceIsStable == AddressSpec => SameOnEveryStart
<1>1. AddressInv /\ [AddressNext]_addressVars
        => [flags.ip = NoFlag /\ found # NotAsked => found' = found]_addressVars
  <2> SUFFICES ASSUME AddressInv, AddressNext, flags.ip = NoFlag, found # NotAsked
               PROVE  found' = found
    OBVIOUS
  <2>1. CASE Choose
    <3>1. machine \in Machine /\ BestOf(machine, found)
      BY DEF AddressInv
    <3>2. BestOf(machine, found')
      BY <2>1, ChoiceStays
    <3>3. PICK f, g : f = found /\ g = found'
      OBVIOUS
    <3> QED BY <3>1, <3>2, <3>3, OneBest
  <2>2. CASE Start
    BY <2>2 DEF Start
  <2> QED BY <2>1, <2>2 DEF AddressNext
<1> QED BY <1>1, AddressHolds, PTL DEF AddressSpec, SameOnEveryStart

=============================================================================
