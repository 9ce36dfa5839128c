----------------------------- MODULE LanAddress -----------------------------
(***************************************************************************)
(* internal/lan: which address LAN mode binds. The command line is checked *)
(* once, at start; each time LAN mode is switched on the operating system  *)
(* lists the interfaces anew, in an order of its own.                      *)
(*                                                                         *)
(* An address is its form, the network it is in and a host number. The     *)
(* interfaces do not change between two listings here, nor which of them   *)
(* refuse to describe themselves. That the whole listing fails, and        *)
(* candidate with it, is left out.                                         *)
(***************************************************************************)
EXTENDS Integers, Sequences, FiniteSets, FiniteSetsExt, SequencesExt

CONSTANTS
    Machine,   \* the sets of interfaces a PC may have
    Wanted,    \* what --lan-ip may be given as
    NoFlag,    \* the flag is not given
    Nonsense   \* no address at all

IsIp(a) ==
    /\ a = [form |-> a.form, net |-> a.net, host |-> a.host]
    /\ a.form \in {"v4", "mapped", "v6"} /\ a.host \in Nat

\* Names are numbered in their order.
ASSUME AddressAssumption ==
    /\ \A M \in Machine : IsFiniteSet(M) /\ \A i \in M :
          /\ i.name \in Nat /\ {i.up, i.running, i.loopback, i.described} \subseteq BOOLEAN
          /\ IsFiniteSet(i.addrs) /\ \A a \in i.addrs : IsIp(a)
    /\ \A want \in Wanted \ {Nonsense} : IsIp(want)

VARIABLES
    flags,     \* --lan-ip and --lan-allow-loopback
    mode,      \* "starting", "refused", "running"
    machine,   \* the interfaces of this PC
    ifaces,    \* the list the operating system makes of them now
    found      \* what candidate returned last

addressVars == <<flags, mode, machine, ifaces, found>>

\* The ranges in the order of preference.
privateRanges == <<"192.168", "10", "172.16">>

Unmap(ip) == [ip EXCEPT !.form = IF @ = "mapped" THEN "v4" ELSE @]

Is4(ip) == ip.form = "v4"

IsLoopback(ip) == ip.net = "127"

IsPrivate(ip) == Is4(Unmap(ip)) /\ ip.net \in Range(privateRanges)

rank(ip) == CHOOSE n \in DOMAIN privateRanges : privateRanges[n] = ip.net

-----------------------------------------------------------------------------
(* The choice *)

\* Equal addresses by rank stay in the order they were listed in.
MutBetter(a, b) == rank(a.ip) < rank(b.ip)

(***************************************************************************)
(* Range first, then interface name and address.                           *)
(***************************************************************************)
Better(a, b) ==
    \/ rank(a.ip) < rank(b.ip)
    \/ rank(a.ip) = rank(b.ip) /\ a.interface < b.interface
    \/ rank(a.ip) = rank(b.ip) /\ a.interface = b.interface /\ a.ip.host < b.ip.host

\* The loopback is already served.
Usable(iface) == iface.up /\ ~iface.loopback

(***************************************************************************)
(* The places in the list, interface and address, that hold a private      *)
(* address of a usable interface, and what is found there.                 *)
(***************************************************************************)
Candidates(list) ==
    {p \in UNION {{n} \X DOMAIN list[n].addrs : n \in DOMAIN list} :
        Usable(list[p[1]]) /\ IsPrivate(list[p[1]].addrs[p[2]])}

At(list, p) == [interface |-> list[p[1]].name, ip |-> Unmap(list[p[1]].addrs[p[2]])]

(***************************************************************************)
(* The order of a stable sort: the better first, equals as listed.         *)
(***************************************************************************)
Earlier(p, q) == p[1] < q[1] \/ (p[1] = q[1] /\ p[2] < q[2])

Before(list, p, q) ==
    \/ Better(At(list, p), At(list, q))
    \/ ~Better(At(list, q), At(list, p)) /\ Earlier(p, q)

Refused(why) == [ok |-> FALSE, why |-> why]
Address(interface, ip) == [ok |-> TRUE, interface |-> interface, ip |-> ip]

(***************************************************************************)
(* The first of the candidates sorted.                                     *)
(***************************************************************************)
Pick(list) ==
    LET places == Candidates(list)
        first  == CHOOSE p \in places : \A q \in places \ {p} : Before(list, p, q)
    IN IF places = {} THEN Refused("none")
       ELSE Address(At(list, first).interface, At(list, first).ip)

(***************************************************************************)
(* What is wrong with the address itself; "" if nothing is.                *)
(***************************************************************************)
Unusable(want, allowLoopback) ==
    IF want = Nonsense THEN "nonsense"
    ELSE IF ~Is4(Unmap(want)) THEN "v6"
    ELSE IF IsLoopback(want) THEN IF allowLoopback THEN "" ELSE "loopback"
    ELSE IF ~IsPrivate(want) THEN "public"
    ELSE ""

(***************************************************************************)
(* The first interface in the list that carries the address decides.       *)
(***************************************************************************)
Resolve(want, list, allowLoopback) ==
    LET ip       == Unmap(want)
        carriers == {n \in DOMAIN list : \E a \in Range(list[n].addrs) : Unmap(a) = ip}
    IN IF Unusable(want, allowLoopback) # "" THEN Refused(Unusable(want, allowLoopback))
       ELSE IF IsLoopback(ip) THEN Address(0, ip)   \* "loopback"
       ELSE IF carriers = {} THEN Refused("absent")
       ELSE IF ~list[Min(carriers)].up THEN Refused("down")
       ELSE Address(list[Min(carriers)].name, ip)

(***************************************************************************)
(* lanMode.candidate                                                       *)
(***************************************************************************)
candidate(list) ==
    IF flags.ip = NoFlag THEN Pick(list) ELSE Resolve(flags.ip, list, flags.allowLoopback)

\* The test aid is forgotten.
MutClientAllowed(ip) == IsPrivate(ip)

(***************************************************************************)
(* Whom the LAN listener serves, isClientAllowed.                          *)
(***************************************************************************)
isClientAllowed(ip) == IsPrivate(ip) \/ (flags.allowLoopback /\ IsLoopback(ip))

-----------------------------------------------------------------------------
(* The program *)

\* A public address is found out when LAN mode is switched on, not before.
MutFlagsAccepted ==
    \/ flags.ip = NoFlag /\ ~flags.allowLoopback
    \/ /\ flags.ip \notin {NoFlag, Nonsense} /\ Is4(Unmap(flags.ip))
       /\ flags.allowLoopback <=> IsLoopback(flags.ip)

(***************************************************************************)
(* validateLANFlags: what can be checked without the interfaces, written   *)
(* separately from Resolve, as in the program. The test aid is for a       *)
(* loopback address, and no loopback address is accepted without it.       *)
(***************************************************************************)
FlagsAccepted ==
    \/ flags.ip = NoFlag /\ ~flags.allowLoopback
    \/ /\ flags.ip \notin {NoFlag, Nonsense}
       /\ LET ip == Unmap(flags.ip)
          IN /\ Is4(ip)
             /\ \/ IsLoopback(ip) /\ flags.allowLoopback
                \/ ~IsLoopback(ip) /\ ~flags.allowLoopback /\ IsPrivate(ip)

(***************************************************************************)
(* FlagRunning means "carrier present"; both flags are required.           *)
(***************************************************************************)
IsUp(i) == i.up /\ i.running

Reduced(i, addrs) ==
    [name |-> i.name, up |-> IsUp(i), loopback |-> i.loopback,
     addrs |-> [n \in DOMAIN addrs |-> Unmap(addrs[n])]]

Orders(S) == SetToSeqs(S)

\* The others must not be hidden by one that does not describe itself.
Described(M) == {i \in M : i.described}

(***************************************************************************)
(* What SystemInterfaces may return: every interface that describes itself *)
(* with its addresses unmapped, both in the order the operating system     *)
(* lists them in.                                                          *)
(***************************************************************************)
SystemInterfaces(M) ==
    LET listed(i) == {Reduced(i, addrs) : addrs \in Orders(i.addrs)}
    IN UNION {{list \in [1 .. Len(order) -> UNION {listed(i) : i \in M}] :
                  \A n \in DOMAIN list : list[n] \in listed(order[n])} : order \in Orders(Described(M))}

NotAsked == Refused("notAsked")

AddressInit ==
    /\ flags \in [ip : Wanted \cup {NoFlag}, allowLoopback : BOOLEAN]
    /\ mode = "starting"
    /\ machine \in Machine
    /\ ifaces \in SystemInterfaces(machine)
    /\ found = NotAsked

Start ==
    /\ mode = "starting"
    /\ mode' = IF FlagsAccepted THEN "running" ELSE "refused"
    /\ UNCHANGED <<flags, machine, ifaces, found>>

(***************************************************************************)
(* LAN mode is switched on, or its state asked for: candidate chooses.     *)
(***************************************************************************)
Choose ==
    /\ mode = "running"
    /\ ifaces' \in SystemInterfaces(machine)
    /\ found' = candidate(ifaces')
    /\ UNCHANGED <<flags, mode, machine>>

AddressNext == Start \/ Choose

AddressSpec == AddressInit /\ [][AddressNext]_addressVars

-----------------------------------------------------------------------------
(* Properties *)

(***************************************************************************)
(* LAN mode never reaches beyond the household (address.go:78-84): what it *)
(* binds is an IPv4 address of an interface that is up, in a private       *)
(* range - or the loopback, asked for with the test aid - and one whose    *)
(* own clients are served. And the two places that check --lan-ip agree    *)
(* (main.go:75, address.go:120): a running program refuses it for what the *)
(* PC has, never for what it is.                                           *)
(***************************************************************************)
StaysInHousehold ==
    /\ found.ok =>
          /\ Is4(found.ip) /\ isClientAllowed(found.ip)
          /\ \/ \E i \in machine : i.up /\ i.running /\ i.name = found.interface
                                   /\ found.ip \in {Unmap(a) : a \in i.addrs}
             \/ IsLoopback(found.ip) /\ flags.ip # NoFlag /\ flags.allowLoopback
    /\ ~found.ok => found.why \in {"notAsked", "none", "absent", "down"}

(***************************************************************************)
(* "so that a machine with two equally good addresses picks the same one   *)
(* on every start" (address.go:97): the choice does not depend on the      *)
(* order in which the interfaces and their addresses are listed.           *)
(***************************************************************************)
SameOnEveryStart ==
    [][flags.ip = NoFlag /\ found # NotAsked => found' = found]_addressVars
=============================================================================
