------------------------------- MODULE MCParts -------------------------------
(***************************************************************************)
(* Three parts that stand alone, one at a time: the tick bookkeeping, the  *)
(* address LAN mode takes and a recording that is replayed. What belongs   *)
(* to the other two stands still.                                          *)
(***************************************************************************)
EXTENDS TickRefinement, LanAddress, Replay

CONSTANT MaxTicks  \* how many ticks of one session are explored

(***************************************************************************)
(* One interface that is up, with two addresses or one, equally good ones  *)
(* among them; another with the same address, a better or a worse, that    *)
(* may be down, unplugged, the loopback or refuse to describe itself.      *)
(***************************************************************************)
V4(net, host) == [form |-> "v4", net |-> net, host |-> host]
Mapped(net, host) == [V4(net, host) EXCEPT !.form = "mapped"]
V6(net, host) == [V4(net, host) EXCEPT !.form = "v6"]

Pool ==
    {V4("192.168", 1), Mapped("192.168", 2), V4("10", 1), V4("172.16", 1), V4("8.8", 1),
     V6("fd00", 1)}

Iface(name, flag, addrs) ==
    [name |-> name, up |-> flag # "down", running |-> flag \notin {"down", "unplugged"},
     loopback |-> flag = "loopback", described |-> flag # "mute", addrs |-> addrs]

Machines ==
    {{Iface(1, "up", A), Iface(2, flag, {b})} :
        A \in {S \in SUBSET Pool : Cardinality(S) \in 1 .. 2}, b \in Pool,
        flag \in {"up", "unplugged", "down", "loopback", "mute"}}

GivenFlags ==
    {Nonsense, V4("192.168", 1), Mapped("10", 1), V4("8.8", 1), V4("127", 1), V6("fd00", 1)}

(***************************************************************************)
(* Every file of up to four lines; time may stand still and go back.       *)
(***************************************************************************)
FrameAt(t) == [kind |-> "frame", at |-> t]

Files ==
    UNION {[1 .. n -> {[kind |-> "blank"], [kind |-> "bad"], FrameAt(1), FrameAt(2)}] :
        n \in 0 .. 4}

-----------------------------------------------------------------------------

VARIABLE part

everything == <<part, hvars, addressVars, replayVars>>

\* No address is asked for; a recording that goes round has not begun.
NoAddress ==
    /\ flags = [ip |-> NoFlag, allowLoopback |-> FALSE] /\ mode = "starting"
    /\ machine = {} /\ ifaces = <<>> /\ found = NotAsked

NoReplay ==
    /\ file = <<FrameAt(1)>> /\ opts = [paced |-> TRUE, loop |-> TRUE, seekable |-> TRUE]
    /\ ReplayInit

PartsInit ==
    /\ HInit
    /\ \/ part = "ticks" /\ NoAddress /\ NoReplay
       \/ part = "address" /\ AddressInit /\ NoReplay
       \/ part = "replay" /\ ReplayInit /\ NoAddress

OnTicks == part = "ticks" /\ HNext /\ UNCHANGED <<part, addressVars, replayVars>>

OnAddress == part = "address" /\ AddressNext /\ UNCHANGED <<part, hvars, replayVars>>

OnReplay(step) == part = "replay" /\ step /\ UNCHANGED <<part, hvars, addressVars>>

PartsNext == OnTicks \/ OnAddress \/ OnReplay(ReplayNext)

(***************************************************************************)
(* ReplayFairness, where a recording is replayed.                          *)
(***************************************************************************)
PartsSpec ==
    /\ PartsInit /\ [][PartsNext]_everything
    /\ WF_everything(OnReplay(ReaderStep)) /\ WF_everything(OnReplay(RunnerStep))
    /\ WF_everything(OnReplay(Hand))
    /\ SF_everything(OnReplay(StopSending)) /\ SF_everything(OnReplay(StopHandling))

BoundedSession == Len(ticks) <= MaxTicks
=============================================================================
