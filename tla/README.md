# Tabularium 117 in TLA+

Tabularium 117 reads the statistics Anno 117 writes to a named pipe and shows
them on a local web page, with warnings and a history database. It is one Go
process with a plain JavaScript page. This directory models the parts of it in
which order, failure and concurrency matter, from the pipe client to the views of
the page, checks them with TLC and proves the most important results with TLAPS.

`PROJECT.json` lists the components, the TLC runs, the map from definitions to
source lines, the mutants, the findings, the hazards and the theorems.

## 1. The system

```
 game pipe -> pipe.Client --frames--> ingest.Pipeline -> state.State <- HTTP handlers
              (goroutine)  unbuffered  (goroutine)   \-> history.Batcher -> SQLite <- compactor
 recording -> replay.Reader                          \-> server.hub -> event streams -> page
                                                     \-> alerts.Engine -> history, hub
```

| Component | State it keeps | Operations | What makes it correct |
|---|---|---|---|
| `internal/pipe` client | the connection, the last reported state | dial, read a frame, hand it over, report, reconnect | a report precedes the frames of its connection; cancelling ends it from every blocking point |
| `internal/ingest` pipeline | version gate, counters | `handle` per frame, `PipeStatus` in the client's goroutine | no statistics of an unsupported version; status and gate speak of the same connection |
| `internal/state` | latest snapshot per island, two tick records sharing a map, session, connection | `Put`, `Reset`, `CompleteTick`, `UpdateConnection` | the complete tick is one whole tick, the newest known to be whole |
| `internal/alerts` | streaks, baseline and open alerts per product | `Apply`, `Reset`, `Active` | alerts follow the readings (hysteresis, hand-over); events and the list of open alerts agree |
| `internal/store` batcher | queue, batch, open session | enqueue, flush, start/end session, raise/clear alert, shutdown | arrival order, counted losses, rows without an end are owned by the process |
| `internal/store` store | tables, sample anchor, write lock | `Open`, `write`, `LastSampleTime` | crash recovery, anchor only after a commit |
| `internal/store` compaction, query, migrations | `sample`, `sample_bucket`, `user_version` | `Compact`, `History`, `migrate` | nothing counted twice or lost, means weighted, restart continues |
| `internal/server` event stream | clients with bounded queues | broadcast, catch-up, close | what a stream delivers ends with the newest; every stream ends at shutdown |
| `internal/server` REST, metrics | none | render a copy of the state | answers are consistent copies |
| `internal/server` LAN mode | second listener, two mutexes, closed flag | enable, disable, closeAll, QR code | no listener nobody owns; nothing is served after shutdown |
| `internal/replay` | the pass: lines read, frames emitted, last time | play a recording in its own time, once or in a loop | the frames of the file once per pass and in order; ends on cancel, also with nothing to play |
| `internal/lan` | none | list the interfaces, rank or check an address | nothing beyond the household is bound; the same choice whatever the listing's order |
| `internal/protocol`, `catalog` | none | decode, look up | sequential, tested on captures and tables |
| `cmd/tabularium117` | the callback chains | `attach`, `attachAlerts`, `Close` in order | history, then browser, then rules; the pipeline stops before the batcher |
| `web/js` store, live connection | islands, warnings, status; the fetches in flight | stream events, refetch, reopen | the page ends up showing the server's islands |
| `web/js` views | one view, its figures, opened rows, the LAN switch | navigate, load, open a row, toggle | an older answer does not undo a newer one; no view listens that is gone |

The components interact by **callbacks** in the pipeline's goroutine (state,
history, hub and rules are called in this order for every snapshot), by two
**channels** (client to pipeline, unbuffered; callbacks to batcher, bounded and
lossy), by **shared memory** under a mutex each, and by the **database** whose
writers take one lock.

Hard behaviours: reconnects while frames of the old connection are still being
handled; two goroutines writing one status; a tick without an end marker; receive
times that go back; a full queue, a failing write, a crash between two writes of
one event; shutdown while everything is blocked; a page that mixes a stream with
fetched answers. `PROJECT.json` lists each as a hazard with its line.

## 2. The modules

| Module | Models | State and actions |
|---|---|---|
| `WholeTicks` | what `CompleteTick` promises | the list of a session's ticks; the answer is `NewestWhole` of it |
| `TickState` | `internal/state` Put, Reset | `islands`, `receiving`, `complete` are the Go fields; `shared` says that the last two hold one map, as after `complete = receiving` |
| `TickRefinement` | TickState with the list of ticks as history variable | `ImplementsWholeTicks` |
| `Ingest` (extends TickState) | `pipe.Client.Run`, `Pipeline.Run`, `handle`, `PipeStatus` | program counters `cpc` and `ppc`; every step ends where the code unlocks a mutex or blocks |
| `AlertLog` | what the engine promises to the consumers of its events | the list of open alerts and the last batch |
| `AlertEngine` | `internal/alerts` `withDefaults`, Apply, Reset, Active | one record per product as in `productState`; the thresholds are what `withDefaults` makes of `Given` |
| `AlertHistory` | AlertEngine with all readings remembered | the properties stated on the readings; refinement of AlertLog |
| `History` | `store.Batcher`, its writes, `Store.Open`, `history.Close`, callbacks | `work` holds the writes still to do for the event in hand, one write per step |
| `Compaction` | `Store.Compact`, `RunCompactor`, `WriteSnapshots`, `migrate` | `raw` and `bucket` are the tables of one series; `tx` is the compactor's copy, one action per SQL statement, put in place by `Commit` |
| `EventStream` | `hub`, the publishers, `handleEvents`, `writeCatchUp` for one browser | `work` is what the pipeline still does for a frame, `notice` the status the pipe client publishes, `client` the handler's next read, `queue` the bounded queue |
| `PageStore` (extends EventStream) | `app.js` start, `onOpen`, `onStatus`, `resyncIslands`, `live.js` | the store (`shown`, `warned`, `status`) and each fetch: asked, answered with the server's state of that moment, applied or failed |
| `LanMode` | `lanMode` enable, disable, closeAll and the goroutine that serves | `holder` has `opMu`, `at` is its next step; the fields under `mu` change one step at a time; `sock` tells a bound socket from one that is served |
| `PhonePanel` (extends LanMode) | `phone.js` with the LAN handlers | the switch, each click's POST and each GET with its answer, status events in order |
| `PageViews` | `route`, the views' `load` and `onSnapshot`, `sources.js` | one view per navigation (numbered as by `routeSeq`), its newest request, its opened row; `asked` holds the requests in flight |
| `LanAddress` | `lan.SystemInterfaces`, `Candidates`, `Pick`, `Resolve`, `validateLANFlags`, `lanMode.candidate` | a PC's interfaces, listed in another order each time LAN mode is switched on; `found` is the answer |
| `Playback` | what a replay promises | the line played last, and why the replay has ended |
| `Replay` | `replay.Reader.Run` and `Pipeline.Run` as two goroutines | one step per blocking point: scan, sleep, send on the unbuffered channel, handle; refinement of Playback |
| `MC*` | the instances TLC checks; `MCSurfaces` puts LanMode, PhonePanel and PageViews in one run, `MCParts` the ticks, LanAddress and Replay, one of them at a time | |
| `TickProofs`, `IngestProofs`, `AlertProofs`, `HistoryProofs`, `RetentionProofs`, `PageProofs`, `LanProofs`, `ViewsProofs` | theorems | |

What is abstracted: a snapshot is an island, a timestamp and a revision; values
of a product are what the rules compare; times are small numbers; a write commits
or fails as a whole (`Store.write` is one transaction); texts, logging, counters
for display and delays are left out. In `Ingest` a snapshot's revision is the
connection it came over. In `History` events carry a serial number, so that
order and loss can be seen, and an alert is named by its island.

In `Ingest` the handling of one frame is several steps: the gate is written
(VersionGate) before the status is (VersionStatus) and before the browsers are
told (Notify), and each of them may interleave with a report of the client
(OpenGate, UpdateStatus, NotifyStatus). A state read under one lock and used
under another, as in `handleStatistics` or `attach`, is therefore two steps.

In `EventStream` an island's figures are a revision and an alert is the number of
its raising. `told` and `toldAlert` remember what the stream has delivered last,
to say what it must have delivered. What a socket or a browser buffers counts as
not yet sent: the browser takes frames in order whoever holds them. The page
(`PageStore`) is composed with it by sharing the step that takes a frame.

In `Compaction` a sample is its time and a serial that stands for its figures: a rate,
which may be negative, and a peak. A mean is the exact fraction, so that the weighing
by sample count is checked as arithmetic; how SQLite rounds a REAL is left out. The
rates of a set of samples are added up as a cardinality, which the provers can take
apart; that this is their sum, an assumption of `MCCompaction` has TLC compare for
every set of samples. `folded`, `replaced`, `expired` and
`committed` remember where each sample went. While the transaction is open nobody
else writes, which is what `Store.write`'s lock does.

`AlertEngine` takes integers for the thresholds: what `withDefaults` does with NaN and
infinite ones, which only a caller in Go could pass, is outside the model. In
`LanAddress` an address is its form, the network it lies in and a host number. An
interface that refuses to describe itself is left out of the list, always the same
ones; that the listing as a whole fails is left out. `FlagsAccepted` and `Resolve`
are two operators that share nothing but the predicates of `netip` and `IsPrivate`,
as the two checks of `--lan-ip` do in the program.

In `PhonePanel` the panel's steps come between those of LanMode, so that the state
an answer was rendered from may be gone when it is painted. A POST may fail before it
reaches the server, while its handler is at work or when it has answered; the GET that
follows keeps what its own click wanted. In `PageViews` no snapshot event is lost and
no new session takes the complete tick away (`EventStream`, `PageStore` and
`TickState` have these). The pages it does not name go through `route` as one it has:
the phone page and the list of all alerts as the goods table, the others as a page
that fetches nothing.

## 3. The runs

| Run | Module | Bounds | Distinct states |
|---|---|---|---|
| `parts` | MCParts | ticks: 3 islands, 2 timestamps, 2 revisions, 3 ticks per session (`BoundedSession`); addresses: two interfaces, one of which may not describe itself, over six kinds of address, six values of `--lan-ip`; replay: every file of up to four lines | 237,123 |
| `ingest` | MCIngest | 2 connections of 3 frames, a supported and an unsupported version, 1 island | 83,507 |
| `alerts` | MCAlerts | one product with all kinds of readings, 5 of them between resets, a second one to vanish beside; window, streaks and backstop at the smallest values that differ | 351,267 |
| `history` | MCHistory | 2 islands, 4 events, queue 2, batch 2, 2 clock values, one restart | 702,793 |
| `stream` | MCPageStore | twelve plays (below), queue 1, up to 2 changes, one lost event, two streams, one failing fetch | 451,224 |
| `compaction` | MCCompaction | 4 samples at 5 times, retention 2 and 5, buckets of 2, one restart | 511,375 |
| `surfaces` | MCSurfaces | LAN mode: 2 toggling tabs, 2 addresses, 2 sockets; panel: 2 toggles of two clicks and another tab with one failing request, or of a click and another tab with an address that comes and goes; four visits for the views | 780,054 |
| `ingest_reason`, `alerts_idle`, `history_two_open`, `history_empty_session` | | as above (`alerts_idle` with three productivity levels and three times) | violations, see below |

Why these bounds suffice: the tick bookkeeping compares a timestamp with the one
before, so two timestamps already give "same", "other" and "came back", and three
islands are needed for a tick that lacks one while another is new. The ingest
races are between one connection and the next. Three frames are a version, a
boundary and statistics. A rule streak is 2, and five readings hold a raise, an
interrupted recovery and a full one. Four events fill queue and batch and leave
one over; a session boundary with two open alerts makes three at once.

The browser side has many independent hazards, and their product is large. Its
instances are therefore *plays* (`MCPageStore`) and *visits* (`MCSurfaces`): records
of what may happen and how often, of which each behaviour has one. The plays are
two islands with a lost event, a session that ends or starts while figures change,
a lost status, a connection that comes and goes, the start of the page with the
first fetches in flight, failing fetches, a stream that is reopened, a shutdown,
and a warning. Once the bound `drops` is reached the browser keeps up: without that
there is nothing a queue could be said to deliver. A queue of one makes every
second event meet a full one. The visits are rows in a table that stays, rows that
are left behind, three hurried navigations, and the history view with its ranges.
Retention 2 and bucket retention 5 with buckets of 2 put a cutoff in the middle of
a bucket, so that one bucket is filled by two runs; five times hold a sample that
arrives late for the raw rows and one late for its bucket. The choice of an address compares two candidates at a
time: one interface with two addresses beside another with one gives each comparison
(range, name, host) its case, and the second interface may be down, unplugged, the
loopback or mute. Two clicks of the panel overlap when an answer makes the switch
usable again while the first is in flight; the second click, and an address that is
lost, are explored apart, because with every request free to fail their product takes
TLC too long. Four lines hold a blank, an unreadable line and two frames whose time goes
on, stands still or goes back. LAN mode needs two
sockets (the one being closed, the one being opened) and is otherwise unbounded;
the proofs lift its bounds.

**parts** has three parts that stand alone. Of the ticks it checks that the complete
tick never mixes ticks, that one declared complete early holds every island and keeps
doing so through the shared map, that it lags at most one tick, and that all this is
the abstract answer. Of the address it checks that nothing outside the household is
ever bound and that the start and the switch agree on `--lan-ip`
(`StaysInHousehold`), and that the choice does not depend on the order of the listing
(`SameOnEveryStart`). Of the replay it checks that reader, channel and pipeline
together are Playback (`ImplementsPlayback`): no frame skipped or played twice over
any number of passes, a result that says why, and an end.
**ingest** checks that gate and status follow the version of the current
connection whatever is still in flight from the one before, that of an unsupported
game's statistics at most the one frame in the pipeline's hands gets through when
its connection is replaced (`UnsupportedNeverStored`), that a session row
names its own version, that browsers end up with the current status, and that a
cancelled run ends and leaves nothing behind.
**alerts** compares the engine's counters with what the documentation says of
the readings themselves (`DeficitByHistory`, `OpenDropMatters`), the baseline with
a trailing window whatever the clock does, and the events with the list a consumer
builds from them.
**history** checks order, accounting of losses, island rows before alert rows, the
retention anchor, ownership of open rows across crash and restart, and that
shutdown finishes with nothing left.
**stream** checks that a stream that has lost nothing has delivered the newest when
it is empty, although the client is registered before its catch-up is read
(`StreamIsNewest`); that a resync asked for during another is served
(`RepeatIsComing`); that the islands of the page end up being the server's after
losses, failures and answers out of order (`IslandsConverge`); and that shutdown
ends every stream (`ShutdownEndsStreams`).
**compaction** checks the promise of `Compact`: every committed sample is in one
place and every bucket is the mean, count and maximum of everything that went into
it in however many runs (`CountedOnce`); a bucket's width is the one it was folded
with, also after a migration (`WidthIsTrue`); nothing expires before its time
(`ExpiresOnlyOld`) and nothing old stays behind a run (`OldRawIsLate`).
**surfaces** checks that no listener is open that nobody owns, none after shutdown
(`ListenersOwned`, `GoneAfterShutdown`), that the phone panel's switch ends up
telling the truth (`PanelFollows`), that only the newest navigation's view listens
(`OneView`), that views and rows never go back to older figures (`NeverBackwards`),
and that an open row and an open table get the newest (`RowsCatchUp`,
`GoodsConverge`).

What the properties do not say, because the code does not do it:

- `IslandsConverge` is about a server that knows an island. After the end of a
  session whose last status was lost, the page may show the old islands until the
  next session; no tick comes that would make it ask.
- A lost alert event is not made good until the stream opens again, and a warning
  may be announced twice or never when an answer overtakes its event
  (`app.js:196-205`).
- The two tables may both have samples of one bucket's window at a cutoff in its
  middle, or when a sample arrives late, which `query.go:72` ("never cover the same
  instant") does not expect; each sample is still counted once.
- An enable that loses against the shutdown returns without an error though its
  address is not open (`lan.go:224-226`). `enable` right after `disable` may fail
  because its own old socket is open until the goroutine of `Serve` has run. When
  the loopback listener fails (`server.go:267-271`) the LAN listener is left open;
  the process ends then. The test of `closed` before publishing is not what
  `GoneAfterShutdown` rests on: closeAll's own disable waits for `opMu`.
- One statistics frame of an unsupported game can be stored: taken over a connection
  that is replaced before the frame meets the gate (`pipeline.go:188`, `230`). That is
  short of "dropped until the game announces a version again" (`ingest/doc.go:12-13`);
  `UnsupportedNeverStored` says it stays that one frame of a connection gone by.
- Without ticks the phone panel can stay wrong.
- `Resolve` is decided by the first interface listed that carries the address
  (`address.go:133`): when one that is down is listed before one that is up with the
  same address, the address is refused. `SameOnEveryStart` is about the choice
  without `--lan-ip`.

### Findings

Five comments are refuted by what the code does; each run's trace shows how.

- `ingest_reason`: the reason of a lost connection is erased when the pipeline
  handles a version frame of that connection afterwards (`pipeline.go:200`).
- `alerts_idle`: a reading is found idle against the mean before the window is
  cut; one below the remaining baseline can join it (`engine.go:328`).
- `history_two_open`: the failed end of a session does not keep the next from
  opening, so two rows are open (`batch.go:248`).
- `history_empty_session`: a session without samples is ended with the time of an
  earlier session's sample (`batch.go:268`).
- `stream_stale_alert`: a warnings answer that was rendered before an alert event
  and arrives after it replaces the list, and nothing asks again (`app.js:216`).
  No event is lost and nothing fails in this run; the page merely starts while a
  warning comes or goes.

### Fairness

`Ingest` assumes weak fairness of every step a goroutine takes on its own and of
none the game decides: the game need not send, and a read fails for certain only
once the watcher has closed the connection. Nobody has to cancel. `CancelEndsRun`
says what happens if somebody does. `History` assumes weak fairness of the one
goroutine of `Batcher.Run`: each write has a five-second timeout and then fails,
so a step always ends. Nothing is assumed of callbacks, clock or crashes. Neither
needs strong fairness. The ticks, `alerts` and the choice of an address are single
steps; only safety is stated there.

`Replay` assumes weak fairness of reader, pipeline and hand-over, and strong fairness
of the two `ctx.Done()` cases of their selects (`StopSending`, `StopHandling`). Go
draws at random among the cases that are ready, so a case that is ready again and
again is taken in the end. Weak fairness would not do: in a loop over one frame the
case is not ready while that frame is handled, and the replay never ended.

`PageStore` assumes weak fairness of the goroutines of the server, of the browser
taking frames, of answers arriving (a fetch is answered or fails), and of the game
sending a tick every so often while it knows an island, which is what the game does
while it is connected; the changes a play allows, losses, failures and the shutdown
need not happen. That each fetch ends is the browser's own time limit. `surfaces` assumes the
same of the panel's and the views' requests, of the callers inside LAN mode, and of
the ticks. `LanMode` alone, `Compaction` and their theorems assume no fairness: only
safety is stated.

`parts`, `history`, `stream`, `compaction` and `surfaces` run without deadlock
checking, because the bounded systems end: the last process has closed or crashed, no
event, stream, sample, navigation or toggle is left to cause, the flags were refused
or the replay has returned.

## 4. The proofs

For every value of the constants (finite sets of islands and products, any timestamps, any
number of connections and frames, any versions, requests, addresses and sockets,
any retention and sample times, any queue and batch size, any play and any visit to
the page, any thresholds and readings, any samples and their figures, any interfaces
and recordings), under the assumptions `TickAssumption`,
`IngestAssumption`, `AlertAssumption`, `HistoryAssumption`, `RetentionAssumption`,
`PlayAssumption`, `LanAssumption`, `PanelAssumption`, `AddressAssumption`,
`ReplayAssumption` and `ViewsAssumption`:

- **TickProofs.** `TickInv` is inductive: both ticks hold one timestamp, the
  receiving tick agrees with the latest snapshots, the complete tick agrees with
  them where the receiving one has not gone ahead, and the two are equal exactly
  when they share a map and then hold every island. The three safety properties
  need it because each alone says nothing of the receiving tick that becomes the
  complete one. For the refinement `TickList` ties the records to the list: the
  receiving tick is its last, the complete one its newest whole, and the islands
  table holds the islands seen. The code compares two lengths where the abstract
  specification compares two sets; `EveryoneByLength` shows that this is the same
  because one is a subset of the other and both are finite.
- **IngestProofs.** `GoroutinesTypeOK` says which frame is at which program
  counter. With it every step of Ingest is a step of TickState or none
  (`IngestDrivesTicks`), so all theorems of TickState hold of the pipeline.
  `IngestInv` is the inductive argument of the gate: frames come in the order of
  the connections (`FramesInOrder`), nothing of a connection was read while it is
  being reported (`ReportsInOrder`), so the reset of the gate precedes the version
  (`GateInOrder`). What gets past it is `SlipInv`: a connection's version is applied
  before its other frames are looked at (`AppliedFirst`), so a statistics frame of an
  unsupported game passes only after its connection was replaced, and then nothing of
  that connection is stored yet and nothing of it follows (`OneSlipsIn`). `ProtoOfHeard` is the invariant of the version a session row
  reads. For the announcements `Told` says that between a change of the status and
  the frame that brings it to the browsers, the goroutine that made the change still
  has to announce it, and announces what the status has become by then
  (`BrowsersAreCurrent`). TLC checked each of them before it was proved.
  `ReplayKeepsItsPromise` is the refinement of Playback by the reader, the pipeline and
  the channel. `PassInv` relates a pass that has begun to the frame handed over last,
  which may be of the pass before: since then there were only blank lines, and before
  the first frame of a later pass the pass before has read the whole file. So the
  frame in the reader's hand is the one Playback names next. `Justified` keeps what
  the reader returned true until the pipeline passes it on, however long that takes.
- **AlertProofs.** `AlertInv` is inductive and relates each product's record to all
  readings of it since the last reset. `Trailing`: the samples of the baseline are in
  the order of the clock, none before the window and never more than the backstop, also
  when receive times go back. `Counts`: the two counters are the streaks with which the
  readings end, counted up to the largest threshold. From it follow `DeficitBy` and
  `DropBy`, what the documentation says of the alerts: the deficit is open exactly
  when the readings have earned it and not yet recovered, and a drop only while there
  are buildings and no recovery. `RaisedBy` bounds every open alert by the newest time,
  so none is cleared before it was raised. `ThresholdsWork` shows what the argument
  needs of the thresholds for any configuration whatever: they are positive and the
  one that clears lies below the one that raises.
  `EngineImplementsLog` is the refinement of AlertLog. Each product has two places for
  an alert, one for either deficit rule and one for a drop, and each rule's events are
  what changed in its place (`DeficitTells`, `DropTells`), where an alert never makes
  way for one of its own condition. So the events of a call speak of every condition
  once (`SpokenTells`), and such a batch is understood in any order (`AnyOrderTells`),
  the sorted one among them; that there is one, the module proves of every finite set
  of events by its smallest counterexample (`OrderExists`). A reset is the call that
  empties all places.

- **LanProofs.** `LanInv` is inductive. `ListenersOwned` speaks of the socket a
  call has in hand, so the invariant says which step has one (`InHand`) and that
  one call is between lock and return (`OneInside`); `OnIsListening` ties the flag
  to the listener. For the shutdown it needs the main goroutine's own way
  (`MainsWay`): it disables after it has set `closed`, so whoever gets `opMu` after
  it finds that flag, and nothing can be published any more (`Ending`).
  `PanelDrivesLan` shows that each step of the panel is one of LanMode or none, so
  the theorems hold under it.
  For the address, the list the system makes covers the interfaces and their addresses
  in whatever order (`ListCovers`), so the offers are the same each time
  (`CandidatesAreOffers`). The comparison tells any two offers apart (`BetterTotal`), so
  only one can stand before all others (`OneBest`), and that there is one is the least
  of a finite set (`FirstExists`). `StaysInHousehold` needs that the flags were accepted
  once (`AddressInv`): after that `Resolve` refuses an address only because the PC does
  not have it or its interface is down.
- **RetentionProofs.** `RetentionInv` is inductive. The transaction's copy is
  described statement by statement (`CopyInv`): the raw rows it still has, the
  parts of its buckets, and where every sample is among them, so the commit brings
  exactly the properties of the tables. `AnchorInv` says that an anchor, on its way
  from the batch to the run, is always the time of a sample this process has
  committed; that is what makes the cutoffs true. Serials are unique
  (`RowsInv`, `GoodParts`), without which a row could leave its place and its serial
  stay. For the widths `WidthInv` says that until the third migration everything was
  folded with the older build's width, which is why that migration tells the truth, and
  that the transaction's copy has true widths after every statement.
  For the figures `FigureInv` says of every bucket of the tables and of the copy that its
  row is true of the samples in it (`TrueRow`): their number, a mean that multiplied by
  it is their total, and a peak that one of them has and none exceeds. A fold keeps it
  because the samples it adds are none of those already there, totals of disjoint sets
  add up (`TotalAdds`), and the weighted mean of two means is then the mean of both
  (`WeightedMean`).

- **PageProofs.** `RepeatIsComing` is inductive as it stands; each of the ways in
  which a request ends either sends the repeat or, when it fails, no longer owes it.
  `StreamIsNewest` needs to know where the newest word on an island is while the stream
  is not empty. `WordInv` says it: still to be published by the pipeline, or in the
  stream's queue, or, where the queue is silent on the island, in what the catch-up has
  read or will read. So registering before reading is right: a word too late for one
  is in time for the other. It rests on two facts of the program. `WorkInv`: a snapshot
  is published right after it was put, before anything else happens to the island, and
  the alerts of a batch come first and as they are. `UnreadInv`: the handler has sent
  nothing of what it has not read.
- **ViewsProofs.** `ViewsInv` is inductive. For the views (`ViewInv`) it says that a
  first request is its view's only one and the view is being built, so a view is
  mounted once and only while it is the newest; and that a view has at most one
  newest request, whose answer is not older than what is shown, although requests of
  every age are in flight. For the rows (`RowInv`) an open row is loading exactly when
  one request of its entry is on its way. `RowsCatchUp` alone says nothing of a row
  that shows an error, so a step from one that does is covered by `AnswersCatchUp`:
  an answer older than the newest tick is repeated, or an event that asks for the
  repeat is there; this uses `OneView`, because only a mounted view hears events.
- **HistoryProofs.** `HistoryInv` is inductive. `RunInv` says what `Batcher.Run` has
  in hand: a full batch is about to be flushed, a session starts right after the one
  before it has ended, the one session without an end is the batcher's unless a write
  failed, and on the way down each step has emptied what the next one relies on.
  `OwnSerials` bounds the serials of everything on its way by those of this process;
  with it a restart forgets every sample of the earlier ones, and a batch adds exactly
  its own times although `INSERT OR REPLACE` removes rows (`CommittedTimes`).
  `SnapshotFirst` follows an alert from the callback to its write: before it, in the
  same list or in one further on, there is its island's snapshot or row. It holds only
  while nothing was dropped, and each step that loses an event counts it.
  For the order (`ArrivalOrder`) `InOrder` puts marks between the places an event
  passes, so each place holds the serials between two marks; `OneInHand` says that only
  the last write of an event carries its serial, so a samples event and what comes after
  it are not swapped by the batch. For `OpenRowsAreOwned` the invariant follows the set
  of open alerts through the events still on their way (`AlertsLead`): the write in
  hand and then the queue lead from the rows that stand to the alerts the engine has.

Only model-checked:

- Liveness (`CancelEndsRun`, `ShutdownFinishes`, `IslandsConverge`,
  `ShutdownEndsStreams`, `PanelFollows`, `GoodsConverge`, the end that
  `ImplementsPlayback` promises), which is out of the prover's reach.
- That `Total` of a set of samples is the sum of their rates: a sum is a recursion over
  the set.

## 5. Not modelled, and the plan

Not modelled: the wire format and its decoder, the Windows calls, the catalog, the
recording of frames, rendering of the page and of answers, metrics, the command line
but for the LAN flags, tools. They are sequential and covered by table tests, or not logic of this
program. Of LAN mode the token, the checks of a request's origin and the QR code are
left out: they decide one request by its own content. The wake lock is a small
object with the browser as its only other party. Of two processes started on one
database only the write that does damage is modelled (`OrphansClosed`).

The type invariants are parts of the inductive ones and proved (`TickTypeOK`,
`IngestTypeOK`, `AlertTypeOK`, `HistoryTypeOK`, `LanTypeOK`); no run repeats them.

What would come next, in this order:

1. A replayed recording as the second source of Ingest.
2. Two processes on one database; the wake lock.
