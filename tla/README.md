# DailyIQ in TLA+

Specifications of the parts of DailyIQ in which the order of steps matters.
DailyIQ is a Tauri desktop application: a Rust host that supervises child
processes, a FastAPI sidecar and Python workers that share one SQLite database
and talk to Interactive Brokers (TWS), and a React front end that polls them.
Paths are those of the repository.

1. [The system](#the-system): components, state, operations, interactions
2. [Modules and the code](#modules-and-the-code)
3. [Runs](#runs): what each checks, its bounds, what it shows
4. [Fairness](#fairness)
5. [Proofs](#proofs)
6. [Where the code and its comments differ](#where-the-code-and-its-comments-differ)
7. [Not modelled](#not-modelled)
8. [Plan](#plan)

## The system

| Component | State it keeps | Operations | Interacts with |
| --- | --- | --- | --- |
| Client-id leases, `backend/ibkr_utils.py` | rows of `ibkr_client_leases`; per manager: retired ids, role -> id | acquire, try-claim, release, mark_rejected | every Python process, through SQLite |
| Connection pool, `backend/connection_pool.py` | role -> id, IB objects, their states, reconnect tasks, connect lock, address of TWS | get_or_create, reconnect loop, disconnect event, disconnect_all | leases, TWS, HTTP handlers and the prewarm of `main.py` |
| Process supervisor, `src-tauri/src/main.rs` | child handles, port, shutdown flag, backend status, watchdog streak and times | start, kill, restart of the stack; two watchdogs; commands; shutdown | processes, `/health`, front end |
| Watchlist worker, `backend/worker_watchlist.py` | shard connections, tickers and their owners, subscription queue, symbol states, bars under construction | refresh of two tables, subscribe, reconnect, tick, Yahoo fall-back, backfill | TWS, SQLite |
| Quote store, `worker_watchlist.py`, `db_utils.py` | `watchlist_quotes`, `market_snapshots`, status rows | upsert per tick, per Yahoo answer | worker writes, sidecar reads |
| Historical store, `backend/historical.py`, `gap_scanner.py` | bar tables, `fetch_meta`, chart intents, priority queue, per-process fetch locks | read with refresh, write bars, claim urgent jobs, prune intents, scan gaps | sidecar, worker, TWS, Yahoo, DailyIQ |
| Sidecar API, `backend/main.py` | portfolio cache, throttles, background tasks | about fifty endpoints | everything above, front end |
| Options, `options_collector.py`, `worker_options.py`, `options_ib.py` | option chains, schedule | collection cycle, refresh on request | sidecar thread and worker process |
| Valuations and scores, `worker_valuations.py`, `score_worker.py`, `technicals.py` | time of the last success, score rows | cycle | SQLite, providers |
| Sign-in, `src-tauri/src/main.rs:185-396`, `src/lib/auth.tsx` | loopback listeners on port 17284, `handled` flag of a start; `handled` flag and session of the page | listen, accept loop per address family, exchange of a code, password, sign out | browser, hosted service |
| Detached windows and layout, `src/lib/{detached,tabs,layout,layout-storage}`, `TabBar.tsx`, `DetachedWindow.tsx` | tabs and focus; workspace, its file, its mirror in localStorage, the save timer; window records and requests in localStorage | add, close, tear off, reattach, load, save, sign out, close, restart | windows of one application, host |
| Chart data, `src/chart/hooks` | bars, request id, pan flag; shared poll entries, requests in flight, cache | initial fetch, poll, pan, switch of symbol | sidecar |
| Chart drawings, `ChartEngine.ts`, `ChartCanvas.tsx` | drawings, undo and redo stacks, selection, draft and drag; the component's copy of the selection | mouse, keys, menu, tool bar, text box | user |
| Chart page, `ChartPage.tsx`, `ChartEngine.ts` | indicators and panes of the engine, of the page and of localStorage | add, remove, show, move, collapse, maximise; six effects | user, engine, localStorage |
| Alerts, `src/lib/alerts.ts` | alerts and notifications of each window, the stored list; previous close per chart | evaluate, fire, dismiss, edit, save, load | charts, localStorage |
| Simulations, `simulation-engine.ts`, `SimulationsPage.tsx` | bars, position, cash, trades, metrics of each engine; engines, states, labels and flags of the page | run, answer, frame, pause, step, speed | sidecar, strategies |
| Chart rendering, scripting language, the other pages | none that is shared | pure or single-threaded | charts, sidecar |

What is hard, and what being right means, for the parts modelled so far:

* **Leases.** Each transaction reads the wall clock before it waits for
  SQLite's write lock; processes die without releasing; an owner may not notice
  that its lease ran out.  Right: no two processes hold one id, an id changes
  hands only after its lease ran out, a rejected id stays out of use, and
  `acquire` ends.
* **Pool.** Tasks of one event loop interleave at awaits; a disconnect event
  replaces a sleeping reconnect task; the prewarm is cancelled by a timeout at
  whatever await it has reached; ids are lost to other clients.  Right: the
  status says connected only of a live connection, a lost one has somebody at
  work on it, nothing leaks, and the connection comes back.
* **Supervisor.** Four threads share handles, a port, a status and a flag, each
  behind its own mutex, and no lock covers a restart.  Right: shutting down
  stops the sidecar and every thread, restarts end, dead processes are
  replaced, no process is without a handle, and the stack comes back.
* **Watchdog times.** Interval, streak, back-off, grace period and start-up
  window interact.  Right: a hung or a dead sidecar is replaced in bounded
  time, and a slow start is left alone.
* **Quote subscriptions.** Refreshes and reconnects are spread over awaits
  while the watchlist changes and shards come and go.  Right: marks, queue,
  tickers and shards agree, and a watched symbol gets quotes or says why not.

* **Drawings.** Undo and redo replace every drawing while the component, its
  menu and a drag still hold on to one of them.  Right: what the tool bar and
  the menu believe of the selection is so, a drag is one entry of the history,
  a locked drawing stays where it is, and the stacks are the one line of
  documents that an editing history is.
* **Indicators of a page.** The same list lives in the engine, in the page and
  in localStorage; handlers change one and effects carry the change to the
  others, each setting state that runs the rest again.  Right: the effects
  end, the lists then agree, and a page that is reopened is as it was saved.
* **Chart data.** Answers come when the question is no longer asked, and a poll
  is shared by charts that come and go.  Right: the bars are of the symbol
  shown and in order, one timer chain serves a symbol, and nobody waits for
  what is not under way.
* **Tabs and windows.** A tab that is torn off goes from one window to another
  through records in localStorage, while the workspace follows on the disk two
  seconds later, and either window, or the machine, may end at any moment.
  Right: no tab of the user is lost, none has two homes, and workspace, view
  and disk agree once the save is done.
* **Alerts.** Every chart of every window evaluates the same alerts and every
  window saves its own list.  Right: an alert fires once for each time it is
  armed, on a crossing of its price, and its notification is there until it is
  dismissed.
* **Simulations.** The strategy judges bars rolled up beforehand, the replay
  trades on bars rolled up one by one; on the page runs may overlap.  Right: the
  two roll-ups agree, the metrics are what their definitions say, money is
  neither made nor lost but by trading, and what is played, shown and stepped
  is one run.
* **Sign-in.** Two threads per login wait on one port and share a flag; one of
  them outlives the login.  Each code is told of twice, and the second time may
  be after its exchange has succeeded or failed.  Right: a login fires once, and
  its code is not lost but in the ways that are named.

`PROJECT.json` lists the hazards of the whole repository at their lines,
also those no module covers yet.  Two lesser ones are only here: a refresh of an
option chain is throttled from before it runs (`main.py:2937`), and a seventh
open chart evicts the intent of the least recent one (`historical.py:667`).

## Modules and the code

### ClientIdLeases (`backend/ibkr_utils.py`, the table in `backend/schema.py`)

One manager per process.  `lease` is the table, `retired` and `roleId` the
fields of each manager, `call` the `acquire` it is executing: a scan is a
sequence of transactions, and `ReadClock` and `ClaimGranted`/`ClaimRefused` are
apart because `_try_claim` reads the clock first and waits for the lock
afterwards.  `Crash` ends a process and leaves its rows.  `granted` is a history
variable: what each owner was promised.  `IdPromises` is the abstract
specification: time and, of each id, the promises that have not run out, with
no table and no transaction.  ClientIdLeases implements it (`PromisesAreKept`).

### ConnectionPool (`backend/connection_pool.py`, the prewarm in `backend/main.py`)

One role.  An action is what the code does between two awaits.  `attempt` is the
connection attempt under `_connect_lock`, `waiters` the tasks waiting for it,
`rec` the *registered* reconnect task.  The client-id manager appears as the
sets of ids this process and the others lease, and the retired ones.  TWS is the
environment: it goes up and down, drops connections, refuses a used id, times
out.  A cancelled prewarm and `DisconnectAll` are actions.

### Supervisor (`src-tauri/src/main.rs`)

Threads `init` (start of the stack), `dog` (sidecar watchdog), `wdog` (worker
watchdog) and `ui` (commands, shutdown), each a program counter and locals in
`th`.  An action is one access to the shared state.  Slot 1 is the sidecar's
handle, the others the workers'; a process is started, becomes ready, dies.
The back-off and the grace period are flags that time clears, since here only
their order relative to other steps matters.

### WatchdogTiming (`src-tauri/src/main.rs`)

The sidecar watchdog and the first start against a clock of 5 s ticks, with the
numbers of the code.  Complements Supervisor: time here, interleavings there.

### QuoteSubscriptions (`backend/worker_watchlist.py`, `worker_loop`)

The refreshers of the watchlist and of the active symbols, the reconnect loop
and the subscription loop.  A piece of code between two awaits that takes
several actions holds `turn`.  `owner` stands for `tickers`, `quote_contracts`
and `symbol_to_shard`, which change together; `lines` are the market data lines
TWS serves, which the worker cannot see.

### EditHistory and ChartDrawings (`ChartEngine.ts`, `ChartCanvas.tsx`)

`EditHistory` is the abstract specification: a document, its past and its
future, with the actions edit, undo, redo and adjust (a drag changes the
document without an entry of its own).  `ChartDrawings` is the detailed one:
drawings, the two stacks, selection, draft and drag of the engine, and what the
component keeps of them, `told` (the tool bar), the menu and the text box.
`OneLineOfDocuments` says that it implements `EditHistory` with the drawings
as the document.  A drawing is a pair of bar indices, which one the pointer is
over is any choice, and keys come at any moment of a gesture.

### ChartPanes and ChartPageIndicators (`ChartPage.tsx`, `ChartEngine.ts`)

`ChartPanes` holds the engine's indicators and panes as a record and each
operation as an operator on it.  `ChartPageIndicators` is the page: `engine`,
`active` (its own list), `restored`, `stored` (localStorage); a handler of the
page or a button of a pane is an event, and `Render` one round of its effects
in their order, each with the state of the render.

### ChartFeed (`useChartData.ts`, `chartDataBroker.ts`)

`chart` is the state and the refs of each chart, `entry`, `polls`, `strays` the
broker's entries, requests under way and timers that no entry has a handle of;
`waits` and `older` are requests of charts.  An answer is an action of its own
and may come in any order, late or as an error.  The market makes new bars.

### ChartMC

Drawings, page and feed share no state; `ChartMC` is their sum, in which a
behaviour is one of one part, so that one run checks the three.

### Workspace (`tabs.tsx`, `layout.tsx`, `layout-storage.ts`, `TabBar.tsx`, `DetachedWindow.tsx`, `App.tsx`)

Both windows, the host's spawning and closing of windows, localStorage
(`infos`, `requested`, `closingFlag`, `mirror`) and the disk.  The tear-off is
four steps because each window and the host does its own.  `excused` and
`unseen` are history variables that name the known gaps, each set by the one
step that opens it: a tab that comes back while the main window is loading
(`tabs.tsx:266`), a respawn whose window is still there, a change after the
flush of a close, a crash before the save (`excused`); the user's change of tab
during a tear-off, and a file loaded twice or while a save is due (`unseen`).

### Alerts (`alerts.ts`, `AlertBanner.tsx`, the charts that evaluate)

`alerts`, `notes` per window, `kept` is localStorage, `view` the charts with the
close they saw last.  A close is below or above the price of the alerts.
`armed`, `oldFired` and `writer` are history variables; the discipline leaves
out what the code does not promise: an alert fired by another window, or loaded
as fired.

### SimulationTerms, SimulationEngine, SimulationsPage

`SimulationEngine` is one replay: `Construct` is the constructor, `Step` takes a
raw bar, completes a bar of the timeframe if it must and trades on it.  What the
strategy says of a bar is any judgement.  Shares and money are counted in parts
(`Unit`, 10^6 in the code), so that the rounding of `roundShares` is in the
model.  `SimulationTerms` has the constants and the records.
`SimulationsPage` is the page: a run is a fetch of which the answer makes the
engines, `playing` the engines captured by the loop of frames, `due` the effect
that starts it.

### SignInTerms, SignIn (`src-tauri/src/main.rs`, `src/lib/auth.tsx`, `pages/auth/SignIn.tsx`)

A click is `SignIn`: the listeners are bound or not, and the browser is opened
or not.  `thread[a][f]` is the thread of start `a` on address family `f`, `Loop`
its look at the flag and `Accept` a connection, from the queue `backlog`, to its
answer; `handled[a]` is the flag.  `events` are what the page has yet to be told,
`taken` is its own flag, `exchanging` the request under way.  `missed` is a
history variable, and names by the steps that add to it how a code is lost: no
listener, a listener whose login is claimed or that gives up, another code that
was exchanged, the end of the application.

### DesktopMC

The sum of WatchdogTiming, Workspace, Alerts, SimulationEngine,
SimulationsPage and SignIn, which share no state.

### The modules ...Proofs

ClientIdLeasesProofs, ConnectionPoolProofs, SupervisorProofs,
QuoteSubscriptionsProofs, SimulationEngineProofs and SignInProofs hold theorems
about the modules they are named after, DesktopProofs about the parts of
DesktopMC, ChartProofs about the parts of ChartMC, see [Proofs](#proofs).

### How they fit together

The pool and the worker both obtain ids through the leases; ConnectionPool uses
what ClientIdLeases guarantees (IdPromises: the ids of this process and of the
others are disjoint) as the shape of its state `own`/`other`.  `ReconnectRaises` of
QuoteSubscriptions ends the worker, which Supervisor sees as the death of a
worker.  WatchdogTiming is the clock of Supervisor's sidecar watchdog.
ChartDrawings, ChartPageIndicators, ChartFeed and Alerts are layers of one chart,
each of which sees of the others only what it is called with; a tab of Workspace
holds such a chart.  SimulationsPage counts the bars of each engine whose inside
is SimulationEngine.

## Runs

Every property of a passing run has a mutant: an operator `Mut...` next to the definition it
replaces, a plausible slip in the code at that place (a forgotten purge, a kept
mark, a guard dropped), with which TLC finds the property violated.

| Run | Properties | Bounds | Shows |
| --- | --- | --- | --- |
| `leases` | TypeOK, LeaseExclusive, RejectedIdUnused, PromisesAreKept, AcquireTerminates | 2 processes, 1 role, 2 ids, TTL 2, 4 instants | exclusion in spite of stale clock readings, crashes, releases of an id already taken over |
| `pool` | TypeOK, ConnectedIsLive, DroppedIsAttended, NothingLeaks, ReconnectSucceeds | prewarm and 2 requests, 2 ids, 3 disturbances | book-keeping agrees with the connections under drops, rejections, timeouts and cancellation |
| `supervisor_shutdown` | TypeOK, SidecarStopped, ShutdownQuiesces | sidecar and 1 worker, from the very start, shutdown at any step | no thread outlives the flag, no sidecar survives |
| `supervisor_races` | DeadIsReplaced | sidecar and 1 worker, 1 death | a handle of a dead process does not stay |
| `supervisor_commands` | RestartEnds | sidecar only, 1 death, 1 command | two threads that kill and adopt each other's sidecar both finish |
| `supervisor_recovery` | NoOrphans, Recovers | sidecar and 2 workers, 3 deaths or failed spawns of the sidecar, 3 failed probes | the stack comes back |
| `supervisor_stuck` | Recovers, violated | 1 death of a worker | see [below](#where-the-code-and-its-comments-differ) |
| `desktop` | PartsTypeOK, HungIsBounded, DownIsBounded, TabsHaveOneHome, WorkspaceIsView, AlertDiscipline, ReplayIsRight, LedgerAddsUp, PlaysWhatItShows, SignInCounts | watchdog: the code's numbers (8 failures, 60 s, 90 s, probe 10 s), a start takes up to 100 s; windows: 2 tabs and 1 more, 4 acts of the user, 2 ends of a window or crashes; alerts: 1 alert, 2 symbols, 3 charts of which 1 in a window of its own, 2 moves, 1 switch, 3 acts; replay: 6 minutes of 2 prices, timeframes 1, 2 and 6, days of 6 minutes; simulations: 2 runs of 1 or 3 engines, 2 symbols with 5 and 3 bars; sign-in: 2 logins, 2 connections per thread, 1 without a code, 1 restart | a hung sidecar is replaced within `HungBound` ticks, a dead one within `DownBound`; no tab is lost or doubled but by the named gaps; an alert fires once; a replay is what the whole series says, and its money adds up; the page plays what it shows; a login fires once and is not lost but by the named gaps |
| `chart` | PartsTypeOK, HistoryBounded, SelectionTold, DragIsOneEdit, LockedStaysPut, OneLineOfDocuments, PageAgrees, BarsAreRight, NothingStalls | drawings: 1 drawing, 3 edits, undo limit 1; page: 3 indicators, 3 panes, 4 changes; feed: 2 charts, 2 symbols, 3 bars kept of 4, 3 switches, 4 requests | history, selection and gestures agree, and implement the editing history; the page's effects end and its lists agree; bars are right and nothing stalls |
| `chart_removed` | RemovedStaysRemoved, violated | 3 indicators | see below |
| `quotes` | TypeOK, BooksAgree, UnwantedIsDropped, WatchedIsSubscribed | 2 symbols, 3 IB objects, 2 shards, 1 edit, 1 fault | queue, tickers and shards agree, and the symbols are subscribed in the end |
| `quotes_owner` | OneOwner, violated | 1 drop | see below |

Why the bounds are enough.

* *leases*: with two processes and two ids there is contention for an id, a scan
  that moves on to the next and one that is exhausted; a TTL of two ticks and
  four instants let a lease be renewed before it runs out, run out, be taken
  over and be given up by whom it was taken from, between any two steps of a scan.  A crash and a release are possible at any moment.
  The safety theorems cover every other size.
* *pool*: two requests and the reconnect task make a queue of waiters in which
  each can be overtaken by a drop; two ids let the pool lose one and go on with
  the other, or run out; three disturbances are enough for a drop while the
  attempt that repairs a first one is being rejected.
* *supervisor*: each run has the number of handles its question needs.  Process
  identities are reused; there are enough of them that a spawn never waits for
  one.  `FailsBeforeRestart` is 1 or 2 instead of 8 where the streak is not the
  question: the watchdog then restarts earlier, never in another state.
* *desktop*: the watchdog is not scaled down, and its longest start of 20 ticks
  exceeds the window of 18, so a start can be too slow.  Three tabs of which one
  is fixed let one be torn off while another is active, closed or comes back;
  four acts are a tear-off, a change during it, a reattachment and a close, and
  two ends let a crash follow the restart after an exit.  (With six acts and
  three ends the windows have 17.7 million states, too many to check each time;
  they were checked once without an error.)  Two charts of one window see the
  same alert, a third one of another window does.  Six minutes of a one-minute
  timeframe complete four bars that are traded on, two trades; the coarser ones
  have bars of several raw bars, gaps and a bar that is never completed.  Two
  runs can overlap; three engines over two symbols divide the bars of one of
  them unevenly.  Two logins are one that leaves a thread behind and one that
  meets it; two connections, of which one may bring nothing, let a thread give
  up.  (Three logins have 5 million states and were checked once.)
* *chart*: one drawing is enough for undo to take the selected one away and for
  redo to bring it back, and the theorems below hold for any number; with an
  undo limit of 1 the third edit drops an entry.  Three indicators are the
  always-present one, one the user removes and the overlay that a strategy
  brings; three panes can be swapped with one collapsed and one maximised.  Two
  charts may share a symbol or not, and each may leave it and come back while a
  poll, a window and a request for older bars are under way.
* *quotes*: with two symbols and a threshold of one symbol per shard an edit
  creates or removes a shard; three IB objects are one more than the shards, so a
  torn-down one may still be connecting.  One fault at a time: a drop, a failed
  connect, the limit of lines, another refusal.

Exclusions, all by name in the configurations or properties:

* `WatchedIsSubscribed` is about symbols of the watchlist that are not active
  ones too: a symbol that is moved from one table to the other while both
  refreshers are between reading and applying is cancelled by the one and not
  queued by the other.  No document promises otherwise, so it is a hazard and
  not a finding.  The fault `midway` (a drop while `connectAsync` of another task
  still waits on the same object) is left out of `quotes` for the same reason:
  the slower connect repairs the connection and nobody queues its symbols.  A
  worker that died (`dead`) is the worker watchdog's business.
* `Recovers` assumes `[]<>Quiet`: without it a behaviour may exist in which every
  instant finds some thread in the middle of a restart and time never passes.
* `Patient`, TRUE in `supervisor_stuck`, says that a minute does not pass within
  a step that takes milliseconds: the counterexample does not depend on an
  improbably slow thread.
* Runs with `CHECK_DEADLOCK FALSE` are those in which the system may stop: all
  processes dead or the clock at its bound (`leases`), every thread done
  (`supervisor_shutdown`), a dead worker (`quotes`, `quotes_owner`), the edits
  or changes of the user used up (`chart`, `chart_removed`).  `desktop` checks
  for deadlock and names in `Stops` where a part ends: at the bounds on what the
  user does, and at the end of a replay.

## Fairness

* ClientIdLeases: a process inside `acquire` takes its next step (the loop has
  no await and SQLite's busy timeout ends).  Nobody need call, crash or tick.
* ConnectionPool: the event loop grants the lock, runs the reconnect task and
  ends each attempt (`connectAsync` has a timeout); cancelled tasks finish.  TWS
  need do nothing.
* Supervisor: each thread runs, a spawned process becomes ready, and the
  back-off and the grace period pass: clocks run and the health polls are bounded.  Faults
  and commands need not occur.  In `SpecPatient` time is only allowed to pass
  now and then, so the passing of time is strongly fair there.
* QuoteSubscriptions: each loop continues; taking from the queue is strongly
  fair because the loop pauses while the refreshers run.  Tables need not
  change and connections need not drop.
* `desktop` and `chart` state bounds and invariants, not liveness, and assume no
  fairness: what must end (the effects of a page, a wait, a playback) is stated
  as an invariant that somebody is at work on it, or as a bound on its rounds.

## Proofs

`ClientIdLeasesProofs` proves for every set of processes and roles, every range
of ids, every TTL and every bound on the clock:

| Theorem | Statement |
| --- | --- |
| `TypeCorrect` | `Spec => []TypeOK` |
| `LeaseExclusiveHolds` | `Spec => []LeaseExclusive` |
| `RejectedIdUnusedHolds` | `Spec => []RejectedIdUnused` |
| `Refinement` | `Spec => PromisesAreKept`: ClientIdLeases implements IdPromises |
| `PromisedToOne` | `PromisesAreKept => []Promises!Exclusive`: what follows for a process that does not know the table |
| `TakeoverAfterExpiryHolds` | `Spec => TakeoverAfterExpiry`, of the rows of the table |

Assumptions, named where the constants are declared: `IdRange` (ids are
numbers), `ClockConstants` (the TTL is positive), `NoneIsNoId` and `NoneIsNoRow`.

`LeaseExclusive` is not inductive: it speaks of what two owners believe, and a
step changes the table.  The invariant `IInv` adds the link, `PromiseIsRow`: a
promise that has not run out *is* the row of the table, so two unexpired
promises for one id are one row and have one owner.  To keep it a purge must not
delete a running lease, which holds because the clock reading it uses is stale
but never early (`ClockReadInPast`).  `RejectedIdUnused` is needed when a claim
succeeds: the id a scan is about to claim is not one the manager has retired
meanwhile.  `IInv` is proved step by step, one lemma per kind of step, and the
theorems follow from it; `TakeoverAfterExpiry` follows from `IInv` and the step.

The refinement maps what the owners believe, not the table.  Most steps stutter:
a claim that is granted is a promise taken or renewed (`ClaimTakes`), or none if
its clock reading is so old that the lease has run out before it is written; a
release by an owner whose lease was taken over touches nobody's promise
(`GiveBackGives`).  That a renewal never shortens a promise is not a consequence
of `IInv`; it needs `Terms`: no promise is longer than the TTL from now
(`PromisedByTheClock`), nor from the clock reading its owner is about to claim
with (`RenewalExtends`), because a manager has one `acquire` at a time and its
last promise is older than the reading.  Both assume a wall clock that is not
set back, as the model's is.

`ConnectionPoolProofs` proves for every set of handlers, every range of client
ids and every number of faults:

| Theorem | Statement |
| --- | --- |
| `TypeCorrect` | `Spec => []TypeOK` |
| `StatusIsTrue` | `Spec => []ConnectedIsLive` |
| `DropsAreAttended` | `Spec => []DroppedIsAttended` |
| `NothingIsLeaked` | `Spec => []NothingLeaks` |
| `RejectedIsLeft` | `Spec => []` neither the bound id nor that of the attempt under way has been rejected, until the pool closes |

Assumptions: `IdsAreNumbers`, `FaultsAreCounted`, `PrewarmIsRequest`,
`ReconnectIsNoRequest` and `NoneIsNew` (`None` is none of the values it stands
beside).  The invariant is about who is in the middle of an attempt.  `TaskAgrees`
says that the attempt and the place where its task stands agree, so that the
lock has one holder; `PhaseShows` that the phase of the attempt shows in
`client` and `st` of the bound id, which is what a disconnect during the settle
sleep or after `disconnect_all` disturbs; `BoundIsAll` that nothing but the
bound id is leased or has a client.  A cancelled attempt outlives
`disconnect_all`: this is why `PhaseShows` stops at `closed`, and why nothing is
left of it in `NothingLeaks` all the same.

`SupervisorProofs` proves for every number of workers, ports, processes,
failures before a restart, crashes, stalls and commands, and both from an empty
stack (`Spec`) and from one that is up (`SpecUp`):

| Theorem | Statement |
| --- | --- |
| `TypeCorrect` | `[]TypeOK` |
| `SidecarStoppedHolds` | `[]SidecarStopped`: when every thread has ended, no sidecar and no port is left |
| `NoOrphansHolds` | `SpecUp => []NoOrphans`, if there are no commands and workers do not die |

Assumptions: `SlotsAssumption` (there is a sidecar), `PidsAreNumbers` (there are
at least as many processes as slots), `PortsAreNumbers`, `FailsAssumption`,
`BoundsAssumption`.  `SidecarStopped` speaks of the end only.  What keeps it so
is `StopIsComing`: from the moment the flag is set, whoever has put a sidecar in
the slot or set the port is followed by somebody who takes it away, either a kill of
the stack that has not passed the first slot yet, or the thread itself, which is
just before its poll and will see the flag there.  `Places` says what the locals
of a thread mean at each place (a pid in its hands only between spawn and store),
`OneOwner` that a process is in one pair of hands, `FlagBeforeExit` that the main
thread leaves with the flag set, and `StreakLeads` that the streak reaches the
limit only on the way to the restart.  For `NoOrphans`, `Alone` adds that the
sidecar watchdog is the only one at work and `SpawnsIntoEmpty` that each place
it spawns for is empty; both hypotheses are needed, see `supervisor_stuck` and the note on
`restart_sidecar` below.

`QuoteSubscriptionsProofs` proves for every finite set of symbols, every set of
connections, every threshold and cap, and any edits and faults:

| Theorem | Statement |
| --- | --- |
| `TypeCorrect` | `Spec => []TypeOK`: among others, between one and `MAX_SHARDS` shards |
| `BooksAgreeHolds` | `Spec => []BooksAgree` |
| `UnwantedIsDroppedHolds` | `Spec => []UnwantedIsDropped` |
| `LimitsHold` | `Spec => [](BarsCapped /\ LinesNeedLink)`: real-time bars keep to their cap, and lines are on connections that are up |

Assumptions: `SizesAssumption`, `SetsAssumption`, `BoundsAssumption`.
`UnwantedIsDropped` speaks of the moments when no refresher is at work; between
them, `NoStrangers` says that a ticker nobody wants is of a symbol that a
refresh has taken off the lists and is about to cancel.  `BooksAgree` is
inductive with the types, but its preservation rests on lemmas about the
sequences of the worker (`SetToSeqHoldsAll`, `QueueingKeeps`, `PopKeeps`):
what is appended and what is taken keeps marks and queue in step.

`DesktopProofs` proves of the six parts of DesktopMC, for every value of their
constants:

| Theorem | Statement |
| --- | --- |
| `TypeCorrect` | `Spec => []TypeOK`, of WatchdogTiming |
| `HungIsBoundedHolds` | `Spec => []HungIsBounded`: a hung sidecar waits at most `Grace + Probe + (Fails - 1) * (1 + Probe) + Probe` ticks |
| `DownIsBoundedHolds` | `Spec => []DownIsBounded`: there is no sidecar for at most `Grace + 1` ticks |
| `TabsHaveOneHomeHolds` | `PartsSpec => []TabsHaveOneHome` |
| `WorkspaceIsViewHolds` | `PartsSpec => []WorkspaceIsView` |
| `AlertDisciplineHolds` | `PartsSpec => []AlertDiscipline` |
| `PlaysWhatItShowsHolds` | `PartsSpec => []PlaysWhatItShows` |
| `LedgerAddsUpHolds`, `ReplayIsRightHolds`, `SignInCountsHolds` | `PartsSpec => []LedgerAddsUp`, `PartsSpec => []ReplayIsRight`, `PartsSpec => []SignInCounts`: the theorems below, of the parts |
| `PartsTypeOKHolds` | `PartsSpec => []PartsTypeOK` |

`PartsAreSpecs` says that each part of a behaviour of `PartsSpec` is a behaviour of
its own module, so that what is proved of a part by itself holds of the sum; an
engine and the sign-in are taken over so, by instantiating the modules with their
theorems.  The other parts have an inductive invariant each.

*Watchdog.* The assumption is `TicksAssumption`: neither the back-off nor a probe takes
longer than the grace period (60 s and 10 s against 90 s in the code).  A bound
on the past is not inductive; `HungLeaves` and `DownLeaves` say for each mode
of the watchdog how much of the bound is left for what it has yet to do, the
failures that are missing (`Missing`) included.  `BackoffIsShorter` is what
makes the two intervals of the code fit: when the grace period after a restart
is over, so is the back-off, and the confirmed failure of a hung sidecar always
leads to a restart; if it could be put off, the streak would begin anew.

*Windows* (`ShellInv`).  `WindowsAssumption`: there is a first tab, and `Nothing`
is neither a tab nor a layout.  Where a tab is can only be said together with what
each window believes.  `HomesHold` adds to `TabsHaveOneHome` that a request to
come back is of a tab whose window is closed and that nobody will open
(`RequestedIsClosed`), that a window and a respawn have their record
(`WindowsAreKept`, `RespawnsAreKept`), and that a tab being torn off stays in
the main window, without a window or a request of its own, until its window is
made (`TearIsAlone`).  "In the main window" means, as long as it shows nothing,
what it will read when it starts (`InSight`), so that a crash and a start are
steps like others.  `ViewsAgree` adds to `WorkspaceIsView` that the save that is
due is of the workspace (`TimerIsWorkspace`) and that the flush of a close is the
last (`FlushIsLast`); `Phases` says in which phases of the main window there are
tabs, effects, saves and tear-offs.  Each is stated without the tabs and the
behaviours that `excused` and `unseen` name; TLC checked these candidates as
invariants before they were proved.

*Alerts* (`AlertInv`).  `AlertsAssumption`: there are finitely many charts, and
`NoOne` is no alert.  `AlertDiscipline` is inductive but for firing once, which
needs `ActiveIsArmed`: an alert that is active has not fired since it was
armed.  The evaluation by all charts of a window in one commit counts those that
see a crossing, and the proof bounds that count by the charts of the window.

*Page of the simulations* (`PageInv`).  `PageAssumption`: numbers of runs,
simulations and speeds are numbers, and `Nothing` is none of them.  Added are
`LabelsAreTrue` and `OneToCome` (an effect or frames, never both), without which
an answer during playback could leave two loops.  That the simulations of a
symbol share its bars (`WindowsApart`) is arithmetic and a fact about sets: among
the twins of a simulation each rank is taken once (`Rank...`), and a range cut
into equal parts, the last with what is left over, has each bar in exactly one
(`PartsTile`).

`ChartProofs` proves, of ChartDrawings for any number of drawings, edits, bars,
places of the pointer and any undo limit, of ChartFeed for any charts,
symbols, window and number of bars kept, and of ChartPageIndicators for any
names, symbols, panes and number of changes:

| Theorem | Statement |
| --- | --- |
| `TypeCorrect` | `Spec => []TypeOK` |
| `SelectionToldHolds` | `Spec => []SelectionTold` |
| `DragIsOneEditHolds` | `Spec => []DragIsOneEdit` |
| `LockedStaysPutHolds` | `Spec => LockedStaysPut`, a step property |
| `HistoryBoundedHolds` | `Spec => []HistoryBounded` |
| `Refinement` | `Spec => OneLineOfDocuments`: ChartDrawings implements EditHistory |
| `FeedInvariance` | `PartsSpec => []FeedInv`, the inductive invariant of ChartFeed; it implies the module's `TypeOK` (`FeedInvGives`) |
| `BarsAreRightHolds` | `PartsSpec => []BarsAreRight` |
| `NothingStallsHolds` | `PartsSpec => []NothingStalls` |
| `PageInvariance` | `PartsSpec => []PageInv`, the inductive invariant of ChartPageIndicators |
| `PageAgreesHolds` | `PartsSpec => []PageAgrees` |
| `PartsTypeOKHolds` | `PartsSpec => []PartsTypeOK`, the types of the three parts |

*Drawings* (`IInv`).  The assumptions are `DrawingAssumption` (the pointer is over the bars, there is
one at least, the limit is positive) and `NoneIsNoShape`.  `SelectionTold` and
`DragIsOneEdit` are not inductive: both depend on which gesture is under way.
`IInv` adds `Documents` (every document of the stacks is one, a drawing that
will be made is in none), `Controls` (menu and text box belong to what exists),
`Gestures` (at most one of draft, drag and mouse button, and what each holds) and
`Grasp` (what the drag took hold of).  `HistoryBounded` is proved of the
abstract history's steps and carried over by the refinement.

*Bars* (`FeedInv`).  `FeedAssumption`: the window and the number of bars kept are
positive, and `Nobody` is neither a symbol nor an entry of the poll.  An answer
finds the chart as it is when it comes, so nothing can be said of the bars alone.
`LiveIsOwn` says that a request that is neither cancelled nor out of date is for the
symbol its chart has, which makes what it brings the chart's own; `OlderFit` that
older bars asked for end where the bars begin unless they were overtaken, which
keeps them in order when they are put in front; `NothingOpen` that a chart
without a symbol has no timer and no request.  `FullOnly` (while a chart is
loading, its own request is a full one, not the refresh behind the cache) is what
makes the answer end the loading.  For the poll, `PollOf` adds to "one chain"
that without a rebirth there is no stray timer, that an entry which is gone has
none of its own, and `AllSubscribed` that an entry lives exactly as long as a chart has
its symbol.  That merged bars are in order, each once, is a fact about finite
sets of numbers (`MergedIsBars`, from the ranks of `RankTaken`); that cutting
and prepending keep the order is `NewestIsBars`, `OldestIsBars`, `BeforeIsBars`.
TLC checked the parts of the invariant on the bounds of `chart` before they were
proved.

*Page* (`PageInv`).  `PageAssumption`: volume, signal and score are among the
indicators, signals are drawn over the price, and the user does not remove
signals and scores with the legend.  The last one is what `chart_removed` shows
to be needed: when a score is removed by hand, two effects undo each other's
work forever and nothing can be proved about their end.  `PageAgrees` speaks of
the page at rest, and between an event and rest there are rounds of effects in
which nothing agrees.  The invariant says what is still to be done:

* `Echoes`: the page's list is what `Current` makes of the engine's; unless a
  pane button has come between it *is* the engine's list, and the layout is the
  engine's unless an effect is due that reads it;
* `Saves`: localStorage is up to date, or an effect that saves is due;
* `Completes`: the score goes with the signals in every list, saved ones
  included, but for the one that the next round completes, and that one has the
  room for it (`Room`, which the handlers look at before they add);
* `Calms`: how many rounds there have been and what each may still set.  The
  first round after an event may set the page's list; what it sets is complete
  and without removed names, so that the second sets nothing (`RenderTold`,
  `RenderQuiet`); a third finds only the layout changed.  This is what makes
  `MaxRounds` of 2 enough, for any number of indicators;
* `Mounting` and `Restoring`: until the user does something, what is on the chart
  is what was saved, and the pane state, put on the engine before there are
  indicators, is put on it a second time after they are back.

The rest is about the operators: each of ChartPanes keeps an engine one in which
ids are told apart and the order names the used panes once (`GoodEngines`); each
pane button that changes the list changes the layout too, which is how the page
hears of it (`PaneGone`, `SwapIsSeen`); rebuilding the list from what was saved
gives what was saved (`ApplyFacts`, by induction over the list, which the proof
does on sets of numbers, see `Induction`).

`SimulationEngineProofs` proves for any series, prices, timeframe, session,
capital, quantity and size of a part:

| Theorem | Statement |
| --- | --- |
| `TypeCorrect` | `Spec => []TypeOK` |
| `ReplayIsRightHolds` | `Spec => []ReplayIsRight`: the bars completed by the replay are those the charts are made of, and the metrics of its trades are what they are by definition, the drawdown included |
| `LedgerAddsUpHolds` | `Spec => []LedgerAddsUp`: cash and stake are the capital and the gains; no position costs more than there is but for half a part of a share; trades follow each other |

The assumptions are `SimulationAssumption` and `NoBarIsNone`.  `TradesInOrder` is
not inductive; `Ahead` adds that the bar being made is later than every time
that has been traded on, and that the raw bars to come are in it or after it
(`BucketMonotonic`).  The overspend rests on `NearestBound`: rounding to the
nearest part adds at most half a part.

`ReplayIsRight` compares what the code folds over a list with a definition that
is none.  The induction theorems of the library cannot be used, since they take
an operator as a parameter; `Induction` states induction for a set of numbers
instead (it follows from a fact about finite sets), and `Recursion` that a
function defined by recursion from `0` exists, for the sums, the drawdown and the
bars that are made.  With them `DrawdownIsRight` says that the running peak and the
largest fall below it, in one pass, give the largest loss between two ends of
trades; `Rolls` that joining raw bars one by one gives the bars of the whole
series cut by `Bucket`; and `MadeStays` that what is made of the raw bars so far
does not change with those to come.  The invariant adds `Counted` (metrics and
earnings are those of the trades) and `Replayed` (the bars shown and the bar being
made are what is made of the raw bars taken).

`SignInProofs` proves for any number of logins, connections of a thread and
restarts, from `SignInAssumption`:

| Theorem | Statement |
| --- | --- |
| `TypeCorrect` | `Spec => []TypeOK` |
| `FiresOnceHolds` | `Spec => []FiresOnce` |
| `SignInCountsHolds` | `Spec => []SignInCounts`: it fires once, and no code is lost but by the ways that `missed` names |

That a start claims one code needs only that the flag is set when it has
(`ClaimsAreFlagged`).  That a code is not exchanged again needs to know where a
code can be: `Waits` says that the browser brings it once, that it waits in one
connection, and that the page has then not heard of it; `FlagIsUp` that the
page's flag is set as long as the second event of an exchanged code is to come;
`Attempts` counts failures, the exchange under way and events to come.  That none
is lost is a second invariant on top of it, `Accounts`: every code brought is
somewhere (`AllSomewhere`), which the page's flag may spoil only if it is up for
good, after an exchange that has brought a session (`TakenForGood`).

Every invariant and every action property that the runs check is proved.  Only
model-checked: all liveness
(`AcquireTerminates`, `ReconnectSucceeds`, `ShutdownQuiesces`, `DeadIsReplaced`,
`RestartEnds`, `Recovers`, `WatchedIsSubscribed`), because TLAPS does not reason
about fairness and ENABLED.

## Where the code and its comments differ

With a run:

1. `supervisor_stuck`.  `README.md:98`: the host "watchdog-restarts the stack
   when health checks fail".  After a worker died the two watchdogs may restart
   at once, because the emptied stack of the one looks like a missing one to the
   other (`main.rs:1649`); one kills what the other starts, and a stack of workers without a
   sidecar is one that no watchdog ever repairs.
2. `quotes_owner`.  `worker_watchlist.py:1209`: `symbol_to_shard` says which
   shard owns a symbol's subscription.  When the primary connection returns the
   owners of all shards are forgotten and everything is subscribed again: lines
   on shards that stayed connected have no owner and are never cancelled.

3. `chart_removed`.  `ChartPage.tsx:1979`: "Never re-add indicators the user
   explicitly removed this session."  With a strategy on the chart the effect
   at 1651 adds its score indicator again when the user removes it, the
   reconciling effect drops it, and the two set state forever; an indicator
   deleted with the button of its pane comes back with the next bars.

Without a run.  The first two are stated in the modules (`StaysKilled`,
`ColdStartNotHammered`) and were found violated by TLC:

* `SettingsPanel.tsx:104`: processes are killed so that the installer can
  overwrite their files.  `kill_sidecar` leaves the status `stopped`, from which
  the watchdog recovers five seconds later.
* `main.rs:140`: a slow cold start "isn't immediately hammered by the watchdog".
  The grace period begins with a restart of the watchdog itself, so the first
  start has none.
* `restart_sidecar` beside a restart of the watchdog: the second handle that is
  stored overwrites the first, whose process is nobody's (`NoOrphans` is
  therefore checked without commands).
* `SimulationsPage.tsx:391`: Run is not disabled while a run is loading.  An
  answer that comes while another run is playing finds `isRunning` true, the
  effect is not run again, and the loop goes on with the engines it has captured
  under the labels of the new run, while the Step button steps the new one's.
  `PlaysWhatItShows` leaves this out by `crossed`.  Resume while loading
  captures the empty list of engines.
* `simulation-engine.ts:289`: shares are rounded to the nearest part, so cash may
  be slightly negative after a purchase.  The last bar of a replay is never
  completed, so nothing is traded on it; `rollDays` changes nothing, since both
  branches at 255-260 leave every bar with the session filter `all`.
* `tabs.tsx:266`: a tab whose request to come back is processed while the main
  window is still loading its workspace is lost; its record and its request
  are gone, and the tabs it was added to are replaced.
* `layout.tsx:453`: loading a file does not cancel the save that is due, and a
  file with the time stamp of the workspace in use is not noticed.  After a
  crash the older disk is preferred to the mirror in localStorage.
* `alerts.ts:180`: every window saves the list it read when it opened, so the
  alerts added in another one since are overwritten.  `alerts.ts:289`: the first
  bars after a switch of symbol are compared with a close of the old symbol.
  Two charts of one window that see a crossing in one commit fire it twice.

* `src-tauri/src/main.rs:240` says the other OAuth listener "exits immediately";
  it is blocked in `accept` until another connection arrives.  It keeps its port
  until then: a second login that cannot bind 127.0.0.1 sends the browser to it,
  and it drops the code (`SignIn`, `missed`).
* `auth.tsx:103`: `handled` stays set after a successful exchange, so after a
  sign-out the code of a second Google sign-in is ignored until the application
  is started again.
* `connection_pool.py:124`: an attempt cancelled in its settle sleep leaves the
  state CONNECTING, which `/tws-status` reports although nothing is under way.
* `worker_watchlist.py:2043`: a shard torn down while it is being reconnected
  makes the assignment raise IndexError and ends the worker (`ReconnectRaises`).
* `worker_watchlist.py:910`: "never clobber bid/ask ... that TWS already set"
  holds of the first Yahoo write after TWS only, since it sets the source to
  `yahoo`.
* `useChartData.ts:259`: "keep existing bars visible" when the port goes away;
  the lines above have just cleared them.

## Not modelled

* Rendering, layout and forms: the pages and components, the larger part of the
  TypeScript, in which a handler sets a field and the next render shows it.  The
  map covers a few per cent of it: the state machines behind it.
* Indicators, greeks, scores, probability models: floating-point arithmetic.
  Providers that translate field names; packaging.
* `backend/prefetch.py` and `backend/subscriptions.py`: imported for packaging
  or not at all, so none of their states is reached.  `SidecarClient` of
  `src/lib/ws.ts` likewise.
* In the modelled parts: logs, status texts and timestamps that nothing decides
  on; the back-off lengths of the pool; in the watchlist worker the dedicated
  chart and backfill connections, ticks, bars, quotes and the Yahoo loop; in the
  workspace titles, positions and the content of a layout; in the chart feed
  daily bar sizes and a change of port.

`PROJECT.json` gives the reason for each component.

## Plan

1. **HistoricalStore**: bar tables with their writers (backfill of the worker,
   fetches of the sidecar, real-time and synthetic bars), `fetch_meta`, the
   priority queue and the chart intents.
2. **QuoteStore**: ticks, Yahoo answers and status rows written by unordered
   threads; composes with QuoteSubscriptions.
3. **PortfolioCache** (a newer answer is not replaced by an older one) and the
   dashboard grid (`GridLayout.tsx`).
