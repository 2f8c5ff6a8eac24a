----------------------------- MODULE ChartFeed -----------------------------
(***************************************************************************)
(* How the charts of the front end come by their bars: each chart fetches  *)
(* a window of its symbol (chart/hooks/useChartData.ts), older bars when   *)
(* the user pans, and takes part in one poll per symbol that the charts    *)
(* share (chart/hooks/chartDataBroker.ts).  Everything is one thread; what *)
(* is hard is the answers that come when the question is no longer asked.  *)
(*                                                                         *)
(* A bar is its time.  One intraday bar size and one port: a symbol is a   *)
(* key of the broker.  Every symbol has bars, so no answer is empty.  The  *)
(* state set by a handler is rendered before the next event.               *)
(***************************************************************************)
EXTENDS Integers, Sequences, SequencesExt, FiniteSetsExt

CONSTANTS
    Charts, Tickers, Nobody,
    Window,         \* bars of one request (initialLimit)
    Keep,           \* bars a chart keeps (MAX_INTRADAY_RAW_BARS)
    LastTime,       \* bound: the newest bar there will be
    MaxSwitches,    \* bound: how often a chart gets a symbol
    MaxRequests     \* bound: how often a poll, a window or older bars are asked for

VARIABLES
    chart,          \* the hook of each chart
    entry,          \* POLL_ENTRIES
    strays,         \* timers of the poll that no entry has a handle of
    polls,          \* polls under way for each symbol, each from a time
    waits,          \* who waits for a window (IN_FLIGHT holds their symbols)
    older,          \* requests for older bars under way
    cached,         \* RAW_BAR_CACHE
    now,            \* the newest bar the server has
    switches, requests,     \* counters behind the bounds
    reborn,         \* history: symbols whose entry was made anew during a poll
    crossed,        \* history: charts with an older request that was overtaken
    refused         \* history: charts whose window was answered by an error

feedVars == <<chart, entry, strays, polls, waits, older, cached, now,
              switches, requests, reborn, crossed, refused>>

Closed == [sym |-> Nobody, bars |-> <<>>, of |-> Nobody, loading |-> FALSE,
           debounce |-> FALSE, panTimer |-> FALSE, pan |-> FALSE, extent |-> 0,
           pend |-> <<>>]
first == 1      \* the oldest bar the server has
NotCached == [bars |-> <<>>, extent |-> 0]

Init ==
    /\ chart = [c \in Charts |-> Closed]
    /\ entry = [s \in Tickers |-> Nobody]
    /\ strays = [s \in Tickers |-> [own |-> 0, other |-> 0]]
    /\ polls = [s \in Tickers |-> <<>>]
    /\ waits = {} /\ older = {}
    /\ cached = [s \in Tickers |-> NotCached]
    /\ now = LastTime - 1
    /\ switches = 0 /\ requests = 0
    /\ reborn = {} /\ crossed = {} /\ refused = {}

-----------------------------------------------------------------------------
FromTo(a, b) == [i \in 1 .. b - a + 1 |-> a + i - 1]

(* mergeBarsByTime, and the two ways to stay within the bound: the poll    *)
(* keeps the newest bars (trimIntradayTail), panning the oldest.           *)
MutMerged(old, new) == old \o new
Merged(old, new) ==
    LET times == ToSet(old) \union ToSet(new)
        Before(t) == {u \in times : u < t}
    IN  [i \in 1 .. Cardinality(times) |-> CHOOSE t \in times : Cardinality(Before(t)) = i - 1]
MutKeepNewest(bars) == bars
KeepNewest(bars) == SubSeq(bars, Max({1, Len(bars) - Keep + 1}), Len(bars))
KeepOldest(bars) == SubSeq(bars, 1, Min({Keep, Len(bars)}))

(* What the server answers. *)
WindowNow == FromTo(Max({first, now - Window + 1}), now)
OlderUpTo(end) == FromTo(Max({first, end - Window + 1}), end)

(* pollUpdateState: the time never goes back. *)
Raised(e, bars) == IF e = Nobody THEN e ELSE [e EXCEPT !.last = Max({@, Last(bars)})]

Asking(s) == {w \in waits : w.sym = s}

Asks(n) == requests + n <= MaxRequests /\ requests' = requests + n

(* Charts under whose live older request the bars begin elsewhere now, or  *)
(* that have two of them: what it brings no longer fits before the bars.   *)
Overtaken(new, olds) ==
    LET Live(c) == {o \in olds : o.c = c /\ ~o.stale}
    IN  crossed \union {c \in Charts : Cardinality(Live(c)) > 1}
                \union {c \in Charts : Live(c) # {} /\ new[c].bars # <<>>
                                       /\ \E o \in Live(c) : o.end # new[c].bars[1] - 1}

-----------------------------------------------------------------------------
(* The poll coordinator.  stray is what becomes of the stray timers: the   *)
(* timer of a living entry (own) and of one that is gone (other).          *)

(* _scheduleNextPoll: a handle that is already there is overwritten. *)
MutSchedule(s, e, stray) ==
    /\ entry' = [entry EXCEPT ![s] = e]
    /\ strays' = [strays EXCEPT ![s] = stray]
Schedule(s, e, stray) ==
    /\ entry' = [entry EXCEPT ![s] = IF e = Nobody THEN e ELSE [e EXCEPT !.timer = TRUE]]
    /\ strays' = [strays EXCEPT ![s] = IF e # Nobody /\ e.timer
                                       THEN [stray EXCEPT !.own = @ + 1] ELSE stray]

(* _runPoll, up to its request. *)
RunPoll(s, e, stray) ==
    /\ IF e = Nobody \/ e.fetching \/ e.last = 0
       THEN Schedule(s, e, stray) /\ UNCHANGED <<polls, requests>>
       ELSE /\ entry' = [entry EXCEPT ![s] = [e EXCEPT !.fetching = TRUE]]
            /\ polls' = [polls EXCEPT ![s] = Append(@, e.last - 1)]
            /\ strays' = [strays EXCEPT ![s] = stray]
            /\ Asks(1)
    /\ UNCHANGED <<chart, waits, older, cached, now, switches, reborn, crossed, refused>>

TimerFires(s) ==
    /\ entry[s] # Nobody /\ entry[s].timer
    /\ RunPoll(s, [entry[s] EXCEPT !.timer = FALSE], strays[s])

(* A timer whose handle was overwritten takes the handle that is there for *)
(* its own and forgets it: that timer is the stray one now.                *)
StrayFires(s) ==
    /\ strays[s].own > 0
    /\ RunPoll(s, [entry[s] EXCEPT !.timer = FALSE],
               IF entry[s].timer THEN strays[s] ELSE [strays[s] EXCEPT !.own = @ - 1])

(* A timer of an entry that is gone polls for the entry there is now. *)
LostTimerFires(s) ==
    /\ strays[s].other > 0
    /\ RunPoll(s, entry[s], [strays[s] EXCEPT !.other = @ - 1])

Listeners(s) == {c \in Charts : chart[c].sym = s}

(* handlePollResult: a chart that is fetching older bars looks away.  One  *)
(* that lacks older bars the server has asks for them.                     *)
Backfills(c) == chart[c].bars # <<>> /\ first < chart[c].bars[1]
Takes(s) == {c \in Listeners(s) : ~chart[c].pan}
MutHeard(c, bars) == [chart[c] EXCEPT !.extent = first, !.pend = bars, !.pan = TRUE]
Heard(c, bars) == [chart[c] EXCEPT !.extent = first, !.pend = bars,
                                   !.pan = Backfills(c)]

OlderRequest(c, kind) ==
    [c |-> c, sym |-> chart[c].sym, kind |-> kind, stale |-> FALSE,
     end |-> IF chart[c].bars = <<>> THEN now ELSE chart[c].bars[1] - 1]

(* _runPoll after its request, and its finally clause.  The answer is for  *)
(* whatever entry the symbol has now.                                      *)
PollAnswers(s) ==
    /\ polls[s] # <<>>
    /\ LET bars  == FromTo(Max({first, polls[s][1]}), now)
           asks  == {c \in Takes(s) : Backfills(c)}
           told  == Raised(entry[s], bars)
       IN  /\ Asks(Cardinality(asks))
           /\ Schedule(s, IF told = Nobody THEN told ELSE [told EXCEPT !.fetching = FALSE],
                       strays[s])
           /\ chart' = [c \in Charts |-> IF c \in Takes(s) THEN Heard(c, bars) ELSE chart[c]]
           /\ older' = older \union {OlderRequest(c, "backfill") : c \in asks}
           /\ crossed' = Overtaken(chart', older')
    /\ polls' = [polls EXCEPT ![s] = Tail(@)]
    /\ UNCHANGED <<waits, cached, now, switches, reborn, refused>>

PollFails(s) ==
    /\ polls[s] # <<>>
    /\ Schedule(s, IF entry[s] = Nobody THEN entry[s] ELSE [entry[s] EXCEPT !.fetching = FALSE],
                strays[s])
    /\ polls' = [polls EXCEPT ![s] = Tail(@)]
    /\ UNCHANGED <<chart, waits, older, cached, now, switches, requests, reborn, crossed, refused>>

-----------------------------------------------------------------------------
(* The effect of a chart that gets another symbol.                         *)

(* _unsubscribe and pollSubscribe.  The handle of the timer is cleared     *)
(* with the entry; timers without a handle go on.                          *)
Left(c) == LET s == chart[c].sym IN s # Nobody /\ Listeners(s) = {c}
Orphaned(stray) == [own |-> 0, other |-> stray.own + stray.other]
NewEntry == [last |-> 0, timer |-> TRUE, fetching |-> FALSE]
MutSubscriptions(c, s) ==
    /\ entry' = [t \in Tickers |-> IF t = s THEN NewEntry
                                   ELSE IF Left(c) /\ t = chart[c].sym THEN Nobody ELSE entry[t]]
    /\ strays' = [t \in Tickers |-> IF t = s /\ entry[t] # Nobody /\ entry[t].timer
                                    THEN [strays[t] EXCEPT !.own = @ + 1] ELSE strays[t]]
    /\ reborn' = reborn
Subscriptions(c, s) ==
    /\ entry' = [t \in Tickers |-> IF t = s /\ entry[t] = Nobody THEN NewEntry
                                   ELSE IF Left(c) /\ t = chart[c].sym THEN Nobody ELSE entry[t]]
    /\ strays' = [t \in Tickers |-> IF Left(c) /\ t = chart[c].sym THEN Orphaned(strays[t])
                                    ELSE strays[t]]
    /\ reborn' = reborn \union {t \in Tickers : t = s /\ entry[t] = Nobody
                                                /\ polls[t] # <<>>}

(* What was asked for before is cancelled, or has an old requestId. *)
Cancelled(c) == {IF w.c = c THEN [w EXCEPT !.live = FALSE] ELSE w : w \in waits}
Outdated(c) == {IF o.c = c THEN [o EXCEPT !.stale = TRUE] ELSE o : o \in older}

(* Bars that are in the cache are shown at once and refreshed behind them; *)
(* without them the fetch waits a moment, for the user may go on clicking. *)
Opened(s) ==
    IF cached[s].bars # <<>>
    THEN [Closed EXCEPT !.sym = s, !.bars = cached[s].bars, !.of = s,
                        !.extent = cached[s].extent]
    ELSE [Closed EXCEPT !.sym = s, !.loading = TRUE, !.debounce = TRUE]

Switch(c, s) ==
    /\ switches < MaxSwitches /\ switches' = switches + 1
    /\ chart[c].sym # s
    /\ Subscriptions(c, s)
    /\ Asks(IF cached[s].bars # <<>> /\ Asking(s) = {} THEN 1 ELSE 0)
    /\ chart' = [chart EXCEPT ![c] = Opened(s)]
    /\ waits' = Cancelled(c) \union
                (IF cached[s].bars # <<>>
                 THEN {[c |-> c, sym |-> s, kind |-> "background", live |-> TRUE]} ELSE {})
    /\ older' = Outdated(c)
    /\ crossed' = crossed \ {c}
    /\ refused' = refused \ {c}
    /\ UNCHANGED <<polls, cached, now>>

(* The chart goes; answers to it go nowhere. *)
Close(c) ==
    /\ chart[c].sym # Nobody
    /\ Subscriptions(c, Nobody)
    /\ chart' = [chart EXCEPT ![c] = Closed]
    /\ waits' = Cancelled(c)
    /\ older' = {o \in older : o.c # c}
    /\ crossed' = crossed \ {c}
    /\ refused' = refused \ {c}
    /\ UNCHANGED <<polls, cached, now, switches, requests>>

-----------------------------------------------------------------------------
(* fetchBars and fetchBarsBackground: charts that ask for the window of    *)
(* one symbol share one request (dedupFetch).                              *)
DebounceFires(c) ==
    /\ chart[c].debounce
    /\ Asks(IF Asking(chart[c].sym) = {} THEN 1 ELSE 0)
    /\ chart' = [chart EXCEPT ![c].debounce = FALSE]
    /\ waits' = waits \union {[c |-> c, sym |-> chart[c].sym, kind |-> "full", live |-> TRUE]}
    /\ UNCHANGED <<entry, strays, polls, older, cached, now, switches, reborn, crossed, refused>>

MutAlive(s) == {w \in Asking(s) : chart[w.c].sym # Nobody}
Alive(s) == {w \in Asking(s) : w.live}

MutShown(w) == [chart[w.c] EXCEPT !.bars = KeepNewest(Merged(@, WindowNow)), !.of = w.sym,
                                  !.extent = first]
Shown(w) ==
    LET ch == chart[w.c]
    IN  IF w.kind = "full"
        THEN [ch EXCEPT !.bars = KeepNewest(WindowNow), !.of = w.sym,
                        !.extent = first, !.loading = FALSE]
        ELSE [ch EXCEPT !.bars = KeepNewest(Merged(@, WindowNow)), !.of = w.sym,
                        !.extent = first]

(* Those that ask are told in some order; the last one fills the cache. *)
Answer(s) ==
    /\ Asking(s) # {}
    /\ waits' = waits \ Asking(s)
    /\ chart' = [c \in Charts |-> IF \E w \in Alive(s) : w.c = c
                                  THEN Shown(CHOOSE w \in Alive(s) : w.c = c) ELSE chart[c]]
    /\ IF Alive(s) = {} THEN UNCHANGED <<cached, entry>>
       ELSE /\ \E w \in Alive(s) : cached' = [cached EXCEPT ![s] = [bars |-> Shown(w).bars,
                                                                    extent |-> first]]
            /\ entry' = [entry EXCEPT ![s] = Raised(@, WindowNow)]
    /\ crossed' = Overtaken(chart', older)
    /\ UNCHANGED <<strays, polls, older, now, switches, requests, reborn, refused>>

(* An answer that is an error is no payload, and none of them goes on: the *)
(* first fetch leaves the chart loading.                                   *)
Refused(s) ==
    /\ Asking(s) # {}
    /\ waits' = waits \ Asking(s)
    /\ refused' = refused \union {w.c : w \in Alive(s)}
    /\ UNCHANGED <<chart, entry, strays, polls, older, cached, now, switches, requests, reborn, crossed>>

Fails(s) ==
    /\ Asking(s) # {}
    /\ waits' = waits \ Asking(s)
    /\ chart' = [c \in Charts |-> IF \E w \in Alive(s) : w.c = c /\ w.kind = "full"
                                  THEN [chart[c] EXCEPT !.loading = FALSE] ELSE chart[c]]
    /\ UNCHANGED <<entry, strays, polls, older, cached, now, switches, requests, reborn, crossed, refused>>

(* What the poll brought is shown with the next animation frame. *)
Frame(c) ==
    /\ chart[c].pend # <<>>
    /\ chart' = [chart EXCEPT ![c].bars = KeepNewest(Merged(@, chart[c].pend)),
                              ![c].of = chart[c].sym, ![c].pend = <<>>]
    /\ entry' = [entry EXCEPT ![chart[c].sym] = Raised(@, chart'[c].bars)]
    /\ crossed' = Overtaken(chart', older)
    /\ UNCHANGED <<strays, polls, waits, older, cached, now, switches, requests, reborn, refused>>

-----------------------------------------------------------------------------
(* onViewportChange near the left edge: a debounced request for older bars.*)
PanLeft(c) ==
    /\ chart[c].sym # Nobody
    /\ ~chart[c].pan /\ ~chart[c].panTimer
    /\ chart[c].bars # <<>> /\ ~(chart[c].extent # 0 /\ chart[c].bars[1] <= chart[c].extent)
    /\ chart' = [chart EXCEPT ![c].panTimer = TRUE]
    /\ UNCHANGED <<entry, strays, polls, waits, older, cached, now, switches, requests, reborn, crossed, refused>>

PanFires(c) ==
    /\ chart[c].panTimer
    /\ IF chart[c].pan
       THEN chart' = [chart EXCEPT ![c].panTimer = FALSE] /\ UNCHANGED <<older, crossed, requests>>
       ELSE /\ Asks(1)
            /\ chart' = [chart EXCEPT ![c].panTimer = FALSE, ![c].pan = TRUE]
            /\ older' = older \union {OlderRequest(c, "pan")}
            /\ crossed' = Overtaken(chart', older')
    /\ UNCHANGED <<entry, strays, polls, waits, cached, now, switches, reborn, refused>>

(* Their answer is put before the bars there are, whatever they are.  One  *)
(* that is out of date still ends the fetch of the chart, and one by       *)
(* panning tells it how far the other symbol goes back.                    *)
Prepended(ch, o) ==
    [ch EXCEPT !.bars = IF o.stale THEN @ ELSE KeepOldest(OlderUpTo(o.end) \o @),
               !.of = IF o.stale THEN @ ELSE o.sym,
               !.extent = IF o.stale /\ o.kind = "backfill" THEN @ ELSE first,
               !.pan = FALSE]
OlderAnswers(o) ==
    /\ older' = older \ {o}
    /\ chart' = [chart EXCEPT ![o.c] = Prepended(@, o)]
    /\ crossed' = Overtaken(chart', older')
    /\ UNCHANGED <<entry, strays, polls, waits, cached, now, switches, requests, reborn, refused>>

OlderFails(o) ==
    /\ older' = older \ {o}
    /\ chart' = [chart EXCEPT ![o.c].pan = FALSE]
    /\ UNCHANGED <<entry, strays, polls, waits, cached, now, switches, requests, reborn, crossed, refused>>

-----------------------------------------------------------------------------
(* The market and the time to live of the cache.                           *)
NewBar ==
    /\ now < LastTime /\ now' = now + 1
    /\ UNCHANGED <<chart, entry, strays, polls, waits, older, cached, switches,
                   requests, reborn, crossed, refused>>
Expires(s) ==
    /\ cached[s].bars # <<>>
    /\ cached' = [cached EXCEPT ![s] = NotCached]
    /\ UNCHANGED <<chart, entry, strays, polls, waits, older, now, switches,
                   requests, reborn, crossed, refused>>

Next ==
    \/ \E s \in Tickers : \/ TimerFires(s) \/ StrayFires(s) \/ LostTimerFires(s)
                          \/ PollAnswers(s) \/ PollFails(s)
                          \/ Answer(s) \/ Refused(s) \/ Fails(s) \/ Expires(s)
    \/ \E c \in Charts : \/ \E s \in Tickers : Switch(c, s)
                         \/ Close(c) \/ DebounceFires(c) \/ Frame(c)
                         \/ PanLeft(c) \/ PanFires(c)
    \/ \E o \in older : OlderAnswers(o) \/ OlderFails(o)
    \/ NewBar

Spec == Init /\ [][Next]_feedVars

-----------------------------------------------------------------------------
(* Types; an entry lives as long as a chart listens, and has no stray      *)
(* timer of its own without living.                                        *)
TypeOK ==
    /\ \A c \in Charts :
         /\ chart[c].sym \in Tickers \union {Nobody}
         /\ {chart[c].loading, chart[c].debounce, chart[c].panTimer, chart[c].pan} \subseteq BOOLEAN
         /\ Len(chart[c].bars) <= Keep
    /\ \A s \in Tickers :
         /\ (entry[s] = Nobody) = (Listeners(s) = {})
         /\ entry[s] = Nobody => strays[s].own = 0
         /\ strays[s].own >= 0 /\ strays[s].other >= 0
    /\ now \in 1 .. LastTime

(* A chart never shows the bars of another symbol than its own, however    *)
(* late an answer comes (requestId and cancelled in useChartData).         *)
ShowsItsSymbol == \A c \in Charts : chart[c].bars # <<>> => chart[c].of = chart[c].sym

(* A symbol that some chart shows is always going to be polled again.      *)
PollKeepsGoing ==
    \A s \in Tickers : entry[s] # Nobody =>
        entry[s].timer \/ strays[s].own > 0 \/ strays[s].other > 0 \/ polls[s] # <<>>

(* The charts of one symbol share one poll: a second chain of timers only  *)
(* ever comes from an entry made anew while the poll of the old one was    *)
(* under way, whose finally clause schedules for the new one.              *)
Chains(s) == Len(polls[s]) + strays[s].own + strays[s].other
             + (IF entry[s] # Nobody /\ entry[s].timer THEN 1 ELSE 0)
OneChain == \A s \in Tickers : s \notin reborn => Chains(s) <= 1

(* A chart that ignores its polls because it is fetching older bars has    *)
(* such a request under way that will end that.                            *)
PanEnds == \A c \in Charts : chart[c].pan => \E o \in older : o.c = c

(* The bars of a chart are in the order of their times, none twice (the    *)
(* engine and the merging rely on it), unless a request for older bars was *)
(* overtaken by another answer.                                            *)
Ordered ==
    \A c \in Charts : c \notin crossed =>
        \A i \in 1 .. Len(chart[c].bars) - 1 : chart[c].bars[i] < chart[c].bars[i + 1]

(* A chart that says it is loading is waiting for something, unless its    *)
(* request was answered by an error.                                       *)
LoadingEnds ==
    \A c \in Charts : chart[c].loading /\ c \notin refused =>
        chart[c].debounce \/ \E w \in waits : w.c = c /\ w.live /\ w.kind = "full"

(* The bars that a chart shows are its own, and in order. *)
BarsAreRight == ShowsItsSymbol /\ Ordered

(* A symbol with a listener is polled by one chain of timers, never none.  *)
OneTimer == PollKeepsGoing /\ OneChain

(* Whatever a chart waits for is under way. *)
WaitsEnd == PanEnds /\ LoadingEnds

(* A chart is neither left waiting nor polled twice (chartDataBroker.ts,   *)
(* useChartData.ts).                                                       *)
NothingStalls == OneTimer /\ WaitsEnd
=============================================================================
