-------------------------- MODULE QuoteSubscriptions --------------------------
(***************************************************************************)
(* The quote and real-time subscriptions of the watchlist worker           *)
(* (backend/worker_watchlist.py, worker_loop): four tasks of one asyncio   *)
(* loop, refresh_watchlist ("W"), refresh_active_symbols ("A"),            *)
(* reconnect_loop ("R") and subscription_loop, share the list of shard     *)
(* connections, the tickers and the queue of subscriptions to make.  A     *)
(* task runs from one await to the next without being interrupted: while   *)
(* a piece of it takes several actions, `turn' keeps the others out.       *)
(*                                                                         *)
(* tickers, quote_contracts and symbol_to_shard always change together and *)
(* are one function, owner.  The lists of symbols are sets; as the round   *)
(* robin goes by the place in a list, and falls back to a connected shard, *)
(* the shard it picks is any connected one.  The database, the dedicated   *)
(* chart and backfill connections, bars and quotes are left out.           *)
(***************************************************************************)
EXTENDS Integers, FiniteSets, SequencesExt

CONSTANTS
    Symbols,
    Conns,          \* IB objects, reused once nothing refers to one
    Threshold,      \* SHARD_THRESHOLD
    MaxShards,      \* MAX_SHARDS
    MaxBars,        \* MAX_REALTIME_BAR_SUBSCRIPTIONS
    Edited,         \* the tables the sidecar edits: "W" the watchlist, "A" the active symbols
    MaxEdits,       \* bound on the number of edits
    Faults,         \* the faults that occur
    MaxFaults,      \* bound on their number
    None

ASSUME SizesAssumption == {Threshold, MaxShards, MaxBars} \subseteq Nat \ {0}
ASSUME SetsAssumption == IsFiniteSet(Symbols) /\ Conns # {}
ASSUME BoundsAssumption == MaxEdits \in Nat /\ MaxFaults \in Nat
ASSUME KindsAssumption ==
    /\ Edited \subseteq {"W", "A"}
    /\ Faults \subseteq {"drop", "midway", "connect", "limit", "error"}

Refresher == {"W", "A"}
Task == Refresher \cup {"R"}
Kind == {"quote", "realtime"}

VARIABLES
    table,      \* watchlist_symbols and active_symbols in the database
    list,       \* watchlist and active_symbols in memory
    shards,     \* ib_shards
    link,       \* state of each connection
    lines,      \* market data lines TWS serves: connection, symbol, how many
    owner,      \* index of the shard that holds a symbol's ticker; 0: no ticker
    bars,       \* rt_bars
    queue,      \* subscription_queue
    queued,     \* queued_quote_symbols and queued_realtime_symbols
    failed,     \* the symbols with symbol_states[s] = STATE_ERROR
    task,       \* program counter and locals of each task
    turn,       \* the task in the middle of an uninterrupted piece
    dead,       \* an exception ended worker_loop
    edits, faults

subs == <<owner, lines, bars, queue, queued, failed>>
net == <<shards, link>>
bounds == <<edits, faults>>
vars == <<table, list, net, subs, task, turn, dead, bounds>>

Local == [pc : {"idle", "clearing", "adjust", "shrink", "connecting"},
          added : SUBSET Symbols, removed : SUBSET Symbols,
          rtAdded : SUBSET Symbols, rtRemoved : SUBSET Symbols,
          desired : 1 .. MaxShards, i : Nat, conn : Conns \cup {None}]
Rest == [pc |-> "idle", added |-> {}, removed |-> {}, rtAdded |-> {}, rtRemoved |-> {},
         desired |-> 1, i |-> 1, conn |-> None]

TypeOK ==
    /\ table \in [Refresher -> SUBSET Symbols] /\ list \in [Refresher -> SUBSET Symbols]
    /\ shards \in Seq(Conns) /\ Len(shards) \in 1 .. MaxShards
    /\ link \in [Conns -> {"down", "busy", "up"}]
    /\ lines \in [Conns -> [Symbols -> Nat]]
    /\ owner \in [Symbols -> 0 .. MaxShards]
    /\ bars \subseteq Symbols
    /\ queue \in Seq(Kind \X Symbols)
    /\ queued \in [Kind -> SUBSET Symbols]
    /\ failed \subseteq Symbols
    /\ task \in [Task -> Local]
    /\ turn \in Task \cup {None}
    /\ dead \in BOOLEAN
    /\ edits \in 0 .. MaxEdits /\ faults \in 0 .. MaxFaults

(* Primary shard connected, nothing read from the database yet. *)
Init ==
    /\ table \in [Refresher -> SUBSET Symbols]
    /\ list = [t \in Refresher |-> {}]
    /\ LET first == CHOOSE c \in Conns : TRUE
       IN  shards = <<first>> /\ link = [c \in Conns |-> IF c = first THEN "up" ELSE "down"]
    /\ lines = [c \in Conns |-> [s \in Symbols |-> 0]]
    /\ owner = [s \in Symbols |-> 0]
    /\ bars = {} /\ queue = <<>> /\ queued = [k \in Kind |-> {}] /\ failed = {}
    /\ task = [t \in Task |-> Rest]
    /\ turn = None /\ dead = FALSE
    /\ edits = 0 /\ faults = 0

-----------------------------------------------------------------------------
Wanted == list["W"] \cup list["A"]
Up(i) == link[shards[i]] = "up"
AnyUp == \E i \in DOMAIN shards : Up(i)
(* Mutant: no shard for no symbols. *)
MutDesired(n) == LET k == (n + Threshold - 1) \div Threshold
                 IN  IF k > MaxShards THEN MaxShards ELSE k

(* _adjust_shards: the number of shards for n symbols. *)
Desired(n) == LET k == (n + Threshold - 1) \div Threshold
              IN  IF k < 1 THEN 1 ELSE IF k > MaxShards THEN MaxShards ELSE k

Fault(kind) == kind \in Faults /\ faults < MaxFaults /\ faults' = faults + 1
CanRun(t) == ~dead /\ turn \in {t, None}
InUse(c) == (\E i \in DOMAIN shards : shards[i] = c) \/ link[c] # "down"
            \/ \E t \in Task : task[t].conn = c

Set(t, new) == task' = [task EXCEPT ![t] = new]
At(t, pc) == [task[t] EXCEPT !.pc = pc]

(* cancel_quote_subscription, for a set of symbols: the ticker goes, and   *)
(* the line is cancelled if its shard is still there and connected.        *)
Without(syms) == [s \in Symbols |-> IF s \in syms THEN 0 ELSE owner[s]]
Cancelled(syms, links) ==
    [c \in Conns |-> [s \in Symbols |->
        IF /\ s \in syms /\ owner[s] \in DOMAIN shards
           /\ shards[owner[s]] = c /\ links[c] = "up" /\ lines[c][s] > 0
        THEN lines[c][s] - 1 ELSE lines[c][s]]]

(* queue_subscription, for a set of symbols: those without a ticker (or    *)
(* bars) that are not queued yet.  In which order plays no part.           *)
Missing(kind, syms, have, waiting) == (syms \ have) \ waiting[kind]
WithAll(kind, syms, q) == q \o SetToSeq({kind} \X syms)

HasTicker == {s \in Symbols : owner[s] # 0}

(* Mutant: off by one, the symbols of the shard before. *)
MutOn(n) == {s \in Symbols : owner[s] = n - 1}

On(n) == {s \in Symbols : owner[s] = n}

(* Mutant: the symbols that lose their shard are not queued. *)
MutQueueAgain(syms) == UNCHANGED <<queue, queued>>

(* What is cancelled for want of a shard is queued again. *)
QueueAgain(syms) ==
    /\ queue' = WithAll("quote", syms, queue)
    /\ queued' = [queued EXCEPT !["quote"] = @ \cup syms]

(* Mutant: the marks of what is queued survive the queue. *)
MutEmptyQueue == queue' = <<>> /\ UNCHANGED queued

EmptyQueue == queue' = <<>> /\ queued' = [k \in Kind |-> {}]

(* Mutant: what is taken off the queue is subscribed, wanted or not. *)
MutNeeded(s) == owner[s] = 0

Needed(s) == s \in Wanted /\ owner[s] = 0

-----------------------------------------------------------------------------
(* Tables, and one refresh: read, compare, compute, then await the         *)
(* clean-up of the status table.                                           *)
Edit(t) ==
    /\ ~dead /\ t \in Edited /\ edits < MaxEdits
    /\ edits' = edits + 1
    /\ \E new \in SUBSET Symbols : new # table[t] /\ table' = [table EXCEPT ![t] = new]
    /\ UNCHANGED <<list, net, subs, task, turn, dead, faults>>

Other(t) == IF t = "W" THEN "A" ELSE "W"

RefreshReads(t) ==
    /\ CanRun(t) /\ task[t].pc = "idle"
    /\ table[t] # list[t]
    /\ list' = [list EXCEPT ![t] = table[t]]
    /\ LET gone == list[t] \ table[t]
           new == table[t] \ list[t]
       IN  Set(t, [Rest EXCEPT !.pc = "clearing",
                     !.added = new \ list[Other(t)], !.removed = gone \ list[Other(t)],
                     !.rtAdded = IF t = "A" THEN new ELSE {},
                     !.rtRemoved = IF t = "A" THEN gone ELSE {}])
    /\ UNCHANGED <<table, net, subs, turn, dead, bounds>>

(* The subscriptions of what was removed are cancelled, and _adjust_shards *)
(* computes the number of shards, all from what was computed before.       *)
RefreshCancels(t) ==
    /\ CanRun(t) /\ task[t].pc = "clearing"
    /\ owner' = Without(task[t].removed)
    /\ lines' = Cancelled(task[t].removed, link)
    /\ bars' = bars \ task[t].rtRemoved
    /\ queued' = [queued EXCEPT !["quote"] = @ \ task[t].removed,
                                !["realtime"] = @ \ task[t].rtRemoved]
    /\ failed' = failed \ task[t].removed
    /\ Set(t, [At(t, "adjust") EXCEPT !.desired = Desired(Cardinality(Wanted))])
    /\ turn' = t
    /\ UNCHANGED <<table, list, net, queue, dead, bounds>>

(* _adjust_shards: one more shard is wanted; it joins the list and is      *)
(* connected.  If no client id is to be had, the growth ends.              *)
ShardAdded(t) ==
    /\ CanRun(t) /\ task[t].pc = "adjust" /\ Len(shards) < task[t].desired
    /\ \/ /\ \E c \in Conns : ~InUse(c)
          /\ LET c == CHOOSE c \in Conns : ~InUse(c)
             IN  /\ shards' = Append(shards, c)
                 /\ link' = [link EXCEPT ![c] = "busy"]
                 /\ Set(t, [At(t, "connecting") EXCEPT !.conn = c, !.i = Len(shards) + 1])
          /\ turn' = None
          /\ UNCHANGED faults
       \/ /\ Fault("connect")
          /\ Set(t, At(t, "shrink"))
          /\ UNCHANGED <<shards, link, turn>>
    /\ UNCHANGED <<table, list, subs, dead, edits>>

(* The outcome of a connection attempt; one that fails disconnects.  Two   *)
(* tasks that connect the same object share the connection of the one that *)
(* succeeds first.  A connection that goes down takes its lines with it.   *)
Connected(c) == [link EXCEPT ![c] = "up"]

NotConnected(c) ==
    /\ link' = [link EXCEPT ![c] = "down"]
    /\ lines' = [lines EXCEPT ![c] = [s \in Symbols |-> 0]]

(* The new id is stored at the shard's index; if the list has become too   *)
(* short the exception ends the growth.                                    *)
ShardConnected(t) ==
    /\ CanRun(t) /\ t \in Refresher /\ task[t].pc = "connecting"
    /\ \/ /\ link' = Connected(task[t].conn)
          /\ Set(t, [At(t, IF task[t].i \in DOMAIN shards THEN "adjust" ELSE "shrink")
                       EXCEPT !.conn = None])
          /\ UNCHANGED <<lines, faults>>
       \/ /\ Fault("connect")
          /\ NotConnected(task[t].conn)
          /\ Set(t, [At(t, "adjust") EXCEPT !.conn = None])
    /\ turn' = t
    /\ UNCHANGED <<table, list, shards, owner, bars, queue, queued, failed, dead, edits>>

(* _adjust_shards: the last shard is one too many.  Its symbols are queued *)
(* again; it is disconnected if it is connected.                           *)
ShardRemoved(t) ==
    /\ CanRun(t) /\ t \in Refresher
    /\ task[t].pc \in {"adjust", "shrink"} /\ Len(shards) > task[t].desired
    /\ LET n == Len(shards)
           c == shards[n]
       IN  /\ shards' = Front(shards)
           /\ owner' = Without(On(n))
           /\ QueueAgain(On(n))
           /\ IF link[c] = "up" THEN NotConnected(c) ELSE UNCHANGED <<link, lines>>
    /\ Set(t, At(t, "shrink"))
    /\ turn' = t
    /\ UNCHANGED <<table, list, bars, failed, dead, bounds>>

(* What was added is queued, if there is a connection: any shard for the   *)
(* watchlist, the primary one for the active symbols.                      *)
RefreshQueues(t) ==
    /\ CanRun(t) /\ t \in Refresher
    /\ \/ task[t].pc = "adjust" /\ Len(shards) = task[t].desired
       \/ task[t].pc = "shrink" /\ Len(shards) <= task[t].desired
    /\ IF (IF t = "W" THEN AnyUp ELSE Up(1))
       THEN LET quotes == Missing("quote", task[t].added, HasTicker, queued)
                rts == Missing("realtime", task[t].rtAdded, bars, queued)
            IN  /\ queue' = WithAll("realtime", rts, WithAll("quote", quotes, queue))
                /\ queued' = [queued EXCEPT !["quote"] = @ \cup quotes,
                                            !["realtime"] = @ \cup rts]
       ELSE UNCHANGED <<queue, queued>>
    /\ failed' = failed \ task[t].added
    /\ Set(t, Rest)
    /\ turn' = None
    /\ UNCHANGED <<table, list, net, owner, lines, bars, dead, bounds>>

-----------------------------------------------------------------------------
(* reconnect_loop: from shard i on, connect the next one that is not       *)
(* connected; at the end of the list, sleep and start over.                *)
ReconnectNext ==
    /\ CanRun("R") /\ task["R"].pc = "idle"
    /\ LET broken == {j \in DOMAIN shards : j >= task["R"].i /\ ~Up(j)}
       IN  IF broken = {}
           THEN Set("R", Rest) /\ task["R"] # Rest /\ UNCHANGED link
           ELSE LET j == CHOOSE j \in broken : \A k \in broken : j <= k
                IN  /\ Set("R", [Rest EXCEPT !.pc = "connecting", !.i = j, !.conn = shards[j]])
                    /\ link' = [link EXCEPT ![shards[j]] = "busy"]
    /\ turn' = None
    /\ UNCHANGED <<table, list, shards, subs, dead, bounds>>

Following == [Rest EXCEPT !.i = task["R"].i + 1]

ReconnectFails ==
    /\ CanRun("R") /\ task["R"].pc = "connecting"
    /\ Fault("connect")
    /\ NotConnected(task["R"].conn)
    /\ Set("R", Following)
    /\ turn' = "R"
    /\ UNCHANGED <<table, list, shards, owner, bars, queue, queued, failed, dead, edits>>

(* The primary shard is back: everything is forgotten, and after the Yahoo *)
(* cache is cleared everything is queued again.                            *)
PrimaryReconnected ==
    /\ CanRun("R") /\ task["R"].pc = "connecting" /\ task["R"].i = 1
    /\ link' = Connected(task["R"].conn)
    /\ owner' = Without(Symbols)
    /\ bars' = {} /\ EmptyQueue
    /\ Set("R", [Rest EXCEPT !.pc = "clearing", !.added = Wanted])
    /\ turn' = IF Wanted = {} THEN "R" ELSE None
    /\ UNCHANGED <<table, list, shards, lines, failed, dead, bounds>>

PrimaryQueues ==
    /\ CanRun("R") /\ task["R"].pc = "clearing"
    /\ LET quotes == Missing("quote", task["R"].added, HasTicker, queued)
           rts == Missing("realtime", list["A"], bars, queued)
       IN  /\ queue' = WithAll("realtime", rts, WithAll("quote", quotes, queue))
           /\ queued' = [queued EXCEPT !["quote"] = @ \cup quotes,
                                       !["realtime"] = @ \cup rts]
    /\ Set("R", Following)
    /\ turn' = "R"
    /\ UNCHANGED <<table, list, net, owner, lines, bars, failed, dead, bounds>>

(* Another shard is back: its symbols are queued again.  If the list has   *)
(* become too short, storing the new id raises, and nothing catches it.    *)
ShardReconnected ==
    /\ CanRun("R") /\ task["R"].pc = "connecting"
    /\ task["R"].i \in DOMAIN shards \ {1}
    /\ link' = Connected(task["R"].conn)
    /\ owner' = Without(On(task["R"].i))
    /\ lines' = Cancelled(On(task["R"].i), link')
    /\ QueueAgain(On(task["R"].i))
    /\ Set("R", Following)
    /\ turn' = "R"
    /\ UNCHANGED <<table, list, shards, bars, failed, dead, bounds>>

ReconnectRaises ==
    /\ CanRun("R") /\ task["R"].pc = "connecting"
    /\ task["R"].i \notin DOMAIN shards
    /\ link' = Connected(task["R"].conn)
    /\ dead' = TRUE
    /\ UNCHANGED <<table, list, shards, lines, owner, bars, queue, queued, failed, task, turn, bounds>>

-----------------------------------------------------------------------------
(* subscription_loop takes the first entry off the queue.  A quote is      *)
(* subscribed if it is still wanted and has no ticker; TWS may refuse it   *)
(* for its limit (queued again) or otherwise (an error, and no more).      *)
Take(kind) ==
    /\ CanRun("S") /\ queue # <<>> /\ AnyUp /\ Head(queue)[1] = kind

SubscribeQuote ==
    /\ Take("quote")
    /\ LET s == Head(queue)[2]
           popped == queue' = Tail(queue) /\ queued' = [queued EXCEPT !["quote"] = @ \ {s}]
       IN  \/ /\ ~Needed(s)
              /\ popped
              /\ UNCHANGED <<owner, lines, failed, faults>>
           \/ /\ Needed(s)
              /\ popped
              /\ \E i \in DOMAIN shards :
                   /\ Up(i)
                   /\ owner' = [owner EXCEPT ![s] = i]
                   /\ lines' = [lines EXCEPT ![shards[i]][s] = @ + 1]
              /\ failed' = failed \ {s}
              /\ UNCHANGED faults
           \/ /\ Needed(s) /\ Fault("limit")
              /\ queue' = Append(Tail(queue), Head(queue))
              /\ UNCHANGED <<owner, lines, queued, failed>>
           \/ /\ Needed(s) /\ Fault("error")
              /\ popped
              /\ failed' = failed \cup {s}
              /\ UNCHANGED <<owner, lines>>
    /\ UNCHANGED <<table, list, net, bars, task, turn, dead, edits>>

(* Real-time bars are started on the primary shard, up to the cap; what    *)
(* the cap or an error turns away is dropped.                              *)
SubscribeRealtime ==
    /\ Take("realtime")
    /\ LET s == Head(queue)[2]
           start == s \in list["A"] \ bars /\ Cardinality(bars) < MaxBars
       IN  /\ queue' = Tail(queue)
           /\ queued' = [queued EXCEPT !["realtime"] = @ \ {s}]
           /\ \/ start /\ Up(1) /\ bars' = bars \cup {s} /\ UNCHANGED faults
              \/ ~(start /\ Up(1)) /\ UNCHANGED <<bars, faults>>
              \/ start /\ Up(1) /\ Fault("error") /\ UNCHANGED bars
    /\ UNCHANGED <<table, list, net, owner, lines, failed, task, turn, dead, edits>>

-----------------------------------------------------------------------------
(* A connection is lost, and with it its lines.  One that a second task is *)
(* still waiting for at that moment is a fault of its own: that task       *)
(* connects again, and nothing tells the reconnect loop.                   *)
Drop(c) ==
    /\ ~dead /\ link[c] = "up"
    /\ Fault(IF \E t \in Task : task[t].conn = c THEN "midway" ELSE "drop")
    /\ NotConnected(c)
    /\ UNCHANGED <<table, list, shards, owner, bars, queue, queued, failed, task, turn, dead, edits>>

Refresh(t) ==
    RefreshReads(t) \/ RefreshCancels(t) \/ ShardAdded(t) \/ ShardConnected(t)
    \/ ShardRemoved(t) \/ RefreshQueues(t)
Reconnect ==
    ReconnectNext \/ ReconnectFails \/ PrimaryReconnected \/ PrimaryQueues
    \/ ShardReconnected \/ ReconnectRaises
Subscribe == SubscribeQuote \/ SubscribeRealtime

Next ==
    \/ \E t \in Refresher : Edit(t) \/ Refresh(t)
    \/ Reconnect \/ Subscribe
    \/ \E c \in Conns : Drop(c)

(* The tasks keep running; tables need not change and connections not drop. *)
Fairness ==
    /\ \A t \in Refresher : WF_vars(Refresh(t))
    /\ WF_vars(Reconnect)
    /\ SF_vars(Subscribe)

Spec == Init /\ [][Next]_vars /\ Fairness
-----------------------------------------------------------------------------
(* A symbol that is marked as queued is in the queue: or it would never be *)
(* queued, and so never subscribed, again.                                 *)
QueuedIsInQueue ==
    \A k \in Kind : \A s \in queued[k] : \E i \in DOMAIN queue : queue[i] = <<k, s>>

(* A ticker's shard index is one of the list, however the list has shrunk  *)
(* and grown since: its line is cancelled where it was requested.          *)
OwnerInRange == \A s \in Symbols : owner[s] <= Len(shards)

(* The tables that the tasks share agree with each other: queue and marks,  *)
(* tickers and shards.                                                     *)
BooksAgree == QueuedIsInQueue /\ OwnerInRange

(* Between two refreshes no ticker is left of a symbol nobody wants. *)
UnwantedIsDropped ==
    (\A t \in Refresher : task[t].pc = "idle") => HasTicker \subseteq Wanted

(* Once the tables and the connections have settled, every symbol of the   *)
(* watchlist has a ticker with a line TWS serves, or its state says that   *)
(* it has none.  Symbols that are active ones too are left out: see README *)
WatchedIsSubscribed ==
    <>[](~dead => \A s \in table["W"] \ table["A"] :
           \/ s \in failed
           \/ owner[s] # 0 /\ Up(owner[s]) /\ lines[shards[owner[s]]][s] > 0)

(* worker_watchlist.py:1209, `which shard owns each symbol's quote         *)
(* subscription': a symbol with an owner has one line there and no other.  *)
OneOwner ==
    \A i \in DOMAIN shards, s \in HasTicker :
       lines[shards[i]][s] > 0 => owner[s] = i /\ lines[shards[i]][s] = 1
=============================================================================
