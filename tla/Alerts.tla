------------------------------- MODULE Alerts -------------------------------
(***************************************************************************)
(* The alerts of lib/alerts.ts.  Each window has an AlertProvider with the *)
(* alerts and the notifications of those that fired; every chart of the    *)
(* window evaluates the alerts of its symbol when its bars change, against *)
(* the close it saw last.  The alerts are saved to the localStorage that   *)
(* the windows share, and read when a window opens.                        *)
(*                                                                         *)
(* A close is low (0) or high (1), with the price of every alert between   *)
(* the two.  Alerts on indicators are evaluated from the indicator's own   *)
(* series and take the same path when they fire.                           *)
(***************************************************************************)
EXTENDS Integers, FiniteSets

CONSTANTS
    Ids,            \* of alerts
    Stocks,         \* symbols
    Views,          \* charts
    Torn,           \* those of them that are in the detached window
    NoOne,
    MaxMoves,       \* bound: price changes
    MaxSwaps,       \* bound: symbol switches and pans
    MaxActs         \* bound: acts of the user on alerts and windows

VARIABLES
    alerts,         \* alerts[w]: state.alerts of the window's provider
    notes,          \* notes[w][a]: notifications of a in state.notifications
    kept,           \* localStorage: diq:alerts
    isOpen,         \* is the detached window open?
    price,          \* the market
    view,           \* the charts: symbol, last close, and what they saw last
    editing,        \* the alert whose edit dialog is open, or NoOne
    moves, swaps, acts,     \* counters behind the bounds
    armed,          \* history: has fired since it was armed, per window
    oldFired,       \* history: fired before the window was opened
    writer          \* history: the window that has saved last

alertVars == <<alerts, notes, kept, isOpen, price, view, editing, moves, swaps, acts,
               armed, oldFired, writer>>

Windows == {"main", "torn"}
WindowOf(v) == IF v \in Torn THEN "torn" ELSE "main"
IsOpen(w) == w = "main" \/ isOpen
Off == [a \in Ids |-> NoOne]
Zero == [a \in Ids |-> 0]
NotSeen == [of |-> NoOne, close |-> NoOne]
Fresh(s) == [symbol |-> s, close |-> NoOne, seen |-> NotSeen]

Init ==
    /\ alerts = [w \in Windows |-> Off] /\ notes = [w \in Windows |-> Zero]
    /\ kept = Off /\ isOpen = FALSE
    /\ price = [s \in Stocks |-> 0]
    /\ view \in [Views -> {Fresh(s) : s \in Stocks}]
    /\ editing = NoOne
    /\ moves = 0 /\ swaps = 0 /\ acts = 0
    /\ armed = [w \in Windows |-> Zero] /\ oldFired = [w \in Windows |-> {}]
    /\ writer = "main"

Act == acts < MaxActs /\ acts' = acts + 1
Swap == swaps < MaxSwaps /\ swaps' = swaps + 1

(* The effect that follows every change of the alerts. *)
MutSaved(w) == UNCHANGED <<kept, writer>>
Saved(w) == kept' = alerts'[w] /\ writer' = w

Moves(s) ==
    /\ moves < MaxMoves /\ moves' = moves + 1
    /\ price' = [price EXCEPT ![s] = 1 - @]
    /\ UNCHANGED <<alerts, notes, kept, isOpen, view, editing, swaps, acts, armed, oldFired, writer>>

-----------------------------------------------------------------------------
(* evaluateAlerts, by the charts of vs of one window in one commit: all of *)
(* them see the alerts as they were before any has fired, and FIRE does    *)
(* not look at the status.                                                 *)
Crosses(alert, last, close) ==
    /\ last # NoOne
    /\ alert.above => last = 0 /\ close = 1
    /\ ~alert.above => last = 1 /\ close = 0

MutTriggered(w, vs, close) ==
    [a \in Ids |-> {v \in vs : /\ alerts[w][a] # NoOne /\ alerts[w][a].symbol = view[v].symbol
                               /\ Crosses(alerts[w][a], view[v].seen.close, close)}]
Triggered(w, vs, close) ==
    [a \in Ids |-> {v \in vs : /\ alerts[w][a] # NoOne /\ alerts[w][a].symbol = view[v].symbol
                               /\ alerts[w][a].status = "active"
                               /\ Crosses(alerts[w][a], view[v].seen.close, close)}]

Fire(w, by) ==
    /\ alerts' = [alerts EXCEPT ![w] =
         [a \in Ids |-> IF by[a] = {} THEN @[a] ELSE [@[a] EXCEPT !.status = "fired"]]]
    /\ notes' = [notes EXCEPT ![w] = [a \in Ids |-> @[a] + Cardinality(by[a])]]
    /\ armed' = [armed EXCEPT ![w] = [a \in Ids |-> IF by[a] = {} THEN @[a] ELSE @[a] + 1]]

(* What a chart keeps of the bars it has just evaluated. *)
MutObserved(v, close) ==
    [view[v] EXCEPT !.close = close,
                    !.seen = IF @ = NotSeen THEN [of |-> view[v].symbol, close |-> close] ELSE @]
Observed(v, close) ==
    [view[v] EXCEPT !.close = close, !.seen = [of |-> view[v].symbol, close |-> close]]

Evaluate(w, vs, close) ==
    LET by == Triggered(w, vs, close)
    IN  /\ view' = [v \in Views |-> IF v \in vs THEN Observed(v, close) ELSE view[v]]
        /\ Fire(w, by)
        /\ IF \E a \in Ids : by[a] # {} THEN Saved(w) ELSE UNCHANGED <<kept, writer>>

(* New bars reach charts of one symbol, which may share a poll. *)
NewBars(w, vs) ==
    /\ IsOpen(w)
    /\ \E s \in Stocks :
         /\ \A v \in vs : WindowOf(v) = w /\ view[v].symbol = s /\ view[v].close # price[s]
         /\ Evaluate(w, vs, price[s])
    /\ UNCHANGED <<isOpen, price, editing, moves, swaps, acts, oldFired>>

(* Panning back drops the newest bars: the last close is then an old one. *)
PanBack(v) ==
    /\ IsOpen(WindowOf(v)) /\ view[v].close # NoOne /\ Swap
    /\ Evaluate(WindowOf(v), {v}, 1 - view[v].close)
    /\ UNCHANGED <<isOpen, price, editing, moves, acts, oldFired>>

(* A chart gets another symbol.  One effect forgets the last close, the    *)
(* next evaluates the bars that are still those of the old symbol, and     *)
(* keeps their close.  The bars are cleared after that.                    *)
Switch(v, s) ==
    /\ IsOpen(WindowOf(v)) /\ s # view[v].symbol /\ Swap
    /\ view' = [view EXCEPT ![v] =
         [symbol |-> s, close |-> NoOne,
          seen |-> IF @.close = NoOne THEN NotSeen ELSE [of |-> @.symbol, close |-> @.close]]]
    /\ UNCHANGED <<alerts, notes, kept, isOpen, price, editing, moves, acts, armed, oldFired, writer>>

-----------------------------------------------------------------------------
(* ADD, REMOVE and UPDATE. *)
Put(w, a, alert) ==
    /\ alerts' = [alerts EXCEPT ![w][a] = alert]
    /\ Saved(w)
    /\ armed' = [armed EXCEPT ![w][a] = 0]
    /\ oldFired' = [oldFired EXCEPT ![w] = @ \ {a}]

Add(v, a, above) ==
    LET w == WindowOf(v)
    IN  /\ IsOpen(w) /\ Act
        /\ \A other \in Windows : alerts[other][a] = NoOne /\ notes[other][a] = 0
        /\ kept[a] = NoOne
        /\ Put(w, a, [symbol |-> view[v].symbol, above |-> above, status |-> "active"])
        /\ UNCHANGED <<notes, isOpen, price, view, editing, moves, swaps>>

Delete(w, a) ==
    /\ IsOpen(w) /\ alerts[w][a] # NoOne /\ Act
    /\ Put(w, a, NoOne)
    /\ UNCHANGED <<notes, isOpen, price, view, editing, moves, swaps>>

(* The dialog opens on an active alert, which may fire while it is open;   *)
(* saving arms it again, if it is still there.                             *)
OpenDialog(a) ==
    /\ alerts["main"][a] # NoOne /\ alerts["main"][a].status = "active" /\ editing = NoOne /\ Act
    /\ editing' = a
    /\ UNCHANGED <<alerts, notes, kept, isOpen, price, view, moves, swaps, armed, oldFired, writer>>
Edit ==
    /\ editing # NoOne
    /\ editing' = NoOne
    /\ IF alerts["main"][editing] = NoOne
       THEN UNCHANGED <<alerts, kept, armed, oldFired, writer>>
       ELSE Put("main", editing, [alerts["main"][editing] EXCEPT !.status = "active"])
    /\ UNCHANGED <<notes, isOpen, price, view, moves, swaps, acts>>

(* DISMISS of one notification removes the alert, whatever its status; the *)
(* detached window has no banner.                                          *)
MutShown(a) == notes["main"][a] >= 0
Shown(a) == notes["main"][a] > 0
MutRemaining(a) == alerts["main"][a]
Remaining(a) == NoOne
Dismiss(a) ==
    /\ Shown(a)
    /\ notes' = [notes EXCEPT !["main"][a] = @ - 1]
    /\ Put("main", a, Remaining(a))
    /\ UNCHANGED <<isOpen, price, view, editing, moves, swaps, acts>>

-----------------------------------------------------------------------------
(* A window is opened or loaded again: its provider reads the alerts and   *)
(* saves them.                                                             *)
Mounted(w) ==
    /\ alerts' = [alerts EXCEPT ![w] = kept]
    /\ notes' = [notes EXCEPT ![w] = Zero]
    /\ armed' = [armed EXCEPT ![w] = Zero]
    /\ oldFired' = [oldFired EXCEPT ![w] = {a \in Ids : kept[a] # NoOne /\ kept[a].status = "fired"}]
    /\ view' = [v \in Views |-> IF WindowOf(v) = w THEN Fresh(view[v].symbol) ELSE view[v]]
    /\ Saved(w)

Reload ==
    /\ Act /\ Mounted("main") /\ editing' = NoOne
    /\ UNCHANGED <<isOpen, price, moves, swaps>>
OpenWindow ==
    /\ ~isOpen /\ Act /\ Mounted("torn") /\ isOpen' = TRUE
    /\ UNCHANGED <<price, editing, moves, swaps>>
CloseWindow ==
    /\ isOpen /\ Act
    /\ isOpen' = FALSE
    /\ alerts' = [alerts EXCEPT !["torn"] = Off] /\ notes' = [notes EXCEPT !["torn"] = Zero]
    /\ oldFired' = [oldFired EXCEPT !["torn"] = {}]
    /\ armed' = [armed EXCEPT !["torn"] = Zero]
    /\ UNCHANGED <<kept, price, view, editing, moves, swaps, writer>>

Next ==
    \/ \E s \in Stocks : Moves(s)
    \/ \E w \in Windows, vs \in (SUBSET Views) \ {{}} : NewBars(w, vs)
    \/ \E v \in Views : PanBack(v) \/ (\E s \in Stocks : Switch(v, s))
    \/ \E v \in Views, a \in Ids, above \in BOOLEAN : Add(v, a, above)
    \/ \E a \in Ids : Dismiss(a) \/ OpenDialog(a) \/ (\E w \in Windows : Delete(w, a))
    \/ Edit \/ Reload \/ OpenWindow \/ CloseWindow

Spec == Init /\ [][Next]_alertVars

-----------------------------------------------------------------------------
TypeOK ==
    LET Kind == [symbol : Stocks, above : BOOLEAN, status : {"active", "fired"}] \union {NoOne}
    IN  /\ \A w \in Windows, a \in Ids :
             alerts[w][a] \in Kind /\ notes[w][a] \in Nat /\ armed[w][a] \in Nat
        /\ \A a \in Ids : kept[a] \in Kind
        /\ \A v \in Views : view[v].symbol \in Stocks /\ view[v].close \in {NoOne, 0, 1}
        /\ editing \in Ids \union {NoOne} /\ isOpen \in BOOLEAN /\ writer \in Windows

(* An alert that fired in this session has a notification: neither twins,  *)
(* edits nor dismissals leave one that is fired and silent (reducer).      *)
FiredIsTold ==
    \A w \in Windows, a \in Ids :
        alerts[w][a] # NoOne /\ alerts[w][a].status = "fired" /\ a \notin oldFired[w]
            => notes[w][a] > 0

(* Once armed, an alert fires in one commit at most, though every chart of *)
(* the window evaluates it (evaluateAlerts).                               *)
OncePerArming == \A w \in Windows, a \in Ids : armed[w][a] <= 1

(* The close of another symbol is compared with one close only, the first  *)
(* after a switch: a chart that has bars has seen its own symbol.          *)
FirstBarsOnly ==
    \A v \in Views : view[v].close # NoOne => view[v].seen = [of |-> view[v].symbol, close |-> view[v].close]

(* What is stored is what the last window to save has in memory, as long   *)
(* as that window is there: the alerts of the other are lost with it.      *)
StoredIsLatest == IsOpen(writer) => kept = alerts[writer]

(* Charts and windows that share the alerts, and none of the state they    *)
(* evaluate them with, keep to the four rules above.                       *)
AlertDiscipline == FiredIsTold /\ OncePerArming /\ FirstBarsOnly /\ StoredIsLatest
=============================================================================
