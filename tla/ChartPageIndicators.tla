------------------------ MODULE ChartPageIndicators ------------------------
(***************************************************************************)
(* The indicators of a chart page (pages/ChartPage.tsx) exist three times: *)
(* in the engine that draws them, in the page's own list (activeIndicators *)
(* and the restored list behind it) and in localStorage.  Handlers change  *)
(* the engine and copy its list; effects restore, reconcile, complete and  *)
(* save after every render.  The buttons on the panes belong to            *)
(* ChartCanvas.tsx and change the engine only.                             *)
(*                                                                         *)
(* React runs the effects of a render in their order in the source, each   *)
(* with the state of that render, and the renders they ask for before the  *)
(* next event: Render is one such round.  The page's list holds the        *)
(* engine's own objects.  Of everything else the page saves, the symbol    *)
(* stands for the fields without effects of their own.  Parameters,        *)
(* colours, scripts and split panes are left out.                          *)
(***************************************************************************)
EXTENDS ChartPanes

CONSTANTS
    Names,          \* indicators that can be added
    Removable,      \* those the user removes with the legend
    Symbols,
    MaxIndicators,  \* bound: indicators at once
    MaxPanes,       \* bound: panes ever told apart
    MaxChanges,       \* bound: what the user does, over all sessions
    MaxRounds       \* rounds of effects that one event may cause

VARIABLES
    engine,         \* the record of ChartPanes
    active,         \* activeIndicators of the page
    restored,       \* restoredIndicatorsRef
    removed,        \* userRemovedIndicatorIds: names
    persisted,      \* the saved state as it was when the page was mounted
    symbol,
    stored,         \* localStorage
    loaded,         \* there are bars
    layout,         \* chartLayout
    changed,        \* what the next round of effects has to look at
    paned,          \* history: a pane button has changed the engine's list behind the page's back
    gone,           \* history: names removed by the user and not added since
    touched,        \* history: something but bars has happened since the mount
    changes,        \* what the user has done so far
    rounds          \* rounds of effects since the last event

page == <<active, restored, removed, persisted, symbol, layout>>
vars == <<engine, page, stored, loaded, changed, paned, gone, touched, changes, rounds>>

Panes == 1 .. MaxPanes
Dirty == {"mount", "engine", "persisted", "active", "bars", "layout", "symbol"}
SavedIndicator == [name: Names, pane: Panes \union {Main}, visible: BOOLEAN]
IsSavedList(list) ==
    Len(list) <= MaxIndicators /\ \A i \in DOMAIN list : list[i] \in SavedIndicator

IsSubState(s) ==
    /\ ToSet(s.order) \subseteq Panes /\ IsInjective(s.order)
    /\ s.collapsed \subseteq Panes
    /\ s.max \in Panes \union {None}
IsStored(s) ==
    s # None => /\ IsSavedList(s.list) /\ IsSubState(s.sub) /\ s.symbol \in Symbols
IsList(list) ==
    IsSavedList(Saved(list)) /\ IsInjective([i \in DOMAIN list |-> list[i].id])

(* The engine's order names each pane that has an indicator exactly once.  *)
TypeOK ==
    /\ IsList(engine.list) /\ IsList(active)
    /\ IsSubState(SubPaneState(engine))
    /\ IsInjective(engine.order) /\ ToSet(engine.order) = PanesOf(engine.list)
    /\ restored \in BOOLEAN
    /\ removed \subseteq Names /\ gone \subseteq Names
    /\ IsStored(persisted) /\ IsStored(stored)
    /\ symbol \in Symbols
    /\ loaded \in BOOLEAN
    /\ changed \subseteq Dirty
    /\ paned \in BOOLEAN /\ touched \in BOOLEAN
    /\ changes \in 0 .. MaxChanges
    /\ rounds \in 0 .. MaxRounds + 1

-----------------------------------------------------------------------------
NoPanes == [order |-> <<>>, collapsed |-> {}, max |-> None]
Blank == CHOOSE s \in Symbols : TRUE

(* createDefaultPersistedChartIndicators: a chart that was never saved. *)
Defaults == <<[name |-> "volume", pane |-> Main, visible |-> TRUE]>>

(* restoredIndicators and the saved pane state. *)
RestoredList == IF persisted = None THEN Defaults ELSE persisted.list
RestoredPanes == IF persisted = None THEN NoPanes ELSE persisted.sub

Mounted(s) ==
    /\ engine' = NoEngine
    /\ active' = <<>>
    /\ restored' = FALSE /\ removed' = {}
    /\ persisted' = s
    /\ symbol' = IF s = None THEN Blank ELSE s.symbol
    /\ loaded' = FALSE
    /\ layout' = <<>>
    /\ changed' = {"mount"}
    /\ paned' = FALSE /\ gone' = {} /\ touched' = FALSE

Init ==
    /\ engine = NoEngine
    /\ active = <<>>
    /\ restored = FALSE /\ removed = {}
    /\ persisted = None /\ stored = None
    /\ symbol = Blank
    /\ loaded = FALSE
    /\ layout = <<>>
    /\ changed = {"mount"}
    /\ paned = FALSE /\ gone = {} /\ touched = FALSE
    /\ changes = 0 /\ rounds = 0

(* Closed and opened again, or the application restarted. *)
Reopen ==
    /\ changed = {}
    /\ Mounted(stored)
    /\ UNCHANGED <<stored, changes, rounds>>

-----------------------------------------------------------------------------
(* A round of effects.                                                     *)
Due(what) == changed \intersect what # {}

(* The page's list, whose indicators are the engine's as long as it has    *)
(* them.                                                                   *)
Current(e) ==
    [i \in DOMAIN active |->
        IF Has(e.list, active[i].id) THEN Get(e.list, active[i].id) ELSE active[i]]

(* Saving: not before the indicators are back, or an empty list would      *)
(* replace the saved one.                                                  *)
MaySave == active # <<>> \/ restored
(* Mutant: a change of the panes alone is not saved. *)
MutSave(e) ==
    stored' = IF Due({"mount", "persisted", "active", "symbol"}) /\ MaySave
              THEN [list |-> Saved(Current(e)), sub |-> SubPaneState(e), symbol |-> symbol]
              ELSE stored
Save(e) ==
    stored' = IF Due({"mount", "persisted", "active", "layout", "symbol"}) /\ MaySave
              THEN [list |-> Saved(Current(e)), sub |-> SubPaneState(e), symbol |-> symbol]
              ELSE stored

Restores == Due({"mount", "persisted", "bars"}) /\ ~restored /\ RestoredList # <<>>

(* What the page thinks the engine should have: its own list, without the  *)
(* names the user has removed with the legend.                             *)
Desired(e) ==
    LET list == IF active # <<>> THEN Saved(Current(e)) ELSE RestoredList
    IN  Kept(list, {i \in DOMAIN list : list[i].name \notin removed})
(* Mutant: the list is put back although it is there. *)
MutReconciles(e) ==
    /\ Due({"mount", "persisted", "bars", "engine", "active"})
    /\ loaded
    /\ Desired(e) # <<>>
Reconciles(e) ==
    /\ Due({"mount", "persisted", "bars", "engine", "active"})
    /\ loaded
    /\ Desired(e) # <<>>
    /\ Desired(e) # Saved(e.list)

FreshId(e) == CHOOSE n \in 1 .. 2 * MaxIndicators + 1 : n \notin IdsOf(e.list) \union IdsOf(active)
UsedPanes(e) ==
    PanesOf(e.list) \union PanesOf(active) \union e.collapsed \union {e.max}
    \union UNION {PanesOf(s.list) \union ToSet(s.sub.order) \union s.sub.collapsed
                  \union {s.sub.max} : s \in {stored, persisted} \ {None}}
FreshPane(e) ==
    IF Panes \subseteq UsedPanes(e) THEN MaxPanes + 1
    ELSE CHOOSE p \in Panes : p \notin UsedPanes(e)
NewPane(e, name) == IF name \in Overlays THEN Main ELSE FreshPane(e)

(* syncDailyIQScorePane, and syncMACDPane which does the same for MACD: an *)
(* indicator that goes with a signal is there and visible as the signal    *)
(* is; without a signal nobody looks.                                      *)
Synced(e) ==
    LET at(name) == {i \in DOMAIN e.list : e.list[i].name = name}
        wanted == \E i \in at("signal") : e.list[i].visible
        first == CHOOSE i \in at("score") : \A j \in at("score") : i <= j
    IN  IF at("signal") = {} \/ ~Due({"mount", "active"}) THEN e
        ELSE IF at("score") # {} THEN SetVisibility(e, e.list[first].id, wanted)
        ELSE IF wanted THEN AddIndicator(e, FreshId(e), "score", FreshPane(e)) ELSE e

(* The page's list, once an effect has set it or not.                      *)
(* Mutant: the effect that restores the indicators does not tell the page. *)
MutTakenOver(set, e) == IF set /\ restored THEN e.list ELSE Current(e)
TakenOver(set, e) == IF set THEN e.list ELSE Current(e)

Render ==
    /\ changed # {} /\ rounds <= MaxRounds
    /\ LET e1 == IF Due({"mount", "engine", "persisted"})
                 THEN SetSubPaneState(engine, RestoredPanes) ELSE engine
           e2 == IF Restores THEN Apply(e1, RestoredList) ELSE e1
           e3 == IF Reconciles(e2) THEN Apply(e2, Desired(e2)) ELSE e2
           e4 == Synced(e3)
           set == Restores \/ Reconciles(e2) \/ e4 # e3
           first == "mount" \in changed
       IN  /\ Save(e1)
           /\ engine' = e4
           /\ restored' = (restored \/ Restores)
           /\ active' = TakenOver(set, e4)
           /\ layout' = IF Due({"mount", "engine", "persisted", "active", "bars"})
                        THEN Layout(e4) ELSE layout
           /\ changed' = (IF set \/ first THEN {"active"} ELSE {})
                         \union (IF first THEN {"engine", "persisted"} ELSE {})
                         \union (IF layout' # layout THEN {"layout"} ELSE {})
           /\ rounds' = IF changed' = {} THEN 0 ELSE rounds + 1
           /\ paned' = (paned /\ active' # e4.list)
    /\ UNCHANGED <<removed, persisted, symbol, loaded, gone, touched, changes>>

(* Bars come in, the first or those of a poll. *)
NewBars ==
    /\ changed = {}
    /\ loaded' = TRUE
    /\ changed' = {"bars"}
    /\ UNCHANGED <<engine, page, stored, paned, gone, touched, changes, rounds>>

-----------------------------------------------------------------------------
(* The bounds leave room for the indicator and the pane that the effects   *)
(* may add.                                                                *)
Room(e) ==
    \/ \E ind \in ToSet(e.list) : ind.name = "score"
    \/ Len(e.list) < MaxIndicators /\ FreshPane(e) \in Panes

(* The page's handlers change the engine and take over its list.           *)
Handled(e) ==
    /\ changed = {} /\ Room(e)
    /\ engine' = e
    /\ active' = e.list
    /\ changed' = {"active"}
    /\ touched' = TRUE
    /\ changes < MaxChanges /\ changes' = changes + 1
    /\ paned' = FALSE
    /\ UNCHANGED <<restored, persisted, symbol, stored, loaded, rounds>>

NamesGone(e) == {ind.name : ind \in ToSet(engine.list)} \ {ind.name : ind \in ToSet(e.list)}

Added(name) == AddIndicator(engine, FreshId(engine), name, NewPane(engine, name))

AddNew(name) ==
    /\ name # "signal" /\ name # "score"
    /\ Len(engine.list) < MaxIndicators /\ FreshPane(engine) \in Panes
    /\ Handled(Added(name))
    /\ gone' = gone \ {name}
    /\ UNCHANGED <<removed, layout>>

(* A strategy is put on the chart, or every instance of it taken off.      *)
ToggleStrategy ==
    /\ IF \E ind \in ToSet(engine.list) : ind.name = "signal"
       THEN /\ Handled(Normal([engine EXCEPT !.list =
                           Kept(@, {i \in DOMAIN @ : @[i].name # "signal"})]))
            /\ gone' = gone \union {"signal"}
       ELSE /\ Len(engine.list) < MaxIndicators
            /\ Handled(Added("signal"))
            /\ gone' = gone \ {"signal"}
    /\ UNCHANGED <<removed, layout>>

RemoveById(id) ==
    /\ Has(active, id) /\ Get(active, id).name \in Removable
    /\ Handled(RemoveIndicator(engine, id))
    /\ removed' = removed \union {ind.name : ind \in {x \in ToSet(engine.list) : x.id = id}}
    /\ gone' = gone \union NamesGone(RemoveIndicator(engine, id))
    /\ UNCHANGED layout

ToggleVisible(id) ==
    /\ Has(active, id)
    /\ Handled(SetVisibility(engine, id, ~Get(active, id).visible))
    /\ UNCHANGED <<removed, layout, gone>>

MoveInList(id, d) ==
    /\ Has(active, id)
    /\ Handled(MoveIndicator(engine, id, d))
    /\ UNCHANGED <<removed, layout, gone>>

(* Dragged from the legend onto a pane, the price or the place for a new   *)
(* pane.                                                                   *)
MoveToPane(id, pane) ==
    /\ Has(active, id)
    /\ pane \in {Main, FreshPane(engine)} \union {layout[k].pane : k \in DOMAIN layout}
    /\ pane \in Panes \union {Main}
    /\ LET e == SetIndicatorPane(engine, id, pane)
           shown == IF pane = Main THEN e ELSE ExpandPane(e, pane)
       IN  Handled(shown) /\ layout' = Layout(shown)
    /\ UNCHANGED <<removed, gone>>

-----------------------------------------------------------------------------
(* The buttons on a pane, which tell the page of the layout only.  (A drag *)
(* over a collapsed pane expands it too.)                                  *)
Pressed(e) ==
    /\ changed = {} /\ Room(e)
    /\ engine' = e
    /\ active' = Current(e)
    /\ layout' = Layout(e)
    /\ changed' = IF Layout(e) # layout THEN {"layout"} ELSE {}
    /\ paned' = (paned \/ e.list # engine.list)
    /\ touched' = TRUE
    /\ changes < MaxChanges /\ changes' = changes + 1
    /\ UNCHANGED <<restored, removed, persisted, symbol, stored, loaded, rounds>>

PaneUpDown(pane, d) == Pressed(MovePane(engine, pane, d)) /\ UNCHANGED gone
PaneDelete(pane) ==
    /\ Pressed(RemovePane(engine, pane))
    /\ gone' = gone \union NamesGone(RemovePane(engine, pane))
PaneCollapse(pane) ==
    /\ Pressed(IF pane \in engine.collapsed THEN ExpandPane(engine, pane)
                                            ELSE CollapsePane(engine, pane))
    /\ UNCHANGED gone
PaneMaximize(pane) ==
    /\ Pressed(MaximizePane(engine, IF engine.max = pane THEN None ELSE pane))
    /\ UNCHANGED gone

ChangeSymbol(s) ==
    /\ changed = {}
    /\ s # symbol
    /\ symbol' = s
    /\ changed' = {"symbol"}
    /\ touched' = TRUE
    /\ changes < MaxChanges /\ changes' = changes + 1
    /\ UNCHANGED <<engine, active, restored, removed, persisted, layout, stored, loaded,
                   paned, gone, rounds>>

Event ==
    \/ \E name \in Names : AddNew(name)
    \/ ToggleStrategy
    \/ \E id \in IdsOf(active) :
          \/ RemoveById(id) \/ ToggleVisible(id)
          \/ \E d \in {-1, 1} : MoveInList(id, d)
          \/ \E pane \in Panes \union {Main} : MoveToPane(id, pane)
    \/ \E k \in DOMAIN layout :
          \/ \E d \in {-1, 1} : PaneUpDown(layout[k].pane, d)
          \/ PaneDelete(layout[k].pane)
          \/ PaneCollapse(layout[k].pane) \/ PaneMaximize(layout[k].pane)
    \/ \E s \in Symbols : ChangeSymbol(s)

Next == Render \/ NewBars \/ Reopen \/ Event

Spec == Init /\ [][Next]_vars

-----------------------------------------------------------------------------
Settled == changed = {}

(* Effects that set state come to an end, a few rounds after the event     *)
(* that caused them: no two of them undo each other's work forever.        *)
Settles == rounds <= MaxRounds

(* Once the effects have run, the page's list is the engine's, unless a    *)
(* button on a pane has changed the engine since the last bars.            *)
LegendIsShown == Settled /\ ~paned => active = engine.list

(* What localStorage would bring back is what the chart shows.  (A chart   *)
(* without indicators, opened again, is not saved at all: MaySave.)        *)
StoredIsShown ==
    Settled /\ ~paned /\ MaySave
    => stored = [list |-> Saved(engine.list), sub |-> SubPaneState(engine), symbol |-> symbol]

(* The three lists of indicators agree: engine, page and localStorage.     *)
ListsAgree == LegendIsShown /\ StoredIsShown

(* A chart that is opened comes back as it was saved, the order, collapse  *)
(* and maximisation of its panes included, although the pane state is      *)
(* applied first when there are no indicators yet.                         *)
ReopenRestores ==
    Settled /\ ~touched /\ persisted # None /\ persisted.list # <<>>
    => /\ Saved(engine.list) = persisted.list
       /\ engine = SetSubPaneState(engine, persisted.sub)

(* The effects of the page end, and what they end in is what was saved,    *)
(* when it was saved (the effects of ChartPage).                           *)
SettlesAsSaved == Settles /\ ReopenRestores

(* However handlers and effects follow each other, the page comes to rest  *)
(* with one list of indicators, kept in three places (ChartPage).          *)
PageAgrees == ListsAgree /\ SettlesAsSaved

(* "Never re-add indicators the user explicitly removed this session."     *)
RemovedStaysRemoved ==
    \A ind \in ToSet(engine.list) : ind.name \notin gone
=============================================================================
