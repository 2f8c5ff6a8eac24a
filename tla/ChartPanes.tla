----------------------------- MODULE ChartPanes -----------------------------
(***************************************************************************)
(* The indicators and sub-panes of one ChartEngine                         *)
(* (chart/core/ChartEngine.ts), as operators on the record                 *)
(*   [list      |-> activeIndicators, a sequence of indicators,            *)
(*    order     |-> subPaneOrder, a sequence of panes,                     *)
(*    collapsed |-> collapsedPanes,                                        *)
(*    max       |-> maximizedPaneId].                                      *)
(* An indicator is [id, name, pane, visible]; a pane is a number, Main the *)
(* price pane.  Heights, scale modes and the panes of scripts are left     *)
(* out.  ChartPageIndicators is the page that drives the engine.           *)
(***************************************************************************)
EXTENDS Integers, Sequences, SequencesExt, FiniteSetsExt

CONSTANTS
    Overlays,       \* names of indicators that are drawn over the price
    Main, None

NoEngine == [list |-> <<>>, order |-> <<>>, collapsed |-> {}, max |-> None]

PanesOf(list) == {list[i].pane : i \in DOMAIN list} \ {Main}
IdsOf(list) == {list[i].id : i \in DOMAIN list}
Has(list, id) == id \in IdsOf(list)
Get(list, id) == CHOOSE ind \in ToSet(list) : ind.id = id
Put(list, ind) == [i \in DOMAIN list |-> IF list[i].id = ind.id THEN ind ELSE list[i]]

(* The members of s at the places that have a key, in the order of their   *)
(* keys; and those at the places of T, as they are.                        *)
InOrder(s, key) ==
    [n \in 1 .. Cardinality(DOMAIN key) |->
        s[CHOOSE i \in DOMAIN key :
            Cardinality({j \in DOMAIN key : key[j] < key[i]}) = n - 1]]
Kept(s, T) == InOrder(s, [i \in T |-> i])

(* The panes of the indicators of list, in the order of their first one. *)
FirstPanes(list) ==
    LET panes == [i \in DOMAIN list |-> list[i].pane]
    IN  Kept(panes, {i \in DOMAIN list : /\ panes[i] # Main
                                         /\ \A j \in 1 .. i - 1 : panes[j] # panes[i]})

(* normalizeSubPaneOrder: panes without an indicator go, new ones come     *)
(* last.                                                                   *)
Normal(e) ==
    LET kept == Kept(e.order, {k \in DOMAIN e.order : e.order[k] \in PanesOf(e.list)})
        all == FirstPanes(e.list)
        new == Kept(all, {k \in DOMAIN all : all[k] \notin ToSet(kept)})
    IN  [e EXCEPT !.order = kept \o new]

(* addIndicator, and the setIndicatorPane that follows it wherever the     *)
(* pane of its own that it gave the indicator is not the one wanted.  A    *)
(* second volume indicator is the first one again.                         *)
AddIndicator(e, id, name, pane) ==
    IF name = "volume" /\ \E ind \in ToSet(e.list) : ind.name = "volume"
    THEN [e EXCEPT !.list = [i \in DOMAIN @ |-> IF @[i].name = "volume"
                                                THEN [@[i] EXCEPT !.visible = TRUE] ELSE @[i]]]
    ELSE Normal([e EXCEPT !.list = Append(@, [id |-> id, name |-> name,
                                              pane |-> pane, visible |-> TRUE])])

(* Mutant: the order of the panes is left as it is. *)
MutRemoveIndicator(e, id) ==
    [e EXCEPT !.list = Kept(@, {i \in DOMAIN @ : @[i].id # id})]

RemoveIndicator(e, id) ==
    Normal([e EXCEPT !.list = Kept(@, {i \in DOMAIN @ : @[i].id # id})])

SetVisibility(e, id, visible) ==
    IF ~Has(e.list, id) THEN e
    ELSE [e EXCEPT !.list = Put(@, [Get(@, id) EXCEPT !.visible = visible])]

SetIndicatorPane(e, id, pane) ==
    IF ~Has(e.list, id) \/ Get(e.list, id).pane = pane THEN e
    ELSE Normal([e EXCEPT !.list = Put(@, [Get(@, id) EXCEPT !.pane = pane])])

Swapped(s, i, j) == [s EXCEPT ![i] = s[j], ![j] = s[i]]

(* moveIndicator, up (d = -1) or down (d = 1) the list. *)
MoveIndicator(e, id, d) ==
    IF ~Has(e.list, id) THEN e
    ELSE LET i == CHOOSE k \in DOMAIN e.list : e.list[k].id = id
         IN  IF i + d \in DOMAIN e.list
             THEN [e EXCEPT !.list = Swapped(@, i, i + d)] ELSE e

(* getAssignedSubPanes: the panes with a visible indicator. *)
ShownPanes(e) ==
    LET order == Normal(e).order
    IN  Kept(order, {k \in DOMAIN order :
                        \E i \in DOMAIN e.list : e.list[i].pane = order[k] /\ e.list[i].visible})

(* movePane: the pane and its neighbour among those shown change places,   *)
(* in the order of the panes and in the list, which then has the           *)
(* indicators of each shown pane together, after those of the price and    *)
(* before the others.                                                      *)
MovePane(e0, pane, d) ==
    LET e == Normal(e0)
        shown == ShownPanes(e)
        at(s, p) == CHOOSE k \in DOMAIN s : s[k] = p
        i == at(shown, pane)
        place(p) == IF p = Main THEN 0
                    ELSE IF p \in ToSet(shown) THEN at(Swapped(shown, i, i + d), p)
                    ELSE Len(shown) + 1
    IN  IF pane \notin ToSet(shown) \/ i + d \notin DOMAIN shown THEN e
        ELSE [e EXCEPT !.order = Swapped(@, at(@, pane), at(@, shown[i + d])),
                       !.list = InOrder(@, [k \in DOMAIN @ |->
                                    place(@[k].pane) * (Len(@) + 1) + k])]

RemovePane(e, pane) ==
    [list |-> Kept(e.list, {i \in DOMAIN e.list : e.list[i].pane # pane}),
     order |-> Kept(e.order, {k \in DOMAIN e.order : e.order[k] # pane}),
     collapsed |-> e.collapsed \ {pane},
     max |-> IF e.max = pane THEN None ELSE e.max]

CollapsePane(e, pane) == [e EXCEPT !.collapsed = @ \union {pane}]
ExpandPane(e, pane) == [e EXCEPT !.collapsed = @ \ {pane}]
MaximizePane(e, pane) == [e EXCEPT !.max = pane]

(* getSubPaneState and setSubPaneState. *)
SubPaneState(e) ==
    [order |-> Normal(e).order, collapsed |-> e.collapsed, max |-> e.max]
SetSubPaneState(e, s) ==
    Normal([list |-> e.list, order |-> s.order, collapsed |-> s.collapsed, max |-> s.max])

(* computeLayout, heights left out. *)
Layout(e) ==
    LET shown == ShownPanes(e)
    IN  [k \in DOMAIN shown |->
            [pane |-> shown[k], collapsed |-> shown[k] \in e.collapsed,
             max |-> e.max = shown[k]]]

(* serializeIndicators. *)
Saved(list) ==
    [i \in DOMAIN list |-> [name |-> list[i].name, pane |-> list[i].pane,
                            visible |-> list[i].visible]]

(* applySerializedIndicators: every indicator is removed and those of s    *)
(* are added anew, under new ids.                                          *)
Emptied(e) == [e EXCEPT !.list = <<>>, !.order = <<>>]
(* Mutant: hidden indicators come back visible. *)
MutApply(e, s) ==
    LET upTo[n \in 0 .. Len(s)] ==
            IF n = 0 THEN Emptied(e)
            ELSE AddIndicator(upTo[n - 1], n, s[n].name, s[n].pane)
    IN  upTo[Len(s)]
AddSaved(e, id, ind) ==
    LET added == AddIndicator(e, id, ind.name, ind.pane)
    IN  IF ind.visible THEN added ELSE SetVisibility(added, id, FALSE)
Apply(e, s) ==
    LET upTo[n \in 0 .. Len(s)] ==
            IF n = 0 THEN Emptied(e) ELSE AddSaved(upTo[n - 1], n, s[n])
    IN  upTo[Len(s)]
=============================================================================
