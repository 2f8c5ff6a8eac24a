------------------------------ MODULE ChartMC ------------------------------
(***************************************************************************)
(* Three parts of a chart that share no state, checked in one run: what is *)
(* drawn on it (ChartDrawings), the indicators of its page                 *)
(* (ChartPageIndicators) and its bars (ChartFeed).  A behaviour is one of  *)
(* one part, the others staying in their initial states: the state spaces  *)
(* add up and are not multiplied.                                          *)
(***************************************************************************)
EXTENDS ChartDrawings

CONSTANTS
    Names, Removable, Overlays, Symbols, Main, MaxIndicators, MaxPanes,
    MaxChanges, MaxRounds,      \* of ChartPageIndicators
    Charts, Tickers, Nobody, Window, Keep, LastTime, MaxSwitches,
    MaxRequests                 \* of ChartFeed

ASSUME FeedAssumption ==
    /\ {Window, Keep} \subseteq Nat \ {0} /\ LastTime \in Nat \ {0, 1}
    /\ Nobody \notin Tickers
    /\ Nobody \notin [last : Nat, timer : BOOLEAN, fetching : BOOLEAN]

(* The score indicator goes with the signals of a strategy: what happens   *)
(* when the user removes it or them by hand is another question            *)
(* (RemovedStaysRemoved of ChartPageIndicators).                           *)
ASSUME PageAssumption ==
    /\ {"volume", "signal", "score"} \subseteq Names
    /\ "signal" \in Overlays
    /\ {"signal", "score"} \intersect Removable = {}
    /\ Symbols # {}
    /\ MaxIndicators \in Nat \ {0} /\ MaxPanes \in Nat
    /\ MaxChanges \in Nat /\ MaxRounds \in Nat \ {0, 1}
    /\ {Main, None} \intersect (1 .. MaxPanes) = {}

VARIABLES
    part,
    engine, active, restored, removed, persisted, symbol, stored, loaded,
    layout, changed, paned, gone, touched, changes, rounds,
    chart, entry, strays, polls, waits, older, cached, now, switches,
    requests, reborn, crossed, refused

Page == INSTANCE ChartPageIndicators
Feed == INSTANCE ChartFeed

pageVars == <<engine, active, restored, removed, persisted, symbol, stored, loaded,
              layout, changed, paned, gone, touched, changes, rounds>>
feedVars == <<chart, entry, strays, polls, waits, older, cached, now, switches,
              requests, reborn, crossed, refused>>

PartsInit == part \in {"drawings", "page", "feed"} /\ Init /\ Page!Init /\ Feed!Init
PartsNext ==
    \/ part = "drawings" /\ Next /\ UNCHANGED <<part, pageVars, feedVars>>
    \/ part = "page" /\ Page!Next /\ UNCHANGED <<part, vars, feedVars>>
    \/ part = "feed" /\ Feed!Next /\ UNCHANGED <<part, vars, pageVars>>
PartsSpec == PartsInit /\ [][PartsNext]_<<part, vars, pageVars, feedVars>>

(* The parts have the types that their modules state.                      *)
PartsTypeOK ==
    /\ part = "drawings" => TypeOK
    /\ part = "page" => Page!TypeOK
    /\ part = "feed" => Feed!TypeOK

(* The page's effects end; engine, page and localStorage then agree, and   *)
(* what was saved is back (ChartPageIndicators).                           *)
PageAgrees == part = "page" => Page!PageAgrees

(* The bars shown are of the chart's symbol and in order (ChartFeed). *)
BarsAreRight == part = "feed" => Feed!BarsAreRight

(* A chart is neither left waiting nor polled twice (ChartFeed). *)
NothingStalls == part = "feed" => Feed!NothingStalls
=============================================================================
