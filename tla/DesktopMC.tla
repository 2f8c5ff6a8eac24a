----------------------------- MODULE DesktopMC -----------------------------
(***************************************************************************)
(* Parts of the desktop application that share no state, checked in one    *)
(* run: the sidecar watchdog of the host against the clock                 *)
(* (WatchdogTiming), the tabs and windows of the front end (Workspace),    *)
(* the alerts of their charts (Alerts), the page that runs simulations     *)
(* (SimulationsPage) with the engine of one (SimulationEngine), and the    *)
(* sign-in (SignIn).  A behaviour is one of one part, the others staying   *)
(* in their initial states.                                                *)
(***************************************************************************)
EXTENDS WatchdogTiming, SimulationTerms, SignInTerms, FiniteSets

CONSTANTS FirstTabs, MoreTabs, Fixed, Nothing, MaxUses, MaxStops,   \* of Workspace
    Ids, Stocks, Views, Torn, NoOne, MaxMoves, MaxSwaps, MaxActs,   \* of Alerts
    MaxRuns, Counts, Symbols, Single, Many, Few, Speeds             \* of SimulationsPage

ASSUME AlertsAssumption ==
    /\ IsFiniteSet(Views)
    /\ NoOne \notin [symbol : Stocks, above : BOOLEAN, status : {"active", "fired"}]
ASSUME PageAssumption ==
    /\ MaxRuns \in Nat /\ Counts \subseteq Nat /\ Speeds \subseteq Nat
    /\ Many \in Nat /\ Few \in Nat
    /\ Nothing \notin Nat /\ \A run \in (1 .. MaxRuns) \union {Nothing} : Nothing # [of |-> run]

ASSUME WindowsAssumption ==
    /\ FirstTabs # {} /\ Nothing \notin FirstTabs \union MoreTabs
    /\ Nothing \notin [tabs : SUBSET (FirstTabs \union MoreTabs), stamp : Nat, rev : Nat,
                        focus : FirstTabs \union MoreTabs \union {Nothing}]

VARIABLES
    part,
    main, tabs, focus, unsynced, workspace, timer, disk, mirror, file, infos,
    requested, closingFlag, wins, told, respawns, tear, uses, stops, owned,
    excused, unseen,
    alerts, notes, kept, isOpen, price, view, editing, moves, swaps, acts, armed,
    oldFired, writer,
    config, bars, rest, tfBars, partial, cash, position, trades, metrics, earned,
    runs, pending, progress, current, shown, labels, isRunning, isLoading, speed, due,
    playing, crossed,
    bound, thread, handled, backlog, browser, events, taken, exchanging, submitted,
    session, starts, logins, strays, restarts, claims, refused, accepted, brought, missed

Alert == INSTANCE Alerts
Shell == INSTANCE Workspace
Replay == INSTANCE SimulationEngine
Page == INSTANCE SimulationsPage
Login == INSTANCE SignIn

windowVars == <<main, tabs, focus, unsynced, workspace, timer, disk, mirror, file, infos,
                requested, closingFlag, wins, told, respawns, tear, uses, stops,
                owned, excused, unseen>>
alertVars == <<alerts, notes, kept, isOpen, price, view, editing, moves, swaps, acts,
               armed, oldFired, writer>>
replayVars == <<config, bars, rest, tfBars, partial, cash, position, trades, metrics, earned>>
pageVars == <<runs, pending, progress, current, shown, labels, isRunning, isLoading,
              speed, due, playing, crossed>>
loginVars == <<bound, thread, handled, backlog, browser, events, taken, exchanging,
               submitted, session, starts, logins, strays, restarts, claims, refused,
               accepted, brought, missed>>
partsVars == <<part, vars, windowVars, alertVars, replayVars, pageVars, loginVars>>

PartsInit ==
    /\ part \in {"watchdog", "windows", "alerts", "replay", "simulations", "signin"}
    /\ Init /\ Shell!Init /\ Alert!Init /\ Replay!Init /\ Page!Init /\ Login!Init
    /\ part # "watchdog" => left = 0
    /\ part # "alerts" => \A v \in Views : view[v].symbol = CHOOSE s \in Stocks : TRUE
    /\ part # "simulations" => speed = CHOOSE s \in Speeds : TRUE

Stops ==    \* the bounds are used up, or the replay is at its end
    \/ part = "windows" /\ uses = MaxUses /\ stops = MaxStops
    \/ part = "alerts" /\ acts = MaxActs
    \/ part = "replay" /\ config # NoBar /\ rest = {}
    \/ part = "signin" /\ logins = MaxLogins

PartsNext ==
    \/ part = "watchdog" /\ Next
       /\ UNCHANGED <<part, windowVars, alertVars, replayVars, pageVars, loginVars>>
    \/ part = "windows" /\ Shell!Next
       /\ UNCHANGED <<part, vars, alertVars, replayVars, pageVars, loginVars>>
    \/ part = "alerts" /\ Alert!Next
       /\ UNCHANGED <<part, vars, windowVars, replayVars, pageVars, loginVars>>
    \/ part = "replay" /\ Replay!Next
       /\ UNCHANGED <<part, vars, windowVars, alertVars, pageVars, loginVars>>
    \/ part = "simulations" /\ Page!Next
       /\ UNCHANGED <<part, vars, windowVars, alertVars, replayVars, loginVars>>
    \/ part = "signin" /\ Login!Next
       /\ UNCHANGED <<part, vars, windowVars, alertVars, replayVars, pageVars>>
    \/ Stops /\ UNCHANGED partsVars
PartsSpec == PartsInit /\ [][PartsNext]_partsVars

(* The parts have the types that their modules state.                      *)
PartsTypeOK ==
    /\ TypeOK
    /\ part = "windows" => Shell!TypeOK
    /\ part = "alerts" => Alert!TypeOK
    /\ part = "replay" => Replay!TypeOK
    /\ part = "simulations" => Page!TypeOK
    /\ part = "signin" => Login!TypeOK

(* A tab that the user has not closed is somewhere, once (Workspace). *)
TabsHaveOneHome == part = "windows" => Shell!TabsHaveOneHome

(* Tabs, workspace and disk follow each other (Workspace). *)
WorkspaceIsView == part = "windows" => Shell!WorkspaceIsView

(* An alert fires once and is told; what is stored is the latest (Alerts). *)
AlertDiscipline == part = "alerts" => Alert!AlertDiscipline

(* Step by step, the replay arrives at what the whole series says          *)
(* (SimulationEngine).                                                     *)
ReplayIsRight == part = "replay" => Replay!ReplayIsRight

(* Money is neither made nor lost but by trading, one position at a time   *)
(* (SimulationEngine).                                                     *)
LedgerAddsUp == part = "replay" => Replay!LedgerAddsUp

(* The page plays, shows and steps one run (SimulationsPage). *)
PlaysWhatItShows == part = "simulations" => Page!PlaysWhatItShows

(* A login fires once, and is not lost on the way (SignIn). *)
SignInCounts == part = "signin" => Login!SignInCounts
=============================================================================
