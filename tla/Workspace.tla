----------------------------- MODULE Workspace -----------------------------
(***************************************************************************)
(* The tabs of the main window (lib/tabs.tsx), the workspace they are      *)
(* saved in (lib/layout.tsx, lib/layout-storage.ts), and the windows that  *)
(* a tab can be torn off into and come back from (lib/detached.ts,         *)
(* components/TabBar.tsx, pages/DetachedWindow.tsx).  A tab goes from the  *)
(* one to the other through localStorage, which the windows share and      *)
(* which outlives them; the workspace goes to the disk two seconds later.  *)
(*                                                                         *)
(* A tab is its id.  Its place among the tabs and what is laid out on it   *)
(* are left out: "next to the closed one" is any other tab, and rev counts *)
(* the edits of layouts.                                                   *)
(***************************************************************************)
EXTENDS Integers, FiniteSets

CONSTANTS
    FirstTabs,      \* the tabs of the workspace at the first start
    MoreTabs,       \* ids of tabs added later
    Fixed,          \* tabs of a type that cannot be torn off
    Nothing,
    MaxUses,        \* bound: operations of the user
    MaxStops        \* bound: crashes, exits and sign-outs

VARIABLES
    main,           \* "off", "loading", "on", "closing", "out" (signed out)
    tabs, focus,    \* state of TabProvider; focus is activeTabId
    unsynced,       \* the effect that syncs tabs to the workspace is still due
    workspace,      \* state of LayoutProvider
    timer,          \* workspace that the save timer will write, or Nothing
    disk, mirror,   \* workspace.diq, and its copy in localStorage
    file,           \* a workspace exported by the user, or Nothing
    infos,          \* localStorage: detached-tab:*
    requested,      \* localStorage: detached-reattach:*
    closingFlag,    \* localStorage: detached-main-closing
    wins,           \* the detached windows: "none", "opening", "open"
    told,           \* they have had the event main-window-closing
    respawns,       \* spawn_tab_window under way since the start
    tear,           \* the tear-off under way
    uses, stops,    \* counters behind the bounds
    owned,          \* history: tabs the user has and has not closed
    excused,        \* history: tabs that the known gaps have lost or doubled
    unseen          \* history: the gaps "blurred", "replaced", "late"; see below

shellVars == <<main, tabs, focus, unsynced, workspace, timer, disk, mirror, file, infos,
               requested, closingFlag, wins, told, respawns, tear, uses, stops,
               owned, excused, unseen>>
ids == FirstTabs \union MoreTabs
store == <<infos, requested>>
saved == <<timer, disk, mirror>>
ghosts == <<owned, excused, unseen>>

FirstWorkspace == [tabs |-> FirstTabs, focus |-> CHOOSE t \in FirstTabs : TRUE,
                   stamp |-> 0, rev |-> 0]
NoTear == [id |-> Nothing, was |-> Nothing, state |-> "none"]

Init ==
    /\ main = "off"
    /\ tabs = {} /\ focus = Nothing /\ unsynced = FALSE
    /\ workspace = FirstWorkspace /\ disk = FirstWorkspace /\ mirror = FirstWorkspace
    /\ timer = Nothing /\ file = Nothing
    /\ infos = {} /\ requested = {} /\ closingFlag = FALSE
    /\ wins = [t \in ids |-> "none"] /\ told = FALSE
    /\ respawns = {} /\ tear = NoTear
    /\ uses = 0 /\ stops = 0
    /\ owned = FirstTabs /\ excused = {} /\ unseen = {}

Use == uses < MaxUses /\ uses' = uses + 1
Stop == stops < MaxStops /\ stops' = stops + 1

-----------------------------------------------------------------------------
(* Saving.                                                                 *)

(* updateWorkspace and scheduleSave: the copy at once, the disk later.     *)
(* (Mutants, here and below: a save that is not scheduled, a tab focused   *)
(* but not synced.)                                                        *)
MutScheduled(ws) == workspace' = ws /\ mirror' = ws /\ UNCHANGED timer
Scheduled(ws) == workspace' = ws /\ mirror' = ws /\ timer' = ws

(* The effect of TabProvider that follows a change of the tabs. *)
MutSyncedTo(set, id) ==
    /\ Scheduled([workspace EXCEPT !.tabs = set])
    /\ unsynced' = FALSE

SyncedTo(set, id) ==
    /\ Scheduled([workspace EXCEPT !.tabs = set, !.focus = id])
    /\ unsynced' = FALSE

Sync ==
    /\ main \in {"on", "closing"} /\ unsynced
    /\ SyncedTo(tabs, focus)
    /\ UNCHANGED <<main, tabs, focus, disk, file, store, closingFlag, wins, told, respawns,
                   tear, uses, stops, ghosts>>

TimerFires ==
    /\ timer # Nothing
    /\ disk' = timer /\ timer' = Nothing
    /\ UNCHANGED <<main, tabs, focus, unsynced, workspace, mirror, file, store, closingFlag,
                   wins, told, respawns, tear, uses, stops, ghosts>>

(* Locking, zoom, link channels and components of a tab. *)
EditLayout ==
    /\ main = "on" /\ Use
    /\ Scheduled([workspace EXCEPT !.rev = @ + 1])
    /\ UNCHANGED <<main, tabs, focus, unsynced, disk, file, store, closingFlag, wins, told,
                   respawns, tear, stops, ghosts>>

(* What the disk will say, and the tabs a crash or a sign-out forgets. *)
Due == IF timer = Nothing THEN disk ELSE timer
Differ(set, others) == {t \in ids : (t \in set) # (t \in others)}
Unsaved == Differ(IF tabs = {} THEN Due.tabs ELSE tabs, disk.tabs)

-----------------------------------------------------------------------------
(* Starting.                                                               *)

(* TabProvider mounts while the workspace is still being read: detached    *)
(* windows of the last session are asked for, and tabs that want to come   *)
(* back are put into tabs that the workspace will replace.                 *)
Mount ==
    /\ main' = "loading"
    /\ tabs' = {} /\ focus' = Nothing /\ unsynced' = FALSE
    /\ respawns' = infos
    /\ infos' = infos \ requested
    /\ requested' = {}
    /\ excused' = excused \union requested

Start ==
    /\ main = "off" /\ Mount
    /\ UNCHANGED <<workspace, saved, file, closingFlag, wins, told, tear, uses, stops,
                   owned, unseen>>

SignIn ==
    /\ main = "out" /\ timer = Nothing /\ Mount
    /\ UNCHANGED <<workspace, saved, file, closingFlag, wins, told, tear, uses, stops,
                   owned, unseen>>

(* loadWorkspace reads the disk first.  CloseGuard mounts then. *)
Normalized(ws) == IF ws.focus \in ws.tabs THEN ws
                  ELSE [ws EXCEPT !.focus = CHOOSE t \in ws.tabs : TRUE]
Loaded ==
    /\ main = "loading"
    /\ main' = "on"
    /\ workspace' = Normalized(disk) /\ mirror' = Normalized(disk)
    /\ tabs' = disk.tabs /\ focus' = Normalized(disk).focus /\ unsynced' = FALSE
    /\ closingFlag' = FALSE
    /\ owned' = (owned \ excused) \union disk.tabs
    /\ unseen' = {}
    /\ UNCHANGED <<timer, disk, file, store, wins, told, respawns, tear, uses, stops, excused>>

(* A window whose label is taken cannot be made; the entry is then removed *)
(* as stale, though its window lives.  The request is served before the    *)
(* user does anything with that tab: a timing assumption.                  *)
Respawn(t) ==
    /\ t \in respawns /\ main # "off"
    /\ respawns' = respawns \ {t}
    /\ IF wins[t] = "none"
       THEN wins' = [wins EXCEPT ![t] = "opening"] /\ UNCHANGED <<infos, excused>>
       ELSE infos' = infos \ {t} /\ excused' = excused \union {t} /\ UNCHANGED wins
    /\ UNCHANGED <<main, tabs, focus, unsynced, workspace, saved, file, requested, closingFlag,
                   told, tear, uses, stops, owned, unseen>>

-----------------------------------------------------------------------------
(* Tabs of the main window.                                                *)
Focus(t) ==
    /\ main = "on" /\ t \in tabs /\ t # focus /\ Use
    /\ focus' = t
    /\ SyncedTo(tabs, t)
    /\ unseen' = unseen \ {"blurred"}
    /\ UNCHANGED <<main, tabs, disk, file, store, closingFlag, wins, told, respawns, tear,
                   stops, owned, excused>>

(* addTab, and duplicateTab with its copy of the layout. *)
Add(t) ==
    /\ main = "on" /\ t \in MoreTabs \ owned /\ wins[t] = "none" /\ Use
    /\ t \notin infos \union requested \union workspace.tabs \union disk.tabs
    /\ tabs' = tabs \union {t} /\ focus' = t
    /\ SyncedTo(tabs', t)
    /\ owned' = owned \union {t}
    /\ UNCHANGED <<main, disk, file, store, closingFlag, wins, told, respawns, tear, stops,
                   excused, unseen>>

(* Where the focus goes when a tab leaves. *)
MutRefocused(t, was, rest) == {focus}
Refocused(t, was, rest) == IF t = was THEN rest ELSE {focus}

CloseTab(t) ==
    /\ main = "on" /\ t \in tabs /\ Cardinality(tabs) > 1 /\ Use
    /\ tabs' = tabs \ {t}
    /\ focus' \in Refocused(t, focus, tabs')
    /\ SyncedTo(tabs', focus')
    /\ owned' = owned \ {t}
    /\ UNCHANGED <<main, disk, file, store, closingFlag, wins, told, respawns, tear, stops,
                   excused, unseen>>

(* exportToFile also saves, loadFromFile also saves; neither stops the     *)
(* timer.  TabProvider takes the tabs of the file if it has another        *)
(* lastModified than the workspace.  The file is not normalised.           *)
Export ==
    /\ main = "on" /\ Use
    /\ file' = [workspace EXCEPT !.stamp = workspace.stamp + 1]
    /\ disk' = workspace
    /\ UNCHANGED <<main, tabs, focus, unsynced, workspace, timer, mirror, store, closingFlag,
                   wins, told, respawns, tear, stops, ghosts>>

Import ==
    /\ main = "on" /\ file # Nothing /\ tear = NoTear /\ Use
    /\ workspace' = file /\ mirror' = file /\ disk' = file
    /\ IF file.stamp # workspace.stamp
       THEN tabs' = file.tabs /\ focus' = file.focus /\ unsynced' = FALSE
       ELSE UNCHANGED <<tabs, focus, unsynced>>
    /\ owned' = (owned \ tabs) \union tabs'
    /\ excused' = excused \union {t \in tabs' : t \in infos \union requested \/ wins[t] # "none"}
    /\ unseen' = unseen
          \union (IF file.stamp = workspace.stamp \/ timer # Nothing THEN {"replaced"} ELSE {})
          \union (IF focus' = Normalized(file).focus THEN {} ELSE {"blurred"})
    /\ UNCHANGED <<main, timer, file, store, closingFlag, wins, told, respawns, tear, stops>>

-----------------------------------------------------------------------------
(* Tearing a tab off (triggerTearOff), with the wait for its window.       *)
TearOff(t) ==
    /\ main = "on" /\ tear = NoTear /\ t \in tabs \ (Fixed \union respawns) /\ Use
    /\ infos' = infos \union {t}
    /\ tear' = [id |-> t, was |-> focus, state |-> "asked"]
    /\ UNCHANGED <<main, tabs, focus, unsynced, workspace, saved, file, requested, closingFlag,
                   wins, told, respawns, stops, ghosts>>

TearSpawns ==
    /\ tear.state = "asked"
    /\ IF wins[tear.id] = "none"
       THEN /\ wins' = [wins EXCEPT ![tear.id] = "opening"]
            /\ tear' = [tear EXCEPT !.state = "made"]
       ELSE UNCHANGED wins /\ tear' = [tear EXCEPT !.state = "failed"]
    /\ UNCHANGED <<main, tabs, focus, unsynced, workspace, saved, file, store, closingFlag,
                   told, respawns, uses, stops, ghosts>>
TearFails ==
    /\ tear.state = "asked"
    /\ tear' = [tear EXCEPT !.state = "failed"]
    /\ UNCHANGED <<main, tabs, focus, unsynced, workspace, saved, file, store, closingFlag,
                   wins, told, respawns, uses, stops, ghosts>>

(* detachTab as it was when the tear-off began: it compares with the focus *)
(* of then.  The last tab is replaced by a new chart.  If tab or window    *)
(* have been closed in the meantime, the entry is written all the same.    *)
MutLeave(t) ==
    /\ tabs' = tabs \ {t} /\ focus' = Nothing /\ unsynced' = TRUE
    /\ UNCHANGED owned

Leave(t) ==
    \/ /\ tabs = {t}
       /\ \E n \in MoreTabs \ (owned \union infos \union requested) :
            /\ wins[n] = "none"
            /\ tabs' = {n} /\ focus' = n /\ owned' = owned \union {n}
       /\ unsynced' = TRUE
    \/ /\ tabs # {t}
       /\ tabs' = tabs \ {t}
       /\ focus' \in Refocused(t, tear.was, tabs') /\ unsynced' = TRUE
       /\ UNCHANGED owned

(* The entry is written once more, or removed if there is no window. *)
MutEntryAfter(t) == infos \ {t}
EntryAfter(t) == IF tear.state = "made" THEN infos \union {t} ELSE infos \ {t}

MutTearDone ==
    /\ tear.state \in {"made", "failed"} /\ main \in {"on", "closing"}
    /\ tear' = NoTear
    /\ infos' = EntryAfter(tear.id)
    /\ UNCHANGED <<main, tabs, focus, unsynced, workspace, saved, file, requested, closingFlag,
                   wins, told, respawns, uses, stops, ghosts>>

TearDone ==
    /\ tear.state \in {"made", "failed"} /\ main \in {"on", "closing"}
    /\ tear' = NoTear
    /\ infos' = EntryAfter(tear.id)
    /\ IF tear.state = "made" /\ tear.id \in tabs THEN Leave(tear.id)
       ELSE UNCHANGED <<tabs, focus, unsynced, owned>>
    /\ unseen' = unseen
          \union (IF focus = tear.id /\ tear.was # focus THEN {"blurred"} ELSE {})
          \union (IF main = "closing" THEN {"late"} ELSE {})
    /\ excused' = IF tear.state = "made" /\ (tear.id \notin tabs \/ wins[tear.id] = "none")
                  THEN excused \union {tear.id} ELSE excused
    /\ UNCHANGED <<main, workspace, saved, file, requested, closingFlag, wins, told, respawns,
                   uses, stops>>

(* loadInfo of the window writes the entry again. *)
WindowLoads(t) ==
    /\ wins[t] = "opening"
    /\ wins' = [wins EXCEPT ![t] = "open"]
    /\ infos' = infos \union {t}
    /\ UNCHANGED <<main, tabs, focus, unsynced, workspace, saved, file, requested, closingFlag,
                   told, respawns, tear, uses, stops, ghosts>>

(* closeDetachedWindow: the tab wants to come back, unless the program is  *)
(* closing.                                                                *)
WindowCloses(t) ==
    /\ wins[t] = "open" /\ main # "off" /\ t \notin respawns /\ Use
    /\ wins' = [wins EXCEPT ![t] = "none"]
    /\ IF closingFlag \/ told THEN UNCHANGED store
       ELSE requested' = requested \union {t} /\ infos' = infos \ {t}
    /\ UNCHANGED <<main, tabs, focus, unsynced, workspace, saved, file, closingFlag, told,
                   respawns, tear, stops, ghosts>>

(* The storage event: reattachTab. *)
Reattach(t) ==
    /\ t \in requested /\ (main = "loading" \/ tabs # {})
    /\ requested' = requested \ {t} /\ infos' = infos \ {t}
    /\ IF main = "loading" THEN UNCHANGED <<tabs, focus, unsynced>>
       ELSE tabs' = tabs \union {t} /\ focus' = t /\ unsynced' = TRUE
    /\ excused' = IF main = "loading" THEN excused \union {t} ELSE excused
    /\ unseen' = IF main = "closing" THEN unseen \union {"late"} ELSE unseen
    /\ UNCHANGED <<main, workspace, saved, file, closingFlag, wins, told, respawns, tear, uses,
                   stops, owned>>

-----------------------------------------------------------------------------
(* Stopping.                                                               *)

(* CloseGuard: the flag, flushSave, then shutdown_app, whose event tells   *)
(* the windows.  On the login page there is no CloseGuard.                 *)
MutFlushed == UNCHANGED saved
Flushed == disk' = workspace /\ mirror' = workspace /\ timer' = Nothing
Close ==
    /\ main \in {"on", "out"} /\ Stop
    /\ main' = "closing"
    /\ IF main = "on" THEN closingFlag' = TRUE /\ Flushed
       ELSE UNCHANGED <<closingFlag, saved>>
    /\ unseen' = IF unsynced \/ main = "out" THEN unseen \union {"late"} ELSE unseen
    /\ UNCHANGED <<tabs, focus, unsynced, workspace, file, store, wins, told, respawns, tear,
                   uses, owned, excused>>
Tell ==
    /\ main = "closing" /\ ~told
    /\ told' = TRUE
    /\ UNCHANGED <<main, tabs, focus, unsynced, workspace, saved, file, store, closingFlag,
                   wins, respawns, tear, uses, stops, ghosts>>

(* All windows close and keep their entries, or the process dies. *)
Gone ==
    /\ main' = "off"
    /\ tabs' = {} /\ focus' = Nothing /\ unsynced' = FALSE
    /\ timer' = Nothing
    /\ wins' = [t \in ids |-> "none"] /\ told' = FALSE
    /\ respawns' = {} /\ tear' = NoTear
    /\ UNCHANGED <<workspace, disk, mirror, file, store, closingFlag, uses, owned, unseen>>
Exit ==
    /\ main = "closing" /\ told /\ Gone
    /\ excused' = excused \union ({tear.id} \ {Nothing})
                          \union (IF {"late", "replaced"} \intersect unseen = {} THEN {} ELSE Unsaved)
    /\ UNCHANGED stops
Crash ==
    /\ main # "off" /\ Stop /\ Gone
    /\ excused' = excused \union Unsaved \union ({tear.id} \ {Nothing})

SignOut ==
    /\ main = "on" /\ tear = NoTear /\ ~unsynced /\ Stop
    /\ main' = "out"
    /\ tabs' = {} /\ focus' = Nothing
    /\ excused' = IF "replaced" \in unseen THEN excused \union Differ(tabs, Due.tabs) ELSE excused
    /\ UNCHANGED <<unsynced, workspace, saved, file, store, closingFlag, wins, told, respawns,
                   tear, uses, owned, unseen>>

Next ==
    \/ Sync \/ TimerFires \/ EditLayout
    \/ Start \/ SignIn \/ Loaded
    \/ Export \/ Import
    \/ TearSpawns \/ TearFails \/ TearDone
    \/ Close \/ Tell \/ Exit \/ Crash \/ SignOut
    \/ \E t \in ids : \/ Respawn(t) \/ Focus(t) \/ Add(t) \/ CloseTab(t) \/ TearOff(t)
                      \/ WindowLoads(t) \/ WindowCloses(t) \/ Reattach(t)

Spec == Init /\ [][Next]_shellVars

-----------------------------------------------------------------------------
TypeOK ==
    /\ main \in {"off", "loading", "on", "closing", "out"}
    /\ {tabs, infos, requested, respawns, owned, excused} \subseteq SUBSET ids
    /\ focus \in ids \union {Nothing} /\ tear.id \in ids \union {Nothing}
    /\ wins \in [ids -> {"none", "opening", "open"}]
    /\ {unsynced, closingFlag, told} \subseteq BOOLEAN
    /\ {workspace.tabs, disk.tabs, mirror.tabs} \subseteq (SUBSET ids) \ {{}}
    /\ main = "on" => tabs # {}

(* A tab that the user has not closed is somewhere: in the main window, in *)
(* a window of its own, or in what the next start reads.  It is lost only  *)
(* by a crash before the save, by a change after the flush of a close, by  *)
(* coming back while the main window is still loading, by a sign-in that   *)
(* finds its window already there, and by a save that a load overtakes.    *)
Somewhere(t) ==
    \/ t \in tabs \union infos \union requested
    \/ wins[t] # "none"
    \/ tabs = {} /\ t \in Due.tabs
NoTabLost == \A t \in owned \ excused : Somewhere(t)

(* No tab is in the main window and in a window of its own at once, but    *)
(* while it is being torn off.                                             *)
NoTabTwice ==
    main = "on" => \A t \in tabs \ excused : wins[t] # "none" => tear.id = t

(* The main window shows one of its tabs, unless the user has gone to the  *)
(* tab being torn off, which detachTab does not notice.                    *)
FocusIsThere == main = "on" /\ "blurred" \notin unseen => focus \in tabs

(* What the main window shows is what the workspace says, and once no save *)
(* is due the disk says the same; but not after a workspace was loaded     *)
(* twice, or while an older save was due.                                  *)
ViewIsWorkspace ==
    main = "on" /\ ~unsynced /\ "replaced" \notin unseen
        => workspace.tabs = tabs /\ workspace.focus = focus
DiskCatchesUp ==
    main = "on" /\ timer = Nothing /\ "replaced" \notin unseen
        => Normalized(disk) = Normalized(workspace) /\ mirror = workspace

(* A detached window that is open comes back with the next start. *)
WindowComesBack == \A t \in ids \ excused : wins[t] = "open" => t \in infos

(* A tab that is shown has one home: the main window, or a window of its   *)
(* own that the next start makes again.                                    *)
OneHome == NoTabTwice /\ WindowComesBack

(* Every tab of the user is somewhere, and shown in one place: tear-offs,  *)
(* reattachments, closes, crashes and sign-outs lose none and double none  *)
(* (tabs.tsx, layout.tsx, DetachedWindow.tsx).                             *)
TabsHaveOneHome == NoTabLost /\ OneHome

(* Tabs, workspace and disk follow each other through tear-offs, loads,    *)
(* crashes and the save timer.                                             *)
WorkspaceIsView == FocusIsThere /\ ViewIsWorkspace /\ DiskCatchesUp
=============================================================================
