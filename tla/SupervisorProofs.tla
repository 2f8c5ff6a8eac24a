-------------------------- MODULE SupervisorProofs --------------------------
(***************************************************************************)
(* Theorems about Supervisor, for any number of workers, ports, processes, *)
(* failures and commands, from an empty stack and from one that is up: its *)
(* types, that a shutdown leaves neither a sidecar in its slot nor a port, *)
(* and that an undisturbed stack never loses a process.                    *)
(***************************************************************************)
EXTENDS Supervisor, WellFoundedInduction, TLAPS

(* What a thread's locals say at the place where it stands.  A pid is in a *)
(* thread's hands between the spawn and the store only; the places where a *)
(* kill and a restart go on to are those of kill_backend_stack's callers.  *)
Place(t) ==
    /\ th[t].pid # None <=> th[t].pc \in {"store", "wStore"}
    /\ th[t].next \in {"idle", "sCheck", "err", "uStopped", "uDone"}
    /\ th[t].after \in {"idle", "done", "wdCheck"}
    /\ th[t].pc = "kill" => th[t].i <= Slots
    /\ th[t].pc = "wCheck" => th[t].i >= 2
    /\ th[t].pc = "wStore" => th[t].i \in 2 .. Slots
Places == \A t \in Thread : Place(t)

(* The streak reaches the limit only on the way to the restart.            *)
StreakLeads ==
    streak < FailsBeforeRestart \/ th["dog"].pc \in {"dAlive", "dConfirm", "dHealthy"}

(* A process is in one pair of hands: one slot's, or one thread's.         *)
OneOwner ==
    /\ \A s, r \in Slot : s # r /\ slot[s] = slot[r] => slot[s] = None
    /\ \A s \in Slot, t \in Thread : slot[s] = th[t].pid => slot[s] = None
    /\ \A t, u \in Thread : t # u /\ th[t].pid = th[u].pid => th[t].pid = None

(* The main thread is on its way out only when the flag is set.            *)
FlagBeforeExit ==
    /\ th["ui"].after = "idle"
    /\ th["ui"].next = "uDone" \/ th["ui"].pc \in {"uDone", "done"} => shutting

(* Once the application shuts down, somebody is about to kill the sidecar  *)
(* that is in its slot and to clear the port that is set: a kill of the    *)
(* stack, or a thread in its poll (or just before it), which sees the flag. *)
WillKill(t) == \/ th[t].pc = "kill" /\ th[t].i = Sidecar
               \/ th[t].pc \in {"setPort", "poll"}
WillClear(t) == th[t].pc \in {"kill", "clearPort", "setPort", "poll", "pollClear"}
StopIsComing ==
    shutting => /\ slot[Sidecar] # None => \E t \in Thread : WillKill(t)
                /\ port # None => \E t \in Thread : WillClear(t)

Order == Places /\ StreakLeads /\ OneOwner /\ FlagBeforeExit /\ StopIsComing
IInv == TypeOK /\ Order

(* The stack in the hands of the sidecar watchdog alone: nobody else       *)
(* starts or kills anything, and the workers that have a handle run.       *)
Alone ==
    /\ ~shutting
    /\ th["init"].pc = "done"
    /\ th["ui"].pc = "idle"
    /\ th["wdog"].pc \in {"idle", "wdCheck"}
    /\ th["dog"].after = "idle"
    /\ \A s \in Slot \ {Sidecar} : slot[s] # None => proc[slot[s]] = [at |-> "ready", port |-> None]
    /\ th["dog"].pc = "wStore" => proc[th["dog"].pid] = [at |-> "ready", port |-> None]

(* Its restart spawns into slots that are empty. *)
SpawnsIntoEmpty ==
    /\ th["dog"].pc = "kill" /\ th["dog"].i > Sidecar => slot[Sidecar] = None
    /\ th["dog"].next \in {"idle", "sCheck", "err"}
    /\ th["dog"].pc \in {"clearPort", "sCheck", "spawn", "store"} => slot[Sidecar] = None
    /\ th["dog"].pc = "wStore" => slot[th["dog"].i] = None

UndisturbedIInv == IInv /\ Alone /\ SpawnsIntoEmpty /\ NoOrphans
-----------------------------------------------------------------------------
(* The choices of the model. *)
LEMMA LeastOfNumbers ==
    ASSUME NEW S \in SUBSET Nat, S # {}
    PROVE  Min(S) \in S
<1> DEFINE Less == {ss \in Nat \X Nat : ss[1] < ss[2]}
<1>1. IsWellFoundedOn(Less, Nat)
  BY NatLessThanWellFounded DEF OpToRel
<1>2. PICK n \in S : \A k \in S : ~ (<<k, n>> \in Less)
  <2> HIDE DEF Less
  <2> QED
    BY <1>1, WFMin
<1>3. ASSUME NEW k \in S PROVE n =< k
  <2>1. k \in Nat /\ n \in Nat
    OBVIOUS
  <2>2. <<k, n>> \notin Less
    BY <1>2
  <2>3. k < n => <<k, n>> \in Less
    BY <2>1
  <2> QED
    BY <2>1, <2>2, <2>3
<1> QED
  BY <1>3 DEF Min

LEMMA NoneIsNoPid == None \notin Pids /\ None \notin Ports
BY PidsAreNumbers, PortsAreNumbers

LEMMA NewPidIsFree == NewPid # None => NewPid \in FreePids
<1>1. FreePids \in SUBSET Nat
  BY PidsAreNumbers DEF FreePids
<1> QED
  BY <1>1, LeastOfNumbers DEF NewPid

LEMMA OpenPortIsPort == OpenPorts # {} => Min(OpenPorts) \in Ports
<1>1. OpenPorts \in SUBSET Nat /\ OpenPorts \subseteq Ports
  BY PortsAreNumbers DEF OpenPorts
<1> QED
  BY <1>1, LeastOfNumbers

(* A thread at rest. *)
LEMMA RestIsLocal ==
    ASSUME NEW pc \in Pc
    PROVE  Rest(pc) \in Local
BY SlotsAssumption, NoneIsNoPid DEF Rest, Local, Pc

(* A thread that comes to rest has nothing left in its hands.              *)
LEMMA ComesToRest ==
    ASSUME th \in [Thread -> Local], NEW t \in Thread, NEW pc \in Pc, GoRest(t, pc)
    PROVE  /\ th' \in [Thread -> Local]
           /\ th'[t].pc = pc /\ th'[t].i = 1 /\ th'[t].pid = None
           /\ th'[t].next = "idle" /\ th'[t].after = "idle"
           /\ \A u \in Thread : u # t => th'[u] = th[u]
<1> DEFINE r == [Rest(pc) EXCEPT !.w = th[t].w]
<1>1. Rest(pc) \in Local
  BY RestIsLocal
<1>2. r \in Local
  BY <1>1 DEF Local
<1>3. r.pc = pc /\ r.i = 1 /\ r.pid = None /\ r.next = "idle" /\ r.after = "idle"
  BY <1>1 DEF Rest
<1>4. th' = [th EXCEPT ![t] = r]
  BY DEF GoRest
<1> HIDE DEF r
<1> QED
  BY <1>2, <1>3, <1>4

(* A kill empties the slot, and takes no process but the one in it.        *)
LEMMA KillTakes ==
    ASSUME proc \in [Pids -> Process], slot \in [Slot -> Pids \cup {None}],
           NEW s \in Slot, TakeAndKill(s)
    PROVE  /\ proc' \in [Pids -> Process] /\ slot' \in [Slot -> Pids \cup {None}]
           /\ slot'[s] = None
           /\ \A r \in Slot : r # s => slot'[r] = slot[r]
           /\ \A p \in Pids : p # slot[s] => proc'[p] = proc[p]
           /\ slot[s] # None => proc'[slot[s]] = Dead
<1>1. Dead \in Process
  BY DEF Process
<1>2. CASE slot[s] = None
  BY <1>2, NoneIsNoPid DEF TakeAndKill
<1>3. CASE slot[s] # None
  <2>1. slot[s] \in Pids
    BY <1>3
  <2> QED
    BY <1>1, <1>3, <2>1 DEF TakeAndKill
<1> QED
  BY <1>2, <1>3
-----------------------------------------------------------------------------
(* A stack step keeps the types. *)
LEMMA StackTypes ==
    ASSUME TypeOK, Places, NEW t \in Thread, StackStep(t)
    PROVE  TypeOK'
<1>0. th \in [Thread -> Local] /\ th[t] \in Local /\ Place(t)
  BY DEF Places, TypeOK
<1>a. 1 \in 1 .. Slots + 1 /\ 2 \in 1 .. Slots + 1 /\ 2 \in 2 .. Slots + 1 /\ Sidecar \in Slot
  BY SlotsAssumption DEF Sidecar, Slot
<1>b. {"idle", "done", "kill", "clearPort", "sCheck", "spawn", "store", "setPort", "poll",
       "pollClear", "wCheck", "wStore", "ok", "err"} \subseteq Pc
  BY DEF Pc
<1>c. {"starting", "healthy", "failed"} \subseteq State
  BY DEF State
<1>1. CASE RestartCheck(t)
  <2>1. th' \in [Thread -> Local]
    <3>1. CASE shutting
      <4>1. th[t].after \in Pc
        BY <1>0 DEF Local
      <4> QED
        BY <1>0, <1>1, <3>1, <4>1, ComesToRest DEF RestartCheck
    <3>2. CASE ~shutting
      <4>1. th' = [th EXCEPT ![t].pc = "kill", ![t].i = 1, ![t].next = "sCheck"]
        BY <1>1, <3>2 DEF RestartCheck
      <4> QED
        BY <1>0, <1>a, <1>b, <4>1 DEF Local
    <3> QED
      BY <3>1, <3>2
  <2> QED
    BY <1>1, <1>c, <2>1 DEF TypeOK, RestartCheck, dogVars, counters
<1>2. CASE KillSlot(t)
  <2>1. th[t].i \in Slot
    BY <1>0, <1>2 DEF KillSlot, Place, Local, Slot
  <2>2. proc' \in [Pids -> Process] /\ slot' \in [Slot -> Pids \cup {None}]
    BY <1>2, <2>1, KillTakes DEF TypeOK, KillSlot
  <2>3. th' \in [Thread -> Local]
    <3>1. CASE th[t].i < Slots
      <4>1. th' = [th EXCEPT ![t].pc = "kill", ![t].i = th[t].i + 1]
        BY <1>2, <3>1 DEF KillSlot, GotoSlot
      <4>2. th[t].i + 1 \in 1 .. Slots + 1
        BY <2>1, <3>1, SlotsAssumption DEF Slot
      <4> QED
        BY <1>0, <1>b, <4>1, <4>2 DEF Local
    <3>2. CASE ~ (th[t].i < Slots)
      <4>1. th' = [th EXCEPT ![t].pc = "clearPort"]
        BY <1>2, <3>2 DEF KillSlot, Goto
      <4> QED
        BY <1>0, <1>b, <4>1 DEF Local
    <3> QED
      BY <3>1, <3>2
  <2> QED
    BY <1>2, <2>2, <2>3 DEF TypeOK, KillSlot, dogVars, counters
<1>3. CASE KillClearsPort(t)
  <2>1. th' = [th EXCEPT ![t].pc = th[t].next, ![t].i = 1, ![t].next = "idle"]
    BY <1>3 DEF KillClearsPort
  <2>2. th' \in [Thread -> Local]
    BY <1>0, <1>a, <1>b, <2>1 DEF Local
  <2> QED
    BY <1>3, <2>2 DEF TypeOK, KillClearsPort, dogVars, counters
<1>4. CASE SpawnCheck(t)
  <2>1. th' = [th EXCEPT ![t].pc = IF shutting THEN "err" ELSE "spawn"]
    BY <1>4 DEF SpawnCheck, Goto
  <2>2. th' \in [Thread -> Local]
    BY <1>0, <1>b, <2>1 DEF Local
  <2> QED
    BY <1>4, <1>c, <2>2 DEF TypeOK, SpawnCheck, dogVars, counters
<1>5. CASE SpawnSidecar(t)
  <2>1. CASE Goto(t, "err") /\ UNCHANGED proc
    <3>1. th' \in [Thread -> Local]
      BY <1>0, <1>b, <2>1 DEF Goto, Local
    <3> QED
      BY <1>5, <2>1, <3>1 DEF TypeOK, SpawnSidecar, dogVars, counters
  <2>2. CASE GotoWorkers(t) /\ UNCHANGED proc
    <3>1. th' \in [Thread -> Local]
      BY <1>0, <1>a, <1>b, <2>2 DEF GotoWorkers, Local
    <3> QED
      BY <1>5, <2>2, <3>1 DEF TypeOK, SpawnSidecar, dogVars, counters
  <2>3. CASE /\ OpenPorts # {} /\ NewPid # None
             /\ proc' = [proc EXCEPT ![NewPid] = [at |-> "starting", port |-> Min(OpenPorts)]]
             /\ th' = [th EXCEPT ![t].pc = "store", ![t].pid = NewPid, ![t].port = Min(OpenPorts)]
    <3>1. NewPid \in Pids /\ Min(OpenPorts) \in Ports
      BY <2>3, NewPidIsFree, OpenPortIsPort DEF FreePids
    <3>2. th' \in [Thread -> Local]
      BY <1>0, <1>b, <2>3, <3>1 DEF Local
    <3>3. proc' \in [Pids -> Process]
      BY <2>3, <3>1 DEF TypeOK, Process
    <3> QED
      BY <1>5, <3>2, <3>3 DEF TypeOK, SpawnSidecar, dogVars, counters
  <2> QED
    BY <1>5, <2>1, <2>2, <2>3 DEF SpawnSidecar
<1>6. CASE SidecarSpawnFails(t)
  <2>1. th' \in [Thread -> Local]
    BY <1>0, <1>6, <1>b DEF SidecarSpawnFails, Goto, Local
  <2> QED
    BY <1>6, <2>1, BoundsAssumption DEF TypeOK, SidecarSpawnFails, Dies, shared, dogVars
<1>7. CASE StoreSidecar(t)
  <2>1. th' = [th EXCEPT ![t].pc = "setPort", ![t].pid = None]
    BY <1>7 DEF StoreSidecar
  <2>2. th' \in [Thread -> Local] /\ th[t].pid \in Pids \cup {None}
    BY <1>0, <1>b, <2>1 DEF Local
  <2> QED
    BY <1>7, <1>a, <2>2 DEF TypeOK, StoreSidecar, dogVars, counters
<1>8. CASE SetPort(t)
  <2>1. th' \in [Thread -> Local] /\ th[t].port \in Ports \cup {None}
    BY <1>0, <1>8, <1>b DEF SetPort, Goto, Local
  <2> QED
    BY <1>8, <2>1 DEF TypeOK, SetPort, dogVars, counters
<1>9. CASE PollAnswered(t)
  <2>1. th' \in [Thread -> Local]
    BY <1>0, <1>9, <1>a, <1>b DEF PollAnswered, GotoWorkers, Local
  <2> QED
    BY <1>9, <2>1 DEF TypeOK, PollAnswered, shared, dogVars, counters
<1>10. CASE PollGivesUp(t)
  <2>1. proc' \in [Pids -> Process] /\ slot' \in [Slot -> Pids \cup {None}]
    BY <1>10, <1>a, KillTakes DEF TypeOK, PollGivesUp
  <2>2. th' \in [Thread -> Local]
    BY <1>0, <1>10, <1>b DEF PollGivesUp, Local
  <2>3. stalls' \in 0 .. MaxStalls
    BY <1>10, BoundsAssumption DEF TypeOK, PollGivesUp, ProbeFails
  <2> QED
    BY <1>10, <2>1, <2>2, <2>3 DEF TypeOK, PollGivesUp, dogVars
<1>11. CASE PollClearsPort(t)
  <2>1. th' \in [Thread -> Local]
    BY <1>0, <1>11, <1>b DEF PollClearsPort, Goto, Local
  <2> QED
    BY <1>11, <2>1 DEF TypeOK, PollClearsPort, dogVars, counters
<1>12. CASE WorkerCheck(t)
  <2>1. CASE Goto(t, "ok") /\ UNCHANGED proc
    <3>1. th' \in [Thread -> Local]
      BY <1>0, <1>b, <2>1 DEF Goto, Local
    <3> QED
      BY <1>12, <2>1, <3>1 DEF TypeOK, WorkerCheck, dogVars, counters
  <2>2. CASE th[t].i <= Slots /\ GotoSlot(t, "wCheck", th[t].i + 1) /\ UNCHANGED proc
    <3>1. th[t].i + 1 \in 1 .. Slots + 1
      BY <1>0, <2>2, SlotsAssumption DEF Local
    <3>2. th' \in [Thread -> Local]
      BY <1>0, <1>b, <2>2, <3>1 DEF GotoSlot, Local
    <3> QED
      BY <1>12, <2>2, <3>2 DEF TypeOK, WorkerCheck, dogVars, counters
  <2>3. CASE /\ NewPid # None
             /\ proc' = [proc EXCEPT ![NewPid] = [at |-> "ready", port |-> None]]
             /\ th' = [th EXCEPT ![t].pc = "wStore", ![t].pid = NewPid]
    <3>1. NewPid \in Pids
      BY <2>3, NewPidIsFree DEF FreePids
    <3>2. th' \in [Thread -> Local]
      BY <1>0, <1>b, <2>3, <3>1 DEF Local
    <3>3. proc' \in [Pids -> Process]
      BY <2>3, <3>1 DEF TypeOK, Process
    <3> QED
      BY <1>12, <3>2, <3>3 DEF TypeOK, WorkerCheck, dogVars, counters
  <2> QED
    BY <1>12, <2>1, <2>2, <2>3 DEF WorkerCheck
<1>13. CASE StoreWorker(t)
  <2>1. th[t].i \in Slot /\ th[t].i + 1 \in 1 .. Slots + 1 /\ th[t].pid \in Pids \cup {None}
    BY <1>0, <1>13, SlotsAssumption DEF StoreWorker, Place, Local, Slot
  <2>2. th' = [th EXCEPT ![t].pc = "wCheck", ![t].i = th[t].i + 1, ![t].pid = None]
    BY <1>0, <1>13 DEF StoreWorker
  <2>3. th' \in [Thread -> Local]
    BY <1>0, <1>b, <2>1, <2>2 DEF Local
  <2> QED
    BY <1>13, <2>1, <2>3 DEF TypeOK, StoreWorker, dogVars, counters
<1>14. CASE WorkerSpawnFails(t)
  <2>1. th' = [th EXCEPT ![t].pc = "kill", ![t].i = 1, ![t].next = "err", ![t].port = None]
    BY <1>14 DEF WorkerSpawnFails
  <2>2. th' \in [Thread -> Local]
    BY <1>0, <1>a, <1>b, <2>1 DEF Local
  <2> QED
    BY <1>14, <2>2, BoundsAssumption DEF TypeOK, WorkerSpawnFails, Dies, shared, dogVars
<1>15. CASE StackUp(t)
  <2>1. th' \in [Thread -> Local] /\ th[t].warm \in BOOLEAN
    BY <1>0, <1>15, ComesToRest DEF StackUp, Local
  <2> QED
    BY <1>15, <1>c, <2>1 DEF TypeOK, StackUp, counters
<1>16. CASE StackFailed(t)
  <2>1. th' \in [Thread -> Local]
    BY <1>0, <1>16, ComesToRest DEF StackFailed, Local
  <2> QED
    BY <1>16, <1>c, <2>1 DEF TypeOK, StackFailed, dogVars, counters
<1> QED
  BY <1>1, <1>2, <1>3, <1>4, <1>5, <1>6, <1>7, <1>8, <1>9, <1>10, <1>11, <1>12, <1>13, <1>14, <1>15, <1>16 DEF StackStep
-----------------------------------------------------------------------------
(* What one thread's step must respect for the order to be kept: it takes  *)
(* no process out of other hands, fills no slot and sets no port, and does *)
(* not forget what it was about to kill or clear.                          *)
Only(t) == \A u \in Thread : u # t => th'[u] = th[u]
TakesNothing(t) ==
    /\ th'[t].pid \in {th[t].pid, None}
    /\ \A s \in Slot : slot'[s] \in {slot[s], None}
    /\ port' \in {port, None}
KeepsItsWord(t) ==
    /\ WillKill(t) => WillKill(t)' \/ slot'[Sidecar] = None
    /\ WillClear(t) => WillClear(t)' \/ port' = None

LEMMA PlacesKept ==
    ASSUME Places, NEW t \in Thread, Only(t), Place(t)'
    PROVE  Places'
BY DEF Places, Place, Only

LEMMA OwnersKept ==
    ASSUME OneOwner, NEW t \in Thread, Only(t), TakesNothing(t)
    PROVE  OneOwner'
<1>1. \A u \in Thread : th'[u].pid \in {th[u].pid, None}
  BY DEF Only, TakesNothing
<1>2. \A s \in Slot : slot'[s] \in {slot[s], None}
  BY DEF TakesNothing
<1> QED
  BY <1>1, <1>2 DEF OneOwner

LEMMA OwnersAtSpawn ==
    ASSUME OneOwner, NEW t \in Thread, Only(t), slot' = slot,
           NewPid # None, th'[t].pid = NewPid
    PROVE  OneOwner'
<1>1. /\ \A s \in Slot : slot[s] # NewPid
      /\ \A u \in Thread : th[u].pid # NewPid
  BY NewPidIsFree DEF FreePids, Handled
<1> QED
  BY <1>1 DEF OneOwner, Only

LEMMA OwnersAtStore ==
    ASSUME TypeOK, OneOwner, NEW t \in Thread, Only(t), NEW n \in Slot,
           slot' = [slot EXCEPT ![n] = th[t].pid], th'[t].pid = None
    PROVE  OneOwner'
<1>1. slot'[n] = th[t].pid /\ \A s \in Slot : s # n => slot'[s] = slot[s]
  BY DEF TypeOK
<1>2. \A u \in Thread : u # t => th'[u].pid = th[u].pid
  BY DEF Only
<1>3. \A s, r \in Slot : s # r /\ slot'[s] = slot'[r] => slot'[s] = None
  BY <1>1 DEF OneOwner
<1>4. \A s \in Slot, u \in Thread : slot'[s] = th'[u].pid => slot'[s] = None
  <2> SUFFICES ASSUME NEW s \in Slot, NEW u \in Thread, slot'[s] = th'[u].pid
               PROVE  slot'[s] = None
    OBVIOUS
  <2>1. CASE u = t
    BY <2>1
  <2>2. CASE u # t /\ s = n
    BY <1>1, <1>2, <2>2 DEF OneOwner
  <2>3. CASE u # t /\ s # n
    BY <1>1, <1>2, <2>3 DEF OneOwner
  <2> QED
    BY <2>1, <2>2, <2>3
<1>5. \A v, u \in Thread : v # u /\ th'[v].pid = th'[u].pid => th'[v].pid = None
  BY <1>2 DEF OneOwner
<1> QED
  BY <1>3, <1>4, <1>5 DEF OneOwner

LEMMA StopKept ==
    ASSUME StopIsComing, NEW t \in Thread, Only(t), shutting' = shutting,
           slot'[Sidecar] \in {slot[Sidecar], None}, port' \in {port, None},
           shutting => KeepsItsWord(t)
    PROVE  StopIsComing'
<1>1. ASSUME shutting, slot'[Sidecar] # None
      PROVE  \E u \in Thread : WillKill(u)'
  <2>1. slot[Sidecar] # None
    BY <1>1
  <2>2. PICK u \in Thread : WillKill(u)
    BY <1>1, <2>1 DEF StopIsComing
  <2>3. CASE u = t
    BY <1>1, <2>2, <2>3 DEF KeepsItsWord
  <2>4. CASE u # t
    BY <2>2, <2>4 DEF Only, WillKill
  <2> QED
    BY <2>3, <2>4
<1>2. ASSUME shutting, port' # None
      PROVE  \E u \in Thread : WillClear(u)'
  <2>1. port # None
    BY <1>2
  <2>2. PICK u \in Thread : WillClear(u)
    BY <1>2, <2>1 DEF StopIsComing
  <2>3. CASE u = t
    BY <1>2, <2>2, <2>3 DEF KeepsItsWord
  <2>4. CASE u # t
    BY <2>2, <2>4 DEF Only, WillClear
  <2> QED
    BY <2>3, <2>4
<1> QED
  BY <1>1, <1>2 DEF StopIsComing

LEMMA FlagKept ==
    ASSUME FlagBeforeExit, NEW t \in Thread, Only(t), shutting' = shutting,
           th'[t].after \in {th[t].after, "idle"},
           th'[t].next \in {th[t].next, "idle", "sCheck", "err"},
           \/ th'[t].pc \notin {"uDone", "done"}
           \/ th'[t].pc = th[t].next /\ th[t].next # "done"
           \/ th'[t].pc = th[t].after
           \/ shutting
    PROVE  FlagBeforeExit'
<1>1. CASE t = "ui"
  BY <1>1 DEF FlagBeforeExit
<1>2. CASE t # "ui"
  BY <1>2 DEF FlagBeforeExit, Only, Thread
<1> QED
  BY <1>1, <1>2

LEMMA StreakKept ==
    ASSUME StreakLeads, NEW t \in Thread, Only(t), streak' = streak,
           t = "dog" => th[t].pc \notin {"dAlive", "dConfirm", "dHealthy"}
    PROVE  StreakLeads'
BY DEF StreakLeads, Only, Thread

(* The steps that respect all of it. *)
LEMMA OrderKept ==
    ASSUME Order, NEW t \in Thread, Only(t), TakesNothing(t), Place(t)',
           shutting' = shutting, shutting => KeepsItsWord(t), StreakLeads', FlagBeforeExit'
    PROVE  Order'
<1>1. Sidecar \in Slot
  BY SlotsAssumption DEF Sidecar, Slot
<1>2. Places'
  BY PlacesKept DEF Order
<1>3. OneOwner'
  BY OwnersKept DEF Order
<1>4. StopIsComing'
  BY <1>1, StopKept DEF Order, TakesNothing
<1> QED
  BY <1>2, <1>3, <1>4 DEF Order
-----------------------------------------------------------------------------
(* A stack step keeps the order. *)
LEMMA StackOrder ==
    ASSUME TypeOK, Order, NEW t \in Thread, StackStep(t)
    PROVE  Order'
<1> DEFINE Old == th[t]
           New == th'[t]
<1>0. th \in [Thread -> Local] /\ Old \in Local /\ Place(t)
  BY DEF Order, Places, TypeOK
<1>a. Sidecar = 1 /\ Sidecar \in Slot /\ Slots \in Nat /\ Slots >= 1
  BY SlotsAssumption DEF Sidecar, Slot
<1>b. shutting' = shutting /\ streak' = streak
  BY DEF StackStep, RestartCheck, KillSlot, KillClearsPort, SpawnCheck, SpawnSidecar,
         SidecarSpawnFails, StoreSidecar, SetPort, PollAnswered, PollGivesUp, PollClearsPort,
         WorkerCheck, StoreWorker, WorkerSpawnFails, StackUp, StackFailed, shared, dogVars
<1>c. Old.pc \notin {"dAlive", "dConfirm", "dHealthy"}
  BY DEF StackStep, RestartCheck, KillSlot, KillClearsPort, SpawnCheck, SpawnSidecar,
         SidecarSpawnFails, StoreSidecar, SetPort, PollAnswered, PollGivesUp, PollClearsPort,
         WorkerCheck, StoreWorker, WorkerSpawnFails, StackUp, StackFailed
<1>d. ASSUME Only(t) PROVE StreakLeads'
  BY <1>b, <1>c, <1>d, StreakKept DEF Order
(* A step that takes no process into its hands and sets no port. *)
<1>e. ASSUME Only(t), Place(t)', TakesNothing(t), shutting => KeepsItsWord(t),
             New.after \in {Old.after, "idle"},
             New.next \in {Old.next, "idle", "sCheck", "err"},
             \/ New.pc \notin {"uDone", "done"}
             \/ New.pc = Old.next
             \/ New.pc = Old.after
      PROVE  Order'
  <2>1. FlagBeforeExit'
    <3>1. Old.next # "done"
      BY <1>0 DEF Place
    <3> QED
      BY <1>b, <1>e, <3>1, FlagKept DEF Order
  <2> QED
    BY <1>b, <1>d, <1>e, <2>1, OrderKept
<1>1. CASE RestartCheck(t)
  <2>1. CASE shutting
    <3>1. Only(t) /\ New.pc = Old.after /\ New.pid = None /\ New.next = "idle" /\ New.after = "idle"
      BY <1>0, <1>1, <2>1, ComesToRest DEF RestartCheck, Only, Local
    <3>2. Place(t)'
      BY <1>0, <1>1, <2>1, <3>1 DEF Place
    <3>3. TakesNothing(t) /\ KeepsItsWord(t)
      BY <1>1, <2>1, <3>1 DEF TakesNothing, KeepsItsWord, WillKill, WillClear, RestartCheck, shared
    <3> QED
      BY <1>e, <3>1, <3>2, <3>3
  <2>2. CASE ~shutting
    <3>1. /\ Only(t) /\ New.pc = "kill" /\ New.next = "sCheck" /\ New.after = Old.after
          /\ New.pid = Old.pid /\ New.i = 1
      BY <1>0, <1>1, <2>2 DEF RestartCheck, Only, Local
    <3>2. Place(t)'
      BY <1>0, <1>a, <1>1, <2>2, <3>1 DEF Place, RestartCheck
    <3>3. TakesNothing(t)
      BY <1>0, <1>1, <2>2, <3>1 DEF TakesNothing, RestartCheck
    <3>4. shutting => KeepsItsWord(t)
      BY <1>0, <1>a, <1>1, <2>2, <3>1 DEF KeepsItsWord, WillKill, WillClear, RestartCheck
    <3> QED
      BY <1>0, <1>e, <1>1, <2>2, <3>1, <3>2, <3>3, <3>4 DEF Place
  <2> QED
    BY <2>1, <2>2
<1>2. CASE KillSlot(t)
  <2>0. Old.i \in Slot
    BY <1>0, <1>2 DEF KillSlot, Place, Local, Slot
  <2>a. slot'[Old.i] = None /\ \A s \in Slot : slot'[s] \in {slot[s], None}
    BY <1>2, <2>0, KillTakes DEF KillSlot, TypeOK
  <2>1. CASE Old.i < Slots
    <3>1. /\ Only(t) /\ New.pc = "kill" /\ New.next = Old.next /\ New.after = Old.after
          /\ New.pid = Old.pid /\ New.i = Old.i + 1
      BY <1>0, <1>2, <2>1 DEF KillSlot, GotoSlot, Only, Local
    <3>2. Place(t)'
      BY <1>0, <1>a, <1>2, <2>0, <2>1, <3>1 DEF Place, KillSlot, Slot
    <3>3. TakesNothing(t)
      BY <1>0, <1>2, <2>1, <3>1, <2>0, <2>a DEF TakesNothing, KillSlot
    <3>4. shutting => KeepsItsWord(t)
      BY <1>0, <1>a, <1>2, <2>1, <3>1, <2>0, <2>a DEF KeepsItsWord, WillKill, WillClear, KillSlot,
         Local
    <3> QED
      BY <1>0, <1>e, <1>2, <2>1, <3>1, <3>2, <3>3, <3>4 DEF Place
  <2>2. CASE ~ (Old.i < Slots)
    <3>1. /\ Only(t) /\ New.pc = "clearPort" /\ New.next = Old.next /\ New.after = Old.after
          /\ New.pid = Old.pid
      BY <1>0, <1>2, <2>2 DEF KillSlot, Goto, Only, Local
    <3>2. Place(t)'
      BY <1>0, <1>a, <1>2, <2>2, <3>1 DEF Place, KillSlot
    <3>3. TakesNothing(t)
      BY <1>0, <1>2, <2>2, <3>1, <2>0, <2>a DEF TakesNothing, KillSlot
    <3>4. shutting => KeepsItsWord(t)
      BY <1>0, <1>a, <1>2, <2>2, <3>1, <2>0, <2>a DEF KeepsItsWord, WillKill, WillClear, KillSlot,
         Local
    <3> QED
      BY <1>0, <1>e, <1>2, <2>2, <3>1, <3>2, <3>3, <3>4 DEF Place
  <2> QED
    BY <2>1, <2>2
<1>3. CASE KillClearsPort(t)
  <2>1. /\ Only(t) /\ New.pc = Old.next /\ New.next = "idle" /\ New.after = Old.after
        /\ New.pid = Old.pid /\ New.i = 1
    BY <1>0, <1>3 DEF KillClearsPort, Only, Local
  <2>2. Place(t)'
    BY <1>0, <1>a, <1>3, <2>1 DEF Place, KillClearsPort
  <2>3. TakesNothing(t)
    BY <1>0, <1>3, <2>1 DEF TakesNothing, KillClearsPort
  <2>4. shutting => KeepsItsWord(t)
    BY <1>0, <1>a, <1>3, <2>1 DEF KeepsItsWord, WillKill, WillClear, KillClearsPort
  <2> QED
    BY <1>0, <1>e, <1>3, <2>1, <2>2, <2>3, <2>4 DEF Place
<1>4. CASE SpawnCheck(t)
  <2>1. /\ Only(t) /\ New.pc = (IF shutting THEN "err" ELSE "spawn") /\ New.next = Old.next
        /\ New.after = Old.after /\ New.pid = Old.pid
    BY <1>0, <1>4 DEF SpawnCheck, Goto, Only, Local
  <2>2. Place(t)'
    BY <1>0, <1>a, <1>4, <2>1 DEF Place, SpawnCheck
  <2>3. TakesNothing(t)
    BY <1>0, <1>4, <2>1 DEF TakesNothing, SpawnCheck
  <2>4. shutting => KeepsItsWord(t)
    BY <1>0, <1>a, <1>4, <2>1 DEF KeepsItsWord, WillKill, WillClear, SpawnCheck
  <2> QED
    BY <1>0, <1>e, <1>4, <2>1, <2>2, <2>3, <2>4 DEF Place
<1>5. CASE SpawnSidecar(t)
  <2>1. CASE Goto(t, "err")
    <3>1. /\ Only(t) /\ New.pc = "err" /\ New.next = Old.next /\ New.after = Old.after
          /\ New.pid = Old.pid
      BY <1>0, <1>5, <2>1 DEF SpawnSidecar, Goto, Only, Local
    <3>2. Place(t)'
      BY <1>0, <1>a, <1>5, <2>1, <3>1 DEF Place, SpawnSidecar
    <3>3. TakesNothing(t)
      BY <1>0, <1>5, <2>1, <3>1 DEF TakesNothing, SpawnSidecar
    <3>4. shutting => KeepsItsWord(t)
      BY <1>0, <1>a, <1>5, <2>1, <3>1 DEF KeepsItsWord, WillKill, WillClear, SpawnSidecar
    <3> QED
      BY <1>0, <1>e, <1>5, <2>1, <3>1, <3>2, <3>3, <3>4 DEF Place
  <2>2. CASE GotoWorkers(t)
    <3>1. /\ Only(t) /\ New.pc = "wCheck" /\ New.next = Old.next /\ New.after = Old.after
          /\ New.pid = Old.pid /\ New.i = 2
      BY <1>0, <1>5, <2>2 DEF SpawnSidecar, GotoWorkers, Only, Local
    <3>2. Place(t)'
      BY <1>0, <1>a, <1>5, <2>2, <3>1 DEF Place, SpawnSidecar
    <3>3. TakesNothing(t)
      BY <1>0, <1>5, <2>2, <3>1 DEF TakesNothing, SpawnSidecar
    <3>4. shutting => KeepsItsWord(t)
      BY <1>0, <1>a, <1>5, <2>2, <3>1 DEF KeepsItsWord, WillKill, WillClear, SpawnSidecar
    <3> QED
      BY <1>0, <1>e, <1>5, <2>2, <3>1, <3>2, <3>3, <3>4 DEF Place
  <2>3. CASE /\ NewPid # None
             /\ th' = [th EXCEPT ![t].pc = "store", ![t].pid = NewPid, ![t].port = Min(OpenPorts)]
    <3>1. /\ Only(t) /\ New.pc = "store" /\ New.next = Old.next /\ New.after = Old.after
          /\ New.pid = NewPid /\ New.i = Old.i
      BY <1>0, <1>5, <2>3 DEF SpawnSidecar, Only, Local
    <3>2. Places'
      <4>1. Place(t)'
        BY <1>0, <1>a, <1>5, <2>3, <3>1 DEF Place, SpawnSidecar, Local
      <4> QED
        BY <3>1, <4>1, PlacesKept DEF Order
    <3>3. FlagBeforeExit'
      BY <1>b, <3>1, FlagKept DEF Order
    <3>4. OneOwner'
      BY <1>5, <2>3, <3>1, OwnersAtSpawn DEF Order, SpawnSidecar
    <3>5. StopIsComing'
      <4>1. KeepsItsWord(t)
        BY <1>5, <2>3, <3>1 DEF KeepsItsWord, WillKill, WillClear, SpawnSidecar
      <4>2. slot'[Sidecar] \in {slot[Sidecar], None} /\ port' \in {port, None}
        BY <1>0, <1>a, <1>5, <2>3 DEF SpawnSidecar, TypeOK, Place
      <4> QED
        BY <1>b, <3>1, <4>1, <4>2, StopKept DEF Order
    <3> QED
      BY <1>d, <3>1, <3>2, <3>3, <3>4, <3>5 DEF Order
  <2> QED
    BY <1>5, <2>1, <2>2, <2>3 DEF SpawnSidecar
<1>6. CASE SidecarSpawnFails(t)
  <2>1. /\ Only(t) /\ New.pc = "err" /\ New.next = Old.next /\ New.after = Old.after
        /\ New.pid = Old.pid
    BY <1>0, <1>6 DEF SidecarSpawnFails, Goto, Only, Local
  <2>2. Place(t)'
    BY <1>0, <1>a, <1>6, <2>1 DEF Place, SidecarSpawnFails
  <2>3. TakesNothing(t)
    BY <1>0, <1>6, <2>1 DEF TakesNothing, SidecarSpawnFails, shared
  <2>4. shutting => KeepsItsWord(t)
    BY <1>0, <1>a, <1>6, <2>1 DEF KeepsItsWord, WillKill, WillClear, SidecarSpawnFails
  <2> QED
    BY <1>0, <1>e, <1>6, <2>1, <2>2, <2>3, <2>4 DEF Place
<1>7. CASE StoreSidecar(t)
  <2>1. /\ Only(t) /\ New.pc = "setPort" /\ New.next = Old.next /\ New.after = Old.after
        /\ New.pid = None /\ New.i = Old.i
    BY <1>0, <1>7 DEF StoreSidecar, Only, Local
  <2>2. Places'
    <3>1. Place(t)'
      BY <1>0, <1>a, <1>7, <2>1 DEF Place, StoreSidecar, Local
    <3> QED
      BY <2>1, <3>1, PlacesKept DEF Order
  <2>3. FlagBeforeExit'
    BY <1>b, <2>1, FlagKept DEF Order
  <2>4. OneOwner'
    BY <1>7, <2>1, <1>a, OwnersAtStore DEF Order, StoreSidecar
  <2>5. StopIsComing'
    <3>1. WillKill(t)'
      BY <2>1 DEF WillKill
    <3>2. ASSUME shutting, port # None
           PROVE  \E u \in Thread : WillClear(u)'
      <4>1. PICK u \in Thread : WillClear(u)
        BY <3>2 DEF Order, StopIsComing
      <4>2. u # t
        BY <1>7, <4>1 DEF WillClear, StoreSidecar
      <4> QED
        BY <2>1, <4>1, <4>2 DEF Only, WillClear
    <3> QED
      BY <1>7, <1>b, <3>1, <3>2 DEF StopIsComing, StoreSidecar
  <2> QED
    BY <1>d, <2>1, <2>2, <2>3, <2>4, <2>5 DEF Order
<1>8. CASE SetPort(t)
  <2>1. /\ Only(t) /\ New.pc = "poll" /\ New.next = Old.next /\ New.after = Old.after
        /\ New.pid = Old.pid /\ New.i = Old.i
    BY <1>0, <1>8 DEF SetPort, Goto, Only, Local
  <2>2. Places'
    <3>1. Place(t)'
      BY <1>0, <1>a, <1>8, <2>1 DEF Place, SetPort, Local
    <3> QED
      BY <2>1, <3>1, PlacesKept DEF Order
  <2>3. FlagBeforeExit'
    BY <1>b, <2>1, FlagKept DEF Order
  <2>4. OneOwner'
    BY <1>8, <2>1 DEF Order, OneOwner, Only, SetPort
  <2>5. StopIsComing'
    <3>1. WillClear(t)'
      BY <2>1 DEF WillClear
    <3>2. ASSUME shutting, slot[Sidecar] # None
           PROVE  \E u \in Thread : WillKill(u)'
      BY <2>1 DEF WillKill
    <3> QED
      BY <1>8, <1>b, <3>1, <3>2 DEF StopIsComing, SetPort
  <2> QED
    BY <1>d, <2>1, <2>2, <2>3, <2>4, <2>5 DEF Order
<1>9. CASE PollAnswered(t)
  <2>1. /\ Only(t) /\ New.pc = "wCheck" /\ New.next = Old.next /\ New.after = Old.after
        /\ New.pid = Old.pid /\ New.i = 2
    BY <1>0, <1>9 DEF PollAnswered, GotoWorkers, Only, Local
  <2>2. Place(t)'
    BY <1>0, <1>a, <1>9, <2>1 DEF Place, PollAnswered
  <2>3. TakesNothing(t)
    BY <1>0, <1>9, <2>1 DEF TakesNothing, PollAnswered, shared
  <2>4. shutting => KeepsItsWord(t)
    BY <1>0, <1>a, <1>9, <2>1 DEF KeepsItsWord, WillKill, WillClear, PollAnswered
  <2> QED
    BY <1>0, <1>e, <1>9, <2>1, <2>2, <2>3, <2>4 DEF Place
<1>10. CASE PollGivesUp(t)
  <2>0. slot'[Sidecar] = None /\ \A s \in Slot : slot'[s] \in {slot[s], None}
    BY <1>10, <1>a, KillTakes DEF PollGivesUp, TypeOK
  <2>1. /\ Only(t) /\ New.pc = "pollClear" /\ New.next = Old.next /\ New.after = Old.after
        /\ New.pid = Old.pid
    BY <1>0, <1>10 DEF PollGivesUp, Only, Local
  <2>2. Place(t)'
    BY <1>0, <1>a, <1>10, <2>1 DEF Place, PollGivesUp
  <2>3. TakesNothing(t)
    BY <1>0, <1>10, <2>1, <2>0 DEF TakesNothing, PollGivesUp
  <2>4. shutting => KeepsItsWord(t)
    BY <1>0, <1>a, <1>10, <2>1, <2>0 DEF KeepsItsWord, WillKill, WillClear, PollGivesUp
  <2> QED
    BY <1>0, <1>e, <1>10, <2>1, <2>2, <2>3, <2>4 DEF Place
<1>11. CASE PollClearsPort(t)
  <2>1. /\ Only(t) /\ New.pc = "err" /\ New.next = Old.next /\ New.after = Old.after
        /\ New.pid = Old.pid
    BY <1>0, <1>11 DEF PollClearsPort, Goto, Only, Local
  <2>2. Place(t)'
    BY <1>0, <1>a, <1>11, <2>1 DEF Place, PollClearsPort
  <2>3. TakesNothing(t)
    BY <1>0, <1>11, <2>1 DEF TakesNothing, PollClearsPort
  <2>4. shutting => KeepsItsWord(t)
    BY <1>0, <1>a, <1>11, <2>1 DEF KeepsItsWord, WillKill, WillClear, PollClearsPort
  <2> QED
    BY <1>0, <1>e, <1>11, <2>1, <2>2, <2>3, <2>4 DEF Place
<1>12. CASE WorkerCheck(t)
  <2>1. CASE Goto(t, "ok")
    <3>1. /\ Only(t) /\ New.pc = "ok" /\ New.next = Old.next /\ New.after = Old.after
          /\ New.pid = Old.pid
      BY <1>0, <1>12, <2>1 DEF WorkerCheck, Goto, Only, Local
    <3>2. Place(t)'
      BY <1>0, <1>a, <1>12, <2>1, <3>1 DEF Place, WorkerCheck
    <3>3. TakesNothing(t)
      BY <1>0, <1>12, <2>1, <3>1 DEF TakesNothing, WorkerCheck
    <3>4. shutting => KeepsItsWord(t)
      BY <1>0, <1>a, <1>12, <2>1, <3>1 DEF KeepsItsWord, WillKill, WillClear, WorkerCheck
    <3> QED
      BY <1>0, <1>e, <1>12, <2>1, <3>1, <3>2, <3>3, <3>4 DEF Place
  <2>2. CASE GotoSlot(t, "wCheck", Old.i + 1)
    <3>1. /\ Only(t) /\ New.pc = "wCheck" /\ New.next = Old.next /\ New.after = Old.after
          /\ New.pid = Old.pid /\ New.i = Old.i + 1
      BY <1>0, <1>12, <2>2 DEF WorkerCheck, GotoSlot, Only, Local
    <3>2. Place(t)'
      BY <1>0, <1>a, <1>12, <2>2, <3>1 DEF Place, WorkerCheck, Local
    <3>3. TakesNothing(t)
      BY <1>0, <1>12, <2>2, <3>1 DEF TakesNothing, WorkerCheck
    <3>4. shutting => KeepsItsWord(t)
      BY <1>0, <1>a, <1>12, <2>2, <3>1 DEF KeepsItsWord, WillKill, WillClear, WorkerCheck
    <3> QED
      BY <1>0, <1>e, <1>12, <2>2, <3>1, <3>2, <3>3, <3>4 DEF Place
  <2>3. CASE /\ Old.i <= Slots /\ NewPid # None
             /\ th' = [th EXCEPT ![t].pc = "wStore", ![t].pid = NewPid]
    <3>1. /\ Only(t) /\ New.pc = "wStore" /\ New.next = Old.next /\ New.after = Old.after
          /\ New.pid = NewPid /\ New.i = Old.i
      BY <1>0, <1>12, <2>3 DEF WorkerCheck, Only, Local
    <3>2. Places'
      <4>1. Place(t)'
        BY <1>0, <1>a, <1>12, <2>3, <3>1 DEF Place, WorkerCheck, Local
      <4> QED
        BY <3>1, <4>1, PlacesKept DEF Order
    <3>3. FlagBeforeExit'
      BY <1>b, <3>1, FlagKept DEF Order
    <3>4. OneOwner'
      BY <1>12, <2>3, <3>1, OwnersAtSpawn DEF Order, WorkerCheck
    <3>5. StopIsComing'
      <4>1. KeepsItsWord(t)
        BY <1>12, <2>3, <3>1 DEF KeepsItsWord, WillKill, WillClear, WorkerCheck
      <4>2. slot'[Sidecar] \in {slot[Sidecar], None} /\ port' \in {port, None}
        BY <1>0, <1>a, <1>12, <2>3 DEF WorkerCheck, TypeOK, Place
      <4> QED
        BY <1>b, <3>1, <4>1, <4>2, StopKept DEF Order
    <3> QED
      BY <1>d, <3>1, <3>2, <3>3, <3>4, <3>5 DEF Order
  <2> QED
    BY <1>12, <2>1, <2>2, <2>3 DEF WorkerCheck
<1>13. CASE StoreWorker(t)
  <2>0. Old.i \in Slot /\ Old.i \in 2 .. Slots
    BY <1>0, <1>13 DEF StoreWorker, Place, Slot
  <2>1. /\ Only(t) /\ New.pc = "wCheck" /\ New.next = Old.next /\ New.after = Old.after
        /\ New.pid = None /\ New.i = Old.i + 1
    BY <1>0, <1>13 DEF StoreWorker, Only, Local
  <2>2. Places'
    <3>1. Place(t)'
      BY <1>0, <1>a, <1>13, <2>1 DEF Place, StoreWorker, Local
    <3> QED
      BY <2>1, <3>1, PlacesKept DEF Order
  <2>3. FlagBeforeExit'
    BY <1>b, <2>1, FlagKept DEF Order
  <2>4. OneOwner'
    BY <1>13, <2>1, <2>0, OwnersAtStore DEF Order, StoreWorker
  <2>5. StopIsComing'
    <3>1. KeepsItsWord(t)
      BY <1>13, <2>1 DEF KeepsItsWord, WillKill, WillClear, StoreWorker
    <3>2. slot'[Sidecar] \in {slot[Sidecar], None} /\ port' \in {port, None}
      BY <1>0, <1>a, <1>13 DEF StoreWorker, TypeOK, Place
    <3> QED
      BY <1>b, <2>1, <3>1, <3>2, StopKept DEF Order
  <2> QED
    BY <1>d, <2>1, <2>2, <2>3, <2>4, <2>5 DEF Order
<1>14. CASE WorkerSpawnFails(t)
  <2>1. /\ Only(t) /\ New.pc = "kill" /\ New.next = "err" /\ New.after = Old.after
        /\ New.pid = Old.pid /\ New.i = 1
    BY <1>0, <1>14 DEF WorkerSpawnFails, Only, Local
  <2>2. Place(t)'
    BY <1>0, <1>a, <1>14, <2>1 DEF Place, WorkerSpawnFails
  <2>3. TakesNothing(t)
    BY <1>0, <1>14, <2>1 DEF TakesNothing, WorkerSpawnFails, shared
  <2>4. shutting => KeepsItsWord(t)
    BY <1>0, <1>a, <1>14, <2>1 DEF KeepsItsWord, WillKill, WillClear, WorkerSpawnFails
  <2> QED
    BY <1>0, <1>e, <1>14, <2>1, <2>2, <2>3, <2>4 DEF Place
<1>15. CASE StackUp(t)
  <2>1. Only(t) /\ New.pc = Old.after /\ New.pid = None /\ New.next = "idle" /\ New.after = "idle"
    BY <1>0, <1>15, ComesToRest DEF StackUp, Only, Local
  <2>2. Place(t)'
    BY <1>0, <1>15, <2>1 DEF Place
  <2>3. TakesNothing(t) /\ KeepsItsWord(t)
    BY <1>15, <2>1 DEF TakesNothing, KeepsItsWord, WillKill, WillClear, StackUp, shared
  <2> QED
    BY <1>e, <2>1, <2>2, <2>3
<1>16. CASE StackFailed(t)
  <2>1. Only(t) /\ New.pc = Old.after /\ New.pid = None /\ New.next = "idle" /\ New.after = "idle"
    BY <1>0, <1>16, ComesToRest DEF StackFailed, Only, Local
  <2>2. Place(t)'
    BY <1>0, <1>16, <2>1 DEF Place
  <2>3. TakesNothing(t) /\ KeepsItsWord(t)
    BY <1>16, <2>1 DEF TakesNothing, KeepsItsWord, WillKill, WillClear, StackFailed, shared
  <2> QED
    BY <1>e, <2>1, <2>2, <2>3
<1> QED
  BY <1>1, <1>2, <1>3, <1>4, <1>5, <1>6, <1>7, <1>8, <1>9, <1>10, <1>11, <1>12, <1>13, <1>14,
     <1>15, <1>16 DEF StackStep
-----------------------------------------------------------------------------
(* The steps of the watchdogs and of the start-up thread, outside the      *)
(* stack's own.                                                            *)
Watching == {"begin", "idle", "done", "rCheck", "sCheck", "ensure", "wdCheck", "dRead",
             "dProbe", "dHealthy", "dAlive", "dConfirm", "dMissing"}
Watches(t) ==
    /\ Only(t)
    /\ th[t].pc \in Watching /\ th'[t].pc \in Watching
    /\ th'[t].pid \in {th[t].pid, None}
    /\ th'[t].next \in {th[t].next, "idle"}
    /\ th'[t].after \in {th[t].after, "idle", "done", "wdCheck"}

LEMMA WatchingKeeps ==
    ASSUME Order, NEW t \in {"init", "dog", "wdog"}, Watches(t),
           UNCHANGED <<slot, port, shutting>>, StreakLeads'
    PROVE  Order'
<1>0. t \in Thread /\ Place(t)
  BY DEF Order, Places, Thread
<1>1. Only(t) /\ TakesNothing(t)
  BY DEF Watches, TakesNothing
<1>2. Place(t)'
  BY <1>0 DEF Place, Watches, Watching
<1>3. KeepsItsWord(t)
  BY DEF KeepsItsWord, WillKill, WillClear, Watches, Watching
<1>4. FlagBeforeExit'
  BY <1>1 DEF Order, FlagBeforeExit, Only, Thread
<1> QED
  BY <1>0, <1>1, <1>2, <1>3, <1>4, OrderKept

(* A thread that only goes on to another place. *)
LEMMA GoesOn ==
    ASSUME th \in [Thread -> Local], NEW t \in Thread, NEW pc \in Pc, Goto(t, pc)
    PROVE  /\ th' \in [Thread -> Local] /\ Only(t)
           /\ th'[t].pc = pc /\ th'[t].pid = th[t].pid
           /\ th'[t].next = th[t].next /\ th'[t].after = th[t].after
BY DEF Goto, Only, Local

LEMMA GoesToRest ==
    ASSUME th \in [Thread -> Local], NEW t \in Thread, NEW pc \in Pc, GoRest(t, pc)
    PROVE  /\ th' \in [Thread -> Local] /\ Only(t)
           /\ th'[t].pc = pc /\ th'[t].pid = None
           /\ th'[t].next = "idle" /\ th'[t].after = "idle"
BY ComesToRest DEF Only

LEMMA GoesToEnsure ==
    ASSUME th \in [Thread -> Local],
           th' = [th EXCEPT !["dog"] = [Rest("ensure") EXCEPT !.warm = TRUE]]
    PROVE  /\ th' \in [Thread -> Local] /\ Only("dog")
           /\ th'["dog"].pc = "ensure" /\ th'["dog"].pid = None
           /\ th'["dog"].next = "idle" /\ th'["dog"].after = "idle"
<1> DEFINE r == [Rest("ensure") EXCEPT !.warm = TRUE]
<1>1. Rest("ensure") \in Local
  BY RestIsLocal DEF Pc
<1>2. r \in Local
  BY <1>1 DEF Local
<1>3. r.pc = "ensure" /\ r.pid = None /\ r.next = "idle" /\ r.after = "idle"
  BY <1>1 DEF Rest
<1>4. "dog" \in Thread /\ th' = [th EXCEPT !["dog"] = r]
  BY DEF Thread
<1> HIDE DEF r
<1> QED
  BY <1>2, <1>3, <1>4 DEF Only

LEMMA EnsureKeeps ==
    ASSUME IInv, NEW t \in {"dog", "wdog"}, Ensure(t)
    PROVE  IInv'
<1>0. t \in Thread /\ th \in [Thread -> Local] /\ th[t] \in Local /\ Place(t)
  BY DEF IInv, Order, Places, TypeOK, Thread
<1>1. th' \in [Thread -> Local] /\ Watches(t)
  <2>1. CASE GoRest(t, th[t].after)
    <3>1. th[t].after \in Pc /\ th[t].after \in Watching
      BY <1>0 DEF Place, Local, Watching
    <3> QED
      BY <1>0, <2>1, <3>1, GoesToRest DEF Watches, Watching, Ensure
  <2>2. CASE Goto(t, "rCheck")
    <3>1. "rCheck" \in Pc
      BY DEF Pc
    <3> QED
      BY <1>0, <2>2, <3>1, GoesOn DEF Watches, Watching, Ensure
  <2> QED
    BY <2>1, <2>2 DEF Ensure
<1>2. status' \in State /\ backoff' \in [{"dog", "wdog"} -> BOOLEAN]
  <2>1. status' \in State
    BY DEF Ensure, IInv, TypeOK, State
  <2>2. backoff' \in [{"dog", "wdog"} -> BOOLEAN]
    BY DEF Ensure, IInv, TypeOK
  <2> QED
    BY <2>1, <2>2
<1>3. TypeOK'
  BY <1>1, <1>2 DEF Ensure, IInv, TypeOK, counters
<1>4. StreakLeads'
  <2>1. streak' = streak /\ Only(t) /\ th[t].pc = "ensure"
    BY <1>1 DEF Ensure, Watches
  <2> QED
    BY <1>0, <2>1, StreakKept DEF IInv, Order
<1>5. UNCHANGED <<slot, port, shutting>>
  BY DEF Ensure
<1>6. Order'
  BY <1>1, <1>4, <1>5, WatchingKeeps DEF IInv
<1> QED
  BY <1>3, <1>6 DEF IInv

LEMMA InitKeeps ==
    ASSUME IInv, InitBegins
    PROVE  IInv'
<1>0. "init" \in Thread /\ th \in [Thread -> Local] /\ th["init"] \in Local
  BY DEF IInv, TypeOK, Thread
<1>1. th' \in [Thread -> Local] /\ Watches("init")
  <2>1. CASE Goto("init", "done")
    BY <1>0, <2>1, GoesOn DEF InitBegins, Watches, Watching, Pc
  <2>2. CASE th' = [th EXCEPT !["init"].pc = "sCheck", !["init"].after = "done"]
    <3>1. th' \in [Thread -> Local]
      BY ZenonT(60), <1>0, <2>2 DEF Local, Pc
    <3>2. Watches("init")
      BY <1>0, <2>2 DEF InitBegins, Watches, Watching, Only, Local
    <3> QED
      BY <3>1, <3>2
  <2> QED
    BY <2>1, <2>2 DEF InitBegins
<1>2. TypeOK'
  BY <1>1 DEF InitBegins, IInv, TypeOK, shared, dogVars, counters
<1>3. StreakLeads'
  BY <1>0, <1>1, StreakKept DEF InitBegins, IInv, Order, Watches, dogVars
<1>4. Order'
  BY <1>1, <1>3, WatchingKeeps DEF IInv, InitBegins, shared
<1> QED
  BY <1>2, <1>4 DEF IInv

LEMMA DogKeeps ==
    ASSUME IInv, DogStep, ~Ensure("dog"), ~StackStep("dog")
    PROVE  IInv'
<1>0. /\ "dog" \in Thread /\ th \in [Thread -> Local] /\ th["dog"] \in Local
      /\ streak \in 0 .. FailsBeforeRestart /\ StreakLeads
  BY DEF IInv, TypeOK, Thread, Order
<1>a. FailsBeforeRestart \in Nat /\ FailsBeforeRestart > 0
  BY FailsAssumption
(* The flag, the slots and the port are only read. *)
<1>b. UNCHANGED <<proc, slot, port, shutting, backoff, grace, crashes, commands>>
  BY DEF DogStep, DogWakes, DogReads, DogProbeOk, DogHealthy, DogProbeFails, DogGate,
         DogConfirms, DogSeesMissing, shared, dogVars, counters
<1>c. ASSUME th' \in [Thread -> Local], Watches("dog"), status' \in State,
             stalls' \in 0 .. MaxStalls,
             \/ streak' = 0
             \/ streak' = streak /\ th'["dog"].pc \in {"dAlive", "dConfirm", "dHealthy"}
             \/ streak' = streak /\ th["dog"].pc \notin {"dAlive", "dConfirm", "dHealthy"}
             \/ /\ streak' = streak + 1 /\ th["dog"].pc = "dProbe"
                /\ streak + 1 >= FailsBeforeRestart => th'["dog"].pc = "dAlive"
      PROVE  IInv'
  <2>1. streak' \in 0 .. FailsBeforeRestart /\ StreakLeads'
    BY <1>0, <1>a, <1>c DEF StreakLeads
  <2>2. TypeOK'
    BY <1>b, <1>c, <2>1 DEF IInv, TypeOK
  <2>3. Order'
    BY <1>b, <1>c, <2>1, WatchingKeeps DEF IInv
  <2> QED
    BY <2>2, <2>3 DEF IInv
<1>d. ASSUME NEW pc \in Watching, th["dog"].pc \in Watching, Goto("dog", pc)
      PROVE  th' \in [Thread -> Local] /\ Watches("dog") /\ th'["dog"].pc = pc
  BY <1>0, <1>d, GoesOn DEF Watches, Watching, Pc
<1>e. ASSUME NEW pc \in Watching, th["dog"].pc \in Watching, GoRest("dog", pc)
      PROVE  th' \in [Thread -> Local] /\ Watches("dog") /\ th'["dog"].pc = pc
  BY <1>0, <1>e, GoesToRest DEF Watches, Watching, Pc
<1>f. ASSUME th["dog"].pc \in Watching,
             th' = [th EXCEPT !["dog"] = [Rest("ensure") EXCEPT !.warm = TRUE]]
      PROVE  th' \in [Thread -> Local] /\ Watches("dog")
  BY <1>0, <1>f, GoesToEnsure DEF Watches, Watching
<1>g. status \in State /\ {"healthy", "unhealthy"} \subseteq State /\ stalls \in 0 .. MaxStalls
  BY DEF IInv, TypeOK, State
<1>h. ASSUME NEW q, ProbeFails(q)
      PROVE  stalls' \in 0 .. MaxStalls
  BY <1>g, <1>h, BoundsAssumption DEF ProbeFails
<1>1. CASE DogWakes
  <2>1. th' \in [Thread -> Local] /\ Watches("dog")
    <3>1. CASE shutting
      BY <1>1, <1>d, <3>1 DEF DogWakes, Watching
    <3>2. CASE ~shutting
      <4>1. th' = [th EXCEPT !["dog"].pc = "dRead", !["dog"].port = port]
        BY <1>1, <3>2 DEF DogWakes
      <4>2. port \in Ports \cup {None} /\ "dRead" \in Pc
        BY DEF IInv, TypeOK, Pc
      <4>3. th' \in [Thread -> Local]
        BY <1>0, <4>1, <4>2 DEF Local
      <4>4. Watches("dog")
        BY <1>0, <1>1, <4>1 DEF DogWakes, Watches, Watching, Only, Local
      <4> QED
        BY <4>3, <4>4
    <3> QED
      BY <3>1, <3>2
  <2> QED
    BY <1>1, <1>c, <1>g, <2>1 DEF DogWakes, shared, dogVars, counters
<1>2. CASE DogReads
  <2>0. th["dog"].pc = "dRead" /\ th["dog"].pc \in Watching
    BY <1>2 DEF DogReads, Watching
  <2>1. status' \in State /\ stalls' \in 0 .. MaxStalls
    BY <1>2, <1>g DEF DogReads, shared, counters
  <2>2. CASE Exited(Sidecar)
    BY <1>2, <1>c, <1>f, <2>0, <2>1, <2>2 DEF DogReads
  <2>3. CASE ~Exited(Sidecar)
    <3>1. PICK pc \in {"dMissing", "dProbe"} : Goto("dog", pc)
      BY <1>2, <2>3 DEF DogReads
    <3>2. streak' \in {0, streak}
      BY <1>2, <2>3 DEF DogReads
    <3>3. th' \in [Thread -> Local] /\ Watches("dog")
      BY <1>d, <2>0, <3>1 DEF Watching
    <3> QED
      BY <1>c, <2>0, <2>1, <3>2, <3>3
  <2> QED
    BY <2>2, <2>3
<1>3. CASE DogProbeOk
  <2>1. th["dog"].pc = "dProbe" /\ Goto("dog", "dHealthy") /\ streak' = streak
    BY <1>3 DEF DogProbeOk, dogVars
  <2>2. status' \in State /\ stalls' \in 0 .. MaxStalls
    BY <1>3, <1>g DEF DogProbeOk, shared, counters
  <2>3. th' \in [Thread -> Local] /\ Watches("dog") /\ th'["dog"].pc = "dHealthy"
    BY <1>d, <2>1 DEF Watching
  <2> QED
    BY <1>c, <2>1, <2>2, <2>3
<1>4. CASE DogHealthy
  <2>1. th["dog"].pc = "dHealthy" /\ GoRest("dog", "idle") /\ streak' = 0
    BY <1>4 DEF DogHealthy
  <2>2. status' \in State /\ stalls' \in 0 .. MaxStalls
    BY <1>4, <1>g DEF DogHealthy, counters
  <2>3. th' \in [Thread -> Local] /\ Watches("dog")
    BY <1>e, <2>1 DEF Watching
  <2> QED
    BY <1>c, <2>1, <2>2, <2>3
<1>5. CASE DogProbeFails
  <2>1. th["dog"].pc = "dProbe" /\ th["dog"].pc \in Watching
    BY <1>5 DEF DogProbeFails, Watching
  <2>2. stalls' \in 0 .. MaxStalls
    BY <1>5, <1>h DEF DogProbeFails
  <2>3. CASE grace
    BY <1>5, <1>c, <1>e, <1>g, <2>1, <2>2, <2>3 DEF DogProbeFails, Watching
  <2>4. CASE ~grace /\ streak + 1 >= FailsBeforeRestart
    <3>1. Goto("dog", "dAlive") /\ streak' = streak + 1 /\ status' = "unhealthy"
      BY <1>5, <2>4 DEF DogProbeFails
    <3>2. th' \in [Thread -> Local] /\ Watches("dog") /\ th'["dog"].pc = "dAlive"
      BY <1>d, <2>1, <3>1 DEF Watching
    <3> QED
      BY <1>c, <1>g, <2>1, <2>2, <3>1, <3>2
  <2>5. CASE ~grace /\ ~ (streak + 1 >= FailsBeforeRestart)
    <3>1. GoRest("dog", "idle") /\ streak' = streak + 1 /\ status' = "unhealthy"
      BY <1>5, <2>5 DEF DogProbeFails
    <3>2. th' \in [Thread -> Local] /\ Watches("dog")
      BY <1>e, <2>1, <3>1 DEF Watching
    <3> QED
      BY <1>c, <1>g, <2>1, <2>2, <2>5, <3>1, <3>2
  <2> QED
    BY <2>3, <2>4, <2>5
<1>6. CASE DogGate
  <2>1. th["dog"].pc = "dAlive" /\ th["dog"].pc \in Watching
    BY <1>6 DEF DogGate, Watching
  <2>2. status' \in State /\ stalls' \in 0 .. MaxStalls
    BY <1>6, <1>g DEF DogGate, shared, counters
  <2>3. CASE Goto("dog", "dConfirm") /\ UNCHANGED streak
    <3>1. th' \in [Thread -> Local] /\ Watches("dog") /\ th'["dog"].pc = "dConfirm"
      BY <1>d, <2>1, <2>3 DEF Watching
    <3> QED
      BY <1>c, <2>2, <2>3, <3>1
  <2>4. CASE ForceRestart
    BY <1>c, <1>f, <2>1, <2>2, <2>4 DEF ForceRestart
  <2> QED
    BY <1>6, <2>3, <2>4 DEF DogGate
<1>7. CASE DogConfirms
  <2>1. th["dog"].pc = "dConfirm" /\ th["dog"].pc \in Watching
    BY <1>7 DEF DogConfirms, Watching
  <2>2. status' \in State
    BY <1>7, <1>g DEF DogConfirms, shared
  <2>3. CASE Goto("dog", "dHealthy") /\ UNCHANGED <<streak, stalls>>
    <3>1. th' \in [Thread -> Local] /\ Watches("dog") /\ th'["dog"].pc = "dHealthy"
      BY <1>d, <2>1, <2>3 DEF Watching
    <3> QED
      BY <1>c, <1>g, <2>2, <2>3, <3>1
  <2>4. CASE ProbeFails(th["dog"].port) /\ ForceRestart
    BY <1>c, <1>f, <1>h, <2>1, <2>2, <2>4 DEF ForceRestart
  <2> QED
    BY <1>7, <2>3, <2>4 DEF DogConfirms
<1>8. CASE DogSeesMissing
  <2>1. th["dog"].pc = "dMissing" /\ th["dog"].pc \in Watching /\ streak' = streak
    BY <1>8 DEF DogSeesMissing, Watching, dogVars
  <2>2. status' \in State /\ stalls' \in 0 .. MaxStalls
    BY <1>8, <1>g DEF DogSeesMissing, shared, counters
  <2>3. th' \in [Thread -> Local] /\ Watches("dog")
    <3>1. CASE Goto("dog", "ensure")
      BY <1>d, <2>1, <3>1 DEF Watching
    <3>2. CASE GoRest("dog", "idle")
      BY <1>e, <2>1, <3>2 DEF Watching
    <3> QED
      BY <1>8, <3>1, <3>2 DEF DogSeesMissing
  <2> QED
    BY <1>c, <2>1, <2>2, <2>3
<1> QED
  BY <1>1, <1>2, <1>3, <1>4, <1>5, <1>6, <1>7, <1>8 DEF DogStep

LEMMA WorkerDogKeeps ==
    ASSUME IInv, WorkerDogWakes \/ WorkerDogReads
    PROVE  IInv'
<1>0. /\ "wdog" \in Thread /\ th \in [Thread -> Local] /\ th["wdog"] \in Local
      /\ 2 \in 2 .. Slots + 1
  BY SlotsAssumption DEF IInv, TypeOK, Thread
<1>1. th["wdog"].pc \in Watching
  BY DEF WorkerDogWakes, WorkerDogReads, Watching
<1>2. th' \in [Thread -> Local] /\ Watches("wdog")
  <2>1. CASE Goto("wdog", "done")
    BY <1>0, <1>1, <2>1, GoesOn DEF Watches, Watching, Pc
  <2>2. CASE th' = [th EXCEPT !["wdog"].pc = "wdCheck", !["wdog"].w = 2]
    <3>1. th' \in [Thread -> Local]
      BY ZenonT(60), <1>0, <2>2 DEF Local, Pc
    <3>2. Watches("wdog")
      BY <1>0, <1>1, <2>2 DEF Watches, Watching, Only, Local
    <3> QED
      BY <3>1, <3>2
  <2>3. CASE th' = [th EXCEPT !["wdog"] = Rest("idle")]
    <3>1. Rest("idle") \in Local
      BY RestIsLocal DEF Pc
    <3>2. th'["wdog"] = Rest("idle") /\ Only("wdog") /\ th' \in [Thread -> Local]
      BY <1>0, <2>3, <3>1 DEF Only
    <3> QED
      BY <1>1, <3>2 DEF Watches, Watching, Rest
  <2>4. CASE /\ th["wdog"].w <= Slots
             /\ th' = [th EXCEPT !["wdog"].pc = IF Exited(th["wdog"].w) THEN "ensure" ELSE "wdCheck",
                                 !["wdog"].w = th["wdog"].w + 1, !["wdog"].after = "wdCheck"]
    <3>1. PICK pc \in {"ensure", "wdCheck"} :
            th' = [th EXCEPT !["wdog"].pc = pc,
                             !["wdog"].w = th["wdog"].w + 1, !["wdog"].after = "wdCheck"]
      BY <2>4
    <3>2. th["wdog"].w + 1 \in 2 .. Slots + 1 /\ pc \in Pc /\ "wdCheck" \in Pc
      BY <1>0, <2>4 DEF Local, Pc
    <3>3. th' \in [Thread -> Local]
      BY <1>0, <3>1, <3>2 DEF Local
    <3>4. Watches("wdog")
      BY <1>0, <1>1, <3>1 DEF Watches, Watching, Only, Local
    <3> QED
      BY <3>3, <3>4
  <2> QED
    BY <2>1, <2>2, <2>3, <2>4 DEF WorkerDogWakes, WorkerDogReads
<1>3. UNCHANGED <<proc, slot, port, shutting, status, backoff, grace, streak,
                  crashes, stalls, commands>>
  BY DEF WorkerDogWakes, WorkerDogReads, shared, dogVars, counters
<1>4. TypeOK'
  BY <1>2, <1>3 DEF IInv, TypeOK
<1>5. StreakLeads'
  BY <1>0, <1>2, <1>3, StreakKept DEF IInv, Order, Watches
<1>6. Order'
  BY <1>2, <1>3, <1>5, WatchingKeeps DEF IInv
<1> QED
  BY <1>4, <1>6 DEF IInv

-----------------------------------------------------------------------------
(* The main thread: the commands, and the end of a kill or of a shutdown.  *)
LEMMA UiKeeps ==
    ASSUME IInv, UiStopped \/ Commanded
    PROVE  IInv'
<1> DEFINE Old == th["ui"]
           New == th'["ui"]
<1>0. /\ "ui" \in Thread /\ th \in [Thread -> Local] /\ Old \in Local /\ Place("ui")
      /\ Sidecar = 1 /\ 1 \in 1 .. Slots + 1 /\ 1 <= Slots
  BY SlotsAssumption DEF IInv, TypeOK, Thread, Order, Places, Sidecar
<1>a. Old.pc \in {"idle", "uStopped", "uDone"}
  BY DEF UiStopped, Commanded, RestartCommand, KillCommand, ShutdownCommand, Command
<1>b. UNCHANGED <<proc, slot, port, streak, backoff, grace, crashes, stalls>>
  BY DEF UiStopped, Commanded, RestartCommand, KillCommand, ShutdownCommand, Command,
         dogVars, counters
<1>c. TakesNothing("ui") /\ KeepsItsWord("ui") <=> New.pid \in {Old.pid, None}
  BY <1>a, <1>b DEF TakesNothing, KeepsItsWord, WillKill, WillClear
<1>d. ASSUME Only("ui")
      PROVE  StreakLeads'
  BY <1>0, <1>b, <1>d, StreakKept DEF IInv, Order
<1>e. status' \in State /\ commands' \in 0 .. MaxCommands
  <2>1. status' \in State
    BY DEF UiStopped, Commanded, RestartCommand, KillCommand, ShutdownCommand, Command,
           IInv, TypeOK, State
  <2>2. commands' \in 0 .. MaxCommands
    BY BoundsAssumption
    DEF UiStopped, Commanded, RestartCommand, KillCommand, ShutdownCommand, Command,
        IInv, TypeOK, counters
  <2> QED
    BY <2>1, <2>2
<1>f. ASSUME th' \in [Thread -> Local], shutting' \in BOOLEAN
      PROVE  TypeOK'
  BY <1>b, <1>e, <1>f DEF IInv, TypeOK
<1>1. CASE UiStopped
  <2>1. PICK pc \in {"done", "idle"} : GoRest("ui", pc) /\ (pc = "done" => Old.pc = "uDone")
    BY <1>1 DEF UiStopped
  <2>2. /\ th' \in [Thread -> Local] /\ Only("ui")
        /\ New.pc = pc /\ New.pid = None /\ New.next = "idle" /\ New.after = "idle"
    BY <1>0, <2>1, GoesToRest DEF Pc
  <2>3. Place("ui")'
    BY <2>2 DEF Place
  <2>4. shutting' = shutting /\ FlagBeforeExit'
    BY <1>1, <2>1, <2>2 DEF UiStopped, FlagBeforeExit, IInv, Order
  <2>5. Order'
    BY <1>0, <1>c, <1>d, <2>2, <2>3, <2>4, OrderKept DEF IInv
  <2> QED
    BY <1>f, <2>2, <2>4, <2>5 DEF IInv, TypeOK
<1>2. CASE RestartCommand
  <2>1. Goto("ui", "rCheck") /\ shutting' = shutting /\ Old.pc = "idle"
    BY <1>2 DEF RestartCommand, Command
  <2>2. /\ th' \in [Thread -> Local] /\ Only("ui") /\ New.pc = "rCheck"
        /\ New.pid = Old.pid /\ New.next = Old.next /\ New.after = Old.after
    BY <1>0, <2>1, GoesOn DEF Pc
  <2>3. Place("ui")'
    BY <1>0, <2>1, <2>2 DEF Place
  <2>4. FlagBeforeExit'
    BY <2>1, <2>2 DEF FlagBeforeExit, IInv, Order
  <2>5. Order'
    BY <1>0, <1>c, <1>d, <2>1, <2>2, <2>3, <2>4, OrderKept DEF IInv
  <2> QED
    BY <1>f, <2>1, <2>2, <2>5 DEF IInv, TypeOK
<1>3. CASE KillCommand
  <2>1. /\ th' = [th EXCEPT !["ui"].pc = "kill", !["ui"].i = 1, !["ui"].next = "uStopped"]
        /\ shutting' = shutting /\ Old.pc = "idle"
    BY <1>3 DEF KillCommand, Command
  <2>2. th' \in [Thread -> Local]
    BY ZenonT(60), <1>0, <2>1 DEF Local, Pc
  <2>3. /\ Only("ui") /\ New.pc = "kill" /\ New.i = 1 /\ New.pid = Old.pid
        /\ New.next = "uStopped" /\ New.after = Old.after
    BY <1>0, <2>1 DEF Only, Local
  <2>4. Place("ui")'
    BY <1>0, <2>1, <2>3 DEF Place
  <2>5. FlagBeforeExit'
    BY <2>1, <2>3 DEF FlagBeforeExit, IInv, Order
  <2>6. Order'
    BY <1>0, <1>c, <1>d, <2>1, <2>3, <2>4, <2>5, OrderKept DEF IInv
  <2> QED
    BY <1>f, <2>1, <2>2, <2>6 DEF IInv, TypeOK
<1>4. CASE ShutdownCommand
  <2>1. /\ th' = [th EXCEPT !["ui"].pc = "kill", !["ui"].i = 1, !["ui"].next = "uDone"]
        /\ shutting' = TRUE /\ Old.pc = "idle"
    BY <1>4 DEF ShutdownCommand, Command
  <2>2. th' \in [Thread -> Local]
    BY ZenonT(60), <1>0, <2>1 DEF Local, Pc
  <2>3. /\ Only("ui") /\ New.pc = "kill" /\ New.i = 1 /\ New.pid = Old.pid
        /\ New.next = "uDone" /\ New.after = Old.after
    BY <1>0, <2>1 DEF Only, Local
  <2>4. Place("ui")'
    BY <1>0, <2>1, <2>3 DEF Place
  <2>5. FlagBeforeExit'
    BY <2>1, <2>3 DEF FlagBeforeExit, IInv, Order
  (* The kill that the command starts with is the one to come. *)
  <2>6. StopIsComing'
    <3>1. WillKill("ui")' /\ WillClear("ui")'
      BY <1>0, <2>3 DEF WillKill, WillClear
    <3> QED
      BY <1>0, <3>1 DEF StopIsComing
  <2>7. Places' /\ OneOwner'
    BY <1>0, <1>c, <2>3, <2>4, PlacesKept, OwnersKept DEF IInv, Order
  <2>8. Order'
    BY <1>d, <2>3, <2>5, <2>6, <2>7 DEF Order
  <2> QED
    BY <1>f, <2>1, <2>2, <2>8 DEF IInv
<1> QED
  BY <1>1, <1>2, <1>3, <1>4 DEF Commanded

-----------------------------------------------------------------------------
(* Processes and time. *)
LEMMA StandKeeps ==
    ASSUME Order, UNCHANGED <<slot, port, shutting, th, streak>>
    PROVE  Order'
BY DEF Order, Places, Place, StreakLeads, OneOwner, FlagBeforeExit, StopIsComing, WillKill, WillClear

LEMMA WorldKeeps ==
    ASSUME IInv, \/ \E p \in Pids : BecomeReady(p) \/ Crash(p)
                 \/ \E t \in {"dog", "wdog"} : BackoffEnds(t)
                 \/ GraceEnds
                 \/ UNCHANGED vars
    PROVE  IInv'
<1>1. UNCHANGED <<slot, port, shutting, status, th, streak, stalls, commands>>
  BY DEF BecomeReady, Crash, BackoffEnds, GraceEnds, vars, shared, dogVars, counters
<1>2. proc' \in [Pids -> Process]
  <2>1. ASSUME NEW p \in Pids, BecomeReady(p)
        PROVE  proc' \in [Pids -> Process]
    <3>1. proc \in [Pids -> Process] /\ proc[p] \in Process
      BY DEF IInv, TypeOK
    <3>2. [proc[p] EXCEPT !.at = "ready"] \in Process /\ Dead \in Process
      BY <2>1, <3>1 DEF BecomeReady, Process, Dead
    <3> QED
      BY <2>1, <3>1, <3>2 DEF BecomeReady
  <2>2. ASSUME NEW p \in Pids, Crash(p)
        PROVE  proc' \in [Pids -> Process]
    BY <2>2 DEF Crash, IInv, TypeOK, Process
  <2>3. CASE UNCHANGED proc
    BY <2>3 DEF IInv, TypeOK
  <2> QED
    BY <2>1, <2>2, <2>3 DEF BackoffEnds, GraceEnds, vars, shared
<1>3. crashes' \in 0 .. MaxCrashes
  BY BoundsAssumption DEF BecomeReady, Crash, Dies, BackoffEnds, GraceEnds, vars, shared, counters, IInv, TypeOK
<1>4. backoff' \in [{"dog", "wdog"} -> BOOLEAN]
  BY DEF BecomeReady, Crash, BackoffEnds, GraceEnds, vars, dogVars, counters, IInv, TypeOK
<1>5. grace' \in BOOLEAN
  BY DEF BecomeReady, Crash, BackoffEnds, GraceEnds, vars, dogVars, counters, IInv, TypeOK
<1>6. TypeOK'
  BY <1>1, <1>2, <1>3, <1>4, <1>5 DEF IInv, TypeOK
<1>7. Order'
  BY <1>1, StandKeeps DEF IInv
<1> QED
  BY <1>6, <1>7 DEF IInv
-----------------------------------------------------------------------------
LEMMA StepKeeps ==
    ASSUME IInv, [Next]_vars
    PROVE  IInv'
<1>1. ASSUME NEW t \in Thread, StackStep(t)
      PROVE  IInv'
  BY <1>1, StackTypes, StackOrder DEF IInv, Order
<1>2. Thread = {"init", "dog", "wdog", "ui"}
  BY DEF Thread
<1>3. CASE InitStep
  BY <1>1, <1>2, <1>3, InitKeeps DEF InitStep
<1>4. CASE DogStep
  <2>1. CASE Ensure("dog")
    BY <2>1, EnsureKeeps
  <2>2. CASE StackStep("dog")
    BY <1>1, <1>2, <2>2
  <2> QED
    BY <1>4, <2>1, <2>2, DogKeeps
<1>5. CASE WorkerDogStep
  BY <1>1, <1>2, <1>5, WorkerDogKeeps, EnsureKeeps DEF WorkerDogStep
<1>6. CASE UiStep \/ Commanded
  BY <1>1, <1>2, <1>6, UiKeeps DEF UiStep
<1>7. CASE \/ \E p \in Pids : BecomeReady(p) \/ Crash(p)
           \/ \E t \in {"dog", "wdog"} : BackoffEnds(t)
           \/ GraceEnds
           \/ UNCHANGED vars
  BY <1>7, WorldKeeps
<1> QED
  BY <1>3, <1>4, <1>5, <1>6, <1>7 DEF Next

LEMMA InitIInv ==
    ASSUME Init \/ InitUp
    PROVE  IInv
<1>0. /\ Slots \in Nat /\ Slots >= 1 /\ Sidecar \in Slot /\ Slot \subseteq Pids
      /\ None \notin Pids /\ Min(Ports) \in Ports
      /\ FailsBeforeRestart \in Nat /\ FailsBeforeRestart > 0
  BY SlotsAssumption, PidsAreNumbers, PortsAreNumbers, FailsAssumption, NoneIsNoPid,
     LeastOfNumbers DEF Slot, Sidecar
<1>1. PICK at \in {"begin", "done"} :
        th = [t \in Thread |-> Rest(IF t = "init" THEN at ELSE "idle")]
  BY DEF Init, InitUp
<1>2. th \in [Thread -> Local]
  <2>1. \A pc \in {"begin", "done", "idle"} : Rest(pc) \in Local
    BY RestIsLocal DEF Pc
  <2> QED
    BY <1>1, <2>1
<1>3. /\ \A t \in Thread : th[t].pc \in {"begin", "done", "idle"}
      /\ \A t \in Thread : th[t].pid = None /\ th[t].next = "idle" /\ th[t].after = "idle"
      /\ th["ui"].pc = "idle"
  BY <1>1 DEF Rest, Thread
<1>4. proc \in [Pids -> Process]
  BY <1>0 DEF Init, InitUp, Process, Slot
<1>5. slot \in [Slot -> Pids \cup {None}]
  BY <1>0 DEF Init, InitUp
<1>6. port \in Ports \cup {None} /\ shutting = FALSE /\ status \in State
  BY <1>0 DEF Init, InitUp, State
<1>7. TypeOK
  <2>0. backoff = [t \in {"dog", "wdog"} |-> FALSE] /\ grace = FALSE
    BY DEF Init, InitUp
  <2>1. backoff \in [{"dog", "wdog"} -> BOOLEAN] /\ grace \in BOOLEAN
    BY <2>0
  <2>2. streak = 0 /\ crashes = 0 /\ stalls = 0 /\ commands = 0
    BY DEF Init, InitUp
  <2>3. /\ streak \in 0 .. FailsBeforeRestart /\ crashes \in 0 .. MaxCrashes
        /\ stalls \in 0 .. MaxStalls /\ commands \in 0 .. MaxCommands
    BY <1>0, <2>2, BoundsAssumption
  <2>4. shutting \in BOOLEAN
    BY <1>6
  <2> QED
    BY <1>2, <1>4, <1>5, <1>6, <2>1, <2>3, <2>4 DEF TypeOK
<1>8. Places
  BY <1>3 DEF Places, Place
<1>9. OneOwner
  BY <1>0, <1>3 DEF Init, InitUp, OneOwner
<1>10. StreakLeads /\ FlagBeforeExit /\ StopIsComing
  BY <1>0, <1>3, <1>6 DEF Init, InitUp, StreakLeads, FlagBeforeExit, StopIsComing, Thread
<1> QED
  BY <1>7, <1>8, <1>9, <1>10 DEF IInv, Order

(* What the supervisor's threads keep in order, from an empty stack ...    *)
THEOREM Invariance == Spec => []IInv
BY InitIInv, StepKeeps, PTL DEF Spec

(* ... and from one that is up. *)
THEOREM InvarianceUp == SpecUp => []IInv
BY InitIInv, StepKeeps, PTL DEF SpecUp

(* When every thread has come to its end, after a shutdown at any moment   *)
(* of any start or restart, the order leaves no sidecar and no port: there *)
(* is nobody left to kill or to clear them.                                *)
LEMMA OrderStops ==
    ASSUME IInv
    PROVE  SidecarStopped
<1> SUFFICES ASSUME Done PROVE slot[Sidecar] = None /\ port = None
  BY DEF SidecarStopped
<1>1. \A t \in Thread : ~WillKill(t) /\ ~WillClear(t)
  BY DEF Done, WillKill, WillClear
<1>2. shutting
  BY DEF Done, Thread, IInv, Order, FlagBeforeExit
<1> QED
  BY <1>1, <1>2 DEF IInv, Order, StopIsComing

(* Every variable keeps its type: the slots and the pids, the ports, the   *)
(* places and the locals of the four threads, and the failure streak,      *)
(* which never passes the watchdog's limit (main.rs's shared state).       *)
THEOREM TypeCorrect ==
    /\ Spec => []TypeOK
    /\ SpecUp => []TypeOK
BY Invariance, InvarianceUp, PTL DEF IInv

(* Whatever a start or a restart was doing when the application began to   *)
(* shut down, no sidecar stays in its slot and no port set                 *)
(* (stop_backend_stack, and the poll loop of do_spawn_sidecar).            *)
THEOREM SidecarStoppedHolds ==
    /\ Spec => []SidecarStopped
    /\ SpecUp => []SidecarStopped
BY Invariance, InvarianceUp, OrderStops, PTL
-----------------------------------------------------------------------------
(* The undisturbed stack: no command, no worker that dies.  Only the       *)
(* sidecar watchdog starts and kills anything.                             *)
LEMMA UndisturbedKept ==
    ASSUME TypeOK, Order, Alone, NoOrphans, Only("dog"), shutting' = shutting,
           th'["dog"].pid = th["dog"].pid, th'["dog"].after = "idle",
           \/ UNCHANGED <<slot, proc>>
           \/ \E n \in Slot : TakeAndKill(n),
           th'["dog"].pc # "wStore"
    PROVE  Alone' /\ NoOrphans'
<1>1. /\ \A s \in Slot : slot'[s] \in {slot[s], None}
      /\ \A p \in Pids : proc'[p] \in {proc[p], Dead}
      /\ \A p \in Pids : Alive(p)' => \A s \in Slot : slot[s] = p => slot'[s] = p
      /\ \A p \in Pids, s \in Slot : slot'[s] = p => proc'[p] = proc[p]
  <2>1. CASE UNCHANGED <<slot, proc>>
    BY <2>1
  <2>2. CASE \E n \in Slot : TakeAndKill(n)
    <3>1. PICK n \in Slot : TakeAndKill(n)
      BY <2>2
    <3>2. /\ slot'[n] = None
          /\ \A r \in Slot : r # n => slot'[r] = slot[r]
          /\ \A p \in Pids : p # slot[n] => proc'[p] = proc[p]
          /\ slot[n] # None => proc'[slot[n]] = Dead
      BY <3>1, KillTakes DEF TypeOK
    <3>3. \A p \in Pids : p = slot[n] => p # None /\ \A s \in Slot : slot'[s] # p
      BY <3>2, NoneIsNoPid DEF Order, OneOwner
    <3> QED
      BY <3>2, <3>3, NoneIsNoPid DEF Alive
  <2> QED
    BY <2>1, <2>2
<1>2. Alone'
  <2>1. \A s \in Slot \ {Sidecar} :
          slot'[s] # None => proc'[slot'[s]] = [at |-> "ready", port |-> None]
    BY <1>1 DEF Alone, TypeOK
  <2>2. \A u \in {"init", "ui", "wdog"} : th'[u] = th[u]
    BY DEF Only, Thread
  <2> QED
    BY <2>1, <2>2 DEF Alone
<1>3. NoOrphans'
  <2> SUFFICES ASSUME NEW p \in Pids, Alive(p)' PROVE Handled(p)'
    BY DEF NoOrphans
  <2>1. Handled(p)
    BY <1>1 DEF NoOrphans, Alive
  <2>2. CASE \E s \in Slot : slot[s] = p
    BY <1>1, <2>2 DEF Handled
  <2>3. CASE \E t \in Thread : th[t].pid = p
    BY <2>3 DEF Handled, Only
  <2> QED
    BY <2>1, <2>2, <2>3 DEF Handled
<1> QED
  BY <1>2, <1>3

(* A spawn: the new process is in the watchdog's hands, where none was. *)
LEMMA SpawnHasOwner ==
    ASSUME TypeOK, Alone, NoOrphans, Only("dog"), shutting' = shutting,
           NewPid # None, th["dog"].pid = None, th'["dog"].pid = NewPid,
           th'["dog"].after = "idle", slot' = slot,
           NEW r \in Process, proc' = [proc EXCEPT ![NewPid] = r],
           th'["dog"].pc = "wStore" => r = [at |-> "ready", port |-> None]
    PROVE  Alone' /\ NoOrphans'
<1>1. /\ NewPid \in Pids /\ \A s \in Slot : slot[s] # NewPid
      /\ \A u \in Thread : th[u].pid # NewPid
  BY NewPidIsFree DEF FreePids, Handled
<1>2. proc'[NewPid] = r /\ \A p \in Pids : p # NewPid => proc'[p] = proc[p]
  BY <1>1 DEF TypeOK
<1>3. Alone'
  <2>1. \A s \in Slot \ {Sidecar} :
          slot'[s] # None => proc'[slot'[s]] = [at |-> "ready", port |-> None]
    BY <1>1, <1>2 DEF Alone, TypeOK
  <2>2. \A u \in {"init", "ui", "wdog"} : th'[u] = th[u]
    BY DEF Only, Thread
  <2>3. th'["dog"].pc = "wStore" => proc'[th'["dog"].pid] = [at |-> "ready", port |-> None]
    BY <1>2
  <2> QED
    BY <2>1, <2>2, <2>3 DEF Alone
<1>4. NoOrphans'
  <2> SUFFICES ASSUME NEW p \in Pids, Alive(p)' PROVE Handled(p)'
    BY DEF NoOrphans
  <2>1. CASE p = NewPid
    BY <2>1 DEF Handled, Thread
  <2>2. CASE p # NewPid
    <3>1. Handled(p)
      BY <1>2, <2>2 DEF NoOrphans, Alive
    <3>2. CASE \E s \in Slot : slot[s] = p
      BY <3>2 DEF Handled
    <3>3. CASE \E t \in Thread : th[t].pid = p
      <4>1. PICK t \in Thread : th[t].pid = p
        BY <3>3
      <4>2. t # "dog"
        BY <4>1, NoneIsNoPid
      <4> QED
        BY <4>1, <4>2 DEF Handled, Only
    <3> QED
      BY <3>1, <3>2, <3>3 DEF Handled
  <2> QED
    BY <2>1, <2>2
<1> QED
  BY <1>3, <1>4

(* A store into an empty slot. *)
LEMMA StoreHasOwner ==
    ASSUME TypeOK, Order, Alone, NoOrphans, Only("dog"), shutting' = shutting,
           NEW n \in Slot, slot[n] = None, slot' = [slot EXCEPT ![n] = th["dog"].pid],
           proc' = proc, th'["dog"].pid = None, th'["dog"].after = "idle",
           th'["dog"].pc # "wStore",
           n # Sidecar => proc[th["dog"].pid] = [at |-> "ready", port |-> None]
    PROVE  Alone' /\ NoOrphans'
<1>1. slot'[n] = th["dog"].pid /\ \A s \in Slot : s # n => slot'[s] = slot[s]
  BY DEF TypeOK
<1>2. Alone'
  <2>1. \A s \in Slot \ {Sidecar} :
          slot'[s] # None => proc'[slot'[s]] = [at |-> "ready", port |-> None]
    BY <1>1 DEF Alone
  <2>2. \A u \in {"init", "ui", "wdog"} : th'[u] = th[u]
    BY DEF Only, Thread
  <2> QED
    BY <2>1, <2>2 DEF Alone
<1>3. NoOrphans'
  <2> SUFFICES ASSUME NEW p \in Pids, Alive(p)' PROVE Handled(p)'
    BY DEF NoOrphans
  <2>1. Handled(p) /\ p # None
    BY NoneIsNoPid DEF NoOrphans, Alive
  <2>2. CASE \E s \in Slot : slot[s] = p
    BY <1>1, <2>1, <2>2 DEF Handled
  <2>3. CASE \E t \in Thread : th[t].pid = p
    <3>1. PICK t \in Thread : th[t].pid = p
      BY <2>3
    <3>2. CASE t = "dog"
      BY <1>1, <3>1, <3>2 DEF Handled
    <3>3. CASE t # "dog"
      BY <3>1, <3>3 DEF Handled, Only
    <3> QED
      BY <3>2, <3>3
  <2> QED
    BY <2>1, <2>2, <2>3 DEF Handled
<1> QED
  BY <1>2, <1>3

(* The sidecar watchdog's start or restart, alone with the stack. *)
LEMMA AloneStack ==
    ASSUME UndisturbedIInv, StackStep("dog")
    PROVE  Alone' /\ SpawnsIntoEmpty' /\ NoOrphans'
<1> DEFINE Old == th["dog"]
           New == th'["dog"]
<1>0. /\ "dog" \in Thread /\ th \in [Thread -> Local] /\ Old \in Local /\ Place("dog")
      /\ Old.after = "idle" /\ ~shutting /\ TypeOK /\ Order /\ Alone /\ SpawnsIntoEmpty /\ NoOrphans
  BY DEF UndisturbedIInv, IInv, Order, Places, TypeOK, Alone, Thread
<1>a. Sidecar = 1 /\ Sidecar \in Slot /\ Slots \in Nat /\ Slots >= 1
  BY SlotsAssumption DEF Sidecar, Slot
<1>b. shutting' = shutting
  BY DEF StackStep, RestartCheck, KillSlot, KillClearsPort, SpawnCheck, SpawnSidecar,
         SidecarSpawnFails, StoreSidecar, SetPort, PollAnswered, PollGivesUp, PollClearsPort,
         WorkerCheck, StoreWorker, WorkerSpawnFails, StackUp, StackFailed, shared
<1>1. CASE RestartCheck("dog")
  <2>1. /\ Only("dog") /\ New.pc = "kill" /\ New.next = "sCheck" /\ New.after = "idle"
        /\ New.pid = Old.pid /\ New.i = 1
    BY <1>0, <1>1 DEF RestartCheck, Only, Local
  <2>2. UNCHANGED <<slot, proc>>
    BY <1>a, <1>1 DEF RestartCheck, shared
  <2>3. SpawnsIntoEmpty'
    BY <1>0, <1>a, <1>1, <2>1, <2>2 DEF SpawnsIntoEmpty, RestartCheck, Local
  <2>4. New.pc # "wStore"
    BY <1>0, <2>1 DEF Place
  <2> QED
    BY <1>0, <1>b, <2>1, <2>2, <2>3, <2>4, UndisturbedKept
<1>2. CASE KillSlot("dog")
  <2>0. Old.i \in Slot
    BY <1>0, <1>2 DEF KillSlot, Place, Local, Slot
  <2>a. slot'[Old.i] = None /\ \A s \in Slot : slot'[s] \in {slot[s], None}
    BY <1>2, <2>0, KillTakes DEF KillSlot, TypeOK, UndisturbedIInv, IInv
  <2>b. slot'[Sidecar] = None
    BY <1>0, <1>a, <1>2, <2>0, <2>a DEF SpawnsIntoEmpty, KillSlot, Slot
  <2>1. CASE Old.i < Slots
    <3>1. /\ Only("dog") /\ New.pc = "kill" /\ New.next = Old.next /\ New.after = "idle"
          /\ New.pid = Old.pid /\ New.i = Old.i + 1
      BY <1>0, <1>2, <2>1 DEF KillSlot, GotoSlot, Only, Local
    <3>2. \E n \in Slot : TakeAndKill(n)
      BY <1>a, <1>2, <2>1, <2>0, <2>b DEF KillSlot, shared
    <3>3. SpawnsIntoEmpty'
      BY <1>0, <1>a, <1>2, <2>1, <3>1, <3>2, <2>0, <2>b DEF SpawnsIntoEmpty, KillSlot, Local
    <3>4. New.pc # "wStore"
      BY <1>0, <3>1 DEF Place
    <3> QED
      BY <1>0, <1>b, <3>1, <3>2, <3>3, <3>4, UndisturbedKept
  <2>2. CASE ~ (Old.i < Slots)
    <3>1. /\ Only("dog") /\ New.pc = "clearPort" /\ New.next = Old.next /\ New.after = "idle"
          /\ New.pid = Old.pid
      BY <1>0, <1>2, <2>2 DEF KillSlot, Goto, Only, Local
    <3>2. \E n \in Slot : TakeAndKill(n)
      BY <1>a, <1>2, <2>2, <2>0, <2>b DEF KillSlot, shared
    <3>3. SpawnsIntoEmpty'
      BY <1>0, <1>a, <1>2, <2>2, <3>1, <3>2, <2>0, <2>b DEF SpawnsIntoEmpty, KillSlot, Local
    <3>4. New.pc # "wStore"
      BY <1>0, <3>1 DEF Place
    <3> QED
      BY <1>0, <1>b, <3>1, <3>2, <3>3, <3>4, UndisturbedKept
  <2> QED
    BY <2>1, <2>2
<1>3. CASE KillClearsPort("dog")
  <2>1. /\ Only("dog") /\ New.pc = Old.next /\ New.next = "idle" /\ New.after = "idle"
        /\ New.pid = Old.pid
    BY <1>0, <1>3 DEF KillClearsPort, Only, Local
  <2>2. UNCHANGED <<slot, proc>>
    BY <1>a, <1>3 DEF KillClearsPort, shared
  <2>3. SpawnsIntoEmpty'
    BY <1>0, <1>a, <1>3, <2>1, <2>2 DEF SpawnsIntoEmpty, KillClearsPort, Local
  <2>4. New.pc # "wStore"
    BY <1>0, <2>1 DEF Place
  <2> QED
    BY <1>0, <1>b, <2>1, <2>2, <2>3, <2>4, UndisturbedKept
<1>4. CASE SpawnCheck("dog")
  <2>1. /\ Only("dog") /\ New.pc = "spawn" /\ New.next = Old.next /\ New.after = "idle"
        /\ New.pid = Old.pid
    BY <1>0, <1>4 DEF SpawnCheck, Goto, Only, Local
  <2>2. UNCHANGED <<slot, proc>>
    BY <1>a, <1>4 DEF SpawnCheck, shared
  <2>3. SpawnsIntoEmpty'
    BY <1>0, <1>a, <1>4, <2>1, <2>2 DEF SpawnsIntoEmpty, SpawnCheck, Local
  <2>4. New.pc # "wStore"
    BY <1>0, <2>1 DEF Place
  <2> QED
    BY <1>0, <1>b, <2>1, <2>2, <2>3, <2>4, UndisturbedKept
<1>5. CASE SpawnSidecar("dog")
  <2>1. CASE Goto("dog", "err") /\ UNCHANGED proc
    <3>1. /\ Only("dog") /\ New.pc = "err" /\ New.next = Old.next /\ New.after = "idle"
          /\ New.pid = Old.pid
      BY <1>0, <1>5, <2>1 DEF SpawnSidecar, Goto, Only, Local
    <3>2. UNCHANGED <<slot, proc>>
      BY <1>a, <1>5, <2>1 DEF SpawnSidecar, shared
    <3>3. SpawnsIntoEmpty'
      BY <1>0, <1>a, <1>5, <2>1, <3>1, <3>2 DEF SpawnsIntoEmpty, SpawnSidecar, Local
    <3>4. New.pc # "wStore"
      BY <1>0, <3>1 DEF Place
    <3> QED
      BY <1>0, <1>b, <3>1, <3>2, <3>3, <3>4, UndisturbedKept
  <2>2. CASE GotoWorkers("dog") /\ UNCHANGED proc
    <3>1. /\ Only("dog") /\ New.pc = "wCheck" /\ New.next = Old.next /\ New.after = "idle"
          /\ New.pid = Old.pid
      BY <1>0, <1>5, <2>2 DEF SpawnSidecar, GotoWorkers, Only, Local
    <3>2. UNCHANGED <<slot, proc>>
      BY <1>a, <1>5, <2>2 DEF SpawnSidecar, shared
    <3>3. SpawnsIntoEmpty'
      BY <1>0, <1>a, <1>5, <2>2, <3>1, <3>2 DEF SpawnsIntoEmpty, SpawnSidecar, Local
    <3>4. New.pc # "wStore"
      BY <1>0, <3>1 DEF Place
    <3> QED
      BY <1>0, <1>b, <3>1, <3>2, <3>3, <3>4, UndisturbedKept
  <2>3. CASE /\ NewPid # None /\ OpenPorts # {}
             /\ proc' = [proc EXCEPT ![NewPid] = [at |-> "starting", port |-> Min(OpenPorts)]]
             /\ th' = [th EXCEPT !["dog"].pc = "store", !["dog"].pid = NewPid,
                                 !["dog"].port = Min(OpenPorts)]
    <3>1. /\ Only("dog") /\ New.pc = "store" /\ New.next = Old.next /\ New.after = "idle"
          /\ New.pid = NewPid /\ New.i = Old.i /\ Old.pid = None /\ slot' = slot
      BY <1>0, <1>5, <2>3 DEF SpawnSidecar, Place, Only, Local
    <3>2. [at |-> "starting", port |-> Min(OpenPorts)] \in Process
      BY <2>3, OpenPortIsPort DEF Process
    <3>3. SpawnsIntoEmpty'
      BY <1>0, <1>a, <1>5, <2>3, <3>1 DEF SpawnsIntoEmpty, SpawnSidecar
    <3> QED
      BY <1>0, <1>b, <2>3, <3>1, <3>2, <3>3, SpawnHasOwner
  <2> QED
    BY <1>5, <2>1, <2>2, <2>3 DEF SpawnSidecar
<1>6. CASE SidecarSpawnFails("dog")
  <2>1. /\ Only("dog") /\ New.pc = "err" /\ New.next = Old.next /\ New.after = "idle"
        /\ New.pid = Old.pid
    BY <1>0, <1>6 DEF SidecarSpawnFails, Goto, Only, Local
  <2>2. UNCHANGED <<slot, proc>>
    BY <1>a, <1>6 DEF SidecarSpawnFails, shared
  <2>3. SpawnsIntoEmpty'
    BY <1>0, <1>a, <1>6, <2>1, <2>2 DEF SpawnsIntoEmpty, SidecarSpawnFails, Local
  <2>4. New.pc # "wStore"
    BY <1>0, <2>1 DEF Place
  <2> QED
    BY <1>0, <1>b, <2>1, <2>2, <2>3, <2>4, UndisturbedKept
<1>7. CASE StoreSidecar("dog")
  <2>0. slot[Sidecar] = None
    BY <1>0, <1>7 DEF StoreSidecar, SpawnsIntoEmpty
  <2>1. /\ Only("dog") /\ New.pc = "setPort" /\ New.next = Old.next /\ New.after = "idle"
        /\ New.pid = None
    BY <1>0, <1>7 DEF StoreSidecar, Only, Local
  <2>2. SpawnsIntoEmpty'
    BY <1>0, <2>1 DEF SpawnsIntoEmpty
  <2>3. slot' = [slot EXCEPT ![Sidecar] = Old.pid] /\ proc' = proc
    BY <1>7 DEF StoreSidecar
  <2> QED
    BY <1>0, <1>a, <1>b, <2>0, <2>1, <2>2, <2>3, StoreHasOwner
<1>8. CASE SetPort("dog")
  <2>1. /\ Only("dog") /\ New.pc = "poll" /\ New.next = Old.next /\ New.after = "idle"
        /\ New.pid = Old.pid
    BY <1>0, <1>8 DEF SetPort, Goto, Only, Local
  <2>2. UNCHANGED <<slot, proc>>
    BY <1>a, <1>8 DEF SetPort, shared
  <2>3. SpawnsIntoEmpty'
    BY <1>0, <1>a, <1>8, <2>1, <2>2 DEF SpawnsIntoEmpty, SetPort, Local
  <2>4. New.pc # "wStore"
    BY <1>0, <2>1 DEF Place
  <2> QED
    BY <1>0, <1>b, <2>1, <2>2, <2>3, <2>4, UndisturbedKept
<1>9. CASE PollAnswered("dog")
  <2>1. /\ Only("dog") /\ New.pc = "wCheck" /\ New.next = Old.next /\ New.after = "idle"
        /\ New.pid = Old.pid
    BY <1>0, <1>9 DEF PollAnswered, GotoWorkers, Only, Local
  <2>2. UNCHANGED <<slot, proc>>
    BY <1>a, <1>9 DEF PollAnswered, shared
  <2>3. SpawnsIntoEmpty'
    BY <1>0, <1>a, <1>9, <2>1, <2>2 DEF SpawnsIntoEmpty, PollAnswered, Local
  <2>4. New.pc # "wStore"
    BY <1>0, <2>1 DEF Place
  <2> QED
    BY <1>0, <1>b, <2>1, <2>2, <2>3, <2>4, UndisturbedKept
<1>10. CASE PollGivesUp("dog")
  <2>1. /\ Only("dog") /\ New.pc = "pollClear" /\ New.next = Old.next /\ New.after = "idle"
        /\ New.pid = Old.pid
    BY <1>0, <1>10 DEF PollGivesUp, Only, Local
  <2>2. \E n \in Slot : TakeAndKill(n)
    BY <1>a, <1>10 DEF PollGivesUp, shared
  <2>3. SpawnsIntoEmpty'
    BY <1>0, <1>a, <1>10, <2>1, <2>2 DEF SpawnsIntoEmpty, PollGivesUp, Local
  <2>4. New.pc # "wStore"
    BY <1>0, <2>1 DEF Place
  <2> QED
    BY <1>0, <1>b, <2>1, <2>2, <2>3, <2>4, UndisturbedKept
<1>11. CASE PollClearsPort("dog")
  <2>1. /\ Only("dog") /\ New.pc = "err" /\ New.next = Old.next /\ New.after = "idle"
        /\ New.pid = Old.pid
    BY <1>0, <1>11 DEF PollClearsPort, Goto, Only, Local
  <2>2. UNCHANGED <<slot, proc>>
    BY <1>a, <1>11 DEF PollClearsPort, shared
  <2>3. SpawnsIntoEmpty'
    BY <1>0, <1>a, <1>11, <2>1, <2>2 DEF SpawnsIntoEmpty, PollClearsPort, Local
  <2>4. New.pc # "wStore"
    BY <1>0, <2>1 DEF Place
  <2> QED
    BY <1>0, <1>b, <2>1, <2>2, <2>3, <2>4, UndisturbedKept
<1>12. CASE WorkerCheck("dog")
  <2>1. CASE Goto("dog", "ok") /\ UNCHANGED proc
    <3>1. /\ Only("dog") /\ New.pc = "ok" /\ New.next = Old.next /\ New.after = "idle"
          /\ New.pid = Old.pid
      BY <1>0, <1>12, <2>1 DEF WorkerCheck, Goto, Only, Local
    <3>2. UNCHANGED <<slot, proc>>
      BY <1>a, <1>12, <2>1 DEF WorkerCheck, shared
    <3>3. SpawnsIntoEmpty'
      BY <1>0, <1>a, <1>12, <2>1, <3>1, <3>2 DEF SpawnsIntoEmpty, WorkerCheck, Local
    <3>4. New.pc # "wStore"
      BY <1>0, <3>1 DEF Place
    <3> QED
      BY <1>0, <1>b, <3>1, <3>2, <3>3, <3>4, UndisturbedKept
  <2>2. CASE GotoSlot("dog", "wCheck", Old.i + 1) /\ UNCHANGED proc
    <3>1. /\ Only("dog") /\ New.pc = "wCheck" /\ New.next = Old.next /\ New.after = "idle"
          /\ New.pid = Old.pid
      BY <1>0, <1>12, <2>2 DEF WorkerCheck, GotoSlot, Only, Local
    <3>2. UNCHANGED <<slot, proc>>
      BY <1>a, <1>12, <2>2 DEF WorkerCheck, shared
    <3>3. SpawnsIntoEmpty'
      BY <1>0, <1>a, <1>12, <2>2, <3>1, <3>2 DEF SpawnsIntoEmpty, WorkerCheck, Local
    <3>4. New.pc # "wStore"
      BY <1>0, <3>1 DEF Place
    <3> QED
      BY <1>0, <1>b, <3>1, <3>2, <3>3, <3>4, UndisturbedKept
  <2>3. CASE /\ NewPid # None /\ slot[Old.i] = None
             /\ proc' = [proc EXCEPT ![NewPid] = [at |-> "ready", port |-> None]]
             /\ th' = [th EXCEPT !["dog"].pc = "wStore", !["dog"].pid = NewPid]
    <3>1. /\ Only("dog") /\ New.pc = "wStore" /\ New.next = Old.next /\ New.after = "idle"
          /\ New.pid = NewPid /\ New.i = Old.i /\ Old.pid = None /\ slot' = slot
      BY <1>0, <1>12, <2>3 DEF WorkerCheck, Place, Only, Local
    <3>2. [at |-> "ready", port |-> None] \in Process
      BY <2>3 DEF Process
    <3>3. SpawnsIntoEmpty'
      BY <1>0, <1>a, <1>12, <2>3, <3>1 DEF SpawnsIntoEmpty, WorkerCheck
    <3> QED
      BY <1>0, <1>b, <2>3, <3>1, <3>2, <3>3, SpawnHasOwner
  <2> QED
    BY <1>12, <2>1, <2>2, <2>3 DEF WorkerCheck
<1>13. CASE StoreWorker("dog")
  <2>0. /\ Old.i \in 2 .. Slots /\ Old.i \in Slot /\ slot[Old.i] = None
        /\ proc[Old.pid] = [at |-> "ready", port |-> None]
    BY <1>0, <1>13 DEF StoreWorker, Place, Slot, SpawnsIntoEmpty, Alone
  <2>1. /\ Only("dog") /\ New.pc = "wCheck" /\ New.next = Old.next /\ New.after = "idle"
        /\ New.pid = None
    BY <1>0, <1>13 DEF StoreWorker, Only, Local
  <2>2. SpawnsIntoEmpty'
    BY <1>0, <2>1 DEF SpawnsIntoEmpty
  <2>3. slot' = [slot EXCEPT ![Old.i] = Old.pid] /\ proc' = proc
    BY <1>13 DEF StoreWorker
  <2> QED
    BY <1>0, <1>a, <1>b, <2>0, <2>1, <2>2, <2>3, StoreHasOwner
<1>14. CASE WorkerSpawnFails("dog")
  <2>1. /\ Only("dog") /\ New.pc = "kill" /\ New.next = "err" /\ New.after = "idle"
        /\ New.pid = Old.pid /\ New.i = 1
    BY <1>0, <1>14 DEF WorkerSpawnFails, Only, Local
  <2>2. UNCHANGED <<slot, proc>>
    BY <1>a, <1>14 DEF WorkerSpawnFails, shared
  <2>3. SpawnsIntoEmpty'
    BY <1>0, <1>a, <1>14, <2>1, <2>2 DEF SpawnsIntoEmpty, WorkerSpawnFails, Local
  <2>4. New.pc # "wStore"
    BY <1>0, <2>1 DEF Place
  <2> QED
    BY <1>0, <1>b, <2>1, <2>2, <2>3, <2>4, UndisturbedKept
<1>15. CASE StackUp("dog")
  <2>1. /\ Only("dog") /\ New.pc = "idle" /\ New.next = "idle" /\ New.after = "idle"
        /\ New.pid = Old.pid
    BY <1>0, <1>15, GoesToRest DEF StackUp, Place, Pc
  <2>2. UNCHANGED <<slot, proc>>
    BY <1>a, <1>15 DEF StackUp, shared
  <2>3. SpawnsIntoEmpty'
    BY <1>0, <1>a, <1>15, <2>1, <2>2 DEF SpawnsIntoEmpty, StackUp, Local
  <2>4. New.pc # "wStore"
    BY <1>0, <2>1 DEF Place
  <2> QED
    BY <1>0, <1>b, <2>1, <2>2, <2>3, <2>4, UndisturbedKept
<1>16. CASE StackFailed("dog")
  <2>1. /\ Only("dog") /\ New.pc = "idle" /\ New.next = "idle" /\ New.after = "idle"
        /\ New.pid = Old.pid
    BY <1>0, <1>16, GoesToRest DEF StackFailed, Place, Pc
  <2>2. UNCHANGED <<slot, proc>>
    BY <1>a, <1>16 DEF StackFailed, shared
  <2>3. SpawnsIntoEmpty'
    BY <1>0, <1>a, <1>16, <2>1, <2>2 DEF SpawnsIntoEmpty, StackFailed, Local
  <2>4. New.pc # "wStore"
    BY <1>0, <2>1 DEF Place
  <2> QED
    BY <1>0, <1>b, <2>1, <2>2, <2>3, <2>4, UndisturbedKept
<1> QED
  BY <1>1, <1>2, <1>3, <1>4, <1>5, <1>6, <1>7, <1>8,
     <1>9, <1>10, <1>11, <1>12, <1>13, <1>14, <1>15, <1>16 DEF UndisturbedIInv, StackStep

(* The watchdog's own steps, the back-off's among them. *)
LEMMA DogMoves ==
    ASSUME IInv, th["dog"].after = "idle", DogStep, ~StackStep("dog")
    PROVE  /\ Only("dog") /\ UNCHANGED <<proc, slot, shutting>>
           /\ th'["dog"].pc \in Watching \ {"sCheck"}
           /\ th["dog"].pid = None /\ th'["dog"].pid = None
           /\ th'["dog"].next \in {th["dog"].next, "idle"}
           /\ th'["dog"].after = "idle"
<1> DEFINE Old == th["dog"]
<1>0. "dog" \in Thread /\ th \in [Thread -> Local] /\ Old \in Local /\ Place("dog")
  BY DEF IInv, Order, Places, TypeOK, Thread
<1>1. Old.pc \in Watching /\ UNCHANGED <<proc, slot, shutting>>
  BY DEF DogStep, DogWakes, DogReads, DogProbeOk, DogHealthy, DogProbeFails, DogGate,
         DogConfirms, DogSeesMissing, Ensure, Watching, shared, dogVars, counters
<1>2. Old.pid = None
  BY <1>0, <1>1 DEF Place, Watching
<1>3. ASSUME NEW pc \in Watching \ {"sCheck"}, Goto("dog", pc)
      PROVE  /\ Only("dog") /\ th'["dog"].pc = pc /\ th'["dog"].pid = None
             /\ th'["dog"].next = Old.next /\ th'["dog"].after = "idle"
  BY <1>0, <1>2, <1>3, GoesOn DEF Watching, Pc
<1>4. ASSUME NEW pc \in Watching \ {"sCheck"}, GoRest("dog", pc)
      PROVE  /\ Only("dog") /\ th'["dog"].pc = pc /\ th'["dog"].pid = None
             /\ th'["dog"].next = "idle" /\ th'["dog"].after = "idle"
  BY <1>0, <1>4, GoesToRest DEF Watching, Pc
<1>5. \/ \E pc \in Watching \ {"sCheck"} : Goto("dog", pc) \/ GoRest("dog", pc)
      \/ th' = [th EXCEPT !["dog"] = [Rest("ensure") EXCEPT !.warm = TRUE]]
      \/ th' = [th EXCEPT !["dog"].pc = "dRead", !["dog"].port = port]
  <2>1. {"idle", "done", "rCheck", "ensure", "dProbe", "dHealthy", "dAlive", "dConfirm",
         "dMissing"} \subseteq Watching \ {"sCheck"}
    BY DEF Watching
  <2>2. CASE DogWakes \/ DogReads
    BY <2>1, <2>2 DEF DogWakes, DogReads
  <2>3. CASE DogProbeOk \/ DogHealthy
    BY <2>1, <2>3 DEF DogProbeOk, DogHealthy
  <2>4. CASE DogProbeFails
    BY <2>1, <2>4 DEF DogProbeFails
  <2>5. CASE DogGate \/ DogConfirms
    BY <2>1, <2>5 DEF DogGate, DogConfirms, ForceRestart
  <2>6. CASE DogSeesMissing
    BY <2>1, <2>6 DEF DogSeesMissing
  <2>7. CASE Ensure("dog")
    BY <2>1, <2>7 DEF Ensure
  <2> QED
    BY <2>2, <2>3, <2>4, <2>5, <2>6, <2>7 DEF DogStep
<1>6. CASE \E pc \in Watching \ {"sCheck"} : Goto("dog", pc) \/ GoRest("dog", pc)
  BY <1>1, <1>2, <1>3, <1>4, <1>6
<1>7. CASE th' = [th EXCEPT !["dog"] = [Rest("ensure") EXCEPT !.warm = TRUE]]
  BY <1>0, <1>1, <1>2, <1>7, GoesToEnsure DEF Watching
<1>8. CASE th' = [th EXCEPT !["dog"].pc = "dRead", !["dog"].port = port]
  BY <1>0, <1>1, <1>2, <1>8 DEF Only, Local, Watching
<1> QED
  BY <1>5, <1>6, <1>7, <1>8

(* The worker watchdog finds every worker it looks at alive. *)
LEMMA WorkerDogMoves ==
    ASSUME IInv, Alone, WorkerDogStep
    PROVE  /\ Only("wdog") /\ th'["wdog"].pc \in {"idle", "wdCheck"}
           /\ th'["wdog"].pid = None /\ UNCHANGED <<proc, slot, shutting>>
<1>0. /\ "wdog" \in Thread /\ th \in [Thread -> Local] /\ th["wdog"] \in Local
      /\ Place("wdog") /\ Slots \in Nat
  BY SlotsAssumption DEF IInv, Order, Places, TypeOK, Thread
<1>1. /\ th["wdog"].pc \in {"idle", "wdCheck"} /\ th["wdog"].pid = None /\ ~shutting
  BY <1>0 DEF Alone, Place
<1>2. ~Ensure("wdog") /\ ~StackStep("wdog")
  BY <1>1 DEF Ensure, StackStep, RestartCheck, KillSlot, KillClearsPort, SpawnCheck, SpawnSidecar,
         SidecarSpawnFails, StoreSidecar, SetPort, PollAnswered, PollGivesUp, PollClearsPort,
         WorkerCheck, StoreWorker, WorkerSpawnFails, StackUp, StackFailed
<1>3. UNCHANGED <<proc, slot, shutting>>
  BY <1>2 DEF WorkerDogStep, WorkerDogWakes, WorkerDogReads, shared
<1>4. CASE WorkerDogWakes
  <2>1. th' = [th EXCEPT !["wdog"].pc = "wdCheck", !["wdog"].w = 2]
    BY <1>1, <1>4 DEF WorkerDogWakes
  <2> QED
    BY <1>0, <1>1, <1>3, <2>1 DEF Only, Local
<1>5. CASE WorkerDogReads
  <2>1. CASE th' = [th EXCEPT !["wdog"] = Rest("idle")]
    <3>1. th'["wdog"] = Rest("idle") /\ Only("wdog")
      BY <1>0, <2>1 DEF Only
    <3> QED
      BY <1>3, <3>1 DEF Rest
  <2>2. CASE /\ th["wdog"].w <= Slots
             /\ th' = [th EXCEPT !["wdog"].pc = IF Exited(th["wdog"].w) THEN "ensure" ELSE "wdCheck",
                                 !["wdog"].w = th["wdog"].w + 1, !["wdog"].after = "wdCheck"]
    <3>1. th["wdog"].w \in Slot \ {Sidecar}
      BY <1>0, <2>2 DEF Local, Slot, Sidecar
    <3>2. ~Exited(th["wdog"].w)
      BY <3>1 DEF Exited, Alive, Alone, Dead
    <3>3. th' = [th EXCEPT !["wdog"].pc = "wdCheck",
                           !["wdog"].w = th["wdog"].w + 1, !["wdog"].after = "wdCheck"]
      BY <2>2, <3>2
    <3> QED
      BY <1>0, <1>1, <1>3, <3>3 DEF Only, Local
  <2> QED
    BY <1>5, <2>1, <2>2 DEF WorkerDogReads
<1> QED
  BY <1>2, <1>4, <1>5 DEF WorkerDogStep

LEMMA UndisturbedStep ==
    ASSUME Commands = {}, "worker" \notin Mortal, UndisturbedIInv, [Next]_vars
    PROVE  UndisturbedIInv'
<1>0. IInv /\ IInv' /\ TypeOK /\ Order /\ Alone /\ SpawnsIntoEmpty /\ NoOrphans
  BY StepKeeps DEF UndisturbedIInv, IInv
<1> SUFFICES Alone' /\ SpawnsIntoEmpty' /\ NoOrphans'
  BY <1>0 DEF UndisturbedIInv
<1>1. CASE DogStep
  <2>1. CASE StackStep("dog")
    BY <2>1, AloneStack
  <2>2. CASE ~StackStep("dog")
    <3>1. /\ Only("dog") /\ UNCHANGED <<proc, slot, shutting>>
          /\ th'["dog"].pc \in Watching \ {"sCheck"}
          /\ th["dog"].pid = None /\ th'["dog"].pid = None
          /\ th'["dog"].next \in {th["dog"].next, "idle"} /\ th'["dog"].after = "idle"
      BY <1>0, <1>1, <2>2, DogMoves DEF Alone
    <3>2. SpawnsIntoEmpty'
      BY <1>0, <3>1 DEF SpawnsIntoEmpty, Watching
    <3>3. th'["dog"].pc # "wStore"
      BY <3>1 DEF Watching
    <3> QED
      BY <1>0, <3>1, <3>2, <3>3, UndisturbedKept
  <2> QED
    BY <2>1, <2>2
<1>2. CASE WorkerDogStep
  <2>1. /\ Only("wdog") /\ th'["wdog"].pc \in {"idle", "wdCheck"}
        /\ th'["wdog"].pid = None /\ UNCHANGED <<proc, slot, shutting>>
    BY <1>0, <1>2, WorkerDogMoves
  <2>2. \A u \in {"init", "dog", "ui"} : th'[u] = th[u]
    BY <2>1 DEF Only, Thread
  <2>3. Alone' /\ SpawnsIntoEmpty'
    BY <1>0, <2>1, <2>2 DEF Alone, SpawnsIntoEmpty
  <2>4. NoOrphans'
    <3> SUFFICES ASSUME NEW p \in Pids, Alive(p)' PROVE Handled(p)'
      BY DEF NoOrphans
    <3>1. Handled(p) /\ p # None
      BY <1>0, <2>1, NoneIsNoPid DEF NoOrphans, Alive
    <3>2. th["wdog"].pid = None
      BY <1>0 DEF Order, Places, Place, Alone, Thread
    <3> QED
      BY <2>1, <3>1, <3>2 DEF Handled, Only
  <2> QED
    BY <2>3, <2>4
<1>3. CASE \E p \in Pids : BecomeReady(p) \/ Crash(p)
  <2>1. PICK p \in Pids : BecomeReady(p) \/ Crash(p)
    BY <1>3
  <2>2. UNCHANGED <<slot, shutting, th>>
    BY <2>1 DEF BecomeReady, Crash
  <2>3. proc[p] # [at |-> "ready", port |-> None]
    <3>1. CASE BecomeReady(p)
      BY <3>1 DEF BecomeReady
    <3>2. CASE Crash(p)
      BY <3>2 DEF Crash, Dies
    <3> QED
      BY <2>1, <3>1, <3>2
  <2>4. \A q \in Pids : q # p => proc'[q] = proc[q]
    BY <1>0, <2>1 DEF BecomeReady, Crash, TypeOK
  <2>5. Alive(p)
    BY <2>1 DEF BecomeReady, Crash, Alive, Dead
  <2>6. Alone'
    <3>1. \A s \in Slot \ {Sidecar} :
            slot'[s] # None => proc'[slot'[s]] = [at |-> "ready", port |-> None]
      BY <1>0, <2>2, <2>3, <2>4 DEF Alone, TypeOK
    <3>2. th["dog"].pc = "wStore" => th["dog"].pid \in Pids
      BY <1>0 DEF Order, Places, Place, TypeOK, Local, Thread
    <3>3. th'["dog"].pc = "wStore" => proc'[th'["dog"].pid] = [at |-> "ready", port |-> None]
      BY <1>0, <2>2, <2>3, <2>4, <3>2 DEF Alone
    <3> QED
      BY <1>0, <2>2, <3>1, <3>3 DEF Alone
  <2>7. SpawnsIntoEmpty'
    BY <1>0, <2>2 DEF SpawnsIntoEmpty
  <2>8. NoOrphans'
    BY <1>0, <2>2, <2>4, <2>5 DEF NoOrphans, Alive, Handled
  <2> QED
    BY <2>6, <2>7, <2>8
<1>4. CASE \/ \E t \in {"dog", "wdog"} : BackoffEnds(t)
           \/ GraceEnds
           \/ UNCHANGED vars
  <2>1. UNCHANGED <<proc, slot, shutting, th>>
    BY <1>4 DEF BackoffEnds, GraceEnds, vars, shared
  <2> QED
    BY <1>0, <2>1 DEF Alone, SpawnsIntoEmpty, NoOrphans, Alive, Handled
(* The start-up thread is through, the main thread has nothing to do. *)
<1>5. ~InitStep /\ ~UiStep /\ ~Commanded
  <2>1. th["init"].pc = "done" /\ th["ui"].pc = "idle"
    BY <1>0 DEF Alone
  <2>2. \A t \in {"init", "ui"} : ~StackStep(t)
    BY <2>1 DEF StackStep, RestartCheck, KillSlot, KillClearsPort, SpawnCheck, SpawnSidecar,
         SidecarSpawnFails, StoreSidecar, SetPort, PollAnswered, PollGivesUp, PollClearsPort,
         WorkerCheck, StoreWorker, WorkerSpawnFails, StackUp, StackFailed
  <2> QED
    BY <2>1, <2>2 DEF InitStep, InitBegins, UiStep, UiStopped, Commanded, RestartCommand,
         KillCommand, ShutdownCommand, Command
<1> QED
  BY <1>1, <1>2, <1>3, <1>4, <1>5 DEF Next

LEMMA UndisturbedInit ==
    ASSUME InitUp
    PROVE  UndisturbedIInv
<1>0. Slot \subseteq Pids /\ Sidecar \in Slot /\ Sidecar = 1
  BY SlotsAssumption, PidsAreNumbers DEF Slot, Sidecar
<1>1. /\ th["init"].pc = "done" /\ \A t \in {"dog", "wdog", "ui"} : th[t].pc = "idle"
      /\ th["dog"].after = "idle" /\ th["dog"].next = "idle"
  BY DEF InitUp, Rest, Thread
<1>2. \A s \in Slot : slot[s] = s
  BY DEF InitUp
<1>3. \A s \in Slot \ {Sidecar} : proc[s] = [at |-> "ready", port |-> None]
  BY <1>0 DEF InitUp
<1>4. \A p \in Pids : p \notin Slot => ~Alive(p)
  BY DEF InitUp, Alive
<1>5. Alone
  BY <1>1, <1>2, <1>3 DEF Alone, InitUp
<1>6. SpawnsIntoEmpty
  BY <1>1 DEF SpawnsIntoEmpty
<1>7. NoOrphans
  BY <1>2, <1>4 DEF NoOrphans, Handled
<1> QED
  BY <1>5, <1>6, <1>7, InitIInv DEF UndisturbedIInv

(* From a stack that is up, as long as no worker dies and no command is    *)
(* given, no process that lives is without a handle by which it can be     *)
(* killed, whatever the sidecar does: dies, hangs, does not start (the     *)
(* kill and the spawns of restart_backend_stack).                          *)
THEOREM NoOrphansHolds ==
    ASSUME Commands = {}, "worker" \notin Mortal
    PROVE  SpecUp => []NoOrphans
<1>1. InitUp => UndisturbedIInv
  BY UndisturbedInit
<1>2. UndisturbedIInv /\ [Next]_vars => UndisturbedIInv'
  BY UndisturbedStep
<1>3. UndisturbedIInv => NoOrphans
  BY DEF UndisturbedIInv
<1> QED
  BY <1>1, <1>2, <1>3, PTL DEF SpecUp
=============================================================================
