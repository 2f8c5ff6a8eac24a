----------------------------- MODULE Supervisor -----------------------------
(***************************************************************************)
(* The process supervisor of the Tauri host (src-tauri/src/main.rs): the   *)
(* thread that starts the backend stack, the sidecar watchdog, the worker  *)
(* watchdog and the main thread with the commands of the front end.  They  *)
(* share the child handles, the port, the status and the shutdown flag,    *)
(* each behind a mutex of its own that is held for one access only; no     *)
(* lock covers a spawn, a kill or a restart as a whole.  One action is one *)
(* access to the shared state (or the test and the update that follows it  *)
(* without another thread being able to tell the difference).              *)
(*                                                                         *)
(* A slot is a child handle: slot 1 the sidecar, the others the workers.   *)
(* The 60 s back-off and the 90 s grace period of the watchdogs are flags  *)
(* that time clears; their lengths matter to module WatchdogTiming.  Logs, *)
(* the log path and the texts of the reasons are left out.                 *)
(***************************************************************************)
EXTENDS Integers, FiniteSetsExt

CONSTANTS
    Slots,          \* number of child handles: the sidecar and the workers
    Pids,           \* process identities, reused once a process is gone
    Ports,          \* the ports 18100..18200
    FailsBeforeRestart, \* WATCHDOG_FAILS_BEFORE_RESTART
    Mortal,         \* what may fail: a sidecar or a worker that runs, a spawn
    MaxCrashes,     \* bound: how many of them do
    MaxStalls,      \* bound: probes and polls that fail on a live sidecar
    Commands,       \* what the front end may ask for
    MaxCommands,    \* bound on the number of commands
    Patient,        \* TRUE: a minute does not pass within a quick step
    None

ASSUME PatientAssumption == Patient \in BOOLEAN
ASSUME SlotsAssumption == Slots \in Nat \ {0}
ASSUME PidsAreNumbers == Pids \subseteq Nat /\ 1 .. Slots \subseteq Pids
ASSUME PortsAreNumbers == Ports \subseteq Nat /\ Ports # {} /\ None \notin Nat
ASSUME FailsAssumption == FailsBeforeRestart \in Nat \ {0}
ASSUME BoundsAssumption == MaxCrashes \in Nat /\ MaxStalls \in Nat /\ MaxCommands \in Nat
ASSUME MortalAssumption == Mortal \subseteq {"sidecar", "worker", "spawn"}
ASSUME CommandsAssumption == Commands \subseteq {"restart", "kill", "shutdown"}

Thread == {"init", "dog", "wdog", "ui"}
Sidecar == 1
Slot == 1 .. Slots

VARIABLES
    proc,       \* state of each process
    slot,       \* child, worker_child, valuation_worker_child
    port,       \* SidecarState.port
    shutting,   \* SidecarState.shutting_down
    status,     \* backend_status.state
    th,         \* program counter and locals of each thread
    backoff,    \* a watchdog restarted less than 60 s ago
    grace,      \* the sidecar watchdog's post-restart grace period
    streak,     \* health_fail_streak
    crashes, stalls, commands   \* used parts of the bounds

shared == <<proc, slot, port, shutting, status>>
dogVars == <<backoff, grace, streak>>
counters == <<crashes, stalls, commands>>
vars == <<shared, th, dogVars, counters>>

(* A process: where it stands and, for a sidecar, the port it was given.   *)
Dead == [at |-> "dead", port |-> None]
Process == [at : {"starting", "ready"}, port : Ports \cup {None}] \cup {Dead}

(* "starting" stands for `restarting' too: the watchdog treats them alike. *)
State == {"starting", "healthy", "unhealthy", "failed", "stopped"}

Pc == {"begin", "idle", "done",
       "rCheck", "kill", "clearPort", "sCheck", "spawn", "store", "setPort",
       "poll", "pollClear", "wCheck", "wStore", "ok", "err",
       "dRead", "dProbe", "dHealthy", "dAlive", "dConfirm", "dMissing",
       "ensure", "wdCheck", "uStopped", "uDone"}

(* Locals: i the slot at hand; pid the process spawned and not yet stored; *)
(* port the port in hand; next where to go when the stack is killed; after *)
(* where to go when a start or restart is over; warm whether its success   *)
(* opens the grace period; w the slot the worker watchdog looks at.        *)
Local == [pc : Pc, i : 1 .. Slots + 1, pid : Pids \cup {None},
          port : Ports \cup {None}, next : Pc, after : Pc, warm : BOOLEAN,
          w : 2 .. Slots + 1]

TypeOK ==
    /\ proc \in [Pids -> Process]
    /\ slot \in [Slot -> Pids \cup {None}]
    /\ port \in Ports \cup {None}
    /\ shutting \in BOOLEAN
    /\ status \in State
    /\ th \in [Thread -> Local]
    /\ backoff \in [{"dog", "wdog"} -> BOOLEAN]
    /\ grace \in BOOLEAN
    /\ streak \in 0 .. FailsBeforeRestart
    /\ crashes \in 0 .. MaxCrashes /\ stalls \in 0 .. MaxStalls
    /\ commands \in 0 .. MaxCommands

Rest(pc) == [pc |-> pc, i |-> 1, pid |-> None, port |-> None, next |-> "idle",
             after |-> "idle", warm |-> FALSE, w |-> 2]

Init ==
    /\ proc = [p \in Pids |-> Dead]
    /\ slot = [s \in Slot |-> None]
    /\ port = None
    /\ shutting = FALSE
    /\ status = "stopped"
    /\ th = [t \in Thread |-> Rest(IF t = "init" THEN "begin" ELSE "idle")]
    /\ backoff = [t \in {"dog", "wdog"} |-> FALSE]
    /\ grace = FALSE /\ streak = 0
    /\ crashes = 0 /\ stalls = 0 /\ commands = 0

-----------------------------------------------------------------------------
Alive(p) == proc[p] # Dead
(* A GET /healthz on a port succeeds iff a ready sidecar listens on it. *)
Serves(q) == \E p \in Pids : Alive(p) /\ proc[p].at = "ready" /\ proc[p].port = q
(* A handle whose process is gone: ManagedChild::has_exited. *)
Exited(s) == slot[s] # None /\ ~Alive(slot[s])

Handled(p) == (\E s \in Slot : slot[s] = p) \/ (\E t \in Thread : th[t].pid = p)
FreePids == {p \in Pids : ~Alive(p) /\ ~Handled(p)}
NewPid == IF FreePids = {} THEN None ELSE Min(FreePids)
OpenPorts == {q \in Ports : ~Serves(q)}

(* One more failure of this kind. *)
Dies(kind) == kind \in Mortal /\ crashes < MaxCrashes /\ crashes' = crashes + 1

Goto(t, pc) == th' = [th EXCEPT ![t].pc = pc]
GotoWorkers(t) == th' = [th EXCEPT ![t].pc = "wCheck", ![t].i = 2, ![t].port = None]
GotoSlot(t, pc, n) == th' = [th EXCEPT ![t].pc = pc, ![t].i = n]
GoRest(t, pc) == th' = [th EXCEPT ![t] = [Rest(pc) EXCEPT !.w = th[t].w]]

(* Mutant: the handle is taken, the process is not killed. *)
MutTakeOnly(s) == slot' = [slot EXCEPT ![s] = None] /\ UNCHANGED proc

(* take() the handle of a slot and kill what it refers to. *)
TakeAndKill(s) ==
    /\ slot' = [slot EXCEPT ![s] = None]
    /\ proc' = IF slot[s] = None THEN proc ELSE [proc EXCEPT ![slot[s]] = Dead]

-----------------------------------------------------------------------------
(* restart_backend_stack: check the flag, say `starting'. *)
RestartCheck(t) ==
    /\ th[t].pc = "rCheck"
    /\ IF shutting
       THEN GoRest(t, th[t].after) /\ UNCHANGED status
       ELSE /\ status' = "starting"
            /\ th' = [th EXCEPT ![t].pc = "kill", ![t].i = 1, ![t].next = "sCheck"]
    /\ UNCHANGED <<proc, slot, port, shutting, dogVars, counters>>

(* kill_backend_stack: one handle after the other, then the port. *)
KillSlot(t) ==
    /\ th[t].pc = "kill"
    /\ TakeAndKill(th[t].i)
    /\ IF th[t].i < Slots THEN GotoSlot(t, "kill", th[t].i + 1)
       ELSE Goto(t, "clearPort")
    /\ UNCHANGED <<port, shutting, status, dogVars, counters>>

KillClearsPort(t) ==
    /\ th[t].pc = "clearPort"
    /\ port' = None
    /\ th' = [th EXCEPT ![t].pc = th[t].next, ![t].i = 1, ![t].next = "idle"]
    /\ UNCHANGED <<proc, slot, shutting, status, dogVars, counters>>

(* do_spawn_backend_stack: check the flag, say `starting'. *)
SpawnCheck(t) ==
    /\ th[t].pc = "sCheck"
    /\ IF shutting
       THEN Goto(t, "err") /\ UNCHANGED status
       ELSE Goto(t, "spawn") /\ status' = "starting"
    /\ UNCHANGED <<proc, slot, port, shutting, dogVars, counters>>

(* do_spawn_sidecar: `if already running, return existing port', else      *)
(* spawn a process on the first port nobody listens on.                    *)
SpawnSidecar(t) ==
    /\ th[t].pc = "spawn"
    /\ \/ /\ shutting
          /\ Goto(t, "err")
          /\ UNCHANGED proc
       \/ /\ ~shutting /\ port # None
          /\ GotoWorkers(t)
          /\ UNCHANGED proc
       \/ /\ ~shutting /\ port = None /\ OpenPorts = {}
          /\ Goto(t, "err")
          /\ UNCHANGED proc
       \/ /\ ~shutting /\ port = None /\ OpenPorts # {}
          /\ NewPid # None
          /\ proc' = [proc EXCEPT ![NewPid] = [at |-> "starting", port |-> Min(OpenPorts)]]
          /\ th' = [th EXCEPT ![t].pc = "store", ![t].pid = NewPid, ![t].port = Min(OpenPorts)]
    /\ UNCHANGED <<slot, port, shutting, status, dogVars, counters>>

SidecarSpawnFails(t) ==
    /\ th[t].pc = "spawn" /\ ~shutting /\ port = None
    /\ Dies("spawn")
    /\ Goto(t, "err")
    /\ UNCHANGED <<shared, dogVars, stalls, commands>>

(* The handle goes into its slot; one that was there is dropped, and the   *)
(* process behind it lives on.                                             *)
StoreSidecar(t) ==
    /\ th[t].pc = "store"
    /\ slot' = [slot EXCEPT ![Sidecar] = th[t].pid]
    /\ th' = [th EXCEPT ![t].pc = "setPort", ![t].pid = None]
    /\ UNCHANGED <<proc, port, shutting, status, dogVars, counters>>

SetPort(t) ==
    /\ th[t].pc = "setPort"
    /\ port' = th[t].port
    /\ Goto(t, "poll")
    /\ UNCHANGED <<proc, slot, shutting, status, dogVars, counters>>

(* The poll window, the back-off and the grace period are a minute or more, *)
(* a step of a thread that does not wait takes a moment.  Where Patient     *)
(* holds the first do not pass during the second; otherwise anything goes.  *)
Quiet == \A t \in Thread : th[t].pc \in {"idle", "poll", "done"}
MayPass == Patient => Quiet

(* A probe that fails: because the sidecar with that port is gone, or      *)
(* because it is not up yet or too slow to answer.                         *)
ProbeFails(q) ==
    IF \E p \in Pids : proc[p].port = q
    THEN stalls < MaxStalls /\ stalls' = stalls + 1
    ELSE UNCHANGED stalls

(* The health poll of the port: it answers, or the 90 s are over, or the   *)
(* application shuts down.  The last two kill WHATEVER sits in the slot.   *)
PollAnswered(t) ==
    /\ th[t].pc = "poll"
    /\ ~shutting
    /\ Serves(th[t].port)
    /\ GotoWorkers(t)
    /\ UNCHANGED <<shared, dogVars, counters>>

(* Mutant: shutting down ends the poll without killing the child. *)
MutPollLeavesChild(t) ==
    /\ th[t].pc = "poll"
    /\ IF shutting THEN UNCHANGED stalls ELSE MayPass /\ ProbeFails(th[t].port)
    /\ th' = [th EXCEPT ![t].pc = "err", ![t].port = None]
    /\ UNCHANGED <<shared, dogVars, crashes, commands>>

(* Mutant: the poll has no time limit. *)
MutPollUnlimited(t) ==
    /\ th[t].pc = "poll" /\ shutting
    /\ TakeAndKill(Sidecar)
    /\ th' = [th EXCEPT ![t].pc = "pollClear", ![t].port = None]
    /\ UNCHANGED <<port, shutting, status, dogVars, counters>>


PollGivesUp(t) ==
    /\ th[t].pc = "poll"
    /\ IF shutting THEN UNCHANGED stalls ELSE MayPass /\ ProbeFails(th[t].port)
    /\ TakeAndKill(Sidecar)
    /\ th' = [th EXCEPT ![t].pc = "pollClear", ![t].port = None]
    /\ UNCHANGED <<port, shutting, status, dogVars, crashes, commands>>

PollClearsPort(t) ==
    /\ th[t].pc = "pollClear"
    /\ port' = None
    /\ Goto(t, "err")
    /\ UNCHANGED <<proc, slot, shutting, status, dogVars, counters>>

(* do_spawn_worker, do_spawn_valuation_worker: nothing to do if the handle *)
(* is there; else spawn, and store in a second access.  No shutdown check. *)
WorkerCheck(t) ==
    /\ th[t].pc = "wCheck"
    /\ \/ /\ th[t].i > Slots
          /\ Goto(t, "ok")
          /\ UNCHANGED proc
       \/ /\ th[t].i <= Slots /\ slot[th[t].i] # None
          /\ GotoSlot(t, "wCheck", th[t].i + 1)
          /\ UNCHANGED proc
       \/ /\ th[t].i <= Slots /\ slot[th[t].i] = None
          /\ NewPid # None
          /\ proc' = [proc EXCEPT ![NewPid] = [at |-> "ready", port |-> None]]
          /\ th' = [th EXCEPT ![t].pc = "wStore", ![t].pid = NewPid]
    /\ UNCHANGED <<slot, port, shutting, status, dogVars, counters>>

StoreWorker(t) ==
    /\ th[t].pc = "wStore"
    /\ slot' = [slot EXCEPT ![th[t].i] = th[t].pid]
    /\ th' = [th EXCEPT ![t].pc = "wCheck", ![t].i = @ + 1, ![t].pid = None]
    /\ UNCHANGED <<proc, port, shutting, status, dogVars, counters>>

(* A worker cannot be spawned: the whole stack is killed. *)
WorkerSpawnFails(t) ==
    /\ th[t].pc = "wCheck" /\ th[t].i <= Slots /\ slot[th[t].i] = None
    /\ Dies("spawn")
    /\ th' = [th EXCEPT ![t].pc = "kill", ![t].i = 1, ![t].next = "err", ![t].port = None]
    /\ UNCHANGED <<shared, dogVars, stalls, commands>>

(* The stack is up: `healthy'. *)
StackUp(t) ==
    /\ th[t].pc = "ok"
    /\ status' = "healthy"
    /\ grace' = (grace \/ th[t].warm)
    /\ GoRest(t, th[t].after)
    /\ UNCHANGED <<proc, slot, port, shutting, backoff, streak, counters>>

(* The start or the restart failed: `failed'. *)
StackFailed(t) ==
    /\ th[t].pc = "err"
    /\ status' = "failed"
    /\ GoRest(t, th[t].after)
    /\ UNCHANGED <<proc, slot, port, shutting, dogVars, counters>>

(* do_spawn_backend_stack and restart_backend_stack, whichever thread runs *)
(* them.                                                                   *)
StackStep(t) ==
    \/ RestartCheck(t) \/ KillSlot(t) \/ KillClearsPort(t)
    \/ SpawnCheck(t) \/ SpawnSidecar(t) \/ SidecarSpawnFails(t)
    \/ StoreSidecar(t) \/ SetPort(t)
    \/ PollAnswered(t) \/ PollGivesUp(t) \/ PollClearsPort(t)
    \/ WorkerCheck(t) \/ StoreWorker(t) \/ WorkerSpawnFails(t)
    \/ StackUp(t) \/ StackFailed(t)

(* ensure_backend_stack_running: nothing while shutting down, `unhealthy'  *)
(* while backing off, else a restart.                                      *)
Ensure(t) ==
    /\ th[t].pc = "ensure"
    /\ \/ /\ shutting
          /\ GoRest(t, th[t].after)
          /\ UNCHANGED <<status, backoff>>
       \/ /\ ~shutting /\ backoff[t]
          /\ status' = "unhealthy"
          /\ GoRest(t, th[t].after)
          /\ UNCHANGED backoff
       \/ /\ ~shutting /\ ~backoff[t]
          /\ backoff' = [backoff EXCEPT ![t] = TRUE]
          /\ Goto(t, "rCheck")
          /\ UNCHANGED status
    /\ UNCHANGED <<proc, slot, port, shutting, grace, streak, counters>>

-----------------------------------------------------------------------------
(* The thread that starts the stack when the application starts. *)
InitBegins ==
    /\ th["init"].pc = "begin"
    /\ IF shutting THEN Goto("init", "done")
       ELSE th' = [th EXCEPT !["init"].pc = "sCheck", !["init"].after = "done"]
    /\ UNCHANGED <<shared, dogVars, counters>>

(* Mutant: the watchdog never looks at the flag. *)
MutDogIgnoresFlag ==
    /\ th["dog"].pc = "idle"
    /\ th' = [th EXCEPT !["dog"].pc = "dRead", !["dog"].port = port]
    /\ UNCHANGED <<shared, dogVars, counters>>

(* The sidecar watchdog wakes: stop, or take a snapshot of the port. *)
DogWakes ==
    /\ th["dog"].pc = "idle"
    /\ IF shutting THEN Goto("dog", "done")
       ELSE th' = [th EXCEPT !["dog"].pc = "dRead", !["dog"].port = port]
    /\ UNCHANGED <<shared, dogVars, counters>>

(* Has the child exited?  If not, probe the port, if there is one. *)
DogReads ==
    /\ th["dog"].pc = "dRead"
    /\ IF Exited(Sidecar)
       THEN /\ th' = [th EXCEPT !["dog"] = [Rest("ensure") EXCEPT !.warm = TRUE]]
            /\ streak' = 0
       ELSE /\ Goto("dog", IF th["dog"].port = None THEN "dMissing" ELSE "dProbe")
            /\ streak' = IF th["dog"].port = None THEN 0 ELSE streak
    /\ UNCHANGED <<shared, backoff, grace, counters>>

DogProbeOk ==
    /\ th["dog"].pc = "dProbe"
    /\ Serves(th["dog"].port)
    /\ Goto("dog", "dHealthy")
    /\ UNCHANGED <<shared, dogVars, counters>>

DogHealthy ==
    /\ th["dog"].pc = "dHealthy"
    /\ status' = "healthy"
    /\ streak' = 0
    /\ GoRest("dog", "idle")
    /\ UNCHANGED <<proc, slot, port, shutting, backoff, grace, counters>>


DogProbeFails ==
    /\ th["dog"].pc = "dProbe"
    /\ ProbeFails(th["dog"].port)
    /\ IF grace
       THEN GoRest("dog", "idle") /\ UNCHANGED <<status, streak>>
       ELSE /\ streak' = streak + 1
            /\ status' = "unhealthy"
            /\ IF streak + 1 >= FailsBeforeRestart THEN Goto("dog", "dAlive")
               ELSE GoRest("dog", "idle")
    /\ UNCHANGED <<proc, slot, port, shutting, backoff, grace, crashes, commands>>

(* Mutant: the streak is not reset when it leads to a restart. *)
MutStreakKept ==
    /\ th' = [th EXCEPT !["dog"] = [Rest("ensure") EXCEPT !.warm = TRUE]]
    /\ UNCHANGED streak


ForceRestart ==
    /\ streak' = 0
    /\ th' = [th EXCEPT !["dog"] = [Rest("ensure") EXCEPT !.warm = TRUE]]

(* The liveness gate: a process that is alive gets a confirming probe. *)
DogGate ==
    /\ th["dog"].pc = "dAlive"
    /\ IF slot[Sidecar] # None /\ ~Exited(Sidecar)
       THEN Goto("dog", "dConfirm") /\ UNCHANGED streak
       ELSE ForceRestart
    /\ UNCHANGED <<shared, backoff, grace, counters>>

DogConfirms ==
    /\ th["dog"].pc = "dConfirm"
    /\ \/ /\ Serves(th["dog"].port)
          /\ Goto("dog", "dHealthy")
          /\ UNCHANGED <<streak, stalls>>
       \/ /\ ProbeFails(th["dog"].port)
          /\ ForceRestart
    /\ UNCHANGED <<shared, backoff, grace, crashes, commands>>

(* No port: restart if the whole stack is missing and the status is one of *)
(* those to recover from.                                                  *)
StackMissing == port = None /\ \A s \in Slot : slot[s] = None
(* Mutant: a failed start is not recovered from. *)
MutRecoverable == {"stopped", "unhealthy", "starting"}

Recoverable == {"failed", "stopped", "unhealthy", "starting"}

DogSeesMissing ==
    /\ th["dog"].pc = "dMissing"
    /\ IF StackMissing /\ status \in Recoverable THEN Goto("dog", "ensure")
       ELSE GoRest("dog", "idle")
    /\ UNCHANGED <<shared, dogVars, counters>>

(* The worker watchdog looks at one worker handle after the other. *)
WorkerDogWakes ==
    /\ th["wdog"].pc = "idle"
    /\ IF shutting THEN Goto("wdog", "done")
       ELSE th' = [th EXCEPT !["wdog"].pc = "wdCheck", !["wdog"].w = 2]
    /\ UNCHANGED <<shared, dogVars, counters>>

(* Mutant: off by one, the last worker is never looked at. *)
MutWorkerDogStopsEarly ==
    /\ th["wdog"].pc = "wdCheck"
    /\ LET w == th["wdog"].w
       IN  \/ w >= Slots /\ th' = [th EXCEPT !["wdog"] = Rest("idle")]
           \/ /\ w < Slots
              /\ th' = [th EXCEPT !["wdog"].pc = IF Exited(w) THEN "ensure" ELSE "wdCheck",
                                  !["wdog"].w = w + 1, !["wdog"].after = "wdCheck"]
    /\ UNCHANGED <<shared, dogVars, counters>>


WorkerDogReads ==
    /\ th["wdog"].pc = "wdCheck"
    /\ LET w == th["wdog"].w
       IN  \/ w > Slots /\ th' = [th EXCEPT !["wdog"] = Rest("idle")]
           \/ /\ w <= Slots
              /\ th' = [th EXCEPT !["wdog"].pc = IF Exited(w) THEN "ensure" ELSE "wdCheck",
                                  !["wdog"].w = w + 1, !["wdog"].after = "wdCheck"]
    /\ UNCHANGED <<shared, dogVars, counters>>

-----------------------------------------------------------------------------
(* The commands of the front end, one at a time on the main thread:        *)
(* restart_sidecar (a user's, or the front end's own when the status is    *)
(* `failed'), kill_sidecar, shutdown_app (and the close event).            *)
Command(c) ==
    /\ th["ui"].pc = "idle"
    /\ c \in Commands
    /\ commands < MaxCommands
    /\ commands' = commands + 1
    /\ UNCHANGED <<proc, slot, port, status, dogVars, crashes, stalls>>

RestartCommand ==
    /\ Command("restart")
    /\ Goto("ui", "rCheck")
    /\ UNCHANGED shutting

KillCommand ==
    /\ Command("kill")
    /\ th' = [th EXCEPT !["ui"].pc = "kill", !["ui"].i = 1, !["ui"].next = "uStopped"]
    /\ UNCHANGED shutting

ShutdownCommand ==
    /\ Command("shutdown")
    /\ shutting' = TRUE
    /\ th' = [th EXCEPT !["ui"].pc = "kill", !["ui"].i = 1, !["ui"].next = "uDone"]

UiStopped ==
    /\ th["ui"].pc \in {"uStopped", "uDone"}
    /\ status' = "stopped"
    /\ GoRest("ui", IF th["ui"].pc = "uDone" THEN "done" ELSE "idle")
    /\ UNCHANGED <<proc, slot, port, shutting, dogVars, counters>>

-----------------------------------------------------------------------------
(* The environment.  A sidecar that finds its port taken exits. *)
BecomeReady(p) ==
    /\ proc[p].at = "starting"
    /\ proc' = [proc EXCEPT ![p] = IF Serves(@.port) THEN Dead ELSE [@ EXCEPT !.at = "ready"]]
    /\ UNCHANGED <<slot, port, shutting, status, th, dogVars, counters>>

Crash(p) ==
    /\ Alive(p)
    /\ Dies(IF proc[p].port = None THEN "worker" ELSE "sidecar")
    /\ proc' = [proc EXCEPT ![p] = Dead]
    /\ UNCHANGED <<slot, port, shutting, status, th, dogVars, stalls, commands>>

BackoffEnds(t) ==
    /\ backoff[t] /\ MayPass
    /\ backoff' = [backoff EXCEPT ![t] = FALSE]
    /\ UNCHANGED <<shared, th, grace, streak, counters>>

GraceEnds ==
    /\ grace /\ MayPass
    /\ grace' = FALSE
    /\ UNCHANGED <<shared, th, backoff, streak, counters>>

DogStep ==
    \/ DogWakes \/ DogReads \/ DogProbeOk \/ DogHealthy \/ DogProbeFails
    \/ DogGate \/ DogConfirms \/ DogSeesMissing \/ Ensure("dog") \/ StackStep("dog")
WorkerDogStep ==
    \/ WorkerDogWakes \/ WorkerDogReads \/ Ensure("wdog") \/ StackStep("wdog")
InitStep == InitBegins \/ StackStep("init")
UiStep == UiStopped \/ StackStep("ui")
Commanded == RestartCommand \/ KillCommand \/ ShutdownCommand

Next ==
    \/ InitStep \/ DogStep \/ WorkerDogStep \/ UiStep \/ Commanded
    \/ \E p \in Pids : BecomeReady(p) \/ Crash(p)
    \/ \E t \in {"dog", "wdog"} : BackoffEnds(t)
    \/ GraceEnds

(* Threads run, processes come up, time passes; faults and commands need   *)
(* not happen.                                                             *)
Fairness ==
    /\ WF_vars(InitStep) /\ WF_vars(DogStep) /\ WF_vars(WorkerDogStep) /\ WF_vars(UiStep)
    /\ \A p \in Pids : WF_vars(BecomeReady(p))
    /\ \A t \in {"dog", "wdog"} : WF_vars(BackoffEnds(t))
    /\ WF_vars(GraceEnds)

Spec == Init /\ [][Next]_vars /\ Fairness

(* The same, from a stack that has come up undisturbed. *)
InitUp ==
    /\ proc = [p \in Pids |-> IF p \notin Slot THEN Dead
                              ELSE [at |-> "ready", port |-> IF p = Sidecar THEN Min(Ports) ELSE None]]
    /\ slot = [s \in Slot |-> s]
    /\ port = Min(Ports)
    /\ shutting = FALSE
    /\ status = "healthy"
    /\ th = [t \in Thread |-> Rest(IF t = "init" THEN "done" ELSE "idle")]
    /\ backoff = [t \in {"dog", "wdog"} |-> FALSE]
    /\ grace = FALSE /\ streak = 0
    /\ crashes = 0 /\ stalls = 0 /\ commands = 0

SpecUp == InitUp /\ [][Next]_vars /\ Fairness

(* With Patient, time must pass although it can do so only now and then.   *)
SpecPatient ==
    /\ SpecUp
    /\ \A t \in Thread : SF_vars(PollGivesUp(t))
    /\ \A t \in {"dog", "wdog"} : SF_vars(BackoffEnds(t))
    /\ SF_vars(GraceEnds)
-----------------------------------------------------------------------------
(* Somewhere in a start or a restart of the stack. *)
Restarting(t) ==
    th[t].pc \in {"kill", "clearPort", "sCheck", "spawn", "store", "setPort",
                  "poll", "pollClear", "wCheck", "wStore", "ok"}
Done == \A t \in Thread : th[t].pc = "done"
AllUp == /\ status = "healthy" /\ port # None /\ Serves(port)
         /\ \A s \in Slot : slot[s] # None /\ Alive(slot[s])

(* Whatever a start or a restart was doing when the application began to   *)
(* shut down, it leaves no sidecar behind the handle and no port: a thread *)
(* that stores its child after the kill still sees the flag in its poll.   *)
SidecarStopped == Done => slot[Sidecar] = None /\ port = None

(* Every thread gives up once the application shuts down: no health poll,  *)
(* restart or watchdog loop outlives the flag.                             *)
ShutdownQuiesces == shutting ~> Done

(* A handle whose process died does not stay: the watchdog that looks at   *)
(* it replaces it, back-off or not, whatever the other threads do.         *)
DeadIsReplaced == \A s \in Slot : Exited(s) ~> ~Exited(s)

(* Every start or restart comes to an end, also when another thread kills  *)
(* the sidecar it is waiting for or puts one of its own in its place.      *)
RestartEnds == \A t \in Thread : Restarting(t) ~> ~Restarting(t)

(* A process that lives has a handle by which it can be killed. *)
NoOrphans == \A p \in Pids : Alive(p) => Handled(p)

(* README.md:98: the host `watchdog-restarts the stack when health checks  *)
(* fail': once nothing fails any more, the stack is up and stays up.  The  *)
(* threads are not at every moment in the middle of something, or no       *)
(* minute would ever pass.                                                 *)
Recovers == []<>Quiet => <>[]AllUp

(* SettingsPanel.tsx:104: kill_sidecar frees the executables for the       *)
(* installer: nothing is started again after it.                           *)
StaysKilled ==
    [][commands > 0 /\ th["ui"].pc = "idle" /\ th["init"].pc = "done"
       => \A p \in Pids : Alive(p)' => Alive(p)]_vars
=============================================================================
