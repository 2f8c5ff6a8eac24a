--------------------------- MODULE WatchdogTiming ---------------------------
(***************************************************************************)
(* The sidecar watchdog of src-tauri/src/main.rs against the clock: its    *)
(* poll interval, the failures it counts before a restart, the back-off    *)
(* between restarts, the grace period after one, and the window in which a *)
(* sidecar must come up, which is open once more in the thread that starts *)
(* the stack with the application.  One tick is one poll interval (5 s).   *)
(* Steps of the program take no time and are taken before the next tick;   *)
(* only a probe of a hung sidecar takes Probe ticks (its read times out).  *)
(* The interleavings within a tick are module Supervisor's subject; the    *)
(* workers and the front end play no part here.                            *)
(***************************************************************************)
EXTENDS Integers

CONSTANTS
    Fails,      \* WATCHDOG_FAILS_BEFORE_RESTART
    Backoff,    \* WATCHDOG_RESTART_BACKOFF_S, in ticks
    Grace,      \* WATCHDOG_POST_RESTART_GRACE_S, also the start-up window
    Probe,      \* the time a probe of a hung sidecar takes
    MaxStart    \* bound: the longest start of a sidecar

ASSUME TicksAssumption ==
    /\ {Fails, Backoff, Grace} \subseteq Nat \ {0} /\ {Probe, MaxStart} \subseteq Nat
    /\ Backoff <= Grace /\ Probe <= Grace

VARIABLES
    side,       \* the sidecar
    left,       \* ticks until it is ready
    port,       \* is there a port?
    init,       \* what is left of the first start's window; 0: it is over
    mode, wait, \* what the watchdog does and for how long
    streak,     \* health_fail_streak
    since,      \* ticks since last_restart_at, Backoff standing for more, or never
    warm,       \* ticks since last_restart_completed_at, Grace for more, or never
    hungFor,    \* how long the sidecar has been hung
    downFor     \* how long it has been dead

process == <<side, left, port>>
dog == <<mode, wait, streak, since, warm>>
age == <<hungFor, downFor>>
vars == <<process, init, dog, age>>

(* The longest a hung sidecar may wait for a restart: the grace period,    *)
(* the probe that straddles its end, the failures that count and the       *)
(* probe that confirms them; the back-off, shorter than the grace period,  *)
(* adds nothing.  The longest there may be no sidecar before a new one is  *)
(* started: a window in which the new one died at once, and a poll.        *)
HungBound == Grace + Probe + (Fails - 1) * (1 + Probe) + Probe
DownBound == Grace + 1

TypeOK ==
    /\ side \in {"starting", "ready", "hung", "dead", "none"}
    /\ left \in 0 .. MaxStart
    /\ port \in BOOLEAN
    /\ init \in 0 .. Grace
    /\ mode \in {"sleep", "probe", "confirm", "poll"}
    /\ wait \in 0 .. Grace + Probe + 1
    /\ streak \in 0 .. Fails
    /\ since \in 0 .. Backoff /\ warm \in 0 .. Grace
    /\ hungFor \in 0 .. HungBound + 1 /\ downFor \in 0 .. DownBound + 1

(* The first start has just spawned the sidecar; the watchdog sleeps. *)
Init ==
    /\ side = "starting" /\ left \in 0 .. MaxStart /\ port = TRUE
    /\ init = Grace
    /\ mode = "sleep" /\ wait = 1
    /\ streak = 0 /\ since = Backoff /\ warm = Grace
    /\ hungFor = 0 /\ downFor = 0

-----------------------------------------------------------------------------
(* The sidecar. *)
Up ==
    /\ side = "starting" /\ left = 0
    /\ side' = "ready"
    /\ UNCHANGED <<left, port, init, dog, age>>

Hangs ==
    /\ side = "ready"
    /\ side' = "hung"
    /\ UNCHANGED <<left, port, init, dog, age>>

Answers ==
    /\ side = "hung"
    /\ side' = "ready" /\ hungFor' = 0
    /\ UNCHANGED <<left, port, init, dog, downFor>>

Dies ==
    /\ side \in {"starting", "ready", "hung"}
    /\ side' = "dead" /\ left' = 0 /\ hungFor' = 0
    /\ UNCHANGED <<port, init, dog, downFor>>

-----------------------------------------------------------------------------
(* The sidecar is killed and the port cleared; the handle is gone. *)
Killed == side' = "none" /\ left' = 0 /\ port' = FALSE /\ hungFor' = 0 /\ UNCHANGED downFor

(* The health poll of the first start: an answer ends it, and so does the  *)
(* end of the window, with the death of whatever sidecar there is.         *)
FirstStartUp ==
    /\ init > 0 /\ side = "ready"
    /\ init' = 0
    /\ UNCHANGED <<process, dog, age>>

FirstStartFails ==
    /\ init = 1 /\ side # "ready"
    /\ init' = 0
    /\ Killed
    /\ UNCHANGED dog

-----------------------------------------------------------------------------
Sleep == mode' = "sleep" /\ wait' = 1

(* Mutant: an attempt within the back-off starts it anew. *)
MutRestart ==
    IF since < Backoff THEN since' = 0 /\ Sleep /\ UNCHANGED <<process, age>>
    ELSE /\ since' = 0
         /\ side' = "starting" /\ left' \in 0 .. MaxStart /\ port' = TRUE
         /\ mode' = "poll" /\ wait' = Grace
         /\ hungFor' = 0 /\ downFor' = 0

(* ensure_backend_stack_running: sleep on while backing off, else kill and *)
(* start the stack, and poll it within the window.                         *)
Restart ==
    IF since < Backoff THEN Sleep /\ UNCHANGED <<process, age, since>>
    ELSE /\ since' = 0
         /\ side' = "starting" /\ left' \in 0 .. MaxStart /\ port' = TRUE
         /\ mode' = "poll" /\ wait' = Grace
         /\ hungFor' = 0 /\ downFor' = 0

Healthy == Sleep /\ streak' = 0 /\ UNCHANGED <<process, age, since>>

(* Mutant: one more failure before a restart. *)
MutFailed ==
    \/ warm < Grace /\ Sleep /\ UNCHANGED <<process, age, streak, since>>
    \/ /\ warm >= Grace /\ streak < Fails
       /\ streak' = streak + 1 /\ Sleep
       /\ UNCHANGED <<process, age, since>>
    \/ /\ warm >= Grace /\ streak >= Fails
       /\ streak' = streak + 1
       /\ mode' = "confirm" /\ wait' = IF side = "hung" THEN Probe ELSE 0
       /\ UNCHANGED <<process, age, since>>

(* A failed probe: not counted within the grace period; the last one that  *)
(* is counted is confirmed by another probe.                               *)
Failed ==
    \/ warm < Grace /\ Sleep /\ UNCHANGED <<process, age, streak, since>>
    \/ /\ warm >= Grace /\ streak + 1 < Fails
       /\ streak' = streak + 1 /\ Sleep
       /\ UNCHANGED <<process, age, since>>
    \/ /\ warm >= Grace /\ streak + 1 >= Fails
       /\ streak' = streak + 1
       /\ mode' = "confirm" /\ wait' = IF side = "hung" THEN Probe ELSE 0
       /\ UNCHANGED <<process, age, since>>

(* The watchdog wakes: a dead sidecar, or no stack at all, is restarted; a *)
(* port is probed.                                                         *)
DogWakes ==
    /\ mode = "sleep" /\ wait = 0
    /\ \/ side = "dead" /\ streak' = 0 /\ Restart
       \/ side = "none" /\ ~port /\ streak' = 0 /\ Restart
       \/ side = "ready" /\ Healthy
       \/ side = "starting" /\ Failed
       \/ /\ side = "hung"
          /\ mode' = "probe" /\ wait' = Probe
          /\ UNCHANGED <<process, age, streak, since>>
    /\ UNCHANGED <<init, warm>>

DogProbed ==
    /\ mode = "probe" /\ wait = 0
    /\ \/ side = "ready" /\ Healthy
       \/ side # "ready" /\ Failed
    /\ UNCHANGED <<init, warm>>

(* Mutant: the streak is not reset when it leads to a restart. *)
MutDogConfirmed ==
    /\ mode = "confirm" /\ wait = 0
    /\ \/ side = "ready" /\ Healthy
       \/ side # "ready" /\ Restart /\ UNCHANGED streak
    /\ UNCHANGED <<init, warm>>

DogConfirmed ==
    /\ mode = "confirm" /\ wait = 0
    /\ \/ side = "ready" /\ Healthy
       \/ side # "ready" /\ streak' = 0 /\ Restart
    /\ UNCHANGED <<init, warm>>

(* The poll within a restart; a success opens the grace period. *)
RestartUp ==
    /\ mode = "poll" /\ side = "ready"
    /\ Sleep /\ warm' = 0
    /\ UNCHANGED <<process, init, streak, since, age>>

RestartFails ==
    /\ mode = "poll" /\ wait = 0 /\ side # "ready"
    /\ Sleep /\ Killed
    /\ UNCHANGED <<init, streak, since, warm>>

-----------------------------------------------------------------------------
(* Nothing is due: time passes. *)
Upto(n, top) == IF n < top THEN n + 1 ELSE top
Due ==
    \/ side = "starting" /\ left = 0
    \/ init = 1
    \/ init > 0 /\ side = "ready"
    \/ wait = 0
    \/ mode = "poll" /\ side = "ready"

Tick ==
    /\ ~Due
    /\ left' = IF side = "starting" THEN left - 1 ELSE left
    /\ init' = IF init > 0 THEN init - 1 ELSE 0
    /\ wait' = wait - 1
    /\ since' = Upto(since, Backoff) /\ warm' = Upto(warm, Grace)
    /\ hungFor' = IF side = "hung" THEN Upto(hungFor, HungBound + 1) ELSE 0
    /\ downFor' = IF side \in {"dead", "none"} THEN Upto(downFor, DownBound + 1) ELSE 0
    /\ UNCHANGED <<side, port, mode, streak>>

Next ==
    \/ Up \/ Hangs \/ Answers \/ Dies
    \/ FirstStartUp \/ FirstStartFails
    \/ DogWakes \/ DogProbed \/ DogConfirmed \/ RestartUp \/ RestartFails
    \/ Tick

Spec == Init /\ [][Next]_vars
-----------------------------------------------------------------------------
(* A hung sidecar is restarted within a bound: neither the grace period    *)
(* nor the back-off nor the streak lets it hang longer.                    *)
HungIsBounded == hungFor <= HungBound

(* After a sidecar died, or a start failed, a new one is started within a  *)
(* bound, whichever thread was waiting for the old one.                    *)
DownIsBounded == downFor <= DownBound

(* main.rs:140: `a slow but successful cold-start isn't immediately        *)
(* hammered by the watchdog': no restart while the first start's window is *)
(* open and its sidecar is on its way.                                     *)
ColdStartNotHammered ==
    [][init > 1 /\ side = "starting" /\ mode # "poll" => mode' # "poll"]_vars
=============================================================================
