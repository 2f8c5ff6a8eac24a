----------------------------- MODULE DesktopProofs -----------------------------
(***************************************************************************)
(* Theorems about the parts of the desktop application, for every value of *)
(* the constants: the sidecar watchdog restarts within its bounds, tabs    *)
(* keep one home and the workspace is what is shown, alerts fire once and  *)
(* are told, the page that runs simulations plays what it shows, and what  *)
(* is proved of an engine and of the sign-in holds here.                   *)
(***************************************************************************)
EXTENDS DesktopMC, Sequences, FiniteSetTheorems, TLAPS

(* From one failed probe to the next, and the time the failures take that  *)
(* are missing after s of them.                                            *)
Cycle == 1 + Probe
Missing(s) == (Fails - 1 - s) * Cycle

(* What each mode waits for is no longer than its own period; the streak   *)
(* is full only in the confirming probe, which the grace period precludes. *)
PeriodsFit ==
    /\ mode = "sleep" => wait <= 1
    /\ mode \in {"probe", "confirm"} => wait <= Probe
    /\ mode = "poll" => wait <= Grace
    /\ mode # "confirm" => streak < Fails
    /\ mode = "confirm" => warm = Grace

(* The back-off ends no later than the grace period, or the poll. *)
BackoffIsShorter ==
    /\ mode # "poll" => Backoff - since <= Grace - warm
    /\ mode = "poll" => Backoff - since <= wait

Ages ==
    /\ side # "hung" => hungFor = 0
    /\ side \notin {"dead", "none"} => downFor = 0

(* What is left of HungBound while the sidecar hangs. *)
HungLeaves ==
    side = "hung" =>
      /\ mode = "sleep" => hungFor + wait + Probe + Missing(streak) + Probe <= HungBound
      /\ mode = "probe" => hungFor + wait + Missing(streak) + Probe <= HungBound
      /\ mode \in {"sleep", "probe"} /\ warm < Grace =>
           hungFor + (Grace - warm) + Probe + Missing(streak) + Probe <= HungBound
      /\ mode = "confirm" => hungFor + wait <= HungBound
      /\ mode = "poll" => hungFor + wait <= Grace

(* What is left of DownBound while there is no sidecar. *)
DownLeaves ==
    side \in {"dead", "none"} =>
      /\ mode \in {"sleep", "confirm"} => downFor + wait <= DownBound
      /\ mode \in {"probe", "poll"} => downFor + wait + 1 <= DownBound
      /\ mode # "poll" => downFor + (Backoff - since) <= DownBound

WatchdogInv == TypeOK /\ PeriodsFit /\ BackoffIsShorter /\ Ages /\ HungLeaves /\ DownLeaves

-----------------------------------------------------------------------------
(* The constants, one by one. *)
LEMMA TicksAreNumbers ==
    /\ Fails \in Nat \ {0} /\ Backoff \in Nat \ {0} /\ Grace \in Nat \ {0}
    /\ Probe \in Nat /\ MaxStart \in Nat
    /\ Backoff <= Grace /\ Probe <= Grace
  BY TicksAssumption

(* A failure more is a cycle less. *)
LEMMA MissingFacts ==
    ASSUME NEW s \in 0 .. Fails - 1
    PROVE  /\ Missing(s) \in Nat
           /\ Missing(s) <= Missing(0)
           /\ s + 1 <= Fails - 1 => Missing(s + 1) = Missing(s) - (1 + Probe)
<1>1. Cycle \in Nat \ {0} /\ Fails - 1 - s \in Nat /\ s \in Nat /\ Fails - 1 \in Nat
  BY TicksAreNumbers DEF Cycle
<1>2. Missing(s) \in Nat
  BY <1>1 DEF Missing
<1>3. Missing(0) = Missing(s) + s * Cycle
  BY <1>1 DEF Missing
<1>4. s * Cycle \in Nat
  BY <1>1
<1>5. Missing(s + 1) = Missing(s) - Cycle
  BY <1>1 DEF Missing
<1> QED
  BY <1>1, <1>2, <1>3, <1>4, <1>5 DEF Cycle

(* HungBound, in terms of the failures that are missing at first. *)
LEMMA HungBoundIs ==
    /\ HungBound = Grace + Probe + Missing(0) + Probe
    /\ Missing(0) \in Nat
    /\ HungBound \in Nat
<1>1. Missing(0) \in Nat
  BY MissingFacts, TicksAreNumbers
<1>2. Missing(0) = (Fails - 1) * (1 + Probe)
  BY TicksAreNumbers DEF Missing, Cycle
<1> QED
  BY <1>1, <1>2, TicksAreNumbers DEF HungBound

-----------------------------------------------------------------------------
(* The initial states satisfy the invariant. *)
LEMMA WatchdogBegins == Init => WatchdogInv
  BY TicksAreNumbers, HungBoundIs
  DEF Init, WatchdogInv, TypeOK, PeriodsFit, BackoffIsShorter, Ages, HungLeaves,
      DownLeaves, DownBound

(* The sidecar comes up, hangs, answers again or dies. *)
LEMMA SidecarKeepsWatchdog ==
    ASSUME WatchdogInv, Up \/ Hangs \/ Answers \/ Dies
    PROVE  WatchdogInv'
<1>1. mode # "confirm" => streak \in 0 .. Fails - 1
  BY TicksAreNumbers DEF WatchdogInv, TypeOK, PeriodsFit
<1>2. mode # "confirm" => Missing(streak) \in Nat /\ Missing(streak) <= Missing(0)
  BY <1>1, MissingFacts
<1>3. CASE Up
  BY <1>3, TicksAreNumbers, HungBoundIs
  DEF Up, WatchdogInv, TypeOK, PeriodsFit, BackoffIsShorter, Ages, HungLeaves, DownLeaves,
      dog, age, process
<1>4. CASE Hangs
  <2> USE <1>4 DEF Hangs, dog, age, process
  <2>1. TypeOK' /\ PeriodsFit' /\ BackoffIsShorter' /\ Ages' /\ DownLeaves'
    BY DEF WatchdogInv, TypeOK, PeriodsFit, BackoffIsShorter, Ages, DownLeaves
  <2>2. HungLeaves'
    BY <1>2, TicksAreNumbers, HungBoundIs
    DEF WatchdogInv, TypeOK, PeriodsFit, BackoffIsShorter, Ages, HungLeaves
  <2> QED
    BY <2>1, <2>2 DEF WatchdogInv
<1>5. CASE Answers
  BY <1>5, TicksAreNumbers, HungBoundIs
  DEF Answers, WatchdogInv, TypeOK, PeriodsFit, BackoffIsShorter, Ages, HungLeaves,
      DownLeaves, dog, age, process
<1>6. CASE Dies
  <2> USE <1>6 DEF Dies, dog, age, process
  <2>1. TypeOK' /\ PeriodsFit' /\ BackoffIsShorter' /\ Ages' /\ HungLeaves'
    BY TicksAreNumbers, HungBoundIs
    DEF WatchdogInv, TypeOK, PeriodsFit, BackoffIsShorter, Ages, HungLeaves
  <2>2. DownLeaves'
    BY TicksAreNumbers DEF WatchdogInv, TypeOK, PeriodsFit, BackoffIsShorter, Ages, DownLeaves, DownBound
  <2> QED
    BY <2>1, <2>2 DEF WatchdogInv
<1> QED
  BY <1>3, <1>4, <1>5, <1>6

(* The first start ends, with or without a sidecar. *)
LEMMA FirstStartKeepsWatchdog ==
    ASSUME WatchdogInv, FirstStartUp \/ FirstStartFails
    PROVE  WatchdogInv'
<1>1. CASE FirstStartUp
  BY <1>1, TicksAreNumbers
  DEF FirstStartUp, WatchdogInv, TypeOK, PeriodsFit, BackoffIsShorter, Ages, HungLeaves,
      DownLeaves, dog, age, process
<1>2. CASE FirstStartFails
  <2> USE <1>2 DEF FirstStartFails, Killed, dog
  <2>0. port' \in BOOLEAN
    OBVIOUS
  <2>1. TypeOK'
    BY <2>0, TicksAreNumbers, HungBoundIs DEF WatchdogInv, TypeOK
  <2>3. PeriodsFit' /\ BackoffIsShorter' /\ Ages' /\ HungLeaves'
    BY DEF WatchdogInv, TypeOK, PeriodsFit, BackoffIsShorter, Ages, HungLeaves
  <2>2. DownLeaves'
    BY TicksAreNumbers DEF WatchdogInv, TypeOK, PeriodsFit, BackoffIsShorter, Ages, DownLeaves, DownBound
  <2> QED
    BY <2>1, <2>2, <2>3 DEF WatchdogInv
<1> QED
  BY <1>1, <1>2

-----------------------------------------------------------------------------
(* A probe that is answered: back to sleep. *)
LEMMA HealthyKeepsWatchdog ==
    ASSUME WatchdogInv, Healthy, side = "ready", mode # "poll", UNCHANGED <<init, warm>>
    PROVE  WatchdogInv'
  BY TicksAreNumbers
  DEF Healthy, Sleep, WatchdogInv, TypeOK, PeriodsFit, BackoffIsShorter, Ages, HungLeaves,
      DownLeaves, process, age

(* A probe that fails: back to sleep with a failure more, or not counted,  *)
(* or on to the probe that confirms it.                                    *)
LEMMA FailedKeepsWatchdog ==
    ASSUME WatchdogInv, Failed, mode \in {"sleep", "probe"}, wait = 0,
           mode = "sleep" => side = "starting", side # "ready", UNCHANGED <<init, warm>>
    PROVE  WatchdogInv'
<1> USE DEF process, age
<1>1. /\ streak \in 0 .. Fails - 1 /\ Missing(streak) \in Nat
      /\ streak + 1 < Fails => Missing(streak + 1) = Missing(streak) - (1 + Probe)
  BY MissingFacts, TicksAreNumbers DEF WatchdogInv, TypeOK, PeriodsFit
<1>2. CASE warm < Grace
  <2>1. Sleep /\ UNCHANGED <<process, age, streak, since>>
    BY <1>2, TicksAreNumbers DEF Failed, WatchdogInv, TypeOK
  <2>2. TypeOK' /\ PeriodsFit' /\ BackoffIsShorter' /\ Ages'
    BY <2>1, TicksAreNumbers DEF Sleep, WatchdogInv, TypeOK, PeriodsFit, BackoffIsShorter, Ages
  <2>3. HungLeaves'
    BY <1>1, <1>2, <2>1, TicksAreNumbers, HungBoundIs
    DEF Sleep, WatchdogInv, TypeOK, HungLeaves
  <2>4. DownLeaves'
    BY <2>1, TicksAreNumbers DEF Sleep, WatchdogInv, TypeOK, DownLeaves, DownBound
  <2> QED
    BY <2>2, <2>3, <2>4 DEF WatchdogInv
<1>3. CASE warm = Grace /\ streak + 1 < Fails
  <2>1. streak' = streak + 1 /\ Sleep /\ UNCHANGED <<process, age, since>>
    BY <1>3, TicksAreNumbers DEF Failed, WatchdogInv, TypeOK
  <2>2. TypeOK' /\ PeriodsFit' /\ BackoffIsShorter' /\ Ages'
    BY <1>1, <1>3, <2>1, TicksAreNumbers DEF Sleep, WatchdogInv, TypeOK, PeriodsFit, BackoffIsShorter, Ages
  <2>3. HungLeaves'
    BY <1>1, <1>3, <2>1, TicksAreNumbers, HungBoundIs
    DEF Sleep, WatchdogInv, TypeOK, HungLeaves
  <2>4. DownLeaves'
    BY <2>1, TicksAreNumbers DEF Sleep, WatchdogInv, TypeOK, DownLeaves, DownBound
  <2> QED
    BY <2>2, <2>3, <2>4 DEF WatchdogInv
<1>4. CASE warm = Grace /\ streak + 1 >= Fails
  <2>1. /\ streak' = streak + 1 /\ mode' = "confirm"
        /\ wait' = IF side = "hung" THEN Probe ELSE 0
        /\ UNCHANGED <<process, age, since>>
    BY <1>4, TicksAreNumbers DEF Failed, WatchdogInv, TypeOK
  <2>2. TypeOK' /\ PeriodsFit' /\ BackoffIsShorter' /\ Ages'
    BY <1>1, <1>4, <2>1, TicksAreNumbers DEF WatchdogInv, TypeOK, PeriodsFit, BackoffIsShorter, Ages
  <2>3. HungLeaves'
    BY <1>1, <2>1, TicksAreNumbers, HungBoundIs DEF WatchdogInv, TypeOK, HungLeaves
  <2>4. DownLeaves'
    BY <2>1, TicksAreNumbers DEF WatchdogInv, TypeOK, DownLeaves, DownBound
  <2> QED
    BY <2>2, <2>3, <2>4 DEF WatchdogInv
<1> QED
  BY <1>2, <1>3, <1>4, TicksAreNumbers DEF WatchdogInv, TypeOK

(* A restart, which a back-off may put off: not that of a hung sidecar,    *)
(* since the back-off has passed with the grace period.                    *)
LEMMA RestartKeepsWatchdog ==
    ASSUME WatchdogInv, Restart, mode # "poll", side = "hung" => mode = "confirm",
           streak' = 0, UNCHANGED <<init, warm>>
    PROVE  WatchdogInv'
<1>1. CASE since < Backoff
  <2>1. Sleep /\ UNCHANGED <<process, age, since>>
    BY <1>1 DEF Restart
  <2>2. side # "hung"
    BY <1>1, TicksAreNumbers DEF WatchdogInv, TypeOK, PeriodsFit, BackoffIsShorter
  <2>3. TypeOK' /\ PeriodsFit' /\ BackoffIsShorter' /\ Ages' /\ HungLeaves'
    BY <2>1, <2>2, TicksAreNumbers
    DEF Sleep, process, age, WatchdogInv, TypeOK, PeriodsFit, BackoffIsShorter, Ages, HungLeaves
  <2>4. DownLeaves'
    BY <1>1, <2>1, TicksAreNumbers
    DEF Sleep, process, age, WatchdogInv, TypeOK, DownLeaves, DownBound
  <2> QED
    BY <2>3, <2>4 DEF WatchdogInv
<1>2. CASE since >= Backoff
  <2>1. /\ since' = 0 /\ side' = "starting" /\ left' \in 0 .. MaxStart /\ port' = TRUE
        /\ mode' = "poll" /\ wait' = Grace /\ hungFor' = 0 /\ downFor' = 0
    BY <1>2, TicksAreNumbers DEF Restart, WatchdogInv, TypeOK
  <2>2. port' \in BOOLEAN
    BY <2>1
  <2>3. TypeOK'
    BY <2>1, <2>2, TicksAreNumbers, HungBoundIs DEF WatchdogInv, TypeOK, DownBound
  <2>4. PeriodsFit' /\ BackoffIsShorter' /\ Ages' /\ HungLeaves' /\ DownLeaves'
    BY <2>1, TicksAreNumbers
    DEF WatchdogInv, TypeOK, PeriodsFit, BackoffIsShorter, Ages, HungLeaves, DownLeaves
  <2> QED
    BY <2>3, <2>4 DEF WatchdogInv
<1> QED
  BY <1>1, <1>2, TicksAreNumbers DEF WatchdogInv, TypeOK

-----------------------------------------------------------------------------
(* The watchdog's steps. *)
LEMMA DogKeepsWatchdog ==
    ASSUME WatchdogInv, DogWakes \/ DogProbed \/ DogConfirmed \/ RestartUp \/ RestartFails
    PROVE  WatchdogInv'
<1>1. CASE DogWakes
  <2>1. mode = "sleep" /\ wait = 0 /\ UNCHANGED <<init, warm>>
    BY <1>1 DEF DogWakes
  <2>2. CASE side \in {"dead", "none"} /\ streak' = 0 /\ Restart
    BY <2>1, <2>2, RestartKeepsWatchdog
  <2>3. CASE side = "ready" /\ Healthy
    BY <2>1, <2>3, HealthyKeepsWatchdog
  <2>4. CASE side = "starting" /\ Failed
    BY <2>1, <2>4, FailedKeepsWatchdog
  <2>5. CASE /\ side = "hung" /\ mode' = "probe" /\ wait' = Probe
             /\ UNCHANGED <<process, age, streak, since>>
    BY <2>1, <2>5, TicksAreNumbers
    DEF process, age, WatchdogInv, TypeOK, PeriodsFit, BackoffIsShorter, Ages, HungLeaves, DownLeaves
  <2> QED
    BY <1>1, <2>2, <2>3, <2>4, <2>5 DEF DogWakes
<1>2. CASE DogProbed
  <2>1. mode = "probe" /\ wait = 0 /\ UNCHANGED <<init, warm>>
    BY <1>2 DEF DogProbed
  <2>2. CASE side = "ready" /\ Healthy
    BY <2>1, <2>2, HealthyKeepsWatchdog
  <2>3. CASE side # "ready" /\ Failed
    BY <2>1, <2>3, FailedKeepsWatchdog
  <2> QED
    BY <1>2, <2>2, <2>3 DEF DogProbed
<1>3. CASE DogConfirmed
  <2>1. mode = "confirm" /\ wait = 0 /\ UNCHANGED <<init, warm>>
    BY <1>3 DEF DogConfirmed
  <2>2. CASE side = "ready" /\ Healthy
    BY <2>1, <2>2, HealthyKeepsWatchdog
  <2>3. CASE side # "ready" /\ streak' = 0 /\ Restart
    BY <2>1, <2>3, RestartKeepsWatchdog
  <2> QED
    BY <1>3, <2>2, <2>3 DEF DogConfirmed
<1>4. CASE RestartUp
  BY <1>4, TicksAreNumbers
  DEF RestartUp, Sleep, process, age, WatchdogInv, TypeOK, PeriodsFit, BackoffIsShorter,
      Ages, HungLeaves, DownLeaves
<1>5. CASE RestartFails
  <2>1. /\ mode = "poll" /\ wait = 0 /\ mode' = "sleep" /\ wait' = 1
        /\ side' = "none" /\ left' = 0 /\ hungFor' = 0
        /\ UNCHANGED <<init, streak, since, warm, downFor>>
    BY <1>5 DEF RestartFails, Killed, Sleep
  <2>2. port' \in BOOLEAN
    BY <1>5 DEF RestartFails, Killed
  <2>3. TypeOK'
    BY <2>1, <2>2, TicksAreNumbers, HungBoundIs DEF WatchdogInv, TypeOK
  <2>4. PeriodsFit' /\ BackoffIsShorter' /\ Ages' /\ HungLeaves'
    BY <2>1, TicksAreNumbers
    DEF WatchdogInv, TypeOK, PeriodsFit, BackoffIsShorter, Ages, HungLeaves
  <2>5. DownLeaves'
    BY <2>1, TicksAreNumbers
    DEF WatchdogInv, TypeOK, PeriodsFit, BackoffIsShorter, Ages, DownLeaves, DownBound
  <2> QED
    BY <2>3, <2>4, <2>5 DEF WatchdogInv
<1> QED
  BY <1>1, <1>2, <1>3, <1>4, <1>5

(* Time passes: what is left of a bound shrinks by a tick, and so does     *)
(* what the watchdog waits for.                                            *)
LEMMA TickKeepsWatchdog ==
    ASSUME WatchdogInv, Tick
    PROVE  WatchdogInv'
<1>1. /\ wait \in Nat \ {0} /\ init # 1
      /\ side = "starting" => left # 0
      /\ ~(mode = "poll" /\ side = "ready")
  BY TicksAreNumbers DEF Tick, Due, WatchdogInv, TypeOK
<1>2. /\ left' = IF side = "starting" THEN left - 1 ELSE left
      /\ init' = IF init > 0 THEN init - 1 ELSE 0
      /\ wait' = wait - 1
      /\ since' = IF since < Backoff THEN since + 1 ELSE Backoff
      /\ warm' = IF warm < Grace THEN warm + 1 ELSE Grace
      /\ UNCHANGED <<side, port, mode, streak>>
  BY DEF Tick, Upto
<1>3. side = "hung" => hungFor < HungBound /\ hungFor' = hungFor + 1
  <2>1. ASSUME side = "hung"
        PROVE  hungFor < HungBound
    <3>1. mode # "confirm" => streak \in 0 .. Fails - 1 /\ Missing(streak) \in Nat
      BY MissingFacts, TicksAreNumbers DEF WatchdogInv, TypeOK, PeriodsFit
    <3> QED
      BY <1>1, <2>1, <3>1, TicksAreNumbers, HungBoundIs DEF WatchdogInv, TypeOK, HungLeaves
  <2> QED
    BY <2>1, HungBoundIs DEF Tick, Upto, WatchdogInv, TypeOK
<1>4. side # "hung" => hungFor' = 0
  BY DEF Tick
<1>5. side \in {"dead", "none"} => downFor < DownBound /\ downFor' = downFor + 1
  <2>1. side \in {"dead", "none"} => downFor < DownBound
    BY <1>1, TicksAreNumbers DEF WatchdogInv, TypeOK, DownLeaves, DownBound
  <2> QED
    BY <2>1, TicksAreNumbers DEF Tick, Upto, WatchdogInv, TypeOK, DownBound
<1>6. side \notin {"dead", "none"} => downFor' = 0
  BY DEF Tick
<1>7. TypeOK'
  BY <1>1, <1>2, <1>3, <1>4, <1>5, <1>6, TicksAreNumbers, HungBoundIs
  DEF WatchdogInv, TypeOK, DownBound
<1>8. PeriodsFit' /\ BackoffIsShorter' /\ Ages'
  BY <1>1, <1>2, <1>4, <1>6, TicksAreNumbers
  DEF WatchdogInv, TypeOK, PeriodsFit, BackoffIsShorter, Ages
<1>9. HungLeaves'
  <2>1. mode # "confirm" => Missing(streak) \in Nat
    BY MissingFacts, TicksAreNumbers DEF WatchdogInv, TypeOK, PeriodsFit
  <2> QED
    BY <1>1, <1>2, <1>3, <2>1, TicksAreNumbers, HungBoundIs DEF WatchdogInv, TypeOK, HungLeaves
<1>10. DownLeaves'
  BY <1>1, <1>2, <1>5, TicksAreNumbers DEF WatchdogInv, TypeOK, DownLeaves, DownBound
<1> QED
  BY <1>7, <1>8, <1>9, <1>10 DEF WatchdogInv

(* Every step keeps the invariant. *)
LEMMA NextKeepsWatchdog == WatchdogInv /\ [Next]_vars => WatchdogInv'
<1> SUFFICES ASSUME WatchdogInv, [Next]_vars PROVE WatchdogInv'
  OBVIOUS
<1>1. CASE Up \/ Hangs \/ Answers \/ Dies
  BY <1>1, SidecarKeepsWatchdog
<1>2. CASE FirstStartUp \/ FirstStartFails
  BY <1>2, FirstStartKeepsWatchdog
<1>3. CASE DogWakes \/ DogProbed \/ DogConfirmed \/ RestartUp \/ RestartFails
  BY <1>3, DogKeepsWatchdog
<1>4. CASE Tick
  BY <1>4, TickKeepsWatchdog
<1>5. CASE UNCHANGED vars
  BY <1>5
  DEF vars, process, dog, age, WatchdogInv, TypeOK, PeriodsFit, BackoffIsShorter, Ages,
      HungLeaves, DownLeaves
<1> QED
  BY <1>1, <1>2, <1>3, <1>4, <1>5 DEF Next

-----------------------------------------------------------------------------
(* The invariant implies the bounds. *)
LEMMA WatchdogInvBounds == WatchdogInv => HungIsBounded /\ DownIsBounded
<1> SUFFICES ASSUME WatchdogInv PROVE HungIsBounded /\ DownIsBounded
  OBVIOUS
<1>1. mode # "confirm" => Missing(streak) \in Nat
  BY MissingFacts, TicksAreNumbers DEF WatchdogInv, TypeOK, PeriodsFit
<1>2. hungFor <= HungBound
  BY <1>1, TicksAreNumbers, HungBoundIs DEF WatchdogInv, TypeOK, Ages, HungLeaves
<1>3. downFor <= DownBound
  BY TicksAreNumbers DEF WatchdogInv, TypeOK, Ages, DownLeaves, DownBound
<1> QED
  BY <1>2, <1>3 DEF HungIsBounded, DownIsBounded

(* The inductive invariant holds throughout. *)
THEOREM WatchdogInvHolds == Spec => []WatchdogInv
  BY WatchdogBegins, NextKeepsWatchdog, PTL DEF Spec

(* Type correctness of the sidecar, the first start and the watchdog. *)
THEOREM TypeCorrect == Spec => []TypeOK
<1>1. WatchdogInv => TypeOK
  BY DEF WatchdogInv
<1> QED
  BY <1>1, WatchdogInvHolds, PTL

(* main.rs restarts a sidecar that hangs within HungBound of the last      *)
(* instant it answered, whatever the intervals are set to.                 *)
THEOREM HungIsBoundedHolds == Spec => []HungIsBounded
  BY WatchdogInvHolds, WatchdogInvBounds, PTL

(* main.rs starts a new sidecar within DownBound of the death of the old   *)
(* one, whatever the intervals are set to.                                 *)
THEOREM DownIsBoundedHolds == Spec => []DownIsBounded
  BY WatchdogInvHolds, WatchdogInvBounds, PTL

-----------------------------------------------------------------------------
(* The windows of the application.                                         *)
Layouts == [tabs : (SUBSET Shell!ids) \ {{}}, focus : Shell!ids \union {Nothing},
            stamp : Nat, rev : Nat]
TornOff == [id : Shell!ids, was : Shell!ids \union {Nothing}, state : {"asked", "made", "failed"}]

TabTypes ==
    /\ main \in {"off", "loading", "on", "closing", "out"}
    /\ tabs \subseteq Shell!ids /\ focus \in Shell!ids \union {Nothing}
    /\ infos \subseteq Shell!ids /\ requested \subseteq Shell!ids /\ respawns \subseteq Shell!ids
    /\ owned \subseteq Shell!ids /\ excused \subseteq Shell!ids
    /\ wins \in [Shell!ids -> {"none", "opening", "open"}]
    /\ tear = Shell!NoTear \/ tear \in TornOff
SwitchTypes == unsynced \in BOOLEAN /\ closingFlag \in BOOLEAN /\ told \in BOOLEAN
LayoutTypes ==
    /\ workspace \in Layouts /\ disk \in Layouts /\ mirror \in Layouts
    /\ timer # Nothing => timer \in Layouts
    /\ file # Nothing => file \in Layouts
ShellTypes == TabTypes /\ SwitchTypes /\ LayoutTypes

(* A main window that is on has tabs, and only one that is on or closing   *)
(* has tabs, an effect due or a tear-off under way.  Nothing is to be      *)
(* saved before the workspace has been read.                               *)
Phases ==
    /\ main = "on" => tabs # {}
    /\ tabs = {} => unsynced = FALSE
    /\ main \in {"off", "loading", "out"} => tabs = {} /\ tear = Shell!NoTear
    /\ main \in {"off", "loading"} => timer = Nothing

(* What is saved is the workspace, and the flush of a close is the last    *)
(* save, but where the known gaps have come between.                       *)
TimerIsWorkspace ==
    main = "on" /\ timer # Nothing /\ "replaced" \notin unseen
        => timer = workspace /\ mirror = workspace
FlushIsLast ==
    main = "closing" /\ {"late", "replaced"} \intersect unseen = {}
        => tabs # {} /\ unsynced = FALSE /\ disk.tabs = tabs /\ timer = Nothing
ViewsAgree ==
    /\ Shell!FocusIsThere /\ Shell!ViewIsWorkspace /\ Shell!DiskCatchesUp
    /\ TimerIsWorkspace /\ FlushIsLast

LEMMA NormalizedIsFixed ==
    ASSUME NEW ws \in Layouts
    PROVE  /\ Shell!Normalized(ws) \in Layouts /\ Shell!Normalized(ws).tabs = ws.tabs
           /\ Shell!Normalized(ws).focus \in ws.tabs
           /\ Shell!Normalized(Shell!Normalized(ws)) = Shell!Normalized(ws)
<1> DEFINE new == Shell!Normalized(ws)
           first == CHOOSE t \in ws.tabs : TRUE
<1>1. ws.tabs \subseteq Shell!ids /\ ws.tabs # {}
  BY DEF Layouts
<1>2. first \in ws.tabs
  BY <1>1
<1>3. new = IF ws.focus \in ws.tabs THEN ws ELSE [ws EXCEPT !.focus = first]
  BY DEF Shell!Normalized
<1> HIDE DEF first
<1>4. new \in Layouts /\ new.tabs = ws.tabs /\ new.focus \in ws.tabs
  <2>1. CASE ws.focus \in ws.tabs
    BY <1>3, <2>1
  <2>2. CASE ws.focus \notin ws.tabs
    BY <1>1, <1>2, <1>3, <2>2 DEF Layouts
  <2> QED
    BY <2>1, <2>2
<1>5. Shell!Normalized(new) = new
  BY <1>4 DEF Shell!Normalized
<1> QED
  BY <1>4, <1>5

(* The effect that syncs the tabs: workspace, copy and timer are one.      *)
LEMMA SyncedIsLayout ==
    ASSUME ShellTypes, NEW set, set \subseteq Shell!ids, set # {},
           NEW id \in Shell!ids \union {Nothing}, Shell!SyncedTo(set, id)
    PROVE  /\ workspace' \in Layouts /\ mirror' = workspace' /\ timer' = workspace'
           /\ timer' # Nothing /\ unsynced' = FALSE
           /\ workspace'.tabs = set /\ workspace'.focus = id
<1>1. workspace \in Layouts
  BY DEF ShellTypes, LayoutTypes
<1>2. /\ workspace' = [workspace EXCEPT !.tabs = set, !.focus = id]
      /\ mirror' = workspace' /\ timer' = workspace' /\ unsynced' = FALSE
  BY DEF Shell!SyncedTo, Shell!Scheduled
<1>3. workspace' \in Layouts /\ workspace'.tabs = set /\ workspace'.focus = id
  BY <1>1, <1>2 DEF Layouts
<1>4. Nothing \notin Layouts
  BY WindowsAssumption DEF Layouts, Shell!ids
<1> QED
  BY <1>2, <1>3, <1>4

LEMMA ShellBegins == Shell!Init => ShellTypes /\ Phases
<1> SUFFICES ASSUME Shell!Init PROVE ShellTypes /\ Phases
  OBVIOUS
<1> DEFINE first == CHOOSE t \in FirstTabs : TRUE
<1>1. first \in FirstTabs /\ FirstTabs # {} /\ FirstTabs \subseteq Shell!ids
  BY WindowsAssumption DEF Shell!ids
<1>2. Shell!FirstWorkspace = [tabs |-> FirstTabs, focus |-> first, stamp |-> 0, rev |-> 0]
  BY DEF Shell!FirstWorkspace
<1> HIDE DEF first
<1>3. Shell!FirstWorkspace \in Layouts
  BY <1>1, <1>2 DEF Layouts
<1>4. TabTypes
  BY <1>1 DEF Shell!Init, TabTypes
<1>5. SwitchTypes /\ LayoutTypes
  BY <1>3 DEF Shell!Init, SwitchTypes, LayoutTypes
<1> QED
  BY <1>4, <1>5 DEF ShellTypes, Phases, Shell!Init

(* A tab that is not the only one leaves others. *)
LEMMA OneTabIsNotMore ==
    ASSUME NEW t, t \in tabs, Shell!Cardinality(tabs) > 1
    PROVE  tabs \ {t} # {}
<1> SUFFICES ASSUME tabs = {t} PROVE FALSE
  OBVIOUS
<1>1. Cardinality({t}) = 1
  BY FS_Singleton, Zenon
<1>2. Shell!Cardinality(tabs) = Cardinality({t})
  BY DEF Shell!Cardinality, Cardinality
<1>3. Shell!Cardinality(tabs) = 1
  BY <1>1, <1>2, Zenon
<1> QED
  BY <1>3

LEMMA NextKeepsLayouts ==
    ASSUME ShellTypes, Phases, Shell!Next
    PROVE  LayoutTypes'
<1> USE DEF LayoutTypes
<1>1. LayoutTypes /\ tabs \subseteq Shell!ids /\ focus \in Shell!ids \union {Nothing}
  BY DEF ShellTypes, TabTypes
<1>2. CASE Shell!Sync
  <2>1. tabs # {} /\ Shell!SyncedTo(tabs, focus) /\ UNCHANGED <<disk, file>>
    BY <1>2 DEF Shell!Sync, Phases
  <2> QED
    BY <1>1, <2>1, SyncedIsLayout
<1>3. CASE Shell!TimerFires
  BY <1>1, <1>3 DEF Shell!TimerFires
<1>4. CASE Shell!EditLayout
  <2>1. /\ workspace' = [workspace EXCEPT !.rev = @ + 1] /\ mirror' = workspace'
        /\ timer' = workspace' /\ UNCHANGED <<disk, file>>
    BY <1>4 DEF Shell!EditLayout, Shell!Scheduled
  <2>2. workspace' \in Layouts
    BY <1>1, <2>1 DEF Layouts
  <2> QED
    BY <1>1, <2>1, <2>2
<1>5. CASE Shell!Loaded
  BY <1>1, <1>5, NormalizedIsFixed DEF Shell!Loaded
<1>6. CASE Shell!Export
  <2>1. /\ file' = [workspace EXCEPT !.stamp = workspace.stamp + 1]
        /\ disk' = workspace /\ UNCHANGED <<workspace, timer, mirror>>
    BY <1>6 DEF Shell!Export
  <2>2. file' \in Layouts
    BY <1>1, <2>1 DEF Layouts
  <2> QED
    BY <1>1, <2>1, <2>2
<1>7. CASE Shell!Import
  BY <1>1, <1>7 DEF Shell!Import
<1>8. CASE Shell!Close
  BY <1>1, <1>8 DEF Shell!Close, Shell!Flushed, Shell!saved
<1>9. CASE Shell!Exit \/ Shell!Crash
  BY <1>1, <1>9 DEF Shell!Exit, Shell!Crash, Shell!Gone
<1>10. ASSUME NEW t \in Shell!ids, Shell!Focus(t) PROVE LayoutTypes'
  <2>1. /\ t \in tabs /\ Shell!SyncedTo(tabs, t) /\ UNCHANGED <<disk, file>>
    BY <1>10 DEF Shell!Focus
  <2> QED
    BY <1>1, <2>1, SyncedIsLayout
<1>11. ASSUME NEW t \in Shell!ids, Shell!Add(t) PROVE LayoutTypes'
  <2>1. Shell!SyncedTo(tabs \union {t}, t) /\ UNCHANGED <<disk, file>>
    BY <1>11 DEF Shell!Add
  <2> QED
    BY <1>1, <2>1, SyncedIsLayout
<1>12. ASSUME NEW t \in Shell!ids, Shell!CloseTab(t) PROVE LayoutTypes'
  <2>1. /\ Shell!SyncedTo(tabs \ {t}, focus') /\ focus' \in (tabs \ {t}) \union {focus}
        /\ UNCHANGED <<disk, file>>
    BY <1>12 DEF Shell!CloseTab, Shell!Refocused
  <2>2. tabs \ {t} # {}
    BY <1>12, OneTabIsNotMore DEF Shell!CloseTab
  <2> QED
    BY <1>1, <2>1, <2>2, SyncedIsLayout
<1>13. CASE UNCHANGED <<workspace, disk, mirror, timer, file>>
  BY <1>1, <1>13
<1>14. CASE \/ Shell!Start \/ Shell!SignIn \/ Shell!TearSpawns \/ Shell!TearFails \/ Shell!TearDone
            \/ Shell!Tell \/ Shell!SignOut
  BY <1>13, <1>14 DEF Shell!Start, Shell!SignIn, Shell!TearSpawns, Shell!TearFails, Shell!TearDone,
     Shell!Tell, Shell!SignOut, Shell!saved
<1>15. ASSUME NEW t \in Shell!ids,
              \/ Shell!Respawn(t) \/ Shell!TearOff(t) \/ Shell!WindowLoads(t)
              \/ Shell!WindowCloses(t) \/ Shell!Reattach(t)
       PROVE  LayoutTypes'
  BY <1>13, <1>15 DEF Shell!Respawn, Shell!TearOff, Shell!WindowLoads, Shell!WindowCloses,
     Shell!Reattach, Shell!saved
<1> QED
  BY <1>2, <1>3, <1>4, <1>5, <1>6, <1>7, <1>8, <1>9, <1>10, <1>11, <1>12, <1>14, <1>15
     DEF Shell!Next

LEMMA TornOffIs ==
    ASSUME ShellTypes, tear.state \in {"asked", "made", "failed"}
    PROVE  tear \in TornOff /\ tear.id \in Shell!ids /\ tear # Shell!NoTear
<1>1. Shell!NoTear.state = "none"
  BY DEF Shell!NoTear
<1>2. tear \in TornOff
  BY <1>1 DEF ShellTypes, TabTypes
<1> QED
  BY <1>1, <1>2 DEF TornOff

LEMMA NoTearIsNothing == Shell!NoTear.id = Nothing /\ Shell!NoTear.state = "none" /\ Nothing \notin Shell!ids
BY WindowsAssumption DEF Shell!NoTear, Shell!ids

LEMMA TearIdIs == ASSUME ShellTypes PROVE tear.id \in Shell!ids \union {Nothing}
<1>1. tear = Shell!NoTear \/ tear.id \in Shell!ids
  BY DEF ShellTypes, TabTypes, TornOff
<1> QED
  BY <1>1, NoTearIsNothing

LEMMA NextKeepsTabs ==
    ASSUME ShellTypes, Phases, Shell!Next
    PROVE  TabTypes'
<1> USE DEF TabTypes
<1>1. TabTypes /\ LayoutTypes
  BY DEF ShellTypes
<1>2. CASE \/ Shell!Sync \/ Shell!TimerFires \/ Shell!EditLayout \/ Shell!Export \/ Shell!Tell
  BY <1>1, <1>2 DEF Shell!Sync, Shell!TimerFires, Shell!EditLayout, Shell!Export, Shell!Tell,
     Shell!store, Shell!ghosts
<1>3. CASE Shell!Start \/ Shell!SignIn
  BY <1>1, <1>3 DEF Shell!Start, Shell!SignIn, Shell!Mount
<1>4. CASE Shell!Loaded
  <2>1. /\ main' = "on" /\ tabs' = disk.tabs /\ focus' = Shell!Normalized(disk).focus
        /\ owned' = (owned \ excused) \union disk.tabs
        /\ UNCHANGED <<infos, requested, wins, respawns, tear, excused>>
    BY <1>4 DEF Shell!Loaded, Shell!store
  <2>2. disk.tabs \subseteq Shell!ids /\ Shell!Normalized(disk).focus \in disk.tabs
    BY <1>1, NormalizedIsFixed DEF LayoutTypes, Layouts
  <2> QED
    BY <1>1, <2>1, <2>2
<1>5. CASE Shell!Import
  <2>1. /\ file # Nothing
        /\ \/ tabs' = file.tabs /\ focus' = file.focus
           \/ UNCHANGED <<tabs, focus>>
        /\ owned' = (owned \ tabs) \union tabs'
        /\ \E S \in SUBSET tabs' : excused' = excused \union S
        /\ UNCHANGED <<main, infos, requested, wins, respawns, tear>>
    BY <1>5 DEF Shell!Import, Shell!store
  <2>2. file.tabs \subseteq Shell!ids /\ file.focus \in Shell!ids \union {Nothing}
    BY <1>1, <2>1 DEF LayoutTypes, Layouts
  <2> QED
    BY <1>1, <2>1, <2>2
<1>6. CASE Shell!TearSpawns
  <2>1. /\ tear.state = "asked"
        /\ \/ /\ wins' = [wins EXCEPT ![tear.id] = "opening"]
              /\ tear' = [tear EXCEPT !.state = "made"]
           \/ UNCHANGED wins /\ tear' = [tear EXCEPT !.state = "failed"]
        /\ UNCHANGED <<main, tabs, focus, infos, requested, respawns, owned, excused>>
    BY <1>6 DEF Shell!TearSpawns, Shell!store, Shell!ghosts
  <2>2. tear \in TornOff /\ tear.id \in Shell!ids
    BY <2>1, TornOffIs
  <2>3. tear' \in TornOff
    BY <2>1, <2>2 DEF TornOff
  <2> QED
    BY <1>1, <2>1, <2>2, <2>3
<1>7. CASE Shell!TearFails
  <2>1. /\ tear.state = "asked" /\ tear' = [tear EXCEPT !.state = "failed"]
        /\ UNCHANGED <<main, tabs, focus, wins, infos, requested, respawns, owned, excused>>
    BY <1>7 DEF Shell!TearFails, Shell!store, Shell!ghosts
  <2>2. tear' \in TornOff
    BY <2>1, TornOffIs DEF TornOff
  <2> QED
    BY <1>1, <2>1, <2>2
<1>8. CASE Shell!TearDone
  <2>1. /\ tear.state \in {"made", "failed"} /\ tear' = Shell!NoTear
        /\ infos' \in {infos \union {tear.id}, infos \ {tear.id}}
        /\ excused' \in {excused, excused \union {tear.id}}
        /\ UNCHANGED <<main, wins, requested, respawns>>
    BY <1>8 DEF Shell!TearDone, Shell!EntryAfter
  <2>2. \/ UNCHANGED <<tabs, focus, owned>>
        \/ \E n \in Shell!ids : tabs' = {n} /\ focus' = n /\ owned' = owned \union {n}
        \/ tabs' \subseteq tabs /\ focus' \in tabs' \union {focus} /\ owned' = owned
    BY <1>8 DEF Shell!TearDone, Shell!Leave, Shell!Refocused, Shell!ids
  <2>3. tear.id \in Shell!ids
    BY <2>1, TornOffIs
  <2> QED
    BY <1>1, <2>1, <2>2, <2>3
<1>9. CASE Shell!Close \/ Shell!SignOut
  <2>1. \A S \in SUBSET Shell!ids : \A T : Shell!Differ(S, T) \subseteq Shell!ids
    BY DEF Shell!Differ
  <2> QED
    BY <1>1, <1>9, <2>1 DEF Shell!Close, Shell!SignOut, Shell!store
<1>10. CASE Shell!Exit \/ Shell!Crash
  <2>1. /\ main' = "off" /\ tabs' = {} /\ focus' = Nothing
        /\ wins' = [t \in Shell!ids |-> "none"] /\ respawns' = {} /\ tear' = Shell!NoTear
        /\ UNCHANGED <<infos, requested, owned>>
        /\ excused' \subseteq excused \union Shell!Unsaved \union ({tear.id} \ {Nothing})
    BY <1>10 DEF Shell!Exit, Shell!Crash, Shell!Gone, Shell!store
  <2>2. Shell!Unsaved \subseteq Shell!ids
    BY DEF Shell!Unsaved, Shell!Differ
  <2> QED
    BY <1>1, <2>1, <2>2, TearIdIs
<1>11. ASSUME NEW t \in Shell!ids, Shell!Focus(t) \/ Shell!Add(t) \/ Shell!CloseTab(t)
       PROVE  TabTypes'
  <2>1. UNCHANGED <<main, infos, requested, wins, respawns, tear, excused>>
    BY <1>11 DEF Shell!Focus, Shell!Add, Shell!CloseTab, Shell!store
  <2>2. /\ tabs' \in {tabs, tabs \union {t}, tabs \ {t}}
        /\ owned' \in {owned, owned \union {t}, owned \ {t}}
        /\ focus' = t \/ focus' = focus \/ focus' \in tabs'
    BY <1>11 DEF Shell!Focus, Shell!Add, Shell!CloseTab, Shell!Refocused
  <2>3. tabs' \subseteq Shell!ids /\ owned' \subseteq Shell!ids
    BY <1>1, <2>2
  <2>4. focus' \in Shell!ids \union {Nothing}
    BY <1>1, <2>2, <2>3
  <2> QED
    BY <1>1, <2>1, <2>3, <2>4
<1>13. ASSUME NEW t \in Shell!ids,
              \/ Shell!Respawn(t) \/ Shell!WindowLoads(t) \/ Shell!WindowCloses(t)
              \/ Shell!Reattach(t)
       PROVE  TabTypes'
  <2>1. UNCHANGED <<main, tear, owned>>
    BY <1>13 DEF Shell!Respawn, Shell!WindowLoads, Shell!WindowCloses, Shell!Reattach, Shell!ghosts
  <2>2. /\ tabs' \in {tabs, tabs \union {t}} /\ focus' \in {focus, t}
        /\ infos' \in {infos, infos \union {t}, infos \ {t}}
        /\ requested' \in {requested, requested \union {t}, requested \ {t}}
        /\ respawns' \in {respawns, respawns \ {t}}
        /\ excused' \in {excused, excused \union {t}}
        /\ \E w \in {"none", "opening", "open"} : wins' = wins \/ wins' = [wins EXCEPT ![t] = w]
    BY <1>13 DEF Shell!Respawn, Shell!WindowLoads, Shell!WindowCloses, Shell!Reattach,
       Shell!store, Shell!ghosts
  <2> QED
    BY <1>1, <2>1, <2>2
<1>12. ASSUME NEW t \in Shell!ids, Shell!TearOff(t) PROVE TabTypes'
  <2>1. /\ tear' = [id |-> t, was |-> focus, state |-> "asked"] /\ infos' = infos \union {t}
        /\ UNCHANGED <<main, tabs, focus, wins, requested, respawns, owned, excused>>
    BY <1>12 DEF Shell!TearOff, Shell!ghosts
  <2>2. tear' \in TornOff
    BY <1>1, <2>1 DEF TornOff
  <2> QED
    BY <1>1, <2>1, <2>2
<1> QED
  BY <1>2, <1>3, <1>4, <1>5, <1>6, <1>7, <1>8, <1>9, <1>10, <1>11, <1>12, <1>13
     DEF Shell!Next

LEMMA NextKeepsSwitches ==
    ASSUME ShellTypes, Shell!Next
    PROVE  SwitchTypes'
<1>1. SwitchTypes
  BY DEF ShellTypes
<1>2. CASE \/ Shell!Sync \/ Shell!TimerFires \/ Shell!EditLayout \/ Shell!Start \/ Shell!SignIn
           \/ Shell!Loaded \/ Shell!Export \/ Shell!Import \/ Shell!TearSpawns \/ Shell!TearFails
           \/ Shell!TearDone
  BY <1>1, <1>2 DEF SwitchTypes, Shell!Sync, Shell!TimerFires, Shell!EditLayout, Shell!Start,
     Shell!SignIn, Shell!Mount, Shell!Loaded, Shell!Export, Shell!Import, Shell!TearSpawns,
     Shell!TearFails, Shell!TearDone, Shell!Leave, Shell!SyncedTo
<1>3. CASE \/ Shell!Close \/ Shell!Tell \/ Shell!Exit \/ Shell!Crash \/ Shell!SignOut
  BY <1>1, <1>3 DEF SwitchTypes, Shell!Close, Shell!Tell, Shell!Exit, Shell!Crash, Shell!Gone,
     Shell!SignOut
<1>4. ASSUME NEW t \in Shell!ids,
             \/ Shell!Respawn(t) \/ Shell!Focus(t) \/ Shell!Add(t) \/ Shell!CloseTab(t)
             \/ Shell!TearOff(t) \/ Shell!WindowLoads(t) \/ Shell!WindowCloses(t)
             \/ Shell!Reattach(t)
      PROVE  SwitchTypes'
  BY <1>1, <1>4 DEF SwitchTypes, Shell!Focus, Shell!Add, Shell!CloseTab, Shell!Respawn,
     Shell!TearOff, Shell!WindowLoads, Shell!WindowCloses, Shell!Reattach, Shell!SyncedTo
<1> QED
  BY <1>2, <1>3, <1>4 DEF Shell!Next

LEMMA NextKeepsPhases ==
    ASSUME ShellTypes, Phases, Shell!Next
    PROVE  Phases'
<1> USE DEF Phases
<1>1. Shell!NoTear.state = "none" /\ unsynced \in BOOLEAN
  BY DEF Shell!NoTear, ShellTypes, SwitchTypes
<1>2. CASE Shell!Sync
  <2>1. tabs # {} /\ Shell!SyncedTo(tabs, focus) /\ UNCHANGED <<main, tabs, tear>>
        /\ main \in {"on", "closing"} /\ unsynced' = FALSE
    BY <1>2 DEF Shell!Sync, Shell!SyncedTo
  <2> QED
    BY <2>1
<1>3. CASE Shell!TimerFires \/ Shell!EditLayout \/ Shell!Export \/ Shell!Tell \/ Shell!Close
  BY <1>3 DEF Shell!TimerFires, Shell!EditLayout, Shell!Export, Shell!Tell, Shell!Close, Shell!Flushed,
     Shell!saved
<1>4. CASE Shell!Start \/ Shell!SignIn
  BY <1>4 DEF Shell!Start, Shell!SignIn, Shell!Mount, Shell!saved
<1>5. CASE Shell!Loaded
  <2>1. disk.tabs # {}
    BY DEF ShellTypes, LayoutTypes, Layouts
  <2> QED
    BY <1>5, <2>1 DEF Shell!Loaded
<1>6. CASE Shell!Import
  <2>1. file # Nothing => file.tabs # {}
    BY DEF ShellTypes, LayoutTypes, Layouts
  <2> QED
    BY <1>6, <2>1 DEF Shell!Import
<1>7. CASE Shell!TearSpawns \/ Shell!TearFails
  <2>1. tear.state = "asked" /\ UNCHANGED <<main, tabs, unsynced, timer>>
    BY <1>7 DEF Shell!TearSpawns, Shell!TearFails, Shell!saved
  <2> QED
    BY <1>1, <2>1
<1>8. CASE Shell!TearDone
  <2>1. /\ tear.state \in {"made", "failed"} /\ main \in {"on", "closing"} /\ main' = main
        /\ \/ UNCHANGED <<tabs, unsynced>>
           \/ tabs' # {}
    BY <1>8 DEF Shell!TearDone, Shell!Leave
  <2> QED
    BY <2>1
<1>9. CASE Shell!Exit \/ Shell!Crash
  BY <1>9 DEF Shell!Exit, Shell!Crash, Shell!Gone
<1>10. CASE Shell!SignOut
  BY <1>1, <1>10 DEF Shell!SignOut
<1>11. ASSUME NEW t \in Shell!ids, Shell!CloseTab(t) PROVE Phases'
  <2>1. tabs' = tabs \ {t} /\ unsynced' = FALSE /\ main' = "on"
    BY <1>11 DEF Shell!CloseTab, Shell!SyncedTo
  <2>2. tabs' # {}
    BY <1>11, <2>1, OneTabIsNotMore DEF Shell!CloseTab
  <2> QED
    BY <2>1, <2>2
<1>12. ASSUME NEW t \in Shell!ids, Shell!Focus(t) \/ Shell!Add(t) PROVE Phases'
  BY <1>12 DEF Shell!Focus, Shell!Add, Shell!SyncedTo
<1>13. ASSUME NEW t \in Shell!ids,
              \/ Shell!Respawn(t) \/ Shell!TearOff(t) \/ Shell!WindowLoads(t)
              \/ Shell!WindowCloses(t) \/ Shell!Reattach(t)
       PROVE  Phases'
  BY <1>13 DEF Shell!Respawn, Shell!TearOff, Shell!WindowLoads, Shell!WindowCloses,
     Shell!Reattach, Shell!saved
<1> QED
  BY <1>2, <1>3, <1>4, <1>5, <1>6, <1>7, <1>8, <1>9, <1>10, <1>11, <1>12, <1>13 DEF Shell!Next

(* What the main window shows, what the workspace says and what is saved.  *)
viewVars == <<main, tabs, focus, unsynced, workspace, timer, disk, mirror, unseen>>

LEMMA ViewsStay == ASSUME ViewsAgree, UNCHANGED viewVars PROVE ViewsAgree'
BY DEF ViewsAgree, viewVars, Shell!FocusIsThere, Shell!ViewIsWorkspace, Shell!DiskCatchesUp,
   TimerIsWorkspace, FlushIsLast, Shell!Normalized

(* A sync brings them together. *)
LEMMA SyncAgrees ==
    ASSUME ShellTypes, tabs' \subseteq Shell!ids, focus' \in tabs', main' = "on",
           Shell!SyncedTo(tabs', focus')
    PROVE  ViewsAgree'
<1>1. /\ workspace' \in Layouts /\ mirror' = workspace' /\ timer' = workspace'
      /\ timer' # Nothing /\ unsynced' = FALSE
      /\ workspace'.tabs = tabs' /\ workspace'.focus = focus'
  BY SyncedIsLayout
<1> QED
  BY <1>1 DEF ViewsAgree, Shell!FocusIsThere, Shell!ViewIsWorkspace, Shell!DiskCatchesUp,
     TimerIsWorkspace, FlushIsLast

LEMMA NextKeepsViews ==
    ASSUME ShellTypes, Phases, ViewsAgree, Shell!Next
    PROVE  ViewsAgree'
<1>1. /\ tabs \subseteq Shell!ids /\ focus \in Shell!ids \union {Nothing} /\ unsynced \in BOOLEAN
      /\ LayoutTypes
  BY DEF ShellTypes, TabTypes, SwitchTypes
<1>2. CASE Shell!Start \/ Shell!SignIn \/ Shell!Exit \/ Shell!Crash \/ Shell!SignOut
  <2>1. main' \notin {"on", "closing"}
    BY <1>2 DEF Shell!Start, Shell!SignIn, Shell!Mount, Shell!Exit, Shell!Crash, Shell!Gone, Shell!SignOut
  <2> QED
    BY <2>1 DEF ViewsAgree, Shell!FocusIsThere, Shell!ViewIsWorkspace, Shell!DiskCatchesUp,
       TimerIsWorkspace, FlushIsLast
<1>3. CASE Shell!TearSpawns \/ Shell!TearFails \/ Shell!Tell
  BY <1>3, ViewsStay DEF viewVars, Shell!TearSpawns, Shell!TearFails, Shell!Tell, Shell!saved, Shell!ghosts
<1>4. ASSUME NEW t \in Shell!ids,
             \/ Shell!Respawn(t) \/ Shell!TearOff(t) \/ Shell!WindowLoads(t) \/ Shell!WindowCloses(t)
      PROVE  ViewsAgree'
  BY <1>4, ViewsStay DEF viewVars, Shell!Respawn, Shell!TearOff, Shell!WindowLoads,
     Shell!WindowCloses, Shell!saved, Shell!ghosts
<1> USE DEF ViewsAgree, Shell!FocusIsThere, Shell!ViewIsWorkspace, Shell!DiskCatchesUp,
            TimerIsWorkspace, FlushIsLast
<1>5. CASE Shell!TimerFires
  <2>1. /\ timer # Nothing /\ disk' = timer /\ timer' = Nothing
        /\ UNCHANGED <<main, tabs, focus, unsynced, workspace, mirror, unseen>>
    BY <1>5 DEF Shell!TimerFires, Shell!ghosts
  <2>2. main = "on" /\ "replaced" \notin unseen => disk' = workspace /\ mirror' = workspace
    BY <2>1
  <2> QED
    BY <2>1, <2>2
<1>6. CASE Shell!EditLayout
  <2>1. /\ workspace' = [workspace EXCEPT !.rev = @ + 1] /\ mirror' = workspace'
        /\ timer' = workspace' /\ main = "on" /\ UNCHANGED <<main, tabs, focus, unsynced, disk, unseen>>
    BY <1>6 DEF Shell!EditLayout, Shell!Scheduled, Shell!ghosts
  <2>2. workspace' \in Layouts /\ workspace'.tabs = workspace.tabs /\ workspace'.focus = workspace.focus
    BY <1>1, <2>1 DEF Layouts, LayoutTypes
  <2>3. timer' # Nothing
    BY <2>1, <2>2, WindowsAssumption DEF Layouts, Shell!ids
  <2> QED
    BY <2>1, <2>2, <2>3
<1>7. CASE Shell!Loaded
  <2>1. /\ workspace' = Shell!Normalized(disk) /\ mirror' = workspace' /\ main' = "on"
        /\ tabs' = disk.tabs /\ focus' = workspace'.focus
        /\ timer' = Nothing /\ disk' = disk
    BY <1>7 DEF Shell!Loaded, Phases
  <2>2. /\ workspace'.tabs = disk.tabs /\ workspace'.focus \in disk.tabs
        /\ Shell!Normalized(workspace') = workspace'
    BY <1>1, <2>1, NormalizedIsFixed DEF LayoutTypes
  <2>3. Shell!Normalized(disk') = workspace' /\ Shell!Normalized(disk)' = Shell!Normalized(disk')
    BY <2>1
  <2> QED
    BY <2>1, <2>2, <2>3
<1>8. CASE Shell!Export
  BY <1>8 DEF Shell!Export, Shell!ghosts
<1>9. CASE Shell!Import
  <2>1. /\ main = "on" /\ main' = main /\ file # Nothing /\ timer' = timer
        /\ workspace' = file /\ mirror' = file /\ disk' = file
    BY <1>9 DEF Shell!Import
  <2>2. \/ file.stamp # workspace.stamp /\ tabs' = file.tabs /\ focus' = file.focus
        \/ /\ file.stamp = workspace.stamp /\ UNCHANGED <<tabs, focus>>
           /\ "replaced" \in unseen'
    BY <1>9 DEF Shell!Import
  <2>3. /\ unseen \subseteq unseen'
        /\ timer # Nothing => "replaced" \in unseen'
        /\ focus' # Shell!Normalized(file).focus => "blurred" \in unseen'
    BY <1>9 DEF Shell!Import
  <2>4. Shell!Normalized(file).focus \in file.tabs
    BY <1>1, <2>1, NormalizedIsFixed DEF LayoutTypes
  <2> QED
    BY <2>1, <2>2, <2>3, <2>4
<1>10. CASE Shell!TearDone
  <2>1. /\ main' = main /\ unseen \subseteq unseen' /\ UNCHANGED <<workspace, disk, mirror, timer>>
        /\ focus = tear.id /\ tear.was # focus => "blurred" \in unseen'
        /\ main = "closing" => "late" \in unseen'
    BY <1>10 DEF Shell!TearDone, Shell!saved
  <2>2. \/ UNCHANGED <<tabs, focus, unsynced>>
        \/ focus' \in tabs' /\ unsynced' = TRUE
        \/ /\ tabs' = tabs \ {tear.id} /\ unsynced' = TRUE
           /\ tear.id # tear.was /\ focus' = focus
    BY <1>10 DEF Shell!TearDone, Shell!Leave, Shell!Refocused
  <2> QED
    BY <2>1, <2>2
<1>11. CASE Shell!Close
  <2>1. /\ main' = "closing" /\ UNCHANGED <<tabs, unsynced, workspace>> /\ unseen \subseteq unseen'
        /\ unsynced \/ main = "out" => "late" \in unseen'
        /\ main = "on" => disk' = workspace /\ timer' = Nothing
        /\ main \in {"on", "out"}
    BY <1>11 DEF Shell!Close, Shell!Flushed
  <2>2. main = "on" => tabs # {}
    BY DEF Phases
  <2> QED
    BY <1>1, <2>1, <2>2
<1>12. CASE Shell!Sync
  <2>1. /\ main \in {"on", "closing"} /\ unsynced /\ Shell!SyncedTo(tabs, focus)
        /\ UNCHANGED <<main, tabs, focus, disk, unseen>>
    BY <1>12 DEF Shell!Sync, Shell!ghosts
  <2>2. tabs # {}
    BY <2>1 DEF Phases
  <2>3. /\ mirror' = workspace' /\ timer' = workspace' /\ timer' # Nothing /\ unsynced' = FALSE
        /\ workspace'.tabs = tabs /\ workspace'.focus = focus
    BY <1>1, <2>1, <2>2, SyncedIsLayout
  <2> QED
    BY <2>1, <2>2, <2>3
<1>13. ASSUME NEW t \in Shell!ids, Shell!Focus(t) PROVE ViewsAgree'
  <2>1. main' = "on" /\ t \in tabs /\ focus' = t /\ tabs' = tabs /\ Shell!SyncedTo(tabs, t)
    BY <1>13 DEF Shell!Focus
  <2>2. focus' \in tabs' /\ tabs' \subseteq Shell!ids /\ Shell!SyncedTo(tabs', focus')
    BY <1>1, <2>1
  <2> HIDE DEF ViewsAgree
  <2> QED
    BY <2>1, <2>2, SyncAgrees
<1>14. ASSUME NEW t \in Shell!ids, Shell!Add(t) PROVE ViewsAgree'
  <2>1. main' = "on" /\ tabs' = tabs \union {t} /\ focus' = t /\ Shell!SyncedTo(tabs', t)
    BY <1>14 DEF Shell!Add
  <2>2. focus' \in tabs' /\ tabs' \subseteq Shell!ids /\ Shell!SyncedTo(tabs', focus')
    BY <1>1, <2>1
  <2> HIDE DEF ViewsAgree
  <2> QED
    BY <2>1, <2>2, SyncAgrees
<1>15. ASSUME NEW t \in Shell!ids, Shell!CloseTab(t) PROVE ViewsAgree'
  <2>1. /\ main = "on" /\ main' = main /\ tabs' = tabs \ {t} /\ Shell!SyncedTo(tabs', focus')
        /\ focus' \in (IF t = focus THEN tabs' ELSE {focus})
        /\ UNCHANGED <<disk, unseen>>
    BY <1>15 DEF Shell!CloseTab, Shell!Refocused
  <2>2. tabs' # {} /\ tabs' \subseteq Shell!ids /\ focus' \in Shell!ids \union {Nothing}
    BY <1>1, <1>15, <2>1, OneTabIsNotMore DEF Shell!CloseTab
  <2>3. /\ mirror' = workspace' /\ timer' = workspace' /\ timer' # Nothing
        /\ workspace'.tabs = tabs' /\ workspace'.focus = focus'
    BY <2>1, <2>2, SyncedIsLayout
  <2> QED
    BY <2>1, <2>3
<1>16. ASSUME NEW t \in Shell!ids, Shell!Reattach(t) PROVE ViewsAgree'
  <2>1. /\ main' = main /\ UNCHANGED <<workspace, disk, mirror, timer>> /\ unseen \subseteq unseen'
        /\ main = "closing" => "late" \in unseen'
        /\ main # "loading" => focus' = t /\ t \in tabs' /\ unsynced' = TRUE
    BY <1>16 DEF Shell!Reattach, Shell!saved
  <2> QED
    BY <2>1
<1> QED
  BY <1>2, <1>3, <1>4, <1>5, <1>6, <1>7, <1>8, <1>9, <1>10, <1>11, <1>12, <1>13, <1>14, <1>15,
     <1>16 DEF Shell!Next

(* Where tabs are.  The main window has those it shows, or those that it   *)
(* will show once it has read what is saved.                               *)
InSight == IF tabs = {} THEN Shell!Due.tabs ELSE tabs

RequestedIsClosed == \A t \in requested \ excused : wins[t] = "none" /\ t \notin respawns
RespawnsAreKept == respawns \ excused \subseteq infos
WindowsAreKept == \A t \in Shell!ids \ excused : wins[t] # "none" => t \in infos

(* A tab that is being torn off has no window until it is made, and has    *)
(* stayed where it was until then unless the user has closed it.           *)
TearIsAlone ==
    tear # Shell!NoTear =>
        /\ tear.id \notin respawns
        /\ tear.state = "asked" => tear.id \in infos \union excused
        /\ tear.state # "made" /\ tear.id \notin excused =>
             /\ wins[tear.id] = "none" /\ tear.id \notin requested
             /\ tear.id \in owned => tear.id \in tabs

(* A tab is in the main window or elsewhere, not both but while it is torn *)
(* off, and a tab of the user is somewhere.                                *)
Elsewhere(t) == t \in infos \union requested \union respawns \/ wins[t] # "none"
SightIsHome == \A t \in InSight \ excused : Elsewhere(t) => tear.id = t
OwnedIsHome ==
    \A t \in owned \ excused : t \in InSight \union infos \union requested \/ wins[t] # "none"

HomesHold == /\ RequestedIsClosed /\ RespawnsAreKept /\ WindowsAreKept /\ TearIsAlone
             /\ SightIsHome /\ OwnedIsHome

homeVars == <<infos, requested, wins, respawns, tear, owned, excused>>

LEMMA HomesBegin == Shell!Init => HomesHold
<1> SUFFICES ASSUME Shell!Init PROVE HomesHold
  OBVIOUS
<1>1. InSight = FirstTabs
  BY DEF Shell!Init, InSight, Shell!Due, Shell!FirstWorkspace
<1>2. /\ infos = {} /\ requested = {} /\ respawns = {} /\ tear = Shell!NoTear
      /\ owned = FirstTabs /\ \A t \in Shell!ids : wins[t] = "none"
      /\ FirstTabs \subseteq Shell!ids
  BY DEF Shell!Init, Shell!ids
<1> QED
  BY <1>1, <1>2 DEF HomesHold, RequestedIsClosed, RespawnsAreKept, WindowsAreKept, TearIsAlone,
     SightIsHome, OwnedIsHome, Elsewhere

LEMMA HomesStay ==
    ASSUME HomesHold, UNCHANGED homeVars, tabs' = tabs, InSight' = InSight
    PROVE  HomesHold'
BY DEF HomesHold, homeVars, RequestedIsClosed, RespawnsAreKept, WindowsAreKept, TearIsAlone,
   SightIsHome, OwnedIsHome, Elsewhere

LEMMA DifferIs ==
    ASSUME NEW S, NEW T, NEW t \in Shell!ids, t \notin Shell!Differ(S, T)
    PROVE  t \in S <=> t \in T
BY Zenon DEF Shell!Differ

LEMMA SavesKeepHomes ==
    ASSUME Phases, HomesHold,
           \/ Shell!Sync \/ Shell!TimerFires \/ Shell!EditLayout \/ Shell!Export \/ Shell!Close
           \/ Shell!Tell \/ \E t \in Shell!ids : Shell!Focus(t)
    PROVE  HomesHold'
<1>1. UNCHANGED homeVars /\ tabs' = tabs
  BY DEF homeVars, Shell!Sync, Shell!TimerFires, Shell!EditLayout, Shell!Export, Shell!Close,
     Shell!Tell, Shell!Focus, Shell!store, Shell!ghosts
<1>2. InSight' = InSight
  <2>1. CASE tabs # {}
    BY <1>1, <2>1 DEF InSight
  <2>2. CASE tabs = {}
    <3>1. Shell!TimerFires \/ Shell!Close \/ Shell!Tell
      BY <2>2 DEF Phases, Shell!Sync, Shell!EditLayout, Shell!Export, Shell!Focus
    <3>2. Shell!Due' = Shell!Due
      BY <2>2, <3>1 DEF Phases, Shell!Due, Shell!TimerFires, Shell!Close, Shell!Tell, Shell!saved
    <3> QED
      BY <1>1, <2>2, <3>2 DEF InSight
  <2> QED
    BY <2>1, <2>2
<1> QED
  BY <1>1, <1>2, HomesStay

LEMMA StartsKeepHomes ==
    ASSUME ShellTypes, Phases, HomesHold, Shell!Start \/ Shell!SignIn
    PROVE  HomesHold'
<1>1. /\ respawns' = infos /\ infos' = infos \ requested /\ requested' = {}
      /\ excused' = excused \union requested /\ tabs' = {}
      /\ UNCHANGED <<wins, tear, owned, timer, disk>> /\ main \in {"off", "out"}
  BY DEF Shell!Start, Shell!SignIn, Shell!Mount, Shell!saved
<1>2. tabs = {} /\ tear = Shell!NoTear
  BY <1>1 DEF Phases
<1>3. InSight' = InSight
  BY <1>1, <1>2 DEF InSight, Shell!Due
<1>4. InSight \subseteq Shell!ids /\ Shell!NoTear.id \notin Shell!ids
  <2>1. Shell!Due \in Layouts
    BY DEF ShellTypes, LayoutTypes, Shell!Due
  <2> QED
    BY <1>2, <2>1, NoTearIsNothing DEF InSight, Layouts
<1> HIDE DEF InSight
<1> QED
  BY <1>1, <1>2, <1>3, <1>4 DEF HomesHold, RequestedIsClosed, RespawnsAreKept, WindowsAreKept,
     TearIsAlone, SightIsHome, OwnedIsHome, Elsewhere

LEMMA LoadedKeepsHomes ==
    ASSUME ShellTypes, Phases, HomesHold, Shell!Loaded
    PROVE  HomesHold'
<1>1. /\ tabs' = disk.tabs /\ owned' = (owned \ excused) \union disk.tabs
      /\ UNCHANGED <<infos, requested, wins, respawns, tear, excused>> /\ main = "loading"
  BY DEF Shell!Loaded, Shell!store
<1>2. tabs = {} /\ timer = Nothing /\ disk.tabs # {} /\ tear = Shell!NoTear
  BY <1>1 DEF Phases, ShellTypes, LayoutTypes, Layouts
<1>3. InSight' = disk.tabs /\ InSight = disk.tabs
  BY <1>1, <1>2 DEF InSight, Shell!Due
<1> QED
  BY <1>1, <1>2, <1>3 DEF HomesHold, RequestedIsClosed, RespawnsAreKept, WindowsAreKept,
     TearIsAlone, SightIsHome, OwnedIsHome, Elsewhere

LEMMA SightIsTabs == ASSUME ShellTypes PROVE InSight \subseteq Shell!ids
<1>1. tabs \subseteq Shell!ids /\ Shell!Due \in Layouts
  BY DEF ShellTypes, TabTypes, LayoutTypes, Shell!Due
<1> QED
  BY <1>1 DEF InSight, Layouts

LEMMA RespawnKeepsHomes ==
    ASSUME ShellTypes, HomesHold, NEW t \in Shell!ids, Shell!Respawn(t)
    PROVE  HomesHold'
<1>1. /\ t \in respawns /\ respawns' = respawns \ {t}
      /\ \/ /\ wins' = [wins EXCEPT ![t] = "opening"] /\ UNCHANGED <<infos, excused>>
         \/ infos' = infos \ {t} /\ excused' = excused \union {t} /\ UNCHANGED wins
      /\ UNCHANGED <<tabs, timer, disk, requested, tear, owned>>
  BY DEF Shell!Respawn, Shell!saved
<1>2. InSight' = InSight
  BY <1>1 DEF InSight, Shell!Due
<1>3. wins \in [Shell!ids -> {"none", "opening", "open"}] /\ requested \subseteq Shell!ids
      /\ InSight \subseteq Shell!ids /\ owned \subseteq Shell!ids
  BY SightIsTabs DEF ShellTypes, TabTypes
<1>4. tear # Shell!NoTear => tear.id \in Shell!ids
  BY DEF ShellTypes, TabTypes, TornOff
<1> HIDE DEF InSight
<1>5. RequestedIsClosed' /\ RespawnsAreKept' /\ WindowsAreKept'
  BY <1>1, <1>3 DEF HomesHold, RequestedIsClosed, RespawnsAreKept, WindowsAreKept
<1>6. TearIsAlone'
  BY <1>1, <1>3, <1>4 DEF HomesHold, TearIsAlone
<1>7. SightIsHome' /\ OwnedIsHome'
  BY <1>1, <1>2, <1>3 DEF HomesHold, SightIsHome, OwnedIsHome, Elsewhere
<1> QED
  BY <1>5, <1>6, <1>7 DEF HomesHold

LEMMA AddKeepsHomes ==
    ASSUME ShellTypes, Phases, HomesHold, NEW t \in Shell!ids, Shell!Add(t)
    PROVE  HomesHold'
<1>1. /\ t \notin owned /\ wins[t] = "none" /\ t \notin infos \union requested
      /\ tabs' = tabs \union {t} /\ owned' = owned \union {t} /\ main = "on"
      /\ UNCHANGED <<infos, requested, wins, respawns, tear, excused>>
  BY DEF Shell!Add, Shell!store
<1>2. InSight = tabs /\ InSight' = tabs \union {t}
  BY <1>1 DEF Phases, InSight
<1> HIDE DEF InSight
<1> QED
  BY <1>1, <1>2 DEF HomesHold, RequestedIsClosed, RespawnsAreKept, WindowsAreKept, TearIsAlone,
     SightIsHome, OwnedIsHome, Elsewhere

LEMMA CloseTabKeepsHomes ==
    ASSUME ShellTypes, Phases, HomesHold, NEW t \in Shell!ids, Shell!CloseTab(t)
    PROVE  HomesHold'
<1>1. /\ tabs' = tabs \ {t} /\ owned' = owned \ {t} /\ main = "on"
      /\ UNCHANGED <<infos, requested, wins, respawns, tear, excused>>
  BY DEF Shell!CloseTab, Shell!store
<1>2. tabs' # {}
  BY <1>1, OneTabIsNotMore DEF Shell!CloseTab
<1>3. InSight = tabs /\ InSight' = tabs \ {t}
  BY <1>1, <1>2 DEF Phases, InSight
<1> HIDE DEF InSight
<1> QED
  BY <1>1, <1>3 DEF HomesHold, RequestedIsClosed, RespawnsAreKept, WindowsAreKept, TearIsAlone,
     SightIsHome, OwnedIsHome, Elsewhere

LEMMA ImportKeepsHomes ==
    ASSUME ShellTypes, Phases, HomesHold, Shell!Import
    PROVE  HomesHold'
<1>1. /\ file # Nothing /\ tear = Shell!NoTear /\ main = "on"
      /\ tabs' = file.tabs \/ tabs' = tabs
      /\ owned' = (owned \ tabs) \union tabs'
      /\ excused' = excused \union {t \in tabs' : t \in infos \union requested \/ wins[t] # "none"}
      /\ UNCHANGED <<infos, requested, wins, respawns, tear>>
  BY DEF Shell!Import, Shell!store
<1>2. tabs' # {} /\ tabs # {}
  BY <1>1 DEF Phases, ShellTypes, LayoutTypes, Layouts
<1>3. InSight = tabs /\ InSight' = tabs'
  BY <1>1, <1>2 DEF InSight
<1> HIDE DEF InSight
<1>4. RequestedIsClosed' /\ RespawnsAreKept' /\ WindowsAreKept' /\ TearIsAlone'
  BY <1>1 DEF HomesHold, RequestedIsClosed, RespawnsAreKept, WindowsAreKept, TearIsAlone
<1>5. SightIsHome'
  BY <1>1, <1>3 DEF HomesHold, RespawnsAreKept, SightIsHome, Elsewhere
<1>6. OwnedIsHome'
  BY <1>1, <1>3 DEF HomesHold, OwnedIsHome
<1> QED
  BY <1>4, <1>5, <1>6 DEF HomesHold

LEMMA TearOffKeepsHomes ==
    ASSUME ShellTypes, Phases, HomesHold, NEW t \in Shell!ids, Shell!TearOff(t)
    PROVE  HomesHold'
<1>1. /\ tear = Shell!NoTear /\ t \in tabs /\ t \notin respawns
      /\ tear' = [id |-> t, was |-> focus, state |-> "asked"] /\ infos' = infos \union {t}
      /\ UNCHANGED <<tabs, requested, wins, respawns, owned, excused>>
  BY DEF Shell!TearOff, Shell!ghosts
<1>2. InSight = tabs /\ InSight' = tabs
  BY <1>1 DEF InSight
<1>3. tear'.id = t /\ tear'.state = "asked" /\ tear.id = Nothing /\ Nothing \notin Shell!ids
      /\ tabs \subseteq Shell!ids
  BY <1>1, NoTearIsNothing DEF ShellTypes, TabTypes
<1> HIDE DEF InSight
<1>4. \A u \in tabs \ excused : ~Elsewhere(u)
  BY <1>2, <1>3 DEF HomesHold, SightIsHome
<1>5. TearIsAlone'
  BY <1>1, <1>3, <1>4 DEF TearIsAlone, Elsewhere
<1>6. SightIsHome'
  BY <1>1, <1>2, <1>3, <1>4 DEF SightIsHome, Elsewhere
<1> QED
  BY <1>1, <1>2, <1>5, <1>6 DEF HomesHold, RequestedIsClosed, RespawnsAreKept, WindowsAreKept,
     OwnedIsHome

LEMMA TearGoesOnKeepsHomes ==
    ASSUME ShellTypes, HomesHold, Shell!TearSpawns \/ Shell!TearFails
    PROVE  HomesHold'
<1> DEFINE t == tear.id
<1>1. /\ tear.state = "asked"
      /\ \/ /\ wins[t] = "none" /\ wins' = [wins EXCEPT ![t] = "opening"]
            /\ tear' = [tear EXCEPT !.state = "made"]
         \/ wins[t] # "none" /\ UNCHANGED wins /\ tear' = [tear EXCEPT !.state = "failed"]
         \/ UNCHANGED wins /\ tear' = [tear EXCEPT !.state = "failed"]
      /\ UNCHANGED <<tabs, timer, disk, infos, requested, respawns, owned, excused>>
  BY DEF Shell!TearSpawns, Shell!TearFails, Shell!saved, Shell!store, Shell!ghosts
<1>2. InSight' = InSight
  BY <1>1 DEF InSight, Shell!Due
<1>3. tear \in TornOff /\ t \in Shell!ids /\ tear # Shell!NoTear
  BY <1>1, TornOffIs
<1>4. tear'.id = t
  BY <1>1, <1>3 DEF TornOff
<1>5. wins \in [Shell!ids -> {"none", "opening", "open"}] /\ requested \subseteq Shell!ids
      /\ InSight \subseteq Shell!ids /\ owned \subseteq Shell!ids
  BY SightIsTabs DEF ShellTypes, TabTypes
<1>6. /\ t \notin respawns /\ t \in infos \union excused
      /\ t \notin excused =>
           wins[t] = "none" /\ t \notin requested /\ (t \in owned => t \in tabs)
  BY <1>1, <1>3 DEF HomesHold, TearIsAlone
<1>7. \/ wins' = [wins EXCEPT ![t] = "opening"] /\ tear'.state = "made"
      \/ UNCHANGED wins /\ tear'.state = "failed"
  BY <1>1, <1>3 DEF TornOff
<1> HIDE DEF t, InSight
<1>8. TearIsAlone'
  BY <1>1, <1>4, <1>6, <1>7 DEF TearIsAlone
<1>9. RequestedIsClosed' /\ RespawnsAreKept' /\ WindowsAreKept'
  BY <1>1, <1>3, <1>5, <1>6, <1>7 DEF HomesHold, RequestedIsClosed, RespawnsAreKept, WindowsAreKept
<1>10. SightIsHome' /\ OwnedIsHome'
  BY <1>1, <1>2, <1>3, <1>4, <1>5, <1>7 DEF HomesHold, SightIsHome, OwnedIsHome, Elsewhere, t
<1> QED
  BY <1>8, <1>9, <1>10 DEF HomesHold

LEMMA TearDoneKeepsHomes ==
    ASSUME ShellTypes, Phases, HomesHold, Shell!TearDone
    PROVE  HomesHold'
<1> DEFINE t == tear.id
<1>1. /\ tear.state \in {"made", "failed"} /\ tear' = Shell!NoTear
      /\ infos' = IF tear.state = "made" THEN infos \union {t} ELSE infos \ {t}
      /\ excused' = IF tear.state = "made" /\ (t \notin tabs \/ wins[t] = "none")
                    THEN excused \union {t} ELSE excused
      /\ UNCHANGED <<timer, disk, wins, requested, respawns>>
  BY DEF Shell!TearDone, Shell!EntryAfter, Shell!saved
<1>2. \/ UNCHANGED <<tabs, owned>> /\ (tear.state = "made" => t \notin tabs)
      \/ /\ tear.state = "made" /\ tabs = {t}
         /\ \E n \in Shell!ids \ (owned \union infos \union requested) :
              wins[n] = "none" /\ tabs' = {n} /\ owned' = owned \union {n}
      \/ /\ tear.state = "made" /\ t \in tabs /\ tabs # {t}
         /\ tabs' = tabs \ {t} /\ owned' = owned
  BY DEF Shell!TearDone, Shell!Leave, Shell!ids
<1>3. t \in Shell!ids /\ tear # Shell!NoTear
  BY <1>1, TornOffIs
<1>4. /\ t \notin respawns
      /\ tear.state = "failed" /\ t \notin excused =>
           wins[t] = "none" /\ t \notin requested /\ (t \in owned => t \in tabs)
  BY <1>1, <1>3 DEF HomesHold, TearIsAlone
<1>5. /\ InSight \subseteq Shell!ids /\ owned \subseteq Shell!ids /\ requested \subseteq Shell!ids
      /\ tear'.id = Nothing /\ Nothing \notin Shell!ids
  BY <1>1, SightIsTabs, NoTearIsNothing DEF ShellTypes, TabTypes
<1>6. (tabs # {} => InSight = tabs) /\ (tabs' # {} => InSight' = tabs')
  BY DEF InSight
<1>7. tabs' = tabs => InSight' = InSight
  BY <1>1 DEF InSight, Shell!Due
<1> HIDE DEF t, InSight
<1>8. RequestedIsClosed' /\ RespawnsAreKept' /\ WindowsAreKept'
  BY <1>1, <1>4 DEF HomesHold, RequestedIsClosed, RespawnsAreKept, WindowsAreKept
<1>9. TearIsAlone'
  BY <1>1 DEF TearIsAlone
<1>10. /\ RespawnsAreKept /\ OwnedIsHome
       /\ \A u \in InSight \ excused : Elsewhere(u) => u = t
  BY DEF HomesHold, SightIsHome, t
<1>11. CASE UNCHANGED <<tabs, owned>> /\ (tear.state = "made" => t \notin tabs)
  <2>1. InSight' = InSight /\ (tabs # {} => InSight = tabs)
    BY <1>6, <1>7, <1>11
  <2>2. SightIsHome'
    <3> SUFFICES ASSUME NEW u \in InSight \ excused', Elsewhere(u)' PROVE FALSE
      BY <2>1 DEF SightIsHome
    <3>1. u = t
      BY <1>1, <1>10 DEF Elsewhere
    <3> QED
      BY <1>1, <1>4, <1>11, <3>1 DEF Elsewhere
  <2>3. OwnedIsHome'
    <3> SUFFICES ASSUME NEW u \in owned \ excused', u \notin InSight
                 PROVE  u \in infos' \union requested' \/ wins'[u] # "none"
      BY <1>11, <2>1 DEF OwnedIsHome
    <3>1. u \in infos \union requested \/ wins[u] # "none"
      BY <1>1, <1>10 DEF OwnedIsHome
    <3>2. tear.state = "failed" => u # t
      BY <1>1, <1>4, <2>1
    <3> QED
      BY <1>1, <3>1, <3>2
  <2> QED
    BY <1>8, <1>9, <2>2, <2>3 DEF HomesHold
<1>12. CASE tear.state = "made" /\ t \in tabs /\ tabs' = tabs \ {t} /\ owned' = owned /\ tabs # {t}
  <2>1. InSight = tabs /\ InSight' = tabs \ {t} /\ infos' = infos \union {t} /\ excused \subseteq excused'
    BY <1>1, <1>6, <1>12
  <2>2. SightIsHome'
    BY <1>1, <1>10, <2>1 DEF SightIsHome, Elsewhere
  <2>3. OwnedIsHome'
    BY <1>1, <1>10, <1>12, <2>1 DEF OwnedIsHome
  <2> QED
    BY <1>8, <1>9, <2>2, <2>3 DEF HomesHold
<1>13. ASSUME tear.state = "made", tabs = {t},
              NEW n \in Shell!ids \ (owned \union infos \union requested),
              wins[n] = "none", tabs' = {n}, owned' = owned \union {n}
       PROVE  HomesHold'
  <2>1. InSight = {t} /\ InSight' = {n} /\ infos' = infos \union {t} /\ excused \subseteq excused'
    BY <1>1, <1>6, <1>13
  <2>2. n = t => n \in excused'
    BY <1>1, <1>13
  <2>3. SightIsHome'
    BY <1>1, <1>10, <1>13, <2>1, <2>2 DEF RespawnsAreKept, SightIsHome, Elsewhere
  <2>4. OwnedIsHome'
    BY <1>1, <1>10, <1>13, <2>1 DEF OwnedIsHome
  <2> QED
    BY <1>8, <1>9, <2>3, <2>4 DEF HomesHold
<1> QED
  BY <1>2, <1>11, <1>12, <1>13

LEMMA WindowKeepsHomes ==
    ASSUME ShellTypes, HomesHold, NEW t \in Shell!ids,
           Shell!WindowLoads(t) \/ Shell!WindowCloses(t)
    PROVE  HomesHold'
<1>1. /\ UNCHANGED <<tabs, timer, disk, respawns, tear, owned, excused>>
      /\ \/ /\ wins[t] = "opening" /\ wins' = [wins EXCEPT ![t] = "open"]
            /\ infos' = infos \union {t} /\ requested' = requested
         \/ /\ wins[t] = "open" /\ wins' = [wins EXCEPT ![t] = "none"] /\ t \notin respawns
            /\ \/ UNCHANGED <<infos, requested>>
               \/ requested' = requested \union {t} /\ infos' = infos \ {t}
  BY DEF Shell!WindowLoads, Shell!WindowCloses, Shell!saved, Shell!store, Shell!ghosts
<1>2. InSight' = InSight
  BY <1>1 DEF InSight, Shell!Due
<1>3. wins \in [Shell!ids -> {"none", "opening", "open"}] /\ requested \subseteq Shell!ids
      /\ InSight \subseteq Shell!ids /\ owned \subseteq Shell!ids
      /\ (tear # Shell!NoTear => tear.id \in Shell!ids)
  BY SightIsTabs DEF ShellTypes, TabTypes, TornOff
<1> HIDE DEF InSight
<1>4. RequestedIsClosed' /\ RespawnsAreKept' /\ WindowsAreKept'
  BY <1>1, <1>3 DEF HomesHold, RequestedIsClosed, RespawnsAreKept, WindowsAreKept
<1>5. TearIsAlone'
  BY <1>1, <1>3 DEF HomesHold, TearIsAlone
<1>6. SightIsHome'
  BY <1>1, <1>2, <1>3 DEF HomesHold, SightIsHome, Elsewhere
<1>7. OwnedIsHome'
  BY <1>1, <1>2, <1>3 DEF HomesHold, OwnedIsHome, WindowsAreKept
<1> QED
  BY <1>4, <1>5, <1>6, <1>7 DEF HomesHold

LEMMA ReattachKeepsHomes ==
    ASSUME ShellTypes, Phases, HomesHold, NEW t \in Shell!ids, Shell!Reattach(t)
    PROVE  HomesHold'
<1>1. /\ t \in requested /\ requested' = requested \ {t} /\ infos' = infos \ {t}
      /\ \/ UNCHANGED tabs /\ excused' = excused \union {t}
         \/ tabs # {} /\ tabs' = tabs \union {t} /\ UNCHANGED excused
      /\ UNCHANGED <<timer, disk, wins, respawns, tear, owned>>
  BY DEF Shell!Reattach, Shell!saved
<1>2. \/ InSight' = InSight /\ UNCHANGED tabs /\ excused' = excused \union {t}
      \/ /\ InSight = tabs /\ InSight' = tabs \union {t} /\ tabs' = tabs \union {t}
         /\ UNCHANGED excused
  BY <1>1 DEF InSight, Shell!Due
<1> HIDE DEF InSight
<1>3. t \notin excused => wins[t] = "none" /\ t \notin respawns
  BY <1>1 DEF HomesHold, RequestedIsClosed
<1>4. RequestedIsClosed' /\ RespawnsAreKept' /\ WindowsAreKept'
  BY <1>1, <1>3 DEF HomesHold, RequestedIsClosed, RespawnsAreKept, WindowsAreKept
<1>5. TearIsAlone'
  BY <1>1 DEF HomesHold, TearIsAlone
<1>6. SightIsHome'
  BY <1>1, <1>2, <1>3 DEF HomesHold, SightIsHome, Elsewhere
<1>7. OwnedIsHome'
  BY <1>1, <1>2 DEF HomesHold, OwnedIsHome
<1> QED
  BY <1>4, <1>5, <1>6, <1>7 DEF HomesHold

(* The end of the process, and of a session, say of the tabs in sight what *)
(* the next start will show.                                               *)
LEMMA EndKeepsHomes ==
    ASSUME ShellTypes, ShellTypes', HomesHold, tear' = Shell!NoTear, excused \subseteq excused',
           tear = Shell!NoTear \/ tear.id \in excused',
           UNCHANGED <<infos, requested, owned>>,
           \A t \in Shell!ids \ excused' : t \in InSight <=> t \in InSight',
           \/ UNCHANGED <<wins, respawns>>
           \/ (\A t \in Shell!ids : wins'[t] = "none") /\ respawns' = {}
    PROVE  HomesHold'
<1>1. /\ InSight \subseteq Shell!ids /\ owned \subseteq Shell!ids /\ requested \subseteq Shell!ids
      /\ Shell!NoTear.id = Nothing /\ Nothing \notin Shell!ids
  BY SightIsTabs, NoTearIsNothing DEF ShellTypes, TabTypes
<1>2. InSight' \subseteq Shell!ids
  <2>1. tabs' \subseteq Shell!ids /\ Shell!Due' \in Layouts
    BY DEF ShellTypes, TabTypes, LayoutTypes, Shell!Due
  <2> QED
    BY <2>1 DEF InSight, Layouts
<1> HIDE DEF InSight
<1>3. RequestedIsClosed' /\ RespawnsAreKept' /\ WindowsAreKept' /\ TearIsAlone'
  BY <1>1 DEF HomesHold, RequestedIsClosed, RespawnsAreKept, WindowsAreKept, TearIsAlone
<1>4. SightIsHome'
  <2> SUFFICES ASSUME NEW t \in InSight' \ excused', Elsewhere(t)' PROVE FALSE
    BY DEF SightIsHome
  <2>1. t \in InSight \ excused /\ t \in Shell!ids /\ t \notin excused'
    BY <1>2
  <2>2. Elsewhere(t)
    BY <2>1 DEF Elsewhere
  <2>3. tear.id = t
    BY <2>1, <2>2 DEF HomesHold, SightIsHome
  <2> QED
    BY <1>1, <2>1, <2>3
<1>5. OwnedIsHome'
  <2> SUFFICES ASSUME NEW t \in owned \ excused'
               PROVE  t \in InSight' \union infos \union requested \/ wins'[t] # "none"
    BY DEF OwnedIsHome
  <2>1. t \in Shell!ids /\ t \notin excused
    BY <1>1
  <2>2. t \in InSight \union infos \union requested \/ wins[t] # "none"
    BY <2>1 DEF HomesHold, OwnedIsHome
  <2>3. wins[t] # "none" => t \in infos
    BY <2>1 DEF HomesHold, WindowsAreKept
  <2> QED
    BY <2>1, <2>2, <2>3
<1> QED
  BY <1>3, <1>4, <1>5 DEF HomesHold

LEMMA GoneKeepsHomes ==
    ASSUME ShellTypes, ShellTypes', ViewsAgree, HomesHold, Shell!Exit \/ Shell!Crash
    PROVE  HomesHold'
<1>1. /\ tabs' = {} /\ timer' = Nothing /\ disk' = disk
      /\ wins' = [t \in Shell!ids |-> "none"] /\ respawns' = {} /\ tear' = Shell!NoTear
      /\ UNCHANGED <<infos, requested, owned>>
      /\ excused \union ({tear.id} \ {Nothing}) \subseteq excused'
      /\ \/ Shell!Unsaved \subseteq excused'
         \/ main = "closing" /\ {"late", "replaced"} \intersect unseen = {}
  BY DEF Shell!Exit, Shell!Crash, Shell!Gone, Shell!store
<1>2. InSight' = disk.tabs
  BY <1>1 DEF InSight, Shell!Due
<1>3. ASSUME NEW t \in Shell!ids \ excused'
      PROVE  t \in InSight <=> t \in InSight'
  <2>1. CASE Shell!Unsaved \subseteq excused'
    <3>1. t \notin Shell!Differ(InSight, disk.tabs)
      BY <2>1 DEF InSight, Shell!Unsaved
    <3> QED
      BY <1>2, <3>1, DifferIs
  <2>2. CASE main = "closing" /\ {"late", "replaced"} \intersect unseen = {}
    <3>1. tabs # {} /\ disk.tabs = tabs
      BY <2>2 DEF ViewsAgree, FlushIsLast
    <3> QED
      BY <1>2, <3>1 DEF InSight
  <2> QED
    BY <1>1, <2>1, <2>2
<1>4. tear = Shell!NoTear \/ tear.id \in excused'
  <2>1. tear # Shell!NoTear => tear.id \in Shell!ids
    BY DEF ShellTypes, TabTypes, TornOff
  <2> QED
    BY <1>1, <2>1, NoTearIsNothing
<1>5. \A t \in Shell!ids : wins'[t] = "none"
  BY <1>1
<1> QED
  BY <1>1, <1>3, <1>4, <1>5, EndKeepsHomes

LEMMA SignOutKeepsHomes ==
    ASSUME ShellTypes, ShellTypes', Phases, ViewsAgree, HomesHold, Shell!SignOut
    PROVE  HomesHold'
<1>1. /\ main = "on" /\ tear = Shell!NoTear /\ tear' = tear /\ ~unsynced
      /\ tabs' = {} /\ UNCHANGED <<workspace, timer, disk>>
      /\ UNCHANGED <<infos, requested, owned>> /\ UNCHANGED <<wins, respawns>>
      /\ excused' = IF "replaced" \in unseen THEN excused \union Shell!Differ(tabs, Shell!Due.tabs)
                    ELSE excused
  BY DEF Shell!SignOut, Shell!saved, Shell!store
<1>2. tabs # {}
  BY <1>1 DEF Phases
<1>3. InSight = tabs /\ InSight' = Shell!Due.tabs
  BY <1>1, <1>2 DEF InSight, Shell!Due
<1>4. "replaced" \notin unseen => Shell!Due.tabs = tabs
  <2> SUFFICES ASSUME "replaced" \notin unseen PROVE Shell!Due.tabs = tabs
    OBVIOUS
  <2>1. workspace.tabs = tabs
    BY <1>1 DEF ViewsAgree, Shell!ViewIsWorkspace
  <2>2. CASE timer # Nothing
    BY <1>1, <2>1, <2>2 DEF ViewsAgree, TimerIsWorkspace, Shell!Due
  <2>3. CASE timer = Nothing
    <3>1. Shell!Normalized(disk) = Shell!Normalized(workspace)
      BY <1>1, <2>3 DEF ViewsAgree, Shell!DiskCatchesUp
    <3>2. disk \in Layouts /\ workspace \in Layouts
      BY DEF ShellTypes, LayoutTypes
    <3>3. disk.tabs = workspace.tabs
      BY <3>1, <3>2, NormalizedIsFixed
    <3> QED
      BY <2>1, <2>3, <3>3 DEF Shell!Due
  <2> QED
    BY <2>2, <2>3
<1>5. ASSUME NEW t \in Shell!ids \ excused'
      PROVE  t \in InSight <=> t \in InSight'
  <2>1. CASE "replaced" \in unseen
    <3>1. t \notin Shell!Differ(tabs, Shell!Due.tabs)
      BY <1>1, <2>1
    <3> QED
      BY <1>3, <3>1, DifferIs
  <2>2. CASE "replaced" \notin unseen
    BY <1>3, <1>4, <2>2
  <2> QED
    BY <2>1, <2>2
<1>6. excused \subseteq excused'
  BY <1>1
<1> QED
  BY <1>1, <1>5, <1>6, EndKeepsHomes

LEMMA NextKeepsHomes ==
    ASSUME ShellTypes, ShellTypes', Phases, ViewsAgree, HomesHold, Shell!Next
    PROVE  HomesHold'
BY SavesKeepHomes, StartsKeepHomes, LoadedKeepsHomes, RespawnKeepsHomes, AddKeepsHomes,
   CloseTabKeepsHomes, ImportKeepsHomes, TearOffKeepsHomes, TearGoesOnKeepsHomes,
   TearDoneKeepsHomes, WindowKeepsHomes, ReattachKeepsHomes, GoneKeepsHomes, SignOutKeepsHomes
   DEF Shell!Next

ShellInv == ShellTypes /\ Phases /\ ViewsAgree /\ HomesHold

LEMMA NextKeepsShell == ShellInv /\ [Shell!Next]_(Shell!shellVars) => ShellInv'
<1> SUFFICES ASSUME ShellInv, [Shell!Next]_(Shell!shellVars) PROVE ShellInv'
  OBVIOUS
<1>1. CASE Shell!Next
  <2>1. ShellTypes /\ Phases /\ ViewsAgree /\ HomesHold
    BY DEF ShellInv
  <2>2. ShellTypes'
    BY <1>1, <2>1, NextKeepsTabs, NextKeepsSwitches, NextKeepsLayouts DEF ShellTypes
  <2> QED
    BY <1>1, <2>1, <2>2, NextKeepsPhases, NextKeepsViews, NextKeepsHomes DEF ShellInv
<1>2. CASE UNCHANGED Shell!shellVars
  <2>1. UNCHANGED homeVars /\ UNCHANGED viewVars /\ InSight' = InSight
    BY <1>2 DEF Shell!shellVars, homeVars, viewVars, InSight, Shell!Due
  <2>2. HomesHold' /\ ViewsAgree'
    BY <2>1, HomesStay, ViewsStay DEF ShellInv, viewVars
  <2>3. UNCHANGED <<main, tabs, focus, unsynced, workspace, timer, disk, mirror, file, infos,
                    requested, closingFlag, wins, told, respawns, tear, owned, excused>>
    BY <1>2 DEF Shell!shellVars
  <2>4. ShellTypes' /\ Phases'
    BY <2>3 DEF ShellInv, ShellTypes, TabTypes, SwitchTypes, LayoutTypes, Phases
  <2> QED
    BY <2>2, <2>4 DEF ShellInv
<1> QED
  BY <1>1, <1>2

LEMMA ShellInvBegins == Shell!Init => ShellInv
<1>1. Shell!Init => ViewsAgree
  BY DEF Shell!Init, ViewsAgree, Shell!FocusIsThere, Shell!ViewIsWorkspace, Shell!DiskCatchesUp,
     TimerIsWorkspace, FlushIsLast
<1> QED
  BY <1>1, ShellBegins, HomesBegin DEF ShellInv

LEMMA ShellInvIsEnough == ShellInv => Shell!TypeOK /\ Shell!TabsHaveOneHome /\ Shell!WorkspaceIsView
<1> SUFFICES ASSUME ShellInv PROVE Shell!TypeOK /\ Shell!TabsHaveOneHome /\ Shell!WorkspaceIsView
  OBVIOUS
<1>1. ShellTypes /\ Phases /\ ViewsAgree /\ HomesHold
  BY DEF ShellInv
<1>2. Shell!TypeOK
  <2>1. {workspace.tabs, disk.tabs, mirror.tabs} \subseteq (SUBSET Shell!ids) \ {{}}
    BY <1>1 DEF ShellTypes, LayoutTypes, Layouts
  <2> QED
    BY <1>1, <2>1, TearIdIs DEF ShellTypes, TabTypes, SwitchTypes, Phases, Shell!TypeOK
<1>3. Shell!NoTabLost
  BY <1>1 DEF HomesHold, OwnedIsHome, InSight, Shell!NoTabLost, Shell!Somewhere
<1>4. Shell!NoTabTwice
  BY <1>1 DEF Phases, HomesHold, SightIsHome, Elsewhere, InSight, Shell!NoTabTwice
<1>5. Shell!WindowComesBack
  BY <1>1 DEF HomesHold, WindowsAreKept, Shell!WindowComesBack
<1> QED
  BY <1>1, <1>2, <1>3, <1>4, <1>5 DEF Shell!TabsHaveOneHome, Shell!OneHome, Shell!WorkspaceIsView,
     ViewsAgree

-----------------------------------------------------------------------------
(* The alerts.                                                             *)
Kind == [symbol : Stocks, above : BOOLEAN, status : {"active", "fired"}] \union {NoOne}
Closes == {NoOne, 0, 1}
Charts == [symbol : Stocks, close : Closes, seen : [of : Stocks \union {NoOne}, close : Closes]]
Windows == {"main", "torn"}

AlertTypes ==
    /\ alerts \in [Windows -> [Ids -> Kind]]
    /\ notes \in [Windows -> [Ids -> Nat]]
    /\ armed \in [Windows -> [Ids -> Nat]]
    /\ oldFired \in [Windows -> SUBSET Ids]
    /\ kept \in [Ids -> Kind] /\ writer \in Windows
ChartTypes ==
    /\ price \in [Stocks -> {0, 1}]
    /\ view \in [Views -> Charts]
    /\ editing \in Ids \union {NoOne} /\ isOpen \in BOOLEAN

(* An alert that is active has not fired since it was armed. *)
ActiveIsArmed ==
    \A w \in Windows, a \in Ids :
        /\ armed[w][a] <= 1
        /\ alerts[w][a] = NoOne \/ alerts[w][a].status = "active" => armed[w][a] = 0

AlertInv == /\ AlertTypes /\ ChartTypes /\ ActiveIsArmed
            /\ Alert!FiredIsTold /\ Alert!FirstBarsOnly /\ Alert!StoredIsLatest

(* What the evaluation of alerts leaves alone.                             *)
aside == <<price, editing, isOpen>>

LEMMA CountsAreTheSame == \A S : Alert!Cardinality(S) = Cardinality(S)
BY DEF Alert!Cardinality, Cardinality

LEMMA NewChart == \A s \in Stocks : Alert!Fresh(s) \in Charts /\ Alert!Fresh(s).close = NoOne
BY DEF Alert!Fresh, Alert!NotSeen, Charts, Closes

LEMMA AlertsBegin == Alert!Init => AlertInv
<1> SUFFICES ASSUME Alert!Init PROVE AlertInv
  OBVIOUS
<1>1. Alert!Off \in [Ids -> Kind] /\ Alert!Zero \in [Ids -> Nat]
  BY DEF Alert!Off, Alert!Zero, Kind
<1>2. AlertTypes
  BY <1>1 DEF Alert!Init, Alert!Windows, AlertTypes, Windows
<1>3. view \in [Views -> Charts] /\ \A v \in Views : view[v].close = NoOne
  BY NewChart DEF Alert!Init
<1>4. ChartTypes
  BY <1>3, Zenon DEF Alert!Init, ChartTypes
<1>5. \A w \in Windows, a \in Ids : alerts[w][a] = NoOne /\ armed[w][a] = 0
  BY DEF Alert!Init, Alert!Windows, Windows, Alert!Off, Alert!Zero
<1>6. ActiveIsArmed
  BY <1>5 DEF ActiveIsArmed
<1>7. Alert!FiredIsTold
  BY <1>5 DEF Alert!FiredIsTold, Alert!Windows, Windows
<1>8. Alert!FirstBarsOnly
  BY <1>3 DEF Alert!FirstBarsOnly
<1>9. Alert!StoredIsLatest
  BY DEF Alert!Init, Alert!StoredIsLatest, Alert!Windows
<1> QED
  BY <1>2, <1>4, <1>6, <1>7, <1>8, <1>9 DEF AlertInv

(* The charts that cross an alert are finitely many, and it is active.     *)
LEMMA TriggeredAreActive ==
    ASSUME AlertTypes, NEW w \in Windows, NEW vs \in SUBSET Views, NEW close, NEW a \in Ids,
           Alert!Triggered(w, vs, close)[a] # {}
    PROVE  /\ alerts[w][a] # NoOne /\ alerts[w][a].status = "active"
           /\ Cardinality(Alert!Triggered(w, vs, close)[a]) \in Nat \ {0}
<1> DEFINE by == Alert!Triggered(w, vs, close)[a]
<1>1. /\ by \subseteq Views
      /\ by # {} => alerts[w][a] # NoOne /\ alerts[w][a].status = "active"
  BY DEF Alert!Triggered
<1>2. IsFiniteSet(by)
  BY <1>1, AlertsAssumption, FS_Subset
<1>3. Cardinality(by) \in Nat /\ (by # {} => Cardinality(by) # 0)
  BY <1>2, FS_CardinalityType, FS_EmptySet
<1> QED
  BY <1>1, <1>3

(* Firing, alert by alert: by[a] are the charts that fire a.               *)
FireEffect(by) ==
    /\ alerts' \in [Windows -> [Ids -> Kind]]
    /\ notes' \in [Windows -> [Ids -> Nat]]
    /\ armed' \in [Windows -> [Ids -> Nat]]
    /\ \A u \in Windows, a \in Ids :
         \/ /\ alerts'[u][a] = alerts[u][a] /\ armed'[u][a] = armed[u][a]
            /\ notes'[u][a] >= notes[u][a]
         \/ /\ alerts[u][a] # NoOne /\ alerts[u][a].status = "active"
            /\ alerts'[u][a] # NoOne /\ alerts'[u][a].status = "fired"
            /\ armed'[u][a] = armed[u][a] + 1 /\ notes'[u][a] > notes[u][a]
    /\ (\A a \in Ids : by[a] = {}) => alerts' = alerts

LEMMA FireFacts ==
    ASSUME AlertTypes, NEW w \in Windows, NEW vs \in SUBSET Views, NEW close,
           Alert!Fire(w, Alert!Triggered(w, vs, close))
    PROVE  FireEffect(Alert!Triggered(w, vs, close))
<1> DEFINE by == Alert!Triggered(w, vs, close)
           fired == [a \in Ids |-> IF by[a] = {} THEN alerts[w][a]
                                   ELSE [alerts[w][a] EXCEPT !.status = "fired"]]
           noted == [a \in Ids |-> notes[w][a] + Cardinality(by[a])]
           again == [a \in Ids |-> IF by[a] = {} THEN armed[w][a] ELSE armed[w][a] + 1]
<1>1. /\ alerts' = [alerts EXCEPT ![w] = fired]
      /\ armed' = [armed EXCEPT ![w] = again]
      /\ notes' = [notes EXCEPT ![w] = noted]
  BY CountsAreTheSame DEF Alert!Fire
<1>2. /\ alerts[w] \in [Ids -> Kind] /\ notes[w] \in [Ids -> Nat] /\ armed[w] \in [Ids -> Nat]
  BY DEF AlertTypes
<1>3. \A a \in Ids : by[a] # {} => /\ alerts[w][a] # NoOne /\ alerts[w][a].status = "active"
                                   /\ Cardinality(by[a]) \in Nat \ {0}
  BY TriggeredAreActive
<1>4. \A a \in Ids : by[a] = {} => Cardinality(by[a]) = 0
  BY FS_EmptySet
<1> HIDE DEF by
<1>5. ASSUME NEW a \in Ids
      PROVE  /\ fired[a] \in Kind
             /\ by[a] = {} => fired[a] = alerts[w][a]
             /\ by[a] # {} => fired[a] # NoOne /\ fired[a].status = "fired"
  <2>1. CASE by[a] = {}
    BY <1>2, <2>1
  <2>2. CASE by[a] # {}
    <3>1. alerts[w][a] \in [symbol : Stocks, above : BOOLEAN, status : {"active", "fired"}]
      BY <1>2, <1>3, <2>2 DEF Kind
    <3>2. /\ [alerts[w][a] EXCEPT !.status = "fired"]
               \in [symbol : Stocks, above : BOOLEAN, status : {"active", "fired"}]
          /\ [alerts[w][a] EXCEPT !.status = "fired"].status = "fired"
      BY <3>1
    <3>3. fired[a] = [alerts[w][a] EXCEPT !.status = "fired"]
      BY <2>2
    <3> QED
      BY <2>2, <3>2, <3>3, AlertsAssumption DEF Kind
  <2> QED
    BY <2>1, <2>2
<1>6. fired \in [Ids -> Kind]
  BY <1>5
<1>7. /\ noted \in [Ids -> Nat] /\ again \in [Ids -> Nat]
      /\ \A a \in Ids : /\ by[a] = {} => noted[a] = notes[w][a] /\ again[a] = armed[w][a]
                        /\ by[a] # {} => noted[a] > notes[w][a] /\ again[a] = armed[w][a] + 1
  BY <1>2, <1>3, <1>4
<1>8. (\A a \in Ids : by[a] = {}) => fired = alerts[w]
  BY <1>2, <1>5, <1>6
<1> HIDE DEF fired, noted, again
<1>9. alerts' \in [Windows -> [Ids -> Kind]] /\ alerts'[w] = fired
      /\ \A u \in Windows \ {w} : alerts'[u] = alerts[u]
  BY <1>1, <1>6 DEF AlertTypes
<1>10. notes' \in [Windows -> [Ids -> Nat]] /\ notes'[w] = noted
       /\ \A u \in Windows \ {w} : notes'[u] = notes[u]
  BY <1>1, <1>7 DEF AlertTypes
<1>11. armed' \in [Windows -> [Ids -> Nat]] /\ armed'[w] = again
       /\ \A u \in Windows \ {w} : armed'[u] = armed[u]
  BY <1>1, <1>7 DEF AlertTypes
<1>12. ASSUME NEW u \in Windows, NEW a \in Ids, u # w \/ by[a] = {}
       PROVE  /\ alerts'[u][a] = alerts[u][a] /\ armed'[u][a] = armed[u][a]
              /\ notes'[u][a] >= notes[u][a]
  <2>1. notes[u][a] \in Nat
    BY DEF AlertTypes
  <2> QED
    BY <1>5, <1>7, <1>9, <1>10, <1>11, <1>12, <2>1
<1>13. ASSUME NEW a \in Ids, by[a] # {}
       PROVE  /\ alerts[w][a] # NoOne /\ alerts[w][a].status = "active"
              /\ alerts'[w][a] # NoOne /\ alerts'[w][a].status = "fired"
              /\ armed'[w][a] = armed[w][a] + 1 /\ notes'[w][a] > notes[w][a]
  BY <1>3, <1>5, <1>7, <1>9, <1>10, <1>11, <1>13
<1>14. (\A a \in Ids : by[a] = {}) => alerts' = alerts
  BY <1>1, <1>8 DEF AlertTypes
<1>15. \A u \in Windows, a \in Ids :
         \/ /\ alerts'[u][a] = alerts[u][a] /\ armed'[u][a] = armed[u][a]
            /\ notes'[u][a] >= notes[u][a]
         \/ /\ alerts[u][a] # NoOne /\ alerts[u][a].status = "active"
            /\ alerts'[u][a] # NoOne /\ alerts'[u][a].status = "fired"
            /\ armed'[u][a] = armed[u][a] + 1 /\ notes'[u][a] > notes[u][a]
  <2> SUFFICES ASSUME NEW u \in Windows, NEW a \in Ids
               PROVE  \/ /\ alerts'[u][a] = alerts[u][a] /\ armed'[u][a] = armed[u][a]
                         /\ notes'[u][a] >= notes[u][a]
                      \/ /\ alerts[u][a] # NoOne /\ alerts[u][a].status = "active"
                         /\ alerts'[u][a] # NoOne /\ alerts'[u][a].status = "fired"
                         /\ armed'[u][a] = armed[u][a] + 1 /\ notes'[u][a] > notes[u][a]
    OBVIOUS
  <2>1. CASE u # w \/ by[a] = {}
    BY <1>12, <2>1
  <2>2. CASE u = w /\ by[a] # {}
    BY <1>13, <2>2
  <2> QED
    BY <2>1, <2>2
<1> USE DEF by
<1> QED
  BY <1>9, <1>10, <1>11, <1>14, <1>15 DEF FireEffect

LEMMA EvaluateKeepsAlerts ==
    ASSUME AlertInv, NEW w \in Windows, NEW vs \in SUBSET Views, NEW close \in {0, 1},
           Alert!Evaluate(w, vs, close), UNCHANGED <<aside, oldFired>>
    PROVE  AlertInv'
<1>1. /\ Alert!Fire(w, Alert!Triggered(w, vs, close))
      /\ view' = [v \in Views |-> IF v \in vs THEN Alert!Observed(v, close) ELSE view[v]]
      /\ \/ kept' = alerts'[w] /\ writer' = w
         \/ (\A a \in Ids : Alert!Triggered(w, vs, close)[a] = {}) /\ UNCHANGED <<kept, writer>>
  BY DEF Alert!Evaluate, Alert!Saved
<1>2. /\ AlertTypes /\ ChartTypes /\ ActiveIsArmed
      /\ Alert!FiredIsTold /\ Alert!FirstBarsOnly /\ Alert!StoredIsLatest
  BY DEF AlertInv
<1>3. FireEffect(Alert!Triggered(w, vs, close))
  BY <1>1, <1>2, FireFacts
<1>4. AlertTypes'
  BY <1>1, <1>2, <1>3 DEF AlertTypes, FireEffect
<1>5. ASSUME NEW v \in Views
      PROVE  /\ Alert!Observed(v, close) \in Charts
             /\ Alert!Observed(v, close).close # NoOne =>
                  Alert!Observed(v, close).seen =
                    [of |-> Alert!Observed(v, close).symbol, close |-> Alert!Observed(v, close).close]
  <2>1. view[v] \in Charts
    BY <1>2 DEF ChartTypes
  <2> QED
    BY <2>1 DEF Alert!Observed, Charts, Closes
<1>6. view' \in [Views -> Charts] /\ Alert!FirstBarsOnly'
  <2>1. view' \in [Views -> Charts]
    BY <1>1, <1>2, <1>5 DEF ChartTypes
  <2>2. \A v \in Views : view'[v] = Alert!Observed(v, close) \/ view'[v] = view[v]
    BY <1>1
  <2> QED
    BY <1>2, <1>5, <2>1, <2>2 DEF Alert!FirstBarsOnly
<1>7. ChartTypes'
  BY <1>2, <1>6 DEF ChartTypes, aside
<1>8. ActiveIsArmed'
  BY <1>2, <1>3 DEF ActiveIsArmed, AlertTypes, FireEffect
<1>9. Alert!FiredIsTold'
  <2> SUFFICES ASSUME NEW u \in Windows, NEW a \in Ids,
                      alerts'[u][a] # NoOne, alerts'[u][a].status = "fired", a \notin oldFired[u]
               PROVE  notes'[u][a] > 0
    BY DEF Alert!FiredIsTold, Alert!Windows, Windows
  <2>1. notes[u][a] \in Nat /\ notes'[u][a] \in Nat
    BY <1>2, <1>3 DEF AlertTypes, FireEffect
  <2>2. alerts[u][a] # NoOne /\ alerts[u][a].status = "fired" => notes[u][a] > 0
    BY <1>2 DEF Alert!FiredIsTold, Alert!Windows, Windows
  <2> QED
    BY <1>3, <2>1, <2>2 DEF FireEffect
<1>10. Alert!StoredIsLatest'
  BY <1>1, <1>2, <1>3 DEF Alert!StoredIsLatest, Alert!IsOpen, aside, FireEffect
<1> QED
  BY <1>4, <1>6, <1>7, <1>8, <1>9, <1>10 DEF AlertInv

(* An alert is put into the place of another: it has not fired since, or   *)
(* is none.                                                                *)
NotedBut(w, a) ==
    /\ notes' \in [Windows -> [Ids -> Nat]]
    /\ \A u \in Windows, b \in Ids : notes'[u][b] >= notes[u][b] \/ (u = w /\ b = a)
LEMMA NotesStay ==
    ASSUME AlertTypes, UNCHANGED notes, NEW w, NEW a
    PROVE  NotedBut(w, a)
<1>1. \A u \in Windows, b \in Ids : notes[u][b] \in Nat
  BY DEF AlertTypes
<1> QED
  BY <1>1 DEF NotedBut, AlertTypes

LEMMA PutKeepsAlerts ==
    ASSUME AlertInv, NEW w \in Windows, NEW a \in Ids, NEW alert \in Kind,
           alert = NoOne \/ alert.status = "active",
           Alert!Put(w, a, alert), ChartTypes', UNCHANGED view, UNCHANGED isOpen,
           NotedBut(w, a)
    PROVE  AlertInv'
<1>1. /\ alerts' = [alerts EXCEPT ![w][a] = alert]
      /\ armed' = [armed EXCEPT ![w][a] = 0]
      /\ oldFired' = [oldFired EXCEPT ![w] = @ \ {a}]
      /\ kept' = alerts'[w] /\ writer' = w
  BY DEF Alert!Put, Alert!Saved
<1>2. AlertTypes /\ ActiveIsArmed /\ Alert!FiredIsTold /\ Alert!FirstBarsOnly
  BY DEF AlertInv
<1>3. alerts' \in [Windows -> [Ids -> Kind]]
      /\ \A u \in Windows, b \in Ids :
           alerts'[u][b] = IF u = w /\ b = a THEN alert ELSE alerts[u][b]
  BY <1>1, <1>2 DEF AlertTypes
<1>4. armed' \in [Windows -> [Ids -> Nat]]
      /\ \A u \in Windows, b \in Ids :
           armed'[u][b] = IF u = w /\ b = a THEN 0 ELSE armed[u][b]
  BY <1>1, <1>2 DEF AlertTypes
<1>5. oldFired' \in [Windows -> SUBSET Ids]
      /\ \A u \in Windows, b \in Ids :
           b \in oldFired[u] => b \in oldFired'[u] \/ (u = w /\ b = a)
  BY <1>1, <1>2 DEF AlertTypes
<1>6. AlertTypes'
  BY <1>1, <1>3, <1>4, <1>5 DEF AlertTypes, NotedBut
<1>7. ActiveIsArmed'
  BY <1>2, <1>3, <1>4 DEF ActiveIsArmed
<1>8. Alert!FiredIsTold'
  <2> SUFFICES ASSUME NEW u \in Windows, NEW b \in Ids,
                      alerts'[u][b] # NoOne, alerts'[u][b].status = "fired", b \notin oldFired'[u]
               PROVE  notes'[u][b] > 0
    BY DEF Alert!FiredIsTold, Alert!Windows, Windows
  <2>1. ~(u = w /\ b = a)
    BY <1>3
  <2>2. notes[u][b] > 0
    BY <1>2, <1>3, <1>5, <2>1 DEF Alert!FiredIsTold, Alert!Windows, Windows
  <2>3. notes[u][b] \in Nat /\ notes'[u][b] \in Nat
    BY <1>2 DEF AlertTypes, NotedBut
  <2> QED
    BY <2>1, <2>2, <2>3 DEF NotedBut
<1>9. Alert!FirstBarsOnly' /\ Alert!StoredIsLatest'
  BY <1>1, <1>2 DEF Alert!FirstBarsOnly, Alert!StoredIsLatest
<1> QED
  BY <1>6, <1>7, <1>8, <1>9 DEF AlertInv

(* The acts of the user on alerts.                                         *)
LEMMA UserKeepsAlerts ==
    ASSUME AlertInv, NEW a \in Ids,
           \/ \E v \in Views, above \in BOOLEAN : Alert!Add(v, a, above)
           \/ \E w \in Windows : Alert!Delete(w, a)
           \/ Alert!Dismiss(a)
    PROVE  AlertInv'
<1>1. AlertTypes /\ ChartTypes
  BY DEF AlertInv
<1>2. ASSUME NEW v \in Views, NEW above \in BOOLEAN, Alert!Add(v, a, above)
      PROVE  AlertInv'
  <2> DEFINE alert == [symbol |-> view[v].symbol, above |-> above, status |-> "active"]
  <2>1. alert \in Kind /\ alert.status = "active"
    BY <1>1 DEF ChartTypes, Charts, Kind
  <2>2. Alert!WindowOf(v) \in Windows
    BY DEF Alert!WindowOf, Windows
  <2>3. Alert!Put(Alert!WindowOf(v), a, alert) /\ UNCHANGED <<notes, isOpen, price, view, editing>>
    BY <1>2 DEF Alert!Add
  <2>4. ChartTypes'
    BY <1>1, <2>3 DEF ChartTypes
  <2> HIDE DEF alert
  <2> QED
    BY <1>1, <2>1, <2>2, <2>3, <2>4, NotesStay, PutKeepsAlerts
<1>3. ASSUME NEW w \in Windows, Alert!Delete(w, a)
      PROVE  AlertInv'
  <2>1. Alert!Put(w, a, NoOne) /\ UNCHANGED <<notes, isOpen, price, view, editing>>
    BY <1>3 DEF Alert!Delete
  <2>2. ChartTypes' /\ NoOne \in Kind
    BY <1>1, <2>1 DEF ChartTypes, Kind
  <2> QED
    BY <1>1, <2>1, <2>2, NotesStay, PutKeepsAlerts
<1>4. CASE Alert!Dismiss(a)
  <2>1. /\ notes["main"][a] > 0 /\ notes' = [notes EXCEPT !["main"][a] = @ - 1]
        /\ Alert!Put("main", a, NoOne) /\ UNCHANGED <<isOpen, price, view, editing>>
    BY <1>4 DEF Alert!Dismiss, Alert!Shown, Alert!Remaining
  <2>2. "main" \in Windows /\ notes["main"][a] - 1 \in Nat
    BY <1>1, <2>1 DEF AlertTypes, Windows
  <2>3. /\ notes' \in [Windows -> [Ids -> Nat]]
        /\ \A u \in Windows, b \in Ids : notes'[u][b] = notes[u][b] \/ (u = "main" /\ b = a)
    <3> DEFINE n == notes["main"][a] - 1
    <3>1. notes \in [Windows -> [Ids -> Nat]] /\ n \in Nat /\ notes' = [notes EXCEPT !["main"][a] = n]
      BY <1>1, <2>1, <2>2 DEF AlertTypes
    <3> HIDE DEF n
    <3> QED
      BY <3>1
  <2>4. NotedBut("main", a)
    <3>1. \A u \in Windows, b \in Ids : notes[u][b] \in Nat
      BY <1>1 DEF AlertTypes
    <3> QED
      BY <2>3, <3>1 DEF NotedBut
  <2>5. ChartTypes' /\ NoOne \in Kind
    BY <1>1, <2>1 DEF ChartTypes, Kind
  <2> QED
    BY <2>1, <2>2, <2>3, <2>4, <2>5, PutKeepsAlerts
<1> QED
  BY <1>2, <1>3, <1>4

LEMMA EditKeepsAlerts ==
    ASSUME AlertInv, Alert!Edit
    PROVE  AlertInv'
<1>1. AlertTypes /\ ChartTypes /\ "main" \in Windows
  BY DEF AlertInv, Windows
<1>2. /\ editing \in Ids /\ editing' = NoOne
      /\ UNCHANGED <<notes, isOpen, price, view>>
  BY <1>1 DEF Alert!Edit, ChartTypes
<1>3. ChartTypes'
  BY <1>1, <1>2 DEF ChartTypes
<1>4. CASE alerts["main"][editing] = NoOne
  <2>1. UNCHANGED <<alerts, kept, armed, oldFired, writer>>
    BY <1>4 DEF Alert!Edit
  <2>2. AlertTypes' /\ ActiveIsArmed'
    BY <1>2, <2>1 DEF AlertInv, AlertTypes, ActiveIsArmed
  <2>3. Alert!FiredIsTold' /\ Alert!FirstBarsOnly' /\ Alert!StoredIsLatest'
    BY <1>2, <2>1 DEF AlertInv, Alert!FiredIsTold, Alert!FirstBarsOnly, Alert!StoredIsLatest,
       Alert!IsOpen
  <2> QED
    BY <1>3, <2>2, <2>3 DEF AlertInv
<1>5. CASE alerts["main"][editing] # NoOne
  <2> DEFINE alert == [alerts["main"][editing] EXCEPT !.status = "active"]
  <2>1. Alert!Put("main", editing, alert)
    BY <1>5 DEF Alert!Edit
  <2>2. alerts["main"][editing] \in [symbol : Stocks, above : BOOLEAN, status : {"active", "fired"}]
    BY <1>1, <1>2, <1>5 DEF AlertTypes, Kind
  <2>3. alert \in Kind /\ alert.status = "active"
    BY <2>2 DEF Kind
  <2>5. NotedBut("main", editing)
    BY <1>1, <1>2, NotesStay
  <2> HIDE DEF alert
  <2> QED
    BY <1>1, <1>2, <1>3, <2>1, <2>3, <2>5, PutKeepsAlerts
<1> QED
  BY <1>4, <1>5

-----------------------------------------------------------------------------
(* A window that is opened or loaded again has what was saved.             *)
LEMMA MountedKeepsAlerts ==
    ASSUME AlertInv, NEW w \in Windows, Alert!Mounted(w),
           price' = price, editing' \in {editing, NoOne}, isOpen' \in BOOLEAN
    PROVE  AlertInv'
<1> DEFINE fired == {a \in Ids : kept[a] # NoOne /\ kept[a].status = "fired"}
<1>1. /\ alerts' = [alerts EXCEPT ![w] = kept]
      /\ notes' = [notes EXCEPT ![w] = Alert!Zero]
      /\ armed' = [armed EXCEPT ![w] = Alert!Zero]
      /\ oldFired' = [oldFired EXCEPT ![w] = fired]
      /\ view' = [v \in Views |-> IF Alert!WindowOf(v) = w THEN Alert!Fresh(view[v].symbol) ELSE view[v]]
      /\ kept' = alerts'[w] /\ writer' = w
  BY DEF Alert!Mounted, Alert!Saved
<1>2. AlertTypes /\ ChartTypes /\ ActiveIsArmed /\ Alert!FiredIsTold /\ Alert!FirstBarsOnly
  BY DEF AlertInv
<1>3. Alert!Zero \in [Ids -> Nat] /\ \A a \in Ids : Alert!Zero[a] = 0
  BY DEF Alert!Zero
<1>4. AlertTypes' /\ kept' = kept
  <2>1. alerts' \in [Windows -> [Ids -> Kind]] /\ alerts'[w] = kept
    BY <1>1, <1>2 DEF AlertTypes
  <2>2. notes' \in [Windows -> [Ids -> Nat]] /\ armed' \in [Windows -> [Ids -> Nat]]
    BY <1>1, <1>2, <1>3 DEF AlertTypes
  <2>3. oldFired' \in [Windows -> SUBSET Ids]
    BY <1>1, <1>2 DEF AlertTypes
  <2> QED
    BY <1>1, <1>2, <2>1, <2>2, <2>3 DEF AlertTypes
<1>5. \A v \in Views : Alert!Fresh(view[v].symbol) \in Charts
                       /\ Alert!Fresh(view[v].symbol).close = NoOne
  BY <1>2, NewChart DEF ChartTypes, Charts
<1>6. view' \in [Views -> Charts] /\ Alert!FirstBarsOnly'
  BY <1>1, <1>2, <1>5 DEF ChartTypes, Alert!FirstBarsOnly
<1>7. ChartTypes'
  BY <1>2, <1>6 DEF ChartTypes
<1>8. \A u \in Windows : /\ u # w => UNCHANGED <<alerts[u], armed[u], notes[u], oldFired[u]>>
                         /\ u = w => armed'[u] = Alert!Zero /\ alerts'[u] = kept /\ oldFired'[u] = fired
  BY <1>1, <1>2 DEF AlertTypes
<1>9. ActiveIsArmed'
  BY <1>2, <1>3, <1>8 DEF ActiveIsArmed
<1>10. Alert!FiredIsTold'
  BY <1>2, <1>8 DEF Alert!FiredIsTold, Alert!Windows, Windows
<1>11. Alert!StoredIsLatest'
  BY <1>1 DEF Alert!StoredIsLatest
<1> QED
  BY <1>4, <1>6, <1>7, <1>9, <1>10, <1>11 DEF AlertInv

LEMMA CloseKeepsAlerts ==
    ASSUME AlertInv, Alert!CloseWindow
    PROVE  AlertInv'
<1>1. /\ isOpen' = FALSE
      /\ alerts' = [alerts EXCEPT !["torn"] = Alert!Off] /\ notes' = [notes EXCEPT !["torn"] = Alert!Zero]
      /\ oldFired' = [oldFired EXCEPT !["torn"] = {}]
      /\ armed' = [armed EXCEPT !["torn"] = Alert!Zero]
      /\ UNCHANGED <<kept, price, view, editing, writer>>
  BY DEF Alert!CloseWindow
<1>2. /\ AlertTypes /\ ChartTypes /\ ActiveIsArmed
      /\ Alert!FiredIsTold /\ Alert!FirstBarsOnly /\ Alert!StoredIsLatest
  BY DEF AlertInv
<1>3. /\ Alert!Zero \in [Ids -> Nat] /\ Alert!Off \in [Ids -> Kind]
      /\ \A a \in Ids : Alert!Zero[a] = 0 /\ Alert!Off[a] = NoOne
  BY DEF Alert!Zero, Alert!Off, Kind
<1>4. /\ alerts'["main"] = alerts["main"] /\ armed'["main"] = armed["main"]
      /\ notes'["main"] = notes["main"] /\ oldFired'["main"] = oldFired["main"]
      /\ alerts'["torn"] = Alert!Off /\ armed'["torn"] = Alert!Zero
  BY <1>1, <1>2 DEF AlertTypes, Windows
<1>5. AlertTypes'
  <2>1. alerts' \in [Windows -> [Ids -> Kind]]
    BY <1>1, <1>2, <1>3 DEF AlertTypes
  <2>2. notes' \in [Windows -> [Ids -> Nat]] /\ armed' \in [Windows -> [Ids -> Nat]]
    BY <1>1, <1>2, <1>3 DEF AlertTypes
  <2>3. oldFired' \in [Windows -> SUBSET Ids]
    BY <1>1, <1>2 DEF AlertTypes
  <2> QED
    BY <1>1, <1>2, <2>1, <2>2, <2>3 DEF AlertTypes
<1>6. ChartTypes' /\ Alert!FirstBarsOnly'
  BY <1>1, <1>2 DEF ChartTypes, Alert!FirstBarsOnly
<1>7. ActiveIsArmed'
  BY <1>2, <1>3, <1>4 DEF ActiveIsArmed, Windows
<1>8. Alert!FiredIsTold'
  BY <1>2, <1>3, <1>4 DEF Alert!FiredIsTold, Alert!Windows
<1>9. Alert!StoredIsLatest'
  BY <1>1, <1>2, <1>4 DEF Alert!StoredIsLatest, Alert!IsOpen
<1> QED
  BY <1>5, <1>6, <1>7, <1>8, <1>9 DEF AlertInv

(* Steps that touch the alerts of no window.                               *)
LEMMA ChartsKeepAlerts ==
    ASSUME AlertInv, UNCHANGED <<alerts, notes, kept, armed, oldFired, writer, isOpen>>,
           ChartTypes', Alert!FirstBarsOnly'
    PROVE  AlertInv'
<1>1. AlertTypes' /\ ActiveIsArmed'
  BY DEF AlertInv, AlertTypes, ActiveIsArmed
<1>2. Alert!FiredIsTold' /\ Alert!StoredIsLatest'
  BY DEF AlertInv, Alert!FiredIsTold, Alert!StoredIsLatest, Alert!IsOpen
<1> QED
  BY <1>1, <1>2 DEF AlertInv

LEMMA SwitchKeepsAlerts ==
    ASSUME AlertInv, NEW v \in Views, NEW s \in Stocks, Alert!Switch(v, s)
    PROVE  AlertInv'
<1> DEFINE new == [symbol |-> s, close |-> NoOne,
                   seen |-> IF view[v].close = NoOne THEN Alert!NotSeen
                            ELSE [of |-> view[v].symbol, close |-> view[v].close]]
<1>1. view' = [view EXCEPT ![v] = new]
      /\ UNCHANGED <<alerts, notes, kept, armed, oldFired, writer, isOpen, price, editing>>
  BY DEF Alert!Switch
<1>2. ChartTypes /\ Alert!FirstBarsOnly
  BY DEF AlertInv
<1>3. new \in Charts /\ new.close = NoOne
  BY <1>2 DEF ChartTypes, Charts, Closes, Alert!NotSeen
<1> HIDE DEF new
<1>4. view' \in [Views -> Charts] /\ \A u \in Views : view'[u] = new \/ view'[u] = view[u]
  BY <1>1, <1>2, <1>3 DEF ChartTypes
<1>5. ChartTypes' /\ Alert!FirstBarsOnly'
  BY <1>1, <1>2, <1>3, <1>4 DEF ChartTypes, Alert!FirstBarsOnly
<1> QED
  BY <1>1, <1>5, ChartsKeepAlerts

LEMMA NextKeepsAlerts == AlertInv /\ [Alert!Next]_alertVars => AlertInv'
<1> SUFFICES ASSUME AlertInv, [Alert!Next]_alertVars PROVE AlertInv'
  OBVIOUS
<1>1. ChartTypes /\ Alert!FirstBarsOnly /\ "main" \in Windows /\ "torn" \in Windows
  BY DEF AlertInv, Windows
<1>2. CASE UNCHANGED alertVars
  <2>1. UNCHANGED <<alerts, notes, kept, armed, oldFired, writer, isOpen, price, editing, view>>
    BY <1>2 DEF alertVars
  <2> QED
    BY <1>1, <2>1, ChartsKeepAlerts DEF ChartTypes, Alert!FirstBarsOnly
<1>3. ASSUME NEW s \in Stocks, Alert!Moves(s) PROVE AlertInv'
  <2>1. /\ price' = [price EXCEPT ![s] = 1 - @]
        /\ UNCHANGED <<alerts, notes, kept, armed, oldFired, writer, isOpen, editing, view>>
    BY <1>3 DEF Alert!Moves
  <2>2. price' \in [Stocks -> {0, 1}]
    BY <1>1, <2>1 DEF ChartTypes
  <2> QED
    BY <1>1, <2>1, <2>2, ChartsKeepAlerts DEF ChartTypes, Alert!FirstBarsOnly
<1>4. ASSUME NEW w \in Windows, NEW vs \in SUBSET Views, Alert!NewBars(w, vs) PROVE AlertInv'
  <2>1. PICK s \in Stocks : Alert!Evaluate(w, vs, price[s])
    BY <1>4 DEF Alert!NewBars
  <2>2. price[s] \in {0, 1} /\ UNCHANGED <<aside, oldFired>>
    BY <1>1, <1>4 DEF ChartTypes, Alert!NewBars, aside
  <2> QED
    BY <2>1, <2>2, EvaluateKeepsAlerts
<1>5. ASSUME NEW v \in Views, Alert!PanBack(v) PROVE AlertInv'
  <2>1. /\ Alert!Evaluate(Alert!WindowOf(v), {v}, 1 - view[v].close) /\ view[v].close # NoOne
        /\ UNCHANGED <<aside, oldFired>>
    BY <1>5 DEF Alert!PanBack, aside
  <2>2. 1 - view[v].close \in {0, 1}
    BY <1>1, <2>1 DEF ChartTypes, Charts, Closes
  <2>3. Alert!WindowOf(v) \in Windows /\ {v} \in SUBSET Views
    BY DEF Alert!WindowOf, Windows
  <2> QED
    BY <2>1, <2>2, <2>3, EvaluateKeepsAlerts
<1>6. ASSUME NEW a \in Ids, Alert!OpenDialog(a) PROVE AlertInv'
  <2>1. /\ editing' = a
        /\ UNCHANGED <<alerts, notes, kept, armed, oldFired, writer, isOpen, price, view>>
    BY <1>6 DEF Alert!OpenDialog
  <2> QED
    BY <1>1, <2>1, ChartsKeepAlerts DEF ChartTypes, Alert!FirstBarsOnly
<1>7. CASE Alert!Reload
  BY <1>1, <1>7, MountedKeepsAlerts DEF Alert!Reload, ChartTypes
<1>8. CASE Alert!OpenWindow
  BY <1>1, <1>8, MountedKeepsAlerts DEF Alert!OpenWindow
<1> QED
  BY <1>2, <1>3, <1>4, <1>5, <1>6, <1>7, <1>8, SwitchKeepsAlerts, UserKeepsAlerts,
     EditKeepsAlerts, CloseKeepsAlerts DEF Alert!Next, Alert!Windows, Windows

-----------------------------------------------------------------------------
(* The page that runs simulations.                                         *)
RunSettings == [count : Counts, pool : Page!Pools]
Places == UNION {[1 .. n -> Nat] : n \in Nat}

PageTypes ==
    /\ runs \in Seq(RunSettings) /\ Len(runs) <= MaxRuns
    /\ pending \subseteq 1 .. Len(runs)
    /\ progress \in Seq(Places) /\ Len(progress) = Len(runs)
    /\ \A r \in 1 .. Len(runs) :
         /\ progress[r] \in [1 .. runs[r].count -> Nat]
         /\ \A i \in 1 .. runs[r].count : progress[r][i] <= Page!Length(runs[r], i)
    /\ speed \in Speeds
FlagTypes ==
    /\ current \in 1 .. Len(runs) \union {Nothing} /\ labels \in 1 .. Len(runs) \union {Nothing}
    /\ isRunning \in BOOLEAN /\ isLoading \in BOOLEAN /\ due \in BOOLEAN /\ crossed \in BOOLEAN
    /\ playing # Nothing => playing.of \in 1 .. Len(runs) \union {Nothing}
    /\ shown # Nothing => shown.run \in 1 .. Len(runs)

(* The engines that are there are labelled as theirs, and the effect of a  *)
(* click is run before its frames: a page has one or the other to come.    *)
LabelsAreTrue == current # Nothing => labels = current
OneToCome == ~(due /\ playing # Nothing)

PageInv == /\ PageTypes /\ FlagTypes /\ LabelsAreTrue /\ OneToCome
           /\ Page!ShownIsCurrent /\ Page!RunningIsPlayed /\ Page!LoadingEnds /\ Page!ShownIsTrue

flagVars == <<current, shown, labels, isRunning, isLoading, due, playing, crossed>>

LEMMA SegmentIsNumbers ==
    ASSUME NEW run \in RunSettings, NEW i \in 1 .. run.count
    PROVE  /\ Page!Segment(run, i).from \in Int /\ Page!Segment(run, i).to \in Int
           /\ Page!Length(run, i) \in Nat \ {0}
<1> DEFINE twins == Page!Twins(run, i)
           before == {k \in twins : k < i}
           all == Page!Served(Page!Symbol(run, i))
           n == Cardinality(twins)
           j == Cardinality(before)
           len == all \div n
<1>1. run.count \in Nat /\ i \in Nat
  <2>1. run.count \in Counts
    BY DEF RunSettings
  <2>2. run.count \in Nat
    BY <2>1, PageAssumption
  <2> QED
    BY <2>2
<1>2. twins \subseteq 1 .. run.count /\ i \in twins /\ before \subseteq twins
  <2>1. twins = {k \in 1 .. run.count : Page!Symbol(run, k) = Page!Symbol(run, i)}
    BY DEF Page!Twins, Page!Sims
  <2> QED
    BY <2>1
<1>3. IsFiniteSet(twins) /\ IsFiniteSet(before)
  <2>1. IsFiniteSet(1 .. run.count)
    BY <1>1, FS_Interval
  <2> HIDE DEF twins, before
  <2> QED
    BY <1>2, <2>1, FS_Subset
<1>4. n \in Nat \ {0} /\ j \in Nat
  <2>1. twins # {}
    BY <1>2
  <2> HIDE DEF twins, before
  <2> QED
    BY <1>3, <2>1, FS_CardinalityType, FS_EmptySet
<1>5. all \in Nat
  BY PageAssumption DEF Page!Served
<1>6. Page!Segment(run, i) = [from |-> j * len, to |-> IF j = n - 1 THEN all ELSE (j + 1) * len]
  BY DEF Page!Segment, Page!Cardinality, Cardinality
<1> HIDE DEF n, j, all
<1>7. len \in Nat
  BY <1>4, <1>5
<1> HIDE DEF len
<1>8. Page!Segment(run, i).from \in Int /\ Page!Segment(run, i).to \in Int
  BY <1>4, <1>5, <1>6, <1>7
<1> QED
  BY <1>8 DEF Page!Length

LEMMA PageBegins == Page!Init => PageInv
<1> SUFFICES ASSUME Page!Init PROVE PageInv
  OBVIOUS
<1>1. /\ runs = <<>> /\ pending = {} /\ progress = <<>>
      /\ current = Nothing /\ shown = Nothing /\ labels = Nothing
      /\ isRunning = FALSE /\ isLoading = FALSE /\ speed \in Speeds
      /\ due = FALSE /\ playing = Nothing /\ crossed = FALSE
  BY DEF Page!Init
<1>2. PageTypes
  BY <1>1, PageAssumption DEF PageTypes
<1>3. FlagTypes
  BY <1>1, Zenon DEF FlagTypes
<1> QED
  BY <1>1, <1>2, <1>3 DEF PageInv, LabelsAreTrue, OneToCome, Page!ShownIsCurrent,
     Page!RunningIsPlayed, Page!LoadingEnds, Page!ShownIsTrue

(* Frames that are asked for are not none.                                 *)
LEMMA FramesAreSomething ==
    ASSUME PageTypes, NEW run \in 1 .. Len(runs) \union {Nothing}
    PROVE  [of |-> run] # Nothing
<1>1. Len(runs) \in Nat /\ Len(runs) <= MaxRuns /\ MaxRuns \in Nat
  BY PageAssumption DEF PageTypes
<1>2. run \in (1 .. MaxRuns) \union {Nothing}
  BY <1>1
<1> QED
  BY <1>2, PageAssumption

LEMMA OneMore ==
    ASSUME NEW n \in Nat, NEW S, S \subseteq 1 .. n
    PROVE  S \union {n + 1} \subseteq 1 .. (n + 1)
OBVIOUS

(* The page asks for bars. *)
LEMMA RunKeepsPage ==
    ASSUME PageInv, NEW count \in Counts, NEW pool \in Page!Pools, Page!Run(count, pool)
    PROVE  PageInv'
<1> DEFINE run == [count |-> count, pool |-> pool]
           zero == [i \in 1 .. count |-> 0]
<1>1. /\ Len(runs) < MaxRuns /\ runs' = Append(runs, run)
      /\ pending' = pending \union {Len(runs')}
      /\ progress' = Append(progress, zero)
      /\ current' = Nothing /\ shown' = Nothing /\ labels' = labels /\ speed' = speed
      /\ isLoading' = TRUE /\ isRunning' = FALSE /\ playing' = Nothing /\ due' = FALSE
      /\ crossed' = FALSE
  BY DEF Page!Run, Page!Halted, Page!Effect
<1>2. PageTypes /\ FlagTypes
  BY DEF PageInv
<1>3. run \in RunSettings /\ run.count = count /\ count \in Nat
  BY PageAssumption DEF RunSettings
<1>4. zero \in Places /\ zero \in [1 .. count -> Nat] /\ \A i \in 1 .. count : zero[i] = 0
  BY <1>3 DEF Places
<1>5. \A i \in 1 .. count : Page!Length(run, i) \in Nat
  BY <1>3, SegmentIsNumbers
<1> HIDE DEF run, zero
<1>6. runs \in Seq(RunSettings) /\ progress \in Seq(Places) /\ Len(progress) = Len(runs)
      /\ Len(runs) \in Nat /\ MaxRuns \in Nat
  BY <1>2, PageAssumption DEF PageTypes
<1>7. /\ runs' \in Seq(RunSettings) /\ Len(runs') = Len(runs) + 1
      /\ progress' \in Seq(Places) /\ Len(progress') = Len(runs) + 1
      /\ \A r \in 1 .. Len(runs) : runs'[r] = runs[r] /\ progress'[r] = progress[r]
      /\ runs'[Len(runs) + 1] = run /\ progress'[Len(runs) + 1] = zero
  BY <1>1, <1>3, <1>4, <1>6
<1>8. PageTypes'
  <2>1. Len(runs') <= MaxRuns /\ pending' \subseteq 1 .. Len(runs')
    <3>1. pending \subseteq 1 .. Len(runs)
      BY <1>2 DEF PageTypes
    <3>2. pending' = pending \union {Len(runs) + 1}
      BY <1>1, <1>7
    <3>3. Len(runs) < MaxRuns /\ Len(runs') = Len(runs) + 1
      BY <1>1, <1>7
    <3>4. Len(runs') <= MaxRuns
      BY <1>6, <3>3
    <3> QED
      BY <1>6, <3>1, <3>2, <3>3, <3>4, OneMore
  <2>2. ASSUME NEW r \in 1 .. Len(runs')
        PROVE  /\ progress'[r] \in [1 .. runs'[r].count -> Nat]
               /\ \A i \in 1 .. runs'[r].count : progress'[r][i] <= Page!Length(runs'[r], i)
    <3>1. CASE r \in 1 .. Len(runs)
      BY <1>2, <1>7, <3>1 DEF PageTypes
    <3>2. CASE r = Len(runs) + 1
      BY <1>3, <1>4, <1>5, <1>7, <3>2
    <3> QED
      BY <1>6, <1>7, <3>1, <3>2
  <2> QED
    BY <1>1, <1>2, <1>7, <2>1, <2>2 DEF PageTypes
<1>9. FlagTypes'
  <2>1. 1 .. Len(runs) \subseteq 1 .. Len(runs')
    BY <1>6, <1>7
  <2>2. labels \in 1 .. Len(runs) \union {Nothing}
    BY <1>2 DEF FlagTypes
  <2> QED
    BY <1>1, <2>1, <2>2, Zenon DEF FlagTypes
<1> QED
  BY <1>1, <1>8, <1>9 DEF PageInv, LabelsAreTrue, OneToCome, Page!ShownIsCurrent,
     Page!RunningIsPlayed, Page!LoadingEnds, Page!ShownIsTrue

(* An answer, and one that does not come.                                  *)
LEMMA AnswerKeepsPage ==
    ASSUME PageInv, NEW r \in pending, Page!Answered(r) \/ Page!Failed(r)
    PROVE  PageInv'
<1>1. /\ UNCHANGED <<runs, progress, speed, playing>> /\ pending' = pending \ {r}
      /\ isLoading' = FALSE
      /\ \/ /\ current' = r /\ labels' = r
            /\ shown' = [run |-> r, at |-> progress[r]]
            /\ isRunning' = TRUE
            /\ due' = (due \/ ~isRunning)
            /\ crossed' = (crossed \/ playing # Nothing)
         \/ UNCHANGED <<current, shown, labels, isRunning, due, crossed>>
  BY DEF Page!Answered, Page!Failed
<1>2. PageTypes /\ FlagTypes /\ OneToCome /\ Page!RunningIsPlayed /\ r \in 1 .. Len(runs)
  BY DEF PageInv, PageTypes
<1>3. PageTypes' /\ FlagTypes'
  <2>1. PageTypes'
    BY <1>1, <1>2 DEF PageTypes
  <2>2. isRunning' \in BOOLEAN /\ due' \in BOOLEAN /\ crossed' \in BOOLEAN
    BY <1>1, <1>2, Zenon DEF FlagTypes
  <2>3. shown' # Nothing => shown'.run \in 1 .. Len(runs)
    BY <1>1, <1>2 DEF FlagTypes
  <2> QED
    BY <1>1, <1>2, <2>1, <2>2, <2>3 DEF FlagTypes
<1>4. CASE Page!Failed(r)
  <2>1. /\ UNCHANGED <<runs, progress, speed, playing, current, shown, labels, isRunning, due, crossed>>
        /\ isLoading' = FALSE
    BY <1>4 DEF Page!Failed
  <2> QED
    BY <1>3, <2>1 DEF PageInv, LabelsAreTrue, OneToCome, Page!ShownIsCurrent,
       Page!RunningIsPlayed, Page!LoadingEnds, Page!ShownIsTrue
<1>5. CASE Page!Answered(r)
  <2>1. /\ UNCHANGED <<runs, progress, playing>> /\ isLoading' = FALSE
        /\ current' = r /\ labels' = r /\ shown' = [run |-> r, at |-> progress[r]]
        /\ isRunning' = TRUE /\ due' = (due \/ ~isRunning)
        /\ crossed' = (crossed \/ playing # Nothing)
    BY <1>5 DEF Page!Answered
  <2>2. /\ isRunning \in BOOLEAN /\ due \in BOOLEAN
        /\ isRunning <=> (due \/ playing # Nothing)
        /\ ~(due /\ playing # Nothing)
    BY <1>2 DEF FlagTypes, OneToCome, Page!RunningIsPlayed
  <2>3. OneToCome'
    BY <2>1, <2>2, Zenon DEF OneToCome
  <2>4. Page!RunningIsPlayed'
    BY <2>1, <2>2, Zenon DEF Page!RunningIsPlayed
  <2>5. Page!ShownIsCurrent'
    BY <2>1 DEF Page!ShownIsCurrent
  <2> QED
    BY <1>3, <2>1, <2>3, <2>4, <2>5 DEF PageInv, LabelsAreTrue, Page!LoadingEnds, Page!ShownIsTrue
<1> QED
  BY <1>4, <1>5

(* The effect of isRunning captures the engines that are there.            *)
LEMMA EffectKeepsPage ==
    ASSUME PageInv, NEW running \in BOOLEAN, Page!Effect(running), isRunning' = running,
           UNCHANGED <<runs, pending, progress, current, shown, labels, isLoading, crossed>>,
           speed' \in Speeds
    PROVE  PageInv'
<1>1. /\ playing' = IF running THEN [of |-> current] ELSE Nothing
      /\ due' = FALSE
  BY DEF Page!Effect
<1>2. PageTypes /\ FlagTypes
  BY DEF PageInv
<1>3. [of |-> current] # Nothing
  BY <1>2, FramesAreSomething DEF FlagTypes
<1>4. PageTypes' /\ FlagTypes'
  BY <1>1, <1>2 DEF PageTypes, FlagTypes
<1>5. OneToCome' /\ Page!RunningIsPlayed'
  BY <1>1, <1>3 DEF OneToCome, Page!RunningIsPlayed
<1> QED
  BY <1>1, <1>4, <1>5 DEF PageInv, LabelsAreTrue, Page!ShownIsCurrent, Page!LoadingEnds,
     Page!ShownIsTrue

LEMMA PauseKeepsPage == ASSUME PageInv, Page!Pause PROVE PageInv'
<1>1. isRunning \in BOOLEAN /\ speed \in Speeds
  BY DEF PageInv, FlagTypes, PageTypes
<1>2. /\ Page!Effect(~isRunning) /\ isRunning' = ~isRunning /\ speed' \in Speeds
      /\ UNCHANGED <<runs, pending, progress, current, shown, labels, isLoading, crossed>>
  BY <1>1 DEF Page!Pause
<1> QED
  BY <1>1, <1>2, EffectKeepsPage

LEMMA EffectsKeepPage == ASSUME PageInv, Page!Effects PROVE PageInv'
<1>1. isRunning \in BOOLEAN /\ speed \in Speeds
  BY DEF PageInv, FlagTypes, PageTypes
<1>2. /\ Page!Effect(isRunning) /\ isRunning' = isRunning /\ speed' \in Speeds
      /\ UNCHANGED <<runs, pending, progress, current, shown, labels, isLoading, crossed>>
  BY <1>1 DEF Page!Effects
<1> QED
  BY <1>1, <1>2, EffectKeepsPage

LEMMA SetSpeedKeepsPage == ASSUME PageInv, NEW s \in Speeds, Page!SetSpeed(s) PROVE PageInv'
<1>1. isRunning \in BOOLEAN
  BY DEF PageInv, FlagTypes
<1>2. /\ isRunning' = isRunning /\ speed' \in Speeds
      /\ UNCHANGED <<runs, pending, progress, current, shown, labels, isLoading, crossed>>
  BY DEF Page!SetSpeed
<1>3. CASE isRunning
  <2>1. Page!Effect(TRUE) /\ isRunning' = TRUE
    BY <1>1, <1>2, <1>3 DEF Page!SetSpeed
  <2> QED
    BY <1>2, <2>1, EffectKeepsPage
<1>4. CASE ~isRunning
  <2>1. UNCHANGED <<playing, due>>
    BY <1>4 DEF Page!SetSpeed
  <2> QED
    BY <1>2, <2>1 DEF PageInv, PageTypes, FlagTypes, LabelsAreTrue, OneToCome,
       Page!ShownIsCurrent, Page!RunningIsPlayed, Page!LoadingEnds, Page!ShownIsTrue
<1> QED
  BY <1>1, <1>3, <1>4

(* The engines of a run take bars, and none takes more than it has.        *)
LEMMA AdvancedStays ==
    ASSUME PageTypes, NEW r \in 1 .. Len(runs), NEW n \in Nat
    PROVE  /\ Page!Advanced(r, n) \in [1 .. runs[r].count -> Nat]
           /\ \A i \in 1 .. runs[r].count : Page!Advanced(r, n)[i] <= Page!Length(runs[r], i)
<1>1. runs[r] \in RunSettings
  BY DEF PageTypes
<1>2. progress[r] \in [1 .. runs[r].count -> Nat]
  BY DEF PageTypes
<1>3. \A i \in 1 .. runs[r].count : Page!Length(runs[r], i) \in Nat
  BY <1>1, SegmentIsNumbers
<1>4. Page!Advanced(r, n) = [i \in 1 .. runs[r].count |->
          IF progress[r][i] + n > Page!Length(runs[r], i) THEN Page!Length(runs[r], i)
                                                          ELSE progress[r][i] + n]
  BY <1>2 DEF Page!Advanced
<1> DEFINE new == Page!Advanced(r, n)
<1>5. ASSUME NEW i \in 1 .. runs[r].count
      PROVE  new[i] \in Nat /\ new[i] <= Page!Length(runs[r], i)
  <2>1. progress[r][i] \in Nat /\ Page!Length(runs[r], i) \in Nat
    BY <1>2, <1>3
  <2>2. new[i] = IF progress[r][i] + n > Page!Length(runs[r], i) THEN Page!Length(runs[r], i)
                                                                  ELSE progress[r][i] + n
    BY <1>4
  <2> HIDE DEF new
  <2> QED
    BY <2>1, <2>2
<1>6. new = [i \in 1 .. runs[r].count |-> new[i]]
  BY <1>4
<1> HIDE DEF new
<1>7. new \in [1 .. runs[r].count -> Nat]
  BY <1>5, <1>6
<1> QED
  BY <1>5, <1>7 DEF new

LEMMA StepsKeepPage ==
    ASSUME PageInv, NEW r \in 1 .. Len(runs), NEW n \in Nat, Page!Steps(r, n),
           UNCHANGED <<runs, pending, speed>>
    PROVE  /\ PageTypes' /\ Page!ShownIsTrue'
           /\ shown'.run = r
<1>1. PageTypes
  BY DEF PageInv
<1> DEFINE new == Page!Advanced(r, n)
<1>2. /\ progress' = [progress EXCEPT ![r] = new]
      /\ shown' = [run |-> r, at |-> progress'[r]]
  BY DEF Page!Steps
<1>3. /\ new \in [1 .. runs[r].count -> Nat]
      /\ \A i \in 1 .. runs[r].count : new[i] <= Page!Length(runs[r], i)
  BY <1>1, AdvancedStays
<1> HIDE DEF new
<1>4. /\ progress \in Seq(Places) /\ Len(progress) = Len(runs)
      /\ runs[r].count \in Nat
  <2>1. runs[r] \in RunSettings
    BY <1>1 DEF PageTypes
  <2>2. runs[r].count \in Counts
    BY <2>1 DEF RunSettings
  <2>3. runs[r].count \in Nat
    BY <2>2, PageAssumption
  <2> QED
    BY <1>1, <2>3 DEF PageTypes
<1>5. new \in Places
  BY <1>3, <1>4 DEF Places
<1>6. /\ progress' \in Seq(Places) /\ Len(progress') = Len(runs)
      /\ progress'[r] = new
      /\ \A q \in 1 .. Len(runs) : q # r => progress'[q] = progress[q]
  BY <1>2, <1>4, <1>5
<1>7. ASSUME NEW q \in 1 .. Len(runs)
      PROVE  /\ progress'[q] \in [1 .. runs[q].count -> Nat]
             /\ \A i \in 1 .. runs[q].count : progress'[q][i] <= Page!Length(runs[q], i)
  BY <1>1, <1>3, <1>6 DEF PageTypes
<1>8. PageTypes'
  <2>1. runs' = runs /\ pending' = pending /\ speed' = speed
    OBVIOUS
  <2> QED
    BY <1>1, <1>6, <1>7, <2>1 DEF PageTypes
<1> QED
  BY <1>2, <1>8 DEF Page!ShownIsTrue

LEMMA StepButtonKeepsPage == ASSUME PageInv, Page!StepButton PROVE PageInv'
<1>1. PageTypes /\ FlagTypes /\ current # Nothing /\ Page!Steps(current, 1)
      /\ UNCHANGED <<runs, pending, speed>>
      /\ UNCHANGED <<current, labels, isRunning, isLoading, due, playing, crossed>>
  BY DEF PageInv, Page!StepButton
<1>2. current \in 1 .. Len(runs)
  BY <1>1 DEF FlagTypes
<1>3. PageTypes' /\ Page!ShownIsTrue' /\ shown'.run = current
  BY <1>1, <1>2, StepsKeepPage
<1>4. FlagTypes'
  BY <1>1, <1>2, <1>3 DEF FlagTypes
<1>5. labels = current
  BY <1>1 DEF PageInv, LabelsAreTrue
<1> QED
  BY <1>1, <1>3, <1>4, <1>5 DEF PageInv, LabelsAreTrue, OneToCome, Page!ShownIsCurrent,
     Page!RunningIsPlayed, Page!LoadingEnds

LEMMA TickKeepsPage == ASSUME PageInv, Page!Tick PROVE PageInv'
<1>1. /\ PageTypes /\ FlagTypes /\ OneToCome /\ LabelsAreTrue
      /\ Page!ShownIsCurrent /\ Page!RunningIsPlayed /\ Page!LoadingEnds
  BY DEF PageInv
<1>2. /\ playing # Nothing
      /\ UNCHANGED <<runs, pending, speed>> /\ UNCHANGED <<current, labels, isLoading, due, crossed>>
  BY DEF Page!Tick
<1>3. due = FALSE /\ isRunning = TRUE
  BY <1>1, <1>2, Zenon DEF OneToCome, FlagTypes, Page!RunningIsPlayed
<1>4. /\ \/ isRunning' = FALSE /\ playing' = Nothing
         \/ isRunning' = isRunning /\ playing' = playing
      /\ \/ shown' = Nothing /\ progress' = progress
         \/ playing.of # Nothing /\ Page!Steps(playing.of, speed)
  BY DEF Page!Tick, Page!LastFrame
<1>5. OneToCome' /\ Page!RunningIsPlayed' /\ Page!LoadingEnds' /\ LabelsAreTrue'
  BY <1>1, <1>2, <1>3, <1>4 DEF OneToCome, Page!RunningIsPlayed, Page!LoadingEnds, LabelsAreTrue
<1>6. /\ current' \in 1 .. Len(runs') \union {Nothing} /\ labels' \in 1 .. Len(runs') \union {Nothing}
      /\ isRunning' \in BOOLEAN /\ isLoading' \in BOOLEAN /\ due' \in BOOLEAN /\ crossed' \in BOOLEAN
      /\ playing' # Nothing => playing'.of \in 1 .. Len(runs') \union {Nothing}
  BY <1>1, <1>2, <1>3, <1>4 DEF FlagTypes
<1>7. CASE shown' = Nothing /\ progress' = progress
  BY <1>1, <1>2, <1>4, <1>5, <1>6, <1>7 DEF PageInv, PageTypes, FlagTypes, Page!ShownIsCurrent,
     Page!ShownIsTrue
<1>8. CASE playing.of # Nothing /\ Page!Steps(playing.of, speed)
  <2>1. playing.of \in 1 .. Len(runs) /\ speed \in Nat
    BY <1>1, <1>2, <1>8, PageAssumption DEF FlagTypes, PageTypes
  <2>2. PageTypes' /\ Page!ShownIsTrue' /\ shown'.run = playing.of
    BY <1>2, <1>8, <2>1, StepsKeepPage
  <2>3. FlagTypes'
    BY <1>2, <1>6, <2>1, <2>2 DEF FlagTypes
  <2>4. Page!ShownIsCurrent'
    BY <1>1, <1>2, <1>4, <1>8, <2>2 DEF Page!ShownIsCurrent, LabelsAreTrue
  <2> QED
    BY <1>5, <2>2, <2>3, <2>4 DEF PageInv
<1> QED
  BY <1>4, <1>7, <1>8

LEMMA NextKeepsPage == PageInv /\ [Page!Next]_pageVars => PageInv'
<1> SUFFICES ASSUME PageInv, [Page!Next]_pageVars PROVE PageInv'
  OBVIOUS
<1>1. CASE Page!Next
  BY <1>1, RunKeepsPage, AnswerKeepsPage, EffectsKeepPage, StepButtonKeepsPage, PauseKeepsPage,
     TickKeepsPage, SetSpeedKeepsPage DEF Page!Next
<1>2. CASE UNCHANGED pageVars
  BY <1>2 DEF pageVars, PageInv, PageTypes, FlagTypes, LabelsAreTrue, OneToCome,
     Page!ShownIsCurrent, Page!RunningIsPlayed, Page!LoadingEnds, Page!ShownIsTrue
<1> QED
  BY <1>1, <1>2

(* Among finitely many numbers each rank below their number is taken by    *)
(* exactly one.                                                            *)
Rank(S, k) == Cardinality({m \in S : m < k})

LEMMA RankGrows ==
    ASSUME NEW S, S \subseteq Nat, IsFiniteSet(S), NEW k \in S
    PROVE  /\ Rank(S, k) \in 0 .. (Cardinality(S) - 1)
           /\ \A m \in S : m < k => Rank(S, m) < Rank(S, k)
<1> DEFINE below(x) == {m \in S : m < x}
<1>1. \A x : IsFiniteSet(below(x)) /\ Cardinality(below(x)) \in Nat
  <2> SUFFICES ASSUME NEW x PROVE IsFiniteSet(below(x)) /\ Cardinality(below(x)) \in Nat
    OBVIOUS
  <2>1. below(x) \in SUBSET S
    OBVIOUS
  <2> HIDE DEF below
  <2> QED
    BY <2>1, FS_Subset, FS_CardinalityType
<1>2. ASSUME NEW T, NEW U, IsFiniteSet(U), T \subseteq U, NEW x \in U, x \notin T
      PROVE  Cardinality(T) < Cardinality(U)
  <2>1. Cardinality(T) <= Cardinality(U) /\ Cardinality(T) # Cardinality(U)
    BY <1>2, FS_Subset
  <2>2. Cardinality(T) \in Nat /\ Cardinality(U) \in Nat
    BY <1>2, FS_Subset, FS_CardinalityType
  <2> QED
    BY <2>1, <2>2
<1>3. below(k) \subseteq S /\ k \notin below(k)
  OBVIOUS
<1>4. \A m \in S : m < k => below(m) \subseteq below(k) /\ m \in below(k) /\ m \notin below(m)
  <2> SUFFICES ASSUME NEW m \in S, m < k
               PROVE  below(m) \subseteq below(k) /\ m \in below(k) /\ m \notin below(m)
    OBVIOUS
  <2>1. \A x \in S : x \in Nat
    OBVIOUS
  <2>2. k \in Nat /\ m \in Nat /\ m < k
    BY <2>1
  <2>3. \A x \in Nat : x < m => x < k
    BY <2>2
  <2>4. below(m) \subseteq below(k)
    BY <2>1, <2>3
  <2>5. ~(m < m)
    BY <2>2
  <2> QED
    BY <2>4, <2>5
<1>5. Rank(S, k) = Cardinality(below(k)) /\ \A m \in S : Rank(S, m) = Cardinality(below(m))
  BY DEF Rank
<1> HIDE DEF below
<1>6. Cardinality(below(k)) < Cardinality(S)
  BY <1>2, <1>3
<1>7. \A m \in S : m < k => Cardinality(below(m)) < Cardinality(below(k))
  BY <1>1, <1>2, <1>4
<1>8. Cardinality(S) \in Nat /\ Cardinality(below(k)) \in Nat
  BY <1>1, FS_CardinalityType
<1> QED
  BY <1>5, <1>6, <1>7, <1>8

LEMMA RanksApart ==
    ASSUME NEW S, S \subseteq Nat, IsFiniteSet(S), NEW k \in S, NEW m \in S,
           Rank(S, k) = Rank(S, m)
    PROVE  k = m
<1>1. k \in Nat /\ m \in Nat
  OBVIOUS
<1>2. /\ Rank(S, k) \in 0 .. (Cardinality(S) - 1)
      /\ m < k => Rank(S, m) < Rank(S, k)
      /\ k < m => Rank(S, k) < Rank(S, m)
  BY RankGrows
<1>3. Rank(S, k) \in Int
  BY <1>2, FS_CardinalityType
<1> QED
  BY <1>1, <1>2, <1>3

LEMMA RankTaken ==
    ASSUME NEW S, S \subseteq Nat, IsFiniteSet(S), NEW j \in 0 .. (Cardinality(S) - 1)
    PROVE  \E k \in S : Rank(S, k) = j
<1> DEFINE n == Cardinality(S)
           all == 0 .. (n - 1)
           rank == [k \in S |-> Rank(S, k)]
<1>1. n \in Nat
  BY FS_CardinalityType
<1>2. IsFiniteSet(all) /\ Cardinality(all) = n
  BY <1>1, FS_Interval
<1>3. rank \in Injection(S, all)
  <2>1. rank \in [S -> all]
    BY RankGrows
  <2>2. \A a, b \in S : rank[a] = rank[b] => a = b
    BY RanksApart
  <2> HIDE DEF rank, all
  <2> QED
    BY <2>1, <2>2 DEF Injection, IsInjective
<1> HIDE DEF all, n
<1>4. rank \in Surjection(S, all)
  <2> HIDE DEF rank
  <2> QED
    BY <1>2, <1>3, FS_Injection DEF n
<1>5. j \in all
  BY DEF all, n
<1>6. \E k \in S : rank[k] = j
  <2> HIDE DEF rank
  <2> QED
    BY <1>4, <1>5 DEF Surjection
<1> QED
  BY <1>6

(* A range cut into equal parts, the last one with what is left over: each *)
(* of its members is in exactly one.                                       *)
Within(q, n, len, all, bar) ==
    q * len < bar /\ bar <= (IF q = n - 1 THEN all ELSE (q + 1) * len)

LEMMA ProductGrows ==
    ASSUME NEW a \in Nat, NEW b \in Nat, NEW len \in Nat, a <= b
    PROVE  a * len \in Nat /\ b * len \in Nat /\ a * len <= b * len
<1>1. b - a \in Nat /\ b = a + (b - a)
  OBVIOUS
<1>2. \A x, y \in Nat : x * y \in Nat
  OBVIOUS
<1> DEFINE c == b - a
<1>3. b * len = a * len + c * len
  OBVIOUS
<1>4. a * len \in Nat /\ c * len \in Nat /\ b * len \in Nat
  BY <1>1, <1>2
<1> HIDE DEF c
<1>5. \A x, y, z \in Nat : x = y + z => y <= x
  OBVIOUS
<1> QED
  BY <1>3, <1>4, <1>5

LEMMA PartsTile ==
    ASSUME NEW n \in Nat \ {0}, NEW all \in Nat, NEW bar \in 1 .. all
    PROVE  \E j \in 0 .. (n - 1) : \A q \in 0 .. (n - 1) :
               Within(q, n, all \div n, all, bar) <=> q = j
<1> DEFINE len == all \div n
<1>1. len \in Nat /\ n * len <= all
  OBVIOUS
<1>2. ASSUME NEW j \in 0 .. (n - 1), NEW q \in 0 .. (n - 1), j < q,
             Within(j, n, len, all, bar), Within(q, n, len, all, bar)
      PROVE  FALSE
  <2> HIDE DEF len
  <2>1. bar <= (j + 1) * len /\ q * len < bar
    BY <1>2 DEF Within
  <2>2. /\ (j + 1) * len \in Nat /\ q * len \in Nat
        /\ (j + 1) * len <= q * len
    BY <1>1, <1>2, ProductGrows
  <2> QED
    BY <2>1, <2>2
<1>3. \E j \in 0 .. (n - 1) : Within(j, n, len, all, bar)
  <2>1. CASE len = 0
    <3>1. (n - 1) * 0 = 0
      OBVIOUS
    <3>2. Within(n - 1, n, len, all, bar)
      BY <2>1, <3>1 DEF Within
    <3> QED
      BY <3>2
  <2>2. CASE len # 0
    <3> HIDE DEF len
    <3> DEFINE q == (bar - 1) \div len
    <3>1. q \in Nat /\ q * len <= bar - 1 /\ bar - 1 < (q + 1) * len
      BY <1>1, <2>2
    <3> HIDE DEF q
    <3>2. (q + 1) * len \in Nat /\ q * len \in Nat
      BY <1>1, <3>1
    <3>3. CASE q <= n - 1
      <4>1. q * len < bar /\ bar <= (q + 1) * len /\ bar <= all
        BY <3>1, <3>2
      <4>2. Within(q, n, len, all, bar)
        BY <4>1 DEF Within
      <4> QED
        BY <3>1, <3>3, <4>2
    <3>4. CASE q > n - 1
      <4>1. (n - 1) * len <= q * len /\ (n - 1) * len \in Nat
        BY <1>1, <3>1, <3>4, ProductGrows
      <4>2. Within(n - 1, n, len, all, bar)
        BY <3>1, <3>2, <4>1 DEF Within
      <4> QED
        BY <4>2
    <3> QED
      BY <3>1, <3>3, <3>4
  <2> QED
    BY <2>1, <2>2
<1>4. PICK j \in 0 .. (n - 1) : Within(j, n, len, all, bar)
  BY <1>3
<1>5. \A q \in 0 .. (n - 1) : Within(q, n, len, all, bar) => q = j
  <2> HIDE DEF len
  <2> SUFFICES ASSUME NEW q \in 0 .. (n - 1), Within(q, n, len, all, bar), q # j
               PROVE  FALSE
    OBVIOUS
  <2>1. j < q \/ q < j
    OBVIOUS
  <2> QED
    BY <1>2, <1>4, <2>1
<1> QED
  BY <1>4, <1>5

(* The simulations of one symbol replay its bars between them, once.       *)
LEMMA WindowsStandApart ==
    ASSUME NEW run \in RunSettings, NEW i \in 1 .. run.count,
           NEW bar \in 1 .. Page!Served(Page!Symbol(run, i))
    PROVE  Page!Cardinality({k \in Page!Twins(run, i) :
               LET s == Page!Segment(run, k) IN s.from < bar /\ bar <= s.to}) = 1
<1> DEFINE twins == Page!Twins(run, i)
           all == Page!Served(Page!Symbol(run, i))
           n == Cardinality(twins)
           len == all \div n
           taking == {k \in twins :
               LET s == Page!Segment(run, k) IN s.from < bar /\ bar <= s.to}
<1>1. run.count \in Nat /\ i \in Nat
  <2>1. run.count \in Counts
    BY DEF RunSettings
  <2>2. run.count \in Nat
    BY <2>1, PageAssumption
  <2> QED
    BY <2>2
<1>2. twins = {k \in 1 .. run.count : Page!Symbol(run, k) = Page!Symbol(run, i)}
  BY DEF Page!Twins, Page!Sims
<1>3. twins \subseteq 1 .. run.count /\ i \in twins
  BY <1>2
<1>4. ASSUME NEW k \in twins
      PROVE  Page!Twins(run, k) = twins /\ Page!Symbol(run, k) = Page!Symbol(run, i)
  <2>1. Page!Symbol(run, k) = Page!Symbol(run, i)
    BY <1>2
  <2> QED
    BY <2>1 DEF Page!Twins
<1>5. \A S : Page!Cardinality(S) = Cardinality(S)
  BY DEF Page!Cardinality, Cardinality
<1> HIDE DEF twins
<1>6. ASSUME NEW k \in twins
      PROVE  Page!Segment(run, k) =
                 [from |-> Rank(twins, k) * len,
                  to |-> IF Rank(twins, k) = n - 1 THEN all ELSE (Rank(twins, k) + 1) * len]
  BY <1>4, <1>5 DEF Page!Segment, Rank
<1>7. twins \subseteq Nat /\ IsFiniteSet(twins) /\ twins # {}
  <2>1. IsFiniteSet(1 .. run.count)
    BY <1>1, FS_Interval
  <2>2. IsFiniteSet(twins)
    BY <1>3, <2>1, FS_Subset
  <2> QED
    BY <1>3, <2>2
<1>8. n \in Nat \ {0} /\ all \in Nat
  <2>1. n \in Nat \ {0}
    BY <1>7, FS_CardinalityType, FS_EmptySet
  <2> QED
    BY <2>1, PageAssumption DEF Page!Served
<1>9. taking = {k \in twins : Within(Rank(twins, k), n, len, all, bar)}
  BY <1>6 DEF Within
<1> HIDE DEF taking
<1>10. PICK j \in 0 .. (n - 1) : \A q \in 0 .. (n - 1) : Within(q, n, len, all, bar) <=> q = j
  <2>1. bar \in 1 .. all
    OBVIOUS
  <2> HIDE DEF n, all
  <2> QED
    BY <1>8, <2>1, PartsTile
<1>11. PICK k \in twins : Rank(twins, k) = j
  BY <1>7, RankTaken
<1>12. \A m \in twins : Rank(twins, m) \in 0 .. (n - 1)
  BY <1>7, RankGrows
<1> HIDE DEF n, all, len
<1>13. taking = {k}
  <2>1. \A m \in twins : Within(Rank(twins, m), n, len, all, bar) <=> Rank(twins, m) = j
    BY <1>10, <1>12
  <2>2. \A m \in twins : Rank(twins, m) = j => m = k
    BY <1>7, <1>11, RanksApart
  <2> QED
    BY <1>9, <1>11, <2>1, <2>2
<1>14. Cardinality(taking) = 1
  BY <1>13, FS_Singleton
<1> QED
  BY <1>5, <1>14 DEF taking, twins

-----------------------------------------------------------------------------
(* The parts together.  Each begins as its module says, and a step of the  *)
(* whole is one of its own or leaves it alone.                             *)
LEMMA PartsBegin ==
    PartsInit => Init /\ Shell!Init /\ Alert!Init /\ Page!Init /\ Replay!Init /\ Login!Init
BY DEF PartsInit

LEMMA PartsStep ==
    [PartsNext]_partsVars =>
        /\ [Next]_vars /\ [Shell!Next]_windowVars /\ [Alert!Next]_alertVars
        /\ [Page!Next]_pageVars
        /\ [Replay!Next]_replayVars /\ [Login!Next]_loginVars
<1>1. UNCHANGED partsVars =>
        UNCHANGED <<vars, windowVars, alertVars, pageVars, replayVars, loginVars>>
  BY DEF partsVars
<1>2. PartsNext =>
        \/ Next /\ UNCHANGED <<windowVars, alertVars, pageVars, replayVars, loginVars>>
        \/ Shell!Next /\ UNCHANGED <<vars, alertVars, pageVars, replayVars, loginVars>>
        \/ Alert!Next /\ UNCHANGED <<vars, windowVars, pageVars, replayVars, loginVars>>
        \/ Replay!Next /\ UNCHANGED <<vars, windowVars, alertVars, pageVars, loginVars>>
        \/ Page!Next /\ UNCHANGED <<vars, windowVars, alertVars, replayVars, loginVars>>
        \/ Login!Next /\ UNCHANGED <<vars, windowVars, alertVars, replayVars, pageVars>>
        \/ UNCHANGED <<vars, windowVars, alertVars, pageVars, replayVars, loginVars>>
  BY <1>1 DEF PartsNext
<1> QED
  BY <1>1, <1>2

(* What is proved of a part by itself holds of it here.                    *)
LEMMA PartsAreSpecs ==
    PartsSpec => Spec /\ Shell!Spec /\ Alert!Spec /\ Page!Spec /\ Replay!Spec /\ Login!Spec
<1>1. [PartsNext]_partsVars =>
        /\ [Next]_vars /\ [Shell!Next]_(Shell!shellVars) /\ [Alert!Next]_(Alert!alertVars)
        /\ [Page!Next]_(Page!pageVars)
        /\ [Replay!Next]_(Replay!simVars) /\ [Login!Next]_(Login!signVars)
  BY PartsStep DEF Shell!shellVars, windowVars, Alert!alertVars, alertVars, Page!pageVars, pageVars, Replay!simVars, replayVars,
     Login!signVars, loginVars
<1> QED
  BY <1>1, PartsBegin, PTL DEF PartsSpec, Spec, Shell!Spec, Alert!Spec, Page!Spec, Replay!Spec, Login!Spec

(* What is shown, saved and on disk are of their types and follow each     *)
(* other, and each tab is where its owner thinks it is                     *)
(* (layout.tsx, tabs.tsx, main.rs).                                        *)
THEOREM ShellInvHolds == PartsSpec => []ShellInv
<1>1. [PartsNext]_partsVars => [Shell!Next]_(Shell!shellVars)
  BY PartsStep DEF Shell!shellVars, windowVars
<1> QED
  BY <1>1, PartsBegin, ShellInvBegins, NextKeepsShell, PTL DEF PartsSpec

(* A tab that the user has not closed is in the main window, in a window   *)
(* of its own, or in what the next start reads, and never in two of them   *)
(* but while it is torn off; the exceptions are those that Workspace names *)
(* (tabs.tsx, layout.tsx, main.rs).                                        *)
THEOREM TabsHaveOneHomeHolds == PartsSpec => []TabsHaveOneHome
<1>1. ShellInv => TabsHaveOneHome
  BY ShellInvIsEnough DEF TabsHaveOneHome
<1> QED
  BY <1>1, ShellInvHolds, PTL

(* What is shown, the workspace that is saved and the file on disk follow  *)
(* each other, and the tab in front is one that there is                   *)
(* (layout.tsx, tabs.tsx).                                                 *)
THEOREM WorkspaceIsViewHolds == PartsSpec => []WorkspaceIsView
<1>1. ShellInv => WorkspaceIsView
  BY ShellInvIsEnough DEF WorkspaceIsView
<1> QED
  BY <1>1, ShellInvHolds, PTL

(* Alerts, notifications and charts are of their types, an active alert    *)
(* has not fired, and what is stored is the last save (lib/alerts.ts).     *)
THEOREM AlertInvHolds == PartsSpec => []AlertInv
  BY PartsBegin, PartsStep, AlertsBegin, NextKeepsAlerts, PTL DEF PartsSpec

(* However many charts of two windows evaluate the alerts they share, one  *)
(* that fires has a notification, fires once for each time it is armed, is *)
(* compared with the closes of its own symbol but for the first, and is    *)
(* stored as the last window to save knows it (lib/alerts.ts).             *)
THEOREM AlertDisciplineHolds == PartsSpec => []AlertDiscipline
<1>1. AlertInv => AlertDiscipline
  <2>1. ActiveIsArmed => Alert!OncePerArming
    BY DEF ActiveIsArmed, Alert!OncePerArming, Alert!Windows, Windows
  <2> QED
    BY <2>1 DEF AlertInv, AlertDiscipline, Alert!AlertDiscipline
<1> QED
  BY <1>1, AlertInvHolds, PTL

(* The page's runs, places and flags are of their types, its labels are    *)
(* those of the engines that are there, and it has an effect or frames to  *)
(* come, never both (SimulationsPage.tsx).                                 *)
THEOREM PageInvHolds == PartsSpec => []PageInv
  BY PartsBegin, PartsStep, PageBegins, NextKeepsPage, PTL DEF PartsSpec

(* However the runs overlap, and whatever is pressed meanwhile: the page   *)
(* plays, shows and labels one run, says it is running while frames are to *)
(* come, and its simulations of one symbol replay that symbol's bars       *)
(* between them, each once (SimulationsPage.tsx).                          *)
THEOREM PlaysWhatItShowsHolds == PartsSpec => []PlaysWhatItShows
<1>1. PageInv => Page!WindowsApart
  <2> SUFFICES ASSUME PageInv, NEW r \in 1 .. Len(runs), NEW i \in 1 .. runs[r].count,
                      NEW bar \in 1 .. Page!Served(Page!Symbol(runs[r], i))
               PROVE  Page!Cardinality({k \in Page!Twins(runs[r], i) :
                          LET s == Page!Segment(runs[r], k) IN s.from < bar /\ bar <= s.to}) = 1
    BY DEF Page!WindowsApart, Page!RunIds, Page!Sims
  <2>1. runs[r] \in RunSettings
    BY DEF PageInv, PageTypes
  <2> QED
    BY <2>1, WindowsStandApart
<1>2. PageInv => PlaysWhatItShows
  BY <1>1 DEF PageInv, PlaysWhatItShows, Page!PlaysWhatItShows
<1> QED
  BY <1>2, PageInvHolds, PTL

-----------------------------------------------------------------------------
(* The engine of a simulation: what is proved of it by itself is about the *)
(* same formulas.                                                          *)
Engine == INSTANCE SimulationEngineProofs

LEMMA EngineIsGiven == NoBar \notin Engine!Configs \union Engine!Bars \union Engine!Positions
BY NoBarIsNone DEF Configs, Engine!Configs, Bars, Engine!Bars, Positions, Engine!Positions,
   Modes, Engine!Modes

LEMMA EngineTerms ==
    /\ \A S : Replay!Cardinality(S) = Engine!Cardinality(S)
    /\ \A S : Replay!Max(S) = Engine!Max(S) /\ Replay!Min(S) = Engine!Min(S)
    /\ \A s, t : Replay!IsPrefix(s, t) <=> Engine!IsPrefix(s, t)
    /\ \A t, frame : Replay!Bucket(t, frame) = Engine!Bucket(t, frame)
    /\ \A T : Replay!InOrder(T) = Engine!InOrder(T)
    /\ \A s, T : Replay!Picked(s, T) = Engine!Picked(s, T)
    /\ \A last, t, frame : Replay!Begins(last, t, frame) <=> Engine!Begins(last, t, frame)
    /\ \A last, t, p, frame : Replay!Grown(last, t, p, frame) = Engine!Grown(last, t, p, frame)
    /\ \A s : Replay!SumOf(s) = Engine!SumOf(s) /\ Replay!Gains(s) = Engine!Gains(s)
    /\ \A peak, sum : Replay!Peak(peak, sum) = Engine!Peak(peak, sum)
    /\ Replay!NoMetrics = Engine!NoMetrics
<1>1. \A S : Replay!Cardinality(S) = Engine!Cardinality(S)
  BY Zenon DEF Replay!Cardinality, Engine!Cardinality
<1>2. \A S : Replay!Max(S) = Engine!Max(S) /\ Replay!Min(S) = Engine!Min(S)
  BY Zenon DEF Replay!Max, Engine!Max, Replay!Min, Engine!Min
<1>3. \A s, t : Replay!IsPrefix(s, t) <=> Engine!IsPrefix(s, t)
  BY Zenon DEF Replay!IsPrefix, Engine!IsPrefix
<1>4. \A t, frame : Replay!Bucket(t, frame) = Engine!Bucket(t, frame)
  BY Zenon DEF Replay!Bucket, Engine!Bucket
<1>5. \A T : Replay!InOrder(T) = Engine!InOrder(T)
  BY Zenon DEF Replay!InOrder, Engine!InOrder, Replay!Cardinality, Engine!Cardinality
<1>6. \A s, T : Replay!Picked(s, T) = Engine!Picked(s, T)
  BY Zenon DEF Replay!Picked, Engine!Picked, Replay!InOrder, Engine!InOrder,
     Replay!Cardinality, Engine!Cardinality
<1>7. \A last, t, frame : Replay!Begins(last, t, frame) <=> Engine!Begins(last, t, frame)
  BY Zenon DEF Replay!Begins, Engine!Begins, Replay!Bucket, Engine!Bucket
<1>8. \A last, t, p, frame : Replay!Grown(last, t, p, frame) = Engine!Grown(last, t, p, frame)
  BY Zenon DEF Replay!Grown, Engine!Grown, Replay!Begins, Engine!Begins, Replay!Bucket,
     Engine!Bucket, Replay!Began, Engine!Began, Replay!Joined, Engine!Joined
<1>9. \A s : Replay!SumOf(s) = Engine!SumOf(s) /\ Replay!Gains(s) = Engine!Gains(s)
  BY Zenon DEF Replay!SumOf, Engine!SumOf, Replay!Gains, Engine!Gains
<1>10. \A peak, sum : Replay!Peak(peak, sum) = Engine!Peak(peak, sum)
  BY Zenon DEF Replay!Peak, Engine!Peak
<1>11. Replay!NoMetrics = Engine!NoMetrics
  BY Zenon DEF Replay!NoMetrics, Engine!NoMetrics
<1> QED
  BY <1>1, <1>2, <1>3, <1>4, <1>5, <1>6, <1>7, <1>8, <1>9, <1>10, <1>11, Zenon

LEMMA EngineMetrics == \A list : Replay!ComputeMetrics(list) = Engine!ComputeMetrics(list)
BY Zenon DEF Replay!ComputeMetrics, Engine!ComputeMetrics, Replay!Gains, Engine!Gains,
   Replay!Picked, Engine!Picked, Replay!InOrder, Engine!InOrder, Replay!Cardinality,
   Engine!Cardinality, Replay!Peak, Engine!Peak, Replay!SumOf, Engine!SumOf,
   Replay!NoMetrics, Engine!NoMetrics

LEMMA EngineBars ==
    /\ \A raw, frame : Replay!AllTfBars(raw, frame) = Engine!AllTfBars(raw, frame)
    /\ \A raw, frame : Replay!RolledUp(raw, frame) = Engine!RolledUp(raw, frame)
<1>1. \A raw, frame : Replay!AllTfBars(raw, frame) = Engine!AllTfBars(raw, frame)
  BY SMTT(30) DEF Replay!AllTfBars, Engine!AllTfBars, Replay!InOrder, Engine!InOrder,
     Replay!Cardinality, Engine!Cardinality, Replay!Grown, Engine!Grown, Replay!Begins,
     Engine!Begins, Replay!Bucket, Engine!Bucket, Replay!Began, Engine!Began,
     Replay!Joined, Engine!Joined
<1>2. \A raw, frame : Replay!RolledUp(raw, frame) = Engine!RolledUp(raw, frame)
  BY SMTT(30) DEF Replay!RolledUp, Engine!RolledUp, Replay!InOrder, Engine!InOrder,
     Replay!Cardinality, Engine!Cardinality, Replay!Bucket, Engine!Bucket,
     Replay!Max, Engine!Max, Replay!Min, Engine!Min
<1> QED
  BY <1>1, <1>2

LEMMA EngineStep == Replay!Step <=> Engine!Step
<1>1. ASSUME NEW b PROVE Replay!Buy(b) <=> Engine!Buy(b)
  BY DEF Replay!Buy, Engine!Buy, Replay!Bought, Engine!Bought, Replay!Whole, Engine!Whole,
     Replay!Nearest, Engine!Nearest
<1>2. ASSUME NEW b PROVE Replay!Sell(b) <=> Engine!Sell(b)
  BY EngineMetrics DEF Replay!Sell, Engine!Sell, Replay!CashAfter, Engine!CashAfter
<1>3. ASSUME NEW b PROVE Replay!Trade(b) <=> Engine!Trade(b)
  BY <1>1, <1>2 DEF Replay!Trade, Engine!Trade, Replay!Judged, Engine!Judged
<1> QED
  BY <1>3, EngineTerms DEF Replay!Step, Engine!Step

LEMMA EngineNext == Replay!Next <=> Engine!Next
<1>1. ASSUME NEW raw, NEW hours, NEW c
      PROVE  Replay!Construct(raw, hours, c) <=> Engine!Construct(raw, hours, c)
  BY DEF Replay!Construct, Engine!Construct, Replay!Filtered, Engine!Filtered,
     Replay!InSession, Engine!InSession
<1>2. ASSUME NEW frame, NEW how, NEW fractional, NEW reinvest, NEW capital, NEW qty, NEW scripted
      PROVE  Replay!Config(frame, how, fractional, reinvest, capital, qty, scripted)
               = Engine!Config(frame, how, fractional, reinvest, capital, qty, scripted)
  BY DEF Replay!Config, Engine!Config
<1>3. Replay!Series = Engine!Series /\ Replay!Sessions = Engine!Sessions /\ Replay!Modes = Engine!Modes
  BY DEF Replay!Series, Engine!Series, Replay!Sessions, Engine!Sessions, Replay!Modes, Engine!Modes,
     Replay!Minutes, Engine!Minutes
<1> QED
  BY <1>1, <1>2, <1>3, EngineStep DEF Replay!Next, Engine!Next

LEMMA EngineSpec == Replay!Spec => Engine!Spec
<1>1. Replay!Init => Engine!Init
  BY DEF Replay!Init, Engine!Init, Replay!NoMetrics, Engine!NoMetrics
<1>2. [Replay!Next]_(Replay!simVars) => [Engine!Next]_(Engine!simVars)
  BY EngineNext DEF Replay!simVars, Engine!simVars
<1> QED
  BY <1>1, <1>2, PTL DEF Replay!Spec, Engine!Spec

(* What is not in a position is in cash, and gains are reinvested or not   *)
(* as the settings say; trades follow each other (simulation-engine.ts).   *)
THEOREM LedgerAddsUpHolds == PartsSpec => []LedgerAddsUp
<1>1. Engine!Spec => []Engine!LedgerAddsUp
  BY SimulationAssumption, EngineIsGiven, Engine!LedgerAddsUpHolds
<1>2. Engine!LedgerAddsUp => LedgerAddsUp
  BY DEF LedgerAddsUp, Replay!LedgerAddsUp, Engine!LedgerAddsUp, Replay!MoneyAddsUp,
     Engine!MoneyAddsUp, Replay!TradesInOrder, Engine!TradesInOrder
<1> QED
  BY <1>1, <1>2, PartsAreSpecs, EngineSpec, PTL

(* The bars a replay shows are those the strategy has judged, rolled up    *)
(* from the raw bars it has taken, and the metrics are those of all the    *)
(* trades it has made (simulation-engine.ts).                              *)
THEOREM ReplayIsRightHolds == PartsSpec => []ReplayIsRight
<1>1. Engine!Spec => []Engine!ReplayIsRight
  BY SimulationAssumption, EngineIsGiven, Engine!ReplayIsRightHolds
<1>2. Engine!ReplayIsRollUp => Replay!ReplayIsRollUp
  BY EngineTerms, EngineBars DEF Replay!ReplayIsRollUp, Engine!ReplayIsRollUp
<1>3. Engine!MetricsAreRight => Replay!MetricsAreRight
  <2>1. Replay!Gains(trades) = Engine!Gains(trades)
    BY EngineTerms, Zenon
  <2> QED
    BY <2>1, EngineTerms DEF Replay!MetricsAreRight, Engine!MetricsAreRight
<1>4. Engine!ReplayIsRight => ReplayIsRight
  BY <1>2, <1>3 DEF ReplayIsRight, Replay!ReplayIsRight, Engine!ReplayIsRight
<1> QED
  BY <1>1, <1>4, PartsAreSpecs, EngineSpec, PTL

-----------------------------------------------------------------------------
(* The sign-in, likewise.                                                  *)
Auth == INSTANCE SignInProofs

LEMMA AuthTerms ==
    /\ Login!Families = Auth!Families /\ Login!Starts = Auth!Starts /\ Login!Codes = Auth!Codes
    /\ Login!Idle = Auth!Idle /\ Login!Listened = Auth!Listened
    /\ \A f : Login!Waiting(f) = Auth!Waiting(f)
    /\ \A R : Login!CodesOf(R) = Auth!CodesOf(R)
BY DEF Login!Families, Auth!Families, Login!Starts, Auth!Starts, Login!Codes, Auth!Codes,
   Login!Idle, Auth!Idle, Login!Listened, Auth!Listened, Login!Waiting, Auth!Waiting,
   Login!CodesOf, Auth!CodesOf

LEMMA AuthHost ==
    ASSUME NEW a, NEW f
    PROVE  (Login!Loop(a, f) \/ Login!Accept(a, f)) <=> (Auth!Loop(a, f) \/ Auth!Accept(a, f))
<1>1. Login!Loop(a, f) <=> Auth!Loop(a, f)
  BY DEF Login!Loop, Auth!Loop, Login!Ends, Auth!Ends, Login!Waiting, Auth!Waiting,
     Login!CodesOf, Auth!CodesOf, Login!pageVars, Auth!pageVars
<1>2. Login!Accept(a, f) <=> Auth!Accept(a, f)
  BY DEF Login!Accept, Auth!Accept, Login!Ends, Auth!Ends, Login!Waiting, Auth!Waiting,
     Login!CodesOf, Auth!CodesOf, Login!Claims, Auth!Claims, Login!Tell, Auth!Tell
<1> QED
  BY <1>1, <1>2

LEMMA AuthNext == Login!Next <=> Auth!Next
<1>1. ASSUME NEW reached PROVE Login!SignIn(reached) <=> Auth!SignIn(reached)
  BY DEF Login!SignIn, Auth!SignIn, Login!Listen, Auth!Listen, Login!NoPort, Auth!NoPort,
     Login!Families, Auth!Families, Login!Idle, Auth!Idle, Login!pageVars, Auth!pageVars
<1>2. ASSUME NEW c PROVE Login!Redirect(c) <=> Auth!Redirect(c)
  BY DEF Login!Redirect, Auth!Redirect, Login!Listened, Auth!Listened, Login!Families,
     Auth!Families, Login!pageVars, Auth!pageVars
<1>3. ASSUME NEW f, NEW what PROVE Login!Stray(f, what) <=> Auth!Stray(f, what)
  BY DEF Login!Stray, Auth!Stray, Login!Listened, Auth!Listened, Login!Families, Auth!Families,
     Login!pageVars, Auth!pageVars
<1>4. ASSUME NEW e PROVE Login!Event(e) <=> Auth!Event(e)
  BY DEF Login!Event, Auth!Event, Login!Superseded, Auth!Superseded, Login!hostVars, Auth!hostVars
<1>5. Login!Exchanged <=> Auth!Exchanged
  BY DEF Login!Exchanged, Auth!Exchanged, Login!hostVars, Auth!hostVars
<1>6. Login!ExchangeFails <=> Auth!ExchangeFails
  BY DEF Login!ExchangeFails, Auth!ExchangeFails, Login!Released, Auth!Released, Login!hostVars,
     Auth!hostVars
<1>7. (Login!Submit <=> Auth!Submit) /\ (Login!SignOut <=> Auth!SignOut)
  BY DEF Login!Submit, Auth!Submit, Login!SignOut, Auth!SignOut, Login!hostVars, Auth!hostVars
<1>8. ASSUME NEW right PROVE Login!Submitted(right) <=> Auth!Submitted(right)
  BY DEF Login!Submitted, Auth!Submitted, Login!hostVars, Auth!hostVars
<1>9. Login!Restart <=> Auth!Restart
  BY DEF Login!Restart, Auth!Restart, Login!Idle, Auth!Idle, Login!CodesOf, Auth!CodesOf,
     Login!Families, Auth!Families, Login!Starts, Auth!Starts
<1> QED
  BY <1>1, <1>2, <1>3, <1>4, <1>5, <1>6, <1>7, <1>8, <1>9, AuthHost, AuthTerms
     DEF Login!Next, Auth!Next

LEMMA AuthSpec == Login!Spec => Auth!Spec
<1>1. Login!Init => Auth!Init
  BY DEF Login!Init, Auth!Init, Login!Families, Auth!Families, Login!Starts, Auth!Starts,
     Login!Codes, Auth!Codes, Login!Idle, Auth!Idle
<1>2. [Login!Next]_(Login!signVars) => [Auth!Next]_(Auth!signVars)
  BY AuthNext DEF Login!signVars, Auth!signVars
<1> QED
  BY <1>1, <1>2, PTL DEF Login!Spec, Auth!Spec

(* A login fires once, and every code that the browser has brought is on   *)
(* its way, has brought a session, was refused, or was lost in a way that  *)
(* is known (main.rs, auth.tsx).                                           *)
THEOREM SignInCountsHolds == PartsSpec => []SignInCounts
<1>1. Auth!Spec => []Auth!SignInCounts
  BY SignInAssumption, Auth!SignInCountsHolds
<1>2. Auth!SignInCounts => SignInCounts
  BY DEF SignInCounts, Login!SignInCounts, Auth!SignInCounts, Login!FiresOnce, Auth!FiresOnce,
     Login!CodeCounts, Auth!CodeCounts, Login!CodesOf, Auth!CodesOf, Login!Codes, Auth!Codes,
     Login!Starts, Auth!Starts
<1> QED
  BY <1>1, <1>2, PartsAreSpecs, AuthSpec, PTL

-----------------------------------------------------------------------------
(* The types of all parts.                                                 *)
LEMMA AlertInvIsTyped == AlertInv => Alert!TypeOK
<1> SUFFICES ASSUME AlertInv PROVE Alert!TypeOK
  OBVIOUS
<1>1. AlertTypes /\ ChartTypes
  BY DEF AlertInv
<1>2. \A v \in Views : view[v] \in Charts
  BY <1>1 DEF ChartTypes
<1>3. \A v \in Views : view[v].symbol \in Stocks /\ view[v].close \in {NoOne, 0, 1}
  BY <1>2 DEF Charts, Closes
<1>4. \A w \in Windows, a \in Ids :
        alerts[w][a] \in Kind /\ notes[w][a] \in Nat /\ armed[w][a] \in Nat
  BY <1>1 DEF AlertTypes
<1>5. writer \in Windows /\ \A a \in Ids : kept[a] \in Kind
  BY <1>1 DEF AlertTypes
<1>6. editing \in Ids \union {NoOne} /\ isOpen \in BOOLEAN
  BY <1>1 DEF ChartTypes
<1> QED
  BY <1>3, <1>4, <1>5, <1>6 DEF Alert!TypeOK, Alert!Windows, Windows, Kind

LEMMA PageInvIsTyped == PageInv => Page!TypeOK
<1> SUFFICES ASSUME PageInv PROVE Page!TypeOK
  OBVIOUS
<1>1. PageTypes /\ FlagTypes /\ Page!ShownIsTrue
  BY DEF PageInv
<1>2. \A r \in 1 .. Len(runs) : runs[r] \in [count : Counts, pool : Page!Pools]
  <2>1. \A r \in 1 .. Len(runs) : runs[r] \in RunSettings
    BY <1>1 DEF PageTypes
  <2> QED
    BY <2>1 DEF RunSettings
<1>3. DOMAIN progress = 1 .. Len(runs)
  BY <1>1 DEF PageTypes
<1>4. \A r \in 1 .. Len(runs) : \A i \in 1 .. runs[r].count :
        progress[r][i] \in 0 .. Page!Length(runs[r], i)
  <2> SUFFICES ASSUME NEW r \in 1 .. Len(runs), NEW i \in 1 .. runs[r].count
               PROVE  progress[r][i] \in 0 .. Page!Length(runs[r], i)
    OBVIOUS
  <2>1. runs[r] \in RunSettings
    BY <1>1 DEF PageTypes
  <2>2. Page!Length(runs[r], i) \in Nat
    BY <2>1, SegmentIsNumbers
  <2>3. progress[r][i] \in Nat /\ progress[r][i] <= Page!Length(runs[r], i)
    BY <1>1 DEF PageTypes
  <2> QED
    BY <2>2, <2>3
<1>5. shown # Nothing => shown.run \in 1 .. Len(runs) /\ DOMAIN shown.at = 1 .. runs[shown.run].count
  BY <1>1 DEF Page!ShownIsTrue, PageTypes, FlagTypes
<1> QED
  BY <1>1, <1>2, <1>3, <1>4, <1>5 DEF PageTypes, FlagTypes, Page!TypeOK, Page!RunIds, Page!Sims

LEMMA EngineIsTyped == Replay!Spec => []Replay!TypeOK
<1>1. Engine!Spec => []Engine!TypeOK
  BY SimulationAssumption, EngineIsGiven, Engine!TypeCorrect
<1>2. Engine!TypeOK => Replay!TypeOK
  BY DEF Replay!TypeOK, Engine!TypeOK, Replay!Configs, Engine!Configs, Replay!Bars, Engine!Bars,
     Replay!Positions, Engine!Positions, Replay!Trades, Engine!Trades, Replay!Minutes,
     Engine!Minutes, Replay!Modes, Engine!Modes
<1> QED
  BY <1>1, <1>2, EngineSpec, PTL

LEMMA AuthIsTyped == Login!Spec => []Login!TypeOK
<1>1. Auth!Spec => []Auth!TypeOK
  BY SignInAssumption, Auth!TypeCorrect
<1>2. Auth!TypeOK => Login!TypeOK
  BY AuthTerms DEF Login!TypeOK, Auth!TypeOK
<1> QED
  BY <1>1, <1>2, AuthSpec, PTL

(* Every part of the desktop has the types that its module states.         *)
THEOREM PartsTypeOKHolds == PartsSpec => []PartsTypeOK
<1>1. ShellInv => Shell!TypeOK
  BY ShellInvIsEnough
<1>2. TypeOK /\ Shell!TypeOK /\ Alert!TypeOK /\ Replay!TypeOK /\ Page!TypeOK /\ Login!TypeOK
        => PartsTypeOK
  BY DEF PartsTypeOK
<1> QED
  BY <1>1, <1>2, PartsAreSpecs, TypeCorrect, ShellInvHolds, AlertInvHolds, AlertInvIsTyped,
     PageInvHolds, PageInvIsTyped, EngineIsTyped, AuthIsTyped, PTL
===============================================================================
