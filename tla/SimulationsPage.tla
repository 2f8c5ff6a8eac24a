-------------------------- MODULE SimulationsPage --------------------------
(***************************************************************************)
(* The page that runs simulations (pages/SimulationsPage.tsx): Run fetches *)
(* the bars and makes an engine for each of several simulations, a loop of *)
(* animation frames steps them, and the user pauses, steps, changes the    *)
(* speed, or runs again before the bars of the last run have come.         *)
(*                                                                         *)
(* An engine (SimulationEngine) is the number of bars it has replayed.     *)
(* The array in enginesRef, the engines that the loop has captured and     *)
(* the states and labels on display are told apart by the run that made    *)
(* them.  State set by a handler is rendered before the next event, and    *)
(* React runs the effects of a click at once, those of an answer later.    *)
(* The choice of strategies and the session filter are left out.           *)
(***************************************************************************)
EXTENDS Integers, Sequences, SequencesExt, FiniteSets

CONSTANTS
    MaxRuns,        \* bound: how often Run is pressed
    Counts,         \* numbers of simulations
    Symbols,        \* of the pool
    Single,         \* the symbol chosen when there is no pool, one of them
    Many, Few,      \* numbers of bars the sidecar answers: of Single, of others
    Speeds,         \* steps of one frame
    Nothing

VARIABLES
    runs,           \* runs so far: their settings
    pending,        \* runs whose bars are awaited
    progress,       \* bars replayed by each engine of each run
    current,        \* enginesRef: a run, or Nothing
    shown,          \* simStates: [run, at], or Nothing
    labels,         \* simSymbols: a run, or Nothing
    isRunning, isLoading, speed,
    due,            \* the effect of isRunning is still to come
    playing,        \* the frames requested: [of |-> the run captured], or Nothing
    crossed         \* history: bars have come while others were playing

pageVars == <<runs, pending, progress, current, shown, labels, isRunning, isLoading,
              speed, due, playing, crossed>>

-----------------------------------------------------------------------------
(* The simulations of a run and the bars they replay.                      *)

Served(symbol) == IF symbol = Single THEN Many ELSE Few
Pools == {<<>>, SetToSeq(Symbols)}
Symbol(run, i) ==
    IF run.pool = <<>> THEN Single ELSE run.pool[((i - 1) % Len(run.pool)) + 1]
Sims(run) == 1 .. run.count
Twins(run, i) == {k \in Sims(run) : Symbol(run, k) = Symbol(run, i)}

(* The bars of a symbol are cut into as many segments as it has            *)
(* simulations; the last one gets the remainder.  (Mutant: it does not.)   *)
MutSegment(run, i) ==
    LET twins == Twins(run, i)
        n == Cardinality(twins)
        j == Cardinality({k \in twins : k < i})
        len == Served(Symbol(run, i)) \div n
    IN  [from |-> j * len, to |-> (j + 1) * len]
Segment(run, i) ==
    LET twins == Twins(run, i)
        all == Served(Symbol(run, i))
        n == Cardinality(twins)
        j == Cardinality({k \in twins : k < i})
        len == all \div n
    IN  [from |-> j * len, to |-> IF j = n - 1 THEN all ELSE (j + 1) * len]

(* Fewer than two bars are replaced by one that stands for none. *)
Length(run, i) ==
    LET s == Segment(run, i) IN IF s.to - s.from >= 2 THEN s.to - s.from ELSE 1
Lengths(run) == [i \in Sims(run) |-> Length(run, i)]

-----------------------------------------------------------------------------
Init ==
    /\ runs = <<>> /\ pending = {} /\ progress = <<>>
    /\ current = Nothing /\ shown = Nothing /\ labels = Nothing
    /\ isRunning = FALSE /\ isLoading = FALSE /\ speed \in Speeds
    /\ due = FALSE /\ playing = Nothing
    /\ crossed = FALSE

(* The effect of isRunning and speed, when a click has changed one.  It    *)
(* captures the engines that are there now.                                *)
Effect(running) ==
    /\ playing' = IF running THEN [of |-> current] ELSE Nothing
    /\ due' = FALSE

(* handleRun, up to the await.  (Mutant: what plays goes on.)              *)
MutHalted == UNCHANGED <<isRunning, playing, due>>
Halted == isRunning' = FALSE /\ Effect(FALSE)
Run(count, pool) ==
    /\ Len(runs) < MaxRuns
    /\ runs' = Append(runs, [count |-> count, pool |-> pool])
    /\ pending' = pending \union {Len(runs')}
    /\ progress' = Append(progress, [i \in 1 .. count |-> 0])
    /\ current' = Nothing /\ shown' = Nothing
    /\ isLoading' = TRUE /\ Halted
    /\ crossed' = FALSE
    /\ UNCHANGED <<labels, speed>>

(* handleRun, after it. *)
Answered(r) ==
    /\ r \in pending
    /\ pending' = pending \ {r}
    /\ current' = r /\ labels' = r
    /\ shown' = [run |-> r, at |-> progress[r]]
    /\ isLoading' = FALSE /\ isRunning' = TRUE
    /\ due' = (due \/ ~isRunning)
    /\ crossed' = (crossed \/ playing # Nothing)
    /\ UNCHANGED <<runs, progress, speed, playing>>

Failed(r) ==
    /\ r \in pending
    /\ pending' = pending \ {r}
    /\ isLoading' = FALSE
    /\ UNCHANGED <<runs, progress, current, shown, labels, isRunning, speed, due, playing, crossed>>

Effects ==
    /\ due /\ Effect(isRunning)
    /\ UNCHANGED <<runs, pending, progress, current, shown, labels, isRunning, isLoading,
                   speed, crossed>>

(* The engines of a run take n bars each, as far as they have them.        *)
Advanced(r, n) ==
    [i \in DOMAIN progress[r] |->
        LET all == Length(runs[r], i)
        IN  IF progress[r][i] + n > all THEN all ELSE progress[r][i] + n]
AllDone(r) == progress[r] = Lengths(runs[r])

Steps(r, n) ==
    /\ progress' = [progress EXCEPT ![r] = Advanced(r, n)]
    /\ shown' = [run |-> r, at |-> progress'[r]]

(* handleStep *)
StepButton ==
    /\ current # Nothing
    /\ Steps(current, 1)
    /\ UNCHANGED <<runs, pending, current, labels, isRunning, isLoading, speed, due,
                   playing, crossed>>

(* handlePause.  *)
Pause ==
    /\ isRunning' = ~isRunning
    /\ Effect(~isRunning)
    /\ UNCHANGED <<runs, pending, progress, current, shown, labels, isLoading, speed, crossed>>

SetSpeed(s) ==
    /\ s # speed /\ speed' = s
    /\ IF isRunning THEN Effect(TRUE) ELSE UNCHANGED <<playing, due>>
    /\ UNCHANGED <<runs, pending, progress, current, shown, labels, isRunning, isLoading, crossed>>

(* A frame.  It asks for the next one unless all engines were done before. *)
MutLastFrame == UNCHANGED isRunning /\ playing' = Nothing
LastFrame == isRunning' = FALSE /\ playing' = Nothing
Tick ==
    /\ playing # Nothing
    /\ IF playing.of = Nothing
       THEN shown' = Nothing /\ LastFrame /\ UNCHANGED progress
       ELSE /\ Steps(playing.of, speed)
            /\ IF AllDone(playing.of) THEN LastFrame ELSE UNCHANGED <<isRunning, playing>>
    /\ UNCHANGED <<runs, pending, current, labels, isLoading, speed, due, crossed>>

Next ==
    \/ \E count \in Counts, pool \in Pools : Run(count, pool)
    \/ \E r \in pending : Answered(r) \/ Failed(r)
    \/ Effects \/ StepButton \/ Pause \/ Tick
    \/ \E s \in Speeds : SetSpeed(s)

Spec == Init /\ [][Next]_pageVars

-----------------------------------------------------------------------------
RunIds == 1 .. Len(runs)
TypeOK ==
    /\ Len(runs) <= MaxRuns
    /\ \A r \in RunIds : runs[r] \in [count : Counts, pool : Pools]
    /\ pending \subseteq RunIds
    /\ DOMAIN progress = RunIds
    /\ \A r \in RunIds : \A i \in Sims(runs[r]) : progress[r][i] \in 0 .. Length(runs[r], i)
    /\ {current, labels} \subseteq RunIds \union {Nothing}
    /\ shown # Nothing => shown.run \in RunIds /\ DOMAIN shown.at = Sims(runs[shown.run])
    /\ {isRunning, isLoading, due, crossed} \subseteq BOOLEAN
    /\ speed \in Speeds
    /\ playing # Nothing => playing.of \in RunIds \union {Nothing}

(* What plays, what is shown and what the Step button steps are one run,   *)
(* and the labels are its.  The exception is bars that came while others   *)
(* were playing: isRunning stays as it is, and the loop keeps the engines  *)
(* it has captured.                                                        *)
ShownIsCurrent ==
    ~crossed => /\ playing # Nothing => playing.of = current
                /\ shown # Nothing => shown.run = current /\ labels = current

(* A page that says it is running has frames to come, and one that says it *)
(* loads has bars to come, however the runs overlap.                       *)
RunningIsPlayed == isRunning <=> (due \/ playing # Nothing)
LoadingEnds == isLoading => pending # {}

(* What is shown of an engine is where it is. *)
ShownIsTrue == shown # Nothing => shown.at = progress[shown.run]

(* The simulations of one symbol replay its bars between them, each bar    *)
(* once ("guaranteeing each sim sees a distinct time window").             *)
WindowsApart ==
    \A r \in RunIds : \A i \in Sims(runs[r]) : \A bar \in 1 .. Served(Symbol(runs[r], i)) :
        Cardinality({k \in Twins(runs[r], i) :
            LET s == Segment(runs[r], k) IN s.from < bar /\ bar <= s.to}) = 1

(* The page keeps the runs apart. *)
PlaysWhatItShows ==
    ShownIsCurrent /\ RunningIsPlayed /\ LoadingEnds /\ ShownIsTrue /\ WindowsApart
=============================================================================
