--------------------------- MODULE SimulationTerms --------------------------
(***************************************************************************)
(* What a simulation is given and what it makes: settings, bars, positions *)
(* and trades (the interfaces of lib/simulation-engine.ts).                *)
(*                                                                         *)
(* A raw bar has one price, and the volume 1; there is at most one a       *)
(* minute, so a series is a function from minutes to prices.  Shares       *)
(* are counted in parts of which Unit make one share (a million in the     *)
(* code), and money in the same parts.                                     *)
(***************************************************************************)
EXTENDS Integers

CONSTANTS
    LastMinute,     \* bound: of the raw bars
    Prices,
    Frames,         \* timeframes, in minutes
    Day,            \* minutes of a day
    Regular, Extended,  \* minutes of the day in the two sessions
    Unit,
    Capitals,       \* starting capitals, in money
    Quantities,     \* quantities of one position, in parts of a share
    NoBar

ASSUME SimulationAssumption ==
    /\ LastMinute \in Nat /\ Prices \subseteq Nat \ {0}
    /\ Frames \subseteq Nat \ {0} /\ Day \in Nat \ {0}
    /\ Unit \in Nat \ {0}
    /\ Capitals \subseteq Nat \ {0} /\ Quantities \subseteq Nat \ {0}

Minutes == 0 .. LastMinute
Modes == {"qty", "capital"}
Sessions == {"regular", "extended", "all"}
Configs == [frame: Frames, mode: Modes, fractional: BOOLEAN, reinvest: BOOLEAN,
            capital: Nat \ {0}, qty: Quantities, scripted: BOOLEAN]
Bars == [time: Nat, open: Prices, high: Prices, low: Prices, close: Prices,
         volume: Nat \ {0}]
Positions == [since: Nat, entry: Prices, shares: Nat \ {0}]
Trades == [since: Nat, entry: Prices, shares: Nat \ {0}, until: Nat, exit: Prices, gain: Int]

ASSUME NoBarIsNone == NoBar \notin Configs \union Bars \union Positions
=============================================================================
