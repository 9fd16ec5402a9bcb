---------------------------- MODULE ColourMachine ----------------------------
(***************************************************************************)
(* miniproject01/top.sv: the board's LED goes through six colours, each for *)
(* COLOR_INTERVAL clock edges, with the green of yellow dimmed.  Nothing    *)
(* initialises the two counters, so they power up with any value.           *)
(***************************************************************************)
EXTENDS BitVec

CONSTANTS COLOR_INTERVAL, PWM_INTERVAL

ASSUME ColourAssumption ==
    COLOR_INTERVAL \in Nat \ {0, 1} /\ PWM_INTERVAL \in Nat \ {0, 1}

VARIABLES
    state, count, pwm_count,
    shown           \* history: the edges that showed the colour, -1 for the first colour

colourVars == <<state, count, pwm_count, shown>>

\* $clog2, and the values of a counter that is as wide as it says.
Clog2(n)   == CHOOSE k \in 1 .. n : Pow2[k] >= n /\ Pow2[k - 1] < n
Counter(n) == 0 .. Pow2[Clog2(n)] - 1

Colours == {"RED", "YELLOW", "GREEN", "CYAN", "BLUE", "MAGENTA"}

ColourTypeOK ==
    /\ state \in Colours
    /\ count \in Counter(COLOR_INTERVAL) /\ pwm_count \in Counter(PWM_INTERVAL)
    /\ shown \in Nat \cup {-1}

ColourInit ==
    /\ state = "RED"
    /\ count \in Counter(COLOR_INTERVAL) /\ pwm_count \in Counter(PWM_INTERVAL)
    /\ shown = -1

NextColour ==
    [RED |-> "YELLOW", YELLOW |-> "GREEN", GREEN |-> "CYAN", CYAN |-> "BLUE",
     BLUE |-> "MAGENTA", MAGENTA |-> "RED"]

\* Mutant: a counter that goes on to its interval.
Counted_OneMore(n, counter) ==
    IF counter = n THEN 0 ELSE (counter + 1) % Pow2[Clog2(n)]

\* A counter after an edge.
Counted(n, counter) ==
    IF counter = n - 1 THEN 0 ELSE (counter + 1) % Pow2[Clog2(n)]

ColourClock ==
    /\ count' = Counted(COLOR_INTERVAL, count)
    /\ pwm_count' = Counted(PWM_INTERVAL, pwm_count)
    /\ IF count = COLOR_INTERVAL - 1
       THEN state' = NextColour[state] /\ shown' = 0
       ELSE /\ UNCHANGED state
            /\ shown' = IF shown = -1 THEN -1 ELSE shown + 1

\* The LEDs that are on.
ColourLeds ==
    CASE state = "RED"     -> {"R"}
      [] state = "YELLOW"  -> {"R"} \cup IF pwm_count < PWM_INTERVAL \div 2 THEN {} ELSE {"G"}
      [] state = "GREEN"   -> {"G"}
      [] state = "CYAN"    -> {"G", "B"}
      [] state = "BLUE"    -> {"B"}
      [] state = "MAGENTA" -> {"R", "B"}

ColourSpec == ColourInit /\ [][ColourClock]_colourVars /\ WF_colourVars(ColourClock)

-----------------------------------------------------------------------------
(***************************************************************************)
(* No colour but the first leaves before its interval is over, and none     *)
(* stays past it (top.sv:19-36 of miniproject01).                           *)
(***************************************************************************)
EachColourItsInterval ==
    [][/\ state' # state /\ shown # -1 => shown + 1 = COLOR_INTERVAL
       /\ shown + 1 = COLOR_INTERVAL => state' # state]_colourVars

(***************************************************************************)
(* Whatever the counters power up with, past their interval included, every *)
(* colour comes again and again, each but the first for exactly its         *)
(* interval (top.sv:19-36 of miniproject01).                                *)
(***************************************************************************)
ColoursInTurn ==
    EachColourItsInterval /\ \A c \in Colours : count > 0 ~> state = c

=============================================================================
