------------------------------ MODULE HsvWheel ------------------------------
(***************************************************************************)
(* miniproject02: the hue goes round in TOTAL_STEPS steps, which hsv_wheel  *)
(* turns into three duty cycles and three pwm units into LEDs.  The units   *)
(* have the same counter, from 0 and in step, so that one stands for all.   *)
(***************************************************************************)
EXTENDS Integers

CONSTANTS
    CYCLES_PER_STEP,    \* CLK_FREQ / TOTAL_STEPS
    TOTAL_STEPS,
    PWM_WIDTH

ASSUME HsvAssumption ==
    /\ CYCLES_PER_STEP \in Nat \ {0, 1}
    /\ TOTAL_STEPS = 360 /\ PWM_WIDTH = 8

VARIABLES cycle_counter, step_counter, counter

hsvVars == <<cycle_counter, step_counter, counter>>

HsvTypeOK ==
    /\ cycle_counter \in 0 .. CYCLES_PER_STEP - 1
    /\ step_counter \in 0 .. TOTAL_STEPS - 1
    /\ counter \in 0 .. 2 ^ PWM_WIDTH - 1

HsvInit == cycle_counter = 0 /\ step_counter = 0 /\ counter = 0

HsvClock ==
    /\ IF cycle_counter >= CYCLES_PER_STEP - 1
       THEN /\ cycle_counter' = 0
            /\ step_counter' = IF step_counter >= TOTAL_STEPS - 1 THEN 0 ELSE step_counter + 1
       ELSE /\ cycle_counter' = cycle_counter + 1
            /\ UNCHANGED step_counter
    /\ counter' = (counter + 1) % 2 ^ PWM_WIDTH

-----------------------------------------------------------------------------
Ascending(s)  == ((s % 60) * 255) \div 60
Descending(s) == 255 - Ascending(s)

\* Mutant: two regions fall where they should rise.
Hue_Swapped(s) ==
    CASE s \div 60 = 0 -> [red |-> 255, green |-> Ascending(s), blue |-> 0]
      [] s \div 60 = 1 -> [red |-> Descending(s), green |-> 255, blue |-> 0]
      [] s \div 60 = 2 -> [red |-> 0, green |-> 255, blue |-> Descending(s)]
      [] s \div 60 = 3 -> [red |-> 0, green |-> Ascending(s), blue |-> 255]
      [] s \div 60 = 4 -> [red |-> Ascending(s), green |-> 0, blue |-> 255]
      [] s \div 60 = 5 -> [red |-> 255, green |-> 0, blue |-> Descending(s)]

\* red_value, green_value and blue_value, by region.
Hue(s) ==
    CASE s \div 60 = 0 -> [red |-> 255, green |-> Ascending(s), blue |-> 0]
      [] s \div 60 = 1 -> [red |-> Descending(s), green |-> 255, blue |-> 0]
      [] s \div 60 = 2 -> [red |-> 0, green |-> 255, blue |-> Ascending(s)]
      [] s \div 60 = 3 -> [red |-> 0, green |-> Descending(s), blue |-> 255]
      [] s \div 60 = 4 -> [red |-> Ascending(s), green |-> 0, blue |-> 255]
      [] s \div 60 = 5 -> [red |-> 255, green |-> 0, blue |-> Descending(s)]

Duties == Hue(step_counter)

\* The LEDs of the units that are on: top.sv inverts twice.
pwm_out == {led \in DOMAIN Duties : counter < Duties[led]}

HsvSpec == HsvInit /\ [][HsvClock]_hsvVars

-----------------------------------------------------------------------------
(***************************************************************************)
(* The hue has no jump, at the borders of the six regions and from the last *)
(* step to the first neither: from one step to the next exactly one duty    *)
(* cycle changes, by a fraction of its range that is one step of sixty, and *)
(* so a LED whose duty cycle stays keeps its place in the PWM period        *)
(* (hsv_wheel.sv:35-51).                                                    *)
(***************************************************************************)
HueIsContinuous ==
    [][step_counter' # step_counter =>
          \E led \in DOMAIN Duties :
             /\ Duties'[led] - Duties[led] \in (-5 .. -4) \cup (4 .. 5)
             /\ \A other \in DOMAIN Duties \ {led} : Duties'[other] = Duties[other]]_hsvVars

=============================================================================
