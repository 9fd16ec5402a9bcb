----------------------------- MODULE QuarterWave -----------------------------
(***************************************************************************)
(* The quarter of a sine that both generators keep in memory: which sample  *)
(* they read for a phase, and, for reference, the whole wave.               *)
(***************************************************************************)
EXTENDS Integers

CONSTANTS
    QUARTER,        \* samples of a quarter: 128 in the source
    DATA_BITS,      \* width of the output: 10 in the source
    Quarters        \* the quarters memory may hold, as heights over the middle

ASSUME QuarterAssumption ==
    /\ QUARTER \in Nat \ {0} /\ DATA_BITS \in Nat \ {0}
    /\ Quarters \subseteq [0 .. QUARTER - 1 -> 0 .. 2 ^ (DATA_BITS - 1) - 1]
    /\ \A quarter \in Quarters : quarter[0] = 0

Middle  == 2 ^ (DATA_BITS - 1)
Outputs == 0 .. 2 ^ DATA_BITS - 1

Quadrant(phase) == phase \div QUARTER

\* Mutant: the address is never reversed.
QuarterAddress_Forward(phase) == phase % QUARTER

\* The address of the sample for a phase: reversed in every other quadrant.
QuarterAddress(phase) ==
    IF Quadrant(phase) \in {1, 3} THEN QUARTER - 1 - (phase % QUARTER)
    ELSE phase % QUARTER

\* The wave that rises and falls with a quarter and is odd about its middle.
Wave(quarter, phase) ==
    LET half   == 2 * QUARTER
        into   == phase % half
        height == IF into < QUARTER THEN quarter[into] ELSE quarter[half - 1 - into]
    IN  IF phase < half THEN Middle + height ELSE Middle - height

=============================================================================
