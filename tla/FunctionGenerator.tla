-------------------------- MODULE FunctionGenerator --------------------------
(***************************************************************************)
(* miniproject03++: two buttons select one of three waveforms and one of    *)
(* four frequencies; a phase accumulator drives a sine, a triangle and a    *)
(* square.  A button may be down or up at any clock edge.                   *)
(***************************************************************************)
EXTENDS QuarterWave

CONSTANTS
    PHASE_BITS,     \* width of the accumulator: 32 in the source
    PhaseIncrements \* by frequency

ASSUME GeneratorAssumption ==
    /\ PHASE_BITS \in Nat /\ PHASE_BITS > DATA_BITS
    /\ PhaseIncrements \in [0 .. 3 -> 1 .. 2 ^ PHASE_BITS \div (4 * QUARTER)]

VARIABLES
    button,                 \* the registers behind each button
    waveform_sel, freq_sel,
    phase_acc,
    generator_memory,       \* the heights that the memory file holds
    quarter_data,           \* the registered sample
    sampled_phase,          \* history: the phase of that sample, -1 before the first edge
    released                \* history: the buttons that were up since they last selected

selectionVars == <<waveform_sel, freq_sel>>
generatorVars ==
    <<button, selectionVars, phase_acc, generator_memory, quarter_data, sampled_phase, released>>

Buttons      == {"boot", "sw"}
Synchroniser == [sync0 : BOOLEAN, sync1 : BOOLEAN, r : BOOLEAN]

GeneratorTypeOK ==
    /\ button \in [Buttons -> Synchroniser]
    /\ waveform_sel \in 0 .. 2 /\ freq_sel \in 0 .. 3
    /\ phase_acc \in 0 .. 2 ^ PHASE_BITS - 1
    /\ generator_memory \in Quarters
    /\ quarter_data \in 0 .. Middle - 1
    /\ sampled_phase \in -1 .. 4 * QUARTER - 1
    /\ released \subseteq Buttons

\* Nothing initialises the registers of the buttons and of the memory.
GeneratorInit ==
    /\ button \in [Buttons -> Synchroniser]
    /\ waveform_sel = 0 /\ freq_sel = 0 /\ phase_acc = 0
    /\ generator_memory \in Quarters
    /\ quarter_data \in {0, Middle - 1}
    /\ sampled_phase = -1
    /\ released = Buttons

-----------------------------------------------------------------------------
\* The registers of a button after an edge that finds it down or up.
Synchronised(b, down) == [sync0 |-> down, sync1 |-> b.sync0, r |-> b.sync1 /\ ~b.r]

Advanced(selection, last) == IF selection = last THEN 0 ELSE selection + 1

\* phase_acc[31:23]
Phase == phase_acc \div (2 ^ PHASE_BITS \div (4 * QUARTER))

PhaseClock ==
    /\ phase_acc' = (phase_acc + PhaseIncrements[freq_sel]) % 2 ^ PHASE_BITS
    /\ quarter_data' = generator_memory[QuarterAddress(Phase)]
    /\ sampled_phase' = Phase

\* An edge that finds the given buttons down.
GeneratorClock(down) ==
    /\ button' = [b \in Buttons |-> Synchronised(button[b], b \in down)]
    /\ waveform_sel' = IF button["boot"].r THEN Advanced(waveform_sel, 2) ELSE waveform_sel
    /\ freq_sel' = IF button["sw"].r THEN Advanced(freq_sel, 3) ELSE freq_sel
    /\ PhaseClock
    /\ released' = {b \in Buttons : ~button[b].sync1 \/ (b \in released /\ ~button[b].r)}
    /\ UNCHANGED generator_memory

GeneratorNext == \E down \in SUBSET Buttons : GeneratorClock(down)

data_sine ==
    IF Quadrant(Phase) \in {0, 1} THEN Middle + quarter_data ELSE Middle - quarter_data

\* Mutant: the falling half is one higher.
data_tri_OffByOne ==
    LET half == 2 ^ (PHASE_BITS - 1)
        ramp == (phase_acc % half) \div (half \div 2 ^ DATA_BITS)
    IN  IF phase_acc < half THEN ramp ELSE 2 ^ DATA_BITS - ramp

\* The bits of the accumulator below the highest, and the highest.
data_tri ==
    LET half == 2 ^ (PHASE_BITS - 1)
        ramp == (phase_acc % half) \div (half \div 2 ^ DATA_BITS)
    IN  IF phase_acc < half THEN ramp ELSE 2 ^ DATA_BITS - 1 - ramp

data_sq == phase_acc >= 2 ^ (PHASE_BITS - 1)

dac_out ==
    CASE waveform_sel = 0 -> data_sine
      [] waveform_sel = 1 -> data_tri
      [] waveform_sel = 2 -> IF data_sq THEN 2 ^ DATA_BITS - 1 ELSE 0

GeneratorSpec == GeneratorInit /\ [][GeneratorNext]_generatorVars

-----------------------------------------------------------------------------
(***************************************************************************)
(* What the converter gets while a waveform stays selected is that wave     *)
(* without a jump, at every frequency and whenever the frequency changes:   *)
(* the sine is whole and one edge late, and the triangle goes on by no more *)
(* than the accumulator does (top.sv:60-92, sine_gen.sv:14-34).             *)
(***************************************************************************)
WavesAreWhole ==
    /\ waveform_sel = 0 /\ sampled_phase # -1 =>
          dac_out = Wave(generator_memory, sampled_phase)
    /\ waveform_sel = 1 =>
          LET turn == 2 ^ PHASE_BITS
              fold == IF 2 * phase_acc < turn THEN 2 * phase_acc ELSE 2 * (turn - phase_acc) - 1
          IN  dac_out = (fold * 2 ^ DATA_BITS) \div turn

(***************************************************************************)
(* top.sv:22 of miniproject03++: "detect rising edge (button press)".  One  *)
(* press selects one waveform and one frequency: the button is up between   *)
(* two selections.                                                          *)
(***************************************************************************)
OnePressOneSelection ==
    [][/\ waveform_sel' # waveform_sel => "boot" \in released
       /\ freq_sel' # freq_sel => "sw" \in released]_generatorVars

=============================================================================
