------------------------------- MODULE MCParts -------------------------------
(***************************************************************************)
(* Parts of the system that share nothing, explored side by side: part      *)
(* names the one that runs, and the others stay as they start.  Six are     *)
(* circuits, the ALU and the memory being those of the processor, each on   *)
(* its own; "stores" is the memory again, with accesses of every width; and *)
(* "cache" is any client of that library.                                   *)
(***************************************************************************)
EXTENDS MemoryBus, AluBench, ColourMachine, HsvWheel, SineGenerator, FunctionGenerator, Cache

VARIABLE part

partsVars ==
    <<part, aluVars, busVars, colourVars, hsvVars, sineVars, generatorVars, processVars>>

Parts == {"alu", "memory", "stores", "colour", "hsv", "sine", "generator", "cache"}

\* Accesses for the duty cycles and the timers.
Led            == (2 .. 31) \cup {0, 1}
ClockAddresses == {Led}
DutyWords      == {0 .. 3, {0}, {}}     \* 15, 1 and 0, in 4 bits

\* Accesses for the stores: two bytes of one word, the last byte of the next,
\* an address one bit beyond the memory, a duty cycle, and the timers.
Red            == (2 .. 31) \cup {1}
Millis         == (2 .. 31) \ {2}
Micros         == (2 .. 31) \ {3}
StoreAddresses == {{0}, {1}, {2, 1, 0}, {ABITS + 2}, Red, Millis, Micros}
Ones           == 0 .. 31

MCAddresses == ClockAddresses \cup StoreAddresses
MCData      == DutyWords \cup {Ones}

\* The accesses of a burst of stores and loads, which begins at power-up.
MaxBurst == 4

\* A part that does not run is in one of its initial states.
MCInit ==
    /\ part \in Parts
    /\ AluInit /\ Init /\ HsvInit
    /\ IF part = "colour" THEN ColourInit
       ELSE ColourInit /\ count = 0 /\ pwm_count = 0
    /\ IF part = "sine" THEN SineInit
       ELSE SineInit /\ memory_data = 0 /\ sine_memory = CHOOSE q \in Quarters : TRUE
    /\ IF part = "generator" THEN GeneratorInit
       ELSE /\ GeneratorInit /\ quarter_data = 0
            /\ generator_memory = CHOOSE q \in Quarters : TRUE
            /\ \A k \in Buttons : button[k] = [sync0 |-> FALSE, sync1 |-> FALSE, r |-> FALSE]
    /\ IF part = "cache" THEN CacheInit
       ELSE /\ CacheInit /\ params = CHOOSE p \in Params : TRUE
            /\ LET zero == CHOOSE b \in Bytes : TRUE
               IN  /\ memory = [a \in Addresses |-> zero]
                   /\ block = FreshBlocks(params, zero)

MCNext ==
    /\ UNCHANGED part
    /\ CASE part = "memory"                     -> Access(ClockAddresses, DutyWords)
         [] part = "stores" /\ edges < MaxBurst -> Access(StoreAddresses, {Ones})
         [] OTHER                               -> UNCHANGED busVars
    /\ IF part = "alu"       THEN AluNext       ELSE UNCHANGED aluVars
    /\ IF part = "colour"    THEN ColourClock   ELSE UNCHANGED colourVars
    /\ IF part = "hsv"       THEN HsvClock      ELSE UNCHANGED hsvVars
    /\ IF part = "sine"      THEN SineClock     ELSE UNCHANGED sineVars
    /\ IF part = "generator" THEN GeneratorNext ELSE UNCHANGED generatorVars
    /\ IF part = "cache"     THEN CacheNext     ELSE UNCHANGED processVars

MCSpec ==
    /\ MCInit /\ [][MCNext]_partsVars
    /\ WF_colourVars(part = "colour" /\ ColourClock)

-----------------------------------------------------------------------------
\* A sine of four samples, and a quarter that ends below its middle.
MCQuarters ==
    {[k \in 0 .. 3 |-> <<0, 3, 6, 7>>[k + 1]], [k \in 0 .. 3 |-> <<0, 7, 2, 5>>[k + 1]]}

MCIncrements == [k \in 0 .. 3 |-> k + 1]

\* Geometries for three-bit addresses: each field empty in one of them, and
\* one without a tag, where nothing is ever evicted.
Geometry(index, offset) == [num_index_bits |-> index, num_offset_bits |-> offset]

MCParams == {Geometry(0, 0), Geometry(0, 1), Geometry(1, 0), Geometry(1, 1), Geometry(2, 1)}

=============================================================================
