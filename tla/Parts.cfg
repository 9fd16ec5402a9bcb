\* Six circuits on small instances of their widths, the memory in two ways, and
\* a cache: eight addresses, two byte values, five geometries, three accesses.
CONSTANTS
    XLEN = 4
    SHAMT = 2
    ABITS = 2
    PWM_BITS = 4
    TIMER_BITS = 2
    MILLIS_MAX = 3
    MICROS_MAX = 1
    Period = 16
    BusAddresses <- MCAddresses
    BusData <- MCData
    COLOR_INTERVAL = 5
    PWM_INTERVAL = 6
    CYCLES_PER_STEP = 2
    TOTAL_STEPS = 360
    PWM_WIDTH = 8
    QUARTER = 4
    DATA_BITS = 4
    Quarters <- MCQuarters
    PHASE_BITS = 6
    PhaseIncrements <- MCIncrements
    ADDR_BITS = 3
    Bytes = {b0, b1}
    Params <- MCParams
    MaxAccesses = 3
SPECIFICATION MCSpec
INVARIANTS
    AluComputesArithmetic
    TimersKeepTime
    LitForDutyCounts
    SineIsWhole
    WavesAreWhole
    Coherent
    CountersExact
PROPERTIES
    StoresAreByteExact
    ReadsAreReadFirst
    ColoursInTurn
    HueIsContinuous
    ImplementsFlatMemory
