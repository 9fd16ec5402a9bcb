\* Arithmetic, branches and jumps, and loads and stores.
CONSTANTS
    XLEN = 32
    SHAMT = 5
    ABITS = 2
    PWM_BITS = 1
    TIMER_BITS = 4
    MILLIS_MAX = 1
    MICROS_MAX = 0
    MaxEdges = 6
    Images <- MCImages
    PowerUpPcs <- MCAnyPowerUpPcs
    PowerUpFiles <- MCPowerUpFiles
SPECIFICATION MCSpec
PROPERTIES
    ImplementsRV32I
    StoresOverwriteThemselves
    HeldResetErasesStore
    LoadsReturnPreviousFetch
