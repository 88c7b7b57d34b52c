\* Every command length, and event lengths around each boundary.
CONSTANTS
    HAL_ACI_MAX_LENGTH = 31
    EventLength = {0, 1, 2, 3, 16, 30, 31, 32, 255}
SPECIFICATION SpiSpec
INVARIANT WithinBuffers
CHECK_DEADLOCK FALSE
