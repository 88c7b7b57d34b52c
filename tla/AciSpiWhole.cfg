\* The shortest counterexample needs a command of two bytes.
CONSTANTS
    HAL_ACI_MAX_LENGTH = 31
    EventLength = {0, 1, 2, 3, 16, 30, 31, 32, 255}
SPECIFICATION SpiSpec
INVARIANT WholePackets
CHECK_DEADLOCK FALSE
