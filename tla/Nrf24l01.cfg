\* The FIFOs of the radio hold three payloads each.
CONSTANT FIFO_SIZE = 3
SPECIFICATION NrfFairSpec
INVARIANTS NrfTypeOK Listening NothingOnlyOnce
PROPERTIES NotCutShort EachHandled EachSendReturns
