\* Programs that only send, one that only receives, and one that does both; the
\* threads are scheduled and the radio sends what it is told to.
CONSTANTS
    RF22_MAX_MESSAGE_LEN = 4
    RF22_FIFO_SIZE = 4
    FRAGMENT = 2
    RF22_TXFFAEM_THRESHOLD = 1
    RF22_RXFFAFULL_THRESHOLD = 3
    Duties <- MCDuties
SPECIFICATION FairSpec
INVARIANTS TypeOK SentInOrder
PROPERTY AllAired
\* The program may have nothing left to send and hear nothing more.
CHECK_DEADLOCK FALSE
