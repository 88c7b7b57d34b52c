\* A program that only sends; both threads are scheduled.
CONSTANTS
    RF22_MAX_MESSAGE_LEN = 4
    RF22_FIFO_SIZE = 4
    FRAGMENT = 2
    RF22_TXFFAEM_THRESHOLD = 1
    RF22_RXFFAFULL_THRESHOLD = 3
    Duties <- MCShort
SPECIFICATION FairSpec
PROPERTY SendReturns
\* The program may have nothing left to send and hear nothing more.
CHECK_DEADLOCK FALSE
