\* The queues of the code.  Five messages are more than the three the command
\* queue takes, so the queue is filled again while answers come in.
CONSTANTS
    ACI_QUEUE_SIZE = 4
    NoPacket = NoPacket
    num_setup_msgs = 5
    MaxOut = 2
SPECIFICATION FairSpec
INVARIANTS TypeOK InOrder
PROPERTIES SuccessMeansSent AttemptEnds TriesAgain
