\* The queues of the code.  Up to three events are held back, so that the event
\* queue fills and events of two connections are on their way together.
CONSTANTS
    ACI_QUEUE_SIZE = 4
    NoPacket = NoPacket
    MaxOut = 3
SPECIFICATION FairSpec
INVARIANTS NoneRefused NoPipeOnDeadLink
PROPERTY AdvertisesAgain
