\* Three packets go around a ring of three slots and are of two kinds, so that
\* an exchange of two would show; the proofs cover every size and number.
CONSTANTS
    ACI_QUEUE_SIZE = 3
    NoPacket = NoPacket
    Cmd = {c1, c2}
    Evt = {e1, e2}
    MaxCmd = 3
    MaxEvt = 3
SPECIFICATION FairSpec
INVARIANTS TypeOK NeverSpins InOrder RequestStands
PROPERTIES ImplementsChannel CommandsArrive EventsArrive
