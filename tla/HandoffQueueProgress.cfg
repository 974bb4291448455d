SPECIFICATION FairSpec
CONSTANTS
    p1 = p1
    p2 = p2
    Producers = {p1, p2}
    Patient = {p1, p2}
    Consumer = Consumer
    Closer = Closer
    Slots = 2
    Bytes <- UnitBytes
    Loads <- Contended
    NoItem = NoItem
PROPERTIES
    NoLostWakeup
\* A queue that is closed and drained rests; one that is stuck fails NoLostWakeup.
CHECK_DEADLOCK FALSE
