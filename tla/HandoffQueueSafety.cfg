SPECIFICATION Spec
CONSTANTS
    p1 = p1
    p2 = p2
    Producers = {p1, p2}
    Patient = {p1}
    Consumer = Consumer
    Closer = Closer
    Slots = 2
    Bytes <- UnitBytes
    Loads <- ThreeItems
    NoItem = NoItem
INVARIANTS
    ExclusiveSlots
    BytesAddUp
PROPERTIES
    ChannelSpec
