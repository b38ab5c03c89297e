SPECIFICATION Spec
CONSTANTS
    PlayerIds = {i1, i2}
    Ucids = {ann, bob}
    Names = {n1, n2}
    None = None
    StaticSlots = {st}
    DynamicSlots = {dy}
    Objs = {o1, o2, o3}
    Spectators = Spectators
    Observers = Observers
SYMMETRY Symmetry
INVARIANT SlotAgreement
INVARIANT ObjectMapsInverse
INVARIANT Attribution
INVARIANT CargoHasCarrier
INVARIANT ConnectedConsistent
PROPERTY ForcedNotForgotten
CHECK_DEADLOCK FALSE
