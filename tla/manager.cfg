SPECIFICATION Spec
CONSTANTS
    NodeName = {n}
    NetworkName = {t}
    Data = {d, e}
    Object = {o1, o2}
    NetObject = {p1, p2}
    Null = Null
    Expired = Expired
SYMMETRY Symmetry
INVARIANTS
    TypeOK
    AssociationsLive
    SavedOrDirty
    CleanExitRestarts
