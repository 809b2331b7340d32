SPECIFICATION Spec
CONSTANTS
    a = a
    b = b
    c = c
    MaxSize = 2
    Order <- MCOrder
    old = old
    new = new
    Contents = {old, new}
    Bad = Bad
    Sizes <- MCSizes
    Limits = {0, 1, 3}
    Bases <- MCBases
    Asked = {c}
    None = None
    MaxWrites = 1
    MaxDecays = 1
    MaxKills = 1
INVARIANTS
    TypeOK
    BundleIsDifference
    VolumesFit
    ReadyIsWhole
PROPERTIES
    HashesAreFresh
