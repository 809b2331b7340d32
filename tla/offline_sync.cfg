SPECIFICATION Spec
CONSTANTS
    index = index
    deb = deb
    other = other
    disk = disk
    cdrom = cdrom
    Absent = Absent
    Bad = Bad
    None = None
    Paths = {index, deb, other}
    Contents = {1, 2}
    Snapshots <- MCSnapshots
    Size <- MCSize
    AllowLarge = FALSE
    Media = {disk, cdrom}
    MaxChanges = 1
    MaxKills = 1
    MaxDamages = 1
INVARIANTS
    TypeOK
    NothingSkipped
    DeletionsAreSmall
PROPERTIES
    InstalledIsWhole
