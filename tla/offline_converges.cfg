SPECIFICATION FairSpec
CONSTANTS
    index = index
    deb = deb
    other = other
    disk = disk
    cdrom = cdrom
    Absent = Absent
    Bad = Bad
    None = None
    Paths = {index, deb, other}
    Contents = {1, 2}
    Snapshots <- MCSnapshots
    Size <- MCSize
    AllowLarge = TRUE
    Media = {disk}
    MaxChanges = 2
    MaxKills = 0
    MaxDamages = 2
PROPERTIES
    Converges
