SPECIFICATION FairSpec
CONSTANTS
    a = a
    b = b
    release = release
    byhash = byhash
    packages = packages
    plain = plain
    root = root
    dists = dists
    sub = sub
    Variants <- MCVariants
    Size <- MCSize
    Dirs = {root, dists, sub}
    DirOf <- MCDirOf
    Above <- MCAbove
    Versions = {1, 2}
    NoFile = NoFile
    Files = {a, release}
    Paths = {a, release}
    Hashed = {a}
    IgnoreErrors = {}
    IgnoreMissing = {release}
    WeakCheck = {a}
    Mirrored = {a, release}
    Tries = 2
    Slots = 1
    MaxTasks = 2
    MaxBlocks = 2
    MaxRuns = 1
INVARIANTS
    TypeOK
    DownloadedIsWanted
    ReportsAgree
PROPERTIES
    Ends
