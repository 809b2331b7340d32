SPECIFICATION FairSpec
CONSTANTS
    inrelease = inrelease
    release = release
    main = main
    extra = extra
    foreign = foreign
    old_deb = old_deb
    new_deb = new_deb
    extra_deb = extra_deb
    NoTree = NoTree
    Lists <- MCLists
    Plain <- MCPlain
    Needs <- MCNeeds
    Releases = {inrelease, release}
    Indexes = {main, extra}
    Packages = {old_deb, new_deb, extra_deb}
    Kept = {foreign}
    IgnoreErrors = {extra}
    MaxVersion = 2
    ReleaseTries = 2
    Dated = TRUE
    Moved = FALSE
    Clean = TRUE
    Size <- MCSize
    WipeCountRatio = 0
    WipeSizeRatio = 0
    MaxRuns = 2
INVARIANTS
    OkIsWhole
    KeptStays
PROPERTIES
    Ends
