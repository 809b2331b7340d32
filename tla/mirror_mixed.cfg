SPECIFICATION Spec
CONSTANTS
    inrelease = inrelease
    release = release
    main = main
    extra = extra
    foreign = foreign
    old_deb = old_deb
    new_deb = new_deb
    extra_deb = extra_deb
    NoTree = NoTree
    Lists <- MCLists
    Plain <- MCPlain
    Needs <- MCNeeds
    Releases = {inrelease, release}
    Indexes = {main, extra}
    Packages = {old_deb, new_deb, extra_deb}
    Kept = {}
    IgnoreErrors = {}
    MaxVersion = 2
    ReleaseTries = 2
    Dated = TRUE
    Moved = TRUE
    Clean = TRUE
    Size <- MCSize
    WipeCountRatio = 33
    WipeSizeRatio = 50
    MaxRuns = 1
INVARIANTS
    NeverBroken
