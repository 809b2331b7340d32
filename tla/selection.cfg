SPECIFICATION Spec
CONSTANTS
    Url = {"u", "v"}
    Suite = {"s", "f/"}
    Flat = {"f/"}
    Component = {"main", "contrib"}
    Main = "main"
    Arch = {"amd64", "arm", "armhf"}
    HostArch = "amd64"
    Key = {"key"}
    Value = {"on", "off", "force", "m", "n", "u/old", "main", "pool", "a", "a*", "lang", "net"}
    None = None
    PartOf <- MCPartOf
    Inputs <- MCInputs
    Within <- MCWithin
    Digest = {"d", "e"}
    Below <- MCBelow
    Glob <- MCGlob
    Facet <- MCFacet
    Word = {"a", "b", "ab", "net"}
    Tag = {"role::dev", "lang::c"}
    Directory = {"pool"}
    Name = {"a.deb", "b.deb", "a.dsc", "a.tar.xz"}
    Sum = {"c1", "c2"}
    SizeBound = 2
    CompressionOf <- MCCompressionOf
    Upstreams <- MCUpstreams
INVARIANTS
    TypeOK
    EverythingAsked
    NothingForeign
    SettingsReach
    AskedIsParsed
    ParsedIsFetched
    VariantsAreListed
    KeptIsVerified
    BlockIsStanza
    PoolIsListed
CHECK_DEADLOCK FALSE
