----------------------------- MODULE MCSelection -----------------------------
(***************************************************************************)
(* Configurations and servers for Selection: two URLs, a codename and a    *)
(* flat directory, two components and three architectures, one of which    *)
(* has a name that is part of another's.                                   *)
(***************************************************************************)
EXTENDS Selection, TLC

MCWithin == {<<"arm", "armhf">>}
MCPartOf == {<<"u", "u/old">>}
MCGlob == {<<"a*", "a">>, <<"a*", "ab">>}
MCFacet == {<<"role::dev", "role">>, <<"lang::c", "lang">>}
MCBelow == {<<"main", [area |-> "main", dir |-> "binary", name |-> "Packages", arch |-> "amd64",
                      suffix |-> "none"]>>,
            <<"pool", [directory |-> "pool", name |-> "a.deb"]>>}
MCCompressionOf == [n \in {"a.deb", "b.deb", "a.dsc"} |-> "none"] @@ [n \in {"a.tar.xz"} |-> "xz"]
------------------------------------------------------------------------------
(* Lines and stanzas *)

Deb(type, arch, url, suite, comps) ==
    [kind |-> "deb", type |-> type, arch |-> arch, url |-> url, suites |-> {suite},
     components |-> comps, byHash |-> "yes", signedBy |-> {}]
With(line, byHash, keys) == [line EXCEPT !.byHash = byHash, !.signedBy = keys]
Opt(k, target, value) == [key |-> k, target |-> target, value |-> value]
Option(k, target, value) == [kind |-> "option", option |-> Opt(k, target, value)]
Set(arch) == [kind |-> "set", arch |-> arch]

Stanza(types, arches, url, suite, comps, opts) ==
    [enabled |-> TRUE, types |-> types, arches |-> arches, url |-> url, suites |-> {suite},
     components |-> comps, byHash |-> "yes", signedBy |-> {}, settings |-> opts]

Main1 == Deb("any", {}, "u", "s", {"main"})
Both == Deb("any", {}, "u", "s", {"main", "contrib"})
Arm == Deb("armhf", {}, "u", "s", {"main"})
Arms == Deb("any", {"arm", "src"}, "u", "s", {"contrib"})
Src == Deb("src", {}, "u", "s", {"main"})
FlatDeb == Deb("any", {}, "u", "f/", {})
FlatSrc == Deb("src", {}, "u", "f/", {})
Other == Deb("any", {"amd64"}, "v", "s", {"main"})
Keyed == With(Arm, "force", {"key"})
NoHash == With(Main1, "no", {})
Mixed2 == [Main1 EXCEPT !.suites = {"s", "f/"}]

Config(main, more, stanzas) == [main |-> main, lists |-> more, sources |-> stanzas]
MainOnly(main) == Config(main, {}, {})

StanzaPlain == Stanza({"deb", "deb-src"}, {"armhf"}, "u", "s", {"main"},
                      {Opt("clean", "u", "on"), Opt("include_source_name", "u", "a")})
StanzaOff == [Stanza({"deb"}, {}, "v", "s", {"main"}, {}) EXCEPT !.enabled = FALSE]
StanzaNew == Stanza({"deb"}, {}, "v", "s", {"contrib"},
                    {Opt("gpg_verify", "v", "on"), Opt("exclude_sections", "v", "net")})

MCInputs == {
    MainOnly(<<Both, Arm>>),
    MainOnly(<<Both, Arms, Src>>),
    MainOnly(<<Set("armhf"), Main1, Set("amd64"), Both>>),
    MainOnly(<<Keyed, NoHash, Other>>),
    MainOnly(<<FlatDeb>>), MainOnly(<<FlatSrc, FlatDeb>>), MainOnly(<<FlatSrc>>),
    MainOnly(<<FlatDeb, Main1>>), MainOnly(<<Mixed2>>),
    MainOnly(<<Main1, Option("gpg_verify", "u", None)>>),
    MainOnly(<<Option("mirror_path", "u", "m"), Main1, Option("mirror_path", "u", "n"),
               Option("skip-clean", "u/old", "u/old"), Option("ignore_errors", "u", "main")>>),
    MainOnly(<<Main1, Option("ignore_errors", "u", "pool"),
               Option("mirror_dist_upgrader", "u", "on")>>),
    MainOnly(<<Main1, Src, Option("include", "u", "a*"), Option("exclude_tags", "u", "lang")>>),
    MainOnly(<<Main1, Src, Option("include_source_name", "u", "a"),
               Option("include_sections", "u", "net")>>),
    Config(<<Option("gpg_verify", "u", "force"), Main1>>,
           {<<Option("clean", "u", "on"), Arm>>, <<Arms, Option("gpg_verify", "u", "off")>>}, {}),
    Config(<<Main1>>, {<<Other, Option("clean", "v", "on")>>}, {<<StanzaPlain, StanzaOff>>}),
    Config(<<Src, Option("gpg_verify", "u", "on")>>, {}, {<<StanzaNew>>, <<StanzaPlain>>}) }
------------------------------------------------------------------------------
(* Indexes: paths, what release files say of them, what they say *)

Ix(area, dir, name, arch, suffix) ==
    [area |-> area, dir |-> dir, name |-> name, arch |-> arch, suffix |-> suffix]
Pkg(area, arch, suffix) == Ix(area, "binary", "Packages", arch, suffix)
SrcIx(area, suffix) == Ix(area, "source", "Sources", ".", suffix)
FlatIx(name, suffix) == Ix(".", ".", name, ".", suffix)
At(s, p) == [suite |-> s, file |-> p]

Announced == Ix("main", "dist-upgrader", "ReleaseAnnouncement", "all", "gz")
Extra == {Ix("main", "i18n", "Translation", ".", "xz"), Ix("main", ".", "Contents", "arm", "gz"),
          Ix("main", ".", "Contents-diff", "amd64", "none"), Ix(".", ".", "Release", ".", "none"),
          Ix("main", "source", "Sources", ".", "bz2"), Announced}
Binary(suffixes) ==
    {Pkg(a, b, c) : a \in {"main", "contrib"}, b \in {"amd64", "armhf"}, c \in suffixes}
SourceIx(suffixes) == {SrcIx(a, c) : a \in {"main", "contrib"}, c \in suffixes}
All(suffixes) == {Pkg("main", "all", c) : c \in suffixes}
FlatAll(suffixes) == {FlatIx(n, c) : n \in {"Packages", "Sources"}, c \in suffixes}

(* Of every path a size and a digest, of the types that are given. *)
ListingOf(paths, types, size, digest) ==
    [t \in HashTypes |-> [p \in IF t \in types THEN paths ELSE {} |-> [size |-> size, digest |-> digest]]]
Rel(hash, signature, listing) == [byHash |-> hash, signature |-> signature, listing |-> listing]

Compressed == {"xz", "gz"}
Every(suffixes) == Binary(suffixes) \cup SourceIx(suffixes) \cup All(suffixes) \cup Extra
Simple(paths) == Rel(FALSE, "good", ListingOf(paths, {"SHA256"}, 1, "d"))
Only(f, r) == [g \in {f} |-> r]
InS(found) == [x \in Suite |-> IF x = "s" THEN found ELSE NoFiles]
InBoth(found, flatFound) == [x \in Suite |-> IF x = "s" THEN found ELSE flatFound]
------------------------------------------------------------------------------
(* What indexes say *)

L(key, value) == [key |-> key, value |-> value]
PathLine(d, n) == [key |-> "path", value |-> [directory |-> d, name |-> n], safe |-> TRUE]
Unsafe(d, n) == [PathLine(d, n) EXCEPT !.safe = FALSE]
DirLine(d) == [key |-> "directory", value |-> d, safe |-> TRUE]
SizedLine(n, sum, size) == [key |-> "file", value |-> n, sum |-> sum, size |-> size, safe |-> TRUE]
FileLine(n, sum) == SizedLine(n, sum, 1)
Marker(key) == [key |-> key]

PackagesText ==
    <<L("package", "a"), L("section", "net"), PathLine("pool", "a.deb"), L("size", 1),
      L("hash", <<"SHA256", "c1">>), L("hash", <<"MD5Sum", "c2">>), Marker("end"),
      L("package", "ab"), L("source", "b"), L("tags", {"role::dev"}), L("more", {"lang::c"}),
      Marker("other"), L("more", {"role::dev"}), PathLine("pool", "b.deb"), L("size", 1), Marker("end"),
      L("package", "b"), L("tags", {"role::dev"}), Unsafe("pool", "b.deb"), L("size", 1), Marker("end"),
      Marker("end")>>
OtherText ==
    <<PathLine("pool", "a.deb"), L("hash", <<"SHA256", "c2">>), L("size", 0), L("size", 1),
      L("package", "a"), Marker("end"),
      PathLine("pool", "b.deb"), L("package", "b"), L("size", 1), L("tags", {"role::dev"}), Marker("end")>>
SourcesText ==
    <<L("package", "a"), L("section", "net"), L("files", "MD5Sum"), FileLine("a.dsc", "c1"),
      FileLine("a.tar.xz", "c2"), L("files", "SHA256"), SizedLine("a.tar.xz", "c1", 2), L("more", {}),
      DirLine("pool"), Marker("other"), FileLine("b.deb", "c1"), Marker("end"),
      L("package", "b"), L("files", "SHA256"), FileLine("a.tar.xz", "c2"), Marker("end")>>

MCTexts ==
    [k \in {At("s", Pkg("main", "amd64", "none")), At("f/", FlatIx("Packages", "none"))} |-> PackagesText]
      @@ [k \in {At("s", Pkg("main", "armhf", "none")), At("s", Pkg("contrib", "amd64", "none"))} |-> OtherText]
      @@ [k \in {At("s", SrcIx("main", "none")), At("f/", FlatIx("Sources", "none"))} |-> SourcesText]
------------------------------------------------------------------------------
(* Servers *)

Pools == [directory : {"pool"}, name : {"a.deb", "b.deb", "a.dsc", "a.tar.xz"}]
Indexes(suffixes) ==
    {At("s", p) : p \in Every(suffixes)} \cup {At("f/", p) : p \in FlatAll(suffixes)}
Server(releases, served, bad, left) ==
    [releases |-> releases, served |-> served \cup Pools, bad |-> bad, left |-> left, texts |-> MCTexts]

Xz(p) == At("s", [p EXCEPT !.suffix = "xz"])
Old == {Xz(p) : p \in Every({"none"})} \cup {At("s", p) : p \in Every({"none"})}
FlatFound == Only("Release", Simple(FlatAll(Compressed)))

Two(first, second) == ("InRelease" :> first) @@ ("Release" :> second)
Md5(paths, size) == Rel(TRUE, "none", ListingOf(paths, {"MD5Sum"}, size, "d"))
Sha(paths, digest) == Rel(TRUE, "good", ListingOf(paths, {"SHA256", "SHA512"}, 1, digest))

MCUpstreams == {
    (* all there, by hash or not, InRelease and Release alike or with different digests *)
    Server(InBoth(Only("InRelease", Simple(Every(Compressed))), FlatFound), Indexes(Compressed), {}, {}),
    Server(InBoth(Two(Sha(Every(Compressed), "d"), Md5(Every({"xz", "none"}), 1)), FlatFound),
           Indexes({"xz", "none"}), {}, Old),
    Server(InS(Two(Sha(Every(Compressed), "d"), Sha(Every({"xz"}), "d"))), Indexes(Compressed), {}, {}),
    (* release files that disagree, that are not signed, or not there *)
    Server(InS(Two(Sha(Every({"xz"}), "d"), Sha(Every({"xz"}), "e"))), Indexes({"xz"}), {}, {}),
    Server(InS(Two(Sha(Every({"xz"}), "d"), Md5(Every({"xz"}), 2))), Indexes({"xz"}), {}, {}),
    Server(InS(Only("InRelease", [Simple(Every({"gz"})) EXCEPT !.signature = "bad"])),
           Indexes({"gz"}), {}, {}),
    Server(InS(Only("Release", Md5(Every({"gz"}), 1))), Indexes({"gz"}), {}, Old),
    Server(InS(NoFiles), {}, {}, Old),
    (* compressions that changed or are damaged since an earlier run, and what is gone *)
    Server(InS(Only("InRelease", Simple(Every(Compressed)))), Indexes({"gz"}), {}, Old),
    Server(InS(Only("InRelease", Simple(Every({"xz", "none"})))), Indexes({"xz", "none"}),
           {Xz(p) : p \in Binary({"xz"})} \cup {At("s", Announced)}, Old),
    Server(InS(Only("InRelease", Simple(Every({"xz"})))),
           {At("s", p) : p \in Every({"xz"}) \ {Pkg("main", "amd64", "xz")}}, {}, Old),
    Server(InS(Only("InRelease", Simple(Binary({"gz"}) \cup All({"gz"})))), Indexes({"gz"}),
           [directory : {"pool"}, name : {"a.deb", "b.deb", "a.tar.xz"}], {}) }
=============================================================================
