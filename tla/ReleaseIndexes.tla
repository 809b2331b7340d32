---------------------------- MODULE ReleaseIndexes ---------------------------
(***************************************************************************)
(* From release files to the indexes of a repository: whether release      *)
(* files agree, which of the files they list are wanted, and which indexes *)
(* will be parsed (BaseRepository, Repository and FlatRepository).         *)
(*                                                                         *)
(* A listed path main/binary-amd64/Packages.xz is a record of its parts;   *)
(* "." is a part that is not there.  `arch in path' of the code is true    *)
(* of an architecture and of any other it is a substring of: Within.       *)
(***************************************************************************)
EXTENDS Configuration, DownloadFiles

CONSTANTS
    Within,    \* <<a, b>>: the name of architecture a is a part of that of b
    Digest,    \* digests in release files
    Below,     \* <<v, path>>: the path is v, or below it
    Main       \* the component dist-upgraders are in

Dirs == {"binary", "source", "i18n", "cnf", "dep11", "dist-upgrader", "."}
Names == {"Packages", "Sources", "Translation", "Commands", "Components",
          "Contents", "Contents-diff", "Release", "ReleaseAnnouncement"}

(* Directories and files whose names end in an architecture. *)
ArchDirs == {"binary", "dist-upgrader"}
ArchNames == {"Commands", "Components", "Contents", "Contents-diff"}

Listed ==
    {p \in [area : Component \cup {"."}, dir : Dirs, name : Names,
            arch : Arch \cup {"all", "source", "."}, suffix : Compressions] :
        p.dir \in ArchDirs \/ p.name \in ArchNames \/ p.arch = "."}

ReleaseFiles == {"InRelease", "Release"}
Entries == [size : Nat, digest : Digest]

(* uncompressed_path *)
Stem(p) == [p EXCEPT !.suffix = "none"]

(* The directory a path is in; its by-hash files are below that. *)
Folder(s, p) == <<s, p.area, p.dir, IF p.dir = "binary" THEN p.arch ELSE ".">>

(* Faulty variant: the files of binary-all are for no architecture. *)
MentionsItself(p, arches) == p.arch \in arches \ {"all"}

Mentions(p, arches) == \E a \in arches : a = p.arch \/ <<a, p.arch>> \in Within
------------------------------------------------------------------------------
(* What a codename wants *)

ComponentsOf(u, s) == {c \in Component : <<u, s, c>> \in DOMAIN parts}
ArchesOf(u, s, c) == lists[parts[<<u, s, c>>].list]
SuitesOf(u) == {s \in Suite : <<u, s>> \in DOMAIN suites}

MirrorsSource(u, s) == \E c \in ComponentsOf(u, s) : parts[<<u, s, c>>].source
MirrorsBinaries(u, s) == \E c \in ComponentsOf(u, s) : ArchesOf(u, s, c) # {}
AllArches(u, s) ==
    LET named == UNION {ArchesOf(u, s, c) : c \in ComponentsOf(u, s)}
    IN  IF named = {} THEN {} ELSE named \cup {"all"}

(* Repository._metadata_file_allowed *)
AllowedIn(u, s, p) ==
    /\ ~MirrorsSource(u, s) => ~(p.dir = "source" \/ (p.name = "Contents" /\ p.arch = "source"))
    /\ ~MirrorsBinaries(u, s) => p.dir \notin {"binary", "cnf", "dep11", "i18n"}
    /\ p.area \in ComponentsOf(u, s) \/ (p.area = "." /\ p.dir = ".")
    /\ p.dir # "dist-upgrader"
    /\ p.dir = "binary" => Mentions(p, ArchesOf(u, s, p.area) \cup {"all"})
    /\ (p.name \in {"Commands", "Components", "Contents"} /\ p.arch # "source") =>
            Mentions(p, AllArches(u, s))
    /\ p.name # "Contents-diff"

(* FlatRepository._metadata_file_allowed *)
AllowedFlat(u, d, p) ==
    /\ ~folders[<<u, d>>].source => p.name # "Sources"
    /\ ~folders[<<u, d>>].binaries => p.name # "Packages"

Allowed(u, s, p) == IF s \in Flat THEN AllowedFlat(u, s, p) ELSE AllowedIn(u, s, p)

(* packages_files and sources_files, without compression. *)
Plain(s, area, dir, name, arch) ==
    [suite |-> s, file |-> [area |-> area, dir |-> dir, name |-> name, arch |-> arch,
                            suffix |-> "none"]]

PackagesFiles(u) ==
    {Plain(s, ".", ".", "Packages", ".") : s \in SuitesOf(u) \cap Flat}
      \cup UNION {UNION {{Plain(s, c, "binary", "Packages", a) : a \in ArchesOf(u, s, c) \cup {"all"}} :
                            c \in {x \in ComponentsOf(u, s) : ArchesOf(u, s, x) # {}}} :
                    s \in SuitesOf(u) \ Flat}

SourcesFiles(u) ==
    {Plain(s, ".", ".", "Sources", ".") : s \in SuitesOf(u) \cap Flat}
      \cup UNION {{Plain(s, c, "source", "Sources", ".") :
                            c \in {x \in ComponentsOf(u, s) : parts[<<u, s, x>>].source}} :
                    s \in SuitesOf(u) \ Flat}

BinariesEnabled(u) ==
    \/ \E s \in SuitesOf(u) \ Flat : MirrorsBinaries(u, s)
    \/ \E s \in SuitesOf(u) \cap Flat : folders[<<u, s>>].binaries
SourcesEnabled(u) ==
    \/ \E s \in SuitesOf(u) \ Flat : MirrorsSource(u, s)
    \/ \E s \in SuitesOf(u) \cap Flat : folders[<<u, s>>].source
------------------------------------------------------------------------------
(* Release files *)

(* A release file: does it offer by-hash, how is it signed, what does it list of a type. *)
IsReleaseFile(r) ==
    /\ DOMAIN r = {"byHash", "signature", "listing"}
    /\ r.byHash \in BOOLEAN /\ r.signature \in {"none", "good", "bad"}
    /\ DOMAIN r.listing = HashTypes
    /\ \A t \in HashTypes : \A p \in DOMAIN r.listing[t] : p \in Listed /\ r.listing[t][p] \in Entries

IsRelease(p) == p.name = "Release" /\ p.dir = "." /\ p.area = "." /\ p.suffix = "none"
Sized(r, t) == {p \in DOMAIN r.listing[t] : r.listing[t][p].size > 0 /\ ~IsRelease(p)}

(* _validate_release_file_signature: an InRelease file is its own signature. *)
Gpg(u) ==
    IF \E v \in {"off", "on", "force"} : <<u, "gpg_verify", v>> \in settings
    THEN CHOOSE v \in {"off", "on", "force"} : <<u, "gpg_verify", v>> \in settings ELSE "off"

Signed(policy, f, r) ==
    \/ policy = "off"
    \/ r.signature = "good"
    \/ r.signature = "none" /\ f = "Release" /\ policy # "force"

(* Faulty variant: the entries of one file are compared, not those of two. *)
AgreeAlone(found) ==
    \A f \in DOMAIN found, t, k \in HashTypes :
        \A p \in Sized(found[f], t) \cap Sized(found[f], k) :
            found[f].listing[t][p].size = found[f].listing[k][p].size

(* validate_release_files: of one codename, all sizes of a path and all its digests of one
   type are equal. *)
Agree(found) ==
    \A f, g \in DOMAIN found, t, k \in HashTypes :
        \A p \in Sized(found[f], t) \cap Sized(found[g], k) :
            /\ found[f].listing[t][p].size = found[g].listing[k][p].size
            /\ t = k => found[f].listing[t][p].digest = found[g].listing[t][p].digest

ValidReleases(u, found) ==
    /\ \E s \in DOMAIN found : found[s] # <<>>
    /\ \A s \in DOMAIN found :
        /\ Agree(found[s])
        /\ \A f \in DOMAIN found[s] : Signed(Gpg(u), f, found[s][f])

(* The policy decides over what the release file offers. *)
UseHash(policy, offered) == IF offered THEN policy # "no" ELSE policy = "force"

(* get_metadata_files on one release file: an entry has all its digests, and one size. *)
TypesOf(r, p) == {t \in HashTypes : p \in Sized(r, t)}
SizeOf(r, p) == r.listing[CHOOSE t \in TypesOf(r, p) : TRUE][p].size
HashesOf(r, p) == {<<t, r.listing[t][p].digest>> : t \in TypesOf(r, p)}
Wanted(u, s, r) == {p \in UNION {Sized(r, t) : t \in HashTypes} : Allowed(u, s, p)}

(* The path is taken as the release file has it, from the release file's directory on. *)
IgnoredIndex(u, x) == \E v \in Value : <<u, "ignore_errors", v>> \in settings /\ <<v, x>> \in Below

(* from_hashed_path and add_compression_variant for the entries of one index. *)
Entered(u, s, r, x, file) ==
    LET mine == {p \in Wanted(u, s, r) : Stem(p) = x}
        use == UseHash(suites[<<u, s>>].byHash, r.byHash)
        with(c) == LET p == [x EXCEPT !.suffix = c]
                   IN  AddVariant(file, c, [suite |-> s, file |-> p], SizeOf(r, p), HashesOf(r, p), use)
        suffixes == {p.suffix : p \in mine}
    IN  [file EXCEPT !.ignored = IgnoredIndex(u, x),
                     !.variants = [c \in DOMAIN file.variants \cup suffixes |->
                        IF c \in suffixes THEN with(c).variants[c] ELSE file.variants[c]]]

(* The indexes asked for once release file r of codename s is read. *)
WithRelease(u, s, r, files) ==
    LET mine == {[suite |-> s, file |-> Stem(p)] : p \in Wanted(u, s, r)}
    IN  [k \in DOMAIN files \cup mine |->
            IF k \notin mine THEN files[k]
            ELSE Entered(u, s, r, k.file, IF k \in DOMAIN files THEN files[k] ELSE NewFile(k, "none"))]

(* InRelease is read before Release. *)
OfCodename(u, s, found) ==
    LET first == IF "InRelease" \in DOMAIN found THEN WithRelease(u, s, found["InRelease"], NoFiles)
                 ELSE NoFiles
    IN  IF "Release" \in DOMAIN found THEN WithRelease(u, s, found["Release"], first) ELSE first

(* Repository.get_metadata_files: announcements and tarballs ("gz") no release file lists. *)
Upgraders(u) ==
    IF <<u, "mirror_dist_upgrader", "on">> \in settings
    THEN [suite : {s \in Suite : <<u, s, Main>> \in DOMAIN parts},
          file : [area : {Main}, dir : {"dist-upgrader"}, name : {"ReleaseAnnouncement"},
                  arch : {"all"}, suffix : {"none", "gz"}]]
    ELSE {}

MetadataFiles(u, found) ==
    LET of == [s \in DOMAIN found |-> OfCodename(u, s, found[s])]
        keys == UNION {DOMAIN of[s] : s \in DOMAIN of}
    IN  [k \in keys \cup Upgraders(u) |->
            IF k \in keys THEN of[k.suite][k] ELSE [NewFile(k, k.file.suffix) EXCEPT !.optional = TRUE]]
=============================================================================
