------------------------------ MODULE Selection ------------------------------
(***************************************************************************)
(* From the configuration to the files of the pool: a repository that the  *)
(* configuration asks for reads its release files, fetches the indexes     *)
(* they list, cleans skel, parses the indexes and fetches the files they   *)
(* list.  What can be had is settled here once, by `upstream'; retries and *)
(* changes of the server are the matter of Download and RepositoryMirror.  *)
(***************************************************************************)
EXTENDS ReleaseIndexes, IndexParser

CONSTANT Upstreams    \* what a server may have

VARIABLES
    stage,       \* "config", "releases", "indexes", "clean", "parse", "done" or "failed"
    chosen,      \* the repository that is mirrored
    upstream,    \* what the server has
    files,       \* the indexes that are wanted
    fetched,     \* the compressions they were fetched in
    missing,     \* the indexes and files that could not be had
    skel,        \* the files in skel, each of this run ("new") or of an earlier one ("old")
    unparsed,    \* for each parser, the indexes it still has to read
    parsed,      \* history: the indexes that were read, and how old they were
    installed    \* the files of the pool that were fetched, with the variant of each

selectionVars == <<stage, chosen, upstream, files, fetched, missing, skel, unparsed, parsed, installed>>
vars == <<configVars, parserVars, selectionVars>>

(* releases: the release files of a codename; served: the paths the server has; bad: those
   it has with another content than listed; left: what an earlier run left in skel; texts:
   what the indexes say. *)
Paths == [suite : Suite, file : Listed] \cup Path
IsUpstream(x) ==
    /\ DOMAIN x = {"releases", "served", "bad", "left", "texts"}
    /\ DOMAIN x.releases = Suite
    /\ \A s \in Suite : /\ DOMAIN x.releases[s] \subseteq ReleaseFiles
                        /\ \A f \in DOMAIN x.releases[s] : IsReleaseFile(x.releases[s][f])
    /\ x.served \subseteq Paths /\ x.bad \subseteq x.served /\ x.left \subseteq Paths
    /\ \A k \in DOMAIN x.texts : x.texts[k] \in Seq(TextLines)

ASSUME SelectionAssumption == \A x \in Upstreams : IsUpstream(x)

Text(k) == IF k \in DOMAIN upstream.texts THEN upstream.texts[k] ELSE <<>>
------------------------------------------------------------------------------
Configure ==
    /\ stage = "config"
    /\ ConfigNext
    /\ UNCHANGED <<parserVars, selectionVars>>

(* RepositoryMirror: one for each repository of the configuration. *)
Choose ==
    /\ stage = "config" /\ phase = "done"
    /\ \E u \in known :
        /\ chosen' = u
        /\ job' = [kind |-> "sources",
                   filter |-> [f \in Filters |-> {v \in Value : <<u, f, v>> \in settings}],
                   ignored |-> {p \in Path : \E v \in Value :
                                    <<u, "ignore_errors", v>> \in settings /\ <<v, p>> \in Below}]
    /\ \E x \in Upstreams :
        /\ upstream' = x
        /\ skel' = [p \in x.left |-> "old"]
    /\ stage' = "releases"
    /\ UNCHANGED <<configVars, files, fetched, missing, unparsed, parsed, installed,
                   text, block, pool, stanza, finished>>

(* What could not be had is not in skel; Release.gpg is the signature of Release. *)
Found == [s \in SuitesOf(chosen) |-> upstream.releases[s]]

(* download_release_files and get_metadata_files *)
ReadReleases ==
    /\ stage = "releases"
    /\ IF ValidReleases(chosen, Found)
       THEN /\ files' = MetadataFiles(chosen, Found)
            /\ stage' = IF files' = NoFiles THEN "failed" ELSE "indexes"
       ELSE stage' = "failed" /\ UNCHANGED files
    /\ UNCHANGED <<configVars, parserVars, chosen, upstream, fetched, missing, skel, unparsed,
                   parsed, installed>>
------------------------------------------------------------------------------
(* Fetching: variants in their order; what is not as listed is refused by its hashes *)

(* Faulty variant: what has the right name is taken. *)
AcceptedByName(v) == v.path \in upstream.served

Accepted(v) == v.path \in upstream.served /\ (v.path \in upstream.bad => v.hashes = {})
Had(file) == {c \in DOMAIN file.variants : Accepted(file.variants[c])}
Lost(file) == Had(file) = {} /\ ~file.ignored /\ ~file.optional

IndexPaths(k, c) == AllPaths(files[k].variants[c], Folder(k.suite, k.file))
MissingSources ==
    UNION {UNION {IndexPaths(k, c) : c \in DOMAIN files[k].variants} : k \in missing \cap DOMAIN files}
FetchedPaths == UNION {IndexPaths(k, fetched[k]) : k \in DOMAIN fetched}

FetchIndexes ==
    /\ stage = "indexes" /\ stage' = "clean"
    /\ fetched' = [k \in {x \in DOMAIN files : Had(files[x]) # {}} |-> FirstOf(files[k], Had(files[k]))]
    /\ missing' = {k \in DOMAIN files : Lost(files[k])}
    /\ LET new == UNION {IndexPaths(k, fetched'[k]) : k \in DOMAIN fetched'}
       IN  skel' = [p \in DOMAIN skel \cup new |-> IF p \in new THEN "new" ELSE "old"]
    /\ UNCHANGED <<configVars, parserVars, chosen, upstream, files, unparsed, parsed, installed>>

(* Faulty variant: an index is kept in every compression. *)
KeptAll == UNION {UNION {IndexPaths(k, c) : c \in DOMAIN files[k].variants} : k \in DOMAIN files}

(* clean_repository_skel keeps what was fetched in this run. *)
Kept == FetchedPaths \ MissingSources

CleanSkel ==
    /\ stage = "clean" /\ stage' = "parse"
    /\ skel' = [p \in DOMAIN skel \cap Kept |-> skel[p]]
    /\ unparsed' = [sources |-> IF SourcesEnabled(chosen) THEN SourcesFiles(chosen) \ MissingSources ELSE {},
                    packages |-> IF BinariesEnabled(chosen) THEN PackagesFiles(chosen) \ MissingSources ELSE {}]
    /\ UNCHANGED <<configVars, parserVars, chosen, upstream, files, fetched, missing, parsed, installed>>
------------------------------------------------------------------------------
(* get_pool_files: Sources, then Packages, each in any order *)

Turn == IF unparsed.sources # {} THEN "sources" ELSE "packages"

(* _unpack_index: the first compression that is there, and only then what is unpacked. *)
Unpacked(k) ==
    LET with(c) == [k EXCEPT !.file.suffix = c]
        there == {c \in Compressions : with(c) \in DOMAIN skel}
    IN  IF there = {} THEN "none"
        ELSE skel[with(CHOOSE c \in there : \A d \in there : Rank[c] <= Rank[d])]

ParseIndex ==
    /\ stage = "parse"
    /\ \E k \in unparsed[Turn] :
        /\ unparsed' = [unparsed EXCEPT ![Turn] = @ \ {k}]
        /\ IF Unpacked(k) = "none"
           THEN UNCHANGED <<skel, parsed, parserVars>> /\ text = <<>>
           ELSE /\ OpenIndex(Turn, IF Unpacked(k) = "new" THEN Text(k) ELSE <<>>)
                /\ parsed' = parsed \cup {<<k, Unpacked(k)>>}
                /\ skel' = [p \in DOMAIN skel \cup {k} |-> IF p = k THEN Unpacked(k) ELSE skel[p]]
    /\ UNCHANGED <<configVars, stage, chosen, upstream, files, fetched, missing, installed>>

ParseLine ==
    /\ stage = "parse"
    /\ ReadText
    /\ UNCHANGED <<configVars, selectionVars>>

(* The parsers' files become one set; a path may be in it twice. *)
Pool == UNION {{pool[k][p] : p \in DOMAIN pool[k]} : k \in Kinds}

FetchPool ==
    /\ stage = "parse" /\ text = <<>>
    /\ unparsed.sources = {} /\ unparsed.packages = {}
    /\ stage' = "done"
    /\ installed' = {<<f, FirstOf(f, Had(f))>> : f \in {g \in Pool : Had(g) # {}}}
    /\ missing' = missing \cup {f.path : f \in {g \in Pool : Lost(g)}}
    /\ UNCHANGED <<configVars, parserVars, chosen, upstream, files, fetched, skel, unparsed, parsed>>

Init ==
    /\ ConfigInit
    /\ stage = "config" /\ chosen = None
    /\ upstream = [releases |-> NoFiles, served |-> {}, bad |-> {}, left |-> {}, texts |-> NoFiles]
    /\ files = NoFiles /\ fetched = NoFiles /\ missing = {} /\ skel = NoFiles
    /\ unparsed = [sources |-> {}, packages |-> {}] /\ parsed = {} /\ installed = {}
    /\ job = [kind |-> "sources", filter |-> [f \in Filters |-> {}], ignored |-> {}]
    /\ text = <<>> /\ block = EmptyBlock /\ stanza = <<>>
    /\ pool = [k \in Kinds |-> NoFiles] /\ finished = [k \in Kinds |-> {}]

Mirror == Choose \/ ReadReleases \/ FetchIndexes \/ CleanSkel \/ ParseIndex \/ ParseLine \/ FetchPool
Next == Configure \/ Mirror

Spec == Init /\ [][Next]_vars
------------------------------------------------------------------------------
(* Properties *)

TypeOK ==
    /\ ConfigTypeOK
    /\ stage \in {"config", "releases", "indexes", "clean", "parse", "done", "failed"}
    /\ chosen \in known \cup {None}
    /\ stage # "config" => upstream \in Upstreams
    /\ DOMAIN fetched \subseteq DOMAIN files
    /\ \A k \in DOMAIN fetched : fetched[k] \in DOMAIN files[k].variants
    /\ \A p \in DOMAIN skel : skel[p] \in {"new", "old"}
    /\ unparsed.sources \cup unparsed.packages \subseteq [suite : Suite, file : Listed]
    /\ \A k \in Kinds : DOMAIN pool[k] \subseteq Path

(* What any line of the configuration asks for is mirrored, over all the rules between: if
   the run finds nothing missing, then every index of Packages of an architecture a line
   names for a component (or of no architecture), and of Sources where a line asks for them,
   that a release file lists in any compression, is parsed, and in the form of this run. *)
ListedIn(s) ==
    UNION {UNION {Sized(upstream.releases[s][f], t) : t \in HashTypes} : f \in DOMAIN upstream.releases[s]}

AskedFor(r, p) ==
    \/ /\ p.name = "Packages" /\ r.arches # {}
       /\ p.dir = "binary" /\ p.area \in r.components /\ p.arch \in r.arches \cup {"all"}
    \/ p.name = "Sources" /\ r.source /\ p.dir = "source" /\ p.area \in r.components

AskedInFlat(r, p) ==
    /\ p.area = "." /\ p.dir = "."
    /\ \/ p.name = "Packages" /\ r.arches # {}
       \/ p.name = "Sources" /\ r.source

AskedIsParsed ==
    (stage = "done" /\ missing = {}) =>
        \A r \in {q \in asked : q.url = chosen} : \A s \in r.suites : \A p \in ListedIn(s) :
            (IF s \in Flat THEN AskedInFlat(r, p) ELSE AskedFor(r, p)) =>
                LET k == [suite |-> s, file |-> Stem(p)]
                IN  <<k, "new">> \in parsed \/ (k \in DOMAIN files /\ files[k].ignored)

(* No index of an earlier run is parsed. *)
ParsedIsFetched == \A x \in parsed : x[2] = "new"

(* An index is asked for in the size and with all the digests that each of the release
   files lists for it, so it cannot be fetched as one of them has it and not as another. *)
VariantsAreListed ==
    \A k \in DOMAIN files : \A c \in DOMAIN files[k].variants :
        LET v == files[k].variants[c]
        IN  v.hashes # {} =>
                \A f \in DOMAIN upstream.releases[k.suite], t \in HashTypes :
                    LET r == upstream.releases[k.suite][f]
                    IN  v.path.file \in Sized(r, t) =>
                            /\ v.size = r.listing[t][v.path.file].size
                            /\ <<t, r.listing[t][v.path.file].digest>> \in v.hashes

(* Nothing whose hashes are known is kept with another content, neither an index that is
   listed without compression, nor a file of the pool, in whatever compression, unless a
   stanza that the filter lets through lists it without any checksum.  ("Final files are
   replaced only after size/hash checks", README.md.)  An index that is listed only
   compressed is another matter: from_hashed_path has given it a plain variant without
   hashes, which takes what the others refused. *)
KeptIsVerified ==
    /\ \A k \in DOMAIN fetched :
        k.file \in ListedIn(k.suite) /\ ~files[k].optional =>
            files[k].variants[fetched[k]].path \notin upstream.bad
    /\ \A x \in installed : x[1].variants[x[2]].path \in upstream.bad =>
        \E kind \in Kinds : \E lines \in finished[kind] :
            IsListed(x[1], kind, lines, x[1].path) /\ SumsIn(kind, lines, x[1].path) = {}
=============================================================================
