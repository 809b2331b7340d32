-------------------------- MODULE RepositoryMirror --------------------------
(***************************************************************************)
(* One repository, mirrored by one process after another:                  *)
(* RepositoryMirror.mirror.                                                *)
(*                                                                         *)
(* A round downloads the release files and the indexes they list to the    *)
(* skel directory and the packages the indexes list to the pool.  After a  *)
(* round without errors the metadata is published and the mirror cleaned;  *)
(* after one with errors, the release files are asked for once more.       *)
(* Meanwhile the upstream repository may move on to another snapshot, and  *)
(* the process may be killed between any two steps.                        *)
(*                                                                         *)
(* A metadata file is abstracted to the snapshot it belongs to, a package  *)
(* to its name: a package is never changed under its name.                 *)
(***************************************************************************)
EXTENDS Integers, FiniteSets, FileSizes

CONSTANTS
    Releases,      \* the release files of the repository
    Indexes,       \* the indexes the configuration selects
    Packages,
    Kept,          \* skip-clean paths in the folder of the metadata
    Lists,         \* Lists[v]: the indexes listed by the release files of snapshot v
    Plain,         \* Plain[v]: those of them it lists without compression, too
    Needs,         \* Needs[i][v]: the packages index i lists in snapshot v
    IgnoreErrors,  \* indexes and packages matched by ignore_errors
    MaxVersion,    \* bound: upstream snapshots
    ReleaseTries,  \* release_files_retries
    Dated,         \* the servers send Last-Modified and Content-Length
    Moved,         \* the folder is moved (use_dists_move, and no package is below it)
    Clean,         \* the repository is cleaned, with autoclean
    Size,          \* the sizes of packages and metadata files
    WipeCountRatio, WipeSizeRatio, \* in percent; 0 disables the protection
    MaxRuns,       \* bound: processes started one after another
    NoTree         \* no such directory

Versions == 1..MaxVersion
Meta == Releases \cup Indexes \cup Kept

ASSUME RepositoryAssumption ==
    /\ {Lists, Plain} \subseteq [Versions -> SUBSET Indexes]
    /\ Needs \in [Indexes -> [Versions -> SUBSET Packages]]
    /\ Releases \cap (Indexes \cup Kept) = {} /\ Indexes \cap Kept = {}
    /\ Packages \cap Meta = {}
    /\ IgnoreErrors \subseteq Indexes \cup Packages
    /\ IsFiniteSet(Meta \cup Packages)

ASSUME ParameterAssumption ==
    /\ MaxVersion \in Nat \ {0} /\ ReleaseTries \in Nat \ {0} /\ MaxRuns \in Nat
    /\ Size \in [Meta \cup Packages -> Nat]
    /\ WipeCountRatio \in 0..100 /\ WipeSizeRatio \in 0..100
    /\ {Dated, Moved, Clean} \subseteq BOOLEAN

(* A directory: the snapshot each file in it belongs to, 0 if it is not there. *)
Trees == [Meta -> {0} \cup Versions]
Empty == [m \in Meta |-> 0]

ASSUME NoTreeAssumption == NoTree \notin Trees

VARIABLES
    upstream,  \* the snapshot the servers hold
    skel,      \* the skel directory
    dists,     \* the published metadata
    new,       \* dists.apt_mirror_new
    old,       \* dists.apt_mirror_old
    pool,      \* the packages in the mirror
    pc,        \* where mirror() stands, or what it has returned: "ok", "failed"
    queue,     \* the files the step at hand has yet to deal with
    report,    \* the downloader's lists and counters
    error,     \* _error
    recheck,   \* recheck_release_files
    tries,     \* the tries left of download_release_files
    metadata,  \* downloaded_metadata_files
    run        \* number of processes started

trees == <<skel, dists, new, old, pool>>
round == <<error, recheck, tries, metadata>>
vars == <<upstream, trees, pc, queue, report, round, run>>
------------------------------------------------------------------------------
(* The downloader, as mirror() sees it *)

NoReport == [found |-> {}, missing |-> {}, fresh |-> FALSE, failed |-> FALSE]

(* add(), which resets the counters, and the start of download(). *)
Ask(phase, files, lists) ==
    /\ pc' = phase
    /\ queue' = files
    /\ report' = [lists EXCEPT !.fresh = FALSE, !.failed = FALSE]

(* reset_paths(), and the request for the release files. *)
AskReleases == Ask("release", Releases, NoReport)

Deal(phase, f) ==
    /\ pc = phase /\ f \in queue
    /\ queue' = queue \ {f}
    /\ UNCHANGED <<upstream, dists, new, old, pc, round, run>>

Found(f, downloaded) ==
    report' = [report EXCEPT !.found = @ \cup {f}, !.fresh = @ \/ downloaded]

(* Not there, or not to be had.  The two have the same effect: has_errors() or
   has_missing(), and an entry in _missing_sources. *)
Unavailable(f) ==
    /\ report' = IF f \in IgnoreErrors THEN report
                 ELSE [report EXCEPT !.missing = @ \cup {f}, !.failed = TRUE]
    /\ UNCHANGED <<skel, pool>>

(* get_downloaded_files_paths() *)
Downloaded == report.found \ report.missing
------------------------------------------------------------------------------
(* The release files *)

(* Faulty variant: a file that was there already is counted, too. *)
CountedAlways(r) == TRUE

(* The file is new, or nothing tells that it is not. *)
Counted(r) == skel[r] # upstream \/ ~Dated

FetchRelease(r) ==
    /\ Deal("release", r)
    /\ skel' = [skel EXCEPT ![r] = upstream]
    /\ Found(r, Counted(r))
    /\ UNCHANGED pool

(* Release files are optional: 404 is no failure. *)
ReleaseMissing(r) ==
    /\ Deal("release", r)
    /\ UNCHANGED <<skel, pool, report>>

ReleaseFails(r) ==
    /\ Deal("release", r)
    /\ Unavailable(r)

(* Release files that were not downloaded are dropped. *)
Dropped == [m \in Meta |-> IF m \in Releases \ Downloaded THEN 0 ELSE skel[m]]

Present(tree) == {r \in Releases : tree[r] # 0}

(* validate_release_files *)
Valid(tree) ==
    /\ Present(tree) # {}
    /\ \A r, s \in Present(tree) : tree[r] = tree[s]

ReleaseVersion(tree) == CHOOSE v \in Versions : \E r \in Present(tree) : tree[r] = v

(* Faulty variant: one try too many. *)
LastTryMissed == tries - 1 < 0

LastTry == tries - 1 < 1

ReleasesInvalid ==
    /\ pc = "release" /\ queue = {}
    /\ ~Valid(Dropped)
    /\ skel' = Dropped
    /\ tries' = tries - 1
    /\ IF LastTry THEN pc' = "failed" /\ UNCHANGED <<queue, report>> ELSE AskReleases
    /\ UNCHANGED <<upstream, dists, new, old, pool, error, recheck, metadata, run>>

(* The loop is left: the metadata is moved, or not. *)
Finish(failed) ==
    /\ error' = failed
    /\ IF failed THEN pc' = "failed" /\ UNCHANGED queue
       ELSE pc' = (IF Moved THEN "unclutter" ELSE "link") /\ queue' = metadata'

NothingNew == recheck /\ ~report.fresh

RecheckInVain ==
    /\ pc = "release" /\ queue = {}
    /\ Valid(Dropped) /\ NothingNew
    /\ skel' = Dropped
    /\ UNCHANGED metadata
    /\ Finish(error \/ report.failed)
    /\ UNCHANGED <<upstream, dists, new, old, pool, report, recheck, tries, run>>

(* On to the indexes.  A recheck that has found something clears _error, the
   failures of this very download included. *)
ReleasesChecked ==
    LET indexes == Lists[ReleaseVersion(Dropped)] IN
    /\ pc = "release" /\ queue = {}
    /\ Valid(Dropped) /\ ~NothingNew
    /\ skel' = Dropped
    /\ recheck' = FALSE
    /\ IF indexes = {}
       THEN error' = TRUE /\ pc' = "failed" /\ UNCHANGED <<queue, report>>
       ELSE /\ error' = (~recheck /\ (error \/ report.failed))
            /\ Ask("metadata", indexes, report)
    /\ UNCHANGED <<upstream, dists, new, old, pool, tries, metadata, run>>
------------------------------------------------------------------------------
(* The indexes and the packages *)

(* Other content than the release files list is refused by its hash.  But an index they
   list only compressed has a plain variant without size and hashes, which is tried
   last: that is taken as the server has it. *)
Accepted(i) ==
    LET v == ReleaseVersion(skel) IN IF i \in Plain[v] THEN {v} ELSE {v, upstream}

FetchIndex(i) ==
    /\ Deal("metadata", i)
    /\ \E v \in Accepted(i) : skel' = [skel EXCEPT ![i] = v] /\ Found(i, skel[i] # v)
    /\ UNCHANGED pool

IndexUnavailable(i) ==
    /\ Deal("metadata", i)
    /\ Unavailable(i)

(* Faulty variant: old indexes stay in skel. *)
CleanedUncleaned == skel

(* clean_repository_skel: all but the files downloaded now. *)
Cleaned == [m \in Meta |-> IF m \in Downloaded THEN skel[m] ELSE 0]

(* get_pool_files: the configured indexes that are there are parsed. *)
PoolFiles(tree) ==
    UNION {Needs[i][tree[i]] : i \in {j \in Indexes \ report.missing : tree[j] # 0}}

MetadataFetched ==
    /\ pc = "metadata" /\ queue = {}
    /\ error' = (error \/ report.failed)
    /\ metadata' = report.found
    /\ skel' = Cleaned
    /\ Ask("pool", PoolFiles(Cleaned), report)
    /\ UNCHANGED <<upstream, dists, new, old, pool, recheck, tries, run>>

FetchPackage(p) ==
    /\ Deal("pool", p)
    /\ pool' = pool \cup {p}
    /\ Found(p, p \notin pool)
    /\ UNCHANGED skel

PackageUnavailable(p) ==
    /\ Deal("pool", p)
    /\ Unavailable(p)

PoolFetched ==
    /\ pc = "pool" /\ queue = {}
    /\ UNCHANGED metadata
    /\ IF error \/ report.failed
       THEN /\ error' = TRUE
            /\ recheck' = TRUE
            /\ tries' = ReleaseTries
            /\ AskReleases
       ELSE /\ Finish(FALSE)
            /\ UNCHANGED <<recheck, tries, report>>
    /\ UNCHANGED <<upstream, trees, run>>
------------------------------------------------------------------------------
(* move_metadata *)

(* Faulty variant: what a killed process has left is not removed. *)
UnclutteredAlways == TRUE

Uncluttered == new = NoTree /\ old = NoTree

Unclutter ==
    /\ pc = "unclutter"
    /\ \/ Uncluttered /\ pc' = "link" /\ UNCHANGED <<new, old>>
       \/ new # NoTree /\ new' = NoTree /\ UNCHANGED <<old, pc>>
       \/ old # NoTree /\ old' = NoTree /\ UNCHANGED <<new, pc>>
    /\ UNCHANGED <<upstream, skel, dists, pool, queue, report, round, run>>

With(tree, m) ==
    IF skel[m] = 0 THEN tree
    ELSE [(IF tree = NoTree THEN Empty ELSE tree) EXCEPT ![m] = skel[m]]

Link(m) ==
    /\ pc = "link" /\ m \in queue
    /\ queue' = queue \ {m}
    /\ IF Moved THEN new' = With(new, m) /\ UNCHANGED dists
       ELSE dists' = With(dists, m) /\ UNCHANGED new
    /\ UNCHANGED <<upstream, skel, old, pool, pc, report, round, run>>

(* Faulty variant: the folders are moved before all files are linked. *)
AllLinkedEarly == Moved /\ new # NoTree

AllLinked == queue = {}

Linked ==
    /\ pc = "link"
    /\ AllLinked
    /\ pc' = IF Moved /\ new # NoTree THEN "swap_out" ELSE "sweep"
    /\ queue' = {}
    /\ UNCHANGED <<upstream, trees, report, round, run>>

(* dists > dists.apt_mirror_old, over what may be there *)
SwapOut ==
    /\ pc = "swap_out"
    /\ pc' = "swap_in"
    /\ IF dists = NoTree THEN UNCHANGED <<dists, old>>
       ELSE old' = dists /\ dists' = NoTree
    /\ UNCHANGED <<upstream, skel, new, pool, queue, report, round, run>>

(* dists.apt_mirror_new > dists *)
SwapIn ==
    /\ pc = "swap_in"
    /\ pc' = "drop_old"
    /\ dists' = new /\ new' = NoTree
    /\ UNCHANGED <<upstream, skel, old, pool, queue, report, round, run>>

DropOld ==
    /\ pc = "drop_old"
    /\ pc' = "sweep"
    /\ old' = NoTree
    /\ UNCHANGED <<upstream, skel, dists, new, pool, queue, report, round, run>>
------------------------------------------------------------------------------
(* clean_repository, with PathCleaner *)

Stored == pool \cup (IF dists = NoTree THEN {} ELSE {m \in Meta : dists[m] # 0})

(* Faulty variant: the old metadata stays. *)
DoomedPackages == pool \ Downloaded

(* Faulty variant: skip_clean is forgotten. *)
DoomedKept == Stored \ Downloaded

Doomed == Stored \ (Downloaded \cup Kept)

Bytes(files) == TotalSize(files, Size)

(* The part is less than `percent' of the whole; 0 is no limit. *)
Below(part, whole, percent) == percent = 0 \/ whole = 0 \/ part * 100 < percent * whole

(* Faulty variant: the sizes are not looked at. *)
CleanAllowedByCount == Below(Cardinality(Doomed), Cardinality(Stored), WipeCountRatio)

(* _clean_allowed *)
CleanAllowed ==
    /\ Below(Bytes(Doomed), Bytes(Stored), WipeSizeRatio)
    /\ Below(Cardinality(Doomed), Cardinality(Stored), WipeCountRatio)

Sweep ==
    /\ pc = "sweep"
    /\ IF Clean /\ CleanAllowed
       THEN pc' = "clean" /\ queue' = Doomed
       ELSE pc' = "ok" /\ UNCHANGED queue
    /\ UNCHANGED <<upstream, trees, report, round, run>>

Remove(f) ==
    /\ pc = "clean" /\ f \in queue
    /\ queue' = queue \ {f}
    /\ pool' = pool \ {f}
    /\ dists' = IF f \in Meta THEN [dists EXCEPT ![f] = 0] ELSE dists
    /\ UNCHANGED <<upstream, skel, new, old, pc, report, round, run>>

Swept ==
    /\ pc = "clean" /\ queue = {}
    /\ pc' = "ok"
    /\ UNCHANGED <<upstream, trees, queue, report, round, run>>
------------------------------------------------------------------------------
(* The next process, after the end of this one or its death. *)
NewProcess ==
    /\ run < MaxRuns
    /\ run' = run + 1
    /\ AskReleases
    /\ error' = FALSE /\ recheck' = FALSE /\ tries' = ReleaseTries /\ metadata' = {}
    /\ UNCHANGED upstream

Restart == NewProcess /\ UNCHANGED trees

(* Killed in link_or_copy, between the unlink of the target and the link. *)
KilledWhileLinking ==
    /\ pc = "link" /\ ~Moved /\ dists # NoTree
    /\ \E m \in queue : dists' = [dists EXCEPT ![m] = 0]
    /\ NewProcess
    /\ UNCHANGED <<skel, new, old, pool>>

(* The repository is updated upstream. *)
UpstreamMoves ==
    /\ upstream < MaxVersion
    /\ upstream' = upstream + 1
    /\ UNCHANGED <<trees, pc, queue, report, round, run>>

Init ==
    /\ upstream = 1
    /\ skel = Empty
    /\ dists = IF Kept = {} THEN NoTree ELSE [m \in Meta |-> IF m \in Kept THEN 1 ELSE 0]
    /\ new = NoTree /\ old = NoTree
    /\ pool = {}
    /\ pc = "release" /\ queue = Releases /\ report = NoReport
    /\ error = FALSE /\ recheck = FALSE /\ tries = ReleaseTries /\ metadata = {}
    /\ run = 1

Download ==
    \/ \E r \in Releases : FetchRelease(r) \/ ReleaseMissing(r) \/ ReleaseFails(r)
    \/ \E i \in Indexes : FetchIndex(i) \/ IndexUnavailable(i)
    \/ \E p \in Packages : FetchPackage(p) \/ PackageUnavailable(p)

Work ==
    \/ Download
    \/ ReleasesInvalid \/ RecheckInVain \/ ReleasesChecked
    \/ MetadataFetched \/ PoolFetched
    \/ Unclutter \/ (\E m \in Meta : Link(m)) \/ Linked \/ SwapOut \/ SwapIn \/ DropOld
    \/ Sweep \/ (\E f \in Meta \cup Packages : Remove(f)) \/ Swept

Over == pc \in {"ok", "failed"}

Terminated == Over /\ run = MaxRuns /\ upstream = MaxVersion /\ UNCHANGED vars

Next == Work \/ Restart \/ KilledWhileLinking \/ UpstreamMoves \/ Terminated

Spec == Init /\ [][Next]_vars

(* The process runs, and every download ends (see Download). *)
FairSpec == Spec /\ WF_vars(Work)
------------------------------------------------------------------------------
(* Properties *)

Reports == [found: SUBSET (Meta \cup Packages), missing: SUBSET (Meta \cup Packages),
            fresh: BOOLEAN, failed: BOOLEAN]

(* The type of every variable. *)
TypeOK ==
    /\ upstream \in Versions
    /\ skel \in Trees
    /\ {dists, new, old} \subseteq Trees \cup {NoTree}
    /\ pool \in SUBSET Packages
    /\ pc \in {"release", "metadata", "pool", "unclutter", "link", "swap_out", "swap_in",
               "drop_old", "sweep", "clean", "ok", "failed"}
    /\ queue \in SUBSET (Meta \cup Packages)
    /\ report \in Reports
    /\ error \in BOOLEAN /\ recheck \in BOOLEAN
    /\ tries \in 0..ReleaseTries
    /\ metadata \in SUBSET Meta
    /\ run \in Nat

(* What an index may be beside release files of snapshot v: of v or, if no hash is known
   of its plain form, newer. *)
Fitting(i, v) == IF i \in Plain[v] THEN {v} ELSE v..MaxVersion

(* The release files of one snapshot, the indexes they list and no other, and the packages
   these indexes need as they are. *)
Whole(tree) ==
    \E v \in Versions :
        /\ \E r \in Releases : tree[r] = v
        /\ \A r \in Releases : tree[r] \in {0, v}
        /\ Lists[v] \ IgnoreErrors \subseteq {i \in Indexes : tree[i] # 0}
        /\ \A i \in Indexes : tree[i] # 0 =>
              /\ i \in Lists[v] /\ tree[i] \in Fitting(i, v)
              /\ Needs[i][tree[i]] \ IgnoreErrors \subseteq pool

(* What clients see is one whole snapshot with all its packages or, for a moment,
   nothing: at every step of a run, after a kill at any step, and while the
   mirror is cleaned.  Only where the folder is moved.  (mirror, move_metadata and
   clean_repository.) *)
PublishedIsWhole == dists # NoTree => Whole(dists)

(* A run that returns True leaves one whole snapshot.  (With the links made in
   place, nothing less than the end of a run can promise it.) *)
OkIsWhole == pc = "ok" => dists # NoTree /\ Whole(dists)

(* "One of the main advantages of the apt-mirror2 over the apt-mirror is that it never
   leaves a broken mirror behind, provided it exits with code 0.  This is ensured by data
   integrity checks at all stages of mirroring": what is published is of one snapshot, so
   that the release files have the hashes of the indexes beside them.  (README.md.) *)
NeverBroken ==
    pc = "ok" => \E v \in Versions : \A m \in Releases \cup Indexes : dists[m] \in {0, v}

(* "Old index files are properly cleaned and don't produce errors during the
   mirror processing": no package is asked for on behalf of an index the current
   release files do not list, or of one that is older than they are.  (README.md;
   clean_repository_skel before get_pool_files.) *)
OldIndexesUnused ==
    pc = "pool" =>
        LET v == ReleaseVersion(skel)
        IN  queue \subseteq UNION {UNION {Needs[i][w] : w \in Fitting(i, v)} : i \in Lists[v]}

(* The published metadata is taken away only when a whole successor is ready to
   take its place. *)
GoneForNew ==
    [][dists # NoTree /\ dists' = NoTree => new # NoTree /\ Whole(new)]_vars

(* Whatever a run has missed, its cleaning takes away less than the ratios allow, of
   what is in the mirror when it begins and of what is left at every step of it, in
   files and in bytes.  (PathCleaner, the wipe protection.) *)
WipesLittle ==
    pc = "clean" =>
        /\ queue = {} \/ WipeCountRatio = 0
              \/ Cardinality(queue) * 100 < WipeCountRatio * Cardinality(Stored)
        /\ Bytes(queue) = 0 \/ WipeSizeRatio = 0
              \/ Bytes(queue) * 100 < WipeSizeRatio * Bytes(Stored)

(* A server that at last gives the same kind of answer for each release file. *)
Steady(r) ==
    \/ <>[][~ReleaseFails(r) /\ ~ReleaseMissing(r)]_vars
    \/ <>[][~FetchRelease(r)]_vars

(* Every run ends: the rechecks stop when upstream does not move any more, however
   often indexes and packages fail.  (mirror, the loop over rounds.) *)
Ends == (\A r \in Releases : Steady(r)) => <>[]Over

(* A run that returns True has had no error on any release file: "Fail in case we
   have download errors, but don't complain for missing files". *)
FailuresReported == pc = "ok" => report.missing \cap Releases = {}

(* "If specified and repository cleaning is enabled, skip the specified paths
   during cleaning": a skip-clean path among the metadata stays. *)
KeptStays == pc = "ok" => \A k \in Kept : dists[k] # 0
=============================================================================
