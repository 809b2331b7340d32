------------------------ MODULE RepositoryMirrorProofs ------------------------
(***************************************************************************)
(* Proofs about RepositoryMirror: no package is asked for on behalf of an  *)
(* old index and, where the folder is moved, clients see only release      *)
(* files of one snapshot with all the indexes they list and all the        *)
(* packages these need.  The indexes are of that snapshot, too, where it   *)
(* lists them without compression; others may be newer (Fitting).          *)
(*                                                                         *)
(* The invariant follows a snapshot through a round: what the release      *)
(* files list (Listed), what the indexes need (Needed), all of it gathered *)
(* (Gathered), and the skel directory turned into the published folder     *)
(* (Placed).  That an index is never older than the release files beside   *)
(* it takes Behind: nothing in skel is newer than the upstream repository. *)
(***************************************************************************)
EXTENDS RepositoryMirror, FileSizesProofs, TLAPS

(* Every file is dealt with once between two resets of the report. *)
Dealt ==
    LET seen == report.found \cup report.missing IN
    /\ report.found \cap report.missing = {}
    /\ pc = "release" => queue \subseteq Releases /\ seen \subseteq Releases \ queue
    /\ pc = "metadata" =>
          queue \subseteq Indexes /\ seen \subseteq (Releases \cup Indexes) \ queue
    /\ pc = "pool" => queue \subseteq Packages /\ seen \cap queue = {}
    /\ pc = "clean" => report.found \cap queue = {}

(* A recheck has an error to check, and tries are left while they are needed. *)
Counters ==
    /\ recheck => error
    /\ pc = "release" => tries > 0

(* Nothing in skel is newer than the upstream repository. *)
Behind == \A m \in Meta : skel[m] <= upstream

(* The release files agree, and the indexes are those they list. *)
Listed ==
    LET v == ReleaseVersion(skel) IN
    pc = "metadata" =>
        /\ Valid(skel) /\ Present(skel) \subseteq report.found
        /\ queue \subseteq Lists[v]
        /\ \A i \in Indexes \cap report.found : skel[i] \in Fitting(i, v) /\ i \in Lists[v]
        /\ ~report.failed => Lists[v] \ IgnoreErrors \subseteq queue \cup report.found

(* The metadata in skel is of this round. *)
OfThisRound == \A m \in Meta : skel[m] # 0 => m \in metadata /\ m \in report.found

(* The packages are those the indexes need. *)
Needed ==
    LET v == ReleaseVersion(skel) IN
    pc = "pool" =>
        /\ Valid(skel) /\ OfThisRound
        /\ \A i \in Indexes : skel[i] # 0 => skel[i] \in Fitting(i, v) /\ i \in Lists[v]
        /\ ~error => Lists[v] \ IgnoreErrors \subseteq {i \in Indexes : skel[i] # 0}
        /\ ~report.failed => \A i \in Indexes : skel[i] # 0 =>
              Needs[i][skel[i]] \ IgnoreErrors \subseteq queue \cup (report.found \cap pool)

(* Whole, with the packages of a given set. *)
Complete(tree, packages) ==
    \E v \in Versions :
        /\ \E r \in Releases : tree[r] = v
        /\ \A r \in Releases : tree[r] \in {0, v}
        /\ Lists[v] \ IgnoreErrors \subseteq {i \in Indexes : tree[i] # 0}
        /\ \A i \in Indexes : tree[i] # 0 =>
              /\ i \in Lists[v] /\ tree[i] \in Fitting(i, v)
              /\ Needs[i][tree[i]] \ IgnoreErrors \subseteq packages

(* After a round without errors, skel is whole with what was found in it. *)
Gathered ==
    pc \in {"unclutter", "link", "swap_out", "swap_in", "drop_old", "sweep", "clean"} =>
        Complete(skel, report.found \cap pool) /\ OfThisRound

(* What skel holds is in place. *)
LinkedSoFar ==
    /\ queue \subseteq metadata
    /\ new = NoTree => \A m \in metadata \ queue : skel[m] = 0
    /\ new # NoTree =>
          \A m \in Meta : new[m] = IF m \in metadata \ queue THEN skel[m] ELSE 0

Placed ==
    /\ pc = "unclutter" => queue = metadata
    /\ pc = "link" => LinkedSoFar
    /\ pc \in {"swap_out", "swap_in"} => new = skel
    /\ pc \in {"drop_old", "sweep", "clean"} => dists = skel
    /\ pc = "ok" => dists # NoTree

(* There is a folder to clean. *)
Cleaning == pc = "clean" /\ dists = NoTree => queue \cap Meta = {}

Round == Dealt /\ Counters /\ Listed /\ Needed /\ Gathered /\ Cleaning

Inv == TypeOK /\ Behind /\ Round

MovedInv == Inv /\ (Moved => Placed)
------------------------------------------------------------------------------
(* The version of the release files *)

LEMMA ReleaseVersionIs ==
    ASSUME NEW tree \in Trees, Valid(tree)
    PROVE  /\ ReleaseVersion(tree) \in Versions
           /\ \E r \in Releases : tree[r] = ReleaseVersion(tree)
           /\ \A r \in Releases : tree[r] \in {0, ReleaseVersion(tree)}
<1>1. PICK r \in Present(tree) : TRUE
  BY DEF Valid
<1>2. tree[r] \in Versions
  BY <1>1 DEF Present, Trees, Meta
<1>3. /\ ReleaseVersion(tree) \in Versions
      /\ \E s \in Present(tree) : tree[s] = ReleaseVersion(tree)
  BY <1>1, <1>2 DEF ReleaseVersion
<1> QED
  BY <1>3 DEF Valid, Present

LEMMA ReleaseVersionSame ==
    ASSUME NEW tree \in Trees, NEW other \in Trees, Valid(tree),
           \A r \in Releases : other[r] = tree[r]
    PROVE  Valid(other) /\ ReleaseVersion(other) = ReleaseVersion(tree)
           /\ Present(other) = Present(tree)
<1>1. Present(other) = Present(tree)
  BY DEF Present
<1>2. Valid(other)
  BY <1>1 DEF Valid, Present
<1>3. 0 \notin Versions
  BY ParameterAssumption DEF Versions
<1> QED
  BY <1>1, <1>2, <1>3, ReleaseVersionIs

LEMMA DroppedIsTree == TypeOK => Dropped \in Trees
  BY DEF TypeOK, Dropped, Trees

LEMMA CleanedIsTree == TypeOK => Cleaned \in Trees
  BY DEF TypeOK, Cleaned, Trees

LEMMA WholeIsComplete == \A tree : Whole(tree) <=> Complete(tree, pool)
  BY DEF Whole, Complete

LEMMA CompleteGrows ==
    ASSUME NEW tree, NEW P, NEW Q, Complete(tree, P), P \subseteq Q
    PROVE  Complete(tree, Q)
  BY DEF Complete
------------------------------------------------------------------------------
(* Downloads *)

(* The report after a file was found, or was not. *)
LEMMA ReportAfter ==
    ASSUME Inv, NEW f \in Meta \cup Packages, NEW b \in BOOLEAN,
           Found(f, b) \/ Unavailable(f) \/ report' = report
    PROVE  /\ report' \in Reports
           /\ report.found \subseteq report'.found
           /\ report'.found \subseteq report.found \cup {f}
           /\ report'.missing \subseteq report.missing \cup {f}
           /\ Found(f, b) => f \in report'.found /\ report'.missing = report.missing
                             /\ report'.failed = report.failed
           /\ Unavailable(f) => report'.found = report.found
           /\ Unavailable(f) /\ ~report'.failed => f \in IgnoreErrors
           /\ ~report'.failed => ~report.failed
<1>0. report \in Reports
  BY DEF Inv, TypeOK
<1>1. CASE Found(f, b)
  <2>1. /\ report' \in Reports
        /\ report'.found = report.found \cup {f} /\ report'.missing = report.missing
        /\ report'.failed = report.failed
    BY <1>0, <1>1 DEF Found, Reports
  <2>2. Unavailable(f) => report'.found = report.found
                          /\ (~report'.failed => f \in IgnoreErrors)
    BY <1>0 DEF Unavailable, Reports
  <2> QED
    BY <2>1, <2>2
<1>2. CASE Unavailable(f)
  <2>1. CASE f \in IgnoreErrors
    BY <1>0, <1>2, <2>1 DEF Unavailable, Found, Reports
  <2>2. CASE f \notin IgnoreErrors
    <3>1. /\ report' \in Reports
          /\ report'.found = report.found /\ report'.missing = report.missing \cup {f}
          /\ report'.failed = TRUE
      BY <1>0, <1>2, <2>2 DEF Unavailable, Reports
    <3>2. ~Found(f, b) \/ report'.failed = report.failed
      BY <1>0 DEF Found, Reports
    <3>3. Found(f, b) => f \in report'.found /\ report'.missing = report.missing
      BY <1>0 DEF Found, Reports
    <3> QED
      BY <2>2, <3>1, <3>2, <3>3
  <2> QED
    BY <2>1, <2>2
<1>3. CASE report' = report
  BY <1>0, <1>3 DEF Found, Unavailable, Reports
<1> QED
  BY <1>1, <1>2, <1>3

LEMMA ReleaseStep ==
    ASSUME Inv, NEW r \in Releases,
           FetchRelease(r) \/ ReleaseMissing(r) \/ ReleaseFails(r)
    PROVE  (TypeOK /\ Round)'
<1>1. /\ pc = "release" /\ pc' = pc /\ r \in queue /\ queue' = queue \ {r}
      /\ UNCHANGED <<upstream, dists, new, old, round, run>>
  BY DEF FetchRelease, ReleaseMissing, ReleaseFails, Deal
<1>2. \E b \in BOOLEAN : Found(r, b) \/ Unavailable(r) \/ report' = report
  BY DEF FetchRelease, ReleaseMissing, ReleaseFails, Counted
<1>3. r \in Meta \cup Packages
  BY DEF Meta
<1>4. /\ report' \in Reports
      /\ report'.found \subseteq report.found \cup {r}
      /\ report'.missing \subseteq report.missing \cup {r}
      /\ report'.found = report.found \/ report'.missing = report.missing
  BY <1>2, <1>3, ReportAfter DEF Unavailable, Found, Inv, TypeOK, Reports
<1>5. skel' \in Trees /\ pool' = pool
  BY <1>3 DEF FetchRelease, ReleaseMissing, ReleaseFails, Unavailable, Inv, TypeOK, Trees
<1>6. TypeOK'
  BY <1>1, <1>4, <1>5 DEF Inv, TypeOK, round
<1>7. Dealt'
  BY <1>1, <1>4 DEF Inv, Round, Dealt
<1> QED
  BY <1>1, <1>6, <1>7
  DEF Inv, Round, Counters, Listed, Needed, Gathered, Cleaning, round

(* An index is accepted as it fits the release files. *)
LEMMA AcceptedFits ==
    ASSUME Inv, pc = "metadata", NEW i \in Indexes, NEW w \in Accepted(i)
    PROVE  /\ w \in Fitting(i, ReleaseVersion(skel))
           /\ w \in Versions /\ w <= upstream
<1> DEFINE v == ReleaseVersion(skel)
<1>1. v \in Versions /\ \E r \in Releases : skel[r] = v
  BY ReleaseVersionIs DEF Inv, TypeOK, Round, Listed
<1>2. v <= upstream
  BY <1>1 DEF Inv, Behind, Meta
<1>3. upstream \in Versions /\ MaxVersion \in Nat
  BY ParameterAssumption DEF Inv, TypeOK
<1> QED
  BY <1>1, <1>2, <1>3 DEF Accepted, Fitting, Versions

LEMMA IndexStep ==
    ASSUME Inv, NEW i \in Indexes, FetchIndex(i) \/ IndexUnavailable(i)
    PROVE  (TypeOK /\ Round)'
<1> DEFINE v == ReleaseVersion(skel)
<1>1. /\ pc = "metadata" /\ pc' = pc /\ i \in queue /\ queue' = queue \ {i}
      /\ UNCHANGED <<upstream, dists, new, old, round, run>>
  BY DEF FetchIndex, IndexUnavailable, Deal
<1>2. i \in Meta /\ i \in Lists[v]
  BY <1>1 DEF Meta, Inv, Round, Listed
<1>3. v \in Versions
  BY <1>1, ReleaseVersionIs DEF Inv, TypeOK, Round, Listed
<1>4. (\E b \in BOOLEAN : Found(i, b)) \/ Unavailable(i)
  BY DEF FetchIndex, IndexUnavailable
<1>5. /\ report' \in Reports
      /\ report'.found \subseteq report.found \cup {i}
      /\ report.found \subseteq report'.found
      /\ report'.missing \subseteq report.missing \cup {i}
      /\ report'.found = report.found \/ report'.missing = report.missing
      /\ ~report'.failed => ~report.failed /\ (i \in report'.found \/ i \in IgnoreErrors)
  BY <1>2, <1>4, ReportAfter DEF Unavailable, Found, Inv, TypeOK, Reports
<1>6. /\ skel' \in Trees /\ pool' = pool
      /\ \A m \in Meta \ {i} : skel'[m] = skel[m]
      /\ i \in report'.found => skel'[i] \in Fitting(i, v)
  <2>1. CASE FetchIndex(i)
    <3>1. PICK w \in Accepted(i) : skel' = [skel EXCEPT ![i] = w]
      BY <2>1 DEF FetchIndex
    <3>2. w \in Fitting(i, v) /\ w \in Versions
      BY <1>1, AcceptedFits
    <3> QED
      BY <1>2, <2>1, <3>1, <3>2 DEF FetchIndex, Inv, TypeOK, Trees
  <2>2. CASE IndexUnavailable(i)
    <3>1. i \notin report'.found
      BY <1>1, <2>2 DEF IndexUnavailable, Unavailable, Inv, TypeOK, Reports, Round, Dealt
    <3> QED
      BY <2>2, <3>1 DEF IndexUnavailable, Unavailable, Inv, TypeOK
  <2> QED
    BY <2>1, <2>2
<1>7. TypeOK'
  BY <1>1, <1>5, <1>6 DEF Inv, TypeOK, round
<1>8. Dealt'
  BY <1>1, <1>5 DEF Inv, Round, Dealt
<1>9. Listed'
  <2>1. \A r \in Releases : skel'[r] = skel[r]
    BY <1>6, RepositoryAssumption DEF Meta
  <2>2. Valid(skel)' /\ ReleaseVersion(skel)' = v /\ Present(skel)' = Present(skel)
    BY <1>1, <1>6, <2>1, ReleaseVersionSame DEF Inv, TypeOK, Round, Listed
  <2>3. \A j \in Indexes \cap report'.found : skel'[j] \in Fitting(j, v) /\ j \in Lists[v]
    BY <1>1, <1>2, <1>5, <1>6 DEF Inv, Round, Listed, Meta
  <2> QED
    BY <1>1, <1>5, <2>2, <2>3 DEF Inv, Round, Listed
<1> QED
  BY <1>1, <1>7, <1>8, <1>9
  DEF Inv, Round, Counters, Needed, Gathered, Cleaning, round

LEMMA PackageStep ==
    ASSUME Inv, NEW p \in Packages, FetchPackage(p) \/ PackageUnavailable(p)
    PROVE  (TypeOK /\ Round)'
<1>1. /\ pc = "pool" /\ pc' = pc /\ p \in queue /\ queue' = queue \ {p}
      /\ UNCHANGED <<upstream, skel, dists, new, old, round, run>>
  BY DEF FetchPackage, PackageUnavailable, Unavailable, Deal
<1>2. (\E b \in BOOLEAN : Found(p, b)) \/ Unavailable(p)
  BY DEF FetchPackage, PackageUnavailable
<1>3. /\ report' \in Reports
      /\ report'.found \subseteq report.found \cup {p}
      /\ report.found \subseteq report'.found
      /\ report'.missing \subseteq report.missing \cup {p}
      /\ report'.found = report.found \/ report'.missing = report.missing
      /\ ~report'.failed => ~report.failed /\ (p \in report'.found \/ p \in IgnoreErrors)
  BY <1>2, ReportAfter DEF Unavailable, Found, Inv, TypeOK, Reports
<1>4. /\ pool \subseteq pool' /\ pool' \in SUBSET Packages
      /\ p \in report'.found => p \in pool'
  <2>1. CASE FetchPackage(p)
    BY <2>1 DEF FetchPackage, Inv, TypeOK
  <2>2. CASE PackageUnavailable(p)
    <3>1. p \notin report'.found
      BY <1>1, <2>2 DEF PackageUnavailable, Unavailable, Inv, TypeOK, Reports, Round, Dealt
    <3> QED
      BY <2>2, <3>1 DEF PackageUnavailable, Unavailable, Inv, TypeOK
  <2> QED
    BY <2>1, <2>2
<1>5. TypeOK'
  BY <1>1, <1>3, <1>4 DEF Inv, TypeOK, round
<1>6. Dealt'
  BY <1>1, <1>3 DEF Inv, Round, Dealt
<1>7. Needed'
  BY <1>1, <1>3, <1>4 DEF Inv, Round, Needed, OfThisRound, round
<1> QED
  BY <1>1, <1>5, <1>6, <1>7
  DEF Inv, Round, Counters, Listed, Gathered, Cleaning, round
------------------------------------------------------------------------------
(* Between the downloads *)

(* Where mirror() asks for the release files, nothing is to be shown yet. *)
LEMMA AskedForReleases ==
    ASSUME Inv, AskReleases, skel' \in Trees, {dists', new', old'} \subseteq Trees \cup {NoTree},
           pool' \in SUBSET Packages, upstream' \in Versions, tries' \in 1..ReleaseTries,
           error' \in BOOLEAN, recheck' \in BOOLEAN, recheck' => error',
           metadata' \in SUBSET Meta, run' \in Nat
    PROVE  (TypeOK /\ Round)'
<1>1. pc' = "release" /\ queue' = Releases
  BY DEF AskReleases, Ask
<1>2. /\ report' \in Reports
      /\ report'.found = {} /\ report'.missing = {}
  BY DEF AskReleases, Ask, NoReport, Reports
<1>3. TypeOK'
  BY <1>1, <1>2, ParameterAssumption DEF TypeOK, Meta
<1> QED
  BY <1>1, <1>2, <1>3
  DEF Inv, Round, Dealt, Counters, Listed, Needed, Gathered, Cleaning

LEMMA InvalidStep == ASSUME Inv, ReleasesInvalid PROVE  (TypeOK /\ Round)'
<1>1. /\ pc = "release" /\ skel' = Dropped /\ tries' = tries - 1
      /\ UNCHANGED <<upstream, dists, new, old, pool, error, recheck, metadata, run>>
  BY DEF ReleasesInvalid
<1>2. skel' \in Trees
  BY <1>1, DroppedIsTree DEF Inv
<1>3. tries \in 1..ReleaseTries
  BY <1>1, ParameterAssumption DEF Inv, TypeOK, Round, Counters
<1>4. CASE LastTry
  <2>1. pc' = "failed" /\ UNCHANGED <<queue, report>>
    BY <1>4 DEF ReleasesInvalid
  <2>2. tries' \in 0..ReleaseTries
    BY <1>1, <1>3, ParameterAssumption
  <2>3. TypeOK'
    BY <1>1, <1>2, <2>1, <2>2 DEF Inv, TypeOK
  <2> QED
    BY <1>1, <2>1, <2>3
    DEF Inv, Round, Dealt, Counters, Listed, Needed, Gathered, Cleaning
<1>5. CASE ~LastTry
  <2>1. AskReleases
    BY <1>5 DEF ReleasesInvalid
  <2>2. tries' \in 1..ReleaseTries
    BY <1>1, <1>3, <1>5, ParameterAssumption DEF LastTry
  <2> QED
    BY <1>1, <1>2, <2>1, <2>2, AskedForReleases DEF Inv, TypeOK, Round, Counters
<1> QED
  BY <1>4, <1>5

(* A recheck in vain never publishes: it has an error to check. *)
LEMMA RecheckFails == ASSUME Inv, RecheckInVain PROVE pc' = "failed" /\ error' = TRUE
  BY DEF RecheckInVain, Finish, NothingNew, Inv, TypeOK, Round, Counters

LEMMA RecheckStep == ASSUME Inv, RecheckInVain PROVE  (TypeOK /\ Round)'
<1>1. /\ skel' = Dropped
      /\ UNCHANGED <<upstream, dists, new, old, pool, report, recheck, tries, metadata, run>>
  BY DEF RecheckInVain
<1>2. pc' = "failed" /\ error' = TRUE
  BY RecheckFails
<1>3. queue' = queue
  BY <1>2 DEF RecheckInVain, Finish
<1>4. TypeOK'
  BY <1>1, <1>2, <1>3, DroppedIsTree DEF Inv, TypeOK
<1> QED
  BY <1>1, <1>2, <1>3, <1>4
  DEF Inv, Round, Dealt, Counters, Listed, Needed, Gathered, Cleaning

LEMMA CheckedStep == ASSUME Inv, ReleasesChecked PROVE  (TypeOK /\ Round)'
<1> DEFINE v == ReleaseVersion(Dropped)
<1>1. /\ pc = "release" /\ queue = {} /\ Valid(Dropped)
      /\ skel' = Dropped /\ recheck' = FALSE
      /\ UNCHANGED <<upstream, dists, new, old, pool, tries, metadata, run>>
  BY DEF ReleasesChecked
<1>2. skel' \in Trees /\ v \in Versions
  BY <1>1, DroppedIsTree, ReleaseVersionIs DEF Inv
<1>3. Lists[v] \subseteq Indexes
  BY <1>2, RepositoryAssumption
<1>4. CASE Lists[v] = {}
  <2>1. error' = TRUE /\ pc' = "failed" /\ UNCHANGED <<queue, report>>
    BY <1>4 DEF ReleasesChecked
  <2>2. TypeOK'
    BY <1>1, <1>2, <2>1 DEF Inv, TypeOK
  <2> QED
    BY <1>1, <2>1, <2>2
    DEF Inv, Round, Dealt, Counters, Listed, Needed, Gathered, Cleaning
<1>5. CASE Lists[v] # {}
  <2>1. /\ error' = (~recheck /\ (error \/ report.failed))
        /\ pc' = "metadata" /\ queue' = Lists[v]
        /\ report' = [report EXCEPT !.fresh = FALSE, !.failed = FALSE]
    BY <1>5 DEF ReleasesChecked, Ask
  <2>2. /\ report' \in Reports
        /\ report'.found = report.found /\ report'.missing = report.missing
    BY <2>1 DEF Inv, TypeOK, Reports
  <2>3. TypeOK'
    BY <1>1, <1>2, <1>3, <2>1, <2>2 DEF Inv, TypeOK, Meta, Reports
  <2>4. Dealt'
    BY <1>1, <1>3, <2>1, <2>2, RepositoryAssumption DEF Inv, Round, Dealt
  <2>5. Present(skel') \subseteq report.found
    BY <1>1 DEF Present, Dropped, Downloaded, Meta
  <2>6. report.found \cap Indexes = {}
    BY <1>1, RepositoryAssumption DEF Inv, Round, Dealt
  <2>7. Listed'
    BY <1>1, <2>1, <2>2, <2>5, <2>6 DEF Listed, Valid, ReleaseVersion, Present
  <2> QED
    BY <1>1, <2>1, <2>3, <2>4, <2>7
    DEF Inv, Round, Counters, Needed, Gathered, Cleaning
<1> QED
  BY <1>4, <1>5

LEMMA NoneFitting ==
    ASSUME NEW v \in Versions, NEW i
    PROVE  0 \notin Fitting(i, v) /\ Fitting(i, v) \subseteq Versions
  BY ParameterAssumption DEF Fitting, Versions

(* What is left in skel when the old files are removed from it. *)
LEMMA CleanedIs ==
    ASSUME Inv, pc = "metadata", queue = {}
    PROVE  LET v == ReleaseVersion(skel) IN
           /\ v \in Versions
           /\ Valid(Cleaned) /\ ReleaseVersion(Cleaned) = v
           /\ \A m \in Meta : Cleaned[m] # 0 =>
                 m \in report.found /\ m \notin report.missing /\ Cleaned[m] = skel[m]
           /\ \A i \in Indexes : Cleaned[i] # 0 => Cleaned[i] \in Fitting(i, v) /\ i \in Lists[v]
           /\ ~report.failed => Lists[v] \ IgnoreErrors \subseteq {i \in Indexes : Cleaned[i] # 0}
<1> DEFINE v == ReleaseVersion(skel)
<1>1. /\ Valid(skel) /\ Present(skel) \subseteq report.found
      /\ \A i \in Indexes \cap report.found : skel[i] \in Fitting(i, v) /\ i \in Lists[v]
      /\ ~report.failed => Lists[v] \ IgnoreErrors \subseteq report.found
  BY DEF Inv, Round, Listed
<1>2. skel \in Trees /\ Cleaned \in Trees
  BY CleanedIsTree DEF Inv, TypeOK
<1>3. v \in Versions
  BY <1>1, <1>2, ReleaseVersionIs
<1>4. Downloaded = report.found
  BY DEF Downloaded, Inv, Round, Dealt
<1>5. \A m \in Meta : Cleaned[m] = IF m \in report.found THEN skel[m] ELSE 0
  BY <1>4 DEF Cleaned
<1>6. \A r \in Releases : Cleaned[r] = skel[r]
  BY <1>1, <1>5 DEF Present, Meta
<1>7. Valid(Cleaned) /\ ReleaseVersion(Cleaned) = v
  BY <1>1, <1>2, <1>6, ReleaseVersionSame
<1>8. \A m \in Meta : Cleaned[m] # 0 =>
         m \in report.found /\ m \notin report.missing /\ Cleaned[m] = skel[m]
  BY <1>5 DEF Inv, Round, Dealt
<1>9. \A i \in Indexes : Cleaned[i] # 0 => Cleaned[i] \in Fitting(i, v) /\ i \in Lists[v]
  BY <1>1, <1>8 DEF Meta
<1>10. ~report.failed => Lists[v] \ IgnoreErrors \subseteq {i \in Indexes : Cleaned[i] # 0}
  <2>1. Lists[v] \subseteq Indexes
    BY <1>3, RepositoryAssumption
  <2>2. \A i \in Indexes : 0 \notin Fitting(i, v)
    BY <1>3, NoneFitting
  <2> QED
    BY <1>1, <1>5, <2>1, <2>2 DEF Meta
<1> QED
  BY <1>3, <1>7, <1>8, <1>9, <1>10

(* The packages asked for are needed by indexes of the current release. *)
LEMMA PoolFilesOf ==
    ASSUME Inv, pc = "metadata", queue = {}
    PROVE  LET v == ReleaseVersion(skel) IN
           /\ PoolFiles(Cleaned) \subseteq Packages
           /\ PoolFiles(Cleaned) \subseteq
                 UNION {UNION {Needs[i][w] : w \in Fitting(i, v)} : i \in Lists[v]}
           /\ \A i \in Indexes : Cleaned[i] # 0 => Needs[i][Cleaned[i]] \subseteq PoolFiles(Cleaned)
<1> DEFINE v == ReleaseVersion(skel)
           I == {j \in Indexes \ report.missing : Cleaned[j] # 0}
<1>1. v \in Versions
  BY CleanedIs
<1>2. \A i \in I : Cleaned[i] \in Fitting(i, v) /\ i \in Lists[v]
  BY CleanedIs
<1>3. PoolFiles(Cleaned) = UNION {Needs[i][Cleaned[i]] : i \in I}
  BY DEF PoolFiles
<1>4. \A i \in I : Needs[i][Cleaned[i]] \subseteq Packages
  BY <1>1, <1>2, NoneFitting, RepositoryAssumption
<1>5. \A i \in Indexes : Cleaned[i] # 0 => i \in I
  BY CleanedIs DEF Meta
<1> QED
  BY <1>2, <1>3, <1>4, <1>5

LEMMA MetadataStep == ASSUME Inv, MetadataFetched PROVE  (TypeOK /\ Round)'
<1> DEFINE v == ReleaseVersion(skel)
<1>1. /\ pc = "metadata" /\ queue = {} /\ pc' = "pool" /\ queue' = PoolFiles(Cleaned)
      /\ error' = (error \/ report.failed) /\ metadata' = report.found /\ skel' = Cleaned
      /\ report' = [report EXCEPT !.fresh = FALSE, !.failed = FALSE]
      /\ UNCHANGED <<upstream, dists, new, old, pool, recheck, tries, run>>
  BY DEF MetadataFetched, Ask
<1>2. /\ report' \in Reports
      /\ report'.found = report.found /\ report'.missing = report.missing
  BY <1>1 DEF Inv, TypeOK, Reports
<1>3. report.found \cup report.missing \subseteq Meta
  BY <1>1 DEF Inv, Round, Dealt, Meta
<1>4. /\ queue' \subseteq Packages
      /\ \A i \in Indexes : skel'[i] # 0 => Needs[i][skel'[i]] \subseteq queue'
  BY <1>1, PoolFilesOf
<1>5. error' \in BOOLEAN
  BY <1>1 DEF Inv, TypeOK, Reports
<1>6. TypeOK'
  BY <1>1, <1>2, <1>3, <1>4, <1>5, CleanedIsTree DEF Inv, TypeOK
<1>7. Dealt'
  BY <1>1, <1>2, <1>3, <1>4, RepositoryAssumption DEF Inv, Round, Dealt
<1>8. Needed'
  <2>1. OfThisRound'
    BY <1>1, <1>2, CleanedIs DEF OfThisRound
  <2>2. ReleaseVersion(skel)' = v /\ Valid(skel)'
    BY <1>1, CleanedIs
  <2>3. \A i \in Indexes : skel'[i] # 0 => skel'[i] \in Fitting(i, v) /\ i \in Lists[v]
    BY <1>1, CleanedIs
  <2>4. ~error' => Lists[v] \ IgnoreErrors \subseteq {i \in Indexes : skel'[i] # 0}
    BY <1>1, CleanedIs
  <2> QED
    BY <1>4, <2>1, <2>2, <2>3, <2>4 DEF Needed
<1>9. Counters'
  BY <1>1 DEF Inv, Round, Counters
<1> QED
  BY <1>1, <1>6, <1>7, <1>8, <1>9 DEF Inv, Round, Listed, Gathered, Cleaning

LEMMA PoolStep == ASSUME Inv, PoolFetched PROVE  (TypeOK /\ Round)'
<1>1. pc = "pool" /\ queue = {} /\ UNCHANGED <<upstream, trees, metadata, run>>
  BY DEF PoolFetched
<1>2. CASE error \/ report.failed
  <2>1. error' = TRUE /\ recheck' = TRUE /\ tries' = ReleaseTries /\ AskReleases
    BY <1>2 DEF PoolFetched
  <2> QED
    BY <1>1, <2>1, AskedForReleases, ParameterAssumption DEF Inv, TypeOK, trees
<1>3. CASE ~(error \/ report.failed)
  <2> DEFINE v == ReleaseVersion(skel)
  <2>1. /\ error' = FALSE /\ pc' \in {"unclutter", "link"} /\ queue' = metadata'
        /\ UNCHANGED <<recheck, tries, report>>
    BY <1>3 DEF PoolFetched, Finish
  <2>2. TypeOK'
    BY <1>1, <2>1 DEF Inv, TypeOK, trees
  <2>3. /\ v \in Versions /\ v # 0
        /\ \E r \in Releases : skel[r] = v
        /\ \A r \in Releases : skel[r] \in {0, v}
    BY <1>1, ReleaseVersionIs, ParameterAssumption
    DEF Inv, TypeOK, Round, Needed, Versions
  <2>4. Complete(skel, report.found \cap pool)
    BY <1>1, <1>3, <2>3 DEF Complete, Inv, Round, Needed
  <2>5. Complete(skel, report.found \cap pool)' /\ OfThisRound'
    BY <1>1, <2>1, <2>4 DEF Complete, OfThisRound, Inv, Round, Needed, trees
  <2>6. recheck = FALSE
    BY <1>3 DEF Inv, TypeOK, Round, Counters
  <2> QED
    BY <1>1, <2>1, <2>2, <2>5, <2>6
    DEF Inv, Round, Dealt, Counters, Listed, Needed, Gathered, Cleaning
<1> QED
  BY <1>2, <1>3
------------------------------------------------------------------------------
(* Moving and cleaning *)

(* Where mirror() stands with a snapshot in skel. *)
Done == {"unclutter", "link", "swap_out", "swap_in", "drop_old", "sweep", "clean"}

LEMMA StillGathered ==
    ASSUME Gathered, pc \in Done, UNCHANGED <<skel, report, metadata>>,
           report.found \cap pool \subseteq pool'
    PROVE  Gathered'
<1>1. Complete(skel, report.found \cap pool) /\ OfThisRound
  BY DEF Gathered, Done
<1>2. Complete(skel', report'.found \cap pool')
  BY <1>1, CompleteGrows
<1> QED
  BY <1>1, <1>2 DEF Gathered, OfThisRound, Complete

(* The steps of move_metadata touch folders only. *)
LEMMA FolderStep ==
    ASSUME Inv, pc \in Done, pc' \in Done \ {"clean"},
           {dists', new', old'} \subseteq Trees \cup {NoTree}, queue' \subseteq queue,
           UNCHANGED <<upstream, skel, pool, report, round, run>>
    PROVE  (TypeOK /\ Round)'
<1>1. TypeOK'
  BY DEF Inv, TypeOK, round, Done
<1>2. Gathered'
  BY StillGathered DEF Inv, Round, round
<1> QED
  BY <1>1, <1>2 DEF Inv, Round, Dealt, Counters, Listed, Needed, Cleaning, Done, round

LEMMA WithIsTree ==
    ASSUME TypeOK, NEW tree \in Trees \cup {NoTree}, NEW m \in Meta
    PROVE  With(tree, m) \in Trees \cup {NoTree}
  BY DEF With, TypeOK, Trees, Empty

Moving ==
    Unclutter \/ (\E m \in Meta : Link(m)) \/ Linked \/ SwapOut \/ SwapIn \/ DropOld

LEMMA MovingStep == ASSUME Inv, Moving PROVE  (TypeOK /\ Round)'
<1>1. CASE Unclutter
  BY <1>1, FolderStep DEF Unclutter, Inv, TypeOK, Done
<1>2. ASSUME NEW m \in Meta, Link(m) PROVE (TypeOK /\ Round)'
  BY <1>2, FolderStep, WithIsTree DEF Link, Inv, TypeOK, Done
<1>3. CASE Linked
  BY <1>3, FolderStep DEF Linked, trees, Inv, TypeOK, Done
<1>4. CASE SwapOut
  BY <1>4, FolderStep DEF SwapOut, Inv, TypeOK, Done
<1>5. CASE SwapIn
  BY <1>5, FolderStep DEF SwapIn, Inv, TypeOK, Done
<1>6. CASE DropOld
  BY <1>6, FolderStep DEF DropOld, Inv, TypeOK, Done
<1> QED
  BY <1>1, <1>2, <1>3, <1>4, <1>5, <1>6 DEF Moving

(* Nothing that was found goes. *)
LEMMA DoomedIs ==
    ASSUME Inv
    PROVE  /\ Doomed \subseteq Meta \cup Packages
           /\ Doomed \cap Downloaded = {}
           /\ dists = NoTree => Doomed \cap Meta = {}
  BY RepositoryAssumption DEF Doomed, Stored, Inv, TypeOK

LEMMA SweepStep == ASSUME Inv, Sweep PROVE  (TypeOK /\ Round)'
<1>1. /\ pc = "sweep" /\ UNCHANGED <<upstream, trees, report, round, run>>
      /\ \/ pc' = "clean" /\ queue' = Doomed
         \/ pc' = "ok" /\ queue' = queue
  BY DEF Sweep
<1>2. queue' \in SUBSET (Meta \cup Packages)
  BY <1>1, DoomedIs DEF Inv, TypeOK
<1>3. TypeOK'
  BY <1>1, <1>2 DEF Inv, TypeOK, trees, round
<1>4. Gathered'
  BY <1>1, StillGathered DEF Inv, Round, round, trees, Done
<1>5. Downloaded = report.found
  BY <1>1 DEF Downloaded, Inv, Round, Dealt
<1>6. Dealt'
  BY <1>1, <1>5, DoomedIs DEF Inv, Round, Dealt
<1>7. Cleaning'
  BY <1>1, DoomedIs DEF Cleaning, trees
<1> QED
  BY <1>1, <1>3, <1>4, <1>6, <1>7 DEF Inv, Round, Counters, Listed, Needed, round

LEMMA RemoveStep == ASSUME Inv, NEW f \in Meta \cup Packages, Remove(f) PROVE  (TypeOK /\ Round)'
<1>1. /\ pc = "clean" /\ pc' = pc /\ f \in queue /\ queue' = queue \ {f}
      /\ pool' = pool \ {f}
      /\ UNCHANGED <<upstream, skel, new, old, report, round, run>>
  BY DEF Remove
<1>2. f \in Meta => dists \in Trees
  BY <1>1 DEF Inv, TypeOK, Round, Cleaning
<1>3. {dists'} \subseteq Trees \cup {NoTree} /\ (dists' = NoTree => dists = NoTree)
  BY <1>2, NoTreeAssumption DEF Remove, Inv, TypeOK, Trees
<1>4. TypeOK'
  BY <1>1, <1>3 DEF Inv, TypeOK, round
<1>5. f \notin report.found
  BY <1>1 DEF Inv, Round, Dealt
<1>6. Gathered'
  BY <1>1, <1>5, StillGathered DEF Inv, Round, round, Done
<1> QED
  BY <1>1, <1>3, <1>4, <1>6
  DEF Inv, Round, Dealt, Counters, Listed, Needed, Cleaning, round

LEMMA SweptStep == ASSUME Inv, Swept PROVE  (TypeOK /\ Round)'
<1>1. pc = "clean" /\ pc' = "ok" /\ UNCHANGED <<upstream, trees, queue, report, round, run>>
  BY DEF Swept
<1>2. TypeOK'
  BY <1>1 DEF Inv, TypeOK, trees, round
<1> QED
  BY <1>1, <1>2
  DEF Inv, Round, Dealt, Counters, Listed, Needed, Gathered, Cleaning, round
------------------------------------------------------------------------------
(* The invariant *)

LEMMA ProcessStep == ASSUME Inv, Restart \/ KilledWhileLinking PROVE  (TypeOK /\ Round)'
<1>1. /\ AskReleases /\ run' = run + 1 /\ tries' = ReleaseTries
      /\ error' = FALSE /\ recheck' = FALSE /\ metadata' = {}
      /\ UNCHANGED <<upstream, skel, new, old, pool>>
  BY DEF Restart, KilledWhileLinking, NewProcess, trees
<1>2. dists' \in Trees \cup {NoTree}
  <2>1. CASE Restart
    BY <2>1 DEF Restart, trees, Inv, TypeOK
  <2>2. CASE KilledWhileLinking
    BY <2>2 DEF KilledWhileLinking, Inv, TypeOK, Trees
  <2> QED
    BY <2>1, <2>2
<1>3. run' \in Nat /\ tries' \in 1..ReleaseTries
  BY <1>1, ParameterAssumption DEF Inv, TypeOK
<1> QED
  BY <1>1, <1>2, <1>3, AskedForReleases DEF Inv, TypeOK

LEMMA UpstreamStep == ASSUME Inv, UpstreamMoves PROVE  (TypeOK /\ Round)'
<1>1. upstream' \in Versions /\ UNCHANGED <<trees, pc, queue, report, round, run>>
  BY ParameterAssumption DEF UpstreamMoves, Inv, TypeOK, Versions
<1> QED
  BY <1>1
  DEF Inv, TypeOK, Round, Dealt, Counters, Listed, Needed, Gathered, Cleaning,
      OfThisRound, Complete, trees, round

LEMMA StutterStep == ASSUME Inv, UNCHANGED vars PROVE  (TypeOK /\ Round)'
  BY DEF Inv, TypeOK, Round, Dealt, Counters, Listed, Needed, Gathered, Cleaning,
         OfThisRound, Complete, vars, trees, round

(* skel is never ahead of the servers. *)
LEMMA BehindNext == Inv /\ [Next]_vars => Behind'
<1> SUFFICES ASSUME Inv, [Next]_vars PROVE Behind'
  OBVIOUS
<1>0. skel \in Trees /\ upstream \in Nat /\ \A m \in Meta : skel[m] <= upstream
  BY ParameterAssumption DEF Inv, TypeOK, Behind, Versions
<1>1. CASE skel' = skel /\ upstream' = upstream
  BY <1>0, <1>1 DEF Behind
<1>2. ASSUME NEW r \in Releases, FetchRelease(r) PROVE Behind'
  BY <1>0, <1>2 DEF FetchRelease, Deal, Behind, Trees
<1>3. ASSUME NEW i \in Indexes, FetchIndex(i) PROVE Behind'
  <2>1. PICK w \in Accepted(i) : skel' = [skel EXCEPT ![i] = w]
    BY <1>3 DEF FetchIndex
  <2>2. w <= upstream /\ upstream' = upstream
    BY <1>3, AcceptedFits DEF FetchIndex, Deal
  <2> QED
    BY <1>0, <2>1, <2>2 DEF Behind, Trees
<1>4. CASE ReleasesInvalid \/ RecheckInVain \/ ReleasesChecked
  BY <1>0, <1>4 DEF ReleasesInvalid, RecheckInVain, ReleasesChecked, Dropped, Behind
<1>5. CASE MetadataFetched
  BY <1>0, <1>5 DEF MetadataFetched, Cleaned, Behind
<1>6. CASE UpstreamMoves
  BY <1>0, <1>6 DEF UpstreamMoves, trees, Behind, Trees, Versions
<1>7. CASE Download
  <2>1. ASSUME NEW r \in Releases, ReleaseMissing(r) \/ ReleaseFails(r) PROVE Behind'
    BY <1>1, <2>1 DEF ReleaseMissing, ReleaseFails, Unavailable, Deal
  <2>2. ASSUME NEW i \in Indexes, IndexUnavailable(i) PROVE Behind'
    BY <1>1, <2>2 DEF IndexUnavailable, Unavailable, Deal
  <2>3. ASSUME NEW p \in Packages, FetchPackage(p) \/ PackageUnavailable(p) PROVE Behind'
    BY <1>1, <2>3 DEF FetchPackage, PackageUnavailable, Unavailable, Deal
  <2> QED
    BY <1>2, <1>3, <1>7, <2>1, <2>2, <2>3 DEF Download
<1>8. CASE PoolFetched \/ Moving
  BY <1>1, <1>8 DEF PoolFetched, Moving, Unclutter, Link, Linked, SwapOut, SwapIn, DropOld, trees
<1>9. CASE Sweep \/ (\E f \in Meta \cup Packages : Remove(f)) \/ Swept
  BY <1>1, <1>9 DEF Sweep, Remove, Swept, trees
<1>10. CASE Restart \/ KilledWhileLinking \/ UNCHANGED vars
  BY <1>1, <1>10 DEF Restart, KilledWhileLinking, NewProcess, vars, trees
<1> QED
  BY <1>4, <1>5, <1>6, <1>7, <1>8, <1>9, <1>10 DEF Next, Work, Moving, Terminated

LEMMA InvInit == Init => Inv
<1> SUFFICES ASSUME Init PROVE Inv
  OBVIOUS
<1>1. /\ pc = "release" /\ queue = Releases /\ report = NoReport /\ recheck = FALSE
      /\ tries = ReleaseTries
  BY DEF Init
<1>2. 1 \in Versions
  BY ParameterAssumption DEF Versions
<1>3. Empty \in Trees /\ dists \in Trees \cup {NoTree}
  BY <1>2 DEF Init, Empty, Trees
<1>4. report \in Reports /\ report.found = {} /\ report.missing = {}
  BY <1>1 DEF NoReport, Reports
<1>5. /\ upstream \in Versions /\ skel \in Trees /\ new = NoTree /\ old = NoTree
      /\ pool = {} /\ error = FALSE /\ metadata = {} /\ run = 1
  BY <1>2, <1>3 DEF Init
<1>6. ReleaseTries \in 0..ReleaseTries
  BY ParameterAssumption
<1>7. TypeOK
  BY <1>1, <1>3, <1>4, <1>5, <1>6 DEF TypeOK, Meta
<1>8. Behind
  BY DEF Init, Empty, Behind
<1> QED
  BY <1>1, <1>4, <1>7, <1>8, ParameterAssumption
  DEF Inv, Round, Dealt, Counters, Listed, Needed, Gathered, Cleaning

LEMMA InvNext == Inv /\ [Next]_vars => Inv'
<1> SUFFICES ASSUME Inv, [Next]_vars PROVE (TypeOK /\ Round)'
  BY BehindNext DEF Inv
<1>1. CASE Download
  BY <1>1, ReleaseStep, IndexStep, PackageStep DEF Download
<1>2. CASE ReleasesInvalid
  BY <1>2, InvalidStep
<1>3. CASE RecheckInVain
  BY <1>3, RecheckStep
<1>4. CASE ReleasesChecked
  BY <1>4, CheckedStep
<1>5. CASE MetadataFetched
  BY <1>5, MetadataStep
<1>6. CASE PoolFetched
  BY <1>6, PoolStep
<1>7. CASE Moving
  BY <1>7, MovingStep
<1>8. CASE Sweep
  BY <1>8, SweepStep
<1>9. CASE \E f \in Meta \cup Packages : Remove(f)
  BY <1>9, RemoveStep
<1>10. CASE Swept
  BY <1>10, SweptStep
<1>11. CASE Restart \/ KilledWhileLinking
  BY <1>11, ProcessStep
<1>12. CASE UpstreamMoves
  BY <1>12, UpstreamStep
<1>13. CASE UNCHANGED vars
  BY <1>13, StutterStep
<1> QED
  BY <1>1, <1>2, <1>3, <1>4, <1>5, <1>6, <1>7, <1>8, <1>9, <1>10, <1>11, <1>12, <1>13
  DEF Next, Work, Moving, Terminated

(* Every variable keeps its type. *)
THEOREM TypeCorrect == Spec => []TypeOK
<1>1. Inv => TypeOK
  BY DEF Inv
<1> QED
  BY <1>1, InvInit, InvNext, PTL DEF Spec
------------------------------------------------------------------------------
(* Old indexes *)

LEMMA UnusedNext == Inv /\ OldIndexesUnused /\ [Next]_vars => OldIndexesUnused'
<1> SUFFICES ASSUME Inv, OldIndexesUnused, [Next]_vars, pc' = "pool" PROVE OldIndexesUnused'
  BY DEF OldIndexesUnused
<1>1. CASE MetadataFetched
  <2>1. /\ pc = "metadata" /\ queue = {} /\ skel' = Cleaned
        /\ queue' = PoolFiles(Cleaned)
    BY <1>1 DEF MetadataFetched, Ask
  <2> QED
    BY <2>1, CleanedIs, PoolFilesOf DEF OldIndexesUnused
<1>2. CASE pc = "pool" /\ skel' = skel /\ queue' \subseteq queue
  BY <1>2 DEF OldIndexesUnused
<1>3. CASE Download
  <2>1. ASSUME NEW p \in Packages, FetchPackage(p) \/ PackageUnavailable(p)
        PROVE  OldIndexesUnused'
    BY <1>2, <2>1 DEF FetchPackage, PackageUnavailable, Unavailable, Deal
  <2> QED
    BY <1>3, <2>1 DEF Download, FetchRelease, ReleaseMissing, ReleaseFails, FetchIndex,
                      IndexUnavailable, Deal
<1>4. CASE UpstreamMoves \/ UNCHANGED vars
  BY <1>2, <1>4 DEF UpstreamMoves, vars, trees
<1>5. CASE ReleasesInvalid \/ RecheckInVain \/ ReleasesChecked \/ PoolFetched
  BY <1>5 DEF ReleasesInvalid, RecheckInVain, ReleasesChecked, PoolFetched, Finish,
              AskReleases, Ask
<1>6. CASE Moving
  BY <1>6 DEF Moving, Unclutter, Link, Linked, SwapOut, SwapIn, DropOld
<1>7. CASE Sweep \/ (\E f \in Meta \cup Packages : Remove(f)) \/ Swept
  BY <1>7 DEF Sweep, Remove, Swept
<1>8. CASE Restart \/ KilledWhileLinking
  BY <1>8 DEF Restart, KilledWhileLinking, NewProcess, AskReleases, Ask
<1> QED
  BY <1>1, <1>3, <1>4, <1>5, <1>6, <1>7, <1>8 DEF Next, Work, Moving, Terminated

(* No package is asked for on behalf of an index that the current release files do not list,
   or of an older one than they list, whatever was in the skel directory before: not even an
   index that is accepted without hashes is older.  (clean_repository_skel before
   get_pool_files.) *)
THEOREM OldIndexesAreUnused == Spec => []OldIndexesUnused
<1>1. Init => OldIndexesUnused
  BY DEF Init, OldIndexesUnused
<1> QED
  BY <1>1, InvInit, InvNext, UnusedNext, PTL DEF Spec
------------------------------------------------------------------------------
(* The folder is moved *)

(* The last file is linked: the new folder is there, and is a copy of skel. *)
LEMMA LinkedIsSkel ==
    ASSUME Inv, pc = "link", queue = {}, LinkedSoFar
    PROVE  new # NoTree /\ new = skel
<1>1. /\ skel \in Trees /\ new \in Trees \cup {NoTree}
      /\ Complete(skel, report.found \cap pool)
      /\ \A m \in Meta : skel[m] # 0 => m \in metadata
  BY DEF Inv, TypeOK, Round, Gathered, OfThisRound
<1>2. PICK r \in Releases : skel[r] # 0
  BY <1>1, ParameterAssumption DEF Complete, Versions
<1>3. new # NoTree
  BY <1>1, <1>2 DEF LinkedSoFar, Meta
<1>4. \A m \in Meta : new[m] = skel[m]
  BY <1>1, <1>3 DEF LinkedSoFar
<1> QED
  BY <1>1, <1>3, <1>4 DEF Trees

LEMMA LinkStep ==
    ASSUME Inv, Moved, LinkedSoFar, NEW m \in Meta, Link(m)
    PROVE  LinkedSoFar'
<1>1. /\ m \in queue /\ queue' = queue \ {m} /\ new' = With(new, m)
      /\ UNCHANGED <<skel, metadata>>
  BY DEF Link, round
<1>2. skel \in Trees /\ new \in Trees \cup {NoTree} /\ m \in metadata
  BY <1>1 DEF Inv, TypeOK, LinkedSoFar
<1>3. CASE skel[m] = 0
  <2>1. new' = new
    BY <1>1, <1>3 DEF With
  <2> QED
    BY <1>1, <1>2, <1>3, <2>1 DEF LinkedSoFar
<1>4. CASE skel[m] # 0
  <2> DEFINE tree == IF new = NoTree THEN Empty ELSE new
  <2>1. tree \in Trees
    BY <1>2 DEF Trees, Empty
  <2>2. new' = [tree EXCEPT ![m] = skel[m]]
    BY <1>1, <1>4 DEF With
  <2>3. \A n \in Meta : tree[n] = IF n \in metadata \ queue THEN skel[n] ELSE 0
    BY DEF LinkedSoFar, Empty
  <2>4. \A n \in Meta : new'[n] = IF n = m THEN skel[m] ELSE tree[n]
    BY <2>1, <2>2 DEF Trees
  <2>5. new' # NoTree
    <3>1. new' \in Trees
      BY <1>2, <2>1, <2>2 DEF Trees
    <3> QED
      BY <3>1, NoTreeAssumption
  <2>6. queue' \subseteq metadata
    BY <1>1 DEF LinkedSoFar
  <2>7. \A n \in Meta : new'[n] = IF n \in metadata \ queue' THEN skel[n] ELSE 0
    BY <1>1, <1>2, <2>3, <2>4
  <2> QED
    BY <1>1, <2>5, <2>6, <2>7 DEF LinkedSoFar
<1> QED
  BY <1>3, <1>4

(* Cleaning leaves the published folder alone: it holds what was found only. *)
LEMMA RemovedIsSkel ==
    ASSUME Inv, dists = skel, NEW f \in Meta \cup Packages, Remove(f)
    PROVE  dists' = skel
<1>1. pc = "clean" /\ f \notin report.found
  BY DEF Remove, Inv, Round, Dealt
<1>2. f \in Meta => skel[f] = 0
  BY <1>1 DEF Inv, Round, Gathered, OfThisRound
<1> QED
  BY <1>2 DEF Remove, Inv, TypeOK, Trees

LEMMA PlacedNext ==
    ASSUME Moved, Inv, Placed, [Next]_vars
    PROVE  Placed'
<1>1. CASE Download
  <2>1. pc' = pc /\ pc \in {"release", "metadata", "pool"}
    BY <1>1 DEF Download, FetchRelease, ReleaseMissing, ReleaseFails, FetchIndex,
                IndexUnavailable, FetchPackage, PackageUnavailable, Deal
  <2> QED
    BY <2>1 DEF Placed
<1>2. CASE ReleasesInvalid \/ RecheckInVain \/ ReleasesChecked \/ MetadataFetched
  <2>1. pc' \in {"release", "metadata", "pool", "failed"}
    BY <1>2, RecheckFails DEF ReleasesInvalid, ReleasesChecked, MetadataFetched,
                              AskReleases, Ask
  <2> QED
    BY <2>1 DEF Placed
<1>3. CASE PoolFetched
  <2>1. pc' = "release" \/ (pc' = "unclutter" /\ queue' = metadata')
    BY <1>3 DEF PoolFetched, Finish, AskReleases, Ask
  <2> QED
    BY <2>1 DEF Placed
<1>4. CASE Unclutter
  <2>1. /\ pc = "unclutter" /\ queue' = queue /\ metadata' = metadata
        /\ \/ pc' = "link" /\ new' = NoTree
           \/ pc' = "unclutter"
    BY <1>4 DEF Unclutter, Uncluttered, round
  <2> QED
    BY <2>1 DEF Placed, LinkedSoFar
<1>5. ASSUME NEW m \in Meta, Link(m) PROVE Placed'
  <2>1. pc = "link" /\ pc' = "link"
    BY <1>5 DEF Link
  <2> QED
    BY <1>5, <2>1, LinkStep DEF Placed
<1>6. CASE Linked
  <2>1. pc = "link" /\ queue = {} /\ new' = new /\ skel' = skel
    BY <1>6 DEF Linked, AllLinked, trees
  <2>2. new # NoTree /\ new = skel
    BY <2>1, LinkedIsSkel DEF Placed
  <2>3. pc' = "swap_out"
    BY <1>6, <2>2 DEF Linked
  <2> QED
    BY <2>1, <2>2, <2>3 DEF Placed
<1>7. CASE SwapOut \/ SwapIn \/ DropOld
  BY <1>7 DEF SwapOut, SwapIn, DropOld, Placed
<1>8. CASE Sweep \/ Swept
  <2>1. pc \in {"sweep", "clean"} /\ pc' \in {"clean", "ok"} /\ dists' = dists /\ skel' = skel
    BY <1>8 DEF Sweep, Swept, trees
  <2>2. dists # NoTree
    BY <2>1, NoTreeAssumption DEF Placed, Inv, TypeOK
  <2> QED
    BY <2>1, <2>2 DEF Placed
<1>9. ASSUME NEW f \in Meta \cup Packages, Remove(f) PROVE Placed'
  <2>1. pc = "clean" /\ pc' = "clean" /\ skel' = skel
    BY <1>9 DEF Remove
  <2> QED
    BY <1>9, <2>1, RemovedIsSkel DEF Placed
<1>10. CASE Restart \/ KilledWhileLinking
  <2>1. pc' = "release"
    BY <1>10 DEF Restart, KilledWhileLinking, NewProcess, AskReleases, Ask
  <2> QED
    BY <2>1 DEF Placed
<1>11. CASE UpstreamMoves \/ UNCHANGED vars
  BY <1>11 DEF UpstreamMoves, vars, trees, round, Placed, LinkedSoFar
<1> QED
  BY <1>1, <1>2, <1>3, <1>4, <1>5, <1>6, <1>7, <1>8, <1>9, <1>10, <1>11
  DEF Next, Work, Terminated

LEMMA MovedInit == Init => MovedInv
  BY InvInit DEF MovedInv, Init, Placed

LEMMA MovedNext == MovedInv /\ [Next]_vars => MovedInv'
  BY InvNext, PlacedNext DEF MovedInv

(* What is in place is whole. *)
LEMMA PlacedIsWhole ==
    ASSUME MovedInv, Moved, pc \in {"drop_old", "sweep", "clean"}
    PROVE  Whole(dists)
<1>1. dists = skel /\ Complete(skel, report.found \cap pool)
  BY DEF MovedInv, Placed, Inv, Round, Gathered
<1>2. Complete(dists, pool)
  BY <1>1, CompleteGrows
<1> QED
  BY <1>2, WholeIsComplete

(* The published folder changes by the moves and by cleaning only, and packages
   go by cleaning only. *)
LEMMA OnlyMoves ==
    ASSUME Moved, [Next]_vars
    PROVE  \/ dists' = dists /\ pool \subseteq pool'
           \/ SwapOut
           \/ SwapIn
           \/ \E f \in Meta \cup Packages : Remove(f)
<1> DEFINE Same == dists' = dists /\ pool \subseteq pool'
<1>1. Download => Same
  BY DEF Download, FetchRelease, ReleaseMissing, ReleaseFails, FetchIndex, IndexUnavailable,
         FetchPackage, PackageUnavailable, Unavailable, Deal
<1>2. ReleasesInvalid \/ RecheckInVain \/ ReleasesChecked \/ MetadataFetched \/ PoolFetched
      => Same
  BY DEF ReleasesInvalid, RecheckInVain, ReleasesChecked, MetadataFetched, PoolFetched, trees
<1>3. Unclutter \/ (\E m \in Meta : Link(m)) \/ Linked \/ DropOld \/ Sweep \/ Swept => Same
  BY DEF Unclutter, Link, Linked, DropOld, Sweep, Swept, trees
<1>4. Restart \/ KilledWhileLinking \/ UpstreamMoves \/ UNCHANGED vars => Same
  BY DEF Restart, KilledWhileLinking, UpstreamMoves, vars, trees
<1> QED
  BY <1>1, <1>2, <1>3, <1>4 DEF Next, Work, Terminated

LEMMA PublishedNext ==
    ASSUME Moved, MovedInv, PublishedIsWhole, [Next]_vars
    PROVE  PublishedIsWhole'
<1>1. MovedInv'
  BY MovedNext
<1>2. CASE dists' = dists /\ pool \subseteq pool'
  BY <1>2 DEF PublishedIsWhole, Whole
<1>3. CASE SwapOut
  BY <1>3 DEF SwapOut, PublishedIsWhole, Whole
<1>4. CASE SwapIn \/ \E f \in Meta \cup Packages : Remove(f)
  <2>1. pc' \in {"drop_old", "clean"}
    BY <1>4 DEF SwapIn, Remove
  <2>2. dists' = skel' /\ Complete(skel', report'.found \cap pool')
    BY <1>1, <2>1 DEF MovedInv, Placed, Inv, Round, Gathered, Complete
  <2>3. Complete(dists', pool')
    BY <2>2, CompleteGrows
  <2> QED
    BY <2>3 DEF PublishedIsWhole, Whole, Complete
<1> QED
  BY <1>2, <1>3, <1>4, OnlyMoves

(* Where the folder is moved and nothing in it is skip-clean, what clients see are the release
   files of one snapshot, the indexes they list, as they list them or newer where no hash of
   the plain form is known, and all the packages that these very indexes need, or nothing: at
   every step of every run, wherever runs are killed, however often upstream moves on and
   downloads fail, and while the mirror is cleaned. *)
THEOREM PublishedAlwaysWhole == ASSUME Moved, Kept = {} PROVE Spec => []PublishedIsWhole
<1>1. Init => PublishedIsWhole
  BY DEF Init, PublishedIsWhole
<1>2. MovedInv /\ PublishedIsWhole /\ [Next]_vars => PublishedIsWhole'
  BY PublishedNext
<1> QED
  BY <1>1, <1>2, MovedInit, MovedNext, PTL DEF Spec

LEMMA OkNext ==
    ASSUME Moved, MovedInv, OkIsWhole, [Next]_vars
    PROVE  OkIsWhole'
<1> SUFFICES ASSUME pc' = "ok" PROVE OkIsWhole'
  BY DEF OkIsWhole
<1>1. CASE Sweep \/ Swept
  <2>1. pc \in {"sweep", "clean"} /\ dists' = dists /\ pool' = pool
    BY <1>1 DEF Sweep, Swept, trees
  <2>2. Whole(dists)
    BY <2>1, PlacedIsWhole
  <2>3. dists # NoTree
    BY <2>1, NoTreeAssumption DEF MovedInv, Placed, Inv, TypeOK
  <2> QED
    BY <2>1, <2>2, <2>3 DEF OkIsWhole, Whole
<1>2. CASE UpstreamMoves \/ UNCHANGED vars
  BY <1>2 DEF UpstreamMoves, vars, trees, OkIsWhole, Whole
<1>3. ~Download
  BY DEF Download, FetchRelease, ReleaseMissing, ReleaseFails, FetchIndex, IndexUnavailable,
         FetchPackage, PackageUnavailable, Deal
<1>4. ~(ReleasesInvalid \/ ReleasesChecked \/ MetadataFetched \/ PoolFetched)
  BY DEF ReleasesInvalid, ReleasesChecked, MetadataFetched, PoolFetched, Finish,
         AskReleases, Ask
<1>5. ~RecheckInVain
  BY RecheckFails DEF MovedInv
<1>6. ~Moving /\ ~\E f \in Meta \cup Packages : Remove(f)
  BY DEF Moving, Unclutter, Link, Linked, SwapOut, SwapIn, DropOld, Remove
<1>7. ~(Restart \/ KilledWhileLinking)
  BY DEF Restart, KilledWhileLinking, NewProcess, AskReleases, Ask
<1> QED
  BY <1>1, <1>2, <1>3, <1>4, <1>5, <1>6, <1>7 DEF Next, Work, Moving, Terminated

(* Where the folder is moved, a run that returns True leaves such a snapshot, whatever the
   server has served between its release files and its indexes. *)
THEOREM OkAlwaysWhole == ASSUME Moved PROVE Spec => []OkIsWhole
<1>1. Init => OkIsWhole
  BY DEF Init, OkIsWhole
<1>2. MovedInv /\ OkIsWhole /\ [Next]_vars => OkIsWhole'
  BY OkNext
<1> QED
  BY <1>1, <1>2, MovedInit, MovedNext, PTL DEF Spec

LEMMA GoneStep ==
    ASSUME Moved, MovedInv, [Next]_vars, dists # NoTree, dists' = NoTree
    PROVE  new # NoTree /\ Whole(new)
<1>1. MovedInv'
  BY MovedNext
<1>2. CASE SwapOut
  <2>1. new = skel /\ Complete(skel, report.found \cap pool)
    BY <1>2 DEF SwapOut, MovedInv, Placed, Inv, Round, Gathered
  <2>2. Complete(new, pool)
    BY <2>1, CompleteGrows
  <2> QED
    BY <2>1, <2>2, WholeIsComplete, NoTreeAssumption DEF MovedInv, Inv, TypeOK
<1>3. ~(SwapIn \/ \E f \in Meta \cup Packages : Remove(f))
  <2>1. SwapIn \/ (\E f \in Meta \cup Packages : Remove(f)) => pc' \in {"drop_old", "clean"}
    BY DEF SwapIn, Remove
  <2> QED
    BY <1>1, <2>1, NoTreeAssumption DEF MovedInv, Placed, Inv, TypeOK
<1> QED
  BY <1>2, <1>3, OnlyMoves

(* Where the folder is moved, the published metadata is taken away only when a whole successor,
   in the same sense, is ready to take its place.  (move_metadata.) *)
THEOREM GoneOnlyForNew == ASSUME Moved PROVE Spec => GoneForNew
<1>1. MovedInv /\ [Next]_vars => [dists # NoTree /\ dists' = NoTree => new # NoTree /\ Whole(new)]_vars
  BY GoneStep
<1> QED
  BY <1>1, MovedInit, MovedNext, PTL DEF Spec, GoneForNew
------------------------------------------------------------------------------
(* The links are made in place *)

(* The skip-clean paths are there, and nothing a run deals with is one of them. *)
KeptHeld ==
    /\ Kept # {} => dists \in Trees /\ \A k \in Kept : dists[k] # 0
    /\ (queue \cup metadata \cup report.found) \cap Kept = {}
    /\ pc \notin {"swap_out", "swap_in"}

LEMMA KeptInit == Init => KeptHeld
<1> SUFFICES ASSUME Init PROVE KeptHeld
  OBVIOUS
<1>1. 1 \in Versions
  BY ParameterAssumption DEF Versions
<1>2. Kept # {} => dists = [m \in Meta |-> IF m \in Kept THEN 1 ELSE 0]
  BY DEF Init
<1>3. Kept # {} => dists \in Trees /\ \A k \in Kept : dists[k] # 0
  BY <1>1, <1>2 DEF Trees, Meta
<1> QED
  BY <1>3, RepositoryAssumption DEF Init, KeptHeld, NoReport

LEMMA KeptNext ==
    ASSUME ~Moved, Inv, KeptHeld, [Next]_vars
    PROVE  KeptHeld'
<1>0. Kept \cap Releases = {} /\ Kept \cap Indexes = {} /\ Kept \cap Packages = {}
  BY RepositoryAssumption DEF Meta
<1>1. CASE Download
  <2>1. PICK f \in Releases \cup Indexes \cup Packages : queue' = queue \ {f}
            /\ report'.found \subseteq report.found \cup {f}
            /\ UNCHANGED <<dists, metadata, pc>>
    BY <1>1 DEF Download, FetchRelease, ReleaseMissing, ReleaseFails, FetchIndex, IndexUnavailable,
                FetchPackage, PackageUnavailable, Unavailable, Deal, Found, round, Inv, TypeOK, Reports
  <2> QED
    BY <1>0, <2>1 DEF KeptHeld
<1>2. CASE ReleasesInvalid \/ ReleasesChecked \/ MetadataFetched \/ PoolFetched
  <2>1. Inv'
    BY InvNext
  <2>2. /\ dists' = dists /\ metadata' \subseteq metadata \cup report.found
        /\ report'.found \subseteq report.found
        /\ pc' \in {"release", "metadata", "pool", "failed", "link"}
        /\ pc' \in {"failed", "link"} => queue' \subseteq queue \cup metadata
    BY <1>2 DEF ReleasesInvalid, ReleasesChecked, MetadataFetched, PoolFetched, AskReleases, Ask,
                Finish, NoReport, trees, Inv, TypeOK, Reports
  <2>3. queue' \cap Kept = {}
    BY <1>0, <2>1, <2>2 DEF Inv, Round, Dealt, KeptHeld
  <2> QED
    BY <2>2, <2>3 DEF KeptHeld
<1>3. CASE RecheckInVain
  BY <1>3, RecheckFails DEF RecheckInVain, Finish, KeptHeld
<1>4. ASSUME NEW m \in Meta, Link(m) PROVE KeptHeld'
  <2>1. /\ queue' = queue \ {m} /\ dists' = With(dists, m)
        /\ UNCHANGED <<skel, pc, report, metadata>>
    BY <1>4 DEF Link, round
  <2>2. Kept # {} => dists' \in Trees /\ \A k \in Kept : dists'[k] # 0
    BY <2>1, NoTreeAssumption DEF With, KeptHeld, Inv, TypeOK, Trees, Meta
  <2> QED
    BY <2>1, <2>2 DEF KeptHeld
<1>5. CASE Unclutter \/ Linked \/ DropOld \/ Swept
  BY <1>5 DEF Unclutter, Linked, DropOld, Swept, trees, round, KeptHeld
<1>6. ~SwapOut /\ ~SwapIn
  BY DEF SwapOut, SwapIn, KeptHeld
<1>7. CASE Sweep
  BY <1>7 DEF Sweep, Doomed, trees, round, KeptHeld
<1>8. ASSUME NEW f \in Meta \cup Packages, Remove(f) PROVE KeptHeld'
  <2>1. f \notin Kept /\ queue' = queue \ {f} /\ UNCHANGED <<pc, report, metadata>>
        /\ dists' = IF f \in Meta THEN [dists EXCEPT ![f] = 0] ELSE dists
    BY <1>8 DEF Remove, round, KeptHeld
  <2>2. Kept # {} => dists' \in Trees /\ \A k \in Kept : dists'[k] # 0
    BY <2>1 DEF KeptHeld, Trees, Meta
  <2> QED
    BY <2>1, <2>2 DEF KeptHeld
<1>9. CASE Restart \/ KilledWhileLinking
  <2>1. /\ queue' = Releases /\ metadata' = {} /\ report'.found = {} /\ pc' = "release"
    BY <1>9 DEF Restart, KilledWhileLinking, NewProcess, AskReleases, Ask, NoReport
  <2>2. Kept # {} => dists' \in Trees /\ \A k \in Kept : dists'[k] # 0
    <3>1. CASE Restart
      BY <3>1 DEF Restart, trees, KeptHeld
    <3>2. CASE KilledWhileLinking
      <4>1. PICK m \in queue : dists' = [dists EXCEPT ![m] = 0]
        BY <3>2 DEF KilledWhileLinking
      <4>2. m \notin Kept
        BY DEF KeptHeld
      <4> QED
        BY <4>1, <4>2 DEF KeptHeld, Trees, Meta
    <3> QED
      BY <1>9, <3>1, <3>2
  <2> QED
    BY <1>0, <2>1, <2>2 DEF KeptHeld
<1>10. CASE UpstreamMoves \/ UNCHANGED vars
  BY <1>10 DEF UpstreamMoves, vars, trees, round, KeptHeld
<1> QED
  BY <1>1, <1>2, <1>3, <1>4, <1>5, <1>6, <1>7, <1>8, <1>9, <1>10 DEF Next, Work, Terminated

(* Where the links are made in place, a skip-clean path among the metadata stays, wherever
   runs are killed and whatever the mirror is cleaned of.  (clean_repository,
   link_or_copy.) *)
THEOREM KeptAlwaysStays == ASSUME ~Moved PROVE Spec => []KeptStays
<1>1. KeptHeld => KeptStays
  BY DEF KeptHeld, KeptStays
<1>2. Inv /\ KeptHeld /\ [Next]_vars => KeptHeld'
  BY KeptNext
<1> QED
  BY <1>1, <1>2, KeptInit, InvInit, InvNext, PTL DEF Spec
------------------------------------------------------------------------------
(* The wipe protection *)

(* What is queued is there, and little of it. *)
Wiping == WipesLittle /\ (pc = "clean" => queue \subseteq Stored)

LEMMA StoredIs ==
    ASSUME TypeOK, NEW files \in SUBSET Stored
    PROVE  /\ IsFiniteSet(files)
           /\ Cardinality(files) \in Nat /\ Bytes(files) \in Nat
           /\ \A f \in files : Size[f] \in Nat
<1>1. files \in SUBSET (Meta \cup Packages)
  BY DEF Stored, TypeOK
<1>2. IsFiniteSet(files)
  BY <1>1, RepositoryAssumption, FS_Subset
<1>3. \A f \in files : Size[f] \in Nat
  BY <1>1, ParameterAssumption
<1> QED
  BY <1>2, <1>3, FS_CardinalityType, TotalSizeType DEF Bytes

(* A share below the ratio stays below it when one thing goes from part and whole. *)
LEMMA ShareKept ==
    ASSUME NEW percent \in 0..100, NEW part \in Nat, NEW whole \in Nat, NEW x \in Nat,
           part * 100 < percent * whole
    PROVE  (part - x) * 100 < percent * (whole - x)
<1>1. percent * (whole - x) = percent * whole - percent * x
  OBVIOUS
<1>2. percent * x <= 100 * x
  OBVIOUS
<1>3. percent * whole \in Int /\ percent * x \in Int
  OBVIOUS
<1> DEFINE a == percent * whole
           b == percent * x
<1> HIDE DEF a, b
<1>4. part * 100 < a /\ b <= 100 * x /\ a \in Int /\ b \in Int
  BY <1>2, <1>3 DEF a, b
<1>5. (part - x) * 100 < a - b
  BY <1>4
<1> QED
  BY <1>1, <1>5 DEF a, b

LEMMA SweepWipes == ASSUME Inv, Sweep, pc' = "clean" PROVE Wiping'
<1>1. CleanAllowed /\ queue' = Doomed /\ UNCHANGED <<pool, dists>>
  BY DEF Sweep, trees
<1>2. Doomed \in SUBSET Stored /\ Stored' = Stored
  BY <1>1 DEF Doomed, Stored
<1>3. /\ IsFiniteSet(Stored) /\ Bytes(Doomed) \in Nat /\ Cardinality(Doomed) \in Nat
      /\ \A f \in Stored : Size[f] \in Nat
  BY <1>2, StoredIs DEF Inv
<1>4. Bytes(Doomed) <= Bytes(Stored) /\ Cardinality(Doomed) <= Cardinality(Stored)
  BY <1>2, <1>3, TotalSizeGrows, FS_Subset DEF Bytes
<1>5. \/ WipeCountRatio = 0 \/ Cardinality(Doomed) = 0
      \/ Cardinality(Doomed) * 100 < WipeCountRatio * Cardinality(Stored)
  BY <1>1, <1>3, <1>4 DEF CleanAllowed, Below
<1>6. \/ WipeSizeRatio = 0 \/ Bytes(Doomed) = 0
      \/ Bytes(Doomed) * 100 < WipeSizeRatio * Bytes(Stored)
  BY <1>1, <1>3, <1>4 DEF CleanAllowed, Below
<1>7. Cardinality(Doomed) = 0 => Doomed = {}
  BY <1>2, <1>3, FS_Subset, FS_EmptySet
<1>8. Bytes(queue)' = Bytes(Doomed) /\ Bytes(Stored)' = Bytes(Stored)
  BY <1>1, <1>2 DEF Bytes
<1> QED
  BY <1>1, <1>2, <1>5, <1>6, <1>7, <1>8 DEF Wiping, WipesLittle

(* What a removal takes away was queued, and was there. *)
LEMMA RemoveTakes ==
    ASSUME Inv, Wiping, NEW f \in Meta \cup Packages, Remove(f)
    PROVE  /\ pc = "clean" /\ f \in queue /\ f \in Stored
           /\ queue' = queue \ {f} /\ Stored' = Stored \ {f}
<1>1. /\ pc = "clean" /\ f \in queue /\ f \in Stored
      /\ queue' = queue \ {f} /\ pool' = pool \ {f}
  BY DEF Remove, Wiping
<1>2. f \in Meta => dists \in Trees /\ dists' = [dists EXCEPT ![f] = 0]
  BY <1>1 DEF Remove, Inv, TypeOK, Round, Cleaning
<1>3. f \notin Meta => dists' = dists
  BY DEF Remove
<1>4. CASE f \in Meta
  <2>1. dists' # NoTree /\ dists # NoTree /\ \A m \in Meta : dists'[m] # 0 <=> m # f /\ dists[m] # 0
    BY <1>2, <1>4, NoTreeAssumption DEF Trees
  <2> QED
    BY <1>1, <2>1 DEF Stored
<1>5. CASE f \notin Meta
  BY <1>1, <1>3, <1>5 DEF Stored
<1> QED
  BY <1>1, <1>4, <1>5

LEMMA RemoveWipes ==
    ASSUME Inv, Wiping, NEW f \in Meta \cup Packages, Remove(f)
    PROVE  Wiping'
<1>1. /\ pc = "clean" /\ f \in queue /\ f \in Stored /\ queue \in SUBSET Stored
      /\ queue' = queue \ {f} /\ Stored' = Stored \ {f}
  BY RemoveTakes DEF Wiping
<1>2. /\ IsFiniteSet(queue) /\ Cardinality(queue) \in Nat /\ Bytes(queue) \in Nat
      /\ IsFiniteSet(Stored) /\ Cardinality(Stored) \in Nat /\ Bytes(Stored) \in Nat
      /\ \A g \in Stored : Size[g] \in Nat
  BY <1>1, StoredIs DEF Inv
<1>3. /\ Cardinality(queue \ {f}) = Cardinality(queue) - 1
      /\ Cardinality(Stored \ {f}) = Cardinality(Stored) - 1
  BY <1>1, <1>2, FS_RemoveElement
<1>4. /\ Bytes(queue \ {f}) = Bytes(queue) - Size[f]
      /\ Bytes(Stored \ {f}) = Bytes(Stored) - Size[f]
      /\ Size[f] \in Nat
  BY <1>1, <1>2, TotalSizeRemoves DEF Bytes
<1>5. WipeCountRatio \in 0..100 /\ WipeSizeRatio \in 0..100
  BY ParameterAssumption
<1>6. \/ WipeCountRatio = 0
      \/ Cardinality(queue') * 100 < WipeCountRatio * Cardinality(Stored')
  <2>1. CASE Cardinality(queue) * 100 < WipeCountRatio * Cardinality(Stored)
    <3>1. 1 \in Nat
      OBVIOUS
    <3> QED
      BY <1>1, <1>2, <1>3, <1>5, <2>1, <3>1, ShareKept
  <2> QED
    BY <1>1, <2>1 DEF Wiping, WipesLittle
<1>7. \/ WipeSizeRatio = 0 \/ Bytes(queue') = 0
      \/ Bytes(queue') * 100 < WipeSizeRatio * Bytes(Stored')
  <2>1. CASE Bytes(queue) * 100 < WipeSizeRatio * Bytes(Stored)
    BY <1>1, <1>2, <1>4, <1>5, <2>1, ShareKept
  <2>2. CASE Bytes(queue) = 0
    <3>1. Bytes(queue \ {f}) \in Nat
      BY <1>1, StoredIs DEF Inv
    <3>2. Bytes(queue \ {f}) = 0
      BY <1>4, <2>2, <3>1
    <3> QED
      BY <1>1, <3>2
  <2> QED
    BY <1>1, <2>1, <2>2 DEF Wiping, WipesLittle
<1>8. Bytes(queue)' = Bytes(queue') /\ Bytes(Stored)' = Bytes(Stored')
  BY DEF Bytes
<1> QED
  BY <1>1, <1>6, <1>7, <1>8 DEF Wiping, WipesLittle

LEMMA WipingNext == Inv /\ Wiping /\ [Next]_vars => Wiping'
<1> SUFFICES ASSUME Inv, Wiping, [Next]_vars PROVE Wiping'
  OBVIOUS
<1>1. CASE UNCHANGED <<pc, queue, pool, dists>>
  BY <1>1 DEF Wiping, WipesLittle, Stored, Bytes
<1>2. CASE pc' # "clean"
  BY <1>2 DEF Wiping, WipesLittle
<1>3. CASE Sweep
  BY <1>2, <1>3, SweepWipes
<1>4. CASE \E f \in Meta \cup Packages : Remove(f)
  BY <1>4, RemoveWipes
<1>5. CASE Download
  <2>1. pc' # "clean"
    BY <1>5 DEF Download, FetchRelease, ReleaseMissing, ReleaseFails, FetchIndex, IndexUnavailable,
                FetchPackage, PackageUnavailable, Deal
  <2> QED
    BY <1>2, <2>1
<1>6. CASE ReleasesInvalid \/ RecheckInVain \/ ReleasesChecked \/ MetadataFetched \/ PoolFetched
  <2>1. pc' # "clean"
    BY <1>6 DEF ReleasesInvalid, RecheckInVain, ReleasesChecked, MetadataFetched, PoolFetched,
                AskReleases, Ask, Finish
  <2> QED
    BY <1>2, <2>1
<1>7. CASE Moving \/ Swept
  <2>1. pc' # "clean"
    BY <1>7 DEF Moving, Swept, Unclutter, Link, Linked, SwapOut, SwapIn, DropOld
  <2> QED
    BY <1>2, <2>1
<1>8. CASE Restart \/ KilledWhileLinking
  BY <1>2, <1>8 DEF Restart, KilledWhileLinking, NewProcess, AskReleases, Ask
<1>9. CASE UpstreamMoves \/ UNCHANGED vars
  BY <1>1, <1>9 DEF UpstreamMoves, vars, trees
<1> QED
  BY <1>3, <1>4, <1>5, <1>6, <1>7, <1>8, <1>9 DEF Next, Work, Moving, Terminated

(* Whatever a run has missed, its cleaning never takes the share of the mirror that the wipe
   ratios protect, at any step of it, in files or in bytes: for any repository, any sizes and
   any ratios, whether the folder is moved or not. *)
THEOREM WipesAlwaysLittle == Spec => []WipesLittle
<1>1. Init => Wiping
  BY DEF Init, Wiping, WipesLittle
<1>2. Inv /\ Wiping /\ [Next]_vars => (Inv /\ Wiping)'
  BY InvNext, WipingNext
<1>3. Wiping => WipesLittle
  BY DEF Wiping
<1> QED
  BY <1>1, <1>2, <1>3, InvInit, PTL DEF Spec
------------------------------------------------------------------------------
(* The links are made in place, and the old files are cleaned away *)

(* What skel holds is linked file by file; what it does not hold is in the way of the
   cleaning. *)
InPlace ==
    /\ \A m \in Meta \cap report.found : skel[m] # 0
    /\ pc \notin {"unclutter", "swap_out", "swap_in", "drop_old"}
    /\ pc \in {"link", "sweep", "clean"} =>
          \A m \in Meta : skel[m] # 0 /\ (pc = "link" => m \notin queue) =>
              dists # NoTree /\ dists[m] = skel[m]
    /\ pc = "clean" =>
          \A m \in Releases \cup Indexes :
              skel[m] = 0 /\ dists # NoTree /\ dists[m] # 0 => m \in queue

(* What was found stays in skel until the report is reset. *)
LEMMA FoundStays ==
    ASSUME Inv, [Next]_vars, \A m \in Meta \cap report.found : skel[m] # 0
    PROVE  \A m \in Meta \cap report'.found : skel'[m] # 0
<1>0. /\ skel \in Trees /\ report \in Reports /\ upstream # 0
      /\ report.found \cap report.missing = {}
  BY ParameterAssumption DEF Inv, TypeOK, Versions, Round, Dealt
<1>1. ASSUME NEW r \in Releases, FetchRelease(r) \/ ReleaseMissing(r) \/ ReleaseFails(r)
      PROVE  \A m \in Meta \cap report'.found : skel'[m] # 0
  <2>1. r \in Meta \cup Packages
    BY DEF Meta
  <2>2. CASE FetchRelease(r)
    <3>1. report'.found = report.found \cup {r}
      BY <1>0, <2>2 DEF FetchRelease, Found, Reports
    <3>2. skel' = [skel EXCEPT ![r] = upstream]
      BY <2>2 DEF FetchRelease
    <3> QED
      BY <1>0, <3>1, <3>2 DEF Trees
  <2>3. CASE ReleaseMissing(r) \/ ReleaseFails(r)
    <3>1. report'.found = report.found /\ skel' = skel
      BY <1>0, <2>3 DEF ReleaseMissing, ReleaseFails, Unavailable, Reports
    <3> QED
      BY <3>1
  <2> QED
    BY <1>1, <2>2, <2>3
<1>2. ASSUME NEW i \in Indexes, FetchIndex(i) \/ IndexUnavailable(i)
      PROVE  \A m \in Meta \cap report'.found : skel'[m] # 0
  <2>1. CASE FetchIndex(i)
    <3>1. report'.found = report.found \cup {i}
      BY <1>0, <2>1 DEF FetchIndex, Found, Reports
    <3>2. PICK w \in Accepted(i) : skel' = [skel EXCEPT ![i] = w]
      BY <2>1 DEF FetchIndex
    <3>3. w # 0
      BY <2>1, AcceptedFits, ParameterAssumption DEF FetchIndex, Deal, Versions
    <3> QED
      BY <1>0, <3>1, <3>2, <3>3 DEF Trees
  <2>2. CASE IndexUnavailable(i)
    <3>1. report'.found = report.found /\ skel' = skel
      BY <1>0, <2>2 DEF IndexUnavailable, Unavailable, Reports
    <3> QED
      BY <3>1
  <2> QED
    BY <1>2, <2>1, <2>2
<1>3. ASSUME NEW p \in Packages, FetchPackage(p) \/ PackageUnavailable(p)
      PROVE  \A m \in Meta \cap report'.found : skel'[m] # 0
  <2>1. report'.found \subseteq report.found \cup {p} /\ skel' = skel
    BY <1>0, <1>3 DEF FetchPackage, PackageUnavailable, Unavailable, Found, Reports
  <2>2. p \notin Meta
    BY RepositoryAssumption
  <2> QED
    BY <2>1, <2>2
<1>4. CASE ReleasesInvalid \/ RecheckInVain \/ ReleasesChecked
  <2>1. report'.found \subseteq report.found /\ skel' = Dropped
    BY <1>0, <1>4 DEF ReleasesInvalid, RecheckInVain, ReleasesChecked, AskReleases, Ask,
                      NoReport, Reports
  <2> QED
    BY <1>0, <2>1 DEF Dropped, Downloaded
<1>5. CASE MetadataFetched
  <2>1. report'.found = report.found /\ skel' = Cleaned
    BY <1>0, <1>5 DEF MetadataFetched, Ask, Reports
  <2> QED
    BY <1>0, <2>1 DEF Cleaned, Downloaded
<1>6. CASE PoolFetched
  <2>1. report'.found \subseteq report.found /\ skel' = skel
    BY <1>0, <1>6 DEF PoolFetched, Finish, AskReleases, Ask, NoReport, Reports, trees
  <2> QED
    BY <2>1
<1>7. CASE Restart \/ KilledWhileLinking
  BY <1>7 DEF Restart, KilledWhileLinking, NewProcess, AskReleases, Ask, NoReport
<1>8. CASE UNCHANGED <<skel, report>>
  BY <1>8
<1>9. Moving \/ Sweep \/ Swept \/ UpstreamMoves \/ UNCHANGED vars => UNCHANGED <<skel, report>>
  BY DEF Moving, Unclutter, Link, Linked, SwapOut, SwapIn, DropOld, Sweep, Swept,
         UpstreamMoves, vars, trees
<1>10. (\E f \in Meta \cup Packages : Remove(f)) => UNCHANGED <<skel, report>>
  BY DEF Remove
<1> QED
  BY <1>1, <1>2, <1>3, <1>4, <1>5, <1>6, <1>7, <1>8, <1>9, <1>10
  DEF Next, Work, Download, Moving, Terminated

LEMMA InPlaceNext ==
    ASSUME ~Moved, Inv, InPlace, [Next]_vars
    PROVE  InPlace'
<1>0. /\ dists \in Trees \cup {NoTree} /\ skel \in Trees
      /\ \A m \in Meta \cap report'.found : skel'[m] # 0
  BY FoundStays DEF Inv, TypeOK, InPlace
<1>1. CASE pc' \in {"release", "metadata", "pool", "ok", "failed"}
  BY <1>0, <1>1 DEF InPlace
<1>2. CASE Download
  <2>1. pc' = pc /\ pc \in {"release", "metadata", "pool"}
    BY <1>2 DEF Download, FetchRelease, ReleaseMissing, ReleaseFails, FetchIndex,
                IndexUnavailable, FetchPackage, PackageUnavailable, Deal
  <2> QED
    BY <1>1, <2>1
<1>3. CASE ReleasesInvalid \/ RecheckInVain \/ ReleasesChecked \/ MetadataFetched
  <2>1. pc' \in {"release", "metadata", "pool", "failed"}
    BY <1>3, RecheckFails DEF ReleasesInvalid, ReleasesChecked, MetadataFetched,
                              AskReleases, Ask
  <2> QED
    BY <1>1, <2>1
<1>4. CASE PoolFetched
  <2>1. pc' = "release" \/ (pc' = "link" /\ queue' = metadata')
    BY <1>4 DEF PoolFetched, Finish, AskReleases, Ask
  <2>2. CASE pc' = "link" /\ queue' = metadata'
    <3>1. \A m \in Meta : skel'[m] # 0 => m \in metadata'
      BY <1>4, <2>2, PoolStep DEF Inv, Round, Gathered, OfThisRound
    <3> QED
      BY <1>0, <2>2, <3>1 DEF InPlace
  <2> QED
    BY <1>1, <2>1, <2>2
<1>5. ASSUME NEW m \in Meta, Link(m) PROVE InPlace'
  <2>1. /\ pc = "link" /\ pc' = "link" /\ queue' = queue \ {m} /\ dists' = With(dists, m)
        /\ skel' = skel
    BY <1>5 DEF Link
  <2>2. CASE skel[m] = 0
    BY <1>0, <2>1, <2>2 DEF With, InPlace
  <2>3. CASE skel[m] # 0
    <3> DEFINE tree == IF dists = NoTree THEN Empty ELSE dists
    <3>1. tree \in Trees /\ dists' = [tree EXCEPT ![m] = skel[m]]
      BY <1>0, <2>1, <2>3 DEF With, Trees, Empty
    <3>2. dists' \in Trees /\ dists'[m] = skel[m] /\ \A n \in Meta \ {m} : dists'[n] = tree[n]
      BY <1>0, <3>1 DEF Trees
    <3>3. dists' # NoTree
      BY <3>2, NoTreeAssumption
    <3>4. \A n \in Meta : skel[n] # 0 /\ n \notin queue => tree[n] = skel[n]
      BY <2>1 DEF InPlace
    <3>5. \A n \in Meta : skel[n] # 0 /\ n \notin queue' => dists'[n] = skel[n]
      BY <2>1, <3>2, <3>4
    <3> QED
      BY <1>0, <2>1, <3>3, <3>5 DEF InPlace
  <2> QED
    BY <2>2, <2>3
<1>6. CASE Linked
  BY <1>0, <1>6 DEF Linked, AllLinked, trees, InPlace
<1>7. ~(Unclutter \/ SwapOut \/ SwapIn \/ DropOld)
  BY DEF Unclutter, SwapOut, SwapIn, DropOld, InPlace
<1>8. CASE Sweep
  <2>1. pc = "sweep" /\ UNCHANGED <<skel, dists, pool, report>>
        /\ (pc' = "ok" \/ (pc' = "clean" /\ queue' = Doomed))
    BY <1>8 DEF Sweep, trees
  <2>2. ASSUME NEW m \in Releases \cup Indexes, skel[m] = 0, dists # NoTree, dists[m] # 0
        PROVE  m \in Doomed
    BY <2>2, RepositoryAssumption DEF InPlace, Doomed, Stored, Downloaded, Meta
  <2> QED
    BY <1>0, <1>1, <2>1, <2>2 DEF InPlace
<1>9. ASSUME NEW f \in Meta \cup Packages, Remove(f) PROVE InPlace'
  <2>1. /\ pc = "clean" /\ pc' = "clean" /\ f \in queue /\ queue' = queue \ {f} /\ skel' = skel
        /\ dists' = IF f \in Meta THEN [dists EXCEPT ![f] = 0] ELSE dists
    BY <1>9 DEF Remove
  <2>2. \A m \in Meta : skel[m] # 0 => m # f
    BY <2>1 DEF Inv, Round, Dealt, Gathered, OfThisRound
  <2>3. f \in Meta => dists \in Trees
    BY <1>0, <2>1 DEF Inv, Round, Cleaning
  <2>4. CASE f \in Meta
    <3>1. dists' \in Trees /\ dists'[f] = 0 /\ \A n \in Meta \ {f} : dists'[n] = dists[n]
      BY <2>1, <2>3, <2>4 DEF Trees
    <3>2. dists # NoTree /\ dists' # NoTree
      BY <2>3, <2>4, <3>1, NoTreeAssumption
    <3>3. \A m \in Meta : skel[m] # 0 => dists'[m] = skel[m]
      BY <2>1, <2>2, <3>1 DEF InPlace
    <3>4. \A m \in Releases \cup Indexes : skel[m] = 0 /\ dists'[m] # 0 => m \in queue'
      BY <2>1, <3>1, <3>2 DEF InPlace, Meta
    <3> QED
      BY <1>0, <2>1, <3>2, <3>3, <3>4 DEF InPlace
  <2>5. CASE f \notin Meta
    <3>1. \A m \in Releases \cup Indexes : m \in queue => m \in queue'
      BY <2>1, <2>5 DEF Meta
    <3> QED
      BY <1>0, <2>1, <2>5, <3>1 DEF InPlace
  <2> QED
    BY <2>4, <2>5
<1>10. CASE Swept
  BY <1>1, <1>10 DEF Swept
<1>11. CASE Restart \/ KilledWhileLinking
  BY <1>1, <1>11 DEF Restart, KilledWhileLinking, NewProcess, AskReleases, Ask
<1>12. CASE UpstreamMoves \/ UNCHANGED vars
  BY <1>12 DEF UpstreamMoves, vars, trees, InPlace
<1> QED
  BY <1>2, <1>3, <1>4, <1>5, <1>6, <1>7, <1>8, <1>9, <1>10, <1>11, <1>12
  DEF Next, Work, Terminated

(* The cleaning has come to its end: the folder is what skel is. *)
LEMMA SweptIsWhole ==
    ASSUME Inv, InPlace, pc = "clean", queue = {}
    PROVE  dists # NoTree /\ Whole(dists)
<1>1. /\ Complete(skel, report.found \cap pool)
      /\ dists \in Trees \cup {NoTree} /\ skel \in Trees
  BY DEF Inv, TypeOK, Round, Gathered
<1>2. Complete(skel, pool)
  BY <1>1, CompleteGrows
<1>3. PICK r \in Releases : skel[r] # 0
  BY <1>1, ParameterAssumption DEF Complete, Versions
<1>4. dists # NoTree
  BY <1>3 DEF InPlace, Meta
<1>5. \A m \in Releases \cup Indexes : dists[m] = skel[m]
  BY <1>4 DEF InPlace, Meta
<1>6. Complete(dists, pool)
  BY <1>2, <1>5 DEF Complete
<1> QED
  BY <1>4, <1>6, WholeIsComplete

LEMMA OkNextInPlace ==
    ASSUME ~Moved, Clean, WipeCountRatio = 0, WipeSizeRatio = 0,
           Inv, InPlace, OkIsWhole, [Next]_vars
    PROVE  OkIsWhole'
<1> SUFFICES ASSUME pc' = "ok" PROVE OkIsWhole'
  BY DEF OkIsWhole
<1>1. CASE Swept
  <2>1. pc = "clean" /\ queue = {} /\ dists' = dists /\ pool' = pool
    BY <1>1 DEF Swept, trees
  <2> QED
    BY <2>1, SweptIsWhole DEF OkIsWhole, Whole
<1>2. ~Sweep
  BY DEF Sweep, CleanAllowed, Below
<1>3. CASE UpstreamMoves \/ UNCHANGED vars
  BY <1>3 DEF UpstreamMoves, vars, trees, OkIsWhole, Whole
<1>4. ~Download
  BY DEF Download, FetchRelease, ReleaseMissing, ReleaseFails, FetchIndex, IndexUnavailable,
         FetchPackage, PackageUnavailable, Deal
<1>5. ~(ReleasesInvalid \/ ReleasesChecked \/ MetadataFetched \/ PoolFetched)
  BY DEF ReleasesInvalid, ReleasesChecked, MetadataFetched, PoolFetched, Finish,
         AskReleases, Ask
<1>6. ~RecheckInVain
  BY RecheckFails
<1>7. ~Moving /\ ~\E f \in Meta \cup Packages : Remove(f)
  BY DEF Moving, Unclutter, Link, Linked, SwapOut, SwapIn, DropOld, Remove
<1>8. ~(Restart \/ KilledWhileLinking)
  BY DEF Restart, KilledWhileLinking, NewProcess, AskReleases, Ask
<1> QED
  BY <1>1, <1>2, <1>3, <1>4, <1>5, <1>6, <1>7, <1>8 DEF Next, Work, Moving, Terminated

(* Where the links are made in place, a run that returns True and was free to clean leaves
   one whole snapshot, whatever earlier runs were killed in the middle of.  It takes the
   cleaning: without it, or where the wipe protection refuses it, an index that the new
   release files do not list stays beside them.  (move_metadata, clean_repository.) *)
THEOREM OkAlwaysWholeInPlace ==
    ASSUME ~Moved, Clean, WipeCountRatio = 0, WipeSizeRatio = 0
    PROVE  Spec => []OkIsWhole
<1>1. Init => InPlace /\ OkIsWhole
  BY DEF Init, InPlace, OkIsWhole, NoReport
<1>2. Inv /\ InPlace /\ OkIsWhole /\ [Next]_vars => (Inv /\ InPlace /\ OkIsWhole)'
  BY InvNext, InPlaceNext, OkNextInPlace
<1> QED
  BY <1>1, <1>2, InvInit, PTL DEF Spec
------------------------------------------------------------------------------
(* Where every index has a hash *)

(* Of one snapshot: where release files list no index only compressed, none of another
   snapshot is accepted. *)
LEMMA WholeIsOfOneSnapshot ==
    ASSUME \A v \in Versions : Lists[v] \subseteq Plain[v], OkIsWhole
    PROVE  NeverBroken
<1> SUFFICES ASSUME pc = "ok"
             PROVE  \E v \in Versions : \A m \in Releases \cup Indexes : dists[m] \in {0, v}
  BY DEF NeverBroken
<1>1. PICK v \in Versions :
        /\ \A r \in Releases : dists[r] \in {0, v}
        /\ \A i \in Indexes : dists[i] # 0 => i \in Lists[v] /\ dists[i] \in Fitting(i, v)
  BY DEF OkIsWhole, Whole
<1>2. \A i \in Indexes : i \in Lists[v] => Fitting(i, v) = {v}
  BY DEF Fitting
<1> QED
  BY <1>1, <1>2

(* A run that returns True leaves a mirror of one snapshot, as README.md promises, provided
   that the release files list every index without compression, too, so that its plain form
   is accepted by its hashes only, and that the folder is moved, or nothing hinders the
   cleaning. *)
THEOREM OkIsOfOneSnapshot ==
    ASSUME \A v \in Versions : Lists[v] \subseteq Plain[v],
           Moved \/ (Clean /\ WipeCountRatio = 0 /\ WipeSizeRatio = 0)
    PROVE  Spec => []NeverBroken
<1>1. Spec => []OkIsWhole
  <2>1. CASE Moved
    BY <2>1, OkAlwaysWhole
  <2>2. CASE ~Moved
    BY <2>2, OkAlwaysWholeInPlace
  <2> QED
    BY <2>1, <2>2
<1>2. OkIsWhole => NeverBroken
  BY WholeIsOfOneSnapshot
<1> QED
  BY <1>1, <1>2, PTL
=============================================================================
