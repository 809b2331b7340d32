# A verification model of apt-mirror2

TLA+ modules, TLC configurations and TLAPS proofs for the program in `src/`:
a mirror for APT repositories (`apt_mirror/`), and the commands that carry such
a mirror to a site without network (`apt_mirror/offline.py`).

## 1. The system

| Part | Source | State it keeps | Operations |
|---|---|---|---|
| Downloader | `download/downloader.py` | queue, asyncio tasks, lists of downloaded and missing paths, counters; partial files, published files and their times on disk | `add`, `download`, `download_file`, `need_update`, retries, resumption, publication |
| Protocols | `download/protocols/*.py`, `response.py` | connections | `stream`: one of *retry*, *restart*, *missing*, *error*, or a body |
| Download files | `download_file.py` | none: paths, sizes, hashes and compression variants | pure |
| Repository mirror | `apt_mirror.py`, class `RepositoryMirror` | skel, mirror and `dists.apt_mirror_{new,old}` directories; `_error`, `recheck_release_files` | `mirror`, `download_release_files`, `download_metadata_files`, `download_pool_files`, `move_metadata`, `clean_repository*` |
| Path cleaner | `apt_mirror.py`, class `PathCleaner` | what it has found below a directory | `clean`, `write_clean_script`, the wipe protection |
| Process and lock | `apt_mirror.py`, class `APTMirror` | the lock file | `run`, `lock`, the gathering of all mirrors' results |
| Repository metadata | `repository.py` | none | parsers of Release, Packages and Sources; `validate_release_files`; which indexes to fetch |
| Package filter | `filter.py` | none | a predicate on a stanza |
| Offline synchronization | `offline.py` | online: `accepted-manifest.json`, `manifests/`, a hash cache; media: bundle, `ack.json`, `repair-request.json`; offline: the mirror, `manifest.json` | `export_bundle`, `export_volumes`, `stage_volumes`, `import_bundle`, `verify_installed` |
| Slow rate protector | `download/slow_rate_protector.py` | a window of rates | ends a download that is too slow |
| Asynchronous files | `aiofile.py` | | opening and writing off the event loop |
| Configuration, URLs, proxies, netrc | `config.py`, `netrc.py`, `download/{url,proxy}.py` | the parameters of a run | parsing |
| Logs, metrics, formats, loop, factories, scripts | the rest | | observe or start the parts above |

How they interact: `APTMirror.run` takes the lock and awaits one
`RepositoryMirror.mirror` per repository; each mirror gives its downloader a list of
files three times a round (release files, indexes, packages), reads its counters
and lists, and links what is in *skel* into the mirror.  All tasks of all
downloaders share one event loop, one semaphore and the directories on disk.
The offline commands read and write the finished mirror, and talk to each other
by files on removable media only.

What is hard in it:

- **Interleaving.**  Every `await` in `download_file` lets other tasks run; they
  share the semaphore and the directories of partial files, which each of them
  makes and prunes.
- **Files that outlive the process.**  Partial files are resumed by a later process
  that holds another index; hard links, renames and deletions are separate steps,
  each of which may be the last.
- **A moving upstream.**  Release files, indexes and packages are fetched at
  different times, from servers that may have moved on; the mirror that clients see
  should be one snapshot all the same.
- **Retries within retries.**  Tries per path, paths per variant, variants per
  file, tries for consistent release files, rounds per run: each must end.
- **Lost, old and repeated messages.**  A medium may be lost or come back with old
  feedback; a bundle may be imported twice, or after a killed import.
- **Partial failure.**  Some release files fail and others do not; a file is found
  damaged when the rest was copied.

What makes each part correct:

- *Downloader*: what is published is one version of a file, whole; what is reported
  agrees with the disk; no file is forgotten; every queue is worked off.
- *Repository mirror*: clients see one whole snapshot; nothing a snapshot needs is
  cleaned away; errors are reported; every run ends.
- *Lock*: one run at a time.
- *Offline synchronization*: what counts as installed is a whole snapshot; no
  bundle relies on something that was never installed; in the end both mirrors are
  equal.
- *Configuration*: every line counts, in whatever order files are read, and nothing is
  mirrored that no line asks for.
- *Repository metadata and filter*: what is wanted is fetched, what is fetched is parsed,
  nothing of an earlier run is; a file of the pool has the sizes and checksums of one
  stanza, and a stanza is read without what the one before has left.
- *Path cleaner, volumes, deletions*: boundaries (a ratio, a size limit) that hold at every
  step of what they protect.

`PROJECT.json` lists the hazards of the code, each at its line, with the
properties that cover it.

## 2. The modules

| Module | What it is | Extends / instantiates |
|---|---|---|
| `PublishedTree` | abstract: what the downloader promises of the files it publishes | |
| `Download` | the downloader of one process after another | `PublishedTree` by a refinement mapping |
| `FileSizes` | operators: the bytes of a set of files | |
| `RepositoryMirror` | the rounds, rechecks, publication and cleaning of one repository | `FileSizes`; takes from `Download` that a queue is worked off and that published files are whole |
| `Configuration` | reading `mirror.list` and `mirror.list.d` | |
| `DownloadFiles` | operators: files, their variants and paths | |
| `ReleaseIndexes` | operators: agreement of release files, the indexes that are wanted, those that are parsed | `Configuration`, `DownloadFiles` |
| `PackageFilter` | operators: the filter on a stanza | |
| `IndexParser` | reading Packages and Sources line by line | `DownloadFiles`, `PackageFilter` |
| `Selection` | a repository from its lines to the files of its pool | composes `ReleaseIndexes` and `IndexParser` |
| `BundleVolumes` | the inside of a bundle: scan, cache, volumes, staging | `FileSizes` |
| `OfflineSync` | export, import, verification and feedback between two hosts | `FileSizes`; takes from `BundleVolumes` that a bundle is the difference it claims to be |
| `RunLock` | the lock file | |
| `MC*` | instances of these for TLC | the module of that name |
| `DownloadProofs`, `RepositoryMirrorProofs`, `ConfigurationProofs`, `IndexParserProofs`, `BundleVolumesProofs`, `OfflineSyncProofs`, `FileSizesProofs` | theorems and their proofs | the module, `TLAPS` |
| `SelectionProofs` | the same for the composed modules | `Selection`, `ConfigurationProofs`, `IndexParserProofs` |

The modules are layers: each one takes as a single step what the one below shows to
be one.  `Download` has blocks of files; `RepositoryMirror` has whole files and
the snapshot they belong to; `OfflineSync` has whole mirrors.  `Selection` looks inside
the two steps of `RepositoryMirror` that decide what is downloaded (`Lists` and `Needs`
there are constants), for one run against a server that holds still.

### Download

`task[f]` is the local state of the coroutine `download_file` of a queued file: the
variant `v`, the path `i` in it and the `tries` left (the three nested loops of lines
323-334), `error`, the `offset` asked for, the headers of the response and `seen`, the
stream that was hashed.  `pc` is the await the coroutine stands at:

| `pc` | awaits | left by |
|---|---|---|
| `queued` | its start by `download` | `SkipUnmodified` (weak size check), `Start` |
| `try` | nothing: the head of `while tries > 0` | `Prepare`, `DiscardPartial`, `ReadCompleted`, `Exhausted` |
| `verify` | the hash of a complete partial file | `RecoverCompleted`, `DiscardCompleted` |
| `request` | the semaphore and the headers | the `Reply...` actions |
| `rehash` | the hash of the part to be resumed | `Rehash` |
| `open` | the opening of the partial file | `OpenPartial`, `OpenFails` |
| `stream` | a chunk | `Chunk`, `BodyFails`, `BodyMismatches`, `BodyMissized`, `BodyComplete` |
| `backoff` | the sleep of `retry` | `Wake` |

`partial`, `dirs`, `target` and `mtime` are the disk and outlive the process.
`NewProcess` starts another one, with any index in `wanted`; the `Killed...`
actions are a kill between the hard links of one file (`link_or_copy` unlinks a
name and then links it), `Restart` is one anywhere else.  A content is the sequence
of versions its blocks were taken from, so a file resumed from another version is
`<<1, 2>>`; a digest is equality with one version, whole.

### RepositoryMirror

`pc` follows `RepositoryMirror.mirror`: `release`, `metadata` and `pool` are the three
calls of the downloader, in which `queue` is worked off file by file while the
upstream may move; `ReleasesChecked`, `MetadataFetched` and `PoolFetched` are the code
between them, `RecheckInVain` the exit of the loop.  `unclutter`, `link`, `swap_out`,
`swap_in` and `drop_old` are the steps of `move_metadata`; `sweep` and `clean` those of
`clean_repository`.  `report` is what `mirror` reads of its downloader: the files
found, `_missing_sources`, whether anything was downloaded, whether anything failed;
it is reset where `add` and `reset_paths` reset it.  A process may be killed before
any step, and in place also between the unlink and the link of one file.
`Plain[v]` are the indexes that the release files of snapshot `v` list without
compression, too.  Any other index has, besides the variants that are listed, a plain one
without size and hashes, which is tried last; `Accepted` is what may come of it: the listed
version, or whatever the server has.
`CleanAllowed` is the wipe protection, with both its ratios.

### Configuration

A line is a record of what `RepositoryConfig.from_line` makes of it; a file is a sequence
of lines.  `phase` and `reading` are where `Config.__init__` stands: `mirror.list`, then the
`.list` files of the directory in the order glob happens to give, then the `.sources`
files.  A list of architectures is an object that several components share, and
`update_repository` appends for all of them: `parts[x].list` is a reference into `lists`.
`options` are gathered while `.list` files are read and put on the repositories after the
last one (`ApplyOptions`); those of a stanza are put on its own repositories
(`ReadStanza`).  `asked` and `given` are history: what the lines asked for.

### ReleaseIndexes, PackageFilter, DownloadFiles

Operators only.  A file has one variant to begin with, of the compression its suffix
stands for (`NewFile`): a file of the pool keeps this one, with the size and hashes of its
stanza; an index gets the variants of the release files besides.  A path in a release file is a record of its parts, so that `arch in path`
is a relation between names (`Within`): `arm` is in `armhf`.  `ValidReleases`,
`MetadataFiles`, `PackagesFiles` and `SourcesFiles` have the names of their methods, or
nearly.  What a glob matches is a relation, too.

### IndexParser

`block` has the attributes of `PackagesParser` or `SourcesParser`, which outlive a stanza
unless `_reset_block_parser` clears them; `ReadText` is one turn of the loop over lines: a
field, a continuation of the tags or of a list of files, or the blank line that ends the
stanza.  `stanza` and `finished` are history: the lines of this stanza, and the stanzas that
ended.

### Selection

`stage` follows `RepositoryMirror.mirror`: `Choose` takes a repository of the finished
configuration and a server, `ReadReleases`, `FetchIndexes`, `CleanSkel`, `ParseIndex` and
`ParseLine`, `FetchPool`.  `skel` has each index with its age, `"old"` for what an earlier
run has left.  A server is a record of what the release files list, which paths it serves,
which of these have another content than is listed, and the text of the indexes.

### BundleVolumes

Export: `Stat`, `Hash` and `Changing`/`Unchanging` are `build_manifest` on one file,
with the two calls of `stat` as steps of their own; `SaveCache` is its end.
`PassOver`, `RefuseFile` and `PackFile` are one turn of the loop of `_partition_volumes`
(`load` is its `current_size`), `NotListed` and `CopyFile` one of the loop that copies, with
`_copy_verified` in it; `FinishBundle` is the rename of the partial directory.  A volume is
the set of its files: lists of files are in the order of the mirror throughout.  Staging: the actions follow
the loop of `stage_volumes`; `RenameCopy` gives a validated copy its name,
`FinishStage` writes READY.

### OfflineSync

A snapshot id is a digest of a manifest; the model has the manifest itself.  `export`
and `import` are the running commands; their `pc` has one value between any two
writes that outlive the command, in the order of the code: the acknowledgement and
the repair request are read one after the other and each rewrites the accepted
manifest (`ReadAck`, `ReadRepair`), the bundle gets its name before its manifest is
kept (`WriteBundle`, `RecordManifest`), `manifest.json` is written before the
acknowledgement (`Install`, `WriteAck`), an acknowledgement appears before a
repair request goes (`WriteAck`, `DropRepair`), and the other way round
(`WriteRepair`, `DropAck`).  `DeletionAllowed` is the threshold of 40 percent.  Media are records that travel: any of them may be used
at any time, with whatever old feedback is on it.

### RunLock

`name` is the file the lock's path stands for, `locker` who holds the `flock` of a
file.  `Finish` is the end of the `with open(...)` block, which closes the file;
`Unlink` comes after it.

## 3. What is checked

| Run | Question | Result |
|---|---|---|
| `download_retry` | with two files, one semaphore slot, retries and resumption: is a file counted as downloaded the wanted one (`DownloadedIsWanted`), do the lists agree with the disk (`ReportsAgree`), does every queue end (`Ends`)? | yes |
| `download_index` | with variants, by-hash names, kills and two indexes: is every published file whole (`PublishedWhole`), and does the tree change only as `PublishedTree` allows (`RefinesTree`)? | yes |
| `download_lost` | does every task leave a result (`NoneLost`)? | no, see below |
| `mirror_moved` | with the folder moved: do clients only see whole snapshots (`PublishedIsWhole`), is a snapshot taken away only for another whole one (`GoneForNew`), are packages of old indexes left alone (`OldIndexesUnused`), and does cleaning keep to its ratios at every step (`WipesLittle`)? | yes |
| `mirror_inplace` | with links made in place: does a run that returns True leave a whole snapshot (`OkIsWhole`) and the skip-clean paths (`KeptStays`), and does every run end (`Ends`)? | yes |
| `mirror_mixed` | is what a successful run publishes of one snapshot (`NeverBroken`)? | no |
| `mirror_wiped` | is a failed release file always reported (`FailuresReported`)? | no |
| `selection` | from a configuration to the pool: is everything mirrored that a line asks for (`EverythingAsked`) and nothing of another repository (`NothingForeign`), do options reach what they are for (`SettingsReach`); are the indexes that were asked for parsed (`AskedIsParsed`), and no old ones (`ParsedIsFetched`), do all release files agree on what is fetched (`VariantsAreListed`), is nothing kept of another content than its known hashes tell (`KeptIsVerified`); does a stanza inherit nothing (`BlockIsStanza`), and is the pool what the stanzas list (`PoolIsListed`)? | yes |
| `bundle_volumes` | are the hashes of a scan fresh (`HashesAreFresh`), is a bundle the difference it claims to be (`BundleIsDifference`), do volumes fit (`VolumesFit`), is a ready staging directory complete (`ReadyIsWhole`)? | yes |
| `offline_sync` | is what counts as installed whole (`InstalledIsWhole`), does no bundle rely on something never installed (`NothingSkipped`), and does no import delete as much as the threshold (`DeletionsAreSmall`)? | yes |
| `offline_converges` | do the two mirrors become equal (`Converges`)? | yes |
| `lock_race` | does at most one process run (`OnlyOneRuns`)? | no |

`TypeOK` is checked with the first run of each module.

A snapshot is *whole* (`Whole`) if the release files are of one version, exactly the
indexes these list are there, and the packages these indexes need.  An index is of the
version listed, unless it is listed only compressed: then it may be newer (`Fitting`), as
`mirror_mixed` shows.

The four runs that find a violation are disagreements between the code and what its
documentation, comments or messages say; `PROJECT.json` quotes both for each:

- `download_lost`: a directory of partial files is made at the head of the loop and
  pruned by another task before the file in it is opened; the exception ends a task
  whose result nobody reads, and the run succeeds without the file.  Shortest case:
  two packages of one pool directory.
- `mirror_wiped`: a recheck that finds one release file changed clears the error flag
  another one has just set.
- `mirror_mixed`: `from_hashed_path` gives an index its plain variant without size and
  hashes (download_file.py:150, 160-162).  If the release files list the index only
  compressed, nothing ever adds them.  When the repository is updated after its release
  files were fetched, the compressed index is refused by its hash, and the plain one of the
  next snapshot is accepted and published beside release files whose hashes it does not
  match, with exit code 0.
- `lock_race`: the lock file's name is removed after its lock is given up.

Further disagreements have no run of their own:

- A release file without Last-Modified or Content-Length counts as changed in every recheck
  (downloader.py:209-220); with one package missing for good, `mirror` never returns.  With
  `Dated = FALSE` in `mirror_inplace.cfg` TLC finds `Ends` violated.
- An export killed between the rename of its bundle and the writing of its manifest
  (offline.py:713) leaves a bundle whose acknowledgement no later export accepts.
  `OfflineSync` has this kill.
- `ignore_errors` of an index is compared with its path below the codename
  (repository.py:655), where `mirror.list` shows paths of the repository.
- A skip-clean path below a folder that is moved is lost with the old folder.

### Bounds, and why they are enough

- *Download.*  Files of one and two blocks, two versions, two tries, responses of up to
  two blocks: enough for a file that is resumed across two versions, is cut short,
  is too long, fails once and then succeeds.  Two files in one directory are enough
  for one to prune what the other needs; one index with two variants and two names
  has every branch of `NextSource` and of `link_or_copy`.  Two processes: the second
  resumes what the first left.
- *RepositoryMirror.*  Two release files may disagree; two indexes, one of which the
  second snapshot drops; three packages: dropped, added, and needed only by the
  dropped index; a third snapshot without indexes.  The first snapshot lists one of its
  indexes only compressed, and the other one plain, too.  Two processes: the second one
  finds what a killed first one left.  An ignored index exercises `ignore_errors`.
  With the folder moved the servers send no dates (`Dated`), so each recheck goes through; in
  place they do.
  With the folder moved, the wipe ratios are 33 percent of the files and 50 percent of the
  bytes: either one refuses alone, cleaning is also allowed, and a size ratio of 50 percent
  is reached exactly.  In place they are off.
- *Selection.*  Seventeen configurations, whose files come in any order: lines for one URL
  with more components or architectures, a default architecture that is set between two
  lines, flat and mixed repositories, by-hash and keys, options before and after their
  lines, stanzas with options.  Twelve servers: release files that agree, disagree or list
  only some hashes; indexes listed plain, compressed or both, served, missing or damaged,
  or left behind by an earlier run; stanzas that are refused, incomplete, listed twice or
  differently.  Two URLs, a codename and a flat directory, two components, and three
  architectures, one with a name that is part of another's.
- *BundleVolumes.*  Three files of every size from 0 to 2, limits 0 (none), 1 and 3:
  files that fill a volume exactly, that are too large, and empty ones; one update,
  one decay and one kill at any moment.
- *OfflineSync.*  Three snapshots of three paths: a changed file, a new one, a deleted
  one.  Two media, so that feedback can be stale; one change, one kill, one damaged
  file; for convergence one medium, two changes and two damaged files.  The sizes are such
  that deleting one file is allowed and deleting another is 40 percent exactly.
- *RunLock.*  Three processes are the shortest way to two that run at once.

The theorems of section 4 state every invariant and every safety property of these runs for
all values of the constants; for these the runs are a check on the models and a search for
counterexamples.  What rests on the bounds alone is liveness.

### Fairness

- `Download`: weak fairness for each task's own steps (an asyncio loop runs every
  coroutine that is ready; `asyncio.wait` returns), strong fairness for its reply: the
  client's timeouts end every request, and `asyncio.Semaphore` wakes its waiters in
  order of arrival, while the slot is not always free.  `Ends` assumes that
  refused connections stop at last: such a reply uses no try, and the code would ask
  for ever.
- `RepositoryMirror`: weak fairness of the work of a process; that a download ends is
  what `Download` shows.  `Ends` assumes servers that at last give the same kind of
  answer for each release file, and an upstream that stops moving (a bound).
- `OfflineSync`: commands that were started end (weak); for convergence the operators
  keep exporting, importing and verifying with each medium, and do not decline all
  deletions (strong, since each is possible only now and then).
- Kills, damage, updates and declined deletions are never forced.

## 4. What is proved

`tlapm` checks every step of the eight proof modules.  Every invariant and every action
property of the passing runs, and the refinement, is stated by a theorem.

**Download** (`DownloadProofs`), from `PlanAssumption` (no two files of a queue share a
path; the paths of a variant have one size and one digest, and are given once each, as
`get_all_paths` gives one by-hash path for each type of hash) and `BoundAssumption`:

- `TypeCorrect`: `Spec => []TypeOK`.
- `PublishedFilesWhole`: `Spec => []PublishedWhole`, for any number of files, variants,
  tries, slots and processes.  `PublishedWhole` is not inductive: the hash is taken
  of the stream of chunks, what is published is the partial file.  The invariant
  `OnDisk` says that the two are equal while a task streams, which holds because no other
  task has its path (`SourcesDiffer`); `TryLeft` and `Replied` keep the loop counters
  and the response in range.  Then every way to publish (`BodyComplete`,
  `RecoverCompleted`, `ReplyUnmodified` and their killed forms) places a blob that has
  the digest, or another name of one that was there.
- `DownloadedAlwaysWanted` and `ReportsAlwaysAgree`: `Spec => []DownloadedIsWanted` and
  `Spec => []ReportsAgree`.  The invariant `AllNoted` says of each task what the disk
  and the lists have for it when it is done; a step of another task cannot disturb this,
  since the two share no path.
- `ImplementsTree`: `Spec => RefinesTree`, every step of the downloader is a step of
  `PublishedTree` or leaves the tree as it is.  The invariants are those above, and that a
  partial file has the size of its path while its hash is checked (`Recovering`).  What a
  kill leaves is the hard case: `link_or_copy` unlinks a name before it links it, so the
  file may be gone under the name it had (`r` in `Torn`) and be there under one that was
  made (`q`); that takes three processes, and variants with two names of which one was
  missing.

**RepositoryMirror** (`RepositoryMirrorProofs`), from the assumptions of the module
(indexes, packages, release files and skip-clean paths are disjoint; the parameters have
their types):

- `TypeCorrect`: `Spec => []TypeOK`.
- `OldIndexesAreUnused`: `Spec => []OldIndexesUnused`, moved or in place: packages are asked
  for on behalf of listed indexes only, of the version of the release files or, if listed
  only compressed, of a newer one.
- `PublishedAlwaysWhole`: `Spec => []PublishedIsWhole`, where the folder is moved and no
  skip-clean path is in it; `GoneOnlyForNew` and `OkAlwaysWhole`: `Spec => GoneForNew`
  and `Spec => []OkIsWhole`, where the folder is moved.
- `KeptAlwaysStays`: `Spec => []KeptStays` with links made in place.  Its invariant
  `KeptHeld` has the skip-clean paths out of every queue.
- `OkAlwaysWholeInPlace`: `Spec => []OkIsWhole` with links made in place, if files are cleaned
  and no wipe limit is set.  There the files of two snapshots lie side by side until they
  are cleaned; the invariant `InPlace` says that everything in the mirror which the new
  snapshot does not have is in the queue from the sweep on.  Without cleaning, or with a
  limit that forbids it, indexes of an older snapshot stay, and TLC shows `OkIsWhole`
  violated: the hypotheses are needed.
- `OkIsOfOneSnapshot`: `Spec => []NeverBroken`, the promise that `mirror_mixed` refutes, if
  every index is listed plain, too, and the folder is moved or nothing hinders the cleaning.
  Then `Fitting` leaves an index one version, and a whole mirror is of one snapshot.
- `WipesAlwaysLittle`: `Spec => []WipesLittle`, for files of any sizes.  The ratios are checked
  once, for the queue as it was made; while files are removed, the queue and the total lose
  the same files, so the share of what is still to go only gets smaller.

`PublishedIsWhole` says nothing of the download that comes before, so the invariant
follows a snapshot through the round: the indexes asked for are those that the release
files in skel list, in a version that fits (`Listed`; it takes `Behind`: nothing in skel is
newer than the upstream repository), the packages asked for are those these indexes need
(`Needed`), with no error all of them were found (`Gathered`), and what was linked so far
is what skel holds (`Placed`).  Cleaning is harmless because a file that was found is never
in its queue (`Dealt`), and a recheck in vain never publishes because it has an error to
check (`Counters`).

**Configuration** (`ConfigurationProofs`), from `ConfigurationAssumption`: for any set of
files of any length, in any order,

- `TypeCorrect`: `ConfigSpec => []ConfigTypeOK`.
- `EveryLineCounts` and `NothingIsForeign`: `[]EverythingAsked` and `[]NothingForeign`.  They
  need each other's strengthening: an append to a shared list must not reach another
  repository, so lists are shared within one URL only (`SharedWithin`).
- `OptionsReach`: `[]SettingsReach`.  Between the line of an option and the moment it is
  applied, `Gathering` says that every option given is held, or superseded by an earlier one.

**IndexParser** (`IndexParserProofs`), from `SizeAssumption` and
`CompressionAssumption`: for any number of indexes of
any length,

- `BlocksAreStanzas`: `ParserSpec => []BlockIsStanza`.  Inductive with `Underway`, the two
  facts the parser remembers of earlier lines: that tags may go on, and the list it is in.
- `PoolIsWhatIsListed`: `ParserSpec => []PoolIsListed`, which rests on the first: a stanza
  adds exactly its own files, each with the compression its name stands for and the size
  and checksums this stanza has for it.

**Selection** (`SelectionProofs`), from the assumptions of the modules it composes and of its
own: for any configuration files, server and text,

- `PartsHold`: `Spec => []` of the five properties above.  They were shown of the two modules
  by themselves; here the configuration is read before a server is asked, and the parser is
  given the texts of its indexes and the filter of the repository.
- `SelectionTypeCorrect`: `Spec => []TypeOK`.
- `WhatIsAskedIsParsed`: `Spec => []AskedIsParsed`.  Three places decide on an index with three
  different texts: the line that asks, the part of a path that is fetched, and the path that is
  looked for.  The lemmas about `Covers` and `Indexed` take each asked component and
  architecture to the fetched index (a name that contains the asked one is fetched as well,
  which does no harm), and the invariants `Planned`, `Gotten` and `InSkel` carry that from
  the plan over the download to the directory.
- `OnlyFetchedIsParsed`: `Spec => []ParsedIsFetched`, by `InSkel`: when the parsers begin, what an
  earlier run left of an index that was not fetched is gone.
- `VariantsAlwaysListed` and `KeptAlwaysVerified`: `Spec => []VariantsAreListed` and
  `Spec => []KeptIsVerified`, from what is planned (`Planned`, `Requested`) and, for the
  pool, from `PoolIsListed`.  Excepted are indexes that are listed only compressed, and
  files that a stanza lists without any checksum.

Two definitions were corrected on the way: the paths a release file can list are those
whose parts go together (`ReleaseIndexes.Listed`), and an index of a flat repository is one
outside of any area (`Selection.AskedInFlat`).

**BundleVolumes** (`BundleVolumesProofs`), from `OrderAssumption`, `ChoiceAssumption` and
`BoundAssumption`: for any files, sizes, limit, base and request,

- `TypesHold`: `Spec => []TypeOK`.
- `BundleIsAlwaysDifference` and `VolumesAlwaysFit`: `Spec => []BundleIsDifference` and
  `Spec => []VolumesFit`.  The invariant `ExportInv` has a part for each loop: `Hashed` (the files
  passed by the scan have hashes), `Divided` (the volumes divide the files passed by the
  division, the load is the size of the last volume, and each volume was begun for want
  of room), `Copied` (the files passed by the copy, and no others, have the content of the
  manifest).  `Divides` holds of the empty division and is kept by each file that is passed
  over or packed (`PassDivides`, `PackDivides`); at the end of the loops it is `VolumesFit`.

- `HashesStayFresh`: `Spec => HashesAreFresh`, an action property.  Its invariant is
  `Recorded`: whatever is in the cache or the manifest with a time was the content of the
  file when it had this time or a later one (`ReadAt`), so if the time is still the same, so
  is the content.  Times only grow; a file that decays voids the promise.

**OfflineSync** (`OfflineSyncProofs`), from `SnapshotAssumption`:

- `TypeCorrect`: `Spec => []TypeOK`, with `UnderWay` (a running command has a manifest).
- `NothingIsSkipped`: `Spec => []NothingSkipped`.  Its invariant is `Remembered`: every
  manifest kept as installed, accepted, acknowledged or named by a repair request was
  installed once.  It fails if any one of these places could hold a manifest that was
  only exported.
- `WhatIsInstalledIsWhole`: `Spec => InstalledIsWhole`, an action property.  Its
  invariant is `Examined`: from the check on, no file of the manifest differs, and
  what is there besides is in the queue of deletions, which in turn has no file of the
  manifest in it.

- `DeletionsAlwaysSmall`: `Spec => []DeletionsAreSmall`, for any sizes.  As with the wipe
  protection, the threshold is checked for the queue as it is made, and an import that is
  killed while it deletes leaves a smaller share to the next one.

**FileSizes** (`FileSizesProofs`): lemmas.  The total of a set of files is the number of their
bytes, a cardinality: of a fold nothing could be proved here (induction over data), of a
cardinality the library's theorems say that it adds up, grows, and shrinks by one file
(`TotalSizeAdds`, `TotalSizeGrows`, `TotalSizeRemoves`).  They need the sets to be finite:
`RepositoryAssumption` and `SnapshotAssumption` say so of their files, `Order` is finite anyway.

Only model-checked: liveness (`Ends` of `Download` and of `RepositoryMirror`, `Converges` of
`OfflineSync`), since the prover has no rules for fairness and `ENABLED`; and the violations,
which are single behaviours.

## 5. Abstractions

- A server's date and size tell two versions of a file apart, and so do the size and
  time of a file in the mirror (except `Decay`).
- No two files of a queue share a path.  Two equal files in one directory have one
  by-hash path, and the code then has two tasks at one partial file: a hazard that is
  listed and not modelled.
- The upstream repository only moves forward, and one server stands for it: an index that is
  taken without a check is never older than the release files.
- A package never changes under its name.  Signatures, `--diff` and the clean script are
  left out of `RepositoryMirror`.  No skip-clean
  path lies below a folder that is moved.
- A file is not damaged between the hashing of the offline mirror and the end of that
  import: no command could notice.
- In the threshold for deletions a file that has decayed counts with the size it should
  have, as it does in the code if it was known, and not if it was unexpected.
- `Selection` has one try for each file and a server that does not change; signatures are
  an outcome of each release file.  Between a file that is listed with several digests and
  one with another content there is nothing: a hash that matches is the right one.
- One export and one import run at a time, and never with the same medium.
- `OfflineSync` takes the mirror of the online host as it is at one moment;
  `BundleVolumes` shows what is left of that when it is updated during the scan: each
  hash is fresh, the manifest as a whole may mix two states of the mirror.

Not modelled:

- of the configuration: `set` variables but for the default architecture, their
  substitution, `auth.conf` and proxies;
- options that name one URL both with and without its last slash (`URLDict`): a URL is a
  model value;
- GnuPG; FTP, and the HTTP client below the responses it gives; the backends of
  asynchronous files; the clock of the slow rate protector;
- `--diff`, the clean script and the post-mirror script; the gathering of the results of
  several repositories, and repositories whose directories are nested;
- the encoding of paths for Windows media, and the refusal of an export with names that
  differ only in case (offline.py:428-433); logs, metrics, the choice of an event loop, the wrapper scripts.

`PROJECT.json` has the reason for each.

## 6. Plan

1. Done: `Download` with `PublishedTree`, `RepositoryMirror`, `OfflineSync`,
   `BundleVolumes`, `RunLock`; the way from the configuration to the pool
   (`Configuration` to `Selection`); the wipe protection and the deletion threshold; the
   theorems above.
2. Shared paths: `Download` without `PlanAssumption`'s third conjunct, for two index
   files with one by-hash name.
3. `RepositoryMirror`: the clean script and a later run that makes it stale, skip-clean
   paths below a moved folder, `--diff`.
4. Several mirrors in one process, their shared semaphore, and the gathering of results
   in `APTMirror.run`.
5. Proofs: what the parts above come to need; the theorems state everything else the runs
   check, but for liveness.
