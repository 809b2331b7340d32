----------------------------- MODULE OfflineSync -----------------------------
(***************************************************************************)
(* Carrying a mirror to a site without network: export_bundle on the       *)
(* online host, import_bundle and verify_installed on the offline host,    *)
(* and media that go back and forth with a bundle and a feedback           *)
(* directory.                                                              *)
(*                                                                         *)
(* A snapshot id is a digest of a manifest, so it is the manifest here: a  *)
(* function from paths to contents.  Each command may be killed between    *)
(* any two of the writes that outlive it.                                  *)
(***************************************************************************)
EXTENDS Integers, FiniteSets, FileSizes

CONSTANTS
    Paths,      \* relative paths in the mirror
    Snapshots,  \* the states the mirror on the online host goes through
    Contents,   \* the contents of files
    Absent,     \* no file at this path
    Bad,        \* the content of a damaged file, or of one nobody asked for
    Size,       \* the sizes of files, and what is counted for damaged ones
    AllowLarge, \* the operators pass --allow-large-deletes
    Media,      \* the removable media, each with its feedback directory
    None,       \* no such manifest, bundle or feedback
    MaxChanges, \* bound: changes of the mirror on the online host
    MaxKills,   \* bound: killed exports and killed imports
    MaxDamages  \* bound: damaged files on the offline host

Manifests == [Paths -> Contents \cup {Absent}]
Disks == [Paths -> Contents \cup {Absent, Bad}]

ASSUME SnapshotAssumption ==
    /\ IsFiniteSet(Paths)
    /\ Snapshots \subseteq Manifests
    /\ Absent \notin Contents /\ Bad \notin Contents \cup {Absent}
    /\ None \notin Manifests \cup Media
    /\ Size \in [Paths -> Nat] /\ AllowLarge \in BOOLEAN
    /\ MaxChanges \in Nat /\ MaxKills \in Nat /\ MaxDamages \in Nat

VARIABLES
    source,     \* the mirror on the online host
    accepted,   \* accepted-manifest.json in its state directory
    known,      \* the manifests in its directory `manifests'
    export,     \* the running export
    bundle,     \* bundle[m]: the newest bundle on medium m
    ack,        \* ack[m]: ack.json of medium m
    repair,     \* repair[m]: repair-request.json of medium m
    dest,       \* the mirror on the offline host
    installed,  \* manifest.json in its state directory
    import,     \* the running import or verification
    ever,       \* history: the manifests that were installed
    changes, kills, damages

online == <<source, accepted, known>>
media == <<bundle, ack, repair>>
offline == <<dest, installed, ever>>
bounds == <<changes, kills, damages>>
vars == <<online, export, media, offline, import, bounds>>

Files(s) == {p \in Paths : s[p] # Absent}

NoExport == [pc |-> "idle", medium |-> None, asked |-> {}]

NoImport == [pc |-> "idle", medium |-> None, target |-> None, queue |-> {}]
------------------------------------------------------------------------------
(* export_bundle *)

Exporting(m, pc) == export.pc = pc /\ export.medium = m

(* _load_feedback: the manifest an acknowledgement names becomes the base.  An
   acknowledgement of a manifest that is not known ends the export. *)
ReadAck(m) ==
    /\ export.pc = "idle" /\ import.medium # m
    /\ ack[m] \in known \cup {None}
    /\ accepted' = IF ack[m] = None THEN accepted ELSE ack[m]
    /\ export' = [NoExport EXCEPT !.pc = "repair", !.medium = m]
    /\ UNCHANGED <<source, known, media, offline, import, bounds>>

(* Faulty variant: the base is left as it is. *)
RebasedNever(m) == accepted

(* A repair request sets the base back to what is installed. *)
Rebased(m) ==
    IF repair[m] # None /\ repair[m].installed # None THEN repair[m].installed
    ELSE accepted

(* The request names an installed manifest that is not known. *)
Unreadable(m) == repair[m] # None /\ repair[m].installed \notin known \cup {None}

ReadRepair(m) ==
    /\ Exporting(m, "repair")
    /\ IF Unreadable(m) THEN export' = NoExport /\ UNCHANGED accepted
       ELSE /\ accepted' = Rebased(m)
            /\ export' = [export EXCEPT !.pc = "write",
                            !.asked = IF repair[m] = None THEN {} ELSE repair[m].paths]
    /\ UNCHANGED <<source, known, media, offline, import, bounds>>

(* Faulty variant: what was exported before is not exported again. *)
ChangedSinceExport(base) ==
    {p \in Files(source) : \A s \in known \cup {base} : s # None => s[p] # source[p]}

(* New files and files that differ from the base. *)
Changed(base) == {p \in Files(source) : base # None => base[p] # source[p]}

(* The bundle appears under its name when it is complete. *)
WriteBundle(m) ==
    /\ Exporting(m, "write")
    /\ bundle' = [bundle EXCEPT ![m] =
                    [base |-> accepted, target |-> source,
                     paths |-> Changed(accepted) \cup (export.asked \cap Files(source))]]
    /\ export' = [export EXCEPT !.pc = "record"]
    /\ UNCHANGED <<online, ack, repair, offline, import, bounds>>

(* Only now its manifest is kept. *)
RecordManifest(m) ==
    /\ Exporting(m, "record")
    /\ known' = known \cup {bundle[m].target}
    /\ export' = NoExport
    /\ UNCHANGED <<source, accepted, media, offline, import, bounds>>

KillExport ==
    /\ export.pc # "idle" /\ kills < MaxKills
    /\ kills' = kills + 1
    /\ export' = NoExport
    /\ UNCHANGED <<online, media, offline, import, changes, damages>>
------------------------------------------------------------------------------
(* import_bundle *)

Importing(m, pc) == import.pc = pc /\ import.medium = m

Proceed(pc) == import' = [import EXCEPT !.pc = pc]

(* The base of the bundle is what is installed here. *)
Applicable(m) == bundle[m].base = installed

StartImport(m) ==
    /\ import.pc = "idle" /\ export.medium # m
    /\ bundle[m] # None
    /\ Applicable(m)
    /\ import' = [pc |-> "copy", medium |-> m, target |-> bundle[m].target,
                  queue |-> bundle[m].paths]
    /\ UNCHANGED <<online, export, media, offline, bounds>>

CopyFile(p) ==
    /\ import.pc = "copy" /\ p \in import.queue
    /\ dest' = [dest EXCEPT ![p] = import.target[p]]
    /\ import' = [import EXCEPT !.queue = @ \ {p}]
    /\ UNCHANGED <<online, export, media, installed, ever, bounds>>

(* verify_snapshot: every file of the manifest is hashed. *)
Issues(s) == {p \in Files(s) : dest[p] # s[p]}

(* Faulty variant: files outside the manifest are not looked for. *)
StrayDeletedOnly(s) ==
    {p \in Paths \ Files(s) : installed # None /\ installed[p] # Absent /\ dest[p] # Absent}

(* The deleted files and, by find_unexpected_files, the unexpected ones. *)
Stray(s) == {p \in Paths \ Files(s) : dest[p] # Absent}

(* Faulty variant: only what was copied is verified. *)
CheckPassesCopied == \A p \in Issues(import.target) : p \in bundle[import.medium].paths

CheckPasses == Issues(import.target) = {}

Check ==
    LET s == import.target IN
    /\ import.pc = "copy" /\ import.queue = {}
    /\ IF CheckPasses
       THEN import' = [import EXCEPT
                         !.pc = IF Stray(s) = {} THEN "install" ELSE "review",
                         !.queue = Stray(s)]
       ELSE import' = [import EXCEPT !.pc = "request", !.queue = Issues(s)]
    /\ UNCHANGED <<online, export, media, offline, bounds>>

Bytes(files) == TotalSize(files, Size)

(* Faulty variant: only the deletions upstream are counted. *)
ToDeleteUpstream ==
    LET b == bundle[import.medium]
    IN  IF b.base = None THEN {} ELSE Files(b.base) \ Files(b.target)

(* The files deleted upstream, there or not, and the unexpected ones. *)
ToDelete ==
    LET b == bundle[import.medium]
    IN  Stray(b.target) \cup (IF b.base = None THEN {} ELSE Files(b.base) \ Files(b.target))

(* _deletion_allowed: the deletions are below the threshold of 40%. *)
DeletionAllowed ==
    LET target == Files(import.target)
        small(part, whole) == part * 10 < 4 * (IF whole = 0 THEN 1 ELSE whole)
    IN  \/ AllowLarge
        \/ /\ small(Cardinality(ToDelete), Cardinality(target) + Cardinality(ToDelete))
           /\ small(Bytes(ToDelete), Bytes(target) + Bytes(ToDelete))

(* The deletions are refused, by the policy, the operator or the threshold: the
   import ends, and nothing is acknowledged. *)
Decline ==
    /\ import.pc = "review"
    /\ import' = NoImport
    /\ UNCHANGED <<online, export, media, offline, bounds>>

Approve ==
    /\ import.pc = "review"
    /\ DeletionAllowed
    /\ Proceed("delete")
    /\ UNCHANGED <<online, export, media, offline, bounds>>

DeleteFile(p) ==
    /\ import.pc = "delete" /\ p \in import.queue
    /\ dest' = [dest EXCEPT ![p] = Absent]
    /\ import' = [import EXCEPT !.queue = @ \ {p}]
    /\ UNCHANGED <<online, export, media, installed, ever, bounds>>

Install ==
    /\ \/ import.pc = "install"
       \/ import.pc = "delete" /\ import.queue = {}
    /\ installed' = import.target
    /\ ever' = ever \cup {import.target}
    /\ Proceed("ack")
    /\ UNCHANGED <<online, export, media, dest, bounds>>
------------------------------------------------------------------------------
(* The feedback *)

(* Faulty variant: the bundle is acknowledged, not what was verified. *)
AckedBundle(m) == bundle[m]

Acked(m) == import.target

(* _write_ack: first the acknowledgement ... *)
WriteAck(m) ==
    /\ Importing(m, "ack")
    /\ ack' = [ack EXCEPT ![m] = Acked(m)]
    /\ Proceed("unrequest")
    /\ UNCHANGED <<online, export, bundle, repair, offline, bounds>>

(* ... and then a repair request is withdrawn. *)
DropRepair(m) ==
    /\ Importing(m, "unrequest")
    /\ repair' = [repair EXCEPT ![m] = None]
    /\ import' = NoImport
    /\ UNCHANGED <<online, export, bundle, ack, offline, bounds>>

(* _write_repair: the other way round *)
WriteRepair(m) ==
    /\ Importing(m, "request")
    /\ repair' = [repair EXCEPT ![m] = [installed |-> installed, paths |-> import.queue]]
    /\ Proceed("unack")
    /\ UNCHANGED <<online, export, bundle, ack, offline, bounds>>

DropAck(m) ==
    /\ Importing(m, "unack")
    /\ ack' = [ack EXCEPT ![m] = None]
    /\ import' = NoImport
    /\ UNCHANGED <<online, export, bundle, repair, offline, bounds>>

(* verify_installed *)
StartVerify(m) ==
    /\ import.pc = "idle" /\ export.medium # m
    /\ installed # None
    /\ import' = [pc |-> IF Issues(installed) = {} THEN "ack" ELSE "request",
                  medium |-> m, target |-> installed, queue |-> Issues(installed)]
    /\ UNCHANGED <<online, export, media, offline, bounds>>

KillImport ==
    /\ import.pc # "idle" /\ kills < MaxKills
    /\ kills' = kills + 1
    /\ import' = NoImport
    /\ UNCHANGED <<online, export, media, offline, changes, damages>>
------------------------------------------------------------------------------
(* The mirror on the online host is synchronized again. *)
ChangeSource ==
    /\ changes < MaxChanges
    /\ changes' = changes + 1
    /\ source' \in Snapshots \ {source}
    /\ UNCHANGED <<accepted, known, export, media, offline, import, kills, damages>>

(* A file on the offline host is damaged or lost, or another one appears.  Not
   between the hashing of the files and the end of the import: no command could
   see that. *)
Damage(p) ==
    /\ import.pc \in {"idle", "copy"} /\ damages < MaxDamages
    /\ damages' = damages + 1
    /\ \E x \in {Bad, Absent} : x # dest[p] /\ dest' = [dest EXCEPT ![p] = x]
    /\ UNCHANGED <<online, export, media, installed, ever, import, changes, kills>>

Init ==
    /\ source \in Snapshots
    /\ accepted = None /\ known = {} /\ export = NoExport
    /\ bundle = [m \in Media |-> None]
    /\ ack = [m \in Media |-> None]
    /\ repair = [m \in Media |-> None]
    /\ dest = [p \in Paths |-> Absent]
    /\ installed = None /\ import = NoImport /\ ever = {}
    /\ changes = 0 /\ kills = 0 /\ damages = 0

ExportStep(m) == ReadAck(m) \/ ReadRepair(m) \/ WriteBundle(m) \/ RecordManifest(m)

ImportStep ==
    \/ \E p \in Paths : CopyFile(p) \/ DeleteFile(p)
    \/ Check \/ Approve \/ Install
    \/ \E m \in Media : WriteAck(m) \/ DropRepair(m) \/ WriteRepair(m) \/ DropAck(m)

Next ==
    \/ \E m \in Media : ExportStep(m) \/ StartImport(m) \/ StartVerify(m)
    \/ ImportStep \/ Decline
    \/ KillExport \/ KillImport
    \/ ChangeSource \/ \E p \in Paths : Damage(p)

Spec == Init /\ [][Next]_vars

(* Commands that were started end.  For every medium the operators keep exporting,
   importing and verifying, and do not decline the deletions for ever. *)
Fairness ==
    /\ WF_vars(ImportStep) /\ SF_vars(Approve)
    /\ \A m \in Media : /\ SF_vars(ReadAck(m)) /\ WF_vars(ExportStep(m) /\ ~ReadAck(m))
                        /\ SF_vars(StartImport(m)) /\ SF_vars(StartVerify(m))

FairSpec == Spec /\ Fairness
------------------------------------------------------------------------------
(* Properties *)

Bundles == [base: Manifests \cup {None}, target: Manifests, paths: SUBSET Paths]
Requests == [installed: Manifests \cup {None}, paths: SUBSET Paths]

(* The type of every variable. *)
TypeOK ==
    /\ source \in Manifests
    /\ accepted \in Manifests \cup {None} /\ known \in SUBSET Manifests
    /\ export \in [pc: {"idle", "repair", "write", "record"},
                   medium: Media \cup {None}, asked: SUBSET Paths]
    /\ bundle \in [Media -> Bundles \cup {None}]
    /\ ack \in [Media -> Manifests \cup {None}]
    /\ repair \in [Media -> Requests \cup {None}]
    /\ dest \in Disks
    /\ installed \in Manifests \cup {None} /\ ever \in SUBSET Manifests
    /\ import \in [pc: {"idle", "copy", "review", "delete", "install", "ack",
                        "unrequest", "request", "unack"},
                   medium: Media \cup {None}, target: Manifests \cup {None},
                   queue: SUBSET Paths]
    /\ changes \in 0..MaxChanges /\ kills \in 0..MaxKills /\ damages \in 0..MaxDamages

(* A snapshot counts as installed only when the offline mirror is exactly that
   snapshot: every file of it, with its content, and no other file, whatever was
   damaged, declined or half imported before.  (import_bundle.) *)
InstalledIsWhole ==
    [][installed' # installed => \A p \in Paths : dest'[p] = installed'[p]]_vars

(* The base of a bundle was installed on the offline host, and a file left out of
   the bundle is in its base with the same content: a lost medium or a failed
   import never makes a later bundle skip a file.  (export_bundle and
   _load_feedback; docs/offline-kylin-mirror.zh-CN.md on the base.) *)
NothingSkipped ==
    \A m \in Media : bundle[m] # None =>
        LET b == bundle[m] IN
        /\ b.base \in ever \cup {None}
        /\ \A p \in Files(b.target) \ b.paths : b.base # None /\ b.base[p] = b.target[p]

(* Without --allow-large-deletes no import takes 40% of the offline mirror away, in
   files or in bytes, whatever was deleted upstream, damaged, or left by an import
   that was killed: at every step, what is yet to go is less than that share of
   what is there.  (_deletion_allowed and _handle_deletions.) *)
DeletionsAreSmall ==
    import.pc = "delete" /\ ~AllowLarge /\ import.queue # {} =>
        LET there == Files(dest) IN
        /\ Cardinality(import.queue) * 10 < 4 * Cardinality(there)
        /\ Bytes(import.queue) = 0 \/ Bytes(import.queue) * 10 < 4 * Bytes(there)

(* When the mirror on the online host changes no more and no more files are
   damaged, the offline mirror comes to be equal to it. *)
Converges == <>[](installed = source /\ dest = source)
=============================================================================
