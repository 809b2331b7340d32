---------------------------- MODULE BundleVolumes ----------------------------
(***************************************************************************)
(* The inside of a bundle: what OfflineSync does in one step.              *)
(*                                                                         *)
(* On the online host export_bundle scans the mirror, with a cache of      *)
(* hashes, and copies the changed files to the volumes of a bundle; the    *)
(* mirror may be updated meanwhile.  On the offline host stage_volumes     *)
(* gathers the volumes from their discs.  Either may be killed anywhere.   *)
(*                                                                         *)
(* A digest is the content it was taken of.  The files of the mirror stay  *)
(* the same, their contents change.  A volume is the set of its files: the *)
(* changed files are divided, and copied, in the order of the mirror.      *)
(***************************************************************************)
EXTENDS FileSizes, SequencesExt

CONSTANTS
    Order,     \* the paths in the mirror, sorted
    Contents,  \* the contents of files
    Bad,       \* the content of a file that was copied badly or has decayed
    Sizes,     \* the functions from paths to sizes to look at
    Limits,    \* the volume sizes to look at; 0 is no limit
    Bases,     \* the manifests to export against, from paths to contents
    Asked,     \* the files a repair request asks for
    None,      \* no content, no bundle, no volume
    MaxWrites, \* bound: updates of files during an export
    MaxDecays, \* bound: files that decay, on either host
    MaxKills   \* bound: killed exports and stagings

Paths == ToSet(Order)
Data == Contents \cup {Bad}

(* What a volume in the staging directory may hold. *)
Partial == UNION {[P -> Data] : P \in SUBSET Paths}

ASSUME OrderAssumption == Order \in Seq(Paths) /\ Len(Order) > 0 /\ IsInjective(Order)

ASSUME ChoiceAssumption ==
    /\ Sizes \subseteq [Paths -> Nat] /\ Limits \subseteq Nat
    /\ Bases \subseteq [Paths -> Contents \cup {None}] /\ Asked \subseteq Paths
    /\ Bad \notin Contents /\ None \notin Data /\ None \notin Partial

ASSUME BoundAssumption == {MaxWrites, MaxDecays, MaxKills} \subseteq Nat

VARIABLES
    size, limit, base, \* the parameters of the export
    disk,     \* disk[p]: the content of the file in the mirror, and its time
    cache,    \* cache[p]: the content and time in hash-cache.json
    export,   \* the running export
    bundle,   \* the finished bundle
    staged,   \* staged[v]: the payload of volume v in the staging directory
    ready,    \* READY is in the staging directory
    stage,    \* the running stage_volumes
    writes, decays, kills,
    spoilt    \* history: a staged file has decayed

parameters == <<size, limit, base>>
online == <<disk, cache, export, bundle>>
offline == <<staged, ready, stage, spoilt>>
bounds == <<writes, decays, kills>>
vars == <<parameters, online, offline, bounds>>

Nothing == [p \in Paths |-> None]

NoExport == [pc |-> "idle", at |-> 0, rehash |-> FALSE, before |-> 0,
             manifest |-> Nothing, times |-> [p \in Paths |-> 0],
             volumes |-> <<{}>>, load |-> 0, payload |-> Nothing]

NoStage == [pc |-> "idle", todo |-> {}, got |-> None]
------------------------------------------------------------------------------
(* build_manifest *)

StartExport ==
    /\ export.pc = "idle" /\ bundle = None
    /\ \E rehash \in BOOLEAN :
          export' = [NoExport EXCEPT !.pc = "stat", !.at = 1, !.rehash = rehash]
    /\ UNCHANGED <<parameters, disk, cache, bundle, offline, bounds>>

OnlyExports == UNCHANGED <<parameters, disk, offline, bounds>>

(* Faulty variant: the size alone identifies a file. *)
CachedBySize(p) == ~export.rehash /\ cache[p] # None

Cached(p) == ~export.rehash /\ cache[p] # None /\ cache[p].time = disk[p].time

(* Faulty variant: the entry of the cache is taken for the digest in it. *)
DigestEntry(p) == cache[p]

Digest(p) == cache[p].data

Stat ==
    LET p == Order[export.at] IN
    /\ export.pc = "stat"
    /\ export' = IF Cached(p)
                 THEN [export EXCEPT !.pc = "restat", !.before = disk[p].time,
                                     !.manifest[p] = Digest(p)]
                 ELSE [export EXCEPT !.pc = "hash", !.before = disk[p].time]
    /\ UNCHANGED <<cache, bundle>> /\ OnlyExports

Hash ==
    LET p == Order[export.at] IN
    /\ export.pc = "hash"
    /\ export' = [export EXCEPT !.pc = "restat", !.manifest[p] = disk[p].data]
    /\ UNCHANGED <<cache, bundle>> /\ OnlyExports

(* "Mirror changed while it was being scanned" *)
Changing ==
    /\ export.pc = "restat"
    /\ disk[Order[export.at]].time # export.before
    /\ export' = NoExport
    /\ UNCHANGED <<cache, bundle>> /\ OnlyExports

Unchanging ==
    LET p == Order[export.at] IN
    /\ export.pc = "restat"
    /\ disk[p].time = export.before
    /\ export' = [export EXCEPT !.pc = IF export.at = Len(Order) THEN "scanned" ELSE "stat",
                                !.at = @ + 1, !.times[p] = export.before]
    /\ UNCHANGED <<cache, bundle>> /\ OnlyExports

(* The cache is saved at the end of the scan. *)
SaveCache ==
    /\ export.pc = "scanned"
    /\ cache' = [p \in Paths |-> [data |-> export.manifest[p], time |-> export.times[p]]]
    /\ export' = [export EXCEPT !.pc = "partition", !.at = 1]
    /\ UNCHANGED bundle /\ OnlyExports
------------------------------------------------------------------------------
(* _partition_volumes, of the changed files.  The last volume is the current
   one, and load is the sum of its sizes. *)

Differs(p) == base[p] # export.manifest[p] \/ p \in Asked

TooLarge(p) == limit > 0 /\ size[p] > limit

Open == Len(export.volumes)

NoRoom(p) == limit > 0 /\ export.volumes[Open] # {} /\ export.load + size[p] > limit

(* Faulty variant: the sum of sizes is not reset. *)
PackSumming(p) ==
    [volumes |-> IF NoRoom(p) THEN Append(export.volumes, {p})
                 ELSE [export.volumes EXCEPT ![Open] = @ \cup {p}],
     load |-> export.load + size[p]]

(* The file goes to the current volume, or begins another. *)
Pack(p) ==
    IF NoRoom(p) THEN [volumes |-> Append(export.volumes, {p}), load |-> size[p]]
    ELSE [volumes |-> [export.volumes EXCEPT ![Open] = @ \cup {p}],
          load |-> export.load + size[p]]

Divide(p) ==
    /\ export.pc = "partition" /\ export.at <= Len(Order) /\ p = Order[export.at]
    /\ UNCHANGED <<cache, bundle>> /\ OnlyExports

PassOver(p) ==
    /\ Divide(p) /\ ~Differs(p)
    /\ export' = [export EXCEPT !.at = @ + 1]

(* "... is larger than the configured volume size" *)
RefuseFile(p) ==
    /\ Divide(p) /\ Differs(p) /\ TooLarge(p)
    /\ export' = NoExport

PackFile(p) ==
    /\ Divide(p) /\ Differs(p) /\ ~TooLarge(p)
    /\ export' = [export EXCEPT !.at = @ + 1, !.volumes = Pack(p).volumes, !.load = Pack(p).load]
------------------------------------------------------------------------------
(* export_bundle, from the partial directory on *)

StartCopy ==
    /\ export.pc = "partition" /\ export.at > Len(Order)
    /\ export' = [export EXCEPT !.pc = "copy", !.at = 1]
    /\ UNCHANGED <<cache, bundle>> /\ OnlyExports

(* Faulty variant: the copy is not looked at. *)
CopyVerifiedNever(p, data) == TRUE

CopyVerified(p, data) == data = export.manifest[p]

Copy(p) ==
    /\ export.pc = "copy" /\ export.at <= Len(Order) /\ p = Order[export.at]
    /\ UNCHANGED <<cache, bundle>> /\ OnlyExports

(* The volumes, one after the other, list the files in their order. *)
NotListed(p) ==
    /\ Copy(p) /\ \A v \in DOMAIN export.volumes : p \notin export.volumes[v]
    /\ export' = [export EXCEPT !.at = @ + 1]

(* _copy_verified: the file may have changed, and the medium may fail. *)
CopyFile(p) ==
    /\ Copy(p) /\ \E v \in DOMAIN export.volumes : p \in export.volumes[v]
    /\ \E data \in {disk[p].data, Bad} :
          export' = IF CopyVerified(p, data)
                    THEN [export EXCEPT !.at = @ + 1, !.payload[p] = data]
                    ELSE NoExport

(* READY, and the rename of the partial directory. *)
FinishBundle ==
    /\ export.pc = "copy" /\ export.at > Len(Order)
    /\ bundle' = [manifest |-> export.manifest, payload |-> export.payload,
                  volumes |-> export.volumes]
    /\ export' = NoExport
    /\ UNCHANGED cache /\ OnlyExports

KillExport ==
    /\ export.pc # "idle" /\ kills < MaxKills
    /\ kills' = kills + 1
    /\ export' = NoExport
    /\ UNCHANGED <<parameters, disk, cache, bundle, offline, writes, decays>>
------------------------------------------------------------------------------
(* stage_volumes.  The discs hold the volumes of the bundle. *)

Volumes == DOMAIN bundle.volumes

OnDisc(v) == [p \in bundle.volumes[v] |-> bundle.payload[p]]

OnlyStages == UNCHANGED <<parameters, online, bounds, spoilt>>

(* One volume, or a directory with all of them, is read. *)
StartStage ==
    /\ stage.pc = "idle" /\ bundle # None
    /\ \E todo \in {{v} : v \in Volumes} \cup {Volumes} :
          stage' = [NoStage EXCEPT !.pc = "next", !.todo = todo]
    /\ UNCHANGED <<staged, ready>> /\ OnlyStages

Current == CHOOSE v \in stage.todo : \A w \in stage.todo : v <= w

(* _validate_volume, of a payload *)
WholeVolume(payload) == \A p \in DOMAIN payload : payload[p] = bundle.manifest[p]

(* The disc cannot be read, or the volume that is staged already has decayed:
   nothing else is left to do then. *)
Refuse ==
    /\ stage.pc = "next" /\ stage.todo # {}
    /\ stage' = NoStage
    /\ UNCHANGED <<staged, ready>> /\ OnlyStages

AlreadyStaged ==
    /\ stage.pc = "next" /\ stage.todo # {}
    /\ staged[Current] # None /\ WholeVolume(staged[Current])
    /\ stage' = [stage EXCEPT !.todo = @ \ {Current}]
    /\ UNCHANGED <<staged, ready>> /\ OnlyStages

(* copytree to a directory of another name; files may be copied badly. *)
CopyVolume ==
    /\ stage.pc = "next" /\ stage.todo # {}
    /\ staged[Current] = None
    /\ \E bad \in SUBSET bundle.volumes[Current] :
          stage' = [stage EXCEPT !.pc = "copied",
                      !.got = [p \in DOMAIN OnDisc(Current) |->
                                 IF p \in bad THEN Bad ELSE OnDisc(Current)[p]]]
    /\ UNCHANGED <<staged, ready>> /\ OnlyStages

(* Faulty variant: only the disc was validated, and not the copy. *)
CopyAcceptedAlways == TRUE

CopyAccepted == WholeVolume(stage.got)

DropCopy ==
    /\ stage.pc = "copied" /\ ~CopyAccepted
    /\ stage' = NoStage
    /\ UNCHANGED <<staged, ready>> /\ OnlyStages

RenameCopy ==
    /\ stage.pc = "copied" /\ CopyAccepted
    /\ staged' = [staged EXCEPT ![Current] = stage.got]
    /\ stage' = [NoStage EXCEPT !.pc = "next", !.todo = stage.todo \ {Current}]
    /\ UNCHANGED ready /\ OnlyStages

(* READY is written when every volume is present. *)
FinishStage ==
    /\ stage.pc = "next" /\ stage.todo = {}
    /\ ready' = (ready \/ \A v \in Volumes : staged[v] # None)
    /\ stage' = NoStage
    /\ UNCHANGED staged /\ OnlyStages

KillStage ==
    /\ stage.pc # "idle" /\ kills < MaxKills
    /\ kills' = kills + 1
    /\ stage' = NoStage
    /\ UNCHANGED <<parameters, online, staged, ready, spoilt, writes, decays>>
------------------------------------------------------------------------------
(* The world *)

(* apt-mirror2 replaces a file by a newer one. *)
Write(p) ==
    /\ bundle = None /\ writes < MaxWrites
    /\ writes' = writes + 1
    /\ \E data \in Contents \ {disk[p].data} :
          disk' = [disk EXCEPT ![p] = [data |-> data, time |-> @.time + 1]]
    /\ UNCHANGED <<parameters, cache, export, bundle, offline, decays, kills>>

(* A file decays, and its size and time stay as they are. *)
Decay(p) ==
    /\ bundle = None /\ decays < MaxDecays
    /\ decays' = decays + 1
    /\ disk' = [disk EXCEPT ![p].data = Bad]
    /\ UNCHANGED <<parameters, cache, export, bundle, offline, writes, kills>>

DecayStaged(v, p) ==
    /\ decays < MaxDecays
    /\ staged[v] # None /\ p \in DOMAIN staged[v]
    /\ decays' = decays + 1 /\ spoilt' = TRUE
    /\ staged' = [staged EXCEPT ![v][p] = Bad]
    /\ UNCHANGED <<parameters, online, ready, stage, writes, kills>>

Init ==
    /\ size \in Sizes /\ limit \in Limits /\ base \in Bases
    /\ \E data \in Contents :
          /\ disk = [p \in Paths |-> [data |-> data, time |-> 1]]
          /\ cache \in {Nothing, disk}
    /\ export = NoExport /\ bundle = None
    /\ staged = [v \in 1..Len(Order) |-> None]
    /\ ready = FALSE /\ stage = NoStage /\ spoilt = FALSE
    /\ writes = 0 /\ decays = 0 /\ kills = 0

Export ==
    \/ StartExport \/ Stat \/ Hash \/ Changing \/ Unchanging
    \/ SaveCache \/ StartCopy \/ FinishBundle
    \/ \E p \in Paths : PassOver(p) \/ RefuseFile(p) \/ PackFile(p) \/ NotListed(p) \/ CopyFile(p)

Stage ==
    \/ StartStage \/ Refuse \/ AlreadyStaged \/ CopyVolume \/ DropCopy \/ RenameCopy
    \/ FinishStage

Next ==
    \/ Export \/ KillExport
    \/ Stage \/ KillStage
    \/ \E p \in Paths : Write(p) \/ Decay(p) \/ \E v \in DOMAIN staged : DecayStaged(v, p)

Spec == Init /\ [][Next]_vars
------------------------------------------------------------------------------
(* Properties *)

Bundles == [manifest: [Paths -> Data], payload: [Paths -> Data \cup {None}],
            volumes: Seq(SUBSET Paths)]

Entries == [data: Data, time: Nat]

(* The type of every variable. *)
TypeOK ==
    /\ size \in Sizes /\ limit \in Limits /\ base \in Bases
    /\ disk \in [Paths -> Entries]
    /\ cache \in [Paths -> Entries \cup {None}]
    /\ export \in [pc: {"idle", "stat", "hash", "restat", "scanned", "partition", "copy"},
                   at: 0..(Len(Order) + 1), rehash: BOOLEAN, before: Nat,
                   manifest: [Paths -> Data \cup {None}], times: [Paths -> Nat],
                   volumes: Seq(SUBSET Paths), load: Nat,
                   payload: [Paths -> Data \cup {None}]]
    /\ bundle \in Bundles \cup {None}
    /\ staged \in [1..Len(Order) -> Partial \cup {None}]
    /\ stage \in [pc: {"idle", "next", "copied"}, todo: SUBSET (1..Len(Order)),
                  got: Partial \cup {None}]
    /\ {ready, spoilt} \subseteq BOOLEAN
    /\ writes \in 0..MaxWrites /\ decays \in 0..MaxDecays /\ kills \in 0..MaxKills

(* A hash in the manifest, cached or not, is the hash of the file as it is when
   the scan leaves it, unless a file has changed behind its time.
   (build_manifest.) *)
HashesAreFresh ==
    [][Unchanging /\ decays = 0 =>
         LET p == Order[export.at] IN export.manifest[p] = disk[p].data]_vars

(* What a bundle carries is exactly what differs from its base or is asked for,
   each file with the content its manifest names, although the mirror may have been
   updated, and files may have decayed, between the scan and the copy.
   (export_bundle.) *)
BundleIsDifference ==
    bundle # None =>
        \A p \in Paths :
            bundle.payload[p] = IF bundle.manifest[p] = base[p] /\ p \notin Asked THEN None
                                ELSE bundle.manifest[p]

(* The volumes hold the files of the bundle once each, in their order; no volume
   is larger than the limit; and a volume is begun only for a file the one before
   has no room for.  (_partition_volumes.) *)
VolumesFit ==
    bundle # None =>
        LET volumes == bundle.volumes IN
        /\ \A p \in Paths :
              bundle.payload[p] # None <=> \E v \in DOMAIN volumes : p \in volumes[v]
        /\ \A v, w \in DOMAIN volumes : \A i, j \in DOMAIN Order :
              v < w /\ Order[i] \in volumes[v] /\ Order[j] \in volumes[w] => i < j
        /\ \A v \in DOMAIN volumes :
              /\ Len(volumes) > 1 => volumes[v] # {}
              /\ limit > 0 => TotalSize(volumes[v], size) <= limit
              /\ v > 1 => \A i \in DOMAIN Order :
                    Order[i] \in volumes[v] /\ (\A j \in 1..(i - 1) : Order[j] \notin volumes[v])
                       => TotalSize(volumes[v - 1], size) + size[Order[i]] > limit

(* A staging directory marked READY holds every file of the bundle, whole, in
   whatever order the discs were read, however often, and whatever was killed or
   copied badly; only a file that decays later can spoil it.  (stage_volumes.) *)
ReadyIsWhole ==
    ready => \A p \in Paths : bundle.payload[p] # None =>
        \E v \in Volumes : /\ staged[v] # None /\ p \in DOMAIN staged[v]
                           /\ staged[v][p] = bundle.payload[p] \/ spoilt
=============================================================================
