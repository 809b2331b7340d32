-------------------------- MODULE OfflineSyncProofs --------------------------
(***************************************************************************)
(* Proofs about OfflineSync: the types of its variables, that no bundle    *)
(* relies on a snapshot that was never installed, and that what counts as  *)
(* installed is whole.                                                     *)
(*                                                                         *)
(* Two invariants carry them.  Remembered: wherever a manifest is kept as  *)
(* installed, on either host, on a medium or in a running command, it was  *)
(* installed once.  Examined: from the check of an import on, what differs *)
(* from its manifest is at most what is queued for deletion.               *)
(***************************************************************************)
EXTENDS OfflineSync, FileSizesProofs, TLAPS

(* A running import has a manifest, and an export about to keep one a bundle. *)
UnderWay ==
    /\ import.pc # "idle" => import.target \in Manifests
    /\ export.pc = "record" => bundle[export.medium] \in Bundles

Remembered ==
    /\ accepted \in ever \cup {None}
    /\ installed \in ever \cup {None}
    /\ \A m \in Media : ack[m] \in ever \cup {None}
    /\ \A m \in Media : repair[m] # None => repair[m].installed \in ever \cup {None}
    /\ import.pc \in {"ack", "unrequest"} => import.target \in ever

Examined ==
    LET s == import.target IN
    /\ import.pc \in {"review", "delete", "install"} => Issues(s) = {}
    /\ import.pc \in {"review", "delete"} => Stray(s) \subseteq import.queue
    /\ import.pc \in {"review", "delete"} => import.queue \subseteq Paths \ Files(s)
    /\ import.pc = "install" => Stray(s) = {}

Typed == TypeOK /\ UnderWay

Inv == Typed /\ Remembered /\ NothingSkipped /\ Examined
------------------------------------------------------------------------------
(* Types *)

LEMMA TypedInit == Init => Typed
  BY SnapshotAssumption
  DEF Init, Typed, TypeOK, UnderWay, NoExport, NoImport, Disks, Manifests

LEMMA TypedExport ==
    ASSUME Typed,
           (\E m \in Media : ExportStep(m)) \/ KillExport \/ ChangeSource
    PROVE  Typed'
<1>1. ASSUME NEW m \in Media, ReadAck(m) PROVE Typed'
  BY <1>1 DEF ReadAck, Typed, TypeOK, UnderWay, NoExport, media, offline, bounds
<1>2. ASSUME NEW m \in Media, ReadRepair(m) PROVE Typed'
  <2>1. repair[m] # None => repair[m] \in Requests
    BY DEF Typed, TypeOK
  <2>2. CASE Unreadable(m)
    BY <1>2, <2>2
    DEF ReadRepair, Typed, TypeOK, UnderWay, NoExport, media, offline, bounds
  <2>3. CASE ~Unreadable(m)
    <3>1. accepted' \in Manifests \cup {None}
      BY <1>2, <2>1, <2>3 DEF ReadRepair, Rebased, Typed, TypeOK, Requests
    <3>2. (IF repair[m] = None THEN {} ELSE repair[m].paths) \in SUBSET Paths
      BY <2>1 DEF Requests
    <3> QED
      BY <1>2, <2>3, <3>1, <3>2
      DEF ReadRepair, Typed, TypeOK, UnderWay, media, offline, bounds
  <2> QED
    BY <2>2, <2>3
<1>3. ASSUME NEW m \in Media, WriteBundle(m) PROVE Typed'
  <2>1. bundle'[m] \in Bundles
    BY <1>3 DEF WriteBundle, Typed, TypeOK, Bundles, Changed, Files
  <2> QED
    BY <1>3, <2>1
    DEF WriteBundle, Exporting, Typed, TypeOK, UnderWay, online, offline, bounds
<1>4. ASSUME NEW m \in Media, RecordManifest(m) PROVE Typed'
  <2>1. bundle[m].target \in Manifests
    BY <1>4 DEF RecordManifest, Exporting, Typed, UnderWay, Bundles
  <2> QED
    BY <1>4, <2>1
    DEF RecordManifest, Typed, TypeOK, UnderWay, NoExport, media, offline, bounds
<1>5. CASE KillExport
  BY <1>5, SnapshotAssumption
  DEF KillExport, Typed, TypeOK, UnderWay, NoExport, online, media, offline
<1>6. CASE ChangeSource
  BY <1>6, SnapshotAssumption DEF ChangeSource, Typed, TypeOK, UnderWay, media, offline
<1> QED
  BY <1>1, <1>2, <1>3, <1>4, <1>5, <1>6 DEF ExportStep

LEMMA TypedImport ==
    ASSUME Typed,
           \/ \E m \in Media : StartImport(m) \/ StartVerify(m)
           \/ ImportStep \/ Decline \/ KillImport
           \/ \E p \in Paths : Damage(p)
    PROVE  Typed'
<1>1. \A s : Issues(s) \in SUBSET Paths /\ Stray(s) \in SUBSET Paths
  BY DEF Issues, Stray, Files
<1>2. ASSUME NEW m \in Media, StartImport(m) PROVE Typed'
  <2>1. bundle[m] \in Bundles
    BY <1>2 DEF StartImport, Typed, TypeOK
  <2> QED
    BY <1>2, <2>1
    DEF StartImport, Typed, TypeOK, UnderWay, Bundles, online, media, offline, bounds
<1>3. ASSUME NEW m \in Media, StartVerify(m) PROVE Typed'
  BY <1>1, <1>3 DEF StartVerify, Typed, TypeOK, UnderWay, online, media, offline, bounds
<1>4. ASSUME NEW p \in Paths, CopyFile(p) PROVE Typed'
  <2>1. dest' \in Disks
    BY <1>4 DEF CopyFile, Typed, TypeOK, UnderWay, Disks, Manifests
  <2> QED
    BY <1>4, <2>1 DEF CopyFile, Typed, TypeOK, UnderWay, online, media, bounds
<1>5. ASSUME NEW p \in Paths, DeleteFile(p) PROVE Typed'
  <2>1. dest' \in Disks
    BY <1>5 DEF DeleteFile, Typed, TypeOK, Disks
  <2> QED
    BY <1>5, <2>1 DEF DeleteFile, Typed, TypeOK, UnderWay, online, media, bounds
<1>6. CASE Check
  <2>1. import.target \in Manifests
    BY <1>6 DEF Check, Typed, UnderWay
  <2>2. \E pc \in {"install", "review", "request"}, Q \in SUBSET Paths :
           import' = [import EXCEPT !.pc = pc, !.queue = Q]
    BY <1>1, <1>6 DEF Check
  <2>3. TypeOK'
    BY <1>6, <2>2 DEF Check, Typed, TypeOK, online, media, offline, bounds
  <2>4. import'.target = import.target
    BY <2>2 DEF Typed, TypeOK
  <2> QED
    BY <1>6, <2>1, <2>3, <2>4 DEF Check, Typed, UnderWay, media
<1>7. CASE Decline
  BY <1>7
  DEF Decline, NoImport, Typed, TypeOK, UnderWay, online, media, offline, bounds
<1>8. CASE Approve
  BY <1>8 DEF Approve, Proceed, Typed, TypeOK, UnderWay, online, media, offline, bounds
<1>9. CASE Install
  <2>1. import.target \in Manifests
    BY <1>9 DEF Install, Typed, UnderWay
  <2> QED
    BY <1>9, <2>1 DEF Install, Proceed, Typed, TypeOK, UnderWay, online, media, bounds
<1>10. ASSUME NEW m \in Media, WriteAck(m) PROVE Typed'
  <2>1. ack' \in [Media -> Manifests \cup {None}]
    BY <1>10 DEF WriteAck, Importing, Acked, Typed, TypeOK
  <2>2. TypeOK'
    BY <1>10, <2>1 DEF WriteAck, Proceed, Typed, TypeOK, online, offline, bounds
  <2>3. import.target \in Manifests /\ import'.target = import.target
    BY <1>10 DEF WriteAck, Importing, Proceed, Typed, TypeOK, UnderWay
  <2> QED
    BY <1>10, <2>2, <2>3 DEF WriteAck, Typed, UnderWay
<1>11. ASSUME NEW m \in Media, DropRepair(m) PROVE Typed'
  <2>1. repair' \in [Media -> Requests \cup {None}]
    BY <1>11 DEF DropRepair, Typed, TypeOK
  <2> QED
    BY <1>11, <2>1
    DEF DropRepair, NoImport, Typed, TypeOK, UnderWay, online, offline, bounds
<1>12. ASSUME NEW m \in Media, WriteRepair(m) PROVE Typed'
  <2>1. repair' \in [Media -> Requests \cup {None}]
    BY <1>12 DEF WriteRepair, Typed, TypeOK, Requests
  <2>2. TypeOK'
    BY <1>12, <2>1 DEF WriteRepair, Proceed, Typed, TypeOK, online, offline, bounds
  <2>3. import.target \in Manifests /\ import'.target = import.target
    BY <1>12 DEF WriteRepair, Importing, Proceed, Typed, TypeOK, UnderWay
  <2> QED
    BY <1>12, <2>2, <2>3 DEF WriteRepair, Typed, UnderWay
<1>13. ASSUME NEW m \in Media, DropAck(m) PROVE Typed'
  <2>1. ack' \in [Media -> Manifests \cup {None}]
    BY <1>13 DEF DropAck, Typed, TypeOK
  <2> QED
    BY <1>13, <2>1
    DEF DropAck, NoImport, Typed, TypeOK, UnderWay, online, offline, bounds
<1>14. CASE KillImport
  BY <1>14, SnapshotAssumption
  DEF KillImport, NoImport, Typed, TypeOK, UnderWay, online, media, offline
<1>15. ASSUME NEW p \in Paths, Damage(p) PROVE Typed'
  <2>1. dest' \in Disks
    BY <1>15 DEF Damage, Typed, TypeOK, Disks
  <2> QED
    BY <1>15, <2>1, SnapshotAssumption DEF Damage, Typed, TypeOK, UnderWay, online, media
<1> QED
  BY <1>2, <1>3, <1>4, <1>5, <1>6, <1>7, <1>8, <1>9, <1>10, <1>11, <1>12, <1>13,
     <1>14, <1>15
  DEF ImportStep

LEMMA TypedNext == Typed /\ [Next]_vars => Typed'
<1> SUFFICES ASSUME Typed, [Next]_vars PROVE Typed'
  OBVIOUS
<1>1. CASE UNCHANGED vars
  BY <1>1 DEF vars, online, media, offline, bounds, Typed, TypeOK, UnderWay
<1>2. CASE Next
  BY <1>2, TypedExport, TypedImport DEF Next
<1> QED
  BY <1>1, <1>2
------------------------------------------------------------------------------
(* What is remembered as installed *)

(* Steps that install nothing and leave the feedback as it is. *)
LEMMA RememberedKept ==
    ASSUME Remembered,
           ever' = ever, ack' = ack, repair' = repair,
           accepted' = accepted, installed' = installed,
           import'.pc \in {"ack", "unrequest"} => import'.target \in ever
    PROVE  Remembered'
  BY DEF Remembered

LEMMA RememberedNext == Typed /\ Remembered /\ [Next]_vars => Remembered'
<1> SUFFICES ASSUME Typed, Remembered, [Next]_vars PROVE Remembered'
  OBVIOUS
<1>1. CASE UNCHANGED vars
  BY <1>1 DEF vars, online, media, offline, Remembered
<1>2. ASSUME NEW m \in Media, ReadAck(m) PROVE Remembered'
  BY <1>2 DEF ReadAck, media, offline, Remembered
<1>3. ASSUME NEW m \in Media, ReadRepair(m) PROVE Remembered'
  BY <1>3 DEF ReadRepair, Rebased, media, offline, Remembered
<1>4. ASSUME \/ \E m \in Media : WriteBundle(m) \/ RecordManifest(m)
             \/ KillExport \/ ChangeSource
      PROVE  Remembered'
  BY <1>4 DEF WriteBundle, RecordManifest, KillExport, ChangeSource,
              online, media, offline, Remembered
<1>5. ASSUME \/ \E m \in Media : StartImport(m)
             \/ \E p \in Paths : CopyFile(p) \/ DeleteFile(p) \/ Damage(p)
             \/ Check \/ Approve \/ Decline \/ KillImport
      PROVE  Remembered'
  <2>1. import'.pc \notin {"ack", "unrequest"}
    <3>1. CASE Check
      BY <3>1 DEF Check, Typed, TypeOK
    <3>2. CASE \E p \in Paths : CopyFile(p) \/ DeleteFile(p) \/ Damage(p)
      BY <3>2 DEF CopyFile, DeleteFile, Damage, Typed, TypeOK
    <3>3. CASE (\E m \in Media : StartImport(m)) \/ Approve \/ Decline \/ KillImport
      BY <3>3 DEF StartImport, Approve, Decline, KillImport, Proceed, NoImport, Typed, TypeOK
    <3> QED
      BY <1>5, <3>1, <3>2, <3>3
  <2> QED
    BY <1>5, <2>1, RememberedKept
    DEF StartImport, CopyFile, DeleteFile, Check, Approve, Damage, KillImport, Decline,
        online, media, offline
<1>6. ASSUME NEW m \in Media, StartVerify(m) PROVE Remembered'
  <2>1. import'.target = installed /\ installed \in ever
    BY <1>6 DEF StartVerify, Remembered
  <2> QED
    BY <1>6, <2>1, RememberedKept DEF StartVerify, online, media, offline
<1>7. CASE Install
  <2>1. import'.target = import.target
    BY <1>7 DEF Install, Proceed, Typed, TypeOK
  <2>2. accepted' = accepted /\ ack' = ack /\ repair' = repair
    BY <1>7 DEF Install, online, media
  <2>3. ever' = ever \cup {import.target} /\ installed' = import.target
    BY <1>7 DEF Install
  <2> QED
    BY <2>1, <2>2, <2>3 DEF Remembered
<1>8. ASSUME NEW m \in Media, WriteAck(m) PROVE Remembered'
  <2>1. import'.target = import.target /\ import.target \in ever
    BY <1>8 DEF WriteAck, Importing, Proceed, Remembered, Typed, TypeOK
  <2>2. \A n \in Media : ack'[n] \in {ack[n], import.target}
    BY <1>8 DEF WriteAck, Acked, Typed, TypeOK
  <2> QED
    BY <1>8, <2>1, <2>2 DEF WriteAck, online, offline, Remembered
<1>9. ASSUME NEW m \in Media, DropRepair(m) PROVE Remembered'
  BY <1>9 DEF DropRepair, NoImport, online, offline, Remembered, Typed, TypeOK
<1>10. ASSUME NEW m \in Media, WriteRepair(m) PROVE Remembered'
  <2>1. \A n \in Media : \/ repair'[n] = repair[n]
                         \/ repair'[n] = [installed |-> installed, paths |-> import.queue]
    BY <1>10 DEF WriteRepair, Typed, TypeOK
  <2>2. import'.pc = "unack"
    BY <1>10 DEF WriteRepair, Proceed, Typed, TypeOK
  <2> QED
    BY <1>10, <2>1, <2>2 DEF WriteRepair, online, offline, Remembered
<1>11. ASSUME NEW m \in Media, DropAck(m) PROVE Remembered'
  <2>1. \A n \in Media : ack'[n] \in {ack[n], None}
    BY <1>11 DEF DropAck, Typed, TypeOK
  <2> QED
    BY <1>11, <2>1 DEF DropAck, NoImport, online, offline, Remembered
<1> QED
  BY <1>1, <1>2, <1>3, <1>4, <1>5, <1>6, <1>7, <1>8, <1>9, <1>10, <1>11
  DEF Next, ExportStep, ImportStep
------------------------------------------------------------------------------
(* What a bundle leaves out *)

(* A manifest that was installed once stays so. *)
LEMMA EverGrows == Typed /\ [Next]_vars => ever \subseteq ever'
  BY DEF Next, ImportStep, ExportStep, vars, online, media, offline, bounds,
         ReadAck, ReadRepair, WriteBundle, RecordManifest, StartImport, StartVerify,
         CopyFile, DeleteFile, Check, Approve, Install, Decline, WriteAck, DropRepair,
         WriteRepair, DropAck, KillExport, KillImport, ChangeSource, Damage

LEMMA BundleKept ==
    Next => bundle' = bundle \/ \E m \in Media : WriteBundle(m)
  BY DEF Next, ImportStep, ExportStep, online, media, offline, bounds,
         ReadAck, ReadRepair, RecordManifest, StartImport, StartVerify,
         CopyFile, DeleteFile, Check, Approve, Install, Decline, WriteAck, DropRepair,
         WriteRepair, DropAck, KillExport, KillImport, ChangeSource, Damage

LEMMA NothingSkippedNext ==
    Typed /\ Remembered /\ NothingSkipped /\ [Next]_vars => NothingSkipped'
<1> SUFFICES ASSUME Typed, Remembered, NothingSkipped, [Next]_vars PROVE NothingSkipped'
  OBVIOUS
<1>1. ever \subseteq ever'
  BY EverGrows
<1>2. CASE bundle' = bundle
  BY <1>1, <1>2 DEF NothingSkipped
<1>3. ASSUME NEW m \in Media, WriteBundle(m) PROVE NothingSkipped'
  <2> DEFINE b == [base |-> accepted, target |-> source,
                   paths |-> Changed(accepted) \cup (export.asked \cap Files(source))]
  <2>1. bundle'[m] = b /\ \A n \in Media \ {m} : bundle'[n] = bundle[n]
    BY <1>3 DEF WriteBundle, Typed, TypeOK
  <2>2. b.base \in ever' \cup {None}
    BY <1>1 DEF Remembered
  <2>3. ASSUME NEW p \in Files(b.target) \ b.paths
        PROVE  b.base # None /\ b.base[p] = b.target[p]
    BY <2>3 DEF Changed
  <2> QED
    BY <1>1, <2>1, <2>2, <2>3 DEF NothingSkipped
<1> QED
  <2>1. UNCHANGED vars => bundle' = bundle
    BY DEF vars, media
  <2> QED
    BY <1>2, <1>3, <2>1, BundleKept
------------------------------------------------------------------------------
(* What an import has examined *)

(* Outside an import, and before its check, there is nothing to show. *)
LEMMA NotExamined ==
    import'.pc \notin {"review", "delete", "install"} => Examined'
  BY DEF Examined

LEMMA ExaminedKept == Examined /\ import' = import /\ dest' = dest => Examined'
  BY DEF Examined, Issues, Stray, Files

LEMMA ExaminedNext == Typed /\ Examined /\ [Next]_vars => Examined'
<1> SUFFICES ASSUME Typed, Examined, [Next]_vars PROVE Examined'
  OBVIOUS
<1>1. CASE import' = import /\ dest' = dest
  BY <1>1, ExaminedKept
<1>2. CASE import'.pc \notin {"review", "delete", "install"}
  BY <1>2, NotExamined
<1>3. CASE Check
  <2> DEFINE s == import.target
  <2>1. dest' = dest
    BY <1>3 DEF Check, offline
  <2>2. CASE CheckPasses
    <3>1. import' = [import EXCEPT !.pc = IF Stray(s) = {} THEN "install" ELSE "review",
                                   !.queue = Stray(s)]
      BY <1>3, <2>2 DEF Check
    <3>2. /\ import'.target = s
          /\ import'.queue = Stray(s)
          /\ import'.pc = IF Stray(s) = {} THEN "install" ELSE "review"
      BY <3>1 DEF Typed, TypeOK
    <3>3. Stray(s) \subseteq Paths \ Files(s)
      BY DEF Stray
    <3>4. Issues(s)' = Issues(s) /\ Stray(s)' = Stray(s) /\ Issues(s) = {}
      BY <2>1, <2>2, <3>2 DEF Issues, Stray, CheckPasses
    <3> QED
      BY <3>2, <3>3, <3>4 DEF Examined, Files
  <2>3. CASE ~CheckPasses
    <3>1. import'.pc = "request"
      BY <1>3, <2>3 DEF Check, Typed, TypeOK
    <3> QED
      BY <3>1, NotExamined
  <2> QED
    BY <2>2, <2>3
<1>4. CASE Approve
  <2>1. import'.target = import.target /\ import'.queue = import.queue
        /\ import'.pc = "delete" /\ import.pc = "review" /\ dest' = dest
    BY <1>4 DEF Approve, Proceed, Typed, TypeOK, offline
  <2> QED
    BY <2>1 DEF Examined, Issues, Stray, Files
<1>5. ASSUME NEW p \in Paths, DeleteFile(p) PROVE Examined'
  <2>1. /\ import'.target = import.target /\ import'.queue = import.queue \ {p}
        /\ import'.pc = "delete" /\ import.pc = "delete" /\ p \in import.queue
    BY <1>5 DEF DeleteFile, Typed, TypeOK
  <2>2. dest'[p] = Absent /\ \A q \in Paths \ {p} : dest'[q] = dest[q]
    BY <1>5 DEF DeleteFile, Typed, TypeOK, Disks
  <2>3. p \notin Files(import.target)
    BY <2>1 DEF Examined
  <2> QED
    BY <2>1, <2>2, <2>3 DEF Examined, Issues, Stray, Files
<1>6. CASE Install
  <2>1. import'.pc = "ack"
    BY <1>6 DEF Install, Proceed, Typed, TypeOK
  <2> QED
    BY <2>1, NotExamined
<1>7. ASSUME NEW p \in Paths, CopyFile(p) \/ Damage(p) PROVE Examined'
  <2>1. import'.pc \in {"idle", "copy"}
    BY <1>7 DEF CopyFile, Damage, Typed, TypeOK
  <2> QED
    BY <2>1, NotExamined
<1>8. ASSUME NEW m \in Media,
             \/ StartImport(m) \/ StartVerify(m)
             \/ WriteAck(m) \/ DropRepair(m) \/ WriteRepair(m) \/ DropAck(m)
      PROVE  Examined'
  <2>1. import'.pc \notin {"review", "delete", "install"}
    BY <1>8 DEF StartImport, StartVerify, WriteAck, DropRepair, WriteRepair, DropAck,
                Proceed, NoImport, Typed, TypeOK
  <2> QED
    BY <2>1, NotExamined
<1>9. CASE Decline \/ KillImport
  BY <1>9, NotExamined DEF Decline, KillImport, NoImport
<1>10. CASE (\E m \in Media : ExportStep(m)) \/ KillExport \/ ChangeSource
  BY <1>1, <1>10 DEF ExportStep, ReadAck, ReadRepair, WriteBundle, RecordManifest,
                     KillExport, ChangeSource, offline
<1>11. CASE UNCHANGED vars
  BY <1>1, <1>11 DEF vars, offline
<1> QED
  BY <1>3, <1>4, <1>5, <1>6, <1>7, <1>8, <1>9, <1>10, <1>11 DEF Next, ImportStep
------------------------------------------------------------------------------
(* The theorems *)

LEMMA InvInit == Init => Inv
<1> SUFFICES ASSUME Init PROVE Inv
  OBVIOUS
<1>1. Typed
  BY TypedInit
<1>2. Remembered /\ NothingSkipped /\ Examined
  BY DEF Init, NoImport, Remembered, NothingSkipped, Examined
<1> QED
  BY <1>1, <1>2 DEF Inv

LEMMA InvNext == Inv /\ [Next]_vars => Inv'
  BY TypedNext, RememberedNext, NothingSkippedNext, ExaminedNext DEF Inv

(* The variables of OfflineSync keep their types. *)
THEOREM TypeCorrect == Spec => []TypeOK
<1>1. Inv => TypeOK
  BY DEF Inv, Typed
<1> QED
  BY InvInit, InvNext, <1>1, PTL DEF Spec

(* No bundle ever skips a file: for any number of media, snapshots, kills and
   damaged files, its base was installed on the offline host, and what it leaves
   out is there unchanged. *)
THEOREM NothingIsSkipped == Spec => []NothingSkipped
<1>1. Inv => NothingSkipped
  BY DEF Inv
<1> QED
  BY InvInit, InvNext, <1>1, PTL DEF Spec

LEMMA InstallStep ==
    Inv /\ [Next]_vars /\ installed' # installed => \A p \in Paths : dest'[p] = installed'[p]
<1> SUFFICES ASSUME Inv, [Next]_vars, installed' # installed,
                    NEW p \in Paths
             PROVE  dest'[p] = installed'[p]
  OBVIOUS
<1>1. Install
  BY DEF Next, ImportStep, ExportStep, vars, online, media, offline, bounds,
         ReadAck, ReadRepair, WriteBundle, RecordManifest, StartImport, StartVerify,
         CopyFile, DeleteFile, Check, Approve, Decline, WriteAck, DropRepair,
         WriteRepair, DropAck, KillExport, KillImport, ChangeSource, Damage
<1>2. dest' = dest /\ installed' = import.target
  BY <1>1 DEF Install
<1>3. Issues(import.target) = {} /\ Stray(import.target) = {}
  BY <1>1 DEF Install, Inv, Examined
<1> QED
  BY <1>2, <1>3 DEF Issues, Stray, Files

(* Whenever a snapshot comes to count as installed, the mirror on the offline host
   is that snapshot, whatever happened before. *)
THEOREM WhatIsInstalledIsWhole == Spec => InstalledIsWhole
<1>1. Inv /\ [Next]_vars =>
         [installed' # installed => \A p \in Paths : dest'[p] = installed'[p]]_vars
  BY InstallStep
<1> QED
  BY InvInit, InvNext, <1>1, PTL DEF Spec, InstalledIsWhole
------------------------------------------------------------------------------
(* The deletions of an import *)

(* The medium of an import is not written to, and holds its bundle. *)
Reserved ==
    /\ import.pc # "idle" => import.medium \in Media /\ export.medium # import.medium
    /\ import.pc \in {"copy", "review"} =>
          bundle[import.medium] # None /\ bundle[import.medium].target = import.target

(* What is queued for deletion is there, and not yet deleted. *)
Awaiting == import.pc \in {"review", "delete"} => import.queue \subseteq Stray(import.target)

(* What is queued is little next to what stays: 4 to 6. *)
Little(q, t) == q = 0 \/ 6 * q < 4 * t

Spared ==
    import.pc = "delete" /\ ~AllowLarge =>
        /\ Little(Cardinality(import.queue), Cardinality(Files(import.target)))
        /\ Little(Bytes(import.queue), Bytes(Files(import.target)))

Sparing == Reserved /\ Awaiting /\ Spared

LEMMA PathsFinite ==
    ASSUME NEW S \in SUBSET Paths
    PROVE  /\ IsFiniteSet(S) /\ Cardinality(S) \in Nat /\ Bytes(S) \in Nat
           /\ \A p \in S : Size[p] \in Nat
<1>1. IsFiniteSet(S) /\ \A p \in S : Size[p] \in Nat
  BY SnapshotAssumption, FS_Subset
<1> QED
  BY <1>1, FS_CardinalityType, TotalSizeType DEF Bytes

LEMMA FewerOfLess ==
    ASSUME NEW T \in SUBSET Paths, NEW S \in SUBSET T
    PROVE  Cardinality(S) <= Cardinality(T) /\ Bytes(S) <= Bytes(T)
<1>1. IsFiniteSet(T) /\ \A p \in T : Size[p] \in Nat
  BY PathsFinite
<1> QED
  BY <1>1, FS_Subset, TotalSizeGrows DEF Bytes

LEMMA LittleLess ==
    ASSUME NEW q \in Nat, NEW d \in Nat, NEW t \in Nat, q <= d, Little(d, t)
    PROVE  Little(q, t)
  BY DEF Little

(* What the threshold says of the deletions. *)
LEMMA AllowedIsLittle ==
    ASSUME Typed, DeletionAllowed, ~AllowLarge, NEW D, D = ToDelete,
           D \in SUBSET Paths, NEW T, T = Files(import.target), T \in SUBSET Paths
    PROVE  Little(Cardinality(D), Cardinality(T)) /\ Little(Bytes(D), Bytes(T))
<1>1. /\ Cardinality(D) \in Nat /\ Bytes(D) \in Nat
      /\ Cardinality(T) \in Nat /\ Bytes(T) \in Nat
  BY PathsFinite
<1>2. /\ Cardinality(D) * 10 <
            4 * (IF Cardinality(T) + Cardinality(D) = 0 THEN 1 ELSE Cardinality(T) + Cardinality(D))
      /\ Bytes(D) * 10 < 4 * (IF Bytes(T) + Bytes(D) = 0 THEN 1 ELSE Bytes(T) + Bytes(D))
  BY DEF DeletionAllowed
<1> QED
  BY <1>1, <1>2 DEF Little

LEMMA ReservedNext == Typed /\ Reserved /\ [Next]_vars => Reserved'
<1> SUFFICES ASSUME Typed, Reserved, [Next]_vars PROVE Reserved'
  OBVIOUS
<1> USE DEF Typed
<1>1. None \notin Media
  BY SnapshotAssumption
<1>2. ASSUME NEW m \in Media, ReadAck(m) PROVE Reserved'
  <2>1. export'.medium = m /\ import.medium # m /\ UNCHANGED <<import, bundle>>
    BY <1>2 DEF ReadAck, NoExport, media
  <2> QED
    BY <2>1 DEF Reserved
<1>3. ASSUME NEW m \in Media, ReadRepair(m) \/ RecordManifest(m) PROVE Reserved'
  <2>1. UNCHANGED <<import, bundle>>
    BY <1>3 DEF ReadRepair, RecordManifest, media
  <2>2. NoExport.medium = None
    BY DEF NoExport
  <2>3. CASE ReadRepair(m)
    <3>1. export' = NoExport \/ \E Q : export' = [export EXCEPT !.pc = "write", !.asked = Q]
      BY <2>3 DEF ReadRepair
    <3>2. export'.medium \in {export.medium, None}
      BY <2>2, <3>1 DEF TypeOK
    <3> QED
      BY <1>1, <2>1, <3>2 DEF Reserved
  <2>4. CASE RecordManifest(m)
    BY <1>1, <2>1, <2>2, <2>4 DEF RecordManifest, Reserved
  <2> QED
    BY <1>3, <2>3, <2>4
<1>4. CASE KillExport
  BY <1>1, <1>4 DEF KillExport, NoExport, media, Reserved
<1>5. ASSUME NEW m \in Media, WriteBundle(m) PROVE Reserved'
  <2>1. /\ export.medium = m /\ export'.medium = m /\ import' = import
        /\ \A n \in Media \ {m} : bundle'[n] = bundle[n]
    BY <1>5 DEF WriteBundle, Exporting, TypeOK
  <2> QED
    BY <2>1 DEF Reserved
<1>6. ASSUME NEW m \in Media, StartImport(m) PROVE Reserved'
  <2>1. /\ export.medium # m /\ bundle[m] # None
        /\ import'.medium = m /\ import'.target = bundle[m].target
        /\ UNCHANGED <<export, bundle>>
    BY <1>6 DEF StartImport, media
  <2> QED
    BY <2>1 DEF Reserved
<1>7. ASSUME NEW m \in Media, StartVerify(m) PROVE Reserved'
  <2>1. /\ export.medium # m /\ import'.medium = m /\ import'.pc \in {"ack", "request"}
        /\ UNCHANGED <<export, bundle>>
    BY <1>7 DEF StartVerify, media
  <2> QED
    BY <2>1 DEF Reserved
<1>8. CASE import'.pc = "idle"
  BY <1>8 DEF Reserved
<1>9. ASSUME import.pc # "idle", import'.medium = import.medium, import'.target = import.target,
             import'.pc \in {"copy", "review"} => import.pc \in {"copy", "review"},
             UNCHANGED <<export, bundle>>
      PROVE  Reserved'
  BY <1>9 DEF Reserved
<1>10. ASSUME NEW p \in Paths, CopyFile(p) \/ DeleteFile(p) PROVE Reserved'
  <2>1. /\ import.pc # "idle" /\ import'.medium = import.medium /\ import'.target = import.target
        /\ import'.pc = import.pc /\ UNCHANGED <<export, bundle>>
    BY <1>10 DEF CopyFile, DeleteFile, media, TypeOK
  <2> QED
    BY <1>9, <2>1
<1>11. CASE Check
  <2>1. /\ import.pc = "copy" /\ import'.medium = import.medium /\ import'.target = import.target
        /\ UNCHANGED <<export, bundle>>
    BY <1>11 DEF Check, media, TypeOK
  <2> QED
    BY <1>9, <2>1
<1>12. ASSUME Approve \/ Install \/ \E m \in Media : WriteAck(m) \/ WriteRepair(m)
       PROVE  Reserved'
  <2>1. /\ import.pc # "idle" /\ import'.medium = import.medium /\ import'.target = import.target
        /\ import'.pc \notin {"copy", "review"} /\ UNCHANGED <<export, bundle>>
    BY <1>12 DEF Approve, Install, WriteAck, WriteRepair, Importing, Proceed, media, TypeOK
  <2> QED
    BY <1>9, <2>1
<1>13. ASSUME Decline \/ KillImport \/ \E m \in Media : DropRepair(m) \/ DropAck(m)
       PROVE  Reserved'
  BY <1>8, <1>13 DEF Decline, KillImport, DropRepair, DropAck, NoImport
<1>14. ASSUME UNCHANGED <<import, export, bundle>> PROVE Reserved'
  BY <1>14 DEF Reserved
<1> QED
  BY <1>2, <1>3, <1>4, <1>5, <1>6, <1>7, <1>10, <1>11, <1>12, <1>13, <1>14
  DEF Next, ExportStep, ImportStep, ChangeSource, Damage, media, vars

(* Steps outside the review and the deletions. *)
LEMMA NothingAwaited ==
    import'.pc \notin {"review", "delete"} => Awaiting' /\ Spared'
  BY DEF Awaiting, Spared

LEMMA AwaitedKept ==
    Awaiting /\ Spared /\ UNCHANGED <<import, dest>> => Awaiting' /\ Spared'
  BY DEF Awaiting, Spared, Stray, Files, Bytes

LEMMA ApproveSpares ==
    ASSUME Typed, Reserved, Awaiting, Approve
    PROVE  Awaiting' /\ Spared'
<1>1. /\ import.pc = "review" /\ DeletionAllowed /\ dest' = dest
      /\ import'.pc = "delete" /\ import'.queue = import.queue /\ import'.target = import.target
  BY DEF Approve, Proceed, offline, Typed, TypeOK
<1>2. /\ import.queue \subseteq Stray(import.target)
      /\ bundle[import.medium] \in Bundles /\ bundle[import.medium].target = import.target
  BY <1>1 DEF Awaiting, Reserved, Typed, TypeOK
<1>3. ToDelete \in SUBSET Paths /\ import.queue \in SUBSET ToDelete
  BY <1>2 DEF ToDelete, Stray, Files
<1>4. Files(import.target) \in SUBSET Paths
  BY DEF Files
<1>5. PICK D, T : D = ToDelete /\ T = Files(import.target)
  OBVIOUS
<1>6. ~AllowLarge => Little(Cardinality(D), Cardinality(T)) /\ Little(Bytes(D), Bytes(T))
  BY <1>1, <1>3, <1>4, <1>5, AllowedIsLittle
<1>7. PICK Q : Q = import.queue
  OBVIOUS
<1>8. Q \in SUBSET D /\ D \in SUBSET Paths /\ T \in SUBSET Paths
  BY <1>3, <1>4, <1>5, <1>7
<1>9. /\ Cardinality(Q) <= Cardinality(D) /\ Bytes(Q) <= Bytes(D)
      /\ Cardinality(Q) \in Nat /\ Cardinality(D) \in Nat /\ Bytes(Q) \in Nat /\ Bytes(D) \in Nat
      /\ Cardinality(T) \in Nat /\ Bytes(T) \in Nat
  BY <1>8, FewerOfLess, PathsFinite
<1>10. ~AllowLarge => Little(Cardinality(Q), Cardinality(T)) /\ Little(Bytes(Q), Bytes(T))
  BY <1>6, <1>9, LittleLess
<1>11. Spared'
  <2>1. import'.queue = Q /\ Files(import.target)' = T
    BY <1>1, <1>5, <1>7 DEF Files
  <2>2. Bytes(import.queue)' = Bytes(Q) /\ Bytes(Files(import.target))' = Bytes(T)
    BY <2>1 DEF Bytes
  <2> QED
    BY <1>10, <2>1, <2>2 DEF Spared
<1>12. Awaiting'
  BY <1>1, <1>2 DEF Awaiting, Stray, Files
<1> QED
  BY <1>11, <1>12

LEMMA DeleteSpares ==
    ASSUME Typed, Awaiting, Spared, NEW p \in Paths, DeleteFile(p)
    PROVE  Awaiting' /\ Spared'
<1>1. /\ import.pc = "delete" /\ import'.pc = "delete" /\ import'.queue = import.queue \ {p}
      /\ import'.target = import.target
  BY DEF DeleteFile, Typed, TypeOK
<1>2. \A q \in Paths \ {p} : dest'[q] = dest[q]
  BY DEF DeleteFile, Typed, TypeOK, Disks
<1>3. Awaiting'
  BY <1>1, <1>2 DEF Awaiting, Stray, Files
<1>4. PICK Q, R, T : Q = import.queue /\ R = import'.queue /\ T = Files(import.target)
  OBVIOUS
<1>5. R \in SUBSET Q /\ Q \in SUBSET Paths /\ T \in SUBSET Paths
  BY <1>1, <1>4 DEF Typed, TypeOK, Files
<1>6. /\ Cardinality(R) <= Cardinality(Q) /\ Bytes(R) <= Bytes(Q)
      /\ Cardinality(R) \in Nat /\ Cardinality(Q) \in Nat /\ Bytes(R) \in Nat /\ Bytes(Q) \in Nat
      /\ Cardinality(T) \in Nat /\ Bytes(T) \in Nat
  BY <1>5, FewerOfLess, PathsFinite
<1>7. ~AllowLarge => Little(Cardinality(R), Cardinality(T)) /\ Little(Bytes(R), Bytes(T))
  BY <1>1, <1>4, <1>6, LittleLess DEF Spared
<1>8. Files(import.target)' = T
  BY <1>1, <1>4 DEF Files
<1>9. Bytes(import.queue)' = Bytes(R) /\ Bytes(Files(import.target))' = Bytes(T)
  BY <1>4, <1>8 DEF Bytes
<1> QED
  BY <1>3, <1>4, <1>7, <1>8, <1>9 DEF Spared

LEMMA SparingNext == Typed /\ Sparing /\ [Next]_vars => Sparing'
<1> SUFFICES ASSUME Typed, Sparing, [Next]_vars PROVE Awaiting' /\ Spared'
  BY ReservedNext DEF Sparing
<1> USE DEF Sparing
<1>1. CASE Approve
  BY <1>1, ApproveSpares
<1>2. ASSUME NEW p \in Paths, DeleteFile(p) PROVE Awaiting' /\ Spared'
  BY <1>2, DeleteSpares
<1>3. CASE Check
  <2>1. /\ dest' = dest /\ import'.target = import.target
        /\ \/ import'.pc = "review" /\ import'.queue = Stray(import.target)
           \/ import'.pc \notin {"review", "delete"}
    BY <1>3 DEF Check, offline, Typed, TypeOK
  <2> QED
    BY <2>1, NothingAwaited DEF Awaiting, Spared, Stray, Files
<1>4. ASSUME NEW p \in Paths, CopyFile(p) \/ Damage(p) PROVE Awaiting' /\ Spared'
  <2>1. import'.pc \in {"idle", "copy"}
    BY <1>4 DEF CopyFile, Damage, Typed, TypeOK
  <2> QED
    BY <2>1, NothingAwaited
<1>5. ASSUME NEW m \in Media,
             \/ StartImport(m) \/ StartVerify(m)
             \/ WriteAck(m) \/ DropRepair(m) \/ WriteRepair(m) \/ DropAck(m)
      PROVE  Awaiting' /\ Spared'
  <2>1. import'.pc \notin {"review", "delete"}
    BY <1>5 DEF StartImport, StartVerify, WriteAck, DropRepair, WriteRepair, DropAck,
                Proceed, NoImport, Typed, TypeOK
  <2> QED
    BY <2>1, NothingAwaited
<1>6. CASE Install
  BY <1>6, NothingAwaited DEF Install, Proceed, Typed, TypeOK
<1>7. CASE Decline \/ KillImport
  BY <1>7, NothingAwaited DEF Decline, KillImport, NoImport
<1>8. CASE (\E m \in Media : ExportStep(m)) \/ KillExport \/ ChangeSource
  BY <1>8, AwaitedKept DEF ExportStep, ReadAck, ReadRepair, WriteBundle, RecordManifest,
                     KillExport, ChangeSource, offline
<1>9. CASE UNCHANGED vars
  BY <1>9, AwaitedKept DEF vars, offline
<1> QED
  BY <1>1, <1>2, <1>3, <1>4, <1>5, <1>6, <1>7, <1>8, <1>9 DEF Next, ImportStep

(* Where the deletions stand, the mirror is the manifest and what is queued. *)
LEMMA SparedIsSmall == Typed /\ Examined /\ Sparing => DeletionsAreSmall
<1> SUFFICES ASSUME Typed, Examined, Sparing, import.pc = "delete", ~AllowLarge, import.queue # {}
             PROVE  LET there == Files(dest) IN
                    /\ Cardinality(import.queue) * 10 < 4 * Cardinality(there)
                    /\ Bytes(import.queue) = 0 \/ Bytes(import.queue) * 10 < 4 * Bytes(there)
  BY DEF DeletionsAreSmall
<1>1. PICK Q, T, D : Q = import.queue /\ T = Files(import.target) /\ D = Files(dest)
  OBVIOUS
<1>2. D = T \cup Q /\ T \cap Q = {} /\ Q \in SUBSET Paths /\ T \in SUBSET Paths
  BY <1>1 DEF Examined, Sparing, Awaiting, Issues, Stray, Files, Typed, TypeOK
<1>3. /\ IsFiniteSet(Q) /\ IsFiniteSet(T) /\ \A p \in T \cup Q : Size[p] \in Nat
      /\ Cardinality(Q) \in Nat /\ Cardinality(T) \in Nat /\ Bytes(Q) \in Nat /\ Bytes(T) \in Nat
  BY <1>2, PathsFinite
<1>4. Cardinality(D) = Cardinality(T) + Cardinality(Q)
  <2>1. Cardinality(T \cup Q) = Cardinality(T) + Cardinality(Q) - Cardinality(T \cap Q)
    BY <1>3, FS_Union
  <2>2. Cardinality(T \cap Q) = 0
    BY <1>2, FS_EmptySet
  <2> QED
    BY <1>2, <1>3, <2>1, <2>2
<1>5. Bytes(D) = Bytes(T) + Bytes(Q)
  BY <1>2, <1>3, TotalSizeAdds DEF Bytes
<1>6. Cardinality(Q) # 0
  BY <1>1, <1>3, FS_EmptySet
<1>7. Little(Cardinality(Q), Cardinality(T)) /\ Little(Bytes(Q), Bytes(T))
  BY <1>1 DEF Sparing, Spared
<1>8. Cardinality(Q) * 10 < 4 * Cardinality(D) /\ (Bytes(Q) = 0 \/ Bytes(Q) * 10 < 4 * Bytes(D))
  BY <1>3, <1>4, <1>5, <1>6, <1>7 DEF Little
<1> QED
  BY <1>1, <1>8

(* No import without --allow-large-deletes ever takes the protected share of the offline
   mirror, for any files, sizes, media, kills and damage, though the threshold is looked at
   only once and the medium is shared with the online host. *)
THEOREM DeletionsAlwaysSmall == Spec => []DeletionsAreSmall
<1>1. Init => Sparing
  BY DEF Init, NoImport, Sparing, Reserved, Awaiting, Spared
<1>2. Inv /\ Sparing /\ [Next]_vars => (Inv /\ Sparing)'
  BY InvNext, SparingNext DEF Inv
<1>3. Inv /\ Sparing => DeletionsAreSmall
  BY SparedIsSmall DEF Inv
<1> QED
  BY <1>1, <1>2, <1>3, InvInit, PTL DEF Spec
=============================================================================
