-------------------------- MODULE BundleVolumesProofs --------------------------
(***************************************************************************)
(* Proofs about BundleVolumes.                                             *)
(*                                                                         *)
(* ExportInv is the invariant of the online host: what the scan has        *)
(* hashed, what _partition_volumes has divided of it, and what has been    *)
(* copied of that, at each place of the loops.  A bundle is what is left   *)
(* of the three at the end (Finished).  Recorded adds when the hashes were *)
(* taken.  Gathered is the invariant of the offline host: what is staged   *)
(* of a volume is what the bundle has in it.                               *)
(***************************************************************************)
EXTENDS BundleVolumes, FileSizesProofs, WellFoundedInduction

Exports ==
    [pc: {"idle", "stat", "hash", "restat", "scanned", "partition", "copy"},
     at: 0..(Len(Order) + 1), rehash: BOOLEAN, before: Nat,
     manifest: [Paths -> Data \cup {None}], times: [Paths -> Nat],
     volumes: Seq(SUBSET Paths), load: Nat,
     payload: [Paths -> Data \cup {None}]]

Scanning == {"stat", "hash", "restat"}

ParametersOK == size \in Sizes /\ limit \in Limits /\ base \in Bases

OnlineOK ==
    /\ disk \in [Paths -> Entries]
    /\ cache \in [Paths -> Entries \cup {None}]
    /\ export \in Exports
    /\ export.pc \in Scanning => export.at \in 1..Len(Order)
    /\ export.pc \in {"partition", "copy"} => export.at > 0

(* A file that was passed has a hash. *)
Hashed ==
    /\ export.pc \in Scanning => \A i \in 1..(export.at - 1) : export.manifest[Order[i]] \in Data
    /\ export.pc = "restat" => export.manifest[Order[export.at]] \in Data
    /\ export.pc \in {"scanned", "partition", "copy"} => export.manifest \in [Paths -> Data]

Differing(manifest, old, i) == old[Order[i]] # manifest[Order[i]] \/ Order[i] \in Asked

Carries(volumes, p) == \E v \in DOMAIN volumes : p \in volumes[v]

InOrder(volumes) ==
    \A v, w \in DOMAIN volumes : \A i, j \in DOMAIN Order :
        v < w /\ Order[i] \in volumes[v] /\ Order[j] \in volumes[w] => i < j

(* The first file of a volume is one the volume before has no room for. *)
Begun(volumes, v, sizes, maximum) ==
    \A i \in DOMAIN Order :
        Order[i] \in volumes[v] /\ (\A j \in 1..(i - 1) : Order[j] \notin volumes[v])
            => TotalSize(volumes[v - 1], sizes) + sizes[Order[i]] > maximum

(* The volumes divide the files before place n that differ. *)
Divides(volumes, manifest, old, n, sizes, maximum) ==
    /\ volumes \in Seq(SUBSET Paths) /\ Len(volumes) > 0
    /\ Len(volumes) = 1 \/ Len(volumes) < n
    /\ \A i \in DOMAIN Order :
          Carries(volumes, Order[i]) <=> i < n /\ Differing(manifest, old, i)
    /\ InOrder(volumes)
    /\ \A v \in DOMAIN volumes : Len(volumes) > 1 => volumes[v] # {}
    /\ \A v \in DOMAIN volumes : maximum > 0 => TotalSize(volumes[v], sizes) <= maximum
    /\ \A v \in DOMAIN volumes : v > 1 => Begun(volumes, v, sizes, maximum)

Divided ==
    /\ export.pc \in Scanning \cup {"scanned"} => export.volumes = <<{}>> /\ export.load = 0
    /\ export.pc = "partition" =>
          /\ Divides(export.volumes, export.manifest, base, export.at, size, limit)
          /\ export.load = TotalSize(export.volumes[Len(export.volumes)], size)
    /\ export.pc = "copy" =>
          Divides(export.volumes, export.manifest, base, Len(Order) + 1, size, limit)

Copied ==
    /\ export.pc \notin {"idle", "copy"} => export.payload = Nothing
    /\ export.pc = "copy" => \A i \in DOMAIN Order :
          export.payload[Order[i]] = IF i < export.at /\ Carries(export.volumes, Order[i])
                                     THEN export.manifest[Order[i]] ELSE None

(* No export runs beside a finished bundle. *)
Finished ==
    bundle # None =>
        /\ export.pc = "idle" /\ bundle \in Bundles /\ bundle.manifest \in [Paths -> Data]
        /\ Divides(bundle.volumes, bundle.manifest, base, Len(Order) + 1, size, limit)
        /\ \A p \in Paths : bundle.payload[p] = IF Carries(bundle.volumes, p)
                                                THEN bundle.manifest[p] ELSE None

ExportInv == ParametersOK /\ OnlineOK /\ Hashed /\ Divided /\ Copied /\ Finished
------------------------------------------------------------------------------
(* Lemmas about the constants and the operators *)

LEMMA OrderPaths ==
    /\ Len(Order) \in Nat \ {0} /\ DOMAIN Order = 1..Len(Order)
    /\ \A i \in 1..Len(Order) : Order[i] \in Paths
    /\ \A p \in Paths : \E i \in 1..Len(Order) : p = Order[i]
    /\ \A i, j \in 1..Len(Order) : Order[i] = Order[j] => i = j
  BY OrderAssumption DEF Paths, ToSet, IsInjective

LEMMA PathsFinite == IsFiniteSet(Paths)
<1>1. Order \in Surjection(1..Len(Order), Paths)
  BY OrderPaths, OrderAssumption DEF Surjection
<1>2. IsFiniteSet(1..Len(Order))
  BY OrderPaths, OneAndMany
<1> QED
  BY <1>1, <1>2, FS_Surjection

LEMMA Parameters ==
    ASSUME ParametersOK
    PROVE  /\ size \in [Paths -> Nat] /\ limit \in Nat /\ base \in [Paths -> Contents \cup {None}]
           /\ None \notin Data
  BY ChoiceAssumption DEF ParametersOK

LEMMA VolumeFinite == ASSUME NEW V \in SUBSET Paths PROVE IsFiniteSet(V)
  BY PathsFinite, FS_Subset

(* One file more is its size more. *)
LEMMA FileAdds ==
    ASSUME ParametersOK, NEW V \in SUBSET Paths, NEW p \in Paths, p \notin V
    PROVE  /\ TotalSize({p}, size) = size[p] /\ size[p] \in Nat
           /\ TotalSize(V, size) \in Nat
           /\ TotalSize(V \cup {p}, size) = TotalSize(V, size) + size[p]
<1>1. \A q \in Paths : size[q] \in Nat
  BY Parameters
<1>2. IsFiniteSet(V) /\ IsFiniteSet({p}) /\ V \cap {p} = {}
  BY VolumeFinite
<1>3. TotalSize({p}, size) = size[p]
  BY <1>1, TotalSizeOfOne
<1>4. TotalSize(V, size) \in Nat
  BY <1>1, <1>2, TotalSizeType
<1>5. TotalSize(V \cup {p}, size) = TotalSize(V, size) + TotalSize({p}, size)
  BY <1>1, <1>2, TotalSizeAdds
<1> QED
  BY <1>1, <1>3, <1>4, <1>5

LEMMA NoBytes == ASSUME NEW sizes PROVE TotalSize({}, sizes) = 0
<1>1. Units({}, sizes) = {}
  BY DEF Units
<1> QED
  BY <1>1, FS_EmptySet DEF TotalSize

LEMMA NoExportType ==
    /\ NoExport \in Exports /\ NoExport.pc = "idle"
    /\ \A p \in Paths : NoExport.times[p] = 0
<1>1. Nothing \in [Paths -> Data \cup {None}] /\ [p \in Paths |-> 0] \in [Paths -> Nat]
  BY DEF Nothing
<1>2. <<{}>> \in Seq(SUBSET Paths) /\ 0 \in 0..(Len(Order) + 1)
  BY OrderPaths
<1> QED
  BY <1>1, <1>2 DEF NoExport, Exports
------------------------------------------------------------------------------
(* _partition_volumes, one file at a time *)

(* Before the first file there is one volume, with nothing in it. *)
LEMMA NothingDivided ==
    ASSUME ParametersOK, NEW manifest
    PROVE  /\ Divides(<<{}>>, manifest, base, 1, size, limit)
           /\ TotalSize(<<{}>>[Len(<<{}>>)], size) = 0
<1> DEFINE V == <<{}>>
<1>1. V \in Seq(SUBSET Paths) /\ Len(V) = 1 /\ DOMAIN V = {1} /\ V[1] = {}
  OBVIOUS
<1>2. limit \in Nat /\ TotalSize(V[1], size) = 0
  BY <1>1, NoBytes, Parameters
<1> HIDE DEF V
<1>3. \A i \in DOMAIN Order : ~(i < 1)
  BY OrderPaths
<1>4. \A p : ~Carries(V, p)
  BY <1>1 DEF Carries
<1>5. InOrder(V)
  BY <1>1 DEF InOrder
<1>6. \A v \in DOMAIN V : v = 1 /\ TotalSize(V[v], size) <= limit
  <2>1. TotalSize(V[1], size) <= limit
    BY <1>2
  <2> QED
    BY <1>1, <2>1
<1>7. Divides(V, manifest, base, 1, size, limit)
  BY <1>1, <1>3, <1>4, <1>5, <1>6 DEF Divides
<1> QED
  BY <1>1, <1>2, <1>7 DEF V

(* A file that does not differ is in no volume. *)
LEMMA PassDivides ==
    ASSUME NEW V, NEW manifest, NEW n \in 1..Len(Order),
           Divides(V, manifest, base, n, size, limit), ~Differing(manifest, base, n)
    PROVE  Divides(V, manifest, base, n + 1, size, limit)
<1>1. Len(V) \in Nat
  BY DEF Divides
<1>2. \A i \in DOMAIN Order : i < n + 1 <=> i < n \/ i = n
  BY OrderPaths
<1>3. \A i \in DOMAIN Order : Carries(V, Order[i]) <=> i < n + 1 /\ Differing(manifest, base, i)
  BY <1>2 DEF Divides
<1>4. Len(V) = 1 \/ Len(V) < n + 1
  BY <1>1 DEF Divides
<1> QED
  BY <1>3, <1>4 DEF Divides

(* The file that begins a volume, or goes to the last one. *)
LEMMA PackDivides ==
    ASSUME ParametersOK, NEW V, NEW manifest, NEW n \in 1..Len(Order),
           Divides(V, manifest, base, n, size, limit), Differing(manifest, base, n),
           ~TooLarge(Order[n]), V = export.volumes,
           export.load = TotalSize(V[Len(V)], size)
    PROVE  /\ Divides(Pack(Order[n]).volumes, manifest, base, n + 1, size, limit)
           /\ Pack(Order[n]).load =
                TotalSize(Pack(Order[n]).volumes[Len(Pack(Order[n]).volumes)], size)
           /\ Pack(Order[n]).load \in Nat
<1> DEFINE p == Order[n]
           k == Len(V)
           W == Pack(p).volumes
           load == Pack(p).load
<1>1. /\ V \in Seq(SUBSET Paths) /\ k \in Nat /\ k > 0 /\ DOMAIN V = 1..k
      /\ \A v \in 1..k : V[v] \in SUBSET Paths
      /\ p \in Paths /\ limit \in Nat
  BY OrderPaths, Parameters DEF Divides
<1>2. \A v \in 1..k : p \notin V[v]
  BY <1>1, OrderPaths DEF Divides, Carries
<1>3. /\ TotalSize({p}, size) = size[p] /\ size[p] \in Nat /\ TotalSize(V[k], size) \in Nat
      /\ TotalSize(V[k] \cup {p}, size) = TotalSize(V[k], size) + size[p]
  <2>1. V[k] \in SUBSET Paths /\ p \notin V[k] /\ p \in Paths
    BY <1>1, <1>2
  <2> HIDE DEF p, k
  <2> QED
    BY <2>1, FileAdds
<1>4. \A v \in 1..k, i \in DOMAIN Order : Order[i] \in V[v] => i < n
  BY <1>1 DEF Divides, Carries
<1>5. /\ \A i \in DOMAIN Order : i \in Nat /\ (i < n + 1 <=> i < n \/ i = n)
      /\ \A i \in DOMAIN Order : Order[i] = p <=> i = n
      /\ n \in DOMAIN Order
  BY OrderPaths
<1>6. /\ \A v \in 1..k : limit > 0 => TotalSize(V[v], size) <= limit
      /\ \A v \in 1..k : k > 1 => V[v] # {}
      /\ \A v \in 1..k : v > 1 => Begun(V, v, size, limit)
      /\ InOrder(V) /\ (k = 1 \/ k < n)
      /\ \A i \in DOMAIN Order : Carries(V, Order[i]) <=> i < n /\ Differing(manifest, base, i)
  BY <1>1 DEF Divides
<1>7. limit > 0 => size[p] <= limit
  BY <1>1, <1>3 DEF TooLarge
<1>8. CASE NoRoom(p)
  <2>1. /\ W = Append(V, {p}) /\ load = size[p]
        /\ limit > 0 /\ V[k] # {} /\ TotalSize(V[k], size) + size[p] > limit
    BY <1>8 DEF Pack, NoRoom, Open
  <2> HIDE DEF W, load, p, k
  <2>2. /\ W \in Seq(SUBSET Paths) /\ Len(W) = k + 1 /\ DOMAIN W = 1..(k + 1)
        /\ W[k + 1] = {p} /\ \A v \in 1..k : W[v] = V[v]
        /\ \A v \in 1..(k + 1) : v = k + 1 \/ v \in 1..k
    BY <1>1, <2>1
  <2>3. n > 1
    <3>1. PICK q \in V[k] : q \in Paths
      BY <1>1, <2>1
    <3>2. PICK i \in DOMAIN Order : q = Order[i]
      BY <3>1, OrderPaths
    <3> QED
      BY <1>1, <1>4, <3>1, <3>2, OrderPaths
  <2>4. Len(W) > 0 /\ (Len(W) = 1 \/ Len(W) < n + 1)
    BY <1>1, <1>6, <2>2, <2>3
  <2>5. \A i \in DOMAIN Order : Carries(W, Order[i]) <=> Carries(V, Order[i]) \/ i = n
    <3>1. (k + 1) \in 1..(k + 1) /\ \A v \in 1..k : v \in 1..(k + 1)
      BY <1>1
    <3>2. \A q : Carries(W, q) <=> Carries(V, q) \/ q = p
      BY <1>1, <2>2, <3>1, Zenon DEF Carries
    <3> QED
      BY <1>5, <3>2
  <2>6. InOrder(W)
    <3> SUFFICES ASSUME NEW v \in 1..(k + 1), NEW w \in 1..(k + 1), v < w,
                        NEW i \in DOMAIN Order, NEW j \in DOMAIN Order,
                        Order[i] \in W[v], Order[j] \in W[w]
                 PROVE  i < j
      BY <2>2 DEF InOrder
    <3>1. v \in 1..k /\ Order[i] \in V[v]
      BY <1>1, <2>2
    <3>2. CASE w = k + 1
      BY <1>4, <1>5, <2>2, <3>1, <3>2
    <3>3. CASE w \in 1..k
      BY <1>1, <1>6, <2>2, <3>1, <3>3 DEF InOrder
    <3> QED
      BY <1>1, <3>2, <3>3
  <2>7. \A v \in 1..(k + 1) : W[v] # {}
    <3>1. \A v \in 1..k : V[v] # {}
      <4>1. k = 1 \/ k > 1
        BY <1>1
      <4>2. k = 1 => \A v \in 1..k : v = k
        OBVIOUS
      <4> QED
        BY <1>6, <2>1, <4>1, <4>2
    <3> QED
      BY <2>2, <3>1
  <2>8. \A v \in 1..(k + 1) : limit > 0 => TotalSize(W[v], size) <= limit
    BY <1>1, <1>3, <1>6, <1>7, <2>2
  <2>9. \A v \in 1..(k + 1) : v > 1 => Begun(W, v, size, limit)
    <3> SUFFICES ASSUME NEW v \in 1..(k + 1), v > 1 PROVE Begun(W, v, size, limit)
      OBVIOUS
    <3>1. v - 1 \in 1..k /\ W[v - 1] = V[v - 1]
      BY <1>1, <2>2
    <3>2. CASE v = k + 1
      BY <1>1, <1>5, <2>1, <2>2, <3>1, <3>2 DEF Begun
    <3>3. CASE v \in 1..k
      BY <1>6, <2>2, <3>1, <3>3 DEF Begun
    <3> QED
      BY <1>1, <3>2, <3>3
  <2>10. Divides(W, manifest, base, n + 1, size, limit)
    BY <1>5, <1>6, <2>2, <2>4, <2>5, <2>6, <2>7, <2>8, <2>9 DEF Divides
  <2>11. load = TotalSize(W[Len(W)], size) /\ load \in Nat
    BY <1>3, <2>1, <2>2
  <2> QED
    BY <2>10, <2>11 DEF W, load, p
<1>9. CASE ~NoRoom(p)
  <2>1. /\ W = [V EXCEPT ![k] = V[k] \cup {p}] /\ load = TotalSize(V[k], size) + size[p]
        /\ limit > 0 /\ V[k] # {} => TotalSize(V[k], size) + size[p] <= limit
    BY <1>1, <1>3, <1>9 DEF Pack, NoRoom, Open
  <2> HIDE DEF W, load, p, k
  <2>2. /\ W \in Seq(SUBSET Paths) /\ Len(W) = k /\ DOMAIN W = 1..k
        /\ W[k] = V[k] \cup {p} /\ \A v \in 1..k : v # k => W[v] = V[v]
    BY <1>1, <2>1
  <2>3. Len(W) > 0 /\ (Len(W) = 1 \/ Len(W) < n + 1)
    BY <1>1, <1>6, <2>2
  <2>4. \A i \in DOMAIN Order : Carries(W, Order[i]) <=> Carries(V, Order[i]) \/ i = n
    BY <1>1, <1>5, <2>2 DEF Carries
  <2>5. InOrder(W)
    <3> SUFFICES ASSUME NEW v \in 1..k, NEW w \in 1..k, v < w,
                        NEW i \in DOMAIN Order, NEW j \in DOMAIN Order,
                        Order[i] \in W[v], Order[j] \in W[w]
                 PROVE  i < j
      BY <2>2 DEF InOrder
    <3>1. Order[i] \in V[v]
      BY <1>1, <2>2
    <3>2. CASE j = n
      BY <1>4, <3>1, <3>2
    <3>3. CASE j # n
      BY <1>1, <1>5, <1>6, <2>2, <3>1, <3>3 DEF InOrder
    <3> QED
      BY <3>2, <3>3
  <2>6. \A v \in 1..k : k > 1 => W[v] # {}
    BY <1>6, <2>2
  <2>7. limit > 0 => TotalSize(W[k], size) <= limit
    <3>1. V[k] = {} => W[k] = {p}
      BY <2>2
    <3> QED
      BY <1>3, <1>7, <2>1, <2>2, <3>1
  <2>8. \A v \in 1..k : limit > 0 => TotalSize(W[v], size) <= limit
    BY <1>6, <2>2, <2>7
  <2>9. \A v \in 1..k : v > 1 => Begun(W, v, size, limit)
    <3> SUFFICES ASSUME NEW v \in 1..k, v > 1, NEW i \in DOMAIN Order, Order[i] \in W[v],
                        \A j \in 1..(i - 1) : Order[j] \notin W[v]
                 PROVE  TotalSize(W[v - 1], size) + size[Order[i]] > limit
      BY DEF Begun
    <3>1. v - 1 \in 1..k /\ W[v - 1] = V[v - 1] /\ V[v] \subseteq W[v] /\ Begun(V, v, size, limit)
      BY <1>1, <1>6, <2>2
    <3>2. Order[i] \in V[v]
      <4>1. PICK q \in V[v] : q \in Paths
        BY <1>1, <1>6
      <4>2. PICK j \in DOMAIN Order : q = Order[j]
        BY <4>1, OrderPaths
      <4>3. j \in Nat /\ j < n /\ j \notin 1..(i - 1)
        BY <1>4, <1>5, <3>1, <4>1, <4>2
      <4>4. i # n
        BY <1>5, <4>2, <4>3, OrderPaths
      <4> QED
        BY <1>5, <2>2, <4>4
    <3>3. \A j \in 1..(i - 1) : Order[j] \notin V[v]
      BY <3>1
    <3> QED
      BY <3>1, <3>2, <3>3 DEF Begun
  <2>10. Divides(W, manifest, base, n + 1, size, limit)
    BY <1>5, <1>6, <2>2, <2>3, <2>4, <2>5, <2>6, <2>8, <2>9 DEF Divides
  <2>11. load = TotalSize(W[Len(W)], size) /\ load \in Nat
    BY <1>3, <2>1, <2>2
  <2> QED
    BY <2>10, <2>11 DEF W, load, p
<1> QED
  BY <1>8, <1>9
------------------------------------------------------------------------------
(* The online host: one lemma for every kind of step *)

CacheOK == cache \in [Paths -> Entries \cup {None}]

PlaceOK ==
    /\ export \in Exports
    /\ export.pc \in Scanning => export.at \in 1..Len(Order)
    /\ export.pc \in {"partition", "copy"} => export.at > 0

LEMMA Running == ASSUME ExportInv, export.pc # "idle" PROVE bundle = None
  BY DEF ExportInv, Finished

(* An export that ends, in whatever way, leaves only the bundle. *)
LEMMA ExportEnds ==
    ASSUME ExportInv, UNCHANGED parameters, disk' \in [Paths -> Entries], CacheOK',
           export' = NoExport, Finished'
    PROVE  ExportInv'
<1>1. export' \in Exports /\ export'.pc = "idle"
  BY NoExportType
<1>2. ParametersOK'
  BY DEF ExportInv, ParametersOK, parameters
<1>3. OnlineOK'
  BY <1>1 DEF OnlineOK, CacheOK, Scanning
<1>4. Hashed' /\ Divided' /\ Copied'
  BY <1>1 DEF Hashed, Divided, Copied, Scanning
<1> QED
  BY <1>2, <1>3, <1>4 DEF ExportInv

(* An export that is given up leaves nothing. *)
LEMMA ExportFails ==
    ASSUME ExportInv, export.pc # "idle", UNCHANGED <<parameters, disk, cache, bundle>>,
           export' = NoExport
    PROVE  ExportInv'
<1>1. Finished'
  BY Running DEF Finished
<1>2. disk' \in [Paths -> Entries] /\ CacheOK' /\ UNCHANGED parameters
  BY DEF ExportInv, OnlineOK, CacheOK
<1> QED
  BY <1>1, <1>2, ExportEnds

(* An export that goes on. *)
LEMMA ExportGoes ==
    ASSUME ExportInv, bundle = None, UNCHANGED <<parameters, disk, bundle>>,
           CacheOK', PlaceOK', Hashed', Divided', Copied'
    PROVE  ExportInv'
<1>1. ParametersOK' /\ Finished'
  BY DEF ExportInv, ParametersOK, parameters, Finished
<1>2. OnlineOK'
  BY DEF ExportInv, OnlineOK, CacheOK, PlaceOK
<1> QED
  BY <1>1, <1>2 DEF ExportInv

(* What is unchanged keeps the invariant. *)
LEMMA ExportRests ==
    ASSUME ExportInv, UNCHANGED <<parameters, cache, export, bundle>>,
           disk' \in [Paths -> Entries]
    PROVE  ExportInv'
<1>1. ParametersOK' /\ OnlineOK'
  BY DEF ExportInv, ParametersOK, OnlineOK, parameters
<1>2. Hashed' /\ Divided' /\ Copied'
  BY DEF ExportInv, Hashed, Divided, Copied, parameters
<1>3. Finished'
  BY DEF ExportInv, Finished, parameters
<1> QED
  BY <1>1, <1>2, <1>3 DEF ExportInv

LEMMA ExportStart == ASSUME ExportInv, StartExport PROVE ExportInv'
<1>1. PICK rehash \in BOOLEAN :
        export' = [NoExport EXCEPT !.pc = "stat", !.at = 1, !.rehash = rehash]
  BY DEF StartExport
<1>2. /\ export' \in Exports /\ export'.pc = "stat" /\ export'.at = 1
      /\ export'.volumes = <<{}>> /\ export'.load = 0 /\ export'.payload = Nothing
  <2>1. 1 \in 0..(Len(Order) + 1)
    BY OrderPaths
  <2>2. NoExport.volumes = <<{}>> /\ NoExport.load = 0 /\ NoExport.payload = Nothing
    BY DEF NoExport
  <2> QED
    BY <1>1, <2>1, <2>2, NoExportType DEF Exports
<1>3. bundle = None /\ UNCHANGED <<parameters, disk, cache, bundle>>
  BY DEF StartExport
<1>4. CacheOK' /\ PlaceOK'
  BY <1>2, <1>3, OrderPaths DEF ExportInv, OnlineOK, CacheOK, PlaceOK, Scanning
<1>5. Hashed' /\ Divided' /\ Copied'
  BY <1>2 DEF Hashed, Divided, Copied, Scanning
<1> QED
  BY <1>3, <1>4, <1>5, ExportGoes

(* The scan goes on with a hash for its file. *)
LEMMA ExportHashed ==
    ASSUME ExportInv, export.pc \in {"stat", "hash"},
           UNCHANGED <<parameters, disk, cache, bundle>>,
           NEW before \in Nat, NEW d \in Data,
           export' = [export EXCEPT !.pc = "restat", !.before = before,
                                    !.manifest[Order[export.at]] = d]
    PROVE  ExportInv'
<1> DEFINE p == Order[export.at]
<1>1. p \in Paths /\ export \in Exports /\ export.at \in 1..Len(Order) /\ bundle = None
  BY OrderPaths, Running DEF ExportInv, OnlineOK, Scanning
<1>2. export.manifest \in [Paths -> Data \cup {None}]
  BY <1>1 DEF Exports
<1>3. /\ export' \in Exports /\ export'.pc = "restat" /\ export'.at = export.at
      /\ export'.manifest = [export.manifest EXCEPT ![p] = d]
      /\ export'.volumes = export.volumes /\ export'.load = export.load
      /\ export'.payload = export.payload
  <2> DEFINE manifest == [export.manifest EXCEPT ![p] = d]
  <2>1. manifest \in [Paths -> Data \cup {None}]
    BY <1>2
  <2>2. export' = [export EXCEPT !.pc = "restat", !.before = before, !.manifest = manifest]
    BY <1>1 DEF Exports
  <2> HIDE DEF manifest
  <2>3. /\ export' \in Exports /\ export'.pc = "restat" /\ export'.at = export.at
        /\ export'.manifest = manifest
        /\ export'.volumes = export.volumes /\ export'.load = export.load
        /\ export'.payload = export.payload
    BY <1>1, <2>1, <2>2 DEF Exports
  <2> QED
    BY <2>3 DEF manifest
<1>4. CacheOK' /\ PlaceOK'
  BY <1>1, <1>3 DEF ExportInv, OnlineOK, CacheOK, PlaceOK, Scanning
<1>5. Hashed'
  <2>1. \A i \in 1..(export.at - 1) : Order[i] \in Paths /\ export.manifest[Order[i]] \in Data
    BY <1>1, OrderPaths DEF ExportInv, Hashed, Scanning
  <2>2. \A q \in Paths : export'.manifest[q] = IF q = p THEN d ELSE export.manifest[q]
    BY <1>2, <1>3
  <2>3. \A i \in 1..(export.at - 1) : export'.manifest[Order[i]] \in Data
    BY <2>1, <2>2
  <2>4. export'.manifest[p] \in Data
    BY <1>1, <2>2
  <2> QED
    BY <1>3, <2>3, <2>4 DEF Hashed, Scanning
<1>6. Divided' /\ Copied'
  BY <1>3 DEF ExportInv, Divided, Copied, Scanning
<1> QED
  BY <1>1, <1>4, <1>5, <1>6, ExportGoes

LEMMA ExportStat == ASSUME ExportInv, Stat PROVE ExportInv'
<1> DEFINE p == Order[export.at]
<1>1. /\ p \in Paths /\ export \in Exports /\ export.pc = "stat"
      /\ export.at \in 1..Len(Order) /\ bundle = None
  BY OrderPaths, Running DEF ExportInv, OnlineOK, Scanning, Stat
<1>2. /\ disk[p].time \in Nat /\ UNCHANGED <<parameters, disk, cache, bundle>>
      /\ cache[p] \in Entries \cup {None}
  BY <1>1 DEF ExportInv, OnlineOK, Entries, Stat, OnlyExports
<1>3. CASE Cached(p)
  <2>1. cache[p].data \in Data
    BY <1>2, <1>3 DEF Cached, Entries
  <2>2. export' = [export EXCEPT !.pc = "restat", !.before = disk[p].time,
                                 !.manifest[p] = cache[p].data]
    BY <1>3 DEF Stat, Digest
  <2> QED
    BY <1>1, <1>2, <2>1, <2>2, ExportHashed
<1>4. CASE ~Cached(p)
  <2>1. export' = [export EXCEPT !.pc = "hash", !.before = disk[p].time]
    BY <1>4 DEF Stat
  <2>2. /\ export' \in Exports /\ export'.pc = "hash" /\ export'.at = export.at
        /\ export'.manifest = export.manifest
        /\ export'.volumes = export.volumes /\ export'.load = export.load
        /\ export'.payload = export.payload
    BY <1>1, <1>2, <2>1 DEF Exports
  <2>3. CacheOK' /\ PlaceOK'
    BY <1>1, <1>2, <2>2 DEF ExportInv, OnlineOK, CacheOK, PlaceOK, Scanning
  <2>4. Hashed' /\ Divided' /\ Copied'
    BY <1>1, <2>2 DEF ExportInv, Hashed, Divided, Copied, Scanning
  <2> QED
    BY <1>1, <1>2, <2>3, <2>4, ExportGoes
<1> QED
  BY <1>3, <1>4

LEMMA ExportHash == ASSUME ExportInv, Hash PROVE ExportInv'
<1> DEFINE p == Order[export.at]
<1>1. p \in Paths /\ export \in Exports /\ export.pc = "hash"
  BY OrderPaths DEF ExportInv, OnlineOK, Scanning, Hash
<1>2. disk[p].data \in Data /\ export.before \in Nat
  BY <1>1 DEF ExportInv, OnlineOK, Entries, Exports
<1>3. UNCHANGED <<parameters, disk, cache, bundle>>
  BY DEF Hash, OnlyExports
<1>4. export' = [export EXCEPT !.pc = "restat", !.before = export.before,
                               !.manifest[p] = disk[p].data]
  BY <1>1 DEF Hash, Exports
<1> QED
  BY <1>1, <1>2, <1>3, <1>4, ExportHashed

LEMMA ExportUnchanging == ASSUME ExportInv, Unchanging PROVE ExportInv'
<1> DEFINE p == Order[export.at]
<1>1. /\ p \in Paths /\ export \in Exports /\ export.pc = "restat"
      /\ export.at \in 1..Len(Order) /\ bundle = None
      /\ UNCHANGED <<parameters, disk, cache, bundle>>
  BY OrderPaths, Running DEF ExportInv, OnlineOK, Scanning, Unchanging, OnlyExports
<1>2. export.times \in [Paths -> Nat] /\ export.before \in Nat
  BY <1>1 DEF Exports
<1>3. /\ export' \in Exports /\ export'.at = export.at + 1
      /\ export'.pc = IF export.at = Len(Order) THEN "scanned" ELSE "stat"
      /\ export'.manifest = export.manifest
      /\ export'.times = [export.times EXCEPT ![p] = export.before]
      /\ export'.volumes = export.volumes /\ export'.load = export.load
      /\ export'.payload = export.payload
  <2> DEFINE pc == IF export.at = Len(Order) THEN "scanned" ELSE "stat"
             times == [export.times EXCEPT ![p] = export.before]
             at == export.at + 1
  <2>1. pc \in {"scanned", "stat"} /\ times \in [Paths -> Nat] /\ at \in 0..(Len(Order) + 1)
    BY <1>1, <1>2, OrderPaths
  <2>2. export' = [export EXCEPT !.pc = pc, !.at = at, !.times = times]
    BY <1>1 DEF Unchanging, Exports
  <2> HIDE DEF pc, times, at
  <2>3. /\ export' \in Exports /\ export'.at = at /\ export'.pc = pc
        /\ export'.manifest = export.manifest /\ export'.times = times
        /\ export'.volumes = export.volumes /\ export'.load = export.load
        /\ export'.payload = export.payload
    BY <1>1, <2>1, <2>2 DEF Exports
  <2> QED
    BY <2>3 DEF pc, times, at
<1>4. CacheOK' /\ PlaceOK'
  BY <1>1, <1>3, OrderPaths DEF ExportInv, OnlineOK, CacheOK, PlaceOK, Scanning
<1>5. Hashed'
  <2>1. \A i \in 1..export.at : export.manifest[Order[i]] \in Data
    <3>1. \A i \in 1..export.at : i = export.at \/ i \in 1..(export.at - 1)
      BY <1>1
    <3> QED
      BY <1>1, <3>1 DEF ExportInv, Hashed, Scanning
  <2>2. CASE export.at = Len(Order)
    <3>1. \A q \in Paths : export.manifest[q] \in Data
      BY <2>1, <2>2, OrderPaths
    <3>2. export.manifest \in [Paths -> Data]
      BY <1>1, <3>1 DEF Exports
    <3> QED
      BY <1>3, <2>2, <3>2 DEF Hashed, Scanning
  <2>3. CASE export.at # Len(Order)
    <3>1. export'.pc = "stat" /\ export'.at - 1 = export.at
      BY <1>1, <1>3, <2>3
    <3> QED
      BY <1>3, <2>1, <3>1 DEF Hashed
  <2> QED
    BY <2>2, <2>3
<1>6. Divided' /\ Copied'
  BY <1>1, <1>3 DEF ExportInv, Divided, Copied, Scanning
<1> QED
  BY <1>1, <1>4, <1>5, <1>6, ExportGoes

LEMMA ExportSaveCache == ASSUME ExportInv, SaveCache PROVE ExportInv'
<1>1. /\ export \in Exports /\ export.pc = "scanned" /\ bundle = None
      /\ UNCHANGED <<parameters, disk, bundle>>
      /\ cache' = [p \in Paths |-> [data |-> export.manifest[p], time |-> export.times[p]]]
      /\ export.manifest \in [Paths -> Data]
  BY Running DEF ExportInv, OnlineOK, Hashed, SaveCache, OnlyExports
<1>2. /\ export' \in Exports /\ export'.pc = "partition" /\ export'.at = 1
      /\ export'.manifest = export.manifest
      /\ export'.volumes = export.volumes /\ export'.load = export.load
      /\ export'.payload = export.payload
  <2>1. 1 \in 0..(Len(Order) + 1) /\ export' = [export EXCEPT !.pc = "partition", !.at = 1]
    BY OrderPaths DEF SaveCache
  <2> QED
    BY <1>1, <2>1 DEF Exports
<1>3. CacheOK'
  <2>1. \A p \in Paths : export.manifest[p] \in Data /\ export.times[p] \in Nat
    BY <1>1 DEF Exports
  <2> QED
    BY <1>1, <2>1 DEF CacheOK, Entries
<1>4. PlaceOK' /\ Hashed' /\ Copied'
  BY <1>1, <1>2 DEF ExportInv, PlaceOK, Hashed, Copied, Scanning
<1>5. Divided'
  <2>1. ParametersOK /\ UNCHANGED <<size, limit, base>>
    BY <1>1 DEF ExportInv, parameters
  <2>2. export'.volumes = <<{}>> /\ export'.load = 0
    BY <1>1, <1>2 DEF ExportInv, Divided
  <2>3. /\ Divides(<<{}>>, export.manifest, base, 1, size, limit)
        /\ TotalSize(<<{}>>[Len(<<{}>>)], size) = 0
    BY <2>1, NothingDivided
  <2> QED
    BY <1>2, <2>1, <2>2, <2>3 DEF Divided, Scanning
<1> QED
  BY <1>1, <1>3, <1>4, <1>5, ExportGoes

(* The division goes on to the next file. *)
LEMMA ExportDivided ==
    ASSUME ExportInv, NEW p \in Paths, Divide(p),
           NEW W \in Seq(SUBSET Paths), NEW load \in Nat,
           Divides(W, export.manifest, base, export.at + 1, size, limit),
           load = TotalSize(W[Len(W)], size),
           export' = [export EXCEPT !.at = export.at + 1, !.volumes = W, !.load = load]
    PROVE  ExportInv'
<1>1. /\ export \in Exports /\ export.pc = "partition" /\ bundle = None
      /\ UNCHANGED <<parameters, disk, cache, bundle>> /\ UNCHANGED <<size, limit, base>>
      /\ export.at \in 1..Len(Order)
  BY Running, OrderPaths DEF ExportInv, OnlineOK, Exports, Divide, OnlyExports, parameters
<1>2. /\ export' \in Exports /\ export'.pc = "partition" /\ export'.at = export.at + 1
      /\ export'.manifest = export.manifest /\ export'.volumes = W /\ export'.load = load
      /\ export'.payload = export.payload
  <2>1. export.at + 1 \in 0..(Len(Order) + 1)
    BY <1>1, OrderPaths
  <2> QED
    BY <1>1, <2>1 DEF Exports
<1>3. CacheOK' /\ PlaceOK'
  BY <1>1, <1>2 DEF ExportInv, OnlineOK, CacheOK, PlaceOK, Scanning
<1>4. Hashed' /\ Copied'
  BY <1>1, <1>2 DEF ExportInv, Hashed, Copied, Scanning
<1>5. Divided'
  BY <1>1, <1>2 DEF Divided, Scanning
<1> QED
  BY <1>1, <1>3, <1>4, <1>5, ExportGoes

LEMMA Dividing ==
    ASSUME ExportInv, NEW p \in Paths, Divide(p)
    PROVE  /\ export.at \in 1..Len(Order) /\ p = Order[export.at] /\ ParametersOK
           /\ Divides(export.volumes, export.manifest, base, export.at, size, limit)
           /\ export.load = TotalSize(export.volumes[Len(export.volumes)], size)
           /\ export.volumes \in Seq(SUBSET Paths) /\ export.load \in Nat
           /\ export \in Exports
           /\ Differs(p) <=> Differing(export.manifest, base, export.at)
  BY OrderPaths DEF ExportInv, OnlineOK, Exports, Divided, Divide, Differs, Differing

LEMMA ExportPassOver == ASSUME ExportInv, NEW p \in Paths, PassOver(p) PROVE ExportInv'
<1>1. /\ Divide(p) /\ ~Differs(p) /\ export' = [export EXCEPT !.at = export.at + 1]
  BY DEF PassOver
<1>2. Divides(export.volumes, export.manifest, base, export.at + 1, size, limit)
  BY <1>1, Dividing, PassDivides
<1>3. export' = [export EXCEPT !.at = export.at + 1, !.volumes = export.volumes,
                               !.load = export.load]
  BY <1>1, Dividing DEF Exports
<1> QED
  BY <1>1, <1>2, <1>3, Dividing, ExportDivided

LEMMA ExportPackFile == ASSUME ExportInv, NEW p \in Paths, PackFile(p) PROVE ExportInv'
<1> DEFINE W == Pack(p).volumes
           load == Pack(p).load
<1>1. /\ Divide(p) /\ Differs(p) /\ ~TooLarge(p)
      /\ export' = [export EXCEPT !.at = export.at + 1, !.volumes = W, !.load = load]
  BY DEF PackFile
<1>2. PICK n \in 1..Len(Order) : n = export.at
  BY <1>1, Dividing
<1>3. PICK V : V = export.volumes
  OBVIOUS
<1>4. PICK manifest : manifest = export.manifest
  OBVIOUS
<1>5. /\ Divides(V, manifest, base, n, size, limit) /\ Differing(manifest, base, n)
      /\ ParametersOK /\ ~TooLarge(Order[n]) /\ export.load = TotalSize(V[Len(V)], size)
      /\ p = Order[n]
  BY <1>1, <1>2, <1>3, <1>4, Dividing
<1>6. /\ Divides(W, manifest, base, n + 1, size, limit)
      /\ load = TotalSize(W[Len(W)], size) /\ load \in Nat
  BY <1>3, <1>5, PackDivides
<1> HIDE DEF W, load
<1>7. W \in Seq(SUBSET Paths)
  BY <1>6 DEF Divides
<1> QED
  BY <1>1, <1>2, <1>4, <1>6, <1>7, ExportDivided

LEMMA ExportStartCopy == ASSUME ExportInv, StartCopy PROVE ExportInv'
<1>1. /\ export \in Exports /\ export.pc = "partition" /\ bundle = None
      /\ UNCHANGED <<parameters, disk, cache, bundle>> /\ UNCHANGED <<size, limit, base>>
      /\ export.at = Len(Order) + 1
  BY Running, OrderPaths DEF ExportInv, OnlineOK, Exports, StartCopy, OnlyExports, parameters
<1>2. /\ export' \in Exports /\ export'.pc = "copy" /\ export'.at = 1
      /\ export'.manifest = export.manifest /\ export'.volumes = export.volumes
      /\ export'.payload = export.payload
  <2>1. 1 \in 0..(Len(Order) + 1) /\ export' = [export EXCEPT !.pc = "copy", !.at = 1]
    BY OrderPaths DEF StartCopy
  <2> QED
    BY <1>1, <2>1 DEF Exports
<1>3. CacheOK' /\ PlaceOK'
  BY <1>1, <1>2 DEF ExportInv, OnlineOK, CacheOK, PlaceOK, Scanning
<1>4. Hashed'
  BY <1>1, <1>2 DEF ExportInv, Hashed, Scanning
<1>5. Divided'
  BY <1>1, <1>2 DEF ExportInv, Divided, Scanning
<1>6. Copied'
  <2>1. export'.payload = Nothing
    BY <1>1, <1>2 DEF ExportInv, Copied
  <2>2. \A i \in DOMAIN Order : export'.payload[Order[i]] = None /\ ~(i < 1)
    BY <2>1, OrderPaths DEF Nothing
  <2> QED
    BY <1>2, <2>2 DEF Copied
<1> QED
  BY <1>1, <1>3, <1>4, <1>5, <1>6, ExportGoes

(* The copying goes on to the next file. *)
LEMMA ExportCopied ==
    ASSUME ExportInv, NEW p \in Paths, Copy(p), NEW payload \in [Paths -> Data \cup {None}],
           payload[p] = IF Carries(export.volumes, p) THEN export.manifest[p] ELSE None,
           \A q \in Paths : q # p => payload[q] = export.payload[q],
           export' = [export EXCEPT !.at = export.at + 1, !.payload = payload]
    PROVE  ExportInv'
<1>1. /\ export \in Exports /\ export.pc = "copy" /\ bundle = None
      /\ UNCHANGED <<parameters, disk, cache, bundle>> /\ UNCHANGED <<size, limit, base>>
      /\ export.at \in 1..Len(Order) /\ p = Order[export.at]
  BY Running, OrderPaths DEF ExportInv, OnlineOK, Exports, Copy, OnlyExports, parameters
<1>2. /\ export' \in Exports /\ export'.pc = "copy" /\ export'.at = export.at + 1
      /\ export'.manifest = export.manifest /\ export'.volumes = export.volumes
      /\ export'.payload = payload
  <2>1. export.at + 1 \in 0..(Len(Order) + 1)
    BY <1>1, OrderPaths
  <2> QED
    BY <1>1, <2>1 DEF Exports
<1>3. CacheOK' /\ PlaceOK'
  BY <1>1, <1>2 DEF ExportInv, OnlineOK, CacheOK, PlaceOK, Scanning
<1>4. Hashed' /\ Divided'
  <2>1. Hashed'
    BY <1>1, <1>2 DEF ExportInv, Hashed, Scanning
  <2>2. Divided'
    BY <1>1, <1>2 DEF ExportInv, Divided, Scanning
  <2> QED
    BY <2>1, <2>2
<1>5. Copied'
  <2> DEFINE is(i) == IF Carries(export.volumes, Order[i]) THEN export.manifest[Order[i]] ELSE None
  <2>1. ASSUME NEW i \in DOMAIN Order
        PROVE  payload[Order[i]] = IF i < export.at + 1 THEN is(i) ELSE None
    <3>1. i \in 1..Len(Order) /\ Order[i] \in Paths
      BY OrderPaths
    <3>2. export.payload[Order[i]] = IF i < export.at THEN is(i) ELSE None
      BY <1>1 DEF ExportInv, Copied
    <3>3. CASE i = export.at
      BY <1>1, <3>3
    <3>4. CASE i # export.at
      <4>1. Order[i] # p /\ (i < export.at + 1 <=> i < export.at)
        BY <1>1, <3>1, <3>4, OrderPaths
      <4> QED
        BY <3>1, <3>2, <4>1
    <3> QED
      BY <3>3, <3>4
  <2> QED
    BY <1>2, <2>1 DEF Copied
<1> QED
  BY <1>1, <1>3, <1>4, <1>5, ExportGoes

LEMMA Copying ==
    ASSUME ExportInv, NEW p \in Paths, Copy(p)
    PROVE  /\ export \in Exports /\ export.pc = "copy"
           /\ export.payload \in [Paths -> Data \cup {None}] /\ export.payload[p] = None
           /\ UNCHANGED <<parameters, disk, cache, bundle>>
<1>1. export \in Exports /\ export.pc = "copy" /\ export.at \in DOMAIN Order /\ p = Order[export.at]
  BY OrderPaths DEF ExportInv, OnlineOK, Exports, Copy
<1>2. export.payload[p] = None
  BY <1>1, OrderPaths DEF ExportInv, Copied
<1> QED
  BY <1>1, <1>2 DEF Exports, Copy, OnlyExports

LEMMA ExportNotListed == ASSUME ExportInv, NEW p \in Paths, NotListed(p) PROVE ExportInv'
<1>1. Copy(p) /\ ~Carries(export.volumes, p) /\ export' = [export EXCEPT !.at = export.at + 1]
  BY DEF NotListed, Carries
<1>2. export' = [export EXCEPT !.at = export.at + 1, !.payload = export.payload]
  BY <1>1, Copying DEF Exports
<1> QED
  BY <1>1, <1>2, Copying, ExportCopied

(* What is kept of a copy is what the manifest says. *)
LEMMA ExportCopyFile == ASSUME ExportInv, NEW p \in Paths, CopyFile(p) PROVE ExportInv'
<1>1. Copy(p) /\ Carries(export.volumes, p)
  BY DEF CopyFile, Carries
<1>2. PICK data \in {disk[p].data, Bad} :
        export' = IF CopyVerified(p, data)
                  THEN [export EXCEPT !.at = @ + 1, !.payload[p] = data] ELSE NoExport
  BY DEF CopyFile
<1>3. CASE CopyVerified(p, data)
  <2> DEFINE payload == [export.payload EXCEPT ![p] = data]
  <2>1. data \in Data /\ data = export.manifest[p]
    BY <1>2, <1>3 DEF ExportInv, OnlineOK, Entries, Data, CopyVerified
  <2>2. /\ payload \in [Paths -> Data \cup {None}] /\ payload[p] = export.manifest[p]
        /\ \A q \in Paths : q # p => payload[q] = export.payload[q]
    BY <1>1, <2>1, Copying
  <2>3. export' = [export EXCEPT !.at = export.at + 1, !.payload = payload]
    BY <1>1, <1>2, <1>3, Copying DEF Exports
  <2> HIDE DEF payload
  <2> QED
    BY <1>1, <2>2, <2>3, ExportCopied
<1>4. CASE ~CopyVerified(p, data)
  BY <1>1, <1>2, <1>4, Copying, ExportFails
<1> QED
  BY <1>3, <1>4

LEMMA ExportFinish == ASSUME ExportInv, FinishBundle PROVE ExportInv'
<1>1. /\ export \in Exports /\ export.pc = "copy" /\ export.at = Len(Order) + 1
      /\ UNCHANGED <<parameters, disk, cache>> /\ UNCHANGED <<size, limit, base>>
      /\ bundle' = [manifest |-> export.manifest, payload |-> export.payload,
                    volumes |-> export.volumes]
      /\ export' = NoExport
  BY OrderPaths DEF ExportInv, OnlineOK, Exports, FinishBundle, OnlyExports, parameters
<1>2. /\ bundle'.manifest = export.manifest /\ bundle'.payload = export.payload
      /\ bundle'.volumes = export.volumes
      /\ export.manifest \in [Paths -> Data]
      /\ Divides(export.volumes, export.manifest, base, Len(Order) + 1, size, limit)
  BY <1>1 DEF ExportInv, Hashed, Divided
<1>3. bundle' \in Bundles
  BY <1>1, <1>2 DEF Bundles, Exports
<1>4. \A p \in Paths : export.payload[p] = IF Carries(export.volumes, p)
                                          THEN export.manifest[p] ELSE None
  <2> SUFFICES ASSUME NEW p \in Paths
               PROVE  export.payload[p] = IF Carries(export.volumes, p)
                                          THEN export.manifest[p] ELSE None
    OBVIOUS
  <2>1. PICK i \in 1..Len(Order) : p = Order[i]
    BY OrderPaths
  <2>2. i \in DOMAIN Order /\ i < export.at
    BY <1>1, <2>1, OrderPaths
  <2> QED
    BY <1>1, <2>1, <2>2 DEF ExportInv, Copied
<1>5. Finished'
  BY <1>1, <1>2, <1>3, <1>4, NoExportType DEF Finished
<1>6. disk' \in [Paths -> Entries] /\ CacheOK'
  BY <1>1 DEF ExportInv, OnlineOK, CacheOK
<1> QED
  BY <1>1, <1>5, <1>6, ExportEnds

LEMMA ExportInit == Init => ExportInv
<1> SUFFICES ASSUME Init PROVE ExportInv
  OBVIOUS
<1>1. PICK data \in Contents : /\ disk = [p \in Paths |-> [data |-> data, time |-> 1]]
                               /\ cache \in {Nothing, disk}
  BY DEF Init
<1>2. export = NoExport /\ bundle = None /\ ParametersOK
  BY DEF Init, ParametersOK
<1>3. disk \in [Paths -> Entries]
  BY <1>1 DEF Entries, Data
<1>4. cache \in [Paths -> Entries \cup {None}]
  BY <1>1, <1>3 DEF Nothing
<1>5. OnlineOK
  BY <1>2, <1>3, <1>4, NoExportType DEF OnlineOK, Scanning
<1>6. Hashed /\ Divided /\ Copied /\ Finished
  BY <1>2, NoExportType DEF Hashed, Divided, Copied, Finished, Scanning
<1> QED
  BY <1>2, <1>5, <1>6 DEF ExportInv

LEMMA ExportNext == ExportInv /\ [Next]_vars => ExportInv'
<1> SUFFICES ASSUME ExportInv, [Next]_vars PROVE ExportInv'
  OBVIOUS
<1>1. disk \in [Paths -> Entries]
  BY DEF ExportInv, OnlineOK
<1>2. CASE Changing \/ KillExport
  BY <1>2, ExportFails DEF Changing, KillExport, OnlyExports
<1>3. ASSUME NEW p \in Paths, RefuseFile(p) PROVE ExportInv'
  BY <1>3, ExportFails DEF RefuseFile, Divide, OnlyExports
<1>4. CASE Stage \/ KillStage
  BY <1>1, <1>4, ExportRests DEF Stage, StartStage, Refuse, AlreadyStaged, CopyVolume, DropCopy,
     RenameCopy, FinishStage, KillStage, OnlyStages, online
<1>5. ASSUME NEW p \in Paths, Write(p) PROVE ExportInv'
  <2>1. PICK data \in Contents :
          disk' = [disk EXCEPT ![p] = [data |-> data, time |-> disk[p].time + 1]]
    BY <1>5 DEF Write
  <2>2. [data |-> data, time |-> disk[p].time + 1] \in Entries
    BY <1>1 DEF Entries, Data
  <2>3. disk' \in [Paths -> Entries]
    BY <1>1, <2>1, <2>2
  <2> QED
    BY <1>5, <2>3, ExportRests DEF Write
<1>6. ASSUME NEW p \in Paths, Decay(p) PROVE ExportInv'
  <2>1. disk' = [disk EXCEPT ![p] = [disk[p] EXCEPT !.data = Bad]]
    BY <1>6 DEF Decay
  <2>2. [disk[p] EXCEPT !.data = Bad] \in Entries
    BY <1>1 DEF Entries, Data
  <2>3. disk' \in [Paths -> Entries]
    BY <1>1, <2>1, <2>2
  <2> QED
    BY <1>6, <2>3, ExportRests DEF Decay
<1>7. ASSUME NEW p \in Paths, NEW v \in DOMAIN staged, DecayStaged(v, p) PROVE ExportInv'
  BY <1>1, <1>7, ExportRests DEF DecayStaged, online
<1>8. CASE UNCHANGED vars
  BY <1>1, <1>8, ExportRests DEF vars, online
<1> QED
  BY <1>2, <1>3, <1>4, <1>5, <1>6, <1>7, <1>8, ExportStart, ExportStat, ExportHash,
     ExportUnchanging, ExportSaveCache, ExportStartCopy, ExportFinish, ExportPassOver,
     ExportPackFile, ExportNotListed, ExportCopyFile DEF Next, Export
------------------------------------------------------------------------------
(* When the hashes were taken *)

(* The content d was read when the file p had the time t, or later. *)
ReadAt(p, d, t) == t <= disk[p].time /\ (decays = 0 /\ t = disk[p].time => d = disk[p].data)

CacheFresh == \A p \in Paths : cache[p] # None => ReadAt(p, cache[p].data, cache[p].time)

ManifestFresh == \A p \in Paths : ReadAt(p, export.manifest[p], export.times[p])

FileFresh ==
    /\ export.pc \in {"hash", "restat"} => export.before <= disk[Order[export.at]].time
    /\ export.pc = "restat" =>
          ReadAt(Order[export.at], export.manifest[Order[export.at]], export.before)

Recorded ==
    /\ \A p \in Paths : disk[p].time > 0
    /\ decays \in Nat
    /\ CacheFresh /\ ManifestFresh /\ FileFresh

ScanInv == ExportInv /\ Recorded

LEMMA RecordedInit == Init => Recorded
<1> SUFFICES ASSUME Init PROVE Recorded
  OBVIOUS
<1>1. PICK data \in Contents : /\ disk = [p \in Paths |-> [data |-> data, time |-> 1]]
                               /\ cache \in {Nothing, disk}
  BY DEF Init
<1>2. export = NoExport /\ decays = 0
  BY DEF Init
<1>3. \A p \in Paths : disk[p].time = 1
  BY <1>1
<1>4. CacheFresh
  <2>1. CASE cache = Nothing
    BY <2>1 DEF Nothing, CacheFresh
  <2>2. CASE cache = disk
    BY <1>3, <2>2 DEF ReadAt, CacheFresh
  <2> QED
    BY <1>1, <2>1, <2>2
<1>5. ManifestFresh
  BY <1>2, <1>3, NoExportType DEF ReadAt, ManifestFresh
<1> QED
  BY <1>2, <1>3, <1>4, <1>5, NoExportType DEF Recorded, FileFresh

(* An export that begins or ends records nothing. *)
LEMMA RecordedEnds ==
    ASSUME ScanInv, UNCHANGED <<disk, cache, decays>>, export'.pc \in {"idle", "stat"},
           \A p \in Paths : export'.times[p] = 0
    PROVE  Recorded'
<1>1. \A p \in Paths : disk[p].time \in Nat /\ disk[p].time > 0
  BY DEF ScanInv, ExportInv, OnlineOK, Recorded, Entries
<1>2. ManifestFresh'
  BY <1>1 DEF ManifestFresh, ReadAt
<1>3. CacheFresh'
  BY DEF ScanInv, Recorded, CacheFresh, ReadAt
<1> QED
  BY <1>2, <1>3 DEF ScanInv, Recorded, FileFresh

(* The loops after the scan record nothing new. *)
LEMMA RecordedStays ==
    ASSUME ScanInv, UNCHANGED <<disk, cache, decays>>, export'.pc \notin {"hash", "restat"},
           export'.manifest = export.manifest, export'.times = export.times
    PROVE  Recorded'
  BY DEF ScanInv, Recorded, FileFresh, ManifestFresh, CacheFresh, ReadAt

(* The scan goes on with a hash for its file. *)
LEMMA RecordedHashed ==
    ASSUME ScanInv, export.pc \in {"stat", "hash"}, UNCHANGED <<disk, cache, decays>>,
           NEW before \in Nat, NEW d \in Data, ReadAt(Order[export.at], d, before),
           ReadAt(Order[export.at], d, disk[Order[export.at]].time),
           export' = [export EXCEPT !.pc = "restat", !.before = before, !.manifest[Order[export.at]] = d]
    PROVE  Recorded'
<1> DEFINE p == Order[export.at]
<1>1. p \in Paths /\ export \in Exports
  BY OrderPaths DEF ScanInv, ExportInv, OnlineOK, Scanning
<1>2. export.manifest \in [Paths -> Data \cup {None}]
  BY <1>1 DEF Exports
<1>3. /\ export'.pc = "restat" /\ export'.at = export.at
      /\ export'.before = before /\ export'.times = export.times
      /\ export'.manifest = [export.manifest EXCEPT ![p] = d]
  BY <1>1 DEF Exports
<1>4. export'.manifest[p] = d /\ \A q \in Paths : q # p => export'.manifest[q] = export.manifest[q]
  BY <1>1, <1>2, <1>3
<1>5. ManifestFresh'
  <2>1. ASSUME NEW q \in Paths, q # p PROVE ReadAt(q, export.manifest[q], export.times[q])'
    BY <1>3, <1>4, <2>1 DEF ScanInv, Recorded, ManifestFresh, ReadAt
  <2>2. ReadAt(p, d, export.times[p])
    BY <1>1 DEF ScanInv, Recorded, ManifestFresh, ReadAt
  <2>3. (ReadAt(p, d, export.times[p]))' <=> ReadAt(p, d, export.times[p])
    BY <1>3 DEF ReadAt
  <2> QED
    BY <1>3, <1>4, <2>1, <2>2 DEF ReadAt, ManifestFresh
<1>6. CacheFresh'
  BY DEF ScanInv, Recorded, CacheFresh, ReadAt
<1>7. FileFresh'
  BY <1>3, <1>4 DEF ReadAt, FileFresh
<1> QED
  BY <1>5, <1>6, <1>7 DEF ScanInv, Recorded

LEMMA RecordedStat == ASSUME ScanInv, Stat PROVE Recorded'
<1> DEFINE p == Order[export.at]
<1>1. p \in Paths /\ export \in Exports /\ export.pc = "stat"
  BY OrderPaths DEF ScanInv, ExportInv, OnlineOK, Scanning, Stat
<1>2. /\ disk[p].time \in Nat /\ UNCHANGED <<disk, cache, decays>>
      /\ cache[p] \in Entries \cup {None}
  BY <1>1 DEF ScanInv, ExportInv, OnlineOK, Entries, Stat, OnlyExports, bounds
<1>3. CASE Cached(p)
  <2>1. cache[p] # None /\ cache[p].time = disk[p].time
    BY <1>3 DEF Cached
  <2>2. ReadAt(p, cache[p].data, disk[p].time) /\ cache[p].data \in Data
    BY <1>1, <1>2, <2>1 DEF ScanInv, Recorded, CacheFresh, Entries
  <2>3. export' = [export EXCEPT !.pc = "restat", !.before = disk[p].time,
                                 !.manifest[p] = cache[p].data]
    BY <1>3 DEF Stat, Digest
  <2> QED
    BY <1>1, <1>2, <2>2, <2>3, RecordedHashed
<1>4. CASE ~Cached(p)
  <2>1. export' = [export EXCEPT !.pc = "hash", !.before = disk[p].time]
    BY <1>4 DEF Stat
  <2>2. /\ export'.pc = "hash" /\ export'.at = export.at /\ export'.before = disk[p].time
        /\ export'.manifest = export.manifest /\ export'.times = export.times
    BY <1>1, <2>1 DEF Exports
  <2> QED
    BY <1>2, <2>2 DEF ScanInv, Recorded, ReadAt, CacheFresh, ManifestFresh, FileFresh
<1> QED
  BY <1>3, <1>4

LEMMA RecordedHash == ASSUME ScanInv, Hash PROVE Recorded'
<1> DEFINE p == Order[export.at]
<1>1. p \in Paths /\ export \in Exports /\ export.pc = "hash"
  BY OrderPaths DEF ScanInv, ExportInv, OnlineOK, Scanning, Hash
<1>2. /\ disk[p].data \in Data /\ disk[p].time \in Nat /\ export.before \in Nat
      /\ export.before <= disk[p].time
  BY <1>1 DEF ScanInv, ExportInv, OnlineOK, Entries, Exports, Recorded, FileFresh
<1>3. ReadAt(p, disk[p].data, export.before) /\ ReadAt(p, disk[p].data, disk[p].time)
  BY <1>2 DEF ReadAt
<1>4. UNCHANGED <<disk, cache, decays>>
  BY DEF Hash, OnlyExports, bounds
<1>5. export' = [export EXCEPT !.pc = "restat", !.before = export.before, !.manifest[p] = disk[p].data]
  BY <1>1 DEF Hash, Exports
<1> QED
  BY <1>1, <1>2, <1>3, <1>4, <1>5, RecordedHashed

(* The file is what it was before it was hashed: its hash and its time are kept. *)
LEMMA RecordedUnchanging == ASSUME ScanInv, Unchanging PROVE Recorded'
<1> DEFINE p == Order[export.at]
<1>1. /\ p \in Paths /\ export \in Exports /\ export.pc = "restat"
      /\ UNCHANGED <<disk, cache, decays>>
  BY OrderPaths DEF ScanInv, ExportInv, OnlineOK, Scanning, Unchanging, OnlyExports, bounds
<1>2. export.times \in [Paths -> Nat] /\ export.before \in Nat
  BY <1>1 DEF Exports
<1>3. /\ export'.pc \notin {"hash", "restat"} /\ export'.manifest = export.manifest
      /\ export'.times = [export.times EXCEPT ![p] = export.before]
  BY <1>1 DEF Unchanging, Exports
<1>4. ManifestFresh'
  BY <1>1, <1>2, <1>3 DEF ScanInv, Recorded, ManifestFresh, FileFresh, ReadAt
<1>5. CacheFresh'
  BY <1>1 DEF ScanInv, Recorded, CacheFresh, ReadAt
<1> QED
  BY <1>1, <1>3, <1>4, <1>5 DEF ScanInv, Recorded, FileFresh

LEMMA RecordedSaveCache == ASSUME ScanInv, SaveCache PROVE Recorded'
<1>1. /\ export \in Exports /\ UNCHANGED <<disk, decays>>
      /\ cache' = [p \in Paths |-> [data |-> export.manifest[p], time |-> export.times[p]]]
      /\ export' = [export EXCEPT !.pc = "partition", !.at = 1]
  BY DEF ScanInv, ExportInv, OnlineOK, SaveCache, OnlyExports, bounds
<1>2. /\ export'.pc = "partition" /\ export'.manifest = export.manifest
      /\ export'.times = export.times
  BY <1>1 DEF Exports
<1>3. CacheFresh'
  BY <1>1 DEF ScanInv, Recorded, CacheFresh, ManifestFresh, ReadAt
<1>4. ManifestFresh'
  BY <1>1, <1>2 DEF ScanInv, Recorded, ManifestFresh, ReadAt
<1> QED
  BY <1>1, <1>2, <1>3, <1>4 DEF ScanInv, Recorded, FileFresh

(* A file that is replaced is of a later time than any that is recorded. *)
LEMMA RecordedWrite == ASSUME ScanInv, NEW p \in Paths, Write(p) PROVE Recorded'
<1>1. PICK data \in Contents : disk' = [disk EXCEPT ![p] = [data |-> data, time |-> disk[p].time + 1]]
  BY DEF Write
<1>2. UNCHANGED <<cache, export, decays>> /\ disk \in [Paths -> Entries]
  BY DEF Write, ScanInv, ExportInv, OnlineOK
<1>3. \A q \in Paths : disk[q].time \in Nat /\ disk[q].time > 0
  BY <1>2 DEF ScanInv, Recorded, Entries
<1>4. /\ disk'[p].time = disk[p].time + 1
      /\ \A q \in Paths : q # p => disk'[q] = disk[q]
  BY <1>1, <1>2
<1>5. ASSUME NEW q \in Paths, NEW d, NEW t \in Nat, ReadAt(q, d, t)
      PROVE  ReadAt(q, d, t)' /\ (t <= disk[q].time => t <= disk'[q].time)
  BY <1>2, <1>3, <1>4, <1>5 DEF ReadAt
<1>6. ManifestFresh'
  <2>1. \A q \in Paths : export.times[q] \in Nat
    BY DEF ScanInv, ExportInv, OnlineOK, Exports
  <2> QED
    BY <1>2, <1>5, <2>1 DEF ScanInv, Recorded, ManifestFresh, ReadAt
<1>7. CacheFresh'
  <2>1. \A q \in Paths : cache[q] # None => cache[q].time \in Nat
    BY DEF ScanInv, ExportInv, OnlineOK, Entries
  <2> QED
    BY <1>2, <1>5, <2>1 DEF ScanInv, Recorded, CacheFresh, ReadAt
<1>8. export.pc \in {"hash", "restat"} => Order[export.at] \in Paths /\ export.before \in Nat
  BY OrderPaths DEF ScanInv, ExportInv, OnlineOK, Scanning, Exports
<1>9. export.pc \in {"hash", "restat"} => export.before <= disk'[Order[export.at]].time
  <2> SUFFICES ASSUME export.pc \in {"hash", "restat"} PROVE export.before <= disk'[Order[export.at]].time
    OBVIOUS
  <2>1. PICK q \in Paths : q = Order[export.at]
    BY <1>8
  <2>2. export.before <= disk[q].time
    BY <2>1 DEF ScanInv, Recorded, FileFresh
  <2> QED
    BY <1>3, <1>4, <1>8, <2>1, <2>2
<1>10. export.pc = "restat" =>
          ReadAt(Order[export.at], export.manifest[Order[export.at]], export.before)'
  <2> SUFFICES ASSUME export.pc = "restat"
               PROVE  ReadAt(Order[export.at], export.manifest[Order[export.at]], export.before)'
    OBVIOUS
  <2>1. PICK q \in Paths : q = Order[export.at]
    BY <1>8
  <2>2. PICK t \in Nat : t = export.before
    BY <1>8
  <2>3. PICK d : d = export.manifest[q]
    OBVIOUS
  <2>4. ReadAt(q, d, t)
    BY <2>1, <2>2, <2>3 DEF ScanInv, Recorded, FileFresh
  <2>5. ReadAt(q, d, t)'
    BY <1>5, <2>4
  <2> QED
    BY <1>2, <2>1, <2>2, <2>3, <2>5 DEF ReadAt
<1>11. FileFresh'
  BY <1>2, <1>9, <1>10 DEF FileFresh
<1>12. \A q \in Paths : disk'[q].time > 0
  BY <1>3, <1>4
<1> QED
  BY <1>2, <1>6, <1>7, <1>11, <1>12 DEF ScanInv, Recorded

(* A file that decays keeps its time, and takes all promises about contents away. *)
LEMMA RecordedDecay ==
    ASSUME ScanInv, UNCHANGED <<cache, export>>, decays' = decays + 1,
           \A p \in Paths : disk'[p].time = disk[p].time
    PROVE  Recorded'
<1>1. decays' # 0 /\ decays' \in Nat
  BY DEF ScanInv, Recorded
<1>2. export.pc \in {"hash", "restat"} => Order[export.at] \in Paths
  BY OrderPaths DEF ScanInv, ExportInv, OnlineOK, Scanning
<1> QED
  BY <1>1, <1>2 DEF ScanInv, Recorded, CacheFresh, ManifestFresh, FileFresh, ReadAt

LEMMA ScanNext == ScanInv /\ [Next]_vars => ScanInv'
<1> SUFFICES ASSUME ScanInv, [Next]_vars PROVE Recorded'
  BY ExportNext DEF ScanInv
<1>0. export \in Exports
  BY DEF ScanInv, ExportInv, OnlineOK
<1>1. CASE UNCHANGED <<disk, cache, export, decays>>
  BY <1>1 DEF ScanInv, Recorded, CacheFresh, ManifestFresh, FileFresh, ReadAt
<1>2. CASE Changing \/ FinishBundle \/ KillExport
  BY <1>2, NoExportType, RecordedEnds
     DEF Changing, FinishBundle, KillExport, OnlyExports, bounds
<1>3. CASE StartExport
  <2>1. PICK rehash \in BOOLEAN :
          export' = [NoExport EXCEPT !.pc = "stat", !.at = 1, !.rehash = rehash]
    BY <1>3 DEF StartExport
  <2>2. export'.pc = "stat" /\ export'.times = NoExport.times
    BY <2>1, NoExportType DEF Exports
  <2> QED
    BY <1>3, <2>2, NoExportType, RecordedEnds DEF StartExport, bounds
<1>4. CASE StartCopy
  BY <1>0, <1>4, RecordedStays DEF StartCopy, Exports, OnlyExports, bounds
<1>5. ASSUME NEW p \in Paths, PassOver(p) \/ NotListed(p) PROVE Recorded'
  <2>1. /\ export.pc \in {"partition", "copy"} /\ UNCHANGED <<disk, cache, decays>>
        /\ export' = [export EXCEPT !.at = export.at + 1]
    BY <1>5 DEF PassOver, NotListed, Divide, Copy, OnlyExports, bounds
  <2> QED
    BY <1>0, <2>1, RecordedStays DEF Exports
<1>6. ASSUME NEW p \in Paths, RefuseFile(p) PROVE Recorded'
  BY <1>6, NoExportType, RecordedEnds DEF RefuseFile, Divide, OnlyExports, bounds
<1>7. ASSUME NEW p \in Paths, PackFile(p) PROVE Recorded'
  <2>1. /\ export.pc = "partition" /\ UNCHANGED <<disk, cache, decays>>
        /\ export' = [export EXCEPT !.at = export.at + 1, !.volumes = Pack(p).volumes,
                                    !.load = Pack(p).load]
    BY <1>7 DEF PackFile, Divide, OnlyExports, bounds
  <2> QED
    BY <1>0, <2>1, RecordedStays DEF Exports
<1>8. ASSUME NEW p \in Paths, CopyFile(p) PROVE Recorded'
  <2>1. export.pc = "copy" /\ UNCHANGED <<disk, cache, decays>>
    BY <1>8 DEF CopyFile, Copy, OnlyExports, bounds
  <2>2. PICK data \in {disk[p].data, Bad} :
          export' = IF CopyVerified(p, data)
                    THEN [export EXCEPT !.at = @ + 1, !.payload[p] = data] ELSE NoExport
    BY <1>8 DEF CopyFile
  <2>3. CASE CopyVerified(p, data)
    <3>1. /\ export'.pc = "copy" /\ export'.manifest = export.manifest
          /\ export'.times = export.times
      BY <1>0, <2>1, <2>2, <2>3 DEF Exports
    <3> QED
      BY <2>1, <3>1, RecordedStays
  <2>4. CASE ~CopyVerified(p, data)
    BY <2>1, <2>2, <2>4, NoExportType, RecordedEnds
  <2> QED
    BY <2>3, <2>4
<1>9. CASE Stage \/ KillStage
  BY <1>1, <1>9 DEF Stage, StartStage, Refuse, AlreadyStaged, CopyVolume, DropCopy, RenameCopy,
                   FinishStage, KillStage, OnlyStages, online, bounds
<1>10. ASSUME NEW p \in Paths, Decay(p) PROVE Recorded'
  <2>1. disk' = [disk EXCEPT ![p] = [disk[p] EXCEPT !.data = Bad]] /\ disk \in [Paths -> Entries]
    BY <1>10 DEF Decay, ScanInv, ExportInv, OnlineOK
  <2>2. [disk[p] EXCEPT !.data = Bad].time = disk[p].time
    BY <2>1 DEF Entries
  <2>3. \A q \in Paths : disk'[q].time = disk[q].time
    BY <2>1, <2>2
  <2> QED
    BY <1>10, <2>3, RecordedDecay DEF Decay
<1>11. ASSUME NEW p \in Paths, NEW v, DecayStaged(v, p) PROVE Recorded'
  <2>1. UNCHANGED <<disk, cache, export>> /\ decays' = decays + 1
    BY <1>11 DEF DecayStaged, online
  <2> QED
    BY <2>1, RecordedDecay
<1>12. CASE UNCHANGED vars
  BY <1>1, <1>12 DEF vars, online, bounds
<1> QED
  BY <1>2, <1>3, <1>4, <1>5, <1>6, <1>7, <1>8, <1>9, <1>10, <1>11, <1>12, RecordedStat,
     RecordedHash, RecordedUnchanging, RecordedSaveCache, RecordedWrite DEF Next, Export

(* A hash in the manifest, cached or not, is the hash of the file as it is when the scan
   leaves it, for any files, caches, updates and killed exports.  (build_manifest.) *)
THEOREM HashesStayFresh == Spec => HashesAreFresh
<1>1. ASSUME ScanInv
      PROVE  Unchanging /\ decays = 0 => export.manifest[Order[export.at]] = disk[Order[export.at]].data
  BY <1>1 DEF Unchanging, ScanInv, Recorded, FileFresh, ReadAt
<1>2. ScanInv /\ [Next]_vars => [Unchanging /\ decays = 0 =>
           LET p == Order[export.at] IN export.manifest[p] = disk[p].data]_vars
  BY <1>1
<1>3. Init => ScanInv
  BY ExportInit, RecordedInit DEF ScanInv
<1> QED
  BY <1>2, <1>3, ScanNext, PTL DEF Spec, HashesAreFresh

(* What a bundle carries is exactly what differs from its base or is asked for, each file
   with the content of its manifest, for any files, bases and requests, however the mirror
   changes or decays meanwhile.  (export_bundle, _copy_verified.) *)
THEOREM BundleIsAlwaysDifference == Spec => []BundleIsDifference
<1>1. ASSUME ExportInv PROVE BundleIsDifference
  <2> SUFFICES ASSUME bundle # None, NEW p \in Paths
               PROVE  bundle.payload[p] = IF bundle.manifest[p] = base[p] /\ p \notin Asked
                                          THEN None ELSE bundle.manifest[p]
    BY DEF BundleIsDifference
  <2>1. PICK i \in 1..Len(Order) : p = Order[i]
    BY OrderPaths
  <2>2. i \in DOMAIN Order /\ i < Len(Order) + 1
    BY OrderPaths
  <2>3. Carries(bundle.volumes, p) <=> base[p] # bundle.manifest[p] \/ p \in Asked
    BY <1>1, <2>1, <2>2 DEF ExportInv, Finished, Divides, Differing
  <2> QED
    BY <1>1, <2>3 DEF ExportInv, Finished
<1> QED
  BY <1>1, ExportInit, ExportNext, PTL DEF Spec

(* For any files of any sizes and any limit, the volumes hold the files of the bundle once
   each and in their order, none is larger than the limit, and none is begun for a file
   the one before has room for.  (_partition_volumes.) *)
THEOREM VolumesAlwaysFit == Spec => []VolumesFit
<1>1. ASSUME ExportInv PROVE VolumesFit
  <2> SUFFICES ASSUME bundle # None PROVE VolumesFit
    BY DEF VolumesFit
  <2>1. Divides(bundle.volumes, bundle.manifest, base, Len(Order) + 1, size, limit)
    BY <1>1 DEF ExportInv, Finished
  <2>2. \A p \in Paths :
          bundle.payload[p] # None <=> \E v \in DOMAIN bundle.volumes : p \in bundle.volumes[v]
    <3>1. \A p \in Paths : bundle.manifest[p] # None
      BY <1>1, ChoiceAssumption DEF ExportInv, Finished
    <3> QED
      BY <1>1, <3>1 DEF ExportInv, Finished, Carries
  <2> QED
    BY <2>1, <2>2 DEF VolumesFit, Divides, InOrder, Begun
<1> QED
  BY <1>1, ExportInit, ExportNext, PTL DEF Spec
------------------------------------------------------------------------------
(* The offline host *)

OfflineOK ==
    /\ staged \in [1..Len(Order) -> Partial \cup {None}]
    /\ stage \in [pc: {"idle", "next", "copied"}, todo: SUBSET (1..Len(Order)),
                  got: Partial \cup {None}]
    /\ {ready, spoilt} \subseteq BOOLEAN

(* What is staged of a volume is whole, as long as nothing decays. *)
Holds(payload, v) ==
    /\ payload \in [bundle.volumes[v] -> Data]
    /\ spoilt \/ \A p \in bundle.volumes[v] : payload[p] = bundle.manifest[p]

(* Nothing is staged before there is a bundle. *)
NothingStaged ==
    bundle = None => (\A v \in 1..Len(Order) : staged[v] = None) /\ stage = NoStage /\ ~ready

VolumesStaged ==
    bundle # None => \A v \in 1..Len(Order) : staged[v] # None => v \in Volumes /\ Holds(staged[v], v)

Staging ==
    bundle # None =>
        /\ stage.todo \subseteq Volumes
        /\ stage.pc = "copied" =>
              stage.todo # {} /\ stage.got \in [bundle.volumes[Current] -> Data]

AllStaged == ready => \A v \in Volumes : staged[v] # None

Gathered == NothingStaged /\ VolumesStaged /\ Staging /\ AllStaged

BoundsOK == writes \in 0..MaxWrites /\ decays \in 0..MaxDecays /\ kills \in 0..MaxKills

StageInv == OfflineOK /\ Gathered /\ BoundsOK

(* A set of numbers has a least one. *)
LEMMA Least ==
    ASSUME NEW S \in SUBSET Nat, S # {}
    PROVE  \E v \in S : \A w \in S : v <= w
<1>1. S \subseteq Nat
  OBVIOUS
<1>2. \E v \in S : \A w \in S : ~(<<w, v>> \in OpToRel(<, Nat))
  BY <1>1, NatLessThanWellFounded, WFMin
<1>3. \A v, w \in Nat : w < v => <<w, v>> \in OpToRel(<, Nat)
  BY DEF OpToRel
<1>4. \E v \in S : \A w \in S : ~(w < v)
  BY <1>1, <1>2, <1>3, Zenon
<1> QED
  BY <1>4

LEMMA CurrentIsLeft ==
    ASSUME stage.todo \in SUBSET (1..Len(Order)), stage.todo # {}
    PROVE  Current \in stage.todo
<1>1. stage.todo \in SUBSET Nat
  BY OrderPaths
<1>2. \E v \in stage.todo : \A w \in stage.todo : v <= w
  BY <1>1, Least
<1> QED
  BY <1>2 DEF Current

(* The volumes of a bundle are as many as its files at most, or one. *)
LEMMA BundleVolumesType ==
    ASSUME ExportInv, bundle # None
    PROVE  /\ Volumes \subseteq 1..Len(Order)
           /\ \A v \in Volumes : bundle.volumes[v] \in SUBSET Paths
           /\ \A v \in Volumes : \A p \in bundle.volumes[v] :
                 bundle.payload[p] = bundle.manifest[p] /\ bundle.manifest[p] \in Data
<1>1. /\ bundle.volumes \in Seq(SUBSET Paths) /\ Len(bundle.volumes) <= Len(Order)
      /\ bundle.manifest \in [Paths -> Data]
  BY OrderPaths DEF ExportInv, Finished, Divides
<1>2. \A v \in Volumes : \A p \in bundle.volumes[v] : p \in Paths /\ Carries(bundle.volumes, p)
  BY <1>1 DEF Volumes, Carries
<1>3. Volumes = 1..Len(bundle.volumes) /\ Len(bundle.volumes) \in Nat
  BY <1>1 DEF Volumes
<1>4. /\ Volumes \subseteq 1..Len(Order)
      /\ \A v \in Volumes : bundle.volumes[v] \in SUBSET Paths
  BY <1>1, <1>3, OrderPaths
<1>5. \A p \in Paths : Carries(bundle.volumes, p) => bundle.payload[p] = bundle.manifest[p]
  BY DEF ExportInv, Finished
<1> QED
  BY <1>1, <1>2, <1>4, <1>5

(* What a step of the export leaves of the offline host. *)
LEMMA StageRests ==
    ASSUME ExportInv, StageInv, UNCHANGED <<staged, ready, stage, spoilt, bundle>>, BoundsOK'
    PROVE  StageInv'
<1>1. OfflineOK'
  BY DEF StageInv, OfflineOK
<1>2. NothingStaged' /\ VolumesStaged' /\ Staging' /\ AllStaged'
  BY DEF StageInv, Gathered, NothingStaged, VolumesStaged, Staging, AllStaged, Holds, Volumes, Current
<1> QED
  BY <1>1, <1>2 DEF StageInv, Gathered

(* A new bundle has no volume that is staged. *)
LEMMA StageNewBundle ==
    ASSUME ExportInv, StageInv, bundle = None, UNCHANGED <<staged, ready, stage, spoilt>>, BoundsOK'
    PROVE  StageInv'
<1>1. OfflineOK' /\ (\A v \in 1..Len(Order) : staged[v] = None) /\ stage = NoStage /\ ~ready
  BY DEF StageInv, OfflineOK, Gathered, NothingStaged
<1>2. NothingStaged' /\ VolumesStaged' /\ Staging' /\ AllStaged'
  BY <1>1 DEF NothingStaged, VolumesStaged, Staging, AllStaged, NoStage
<1> QED
  BY <1>1, <1>2 DEF StageInv, Gathered

(* A stage_volumes that ends, in whatever way, leaves what is staged. *)
LEMMA StageEnds ==
    ASSUME ExportInv, StageInv, bundle # None, UNCHANGED <<staged, spoilt, bundle>>, BoundsOK',
           stage' = NoStage, ready' \in BOOLEAN, ready' => \A v \in Volumes : staged[v] # None
    PROVE  StageInv'
<1>1. OfflineOK'
  BY DEF StageInv, OfflineOK, NoStage
<1>2. Staging' /\ NothingStaged' /\ AllStaged'
  BY DEF Staging, NothingStaged, AllStaged, NoStage, Volumes
<1>3. VolumesStaged'
  BY DEF StageInv, Gathered, VolumesStaged, Holds, Volumes
<1> QED
  BY <1>1, <1>2, <1>3 DEF StageInv, Gathered

(* stage_volumes goes on. *)
LEMMA StageGoes ==
    ASSUME ExportInv, StageInv, bundle # None, UNCHANGED <<staged, ready, spoilt, bundle>>,
           BoundsOK', NEW todo \in SUBSET Volumes, NEW pc \in {"next", "copied"},
           NEW got \in Partial \cup {None},
           stage' = [pc |-> pc, todo |-> todo, got |-> got],
           pc = "copied" => todo # {} /\ todo = stage.todo /\ got \in [bundle.volumes[Current] -> Data]
    PROVE  StageInv'
<1>1. OfflineOK'
  BY BundleVolumesType DEF StageInv, OfflineOK
<1>2. Staging'
  BY DEF Staging, Volumes, Current
<1>3. NothingStaged' /\ AllStaged' /\ VolumesStaged'
  BY DEF StageInv, Gathered, NothingStaged, AllStaged, VolumesStaged, Holds, Volumes
<1> QED
  BY <1>1, <1>2, <1>3 DEF StageInv, Gathered

LEMMA StageStart == ASSUME ExportInv, StageInv, StartStage PROVE StageInv'
<1>1. PICK todo \in {{v} : v \in Volumes} \cup {Volumes} :
        stage' = [NoStage EXCEPT !.pc = "next", !.todo = todo]
  BY DEF StartStage
<1>2. todo \in SUBSET Volumes /\ stage' = [pc |-> "next", todo |-> todo, got |-> None]
  BY <1>1 DEF NoStage
<1>3. bundle # None /\ UNCHANGED <<staged, ready, spoilt, bundle>> /\ BoundsOK'
  BY DEF StartStage, OnlyStages, online, bounds, StageInv, BoundsOK
<1> QED
  BY <1>2, <1>3, StageGoes

(* While stage_volumes runs there is a bundle, and what is left to do is of it. *)
LEMMA StageRuns ==
    ASSUME ExportInv, StageInv, stage.pc # "idle"
    PROVE  /\ bundle # None /\ stage.todo \in SUBSET Volumes /\ stage.got \in Partial \cup {None}
           /\ stage = [pc |-> stage.pc, todo |-> stage.todo, got |-> stage.got]
           /\ stage.todo # {} => Current \in stage.todo /\ Current \in Volumes
                                 /\ Current \in 1..Len(Order)
<1>1. bundle # None
  BY DEF StageInv, Gathered, NothingStaged, NoStage
<1>2. /\ stage.todo \in SUBSET Volumes /\ stage.got \in Partial \cup {None}
      /\ stage = [pc |-> stage.pc, todo |-> stage.todo, got |-> stage.got]
      /\ stage.todo \in SUBSET (1..Len(Order))
  BY <1>1 DEF StageInv, OfflineOK, Gathered, Staging
<1> QED
  BY <1>1, <1>2, CurrentIsLeft

LEMMA StageAlready == ASSUME ExportInv, StageInv, AlreadyStaged PROVE StageInv'
<1>1. /\ stage.pc = "next" /\ stage' = [stage EXCEPT !.todo = stage.todo \ {Current}]
      /\ UNCHANGED <<staged, ready, spoilt, bundle>> /\ BoundsOK'
  BY DEF AlreadyStaged, OnlyStages, online, bounds, StageInv, BoundsOK
<1> DEFINE todo == stage.todo \ {Current}
<1>2. /\ bundle # None /\ todo \in SUBSET Volumes /\ stage.got \in Partial \cup {None}
      /\ stage = [pc |-> "next", todo |-> stage.todo, got |-> stage.got]
  BY <1>1, StageRuns
<1>3. stage' = [pc |-> "next", todo |-> todo, got |-> stage.got]
  BY <1>1, <1>2
<1> HIDE DEF todo
<1> QED
  BY <1>1, <1>2, <1>3, StageGoes

LEMMA StageCopy == ASSUME ExportInv, StageInv, CopyVolume PROVE StageInv'
<1> DEFINE volume == bundle.volumes[Current]
<1>1. /\ stage.pc = "next" /\ stage.todo # {}
      /\ UNCHANGED <<staged, ready, spoilt, bundle>> /\ BoundsOK'
  BY DEF CopyVolume, OnlyStages, online, bounds, StageInv, BoundsOK
<1>2. PICK bad \in SUBSET volume :
        stage' = [stage EXCEPT !.pc = "copied",
                    !.got = [p \in DOMAIN OnDisc(Current) |->
                               IF p \in bad THEN Bad ELSE OnDisc(Current)[p]]]
  BY DEF CopyVolume
<1> DEFINE got == [p \in volume |-> IF p \in bad THEN Bad ELSE bundle.payload[p]]
<1>3. /\ bundle # None /\ stage.todo \in SUBSET Volumes /\ Current \in Volumes
      /\ stage = [pc |-> stage.pc, todo |-> stage.todo, got |-> stage.got]
  BY <1>1, StageRuns
<1>4. [p \in DOMAIN OnDisc(Current) |-> IF p \in bad THEN Bad ELSE OnDisc(Current)[p]] = got
  BY DEF OnDisc
<1>5. volume \in SUBSET Paths /\ \A p \in volume : bundle.payload[p] \in Data
  BY <1>3, BundleVolumesType
<1>6. got \in [volume -> Data] /\ Bad \in Data
  BY <1>5 DEF Data
<1>7. got \in Partial
  BY <1>5, <1>6 DEF Partial
<1>8. stage' = [stage EXCEPT !.pc = "copied", !.got = got]
  BY <1>2, <1>4
<1> HIDE DEF got
<1>9. stage' = [pc |-> "copied", todo |-> stage.todo, got |-> got]
  BY <1>3, <1>8
<1> QED
  BY <1>1, <1>3, <1>6, <1>7, <1>9, StageGoes

(* Only a copy that is whole gets the name of its volume. *)
LEMMA StageRename == ASSUME ExportInv, StageInv, RenameCopy PROVE StageInv'
<1> DEFINE todo == stage.todo \ {Current}
<1>1. /\ stage.pc = "copied" /\ WholeVolume(stage.got)
      /\ staged' = [staged EXCEPT ![Current] = stage.got]
      /\ stage' = [NoStage EXCEPT !.pc = "next", !.todo = todo]
      /\ UNCHANGED <<ready, spoilt, bundle>> /\ BoundsOK'
  BY DEF RenameCopy, CopyAccepted, OnlyStages, online, bounds, StageInv, BoundsOK
<1>2. /\ bundle # None /\ stage.todo \in SUBSET Volumes /\ stage.todo # {}
      /\ stage.got \in [bundle.volumes[Current] -> Data]
  BY <1>1, StageRuns DEF StageInv, Gathered, Staging
<1>3. Current \in Volumes /\ Current \in 1..Len(Order) /\ bundle.volumes[Current] \in SUBSET Paths
  BY <1>1, <1>2, StageRuns, BundleVolumesType
<1>4. stage.got \in Partial
  BY <1>2, <1>3 DEF Partial
<1>5. stage' = [pc |-> "next", todo |-> todo, got |-> None] /\ todo \in SUBSET Volumes
  BY <1>1, <1>2 DEF NoStage
<1>6. /\ staged \in [1..Len(Order) -> Partial \cup {None}] /\ staged'[Current] = stage.got
      /\ \A v \in 1..Len(Order) : v # Current => staged'[v] = staged[v]
      /\ staged' \in [1..Len(Order) -> Partial \cup {None}]
  BY <1>1, <1>3, <1>4 DEF StageInv, OfflineOK
<1>7. Holds(stage.got, Current)
  BY <1>1, <1>2 DEF Holds, WholeVolume
<1> HIDE DEF todo
<1>8. OfflineOK'
  BY <1>1, <1>5, <1>6, BundleVolumesType, <1>2 DEF StageInv, OfflineOK
<1>9. NothingStaged' /\ Staging'
  BY <1>1, <1>2, <1>5 DEF NothingStaged, Staging, Volumes
<1>10. VolumesStaged'
  BY <1>1, <1>2, <1>3, <1>6, <1>7 DEF StageInv, Gathered, VolumesStaged, Holds, Volumes
<1>11. AllStaged'
  <2>1. stage.got # None
    BY <1>4, ChoiceAssumption
  <2>2. \A v \in Volumes : v \in 1..Len(Order)
    BY <1>2, BundleVolumesType
  <2> QED
    BY <1>1, <1>6, <2>1, <2>2 DEF StageInv, Gathered, AllStaged, Volumes
<1> QED
  BY <1>1, <1>8, <1>9, <1>10, <1>11 DEF StageInv, Gathered

(* A staged file that decays. *)
LEMMA StageDecay ==
    ASSUME ExportInv, StageInv, NEW v \in DOMAIN staged, NEW p \in Paths, DecayStaged(v, p)
    PROVE  StageInv'
<1>1. /\ staged[v] # None /\ p \in DOMAIN staged[v] /\ spoilt' = TRUE
      /\ staged' = [staged EXCEPT ![v] = [staged[v] EXCEPT ![p] = Bad]]
      /\ UNCHANGED <<ready, stage, bundle, writes, kills>>
      /\ decays < MaxDecays /\ decays' = decays + 1
  BY DEF DecayStaged, online
<1>2. staged \in [1..Len(Order) -> Partial \cup {None}] /\ v \in 1..Len(Order)
  BY DEF StageInv, OfflineOK
<1>3. bundle # None /\ v \in Volumes /\ staged[v] \in [bundle.volumes[v] -> Data]
  BY <1>1, <1>2 DEF StageInv, Gathered, NothingStaged, VolumesStaged, Holds
<1> DEFINE payload == [staged[v] EXCEPT ![p] = Bad]
<1>4. payload \in [bundle.volumes[v] -> Data] /\ bundle.volumes[v] \in SUBSET Paths
  BY <1>3, BundleVolumesType DEF Data
<1>5. payload \in Partial /\ payload # None
  <2>1. payload \in Partial
    BY <1>4 DEF Partial
  <2> QED
    BY <2>1, ChoiceAssumption
<1> HIDE DEF payload
<1>6. /\ staged' \in [1..Len(Order) -> Partial \cup {None}] /\ staged'[v] = payload
      /\ \A w \in 1..Len(Order) : w # v => staged'[w] = staged[w]
  BY <1>1, <1>2, <1>5 DEF payload
<1>7. OfflineOK'
  BY <1>1, <1>6 DEF StageInv, OfflineOK
<1>8. NothingStaged' /\ Staging'
  BY <1>1, <1>3 DEF StageInv, Gathered, NothingStaged, Staging, Volumes, Current
<1>9. VolumesStaged'
  BY <1>1, <1>3, <1>4, <1>6 DEF StageInv, Gathered, VolumesStaged, Holds, Volumes
<1>10. AllStaged'
  BY <1>1, <1>3, <1>5, <1>6, BundleVolumesType DEF StageInv, Gathered, AllStaged, Volumes
<1>11. BoundsOK'
  BY <1>1, BoundAssumption DEF StageInv, BoundsOK
<1> QED
  BY <1>7, <1>8, <1>9, <1>10, <1>11 DEF StageInv, Gathered

LEMMA StageInit == Init => StageInv
<1> SUFFICES ASSUME Init PROVE StageInv
  OBVIOUS
<1>1. /\ staged = [v \in 1..Len(Order) |-> None] /\ bundle = None
      /\ ready = FALSE /\ stage = NoStage /\ spoilt = FALSE
      /\ writes = 0 /\ decays = 0 /\ kills = 0
  BY DEF Init
<1>2. OfflineOK
  BY <1>1 DEF OfflineOK, NoStage
<1>3. Gathered
  BY <1>1 DEF Gathered, NothingStaged, VolumesStaged, Staging, AllStaged
<1>4. BoundsOK
  BY <1>1, BoundAssumption DEF BoundsOK
<1> QED
  BY <1>2, <1>3, <1>4 DEF StageInv

(* No step goes beyond a bound. *)
LEMMA BoundsHold == ASSUME StageInv, [Next]_vars PROVE BoundsOK'
<1>1. /\ writes \in 0..MaxWrites /\ decays \in 0..MaxDecays /\ kills \in 0..MaxKills
      /\ MaxWrites \in Nat /\ MaxDecays \in Nat /\ MaxKills \in Nat
  BY BoundAssumption DEF StageInv, BoundsOK
<1>2. CASE UNCHANGED bounds
  BY <1>1, <1>2 DEF BoundsOK, bounds
<1>3. CASE KillExport \/ KillStage
  BY <1>1, <1>3 DEF BoundsOK, KillExport, KillStage
<1>4. ASSUME NEW p \in Paths, Write(p) \/ Decay(p) \/ \E v \in DOMAIN staged : DecayStaged(v, p)
      PROVE  BoundsOK'
  BY <1>1, <1>4 DEF BoundsOK, Write, Decay, DecayStaged
<1>5. CASE Export
  BY <1>2, <1>5 DEF Export, StartExport, Stat, Hash, Changing, Unchanging, SaveCache, StartCopy,
     FinishBundle, PassOver, RefuseFile, PackFile, NotListed, CopyFile, Divide, Copy, OnlyExports
<1>6. CASE Stage
  BY <1>2, <1>6 DEF Stage, StartStage, Refuse, AlreadyStaged, CopyVolume, DropCopy, RenameCopy,
     FinishStage, OnlyStages
<1> QED
  BY <1>2, <1>3, <1>4, <1>5, <1>6 DEF Next, vars

LEMMA StageNext == ExportInv /\ StageInv /\ [Next]_vars => StageInv'
<1> SUFFICES ASSUME ExportInv, StageInv, [Next]_vars PROVE StageInv'
  OBVIOUS
<1>1. BoundsOK'
  BY BoundsHold
<1>2. ready \in BOOLEAN /\ (ready => \A v \in Volumes : staged[v] # None)
  BY DEF StageInv, OfflineOK, Gathered, AllStaged
<1>3. CASE StartExport \/ Stat \/ Hash \/ Changing \/ Unchanging \/ SaveCache \/ StartCopy \/ KillExport
  BY <1>1, <1>3, StageRests DEF StartExport, Stat, Hash, Changing, Unchanging, SaveCache, StartCopy,
     KillExport, OnlyExports, offline
<1>4. ASSUME NEW p \in Paths,
             PassOver(p) \/ RefuseFile(p) \/ PackFile(p) \/ NotListed(p) \/ CopyFile(p)
      PROVE  StageInv'
  BY <1>1, <1>4, StageRests DEF PassOver, RefuseFile, PackFile, NotListed, CopyFile, Divide, Copy,
     OnlyExports, offline
<1>5. CASE FinishBundle
  <2>1. bundle = None
    BY <1>5, Running DEF FinishBundle
  <2> QED
    BY <1>1, <1>5, <2>1, StageNewBundle DEF FinishBundle, OnlyExports, offline
<1>6. CASE Refuse \/ DropCopy \/ KillStage
  <2>1. bundle # None
    BY <1>6, StageRuns DEF Refuse, DropCopy, KillStage
  <2> QED
    BY <1>1, <1>2, <1>6, <2>1, StageEnds DEF Refuse, DropCopy, KillStage, OnlyStages, online
<1>7. CASE FinishStage
  <2>1. bundle # None
    BY <1>7, StageRuns DEF FinishStage
  <2>2. /\ ready' = (ready \/ \A v \in Volumes : staged[v] # None)
        /\ stage' = NoStage /\ UNCHANGED <<staged, spoilt, bundle>>
    BY <1>7 DEF FinishStage, OnlyStages, online
  <2>3. ready' \in BOOLEAN
    BY <1>2, <2>2
  <2>4. ready' => \A v \in Volumes : staged[v] # None
    BY <1>2, <2>2
  <2> QED
    BY <1>1, <2>1, <2>2, <2>3, <2>4, StageEnds
<1>8. ASSUME NEW p \in Paths, Write(p) \/ Decay(p) PROVE StageInv'
  BY <1>1, <1>8, StageRests DEF Write, Decay, offline
<1>9. CASE UNCHANGED vars
  BY <1>1, <1>9, StageRests DEF vars, offline, online
<1> QED
  BY <1>3, <1>4, <1>5, <1>6, <1>7, <1>8, <1>9, StageStart, StageAlready, StageCopy, StageRename,
     StageDecay DEF Next, Export, Stage

(* The variables have their types, for any files, sizes, bases and bounds. *)
THEOREM TypesHold == Spec => []TypeOK
<1>1. ASSUME ExportInv, StageInv PROVE TypeOK
  <2>1. bundle \in Bundles \cup {None}
    BY <1>1 DEF ExportInv, Finished
  <2>2. size \in Sizes /\ limit \in Limits /\ base \in Bases
    BY <1>1 DEF ExportInv, ParametersOK
  <2> QED
    BY <1>1, <2>1, <2>2 DEF ExportInv, StageInv, OnlineOK, OfflineOK, BoundsOK, Exports, TypeOK
<1> QED
  BY <1>1, ExportInit, ExportNext, StageInit, StageNext, PTL DEF Spec

(* A staging directory marked READY holds every file of the bundle, whole, for any number
   of volumes and files, whatever order the discs are read in, however often, and whatever
   is killed or copied badly, as long as nothing that is staged decays.  (stage_volumes.) *)
THEOREM ReadyIsAlwaysWhole == Spec => []ReadyIsWhole
<1>1. ASSUME ExportInv, StageInv PROVE ReadyIsWhole
  <2> SUFFICES ASSUME ready, NEW p \in Paths, bundle.payload[p] # None
               PROVE  \E v \in Volumes : /\ staged[v] # None /\ p \in DOMAIN staged[v]
                                         /\ staged[v][p] = bundle.payload[p] \/ spoilt
    BY DEF ReadyIsWhole
  <2>1. bundle # None
    BY <1>1 DEF StageInv, Gathered, NothingStaged
  <2>2. Carries(bundle.volumes, p) /\ bundle.payload[p] = bundle.manifest[p]
    BY <1>1, <2>1 DEF ExportInv, Finished
  <2>3. PICK v \in Volumes : p \in bundle.volumes[v]
    BY <2>2 DEF Carries, Volumes
  <2>4. v \in 1..Len(Order) /\ staged[v] # None
    BY <1>1, <2>1, BundleVolumesType DEF StageInv, Gathered, AllStaged
  <2>5. Holds(staged[v], v)
    BY <1>1, <2>1, <2>4 DEF StageInv, Gathered, VolumesStaged
  <2>6. p \in DOMAIN staged[v] /\ (staged[v][p] = bundle.payload[p] \/ spoilt)
    BY <2>2, <2>3, <2>5 DEF Holds
  <2> QED
    BY <2>4, <2>6
<1> QED
  BY <1>1, ExportInit, ExportNext, StageInit, StageNext, PTL DEF Spec
===============================================================================
