--------------------------- MODULE DownloadProofs ---------------------------
(***************************************************************************)
(* Proofs about Download: the variables keep their types, and a published  *)
(* file is one version, whole.                                             *)
(*                                                                         *)
(* The hash is taken of the stream of chunks, and what is published is the *)
(* partial file: the invariant that carries the proof is that the two are  *)
(* equal (OnDisk), which needs that no other task has the same path.       *)
(***************************************************************************)
EXTENDS Download, TLAPS

(* While a task has a request under way, it has a try to spend on it. *)
TryLeft(f) ==
    task[f].pc \in {"verify", "request", "rehash", "open", "stream"} => task[f].tries > 0

(* A response that is read has a version. *)
Replied(f) ==
    task[f].pc \in {"rehash", "open", "stream"} => task[f].reply.version \in Versions

(* What was hashed is what is on disk. *)
OnDisk(f) ==
    /\ task[f].pc = "stream" => partial[Source(f)] = task[f].seen
    /\ task[f].pc = "open" =>
          task[f].seen = IF task[f].offset > 0 THEN partial[Source(f)] ELSE <<>>

TasksOK == \A f \in Files : TryLeft(f) /\ Replied(f) /\ OnDisk(f)

Inv == TypeOK /\ TasksOK

------------------------------------------------------------------------------
(* Where the paths of tasks are *)

LEMMA SourceInVariant ==
    ASSUME TaskOK, NEW f \in Files
    PROVE  /\ Source(f) \in Variant(f)
           /\ Variant(f) \subseteq Paths
           /\ Variant(f) \subseteq FilePaths(f)
           /\ Source(f) \in Paths
<1>1. /\ task[f].v \in DOMAIN Variants[f]
      /\ task[f].i \in DOMAIN Variants[f][task[f].v]
  BY DEF TaskOK
<1>2. Variants[f] \in Seq(Seq(Paths))
  BY PlanAssumption
<1>3. Variants[f][task[f].v] \in Seq(Paths)
  BY <1>1, <1>2
<1> QED
  BY <1>1, <1>2, <1>3 DEF Source, Variant, VariantPaths, FilePaths

LEMMA FilePathsInPaths ==
    ASSUME NEW f \in Files
    PROVE  FilePaths(f) \subseteq Paths
<1>1. Variants[f] \in Seq(Seq(Paths))
  BY PlanAssumption
<1> QED
  BY <1>1 DEF FilePaths, VariantPaths

(* Two tasks never stand at one path. *)
LEMMA SourcesDiffer ==
    ASSUME TaskOK, NEW f \in Files, NEW g \in Files, f # g
    PROVE  Source(f) # Source(g)
<1>1. Source(f) \in FilePaths(f) /\ Source(g) \in FilePaths(g)
  BY SourceInVariant
<1> QED
  BY <1>1, PlanAssumption

(* The first path of every variant exists. *)
LEMMA FirstSource ==
    ASSUME NEW f \in Files
    PROVE  /\ 1 \in DOMAIN Variants[f]
           /\ \A v \in DOMAIN Variants[f] : 1 \in DOMAIN Variants[f][v]
<1>1. Variants[f] \in Seq(Seq(Paths)) /\ Len(Variants[f]) > 0
  BY PlanAssumption
<1>2. ASSUME NEW v \in DOMAIN Variants[f]
      PROVE  Variants[f][v] \in Seq(Paths) /\ Len(Variants[f][v]) > 0
  BY <1>1, PlanAssumption
<1> QED
  BY <1>1, <1>2

------------------------------------------------------------------------------
(* What the operators the actions are made of preserve *)

LEMMA StandingType ==
    ASSUME NEW pc \in {"queued", "try", "backoff", "done"},
           NEW v \in Nat \ {0}, NEW i \in Nat \ {0}, NEW tries \in 0..Tries,
           NEW error \in BOOLEAN
    PROVE  /\ Standing(pc, v, i, tries, error) \in TaskType
           /\ Standing(pc, v, i, tries, error).pc = pc
           /\ Standing(pc, v, i, tries, error).v = v
           /\ Standing(pc, v, i, tries, error).i = i
BY BoundAssumption DEF Standing, TaskType, NoReply, Blob

LEMMA RemovePartialType ==
    ASSUME DiskOK, NEW p \in Paths, NEW ds \in SUBSET Dirs, RemovePartial(p, ds)
    PROVE  /\ partial' \in [Paths -> Blob \cup {NoFile}]
           /\ dirs' \in SUBSET Dirs
           /\ \A q \in Paths : q # p => partial'[q] = partial[q]
BY DEF DiskOK, RemovePartial, Pruned

LEMMA PlaceType ==
    ASSUME DiskOK, NEW P, NEW blob \in Blob \cup {NoFile}, NEW time \in Versions \cup {0},
           Place(P, blob, time)
    PROVE  /\ target' \in [Paths -> Blob \cup {NoFile}]
           /\ mtime' \in [Paths -> Versions \cup {0}]
BY DEF DiskOK, Place

(* A step of one task that touches no partial file but its own leaves the
   other tasks as they are. *)
LEMMA OthersKept ==
    ASSUME TaskOK, TasksOK, NEW f \in Files, NEW t,
           task' = [task EXCEPT ![f] = t],
           \A q \in Paths : q # Source(f) => partial'[q] = partial[q],
           NEW g \in Files, g # f
    PROVE  (TryLeft(g) /\ Replied(g) /\ OnDisk(g))'
<1>1. task'[g] = task[g]
  BY DEF TaskOK
<1>2. Source(g)' = Source(g)
  BY <1>1 DEF Source
<1>3. partial'[Source(g)] = partial[Source(g)]
  BY SourceInVariant, SourcesDiffer
<1> QED
  BY <1>1, <1>2, <1>3 DEF TasksOK, TryLeft, Replied, OnDisk

LEMMA TaskStep ==
    ASSUME TaskOK, NEW f \in Files, NEW t \in TaskType,
           t.v \in DOMAIN Variants[f], t.i \in DOMAIN Variants[f][t.v],
           task' = [task EXCEPT ![f] = t]
    PROVE  TaskOK' /\ task'[f] = t
BY DEF TaskOK

(* A task that waits for nothing but its turn: whatever it held is given up. *)
LEMMA IdleStep ==
    ASSUME TaskOK, TasksOK, NEW f \in Files, NEW t \in TaskType,
           t.v \in DOMAIN Variants[f], t.i \in DOMAIN Variants[f][t.v],
           t.pc \in {"queued", "try", "backoff", "done"},
           task' = [task EXCEPT ![f] = t],
           \A q \in Paths : q # Source(f) => partial'[q] = partial[q]
    PROVE  TaskOK' /\ TasksOK'
<1>1. TaskOK' /\ task'[f] = t
  BY TaskStep
<1>2. (TryLeft(f) /\ Replied(f) /\ OnDisk(f))'
  BY <1>1 DEF TryLeft, Replied, OnDisk
<1> QED
  BY <1>1, <1>2, OthersKept DEF TasksOK

LEMMA AgainStep ==
    ASSUME TaskOK, TasksOK, NEW f \in Files, NEW pc \in {"try", "backoff"},
           NEW used \in {0, 1}, NEW failed \in BOOLEAN, task[f].tries >= used,
           Again(f, pc, used, failed),
           \A q \in Paths : q # Source(f) => partial'[q] = partial[q]
    PROVE  TaskOK' /\ TasksOK'
<1> DEFINE t == Standing(pc, task[f].v, task[f].i, task[f].tries - used,
                         task[f].error \/ failed)
<1>1. /\ task[f].v \in Nat \ {0} /\ task[f].i \in Nat \ {0}
      /\ task[f].tries \in 0..Tries /\ task[f].error \in BOOLEAN
      /\ task[f].v \in DOMAIN Variants[f] /\ task[f].i \in DOMAIN Variants[f][task[f].v]
  BY DEF TaskOK, TaskType
<1>2. task[f].tries - used \in 0..Tries
  BY <1>1, BoundAssumption
<1>3. (task[f].error \/ failed) \in BOOLEAN
  OBVIOUS
<1>4. /\ t \in TaskType /\ t.v = task[f].v /\ t.i = task[f].i /\ t.pc = pc
  BY <1>1, <1>2, <1>3, BoundAssumption DEF Standing, TaskType, NoReply, Blob
<1>5. task' = [task EXCEPT ![f] = t]
  BY DEF Again
<1> QED
  BY <1>1, <1>4, <1>5, IdleStep

LEMMA ReturnStep ==
    ASSUME TaskOK, TasksOK, NEW f \in Files, NEW o, Return(f, o),
           \A q \in Paths : q # Source(f) => partial'[q] = partial[q]
    PROVE  TaskOK' /\ TasksOK'
<1> DEFINE t == Standing("done", 1, 1, Tries, FALSE)
<1>1. Tries \in 0..Tries
  BY BoundAssumption
<1>2. t \in TaskType /\ t.v = 1 /\ t.i = 1 /\ t.pc = "done"
  BY <1>1, BoundAssumption DEF Standing, TaskType, NoReply, Blob
<1>3. task' = [task EXCEPT ![f] = t]
  BY DEF Return
<1> QED
  BY <1>2, <1>3, FirstSource, IdleStep

LEMMA SucceedStep ==
    ASSUME TaskOK, TasksOK, RecordsOK, NEW f \in Files,
           NEW o \in {"downloaded", "unmodified"}, Succeed(f, o),
           \A q \in Paths : q # Source(f) => partial'[q] = partial[q]
    PROVE  TaskOK' /\ TasksOK' /\ RecordsOK'
<1>1. TaskOK' /\ TasksOK'
  BY ReturnStep DEF Succeed
<1> QED
  BY <1>1 DEF Succeed, Return, RecordsOK, Outcomes

LEMMA NextSourceStep ==
    ASSUME TaskOK, TasksOK, RecordsOK, NEW f \in Files, NextSource(f),
           partial' = partial
    PROVE  TaskOK' /\ TasksOK' /\ RecordsOK'
<1> DEFINE at(v, i) == Standing("try", v, i, Tries, task[f].error)
<1>1. /\ task[f].v \in DOMAIN Variants[f]
      /\ task[f].i \in DOMAIN Variants[f][task[f].v]
      /\ task[f].error \in BOOLEAN
      /\ task[f].v \in Nat /\ task[f].i \in Nat
  BY DEF TaskOK, TaskType
<1>2. Variants[f] \in Seq(Seq(Paths)) /\ Variants[f][task[f].v] \in Seq(Paths)
  BY <1>1, PlanAssumption
<1>3. ASSUME NEW v \in DOMAIN Variants[f], NEW i \in DOMAIN Variants[f][v],
             task' = [task EXCEPT ![f] = at(v, i)]
      PROVE  TaskOK' /\ TasksOK'
  <2>1. v \in Nat \ {0} /\ i \in Nat \ {0}
    BY PlanAssumption
  <2>2. Tries \in 0..Tries
    BY BoundAssumption
  <2>3. at(v, i) \in TaskType /\ at(v, i).v = v /\ at(v, i).i = i /\ at(v, i).pc = "try"
    BY <1>1, <2>1, <2>2, StandingType
  <2> QED
    BY <1>3, <2>3, IdleStep
<1>4. CASE task[f].i < Len(Variants[f][task[f].v])
  <2>1. task[f].i + 1 \in DOMAIN Variants[f][task[f].v]
    BY <1>1, <1>2, <1>4
  <2>2. task' = [task EXCEPT ![f] = at(task[f].v, task[f].i + 1)] /\ UNCHANGED <<outcome, missing>>
    BY <1>4 DEF NextSource
  <2> QED
    BY <1>1, <1>3, <2>1, <2>2 DEF RecordsOK
<1>5. CASE /\ ~(task[f].i < Len(Variants[f][task[f].v]))
           /\ task[f].v < Len(Variants[f])
  <2>1. task[f].v + 1 \in DOMAIN Variants[f] /\ 1 \in DOMAIN Variants[f][task[f].v + 1]
    BY <1>1, <1>2, <1>5, FirstSource
  <2>2. task' = [task EXCEPT ![f] = at(task[f].v + 1, 1)] /\ UNCHANGED <<outcome, missing>>
    BY <1>5 DEF NextSource
  <2> QED
    BY <1>3, <2>1, <2>2 DEF RecordsOK
<1>6. CASE GiveUp(f)
  <2>1. \E o \in Outcomes : Return(f, o)
    BY <1>6 DEF GiveUp, Outcomes
  <2>2. missing' \in SUBSET Paths
    BY <1>6, FilePathsInPaths DEF GiveUp, RecordsOK
  <2> QED
    BY <2>1, <2>2, ReturnStep DEF Return, RecordsOK
<1> QED
  BY <1>4, <1>5, <1>6 DEF NextSource

------------------------------------------------------------------------------
(* One lemma per action: what it does to the task, the others and the disk *)

LEMMA RequestStep ==
    ASSUME TaskOK, TasksOK, NEW f \in Files, NEW offset \in Nat,
           task[f].tries > 0, task' = Request(f, offset),
           \A q \in Paths : q # Source(f) => partial'[q] = partial[q]
    PROVE  TaskOK' /\ TasksOK'
<1> DEFINE t == [task[f] EXCEPT !.pc = "request", !.offset = offset]
<1>1. task' = [task EXCEPT ![f] = t]
  BY DEF Request, TaskOK
<1>a. task[f] \in TaskType
  BY DEF TaskOK
<1>2. /\ t \in TaskType
      /\ t.v = task[f].v /\ t.i = task[f].i
      /\ t.pc = "request" /\ t.tries = task[f].tries
  BY <1>a DEF TaskType
<1>3. TaskOK' /\ task'[f] = t
  BY <1>1, <1>2, TaskStep DEF TaskOK
<1>4. (TryLeft(f) /\ Replied(f) /\ OnDisk(f))'
  BY <1>2, <1>3 DEF TryLeft, Replied, OnDisk
<1> QED
  BY <1>1, <1>3, <1>4, OthersKept DEF TasksOK

LEMMA QueueSteps ==
    ASSUME Inv, NEW f \in Files, SkipUnmodified(f) \/ Start(f)
    PROVE  Inv'
<1> USE DEF Inv, TypeOK
<1>1. CASE SkipUnmodified(f)
  <2>1. TaskOK' /\ TasksOK'
    BY <1>1, ReturnStep DEF SkipUnmodified, disk
  <2> QED
    BY <1>1, <2>1 DEF SkipUnmodified, disk, Return, RecordsOK, Outcomes, DiskOK
<1>2. CASE Start(f)
  <2> DEFINE t == [task[f] EXCEPT !.pc = "try"]
  <2>1. task' = [task EXCEPT ![f] = t]
    BY <1>2 DEF Start, TaskOK
  <2>2. t \in TaskType /\ t.v = task[f].v /\ t.i = task[f].i /\ t.pc = "try"
    BY DEF TaskOK, TaskType
  <2>3. TaskOK' /\ TasksOK'
    BY <1>2, <2>1, <2>2, IdleStep DEF Start, disk, TaskOK
  <2> QED
    BY <1>2, <2>3 DEF Start, disk, RecordsOK, DiskOK
<1> QED
  BY <1>1, <1>2

LEMMA PrepareSteps ==
    ASSUME Inv, NEW f \in Files, Prepare(f) \/ DiscardPartial(f) \/ ReadCompleted(f)
    PROVE  Inv'
<1> USE DEF Inv, TypeOK
<1> DEFINE p == Source(f)
           made == dirs \cup Above[DirOf[p]]
<1>1. p \in Paths /\ made \in SUBSET Dirs
  BY SourceInVariant, BoundAssumption DEF DiskOK
<1>2. CASE Prepare(f)
  <2>1. PICK n \in Nat : task' = Request(f, n)
    <3>1. CASE partial[p] = NoFile /\ task' = Request(f, 0)
      BY <3>1
    <3>2. CASE Resumable(p) /\ task' = Request(f, Len(partial[p]))
      <4>1. partial[p] \in Seq(Versions)
        BY <1>1, <3>2 DEF Resumable, DiskOK, Blob
      <4> QED
        BY <3>2, <4>1
    <3> QED
      BY <1>2, <3>1, <3>2 DEF Prepare
  <2>2. task[f].tries > 0 /\ UNCHANGED partial
    BY <1>2 DEF Prepare, Trying
  <2>3. TaskOK' /\ TasksOK'
    BY <2>1, <2>2, RequestStep
  <2> QED
    BY <1>1, <1>2, <2>3 DEF Prepare, DiskOK, RecordsOK
<1>3. CASE DiscardPartial(f)
  <2>1. /\ partial' \in [Paths -> Blob \cup {NoFile}] /\ dirs' \in SUBSET Dirs
        /\ \A q \in Paths : q # p => partial'[q] = partial[q]
    BY <1>1, <1>3, RemovePartialType DEF DiscardPartial
  <2>2. TaskOK' /\ TasksOK'
    BY <1>3, <2>1, RequestStep DEF DiscardPartial, Trying
  <2> QED
    BY <1>3, <2>1, <2>2 DEF DiscardPartial, DiskOK, RecordsOK
<1>4. CASE ReadCompleted(f)
  <2> DEFINE t == [task[f] EXCEPT !.pc = "verify"]
  <2>1. task' = [task EXCEPT ![f] = t] /\ task[f].tries > 0 /\ UNCHANGED partial
    BY <1>4 DEF ReadCompleted, TaskOK, Trying
  <2>2. task[f] \in TaskType
    BY DEF TaskOK
  <2>3. /\ t \in TaskType /\ t.v = task[f].v /\ t.i = task[f].i
        /\ t.pc = "verify" /\ t.tries = task[f].tries
    BY <2>2 DEF TaskType
  <2>4. TaskOK' /\ task'[f] = t
    BY <2>1, <2>3, TaskStep DEF TaskOK
  <2>5. (TryLeft(f) /\ Replied(f) /\ OnDisk(f))'
    BY <2>1, <2>3, <2>4 DEF TryLeft, Replied, OnDisk
  <2>6. TasksOK'
    BY <2>1, <2>5, OthersKept DEF TasksOK
  <2> QED
    BY <1>1, <1>4, <2>4, <2>6 DEF ReadCompleted, DiskOK, RecordsOK
<1> QED
  BY <1>2, <1>3, <1>4

(* A published file is placed under paths of its variant, and its partial file
   is gone. *)
LEMMA PublishStep ==
    ASSUME Inv, NEW f \in Files, Publish(f), UNCHANGED <<wanted, run>>
    PROVE  Inv'
<1> USE DEF Inv, TypeOK
<1>1. Source(f) \in Paths
  BY SourceInVariant
<1>2. /\ partial' \in [Paths -> Blob \cup {NoFile}] /\ dirs' \in SUBSET Dirs
      /\ \A q \in Paths : q # Source(f) => partial'[q] = partial[q]
  BY <1>1, RemovePartialType DEF Publish, DiskOK
<1>3. partial[Source(f)] \in Blob \cup {NoFile} /\ task[f].reply.date \in Versions \cup {0}
  BY <1>1 DEF DiskOK, TaskOK, TaskType
<1>4. target' \in [Paths -> Blob \cup {NoFile}] /\ mtime' \in [Paths -> Versions \cup {0}]
  BY <1>3, PlaceType DEF Publish
<1>5. TaskOK' /\ TasksOK' /\ RecordsOK'
  BY <1>2, SucceedStep DEF Publish
<1> QED
  BY <1>2, <1>4, <1>5 DEF DiskOK

LEMMA CompletedSteps ==
    ASSUME Inv, NEW f \in Files,
           RecoverCompleted(f) \/ DiscardCompleted(f) \/ Exhausted(f)
    PROVE  Inv'
<1> USE DEF Inv, TypeOK
<1>1. CASE RecoverCompleted(f)
  BY <1>1, PublishStep DEF RecoverCompleted
<1>2. CASE DiscardCompleted(f)
  <2> DEFINE t == [task[f] EXCEPT !.pc = "request", !.error = TRUE]
  <2>1. Source(f) \in Paths
    BY SourceInVariant
  <2>2. /\ partial' \in [Paths -> Blob \cup {NoFile}] /\ dirs' \in SUBSET Dirs
        /\ \A q \in Paths : q # Source(f) => partial'[q] = partial[q]
    BY <1>2, <2>1, RemovePartialType DEF DiscardCompleted, DiskOK
  <2>3. task' = [task EXCEPT ![f] = t] /\ task[f].tries > 0
    BY <1>2 DEF DiscardCompleted, TaskOK, TasksOK, TryLeft
  <2>4. task[f] \in TaskType
    BY DEF TaskOK
  <2>5. /\ t \in TaskType /\ t.v = task[f].v /\ t.i = task[f].i
        /\ t.pc = "request" /\ t.tries = task[f].tries
    BY <2>4 DEF TaskType
  <2>6. TaskOK' /\ task'[f] = t
    BY <2>3, <2>5, TaskStep DEF TaskOK
  <2>7. (TryLeft(f) /\ Replied(f) /\ OnDisk(f))'
    BY <2>3, <2>5, <2>6 DEF TryLeft, Replied, OnDisk
  <2>8. TasksOK'
    BY <2>2, <2>3, <2>7, OthersKept DEF TasksOK
  <2> QED
    BY <1>2, <2>2, <2>6, <2>8 DEF DiscardCompleted, DiskOK, RecordsOK
<1>3. CASE Exhausted(f)
  BY <1>3, NextSourceStep DEF Exhausted, disk, DiskOK
<1> QED
  BY <1>1, <1>2, <1>3

(* An attempt that failed: the partial file is removed or left. *)
LEMMA FailStep ==
    ASSUME Inv, NEW f \in Files, NEW pc \in {"try", "backoff"}, NEW used \in {0, 1},
           NEW failed \in BOOLEAN, task[f].tries > 0,
           Again(f, pc, used, failed),
           RemovePartial(Source(f), dirs) \/ UNCHANGED <<partial, dirs>>,
           UNCHANGED <<target, mtime, outcome, missing, wanted, run>>
    PROVE  Inv'
<1> USE DEF Inv, TypeOK
<1>1. Source(f) \in Paths
  BY SourceInVariant
<1>2. /\ partial' \in [Paths -> Blob \cup {NoFile}] /\ dirs' \in SUBSET Dirs
      /\ \A q \in Paths : q # Source(f) => partial'[q] = partial[q]
  BY <1>1, RemovePartialType DEF DiskOK
<1>3. task[f].tries >= used
  BY DEF TaskOK, TaskType
<1>4. TaskOK' /\ TasksOK'
  BY <1>2, <1>3, AgainStep
<1> QED
  BY <1>2, <1>4 DEF DiskOK, RecordsOK

LEMMA RefusalSteps ==
    ASSUME Inv, NEW f \in Files,
           ReplyRetry(f) \/ ReplyRestart(f) \/ ReplyMissing(f) \/ ReplyError(f)
    PROVE  Inv'
<1>1. TaskOK /\ TasksOK /\ RecordsOK /\ task[f].tries > 0
  BY DEF Inv, TypeOK, TasksOK, TryLeft, ReplyRetry, ReplyRestart, ReplyMissing,
         ReplyError, Answered
<1>2. CASE ReplyRetry(f)
  BY <1>1, <1>2, FailStep DEF ReplyRetry, disk
<1>3. CASE ReplyRestart(f)
  BY <1>1, <1>3, FailStep DEF ReplyRestart
<1>4. CASE ReplyMissing(f)
  <2>1. CASE f \in IgnoreErrors \cup IgnoreMissing
    BY <1>1, <1>4, <2>1, NextSourceStep DEF ReplyMissing, disk, Inv, TypeOK, DiskOK
  <2>2. CASE f \notin IgnoreErrors \cup IgnoreMissing
    BY <1>1, <1>4, <2>2, FailStep DEF ReplyMissing, disk
  <2> QED
    BY <2>1, <2>2
<1>5. CASE ReplyError(f)
  <2>1. CASE f \in IgnoreErrors
    BY <1>1, <1>5, <2>1, NextSourceStep DEF ReplyError, disk, Inv, TypeOK, DiskOK
  <2>2. CASE f \notin IgnoreErrors
    BY <1>1, <1>5, <2>2, FailStep DEF ReplyError, disk
  <2> QED
    BY <2>1, <2>2
<1> QED
  BY <1>2, <1>3, <1>4, <1>5

LEMMA ReplySteps ==
    ASSUME Inv, NEW f \in Files, NEW reply \in Replies,
           \/ ReplyWrongSize(f, reply) \/ ReplyUnmodified(f, reply)
           \/ ReplyResume(f, reply) \/ ReplyWhole(f, reply)
    PROVE  Inv'
<1> USE DEF Inv, TypeOK
<1>1. /\ Source(f) \in Paths
      /\ task[f].tries > 0
      /\ task[f] \in TaskType
  BY SourceInVariant DEF TasksOK, TryLeft, ReplyWrongSize, ReplyUnmodified, Unmodified,
         ReplyResume, ReplyWhole, Answered, TaskOK
<1>2. CASE ReplyWrongSize(f, reply)
  <2>1. CASE f \in IgnoreErrors
    BY <1>2, <2>1, NextSourceStep DEF ReplyWrongSize, disk, DiskOK
  <2>2. CASE f \notin IgnoreErrors
    BY <1>1, <1>2, <2>2, FailStep DEF ReplyWrongSize
  <2> QED
    BY <2>1, <2>2
<1>3. CASE ReplyUnmodified(f, reply)
  <2>1. /\ partial' \in [Paths -> Blob \cup {NoFile}] /\ dirs' \in SUBSET Dirs
        /\ \A q \in Paths : q # Source(f) => partial'[q] = partial[q]
    BY <1>1, <1>3, RemovePartialType DEF ReplyUnmodified, DiskOK
  <2>2. target[Source(f)] \in Blob \cup {NoFile} /\ mtime[Source(f)] \in Versions \cup {0}
    BY <1>1 DEF DiskOK
  <2>3. target' \in [Paths -> Blob \cup {NoFile}] /\ mtime' \in [Paths -> Versions \cup {0}]
    BY <1>3, <2>2, PlaceType DEF ReplyUnmodified
  <2>4. TaskOK' /\ TasksOK' /\ RecordsOK'
    BY <1>3, <2>1, SucceedStep DEF ReplyUnmodified
  <2> QED
    BY <1>3, <2>1, <2>3, <2>4 DEF ReplyUnmodified, DiskOK
<1>4. reply \in [version: Versions \cup {0}, size: 0..MaxBlocks, date: Versions \cup {0}]
      /\ reply.version \in Versions
  BY DEF Replies
<1>5. CASE ReplyResume(f, reply)
  <2> DEFINE t == [task[f] EXCEPT !.pc = "rehash", !.reply = reply]
  <2>1. task' = [task EXCEPT ![f] = t] /\ UNCHANGED partial
    BY <1>5 DEF ReplyResume, TaskOK, disk
  <2>2. t \in TaskType
    BY <1>1, <1>4 DEF TaskType
  <2>3. /\ t.v = task[f].v /\ t.i = task[f].i
        /\ t.pc = "rehash" /\ t.tries = task[f].tries /\ t.reply = reply
    BY <1>1 DEF TaskType
  <2>4. TaskOK' /\ task'[f] = t
    BY <2>1, <2>2, <2>3, TaskStep DEF TaskOK
  <2>5. (TryLeft(f) /\ Replied(f) /\ OnDisk(f))'
    BY <1>1, <1>4, <2>3, <2>4 DEF TryLeft, Replied, OnDisk
  <2>6. TasksOK'
    BY <2>1, <2>5, OthersKept DEF TasksOK
  <2> QED
    BY <1>5, <2>4, <2>6 DEF ReplyResume, disk, DiskOK, RecordsOK
<1>6. CASE ReplyWhole(f, reply)
  <2> DEFINE t == [task[f] EXCEPT !.pc = "open", !.offset = 0, !.reply = reply,
                                  !.seen = <<>>]
  <2>1. task' = [task EXCEPT ![f] = t] /\ UNCHANGED partial
    BY <1>6 DEF ReplyWhole, TaskOK, disk
  <2>a. [task[f] EXCEPT !.pc = "open", !.offset = 0] \in TaskType
    BY <1>1 DEF TaskType
  <2>b. [task[f] EXCEPT !.pc = "open", !.offset = 0, !.reply = reply] \in TaskType
    BY <1>4, <2>a DEF TaskType
  <2>c. <<>> \in Blob
    BY DEF Blob
  <2>2. t \in TaskType
    BY <2>b, <2>c DEF TaskType
  <2>3. /\ t.v = task[f].v /\ t.i = task[f].i /\ t.offset = 0 /\ t.seen = <<>>
        /\ t.pc = "open" /\ t.tries = task[f].tries /\ t.reply = reply
    BY <1>1 DEF TaskType
  <2>4. TaskOK' /\ task'[f] = t
    BY <2>1, <2>2, <2>3, TaskStep DEF TaskOK
  <2>5. (TryLeft(f) /\ Replied(f) /\ OnDisk(f))'
    BY <1>1, <1>4, <2>3, <2>4 DEF TryLeft, Replied, OnDisk
  <2>6. TasksOK'
    BY <2>1, <2>5, OthersKept DEF TasksOK
  <2> QED
    BY <1>6, <2>4, <2>6 DEF ReplyWhole, disk, DiskOK, RecordsOK
<1> QED
  BY <1>2, <1>3, <1>5, <1>6

LEMMA OpenSteps ==
    ASSUME Inv, NEW f \in Files, Rehash(f) \/ OpenPartial(f) \/ OpenFails(f)
    PROVE  Inv'
<1> USE DEF Inv, TypeOK
<1> DEFINE p == Source(f)
<1>1. p \in Paths /\ task[f] \in TaskType
  BY SourceInVariant DEF TaskOK
<1>2. CASE Rehash(f)
  <2>1. task[f].tries > 0
    BY <1>2 DEF Rehash, TasksOK, TryLeft
  <2>2. CASE partial[p] # NoFile /\ Len(partial[p]) = task[f].offset
    <3> DEFINE t == [task[f] EXCEPT !.pc = "open", !.seen = partial[p]]
    <3>1. task' = [task EXCEPT ![f] = t] /\ UNCHANGED <<partial, dirs>>
      BY <1>2, <2>2 DEF Rehash, TaskOK
    <3>2. partial[p] \in Seq(Versions)
      BY <1>1, <2>2 DEF DiskOK, Blob
    <3>3. t \in TaskType
      BY <1>1, <3>2 DEF TaskType, Blob
    <3>4. /\ t.v = task[f].v /\ t.i = task[f].i /\ t.offset = task[f].offset
          /\ t.seen = partial[p] /\ t.pc = "open" /\ t.tries = task[f].tries
          /\ t.reply = task[f].reply
      BY <1>1 DEF TaskType
    <3>5. TaskOK' /\ task'[f] = t /\ Source(f)' = p
      BY <3>1, <3>3, <3>4, TaskStep DEF TaskOK, Source
    <3>6. partial[p] = IF t.offset > 0 THEN partial[p] ELSE <<>>
      BY <1>1, <2>2, <3>2, <3>4 DEF TaskType
    <3>7. task[f].reply.version \in Versions
      BY <1>2 DEF Rehash, TasksOK, Replied
    <3>8. (TryLeft(f) /\ Replied(f) /\ OnDisk(f))'
      BY <2>1, <3>1, <3>4, <3>5, <3>6, <3>7 DEF TryLeft, Replied, OnDisk
    <3>9. TasksOK'
      BY <3>1, <3>8, OthersKept DEF TasksOK
    <3> QED
      BY <1>2, <3>1, <3>5, <3>9 DEF Rehash, DiskOK, RecordsOK
  <2>3. CASE ~(partial[p] # NoFile /\ Len(partial[p]) = task[f].offset)
    BY <1>2, <2>1, <2>3, FailStep DEF Rehash
  <2> QED
    BY <2>2, <2>3
<1>3. CASE OpenPartial(f)
  <2> DEFINE t == [task[f] EXCEPT !.pc = "stream"]
  <2>1. task' = [task EXCEPT ![f] = t]
    BY <1>3 DEF OpenPartial, TaskOK
  <2>2. t \in TaskType
    BY <1>1 DEF TaskType
  <2>3. /\ t.v = task[f].v /\ t.i = task[f].i /\ t.seen = task[f].seen
        /\ t.pc = "stream" /\ t.tries = task[f].tries /\ t.reply = task[f].reply
    BY <1>1 DEF TaskType
  <2>4. TaskOK' /\ task'[f] = t /\ Source(f)' = p
    BY <2>1, <2>2, <2>3, TaskStep DEF TaskOK, Source
  <2>5. /\ task[f].seen = IF task[f].offset > 0 THEN partial[p] ELSE <<>>
        /\ task[f].tries > 0 /\ task[f].reply.version \in Versions
    BY <1>3 DEF OpenPartial, TasksOK, OnDisk, TryLeft, Replied
  <2>6. task[f].seen \in Blob
    BY <1>1 DEF TaskType
  <2>7. partial' = [partial EXCEPT ![p] = task[f].seen]
    BY <1>1, <1>3, <2>5, <2>6, BoundAssumption DEF OpenPartial, DiskOK
  <2>8. (TryLeft(f) /\ Replied(f) /\ OnDisk(f))'
    BY <1>1, <2>3, <2>4, <2>5, <2>7 DEF TryLeft, Replied, OnDisk, DiskOK
  <2>9. TasksOK'
    BY <2>1, <2>7, <2>8, OthersKept DEF TasksOK, DiskOK
  <2> QED
    BY <1>3, <2>4, <2>6, <2>7, <2>9 DEF OpenPartial, DiskOK, RecordsOK
<1>4. CASE OpenFails(f)
  <2>1. TaskOK' /\ TasksOK'
    BY <1>4, ReturnStep DEF OpenFails, disk
  <2> QED
    BY <1>4, <2>1 DEF OpenFails, disk, Return, RecordsOK, Outcomes, DiskOK
<1> QED
  BY <1>2, <1>3, <1>4

LEMMA BodySteps ==
    ASSUME Inv, NEW f \in Files,
           \/ Chunk(f) \/ BodyFails(f) \/ BodyMismatches(f) \/ BodyMissized(f)
           \/ BodyComplete(f) \/ Wake(f)
    PROVE  Inv'
<1> USE DEF Inv, TypeOK
<1> DEFINE p == Source(f)
<1>1. p \in Paths /\ task[f] \in TaskType
  BY SourceInVariant DEF TaskOK
<1>2. task[f].pc = "stream" => /\ task[f].tries > 0
                               /\ task[f].reply.version \in Versions
                               /\ partial[p] = task[f].seen
  BY DEF TasksOK, TryLeft, Replied, OnDisk
<1>3. CASE Chunk(f)
  <2> DEFINE block == task[f].reply.version
             t == [task[f] EXCEPT !.seen = Append(@, block)]
  <2>1. task' = [task EXCEPT ![f] = t]
    BY <1>3 DEF Chunk, TaskOK
  <2>2. Append(task[f].seen, block) \in Blob
    BY <1>1, <1>2, <1>3 DEF Chunk, TaskType, Blob
  <2>3. t \in TaskType
    BY <1>1, <2>2 DEF TaskType
  <2>4. /\ t.v = task[f].v /\ t.i = task[f].i /\ t.seen = Append(task[f].seen, block)
        /\ t.pc = task[f].pc /\ t.tries = task[f].tries /\ t.reply = task[f].reply
    BY <1>1 DEF TaskType
  <2>5. TaskOK' /\ task'[f] = t /\ Source(f)' = p
    BY <2>1, <2>3, <2>4, TaskStep DEF TaskOK, Source
  <2>6. partial' = [partial EXCEPT ![p] = Append(task[f].seen, block)]
    BY <1>2, <1>3 DEF Chunk
  <2>7. (TryLeft(f) /\ Replied(f) /\ OnDisk(f))'
    BY <1>1, <1>2, <1>3, <2>4, <2>5, <2>6 DEF Chunk, TryLeft, Replied, OnDisk, DiskOK
  <2>8. TasksOK'
    BY <2>1, <2>6, <2>7, OthersKept DEF TasksOK, DiskOK
  <2> QED
    BY <1>3, <2>2, <2>5, <2>6, <2>8 DEF Chunk, DiskOK, RecordsOK
<1>4. CASE BodyFails(f)
  BY <1>2, <1>4, FailStep DEF BodyFails, disk
<1>5. CASE BodyMismatches(f)
  BY <1>2, <1>5, FailStep DEF BodyMismatches
<1>6. CASE BodyMissized(f)
  BY <1>2, <1>6, FailStep DEF BodyMissized
<1>7. CASE BodyComplete(f)
  BY <1>7, PublishStep DEF BodyComplete
<1>8. CASE Wake(f)
  <2> DEFINE t == [task[f] EXCEPT !.pc = "try"]
  <2>1. task' = [task EXCEPT ![f] = t]
    BY <1>8 DEF Wake, TaskOK
  <2>2. t \in TaskType /\ t.v = task[f].v /\ t.i = task[f].i /\ t.pc = "try"
    BY <1>1 DEF TaskType
  <2>3. TaskOK' /\ TasksOK'
    BY <1>8, <2>1, <2>2, IdleStep DEF Wake, disk, TaskOK
  <2> QED
    BY <1>8, <2>3 DEF Wake, disk, RecordsOK, DiskOK
<1> QED
  BY <1>3, <1>4, <1>5, <1>6, <1>7, <1>8

LEMMA ProcessSteps ==
    ASSUME Inv,
           \/ Restart
           \/ \E f \in Files, blob \in Blob \cup {NoFile}, time \in Versions \cup {0} :
                 \E k, unlinked : KilledWhileLinking(f, blob, time, k, unlinked)
    PROVE  Inv'
<1> USE DEF Inv, TypeOK
<1>1. NewProcess
  BY DEF Restart, KilledWhileLinking
<1>2. TaskOK' /\ TasksOK'
  <2>1. Queued \in TaskType /\ Queued.v = 1 /\ Queued.i = 1 /\ Queued.pc = "queued"
    BY BoundAssumption DEF Queued, Standing, TaskType, NoReply, Blob
  <2>2. task' = [f \in Files |-> Queued]
    BY <1>1 DEF NewProcess
  <2> QED
    BY <2>1, <2>2, FirstSource DEF TaskOK, TasksOK, TryLeft, Replied, OnDisk
<1>3. RecordsOK' /\ wanted' \in [Paths -> Versions] /\ run' \in Nat
  BY <1>1 DEF NewProcess, RecordsOK, Outcomes, Indexes
<1>4. DiskOK'
  <2>1. CASE Restart
    BY <2>1 DEF Restart, disk, DiskOK
  <2>2. ASSUME NEW f \in Files, NEW blob \in Blob \cup {NoFile},
               NEW time \in Versions \cup {0}, NEW k, NEW unlinked,
               KilledWhileLinking(f, blob, time, k, unlinked)
        PROVE  DiskOK'
    <3>1. partial' \in [Paths -> Blob \cup {NoFile}] /\ dirs' \in SUBSET Dirs
      BY <2>2, SourceInVariant, RemovePartialType DEF KilledWhileLinking, DiskOK
    <3> QED
      BY <2>2, <3>1 DEF KilledWhileLinking, DiskOK
  <2> QED
    BY <2>1, <2>2
<1> QED
  BY <1>2, <1>3, <1>4

(* What a process killed among its links was linking. *)
LEMMA KilledIsLinking ==
    ASSUME Inv, NEW f \in Files, NEW k, NEW unlinked,
           KilledInPublish(f, k, unlinked) \/ KilledInUnmodified(f, k, unlinked)
    PROVE  \E blob \in Blob \cup {NoFile}, time \in Versions \cup {0} :
              KilledWhileLinking(f, blob, time, k, unlinked)
<1> USE DEF Inv, TypeOK
<1>1. /\ Source(f) \in Paths
      /\ partial[Source(f)] \in Blob \cup {NoFile} /\ task[f].reply.date \in Versions \cup {0}
      /\ target[Source(f)] \in Blob \cup {NoFile} /\ mtime[Source(f)] \in Versions \cup {0}
  BY SourceInVariant DEF DiskOK, TaskOK, TaskType
<1> QED
  BY <1>1 DEF KilledInPublish, KilledInUnmodified

LEMMA InvInit == Init => Inv
<1> SUFFICES ASSUME Init PROVE Inv
  OBVIOUS
<1>1. Queued \in TaskType /\ Queued.v = 1 /\ Queued.i = 1 /\ Queued.pc = "queued"
  BY BoundAssumption DEF Queued, Standing, TaskType, NoReply, Blob
<1>2. TaskOK /\ TasksOK
  BY <1>1, FirstSource DEF Init, TaskOK, TasksOK, TryLeft, Replied, OnDisk
<1>3. ASSUME NEW p \in Paths, NEW v \in Versions
      PROVE  Earlier(p, v) \in Blob
  BY PlanAssumption DEF Earlier, Full, Blob
<1>4. DiskOK
  <2>1. PICK old \in Indexes, present \in SUBSET Mirrored :
           LET has(p) == \E f \in present : p \in FilePaths(f) IN
           /\ target = [p \in Paths |-> IF has(p) THEN Earlier(p, old[p]) ELSE NoFile]
           /\ mtime = [p \in Paths |-> IF has(p) THEN old[p] ELSE 0]
    BY DEF Init
  <2>2. old \in [Paths -> Versions]
    BY DEF Indexes
  <2>3. target \in [Paths -> Blob \cup {NoFile}] /\ mtime \in [Paths -> Versions \cup {0}]
    BY <1>3, <2>1, <2>2
  <2> QED
    BY <2>3 DEF Init, DiskOK
<1>5. RecordsOK /\ wanted \in [Paths -> Versions] /\ run \in Nat
  BY DEF Init, RecordsOK, Outcomes, Indexes
<1> QED
  BY <1>2, <1>4, <1>5 DEF Inv, TypeOK

LEMMA InvNext == Inv /\ [Next]_vars => Inv'
<1> SUFFICES ASSUME Inv, [Next]_vars PROVE Inv'
  OBVIOUS
<1>1. ASSUME NEW f \in Files, Reply(f)
      PROVE  Inv'
  BY <1>1, RefusalSteps, ReplySteps DEF Reply
<1>2. ASSUME NEW f \in Files, Proceed(f)
      PROVE  Inv'
  BY <1>2, QueueSteps, PrepareSteps, CompletedSteps, OpenSteps, BodySteps DEF Proceed
<1>3. CASE Restart
  BY <1>3, ProcessSteps
<1>4. ASSUME NEW f \in Files, NEW k, NEW unlinked,
             KilledInPublish(f, k, unlinked) \/ KilledInUnmodified(f, k, unlinked)
      PROVE  Inv'
  BY <1>4, KilledIsLinking, ProcessSteps
<1>5. CASE UNCHANGED vars
  BY <1>5 DEF vars, Inv, TypeOK, TaskOK, DiskOK, RecordsOK, TasksOK, TryLeft, Replied,
              OnDisk, Source
<1> QED
  BY <1>1, <1>2, <1>3, <1>4, <1>5 DEF Next, Terminated

(* Whatever the files, servers and crashes, every variable keeps its type and
   what a task has hashed is what is in its partial file. *)
THEOREM TypesAndHashes == Spec => []Inv
BY InvInit, InvNext, PTL DEF Spec

(* Tasks, responses, counters and the disk keep their types through every retry, failure and
   restart of the downloader. *)
THEOREM TypeCorrect == Spec => []TypeOK
<1>1. Inv => TypeOK
  BY DEF Inv
<1> QED
  BY <1>1, TypesAndHashes, PTL

------------------------------------------------------------------------------
(* A published file is whole *)

Whole(p, blob) == \E v \in Versions : blob = Full(p, v)

(* The paths of a variant are names of one file: one size, and a digest for all
   or none. *)
LEMMA NamesOfOneFile ==
    ASSUME TaskOK, NEW f \in Files, NEW q \in Variant(f), q \in Hashed
    PROVE  /\ Source(f) \in Hashed
           /\ \A v \in Versions : Full(q, v) = Full(Source(f), v)
<1>1. Source(f) \in Variant(f) /\ task[f].v \in DOMAIN Variants[f]
  BY SourceInVariant DEF TaskOK
<1>2. Size[q] = Size[Source(f)] /\ (q \in Hashed <=> Source(f) \in Hashed)
  BY <1>1, PlanAssumption DEF Variant
<1> QED
  BY <1>2 DEF Full

(* What is about to be published has been hashed, on disk. *)
LEMMA PublishedIsHashed ==
    ASSUME Inv, NEW f \in Files, Complete(f) \/ Recoverable(f), Source(f) \in Hashed
    PROVE  Whole(Source(f), partial[Source(f)])
<1>1. partial[Source(f)] = Full(Source(f), wanted[Source(f)])
  BY DEF Inv, TasksOK, OnDisk, Complete, Recoverable, HashesMatch
<1>2. wanted[Source(f)] \in Versions
  BY SourceInVariant DEF Inv, TypeOK
<1> QED
  BY <1>1, <1>2 DEF Whole

(* Putting a whole file, or none, at paths of a variant of it keeps the tree whole. *)
LEMMA PlacedIsWhole ==
    ASSUME Inv, PublishedWhole, NEW f \in Files, NEW blob,
           Source(f) \in Hashed => (blob = NoFile \/ Whole(Source(f), blob)),
           \A q \in Hashed : \/ target'[q] = target[q]
                             \/ target'[q] = NoFile
                             \/ q \in Variant(f) /\ target'[q] = blob
    PROVE  PublishedWhole'
<1> SUFFICES ASSUME NEW q \in Hashed, target'[q] # NoFile
             PROVE  \E v \in Versions : target'[q] = Full(q, v)
  BY DEF PublishedWhole
<1>1. CASE target'[q] = target[q]
  BY <1>1 DEF PublishedWhole
<1>2. CASE q \in Variant(f) /\ target'[q] = blob
  BY <1>2, NamesOfOneFile DEF Inv, TypeOK, Whole
<1> QED
  BY <1>1, <1>2

LEMMA WholeNext == Inv /\ PublishedWhole /\ [Next]_vars => PublishedWhole'
<1> SUFFICES ASSUME Inv, PublishedWhole, [Next]_vars PROVE PublishedWhole'
  OBVIOUS
<1>1. ASSUME UNCHANGED target PROVE PublishedWhole'
  BY <1>1 DEF PublishedWhole
<1>2. Hashed \subseteq Paths
  BY BoundAssumption
<1>3. ASSUME NEW f \in Files, RecoverCompleted(f) \/ BodyComplete(f)
      PROVE  PublishedWhole'
  <2>1. Complete(f) \/ Recoverable(f)
    BY <1>3 DEF RecoverCompleted, BodyComplete
  <2>2. \A q \in Hashed : \/ target'[q] = target[q]
                          \/ q \in Variant(f) /\ target'[q] = partial[Source(f)]
    <3>1. Place(Variant(f), partial[Source(f)], task[f].reply.date)
      BY <1>3 DEF RecoverCompleted, BodyComplete, Publish
    <3> QED
      BY <1>2, <3>1 DEF Place
  <2> QED
    BY <2>1, <2>2, PublishedIsHashed, PlacedIsWhole
<1>4. ASSUME NEW f \in Files PROVE Source(f) \in Hashed =>
            target[Source(f)] = NoFile \/ Whole(Source(f), target[Source(f)])
  BY DEF PublishedWhole, Whole
<1>5. ASSUME NEW f \in Files, NEW reply \in Replies, ReplyUnmodified(f, reply)
      PROVE  PublishedWhole'
  <2>1. \A q \in Hashed : \/ target'[q] = target[q]
                          \/ q \in Variant(f) /\ target'[q] = target[Source(f)]
    <3>1. Place(Variant(f), target[Source(f)], mtime[Source(f)])
      BY <1>5 DEF ReplyUnmodified
    <3> QED
      BY <1>2, <3>1 DEF Place
  <2> QED
    BY <1>4, <2>1, PlacedIsWhole
<1>6. ASSUME NEW f \in Files, NEW k \in DOMAIN Variants[f][task[f].v], NEW unlinked,
             KilledInPublish(f, k, unlinked) \/ KilledInUnmodified(f, k, unlinked)
      PROVE  PublishedWhole'
  <2>1. PICK blob : /\ Source(f) \in Hashed => blob = NoFile \/ Whole(Source(f), blob)
                    /\ \E time : KilledWhileLinking(f, blob, time, k, unlinked)
    BY <1>4, <1>6, PublishedIsHashed DEF KilledInPublish, KilledInUnmodified
  <2>2. \A j \in 1..(k - 1) : Variants[f][task[f].v][j] \in Variant(f)
    <3>1. Variants[f][task[f].v] \in Seq(Paths)
      BY PlanAssumption DEF Inv, TypeOK, TaskOK
    <3> QED
      BY <1>6, <3>1 DEF Variant, VariantPaths
  <2>3. Source(f) \in Variant(f)
    BY SourceInVariant DEF Inv, TypeOK
  <2>4. \A q \in Hashed : \/ target'[q] = target[q]
                          \/ target'[q] = NoFile
                          \/ q \in Variant(f) /\ target'[q] = blob
    BY <1>2, <2>1, <2>2, <2>3 DEF KilledWhileLinking
  <2> QED
    BY <2>1, <2>4, PlacedIsWhole
<1>7. ASSUME NEW f \in Files, Proceed(f), ~RecoverCompleted(f), ~BodyComplete(f)
      PROVE  UNCHANGED target
  BY <1>7 DEF Proceed, SkipUnmodified, Start, Prepare, DiscardPartial, ReadCompleted,
              Exhausted, DiscardCompleted, Rehash, OpenPartial, OpenFails, Chunk,
              BodyFails, BodyMismatches, BodyMissized, Wake, disk
<1>8. ASSUME NEW f \in Files, Reply(f),
             \A reply \in Replies : ~ReplyUnmodified(f, reply)
      PROVE  UNCHANGED target
  BY <1>8 DEF Reply, ReplyRetry, ReplyRestart, ReplyMissing, ReplyError, ReplyWrongSize,
              ReplyResume, ReplyWhole, disk
<1> QED
  BY <1>1, <1>3, <1>5, <1>6, <1>7, <1>8 DEF Next, Restart, Terminated, disk, vars

LEMMA WholeInit == Init => PublishedWhole
<1> SUFFICES ASSUME Init, NEW p \in Hashed, target[p] # NoFile
             PROVE  \E v \in Versions : target[p] = Full(p, v)
  BY DEF PublishedWhole
<1>1. PICK old \in Indexes, present \in SUBSET Mirrored :
         LET has(q) == \E f \in present : q \in FilePaths(f) IN
         target = [q \in Paths |-> IF has(q) THEN Earlier(q, old[q]) ELSE NoFile]
  BY DEF Init
<1>2. p \in Paths /\ old \in [Paths -> Versions]
  BY BoundAssumption DEF Indexes
<1>3. target[p] = Earlier(p, old[p])
  BY <1>1, <1>2
<1> QED
  BY <1>2, <1>3 DEF Earlier

(* No published file with a digest is ever a mixture of versions, or short, for
   any number of files, variants, tries and processes. *)
THEOREM PublishedFilesWhole == Spec => []PublishedWhole
<1>1. Init => Inv /\ PublishedWhole
  BY InvInit, WholeInit
<1>2. Inv /\ PublishedWhole /\ [Next]_vars => (Inv /\ PublishedWhole)'
  BY InvNext, WholeNext
<1> QED
  BY <1>1, <1>2, PTL DEF Spec
------------------------------------------------------------------------------
(* What the process records of a file *)

(* A variant of f is there under all its names, and is what the index of this process
   promises, or is only there. *)
There(f, v) == \A p \in VariantPaths(f, v) : target[p] # NoFile /\ p \notin missing
Promised(f, v) == \A p \in VariantPaths(f, v) : p \in Hashed => target[p] = Full(p, wanted[p])

(* A partial file that is hashed before any request has its whole size. *)
Recovering(blob, p) == blob # NoFile /\ Len(blob) = Size[p]

Noted(f) ==
    /\ task[f].pc # "done" => outcome[f] = "none"
    /\ task[f].pc = "verify" => Recovering(partial[Source(f)], Source(f))
    /\ outcome[f] = "downloaded" => \E v \in DOMAIN Variants[f] : There(f, v) /\ Promised(f, v)
    /\ outcome[f] = "unmodified" => \E v \in DOMAIN Variants[f] : There(f, v)
    /\ outcome[f] \in {"missing", "error"} => FilePaths(f) \subseteq missing

AllNoted == wanted \in Indexes /\ \A f \in Files : Noted(f)

LEMMA NotedInit == Init => AllNoted
<1> SUFFICES ASSUME Init PROVE AllNoted
  OBVIOUS
<1>1. Queued.pc = "queued"
  BY DEF Queued, Standing
<1>2. \A f \in Files : task[f].pc = "queued" /\ outcome[f] = "none"
  BY <1>1 DEF Init
<1> QED
  BY <1>2 DEF AllNoted, Noted, Init

(* What a step of the task of f may do to the records. *)
Within(f) ==
    /\ task[f].pc # "done" /\ UNCHANGED wanted
    /\ \A g \in Files : g # f => task'[g] = task[g] /\ outcome'[g] = outcome[g]
    /\ \A q \in Paths : q # Source(f) => partial'[q] = partial[q]

Goes(f) ==
    /\ UNCHANGED <<target, missing, outcome>> /\ task'[f].pc # "done"
    /\ task'[f].pc = "verify" => Recovering(partial'[Source(f)'], Source(f)')

Leaves(f) ==
    /\ UNCHANGED <<target, missing>>
    /\ task'[f].pc = "done" /\ outcome'[f] \in {"unchecked", "lost"}

Gives(f) ==
    /\ UNCHANGED target /\ task'[f].pc = "done"
    /\ \/ outcome'[f] = "ignored" /\ UNCHANGED missing
       \/ outcome'[f] \in {"missing", "error"} /\ missing' = missing \cup FilePaths(f)

Places(f, blob) ==
    /\ blob # NoFile
    /\ target' = [q \in Paths |-> IF q \in Variant(f) THEN blob ELSE target[q]]
    /\ missing' = missing \ Variant(f)
    /\ task'[f].pc = "done" /\ outcome'[f] \in {"downloaded", "unmodified"}
    /\ outcome'[f] = "downloaded" /\ Source(f) \in Hashed => blob = Full(Source(f), wanted[Source(f)])

Records(f) == Goes(f) \/ Leaves(f) \/ Gives(f) \/ \E blob : Places(f, blob)

LEMMA ReturnRecords ==
    ASSUME Inv, NEW f \in Files, NEW o, Return(f, o)
    PROVE  /\ task'[f].pc = "done" /\ outcome'[f] = o
           /\ \A g \in Files : g # f => task'[g] = task[g] /\ outcome'[g] = outcome[g]
  BY DEF Inv, TypeOK, TaskOK, RecordsOK, Return, Standing

LEMMA AgainRecords ==
    ASSUME Inv, NEW f \in Files, NEW pc \in {"try", "backoff"}, NEW used, NEW failed,
           Again(f, pc, used, failed), UNCHANGED <<target, missing, outcome>>
    PROVE  /\ Goes(f)
           /\ \A g \in Files : g # f => task'[g] = task[g] /\ outcome'[g] = outcome[g]
<1>1. task'[f].pc = pc /\ \A g \in Files : g # f => task'[g] = task[g]
  BY DEF Inv, TypeOK, TaskOK, Again, Standing
<1> QED
  BY <1>1 DEF Goes

LEMMA NextSourceRecords ==
    ASSUME Inv, NEW f \in Files, NextSource(f), UNCHANGED target
    PROVE  /\ Goes(f) \/ Gives(f)
           /\ \A g \in Files : g # f => task'[g] = task[g] /\ outcome'[g] = outcome[g]
<1>1. CASE GiveUp(f)
  <2>1. PICK kind : /\ kind \in {"ignored", "error", "missing"} /\ Return(f, kind)
                    /\ missing' = IF kind = "ignored" THEN missing ELSE missing \cup FilePaths(f)
    BY <1>1 DEF GiveUp
  <2> QED
    BY <2>1, ReturnRecords DEF Gives
<1>2. ASSUME NEW v, NEW i, task' = [task EXCEPT ![f] = Standing("try", v, i, Tries, task[f].error)],
             UNCHANGED <<outcome, missing>>
      PROVE  Goes(f) /\ \A g \in Files : g # f => task'[g] = task[g] /\ outcome'[g] = outcome[g]
  <2>1. task'[f].pc = "try" /\ \A g \in Files : g # f => task'[g] = task[g]
    BY <1>2 DEF Inv, TypeOK, TaskOK, Standing
  <2> QED
    BY <1>2, <2>1 DEF Goes
<1> QED
  BY <1>1, <1>2 DEF NextSource

LEMMA PartialRemoved ==
    ASSUME Inv, NEW p, NEW ds, RemovePartial(p, ds)
    PROVE  \A q \in Paths : q # p => partial'[q] = partial[q]
  BY DEF Inv, TypeOK, DiskOK, RemovePartial

(* The task goes on, with a field or two of its state changed. *)
LEMMA TaskGoes ==
    ASSUME Inv, NEW f \in Files, NEW t, task' = [task EXCEPT ![f] = t],
           t.pc \notin {"done", "verify"}, UNCHANGED <<target, missing, outcome>>
    PROVE  /\ Goes(f)
           /\ \A g \in Files : g # f => task'[g] = task[g] /\ outcome'[g] = outcome[g]
  BY DEF Inv, TypeOK, TaskOK, Goes

LEMMA PublishRecords ==
    ASSUME Inv, NEW f \in Files, Noted(f), Publish(f), Complete(f) \/ Recoverable(f)
    PROVE  /\ \E blob : Places(f, blob)
           /\ \A q \in Paths : q # Source(f) => partial'[q] = partial[q]
           /\ \A g \in Files : g # f => task'[g] = task[g] /\ outcome'[g] = outcome[g]
<1> DEFINE blob == partial[Source(f)]
<1>1. blob # NoFile
  <2>1. CASE Complete(f)
    <3>1. blob = task[f].seen /\ task[f].seen \in Blob
      BY <2>1 DEF Inv, TypeOK, TaskOK, TaskType, TasksOK, OnDisk, Complete
    <3> QED
      BY <3>1, BoundAssumption
  <2>2. CASE Recoverable(f)
    BY <2>2 DEF Recoverable, Noted, Recovering
  <2> QED
    BY <2>1, <2>2
<1>2. Source(f) \in Hashed => blob = Full(Source(f), wanted[Source(f)])
  BY DEF Inv, TasksOK, OnDisk, Complete, Recoverable, HashesMatch
<1>3. /\ target' = [q \in Paths |-> IF q \in Variant(f) THEN blob ELSE target[q]]
      /\ missing' = missing \ Variant(f) /\ Return(f, "downloaded") /\ RemovePartial(Source(f), dirs)
  BY DEF Publish, Place, Succeed
<1>4. /\ task'[f].pc = "done" /\ outcome'[f] = "downloaded"
      /\ \A g \in Files : g # f => task'[g] = task[g] /\ outcome'[g] = outcome[g]
  BY <1>3, ReturnRecords
<1>5. Places(f, blob)
  BY <1>1, <1>2, <1>3, <1>4 DEF Places
<1> QED
  BY <1>3, <1>4, <1>5, PartialRemoved

(* Proceed, and Reply, of one task. *)
LEMMA ProceedRecords ==
    ASSUME Inv, NEW f \in Files, Noted(f), Proceed(f)
    PROVE  Within(f) /\ Records(f)
<1> DEFINE Rest == \A g \in Files : g # f => task'[g] = task[g] /\ outcome'[g] = outcome[g]
           Parts == \A q \in Paths : q # Source(f) => partial'[q] = partial[q]
<1>0. /\ task[f] \in TaskType /\ task \in [Files -> TaskType]
      /\ partial \in [Paths -> Blob \cup {NoFile}]
  BY DEF Inv, TypeOK, TaskOK, DiskOK
<1>1. CASE SkipUnmodified(f)
  <2>1. task'[f].pc = "done" /\ outcome'[f] = "unchecked" /\ Rest
    BY <1>1, ReturnRecords DEF SkipUnmodified
  <2> QED
    BY <1>1, <2>1 DEF SkipUnmodified, disk, Within, Records, Leaves
<1>2. CASE OpenFails(f)
  <2>1. task'[f].pc = "done" /\ outcome'[f] = "lost" /\ Rest
    BY <1>2, ReturnRecords DEF OpenFails
  <2> QED
    BY <1>2, <2>1 DEF OpenFails, disk, Within, Records, Leaves
<1>3. CASE Start(f) \/ Wake(f)
  <2>1. task' = [task EXCEPT ![f] = [task[f] EXCEPT !.pc = "try"]]
    BY <1>0, <1>3 DEF Start, Wake
  <2>2. [task[f] EXCEPT !.pc = "try"].pc = "try"
    BY <1>0 DEF TaskType
  <2>3. Goes(f) /\ Rest
    BY <1>3, <2>1, <2>2, TaskGoes DEF Start, Wake, disk
  <2> QED
    BY <1>3, <2>3 DEF Start, Wake, disk, Within, Records
<1>4. CASE Prepare(f)
  <2>1. PICK n : task' = Request(f, n)
    BY <1>4 DEF Prepare
  <2>2. task' = [task EXCEPT ![f] = [task[f] EXCEPT !.pc = "request", !.offset = n]]
    BY <1>0, <2>1 DEF Request
  <2>3. [task[f] EXCEPT !.pc = "request", !.offset = n].pc = "request"
    BY <1>0 DEF TaskType
  <2>4. Goes(f) /\ Rest
    BY <1>4, <2>2, <2>3, TaskGoes DEF Prepare
  <2> QED
    BY <1>4, <2>4 DEF Prepare, Trying, Within, Records
<1>5. CASE DiscardPartial(f)
  <2>1. task' = [task EXCEPT ![f] = [task[f] EXCEPT !.pc = "request", !.offset = 0]]
    BY <1>0, <1>5 DEF DiscardPartial, Request
  <2>2. [task[f] EXCEPT !.pc = "request", !.offset = 0].pc = "request"
    BY <1>0 DEF TaskType
  <2>3. Goes(f) /\ Rest
    BY <1>5, <2>1, <2>2, TaskGoes DEF DiscardPartial
  <2>4. Parts
    BY <1>5, PartialRemoved DEF DiscardPartial
  <2> QED
    BY <1>5, <2>3, <2>4 DEF DiscardPartial, Trying, Within, Records
<1>6. CASE ReadCompleted(f)
  <2> DEFINE t == [task[f] EXCEPT !.pc = "verify"]
  <2>1. task' = [task EXCEPT ![f] = t] /\ UNCHANGED <<partial, target, missing, outcome, wanted>>
    BY <1>0, <1>6 DEF ReadCompleted
  <2>2. t.pc = "verify" /\ t.v = task[f].v /\ t.i = task[f].i
    BY <1>0 DEF TaskType
  <2> HIDE DEF t
  <2>3. task'[f] = t /\ Rest
    BY <1>0, <2>1
  <2>4. Source(f)' = Source(f)
    BY <2>2, <2>3 DEF Source
  <2>5. Recovering(partial[Source(f)], Source(f))
    BY <1>6 DEF ReadCompleted, Resumable, Recovering
  <2>6. Goes(f)
    BY <2>1, <2>2, <2>3, <2>4, <2>5 DEF Goes
  <2> QED
    BY <1>6, <2>1, <2>3, <2>6 DEF ReadCompleted, Trying, Within, Records
<1>7. CASE Exhausted(f)
  <2>1. (Goes(f) \/ Gives(f)) /\ Rest
    BY <1>7, NextSourceRecords DEF Exhausted, disk
  <2> QED
    BY <1>7, <2>1 DEF Exhausted, disk, Within, Records
<1>8. CASE RecoverCompleted(f) \/ BodyComplete(f)
  <2>1. /\ Publish(f) /\ UNCHANGED wanted /\ task[f].pc # "done"
        /\ Complete(f) \/ Recoverable(f)
    BY <1>8 DEF RecoverCompleted, BodyComplete, Complete, Recoverable
  <2> QED
    BY <2>1, PublishRecords DEF Within, Records
<1>9. CASE DiscardCompleted(f)
  <2>1. task' = [task EXCEPT ![f] = [task[f] EXCEPT !.pc = "request", !.error = TRUE]]
    BY <1>0, <1>9 DEF DiscardCompleted
  <2>2. [task[f] EXCEPT !.pc = "request", !.error = TRUE].pc = "request"
    BY <1>0 DEF TaskType
  <2>3. Goes(f) /\ Rest
    BY <1>9, <2>1, <2>2, TaskGoes DEF DiscardCompleted
  <2>4. Parts
    BY <1>9, PartialRemoved DEF DiscardCompleted
  <2> QED
    BY <1>9, <2>3, <2>4 DEF DiscardCompleted, Within, Records
<1>10. CASE Rehash(f)
  <2>1. UNCHANGED <<target, missing, outcome, wanted>> /\ task[f].pc # "done"
    BY <1>10 DEF Rehash
  <2>2. CASE UNCHANGED partial /\ task' = [task EXCEPT ![f].pc = "open", ![f].seen = partial[Source(f)]]
    <3>1. task' = [task EXCEPT ![f] = [task[f] EXCEPT !.pc = "open", !.seen = partial[Source(f)]]]
      BY <1>0, <2>2
    <3>2. [task[f] EXCEPT !.pc = "open", !.seen = partial[Source(f)]].pc = "open"
      BY <1>0 DEF TaskType
    <3>3. Goes(f) /\ Rest
      BY <2>1, <3>1, <3>2, TaskGoes
    <3> QED
      BY <2>1, <2>2, <3>3 DEF Within, Records
  <2>3. CASE RemovePartial(Source(f), dirs) /\ Again(f, "try", 1, TRUE)
    <3>1. Goes(f) /\ Rest
      BY <2>1, <2>3, AgainRecords
    <3> QED
      BY <2>1, <2>3, <3>1, PartialRemoved DEF Within, Records
  <2> QED
    BY <1>10, <2>2, <2>3 DEF Rehash
<1>11. CASE OpenPartial(f)
  <2>1. task' = [task EXCEPT ![f] = [task[f] EXCEPT !.pc = "stream"]]
    BY <1>0, <1>11 DEF OpenPartial
  <2>2. [task[f] EXCEPT !.pc = "stream"].pc = "stream"
    BY <1>0 DEF TaskType
  <2>3. Goes(f) /\ Rest
    BY <1>11, <2>1, <2>2, TaskGoes DEF OpenPartial
  <2>4. Parts
    BY <1>0, <1>11 DEF OpenPartial
  <2> QED
    BY <1>11, <2>3, <2>4 DEF OpenPartial, Within, Records
<1>12. CASE Chunk(f)
  <2> DEFINE t == [task[f] EXCEPT !.seen = Append(@, task[f].reply.version)]
  <2>1. task' = [task EXCEPT ![f] = t]
    BY <1>0, <1>12 DEF Chunk
  <2>2. t.pc = "stream"
    BY <1>0, <1>12 DEF Chunk, TaskType
  <2>3. Goes(f) /\ Rest
    BY <1>12, <2>1, <2>2, TaskGoes DEF Chunk
  <2>4. Parts
    BY <1>0, <1>12 DEF Chunk
  <2> QED
    BY <1>12, <2>3, <2>4 DEF Chunk, Within, Records
<1>13. CASE BodyFails(f)
  <2>1. Goes(f) /\ Rest
    BY <1>13, AgainRecords DEF BodyFails, disk
  <2> QED
    BY <1>13, <2>1 DEF BodyFails, disk, Within, Records
<1>14. CASE BodyMismatches(f) \/ BodyMissized(f)
  <2>1. Goes(f) /\ Rest
    BY <1>14, AgainRecords DEF BodyMismatches, BodyMissized
  <2>2. Parts
    <3>1. UNCHANGED partial \/ RemovePartial(Source(f), dirs)
      BY <1>14 DEF BodyMismatches, BodyMissized
    <3> QED
      BY <3>1, PartialRemoved
  <2> QED
    BY <1>14, <2>1, <2>2 DEF BodyMismatches, BodyMissized, Within, Records
<1> QED
  BY <1>1, <1>2, <1>3, <1>4, <1>5, <1>6, <1>7, <1>8, <1>9, <1>10, <1>11, <1>12, <1>13, <1>14
  DEF Proceed

LEMMA ReplyRecords ==
    ASSUME Inv, NEW f \in Files, Reply(f)
    PROVE  Within(f) /\ Records(f)
<1> DEFINE Rest == \A g \in Files : g # f => task'[g] = task[g] /\ outcome'[g] = outcome[g]
           Parts == \A q \in Paths : q # Source(f) => partial'[q] = partial[q]
<1>0. /\ task[f] \in TaskType /\ task \in [Files -> TaskType]
      /\ partial \in [Paths -> Blob \cup {NoFile}]
  BY DEF Inv, TypeOK, TaskOK, DiskOK
<1>1. task[f].pc # "done" /\ UNCHANGED wanted
  BY DEF Reply, ReplyRetry, ReplyRestart, ReplyMissing, ReplyError, ReplyWrongSize, ReplyUnmodified,
         ReplyResume, ReplyWhole, Answered, Unmodified
<1>2. CASE ReplyRetry(f) \/ ReplyRestart(f)
  <2>1. Goes(f) /\ Rest
    BY <1>2, AgainRecords DEF ReplyRetry, ReplyRestart, disk
  <2>2. Parts
    <3>1. UNCHANGED partial \/ RemovePartial(Source(f), dirs)
      BY <1>2 DEF ReplyRetry, ReplyRestart, disk
    <3> QED
      BY <3>1, PartialRemoved
  <2> QED
    BY <1>1, <2>1, <2>2 DEF Within, Records
<1>3. CASE ReplyMissing(f) \/ ReplyError(f)
  <2>1. (Goes(f) \/ Gives(f)) /\ Rest
    BY <1>3, NextSourceRecords, AgainRecords DEF ReplyMissing, ReplyError, disk
  <2> QED
    BY <1>1, <1>3, <2>1 DEF ReplyMissing, ReplyError, disk, Within, Records
<1>4. ASSUME NEW reply \in Replies, ReplyWrongSize(f, reply)
      PROVE  Within(f) /\ Records(f)
  <2>1. (Goes(f) \/ Gives(f)) /\ Rest
    BY <1>4, NextSourceRecords, AgainRecords DEF ReplyWrongSize, disk
  <2>2. Parts
    <3>1. UNCHANGED partial \/ RemovePartial(Source(f), dirs)
      BY <1>4 DEF ReplyWrongSize, disk
    <3> QED
      BY <3>1, PartialRemoved
  <2> QED
    BY <1>1, <2>1, <2>2 DEF Within, Records
<1>5. ASSUME NEW reply \in Replies, ReplyUnmodified(f, reply)
      PROVE  Within(f) /\ Records(f)
  <2>1. /\ target[Source(f)] # NoFile /\ Return(f, "unmodified") /\ RemovePartial(Source(f), dirs)
        /\ target' = [q \in Paths |-> IF q \in Variant(f) THEN target[Source(f)] ELSE target[q]]
        /\ missing' = missing \ Variant(f)
    BY <1>5 DEF ReplyUnmodified, Unmodified, NeedUpdate, Place, Succeed
  <2>2. task'[f].pc = "done" /\ outcome'[f] = "unmodified" /\ Rest
    BY <2>1, ReturnRecords
  <2>3. Places(f, target[Source(f)])
    BY <2>1, <2>2 DEF Places
  <2> QED
    BY <1>1, <2>1, <2>2, <2>3, PartialRemoved DEF Within, Records
<1>6. ASSUME NEW reply \in Replies, ReplyResume(f, reply)
      PROVE  Within(f) /\ Records(f)
  <2>1. task' = [task EXCEPT ![f] = [task[f] EXCEPT !.pc = "rehash", !.reply = reply]]
    BY <1>0, <1>6 DEF ReplyResume
  <2>2. [task[f] EXCEPT !.pc = "rehash", !.reply = reply].pc = "rehash"
    BY <1>0 DEF TaskType
  <2>3. Goes(f) /\ Rest
    BY <1>6, <2>1, <2>2, TaskGoes DEF ReplyResume, disk
  <2> QED
    BY <1>1, <1>6, <2>3 DEF ReplyResume, disk, Within, Records
<1>7. ASSUME NEW reply \in Replies, ReplyWhole(f, reply)
      PROVE  Within(f) /\ Records(f)
  <2> DEFINE t == [task[f] EXCEPT !.pc = "open", !.offset = 0, !.reply = reply, !.seen = <<>>]
  <2>1. task' = [task EXCEPT ![f] = t]
    BY <1>0, <1>7 DEF ReplyWhole
  <2>2. t.pc = "open"
    BY <1>0 DEF TaskType
  <2>3. Goes(f) /\ Rest
    BY <1>7, <2>1, <2>2, TaskGoes DEF ReplyWhole, disk
  <2> QED
    BY <1>1, <1>7, <2>3 DEF ReplyWhole, disk, Within, Records
<1> QED
  BY <1>2, <1>3, <1>4, <1>5, <1>6, <1>7 DEF Reply

(* A step of one task keeps every record true. *)
LEMMA RecordsKept ==
    ASSUME Inv, AllNoted, NEW f \in Files, Within(f), Records(f)
    PROVE  AllNoted'
<1>1. /\ task[f].v \in DOMAIN Variants[f]
      /\ Source(f) \in Variant(f) /\ Variant(f) \subseteq FilePaths(f) /\ FilePaths(f) \subseteq Paths
  BY SourceInVariant, FilePathsInPaths DEF Inv, TypeOK, TaskOK
<1>2. ASSUME NEW g \in Files, g # f PROVE Noted(g)'
  <2>1. FilePaths(g) \subseteq Paths /\ FilePaths(g) \cap FilePaths(f) = {}
    BY <1>2, FilePathsInPaths, PlanAssumption
  <2>2. \A q \in FilePaths(g) : target'[q] = target[q] /\ (q \in missing' <=> q \in missing)
    BY <1>1, <2>1 DEF Records, Goes, Leaves, Gives, Places
  <2>3. \A v \in DOMAIN Variants[g] : VariantPaths(g, v) \subseteq FilePaths(g)
    BY DEF FilePaths
  <2>4. \A v \in DOMAIN Variants[g] : /\ There(g, v) => There(g, v)'
                                      /\ Promised(g, v) => Promised(g, v)'
    BY <2>2, <2>3 DEF There, Promised, Within
  <2>5. task'[g] = task[g] /\ outcome'[g] = outcome[g]
    BY <1>2 DEF Within
  <2>6. Source(g)' = Source(g)
    BY <2>5 DEF Source
  <2>7. partial'[Source(g)] = partial[Source(g)]
    BY <1>2, SourceInVariant, SourcesDiffer DEF Within, Inv, TypeOK
  <2>8. Noted(g)
    BY DEF AllNoted
  <2> QED
    BY <2>2, <2>4, <2>5, <2>6, <2>7, <2>8 DEF Noted
<1>3. Noted(f)'
  <2>1. outcome[f] = "none"
    BY DEF AllNoted, Noted, Within
  <2>2. CASE Goes(f)
    BY <2>1, <2>2 DEF Goes, Noted
  <2>3. CASE Leaves(f)
    BY <2>3 DEF Leaves, Noted
  <2>4. CASE Gives(f)
    BY <2>4 DEF Gives, Noted
  <2>5. ASSUME NEW blob, Places(f, blob) PROVE Noted(f)'
    <3>0. PICK v \in DOMAIN Variants[f] : v = task[f].v
      BY <1>1
    <3>1. VariantPaths(f, v) = Variant(f)
      BY <3>0 DEF Variant
    <3>2. \A q \in Variant(f) : target'[q] = blob /\ blob # NoFile /\ q \notin missing'
      BY <1>1, <2>5 DEF Places
    <3>3. There(f, v)'
      BY <3>1, <3>2 DEF There
    <3>4. ASSUME outcome'[f] = "downloaded", NEW q \in Variant(f), q \in Hashed
          PROVE  blob = Full(q, wanted'[q])
      <4>1. Source(f) \in Hashed /\ Full(q, wanted[q]) = Full(Source(f), wanted[q])
        BY <1>1, <3>4, NamesOfOneFile DEF Inv, TypeOK
      <4>2. wanted[q] = wanted[Source(f)]
        BY <1>1 DEF AllNoted, Indexes, Variant
      <4>3. blob = Full(Source(f), wanted[Source(f)])
        BY <2>5, <3>4, <4>1 DEF Places
      <4> QED
        BY <4>1, <4>2, <4>3 DEF Within
    <3>5. outcome'[f] = "downloaded" => Promised(f, v)'
      BY <3>1, <3>2, <3>4 DEF Promised
    <3>6. task'[f].pc = "done" /\ outcome'[f] \in {"downloaded", "unmodified"}
      BY <2>5 DEF Places
    <3> QED
      BY <1>1, <3>3, <3>5, <3>6 DEF Noted
  <2> QED
    BY <2>2, <2>3, <2>4, <2>5 DEF Records
<1>4. wanted' \in Indexes
  BY DEF AllNoted, Within
<1> QED
  BY <1>2, <1>3, <1>4 DEF AllNoted

LEMMA NotedNext == Inv /\ AllNoted /\ [Next]_vars => AllNoted'
<1> SUFFICES ASSUME Inv, AllNoted, [Next]_vars PROVE AllNoted'
  OBVIOUS
<1>1. ASSUME NEW f \in Files, Reply(f) \/ Proceed(f) PROVE AllNoted'
  <2>1. Noted(f)
    BY DEF AllNoted
  <2> QED
    BY <1>1, <2>1, ReplyRecords, ProceedRecords, RecordsKept
<1>2. CASE NewProcess
  <2>1. Queued.pc = "queued"
    BY DEF Queued, Standing
  <2>2. wanted' \in Indexes /\ \A f \in Files : task'[f].pc = "queued" /\ outcome'[f] = "none"
    BY <1>2, <2>1 DEF NewProcess
  <2> QED
    BY <2>2 DEF AllNoted, Noted
<1>3. CASE UNCHANGED vars
  BY <1>3 DEF vars, AllNoted, Noted, There, Promised, Source
<1>4. ASSUME NEW f \in Files, NEW k, NEW unlinked,
             KilledInPublish(f, k, unlinked) \/ KilledInUnmodified(f, k, unlinked)
      PROVE  NewProcess
  BY <1>4 DEF KilledInPublish, KilledInUnmodified, KilledWhileLinking
<1> QED
  BY <1>1, <1>2, <1>3, <1>4 DEF Next, Restart, Terminated

LEMMA AlwaysNoted == Spec => []AllNoted
<1>1. Init => Inv /\ AllNoted
  BY InvInit, NotedInit
<1>2. Inv /\ AllNoted /\ [Next]_vars => (Inv /\ AllNoted)'
  BY InvNext, NotedNext
<1> QED
  BY <1>1, <1>2, PTL DEF Spec

(* A file that is counted as downloaded is, under every name of a variant, what the index of
   this process promises, whatever was resumed, recovered or left by other processes. *)
THEOREM DownloadedAlwaysWanted == Spec => []DownloadedIsWanted
<1>1. AllNoted => DownloadedIsWanted
  BY DEF AllNoted, Noted, There, Promised, DownloadedIsWanted
<1> QED
  BY <1>1, AlwaysNoted, PTL

(* What the mirror is told of a file agrees with the disk, for any plan of files that share
   no path. *)
THEOREM ReportsAlwaysAgree == Spec => []ReportsAgree
<1>1. AllNoted => ReportsAgree
  BY DEF AllNoted, Noted, There, ReportsAgree
<1> QED
  BY <1>1, AlwaysNoted, PTL
------------------------------------------------------------------------------
(* The tree changes as PublishedTree allows *)

VariantIsGroup(f) ==
    Variant(f) \in UNION {{VariantPaths(g, v) : v \in DOMAIN Variants[g]} : g \in Files}

LEMMA GroupOfVariant ==
    ASSUME TaskOK, NEW f \in Files
    PROVE  VariantIsGroup(f)
  BY DEF TaskOK, Variant, VariantIsGroup

(* What is about to be published was checked against the index, under every name. *)
LEMMA PublishedIsChecked ==
    ASSUME Inv, AllNoted, NEW f \in Files, Complete(f) \/ Recoverable(f), NEW q \in Variant(f)
    PROVE  Tree!Checked(q, partial[Source(f)])
<1> DEFINE p == Source(f)
           blob == partial[p]
<1>1. /\ p \in Variant(f) /\ Variant(f) \subseteq Paths /\ p \in Paths
      /\ task[f].v \in DOMAIN Variants[f]
      /\ task[f] \in TaskType /\ blob \in Blob \cup {NoFile}
  BY SourceInVariant DEF Inv, TypeOK, TaskOK, DiskOK
<1>2. /\ Size[q] = Size[p] /\ (q \in Hashed <=> p \in Hashed) /\ Size[p] \in Nat
      /\ wanted[q] = wanted[p]
  BY <1>1, PlanAssumption DEF Variant, AllNoted, Indexes
<1>3. p \in Hashed => blob = Full(p, wanted[p])
  BY DEF Inv, TasksOK, OnDisk, Complete, Recoverable, HashesMatch
<1>4. blob \in Blob /\ (Size[p] > 0 => Len(blob) = Size[p])
  <2>1. CASE Complete(f)
    <3>1. blob = task[f].seen /\ RightSize(f)
      BY <2>1 DEF Inv, TasksOK, OnDisk, Complete
    <3> QED
      BY <1>1, <3>1 DEF RightSize, FinalSize, TaskType
  <2>2. CASE Recoverable(f)
    BY <1>1, <2>2 DEF Recoverable, AllNoted, Noted, Recovering
  <2> QED
    BY <2>1, <2>2
<1> HIDE DEF p, blob
<1>5. q \in Hashed => blob = [b \in 1..Size[q] |-> wanted[q]]
  BY <1>2, <1>3 DEF Full
<1>6. blob \in Seq(Versions) /\ (Size[q] > 0 => Len(blob) = Size[q])
  BY <1>2, <1>4 DEF Blob
<1> QED
  BY <1>5, <1>6 DEF Tree!Checked, blob, p

LEMMA PublishRefines ==
    ASSUME Inv, AllNoted, NEW f \in Files, RecoverCompleted(f) \/ BodyComplete(f)
    PROVE  Tree!Next
<1> DEFINE blob == partial[Source(f)]
<1>1. /\ Complete(f) \/ Recoverable(f)
      /\ target' = [q \in Paths |-> IF q \in Variant(f) THEN blob ELSE target[q]]
      /\ UNCHANGED wanted
  BY DEF RecoverCompleted, BodyComplete, Publish, Place
<1>2. Source(f) \in Variant(f) /\ Source(f) \in Paths /\ VariantIsGroup(f)
  BY SourceInVariant, GroupOfVariant DEF Inv, TypeOK
<1>3. PICK P : P = Variant(f)
  OBVIOUS
<1>4. \A q \in P : Tree!Checked(q, blob)
  BY <1>1, <1>3, PublishedIsChecked
<1>5. target'[Source(f)] = blob
  BY <1>1, <1>2
<1>6. target' = Tree!Placed(P, blob)
  BY <1>1, <1>3 DEF Tree!Placed
<1> HIDE DEF blob
<1>7. Tree!Publish(P)
  BY <1>1, <1>2, <1>3, <1>4, <1>5, <1>6 DEF Tree!Publish
<1> QED
  BY <1>2, <1>3, <1>7 DEF Tree!Next, VariantIsGroup

LEMMA UnmodifiedRefines ==
    ASSUME Inv, NEW f \in Files, NEW reply \in Replies, ReplyUnmodified(f, reply)
    PROVE  Tree!Next
<1>1. /\ target[Source(f)] # NoFile
      /\ target' = [q \in Paths |-> IF q \in Variant(f) THEN target[Source(f)] ELSE target[q]]
      /\ UNCHANGED wanted
  BY DEF ReplyUnmodified, Unmodified, NeedUpdate, Place
<1>2. Source(f) \in Variant(f) /\ VariantIsGroup(f)
  BY SourceInVariant, GroupOfVariant DEF Inv, TypeOK
<1>3. PICK P : P = Variant(f)
  OBVIOUS
<1>4. Tree!Alias(P)
  BY <1>1, <1>2, <1>3 DEF Tree!Alias, Tree!Placed
<1> QED
  BY <1>2, <1>3, <1>4 DEF Tree!Next, VariantIsGroup

(* After a kill among the links, one name at least has the file, and the others have
   what they had, or the file, or nothing. *)
LEMMA KilledLeaves ==
    ASSUME Inv, NEW f \in Files, NEW k \in DOMAIN Variants[f][task[f].v], NEW unlinked,
           NEW blob, NEW time, KilledWhileLinking(f, blob, time, k, unlinked)
    PROVE  /\ \E q \in Variant(f) : target'[q] = blob
           /\ target' = [q \in Paths |-> target'[q]]
           /\ \A q \in Paths : \/ target'[q] = target[q]
                               \/ q \in Variant(f) /\ target'[q] \in {blob, NoFile}
<1> DEFINE p == Source(f)
           paths == Variants[f][task[f].v]
           gone(q) == unlinked /\ q = paths[k] /\ ~(k = 1 /\ q = p)
           done(q) == q = p \/ \E j \in 1..(k - 1) : q = paths[j]
<1>1. target' = [q \in Paths |-> IF gone(q) THEN NoFile
                                 ELSE IF done(q) THEN blob ELSE target[q]]
  BY DEF KilledWhileLinking
<1>2. /\ task[f].v \in DOMAIN Variants[f]
      /\ p \in Variant(f) /\ Variant(f) \subseteq Paths
  BY SourceInVariant DEF Inv, TypeOK, TaskOK
<1>3. paths \in Seq(Paths) /\ k \in 1..Len(paths)
  BY <1>2, PlanAssumption
<1>4. \A j \in 1..k : paths[j] \in Variant(f) /\ j \in DOMAIN paths
  BY <1>3 DEF Variant, VariantPaths
<1>5. \E q \in Variant(f) : ~gone(q) /\ done(q)
  <2>1. CASE ~gone(p)
    BY <1>2, <2>1
  <2>2. CASE gone(p)
    <3>1. k > 1
      BY <1>3, <1>4, <2>2, PlanAssumption
    <3>2. paths[1] # paths[k]
      BY <1>2, <1>3, <1>4, <3>1, PlanAssumption
    <3> QED
      BY <1>3, <1>4, <3>1, <3>2
  <2> QED
    BY <2>1, <2>2
<1>6. \A q \in Paths : done(q) => q \in Variant(f)
  BY <1>2, <1>3, <1>4
<1>7. paths[k] \in Variant(f)
  BY <1>3, <1>4
<1> QED
  BY <1>1, <1>2, <1>5, <1>6, <1>7

LEMMA KillRefines ==
    ASSUME Inv, AllNoted, NEW f \in Files, NEW k \in DOMAIN Variants[f][task[f].v], NEW unlinked,
           KilledInPublish(f, k, unlinked) \/ KilledInUnmodified(f, k, unlinked)
    PROVE  Tree!Next
<1>1. PICK blob, time :
         /\ KilledWhileLinking(f, blob, time, k, unlinked)
         /\ \/ blob = target[Source(f)] /\ blob # NoFile
            \/ \A q \in Variant(f) : Tree!Checked(q, blob)
  BY PublishedIsChecked DEF KilledInPublish, KilledInUnmodified, Unmodified, NeedUpdate
<1>2. PICK q \in Variant(f) : target'[q] = blob
  BY <1>1, KilledLeaves
<1>3. /\ target' = [r \in Paths |-> target'[r]]
      /\ \A r \in Paths : \/ target'[r] = target[r]
                          \/ r \in Variant(f) /\ target'[r] \in {blob, NoFile}
  BY <1>1, KilledLeaves
<1>4. wanted' \in [Paths -> Versions]
  BY <1>1 DEF KilledWhileLinking, NewProcess, Indexes
<1>5. Source(f) \in Variant(f) /\ VariantIsGroup(f)
  BY SourceInVariant, GroupOfVariant DEF Inv, TypeOK
<1>6. PICK P : P = Variant(f)
  OBVIOUS
<1>7. Tree!Torn(P)
  BY <1>1, <1>2, <1>3, <1>4, <1>5, <1>6 DEF Tree!Torn
<1> QED
  BY <1>5, <1>6, <1>7 DEF Tree!Next, VariantIsGroup

LEMMA TreeInit == Init => Tree!Init
<1> SUFFICES ASSUME Init PROVE Tree!Init
  OBVIOUS
<1>1. Inv /\ PublishedWhole
  BY InvInit, WholeInit
<1>2. wanted \in [Paths -> Versions] /\ target = [p \in Paths |-> target[p]]
  BY <1>1 DEF Inv, TypeOK, DiskOK
<1>3. ASSUME NEW p \in Paths, target[p] # NoFile
      PROVE  \E v \in Versions : p \in Hashed => target[p] = [b \in 1..Size[p] |-> v]
  BY <1>1, <1>2, <1>3 DEF PublishedWhole, Full
<1> QED
  BY <1>2, <1>3 DEF Tree!Init

LEMMA TreeNext == Inv /\ AllNoted /\ [Next]_vars => [Tree!Next]_(Tree!vars)
<1> SUFFICES ASSUME Inv, AllNoted, [Next]_vars
             PROVE  Tree!Next \/ UNCHANGED <<target, wanted>>
  BY DEF Tree!vars
<1>1. ASSUME NEW f \in Files, Proceed(f)
      PROVE  Tree!Next \/ UNCHANGED <<target, wanted>>
  <2>1. CASE RecoverCompleted(f) \/ BodyComplete(f)
    BY <2>1, PublishRefines
  <2>2. CASE ~RecoverCompleted(f) /\ ~BodyComplete(f)
    BY <1>1, <2>2 DEF Proceed, SkipUnmodified, Start, Prepare, DiscardPartial, ReadCompleted,
              Exhausted, DiscardCompleted, Rehash, OpenPartial, OpenFails, Chunk,
              BodyFails, BodyMismatches, BodyMissized, Wake, disk
  <2> QED
    BY <2>1, <2>2
<1>2. ASSUME NEW f \in Files, Reply(f)
      PROVE  Tree!Next \/ UNCHANGED <<target, wanted>>
  <2>1. ASSUME NEW reply \in Replies, ReplyUnmodified(f, reply)
        PROVE  Tree!Next
    BY <2>1, UnmodifiedRefines
  <2>2. CASE \A reply \in Replies : ~ReplyUnmodified(f, reply)
    BY <1>2, <2>2 DEF Reply, ReplyRetry, ReplyRestart, ReplyMissing, ReplyError, ReplyWrongSize,
              ReplyResume, ReplyWhole, disk
  <2> QED
    BY <2>1, <2>2
<1>3. CASE Restart
  <2>1. Tree!NewGoal
    BY <1>3 DEF Restart, NewProcess, Indexes, disk, Tree!NewGoal
  <2> QED
    BY <2>1 DEF Tree!Next
<1>4. ASSUME NEW f \in Files, NEW k \in DOMAIN Variants[f][task[f].v], NEW unlinked,
             KilledInPublish(f, k, unlinked) \/ KilledInUnmodified(f, k, unlinked)
      PROVE  Tree!Next
  BY <1>4, KillRefines
<1>5. CASE UNCHANGED vars
  BY <1>5 DEF vars
<1> QED
  BY <1>1, <1>2, <1>3, <1>4, <1>5 DEF Next, Terminated

(* The downloader implements PublishedTree: for any plan, servers and kills, the published
   tree changes only by placing a checked file under all names of a variant, by giving a file
   its other names, or by what a kill leaves of the two. *)
THEOREM ImplementsTree == Spec => RefinesTree
<1>1. Init => Inv /\ AllNoted
  BY InvInit, NotedInit
<1>2. Inv /\ AllNoted /\ [Next]_vars => (Inv /\ AllNoted)'
  BY InvNext, NotedNext
<1> QED
  BY <1>1, <1>2, TreeInit, TreeNext, PTL DEF Spec, RefinesTree, Tree!Spec
=============================================================================
