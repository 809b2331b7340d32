------------------------------ MODULE Download ------------------------------
(***************************************************************************)
(* One process of apt-mirror2 downloading a queue of files into a tree:    *)
(* Downloader.download and Downloader.download_file.                       *)
(*                                                                         *)
(* Every queued file is an asyncio task.  A task runs without interruption *)
(* from one await to the next, so an action below is such a segment: it    *)
(* ends where the code awaits a hash of a file, the semaphore and the      *)
(* response headers, the opening of the partial file, a chunk, or the      *)
(* sleep of a retry.  The process may be killed between two steps, or in   *)
(* the middle of the links that publish a file, and a later process starts *)
(* from the files on disk, possibly with a newer index.                    *)
(*                                                                         *)
(* The content of a file is the sequence of the versions its blocks were   *)
(* taken from.  A server may answer with any version, whole or cut short.  *)
(***************************************************************************)
EXTENDS Integers, Sequences, FiniteSets

CONSTANTS
    Files,         \* the queued files
    Paths,         \* the source paths of all their variants
    Variants,      \* Variants[f][v][i]: i-th source path of the v-th variant of f
    Size,          \* Size[p]: the size the index gives, in blocks; 0 if it gives none
                   \* (or the file is empty)
    Hashed,        \* the paths the index gives a digest of that check_hashes names
    Dirs,          \* the directory of partial files and the directories below it
    DirOf,         \* DirOf[p]: the directory of p's partial file
    Above,         \* Above[d]: d and the directories of Dirs it lies in
    IgnoreErrors,  \* files listed under ignore_errors
    IgnoreMissing, \* optional files (Release, Release.gpg, InRelease)
    WeakCheck,     \* files compared by size only (weak size check)
    Mirrored,      \* files an earlier process may have published
    Versions,      \* the versions of a file its servers may hold
    Tries,         \* attempts at each source path
    Slots,         \* value of the shared semaphore
    MaxTasks,      \* tasks alive at once
    MaxBlocks,     \* bound: blocks a response may carry
    MaxRuns,       \* bound: processes started one after another
    NoFile         \* no such file

VariantPaths(f, v) == {Variants[f][v][i] : i \in DOMAIN Variants[f][v]}
FilePaths(f) == UNION {VariantPaths(f, v) : v \in DOMAIN Variants[f]}
Blob == Seq(Versions)

(***************************************************************************)
(* Two files of one queue share no source path.  The code does not ensure  *)
(* it: two equal files of one directory have one by-hash path.  The paths  *)
(* of one variant differ: by-hash/<type>/<hash> below the path's directory *)
(* for every type of hash, and the path.                                   *)
(***************************************************************************)
ASSUME PlanAssumption ==
    /\ Variants \in [Files -> Seq(Seq(Paths))]
    /\ \A f \in Files : /\ Len(Variants[f]) > 0
                        /\ \A v \in DOMAIN Variants[f] : Len(Variants[f][v]) > 0
    /\ \A f \in Files : \A v \in DOMAIN Variants[f] :
          \A i, j \in DOMAIN Variants[f][v] :
             Variants[f][v][i] = Variants[f][v][j] => i = j
    /\ \A f, g \in Files : f # g => FilePaths(f) \cap FilePaths(g) = {}
    /\ Size \in [Paths -> Nat]
    /\ \A f \in Files : \A v \in DOMAIN Variants[f] :
          \A p, q \in VariantPaths(f, v) :
             Size[p] = Size[q] /\ (p \in Hashed <=> q \in Hashed)

ASSUME BoundAssumption ==
    /\ Hashed \subseteq Paths
    /\ DirOf \in [Paths -> Dirs]
    /\ Above \in [Dirs -> SUBSET Dirs]
    /\ Versions \subseteq Nat \ {0}
    /\ Tries \in Nat \ {0} /\ Slots \in Nat \ {0} /\ MaxTasks \in Nat \ {0}
    /\ MaxBlocks \in Nat /\ MaxRuns \in Nat
    /\ NoFile \notin Blob

VARIABLES
    wanted,   \* wanted[p]: the version whose digest this process's index holds
    partial,  \* partial[p]: the partial file of p
    dirs,     \* the directories of partial files that exist
    target,   \* target[p]: the file published at p
    mtime,    \* mtime[p]: the version whose Last-Modified it bears, 0 if none
    task,     \* task[f]: the local state of the task that downloads f
    outcome,  \* outcome[f]: what the process has recorded of f
    missing,  \* _missing_sources
    run       \* number of processes started

vars == <<wanted, partial, dirs, target, mtime, task, outcome, missing, run>>
disk == <<partial, dirs, target, mtime>>
------------------------------------------------------------------------------
(* The files on disk *)

(* What the index of this process, or of another, promises at p. *)
Full(p, v) == [b \in 1..Size[p] |-> v]

(* Faulty variant: the size is taken for the hash. *)
HashesMatchBySize(p, blob) == p \in Hashed => Len(blob) = Size[p]

(* _check_hashes: no digest to compare with, or the content has it. *)
HashesMatch(p, blob) == p \in Hashed => blob = Full(p, wanted[p])

(* _prune_partial_directories: rmdir of the directory of p, then of the ones
   above it, until one is not empty or is not there. *)
Pruned(parts, ds, p) ==
    IF DirOf[p] \notin ds THEN ds
    ELSE LET empty(d) == /\ \A q \in Paths :
                                parts[q] # NoFile => d \notin Above[DirOf[q]]
                         /\ \A e \in ds : d \in Above[e] => e \in Above[DirOf[p]]
         IN  ds \ {d \in Above[DirOf[p]] : empty(d)}

(* _remove_partial, in the directories ds *)
RemovePartial(p, ds) ==
    /\ partial' = [partial EXCEPT ![p] = NoFile]
    /\ dirs' = Pruned(partial', ds, p)

(* os.replace or hard links make every path of P the same file. *)
Place(P, blob, time) ==
    /\ target' = [q \in Paths |-> IF q \in P THEN blob ELSE target[q]]
    /\ mtime' = [q \in Paths |-> IF q \in P THEN time ELSE mtime[q]]

------------------------------------------------------------------------------
(* The local state of a task *)

NoReply == [version |-> 0, size |-> 0, date |-> 0]

(* A task with no request under way, at a source path. *)
Standing(pc, v, i, tries, error) ==
    [pc |-> pc, v |-> v, i |-> i, tries |-> tries, error |-> error,
     offset |-> 0, reply |-> NoReply, seen |-> <<>>]

Queued == Standing("queued", 1, 1, Tries, FALSE)

Source(f) == Variants[f][task[f].v][task[f].i]
Variant(f) == VariantPaths(f, task[f].v)

Alive == {f \in Files : task[f].pc \notin {"queued", "done"}}

(* The tasks inside `async with semaphore`: a retry sleeps there, too. *)
Holding == {f \in Files : task[f].pc \in {"rehash", "open", "stream", "backoff"}}

(* Faulty variant: a failed attempt uses no try. *)
AgainForever(f, pc, used, failed) ==
    task' = [task EXCEPT ![f] = Standing(pc, @.v, @.i, @.tries, @.error \/ failed)]

(* Back to the head of the loop, or to the sleep before it. *)
Again(f, pc, used, failed) ==
    task' = [task EXCEPT ![f] =
               Standing(pc, @.v, @.i, @.tries - used, @.error \/ failed)]

(* The task returns; o is what the process has noted of its file. *)
Return(f, o) ==
    /\ task' = [task EXCEPT ![f] = Standing("done", 1, 1, Tries, FALSE)]
    /\ outcome' = [outcome EXCEPT ![f] = o]

(* The file is in place: append to _downloaded, and
   _missing_sources.difference_update. *)
Succeed(f, o) ==
    /\ Return(f, o)
    /\ missing' = missing \ Variant(f)

(* os.utime, os.replace of the partial file, the pruning and the links.  A
   recovered file keeps the time of its last write: no date of a server. *)
Publish(f) ==
    LET p == Source(f) IN
    /\ Place(Variant(f), partial[p], task[f].reply.date)
    /\ RemovePartial(p, dirs)
    /\ Succeed(f, "downloaded")

(* Faulty variant: the paths of a failed file are not noted as missing. *)
GiveUpUnlisted(f) ==
    /\ Return(f, IF task[f].error THEN "error" ELSE "missing")
    /\ UNCHANGED missing

(* The loops over the variants and their paths are exhausted. *)
GiveUp(f) ==
    LET failed == task[f].error
        kind == CASE f \in IgnoreErrors -> "ignored"
                  [] f \notin IgnoreErrors /\ f \in IgnoreMissing /\ ~failed -> "ignored"
                  [] OTHER -> IF failed THEN "error" ELSE "missing"
    IN  /\ Return(f, kind)
        /\ missing' = IF kind = "ignored" THEN missing ELSE missing \cup FilePaths(f)

(* The loop over the tries ends without a file: the next source path of the
   variant, the next variant, or the end of download_file. *)
NextSource(f) ==
    LET t == task[f]
        at(v, i) ==
            /\ task' = [task EXCEPT ![f] = Standing("try", v, i, Tries, t.error)]
            /\ UNCHANGED <<outcome, missing>>
    IN  IF t.i < Len(Variants[f][t.v]) THEN at(t.v, t.i + 1)
        ELSE IF t.v < Len(Variants[f]) THEN at(t.v + 1, 1)
        ELSE GiveUp(f)

------------------------------------------------------------------------------
(* Downloader.download: the queue, and the tasks made from it *)

(* weak_size_check: some variant is on disk with the size of the file, which is
   the size of its first variant. *)
SameSizeOnDisk(f) ==
    /\ f \in WeakCheck
    /\ \E v \in DOMAIN Variants[f] :
          /\ target[Variants[f][v][1]] # NoFile
          /\ Len(target[Variants[f][v][1]]) = Size[Variants[f][1][1]]

SkipUnmodified(f) ==
    /\ task[f].pc = "queued"
    /\ SameSizeOnDisk(f)
    /\ Return(f, "unchecked")
    /\ UNCHANGED <<disk, missing, wanted, run>>

Start(f) ==
    /\ task[f].pc = "queued"
    /\ ~SameSizeOnDisk(f)
    /\ Cardinality(Alive) < MaxTasks
    /\ task' = [task EXCEPT ![f].pc = "try"]
    /\ UNCHANGED <<disk, outcome, missing, wanted, run>>

------------------------------------------------------------------------------
(* The head of `while tries > 0`: directories and the partial file *)

(* What the partial file of p is good for. *)
Resumable(p) == partial[p] # NoFile /\ Size[p] > 0

(* Faulty variant: the tries are not looked at. *)
TryingForever(f) == task[f].pc = "try"

Trying(f) == task[f].pc = "try" /\ task[f].tries > 0

Request(f, offset) == [task EXCEPT ![f].pc = "request", ![f].offset = offset]

(* No partial file, or one to resume. *)
Prepare(f) ==
    LET p == Source(f) IN
    /\ Trying(f)
    /\ \/ partial[p] = NoFile /\ task' = Request(f, 0)
       \/ Resumable(p) /\ Len(partial[p]) < Size[p] /\ task' = Request(f, Len(partial[p]))
    /\ dirs' = dirs \cup Above[DirOf[p]]
    /\ UNCHANGED <<partial, target, mtime, outcome, missing, wanted, run>>

(* A partial file that is too long, or of a file whose size is unknown. *)
DiscardPartial(f) ==
    LET p == Source(f) IN
    /\ Trying(f)
    /\ partial[p] # NoFile
    /\ Size[p] > 0 => Len(partial[p]) > Size[p]
    /\ RemovePartial(p, dirs \cup Above[DirOf[p]])
    /\ task' = Request(f, 0)
    /\ UNCHANGED <<target, mtime, outcome, missing, wanted, run>>

(* A partial file of the whole size: its hash is awaited. *)
ReadCompleted(f) ==
    LET p == Source(f) IN
    /\ Trying(f)
    /\ Resumable(p) /\ Len(partial[p]) = Size[p]
    /\ task' = [task EXCEPT ![f].pc = "verify"]
    /\ dirs' = dirs \cup Above[DirOf[p]]
    /\ UNCHANGED <<partial, target, mtime, outcome, missing, wanted, run>>

(* Faulty variant: a partial file of the right size is taken as it is. *)
RecoverableUnchecked(f) == task[f].pc = "verify"

Recoverable(f) ==
    /\ task[f].pc = "verify"
    /\ HashesMatch(Source(f), partial[Source(f)])

RecoverCompleted(f) ==
    /\ Recoverable(f)
    /\ Publish(f)
    /\ UNCHANGED <<wanted, run>>

DiscardCompleted(f) ==
    /\ task[f].pc = "verify"
    /\ ~HashesMatch(Source(f), partial[Source(f)])
    /\ RemovePartial(Source(f), dirs)
    /\ task' = [task EXCEPT ![f].pc = "request", ![f].error = TRUE]
    /\ UNCHANGED <<target, mtime, outcome, missing, wanted, run>>

(* The tries at this source path are used up. *)
Exhausted(f) ==
    /\ task[f].pc = "try" /\ task[f].tries = 0
    /\ NextSource(f)
    /\ UNCHANGED <<disk, wanted, run>>

------------------------------------------------------------------------------
(* The semaphore, and the headers of the response *)

Answered(f) == task[f].pc = "request" /\ Cardinality(Holding) < Slots

(* The connection was refused or dropped: no try is used. *)
ReplyRetry(f) ==
    /\ Answered(f)
    /\ Again(f, "backoff", 0, FALSE)
    /\ UNCHANGED <<disk, outcome, missing, wanted, run>>

(* The range was refused (HTTP 416), or a 206 is of another range or of none that was asked
   for, which may be the answer to a request from the first byte, too. *)
ReplyRestart(f) ==
    /\ Answered(f)
    /\ RemovePartial(Source(f), dirs)
    /\ Again(f, "try", 1, TRUE)
    /\ UNCHANGED <<target, mtime, outcome, missing, wanted, run>>

ReplyMissing(f) ==
    /\ Answered(f)
    /\ IF f \in IgnoreErrors \cup IgnoreMissing
       THEN NextSource(f)
       ELSE Again(f, "backoff", 1, FALSE) /\ UNCHANGED <<outcome, missing>>
    /\ UNCHANGED <<disk, wanted, run>>

ReplyError(f) ==
    /\ Answered(f)
    /\ IF f \in IgnoreErrors
       THEN NextSource(f)
       ELSE Again(f, "backoff", 1, TRUE) /\ UNCHANGED <<outcome, missing>>
    /\ UNCHANGED <<disk, wanted, run>>

(* The file itself.  The server tells its size, or does not (0), and its date,
   or does not (0). *)
Replies == [version: Versions, size: 0..MaxBlocks, date: Versions \cup {0}]

Sane(reply) == reply.date \in {0, reply.version}

WrongSize(f, reply) ==
    Size[Source(f)] > 0 /\ reply.size > 0 /\ reply.size # Size[Source(f)]

ReplyWrongSize(f, reply) ==
    /\ Answered(f)
    /\ WrongSize(f, reply)
    /\ IF f \in IgnoreErrors
       THEN NextSource(f) /\ UNCHANGED disk
       ELSE /\ RemovePartial(Source(f), dirs)
            /\ Again(f, "backoff", 1, TRUE)
            /\ UNCHANGED <<target, mtime, outcome, missing>>
    /\ UNCHANGED <<wanted, run>>

(* need_update: there is a file of this date and size already. *)
NeedUpdate(p, reply) ==
    ~ /\ target[p] # NoFile
      /\ reply.date # 0 /\ reply.size > 0
      /\ reply.date = mtime[p] /\ reply.size = Len(target[p])

Unmodified(f, reply) ==
    Answered(f) /\ ~WrongSize(f, reply) /\ ~NeedUpdate(Source(f), reply)

ReplyUnmodified(f, reply) ==
    LET p == Source(f) IN
    /\ Unmodified(f, reply)
    /\ RemovePartial(p, dirs)
    /\ Place(Variant(f), target[p], mtime[p])
    /\ Succeed(f, "unmodified")
    /\ UNCHANGED <<wanted, run>>

(* The server resumes: what is on disk is hashed first. *)
ReplyResume(f, reply) ==
    /\ Answered(f)
    /\ ~WrongSize(f, reply) /\ NeedUpdate(Source(f), reply)
    /\ task[f].offset > 0
    /\ task' = [task EXCEPT ![f].pc = "rehash", ![f].reply = reply]
    /\ UNCHANGED <<disk, outcome, missing, wanted, run>>

(* The server sends the file from its first byte. *)
ReplyWhole(f, reply) ==
    /\ Answered(f)
    /\ ~WrongSize(f, reply) /\ NeedUpdate(Source(f), reply)
    /\ task' = [task EXCEPT ![f] =
                  [@ EXCEPT !.pc = "open", !.offset = 0, !.reply = reply, !.seen = <<>>]]
    /\ UNCHANGED <<disk, outcome, missing, wanted, run>>

------------------------------------------------------------------------------
(* The body of the response *)

(* Append: the bytes on disk are hashed and counted again before more follow. *)
Rehash(f) ==
    LET p == Source(f) IN
    /\ task[f].pc = "rehash"
    /\ IF partial[p] # NoFile /\ Len(partial[p]) = task[f].offset
       THEN /\ task' = [task EXCEPT ![f].pc = "open", ![f].seen = partial[p]]
            /\ UNCHANGED <<partial, dirs>>
       ELSE RemovePartial(p, dirs) /\ Again(f, "try", 1, TRUE)
    /\ UNCHANGED <<target, mtime, outcome, missing, wanted, run>>

(* Faulty variant: the published file itself is opened and truncated. *)
OpenInPlace(f) ==
    LET p == Source(f) IN
    /\ task[f].pc = "open"
    /\ target' = [target EXCEPT ![p] = <<>>]
    /\ partial' = [partial EXCEPT ![p] = <<>>]
    /\ task' = [task EXCEPT ![f].pc = "stream"]
    /\ UNCHANGED <<dirs, mtime, outcome, missing, wanted, run>>

(* Mode "ab" to resume, "wb" otherwise. *)
OpenPartial(f) ==
    LET p == Source(f) IN
    /\ task[f].pc = "open"
    /\ DirOf[p] \in dirs
    /\ partial' = [partial EXCEPT ![p] =
                     IF task[f].offset > 0 /\ @ # NoFile THEN @ ELSE <<>>]
    /\ task' = [task EXCEPT ![f].pc = "stream"]
    /\ UNCHANGED <<dirs, target, mtime, outcome, missing, wanted, run>>

(* The directory made at the head of the loop has been pruned since.  The
   FileNotFoundError leaves download_file, and download() drops the task
   without looking at its result. *)
OpenFails(f) ==
    /\ task[f].pc = "open"
    /\ DirOf[Source(f)] \notin dirs
    /\ Return(f, "lost")
    /\ UNCHANGED <<disk, missing, wanted, run>>

Chunk(f) ==
    LET p == Source(f)
        block == task[f].reply.version
    IN  /\ task[f].pc = "stream"
        /\ Len(task[f].seen) < MaxBlocks
        /\ partial' = [partial EXCEPT ![p] = Append(@, block)]
        /\ task' = [task EXCEPT ![f].seen = Append(@, block)]
        /\ UNCHANGED <<dirs, target, mtime, outcome, missing, wanted, run>>

(* A network error, a write error or SlowRateException: the partial file stays. *)
BodyFails(f) ==
    /\ task[f].pc = "stream"
    /\ Again(f, "backoff", 1, TRUE)
    /\ UNCHANGED <<disk, outcome, missing, wanted, run>>

BodyMismatches(f) ==
    /\ task[f].pc = "stream"
    /\ ~HashesMatch(Source(f), task[f].seen)
    /\ RemovePartial(Source(f), dirs)
    /\ Again(f, "backoff", 1, TRUE)
    /\ UNCHANGED <<target, mtime, outcome, missing, wanted, run>>

(* The size the body must have: of the index, or else of the response. *)
FinalSize(f) == LET p == Source(f) IN IF Size[p] > 0 THEN Size[p] ELSE task[f].reply.size

RightSize(f) == FinalSize(f) > 0 => Len(task[f].seen) = FinalSize(f)

BodyMissized(f) ==
    /\ task[f].pc = "stream"
    /\ HashesMatch(Source(f), task[f].seen) /\ ~RightSize(f)
    /\ IF Len(task[f].seen) > FinalSize(f)
       THEN RemovePartial(Source(f), dirs)
       ELSE UNCHANGED <<partial, dirs>>
    /\ Again(f, "backoff", 1, TRUE)
    /\ UNCHANGED <<target, mtime, outcome, missing, wanted, run>>

Complete(f) ==
    /\ task[f].pc = "stream"
    /\ HashesMatch(Source(f), task[f].seen) /\ RightSize(f)

BodyComplete(f) ==
    /\ Complete(f)
    /\ Publish(f)
    /\ UNCHANGED <<wanted, run>>

(* The sleep of retry() is over, and the semaphore is released. *)
Wake(f) ==
    /\ task[f].pc = "backoff"
    /\ task' = [task EXCEPT ![f].pc = "try"]
    /\ UNCHANGED <<disk, outcome, missing, wanted, run>>

------------------------------------------------------------------------------
(* Processes: the next one starts, with any index, after this one ended or was
   killed. *)

(* All paths of a variant are names of one file. *)
Indexes == {w \in [Paths -> Versions] :
              \A f \in Files : \A v \in DOMAIN Variants[f] :
                 \A p, q \in VariantPaths(f, v) : w[p] = w[q]}

NewProcess ==
    /\ run < MaxRuns
    /\ run' = run + 1
    /\ wanted' \in Indexes
    /\ task' = [f \in Files |-> Queued]
    /\ outcome' = [f \in Files |-> "none"]
    /\ missing' = {}

Restart ==
    /\ NewProcess
    /\ UNCHANGED disk

(* Killed in link_or_copy: the paths before the k-th are linked, and the k-th,
   unless it is the linked file itself, may be unlinked and not yet linked. *)
KilledWhileLinking(f, blob, time, k, unlinked) ==
    LET p == Source(f)
        paths == Variants[f][task[f].v]
        gone(q) == unlinked /\ q = paths[k] /\ ~(k = 1 /\ q = p)
        done(q) == q = p \/ \E j \in 1..(k - 1) : q = paths[j]
    IN  /\ target' = [q \in Paths |-> IF gone(q) THEN NoFile
                                      ELSE IF done(q) THEN blob ELSE target[q]]
        /\ mtime' = [q \in Paths |-> IF gone(q) THEN 0
                                     ELSE IF done(q) THEN time ELSE mtime[q]]
        /\ RemovePartial(p, dirs)
        /\ NewProcess

KilledInPublish(f, k, unlinked) ==
    /\ Complete(f) \/ Recoverable(f)
    /\ KilledWhileLinking(f, partial[Source(f)], task[f].reply.date, k, unlinked)

KilledInUnmodified(f, k, unlinked) ==
    /\ \E reply \in Replies : Sane(reply) /\ Unmodified(f, reply)
    /\ KilledWhileLinking(f, target[Source(f)], mtime[Source(f)], k, unlinked)

------------------------------------------------------------------------------
(* What an earlier process has published at p. *)
Earlier(p, v) == IF p \in Hashed \/ Size[p] > 0 THEN Full(p, v) ELSE <<v>>

Init ==
    /\ wanted \in Indexes
    /\ partial = [p \in Paths |-> NoFile]
    /\ dirs = {}
    /\ \E old \in Indexes : \E present \in SUBSET Mirrored :
          LET has(p) == \E f \in present : p \in FilePaths(f) IN
          /\ target = [p \in Paths |-> IF has(p) THEN Earlier(p, old[p]) ELSE NoFile]
          /\ mtime = [p \in Paths |-> IF has(p) THEN old[p] ELSE 0]
    /\ task = [f \in Files |-> Queued]
    /\ outcome = [f \in Files |-> "none"]
    /\ missing = {}
    /\ run = 1

Reply(f) ==
    \/ ReplyRetry(f) \/ ReplyRestart(f) \/ ReplyMissing(f) \/ ReplyError(f)
    \/ \E reply \in Replies :
          /\ Sane(reply)
          /\ \/ ReplyWrongSize(f, reply) \/ ReplyUnmodified(f, reply)
             \/ ReplyResume(f, reply) \/ ReplyWhole(f, reply)

Proceed(f) ==
    \/ SkipUnmodified(f) \/ Start(f)
    \/ Prepare(f) \/ DiscardPartial(f) \/ ReadCompleted(f) \/ Exhausted(f)
    \/ RecoverCompleted(f) \/ DiscardCompleted(f)
    \/ Rehash(f) \/ OpenPartial(f) \/ OpenFails(f)
    \/ Chunk(f) \/ BodyFails(f) \/ BodyMismatches(f) \/ BodyMissized(f) \/ BodyComplete(f)
    \/ Wake(f)

AllDone == \A f \in Files : task[f].pc = "done"

Terminated == AllDone /\ run = MaxRuns /\ UNCHANGED vars

Next ==
    \/ \E f \in Files : Reply(f) \/ Proceed(f)
    \/ Restart
    \/ \E f \in Files : \E k \in DOMAIN Variants[f][task[f].v], unlinked \in BOOLEAN :
          KilledInPublish(f, k, unlinked) \/ KilledInUnmodified(f, k, unlinked)
    \/ Terminated

Spec == Init /\ [][Next]_vars

(* A coroutine that may run runs; the client's timeouts end every request; and
   the semaphore wakes its waiters in the order they came. *)
Fairness == \A f \in Files : WF_vars(Proceed(f)) /\ SF_vars(Reply(f))

FairSpec == Spec /\ Fairness

------------------------------------------------------------------------------
(* Properties *)

TaskType ==
    [pc: {"queued", "try", "verify", "request", "rehash", "open", "stream",
          "backoff", "done"},
     v: Nat \ {0}, i: Nat \ {0}, tries: 0..Tries, error: BOOLEAN, offset: Nat,
     reply: [version: Versions \cup {0}, size: 0..MaxBlocks, date: Versions \cup {0}],
     seen: Blob]

(* A task stands at a source path of its file. *)
TaskOK ==
    /\ task \in [Files -> TaskType]
    /\ \A f \in Files : /\ task[f].v \in DOMAIN Variants[f]
                        /\ task[f].i \in DOMAIN Variants[f][task[f].v]

DiskOK ==
    /\ partial \in [Paths -> Blob \cup {NoFile}]
    /\ dirs \in SUBSET Dirs
    /\ target \in [Paths -> Blob \cup {NoFile}]
    /\ mtime \in [Paths -> Versions \cup {0}]

Outcomes == {"none", "downloaded", "unmodified", "unchecked",
             "ignored", "missing", "error", "lost"}

RecordsOK ==
    /\ outcome \in [Files -> Outcomes]
    /\ missing \in SUBSET Paths

(* The type of every variable. *)
TypeOK ==
    /\ TaskOK
    /\ DiskOK
    /\ wanted \in [Paths -> Versions]
    /\ RecordsOK
    /\ run \in Nat

(* A published file the index has a digest of is one version of it, whole:
   whatever was resumed, cut short, discarded or killed before, blocks of two
   versions never end up in one file, and no file is short.  (Lines 338-381 and
   457-562 of download_file: resume, hash and size checks.) *)
PublishedWhole ==
    \A p \in Hashed : target[p] # NoFile => \E v \in Versions : target[p] = Full(p, v)

(* A file counted as downloaded is, under every name of one of its variants,
   the file whose digest the running process's index holds. *)
DownloadedIsWanted ==
    \A f \in Files : outcome[f] = "downloaded" =>
        \E v \in DOMAIN Variants[f] : \A p \in VariantPaths(f, v) :
            /\ target[p] # NoFile
            /\ p \in Hashed => target[p] = Full(p, wanted[p])

(* What the mirror is told agrees with the disk: a file reported downloaded or
   unmodified has a variant that is present and not listed as missing, and every
   path of a file reported missing or failed is listed.  (_downloaded,
   _missing_sources and the counters.) *)
ReportsAgree ==
    \A f \in Files :
        /\ outcome[f] \in {"downloaded", "unmodified"} =>
              \E v \in DOMAIN Variants[f] : \A p \in VariantPaths(f, v) :
                  target[p] # NoFile /\ p \notin missing
        /\ outcome[f] \in {"missing", "error"} => FilePaths(f) \subseteq missing

(* Every task that has ended has left its result with the process: README.md
   says that a run with files that "were not downloaded due to network or server
   errors" does not exit with 0.  The code breaks it: see OpenFails. *)
NoneLost == \A f \in Files : outcome[f] # "lost"

(* The published tree only changes as PublishedTree allows. *)
Tree == INSTANCE PublishedTree WITH
    tree <- target, goal <- wanted,
    Groups <- UNION {{VariantPaths(f, v) : v \in DOMAIN Variants[f]} : f \in Files}

RefinesTree == Tree!Spec

(* Every process ends, if servers stop refusing its connections at last: such
   a reply costs no try, and a file may be asked for again and again. *)
Ends == (\A f \in Files : <>[][~ReplyRetry(f)]_vars) => <>AllDone
=============================================================================
