------------------------------- MODULE RunLock -------------------------------
(***************************************************************************)
(* The lock file that keeps a second apt-mirror2 from running:             *)
(* APTMirror.lock.  A lock belongs to the file that was opened, the name   *)
(* of the lock file to whatever file has it at the moment.                 *)
(***************************************************************************)
EXTENDS Integers, FiniteSets

CONSTANTS
    Processes,  \* processes started by cron or by hand, again and again
    Inodes,     \* bound: the files the name may stand for
    NoInode     \* no such file

VARIABLES
    name,    \* the file the name of the lock file stands for
    opened,  \* opened[p]: the file process p has open
    locker,  \* locker[i]: the processes that hold the lock of file i
    pc       \* where process p stands

vars == <<name, opened, locker, pc>>

(* A file without a name and not open anywhere is gone: a new one may be it. *)
Free == {i \in Inodes : i # name /\ \A p \in Processes : opened[p] # i}

At(p, here, there) == pc[p] = here /\ pc' = [pc EXCEPT ![p] = there]

(* open(lock_file, "wb") makes the file if there is none. *)
Open(p) ==
    /\ At(p, "out", "opened")
    /\ IF name # NoInode THEN UNCHANGED name ELSE name' \in Free
    /\ opened' = [opened EXCEPT ![p] = name']
    /\ UNCHANGED locker

Flock(p) ==
    /\ At(p, "opened", "running")
    /\ locker[opened[p]] = {}
    /\ locker' = [locker EXCEPT ![opened[p]] = {p}]
    /\ UNCHANGED <<name, opened>>

Close(p) ==
    /\ opened' = [opened EXCEPT ![p] = NoInode]
    /\ locker' = [i \in Inodes |-> locker[i] \ {p}]
    /\ UNCHANGED name

(* die: "apt-mirror is already running, exiting" *)
Refused(p) ==
    /\ At(p, "opened", "out")
    /\ locker[opened[p]] # {}
    /\ Close(p)

(* The run is over: the file is closed, which gives up the lock ... *)
Finish(p) == At(p, "running", "unlink") /\ Close(p)

(* ... and then its name is removed, whichever file has it now. *)
Unlink(p) ==
    /\ At(p, "unlink", "out")
    /\ name' = NoInode
    /\ UNCHANGED <<opened, locker>>

(* Killed, or ended by an exception in the run: the name stays. *)
Die(p) ==
    /\ pc[p] # "out"
    /\ pc' = [pc EXCEPT ![p] = "out"]
    /\ Close(p)

Init ==
    /\ name = NoInode
    /\ opened = [p \in Processes |-> NoInode]
    /\ locker = [i \in Inodes |-> {}]
    /\ pc = [p \in Processes |-> "out"]

Next == \E p \in Processes :
    Open(p) \/ Flock(p) \/ Refused(p) \/ Finish(p) \/ Unlink(p) \/ Die(p)

Spec == Init /\ [][Next]_vars
------------------------------------------------------------------------------
(* Properties *)

Running == {p \in Processes : pc[p] = "running"}

(* "apt-mirror is already running, exiting": at most one process runs.  The code
   breaks it: a process that finishes removes the name of a file that another
   has locked meanwhile, and a third locks a new file. *)
OnlyOneRuns == Cardinality(Running) <= 1
=============================================================================
