---------------------------- MODULE PublishedTree ----------------------------
(***************************************************************************)
(* What the downloader promises of the tree it publishes: a file there     *)
(* changes in one step, to a content that was checked against the index of *)
(* the process that runs, or to another name of a file that was there.     *)
(***************************************************************************)
EXTENDS Integers, Sequences

CONSTANTS Paths, Groups, Size, Hashed, Versions, NoFile

VARIABLES tree, goal

vars == <<tree, goal>>

Checked(p, blob) ==
    /\ blob \in Seq(Versions)
    /\ p \in Hashed => blob = [b \in 1..Size[p] |-> goal[p]]
    /\ Size[p] > 0 => Len(blob) = Size[p]

Placed(P, blob) == [p \in Paths |-> IF p \in P THEN blob ELSE tree[p]]

(* Any tree of files that were checked once, against this or another index. *)
Init ==
    /\ goal \in [Paths -> Versions]
    /\ tree = [p \in Paths |-> tree[p]]
    /\ \A p \in Paths : tree[p] # NoFile =>
          \E v \in Versions : p \in Hashed => tree[p] = [b \in 1..Size[p] |-> v]

(* A checked file appears under all its names. *)
Publish(P) ==
    \E q \in P : /\ \A p \in P : Checked(p, tree'[q])
                 /\ tree' = Placed(P, tree'[q])
                 /\ UNCHANGED goal

(* A file that was there gets its other names. *)
Alias(P) ==
    \E q \in P : /\ tree[q] # NoFile
                 /\ tree' = Placed(P, tree[q])
                 /\ UNCHANGED goal

(* Another process, with another index. *)
NewGoal == UNCHANGED tree /\ goal' \in [Paths -> Versions]

(* The process is killed with some names made and one removed, which may be the
   one the file had: q is a name made, r the name the file had. *)
Torn(P) ==
    \E q, r \in P :
       LET blob == tree'[q] IN
       /\ \/ blob = tree[r] /\ blob # NoFile
          \/ \A p \in P : Checked(p, blob)
       /\ tree' = [p \in Paths |-> tree'[p]]
       /\ \A p \in Paths :
             \/ tree'[p] = tree[p]
             \/ p \in P /\ tree'[p] \in {blob, NoFile}
       /\ goal' \in [Paths -> Versions]

Next == NewGoal \/ \E P \in Groups : Publish(P) \/ Alias(P) \/ Torn(P)

Spec == Init /\ [][Next]_vars
=============================================================================
