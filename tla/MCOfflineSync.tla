---------------------------- MODULE MCOfflineSync ----------------------------
(* Mirrors of an index and a package: the package changes, and a later snapshot
   has another package in its place. *)
EXTENDS OfflineSync

CONSTANTS index, deb, other, disk, cdrom

MCSnapshots ==
    LET mirror(i, d, o) == [p \in Paths |-> CASE p = index -> i [] p = deb -> d [] p = other -> o]
    IN  {mirror(1, 1, Absent), mirror(2, 2, Absent), mirror(2, Absent, 1)}

(* `deb' is 40% of a mirror of all three. *)
MCSize == [p \in Paths |-> IF p = other THEN 1 ELSE 2]
=============================================================================
