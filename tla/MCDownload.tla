----------------------------- MODULE MCDownload -----------------------------
(* Instances of Download for TLC.  `a' and `b' are packages of one pool
   directory.  `packages' is an index: compressed, by its hash and by its name,
   or `plain'.  `release' is a file whose size and hash no index gives. *)
EXTENDS Download

CONSTANTS a, b, packages, byhash, plain, release, root, dists, sub

MCVariants ==
    [f \in Files |-> IF f = packages THEN <<<<byhash, packages>>, <<plain>>>>
                                     ELSE <<<<f>>>>]

MCSize == [p \in Paths |-> CASE p \in {a, byhash, packages} -> 2
                             [] p \in {b, plain} -> 1
                             [] p = release -> 0]

MCDirOf == [p \in Paths |-> IF p = byhash THEN sub ELSE dists]

MCAbove == [d \in Dirs |-> CASE d = root -> {root}
                             [] d = dists -> {root, dists}
                             [] d = sub -> {root, dists, sub}]
=============================================================================
