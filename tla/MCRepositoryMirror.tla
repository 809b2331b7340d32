------------------------- MODULE MCRepositoryMirror -------------------------
(* The second snapshot of the repository drops index `extra' and package
   `old_deb', and adds package `new_deb'.  The third lists no index at all.  The
   first one lists `main' only compressed. *)
EXTENDS RepositoryMirror

CONSTANTS inrelease, release, main, extra, foreign, old_deb, new_deb, extra_deb

MCLists == [v \in Versions |-> CASE v = 1 -> Indexes
                                 [] v = 2 -> {main}
                                 [] v = 3 -> {}]

MCPlain == [v \in Versions |-> Indexes \cap (IF v = 1 THEN {extra} ELSE {main})]

MCNeeds == [i \in Indexes |-> [v \in Versions |->
              CASE i = extra -> {extra_deb}
                [] i = main /\ v = 1 -> {old_deb}
                [] OTHER -> {new_deb}]]

MCSize == [f \in Meta \cup Packages |-> CASE f = old_deb -> 6
                                        [] f = extra_deb -> 1
                                        [] OTHER -> 2]
=============================================================================
