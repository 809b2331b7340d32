------------------------------ MODULE FileSizes ------------------------------
(***************************************************************************)
(* The bytes of a set of files: the sums that PathCleaner (_check_file),   *)
(* _partition_volumes and _deletion_allowed of offline.py keep.  The total *)
(* is the number of bytes, counted one by one: unlike a fold, provers can  *)
(* reason about it.                                                        *)
(***************************************************************************)
EXTENDS Integers, FiniteSets

(* The bytes of the files, each with its place. *)
Units(files, size) == UNION {{f} \X (1..size[f]) : f \in files}

TotalSize(files, size) == Cardinality(Units(files, size))
=============================================================================
