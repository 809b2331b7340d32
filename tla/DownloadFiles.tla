---------------------------- MODULE DownloadFiles ----------------------------
(***************************************************************************)
(* What the downloader is asked for: a file, its compression variants, and *)
(* the paths each variant may be had from (download_file.py).  Hashes are  *)
(* a set of <<type, digest>>, one of a type.                               *)
(***************************************************************************)
EXTENDS Integers, Sequences, FiniteSets

HashTypes == {"SHA512", "SHA256", "SHA1", "MD5Sum"}
Compressions == {"xz", "gz", "bz2", "none"}

(* FileCompression's members in their order: the order variants are tried in. *)
Rank == [xz |-> 1, gz |-> 2, bz2 |-> 3, none |-> 4]

(* dict.update *)
Updated(old, new) == {h \in old : ~ \E n \in new : n[1] = h[1]} \cup new

(* __post_init__: a file has one variant, of the compression its suffix stands for, of any
   size and content.  An index has its path without compression; add_compression_variant
   gives the variant of an archive its size and hashes. *)
NewFile(path, compression) ==
    [path |-> path, ignored |-> FALSE, optional |-> FALSE,
     variants |-> [c \in {compression} |->
                    [path |-> path, size |-> 0, hashes |-> {}, byHash |-> FALSE]]]

(* add_compression_variant, with the hashes of one path at once. *)
AddVariant(file, compression, path, size, hashes, byHash) ==
    [file EXCEPT
        !.path = IF compression = "none" THEN path ELSE @,
        !.variants = [c \in DOMAIN file.variants \cup {compression} |->
            IF c # compression THEN file.variants[c]
            ELSE [path |-> path, size |-> size, byHash |-> byHash,
                  hashes |-> IF c \in DOMAIN file.variants
                             THEN Updated(file.variants[c].hashes, hashes) ELSE hashes]]]

(* get_all_paths; `folder' is where the path is. *)
AllPaths(v, folder) ==
    {v.path} \cup IF v.byHash THEN {[below |-> folder, hash |-> h] : h \in v.hashes} ELSE {}

NoFiles == [p \in {} |-> {}]

(* iter_variants: the first of those that are to be had. *)
FirstOf(file, had) ==
    CHOOSE c \in DOMAIN file.variants \cap had :
        \A d \in DOMAIN file.variants \cap had : Rank[c] <= Rank[d]
=============================================================================
