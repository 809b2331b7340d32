---------------------------- MODULE PackageFilter ----------------------------
(***************************************************************************)
(* Which packages a repository's filter lets through (filter.py).  A       *)
(* filter is a function from its fields to sets; an empty set is no        *)
(* condition.                                                              *)
(***************************************************************************)
EXTENDS Integers, Sequences, FiniteSets

CONSTANTS
    Glob,    \* <<pattern, name>>: the name matches the pattern
    Facet    \* <<tag, facet>>: what stands before :: in a tag

MatchesAny(names, patterns) == \E n \in names, p \in patterns : <<p, n>> \in Glob

SplitTags(tags) == tags \cup {f[2] : f \in {x \in Facet : x[1] \in tags}}

(* Values that are there must meet a condition; those that are not there meet it. *)
Passes(include, exclude, values) ==
    values # {} => /\ include # {} => values \cap include # {}
                   /\ values \cap exclude = {}

(* package_allowed: of a source package there is one name, and no tags. *)
PackageAllowed(f, source, binary, section, tags) ==
    LET names == source \cup binary
    IN  /\ f["include"] # {} => MatchesAny(names, f["include"])
        /\ ~MatchesAny(names, f["exclude"])
        /\ Passes(f["include_source_name"], f["exclude_source_name"], source)
        /\ Passes(f["include_binary_packages"], f["exclude_binary_packages"], binary)
        /\ Passes(f["include_sections"], f["exclude_sections"], section)
        /\ Passes(f["include_tags"], f["exclude_tags"], SplitTags(tags))
=============================================================================
