---------------------------- MODULE Configuration ----------------------------
(***************************************************************************)
(* Reading the configuration: mirror.list and the files of mirror.list.d   *)
(* become repositories.  The files of the directory come in the order of   *)
(* glob, which is no order; .list files are read before .sources files.    *)
(*                                                                         *)
(* A list of architectures is an object: RepositoryConfig gives the one of *)
(* its line to every component it makes, so a component has the number of  *)
(* a list, and `lists' has the lists.                                      *)
(***************************************************************************)
EXTENDS Integers, Sequences, FiniteSets

CONSTANTS
    Url,        \* repositories, without a trailing slash
    Suite,      \* what a line has for codenames
    Flat,       \* those of them that end in a slash: directories of flat repositories
    Component,
    Arch,
    Key,        \* files for signed-by
    Value,      \* values of options, skip-clean paths among them
    PartOf,     \* <<url, path>>: the skip-clean path is part of the repository
    HostArch,   \* what dpkg prints
    Inputs,     \* the configurations that may be found
    None        \* no value

Flags == {"clean", "http2-disable", "mirror_dist_upgrader"}
Firsts == {"mirror_path", "gpg_verify"}
Filters == {"include", "exclude", "include_source_name", "exclude_source_name",
            "include_binary_packages", "exclude_binary_packages",
            "include_sections", "exclude_sections", "include_tags", "exclude_tags"}
Unions == {"ignore_errors", "skip-clean"} \cup Filters
Options == [key : Flags \cup Firsts \cup Unions, target : Url \cup Value, value : Value \cup {None}]

ByHash == {"yes", "no", "force"}

(* RepositoryConfig: what one line or stanza asks for. *)
Requests == [url : Url, suites : SUBSET Suite, components : SUBSET Component,
             arches : SUBSET Arch, source : BOOLEAN, byHash : ByHash,
             signedBy : SUBSET Key, settings : SUBSET Options]

Lines == [kind : {"set"}, arch : Arch]
    \cup [kind : {"deb"}, type : Arch \cup {"any", "src"}, arch : SUBSET (Arch \cup {"src"}),
          url : Url, suites : SUBSET Suite, components : SUBSET Component,
          byHash : ByHash, signedBy : SUBSET Key]
    \cup [kind : {"option"}, option : Options]
Stanzas == [enabled : BOOLEAN, types : SUBSET {"deb", "deb-src"}, arches : SUBSET Arch,
            url : Url, suites : SUBSET Suite, components : SUBSET Component,
            byHash : ByHash, signedBy : SUBSET Key, settings : SUBSET Options]

ASSUME ConfigurationAssumption ==
    /\ Flat \subseteq Suite /\ HostArch \in Arch /\ {"any", "src"} \cap Arch = {}
    /\ PartOf \subseteq Url \X Value /\ None \notin Value
    /\ Inputs \subseteq [main : Seq(Lines), lists : SUBSET Seq(Lines), sources : SUBSET Seq(Stanzas)]

VARIABLES
    phase,        \* "list", "sources", "done", or "failed" by an exception
    reading,      \* what is left of the file being read
    unread,       \* the files still to come, lists and sources
    defaultArch,
    options,      \* the options collected so far
    known,        \* the repositories
    flat,         \* those of them that are flat
    settings,     \* their attributes and filters: <<url, key, value>>
    suites,       \* by-hash and signed-by of a codename or a directory
    parts,        \* components of a codename
    folders,      \* directories of flat repositories
    lists,        \* lists of architectures
    asked,        \* history: the requests read
    given,        \* history: the options of the .list files
    listed        \* history: the repositories of the .list files

repositories == <<known, flat, settings, suites, parts, folders, lists>>
configVars == <<phase, reading, unread, defaultArch, options, repositories, asked, given, listed>>
------------------------------------------------------------------------------
(* Requests *)

(* Faulty variant: src is taken for an architecture. *)
LineArchesAndSource(l) == (l.arch \cup {l.type}) \ {"any"}

(* RepositoryConfig.from_line: deb-amd64, deb [arch=amd64,src], deb-src. *)
LineArches(l) == (l.arch \cup {l.type}) \cap Arch
LineSource(l) == l.type = "src" \/ "src" \in l.arch

FromLine(l) ==
    [url |-> l.url, suites |-> l.suites, components |-> l.components,
     arches |-> IF LineArches(l) = {} /\ ~LineSource(l) THEN {defaultArch} ELSE LineArches(l),
     source |-> LineSource(l), byHash |-> l.byHash, signedBy |-> l.signedBy, settings |-> {}]

FromStanza(s) ==
    [url |-> s.url, suites |-> s.suites, components |-> s.components,
     arches |-> IF "deb" \notin s.types THEN {}
                ELSE IF s.arches = {} THEN {defaultArch} ELSE s.arches,
     source |-> "deb-src" \in s.types, byHash |-> s.byHash, signedBy |-> s.signedBy,
     settings |-> {o \in s.settings : o.key \notin Filters}]

IsFlat(r) == r.suites \cap Flat # {}

(* RepositoryConfig.create and update_repository raise an exception. *)
Mixed(r) ==
    \/ IsFlat(r) /\ ~ r.suites \subseteq Flat
    \/ r.url \in known /\ (r.url \in flat) # IsFlat(r)

Codenames(r) == {r.url} \X r.suites
Places(r) == IF IsFlat(r) THEN {} ELSE {r.url} \X r.suites \X r.components
------------------------------------------------------------------------------
(* Config._add_repository: to_repository or update_repository *)

(* The first by-hash that is not the default, the first list of keys. *)
Suites(r) ==
    [x \in DOMAIN suites \cup Codenames(r) |->
        IF x \notin DOMAIN suites THEN [byHash |-> r.byHash, signedBy |-> r.signedBy]
        ELSE IF x \notin Codenames(r) THEN suites[x]
        ELSE [byHash |-> IF suites[x].byHash = "yes" THEN r.byHash ELSE suites[x].byHash,
              signedBy |-> IF suites[x].signedBy = {} THEN r.signedBy ELSE suites[x].signedBy]]

(* Faulty variant: the line's list is made once and used for every line. *)
PartsOfOneList(r) ==
    [x \in DOMAIN parts \cup Places(r) |->
        IF x \notin DOMAIN parts THEN [source |-> r.source, list |-> 1]
        ELSE [parts[x] EXCEPT !.source = @ \/ (x \in Places(r) /\ r.source)]]

(* A new component has the list of this line, an old one keeps its own ... *)
Parts(r) ==
    [x \in DOMAIN parts \cup Places(r) |->
        IF x \notin DOMAIN parts THEN [source |-> r.source, list |-> Len(lists) + 1]
        ELSE [parts[x] EXCEPT !.source = @ \/ (x \in Places(r) /\ r.source)]]

(* Faulty variant: an old component is left as it is. *)
ListsOfNew(r) == Append(lists, r.arches)

(* ... to which the architectures of this line are appended. *)
Appended(r) == {parts[x].list : x \in Places(r) \cap DOMAIN parts}
Lists(r) ==
    Append([i \in 1..Len(lists) |-> IF i \in Appended(r) THEN lists[i] \cup r.arches ELSE lists[i]],
           r.arches)

Folders(r) ==
    [x \in DOMAIN folders \cup (IF IsFlat(r) THEN Codenames(r) ELSE {}) |->
        IF x \notin DOMAIN folders THEN [source |-> r.source, binaries |-> r.arches # {}]
        ELSE IF x \notin Codenames(r) THEN folders[x]
        ELSE [source |-> folders[x].source \/ r.source,
              binaries |-> folders[x].binaries \/ r.arches # {}]]

(* The attributes are those of the request that makes the repository. *)
Initial(r) ==
    IF r.url \in known THEN {} ELSE {<<r.url, o.key, o.value>> : o \in r.settings}

AddRepository(r) ==
    /\ asked' = asked \cup {r}
    /\ known' = known \cup {r.url}
    /\ flat' = IF IsFlat(r) THEN flat \cup {r.url} ELSE flat
    /\ settings' = settings \cup Initial(r)
    /\ suites' = Suites(r)
    /\ parts' = Parts(r)
    /\ lists' = Lists(r)
    /\ folders' = Folders(r)

Fail == phase' = "failed" /\ UNCHANGED <<repositories, asked>>

Add(r) == IF Mixed(r) THEN Fail ELSE AddRepository(r) /\ UNCHANGED phase
------------------------------------------------------------------------------
(* The loops over files and lines *)

Advance == reading' = Tail(reading) /\ UNCHANGED unread

OpenFile ==
    /\ phase \in {"list", "sources"} /\ reading = <<>>
    /\ \E f \in IF phase = "list" THEN unread.lists ELSE unread.sources :
        /\ reading' = f
        /\ unread' = [lists |-> unread.lists \ {f}, sources |-> unread.sources \ {f}]
    /\ UNCHANGED <<phase, defaultArch, options, repositories, asked, given, listed>>

ReadLine(kind) == phase = "list" /\ reading # <<>> /\ Head(reading).kind = kind /\ Advance

ReadSet ==
    /\ ReadLine("set")
    /\ defaultArch' = Head(reading).arch
    /\ UNCHANGED <<phase, options, repositories, asked, given, listed>>

ReadDeb ==
    /\ ReadLine("deb")
    /\ Add(FromLine(Head(reading)))
    /\ UNCHANGED <<defaultArch, options, given, listed>>

(* Faulty variant: the last value is used. *)
CollectedLast(o) ==
    {x \in options : ~(o.key \in Firsts /\ x.key = o.key /\ x.target = o.target)} \cup {o}

(* Of mirror_path and gpg_verify the first value is used. *)
Collected(o) ==
    IF o.key \in Firsts /\ \E x \in options : x.key = o.key /\ x.target = o.target /\ x.value # None
    THEN options ELSE options \cup {o}

ReadOption ==
    /\ ReadLine("option")
    /\ options' = Collected(Head(reading).option)
    /\ given' = Append(given, Head(reading).option)
    /\ UNCHANGED <<phase, defaultArch, repositories, asked, listed>>

(* URLDict finds a repository by its URL; _update_skip_clean those a path is part of. *)
Applies(o, u) == IF o.key = "skip-clean" THEN <<u, o.value>> \in PartOf ELSE o.target = u

(* "Missing mirror path for URL" *)
Incomplete ==
    \E o \in options : /\ o.key \in Firsts /\ o.value = None /\ o.target \in known
                       /\ ~ \E x \in options : x.key = o.key /\ x.target = o.target /\ x.value # None

Overridden ==
    {s \in settings : s[2] \in Firsts /\ \E o \in options : o.key = s[2] /\ Applies(o, s[1])}

Applied ==
    (settings \ Overridden)
      \cup UNION {{<<u, o.key, o.value>> : u \in {v \in known : Applies(o, v)}} :
                    o \in {x \in options : x.value # None}}

ApplyOptions ==
    /\ phase = "list" /\ reading = <<>> /\ unread.lists = {}
    /\ IF Incomplete THEN Fail /\ UNCHANGED listed
       ELSE /\ phase' = "sources"
            /\ settings' = Applied
            /\ listed' = known
            /\ UNCHANGED <<known, flat, suites, parts, folders, lists, asked>>
    /\ options' = {}
    /\ UNCHANGED <<reading, unread, defaultArch, given>>

(* A stanza's options count if it makes the repository; its filters always do. *)
ReadStanza ==
    /\ phase = "sources" /\ reading # <<>> /\ Advance
    /\ LET s == Head(reading)
       IN IF s.enabled
          THEN /\ Add(FromStanza(s))
               /\ options' = options \cup {o \in s.settings : o.key \in Filters}
          ELSE UNCHANGED <<phase, options, repositories, asked>>
    /\ UNCHANGED <<defaultArch, given, listed>>

ApplyFilters ==
    /\ phase = "sources" /\ reading = <<>> /\ unread.sources = {}
    /\ phase' = "done"
    /\ settings' = Applied
    /\ options' = {}
    /\ UNCHANGED <<reading, unread, defaultArch, known, flat, suites, parts, folders, lists,
                   asked, given, listed>>

ConfigInit ==
    /\ phase = "list" /\ defaultArch = HostArch
    /\ \E i \in Inputs : reading = i.main /\ unread = [lists |-> i.lists, sources |-> i.sources]
    /\ options = {} /\ asked = {} /\ given = <<>> /\ listed = {}
    /\ known = {} /\ flat = {} /\ settings = {}
    /\ suites = [x \in {} |-> {}] /\ parts = [x \in {} |-> {}] /\ folders = [x \in {} |-> {}]
    /\ lists = <<>>

ReadList == OpenFile \/ ReadSet \/ ReadDeb \/ ReadOption \/ ApplyOptions
ConfigNext == ReadList \/ ReadStanza \/ ApplyFilters

ConfigSpec == ConfigInit /\ [][ConfigNext]_configVars
------------------------------------------------------------------------------
(* Properties *)

ConfigTypeOK ==
    /\ phase \in {"list", "sources", "done", "failed"}
    /\ reading \in IF phase = "list" THEN Seq(Lines) ELSE Seq(Lines) \cup Seq(Stanzas)
    /\ unread \in [lists : SUBSET Seq(Lines), sources : SUBSET Seq(Stanzas)]
    /\ defaultArch \in Arch /\ options \subseteq Options
    /\ known \subseteq Url /\ flat \subseteq known
    /\ settings \subseteq Url \X (Flags \cup Firsts \cup Unions) \X (Value \cup {None})
    /\ DOMAIN suites \subseteq Url \X Suite
    /\ suites \in [DOMAIN suites -> [byHash : ByHash, signedBy : SUBSET Key]]
    /\ DOMAIN parts \subseteq Url \X Suite \X Component
    /\ parts \in [DOMAIN parts -> [source : BOOLEAN, list : 1..Len(lists)]]
    /\ DOMAIN folders \subseteq Url \X Suite
    /\ folders \in [DOMAIN folders -> [source : BOOLEAN, binaries : BOOLEAN]]
    /\ lists \in Seq(SUBSET Arch)
    /\ asked \subseteq Requests /\ given \in Seq(Options) /\ listed \subseteq known

(* Every line counts, in whatever order files and lines are read and whatever other
   lines say of the same repository: what one asks for is mirrored from then on
   (with its default architecture as it was at that line), and a codename with keys or a
   by-hash policy in any of its lines has keys and a policy. *)
Granted(r) ==
    /\ r.url \in known
    /\ \A s \in r.suites :
        /\ <<r.url, s>> \in DOMAIN suites
        /\ r.signedBy # {} => suites[<<r.url, s>>].signedBy # {}
        /\ r.byHash # "yes" => suites[<<r.url, s>>].byHash # "yes"
        /\ IF s \in Flat
           THEN /\ <<r.url, s>> \in DOMAIN folders
                /\ r.source => folders[<<r.url, s>>].source
                /\ r.arches # {} => folders[<<r.url, s>>].binaries
           ELSE \A c \in r.components :
                /\ <<r.url, s, c>> \in DOMAIN parts
                /\ r.source => parts[<<r.url, s, c>>].source
                /\ r.arches \subseteq lists[parts[<<r.url, s, c>>].list]

EverythingAsked == \A r \in asked : Granted(r)

(* Components share lists, and a line that appends to the list of one changes all of
   them (more is mirrored than was asked for).  It never goes beyond the repository:
   its architectures are those some line names for the same URL, and sources are mirrored
   only for components some line names with them. *)
NothingForeign ==
    \A x \in DOMAIN parts :
        /\ lists[parts[x].list] \subseteq UNION {r.arches : r \in {q \in asked : q.url = x[1]}}
        /\ parts[x].source => \E r \in asked : r.source /\ x \in Places(r)

(* An option reaches every repository of the .list files it is for, wherever its line
   stands, and stays in force when .sources files are read: all values of the options
   that gather, the first value of the others. *)
FirstGiven(o, i) == ~ \E j \in 1..(i - 1) : given[j].key = o.key /\ given[j].target = o.target
                                           /\ given[j].value # None

SettingsReach ==
    phase \in {"sources", "done"} =>
        \A i \in 1..Len(given), u \in listed :
            LET o == given[i]
            IN  o.value # None /\ Applies(o, u) =>
                    \/ <<u, o.key, o.value>> \in settings
                    \/ o.key \in Firsts /\ ~FirstGiven(o, i)
=============================================================================
