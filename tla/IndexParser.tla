----------------------------- MODULE IndexParser -----------------------------
(***************************************************************************)
(* Reading Packages and Sources files: SourcesParser and PackagesParser go *)
(* through an index line by line, gather the fields of a stanza in their   *)
(* own attributes, and add its files to the pool when the stanza ends.     *)
(* Every index is followed by one more blank line.                         *)
(***************************************************************************)
EXTENDS DownloadFiles, PackageFilter

CONSTANTS
    Word,         \* names of packages and sections
    Tag,
    Directory,    \* directories of the pool
    Name,         \* files in them
    Sum,          \* checksums
    SizeBound,    \* the largest size
    CompressionOf \* the compression the suffix of a name stands for

ASSUME SizeAssumption == SizeBound \in Nat
ASSUME CompressionAssumption == \A n \in Name : CompressionOf[n] \in Compressions

Path == [directory : Directory, name : Name]
Hash == HashTypes \X Sum
Kinds == {"packages", "sources"}

(* A line of an index; `safe' tells whether the path stays below the repository. *)
TextLines ==
         [key : {"package", "source", "section"}, value : Word]
    \cup [key : {"tags", "more"}, value : SUBSET Tag]
    \cup [key : {"path"}, value : Path, safe : BOOLEAN]
    \cup [key : {"directory"}, value : Directory, safe : BOOLEAN]
    \cup [key : {"size"}, value : 0..SizeBound]
    \cup [key : {"hash"}, value : Hash]
    \cup [key : {"files"}, value : HashTypes]
    \cup [key : {"file"}, value : Name, sum : Sum, size : 0..SizeBound, safe : BOOLEAN]
    \cup [key : {"other", "end"}]

VARIABLES
    job,       \* which parser runs, with which filter and which paths whose errors are ignored
    text,      \* what is left of the index
    block,     \* the attributes of the parser
    pool,      \* for each parser, the files it has found: _pool_files
    stanza,    \* history: the lines of the current stanza
    finished   \* history: the stanzas that have ended, for each parser

parserVars == <<job, text, block, pool, stanza, finished>>

(* _reset_block_parser; {} stands for None, and for a tag that is not being read. *)
EmptyBlock ==
    [package |-> {}, source |-> {}, section |-> {}, tags |-> {}, path |-> {}, size |-> 0,
     hashes |-> {}, multi |-> {}, directory |-> {}, type |-> {},
     files |-> [n \in {} |-> {}]]

Line(keys) == text # <<>> /\ Head(text).key \in keys

(* The line is behind, and the block is b. *)
Read(b) ==
    /\ text' = Tail(text)
    /\ stanza' = Append(stanza, Head(text))
    /\ block' = b
    /\ UNCHANGED <<job, pool, finished>>
------------------------------------------------------------------------------
(* Packages *)

(* A line that does not go on with the tags ends them. *)
Closed == IF block.multi = {} THEN block
          ELSE [block EXCEPT !.tags = UNION block.multi, !.multi = {}]

Packages(keys) == job.kind = "packages" /\ Line(keys)

ReadField ==
    /\ Packages({"package", "source", "section"})
    /\ Read([Closed EXCEPT ![Head(text).key] = {Head(text).value}])

ReadFilename ==
    /\ Packages({"path"})
    /\ Read(IF Head(text).safe THEN [Closed EXCEPT !.path = {Head(text).value}] ELSE Closed)

ReadSize ==
    /\ Packages({"size"})
    /\ Read([Closed EXCEPT !.size = Head(text).value])

ReadHash ==
    /\ Packages({"hash"})
    /\ Read([Closed EXCEPT !.hashes = Updated(@, {Head(text).value})])

ReadTags ==
    /\ Packages({"tags"})
    /\ Read([Closed EXCEPT !.multi = {Head(text).value}])

(* A continuation of the tags, or of a field that is not used. *)
ReadMore ==
    /\ Packages({"more"})
    /\ Read(IF block.multi = {} THEN block ELSE [block EXCEPT !.multi = @ \cup {Head(text).value}])

ReadUnused ==
    /\ Packages({"other"})
    /\ Read(Closed)
------------------------------------------------------------------------------
(* Sources *)

Sources(keys) == job.kind = "sources" /\ Line(keys)

(* Only lines of fields that are not used end a list of files. *)
ReadSourceField ==
    /\ Sources({"package", "section"})
    /\ Read([block EXCEPT ![Head(text).key] = {Head(text).value}])

ReadDirectory ==
    /\ Sources({"directory"})
    /\ Read(IF Head(text).safe THEN [block EXCEPT !.directory = {Head(text).value}] ELSE block)

(* Files: and Checksums-...: *)
ReadFilesHeader ==
    /\ Sources({"files"})
    /\ Read([block EXCEPT !.type = {Head(text).value}])

ReadOtherField ==
    /\ Sources({"other"})
    /\ Read([block EXCEPT !.type = {}])

(* A file has the size of its first entry and the hashes of all. *)
Listing(files, n, size, h) ==
    [x \in DOMAIN files \cup {n} |->
        IF x # n THEN files[x]
        ELSE IF n \in DOMAIN files THEN [files[n] EXCEPT !.hashes = Updated(@, h)]
        ELSE [size |-> size, hashes |-> h]]

ReadFile ==
    /\ Sources({"file"})
    /\ LET l == Head(text)
       IN  Read(IF block.type = {} \/ ~l.safe THEN block
                ELSE [block EXCEPT !.files =
                        Listing(@, l.value, l.size, {<<t, l.sum>> : t \in block.type})])

(* A line that begins with a space and is no file. *)
ReadNoFile ==
    /\ Sources({"more"})
    /\ Read(block)
------------------------------------------------------------------------------
(* The end of a stanza *)

(* to_download_file, and the end of _do_parse_index of Packages: without hashes the size
   is not known either. *)
FileOf(path, size, hashes) ==
    LET c == CompressionOf[path.name]
        file == IF hashes = {} THEN NewFile(path, c)
                ELSE AddVariant(NewFile(path, c), c, path, size, hashes, FALSE)
    IN  [file EXCEPT !.ignored = path \in job.ignored]

(* Faulty variant: a package without Source: has no source. *)
SourceOfField(b) == b.source

(* Source: is there when it is not the package's own name. *)
SourceOf(b) == IF b.source # {} THEN b.source ELSE b.package

(* Faulty variant: the section is kept for the next stanza. *)
ResetExceptSection(b) == [EmptyBlock EXCEPT !.section = b.section]

Reset(b) == EmptyBlock

(* The files of a stanza that is complete and that the filter lets through. *)
PackagesFound(b) ==
    IF /\ b.package # {} /\ b.path # {} /\ b.size # 0
       /\ PackageAllowed(job.filter, SourceOf(b), b.package, b.section, b.tags)
    THEN [p \in b.path |-> FileOf(p, b.size, b.hashes)]
    ELSE NoFiles

SourcesFound(b) ==
    IF /\ b.package # {} /\ b.directory # {}
       /\ PackageAllowed(job.filter, b.package, {}, b.section, {})
    THEN [p \in [directory : b.directory, name : DOMAIN b.files] |->
            FileOf(p, b.files[p.name].size, b.files[p.name].hashes)]
    ELSE NoFiles

(* A path that is found again is what it was last. *)
EndStanza ==
    /\ Line({"end"})
    /\ LET found == IF job.kind = "packages" THEN PackagesFound(Closed) ELSE SourcesFound(block)
       IN  pool' = [pool EXCEPT ![job.kind] =
                [p \in DOMAIN @ \cup DOMAIN found |->
                    IF p \in DOMAIN found THEN found[p] ELSE pool[job.kind][p]]]
    /\ text' = Tail(text)
    /\ block' = Reset(block)
    /\ stanza' = <<>>
    /\ finished' = [finished EXCEPT ![job.kind] = @ \cup {stanza}]
    /\ UNCHANGED job

ReadText ==
    \/ ReadField \/ ReadFilename \/ ReadSize \/ ReadHash \/ ReadTags \/ ReadMore \/ ReadUnused
    \/ ReadSourceField \/ ReadDirectory \/ ReadFilesHeader \/ ReadOtherField \/ ReadFile
    \/ ReadNoFile \/ EndStanza
------------------------------------------------------------------------------
(* Indexes one after the other, of either kind and in any order *)

ParserInit ==
    /\ job = [kind |-> "sources", filter |-> job.filter, ignored |-> job.ignored]
    /\ text = <<>> /\ block = EmptyBlock /\ stanza = <<>>
    /\ pool = [k \in Kinds |-> NoFiles] /\ finished = [k \in Kinds |-> {}]

OpenIndex(kind, lines) ==
    /\ text = <<>> /\ stanza = <<>>
    /\ job' = [job EXCEPT !.kind = kind]
    /\ text' = lines
    /\ UNCHANGED <<block, pool, stanza, finished>>

ParserNext == ReadText \/ \E k \in Kinds, lines \in Seq(TextLines) : OpenIndex(k, lines)
ParserSpec == ParserInit /\ [][ParserNext]_parserVars
------------------------------------------------------------------------------
(* Properties *)

(* What a list of lines says, read without a parser. *)
Last(lines, at) == {lines[i].value : i \in {j \in at : \A k \in at : k <= j}}
Values(lines, key) == Last(lines, {i \in DOMAIN lines : lines[i].key = key})
SafeValues(lines, key) ==
    Last(lines, {i \in DOMAIN lines : lines[i].key = key /\ lines[i].safe})
TagsIn(lines) ==
    LET first == {i \in DOMAIN lines : lines[i].key = "tags"
                                       /\ \A j \in DOMAIN lines : lines[j].key = "tags" => j <= i}
    IN  UNION {lines[j].value : j \in {k \in DOMAIN lines :
                \E i \in first : i <= k /\ \A m \in (i + 1)..k : lines[m].key = "more"}}
HashesIn(lines) ==
    {lines[i].value : i \in {j \in DOMAIN lines : lines[j].key = "hash"
        /\ \A k \in DOMAIN lines : k > j /\ lines[k].key = "hash" => lines[k].value[1] # lines[j].value[1]}}

(* The list of files a line stands in, and the entries of a file in all of them. *)
TypeAt(lines, i) ==
    {lines[j].value : j \in {k \in 1..(i - 1) :
        lines[k].key = "files" /\ \A m \in (k + 1)..(i - 1) : lines[m].key \notin {"files", "other"}}}
FileLines(lines) ==
    {i \in DOMAIN lines : lines[i].key = "file" /\ lines[i].safe /\ TypeAt(lines, i) # {}}
LinesOf(lines, n) == {i \in FileLines(lines) : lines[i].value = n}
FilesIn(lines) == {lines[i].value : i \in FileLines(lines)}

(* The last checksum of each type, and the first size. *)
FileSums(lines, n) ==
    {h \in Hash : \E i \in LinesOf(lines, n) :
        /\ h[1] \in TypeAt(lines, i) /\ h[2] = lines[i].sum
        /\ \A k \in LinesOf(lines, n) : h[1] \in TypeAt(lines, k) => k <= i}
FileSize(lines, n) ==
    {lines[i].size : i \in {j \in LinesOf(lines, n) : \A k \in LinesOf(lines, n) : j <= k}}

(* The attributes of a parser are those of the stanza it is in and of no other: no field is
   left over from an earlier stanza, refused or not, none is lost to a continuation line, and
   a checksum belongs to the list it stands in. *)
BlockIsStanza ==
    /\ block.package = Values(stanza, "package")
    /\ block.section = Values(stanza, "section")
    /\ IF job.kind = "packages"
       THEN /\ block.source = Values(stanza, "source")
            /\ block.path = SafeValues(stanza, "path")
            /\ block.size = (IF Values(stanza, "size") = {} THEN 0
                             ELSE CHOOSE n \in Values(stanza, "size") : TRUE)
            /\ block.hashes = HashesIn(stanza)
            /\ Closed.tags = TagsIn(stanza)
       ELSE /\ block.directory = SafeValues(stanza, "directory")
            /\ DOMAIN block.files = FilesIn(stanza)
            /\ \A n \in DOMAIN block.files : /\ {block.files[n].size} = FileSize(stanza, n)
                                             /\ block.files[n].hashes = FileSums(stanza, n)

(* What a stanza asks for, when the filter lets it through. *)
Lets(lines) ==
    LET package == Values(lines, "package")
        source == Values(lines, "source")
    IN  PackageAllowed(job.filter, IF source = {} THEN package ELSE source, package,
                       Values(lines, "section"), TagsIn(lines))
LetsSource(lines) ==
    PackageAllowed(job.filter, Values(lines, "package"), {}, Values(lines, "section"), {})
PathsIn(kind, lines) ==
    IF Values(lines, "package") = {} THEN {}
    ELSE IF kind = "packages"
    THEN IF Values(lines, "size") \subseteq {0} \/ ~Lets(lines) THEN {}
         ELSE SafeValues(lines, "path")
    ELSE IF ~LetsSource(lines) THEN {}
         ELSE [directory : SafeValues(lines, "directory"), name : FilesIn(lines)]

SumsIn(kind, lines, path) ==
    IF kind = "packages" THEN HashesIn(lines) ELSE FileSums(lines, path.name)
SizeIn(kind, lines, path) ==
    IF kind = "packages" THEN Values(lines, "size") ELSE FileSize(lines, path.name)

(* What the downloader is asked for when these lines list a path: the compression of its
   name and no other, with all the checksums and no other, and with the size unless there
   are no checksums. *)
IsListed(file, kind, lines, path) ==
    /\ path \in PathsIn(kind, lines)
    /\ DOMAIN file.variants = {CompressionOf[path.name]}
    /\ \A c \in DOMAIN file.variants :
        /\ file.variants[c].path = path
        /\ file.variants[c].hashes = SumsIn(kind, lines, path)
        /\ {file.variants[c].size} =
              IF SumsIn(kind, lines, path) = {} THEN {0} ELSE SizeIn(kind, lines, path)

(* The pool is exactly what the stanzas that the filter lets through list, whatever order
   indexes come in and however often they list a path; and a file has the size and the
   checksums that one stanza, and not several, has for it. *)
PoolIsListed ==
    \A k \in Kinds :
        /\ DOMAIN pool[k] = UNION {PathsIn(k, lines) : lines \in finished[k]}
        /\ \A p \in DOMAIN pool[k] : \E lines \in finished[k] : IsListed(pool[k][p], k, lines, p)
=============================================================================
