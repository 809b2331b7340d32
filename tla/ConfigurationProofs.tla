-------------------------- MODULE ConfigurationProofs --------------------------
(***************************************************************************)
(* Theorems about Configuration: its types, and that every line counts,    *)
(* and no more than its repository.                                        *)
(***************************************************************************)
EXTENDS Configuration, TLAPS

USE ConfigurationAssumption

DebLines ==
    [kind : {"deb"}, type : Arch \cup {"any", "src"}, arch : SUBSET (Arch \cup {"src"}),
     url : Url, suites : SUBSET Suite, components : SUBSET Component,
     byHash : ByHash, signedBy : SUBSET Key]

(* What a line of some kind has. *)
LEMMA LineKinds ==
    ASSUME NEW l \in Lines
    PROVE  /\ l.kind = "set" => l.arch \in Arch
           /\ l.kind = "deb" => l \in DebLines
           /\ l.kind = "option" => l.option \in Options
  BY DEF Lines, DebLines

LEMMA FromLineRequest ==
    ASSUME NEW l \in DebLines, defaultArch \in Arch
    PROVE  FromLine(l) \in Requests
  <1>1. LineArches(l) \subseteq Arch /\ LineSource(l) \in BOOLEAN
    BY DEF LineArches, LineSource
  <1>2. l.url \in Url /\ l.suites \in SUBSET Suite /\ l.components \in SUBSET Component
        /\ l.byHash \in ByHash /\ l.signedBy \in SUBSET Key
    BY DEF DebLines
  <1> DEFINE a == IF LineArches(l) = {} /\ ~LineSource(l) THEN {defaultArch} ELSE LineArches(l)
  <1>3. a \in SUBSET Arch
    BY <1>1
  <1> HIDE DEF a
  <1>4. FromLine(l) = [url |-> l.url, suites |-> l.suites, components |-> l.components,
                       arches |-> a, source |-> LineSource(l), byHash |-> l.byHash,
                       signedBy |-> l.signedBy, settings |-> {}]
    BY DEF FromLine, a
  <1> QED
    BY <1>1, <1>2, <1>3, <1>4 DEF Requests

LEMMA FromStanzaRequest ==
    ASSUME NEW s \in Stanzas, defaultArch \in Arch
    PROVE  FromStanza(s) \in Requests
  <1> DEFINE a == IF "deb" \notin s.types THEN {}
                  ELSE IF s.arches = {} THEN {defaultArch} ELSE s.arches
  <1>1. a \in SUBSET Arch
    BY DEF Stanzas
  <1> DEFINE o == {x \in s.settings : x.key \notin Filters}
  <1>2. o \in SUBSET Options
    BY DEF Stanzas
  <1>3. s.url \in Url /\ s.suites \in SUBSET Suite /\ s.components \in SUBSET Component
        /\ s.byHash \in ByHash /\ s.signedBy \in SUBSET Key
    BY DEF Stanzas
  <1> HIDE DEF a, o
  <1>4. FromStanza(s) = [url |-> s.url, suites |-> s.suites, components |-> s.components,
                         arches |-> a, source |-> "deb-src" \in s.types, byHash |-> s.byHash,
                         signedBy |-> s.signedBy, settings |-> o]
    BY DEF FromStanza, a, o
  <1>5. ("deb-src" \in s.types) \in BOOLEAN
    OBVIOUS
  <1> QED
    BY <1>1, <1>2, <1>3, <1>4, <1>5 DEF Requests
------------------------------------------------------------------------------
(* The parts of the type invariant. *)

Attributes == Url \X (Flags \cup Firsts \cup Unions) \X (Value \cup {None})

Reader ==
    /\ phase \in {"list", "sources", "done", "failed"}
    /\ phase = "list" => reading \in Seq(Lines)
    /\ phase = "sources" => reading \in Seq(Stanzas)
    /\ reading \in Seq(Lines) \cup Seq(Stanzas)
    /\ unread \in [lists : SUBSET Seq(Lines), sources : SUBSET Seq(Stanzas)]
    /\ defaultArch \in Arch

Collections ==
    /\ options \subseteq Options
    /\ asked \subseteq Requests /\ given \in Seq(Options) /\ listed \subseteq known

Owned ==
    /\ known \subseteq Url /\ flat \subseteq known
    /\ settings \subseteq Attributes

Books ==
    /\ DOMAIN suites \subseteq Url \X Suite
    /\ suites \in [DOMAIN suites -> [byHash : ByHash, signedBy : SUBSET Key]]
    /\ DOMAIN folders \subseteq Url \X Suite
    /\ folders \in [DOMAIN folders -> [source : BOOLEAN, binaries : BOOLEAN]]

Areas ==
    /\ DOMAIN parts \subseteq Url \X Suite \X Component
    /\ parts \in [DOMAIN parts -> [source : BOOLEAN, list : 1..Len(lists)]]
    /\ lists \in Seq(SUBSET Arch)

Typed == Reader /\ Collections /\ Owned /\ Books /\ Areas

LEMMA TypedIsTypeOK == Typed => ConfigTypeOK
  BY DEF Typed, Reader, Collections, Owned, Books, Areas, Attributes, ConfigTypeOK
------------------------------------------------------------------------------
(* A request that is added. *)

LEMMA AddOwned ==
    ASSUME NEW r \in Requests, Owned, AddRepository(r)
    PROVE  Owned' /\ known \subseteq known'
  <1>1. r.url \in Url /\ r.settings \subseteq Options
    BY DEF Requests
  <1>2. known' = known \cup {r.url} /\ flat' \subseteq flat \cup {r.url}
    BY DEF AddRepository
  <1>3. Initial(r) \subseteq Attributes
    <2> SUFFICES ASSUME NEW o \in r.settings PROVE <<r.url, o.key, o.value>> \in Attributes
      BY DEF Initial
    <2> o.key \in Flags \cup Firsts \cup Unions /\ o.value \in Value \cup {None}
      BY <1>1 DEF Options
    <2> QED
      BY <1>1 DEF Attributes
  <1>4. settings' = settings \cup Initial(r)
    BY DEF AddRepository
  <1> QED
    BY <1>1, <1>2, <1>3, <1>4 DEF Owned

LEMMA AddBooks ==
    ASSUME NEW r \in Requests, Books, AddRepository(r)
    PROVE  Books'
  <1>1. r.url \in Url /\ r.suites \subseteq Suite /\ r.byHash \in ByHash
        /\ r.signedBy \in SUBSET Key /\ r.source \in BOOLEAN
    BY DEF Requests
  <1>2. Codenames(r) \subseteq Url \X Suite
    BY <1>1 DEF Codenames
  <1>3. suites' = Suites(r) /\ folders' = Folders(r)
    BY DEF AddRepository
  <1>4. DOMAIN Suites(r) = DOMAIN suites \cup Codenames(r)
    BY DEF Suites
  <1>5. ASSUME NEW x \in DOMAIN suites \cup Codenames(r)
        PROVE  Suites(r)[x] \in [byHash : ByHash, signedBy : SUBSET Key]
    <2>1. CASE x \notin DOMAIN suites
      BY <2>1, <1>1 DEF Suites
    <2>2. CASE x \in DOMAIN suites
      <3>1. suites[x] \in [byHash : ByHash, signedBy : SUBSET Key]
        BY <2>2 DEF Books
      <3> QED
        BY <2>2, <3>1, <1>1 DEF Suites
    <2> QED
      BY <2>1, <2>2
  <1>6. DOMAIN Folders(r) = DOMAIN folders \cup (IF IsFlat(r) THEN Codenames(r) ELSE {})
    BY DEF Folders
  <1>7. ASSUME NEW x \in DOMAIN Folders(r)
        PROVE  Folders(r)[x] \in [source : BOOLEAN, binaries : BOOLEAN]
    <2> (r.arches # {}) \in BOOLEAN
      OBVIOUS
    <2>1. CASE x \notin DOMAIN folders
      BY <2>1, <1>1, <1>7 DEF Folders
    <2>2. CASE x \in DOMAIN folders
      <3>1. folders[x] \in [source : BOOLEAN, binaries : BOOLEAN]
        BY <2>2 DEF Books
      <3>2. (folders[x].source \/ r.source) \in BOOLEAN
            /\ (folders[x].binaries \/ r.arches # {}) \in BOOLEAN
        OBVIOUS
      <3> QED
        BY <2>2, <3>1, <3>2, <1>7 DEF Folders
    <2> QED
      BY <2>1, <2>2
  <1>8. Suites(r) = [x \in DOMAIN Suites(r) |-> Suites(r)[x]]
        /\ Folders(r) = [x \in DOMAIN Folders(r) |-> Folders(r)[x]]
    BY DEF Suites, Folders
  <1>9. DOMAIN suites \subseteq Url \X Suite /\ DOMAIN folders \subseteq Url \X Suite
    BY DEF Books
  <1>10. Suites(r) \in [DOMAIN Suites(r) -> [byHash : ByHash, signedBy : SUBSET Key]]
    BY <1>4, <1>5, <1>8
  <1>11. Folders(r) \in [DOMAIN Folders(r) -> [source : BOOLEAN, binaries : BOOLEAN]]
    BY <1>7, <1>8
  <1>12. DOMAIN Suites(r) \subseteq Url \X Suite /\ DOMAIN Folders(r) \subseteq Url \X Suite
    BY <1>2, <1>4, <1>6, <1>9
  <1> QED
    BY <1>3, <1>10, <1>11, <1>12 DEF Books

(* The lists and the parts after a request: what was there keeps its list, what is new has
   the last one. *)
LEMMA AddAreas ==
    ASSUME NEW r \in Requests, Areas, AddRepository(r)
    PROVE  /\ Areas'
           /\ Len(lists') = Len(lists) + 1
           /\ lists'[Len(lists) + 1] = r.arches
           /\ \A i \in 1..Len(lists) :
                lists'[i] = IF i \in Appended(r) THEN lists[i] \cup r.arches ELSE lists[i]
           /\ DOMAIN parts' = DOMAIN parts \cup Places(r)
           /\ \A x \in DOMAIN parts :
                /\ parts'[x].list = parts[x].list
                /\ parts'[x].source = (parts[x].source \/ (x \in Places(r) /\ r.source))
           /\ \A x \in Places(r) \ DOMAIN parts :
                parts'[x].list = Len(lists) + 1 /\ parts'[x].source = r.source
  <1> DEFINE L == [i \in 1..Len(lists) |-> IF i \in Appended(r) THEN lists[i] \cup r.arches ELSE lists[i]]
  <1>1. r.url \in Url /\ r.suites \subseteq Suite /\ r.components \subseteq Component
        /\ r.arches \in SUBSET Arch /\ r.source \in BOOLEAN
    BY DEF Requests
  <1>2. lists \in Seq(SUBSET Arch) /\ Len(lists) \in Nat
    BY DEF Areas
  <1>3. \A i \in 1..Len(lists) : lists[i] \in SUBSET Arch
    BY <1>2
  <1>4. L \in Seq(SUBSET Arch) /\ Len(L) = Len(lists)
    BY <1>1, <1>2, <1>3
  <1>5. lists' = Append(L, r.arches)
    BY DEF AddRepository, Lists
  <1>6. /\ lists' \in Seq(SUBSET Arch) /\ Len(lists') = Len(lists) + 1
        /\ lists'[Len(lists) + 1] = r.arches
        /\ \A i \in 1..Len(lists) : lists'[i] = L[i]
    <2> HIDE DEF L
    <2> QED
      BY <1>1, <1>2, <1>4, <1>5
  <1>7. Places(r) \subseteq Url \X Suite \X Component
    BY <1>1 DEF Places
  <1>8. parts' = Parts(r)
    BY DEF AddRepository
  <1>9. DOMAIN parts' = DOMAIN parts \cup Places(r)
    BY <1>8 DEF Parts
  <1>10. ASSUME NEW x \in DOMAIN parts
         PROVE  /\ parts'[x].list = parts[x].list
                /\ parts'[x].source = (parts[x].source \/ (x \in Places(r) /\ r.source))
                /\ parts'[x] \in [source : BOOLEAN, list : 1..Len(lists')]
    <2>1. parts[x] \in [source : BOOLEAN, list : 1..Len(lists)]
      BY DEF Areas
    <2>2. parts'[x] = [parts[x] EXCEPT !.source = @ \/ (x \in Places(r) /\ r.source)]
      BY <1>8 DEF Parts
    <2>3. (parts[x].source \/ (x \in Places(r) /\ r.source)) \in BOOLEAN
      OBVIOUS
    <2>4. parts'[x] \in [source : BOOLEAN, list : 1..Len(lists)]
          /\ parts'[x].list = parts[x].list
          /\ parts'[x].source = (parts[x].source \/ (x \in Places(r) /\ r.source))
      BY <2>1, <2>2, <2>3
    <2>5. 1..Len(lists) \subseteq 1..Len(lists')
      BY <1>2, <1>6
    <2> QED
      BY <2>4, <2>5
  <1>11. ASSUME NEW x \in Places(r) \ DOMAIN parts
         PROVE  /\ parts'[x].list = Len(lists) + 1 /\ parts'[x].source = r.source
                /\ parts'[x] \in [source : BOOLEAN, list : 1..Len(lists')]
    <2>1. parts'[x] = [source |-> r.source, list |-> Len(lists) + 1]
      BY <1>8 DEF Parts
    <2>2. Len(lists) + 1 \in 1..Len(lists')
      BY <1>2, <1>6
    <2> QED
      BY <1>1, <2>1, <2>2
  <1>12. parts' \in [DOMAIN parts' -> [source : BOOLEAN, list : 1..Len(lists')]]
    <2>1. parts' = [x \in DOMAIN parts' |-> parts'[x]]
      BY <1>8 DEF Parts
    <2> QED
      BY <2>1, <1>9, <1>10, <1>11
  <1>13. Areas'
    BY <1>6, <1>7, <1>9, <1>12 DEF Areas
  <1> QED
    BY <1>6, <1>9, <1>10, <1>11, <1>13
------------------------------------------------------------------------------
(* Type correctness *)

LEMMA AddTyped ==
    ASSUME NEW r \in Requests, Owned, Books, Areas, asked \subseteq Requests, Add(r)
    PROVE  /\ Owned' /\ Books' /\ Areas' /\ known \subseteq known'
           /\ asked' \subseteq Requests /\ phase' \in {phase, "failed"}
  <1>1. CASE Fail
    BY <1>1 DEF Fail, repositories, Owned, Books, Areas
  <1>2. CASE AddRepository(r) /\ UNCHANGED phase
    <2>1. asked' = asked \cup {r}
      BY <1>2 DEF AddRepository
    <2> QED
      BY <1>2, <2>1, AddOwned, AddBooks, AddAreas
  <1> QED
    BY <1>1, <1>2 DEF Add

LEMMA HeadAndTail ==
    ASSUME NEW S, NEW q \in Seq(S), q # <<>>
    PROVE  Head(q) \in S /\ Tail(q) \in Seq(S)
  OBVIOUS

LEMMA AppliedTyped ==
    ASSUME Owned, options \subseteq Options
    PROVE  Applied \subseteq Attributes
  <1>1. Overridden \subseteq settings
    BY DEF Overridden
  <1>2. ASSUME NEW o \in options, NEW u \in known
        PROVE  <<u, o.key, o.value>> \in Attributes
    <2> o.key \in Flags \cup Firsts \cup Unions /\ o.value \in Value \cup {None}
      BY DEF Options
    <2> QED
      BY DEF Owned, Attributes
  <1>3. UNION {{<<u, o.key, o.value>> : u \in {v \in known : Applies(o, v)}} :
                o \in {x \in options : x.value # None}} \subseteq Attributes
    BY <1>2
  <1> QED
    BY <1>1, <1>3 DEF Applied, Owned

LEMMA TypedInit == ConfigInit => Typed
  <1> SUFFICES ASSUME ConfigInit PROVE Typed
    OBVIOUS
  <1>1. PICK i \in Inputs : reading = i.main /\ unread = [lists |-> i.lists, sources |-> i.sources]
    BY DEF ConfigInit
  <1>2. i \in [main : Seq(Lines), lists : SUBSET Seq(Lines), sources : SUBSET Seq(Stanzas)]
    OBVIOUS
  <1>3. Reader
    BY <1>1, <1>2 DEF ConfigInit, Reader
  <1>4. <<>> \in Seq(Options) /\ <<>> \in Seq(SUBSET Arch)
    OBVIOUS
  <1>5. Collections /\ Owned
    BY <1>4 DEF ConfigInit, Collections, Owned
  <1>6. suites = [x \in {} |-> {}] /\ folders = [x \in {} |-> {}] /\ parts = [x \in {} |-> {}]
        /\ lists = <<>>
    BY DEF ConfigInit
  <1>7. Books
    BY <1>6 DEF Books
  <1>8. Areas
    BY <1>4, <1>6 DEF Areas
  <1> QED
    BY <1>3, <1>5, <1>7, <1>8 DEF Typed

LEMMA TypedNext == Typed /\ [ConfigNext]_configVars => Typed'
  <1> SUFFICES ASSUME Typed, [ConfigNext]_configVars PROVE Typed'
    OBVIOUS
  <1> USE DEF Typed
  <1>1. CASE OpenFile
    <2>1. Owned' /\ Books' /\ Areas' /\ Collections'
      BY <1>1 DEF OpenFile, repositories, Owned, Books, Areas, Collections
    <2>2. Reader'
      <3>1. unread.lists \subseteq Seq(Lines) /\ unread.sources \subseteq Seq(Stanzas)
        BY DEF Reader
      <3>2. PICK f \in (IF phase = "list" THEN unread.lists ELSE unread.sources) :
              /\ reading' = f
              /\ unread' = [lists |-> unread.lists \ {f}, sources |-> unread.sources \ {f}]
        BY <1>1 DEF OpenFile
      <3>3. phase \in {"list", "sources"} /\ UNCHANGED <<phase, defaultArch>>
        BY <1>1 DEF OpenFile
      <3> QED
        BY <3>1, <3>2, <3>3 DEF Reader
    <2> QED
      BY <2>1, <2>2
  <1>2. ASSUME NEW k, ReadLine(k)
        PROVE  /\ Head(reading) \in Lines /\ Head(reading).kind = k
               /\ reading' \in Seq(Lines) /\ phase = "list" /\ unread' = unread
    BY <1>2, HeadAndTail DEF ReadLine, Advance, Reader
  <1>3. CASE ReadSet
    <2>1. Owned' /\ Books' /\ Areas' /\ Collections'
      BY <1>3 DEF ReadSet, repositories, Owned, Books, Areas, Collections
    <2>2. Head(reading).arch \in Arch /\ reading' \in Seq(Lines) /\ phase = "list"
          /\ unread' = unread
      BY <1>2, <1>3, LineKinds DEF ReadSet
    <2>3. Reader'
      BY <1>3, <2>2 DEF ReadSet, Reader
    <2> QED
      BY <2>1, <2>3
  <1>4. CASE ReadDeb
    <2>1. Head(reading) \in DebLines /\ reading' \in Seq(Lines) /\ phase = "list"
          /\ unread' = unread
      BY <1>2, <1>4, LineKinds DEF ReadDeb
    <2>2. FromLine(Head(reading)) \in Requests
      BY <2>1, FromLineRequest DEF Reader
    <2>3. Add(FromLine(Head(reading))) /\ UNCHANGED <<defaultArch, options, given, listed>>
      BY <1>4 DEF ReadDeb
    <2>4. /\ Owned' /\ Books' /\ Areas' /\ known \subseteq known'
          /\ asked' \subseteq Requests /\ phase' \in {phase, "failed"}
      BY <2>2, <2>3, AddTyped DEF Collections
    <2>5. Reader' /\ Collections'
      BY <2>1, <2>3, <2>4 DEF Reader, Collections
    <2> QED
      BY <2>4, <2>5
  <1>5. CASE ReadOption
    <2>1. Owned' /\ Books' /\ Areas'
      BY <1>5 DEF ReadOption, repositories, Owned, Books, Areas
    <2>2. Head(reading).option \in Options /\ reading' \in Seq(Lines) /\ phase = "list"
          /\ unread' = unread
      BY <1>2, <1>5, LineKinds DEF ReadOption
    <2>3. options' \subseteq Options /\ given' \in Seq(Options)
      BY <1>5, <2>2 DEF ReadOption, Collected, Collections
    <2>4. UNCHANGED <<phase, defaultArch, asked, listed, known>>
      BY <1>5 DEF ReadOption, repositories
    <2>5. Reader' /\ Collections'
      BY <2>2, <2>3, <2>4 DEF Reader, Collections
    <2> QED
      BY <2>1, <2>5
  <1>6. CASE ApplyOptions
    <2>1. reading = <<>> /\ phase = "list" /\ options' = {}
          /\ UNCHANGED <<reading, unread, defaultArch, given>>
      BY <1>6 DEF ApplyOptions
    <2>2. <<>> \in Seq(Stanzas)
      OBVIOUS
    <2>3. phase' \in {"sources", "failed"}
      BY <1>6 DEF ApplyOptions, Fail
    <2>4. Reader'
      BY <2>1, <2>2, <2>3 DEF Reader
    <2>5. CASE Incomplete
      <3>1. UNCHANGED <<repositories, asked, listed>>
        BY <1>6, <2>5 DEF ApplyOptions, Fail
      <3> QED
        BY <2>1, <2>4, <3>1 DEF repositories, Owned, Books, Areas, Collections
    <2>6. CASE ~Incomplete
      <3>1. settings' = Applied /\ listed' = known
            /\ UNCHANGED <<known, flat, suites, parts, folders, lists, asked>>
        BY <1>6, <2>6 DEF ApplyOptions
      <3>2. Applied \subseteq Attributes
        BY AppliedTyped DEF Collections
      <3> QED
        BY <2>1, <2>4, <3>1, <3>2 DEF Owned, Books, Areas, Collections
    <2> QED
      BY <2>5, <2>6
  <1>7. CASE ReadStanza
    <2>1. phase = "sources" /\ reading # <<>> /\ reading' = Tail(reading) /\ unread' = unread
          /\ UNCHANGED <<defaultArch, given, listed>>
      BY <1>7 DEF ReadStanza, Advance
    <2>2. Head(reading) \in Stanzas /\ reading' \in Seq(Stanzas)
      BY <2>1, HeadAndTail DEF Reader
    <2>3. CASE Head(reading).enabled
      <3>1. Add(FromStanza(Head(reading)))
            /\ options' = options \cup {o \in Head(reading).settings : o.key \in Filters}
        BY <1>7, <2>3 DEF ReadStanza
      <3>2. Head(reading).settings \subseteq Options
        BY <2>2 DEF Stanzas
      <3>3. FromStanza(Head(reading)) \in Requests
        BY <2>2, FromStanzaRequest DEF Reader
      <3>4. /\ Owned' /\ Books' /\ Areas' /\ known \subseteq known'
            /\ asked' \subseteq Requests /\ phase' \in {phase, "failed"}
        BY <3>1, <3>3, AddTyped DEF Collections
      <3>5. options' \subseteq Options
        BY <3>1, <3>2 DEF Collections
      <3> QED
        BY <2>1, <2>2, <3>4, <3>5 DEF Reader, Collections
    <2>4. CASE ~Head(reading).enabled
      <3>1. UNCHANGED <<phase, options, repositories, asked>>
        BY <1>7, <2>4 DEF ReadStanza
      <3>2. Owned' /\ Books' /\ Areas' /\ Collections'
        BY <2>1, <3>1 DEF repositories, Owned, Books, Areas, Collections
      <3> QED
        BY <2>1, <2>2, <3>1, <3>2 DEF Reader
    <2> QED
      BY <2>3, <2>4
  <1>8. CASE ApplyFilters
    <2>1. settings' = Applied /\ phase' = "done" /\ options' = {}
          /\ UNCHANGED <<reading, unread, defaultArch, known, flat, suites, parts, folders,
                         lists, asked, given, listed>>
      BY <1>8 DEF ApplyFilters
    <2>2. Applied \subseteq Attributes
      BY AppliedTyped DEF Collections
    <2> QED
      BY <2>1, <2>2 DEF Reader, Owned, Books, Areas, Collections
  <1>9. CASE UNCHANGED configVars
    BY <1>9 DEF configVars, repositories, Reader, Owned, Books, Areas, Collections
  <1> QED
    BY <1>1, <1>3, <1>4, <1>5, <1>6, <1>7, <1>8, <1>9 DEF ConfigNext, ReadList

(* Every variable has its type. *)
THEOREM TypeCorrect == ConfigSpec => []ConfigTypeOK
  <1>1. ConfigSpec => []Typed
    BY TypedInit, TypedNext, PTL DEF ConfigSpec
  <1> QED
    BY <1>1, TypedIsTypeOK, PTL
------------------------------------------------------------------------------
(* Every line counts, and no more than its repository *)

(* A list of architectures is shared by components of one repository only. *)
SharedWithin ==
    \A x, y \in DOMAIN parts : parts[x].list = parts[y].list => x[1] = y[1]

Faithful == Typed /\ EverythingAsked /\ NothingForeign /\ SharedWithin

(* What the properties are about changes by requests only. *)
LEMMA StepIsRequest ==
    ASSUME Typed, [ConfigNext]_configVars
    PROVE  \/ UNCHANGED <<known, flat, suites, parts, folders, lists, asked>>
           \/ \E r \in Requests : AddRepository(r) /\ ~Mixed(r)
  <1>1. ASSUME NEW r \in Requests, Add(r)
        PROVE  \/ UNCHANGED <<known, flat, suites, parts, folders, lists, asked>>
               \/ AddRepository(r) /\ ~Mixed(r)
    BY <1>1 DEF Add, Fail, repositories
  <1>2. CASE ReadDeb
    <2>1. ReadLine("deb") /\ Add(FromLine(Head(reading)))
      BY <1>2 DEF ReadDeb
    <2>2. Head(reading) \in Lines /\ Head(reading).kind = "deb"
      BY <2>1, HeadAndTail DEF ReadLine, Typed, Reader
    <2>3. FromLine(Head(reading)) \in Requests
      BY <2>2, LineKinds, FromLineRequest DEF Typed, Reader
    <2> QED
      BY <1>1, <2>1, <2>3
  <1>3. CASE ReadStanza
    <2>1. phase = "sources" /\ reading # <<>>
      BY <1>3 DEF ReadStanza
    <2>2. Head(reading) \in Stanzas
      BY <2>1, HeadAndTail DEF Typed, Reader
    <2>3. FromStanza(Head(reading)) \in Requests
      BY <2>2, FromStanzaRequest DEF Typed, Reader
    <2>4. Add(FromStanza(Head(reading))) \/ UNCHANGED <<repositories, asked>>
      BY <1>3 DEF ReadStanza
    <2> QED
      BY <1>1, <2>3, <2>4 DEF repositories
  <1>4. CASE OpenFile \/ ReadSet \/ ReadOption \/ ApplyOptions \/ ApplyFilters \/ UNCHANGED configVars
    BY <1>4 DEF OpenFile, ReadSet, ReadOption, ApplyOptions, ApplyFilters, Fail, configVars,
                repositories
  <1> QED
    BY <1>2, <1>3, <1>4 DEF ConfigNext, ReadList

(* What was granted stays granted. *)
LEMMA GrantedStays ==
    ASSUME NEW r \in Requests, NEW q \in Requests, Typed, AddRepository(r), Granted(q)
    PROVE  Granted(q)'
  <1>1. known' = known \cup {r.url} /\ suites' = Suites(r) /\ folders' = Folders(r)
    BY DEF AddRepository
  <1>2. q.url \in known'
    BY <1>1 DEF Granted
  <1>3. ASSUME NEW s \in q.suites
        PROVE  /\ <<q.url, s>> \in DOMAIN suites'
               /\ q.signedBy # {} => suites'[<<q.url, s>>].signedBy # {}
               /\ q.byHash # "yes" => suites'[<<q.url, s>>].byHash # "yes"
    <2> DEFINE x == <<q.url, s>>
    <2>1. x \in DOMAIN suites
      BY DEF Granted
    <2>2. x \in DOMAIN suites'
      BY <1>1, <2>1 DEF Suites
    <2>3. suites'[x] = IF x \notin Codenames(r) THEN suites[x]
              ELSE [byHash |-> IF suites[x].byHash = "yes" THEN r.byHash ELSE suites[x].byHash,
                    signedBy |-> IF suites[x].signedBy = {} THEN r.signedBy ELSE suites[x].signedBy]
      BY <1>1, <2>1, <2>2 DEF Suites
    <2>4. /\ q.signedBy # {} => suites[x].signedBy # {}
          /\ q.byHash # "yes" => suites[x].byHash # "yes"
      BY DEF Granted
    <2> QED
      BY <2>2, <2>3, <2>4
  <1>4. ASSUME NEW s \in q.suites, s \in Flat
        PROVE  /\ <<q.url, s>> \in DOMAIN folders'
               /\ q.source => folders'[<<q.url, s>>].source
               /\ q.arches # {} => folders'[<<q.url, s>>].binaries
    <2> DEFINE x == <<q.url, s>>
    <2>1. x \in DOMAIN folders
      BY <1>4 DEF Granted
    <2>2. x \in DOMAIN folders'
      BY <1>1, <2>1 DEF Folders
    <2>3. folders'[x] = IF x \notin Codenames(r) THEN folders[x]
              ELSE [source |-> folders[x].source \/ r.source,
                    binaries |-> folders[x].binaries \/ r.arches # {}]
      BY <1>1, <2>1, <2>2 DEF Folders
    <2>4. /\ q.source => folders[x].source
          /\ q.arches # {} => folders[x].binaries
      BY <1>4 DEF Granted
    <2> HIDE DEF x
    <2>5. CASE x \notin Codenames(r)
      BY <2>2, <2>3, <2>4, <2>5 DEF x
    <2>6. CASE x \in Codenames(r)
      <3>1. /\ folders'[x].source = (folders[x].source \/ r.source)
            /\ folders'[x].binaries = (folders[x].binaries \/ r.arches # {})
        BY <2>3, <2>6
      <3>2. x \in DOMAIN folders' /\ (q.source => folders'[x].source)
            /\ (q.arches # {} => folders'[x].binaries)
        BY <2>2, <2>4, <3>1, Zenon
      <3> QED
        BY <3>2 DEF x
    <2> QED
      BY <2>5, <2>6
  <1>5. ASSUME NEW s \in q.suites, s \notin Flat, NEW c \in q.components
        PROVE  /\ <<q.url, s, c>> \in DOMAIN parts'
               /\ q.source => parts'[<<q.url, s, c>>].source
               /\ q.arches \subseteq lists'[parts'[<<q.url, s, c>>].list]
    <2> DEFINE x == <<q.url, s, c>>
    <2>1. /\ x \in DOMAIN parts
          /\ q.source => parts[x].source
          /\ q.arches \subseteq lists[parts[x].list]
      BY <1>5 DEF Granted
    <2> HIDE DEF x
    <2>2. parts[x].list \in 1..Len(lists)
      BY <2>1 DEF Typed, Areas
    <2>3. /\ x \in DOMAIN parts' /\ parts'[x].list = parts[x].list
          /\ parts'[x].source = (parts[x].source \/ (x \in Places(r) /\ r.source))
      BY <2>1, AddAreas DEF Typed
    <2>4. lists'[parts[x].list] = IF parts[x].list \in Appended(r)
                                  THEN lists[parts[x].list] \cup r.arches ELSE lists[parts[x].list]
      BY <2>2, AddAreas DEF Typed
    <2>5. q.source => parts'[x].source
      BY <2>1, <2>3, Zenon
    <2>6. q.arches \subseteq lists'[parts'[x].list]
      BY <2>1, <2>3, <2>4
    <2> QED
      BY <2>3, <2>5, <2>6 DEF x
  <1> QED
    BY <1>2, <1>3, <1>4, <1>5 DEF Granted

(* A request that is added is granted. *)
LEMMA GrantedNow ==
    ASSUME NEW r \in Requests, Typed, AddRepository(r), ~Mixed(r)
    PROVE  Granted(r)'
  <1>1. known' = known \cup {r.url} /\ suites' = Suites(r) /\ folders' = Folders(r)
    BY DEF AddRepository
  <1>2. ASSUME NEW s \in r.suites
        PROVE  /\ <<r.url, s>> \in DOMAIN suites'
               /\ r.signedBy # {} => suites'[<<r.url, s>>].signedBy # {}
               /\ r.byHash # "yes" => suites'[<<r.url, s>>].byHash # "yes"
    <2> DEFINE x == <<r.url, s>>
    <2>1. x \in Codenames(r)
      BY DEF Codenames
    <2>2. x \in DOMAIN suites'
      BY <1>1, <2>1 DEF Suites
    <2>3. suites'[x] = IF x \notin DOMAIN suites THEN [byHash |-> r.byHash, signedBy |-> r.signedBy]
              ELSE [byHash |-> IF suites[x].byHash = "yes" THEN r.byHash ELSE suites[x].byHash,
                    signedBy |-> IF suites[x].signedBy = {} THEN r.signedBy ELSE suites[x].signedBy]
      BY <1>1, <2>1, <2>2 DEF Suites
    <2> QED
      BY <2>2, <2>3
  <1>3. ASSUME NEW s \in r.suites, s \in Flat
        PROVE  /\ <<r.url, s>> \in DOMAIN folders'
               /\ r.source => folders'[<<r.url, s>>].source
               /\ r.arches # {} => folders'[<<r.url, s>>].binaries
    <2> DEFINE x == <<r.url, s>>
    <2>1. x \in Codenames(r) /\ IsFlat(r)
      BY <1>3 DEF Codenames, IsFlat
    <2>2. x \in DOMAIN folders'
      BY <1>1, <2>1 DEF Folders
    <2>3. folders'[x] = IF x \notin DOMAIN folders
              THEN [source |-> r.source, binaries |-> r.arches # {}]
              ELSE [source |-> folders[x].source \/ r.source,
                    binaries |-> folders[x].binaries \/ r.arches # {}]
      BY <1>1, <2>1, <2>2 DEF Folders
    <2> HIDE DEF x
    <2>4. CASE x \notin DOMAIN folders
      <3>1. folders'[x].source = r.source /\ folders'[x].binaries = (r.arches # {})
        BY <2>3, <2>4
      <3>2. x \in DOMAIN folders' /\ (r.source => folders'[x].source)
            /\ (r.arches # {} => folders'[x].binaries)
        BY <2>2, <3>1, Zenon
      <3> QED
        BY <3>2 DEF x
    <2>5. CASE x \in DOMAIN folders
      <3>1. /\ folders'[x].source = (folders[x].source \/ r.source)
            /\ folders'[x].binaries = (folders[x].binaries \/ r.arches # {})
        BY <2>3, <2>5
      <3>2. x \in DOMAIN folders' /\ (r.source => folders'[x].source)
            /\ (r.arches # {} => folders'[x].binaries)
        BY <2>2, <3>1, Zenon
      <3> QED
        BY <3>2 DEF x
    <2> QED
      BY <2>4, <2>5
  <1>4. ASSUME NEW s \in r.suites, s \notin Flat, NEW c \in r.components
        PROVE  /\ <<r.url, s, c>> \in DOMAIN parts'
               /\ r.source => parts'[<<r.url, s, c>>].source
               /\ r.arches \subseteq lists'[parts'[<<r.url, s, c>>].list]
    <2> DEFINE x == <<r.url, s, c>>
    <2>1. ~IsFlat(r)
      BY <1>4 DEF Mixed, IsFlat
    <2>2. x \in Places(r)
      BY <2>1 DEF Places
    <2>3. CASE x \in DOMAIN parts
      <3>1. parts[x].list \in 1..Len(lists)
        BY <2>3 DEF Typed, Areas
      <3>2. parts[x].list \in Appended(r)
        BY <2>2, <2>3 DEF Appended
      <3>3. /\ x \in DOMAIN parts' /\ parts'[x].list = parts[x].list
            /\ parts'[x].source = (parts[x].source \/ (x \in Places(r) /\ r.source))
            /\ lists'[parts[x].list] = lists[parts[x].list] \cup r.arches
        BY <2>3, <3>1, <3>2, AddAreas DEF Typed
      <3> QED
        BY <2>2, <3>3
    <2>4. CASE x \notin DOMAIN parts
      <3>1. /\ x \in DOMAIN parts' /\ parts'[x].list = Len(lists) + 1
            /\ parts'[x].source = r.source /\ lists'[Len(lists) + 1] = r.arches
        BY <2>2, <2>4, AddAreas DEF Typed
      <3> QED
        BY <3>1
    <2> QED
      BY <2>3, <2>4
  <1> QED
    BY <1>1, <1>2, <1>3, <1>4 DEF Granted

LEMMA ForeignAdd ==
    ASSUME NEW r \in Requests, Typed, NothingForeign, SharedWithin, AddRepository(r)
    PROVE  NothingForeign' /\ SharedWithin'
  <1>1. asked' = asked \cup {r}
    BY DEF AddRepository
  <1>2. ASSUME NEW x \in DOMAIN parts
        PROVE  /\ parts[x].list \in 1..Len(lists) /\ Len(lists) \in Nat
               /\ parts'[x].list = parts[x].list
               /\ parts'[x].source = (parts[x].source \/ (x \in Places(r) /\ r.source))
               /\ lists'[parts[x].list] = IF parts[x].list \in Appended(r)
                       THEN lists[parts[x].list] \cup r.arches ELSE lists[parts[x].list]
               /\ parts[x].list \in Appended(r) => x[1] = r.url
    <2>1. parts[x].list \in 1..Len(lists) /\ Len(lists) \in Nat
      BY DEF Typed, Areas
    <2>2. ASSUME parts[x].list \in Appended(r) PROVE x[1] = r.url
      <3>1. PICK y \in Places(r) \cap DOMAIN parts : parts[y].list = parts[x].list
        BY <2>2 DEF Appended
      <3>2. y[1] = r.url
        BY DEF Places
      <3> QED
        BY <3>1, <3>2 DEF SharedWithin
    <2> QED
      BY <2>1, <2>2, AddAreas DEF Typed
  <1>3. ASSUME NEW x \in DOMAIN parts', x \notin DOMAIN parts
        PROVE  /\ x \in Places(r) /\ x[1] = r.url
               /\ parts'[x].list = Len(lists) + 1 /\ parts'[x].source = r.source
               /\ lists'[Len(lists) + 1] = r.arches
    <2>1. x \in Places(r)
      BY <1>3, AddAreas DEF Typed
    <2>2. x[1] = r.url
      BY <2>1 DEF Places
    <2> QED
      BY <1>3, <2>1, <2>2, AddAreas DEF Typed
  <1>4. ASSUME NEW x \in DOMAIN parts'
        PROVE  /\ lists'[parts'[x].list] \subseteq UNION {q.arches : q \in {p \in asked' : p.url = x[1]}}
               /\ parts'[x].source => \E q \in asked' : q.source /\ x \in Places(q)
    <2>1. CASE x \in DOMAIN parts
      <3>1. /\ lists[parts[x].list] \subseteq UNION {q.arches : q \in {p \in asked : p.url = x[1]}}
            /\ parts[x].source => \E q \in asked : q.source /\ x \in Places(q)
        BY <2>1 DEF NothingForeign
      <3>2. lists'[parts'[x].list] \subseteq UNION {q.arches : q \in {p \in asked' : p.url = x[1]}}
        <4>1. UNION {q.arches : q \in {p \in asked : p.url = x[1]}}
                \subseteq UNION {q.arches : q \in {p \in asked' : p.url = x[1]}}
          BY <1>1
        <4>2. CASE parts[x].list \in Appended(r)
          <5>1. lists'[parts'[x].list] = lists[parts[x].list] \cup r.arches /\ x[1] = r.url
            BY <1>2, <2>1, <4>2
          <5>2. r \in {p \in asked' : p.url = x[1]}
            BY <1>1, <5>1
          <5>3. r.arches \subseteq UNION {q.arches : q \in {p \in asked' : p.url = x[1]}}
            BY <5>2
          <5> QED
            BY <3>1, <4>1, <5>1, <5>3
        <4>3. CASE parts[x].list \notin Appended(r)
          <5>1. lists'[parts'[x].list] = lists[parts[x].list]
            BY <1>2, <2>1, <4>3
          <5> QED
            BY <3>1, <4>1, <5>1
        <4> QED
          BY <4>2, <4>3
      <3>3. parts'[x].source => \E q \in asked' : q.source /\ x \in Places(q)
        BY <1>1, <1>2, <2>1, <3>1
      <3> QED
        BY <3>2, <3>3
    <2>2. CASE x \notin DOMAIN parts
      BY <1>1, <1>3, <2>2
    <2> QED
      BY <2>1, <2>2
  <1>5. SharedWithin'
    <2>a. ASSUME NEW x \in DOMAIN parts
          PROVE  parts'[x].list = parts[x].list /\ parts'[x].list \in Int /\ parts'[x].list < Len(lists) + 1
      <3>1. parts[x].list \in 1..Len(lists) /\ Len(lists) \in Nat /\ parts'[x].list = parts[x].list
        BY <1>2, Zenon
      <3> QED
        BY <3>1
    <2>b. ASSUME NEW x \in DOMAIN parts', x \notin DOMAIN parts
          PROVE  parts'[x].list = Len(lists) + 1 /\ x[1] = r.url
      BY <1>3, <2>b
    <2> SUFFICES ASSUME NEW x \in DOMAIN parts', NEW y \in DOMAIN parts',
                        parts'[x].list = parts'[y].list
                 PROVE  x[1] = y[1]
      BY DEF SharedWithin
    <2>1. CASE x \in DOMAIN parts /\ y \in DOMAIN parts
      BY <2>a, <2>1 DEF SharedWithin
    <2>2. CASE x \notin DOMAIN parts /\ y \notin DOMAIN parts
      BY <2>b, <2>2
    <2>3. CASE x \in DOMAIN parts /\ y \notin DOMAIN parts
      BY <2>a, <2>b, <2>3
    <2>4. CASE x \notin DOMAIN parts /\ y \in DOMAIN parts
      BY <2>a, <2>b, <2>4
    <2> QED
      BY <2>1, <2>2, <2>3, <2>4
  <1>6. NothingForeign'
    BY <1>4 DEF NothingForeign, Places, IsFlat
  <1> QED
    BY <1>5, <1>6

LEMMA FaithfulInit == ConfigInit => Faithful
  <1> SUFFICES ASSUME ConfigInit PROVE Faithful
    OBVIOUS
  <1>1. asked = {} /\ parts = [x \in {} |-> {}]
    BY DEF ConfigInit
  <1> QED
    BY <1>1, TypedInit DEF Faithful, EverythingAsked, NothingForeign, SharedWithin

LEMMA FaithfulNext == Faithful /\ [ConfigNext]_configVars => Faithful'
  <1> SUFFICES ASSUME Faithful, [ConfigNext]_configVars PROVE Faithful'
    OBVIOUS
  <1>1. Typed /\ Typed'
    BY TypedNext DEF Faithful
  <1>2. CASE UNCHANGED <<known, flat, suites, parts, folders, lists, asked>>
    BY <1>1, <1>2 DEF Faithful, EverythingAsked, Granted, NothingForeign, SharedWithin
  <1>3. ASSUME NEW r \in Requests, AddRepository(r), ~Mixed(r)
        PROVE  Faithful'
    <2>1. asked' = asked \cup {r} /\ asked \subseteq Requests
      BY <1>1, <1>3 DEF AddRepository, Typed, Collections
    <2>2. \A q \in asked : Granted(q)'
      BY <1>1, <1>3, <2>1, GrantedStays DEF Faithful, EverythingAsked
    <2>3. Granted(r)'
      BY <1>1, <1>3, GrantedNow
    <2>4. EverythingAsked'
      BY <2>1, <2>2, <2>3 DEF EverythingAsked
    <2> QED
      BY <1>1, <1>3, <2>4, ForeignAdd DEF Faithful
  <1> QED
    BY <1>1, <1>2, <1>3, StepIsRequest

(* Whatever the lines and their order, what each asks for is mirrored. *)
THEOREM EveryLineCounts == ConfigSpec => []EverythingAsked
  <1>1. ConfigSpec => []Faithful
    BY FaithfulInit, FaithfulNext, PTL DEF ConfigSpec
  <1> QED
    BY <1>1, PTL DEF Faithful

(* Sharing of lists never goes beyond a repository. *)
THEOREM NothingIsForeign == ConfigSpec => []NothingForeign
  <1>1. ConfigSpec => []Faithful
    BY FaithfulInit, FaithfulNext, PTL DEF ConfigSpec
  <1> QED
    BY <1>1, PTL DEF Faithful
------------------------------------------------------------------------------
(* Options reach the repositories they are for *)

(* Option i is superseded: an earlier one counts. *)
Superseded(i) == given[i].key \in Firsts /\ ~FirstGiven(given[i], i)

(* While lines are read, every option given is collected or superseded, and nothing else is
   collected; after that only filters are. *)
Gathering ==
    /\ phase = "list" =>
        /\ \A i \in 1..Len(given) :
                given[i].value # None => given[i] \in options \/ Superseded(i)
        /\ \A o \in options : \E i \in 1..Len(given) : given[i] = o
    /\ phase = "sources" => \A o \in options : o.key \in Filters

Reaching == Typed /\ Gathering /\ SettingsReach

LEMMA GivenAppended ==
    ASSUME Typed, Gathering, ReadOption
    PROVE  Gathering'
  <1> DEFINE o == Head(reading).option
  <1>1. phase = "list" /\ phase' = "list" /\ given' = Append(given, o) /\ options' = Collected(o)
    BY DEF ReadOption, ReadLine
  <1>2. o \in Options
    <2>1. Head(reading) \in Lines /\ Head(reading).kind = "option"
      BY HeadAndTail DEF ReadOption, ReadLine, Typed, Reader
    <2> QED
      BY <2>1, LineKinds
  <1> HIDE DEF o
  <1>3. given \in Seq(Options) /\ Len(given) \in Nat
    BY DEF Typed, Collections
  <1>4. /\ Len(given') = Len(given) + 1 /\ given'[Len(given) + 1] = o
        /\ \A i \in 1..Len(given) : given'[i] = given[i]
    BY <1>1, <1>2, <1>3
  <1>5. options \subseteq options'
    BY <1>1 DEF Collected
  <1>6. ASSUME NEW i \in 1..Len(given), Superseded(i)
        PROVE  Superseded(i)'
    <2>1. given[i].key \in Firsts
      BY <1>6 DEF Superseded
    <2>2. PICK j \in 1..(i - 1) : given[j].key = given[i].key /\ given[j].target = given[i].target
                                 /\ given[j].value # None
      BY <1>6 DEF Superseded, FirstGiven
    <2>3. given'[i] = given[i] /\ given'[j] = given[j]
      BY <1>3, <1>4
    <2> QED
      BY <2>1, <2>2, <2>3 DEF Superseded, FirstGiven
  <1>7. ASSUME NEW i \in 1..Len(given'), given'[i].value # None
        PROVE  given'[i] \in options' \/ Superseded(i)'
    <2>1. CASE i \in 1..Len(given)
      <3>1. given'[i] = given[i]
        BY <1>4, <2>1
      <3>2. given[i] \in options \/ Superseded(i)
        BY <1>1, <1>7, <2>1, <3>1 DEF Gathering
      <3> QED
        BY <1>5, <1>6, <2>1, <3>1, <3>2
    <2>2. CASE i = Len(given) + 1
      <3>1. given'[i] = o
        BY <1>4, <2>2
      <3>2. CASE o \in options'
        BY <3>1, <3>2
      <3>3. CASE o \notin options'
        <4>1. o.key \in Firsts
              /\ \E x \in options : x.key = o.key /\ x.target = o.target /\ x.value # None
          BY <1>1, <3>3 DEF Collected
        <4>2. PICK x \in options : x.key = o.key /\ x.target = o.target /\ x.value # None
          BY <4>1
        <4>3. PICK j \in 1..Len(given) : given[j] = x
          BY <1>1 DEF Gathering
        <4>4. j \in 1..(i - 1) /\ given'[j] = x
          BY <1>3, <1>4, <2>2, <4>3
        <4> QED
          BY <3>1, <4>1, <4>2, <4>4 DEF Superseded, FirstGiven
      <3> QED
        BY <3>2, <3>3
    <2> QED
      BY <1>3, <1>4, <2>1, <2>2
  <1>8. ASSUME NEW x \in options'
        PROVE  \E i \in 1..Len(given') : given'[i] = x
    <2>1. x \in options \/ x = o
      BY <1>1 DEF Collected
    <2>2. CASE x \in options
      <3>1. PICK i \in 1..Len(given) : given[i] = x
        BY <1>1, <2>2 DEF Gathering
      <3> QED
        BY <1>3, <1>4, <3>1
    <2>3. CASE x = o
      <3>1. Len(given) + 1 \in 1..Len(given')
        BY <1>3, <1>4
      <3> QED
        BY <1>4, <2>3, <3>1
    <2> QED
      BY <2>1, <2>2, <2>3
  <1> QED
    BY <1>1, <1>7, <1>8 DEF Gathering

(* Where the attributes only grow, what was reached stays reached. *)
LEMMA ReachStays ==
    ASSUME SettingsReach, settings \subseteq settings', UNCHANGED <<given, listed>>,
           phase' \in {"sources", "done"} => phase \in {"sources", "done"}
    PROVE  SettingsReach'
  BY DEF SettingsReach, Applies, FirstGiven

LEMMA OptionsApplied ==
    ASSUME Typed, Gathering, ApplyOptions, ~Incomplete
    PROVE  SettingsReach'
  <1>1. settings' = Applied /\ listed' = known /\ given' = given /\ phase = "list"
    BY DEF ApplyOptions
  <1>2. ASSUME NEW i \in 1..Len(given), NEW u \in known, given[i].value # None,
               Applies(given[i], u), given[i] \in options
        PROVE  <<u, given[i].key, given[i].value>> \in Applied
    <2>1. given[i] \in {x \in options : x.value # None} /\ u \in {v \in known : Applies(given[i], v)}
      BY <1>2
    <2>2. <<u, given[i].key, given[i].value>>
            \in {<<w, given[i].key, given[i].value>> : w \in {v \in known : Applies(given[i], v)}}
      BY <2>1
    <2> QED
      BY <2>1, <2>2 DEF Applied
  <1>3. ASSUME NEW i \in 1..Len(given), NEW u \in known, given[i].value # None, Applies(given[i], u)
        PROVE  <<u, given[i].key, given[i].value>> \in settings'
               \/ (given[i].key \in Firsts /\ ~FirstGiven(given[i], i))
    BY <1>1, <1>2, <1>3 DEF Gathering, Superseded
  <1> QED
    BY <1>1, <1>3 DEF SettingsReach, Applies, FirstGiven

LEMMA ReachingInit == ConfigInit => Reaching
  <1> SUFFICES ASSUME ConfigInit PROVE Reaching
    OBVIOUS
  <1>1. phase = "list" /\ given = <<>> /\ options = {}
    BY DEF ConfigInit
  <1> QED
    BY <1>1, TypedInit DEF Reaching, Gathering, SettingsReach

LEMMA ReachingNext == Reaching /\ [ConfigNext]_configVars => Reaching'
  <1> SUFFICES ASSUME Reaching, [ConfigNext]_configVars PROVE Reaching'
    OBVIOUS
  <1>1. Typed /\ Typed' /\ Gathering /\ SettingsReach
    BY TypedNext DEF Reaching
  <1>2. CASE UNCHANGED <<options, given, listed>> /\ settings \subseteq settings'
             /\ phase' \in {phase, "failed"}
    <2>1. Gathering'
      BY <1>1, <1>2 DEF Gathering, Superseded, FirstGiven
    <2>2. SettingsReach'
      BY <1>1, <1>2, ReachStays
    <2> QED
      BY <1>1, <2>1, <2>2 DEF Reaching
  <1>3. CASE OpenFile \/ ReadSet \/ UNCHANGED configVars
    BY <1>2, <1>3 DEF OpenFile, ReadSet, configVars, repositories
  <1>4. ASSUME NEW r, Add(r)
        PROVE  settings \subseteq settings' /\ phase' \in {phase, "failed"}
    BY <1>4 DEF Add, Fail, AddRepository, repositories
  <1>5. CASE ReadDeb
    BY <1>2, <1>4, <1>5 DEF ReadDeb
  <1>6. CASE ReadOption
    <2>1. phase = "list" /\ phase' = "list"
      BY <1>6 DEF ReadOption, ReadLine
    <2> QED
      BY <1>1, <1>6, <2>1, GivenAppended DEF Reaching, SettingsReach
  <1>7. CASE ApplyOptions
    <2>1. options' = {} /\ phase' \in {"sources", "failed"}
      BY <1>7 DEF ApplyOptions, Fail
    <2>2. Gathering'
      BY <2>1 DEF Gathering
    <2>3. CASE Incomplete
      BY <1>1, <1>7, <2>2, <2>3 DEF ApplyOptions, Fail, Reaching, SettingsReach
    <2>4. CASE ~Incomplete
      BY <1>1, <1>7, <2>2, <2>4, OptionsApplied DEF Reaching
    <2> QED
      BY <2>3, <2>4
  <1>8. CASE ReadStanza
    <2>1. phase = "sources" /\ UNCHANGED <<given, listed>>
      BY <1>8 DEF ReadStanza
    <2>2. /\ settings \subseteq settings' /\ phase' \in {phase, "failed"}
          /\ \A o \in options' : o \in options \/ o.key \in Filters
      BY <1>4, <1>8 DEF ReadStanza, repositories
    <2>3. Gathering'
      BY <1>1, <2>1, <2>2 DEF Gathering
    <2>4. SettingsReach'
      BY <1>1, <2>1, <2>2, ReachStays
    <2> QED
      BY <1>1, <2>3, <2>4 DEF Reaching
  <1>9. CASE ApplyFilters
    <2>1. phase = "sources" /\ phase' = "done" /\ settings' = Applied /\ UNCHANGED <<given, listed>>
      BY <1>9 DEF ApplyFilters
    <2>2. Firsts \cap Filters = {}
      BY DEF Firsts, Filters
    <2>3. Overridden = {}
      BY <1>1, <2>1, <2>2 DEF Overridden, Gathering
    <2>4. settings \subseteq settings'
      BY <2>1, <2>3 DEF Applied
    <2>5. Gathering'
      BY <2>1 DEF Gathering
    <2>6. SettingsReach'
      BY <1>1, <2>1, <2>4, ReachStays
    <2> QED
      BY <1>1, <2>5, <2>6 DEF Reaching
  <1> QED
    BY <1>3, <1>5, <1>6, <1>7, <1>8, <1>9 DEF ConfigNext, ReadList

(* An option counts wherever its line stands. *)
THEOREM OptionsReach == ConfigSpec => []SettingsReach
  <1>1. ConfigSpec => []Reaching
    BY ReachingInit, ReachingNext, PTL DEF ConfigSpec
  <1> QED
    BY <1>1, PTL DEF Reaching
=============================================================================
