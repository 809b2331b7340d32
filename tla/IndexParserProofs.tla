--------------------------- MODULE IndexParserProofs ---------------------------
(***************************************************************************)
(* Theorems about IndexParser: the attributes of a parser are those of the *)
(* stanza it is in, and the pool is what the stanzas list.                 *)
(***************************************************************************)
EXTENDS IndexParser, TLAPS

(* A list of lines with one more at its end. *)
LEMMA OneMore ==
    ASSUME NEW S, NEW lines \in Seq(S), NEW l \in S
    PROVE  LET L == Append(lines, l)
               n == Len(lines)
           IN  /\ n \in Nat /\ L \in Seq(S)
               /\ DOMAIN lines = 1..n /\ DOMAIN L = (1..n) \cup {n + 1}
               /\ L[n + 1] = l /\ \A i \in 1..n : L[i] = lines[i]
  OBVIOUS

LEMMA ValuesMore ==
    ASSUME NEW lines \in Seq(TextLines), NEW l \in TextLines, NEW key
    PROVE  Values(Append(lines, l), key) = IF l.key = key THEN {l.value} ELSE Values(lines, key)
  <1> DEFINE L == Append(lines, l)
  <1> DEFINE n == Len(lines)
  <1>1. /\ n \in Nat /\ DOMAIN lines = 1..n /\ DOMAIN L = (1..n) \cup {n + 1}
        /\ L[n + 1] = l /\ \A i \in 1..n : L[i] = lines[i]
    BY OneMore
  <1> HIDE DEF L, n
  <1>2. CASE l.key = key
    <2>1. Values(L, key) = {l.value}
      BY <1>1, <1>2 DEF Values, Last
    <2> QED
      BY <1>2, <2>1 DEF L
  <1>3. CASE l.key # key
    <2>1. Values(L, key) = Values(lines, key)
      BY <1>1, <1>3 DEF Values, Last
    <2> QED
      BY <1>3, <2>1 DEF L
  <1> QED
    BY <1>2, <1>3

LEMMA SafeValuesMore ==
    ASSUME NEW lines \in Seq(TextLines), NEW l \in TextLines, NEW key
    PROVE  SafeValues(Append(lines, l), key) =
               IF l.key = key /\ l.safe THEN {l.value} ELSE SafeValues(lines, key)
  <1> DEFINE L == Append(lines, l)
  <1> DEFINE n == Len(lines)
  <1>1. /\ n \in Nat /\ DOMAIN lines = 1..n /\ DOMAIN L = (1..n) \cup {n + 1}
        /\ L[n + 1] = l /\ \A i \in 1..n : L[i] = lines[i]
    BY OneMore
  <1> HIDE DEF L, n
  <1>2. CASE l.key = key /\ l.safe
    <2>1. SafeValues(L, key) = {l.value}
      BY <1>1, <1>2 DEF SafeValues, Last
    <2> QED
      BY <1>2, <2>1 DEF L
  <1>3. CASE ~(l.key = key /\ l.safe)
    <2>1. SafeValues(L, key) = SafeValues(lines, key)
      BY <1>1, <1>3 DEF SafeValues, Last
    <2> QED
      BY <1>3, <2>1 DEF L
  <1> QED
    BY <1>2, <1>3

LEMMA HashesMore ==
    ASSUME NEW lines \in Seq(TextLines), NEW l \in TextLines
    PROVE  HashesIn(Append(lines, l)) =
               IF l.key = "hash" THEN Updated(HashesIn(lines), {l.value}) ELSE HashesIn(lines)
  <1> DEFINE L == Append(lines, l)
  <1> DEFINE n == Len(lines)
  <1>1. /\ n \in Nat /\ DOMAIN lines = 1..n /\ DOMAIN L = (1..n) \cup {n + 1}
        /\ L[n + 1] = l /\ \A i \in 1..n : L[i] = lines[i]
    BY OneMore
  <1> HIDE DEF L, n
  <1>2. CASE l.key = "hash"
    <2>1. HashesIn(L) = Updated(HashesIn(lines), {l.value})
      BY <1>1, <1>2 DEF HashesIn, Updated
    <2> QED
      BY <1>2, <2>1 DEF L
  <1>3. CASE l.key # "hash"
    <2>1. HashesIn(L) = HashesIn(lines)
      BY <1>1, <1>3 DEF HashesIn
    <2> QED
      BY <1>3, <2>1 DEF L
  <1> QED
    BY <1>2, <1>3

(* The tags are not over: after the last line of tags there are only continuations. *)
Running(lines) ==
    \E i \in DOMAIN lines : lines[i].key = "tags" /\ \A j \in DOMAIN lines : j > i => lines[j].key = "more"

LEMMA RunningMore ==
    ASSUME NEW lines \in Seq(TextLines), NEW l \in TextLines
    PROVE  Running(Append(lines, l)) <=> l.key = "tags" \/ (l.key = "more" /\ Running(lines))
  <1> DEFINE L == Append(lines, l)
  <1> DEFINE n == Len(lines)
  <1>1. /\ n \in Nat /\ DOMAIN lines = 1..n /\ DOMAIN L = (1..n) \cup {n + 1}
        /\ L[n + 1] = l /\ \A i \in 1..n : L[i] = lines[i]
    BY OneMore
  <1> HIDE DEF L, n
  <1>2. Running(L) <=> l.key = "tags" \/ (l.key = "more" /\ Running(lines))
    BY <1>1 DEF Running
  <1> QED
    BY <1>2 DEF L

(* The lines the tags are in. *)
TagLines(lines) ==
    LET first == {i \in DOMAIN lines : lines[i].key = "tags"
                                       /\ \A j \in DOMAIN lines : lines[j].key = "tags" => j <= i}
    IN  {k \in DOMAIN lines : \E i \in first : i <= k /\ \A m \in (i + 1)..k : lines[m].key = "more"}

LEMMA TagsInLines == \A lines : TagsIn(lines) = UNION {lines[j].value : j \in TagLines(lines)}
  BY DEF TagsIn, TagLines

LEMMA TagsMore ==
    ASSUME NEW lines \in Seq(TextLines), NEW l \in TextLines
    PROVE  TagsIn(Append(lines, l)) =
               IF l.key = "tags" THEN l.value
               ELSE IF l.key = "more" /\ Running(lines) THEN TagsIn(lines) \cup l.value
               ELSE TagsIn(lines)
  <1> DEFINE L == Append(lines, l)
  <1> DEFINE n == Len(lines)
  <1>1. /\ n \in Nat /\ DOMAIN lines = 1..n /\ DOMAIN L = (1..n) \cup {n + 1}
        /\ L[n + 1] = l /\ \A i \in 1..n : L[i] = lines[i]
    BY OneMore
  <1> HIDE DEF L, n
  <1>2. TagsIn(L) = UNION {L[j].value : j \in TagLines(L)}
        /\ TagsIn(lines) = UNION {lines[j].value : j \in TagLines(lines)}
    BY TagsInLines
  <1>3. TagLines(lines) \subseteq 1..n
    BY <1>1 DEF TagLines
  <1>4. CASE l.key = "tags"
    <2>1. TagLines(L) = {n + 1}
      BY <1>1, <1>4 DEF TagLines
    <2>2. TagsIn(L) = l.value
      BY <1>1, <1>2, <2>1
    <2> QED
      BY <1>4, <2>2 DEF L
  <1>5. CASE l.key = "more" /\ Running(lines)
    <2>1. TagLines(L) = TagLines(lines) \cup {n + 1}
      <3>1. TagLines(lines) \subseteq TagLines(L) /\ TagLines(L) \subseteq TagLines(lines) \cup {n + 1}
        BY <1>1, <1>5 DEF TagLines
      <3>2. PICK i \in 1..n : lines[i].key = "tags" /\ \A j \in 1..n : j > i => lines[j].key = "more"
        BY <1>1, <1>5 DEF Running
      <3>3. L[i].key = "tags" /\ \A j \in DOMAIN L : j > i => L[j].key = "more"
        BY <1>1, <1>5, <3>2
      <3>4. \A j \in DOMAIN L : L[j].key = "tags" => j <= i
        BY <1>1, <3>2, <3>3
      <3>5. i \in DOMAIN L /\ n + 1 \in DOMAIN L /\ i <= n + 1
            /\ \A m \in (i + 1)..(n + 1) : m \in DOMAIN L /\ m > i
        BY <1>1, <3>2
      <3>6. n + 1 \in TagLines(L)
        BY <3>3, <3>4, <3>5 DEF TagLines
      <3> QED
        BY <3>1, <3>6
    <2>2. TagsIn(L) = TagsIn(lines) \cup l.value
      BY <1>1, <1>2, <1>3, <2>1
    <2> QED
      BY <1>5, <2>2 DEF L
  <1>6. CASE l.key # "tags" /\ ~(l.key = "more" /\ Running(lines))
    <2>1. TagLines(L) = TagLines(lines)
      BY <1>1, <1>6 DEF TagLines, Running
    <2>2. TagsIn(L) = TagsIn(lines)
      BY <1>1, <1>2, <1>3, <2>1
    <2> QED
      BY <1>6, <2>2 DEF L
  <1> QED
    BY <1>4, <1>5, <1>6

(* The list of files that is being read. *)
TypeIn(lines) ==
    {lines[i].value : i \in {j \in DOMAIN lines :
        lines[j].key = "files" /\ \A k \in DOMAIN lines : k > j => lines[k].key \notin {"files", "other"}}}

LEMMA TypeMore ==
    ASSUME NEW lines \in Seq(TextLines), NEW l \in TextLines
    PROVE  TypeIn(Append(lines, l)) =
               IF l.key = "files" THEN {l.value} ELSE IF l.key = "other" THEN {} ELSE TypeIn(lines)
  <1> DEFINE L == Append(lines, l)
  <1> DEFINE n == Len(lines)
  <1>1. /\ n \in Nat /\ DOMAIN lines = 1..n /\ DOMAIN L = (1..n) \cup {n + 1}
        /\ L[n + 1] = l /\ \A i \in 1..n : L[i] = lines[i]
    BY OneMore
  <1> HIDE DEF L, n
  <1>2. TypeIn(L) = IF l.key = "files" THEN {l.value} ELSE IF l.key = "other" THEN {} ELSE TypeIn(lines)
    BY <1>1 DEF TypeIn
  <1> QED
    BY <1>2 DEF L

LEMMA TypeAtMore ==
    ASSUME NEW lines \in Seq(TextLines), NEW l \in TextLines
    PROVE  /\ \A i \in DOMAIN lines : TypeAt(Append(lines, l), i) = TypeAt(lines, i)
           /\ TypeAt(Append(lines, l), Len(lines) + 1) = TypeIn(lines)
  <1> DEFINE L == Append(lines, l)
  <1> DEFINE n == Len(lines)
  <1>1. /\ n \in Nat /\ DOMAIN lines = 1..n /\ DOMAIN L = (1..n) \cup {n + 1}
        /\ L[n + 1] = l /\ \A i \in 1..n : L[i] = lines[i]
    BY OneMore
  <1> HIDE DEF L, n
  <1> DEFINE Headers(ls, i) == {k \in 1..(i - 1) :
        ls[k].key = "files" /\ \A m \in (k + 1)..(i - 1) : ls[m].key \notin {"files", "other"}}
  <1> DEFINE Open == {j \in DOMAIN lines :
        lines[j].key = "files" /\ \A k \in DOMAIN lines : k > j => lines[k].key \notin {"files", "other"}}
  <1>2. ASSUME NEW i \in DOMAIN lines PROVE TypeAt(L, i) = TypeAt(lines, i)
    <2>1. \A k \in 1..(i - 1) : L[k] = lines[k]
      BY <1>1
    <2>2. Headers(L, i) = Headers(lines, i)
      BY <1>1, <2>1
    <2>3. \A k \in Headers(lines, i) : L[k] = lines[k]
      BY <2>1
    <2>4. TypeAt(L, i) = {L[k].value : k \in Headers(L, i)}
      BY DEF TypeAt
    <2>5. TypeAt(lines, i) = {lines[k].value : k \in Headers(lines, i)}
      BY DEF TypeAt
    <2> HIDE DEF Headers
    <2> QED
      BY <2>2, <2>3, <2>4, <2>5
  <1>3. TypeAt(L, n + 1) = TypeIn(lines)
    <2>1. (n + 1) - 1 = n
      BY <1>1
    <2>2. Headers(L, n + 1) = Open
      BY <1>1, <2>1
    <2>3. \A k \in Open : L[k] = lines[k]
      BY <1>1
    <2>4. TypeAt(L, n + 1) = {L[k].value : k \in Headers(L, n + 1)}
      BY DEF TypeAt
    <2>5. TypeIn(lines) = {lines[k].value : k \in Open}
      BY DEF TypeIn
    <2> HIDE DEF Headers, Open
    <2> QED
      BY <2>2, <2>3, <2>4, <2>5
  <1> QED
    BY <1>2, <1>3 DEF L, n

(* A line that adds no entry to a list of files. *)
LEMMA NoEntryMore ==
    ASSUME NEW lines \in Seq(TextLines), NEW l \in TextLines,
           ~(l.key = "file" /\ l.safe /\ TypeIn(lines) # {})
    PROVE  LET L == Append(lines, l)
           IN  /\ FilesIn(L) = FilesIn(lines)
               /\ \A m : FileSums(L, m) = FileSums(lines, m) /\ FileSize(L, m) = FileSize(lines, m)
  <1> DEFINE L == Append(lines, l)
  <1> DEFINE n == Len(lines)
  <1>1. /\ n \in Nat /\ DOMAIN lines = 1..n /\ DOMAIN L = (1..n) \cup {n + 1}
        /\ L[n + 1] = l /\ \A i \in 1..n : L[i] = lines[i]
    BY OneMore
  <1>2. /\ \A i \in 1..n : TypeAt(L, i) = TypeAt(lines, i)
        /\ TypeAt(L, n + 1) = TypeIn(lines)
    BY <1>1, TypeAtMore
  <1> HIDE DEF L, n
  <1>3. FileLines(L) = FileLines(lines)
    BY <1>1, <1>2 DEF FileLines
  <1>4. \A i \in FileLines(lines) : L[i] = lines[i] /\ TypeAt(L, i) = TypeAt(lines, i)
    BY <1>1, <1>2 DEF FileLines
  <1>5. FilesIn(L) = FilesIn(lines)
    BY <1>3, <1>4 DEF FilesIn
  <1>6. ASSUME NEW m
        PROVE  FileSums(L, m) = FileSums(lines, m) /\ FileSize(L, m) = FileSize(lines, m)
    <2>1. LinesOf(L, m) = LinesOf(lines, m)
      BY <1>3, <1>4 DEF LinesOf
    <2>2. \A i \in LinesOf(lines, m) : L[i] = lines[i] /\ TypeAt(L, i) = TypeAt(lines, i)
      BY <1>4 DEF LinesOf
    <2>3. FileSums(L, m) = FileSums(lines, m)
      BY <2>1, <2>2 DEF FileSums
    <2>4. FileSize(L, m) = FileSize(lines, m)
      BY <2>1, <2>2 DEF FileSize
    <2> QED
      BY <2>3, <2>4
  <1> QED
    BY <1>5, <1>6 DEF L

(* One entry more: it sets the sums of its list, and the size if the file is a new one. *)
LEMMA EntryMore ==
    ASSUME NEW lines \in Seq(TextLines), NEW l \in TextLines,
           l.key = "file", l.safe, TypeIn(lines) \in SUBSET HashTypes, TypeIn(lines) # {}
    PROVE  LET L == Append(lines, l)
               new == {<<t, l.sum>> : t \in TypeIn(lines)}
           IN  /\ FilesIn(L) = FilesIn(lines) \cup {l.value}
               /\ \A m : m # l.value =>
                    FileSums(L, m) = FileSums(lines, m) /\ FileSize(L, m) = FileSize(lines, m)
               /\ FileSums(L, l.value) = Updated(FileSums(lines, l.value), new)
               /\ l.value \in FilesIn(lines) => FileSize(L, l.value) = FileSize(lines, l.value)
               /\ l.value \notin FilesIn(lines) =>
                    FileSize(L, l.value) = {l.size} /\ FileSums(lines, l.value) = {}
  <1> DEFINE L == Append(lines, l)
  <1> DEFINE n == Len(lines)
  <1> DEFINE T == TypeIn(lines)
  <1> DEFINE new == {<<t, l.sum>> : t \in T}
  <1> DEFINE v == l.value
  <1>1. /\ n \in Nat /\ DOMAIN lines = 1..n /\ DOMAIN L = (1..n) \cup {n + 1}
        /\ L[n + 1] = l /\ \A i \in 1..n : L[i] = lines[i]
    BY OneMore
  <1>2. /\ \A i \in 1..n : TypeAt(L, i) = TypeAt(lines, i)
        /\ TypeAt(L, n + 1) = T
    BY <1>1, TypeAtMore
  <1>s. l.sum \in Sum /\ T \in SUBSET HashTypes /\ T # {} /\ v = l.value
    BY DEF TextLines
  <1> HIDE DEF L, n, T, v
  <1>3. FileLines(L) = FileLines(lines) \cup {n + 1}
    BY <1>1, <1>2, <1>s DEF FileLines
  <1>4. \A i \in FileLines(lines) : i \in 1..n /\ L[i] = lines[i] /\ TypeAt(L, i) = TypeAt(lines, i)
    BY <1>1, <1>2 DEF FileLines
  <1>5. FilesIn(L) = FilesIn(lines) \cup {v}
    BY <1>1, <1>3, <1>4, <1>s DEF FilesIn
  <1>6. ASSUME NEW m, m # v
        PROVE  FileSums(L, m) = FileSums(lines, m) /\ FileSize(L, m) = FileSize(lines, m)
    <2>1. LinesOf(L, m) = LinesOf(lines, m)
      BY <1>1, <1>3, <1>4, <1>6, <1>s DEF LinesOf
    <2>2. \A i \in LinesOf(lines, m) : L[i] = lines[i] /\ TypeAt(L, i) = TypeAt(lines, i)
      BY <1>4 DEF LinesOf
    <2>3. FileSums(L, m) = FileSums(lines, m)
      BY <2>1, <2>2 DEF FileSums
    <2>4. FileSize(L, m) = FileSize(lines, m)
      BY <2>1, <2>2 DEF FileSize
    <2> QED
      BY <2>3, <2>4
  <1> DEFINE old == LinesOf(lines, v)
  <1>7. /\ LinesOf(L, v) = old \cup {n + 1}
        /\ \A i \in old : i \in 1..n /\ L[i] = lines[i] /\ TypeAt(L, i) = TypeAt(lines, i)
    BY <1>1, <1>3, <1>4, <1>s DEF LinesOf
  <1>8. FileSums(L, v) = Updated(FileSums(lines, v), new)
    <2> DEFINE P(h) == \E i \in old : /\ h[1] \in TypeAt(lines, i) /\ h[2] = lines[i].sum
                                     /\ \A k \in old : h[1] \in TypeAt(lines, k) => k <= i
    <2> DEFINE Q(h) == \E i \in old \cup {n + 1} :
                          /\ h[1] \in TypeAt(L, i) /\ h[2] = L[i].sum
                          /\ \A k \in old \cup {n + 1} : h[1] \in TypeAt(L, k) => k <= i
    <2>1. FileSums(lines, v) = {h \in Hash : P(h)} /\ FileSums(L, v) = {h \in Hash : Q(h)}
      BY <1>7 DEF FileSums
    <2>2. \A i \in old : i <= n + 1 /\ ~(n + 1 <= i)
      BY <1>1, <1>7
    <2>3. ASSUME NEW h \in Hash PROVE Q(h) <=> (h[1] \in T /\ h[2] = l.sum) \/ (P(h) /\ h[1] \notin T)
      <3>1. CASE h[1] \in T
        <4>1. Q(h) => h[2] = l.sum
          <5>1. SUFFICES ASSUME NEW i \in old \cup {n + 1}, h[2] = L[i].sum,
                                \A k \in old \cup {n + 1} : h[1] \in TypeAt(L, k) => k <= i
                         PROVE  h[2] = l.sum
            OBVIOUS
          <5>2. n + 1 <= i
            BY <1>2, <3>1, <5>1
          <5>3. i = n + 1
            BY <2>2, <5>2
          <5> QED
            BY <1>1, <5>1, <5>3
        <4>2. h[2] = l.sum => Q(h)
          BY <1>1, <1>2, <2>2, <3>1
        <4> QED
          BY <3>1, <4>1, <4>2
      <3>2. CASE h[1] \notin T
        <4>1. Q(h) => P(h)
          BY <1>2, <1>7, <3>2
        <4>2. P(h) => Q(h)
          BY <1>2, <1>7, <3>2
        <4> QED
          BY <3>2, <4>1, <4>2
      <3> QED
        BY <3>1, <3>2
    <2>4. \A h \in Hash : h \in new <=> h[1] \in T /\ h[2] = l.sum
      BY DEF Hash
    <2>5. new \in SUBSET Hash
      BY <1>s DEF Hash
    <2>6. \A h \in Hash : (\E x \in new : x[1] = h[1]) <=> h[1] \in T
      <3>1. \A t \in T : <<t, l.sum>> \in new /\ <<t, l.sum>>[1] = t
        OBVIOUS
      <3>2. \A x \in new : x[1] \in T
        OBVIOUS
      <3> HIDE DEF new
      <3> QED
        BY <3>1, <3>2
    <2> HIDE DEF P, Q, new
    <2>7. Updated({h \in Hash : P(h)}, new) = {h \in Hash : h \in new \/ (P(h) /\ h[1] \notin T)}
      BY <2>5, <2>6 DEF Updated
    <2> QED
      BY <2>1, <2>3, <2>4, <2>7
  <1>9. v \in FilesIn(lines) <=> old # {}
    BY DEF FilesIn, LinesOf
  <1>10. v \in FilesIn(lines) => FileSize(L, v) = FileSize(lines, v)
    <2> DEFINE first == {j \in old : \A k \in old : j <= k}
    <2>1. ASSUME old # {}
          PROVE  {j \in LinesOf(L, v) : \A k \in LinesOf(L, v) : j <= k} = first
      <3>1. \A i \in old : i <= n + 1 /\ ~(n + 1 <= i)
        BY <1>1, <1>7
      <3> QED
        BY <1>7, <2>1, <3>1
    <2>2. \A j \in first : L[j] = lines[j]
      BY <1>7
    <2>3. FileSize(lines, v) = {lines[j].size : j \in first}
      BY DEF FileSize
    <2>4. old # {} => FileSize(L, v) = {L[j].size : j \in first}
      BY <2>1 DEF FileSize
    <2> HIDE DEF first, old
    <2> QED
      BY <1>9, <2>2, <2>3, <2>4
  <1>11. v \notin FilesIn(lines) => FileSize(L, v) = {l.size} /\ FileSums(lines, v) = {}
    <2>1. SUFFICES ASSUME old = {} PROVE FileSize(L, v) = {l.size} /\ FileSums(lines, v) = {}
      BY <1>9
    <2>2. LinesOf(L, v) = {n + 1}
      BY <1>7, <2>1
    <2>3. {j \in LinesOf(L, v) : \A k \in LinesOf(L, v) : j <= k} = {n + 1}
      BY <1>1, <2>2
    <2>4. FileSize(L, v) = {l.size}
      BY <1>1, <2>3 DEF FileSize
    <2>5. FileSums(lines, v) = {}
      BY <2>1 DEF FileSums
    <2> QED
      BY <2>4, <2>5
  <1> QED
    BY <1>5, <1>6, <1>8, <1>10, <1>11 DEF L, T, v
------------------------------------------------------------------------------
Files == UNION {[N -> [size : 0..SizeBound, hashes : SUBSET Hash]] : N \in SUBSET Name}

Blocks ==
    [package : SUBSET Word, source : SUBSET Word, section : SUBSET Word, tags : SUBSET Tag,
     path : SUBSET Path, size : 0..SizeBound, hashes : SUBSET Hash, multi : SUBSET SUBSET Tag,
     directory : SUBSET Directory, type : SUBSET HashTypes, files : Files]

ParserTyped ==
    /\ job = [kind |-> job.kind, filter |-> job.filter, ignored |-> job.ignored]
    /\ job.kind \in Kinds
    /\ text \in Seq(TextLines) /\ stanza \in Seq(TextLines)
    /\ block \in Blocks

(* What else the parser remembers of the lines before: that tags may go on, and which list of
   files it is in. *)
Underway ==
    IF job.kind = "packages" THEN block.multi # {} <=> Running(stanza)
    ELSE block.type = TypeIn(stanza)

Parsed ==
    /\ ParserTyped
    /\ stanza = <<>> => block = EmptyBlock
    /\ Underway
    /\ BlockIsStanza

LEMMA NoLines ==
    /\ \A key : Values(<<>>, key) = {} /\ SafeValues(<<>>, key) = {}
    /\ HashesIn(<<>>) = {} /\ TagsIn(<<>>) = {} /\ FilesIn(<<>>) = {} /\ TypeIn(<<>>) = {}
    /\ ~Running(<<>>)
  <1>1. DOMAIN <<>> = {}
    OBVIOUS
  <1>2. \A key : Values(<<>>, key) = {} /\ SafeValues(<<>>, key) = {}
    BY <1>1 DEF Values, SafeValues, Last
  <1>3. HashesIn(<<>>) = {} /\ TagsIn(<<>>) = {}
    BY <1>1 DEF HashesIn, TagsIn
  <1>4. FilesIn(<<>>) = {} /\ TypeIn(<<>>) = {} /\ ~Running(<<>>)
    BY <1>1 DEF FilesIn, FileLines, TypeIn, Running
  <1> QED
    BY <1>2, <1>3, <1>4

(* An empty block is that of a stanza without lines, for both parsers. *)
LEMMA NothingRead ==
    ASSUME block = EmptyBlock, stanza = <<>>
    PROVE  Underway /\ BlockIsStanza
  <1>1. Closed = EmptyBlock
    BY DEF Closed, EmptyBlock
  <1>2. BlockIsStanza
    BY <1>1, NoLines DEF EmptyBlock, BlockIsStanza
  <1>3. Underway
    BY NoLines DEF EmptyBlock, Underway
  <1> QED
    BY <1>2, <1>3

LEMMA EmptyBlockType == EmptyBlock \in Blocks
  <1>1. [n \in {} |-> {}] \in [{} -> [size : 0..SizeBound, hashes : SUBSET Hash]]
    OBVIOUS
  <1>2. [n \in {} |-> {}] \in Files
    BY <1>1 DEF Files
  <1> QED
    BY <1>2, SizeAssumption DEF EmptyBlock, Blocks

LEMMA InitParsed == ParserInit => Parsed
  <1> SUFFICES ASSUME ParserInit PROVE Parsed
    OBVIOUS
  <1>1. block = EmptyBlock /\ stanza = <<>> /\ text = <<>>
        /\ job = [kind |-> "sources", filter |-> job.filter, ignored |-> job.ignored]
    BY DEF ParserInit
  <1>2. job.kind = "sources"
    BY <1>1
  <1>3. ParserTyped
    BY <1>1, <1>2, EmptyBlockType DEF ParserTyped, Kinds
  <1> QED
    BY <1>1, <1>3, NothingRead DEF Parsed

LEMMA FilesListed ==
    ASSUME NEW files \in Files, NEW n \in Name, NEW z \in 0..SizeBound, NEW h \in SUBSET Hash
    PROVE  Listing(files, n, z, h) \in Files
  <1> DEFINE R == [size : 0..SizeBound, hashes : SUBSET Hash]
  <1>1. PICK N \in SUBSET Name : files \in [N -> R]
    BY DEF Files
  <1>2. \A g \in SUBSET Hash : Updated(g, h) \in SUBSET Hash
    BY DEF Updated
  <1>3. \A x \in N \cup {n} :
          (IF x # n THEN files[x]
           ELSE IF n \in N THEN [files[n] EXCEPT !.hashes = Updated(@, h)]
           ELSE [size |-> z, hashes |-> h]) \in R
    BY <1>1, <1>2
  <1>4. Listing(files, n, z, h) \in [N \cup {n} -> R]
    BY <1>1, <1>3 DEF Listing
  <1> QED
    BY <1>4 DEF Files
------------------------------------------------------------------------------
(* One line of a Packages index *)

LEMMA HeadIsLine ==
    ASSUME text \in Seq(TextLines), text # <<>>
    PROVE  Head(text) \in TextLines /\ Tail(text) \in Seq(TextLines)
  OBVIOUS

LEMMA ReadTyped ==
    ASSUME ParserTyped, text # <<>>, NEW b \in Blocks, Read(b)
    PROVE  /\ ParserTyped' /\ stanza' # <<>> /\ stanza' = Append(stanza, Head(text))
           /\ UNCHANGED job /\ block' = b
  <1>1. Head(text) \in TextLines /\ Tail(text) \in Seq(TextLines) /\ stanza \in Seq(TextLines)
    BY HeadIsLine DEF ParserTyped
  <1>2. Append(stanza, Head(text)) \in Seq(TextLines) /\ Append(stanza, Head(text)) # <<>>
    <2>1. Append(stanza, Head(text)) \in Seq(TextLines)
      BY <1>1
    <2>2. Len(Append(stanza, Head(text))) = Len(stanza) + 1 /\ Len(stanza) \in Nat
      BY <1>1
    <2>3. Len(<<>>) = 0
      OBVIOUS
    <2>4. Len(Append(stanza, Head(text))) # 0
      BY <2>2
    <2> QED
      BY <2>1, <2>3, <2>4, Zenon
  <1> QED
    BY <1>1, <1>2 DEF Read, ParserTyped

LEMMA ClosedBlock ==
    ASSUME block \in Blocks
    PROVE  /\ Closed \in Blocks /\ Closed.multi = {}
           /\ Closed.package = block.package /\ Closed.source = block.source
           /\ Closed.section = block.section /\ Closed.path = block.path
           /\ Closed.size = block.size /\ Closed.hashes = block.hashes
           /\ Closed.tags = IF block.multi = {} THEN block.tags ELSE UNION block.multi
  <1>1. block.multi \in SUBSET SUBSET Tag
    BY DEF Blocks
  <1>2. CASE block.multi = {}
    BY <1>2 DEF Closed
  <1>3. CASE block.multi # {}
    <2>1. UNION block.multi \in SUBSET Tag
      BY <1>1
    <2>2. Closed = [block EXCEPT !.tags = UNION block.multi, !.multi = {}]
      BY <1>3 DEF Closed
    <2> QED
      BY <1>3, <2>1, <2>2 DEF Blocks
  <1> QED
    BY <1>2, <1>3

(* What the attributes have to be after a line, for the block to be the stanza's again. *)
PackagesAfter(b, l) ==
    /\ b.package = IF l.key = "package" THEN {l.value} ELSE block.package
    /\ b.source = IF l.key = "source" THEN {l.value} ELSE block.source
    /\ b.section = IF l.key = "section" THEN {l.value} ELSE block.section
    /\ b.path = IF l.key = "path" /\ l.safe THEN {l.value} ELSE block.path
    /\ b.size = IF l.key = "size" THEN l.value ELSE block.size
    /\ b.hashes = IF l.key = "hash" THEN Updated(block.hashes, {l.value}) ELSE block.hashes

TagsAfter(b, l) ==
    IF l.key = "tags" THEN b.multi = {l.value}
    ELSE IF l.key = "more" /\ block.multi # {} THEN b.multi = block.multi \cup {l.value}
    ELSE b.multi = {} /\ b.tags = Closed.tags

LEMMA PackagesLine ==
    ASSUME Parsed, job.kind = "packages", text # <<>>, NEW b \in Blocks, Read(b),
           PackagesAfter(b, Head(text)), TagsAfter(b, Head(text))
    PROVE  Parsed'
  <1> DEFINE l == Head(text)
  <1>1. /\ ParserTyped' /\ stanza' # <<>> /\ stanza' = Append(stanza, l) /\ UNCHANGED job /\ block' = b
    BY ReadTyped DEF Parsed
  <1>2. l \in TextLines /\ stanza \in Seq(TextLines) /\ block \in Blocks
    BY HeadIsLine DEF Parsed, ParserTyped
  <1>3. /\ PackagesAfter(b, l) /\ TagsAfter(b, l)
    OBVIOUS
  <1> HIDE DEF l
  <1>4. /\ block.package = Values(stanza, "package") /\ block.source = Values(stanza, "source")
        /\ block.section = Values(stanza, "section") /\ block.path = SafeValues(stanza, "path")
        /\ block.size = (IF Values(stanza, "size") = {} THEN 0
                         ELSE CHOOSE n \in Values(stanza, "size") : TRUE)
        /\ block.hashes = HashesIn(stanza) /\ Closed.tags = TagsIn(stanza)
        /\ block.multi # {} <=> Running(stanza)
    BY DEF Parsed, BlockIsStanza, Underway
  <1>5. /\ b.package = Values(stanza', "package") /\ b.source = Values(stanza', "source")
        /\ b.section = Values(stanza', "section")
    BY <1>1, <1>2, <1>3, <1>4, ValuesMore DEF PackagesAfter
  <1>6. b.path = SafeValues(stanza', "path")
    BY <1>1, <1>2, <1>3, <1>4, SafeValuesMore DEF PackagesAfter
  <1>7. b.size = IF Values(stanza', "size") = {} THEN 0 ELSE CHOOSE n \in Values(stanza', "size") : TRUE
    <2>1. CASE l.key = "size"
      <3>1. Values(stanza', "size") = {l.value} /\ b.size = l.value
        BY <1>1, <1>2, <1>3, <2>1, ValuesMore DEF PackagesAfter
      <3> QED
        BY <3>1
    <2>2. CASE l.key # "size"
      <3>1. Values(stanza', "size") = Values(stanza, "size") /\ b.size = block.size
        BY <1>1, <1>2, <1>3, <2>2, ValuesMore DEF PackagesAfter
      <3> QED
        BY <1>4, <3>1
    <2> QED
      BY <2>1, <2>2
  <1>8. b.hashes = HashesIn(stanza')
    BY <1>1, <1>2, <1>3, <1>4, HashesMore DEF PackagesAfter
  <1>9. /\ b.multi # {} <=> Running(stanza')
        /\ (IF b.multi = {} THEN b.tags ELSE UNION b.multi) = TagsIn(stanza')
    <2>1. /\ Running(stanza') <=> l.key = "tags" \/ (l.key = "more" /\ Running(stanza))
          /\ TagsIn(stanza') = IF l.key = "tags" THEN l.value
                               ELSE IF l.key = "more" /\ Running(stanza) THEN TagsIn(stanza) \cup l.value
                               ELSE TagsIn(stanza)
      BY <1>1, <1>2, RunningMore, TagsMore
    <2>2. CASE l.key = "tags"
      BY <1>3, <2>1, <2>2 DEF TagsAfter
    <2>3. CASE l.key = "more" /\ block.multi # {}
      <3>1. Closed.tags = UNION block.multi
        BY <1>2, <2>3, ClosedBlock
      <3>2. b.multi = block.multi \cup {l.value}
        BY <1>3, <2>3 DEF TagsAfter
      <3> QED
        BY <1>4, <2>1, <2>3, <3>1, <3>2
    <2>4. CASE l.key # "tags" /\ ~(l.key = "more" /\ block.multi # {})
      BY <1>3, <1>4, <2>1, <2>4 DEF TagsAfter
    <2> QED
      BY <2>2, <2>3, <2>4
  <1>10. (Closed.tags)' = IF b.multi = {} THEN b.tags ELSE UNION b.multi
    <2>1. Closed' = IF b.multi = {} THEN b ELSE [b EXCEPT !.tags = UNION b.multi, !.multi = {}]
      BY <1>1 DEF Closed
    <2> QED
      BY <2>1 DEF Blocks
  <1>11. BlockIsStanza'
    BY <1>1, <1>5, <1>6, <1>7, <1>8, <1>9, <1>10 DEF BlockIsStanza
  <1>12. Underway'
    BY <1>1, <1>9 DEF Underway
  <1> QED
    BY <1>1, <1>11, <1>12 DEF Parsed
------------------------------------------------------------------------------
(* One line of a Sources index *)

SourcesAfter(b, l) ==
    /\ b.package = IF l.key = "package" THEN {l.value} ELSE block.package
    /\ b.section = IF l.key = "section" THEN {l.value} ELSE block.section
    /\ b.directory = IF l.key = "directory" /\ l.safe THEN {l.value} ELSE block.directory
    /\ b.type = IF l.key = "files" THEN {l.value} ELSE IF l.key = "other" THEN {} ELSE block.type
    /\ b.files = IF l.key = "file" /\ l.safe /\ block.type # {}
                 THEN Listing(block.files, l.value, l.size, {<<t, l.sum>> : t \in block.type})
                 ELSE block.files

(* The files of a block are the entries of its stanza. *)
ListedEntries(files, lines) ==
    /\ DOMAIN files = FilesIn(lines)
    /\ \A n \in DOMAIN files : /\ {files[n].size} = FileSize(lines, n)
                               /\ files[n].hashes = FileSums(lines, n)

LEMMA EntryListed ==
    ASSUME block \in Blocks, ListedEntries(block.files, stanza), stanza \in Seq(TextLines),
           block.type = TypeIn(stanza), block.type # {},
           NEW l \in TextLines, l.key = "file", l.safe
    PROVE  LET files == Listing(block.files, l.value, l.size, {<<t, l.sum>> : t \in block.type})
           IN  files \in Files /\ ListedEntries(files, Append(stanza, l))
  <1> DEFINE new == {<<t, l.sum>> : t \in block.type}
  <1> DEFINE files == Listing(block.files, l.value, l.size, new)
  <1> DEFINE L == Append(stanza, l)
  <1>1. block.type \in SUBSET HashTypes /\ block.files \in Files
    BY DEF Blocks
  <1>2. l.value \in Name /\ l.sum \in Sum /\ l.size \in 0..SizeBound
    BY DEF TextLines
  <1>3. new \in SUBSET Hash
    BY <1>1, <1>2 DEF Hash
  <1>4. /\ files \in Files /\ DOMAIN files = DOMAIN block.files \cup {l.value}
        /\ \A x \in DOMAIN block.files : x # l.value => files[x] = block.files[x]
        /\ l.value \in DOMAIN block.files =>
             /\ files[l.value].hashes = Updated(block.files[l.value].hashes, new)
             /\ files[l.value].size = block.files[l.value].size
        /\ l.value \notin DOMAIN block.files =>
             files[l.value].hashes = new /\ files[l.value].size = l.size
    <2> DEFINE old == block.files
    <2> DEFINE v == l.value
    <2> DEFINE z == l.size
    <2> HIDE DEF new
    <2>1. files \in Files
      BY <1>1, <1>2, <1>3, FilesListed
    <2> HIDE DEF files, old, v, z
    <2>2. PICK N \in SUBSET Name : old \in [N -> [size : 0..SizeBound, hashes : SUBSET Hash]]
      BY <1>1 DEF old, Files
    <2>3. files = [x \in DOMAIN old \cup {v} |-> IF x # v THEN old[x]
                     ELSE IF v \in DOMAIN old THEN [old[v] EXCEPT !.hashes = Updated(@, new)]
                     ELSE [size |-> z, hashes |-> new]]
      BY DEF Listing, files, old, v, z
    <2>4. DOMAIN files = DOMAIN old \cup {v} /\ \A x \in DOMAIN old : x # v => files[x] = old[x]
      BY <2>3
    <2>5. ASSUME v \in DOMAIN old
          PROVE  files[v].hashes = Updated(old[v].hashes, new) /\ files[v].size = old[v].size
      <3>1. files[v] = [old[v] EXCEPT !.hashes = Updated(@, new)]
        BY <2>3, <2>5
      <3>2. old[v] \in [size : 0..SizeBound, hashes : SUBSET Hash]
        BY <2>2, <2>5
      <3> QED
        BY <3>1, <3>2
    <2>6. ASSUME v \notin DOMAIN old PROVE files[v] = [size |-> z, hashes |-> new]
      BY <2>3, <2>6
    <2>7. v \notin DOMAIN old => files[v].hashes = new /\ files[v].size = z
      BY <2>6
    <2>8. files \in Files
      BY <2>1 DEF files, old, v, z
    <2> QED
      BY <2>4, <2>5, <2>7, <2>8 DEF old, v, z
  <1>5. /\ FilesIn(L) = FilesIn(stanza) \cup {l.value}
        /\ \A m : m # l.value =>
             FileSums(L, m) = FileSums(stanza, m) /\ FileSize(L, m) = FileSize(stanza, m)
        /\ FileSums(L, l.value) = Updated(FileSums(stanza, l.value), new)
        /\ l.value \in FilesIn(stanza) => FileSize(L, l.value) = FileSize(stanza, l.value)
        /\ l.value \notin FilesIn(stanza) =>
             FileSize(L, l.value) = {l.size} /\ FileSums(stanza, l.value) = {}
    <2>1. TypeIn(stanza) \in SUBSET HashTypes /\ TypeIn(stanza) # {} /\ new = {<<t, l.sum>> : t \in TypeIn(stanza)}
      BY <1>1
    <2> HIDE DEF new
    <2> QED
      BY <2>1, EntryMore
  <1>6. Updated({}, new) = new
    BY DEF Updated
  <1> HIDE DEF new, files, L
  <1>7. DOMAIN files = FilesIn(L)
    BY <1>4, <1>5 DEF ListedEntries
  <1>8. ASSUME NEW n \in DOMAIN files
        PROVE  {files[n].size} = FileSize(L, n) /\ files[n].hashes = FileSums(L, n)
    <2>1. CASE n # l.value
      <3>1. n \in DOMAIN block.files /\ files[n] = block.files[n]
        BY <1>4, <2>1
      <3> QED
        BY <1>5, <2>1, <3>1 DEF ListedEntries
    <2>2. CASE n = l.value /\ n \in DOMAIN block.files
      BY <1>4, <1>5, <2>2 DEF ListedEntries
    <2>3. CASE n = l.value /\ n \notin DOMAIN block.files
      BY <1>4, <1>5, <1>6, <2>3 DEF ListedEntries
    <2> QED
      BY <2>1, <2>2, <2>3
  <1>9. files \in Files /\ ListedEntries(files, L)
    BY <1>4, <1>7, <1>8 DEF ListedEntries
  <1> QED
    BY <1>9 DEF files, new, L

LEMMA SourcesLine ==
    ASSUME Parsed, job.kind = "sources", text # <<>>, NEW b \in Blocks, Read(b),
           SourcesAfter(b, Head(text))
    PROVE  Parsed'
  <1> DEFINE l == Head(text)
  <1>1. /\ ParserTyped' /\ stanza' # <<>> /\ stanza' = Append(stanza, l) /\ UNCHANGED job /\ block' = b
    BY ReadTyped DEF Parsed
  <1>2. l \in TextLines /\ stanza \in Seq(TextLines) /\ block \in Blocks
    BY HeadIsLine DEF Parsed, ParserTyped
  <1>3. SourcesAfter(b, l)
    OBVIOUS
  <1> HIDE DEF l
  <1>4. /\ block.package = Values(stanza, "package") /\ block.section = Values(stanza, "section")
        /\ block.directory = SafeValues(stanza, "directory") /\ ListedEntries(block.files, stanza)
        /\ block.type = TypeIn(stanza)
    BY DEF Parsed, BlockIsStanza, Underway, ListedEntries
  <1>5. b.package = Values(stanza', "package") /\ b.section = Values(stanza', "section")
    BY <1>1, <1>2, <1>3, <1>4, ValuesMore DEF SourcesAfter
  <1>6. b.directory = SafeValues(stanza', "directory")
    BY <1>1, <1>2, <1>3, <1>4, SafeValuesMore DEF SourcesAfter
  <1>7. b.type = TypeIn(stanza')
    BY <1>1, <1>2, <1>3, <1>4, TypeMore DEF SourcesAfter
  <1>8. ListedEntries(b.files, stanza')
    <2>1. CASE l.key = "file" /\ l.safe /\ block.type # {}
      BY <1>1, <1>2, <1>3, <1>4, <2>1, EntryListed DEF SourcesAfter
    <2>2. CASE ~(l.key = "file" /\ l.safe /\ block.type # {})
      <3>1. /\ FilesIn(stanza') = FilesIn(stanza)
            /\ \A m : /\ FileSums(stanza', m) = FileSums(stanza, m)
                      /\ FileSize(stanza', m) = FileSize(stanza, m)
        BY <1>1, <1>2, <1>4, <2>2, NoEntryMore
      <3>2. b.files = block.files
        BY <1>3, <2>2 DEF SourcesAfter
      <3> QED
        BY <1>4, <3>1, <3>2 DEF ListedEntries
    <2> QED
      BY <2>1, <2>2
  <1>9. job'.kind # "packages"
    BY <1>1
  <1>10. BlockIsStanza'
    BY <1>1, <1>5, <1>6, <1>8, <1>9 DEF BlockIsStanza, ListedEntries
  <1>11. Underway'
    BY <1>1, <1>7, <1>9 DEF Underway
  <1> QED
    BY <1>1, <1>10, <1>11 DEF Parsed
------------------------------------------------------------------------------
(* Every line, and the end of a stanza *)

LEMMA PackagesLines ==
    ASSUME Parsed,
           ReadField \/ ReadFilename \/ ReadSize \/ ReadHash \/ ReadTags \/ ReadMore \/ ReadUnused
    PROVE  Parsed'
  <1> DEFINE l == Head(text)
  <1> DEFINE D(b) == b \in Blocks /\ PackagesAfter(b, l) /\ TagsAfter(b, l) /\ Read(b)
  <1>1. job.kind = "packages" /\ text # <<>> /\ l \in TextLines
    <2>1. job.kind = "packages" /\ text # <<>>
      BY DEF ReadField, ReadFilename, ReadSize, ReadHash, ReadTags, ReadMore, ReadUnused, Packages, Line
    <2> QED
      BY <2>1, HeadIsLine DEF Parsed, ParserTyped
  <1>2. /\ block \in Blocks /\ Closed \in Blocks /\ Closed.multi = {}
        /\ Closed.package = block.package /\ Closed.source = block.source
        /\ Closed.section = block.section /\ Closed.path = block.path
        /\ Closed.size = block.size /\ Closed.hashes = block.hashes
    BY ClosedBlock DEF Parsed, ParserTyped
  <1>3. CASE ReadField
    <2>1. l.key \in {"package", "source", "section"} /\ Read([Closed EXCEPT ![l.key] = {l.value}])
      BY <1>3 DEF ReadField, Packages, Line
    <2>2. l.value \in Word
      BY <1>1, <2>1 DEF TextLines
    <2>3. D([Closed EXCEPT ![l.key] = {l.value}])
      BY <1>2, <2>1, <2>2 DEF PackagesAfter, TagsAfter, Blocks
    <2> QED
      BY <1>1, <2>3, PackagesLine
  <1>4. CASE ReadFilename
    <2>1. l.key = "path" /\ Read(IF l.safe THEN [Closed EXCEPT !.path = {l.value}] ELSE Closed)
      BY <1>4 DEF ReadFilename, Packages, Line
    <2>2. l.value \in Path
      BY <1>1, <2>1 DEF TextLines
    <2>3. D(IF l.safe THEN [Closed EXCEPT !.path = {l.value}] ELSE Closed)
      BY <1>2, <2>1, <2>2 DEF PackagesAfter, TagsAfter, Blocks
    <2> QED
      BY <1>1, <2>3, PackagesLine
  <1>5. CASE ReadSize
    <2>1. l.key = "size" /\ Read([Closed EXCEPT !.size = l.value])
      BY <1>5 DEF ReadSize, Packages, Line
    <2>2. l.value \in 0..SizeBound
      BY <1>1, <2>1 DEF TextLines
    <2>3. D([Closed EXCEPT !.size = l.value])
      BY <1>2, <2>1, <2>2 DEF PackagesAfter, TagsAfter, Blocks
    <2> QED
      BY <1>1, <2>3, PackagesLine
  <1>6. CASE ReadHash
    <2>1. l.key = "hash" /\ Read([Closed EXCEPT !.hashes = Updated(@, {l.value})])
      BY <1>6 DEF ReadHash, Packages, Line
    <2>2. l.value \in Hash
      BY <1>1, <2>1 DEF TextLines
    <2>3. Updated(Closed.hashes, {l.value}) \in SUBSET Hash
      BY <1>2, <2>2 DEF Updated, Blocks
    <2>4. D([Closed EXCEPT !.hashes = Updated(@, {l.value})])
      BY <1>2, <2>1, <2>3 DEF PackagesAfter, TagsAfter, Blocks
    <2> QED
      BY <1>1, <2>4, PackagesLine
  <1>7. CASE ReadTags
    <2>1. l.key = "tags" /\ Read([Closed EXCEPT !.multi = {l.value}])
      BY <1>7 DEF ReadTags, Packages, Line
    <2>2. l.value \in SUBSET Tag
      BY <1>1, <2>1 DEF TextLines
    <2>3. D([Closed EXCEPT !.multi = {l.value}])
      BY <1>2, <2>1, <2>2 DEF PackagesAfter, TagsAfter, Blocks
    <2> QED
      BY <1>1, <2>3, PackagesLine
  <1>8. CASE ReadMore
    <2> DEFINE b == IF block.multi = {} THEN block ELSE [block EXCEPT !.multi = @ \cup {l.value}]
    <2>1. l.key = "more" /\ Read(b)
      BY <1>8 DEF ReadMore, Packages, Line
    <2>2. l.value \in SUBSET Tag
      BY <1>1, <2>1 DEF TextLines
    <2>3. D(b)
      <3>1. CASE block.multi = {}
        BY <1>2, <2>1, <3>1 DEF PackagesAfter, TagsAfter, Closed
      <3>2. CASE block.multi # {}
        <4>1. b = [block EXCEPT !.multi = @ \cup {l.value}]
          BY <3>2
        <4>2. block.multi \cup {l.value} \in SUBSET SUBSET Tag
          BY <1>2, <2>2 DEF Blocks
        <4>3. b \in Blocks /\ b.multi = block.multi \cup {l.value}
          BY <1>2, <4>1, <4>2 DEF Blocks
        <4>4. PackagesAfter(b, l)
          BY <1>2, <2>1, <4>1 DEF PackagesAfter, Blocks
        <4> QED
          BY <2>1, <3>2, <4>3, <4>4 DEF TagsAfter
      <3> QED
        BY <3>1, <3>2
    <2> QED
      BY <1>1, <2>3, PackagesLine
  <1>9. CASE ReadUnused
    <2>1. l.key = "other" /\ Read(Closed)
      BY <1>9 DEF ReadUnused, Packages, Line
    <2>2. D(Closed)
      BY <1>2, <2>1 DEF PackagesAfter, TagsAfter
    <2> QED
      BY <1>1, <2>2, PackagesLine
  <1> QED
    BY <1>3, <1>4, <1>5, <1>6, <1>7, <1>8, <1>9

LEMMA SourcesLines ==
    ASSUME Parsed,
           ReadSourceField \/ ReadDirectory \/ ReadFilesHeader \/ ReadOtherField \/ ReadFile \/ ReadNoFile
    PROVE  Parsed'
  <1> DEFINE l == Head(text)
  <1> DEFINE D(b) == b \in Blocks /\ SourcesAfter(b, l) /\ Read(b)
  <1>1. job.kind = "sources" /\ text # <<>> /\ l \in TextLines /\ block \in Blocks
    <2>1. job.kind = "sources" /\ text # <<>>
      BY DEF ReadSourceField, ReadDirectory, ReadFilesHeader, ReadOtherField, ReadFile, ReadNoFile,
             Sources, Line
    <2> QED
      BY <2>1, HeadIsLine DEF Parsed, ParserTyped
  <1>2. CASE ReadSourceField
    <2>1. l.key \in {"package", "section"} /\ Read([block EXCEPT ![l.key] = {l.value}])
      BY <1>2 DEF ReadSourceField, Sources, Line
    <2>2. l.value \in Word
      BY <1>1, <2>1 DEF TextLines
    <2>3. D([block EXCEPT ![l.key] = {l.value}])
      BY <1>1, <2>1, <2>2 DEF SourcesAfter, Blocks
    <2> QED
      BY <1>1, <2>3, SourcesLine
  <1>3. CASE ReadDirectory
    <2>1. l.key = "directory" /\ Read(IF l.safe THEN [block EXCEPT !.directory = {l.value}] ELSE block)
      BY <1>3 DEF ReadDirectory, Sources, Line
    <2>2. l.value \in Directory
      BY <1>1, <2>1 DEF TextLines
    <2>3. D(IF l.safe THEN [block EXCEPT !.directory = {l.value}] ELSE block)
      BY <1>1, <2>1, <2>2 DEF SourcesAfter, Blocks
    <2> QED
      BY <1>1, <2>3, SourcesLine
  <1>4. CASE ReadFilesHeader
    <2>1. l.key = "files" /\ Read([block EXCEPT !.type = {l.value}])
      BY <1>4 DEF ReadFilesHeader, Sources, Line
    <2>2. l.value \in HashTypes
      BY <1>1, <2>1 DEF TextLines
    <2>3. D([block EXCEPT !.type = {l.value}])
      BY <1>1, <2>1, <2>2 DEF SourcesAfter, Blocks
    <2> QED
      BY <1>1, <2>3, SourcesLine
  <1>5. CASE ReadOtherField
    <2>1. l.key = "other" /\ Read([block EXCEPT !.type = {}])
      BY <1>5 DEF ReadOtherField, Sources, Line
    <2>2. D([block EXCEPT !.type = {}])
      BY <1>1, <2>1 DEF SourcesAfter, Blocks
    <2> QED
      BY <1>1, <2>2, SourcesLine
  <1>6. CASE ReadFile
    <2>1. l.key = "file"
      BY <1>6 DEF ReadFile, Sources, Line
    <2>2. CASE block.type = {} \/ ~l.safe
      <3>1. Read(block)
        BY <1>6, <2>2 DEF ReadFile
      <3>2. D(block)
        BY <1>1, <2>1, <2>2, <3>1 DEF SourcesAfter
      <3> QED
        BY <1>1, <3>2, SourcesLine
    <2>3. CASE block.type # {} /\ l.safe
      <3> DEFINE files == Listing(block.files, l.value, l.size, {<<t, l.sum>> : t \in block.type})
      <3>1. Read([block EXCEPT !.files = files])
        BY <1>6, <2>3 DEF ReadFile
      <3>2. /\ ListedEntries(block.files, stanza) /\ stanza \in Seq(TextLines)
            /\ block.type = TypeIn(stanza)
        BY <1>1 DEF Parsed, ParserTyped, BlockIsStanza, Underway, ListedEntries
      <3>3. files \in Files
        BY <1>1, <2>1, <2>3, <3>2, EntryListed
      <3>4. PICK f : f = files
        OBVIOUS
      <3>5. f \in Files /\ Read([block EXCEPT !.files = f])
        BY <3>1, <3>3, <3>4
      <3>6. [block EXCEPT !.files = f] \in Blocks
        BY <1>1, <3>5 DEF Blocks
      <3>7. SourcesAfter([block EXCEPT !.files = f], l)
        BY <1>1, <2>1, <2>3, <3>4 DEF SourcesAfter, Blocks
      <3>8. D([block EXCEPT !.files = f])
        BY <3>5, <3>6, <3>7
      <3> QED
        BY <1>1, <3>8, SourcesLine
    <2> QED
      BY <2>2, <2>3
  <1>7. CASE ReadNoFile
    <2>1. l.key = "more" /\ Read(block)
      BY <1>7 DEF ReadNoFile, Sources, Line
    <2>2. D(block)
      BY <1>1, <2>1 DEF SourcesAfter
    <2> QED
      BY <1>1, <2>2, SourcesLine
  <1> QED
    BY <1>2, <1>3, <1>4, <1>5, <1>6, <1>7

(* A parser that has read nothing of its stanza. *)
LEMMA BetweenStanzas ==
    ASSUME ParserTyped', block' = EmptyBlock, stanza' = <<>>
    PROVE  Parsed'
  <1>1. Closed' = EmptyBlock
    BY DEF Closed, EmptyBlock
  <1>2. BlockIsStanza'
    BY <1>1, NoLines DEF EmptyBlock, BlockIsStanza
  <1>3. Underway'
    BY NoLines DEF EmptyBlock, Underway
  <1> QED
    BY <1>2, <1>3 DEF Parsed

LEMMA ParsedNext == Parsed /\ [ParserNext]_parserVars => Parsed'
  <1> SUFFICES ASSUME Parsed, [ParserNext]_parserVars PROVE Parsed'
    OBVIOUS
  <1>1. CASE UNCHANGED parserVars
    <2>1. UNCHANGED <<job, text, block, stanza>>
      BY <1>1 DEF parserVars
    <2> QED
      BY <2>1 DEF Parsed, ParserTyped, Underway, BlockIsStanza, Closed
  <1>2. CASE EndStanza
    <2>1. text # <<>> /\ text' = Tail(text) /\ block' = EmptyBlock /\ stanza' = <<>> /\ UNCHANGED job
      BY <1>2 DEF EndStanza, Line, Reset
    <2>2. text' \in Seq(TextLines)
      BY <2>1, HeadIsLine DEF Parsed, ParserTyped
    <2>3. ParserTyped'
      BY <2>1, <2>2, EmptyBlockType DEF Parsed, ParserTyped
    <2> QED
      BY <2>1, <2>3, BetweenStanzas
  <1>3. ASSUME NEW k \in Kinds, NEW lines \in Seq(TextLines), OpenIndex(k, lines)
        PROVE  Parsed'
    <2>1. /\ job' = [job EXCEPT !.kind = k] /\ text' = lines /\ stanza = <<>>
          /\ UNCHANGED <<block, stanza>>
      BY <1>3 DEF OpenIndex
    <2>2. job = [kind |-> job.kind, filter |-> job.filter, ignored |-> job.ignored]
      BY DEF Parsed, ParserTyped
    <2>3. job' = [kind |-> k, filter |-> job.filter, ignored |-> job.ignored]
      BY <2>1, <2>2
    <2>4. job'.kind = k /\ job' = [kind |-> job'.kind, filter |-> job'.filter, ignored |-> job'.ignored]
      BY <2>3
    <2>5. ParserTyped'
      BY <2>1, <2>4 DEF Parsed, ParserTyped
    <2>6. block = EmptyBlock
      BY <2>1 DEF Parsed
    <2> QED
      BY <2>1, <2>5, <2>6, BetweenStanzas
  <1> QED
    BY <1>1, <1>2, <1>3, PackagesLines, SourcesLines DEF ParserNext, ReadText

LEMMA AlwaysParsed == ParserSpec => []Parsed
  BY InitParsed, ParsedNext, PTL DEF ParserSpec

(* No field is left over from an earlier stanza, none is lost to a continuation line, and a
   checksum belongs to the list it stands in, whatever is in the indexes. *)
THEOREM BlocksAreStanzas == ParserSpec => []BlockIsStanza
  BY AlwaysParsed, PTL DEF Parsed
------------------------------------------------------------------------------
(* The pool *)

LEMMA FileIs ==
    ASSUME NEW path, NEW size, NEW hashes
    PROVE  LET f == FileOf(path, size, hashes)
           IN  /\ DOMAIN f.variants = {CompressionOf[path.name]}
               /\ \A c \in DOMAIN f.variants :
                    /\ f.variants[c].path = path /\ f.variants[c].hashes = hashes
                    /\ f.variants[c].size = IF hashes = {} THEN 0 ELSE size
  <1> DEFINE C == CompressionOf[path.name]
  <1> DEFINE V(n, h) == [c \in {C} |-> [path |-> path, size |-> n, hashes |-> h, byHash |-> FALSE]]
  <1> DEFINE file == IF hashes = {} THEN NewFile(path, C)
                     ELSE AddVariant(NewFile(path, C), C, path, size, hashes, FALSE)
  <1>1. NewFile(path, C).variants = V(0, {})
    BY DEF NewFile
  <1>2. AddVariant(NewFile(path, C), C, path, size, hashes, FALSE).variants = V(size, hashes)
    <2>1. Updated({}, hashes) = hashes
      BY DEF Updated
    <2>2. {C} \cup {C} = {C}
      OBVIOUS
    <2> DEFINE W == V(0, {})
    <2>3. DOMAIN W = {C} /\ W[C].hashes = {}
      OBVIOUS
    <2>4. NewFile(path, C) = [path |-> path, ignored |-> FALSE, optional |-> FALSE, variants |-> W]
      BY DEF NewFile
    <2> HIDE DEF W
    <2>5. AddVariant(NewFile(path, C), C, path, size, hashes, FALSE).variants =
              [c \in DOMAIN W \cup {C} |->
                 IF c # C THEN W[c]
                 ELSE [path |-> path, size |-> size, byHash |-> FALSE,
                       hashes |-> IF c \in DOMAIN W THEN Updated(W[c].hashes, hashes) ELSE hashes]]
      BY <2>4 DEF AddVariant
    <2>6. DOMAIN W \cup {C} = {C}
      BY <2>3
    <2>7. W[C].hashes = {} /\ C \in DOMAIN W
      BY <2>3
    <2>8. [c \in {C} |->
                 IF c # C THEN W[c]
                 ELSE [path |-> path, size |-> size, byHash |-> FALSE,
                       hashes |-> IF c \in DOMAIN W THEN Updated(W[c].hashes, hashes) ELSE hashes]]
            = [c \in {C} |-> [path |-> path, size |-> size, byHash |-> FALSE, hashes |-> hashes]]
      BY <2>1, <2>7
    <2> QED
      BY <2>5, <2>6, <2>8
  <1>3. file.variants = IF hashes = {} THEN V(0, {}) ELSE V(size, hashes)
    BY <1>1, <1>2
  <1>4. FileOf(path, size, hashes) = [file EXCEPT !.ignored = path \in job.ignored]
    BY DEF FileOf
  <1>5. FileOf(path, size, hashes).variants = file.variants
    BY <1>4 DEF NewFile, AddVariant
  <1> HIDE DEF file
  <1> QED
    BY <1>3, <1>5

LEMMA OneValue ==
    ASSUME NEW lines \in Seq(TextLines), NEW key
    PROVE  \A v, w \in Values(lines, key) : v = w
  BY DEF Values, Last

LEMMA PackagesListed ==
    ASSUME Parsed, job.kind = "packages"
    PROVE  LET found == PackagesFound(Closed)
           IN  /\ DOMAIN found = PathsIn("packages", stanza)
               /\ \A p \in DOMAIN found : IsListed(found[p], "packages", stanza, p)
  <1> DEFINE b == Closed
  <1> DEFINE found == PackagesFound(b)
  <1>1. /\ b.package = Values(stanza, "package") /\ b.source = Values(stanza, "source")
        /\ b.section = Values(stanza, "section") /\ b.path = SafeValues(stanza, "path")
        /\ b.size = (IF Values(stanza, "size") = {} THEN 0
                     ELSE CHOOSE n \in Values(stanza, "size") : TRUE)
        /\ b.hashes = HashesIn(stanza) /\ b.tags = TagsIn(stanza)
    BY ClosedBlock DEF Parsed, ParserTyped, BlockIsStanza
  <1>2. /\ b.size = 0 <=> Values(stanza, "size") \subseteq {0}
        /\ b.size # 0 => Values(stanza, "size") = {b.size}
    <2>1. \A v, w \in Values(stanza, "size") : v = w
      BY OneValue DEF Parsed, ParserTyped
    <2>2. CASE Values(stanza, "size") = {}
      BY <1>1, <2>2
    <2>3. CASE Values(stanza, "size") # {}
      <3>1. PICK v : Values(stanza, "size") = {v}
        BY <2>1, <2>3
      <3>2. b.size = v
        BY <1>1, <3>1
      <3> QED
        BY <3>1, <3>2
    <2> QED
      BY <2>2, <2>3
  <1>3. Lets(stanza) <=> PackageAllowed(job.filter, SourceOf(b), b.package, b.section, b.tags)
    BY <1>1 DEF Lets, SourceOf
  <1> HIDE DEF b
  <1>4. DOMAIN found = PathsIn("packages", stanza)
    <2>1. DOMAIN NoFiles = {}
      BY DEF NoFiles
    <2>2. CASE b.package # {} /\ b.size # 0 /\ Lets(stanza)
      <3>1. PathsIn("packages", stanza) = b.path
        BY <1>1, <1>2, <2>2 DEF PathsIn
      <3>2. CASE b.path = {}
        BY <2>1, <3>1, <3>2 DEF PackagesFound
      <3>3. CASE b.path # {}
        BY <1>3, <2>2, <3>1, <3>3 DEF PackagesFound
      <3> QED
        BY <3>2, <3>3
    <2>3. CASE ~(b.package # {} /\ b.size # 0 /\ Lets(stanza))
      <3>1. PathsIn("packages", stanza) = {}
        BY <1>1, <1>2, <2>3 DEF PathsIn
      <3>2. found = NoFiles
        BY <1>3, <2>3 DEF PackagesFound
      <3> QED
        BY <2>1, <3>1, <3>2
    <2> QED
      BY <2>2, <2>3
  <1>5. ASSUME NEW p \in DOMAIN found
        PROVE  IsListed(found[p], "packages", stanza, p)
    <2>1. found[p] = FileOf(p, b.size, b.hashes) /\ b.size # 0
      <3>1. found # NoFiles
        BY DEF NoFiles
      <3>2. found = [q \in b.path |-> FileOf(q, b.size, b.hashes)] /\ b.size # 0
        BY <3>1 DEF PackagesFound
      <3> HIDE DEF found
      <3> QED
        BY <3>2
    <2>2. SumsIn("packages", stanza, p) = b.hashes /\ SizeIn("packages", stanza, p) = {b.size}
      BY <1>1, <1>2, <2>1 DEF SumsIn, SizeIn
    <2>3. p \in PathsIn("packages", stanza)
      BY <1>4
    <2> HIDE DEF found
    <2> DEFINE f == FileOf(p, b.size, b.hashes)
    <2>4. /\ DOMAIN f.variants = {CompressionOf[p.name]}
          /\ \A c \in DOMAIN f.variants :
               /\ f.variants[c].path = p /\ f.variants[c].hashes = b.hashes
               /\ f.variants[c].size = IF b.hashes = {} THEN 0 ELSE b.size
      BY FileIs
    <2>5. found[p] = f
      BY <2>1
    <2> HIDE DEF f
    <2> QED
      BY <2>2, <2>3, <2>4, <2>5 DEF IsListed
  <1> QED
    BY <1>4, <1>5 DEF b

LEMMA SourcesListed ==
    ASSUME Parsed, job.kind = "sources"
    PROVE  LET found == SourcesFound(block)
           IN  /\ DOMAIN found = PathsIn("sources", stanza)
               /\ \A p \in DOMAIN found : IsListed(found[p], "sources", stanza, p)
  <1> DEFINE found == SourcesFound(block)
  <1> DEFINE Names == FilesIn(stanza)
  <1> DEFINE All == [directory : block.directory, name : DOMAIN block.files]
  <1>1. /\ block.package = Values(stanza, "package") /\ block.section = Values(stanza, "section")
        /\ block.directory = SafeValues(stanza, "directory")
        /\ DOMAIN block.files = Names
        /\ \A n \in DOMAIN block.files : /\ {block.files[n].size} = FileSize(stanza, n)
                                         /\ block.files[n].hashes = FileSums(stanza, n)
    BY DEF Parsed, BlockIsStanza
  <1>3. LetsSource(stanza) <=> PackageAllowed(job.filter, block.package, {}, block.section, {})
    BY <1>1 DEF LetsSource
  <1>4. DOMAIN NoFiles = {}
    BY DEF NoFiles
  <1>5. CASE block.package # {} /\ block.directory # {} /\ LetsSource(stanza)
    <2>1. PathsIn("sources", stanza) = All
      <3> HIDE DEF Names
      <3>1. All = [directory : SafeValues(stanza, "directory"), name : Names]
        BY <1>1
      <3> QED
        BY <1>1, <1>5, <3>1 DEF PathsIn, Names
    <2>2. found = [p \in All |-> FileOf(p, block.files[p.name].size, block.files[p.name].hashes)]
      BY <1>3, <1>5 DEF SourcesFound
    <2>3. DOMAIN found = All
      BY <2>2
    <2>4. ASSUME NEW p \in All
          PROVE  IsListed(found[p], "sources", stanza, p)
      <3> DEFINE x == block.files[p.name]
      <3> DEFINE f == FileOf(p, x.size, x.hashes)
      <3>1. found[p] = f
        BY <2>2
      <3>2. SumsIn("sources", stanza, p) = x.hashes /\ SizeIn("sources", stanza, p) = {x.size}
        BY <1>1, <2>4 DEF SumsIn, SizeIn
      <3> HIDE DEF x
      <3>3. /\ DOMAIN f.variants = {CompressionOf[p.name]}
            /\ \A c \in DOMAIN f.variants :
                 /\ f.variants[c].path = p /\ f.variants[c].hashes = x.hashes
                 /\ f.variants[c].size = IF x.hashes = {} THEN 0 ELSE x.size
        BY FileIs
      <3>4. p \in PathsIn("sources", stanza)
        BY <2>1, <2>4
      <3> HIDE DEF f, found
      <3> QED
        BY <3>1, <3>2, <3>3, <3>4 DEF IsListed
    <2> HIDE DEF found, All
    <2> QED
      BY <2>1, <2>3, <2>4 DEF found
  <1>6. CASE ~(block.package # {} /\ block.directory # {} /\ LetsSource(stanza))
    <2>1. found = NoFiles
      BY <1>3, <1>6 DEF SourcesFound
    <2>2. PathsIn("sources", stanza) = {}
      <3>1. CASE block.package = {} \/ ~LetsSource(stanza)
        BY <1>1, <3>1 DEF PathsIn
      <3>2. CASE block.directory = {}
        <4>1. \A N : [directory : {}, name : N] = {}
          OBVIOUS
        <4> QED
          BY <1>1, <3>2, <4>1 DEF PathsIn
      <3> QED
        BY <1>6, <3>1, <3>2
    <2> QED
      BY <1>4, <2>1, <2>2
  <1> QED
    BY <1>5, <1>6

Pooled ==
    /\ pool = [k \in Kinds |-> pool[k]] /\ finished = [k \in Kinds |-> finished[k]]
    /\ PoolIsListed

LEMMA InitPooled == ParserInit => Pooled
  <1> SUFFICES ASSUME ParserInit PROVE Pooled
    OBVIOUS
  <1>1. \A k \in Kinds : pool[k] = NoFiles /\ finished[k] = {}
    BY DEF ParserInit
  <1>2. DOMAIN NoFiles = {}
    BY DEF NoFiles
  <1>3. PoolIsListed
    BY <1>1, <1>2 DEF PoolIsListed
  <1>4. pool = [k \in Kinds |-> pool[k]] /\ finished = [k \in Kinds |-> finished[k]]
    BY DEF ParserInit
  <1> QED
    BY <1>3, <1>4 DEF Pooled

LEMMA PooledNext == Parsed /\ Pooled /\ [ParserNext]_parserVars => Pooled'
  <1> SUFFICES ASSUME Parsed, Pooled, [ParserNext]_parserVars PROVE Pooled'
    OBVIOUS
  <1>1. ASSUME UNCHANGED <<pool, finished>>, job'.filter = job.filter
        PROVE  Pooled'
    <2>1. \A k, lines : PathsIn(k, lines)' = PathsIn(k, lines)
      BY <1>1 DEF PathsIn, Lets, LetsSource
    <2>2. \A file, k, lines, p : IsListed(file, k, lines, p)' = IsListed(file, k, lines, p)
      BY <2>1 DEF IsListed
    <2>3. PoolIsListed'
      BY <1>1, <2>1, <2>2 DEF Pooled, PoolIsListed
    <2> QED
      BY <1>1, <2>3 DEF Pooled
  <1>2. CASE EndStanza
    <2> DEFINE K == job.kind
    <2> DEFINE found == IF K = "packages" THEN PackagesFound(Closed) ELSE SourcesFound(block)
    <2> DEFINE merged == [p \in DOMAIN pool[K] \cup DOMAIN found |->
                              IF p \in DOMAIN found THEN found[p] ELSE pool[K][p]]
    <2>1. K \in Kinds /\ UNCHANGED job
      BY <1>2 DEF EndStanza, Parsed, ParserTyped
    <2>2. /\ DOMAIN found = PathsIn(K, stanza)
          /\ \A p \in DOMAIN found : IsListed(found[p], K, stanza, p)
      <3>1. CASE K = "packages"
        BY <3>1, PackagesListed
      <3>2. CASE K = "sources"
        BY <3>2, SourcesListed
      <3> QED
        BY <2>1, <3>1, <3>2 DEF Kinds
    <2>3. pool' = [pool EXCEPT ![K] = merged] /\ finished' = [finished EXCEPT ![K] = @ \cup {stanza}]
      BY <1>2 DEF EndStanza
    <2> HIDE DEF found, K
    <2>4. /\ pool' = [k \in Kinds |-> pool'[k]] /\ finished' = [k \in Kinds |-> finished'[k]]
          /\ pool'[K] = merged /\ finished'[K] = finished[K] \cup {stanza}
          /\ \A k \in Kinds : k # K => pool'[k] = pool[k] /\ finished'[k] = finished[k]
      <3>1. pool = [k \in Kinds |-> pool[k]] /\ finished = [k \in Kinds |-> finished[k]]
        BY DEF Pooled
      <3> HIDE DEF merged
      <3> QED
        BY <2>1, <2>3, <3>1
    <2>5. /\ \A k, lines : PathsIn(k, lines)' = PathsIn(k, lines)
          /\ \A file, k, lines, p : IsListed(file, k, lines, p)' = IsListed(file, k, lines, p)
      <3>1. \A k, lines : PathsIn(k, lines)' = PathsIn(k, lines)
        BY <2>1 DEF PathsIn, Lets, LetsSource
      <3> QED
        BY <3>1 DEF IsListed
    <2>6. ASSUME NEW k \in Kinds
          PROVE  /\ DOMAIN pool'[k] = UNION {PathsIn(k, lines) : lines \in finished'[k]}
                 /\ \A p \in DOMAIN pool'[k] : \E lines \in finished'[k] :
                      IsListed(pool'[k][p], k, lines, p)
      <3>1. /\ DOMAIN pool[k] = UNION {PathsIn(k, lines) : lines \in finished[k]}
            /\ \A p \in DOMAIN pool[k] : \E lines \in finished[k] : IsListed(pool[k][p], k, lines, p)
        BY DEF Pooled, PoolIsListed
      <3>2. CASE k # K
        BY <2>4, <3>1, <3>2
      <3>3. CASE k = K
        <4>1. DOMAIN merged = DOMAIN pool[K] \cup DOMAIN found
          OBVIOUS
        <4>2. /\ \A p \in DOMAIN found : merged[p] = found[p]
              /\ \A p \in DOMAIN pool[K] : p \notin DOMAIN found => merged[p] = pool[K][p]
          OBVIOUS
        <4> HIDE DEF merged
        <4>3. DOMAIN merged = UNION {PathsIn(k, lines) : lines \in finished[k] \cup {stanza}}
          BY <2>2, <3>1, <3>3, <4>1
        <4>4. ASSUME NEW p \in DOMAIN merged
              PROVE  \E lines \in finished[k] \cup {stanza} : IsListed(merged[p], k, lines, p)
          <5>1. CASE p \in DOMAIN found
            <6>1. merged[p] = found[p]
              BY <4>2, <5>1
            <6>2. IsListed(merged[p], k, stanza, p)
              BY <2>2, <3>3, <5>1, <6>1
            <6> QED
              BY <6>2
          <5>2. CASE p \notin DOMAIN found
            <6>1. p \in DOMAIN pool[k] /\ merged[p] = pool[k][p]
              BY <3>3, <4>1, <4>2, <4>4, <5>2
            <6> QED
              BY <3>1, <6>1
          <5> QED
            BY <5>1, <5>2
        <4>5. pool'[k] = merged /\ finished'[k] = finished[k] \cup {stanza}
          BY <2>4, <3>3
        <4> QED
          BY <4>3, <4>4, <4>5
      <3> QED
        BY <3>2, <3>3
    <2>7. PoolIsListed'
      BY <2>5, <2>6 DEF PoolIsListed
    <2> QED
      BY <2>4, <2>7 DEF Pooled
  <1>3. CASE UNCHANGED parserVars
    BY <1>1, <1>3 DEF parserVars
  <1>4. ASSUME NEW k \in Kinds, NEW lines \in Seq(TextLines), OpenIndex(k, lines)
        PROVE  Pooled'
    <2>1. job' = [job EXCEPT !.kind = k] /\ UNCHANGED <<pool, finished>>
      BY <1>4 DEF OpenIndex
    <2>2. job = [kind |-> job.kind, filter |-> job.filter, ignored |-> job.ignored]
      BY DEF Parsed, ParserTyped
    <2>3. job'.filter = job.filter
      BY <2>1, <2>2
    <2> QED
      BY <1>1, <2>1, <2>3
  <1>5. CASE ReadText /\ ~EndStanza
    <2>1. UNCHANGED <<job, pool, finished>>
      BY <1>5 DEF ReadText, ReadField, ReadFilename, ReadSize, ReadHash, ReadTags, ReadMore, ReadUnused,
                  ReadSourceField, ReadDirectory, ReadFilesHeader, ReadOtherField, ReadFile, ReadNoFile,
                  Read
    <2> QED
      BY <1>1, <2>1
  <1> QED
    BY <1>2, <1>3, <1>4, <1>5 DEF ParserNext

(* The pool is exactly what the stanzas that the filter lets through list, whatever order the
   indexes come in, and a file has the compression of its name, and the size and the checksums
   that one stanza has for it. *)
THEOREM PoolIsWhatIsListed == ParserSpec => []PoolIsListed
  <1>1. Parsed /\ Pooled /\ [ParserNext]_parserVars => Parsed' /\ Pooled'
    BY ParsedNext, PooledNext
  <1>2. ParserInit => Parsed /\ Pooled
    BY InitParsed, InitPooled
  <1> QED
    BY <1>1, <1>2, PTL DEF ParserSpec, Pooled
=============================================================================
