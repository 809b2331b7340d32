---------------------------- MODULE SelectionProofs ----------------------------
(***************************************************************************)
(* Theorems about Selection: whatever the configuration and the servers,   *)
(* what a line asks for is parsed or found missing, in the form of this    *)
(* run, and nothing that is listed with hashes is kept with other content. *)
(*                                                                         *)
(* The argument follows the files.  An index has the sizes and digests of  *)
(* all release files that list it (Covers), so it is fetched as they have  *)
(* it; what was fetched is all that is left in skel; and what is in skel   *)
(* is parsed.                                                              *)
(***************************************************************************)
EXTENDS Selection, ConfigurationProofs, IndexParserProofs

(* Of some compressions, the first in the order of trial. *)
LEMMA FirstThere ==
    ASSUME NEW T \in SUBSET Compressions, T # {}
    PROVE  (CHOOSE c \in T : \A d \in T : Rank[c] <= Rank[d]) \in T
  <1>1. \E c \in T : \A d \in T : Rank[c] <= Rank[d]
    <2>1. Rank["xz"] = 1 /\ Rank["gz"] = 2 /\ Rank["bz2"] = 3 /\ Rank["none"] = 4
      BY DEF Rank
    <2>2. \A d \in T : d \in {"xz", "gz", "bz2", "none"}
      BY DEF Compressions
    <2>3. CASE "xz" \in T
      BY <2>1, <2>2, <2>3
    <2>4. CASE "xz" \notin T /\ "gz" \in T
      BY <2>1, <2>2, <2>4
    <2>5. CASE "xz" \notin T /\ "gz" \notin T /\ "bz2" \in T
      BY <2>1, <2>2, <2>5
    <2>6. CASE T = {"none"}
      BY <2>1, <2>6
    <2> QED
      BY <2>2, <2>3, <2>4, <2>5, <2>6
  <1> QED
    BY <1>1

LEMMA FirstOfIs ==
    ASSUME NEW file, NEW had \in SUBSET DOMAIN file.variants, DOMAIN file.variants \subseteq Compressions,
           had # {}
    PROVE  FirstOf(file, had) \in had
  <1>1. DOMAIN file.variants \cap had = had /\ had \in SUBSET Compressions
    OBVIOUS
  <1> QED
    BY <1>1, FirstThere DEF FirstOf
------------------------------------------------------------------------------
(* Indexes as the release files list them *)

(* The path of a listed index in one of the compressions. *)
In(x, c) == [x EXCEPT !.suffix = c]

LEMMA InIs ==
    ASSUME NEW x \in Listed, NEW c \in Compressions
    PROVE  /\ In(x, c) \in Listed /\ In(x, c).suffix = c
           /\ In(x, c).area = x.area /\ In(x, c).dir = x.dir
           /\ In(x, c).name = x.name /\ In(x, c).arch = x.arch
           /\ Stem(In(x, c)) = Stem(x)
           /\ Stem(x) \in Listed /\ Stem(x).suffix = "none"
  <1>1. /\ In(x, c) = [area |-> x.area, dir |-> x.dir, name |-> x.name, arch |-> x.arch, suffix |-> c]
        /\ Stem(x) = [area |-> x.area, dir |-> x.dir, name |-> x.name, arch |-> x.arch, suffix |-> "none"]
    BY DEF Listed, In, Stem
  <1>2. In(x, c) \in Listed
    BY <1>1 DEF Listed
  <1>3. Stem(x) \in Listed
    BY <1>1 DEF Listed, Compressions
  <1>4. Stem(In(x, c)) = [area |-> x.area, dir |-> x.dir, name |-> x.name, arch |-> x.arch, suffix |-> "none"]
    BY <1>1 DEF Stem
  <1> QED
    BY <1>1, <1>2, <1>3, <1>4

(* A listed path is its stem with its suffix. *)
LEMMA StemWithSuffix ==
    ASSUME NEW p \in Listed
    PROVE  p = In(Stem(p), p.suffix) /\ p.suffix \in Compressions
  <1>1. p = [area |-> p.area, dir |-> p.dir, name |-> p.name, arch |-> p.arch, suffix |-> p.suffix]
    BY DEF Listed
  <1>2. Stem(p) = [area |-> p.area, dir |-> p.dir, name |-> p.name, arch |-> p.arch, suffix |-> "none"]
    BY <1>1 DEF Stem
  <1>3. In(Stem(p), p.suffix)
            = [area |-> p.area, dir |-> p.dir, name |-> p.name, arch |-> p.arch, suffix |-> p.suffix]
    BY <1>2 DEF In
  <1> QED
    BY <1>1, <1>3 DEF Listed

(* Whether a path is wanted does not depend on its compression. *)
LEMMA AllowedInAny ==
    ASSUME NEW u, NEW s, NEW x \in Listed, NEW c \in Compressions
    PROVE  Allowed(u, s, In(x, c)) <=> Allowed(u, s, x)
  <1>1. /\ In(x, c).area = x.area /\ In(x, c).dir = x.dir
        /\ In(x, c).name = x.name /\ In(x, c).arch = x.arch
    BY InIs
  <1>2. \A A : Mentions(In(x, c), A) <=> Mentions(x, A)
    BY <1>1 DEF Mentions
  <1>3. AllowedIn(u, s, In(x, c)) <=> AllowedIn(u, s, x)
    BY <1>1, <1>2 DEF AllowedIn
  <1>4. AllowedFlat(u, s, In(x, c)) <=> AllowedFlat(u, s, x)
    BY <1>1 DEF AllowedFlat
  <1> QED
    BY <1>3, <1>4 DEF Allowed

IsIndexFile(F, s, x) ==
    /\ F = [path |-> F.path, ignored |-> F.ignored, optional |-> F.optional, variants |-> F.variants]
    /\ DOMAIN F.variants \subseteq Compressions
    /\ \A c \in DOMAIN F.variants :
        /\ F.variants[c].path = [suite |-> s, file |-> In(x, c)]
        /\ c # "none" => F.variants[c].hashes # {}

(* The variants a release file has an entry for. *)
SuffixesIn(u, s, r, x) == {p.suffix : p \in {q \in Wanted(u, s, r) : Stem(q) = x}}

LEMMA AddedVariant ==
    ASSUME NEW F, NEW c, NEW path, NEW size, NEW hashes, NEW byHash,
           F = [path |-> F.path, ignored |-> F.ignored, optional |-> F.optional, variants |-> F.variants]
    PROVE  AddVariant(F, c, path, size, hashes, byHash).variants[c]
              = [path |-> path, size |-> size, byHash |-> byHash,
                 hashes |-> IF c \in DOMAIN F.variants THEN Updated(F.variants[c].hashes, hashes)
                            ELSE hashes]
  <1> DEFINE W == [d \in DOMAIN F.variants \cup {c} |->
                      IF d # c THEN F.variants[d]
                      ELSE [path |-> path, size |-> size, byHash |-> byHash,
                            hashes |-> IF d \in DOMAIN F.variants
                                       THEN Updated(F.variants[d].hashes, hashes) ELSE hashes]]
  <1>1. W[c] = [path |-> path, size |-> size, byHash |-> byHash,
                hashes |-> IF c \in DOMAIN F.variants THEN Updated(F.variants[c].hashes, hashes)
                           ELSE hashes]
    OBVIOUS
  <1>2. AddVariant(F, c, path, size, hashes, byHash)
            = [F EXCEPT !.path = IF c = "none" THEN path ELSE @, !.variants = W]
    BY DEF AddVariant
  <1> HIDE DEF W
  <1>3. AddVariant(F, c, path, size, hashes, byHash).variants = W
    BY <1>2
  <1> QED
    BY <1>1, <1>3

LEMMA EnteredIs ==
    ASSUME NEW u, NEW s, NEW r, NEW x \in Listed, NEW F, IsIndexFile(F, s, x),
           SuffixesIn(u, s, r, x) \subseteq Compressions,
           \A c \in SuffixesIn(u, s, r, x) : HashesOf(r, In(x, c)) # {}
    PROVE  LET G == Entered(u, s, r, x, F)
               S == SuffixesIn(u, s, r, x)
           IN  /\ G.optional = F.optional
               /\ DOMAIN G.variants = DOMAIN F.variants \cup S
               /\ \A c \in DOMAIN F.variants \ S : G.variants[c] = F.variants[c]
               /\ \A c \in S :
                    /\ G.variants[c].size = SizeOf(r, In(x, c))
                    /\ G.variants[c].hashes = IF c \in DOMAIN F.variants
                                              THEN Updated(F.variants[c].hashes, HashesOf(r, In(x, c)))
                                              ELSE HashesOf(r, In(x, c))
               /\ IsIndexFile(G, s, x)
  <1> DEFINE S == SuffixesIn(u, s, r, x)
             use == UseHash(suites[<<u, s>>].byHash, r.byHash)
             V(c) == AddVariant(F, c, [suite |-> s, file |-> In(x, c)], SizeOf(r, In(x, c)),
                                HashesOf(r, In(x, c)), use).variants[c]
             W == [c \in DOMAIN F.variants \cup S |-> IF c \in S THEN V(c) ELSE F.variants[c]]
             i == IgnoredIndex(u, x)
  <1>1. F = [path |-> F.path, ignored |-> F.ignored, optional |-> F.optional, variants |-> F.variants]
    BY DEF IsIndexFile
  <1>2. Entered(u, s, r, x, F) = [F EXCEPT !.ignored = i, !.variants = W]
    BY DEF Entered, SuffixesIn, In
  <1>3. \A c \in S :
            /\ V(c).path = [suite |-> s, file |-> In(x, c)]
            /\ V(c).size = SizeOf(r, In(x, c))
            /\ V(c).hashes = IF c \in DOMAIN F.variants
                             THEN Updated(F.variants[c].hashes, HashesOf(r, In(x, c)))
                             ELSE HashesOf(r, In(x, c))
    <2> SUFFICES ASSUME NEW c \in S
                 PROVE  /\ V(c).path = [suite |-> s, file |-> In(x, c)]
                        /\ V(c).size = SizeOf(r, In(x, c))
                        /\ V(c).hashes = IF c \in DOMAIN F.variants
                                         THEN Updated(F.variants[c].hashes, HashesOf(r, In(x, c)))
                                         ELSE HashesOf(r, In(x, c))
      OBVIOUS
    <2> DEFINE path == [suite |-> s, file |-> In(x, c)]
               size == SizeOf(r, In(x, c))
               hashes == HashesOf(r, In(x, c))
               all == IF c \in DOMAIN F.variants THEN Updated(F.variants[c].hashes, hashes) ELSE hashes
    <2>1. V(c) = AddVariant(F, c, path, size, hashes, use).variants[c]
      OBVIOUS
    <2> HIDE DEF V, path, size, hashes, use
    <2>2. V(c) = [path |-> path, size |-> size, byHash |-> use, hashes |-> all]
      BY <1>1, <2>1, AddedVariant
    <2> HIDE DEF all
    <2>3. V(c).path = path /\ V(c).size = size /\ V(c).hashes = all
      BY <2>2
    <2> QED
      BY <2>3 DEF path, size, hashes, all
  <1> HIDE DEF V, i
  <1>4. /\ DOMAIN W = DOMAIN F.variants \cup S
        /\ \A c \in S : W[c] = V(c)
        /\ \A c \in DOMAIN F.variants \ S : W[c] = F.variants[c]
    OBVIOUS
  <1> HIDE DEF W
  <1>5. Entered(u, s, r, x, F)
            = [path |-> F.path, ignored |-> i, optional |-> F.optional, variants |-> W]
    BY <1>1, <1>2
  <1> DEFINE G == Entered(u, s, r, x, F)
  <1>6. /\ G = [path |-> G.path, ignored |-> G.ignored, optional |-> G.optional, variants |-> G.variants]
        /\ G.variants = W /\ G.optional = F.optional
    BY <1>5
  <1> HIDE DEF G, S
  <1>7. ASSUME NEW c \in DOMAIN W
        PROVE  W[c].path = [suite |-> s, file |-> In(x, c)] /\ (c # "none" => W[c].hashes # {})
    <2>1. CASE c \in S
      <3>1. HashesOf(r, In(x, c)) # {}
        BY <2>1 DEF S
      <3>2. HashesOf(r, In(x, c)) \subseteq V(c).hashes
        BY <1>3, <2>1 DEF Updated
      <3> QED
        BY <1>3, <1>4, <2>1, <3>1, <3>2
    <2>2. CASE c \notin S
      BY <1>4, <2>2 DEF IsIndexFile
    <2> QED
      BY <2>1, <2>2
  <1>8. DOMAIN W \subseteq Compressions
    BY <1>4 DEF IsIndexFile, S
  <1>9. IsIndexFile(G, s, x)
    BY <1>6, <1>7, <1>8 DEF IsIndexFile
  <1> QED
    BY <1>3, <1>4, <1>6, <1>9 DEF G, S

(* A file has, in every compression that one of the release files lists for it, that size and
   that digest. *)
Covers(F, x, found, read) ==
    \A f \in read, t \in HashTypes, c \in Compressions :
        In(x, c) \in Sized(found[f], t) =>
            /\ c \in DOMAIN F.variants
            /\ F.variants[c].size = found[f].listing[t][In(x, c)].size
            /\ <<t, found[f].listing[t][In(x, c)].digest>> \in F.variants[c].hashes

AreReleaseFiles(found) == \A f \in DOMAIN found : IsReleaseFile(found[f])

LEMMA SizedListed ==
    ASSUME NEW r, IsReleaseFile(r), NEW t \in HashTypes, NEW p \in Sized(r, t)
    PROVE  p \in Listed /\ t \in TypesOf(r, p) /\ p \in UNION {Sized(r, k) : k \in HashTypes}
  BY DEF IsReleaseFile, Sized, TypesOf

LEMMA WantedListed ==
    ASSUME NEW r, IsReleaseFile(r), NEW u, NEW s, NEW p \in Wanted(u, s, r)
    PROVE  p \in Listed /\ TypesOf(r, p) # {} /\ Allowed(u, s, p)
  <1>1. PICK t \in HashTypes : p \in Sized(r, t)
    BY DEF Wanted
  <1>2. Allowed(u, s, p)
    BY DEF Wanted
  <1> QED
    BY <1>1, <1>2, SizedListed

LEMMA SuffixesListed ==
    ASSUME NEW r, IsReleaseFile(r), NEW u, NEW s, NEW x \in Listed
    PROVE  /\ SuffixesIn(u, s, r, x) \subseteq Compressions
           /\ \A c \in SuffixesIn(u, s, r, x) :
                In(x, c) \in Wanted(u, s, r) /\ HashesOf(r, In(x, c)) # {}
  <1>1. ASSUME NEW c \in SuffixesIn(u, s, r, x)
        PROVE  /\ c \in Compressions
               /\ In(x, c) \in Wanted(u, s, r) /\ HashesOf(r, In(x, c)) # {}
    <2>1. PICK q \in Wanted(u, s, r) : Stem(q) = x /\ q.suffix = c
      BY DEF SuffixesIn
    <2>2. q \in Listed
      BY WantedListed
    <2>3. q = In(x, c) /\ c \in Compressions
      BY <2>1, <2>2, StemWithSuffix
    <2>4. HashesOf(r, q) # {}
      BY WantedListed DEF HashesOf
    <2> QED
      BY <2>3, <2>4
  <1> QED
    BY <1>1

(* The entries of one more release file, when the release files agree. *)
LEMMA EnteredCovers ==
    ASSUME NEW found, AreReleaseFiles(found), Agree(found),
           NEW read \in SUBSET DOMAIN found, NEW g \in DOMAIN found,
           NEW u, NEW s, NEW x \in Listed, Stem(x) = x, Allowed(u, s, x),
           NEW F, IsIndexFile(F, s, x), Covers(F, x, found, read)
    PROVE  LET G == Entered(u, s, found[g], x, F)
           IN  IsIndexFile(G, s, x) /\ G.optional = F.optional /\ Covers(G, x, found, read \cup {g})
  <1> DEFINE r == found[g]
             S == SuffixesIn(u, s, r, x)
             G == Entered(u, s, r, x, F)
  <1>1. IsReleaseFile(r)
    BY DEF AreReleaseFiles
  <1>2. S \subseteq Compressions
        /\ \A c \in S : In(x, c) \in Wanted(u, s, r) /\ HashesOf(r, In(x, c)) # {}
    BY <1>1, SuffixesListed
  <1>3. /\ G.optional = F.optional /\ IsIndexFile(G, s, x)
        /\ DOMAIN G.variants = DOMAIN F.variants \cup S
        /\ \A c \in DOMAIN F.variants \ S : G.variants[c] = F.variants[c]
        /\ \A c \in S : /\ G.variants[c].size = SizeOf(r, In(x, c))
                        /\ G.variants[c].hashes = IF c \in DOMAIN F.variants
                                  THEN Updated(F.variants[c].hashes, HashesOf(r, In(x, c)))
                                  ELSE HashesOf(r, In(x, c))
    <2>1. /\ SuffixesIn(u, s, r, x) \subseteq Compressions
          /\ \A c \in SuffixesIn(u, s, r, x) : HashesOf(r, In(x, c)) # {}
      BY <1>2
    <2>2. LET E == Entered(u, s, r, x, F)
              T == SuffixesIn(u, s, r, x)
          IN  /\ E.optional = F.optional
              /\ DOMAIN E.variants = DOMAIN F.variants \cup T
              /\ \A c \in DOMAIN F.variants \ T : E.variants[c] = F.variants[c]
              /\ \A c \in T :
                   /\ E.variants[c].size = SizeOf(r, In(x, c))
                   /\ E.variants[c].hashes = IF c \in DOMAIN F.variants
                                             THEN Updated(F.variants[c].hashes, HashesOf(r, In(x, c)))
                                             ELSE HashesOf(r, In(x, c))
              /\ IsIndexFile(E, s, x)
      <3> HIDE DEF r
      <3> QED
        BY <2>1, EnteredIs, Zenon
    <2> QED
      BY <2>2
  <1> HIDE DEF G
  <1>4. ASSUME NEW f \in read \cup {g}, NEW t \in HashTypes, NEW c \in Compressions,
               In(x, c) \in Sized(found[f], t)
        PROVE  /\ c \in DOMAIN G.variants
               /\ G.variants[c].size = found[f].listing[t][In(x, c)].size
               /\ <<t, found[f].listing[t][In(x, c)].digest>> \in G.variants[c].hashes
    <2> DEFINE p == In(x, c)
    <2>1. f \in DOMAIN found /\ IsReleaseFile(found[f])
      BY DEF AreReleaseFiles
    <2>2. /\ p \in Listed /\ p.suffix = c /\ Stem(p) = x
          /\ Allowed(u, s, p)
      BY InIs, AllowedInAny
    <2> HIDE DEF p
    <2>3. CASE c \in S
      <3>1. PICK k \in HashTypes : k \in TypesOf(r, p) /\ SizeOf(r, p) = r.listing[k][p].size
        BY <1>1, <1>2, <2>3, WantedListed DEF SizeOf, TypesOf, p
      <3>2. p \in Sized(r, k) \cap Sized(found[f], t)
        BY <1>4, <3>1 DEF TypesOf, p
      <3>3. r.listing[k][p].size = found[f].listing[t][p].size
        BY <2>1, <3>2 DEF Agree
      <3>4. CASE t \in TypesOf(r, p)
        <4>1. p \in Sized(r, t) \cap Sized(found[f], t)
          BY <1>4, <3>4 DEF TypesOf, p
        <4>2. r.listing[t][p].digest = found[f].listing[t][p].digest
          BY <2>1, <4>1 DEF Agree
        <4>3. <<t, found[f].listing[t][p].digest>> \in HashesOf(r, p)
          BY <3>4, <4>2 DEF HashesOf
        <4> QED
          BY <1>3, <2>3, <3>1, <3>3, <4>3 DEF Updated, p
      <3>5. CASE t \notin TypesOf(r, p)
        <4>1. f # g
          BY <1>1, <1>4, <3>5, SizedListed DEF p
        <4>2. c \in DOMAIN F.variants /\ <<t, found[f].listing[t][p].digest>> \in F.variants[c].hashes
          BY <1>4, <4>1 DEF Covers, p
        <4>3. \A h \in HashesOf(r, p) : h[1] # t
          BY <3>5 DEF HashesOf
        <4>4. <<t, found[f].listing[t][p].digest>> \in Updated(F.variants[c].hashes, HashesOf(r, p))
          BY <4>2, <4>3 DEF Updated
        <4> QED
          BY <1>3, <2>3, <3>1, <3>3, <4>2, <4>4 DEF p
      <3> QED
        BY <3>4, <3>5
    <2>4. CASE c \notin S
      <3>1. f # g
        <4>1. SUFFICES ASSUME f = g PROVE FALSE
          OBVIOUS
        <4>2. p \in Wanted(u, s, r)
          BY <1>1, <1>4, <2>2, <4>1, SizedListed DEF Wanted, p
        <4> QED
          BY <2>2, <2>4, <4>2 DEF SuffixesIn
      <3>2. /\ c \in DOMAIN F.variants /\ F.variants[c].size = found[f].listing[t][p].size
            /\ <<t, found[f].listing[t][p].digest>> \in F.variants[c].hashes
        BY <1>4, <3>1 DEF Covers, p
      <3> QED
        BY <1>3, <2>4, <3>2 DEF p
    <2> QED
      BY <2>3, <2>4
  <1>5. Covers(G, x, found, read \cup {g})
    BY <1>4 DEF Covers
  <1> QED
    BY <1>3, <1>5 DEF G

(* The indexes of a codename, once some of its release files are read. *)
Indexed(F, u, s, found, read) ==
    /\ \A k \in DOMAIN F :
        /\ k = [suite |-> s, file |-> k.file] /\ k.file \in Listed /\ Stem(k.file) = k.file
        /\ IsIndexFile(F[k], s, k.file) /\ F[k].optional = FALSE
        /\ Allowed(u, s, k.file)
        /\ Covers(F[k], k.file, found, read)
    /\ \A f \in read : \A p \in Wanted(u, s, found[f]) : [suite |-> s, file |-> Stem(p)] \in DOMAIN F

LEMMA NewIndexFile ==
    ASSUME NEW s, NEW x \in Listed, Stem(x) = x
    PROVE  LET F == NewFile([suite |-> s, file |-> x], "none")
           IN  /\ IsIndexFile(F, s, x) /\ F.optional = FALSE
               /\ DOMAIN F.variants = {"none"} /\ F.variants["none"].hashes = {}
  <1> DEFINE k == [suite |-> s, file |-> x]
             V == [c \in {"none"} |-> [path |-> k, size |-> 0, hashes |-> {}, byHash |-> FALSE]]
             F == NewFile(k, "none")
  <1>1. DOMAIN V = {"none"} /\ V["none"].path = k /\ V["none"].hashes = {}
    OBVIOUS
  <1>2. k = [suite |-> s, file |-> In(x, "none")]
    BY DEF In, Stem
  <1> HIDE DEF V, k
  <1>3. F = [path |-> k, ignored |-> FALSE, optional |-> FALSE, variants |-> V]
    BY DEF NewFile, V
  <1> HIDE DEF F
  <1>4. IsIndexFile(F, s, x)
    BY <1>1, <1>2, <1>3 DEF IsIndexFile, Compressions
  <1> QED
    BY <1>1, <1>3, <1>4 DEF F, k

LEMMA WithReleaseIndexed ==
    ASSUME NEW found, AreReleaseFiles(found), Agree(found),
           NEW read \in SUBSET DOMAIN found, NEW g \in DOMAIN found,
           NEW u, NEW s, NEW F, Indexed(F, u, s, found, read)
    PROVE  Indexed(WithRelease(u, s, found[g], F), u, s, found, read \cup {g})
  <1> DEFINE r == found[g]
             mine == {[suite |-> s, file |-> Stem(p)] : p \in Wanted(u, s, r)}
             before(k) == IF k \in DOMAIN F THEN F[k] ELSE NewFile(k, "none")
             G == WithRelease(u, s, r, F)
  <1>1. IsReleaseFile(r)
    BY DEF AreReleaseFiles
  <1>2. /\ DOMAIN G = DOMAIN F \cup mine
        /\ \A k \in DOMAIN F \ mine : G[k] = F[k]
        /\ \A k \in mine : G[k] = Entered(u, s, r, k.file, before(k))
    BY DEF WithRelease
  <1> HIDE DEF G
  <1>3. ASSUME NEW k \in mine
        PROVE  /\ k = [suite |-> s, file |-> k.file] /\ k.file \in Listed /\ Stem(k.file) = k.file
               /\ Allowed(u, s, k.file)
    <2>1. PICK p \in Wanted(u, s, r) : k = [suite |-> s, file |-> Stem(p)]
      OBVIOUS
    <2>2. p \in Listed /\ Allowed(u, s, p)
      BY <1>1, WantedListed
    <2>3. p = In(Stem(p), p.suffix) /\ p.suffix \in Compressions
      BY <2>2, StemWithSuffix
    <2>4. Stem(p) \in Listed
      BY <2>2, <2>3, InIs
    <2>5. Stem(Stem(p)) = Stem(p)
      BY <2>3, <2>4, InIs
    <2>6. Allowed(u, s, Stem(p))
      BY <2>2, <2>3, <2>4, AllowedInAny
    <2>7. k.file = Stem(p)
      BY <2>1
    <2> QED
      BY <2>1, <2>4, <2>5, <2>6, <2>7
  <1>4. ASSUME NEW k \in mine
        PROVE  /\ IsIndexFile(before(k), s, k.file) /\ before(k).optional = FALSE
               /\ Covers(before(k), k.file, found, read)
    <2>1. CASE k \in DOMAIN F
      BY <2>1 DEF Indexed
    <2>2. CASE k \notin DOMAIN F
      <3>1. before(k) = NewFile([suite |-> s, file |-> k.file], "none")
        BY <1>3, <2>2
      <3>2. ASSUME NEW f \in read, NEW t \in HashTypes, NEW c \in Compressions,
                   In(k.file, c) \in Sized(found[f], t)
            PROVE  FALSE
        <4>1. IsReleaseFile(found[f])
          BY DEF AreReleaseFiles
        <4>2. Allowed(u, s, In(k.file, c)) /\ Stem(In(k.file, c)) = k.file
          BY <1>3, InIs, AllowedInAny
        <4>3. In(k.file, c) \in Wanted(u, s, found[f])
          BY <3>2, <4>1, <4>2, SizedListed DEF Wanted
        <4> QED
          BY <1>3, <2>2, <4>2, <4>3 DEF Indexed
      <3>3. Covers(before(k), k.file, found, read)
        BY <3>2 DEF Covers
      <3>4. k.file \in Listed /\ Stem(k.file) = k.file
        BY <1>3
      <3>5. LET N == NewFile([suite |-> s, file |-> k.file], "none")
            IN  IsIndexFile(N, s, k.file) /\ N.optional = FALSE
        BY <3>4, NewIndexFile
      <3> HIDE DEF before, mine
      <3> QED
        BY <3>1, <3>3, <3>5
    <2> QED
      BY <2>1, <2>2
  <1> HIDE DEF before
  <1>5. ASSUME NEW k \in mine
        PROVE  /\ IsIndexFile(G[k], s, k.file) /\ G[k].optional = FALSE
               /\ Covers(G[k], k.file, found, read \cup {g})
    <2>1. /\ k.file \in Listed /\ Stem(k.file) = k.file /\ Allowed(u, s, k.file)
          /\ IsIndexFile(before(k), s, k.file) /\ Covers(before(k), k.file, found, read)
          /\ before(k).optional = FALSE
      BY <1>3, <1>4
    <2>2. LET E == Entered(u, s, found[g], k.file, before(k))
          IN  IsIndexFile(E, s, k.file) /\ E.optional = before(k).optional
              /\ Covers(E, k.file, found, read \cup {g})
      BY <2>1, EnteredCovers
    <2> QED
      BY <1>2, <2>1, <2>2
  <1>6. ASSUME NEW k \in DOMAIN F \ mine
        PROVE  Covers(F[k], k.file, found, read \cup {g})
    <2>1. ASSUME NEW t \in HashTypes, NEW c \in Compressions, In(k.file, c) \in Sized(r, t)
          PROVE  FALSE
      <3>1. k.file \in Listed /\ Stem(k.file) = k.file /\ Allowed(u, s, k.file)
            /\ k = [suite |-> s, file |-> k.file]
        BY DEF Indexed
      <3>2. Allowed(u, s, In(k.file, c)) /\ Stem(In(k.file, c)) = k.file
        BY <3>1, InIs, AllowedInAny
      <3>3. In(k.file, c) \in Wanted(u, s, r)
        BY <1>1, <2>1, <3>2, SizedListed DEF Wanted
      <3> QED
        BY <3>1, <3>2, <3>3
    <2>2. Covers(F[k], k.file, found, read)
      BY DEF Indexed
    <2> QED
      BY <2>1, <2>2 DEF Covers
  <1>7. ASSUME NEW f \in read \cup {g}, NEW p \in Wanted(u, s, found[f])
        PROVE  [suite |-> s, file |-> Stem(p)] \in DOMAIN G
    BY <1>2 DEF Indexed
  <1>8. ASSUME NEW k \in DOMAIN G
        PROVE  /\ k = [suite |-> s, file |-> k.file] /\ k.file \in Listed /\ Stem(k.file) = k.file
               /\ IsIndexFile(G[k], s, k.file) /\ G[k].optional = FALSE
               /\ Allowed(u, s, k.file)
               /\ Covers(G[k], k.file, found, read \cup {g})
    <2> HIDE DEF mine
    <2>1. CASE k \in mine
      BY <1>3, <1>5, <2>1
    <2>2. CASE k \in DOMAIN F \ mine
      BY <1>2, <1>6, <2>2 DEF Indexed
    <2> QED
      BY <1>2, <2>1, <2>2
  <1> QED
    BY <1>7, <1>8 DEF Indexed, G

LEMMA OfCodenameIndexed ==
    ASSUME NEW found, AreReleaseFiles(found), Agree(found), DOMAIN found \subseteq ReleaseFiles,
           NEW u, NEW s
    PROVE  Indexed(OfCodename(u, s, found), u, s, found, DOMAIN found)
  <1>1. Indexed(NoFiles, u, s, found, {})
    BY DEF Indexed, NoFiles
  <1> DEFINE first == IF "InRelease" \in DOMAIN found THEN WithRelease(u, s, found["InRelease"], NoFiles)
                      ELSE NoFiles
             read == DOMAIN found \cap {"InRelease"}
  <1>2. Indexed(first, u, s, found, read)
    <2>1. CASE "InRelease" \in DOMAIN found
      <3>1. read = {} \cup {"InRelease"} /\ {} \in SUBSET DOMAIN found
        BY <2>1
      <3>2. Indexed(WithRelease(u, s, found["InRelease"], NoFiles), u, s, found, {} \cup {"InRelease"})
        BY <1>1, <2>1, <3>1, WithReleaseIndexed
      <3> QED
        BY <2>1, <3>1, <3>2
    <2>2. CASE "InRelease" \notin DOMAIN found
      <3>1. read = {}
        BY <2>2
      <3> QED
        BY <1>1, <2>2, <3>1
    <2> QED
      BY <2>1, <2>2
  <1>3. OfCodename(u, s, found)
            = IF "Release" \in DOMAIN found THEN WithRelease(u, s, found["Release"], first) ELSE first
    BY DEF OfCodename
  <1> HIDE DEF first
  <1>4. CASE "Release" \in DOMAIN found
    <2>1. read \cup {"Release"} = DOMAIN found /\ read \in SUBSET DOMAIN found
      BY <1>4 DEF ReleaseFiles
    <2> HIDE DEF read
    <2>2. Indexed(WithRelease(u, s, found["Release"], first), u, s, found, read \cup {"Release"})
      BY <1>2, <1>4, <2>1, WithReleaseIndexed
    <2> QED
      BY <1>3, <1>4, <2>1, <2>2
  <1>5. CASE "Release" \notin DOMAIN found
    <2>1. read = DOMAIN found
      BY <1>5 DEF ReleaseFiles
    <2> QED
      BY <1>2, <1>3, <1>5, <2>1
  <1> QED
    BY <1>4, <1>5

(* A component is of a codename the repository has. *)
Housed == \A x \in DOMAIN parts : <<x[1], x[2]>> \in DOMAIN suites

LEMMA UpgraderListed ==
    ASSUME Typed, Housed, NEW u, NEW k \in Upgraders(u)
    PROVE  /\ k = [suite |-> k.suite, file |-> k.file] /\ k.suite \in SuitesOf(u)
           /\ k.file \in Listed /\ k.file.suffix \in Compressions
  <1>1. /\ k = [suite |-> k.suite, file |-> k.file]
        /\ k.suite \in Suite /\ <<u, k.suite, Main>> \in DOMAIN parts
        /\ k.file \in [area : {Main}, dir : {"dist-upgrader"}, name : {"ReleaseAnnouncement"},
                       arch : {"all"}, suffix : {"none", "gz"}]
    BY DEF Upgraders
  <1>2. <<u, k.suite, Main>> \in Url \X Suite \X Component
    BY <1>1 DEF Typed, Areas
  <1>3. Main \in Component
    BY <1>2
  <1>4. k.file \in Listed /\ k.file.suffix \in Compressions
    BY <1>1, <1>3 DEF Listed, ArchDirs, Dirs, Names, Compressions
  <1>5. <<<<u, k.suite, Main>>[1], <<u, k.suite, Main>>[2]>> \in DOMAIN suites
    BY <1>1 DEF Housed
  <1>6. k.suite \in SuitesOf(u)
    BY <1>1, <1>5 DEF SuitesOf
  <1> QED
    BY <1>1, <1>4, <1>6

(* Nothing is known of an upgrader's contents. *)
Unverified(F) ==
    DOMAIN F.variants \subseteq Compressions /\ \A c \in DOMAIN F.variants : F.variants[c].hashes = {}

LEMMA NewUpgrader ==
    ASSUME NEW k, NEW c \in Compressions
    PROVE  LET F == [NewFile(k, c) EXCEPT !.optional = TRUE]
           IN  F.optional = TRUE /\ Unverified(F)
  <1> DEFINE V == [d \in {c} |-> [path |-> k, size |-> 0, hashes |-> {}, byHash |-> FALSE]]
             N == NewFile(k, c)
             F == [N EXCEPT !.optional = TRUE]
  <1>1. DOMAIN V = {c} /\ V[c].hashes = {}
    OBVIOUS
  <1> HIDE DEF V, N
  <1>2. N = [path |-> N.path, ignored |-> N.ignored, optional |-> N.optional, variants |-> N.variants]
        /\ N.variants = V
    BY DEF N, NewFile, V
  <1>3. F.optional = TRUE /\ F.variants = V
    BY <1>2
  <1> HIDE DEF F
  <1>4. F.optional = TRUE /\ Unverified(F)
    BY <1>1, <1>3 DEF Unverified
  <1> QED
    BY <1>4 DEF F, N

(* The release files of every codename are as they should be. *)
AllAgree(found) ==
    \A s \in DOMAIN found :
        AreReleaseFiles(found[s]) /\ DOMAIN found[s] \subseteq ReleaseFiles /\ Agree(found[s])

(* An index is as the release files list it, unless it is an upgrader. *)
IsPlanned(F, k, found) ==
    /\ k = [suite |-> k.suite, file |-> k.file] /\ k.file \in Listed
    /\ IF F.optional THEN Unverified(F)
       ELSE /\ Stem(k.file) = k.file /\ IsIndexFile(F, k.suite, k.file)
            /\ Covers(F, k.file, found, DOMAIN found)

(* The indexes of a repository are those its release files list, as they list them. *)
Plan(F, u, found) ==
    /\ \A k \in DOMAIN F : k.suite \in SuitesOf(u) /\ IsPlanned(F[k], k, found[k.suite])
    /\ \A s \in DOMAIN found : \A f \in DOMAIN found[s] : \A p \in Wanted(u, s, found[s][f]) :
        /\ [suite |-> s, file |-> Stem(p)] \in DOMAIN F
        /\ F[[suite |-> s, file |-> Stem(p)]].optional = FALSE

LEMMA MetadataIndexed ==
    ASSUME Typed, Housed, NEW u, NEW found, DOMAIN found = SuitesOf(u), AllAgree(found)
    PROVE  Plan(MetadataFiles(u, found), u, found)
  <1> DEFINE of == [s \in DOMAIN found |-> OfCodename(u, s, found[s])]
             keys == UNION {DOMAIN of[s] : s \in DOMAIN of}
             F == MetadataFiles(u, found)
             upgrader(k) == [NewFile(k, k.file.suffix) EXCEPT !.optional = TRUE]
  <1>1. ASSUME NEW s \in DOMAIN found
        PROVE  s \in DOMAIN of /\ Indexed(of[s], u, s, found[s], DOMAIN found[s])
    BY OfCodenameIndexed DEF AllAgree
  <1>2. DOMAIN of = DOMAIN found
    OBVIOUS
  <1>3. /\ DOMAIN F = keys \cup Upgraders(u)
        /\ \A k \in keys : F[k] = of[k.suite][k]
        /\ \A k \in Upgraders(u) \ keys : F[k] = upgrader(k)
    BY DEF MetadataFiles
  <1> HIDE DEF of, F
  <1>4. ASSUME NEW k \in keys
        PROVE  k.suite \in DOMAIN found /\ k \in DOMAIN of[k.suite]
    <2>1. PICK s \in DOMAIN found : k \in DOMAIN of[s]
      BY <1>2
    <2>2. k = [suite |-> s, file |-> k.file]
      BY <1>1, <2>1 DEF Indexed
    <2>3. k.suite = s
      BY <2>2
    <2> QED
      BY <2>1, <2>3
  <1>5. ASSUME NEW s \in DOMAIN found, NEW k \in DOMAIN of[s]
        PROVE  k \in keys
    BY <1>2
  <1> HIDE DEF keys
  <1>6. ASSUME NEW k \in keys
        PROVE  /\ k = [suite |-> k.suite, file |-> k.file] /\ k.suite \in SuitesOf(u)
               /\ k.file \in Listed /\ Stem(k.file) = k.file
               /\ IsIndexFile(F[k], k.suite, k.file) /\ F[k].optional = FALSE
               /\ Covers(F[k], k.file, found[k.suite], DOMAIN found[k.suite])
    <2>1. k.suite \in DOMAIN found /\ k \in DOMAIN of[k.suite] /\ F[k] = of[k.suite][k]
      BY <1>3, <1>4
    <2>2. Indexed(of[k.suite], u, k.suite, found[k.suite], DOMAIN found[k.suite])
      BY <1>1, <2>1
    <2> QED
      BY <2>1, <2>2 DEF Indexed
  <1>7. ASSUME NEW k \in Upgraders(u) \ keys
        PROVE  k.suite \in SuitesOf(u) /\ IsPlanned(F[k], k, found[k.suite])
    <2>1. /\ k = [suite |-> k.suite, file |-> k.file] /\ k.suite \in SuitesOf(u)
          /\ k.file \in Listed /\ k.file.suffix \in Compressions
      BY UpgraderListed
    <2>2. upgrader(k).optional = TRUE /\ Unverified(upgrader(k))
      BY <2>1, NewUpgrader
    <2> HIDE DEF upgrader
    <2> QED
      BY <1>3, <2>1, <2>2 DEF IsPlanned
  <1>8. ASSUME NEW s \in DOMAIN found, NEW f \in DOMAIN found[s], NEW p \in Wanted(u, s, found[s][f])
        PROVE  [suite |-> s, file |-> Stem(p)] \in keys
    BY <1>1, <1>5 DEF Indexed
  <1>9. \A k \in DOMAIN F : k \in keys \/ k \in Upgraders(u) \ keys
    BY <1>3
  <1> HIDE DEF upgrader
  <1>10. \A k \in DOMAIN F : k.suite \in SuitesOf(u) /\ IsPlanned(F[k], k, found[k.suite])
    BY <1>6, <1>7, <1>9 DEF IsPlanned
  <1>11. ASSUME NEW s \in DOMAIN found, NEW f \in DOMAIN found[s], NEW p \in Wanted(u, s, found[s][f])
         PROVE  /\ [suite |-> s, file |-> Stem(p)] \in DOMAIN F
                /\ F[[suite |-> s, file |-> Stem(p)]].optional = FALSE
    BY <1>3, <1>6, <1>8
  <1> QED
    BY <1>10, <1>11 DEF F, Plan
------------------------------------------------------------------------------
(* The invariant *)

(* Nothing is done before a repository is chosen, and little before its release files are read. *)
Fresh ==
    /\ stage = "config" =>
        /\ chosen = None
        /\ text = <<>> /\ block = EmptyBlock /\ stanza = <<>>
        /\ \A k \in Kinds : pool[k] = NoFiles /\ finished[k] = {}
    /\ stage \in {"config", "releases"} => files = NoFiles
    /\ stage \in {"config", "releases", "indexes"} => missing = {} /\ fetched = NoFiles
    /\ stage \in {"config", "releases", "indexes", "clean"} => parsed = {}
    /\ stage # "done" => installed = {}

Choice ==
    /\ stage \in {"config", "releases", "indexes", "clean", "parse", "done", "failed"}
    /\ stage # "config" => chosen \in known /\ upstream \in Upstreams

Asks(r, s, p) == IF s \in Flat THEN AskedInFlat(r, p) ELSE AskedFor(r, p)

(* The indexes a line of the configuration asks for. *)
Requested ==
    UNION {UNION {{[suite |-> s, file |-> Stem(p)] : p \in {q \in ListedIn(s) : Asks(r, s, q)}} :
                    s \in r.suites} :
             r \in {q \in asked : q.url = chosen}}

(* The indexes are those the release files list, as they list them. *)
Planned ==
    /\ \A k \in DOMAIN files :
        k.suite \in Suite /\ IsPlanned(files[k], k, upstream.releases[k.suite])
    /\ stage \notin {"config", "releases", "failed"} =>
        \A k \in Requested : k \in DOMAIN files /\ files[k].optional = FALSE

(* What was to be had was fetched, as it was listed. *)
Gotten ==
    /\ \A k \in DOMAIN fetched : k \in DOMAIN files /\ fetched[k] \in Had(files[k])
    /\ stage \in {"clean", "parse", "done"} /\ missing = {} =>
        \A k \in DOMAIN files : k \in DOMAIN fetched \/ files[k].ignored \/ files[k].optional

(* What was fetched is in skel, and nothing else when it is parsed. *)
InSkel ==
    /\ \A p \in DOMAIN skel : skel[p] \in {"new", "old"}
    /\ stage = "clean" => \A p \in FetchedPaths : p \in DOMAIN skel /\ skel[p] = "new"
    /\ stage = "parse" =>
        /\ \A p \in DOMAIN skel : skel[p] = "new"
        /\ missing = {} => \A k \in DOMAIN fetched : files[k].variants[fetched[k]].path \in DOMAIN skel

(* What was fetched will be parsed or has been. *)
Reading ==
    /\ unparsed = [sources |-> unparsed.sources, packages |-> unparsed.packages]
    /\ unparsed.sources \cup unparsed.packages \subseteq [suite : Suite, file : Listed]
    /\ ParsedIsFetched
    /\ stage \in {"parse", "done"} /\ missing = {} =>
        \A k \in Requested : k \in DOMAIN fetched =>
            \/ stage = "parse" /\ k \in unparsed.sources \cup unparsed.packages
            \/ <<k, "new">> \in parsed

(* The files of the pool are on their paths, and what is installed is of the pool. *)
InPool == \A k \in Kinds : \A p \in DOMAIN pool[k] : p \in Path /\ pool[k][p].path = p
Stocked ==
    /\ InPool
    /\ installed \subseteq {<<f, FirstOf(f, Had(f))>> : f \in {g \in Pool : Had(g) # {}}}

LEMMA StockedSame ==
    ASSUME Stocked, UNCHANGED <<pool, installed>>, installed = {} \/ UNCHANGED upstream
    PROVE  Stocked'
  <1>1. InPool'
    BY DEF Stocked, InPool
  <1>2. CASE installed = {}
    BY <1>1, <1>2 DEF Stocked
  <1>3. CASE UNCHANGED upstream
    <2>1. Pool' = Pool /\ \A f : Had(f)' = Had(f)
      BY <1>3 DEF Pool, Had, Accepted
    <2> QED
      BY <1>1, <2>1 DEF Stocked
  <1> QED
    BY <1>2, <1>3

LEMMA RequestedIs ==
    ASSUME NEW k
    PROVE  k \in Requested <=>
              \E r \in asked : r.url = chosen /\ \E s \in r.suites : \E p \in ListedIn(s) :
                  Asks(r, s, p) /\ k = [suite |-> s, file |-> Stem(p)]
  BY DEF Requested

LEMMA RequestedSame == UNCHANGED <<asked, chosen, upstream>> => Requested' = Requested
  BY DEF Requested, ListedIn

LEMMA UpstreamIs ==
    ASSUME Choice, stage # "config"
    PROVE  /\ \A s \in Suite :
                /\ AreReleaseFiles(upstream.releases[s])
                /\ DOMAIN upstream.releases[s] \subseteq ReleaseFiles
           /\ \A k \in DOMAIN upstream.texts : upstream.texts[k] \in Seq(TextLines)
           /\ \A k : Text(k) \in Seq(TextLines)
  <1>1. IsUpstream(upstream)
    BY SelectionAssumption DEF Choice
  <1>2. \A k \in DOMAIN upstream.texts : upstream.texts[k] \in Seq(TextLines)
    BY <1>1 DEF IsUpstream
  <1>3. \A k : Text(k) \in Seq(TextLines)
    BY <1>2 DEF Text
  <1> QED
    BY <1>1, <1>2, <1>3 DEF IsUpstream, AreReleaseFiles

LEMMA ListedInIs ==
    ASSUME Choice, stage # "config", NEW s \in Suite, NEW p \in ListedIn(s)
    PROVE  p \in Listed /\ \E f \in DOMAIN upstream.releases[s], t \in HashTypes :
                               p \in Sized(upstream.releases[s][f], t)
  <1>1. PICK f \in DOMAIN upstream.releases[s], t \in HashTypes : p \in Sized(upstream.releases[s][f], t)
    BY DEF ListedIn
  <1>2. IsReleaseFile(upstream.releases[s][f])
    BY UpstreamIs DEF AreReleaseFiles
  <1> QED
    BY <1>1, <1>2, SizedListed

(* What a line asks for is wanted, and will be parsed. *)
LEMMA AskedIsWanted ==
    ASSUME Typed, NEW r \in asked, Granted(r), NEW s \in r.suites, NEW p \in Listed, Asks(r, s, p),
           NEW u, u = r.url
    PROVE  /\ s \in SuitesOf(u) /\ Allowed(u, s, p)
           /\ LET k == [suite |-> s, file |-> Stem(p)]
              IN  \/ SourcesEnabled(u) /\ k \in SourcesFiles(u)
                  \/ BinariesEnabled(u) /\ k \in PackagesFiles(u)
  <1> DEFINE k == [suite |-> s, file |-> Stem(p)]
  <1>0. r \in Requests
    BY DEF Typed, Collections
  <1>1. s \in Suite /\ r.components \subseteq Component /\ r.arches \subseteq Arch
    BY <1>0 DEF Requests
  <1>2. s \in SuitesOf(u)
    BY <1>1 DEF Granted, SuitesOf
  <1>3. Stem(p) = [area |-> p.area, dir |-> p.dir, name |-> p.name, arch |-> p.arch, suffix |-> "none"]
    BY DEF Listed, Stem
  <1>4. p.dir \notin ArchDirs /\ p.name \notin ArchNames => p.arch = "."
    BY DEF Listed
  <1>5. CASE s \in Flat
    <2>1. /\ <<u, s>> \in DOMAIN folders
          /\ r.source => folders[<<u, s>>].source
          /\ r.arches # {} => folders[<<u, s>>].binaries
      BY <1>5 DEF Granted
    <2>2. /\ p.area = "." /\ p.dir = "."
          /\ \/ p.name = "Packages" /\ r.arches # {}
             \/ p.name = "Sources" /\ r.source
      BY <1>5 DEF Asks, AskedInFlat
    <2>3. Allowed(u, s, p)
      BY <1>5, <2>1, <2>2 DEF Allowed, AllowedFlat
    <2>4. p.arch = "."
      BY <1>4, <2>2 DEF ArchDirs, ArchNames
    <2>5. CASE p.name = "Packages" /\ r.arches # {}
      <3>1. k = Plain(s, ".", ".", "Packages", ".")
        BY <1>3, <2>2, <2>4, <2>5 DEF Plain
      <3>2. k \in PackagesFiles(u)
        BY <1>2, <1>5, <3>1 DEF PackagesFiles
      <3>3. BinariesEnabled(u)
        BY <1>2, <1>5, <2>1, <2>5 DEF BinariesEnabled
      <3> QED
        BY <1>2, <2>3, <3>2, <3>3
    <2>6. CASE p.name = "Sources" /\ r.source
      <3>1. k = Plain(s, ".", ".", "Sources", ".")
        BY <1>3, <2>2, <2>4, <2>6 DEF Plain
      <3>2. k \in SourcesFiles(u)
        BY <1>2, <1>5, <3>1 DEF SourcesFiles
      <3>3. SourcesEnabled(u)
        BY <1>2, <1>5, <2>1, <2>6 DEF SourcesEnabled
      <3> QED
        BY <1>2, <2>3, <3>2, <3>3
    <2> QED
      BY <2>2, <2>5, <2>6
  <1>6. CASE s \notin Flat
    <2> DEFINE c == p.area
    <2>1. \A d \in r.components :
            /\ <<u, s, d>> \in DOMAIN parts
            /\ r.source => parts[<<u, s, d>>].source
            /\ r.arches \subseteq ArchesOf(u, s, d)
      BY <1>6 DEF Granted, ArchesOf
    <2>2. \/ /\ p.name = "Packages" /\ r.arches # {}
             /\ p.dir = "binary" /\ c \in r.components /\ p.arch \in r.arches \cup {"all"}
          \/ p.name = "Sources" /\ r.source /\ p.dir = "source" /\ c \in r.components
      BY <1>6 DEF Asks, AskedFor, c
    <2> HIDE DEF c
    <2>3. /\ c \in r.components /\ c \in Component
          /\ <<u, s, c>> \in DOMAIN parts
          /\ r.source => parts[<<u, s, c>>].source
          /\ r.arches \subseteq ArchesOf(u, s, c)
      <3>1. c \in r.components
        BY <2>2
      <3>2. c \in Component
        BY <1>1, <3>1
      <3> QED
        BY <2>1, <3>1, <3>2
    <2>6. c \in ComponentsOf(u, s)
      BY <2>3 DEF ComponentsOf
    <2>4. CASE /\ p.name = "Packages" /\ r.arches # {}
               /\ p.dir = "binary" /\ c \in r.components /\ p.arch \in r.arches \cup {"all"}
      <3>1. ArchesOf(u, s, c) # {} /\ p.arch \in ArchesOf(u, s, c) \cup {"all"}
        BY <2>3, <2>4
      <3>2. MirrorsBinaries(u, s)
        BY <2>6, <3>1 DEF MirrorsBinaries
      <3>3. Allowed(u, s, p)
        BY <1>6, <2>6, <2>4, <3>1, <3>2 DEF Allowed, AllowedIn, Mentions, c
      <3>4. k = Plain(s, c, "binary", "Packages", p.arch)
        BY <1>3, <2>4 DEF Plain, c
      <3>5. k \in PackagesFiles(u)
        BY <1>2, <1>6, <2>6, <3>1, <3>4 DEF PackagesFiles
      <3>6. BinariesEnabled(u)
        BY <1>2, <1>6, <3>2 DEF BinariesEnabled
      <3> QED
        BY <1>2, <3>3, <3>5, <3>6
    <2>5. CASE p.name = "Sources" /\ r.source /\ p.dir = "source" /\ c \in r.components
      <3>1. parts[<<u, s, c>>].source /\ MirrorsSource(u, s)
        BY <2>3, <2>6, <2>5 DEF MirrorsSource
      <3>2. Allowed(u, s, p)
        BY <1>6, <2>6, <2>5, <3>1 DEF Allowed, AllowedIn, c
      <3>3. p.arch = "."
        BY <1>4, <2>5 DEF ArchDirs, ArchNames
      <3>4. k = Plain(s, c, "source", "Sources", ".")
        BY <1>3, <2>5, <3>3 DEF Plain, c
      <3>5. k \in SourcesFiles(u)
        BY <1>2, <1>6, <2>6, <3>1, <3>4 DEF SourcesFiles
      <3>6. SourcesEnabled(u)
        BY <1>2, <1>6, <3>1 DEF SourcesEnabled
      <3> QED
        BY <1>2, <3>2, <3>5, <3>6
    <2> QED
      BY <2>2, <2>4, <2>5
  <1> QED
    BY <1>5, <1>6
------------------------------------------------------------------------------
(* Steps of the configuration and of the parsers *)

LEMMA HousedNext ==
    ASSUME Typed, Housed, [ConfigNext]_configVars
    PROVE  Housed'
  <1>1. CASE UNCHANGED <<known, flat, suites, parts, folders, lists, asked>>
    BY <1>1 DEF Housed
  <1>2. ASSUME NEW r \in Requests, AddRepository(r)
        PROVE  Housed'
    <2>1. parts' = Parts(r) /\ suites' = Suites(r)
      BY <1>2 DEF AddRepository
    <2>2. DOMAIN parts' = DOMAIN parts \cup Places(r) /\ DOMAIN suites' = DOMAIN suites \cup Codenames(r)
      BY <2>1 DEF Parts, Suites
    <2>3. ASSUME NEW x \in Places(r)
          PROVE  <<x[1], x[2]>> \in Codenames(r)
      <3>1. x \in {r.url} \X r.suites \X r.components
        BY DEF Places
      <3> QED
        BY <3>1 DEF Codenames
    <2> QED
      BY <2>2, <2>3 DEF Housed
  <1> QED
    BY <1>1, <1>2, StepIsRequest

LEMMA ConfigurationNext ==
    ASSUME Faithful, Reaching, Housed, [ConfigNext]_configVars
    PROVE  Faithful' /\ Reaching' /\ Housed'
  <1>1. Typed
    BY DEF Faithful
  <1> QED
    BY <1>1, HousedNext, FaithfulNext, ReachingNext

(* The parsers of another repository have found nothing. *)
LEMMA ParsersChosen ==
    ASSUME Parsed, Pooled, Fresh, Choose
    PROVE  Parsed' /\ Pooled'
  <1> DEFINE J(u) == [kind |-> "sources",
                      filter |-> [f \in Filters |-> {v \in Value : <<u, f, v>> \in settings}],
                      ignored |-> {p \in Path : \E v \in Value :
                                       <<u, "ignore_errors", v>> \in settings /\ <<v, p>> \in Below}]
  <1>1. PICK u \in known : job' = J(u)
    BY DEF Choose
  <1>2. UNCHANGED <<text, block, pool, stanza, finished>>
    BY DEF Choose
  <1>3. /\ text = <<>> /\ block = EmptyBlock /\ stanza = <<>>
        /\ \A k \in Kinds : pool[k] = NoFiles /\ finished[k] = {}
    BY DEF Choose, Fresh
  <1>4. job' = [kind |-> job'.kind, filter |-> job'.filter, ignored |-> job'.ignored]
        /\ job'.kind \in Kinds
    BY <1>1 DEF Kinds
  <1>5. ParserTyped'
    BY <1>2, <1>4 DEF Parsed, ParserTyped
  <1>6. Parsed'
    BY <1>2, <1>3, <1>5, BetweenStanzas
  <1>7. DOMAIN NoFiles = {}
    BY DEF NoFiles
  <1>8. PoolIsListed'
    BY <1>2, <1>3, <1>7 DEF PoolIsListed
  <1>9. Pooled'
    BY <1>2, <1>8 DEF Pooled
  <1> QED
    BY <1>6, <1>9

LEMMA ParsersNext ==
    ASSUME Parsed, Pooled, [ParserNext]_parserVars
    PROVE  Parsed' /\ Pooled'
  BY ParsedNext, PooledNext

(* All of it but what is of the configuration and of the parsers alone. *)
Rest == Fresh /\ Choice /\ Planned /\ Gotten /\ InSkel /\ Reading /\ Stocked

LEMMA ConfigurePreserves ==
    ASSUME Rest, Configure
    PROVE  Rest'
  <1>1. /\ stage = "config" /\ UNCHANGED <<parserVars, selectionVars>>
        /\ files = NoFiles /\ fetched = NoFiles /\ DOMAIN NoFiles = {}
    BY DEF Configure, Rest, Fresh, NoFiles
  <1>2. UNCHANGED <<text, block, stanza, pool, finished, stage, chosen, upstream, files, fetched,
                    missing, skel, unparsed, parsed, installed>>
    BY <1>1 DEF parserVars, selectionVars
  <1>3. Fresh' /\ Choice'
    BY <1>1, <1>2 DEF Rest, Fresh, Choice
  <1>4. Planned' /\ Gotten'
    BY <1>1, <1>2 DEF Planned, Gotten
  <1>5. InSkel' /\ Reading'
    BY <1>1, <1>2 DEF Rest, InSkel, Reading, ParsedIsFetched
  <1>6. Stocked'
    BY <1>2, StockedSame DEF Rest, Fresh
  <1> QED
    BY <1>3, <1>4, <1>5, <1>6 DEF Rest

LEMMA ChoosePreserves ==
    ASSUME Rest, Choose
    PROVE  Rest'
  <1>1. /\ stage = "config" /\ stage' = "releases"
        /\ files = NoFiles /\ fetched = NoFiles /\ DOMAIN NoFiles = {}
        /\ missing = {} /\ parsed = {} /\ installed = {}
    BY DEF Choose, Rest, Fresh, NoFiles
  <1>2. UNCHANGED <<known, text, block, stanza, pool, finished, files, fetched, missing, unparsed,
                    parsed, installed>>
    BY DEF Choose, configVars, repositories
  <1>3. PICK x \in Upstreams : upstream' = x /\ skel' = [p \in x.left |-> "old"]
    BY DEF Choose
  <1>4. chosen' \in known
    BY DEF Choose
  <1>5. Fresh' /\ Choice'
    BY <1>1, <1>2, <1>3, <1>4 DEF Fresh, Choice
  <1>6. Planned' /\ Gotten'
    BY <1>1, <1>2 DEF Planned, Gotten
  <1>7. InSkel' /\ Reading'
    BY <1>1, <1>2, <1>3 DEF Rest, InSkel, Reading, ParsedIsFetched
  <1>8. Stocked'
    BY <1>1, <1>2, StockedSame DEF Rest, Fresh
  <1> QED
    BY <1>5, <1>6, <1>7, <1>8 DEF Rest
------------------------------------------------------------------------------
(* Release files are read *)

LEMMA FoundAgree ==
    ASSUME Choice, stage # "config", ValidReleases(chosen, Found)
    PROVE  AllAgree(Found) /\ DOMAIN Found = SuitesOf(chosen)
           /\ \A s \in SuitesOf(chosen) : s \in Suite /\ Found[s] = upstream.releases[s]
  <1>1. /\ DOMAIN Found = SuitesOf(chosen)
        /\ \A s \in SuitesOf(chosen) : s \in Suite /\ Found[s] = upstream.releases[s]
    BY DEF Found, SuitesOf
  <1>2. \A s \in DOMAIN Found : Agree(Found[s])
    BY DEF ValidReleases
  <1>3. \A s \in Suite : /\ AreReleaseFiles(upstream.releases[s])
                         /\ DOMAIN upstream.releases[s] \subseteq ReleaseFiles
    BY UpstreamIs
  <1> QED
    BY <1>1, <1>2, <1>3 DEF AllAgree

(* Whatever a line asks for and a release file lists is among the indexes. *)
LEMMA RequestedWanted ==
    ASSUME Typed, EverythingAsked, Choice, stage # "config", NEW k \in Requested
    PROVE  \E s \in SuitesOf(chosen), p \in Listed :
                /\ k = [suite |-> s, file |-> Stem(p)]
                /\ \E f \in DOMAIN upstream.releases[s] : p \in Wanted(chosen, s, upstream.releases[s][f])
                /\ \/ SourcesEnabled(chosen) /\ k \in SourcesFiles(chosen)
                   \/ BinariesEnabled(chosen) /\ k \in PackagesFiles(chosen)
  <1>1. PICK r \in asked : r.url = chosen /\ \E s \in r.suites : \E p \in ListedIn(s) :
                              Asks(r, s, p) /\ k = [suite |-> s, file |-> Stem(p)]
    BY RequestedIs
  <1>2. PICK s \in r.suites : \E p \in ListedIn(s) : Asks(r, s, p) /\ k = [suite |-> s, file |-> Stem(p)]
    BY <1>1
  <1>3. PICK p \in ListedIn(s) : Asks(r, s, p) /\ k = [suite |-> s, file |-> Stem(p)]
    BY <1>2
  <1>4. r \in Requests /\ Granted(r)
    BY DEF Typed, Collections, EverythingAsked
  <1>5. s \in Suite
    BY <1>4 DEF Requests
  <1>6. p \in Listed
    BY <1>5, ListedInIs
  <1>7. /\ s \in SuitesOf(chosen) /\ Allowed(chosen, s, p)
        /\ LET x == [suite |-> s, file |-> Stem(p)]
           IN  \/ SourcesEnabled(chosen) /\ x \in SourcesFiles(chosen)
               \/ BinariesEnabled(chosen) /\ x \in PackagesFiles(chosen)
    BY <1>1, <1>3, <1>4, <1>6, AskedIsWanted
  <1>8. PICK f \in DOMAIN upstream.releases[s], t \in HashTypes : p \in Sized(upstream.releases[s][f], t)
    BY DEF ListedIn
  <1>9. p \in Wanted(chosen, s, upstream.releases[s][f])
    BY <1>7, <1>8 DEF Wanted
  <1> QED
    BY <1>3, <1>6, <1>7, <1>9

LEMMA ReadReleasesPreserves ==
    ASSUME Typed, EverythingAsked, Housed, Rest, ReadReleases
    PROVE  Rest'
  <1>1. /\ stage = "releases" /\ stage' \in {"failed", "indexes"} /\ Choice
        /\ fetched = NoFiles /\ files = NoFiles /\ DOMAIN NoFiles = {}
        /\ missing = {} /\ parsed = {} /\ installed = {}
    BY DEF ReadReleases, Rest, Fresh, NoFiles
  <1>2. UNCHANGED <<configVars, parserVars, chosen, upstream, fetched, missing, skel, unparsed,
                    parsed, installed>>
    BY DEF ReadReleases
  <1>3. UNCHANGED <<text, block, stanza, pool, finished, known, asked>>
    BY <1>2 DEF parserVars, configVars, repositories
  <1>4. Fresh' /\ Choice'
    BY <1>1, <1>2, <1>3 DEF Fresh, Choice
  <1>5. Planned'
    <2>1. CASE ValidReleases(chosen, Found)
      <3> DEFINE I == MetadataFiles(chosen, Found)
      <3>1. files' = I
        BY <2>1 DEF ReadReleases
      <3>2. /\ AllAgree(Found) /\ DOMAIN Found = SuitesOf(chosen)
            /\ \A s \in SuitesOf(chosen) : s \in Suite /\ Found[s] = upstream.releases[s]
        BY <1>1, <2>1, FoundAgree
      <3>3. Plan(I, chosen, Found)
        BY <3>2, MetadataIndexed
      <3> HIDE DEF I
      <3>4. \A k \in DOMAIN I : k.suite \in Suite /\ IsPlanned(I[k], k, upstream.releases[k.suite])
        BY <3>2, <3>3 DEF Plan
      <3>5. ASSUME NEW k \in Requested
            PROVE  k \in DOMAIN I /\ I[k].optional = FALSE
        <4>1. PICK s \in SuitesOf(chosen), p \in Listed :
                /\ k = [suite |-> s, file |-> Stem(p)]
                /\ \E f \in DOMAIN upstream.releases[s] : p \in Wanted(chosen, s, upstream.releases[s][f])
          BY <1>1, RequestedWanted
        <4>2. PICK f \in DOMAIN Found[s] : p \in Wanted(chosen, s, Found[s][f])
          BY <3>2, <4>1
        <4> QED
          BY <3>2, <3>3, <4>1, <4>2 DEF Plan
      <3>6. Requested' = Requested
        BY <1>2, <1>3, RequestedSame
      <3> QED
        BY <1>2, <3>1, <3>4, <3>5, <3>6 DEF Planned
    <2>2. CASE ~ValidReleases(chosen, Found)
      <3>1. files' = NoFiles /\ stage' = "failed"
        BY <1>1, <2>2 DEF ReadReleases
      <3> QED
        BY <1>1, <3>1 DEF Planned
    <2> QED
      BY <2>1, <2>2
  <1>6. Gotten'
    BY <1>1, <1>2 DEF Gotten
  <1>7. InSkel' /\ Reading'
    BY <1>1, <1>2 DEF Rest, InSkel, Reading, ParsedIsFetched
  <1>8. Stocked'
    BY <1>1, <1>2, <1>3, StockedSame DEF Rest, Fresh
  <1> QED
    BY <1>4, <1>5, <1>6, <1>7, <1>8 DEF Rest
------------------------------------------------------------------------------
(* Indexes are fetched and skel is cleaned *)

LEMMA HadIs ==
    ASSUME NEW file, DOMAIN file.variants \subseteq Compressions, Had(file) # {}
    PROVE  FirstOf(file, Had(file)) \in Had(file) /\ Had(file) \subseteq DOMAIN file.variants
  <1>1. Had(file) \in SUBSET DOMAIN file.variants
    BY DEF Had
  <1> QED
    BY <1>1, FirstOfIs

LEMMA FetchIndexesPreserves ==
    ASSUME Rest, FetchIndexes
    PROVE  Rest'
  <1>1. /\ stage = "indexes" /\ stage' = "clean"
        /\ missing = {} /\ parsed = {} /\ installed = {}
    BY DEF FetchIndexes, Rest, Fresh
  <1>2. UNCHANGED <<configVars, parserVars, chosen, upstream, files, unparsed, parsed, installed>>
    BY DEF FetchIndexes
  <1>3. UNCHANGED <<text, block, stanza, pool, finished, known, asked>>
    BY <1>2 DEF parserVars, configVars, repositories
  <1>4. Fresh' /\ Choice'
    BY <1>1, <1>2, <1>3 DEF Rest, Fresh, Choice
  <1>5. Requested' = Requested
    BY <1>2, <1>3, RequestedSame
  <1>6. Planned'
    BY <1>1, <1>2, <1>5 DEF Rest, Planned
  <1> DEFINE there == {x \in DOMAIN files : Had(files[x]) # {}}
  <1>7. /\ fetched' = [k \in there |-> FirstOf(files[k], Had(files[k]))]
        /\ missing' = {k \in DOMAIN files : Lost(files[k])}
    BY DEF FetchIndexes
  <1>8. \A f : Had(f)' = Had(f)
    BY <1>2 DEF Had, Accepted
  <1>9. Gotten'
    <2>1. ASSUME NEW k \in DOMAIN fetched'
          PROVE  k \in DOMAIN files' /\ (fetched[k] \in Had(files[k]))'
      <3>1. k \in there /\ fetched'[k] = FirstOf(files[k], Had(files[k]))
        BY <1>7
      <3>2. DOMAIN files[k].variants \subseteq Compressions
        BY <3>1 DEF Rest, Planned, IsPlanned, IsIndexFile, Unverified
      <3>3. fetched'[k] \in Had(files[k])
        BY <3>1, <3>2, HadIs
      <3> QED
        BY <1>2, <1>8, <3>1, <3>3
    <2>2. ASSUME missing' = {}, NEW k \in DOMAIN files
          PROVE  k \in DOMAIN fetched' \/ files[k].ignored \/ files[k].optional
      <3>1. ~Lost(files[k])
        BY <1>7, <2>2
      <3>2. CASE Had(files[k]) # {}
        BY <1>7, <3>2
      <3>3. CASE Had(files[k]) = {}
        BY <3>1, <3>3, Zenon DEF Lost
      <3> QED
        BY <3>2, <3>3
    <2> QED
      BY <1>2, <2>1, <2>2 DEF Gotten
  <1>10. InSkel' /\ Reading'
    <2> DEFINE new == UNION {IndexPaths(k, fetched'[k]) : k \in DOMAIN fetched'}
    <2>1. skel' = [p \in DOMAIN skel \cup new |-> IF p \in new THEN "new" ELSE "old"]
      BY DEF FetchIndexes
    <2>2. FetchedPaths' = new
      BY <1>2 DEF FetchedPaths, IndexPaths
    <2> HIDE DEF new
    <2>3. InSkel'
      BY <1>1, <2>1, <2>2 DEF InSkel
    <2>4. Reading'
      BY <1>1, <1>2 DEF Rest, Reading, ParsedIsFetched
    <2> QED
      BY <2>3, <2>4
  <1>11. Stocked'
    BY <1>1, <1>2, <1>3, StockedSame DEF Rest, Fresh
  <1> QED
    BY <1>4, <1>6, <1>9, <1>10, <1>11 DEF Rest

LEMMA PlainListed ==
    ASSUME NEW s \in Suite, NEW area \in Component \cup {"."}, NEW dir \in Dirs, NEW name \in Names,
           NEW arch \in Arch \cup {"all", "."}, dir \in ArchDirs \/ name \in ArchNames \/ arch = "."
    PROVE  Plain(s, area, dir, name, arch) \in [suite : Suite, file : Listed]
  <1> DEFINE p == [area |-> area, dir |-> dir, name |-> name, arch |-> arch, suffix |-> "none"]
  <1>1. p \in Listed
    BY DEF Listed, Compressions
  <1> HIDE DEF p
  <1>2. Plain(s, area, dir, name, arch) = [suite |-> s, file |-> p]
    BY DEF Plain, p
  <1> QED
    BY <1>1, <1>2

LEMMA ParsersFilesListed ==
    ASSUME Typed, NEW u
    PROVE  SourcesFiles(u) \cup PackagesFiles(u) \subseteq [suite : Suite, file : Listed]
  <1>1. ASSUME NEW s \in SuitesOf(u)
        PROVE  s \in Suite /\ \A c \in ComponentsOf(u, s) : c \in Component /\ ArchesOf(u, s, c) \subseteq Arch
    <2>1. ASSUME NEW c \in ComponentsOf(u, s)
          PROVE  c \in Component /\ ArchesOf(u, s, c) \subseteq Arch
      <3>1. c \in Component /\ <<u, s, c>> \in DOMAIN parts
        BY DEF ComponentsOf
      <3>2. parts[<<u, s, c>>].list \in 1..Len(lists)
        BY <3>1 DEF Typed, Areas
      <3>3. lists \in Seq(SUBSET Arch)
        BY DEF Typed, Areas
      <3>4. lists[parts[<<u, s, c>>].list] \in SUBSET Arch
        BY <3>2, <3>3
      <3> QED
        BY <3>1, <3>4 DEF ArchesOf
    <2> QED
      BY <2>1 DEF SuitesOf
  <1>2. /\ {".", "source", "binary"} \subseteq Dirs /\ {"Packages", "Sources"} \subseteq Names
        /\ "binary" \in ArchDirs
    BY DEF Dirs, Names, ArchDirs
  <1>3. SourcesFiles(u) \subseteq [suite : Suite, file : Listed]
    <2>1. \A s \in SuitesOf(u) : Plain(s, ".", ".", "Sources", ".") \in [suite : Suite, file : Listed]
      BY <1>1, <1>2, PlainListed
    <2>2. \A s \in SuitesOf(u) : \A c \in ComponentsOf(u, s) :
            Plain(s, c, "source", "Sources", ".") \in [suite : Suite, file : Listed]
      BY <1>1, <1>2, PlainListed
    <2> DEFINE K(s) == {c \in ComponentsOf(u, s) : parts[<<u, s, c>>].source}
    <2>3. \A s \in SuitesOf(u) : K(s) \subseteq ComponentsOf(u, s)
      OBVIOUS
    <2>4. SourcesFiles(u) = {Plain(s, ".", ".", "Sources", ".") : s \in SuitesOf(u) \cap Flat}
                \cup UNION {{Plain(s, c, "source", "Sources", ".") : c \in K(s)} : s \in SuitesOf(u) \ Flat}
      BY DEF SourcesFiles
    <2> HIDE DEF K
    <2> QED
      BY <2>1, <2>2, <2>3, <2>4
  <1>4. PackagesFiles(u) \subseteq [suite : Suite, file : Listed]
    <2>1. \A s \in SuitesOf(u) : Plain(s, ".", ".", "Packages", ".") \in [suite : Suite, file : Listed]
      BY <1>1, <1>2, PlainListed
    <2>2. \A s \in SuitesOf(u) : \A c \in ComponentsOf(u, s) : \A a \in ArchesOf(u, s, c) \cup {"all"} :
            Plain(s, c, "binary", "Packages", a) \in [suite : Suite, file : Listed]
      <3> SUFFICES ASSUME NEW s \in SuitesOf(u), NEW c \in ComponentsOf(u, s),
                          NEW a \in ArchesOf(u, s, c) \cup {"all"}
                   PROVE  Plain(s, c, "binary", "Packages", a) \in [suite : Suite, file : Listed]
        OBVIOUS
      <3>1. s \in Suite /\ c \in Component \cup {"."} /\ a \in Arch \cup {"all", "."}
        BY <1>1
      <3> QED
        BY <1>2, <3>1, PlainListed
    <2> QED
      BY <2>1, <2>2 DEF PackagesFiles
  <1> QED
    BY <1>3, <1>4

LEMMA CleanSkelPreserves ==
    ASSUME Typed, EverythingAsked, Rest, CleanSkel
    PROVE  Rest'
  <1>1. /\ stage = "clean" /\ stage' = "parse" /\ Choice
        /\ parsed = {} /\ installed = {}
    BY DEF CleanSkel, Rest, Fresh
  <1>2. UNCHANGED <<configVars, parserVars, chosen, upstream, files, fetched, missing, parsed, installed>>
    BY DEF CleanSkel
  <1>3. UNCHANGED <<text, block, stanza, pool, finished, known, asked>>
    BY <1>2 DEF parserVars, configVars, repositories
  <1>4. Fresh' /\ Choice'
    BY <1>1, <1>2, <1>3 DEF Fresh, Choice
  <1>5. Requested' = Requested
    BY <1>2, <1>3, RequestedSame
  <1>6. Planned'
    BY <1>1, <1>2, <1>5 DEF Rest, Planned
  <1>7. Gotten'
    <2>1. \A f : Had(f)' = Had(f)
      BY <1>2 DEF Had, Accepted
    <2> QED
      BY <1>1, <1>2, <2>1 DEF Rest, Gotten
  <1>8. missing = {} => MissingSources = {}
    BY DEF MissingSources
  <1>9. InSkel'
    <2>1. skel' = [p \in DOMAIN skel \cap Kept |-> skel[p]]
      BY DEF CleanSkel
    <2>2. \A p \in FetchedPaths : p \in DOMAIN skel /\ skel[p] = "new"
      BY <1>1 DEF Rest, InSkel
    <2>3. Kept \subseteq FetchedPaths /\ (missing = {} => Kept = FetchedPaths)
      BY <1>8 DEF Kept
    <2>4. \A p \in DOMAIN skel' : skel'[p] = "new"
      BY <2>1, <2>2, <2>3
    <2>5. ASSUME NEW k \in DOMAIN fetched
          PROVE  files[k].variants[fetched[k]].path \in FetchedPaths
      BY DEF FetchedPaths, IndexPaths, AllPaths
    <2>6. ASSUME missing = {}, NEW k \in DOMAIN fetched
          PROVE  files[k].variants[fetched[k]].path \in DOMAIN skel'
      BY <2>1, <2>2, <2>3, <2>5, <2>6
    <2> QED
      BY <1>1, <1>2, <2>4, <2>6 DEF InSkel
  <1>10. Reading'
    <2> DEFINE sources == IF SourcesEnabled(chosen) THEN SourcesFiles(chosen) \ MissingSources ELSE {}
               packages == IF BinariesEnabled(chosen) THEN PackagesFiles(chosen) \ MissingSources ELSE {}
    <2>1. unparsed' = [sources |-> sources, packages |-> packages]
      BY DEF CleanSkel
    <2>2. sources \cup packages \subseteq [suite : Suite, file : Listed]
      BY ParsersFilesListed
    <2>3. ASSUME missing = {}, NEW k \in Requested
          PROVE  k \in sources \cup packages
      <3>1. \/ SourcesEnabled(chosen) /\ k \in SourcesFiles(chosen)
            \/ BinariesEnabled(chosen) /\ k \in PackagesFiles(chosen)
        BY <1>1, RequestedWanted
      <3> QED
        BY <1>8, <2>3, <3>1
    <2> HIDE DEF sources, packages
    <2>4. ParsedIsFetched'
      BY <1>1, <1>2 DEF ParsedIsFetched
    <2>5. unparsed'.sources \cup unparsed'.packages = sources \cup packages
      BY <2>1
    <2> QED
      BY <1>1, <1>2, <1>5, <2>1, <2>2, <2>3, <2>4, <2>5 DEF Reading
  <1>11. Stocked'
    BY <1>1, <1>2, <1>3, StockedSame DEF Rest, Fresh
  <1> QED
    BY <1>4, <1>6, <1>7, <1>9, <1>10, <1>11 DEF Rest
------------------------------------------------------------------------------
(* Indexes are parsed *)

LEMMA UnpackedIs ==
    ASSUME stage = "parse", InSkel, NEW k \in [suite : Suite, file : Listed]
    PROVE  \/ /\ Unpacked(k) = "none"
              /\ \A c \in Compressions : [suite |-> k.suite, file |-> In(k.file, c)] \notin DOMAIN skel
           \/ Unpacked(k) = "new"
  <1> DEFINE with(c) == [k EXCEPT !.file.suffix = c]
             there == {c \in Compressions : with(c) \in DOMAIN skel}
             first == CHOOSE c \in there : \A d \in there : Rank[c] <= Rank[d]
  <1>1. Unpacked(k) = IF there = {} THEN "none" ELSE skel[with(first)]
    BY DEF Unpacked
  <1>2. \A c : with(c) = [suite |-> k.suite, file |-> In(k.file, c)]
    <2>1. k = [suite |-> k.suite, file |-> k.file]
      OBVIOUS
    <2> QED
      BY <2>1 DEF In
  <1>3. there \in SUBSET Compressions
    OBVIOUS
  <1>4. there # {} => first \in there
    BY <1>3, FirstThere
  <1>5. \A p \in DOMAIN skel : skel[p] = "new"
    BY DEF InSkel
  <1>6. \A c \in there : with(c) \in DOMAIN skel
    OBVIOUS
  <1>7. there = {} => \A c \in Compressions : with(c) \notin DOMAIN skel
    OBVIOUS
  <1> HIDE DEF with, there, first
  <1> QED
    BY <1>1, <1>2, <1>4, <1>5, <1>6, <1>7

LEMMA ParseIndexPreserves ==
    ASSUME Rest, ParseIndex
    PROVE  Rest'
  <1>1. stage = "parse" /\ UNCHANGED <<configVars, stage, chosen, upstream, files, fetched, missing, installed>>
    BY DEF ParseIndex
  <1>2. PICK k \in unparsed[Turn] :
            /\ unparsed' = [unparsed EXCEPT ![Turn] = @ \ {k}]
            /\ IF Unpacked(k) = "none"
               THEN UNCHANGED <<skel, parsed, parserVars>> /\ text = <<>>
               ELSE /\ OpenIndex(Turn, IF Unpacked(k) = "new" THEN Text(k) ELSE <<>>)
                    /\ parsed' = parsed \cup {<<k, Unpacked(k)>>}
                    /\ skel' = [p \in DOMAIN skel \cup {k} |-> IF p = k THEN Unpacked(k) ELSE skel[p]]
    BY DEF ParseIndex
  <1>3. Turn \in {"sources", "packages"}
    BY DEF Turn
  <1>4. /\ unparsed = [sources |-> unparsed.sources, packages |-> unparsed.packages]
        /\ unparsed.sources \cup unparsed.packages \subseteq [suite : Suite, file : Listed]
    BY DEF Rest, Reading
  <1> DEFINE todo == unparsed.sources \cup unparsed.packages
  <1>5. /\ unparsed' = [sources |-> unparsed'.sources, packages |-> unparsed'.packages]
        /\ k \in todo
        /\ unparsed'.sources \cup unparsed'.packages \subseteq todo
        /\ \A x \in todo : x # k => x \in unparsed'.sources \cup unparsed'.packages
    <2>1. CASE Turn = "sources"
      <3>1. unparsed' = [sources |-> unparsed.sources \ {k}, packages |-> unparsed.packages]
            /\ k \in unparsed.sources
        BY <1>2, <1>4, <2>1
      <3> QED
        BY <3>1
    <2>2. CASE Turn = "packages"
      <3>1. unparsed' = [sources |-> unparsed.sources, packages |-> unparsed.packages \ {k}]
            /\ k \in unparsed.packages
        BY <1>2, <1>4, <2>2
      <3> QED
        BY <3>1
    <2> QED
      BY <1>3, <2>1, <2>2
  <1>6. k \in [suite : Suite, file : Listed]
    BY <1>4, <1>5
  <1>7. \/ /\ Unpacked(k) = "none"
           /\ \A c \in Compressions : [suite |-> k.suite, file |-> In(k.file, c)] \notin DOMAIN skel
        \/ Unpacked(k) = "new"
    BY <1>1, <1>6, UnpackedIs DEF Rest
  <1>8. \/ /\ UNCHANGED <<skel, parsed>>
           /\ \A c \in Compressions : [suite |-> k.suite, file |-> In(k.file, c)] \notin DOMAIN skel
        \/ /\ parsed' = parsed \cup {<<k, "new">>}
           /\ skel' = [p \in DOMAIN skel \cup {k} |-> IF p = k THEN "new" ELSE skel[p]]
    BY <1>2, <1>7
  <1>9. UNCHANGED <<block, stanza, pool, finished>>
    <2>1. CASE Unpacked(k) = "none"
      BY <1>2, <2>1 DEF parserVars
    <2>2. CASE Unpacked(k) # "none"
      BY <1>2, <2>2 DEF OpenIndex
    <2> QED
      BY <2>1, <2>2
  <1>10. UNCHANGED <<known, asked>>
    BY <1>1 DEF configVars, repositories
  <1>11. Requested' = Requested
    BY <1>1, <1>10, RequestedSame
  <1>12. Fresh' /\ Choice'
    BY <1>1, <1>10 DEF Rest, Fresh, Choice
  <1>13. Planned'
    BY <1>1, <1>11 DEF Rest, Planned
  <1>14. Gotten'
    <2>1. \A f : Had(f)' = Had(f)
      BY <1>1 DEF Had, Accepted
    <2> QED
      BY <1>1, <2>1 DEF Rest, Gotten
  <1>15. InSkel'
    <2>1. DOMAIN skel \subseteq DOMAIN skel' /\ \A p \in DOMAIN skel' : skel'[p] = "new"
      BY <1>1, <1>8 DEF Rest, InSkel
    <2> QED
      BY <1>1, <2>1 DEF Rest, InSkel
  <1>16. Reading'
    <2>1. ParsedIsFetched'
      BY <1>8 DEF Rest, Reading, ParsedIsFetched
    <2>2. ASSUME missing = {}, NEW x \in Requested, x \in DOMAIN fetched
          PROVE  x \in unparsed'.sources \cup unparsed'.packages \/ <<x, "new">> \in parsed'
      <3>1. x \in todo \/ <<x, "new">> \in parsed
        BY <1>1, <2>2 DEF Rest, Reading
      <3>2. CASE <<x, "new">> \in parsed
        BY <1>8, <3>2
      <3>3. CASE x \in todo /\ x # k
        BY <1>5, <3>3
      <3>4. CASE x = k
        <4>1. /\ fetched[k] \in Had(files[k]) /\ k \in DOMAIN files
              /\ files[k].variants[fetched[k]].path \in DOMAIN skel
          BY <1>1, <2>2, <3>4 DEF Rest, Gotten, InSkel
        <4>2. fetched[k] \in DOMAIN files[k].variants
          BY <4>1 DEF Had
        <4>3. IsIndexFile(files[k], k.suite, k.file)
          BY <1>1, <2>2, <3>4, <4>1 DEF Rest, Planned, IsPlanned
        <4>4. /\ fetched[k] \in Compressions
              /\ files[k].variants[fetched[k]].path = [suite |-> k.suite, file |-> In(k.file, fetched[k])]
          BY <4>2, <4>3 DEF IsIndexFile
        <4> QED
          BY <1>8, <3>4, <4>1, <4>4
      <3> QED
        BY <3>1, <3>2, <3>3, <3>4
    <2> QED
      BY <1>1, <1>4, <1>5, <1>11, <2>1, <2>2 DEF Reading
  <1>17. Stocked'
    BY <1>1, <1>9, StockedSame DEF Rest
  <1> QED
    BY <1>12, <1>13, <1>14, <1>15, <1>16, <1>17 DEF Rest

LEMMA FileOfIs ==
    ASSUME NEW path, NEW size, NEW hashes
    PROVE  FileOf(path, size, hashes).path = path
  <1> DEFINE c == CompressionOf[path.name]
             new == NewFile(path, c)
             file == IF hashes = {} THEN new ELSE AddVariant(new, c, path, size, hashes, FALSE)
  <1>1. new = [path |-> new.path, ignored |-> new.ignored, optional |-> new.optional,
               variants |-> new.variants] /\ new.path = path
    BY DEF NewFile
  <1>2. file = [path |-> file.path, ignored |-> file.ignored, optional |-> file.optional,
                variants |-> file.variants] /\ file.path = path
    BY <1>1 DEF AddVariant
  <1>3. FileOf(path, size, hashes) = [file EXCEPT !.ignored = path \in job.ignored]
    BY DEF FileOf
  <1> HIDE DEF file
  <1> QED
    BY <1>2, <1>3

LEMMA FoundIs ==
    ASSUME ParserTyped
    PROVE  LET found == IF job.kind = "packages" THEN PackagesFound(Closed) ELSE SourcesFound(block)
           IN  \A p \in DOMAIN found :
                    p \in Path /\ \E size, hashes : found[p] = FileOf(p, size, hashes)
  <1>1. block \in Blocks /\ Closed \in Blocks
    BY ClosedBlock DEF ParserTyped
  <1>2. ASSUME NEW b \in Blocks, NEW p \in DOMAIN PackagesFound(b)
        PROVE  p \in Path /\ \E size, hashes : PackagesFound(b)[p] = FileOf(p, size, hashes)
    <2>1. PackagesFound(b) = [x \in b.path |-> FileOf(x, b.size, b.hashes)] \/ PackagesFound(b) = NoFiles
      BY DEF PackagesFound
    <2>2. DOMAIN NoFiles = {}
      BY DEF NoFiles
    <2>3. p \in b.path /\ PackagesFound(b)[p] = FileOf(p, b.size, b.hashes)
      BY <2>1, <2>2
    <2>4. b.path \subseteq Path
      BY DEF Blocks
    <2> QED
      BY <2>3, <2>4
  <1>3. ASSUME NEW b \in Blocks, NEW p \in DOMAIN SourcesFound(b)
        PROVE  p \in Path /\ \E size, hashes : SourcesFound(b)[p] = FileOf(p, size, hashes)
    <2> DEFINE all == [directory : b.directory, name : DOMAIN b.files]
    <2>1. \/ SourcesFound(b) = [x \in all |-> FileOf(x, b.files[x.name].size, b.files[x.name].hashes)]
          \/ SourcesFound(b) = NoFiles
      BY DEF SourcesFound
    <2>2. DOMAIN NoFiles = {}
      BY DEF NoFiles
    <2>3. p \in all /\ SourcesFound(b)[p] = FileOf(p, b.files[p.name].size, b.files[p.name].hashes)
      BY <2>1, <2>2
    <2>4. b.directory \subseteq Directory /\ DOMAIN b.files \subseteq Name
      BY DEF Blocks, Files
    <2>5. p \in Path
      BY <2>3, <2>4 DEF Path
    <2> QED
      BY <2>3, <2>5
  <1> QED
    BY <1>1, <1>2, <1>3

LEMMA ParseLinePreserves ==
    ASSUME Rest, Parsed, Pooled, ParseLine
    PROVE  Rest'
  <1>1. stage = "parse" /\ ReadText /\ UNCHANGED <<configVars, selectionVars>>
    BY DEF ParseLine
  <1>2. UNCHANGED <<stage, chosen, upstream, files, fetched, missing, skel, unparsed, parsed, installed,
                    known, asked>>
    BY <1>1 DEF selectionVars, configVars, repositories
  <1>3. Requested' = Requested
    BY <1>2, RequestedSame
  <1>4. Fresh' /\ Choice'
    BY <1>1, <1>2 DEF Rest, Fresh, Choice
  <1>5. Planned'
    BY <1>2, <1>3 DEF Rest, Planned
  <1>6. Gotten'
    <2>1. \A f : Had(f)' = Had(f)
      BY <1>2 DEF Had, Accepted
    <2> QED
      BY <1>2, <2>1 DEF Rest, Gotten
  <1>7. InSkel' /\ Reading'
    BY <1>1, <1>2, <1>3 DEF Rest, InSkel, Reading, ParsedIsFetched
  <1>8. InPool'
    <2>1. CASE pool' = pool
      BY <2>1 DEF Rest, Stocked, InPool
    <2>2. CASE EndStanza
      <3> DEFINE found == IF job.kind = "packages" THEN PackagesFound(Closed) ELSE SourcesFound(block)
                 K == job.kind
                 merged == [p \in DOMAIN pool[K] \cup DOMAIN found |->
                                IF p \in DOMAIN found THEN found[p] ELSE pool[K][p]]
      <3>1. pool' = [pool EXCEPT ![K] = merged]
        BY <2>2 DEF EndStanza
      <3>2. \A p \in DOMAIN found : p \in Path /\ \E size, hashes : found[p] = FileOf(p, size, hashes)
        BY FoundIs DEF Parsed
      <3> HIDE DEF found
      <3>3. \A p \in DOMAIN found : p \in Path /\ found[p].path = p
        BY <3>2, FileOfIs
      <3>4. \A k \in Kinds : \A p \in DOMAIN pool[k] : p \in Path /\ pool[k][p].path = p
        BY DEF Rest, Stocked, InPool
      <3>5. K \in Kinds /\ pool = [k \in Kinds |-> pool[k]]
        BY DEF Parsed, ParserTyped, Pooled
      <3>6. \A p \in DOMAIN merged : p \in Path /\ merged[p].path = p
        BY <3>3, <3>4, <3>5
      <3> HIDE DEF merged
      <3>7. \A k \in Kinds : pool'[k] = IF k = K THEN merged ELSE pool[k]
        BY <3>1, <3>5
      <3> QED
        BY <3>4, <3>6, <3>7 DEF InPool
    <2> QED
      BY <1>1, <2>1, <2>2 DEF ReadText, ReadField, ReadFilename, ReadSize, ReadHash, ReadTags, ReadMore,
         ReadUnused, ReadSourceField, ReadDirectory, ReadFilesHeader, ReadOtherField, ReadFile,
         ReadNoFile, Read
  <1>9. Stocked'
    BY <1>1, <1>2, <1>8 DEF Rest, Fresh, Stocked
  <1> QED
    BY <1>4, <1>5, <1>6, <1>7, <1>9 DEF Rest
------------------------------------------------------------------------------
(* The pool is fetched *)

LEMMA FetchPoolPreserves ==
    ASSUME Rest, FetchPool
    PROVE  Rest'
  <1>1. /\ stage = "parse" /\ stage' = "done"
        /\ unparsed.sources = {} /\ unparsed.packages = {}
        /\ UNCHANGED <<configVars, parserVars, chosen, upstream, files, fetched, skel, unparsed, parsed>>
    BY DEF FetchPool
  <1>2. UNCHANGED <<text, block, stanza, pool, finished, known, asked>>
    BY <1>1 DEF parserVars, configVars, repositories
  <1>3. missing \subseteq missing'
    BY DEF FetchPool
  <1>4. Requested' = Requested
    BY <1>1, <1>2, RequestedSame
  <1>5. Fresh' /\ Choice'
    BY <1>1, <1>2 DEF Rest, Fresh, Choice
  <1>6. Planned'
    BY <1>1, <1>4 DEF Rest, Planned
  <1>7. Gotten'
    <2>1. \A f : Had(f)' = Had(f)
      BY <1>1 DEF Had, Accepted
    <2>2. missing' = {} => missing = {}
      BY <1>3
    <2> QED
      BY <1>1, <2>1, <2>2 DEF Rest, Gotten
  <1>8. InSkel'
    BY <1>1 DEF Rest, InSkel
  <1>9. Reading'
    <2>1. missing' = {} => missing = {}
      BY <1>3
    <2>2. ParsedIsFetched'
      BY <1>1 DEF Rest, Reading, ParsedIsFetched
    <2>3. missing = {} => \A k \in Requested : k \in DOMAIN fetched => <<k, "new">> \in parsed
      BY <1>1 DEF Rest, Reading
    <2>4. /\ unparsed = [sources |-> unparsed.sources, packages |-> unparsed.packages]
          /\ unparsed.sources \cup unparsed.packages \subseteq [suite : Suite, file : Listed]
      BY DEF Rest, Reading
    <2> QED
      BY <1>1, <1>4, <2>1, <2>2, <2>3, <2>4 DEF Reading
  <1>10. Stocked'
    <2>1. /\ installed' = {<<f, FirstOf(f, Had(f))>> : f \in {g \in Pool : Had(g) # {}}}
          /\ Pool' = Pool /\ \A f : Had(f)' = Had(f)
      BY <1>1, <1>2 DEF FetchPool, Pool, Had, Accepted
    <2>2. InPool'
      BY <1>2 DEF Rest, Stocked, InPool
    <2> QED
      BY <2>1, <2>2 DEF Stocked
  <1> QED
    BY <1>5, <1>6, <1>7, <1>8, <1>9, <1>10 DEF Rest
------------------------------------------------------------------------------
(* The theorems *)

(* Of the configuration, of the parsers, and of what connects them. *)
Invariant ==
    /\ Faithful /\ Reaching /\ Housed
    /\ Parsed /\ Pooled
    /\ Rest

LEMMA InvariantInit == Init => Invariant
  <1> SUFFICES ASSUME Init PROVE Invariant
    OBVIOUS
  <1>1. Faithful /\ Reaching
    BY FaithfulInit, ReachingInit DEF Init
  <1>2. Housed
    BY DEF Init, ConfigInit, Housed
  <1>3. Parsed /\ Pooled
    <2>1. job = [kind |-> "sources", filter |-> [f \in Filters |-> {}], ignored |-> {}]
      BY DEF Init
    <2>2. job = [kind |-> "sources", filter |-> job.filter, ignored |-> job.ignored]
      BY <2>1
    <2>3. ParserInit
      BY <2>2 DEF Init, ParserInit
    <2> QED
      BY <2>3, InitParsed, InitPooled
  <1>4. DOMAIN NoFiles = {}
    BY DEF NoFiles
  <1>5. Fresh /\ Choice
    BY DEF Init, Fresh, Choice
  <1>6. Planned /\ Gotten
    BY <1>4 DEF Init, Planned, Gotten
  <1>7. InSkel /\ Reading
    BY <1>4 DEF Init, InSkel, Reading, ParsedIsFetched
  <1>8. Stocked
    BY <1>4 DEF Init, Stocked, InPool
  <1> QED
    BY <1>1, <1>2, <1>3, <1>5, <1>6, <1>7, <1>8 DEF Invariant, Rest

(* All but Choose and Configure leave the configuration, and the parsers go on as they do
   alone. *)
LEMMA MirrorSteps ==
    ASSUME Invariant, Mirror
    PROVE  UNCHANGED configVars /\ (Choose \/ [ParserNext]_parserVars)
  <1>1. CASE ParseIndex
    <2>1. stage # "config" /\ Choice
      BY <1>1 DEF ParseIndex, Invariant, Rest
    <2>2. PICK k \in unparsed[Turn] :
            IF Unpacked(k) = "none" THEN UNCHANGED parserVars
            ELSE OpenIndex(Turn, IF Unpacked(k) = "new" THEN Text(k) ELSE <<>>)
      BY <1>1 DEF ParseIndex
    <2>3. Text(k) \in Seq(TextLines) /\ <<>> \in Seq(TextLines) /\ Turn \in Kinds
      BY <2>1, UpstreamIs DEF Turn, Kinds
    <2> QED
      BY <1>1, <2>2, <2>3 DEF ParseIndex, ParserNext
  <1>2. CASE ParseLine
    BY <1>2 DEF ParseLine, ParserNext
  <1> QED
    BY <1>1, <1>2 DEF Mirror, Choose, ReadReleases, FetchIndexes, CleanSkel, FetchPool

LEMMA InvariantNext == Invariant /\ [Next]_vars => Invariant'
  <1> SUFFICES ASSUME Invariant, [Next]_vars PROVE Invariant'
    OBVIOUS
  <1>1. Faithful /\ Reaching /\ Housed /\ Parsed /\ Pooled /\ Rest /\ Typed /\ EverythingAsked
    BY DEF Invariant, Faithful
  <1>2. CASE Configure
    <2>1. ConfigNext /\ UNCHANGED parserVars
      BY <1>2 DEF Configure
    <2> QED
      BY <1>1, <1>2, <2>1, ConfigurationNext, ParsersNext, ConfigurePreserves DEF Invariant
  <1>3. CASE Mirror
    <2>1. UNCHANGED configVars /\ (Choose \/ [ParserNext]_parserVars)
      BY <1>3, MirrorSteps
    <2>2. Faithful' /\ Reaching' /\ Housed'
      BY <1>1, <2>1, ConfigurationNext
    <2>3. Parsed' /\ Pooled'
      BY <1>1, <2>1, ParsersNext, ParsersChosen DEF Rest
    <2>4. Rest'
      BY <1>1, <1>3, ChoosePreserves, ReadReleasesPreserves, FetchIndexesPreserves, CleanSkelPreserves,
         ParseIndexPreserves, ParseLinePreserves, FetchPoolPreserves DEF Mirror
    <2> QED
      BY <2>2, <2>3, <2>4 DEF Invariant
  <1>4. CASE UNCHANGED vars
    <2>1. UNCHANGED <<configVars, parserVars, selectionVars>>
      BY <1>4 DEF vars
    <2>2. Faithful' /\ Reaching' /\ Housed' /\ Parsed' /\ Pooled'
      BY <1>1, <2>1, ConfigurationNext, ParsersNext
    <2>3. Rest'
      <3>1. UNCHANGED <<text, block, stanza, pool, finished, known, asked, stage, chosen, upstream,
                        files, fetched, missing, skel, unparsed, parsed, installed>>
        BY <2>1 DEF configVars, repositories, parserVars, selectionVars
      <3>2. Requested' = Requested /\ FetchedPaths' = FetchedPaths /\ \A f : Had(f)' = Had(f)
        BY <3>1, RequestedSame DEF FetchedPaths, IndexPaths, Had, Accepted
      <3>3. Fresh' /\ Choice'
        BY <1>1, <3>1 DEF Rest, Fresh, Choice
      <3>4. Planned' /\ Gotten'
        BY <1>1, <3>1, <3>2 DEF Rest, Planned, Gotten
      <3>5. InSkel' /\ Reading'
        BY <1>1, <3>1, <3>2 DEF Rest, InSkel, Reading, ParsedIsFetched
      <3>6. Stocked'
        BY <1>1, <3>1, StockedSame DEF Rest
      <3> QED
        BY <3>3, <3>4, <3>5, <3>6 DEF Rest
    <2> QED
      BY <2>2, <2>3 DEF Invariant
  <1> QED
    BY <1>2, <1>3, <1>4 DEF Next

LEMMA AlwaysInvariant == Spec => []Invariant
  BY InvariantInit, InvariantNext, PTL DEF Spec

(* The state of the program has the form the modules describe, whatever the configuration and
   the server have. *)
THEOREM SelectionTypeCorrect == Spec => []TypeOK
  <1>1. Invariant => TypeOK
    <2> SUFFICES ASSUME Invariant PROVE TypeOK
      OBVIOUS
    <2>1. ConfigTypeOK
      BY TypedIsTypeOK DEF Invariant, Faithful
    <2>2. /\ stage \in {"config", "releases", "indexes", "clean", "parse", "done", "failed"}
          /\ chosen \in known \cup {None}
          /\ stage # "config" => upstream \in Upstreams
      BY DEF Invariant, Rest, Choice, Fresh
    <2>3. /\ DOMAIN fetched \subseteq DOMAIN files
          /\ \A k \in DOMAIN fetched : fetched[k] \in DOMAIN files[k].variants
      BY DEF Invariant, Rest, Gotten, Had
    <2>4. \A p \in DOMAIN skel : skel[p] \in {"new", "old"}
      BY DEF Invariant, Rest, InSkel
    <2>5. unparsed.sources \cup unparsed.packages \subseteq [suite : Suite, file : Listed]
      BY DEF Invariant, Rest, Reading
    <2>6. \A k \in Kinds : DOMAIN pool[k] \subseteq Path
      BY DEF Invariant, Rest, Stocked, InPool
    <2> QED
      BY <2>1, <2>2, <2>3, <2>4, <2>5, <2>6 DEF TypeOK
  <1> QED
    BY <1>1, AlwaysInvariant, PTL

(* What any line of the configuration asks for is parsed in the form of this run, over every
   rule between the line and the parser: defaults, merged repositories, the filter of release
   files, variants, cleaning, and the parsers' own lists of what they read. *)
THEOREM WhatIsAskedIsParsed == Spec => []AskedIsParsed
  <1>1. Invariant => AskedIsParsed
    <2> SUFFICES ASSUME Invariant, stage = "done", missing = {},
                        NEW r \in asked, r.url = chosen, NEW s \in r.suites, NEW p \in ListedIn(s),
                        IF s \in Flat THEN AskedInFlat(r, p) ELSE AskedFor(r, p),
                        NEW k, k = [suite |-> s, file |-> Stem(p)]
                 PROVE  <<k, "new">> \in parsed \/ (k \in DOMAIN files /\ files[k].ignored)
      BY DEF AskedIsParsed
    <2>1. k \in Requested
      BY RequestedIs DEF Asks
    <2>2. k \in DOMAIN files /\ files[k].optional = FALSE
      BY <2>1 DEF Invariant, Rest, Planned
    <2>3. k \in DOMAIN fetched \/ files[k].ignored \/ files[k].optional
      BY <2>2 DEF Invariant, Rest, Gotten
    <2>4. k \in DOMAIN fetched => <<k, "new">> \in parsed
      BY <2>1 DEF Invariant, Rest, Reading
    <2> QED
      BY <2>2, <2>3, <2>4
  <1> QED
    BY <1>1, AlwaysInvariant, PTL

(* No index that an earlier run left in skel is parsed: clean_repository_skel leaves only what
   was fetched, and _unpack_index unpacks one of these. *)
THEOREM OnlyFetchedIsParsed == Spec => []ParsedIsFetched
  <1>1. Invariant => ParsedIsFetched
    BY DEF Invariant, Rest, Reading
  <1> QED
    BY <1>1, AlwaysInvariant, PTL

(* An index has the size and the digests of every release file that lists it, since they agree. *)
THEOREM VariantsAlwaysListed == Spec => []VariantsAreListed
  <1>1. Invariant => VariantsAreListed
    <2> SUFFICES ASSUME Invariant, NEW k \in DOMAIN files, NEW c \in DOMAIN files[k].variants,
                        NEW f \in DOMAIN upstream.releases[k.suite], NEW t \in HashTypes,
                        files[k].variants[c].hashes # {},
                        files[k].variants[c].path.file \in Sized(upstream.releases[k.suite][f], t)
                 PROVE  LET v == files[k].variants[c]
                            r == upstream.releases[k.suite][f]
                        IN  /\ v.size = r.listing[t][v.path.file].size
                            /\ <<t, r.listing[t][v.path.file].digest>> \in v.hashes
      BY DEF VariantsAreListed
    <2>1. /\ IsIndexFile(files[k], k.suite, k.file)
          /\ Covers(files[k], k.file, upstream.releases[k.suite], DOMAIN upstream.releases[k.suite])
      BY DEF Invariant, Rest, Planned, IsPlanned, Unverified
    <2>2. c \in Compressions /\ files[k].variants[c].path = [suite |-> k.suite, file |-> In(k.file, c)]
      BY <2>1 DEF IsIndexFile
    <2>3. files[k].variants[c].path.file = In(k.file, c)
      BY <2>2
    <2> QED
      BY <2>1, <2>2, <2>3 DEF Covers
  <1> QED
    BY <1>1, AlwaysInvariant, PTL

(* Nothing is kept with another content than is listed with hashes: an index that is listed
   without compression has them in its plain variant, and a file of the pool has one variant,
   that of its name, with all that its stanza gives. *)
THEOREM KeptAlwaysVerified == Spec => []KeptIsVerified
  <1>1. ASSUME Invariant, NEW k \in DOMAIN fetched, k.file \in ListedIn(k.suite), ~files[k].optional
        PROVE  files[k].variants[fetched[k]].path \notin upstream.bad
    <2>1. /\ k \in DOMAIN files /\ fetched[k] \in Had(files[k])
      BY <1>1 DEF Invariant, Rest, Gotten
    <2>2. fetched[k] \in DOMAIN files[k].variants /\ Accepted(files[k].variants[fetched[k]])
      BY <2>1 DEF Had
    <2>3. /\ IsIndexFile(files[k], k.suite, k.file)
          /\ Covers(files[k], k.file, upstream.releases[k.suite], DOMAIN upstream.releases[k.suite])
          /\ k.file \in Listed /\ Stem(k.file) = k.file
      BY <1>1, <2>1 DEF Invariant, Rest, Planned, IsPlanned
    <2>4. files[k].variants[fetched[k]].hashes # {}
      <3>1. CASE fetched[k] # "none"
        BY <2>2, <2>3, <3>1 DEF IsIndexFile
      <3>2. CASE fetched[k] = "none"
        <4>1. PICK f \in DOMAIN upstream.releases[k.suite], t \in HashTypes :
                k.file \in Sized(upstream.releases[k.suite][f], t)
          BY <1>1 DEF ListedIn
        <4>2. In(k.file, "none") = k.file /\ "none" \in Compressions
          BY <2>3 DEF In, Stem, Compressions
        <4>3. In(k.file, "none") \in Sized(upstream.releases[k.suite][f], t)
          BY <4>1, <4>2
        <4>4. <<t, upstream.releases[k.suite][f].listing[t][In(k.file, "none")].digest>>
                    \in files[k].variants["none"].hashes
          BY <2>3, <4>2, <4>3 DEF Covers
        <4> QED
          BY <3>2, <4>4
      <3> QED
        BY <3>1, <3>2
    <2> QED
      BY <2>2, <2>4 DEF Accepted
  <1>2. ASSUME Invariant, NEW x \in installed, x[1].variants[x[2]].path \in upstream.bad
        PROVE  \E kind \in Kinds : \E lines \in finished[kind] :
                  IsListed(x[1], kind, lines, x[1].path) /\ SumsIn(kind, lines, x[1].path) = {}
    <2>1. installed \subseteq {<<f, FirstOf(f, Had(f))>> : f \in {g \in Pool : Had(g) # {}}}
      BY <1>2 DEF Invariant, Rest, Stocked
    <2>2. PICK f \in Pool : Had(f) # {} /\ x = <<f, FirstOf(f, Had(f))>>
      <3>1. x \in {<<f, FirstOf(f, Had(f))>> : f \in {g \in Pool : Had(g) # {}}}
        BY <2>1
      <3>2. PICK f \in {g \in Pool : Had(g) # {}} : x = <<f, FirstOf(f, Had(f))>>
        BY <3>1
      <3> QED
        BY <3>2
    <2>3. PICK kind \in Kinds : \E p \in DOMAIN pool[kind] : f = pool[kind][p]
      BY DEF Pool
    <2>4. PICK p \in DOMAIN pool[kind] : f = pool[kind][p]
      BY <2>3
    <2>5. p \in Path /\ f.path = p
      BY <1>2, <2>4 DEF Invariant, Rest, Stocked, InPool
    <2>6. PICK lines \in finished[kind] : IsListed(f, kind, lines, p)
      BY <1>2, <2>4 DEF Invariant, Pooled, PoolIsListed
    <2>7. DOMAIN f.variants \subseteq Compressions
          /\ \A c \in DOMAIN f.variants : f.variants[c].hashes = SumsIn(kind, lines, p)
      BY <2>5, <2>6, CompressionAssumption DEF IsListed, Path
    <2>8. x[1] = f /\ x[2] \in DOMAIN f.variants /\ Accepted(f.variants[x[2]])
      <3>1. FirstOf(f, Had(f)) \in Had(f) /\ Had(f) \subseteq DOMAIN f.variants
        BY <2>2, <2>7, HadIs
      <3> QED
        BY <2>2, <3>1 DEF Had
    <2>9. f.variants[x[2]].hashes = {}
      BY <1>2, <2>8 DEF Accepted
    <2> QED
      BY <2>5, <2>6, <2>7, <2>8, <2>9
  <1>3. Invariant => KeptIsVerified
    BY <1>1, <1>2 DEF KeptIsVerified
  <1> QED
    BY <1>3, AlwaysInvariant, PTL

(* What holds of the configuration and of the parsers alone holds of the whole. *)
THEOREM PartsHold == Spec => [](EverythingAsked /\ NothingForeign /\ SettingsReach /\ BlockIsStanza /\ PoolIsListed)
  <1>1. Invariant => EverythingAsked /\ NothingForeign /\ SettingsReach /\ BlockIsStanza /\ PoolIsListed
    BY DEF Invariant, Faithful, Reaching, Parsed, Pooled
  <1> QED
    BY <1>1, AlwaysInvariant, PTL
=============================================================================
