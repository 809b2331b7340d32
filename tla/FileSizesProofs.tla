--------------------------- MODULE FileSizesProofs ---------------------------
(***************************************************************************)
(* Lemmas about FileSizes: the total size of finitely many files is a      *)
(* number, adds up over disjoint sets, and grows with the set.             *)
(***************************************************************************)
EXTENDS FileSizes, TLAPS, FunctionTheorems, FiniteSetTheorems

LEMMA OneAndMany ==
    ASSUME NEW f, NEW n \in Nat
    PROVE  /\ IsFiniteSet({f}) /\ Cardinality({f}) = 1
           /\ IsFiniteSet(1..n) /\ Cardinality(1..n) = n
<1>1. IsFiniteSet({f}) /\ Cardinality({f}) = 1
  BY FS_Singleton
<1>2. 1 \in Int /\ n \in Int
  OBVIOUS
<1>3. IsFiniteSet(1..n) /\ Cardinality(1..n) = IF 1 > n THEN 0 ELSE n - 1 + 1
  BY <1>2, FS_Interval, Zenon
<1> QED
  BY <1>1, <1>3

LEMMA UnitsFinite ==
    ASSUME NEW files, IsFiniteSet(files), NEW size, \A f \in files : size[f] \in Nat
    PROVE  IsFiniteSet(Units(files, size))
<1> DEFINE of(f) == {f} \X (1..size[f])
           parts == {of(f) : f \in files}
           g == [f \in files |-> of(f)]
<1>1. g \in Surjection(files, parts)
  BY DEF Surjection
<1>2. IsFiniteSet(parts)
  BY <1>1, FS_Surjection
<1>3. ASSUME NEW f \in files PROVE IsFiniteSet(of(f))
  <2>1. size[f] \in Nat
    OBVIOUS
  <2>2. IsFiniteSet({f}) /\ IsFiniteSet(1..size[f])
    BY <2>1, OneAndMany
  <2> QED
    BY <2>2, FS_Product
<1>4. \A part \in parts : IsFiniteSet(part)
  BY <1>3
<1> QED
  BY <1>2, <1>4, FS_UNION DEF Units

LEMMA TotalSizeType ==
    ASSUME NEW files, IsFiniteSet(files), NEW size, \A f \in files : size[f] \in Nat
    PROVE  TotalSize(files, size) \in Nat
  BY UnitsFinite, FS_CardinalityType DEF TotalSize

LEMMA TotalSizeAdds ==
    ASSUME NEW S, NEW T, IsFiniteSet(S), IsFiniteSet(T), S \cap T = {},
           NEW size, \A f \in S \cup T : size[f] \in Nat
    PROVE  TotalSize(S \cup T, size) = TotalSize(S, size) + TotalSize(T, size)
<1>1. IsFiniteSet(Units(S, size)) /\ IsFiniteSet(Units(T, size))
  BY UnitsFinite
<1>2. Units(S \cup T, size) = Units(S, size) \cup Units(T, size)
  BY DEF Units
<1>3. Units(S, size) \cap Units(T, size) = {}
  BY DEF Units
<1> DEFINE a == Units(S, size)
           b == Units(T, size)
<1>4. Cardinality(a \cup b) = Cardinality(a) + Cardinality(b) - Cardinality(a \cap b)
  BY <1>1, FS_Union
<1>5. Cardinality(a \cap b) = 0
  BY <1>3, FS_EmptySet
<1>6. Cardinality(a) \in Nat /\ Cardinality(b) \in Nat
  BY <1>1, FS_CardinalityType
<1>7. TotalSize(S, size) = Cardinality(a) /\ TotalSize(T, size) = Cardinality(b)
      /\ TotalSize(S \cup T, size) = Cardinality(a \cup b)
  BY <1>2 DEF TotalSize
<1> HIDE DEF a, b
<1> QED
  BY <1>4, <1>5, <1>6, <1>7

LEMMA TotalSizeGrows ==
    ASSUME NEW T, IsFiniteSet(T), NEW S \in SUBSET T,
           NEW size, \A f \in T : size[f] \in Nat
    PROVE  TotalSize(S, size) <= TotalSize(T, size)
<1>1. IsFiniteSet(Units(T, size)) /\ Units(S, size) \subseteq Units(T, size)
  BY UnitsFinite DEF Units
<1> QED
  BY <1>1, FS_Subset DEF TotalSize

LEMMA TotalSizeOfOne ==
    ASSUME NEW f, NEW size, size[f] \in Nat
    PROVE  TotalSize({f}, size) = size[f]
<1>1. Units({f}, size) = {f} \X (1..size[f])
  BY DEF Units
<1>2. /\ IsFiniteSet({f}) /\ Cardinality({f}) = 1
      /\ IsFiniteSet(1..size[f]) /\ Cardinality(1..size[f]) = size[f]
  BY OneAndMany
<1>3. Cardinality({f} \X (1..size[f])) = Cardinality({f}) * Cardinality(1..size[f])
  BY <1>2, FS_Product
<1>4. Cardinality(Units({f}, size)) = 1 * size[f]
  BY <1>1, <1>2, <1>3, Zenon
<1>5. 1 * size[f] = size[f]
  OBVIOUS
<1> QED
  BY <1>4, <1>5, Zenon DEF TotalSize

(* What a removed file takes from the total. *)
LEMMA TotalSizeRemoves ==
    ASSUME NEW S, IsFiniteSet(S), NEW f \in S, NEW size, \A g \in S : size[g] \in Nat
    PROVE  TotalSize(S \ {f}, size) = TotalSize(S, size) - size[f]
<1>0. IsFiniteSet(S \ {f}) /\ IsFiniteSet({f})
  BY FS_RemoveElement, OneAndMany, FS_Singleton
<1>1. /\ IsFiniteSet(S \ {f}) /\ IsFiniteSet({f})
      /\ (S \ {f}) \cup {f} = S /\ (S \ {f}) \cap {f} = {}
  BY <1>0
<1>2. TotalSize((S \ {f}) \cup {f}, size) = TotalSize(S \ {f}, size) + TotalSize({f}, size)
  BY <1>1, TotalSizeAdds
<1>3. TotalSize(S, size) = TotalSize(S \ {f}, size) + TotalSize({f}, size)
  BY <1>1, <1>2
<1>4. TotalSize({f}, size) = size[f]
  BY TotalSizeOfOne
<1>5. TotalSize(S \ {f}, size) \in Nat
  BY <1>1, TotalSizeType
<1> QED
  BY <1>3, <1>4, <1>5
=============================================================================
