---------------------------- MODULE CacheProofs ----------------------------
(***************************************************************************)
(* Proofs about ResponseCache, for any number of requests, keys and limits:*)
(* what a fold over keys and a queue without a key compute, that the fields *)
(* of the cache agree, what hits replay, and that the cache implements the  *)
(* bounded map of BoundedCache.                                             *)
(***************************************************************************)
EXTENDS ResponseCache, FiniteSetTheorems, WellFoundedInduction, SequenceTheorems,
        TLAPS

-----------------------------------------------------------------------------
(* Induction over sets, with a set of the cases shown in place of a         *)
(* predicate.                                                               *)

LEMMA LeastExists ==
    ASSUME NEW S \in SUBSET Nat, S # {}
    PROVE  \E i \in S : \A j \in S : i <= j
<1>1. PICK i \in S : \A j \in S : <<j, i>> \notin OpToRel(<, Nat)
  BY NatLessThanWellFounded, WFMin, Zenon
<1>2. \A j \in S : ~(j < i)
  BY <1>1 DEF OpToRel
<1>3. QED
  BY <1>2

LEMMA NaturalSteps ==
    ASSUME NEW N, 0 \in N, \A n \in N \cap Nat : n + 1 \in N
    PROVE  Nat \subseteq N
<1> SUFFICES ASSUME Nat \ N # {} PROVE FALSE
  OBVIOUS
<1>1. PICK n \in Nat \ N : \A m \in Nat \ N : n <= m
  BY LeastExists
<1>2. n # 0 /\ n - 1 \in Nat /\ n - 1 \notin Nat \ N
  BY <1>1
<1>3. n - 1 \in N \cap Nat /\ (n - 1) + 1 = n
  BY <1>2
<1>4. QED
  BY <1>3

LEMMA SetSteps ==
    ASSUME NEW S, IsFiniteSet(S), NEW F,
           \A T \in SUBSET S : (\A x \in T : T \ {x} \in F) => T \in F
    PROVE  SUBSET S \subseteq F
<1> DEFINE N == {Cardinality(T) : T \in (SUBSET S) \ F}
<1> SUFFICES ASSUME (SUBSET S) \ F # {} PROVE FALSE
  OBVIOUS
<1>1. \A T \in SUBSET S : IsFiniteSet(T) /\ Cardinality(T) \in Nat
  BY FS_Subset, FS_CardinalityType
<1>2. PICK n \in N : \A m \in N : n <= m
  <2>1. N \in SUBSET Nat /\ N # {}
    BY <1>1
  <2> HIDE DEF N
  <2>2. QED
    BY <2>1, LeastExists
<1>3. PICK T \in (SUBSET S) \ F : n = Cardinality(T)
  BY <1>2
<1>4. ASSUME NEW x \in T PROVE T \ {x} \in F
  <2>1. Cardinality(T \ {x}) = Cardinality(T) - 1
    BY <1>1, <1>3, FS_RemoveElement
  <2>2. T \ {x} \in SUBSET S
    BY <1>3
  <2>3. T \ {x} \in F \/ Cardinality(T \ {x}) \in N
    <3> DEFINE U == T \ {x}
    <3>1. U \in SUBSET S
      BY <2>2
    <3> HIDE DEF U
    <3>2. U \in F \/ Cardinality(U) \in N
      BY <3>1
    <3>3. QED
      BY <3>2 DEF U
  <2>4. Cardinality(T) \in Nat
    BY <1>1, <1>3
  <2> HIDE DEF N
  <2>5. QED
    BY <1>2, <1>3, <2>1, <2>3, <2>4
<1>5. QED
  BY <1>3, <1>4

-----------------------------------------------------------------------------
(* SizeOf is a sum: the order in which the fold picks the keys is nobody's  *)
(* business.                                                                *)

Sized(map) == \A k \in DOMAIN map : map[k].body.size \in Nat

Pick(s) == CHOOSE x \in s : TRUE

(* The function that the fold computes on the subsets of S.                 *)
Folds(it, map, S) ==
    it = [s \in SUBSET S |->
            IF s = {} THEN 0 ELSE map[Pick(s)].body.size + it[s \ {Pick(s)}]]

LEMMA SizeIsFold ==
    ASSUME NEW map, NEW keys
    PROVE  LET S == keys \cap DOMAIN map
           IN  SizeOf(map, keys) = (CHOOSE it : Folds(it, map, S))[S]
BY DEF SizeOf, MapThenSumSet, MapThenFoldSet, Folds, Pick

(* It exists, built for one size of subset after the other.                 *)
LEMMA FoldExists ==
    ASSUME NEW map, NEW S, IsFiniteSet(S)
    PROVE  \E it : Folds(it, map, S)
<1> DEFINE Upto(n) == {s \in SUBSET S : Cardinality(s) <= n}
           OK(it, n) == it = [s \in Upto(n) |-> IF s = {} THEN 0
                                ELSE map[Pick(s)].body.size + it[s \ {Pick(s)}]]
           N == {n \in Nat : \E it : OK(it, n)}
<1>1. \A s \in SUBSET S : IsFiniteSet(s) /\ Cardinality(s) \in Nat
  BY FS_Subset, FS_CardinalityType
<1>2. \A s \in SUBSET S : s # {} => /\ Pick(s) \in s /\ s \ {Pick(s)} \in SUBSET S
                                    /\ Cardinality(s \ {Pick(s)}) = Cardinality(s) - 1
  BY <1>1, FS_RemoveElement DEF Pick
<1>3. 0 \in N
  <2> DEFINE it == [s \in Upto(0) |-> 0]
  <2>1. \A s \in Upto(0) : s = {}
    BY <1>1, FS_EmptySet
  <2>2. OK(it, 0)
    BY <2>1
  <2>3. QED
    BY <2>2
<1>4. ASSUME NEW n \in N \cap Nat PROVE n + 1 \in N
  <2>1. PICK it : OK(it, n)
    BY <1>4
  <2> DEFINE jt == [s \in Upto(n + 1) |-> IF s = {} THEN 0
                      ELSE map[Pick(s)].body.size + it[s \ {Pick(s)}]]
  <2>2. \A s \in Upto(n) : s \in Upto(n + 1) /\ jt[s] = it[s]
    <3>1. \A s \in Upto(n) : s \in Upto(n + 1)
      BY <1>1
    <3>2. \A s \in Upto(n) : it[s] = IF s = {} THEN 0
                                ELSE map[Pick(s)].body.size + it[s \ {Pick(s)}]
      BY <2>1
    <3>3. QED
      BY <3>1, <3>2
  <2>3. \A s \in Upto(n + 1) : s # {} => s \ {Pick(s)} \in Upto(n)
    BY <1>1, <1>2
  <2>4. \A s \in Upto(n + 1) : s # {} => jt[s \ {Pick(s)}] = it[s \ {Pick(s)}]
    BY <2>2, <2>3
  <2>5. jt = [s \in Upto(n + 1) |-> IF s = {} THEN 0
                ELSE map[Pick(s)].body.size + jt[s \ {Pick(s)}]]
    BY <2>4
  <2>6. OK(jt, n + 1)
    BY <2>5
  <2>7. n + 1 \in Nat
    OBVIOUS
  <2> HIDE DEF OK
  <2>8. QED
    BY <2>6, <2>7
<1>5. PICK it : OK(it, Cardinality(S))
  <2>1. Nat \subseteq N
    <3> HIDE DEF N
    <3>1. QED
      BY <1>3, <1>4, NaturalSteps
  <2>2. QED
    BY <2>1, FS_CardinalityType
<1>6. Upto(Cardinality(S)) = SUBSET S
  BY FS_Subset
<1>7. QED
  BY <1>5, <1>6 DEF Folds

(* What it computes depends on the sizes only, not on the order.            *)
LEMMA FoldAdds ==
    ASSUME NEW map, Sized(map), NEW S \in SUBSET DOMAIN map, IsFiniteSet(S),
           NEW it, Folds(it, map, S)
    PROVE  /\ it[{}] = 0
           /\ \A T \in SUBSET S : it[T] \in Nat
           /\ \A T \in SUBSET S : \A x \in T :
                 it[T] = map[x].body.size + it[T \ {x}]
<1> DEFINE Step(T, x) == it[T] = map[x].body.size + it[T \ {x}]
           Nats == {T \in SUBSET S : it[T] \in Nat}
           F == {T \in SUBSET S : \A x \in T : Step(T, x)}
<1>1. \A T \in SUBSET S :
         it[T] = IF T = {} THEN 0 ELSE map[Pick(T)].body.size + it[T \ {Pick(T)}]
  BY DEF Folds
<1>2. \A T \in SUBSET S : T # {} => Pick(T) \in T
  BY DEF Pick
<1>3. \A x \in S : map[x].body.size \in Nat
  BY DEF Sized
<1>4. \A T \in SUBSET S : it[T] \in Nat
  <2>1. ASSUME NEW T \in SUBSET S, \A x \in T : T \ {x} \in Nats
        PROVE  T \in Nats
    <3>1. CASE T = {}
      BY <1>1, <3>1
    <3>2. CASE T # {}
      <4>1. Pick(T) \in T /\ it[T \ {Pick(T)}] \in Nat /\ Pick(T) \in S
        BY <1>2, <2>1, <3>2
      <4>2. map[Pick(T)].body.size \in Nat
        BY <1>3, <4>1
      <4>3. it[T] = map[Pick(T)].body.size + it[T \ {Pick(T)}]
        BY <1>1, <3>2
      <4>4. it[T] \in Nat
        BY ONLY <4>1, <4>2, <4>3
      <4>5. QED
        BY <4>4
    <3>3. QED
      BY <3>1, <3>2
  <2> HIDE DEF Nats
  <2>2. SUBSET S \subseteq Nats
    BY <2>1, SetSteps
  <2>3. QED
    BY <2>2 DEF Nats
<1>5. ASSUME NEW T \in SUBSET S, \A x \in T : T \ {x} \in F, NEW x \in T
      PROVE  Step(T, x)
  <2> DEFINE y == Pick(T)
  <2>1. y \in T /\ Step(T, y)
    BY <1>1, <1>2
  <2> HIDE DEF y
  <2>2. CASE x = y
    BY <2>1, <2>2
  <2>3. CASE x # y
    <3>1. T \ {x} \in F /\ T \ {y} \in F /\ y \in T \ {x} /\ x \in T \ {y}
      BY <1>5, <2>1, <2>3
    <3>2. it[T \ {y}] = map[x].body.size + it[(T \ {y}) \ {x}]
      BY <3>1
    <3>3. it[T \ {x}] = map[y].body.size + it[(T \ {x}) \ {y}]
      BY <3>1
    <3>4. (T \ {y}) \ {x} = (T \ {x}) \ {y}
      OBVIOUS
    <3>5. /\ map[x].body.size \in Nat /\ map[y].body.size \in Nat
          /\ it[(T \ {x}) \ {y}] \in Nat
      <4>1. x \in S /\ y \in S /\ (T \ {x}) \ {y} \in SUBSET S
        BY <2>1
      <4>2. QED
        BY ONLY <1>3, <1>4, <4>1
    <3> DEFINE sx == map[x].body.size
               sy == map[y].body.size
               r  == it[(T \ {x}) \ {y}]
    <3>6. sx \in Nat /\ sy \in Nat /\ r \in Nat
          /\ it[T] = sy + it[T \ {y}] /\ it[T \ {y}] = sx + r /\ it[T \ {x}] = sy + r
      BY <2>1, <3>2, <3>3, <3>4, <3>5
    <3> HIDE DEF sx, sy, r
    <3>7. it[T] = sx + it[T \ {x}]
      BY ONLY <3>6
    <3>8. QED
      BY <3>7 DEF sx
  <2>4. QED
    BY <2>2, <2>3
<1>6. SUBSET S \subseteq F
  <2>1. \A T \in SUBSET S : (\A x \in T : T \ {x} \in F) => T \in F
    BY <1>5
  <2> HIDE DEF F
  <2>2. QED
    BY <2>1, SetSteps
<1>7. {} \in SUBSET S /\ it[{}] = 0
  BY <1>1
<1>8. QED
  BY <1>4, <1>6, <1>7

(* Two folds agree where the sizes do.                                      *)
LEMMA FoldsAgree ==
    ASSUME NEW map, NEW map2, NEW S, NEW S2, NEW it, NEW it2,
           Folds(it, map, S), Folds(it2, map2, S2),
           NEW T, IsFiniteSet(T), T \subseteq S, T \subseteq S2,
           \A k \in T : map[k].body.size = map2[k].body.size
    PROVE  it[T] = it2[T]
<1> DEFINE F == {U \in SUBSET T : it[U] = it2[U]}
<1>1. ASSUME NEW U \in SUBSET T, \A x \in U : U \ {x} \in F PROVE U \in F
  <2> DEFINE y == Pick(U)
  <2>1. /\ it[U] = IF U = {} THEN 0 ELSE map[y].body.size + it[U \ {y}]
        /\ it2[U] = IF U = {} THEN 0 ELSE map2[y].body.size + it2[U \ {y}]
    BY DEF Folds
  <2>2. U # {} => y \in U
    BY DEF Pick
  <2> HIDE DEF y
  <2>3. U # {} => it[U \ {y}] = it2[U \ {y}] /\ map[y].body.size = map2[y].body.size
    BY <1>1, <2>2
  <2>4. QED
    BY <2>1, <2>3
<1> HIDE DEF F
<1>2. SUBSET T \subseteq F
  BY <1>1, SetSteps
<1>3. QED
  BY <1>2 DEF F

LEMMA SizeSame ==
    ASSUME NEW map, NEW map2, NEW keys, NEW keys2,
           keys \cap DOMAIN map = keys2 \cap DOMAIN map2,
           IsFiniteSet(keys \cap DOMAIN map),
           \A k \in keys \cap DOMAIN map : map[k].body.size = map2[k].body.size
    PROVE  SizeOf(map, keys) = SizeOf(map2, keys2)
<1> DEFINE S == keys \cap DOMAIN map
           it == CHOOSE f : Folds(f, map, S)
           it2 == CHOOSE f : Folds(f, map2, S)
<1>1. SizeOf(map, keys) = it[S] /\ SizeOf(map2, keys2) = it2[S]
  BY SizeIsFold
<1>2. Folds(it, map, S) /\ Folds(it2, map2, S)
  BY FoldExists
<1> HIDE DEF it, it2
<1>3. it[S] = it2[S]
  BY <1>2, FoldsAgree
<1>4. QED
  BY <1>1, <1>3

(* A sum, key by key.                                                       *)
LEMMA SizeAdds ==
    ASSUME NEW map, Sized(map), IsFiniteSet(DOMAIN map)
    PROVE  /\ SizeOf(map, {}) = 0
           /\ \A S \in SUBSET DOMAIN map : SizeOf(map, S) \in Nat
           /\ \A S \in SUBSET DOMAIN map : \A x \in S :
                 SizeOf(map, S) = map[x].body.size + SizeOf(map, S \ {x})
<1> DEFINE D == DOMAIN map
           it == CHOOSE f : Folds(f, map, D)
<1>1. Folds(it, map, D)
  BY FoldExists
<1> HIDE DEF it
<1>2. ASSUME NEW S \in SUBSET D PROVE SizeOf(map, S) = it[S]
  <2> DEFINE jt == CHOOSE f : Folds(f, map, S)
  <2>0. S \cap DOMAIN map = S /\ IsFiniteSet(S)
    BY FS_Subset
  <2>1. SizeOf(map, S) = jt[S]
    BY <2>0, SizeIsFold
  <2>2. Folds(jt, map, S)
    BY <2>0, FoldExists
  <2> HIDE DEF jt
  <2>3. jt[S] = it[S]
    BY <1>1, <2>0, <2>2, FoldsAgree
  <2>4. QED
    BY <2>1, <2>3
<1>3. /\ it[{}] = 0
      /\ \A T \in SUBSET D : it[T] \in Nat
      /\ \A T \in SUBSET D : \A x \in T :
            it[T] = map[x].body.size + it[T \ {x}]
  BY <1>1, FoldAdds
<1>4. QED
  BY <1>2, <1>3

LEMMA SizeSplits ==
    ASSUME NEW map, Sized(map), IsFiniteSet(DOMAIN map),
           NEW L \in SUBSET DOMAIN map, NEW S \in SUBSET L
    PROVE  SizeOf(map, L) = SizeOf(map, S) + SizeOf(map, L \ S)
<1> DEFINE R == L \ S
           F == {U \in SUBSET R : SizeOf(map, S \cup U) = SizeOf(map, S) + SizeOf(map, U)}
<1>1. IsFiniteSet(R)
  BY FS_Subset
<1>2. ASSUME NEW U \in SUBSET R, \A x \in U : U \ {x} \in F PROVE U \in F
  <2>1. CASE U = {}
    <3>1. S \cup U = S /\ SizeOf(map, U) = 0 /\ SizeOf(map, S) \in Nat
      BY <2>1, SizeAdds
    <3>2. SizeOf(map, S \cup U) = SizeOf(map, S) + SizeOf(map, U)
      <4>1. SizeOf(map, S \cup U) = SizeOf(map, S)
        BY <3>1, Zenon
      <4>2. QED
        BY <3>1, <4>1
    <3>3. QED
      BY <3>2
  <2>2. CASE U # {}
    <3>1. PICK x \in U : TRUE
      BY <2>2
    <3>2. /\ SizeOf(map, U) = map[x].body.size + SizeOf(map, U \ {x})
          /\ SizeOf(map, S \cup U) = map[x].body.size + SizeOf(map, (S \cup U) \ {x})
          /\ SizeOf(map, S) \in Nat /\ SizeOf(map, U \ {x}) \in Nat
          /\ map[x].body.size \in Nat
      <4>1. U \in SUBSET DOMAIN map /\ S \cup U \in SUBSET DOMAIN map
            /\ S \in SUBSET DOMAIN map /\ U \ {x} \in SUBSET DOMAIN map /\ x \in DOMAIN map
        BY <3>1
      <4>2. QED
        BY <3>1, <4>1, SizeAdds DEF Sized
    <3>3. (S \cup U) \ {x} = S \cup (U \ {x})
      BY <3>1
    <3>4. SizeOf(map, S \cup (U \ {x})) = SizeOf(map, S) + SizeOf(map, U \ {x})
      BY <1>2, <3>1
    <3> DEFINE a == SizeOf(map, U)
               b == SizeOf(map, U \ {x})
               c == SizeOf(map, S \cup U)
               d == SizeOf(map, S \cup (U \ {x}))
               e == SizeOf(map, S)
               w == map[x].body.size
    <3>5. a = w + b /\ c = w + d /\ d = e + b /\ e \in Nat /\ b \in Nat /\ w \in Nat
      BY <3>2, <3>3, <3>4
    <3> HIDE DEF a, b, c, d, e, w
    <3>6. c = e + a
      BY ONLY <3>5
    <3>7. QED
      BY <3>6 DEF a, c, e
  <2>3. QED
    BY <2>1, <2>2
<1>3. \A U \in SUBSET R : (\A x \in U : U \ {x} \in F) => U \in F
  BY <1>2
<1> HIDE DEF F
<1>4. SUBSET R \subseteq F
  <2> HIDE DEF R
  <2>1. QED
    BY <1>1, <1>3, SetSteps
<1>5. S \cup R = L /\ R \in F
  BY <1>4
<1>6. QED
  BY <1>5 DEF F

-----------------------------------------------------------------------------
(* The queue, as what it holds and in which order.                          *)

Holds(q, x) == \E i \in DOMAIN q : q[i] = x
Precedes(q, x, y) == \E i, j \in DOMAIN q : i < j /\ q[i] = x /\ q[j] = y

(* Nothing is queued twice.                                                 *)
Single(q) == \A i, j \in DOMAIN q : q[i] = q[j] => i = j

LEMMA SingleIsStrict ==
    ASSUME NEW S, NEW q \in Seq(S)
    PROVE  Single(q) <=> \A x : ~Precedes(q, x, x)
<1>1. DOMAIN q = 1..Len(q) /\ Len(q) \in Nat
  BY LenProperties
<1>2. ASSUME Single(q), NEW x PROVE ~Precedes(q, x, x)
  BY <1>1, <1>2 DEF Single, Precedes
<1>3. ASSUME \A x : ~Precedes(q, x, x), NEW i \in DOMAIN q, NEW j \in DOMAIN q, q[i] = q[j]
      PROVE  i = j
  <2>1. ~(i < j) /\ ~(j < i)
    BY <1>3 DEF Precedes
  <2>2. QED
    BY <1>1, <2>1
<1>4. QED
  BY <1>2, <1>3 DEF Single

LEMMA Appended ==
    ASSUME NEW S, NEW q \in Seq(S), NEW e \in S
    PROVE  /\ Append(q, e) \in Seq(S)
           /\ \A x : Holds(Append(q, e), x) <=> Holds(q, x) \/ x = e
           /\ \A x, y : Precedes(Append(q, e), x, y) <=>
                 Precedes(q, x, y) \/ (Holds(q, x) /\ y = e)
<1> DEFINE a == Append(q, e)
<1>1. /\ a \in Seq(S) /\ Len(q) \in Nat /\ DOMAIN q = 1..Len(q)
      /\ DOMAIN a = 1..(Len(q) + 1) /\ a[Len(q) + 1] = e
      /\ \A i \in 1..Len(q) : a[i] = q[i]
  BY AppendProperties, LenProperties
<1> HIDE DEF a
<1>2. \A x : Holds(a, x) <=> Holds(q, x) \/ x = e
  BY <1>1 DEF Holds
<1>3. ASSUME NEW x, NEW y, Precedes(a, x, y)
      PROVE  Precedes(q, x, y) \/ (Holds(q, x) /\ y = e)
  <2>1. PICK i \in DOMAIN a, j \in DOMAIN a : i < j /\ a[i] = x /\ a[j] = y
    BY <1>3 DEF Precedes
  <2>2. i \in DOMAIN q /\ q[i] = x
    BY <1>1, <2>1
  <2>3. CASE j = Len(q) + 1
    BY <1>1, <2>1, <2>2, <2>3 DEF Holds
  <2>4. CASE j # Len(q) + 1
    <3>1. j \in DOMAIN q /\ q[j] = y
      BY <1>1, <2>1, <2>4
    <3>2. QED
      BY <2>1, <2>2, <3>1 DEF Precedes
  <2>5. QED
    BY <2>3, <2>4
<1>4. ASSUME NEW x, NEW y, Precedes(q, x, y) PROVE Precedes(a, x, y)
  <2>1. PICK i \in DOMAIN q, j \in DOMAIN q : i < j /\ q[i] = x /\ q[j] = y
    BY <1>4 DEF Precedes
  <2>2. i \in DOMAIN a /\ j \in DOMAIN a /\ a[i] = x /\ a[j] = y
    BY <1>1, <2>1
  <2>3. QED
    BY <2>1, <2>2 DEF Precedes
<1>5. ASSUME NEW x, Holds(q, x) PROVE Precedes(a, x, e)
  <2>1. PICK i \in DOMAIN q : q[i] = x
    BY <1>5 DEF Holds
  <2>2. i \in DOMAIN a /\ Len(q) + 1 \in DOMAIN a /\ i < Len(q) + 1 /\ a[i] = x
        /\ a[Len(q) + 1] = e
    BY <1>1, <2>1
  <2>3. QED
    BY <2>2 DEF Precedes
<1>6. QED
  BY <1>1, <1>2, <1>3, <1>4, <1>5 DEF a

(* The first n of the queue.                                                *)
HoldsIn(q, n, x) == \E i \in 1..n : q[i] = x
PrecedesIn(q, n, x, y) == \E i, j \in 1..n : i < j /\ q[i] = x /\ q[j] = y

Keeps(keep, q, k, n) ==
    keep = [m \in 0..n |-> IF m = 0 THEN << >>
              ELSE IF q[m] = k THEN keep[m - 1] ELSE Append(keep[m - 1], q[m])]

LEMMA KeepsExists ==
    ASSUME NEW q, NEW k, NEW n \in Nat
    PROVE  \E keep : Keeps(keep, q, k, n)
<1> DEFINE N == {m \in Nat : \E keep : Keeps(keep, q, k, m)}
<1>1. 0 \in N
  <2> DEFINE keep == [m \in 0..0 |-> << >>]
  <2>1. Keeps(keep, q, k, 0)
    BY DEF Keeps
  <2>2. QED
    BY <2>1
<1>2. ASSUME NEW m \in N \cap Nat PROVE m + 1 \in N
  <2>1. PICK f : Keeps(f, q, k, m)
    BY <1>2
  <2> DEFINE g == [i \in 0..(m + 1) |-> IF i = 0 THEN << >>
                     ELSE IF q[i] = k THEN f[i - 1] ELSE Append(f[i - 1], q[i])]
  <2>2. \A i \in 0..m : g[i] = f[i]
    <3>1. \A i \in 0..m : f[i] = IF i = 0 THEN << >>
             ELSE IF q[i] = k THEN f[i - 1] ELSE Append(f[i - 1], q[i])
      BY <2>1 DEF Keeps
    <3>2. \A i \in 0..m : i \in 0..(m + 1)
      OBVIOUS
    <3>3. QED
      BY <3>1, <3>2
  <2>3. \A i \in 0..(m + 1) : i # 0 => g[i - 1] = f[i - 1]
    <3> HIDE DEF g
    <3>1. QED
      BY <2>2
  <2>4. g = [i \in 0..(m + 1) |-> IF i = 0 THEN << >>
               ELSE IF q[i] = k THEN g[i - 1] ELSE Append(g[i - 1], q[i])]
    BY <2>3
  <2>5. Keeps(g, q, k, m + 1) /\ m + 1 \in Nat
    BY <2>4 DEF Keeps
  <2> HIDE DEF g
  <2>6. QED
    BY <2>5
<1> HIDE DEF N
<1>3. n \in N
  BY <1>1, <1>2, NaturalSteps
<1>4. QED
  BY <1>3 DEF N

(* retain leaves the others, in the order they were in.                     *)
LEMMA WithoutKeeps ==
    ASSUME NEW S, NEW q \in Seq(S), NEW k
    PROVE  /\ Without(q, k) \in Seq(S)
           /\ \A x : Holds(Without(q, k), x) <=> Holds(q, x) /\ x # k
           /\ \A x, y : Precedes(Without(q, k), x, y) <=>
                 Precedes(q, x, y) /\ x # k /\ y # k
<1> DEFINE L == Len(q)
           keep == CHOOSE f : Keeps(f, q, k, L)
           OK(r, n) == /\ r \in Seq(S)
                       /\ \A x : Holds(r, x) <=> HoldsIn(q, n, x) /\ x # k
                       /\ \A x, y : Precedes(r, x, y) <=>
                             PrecedesIn(q, n, x, y) /\ x # k /\ y # k
           N == {n \in Nat : n > L \/ OK(keep[n], n)}
<1>1. L \in Nat /\ DOMAIN q = 1..L /\ \A i \in 1..L : q[i] \in S
  BY LenProperties, ElementOfSeq
<1>2. Keeps(keep, q, k, L)
  BY <1>1, KeepsExists
<1>3. Without(q, k) = keep[L]
  BY DEF Without, Keeps
<1> HIDE DEF keep, L
<1>4. /\ keep[0] = << >>
      /\ \A n \in 1..L : keep[n] = IF q[n] = k THEN keep[n - 1] ELSE Append(keep[n - 1], q[n])
  <2>1. \A n \in 0..L : keep[n] = IF n = 0 THEN << >>
           ELSE IF q[n] = k THEN keep[n - 1] ELSE Append(keep[n - 1], q[n])
    BY <1>2 DEF Keeps
  <2>2. 0 \in 0..L /\ \A n \in 1..L : n \in 0..L /\ n # 0
    BY <1>1
  <2>3. QED
    BY <2>1, <2>2
<1>5. OK(<< >>, 0)
  BY EmptySeq DEF Holds, Precedes, HoldsIn, PrecedesIn
<1>6. ASSUME NEW n \in 1..L, NEW r, OK(r, n - 1)
      PROVE  OK(IF q[n] = k THEN r ELSE Append(r, q[n]), n)
  <2>1. /\ \A x : HoldsIn(q, n, x) <=> HoldsIn(q, n - 1, x) \/ x = q[n]
        /\ \A x, y : PrecedesIn(q, n, x, y) <=>
              PrecedesIn(q, n - 1, x, y) \/ (HoldsIn(q, n - 1, x) /\ y = q[n])
    <3>1. n \in Nat /\ n >= 1
      BY <1>1
    <3>2. \A x : HoldsIn(q, n, x) <=> HoldsIn(q, n - 1, x) \/ x = q[n]
      BY <3>1 DEF HoldsIn
    <3>3. ASSUME NEW x, NEW y, PrecedesIn(q, n, x, y)
          PROVE  PrecedesIn(q, n - 1, x, y) \/ (HoldsIn(q, n - 1, x) /\ y = q[n])
      BY <3>1, <3>3 DEF PrecedesIn, HoldsIn
    <3>4. ASSUME NEW x, NEW y, PrecedesIn(q, n - 1, x, y) \/ (HoldsIn(q, n - 1, x) /\ y = q[n])
          PROVE  PrecedesIn(q, n, x, y)
      BY <3>1, <3>4 DEF PrecedesIn, HoldsIn
    <3>5. QED
      BY <3>2, <3>3, <3>4
  <2>2. CASE q[n] = k
    BY <1>6, <2>1, <2>2
  <2>3. CASE q[n] # k
    <3>1. q[n] \in S
      BY <1>1
    <3>2. QED
      BY <1>6, <2>1, <2>3, <3>1, Appended
  <2>4. QED
    BY <2>2, <2>3
<1> HIDE DEF OK
<1>7. 0 \in N
  BY <1>4, <1>5
<1>8. ASSUME NEW n \in N \cap Nat PROVE n + 1 \in N
  <2>1. CASE n + 1 > L
    BY <2>1
  <2>2. CASE ~(n + 1 > L)
    <3>1. n + 1 \in 1..L /\ OK(keep[n], n) /\ (n + 1) - 1 = n
      BY <1>1, <1>8, <2>2
    <3>2. OK(keep[n + 1], n + 1)
      BY <1>4, <1>6, <3>1
    <3>3. QED
      BY <3>2
  <2>3. QED
    BY <2>1, <2>2
<1>9. OK(keep[L], L)
  <2>1. L \in N
    <3> HIDE DEF N
    <3>1. QED
      BY <1>1, <1>7, <1>8, NaturalSteps
  <2>2. QED
    BY <1>1, <2>1
<1>10. \A n \in Nat : n = L => /\ \A x : HoldsIn(q, n, x) <=> Holds(q, x)
                               /\ \A x, y : PrecedesIn(q, n, x, y) <=> Precedes(q, x, y)
  BY <1>1 DEF HoldsIn, Holds, PrecedesIn, Precedes
<1>11. QED
  BY <1>1, <1>3, <1>9, <1>10 DEF OK

(* Evicting leaves the rest of the queue, in its order.                     *)
LEMMA RestOfQueue ==
    ASSUME NEW S, NEW q \in Seq(S), Single(q), NEW n \in 0..Len(q)
    PROVE  LET r == SubSeq(q, n + 1, Len(q))
           IN  /\ r \in Seq(S)
               /\ \A x : Holds(r, x) <=> Holds(q, x) /\ x \notin Popped(q, n)
               /\ \A x, y : Precedes(r, x, y) <=>
                     /\ Precedes(q, x, y)
                     /\ x \notin Popped(q, n) /\ y \notin Popped(q, n)
<1> DEFINE r == SubSeq(q, n + 1, Len(q))
<1>1. Len(q) \in Nat /\ DOMAIN q = 1..Len(q) /\ n \in Nat /\ n <= Len(q)
  BY LenProperties
<1>2. \A i \in 1..Len(q) : q[i] \in S
  BY <1>1, ElementOfSeq
<1>3. /\ r \in Seq(S) /\ DOMAIN r = 1..(Len(q) - n)
      /\ \A i \in 1..(Len(q) - n) : r[i] = q[n + i]
  <2>1. \A i \in (n + 1)..Len(q) : q[i] \in S
    BY <1>1, <1>2
  <2>2. /\ r \in Seq(S)
        /\ Len(r) = IF n + 1 <= Len(q) THEN Len(q) - (n + 1) + 1 ELSE 0
        /\ \A i \in 1..(Len(q) - (n + 1) + 1) : r[i] = q[n + 1 + i - 1]
    BY <1>1, <2>1, SubSeqProperties
  <2> HIDE DEF r
  <2>3. Len(r) = Len(q) - n /\ DOMAIN r = 1..Len(r)
    <3>1. DOMAIN r = 1..Len(r)
      BY <2>2, LenProperties
    <3>2. Len(r) = Len(q) - n
      <4> DEFINE l == Len(q)
                 m == Len(r)
      <4>1. l \in Nat /\ n \in Nat /\ n <= l
            /\ m = IF n + 1 <= l THEN l - (n + 1) + 1 ELSE 0
        BY <1>1, <2>2
      <4> HIDE DEF l, m
      <4>2. m = l - n
        BY ONLY <4>1
      <4>3. QED
        BY <4>2 DEF l, m
    <3>3. QED
      BY <3>1, <3>2
  <2>4. \A i \in 1..(Len(q) - n) : r[i] = q[n + i]
    <3> SUFFICES ASSUME NEW i \in 1..(Len(q) - n) PROVE r[i] = q[n + i]
      OBVIOUS
    <3>1. i \in 1..(Len(q) - (n + 1) + 1) /\ n + 1 + i - 1 = n + i
      BY <1>1
    <3>2. QED
      BY <2>2, <3>1
  <2>5. QED
    BY <2>2, <2>3, <2>4
<1> HIDE DEF r
<1>4. \A i \in DOMAIN q : q[i] \notin Popped(q, n) <=> i > n
  BY <1>1 DEF Popped, Single
<1>5. ASSUME NEW i \in DOMAIN q, i > n PROVE i - n \in DOMAIN r /\ r[i - n] = q[i]
  <2>1. i - n \in 1..(Len(q) - n) /\ n + (i - n) = i
    BY <1>1, <1>5
  <2>2. QED
    BY <1>3, <2>1
<1>6. ASSUME NEW i \in DOMAIN r PROVE n + i \in DOMAIN q /\ n + i > n /\ r[i] = q[n + i] /\ i \in Nat
  BY <1>1, <1>3
<1>7. ASSUME NEW x PROVE Holds(r, x) <=> Holds(q, x) /\ x \notin Popped(q, n)
  <2>1. ASSUME Holds(r, x) PROVE Holds(q, x) /\ x \notin Popped(q, n)
    BY <1>4, <1>6, <2>1 DEF Holds
  <2>2. ASSUME Holds(q, x), x \notin Popped(q, n) PROVE Holds(r, x)
    BY <1>4, <1>5, <2>2 DEF Holds
  <2>3. QED
    BY <2>1, <2>2
<1>8. ASSUME NEW x, NEW y
      PROVE  Precedes(r, x, y) <=> /\ Precedes(q, x, y)
                                   /\ x \notin Popped(q, n) /\ y \notin Popped(q, n)
  <2>1. ASSUME Precedes(r, x, y)
        PROVE  Precedes(q, x, y) /\ x \notin Popped(q, n) /\ y \notin Popped(q, n)
    <3>1. PICK i \in DOMAIN r, j \in DOMAIN r : i < j /\ r[i] = x /\ r[j] = y
      BY <2>1 DEF Precedes
    <3>2. n + i < n + j
      BY <1>1, <1>6, <3>1
    <3>3. QED
      BY <1>4, <1>6, <3>1, <3>2 DEF Precedes
  <2>2. ASSUME Precedes(q, x, y), x \notin Popped(q, n), y \notin Popped(q, n)
        PROVE  Precedes(r, x, y)
    <3>1. PICK i \in DOMAIN q, j \in DOMAIN q : i < j /\ q[i] = x /\ q[j] = y
      BY <2>2 DEF Precedes
    <3>2. i > n /\ j > n /\ i - n < j - n
      BY <1>1, <1>4, <2>2, <3>1
    <3>3. QED
      BY <1>5, <3>1, <3>2 DEF Precedes
  <2>3. QED
    BY <2>1, <2>2
<1>9. QED
  BY <1>3, <1>7, <1>8 DEF r

(* The queue lists the keys of the map, each once.                          *)
Lists(q, keys) ==
    /\ q \in Seq(Keys)
    /\ \A x : Holds(q, x) <=> x \in keys
    /\ \A x : ~Precedes(q, x, x)

LEMMA ListedAreFinite ==
    ASSUME NEW q, NEW keys, Lists(q, keys)
    PROVE  IsFiniteSet(keys) /\ Single(q) /\ Cardinality(keys) \in Nat
<1>1. q \in Seq(Keys) /\ Len(q) \in Nat /\ DOMAIN q = 1..Len(q)
  BY LenProperties DEF Lists
<1>2. keys = {q[i] : i \in 1..Len(q)}
  BY <1>1 DEF Lists, Holds
<1>3. q \in [1..Len(q) -> keys]
  <2>1. q = [i \in 1..Len(q) |-> q[i]]
    BY <1>1
  <2>2. QED
    BY <1>2, <2>1
<1>4. q \in Surjection(1..Len(q), keys)
  BY <1>2, <1>3 DEF Surjection
<1>5. IsFiniteSet(1..Len(q))
  BY <1>1, FS_Interval
<1>6. IsFiniteSet(keys)
  BY <1>4, <1>5, FS_Surjection
<1>7. QED
  BY <1>1, <1>6, FS_CardinalityType, SingleIsStrict DEF Lists

(* touch.                                                                   *)
LEMMA TouchedLists ==
    ASSUME NEW q, NEW keys, Lists(q, keys), NEW k \in Keys
    PROVE  LET a == Append(Without(q, k), k)
           IN  /\ Lists(a, keys \cup {k})
               /\ \A x, y : Precedes(a, x, y) <=>
                     \/ Precedes(q, x, y) /\ x # k /\ y # k
                     \/ x \in keys \ {k} /\ y = k
<1> DEFINE w == Without(q, k)
           a == Append(w, k)
<1>1. q \in Seq(Keys)
  BY DEF Lists
<1>2. /\ w \in Seq(Keys)
      /\ \A x : Holds(w, x) <=> Holds(q, x) /\ x # k
      /\ \A x, y : Precedes(w, x, y) <=> Precedes(q, x, y) /\ x # k /\ y # k
  BY <1>1, WithoutKeeps
<1> HIDE DEF w
<1>3. /\ a \in Seq(Keys)
      /\ \A x : Holds(a, x) <=> Holds(w, x) \/ x = k
      /\ \A x, y : Precedes(a, x, y) <=>
            Precedes(w, x, y) \/ (Holds(w, x) /\ y = k)
  BY <1>2, Appended
<1> HIDE DEF a
<1>4. /\ \A x : Holds(q, x) <=> x \in keys
      /\ \A x : ~Precedes(q, x, x)
  BY DEF Lists
<1>5. QED
  BY <1>2, <1>3, <1>4 DEF Lists, a, w

LEMMA DroppedLists ==
    ASSUME NEW q, NEW keys, Lists(q, keys), NEW k
    PROVE  /\ Lists(Without(q, k), keys \ {k})
           /\ \A x, y : Precedes(Without(q, k), x, y) <=>
                 Precedes(q, x, y) /\ x # k /\ y # k
<1>1. q \in Seq(Keys)
  BY DEF Lists
<1>2. /\ Without(q, k) \in Seq(Keys)
      /\ \A x : Holds(Without(q, k), x) <=> Holds(q, x) /\ x # k
      /\ \A x, y : Precedes(Without(q, k), x, y) <=> Precedes(q, x, y) /\ x # k /\ y # k
  BY <1>1, WithoutKeeps
<1>3. QED
  BY <1>2 DEF Lists

-----------------------------------------------------------------------------
(* evict.                                                                   *)

(* It pops n keys of a map whose sizes add up to the counter.               *)
Evicts(map, queue, size, n) ==
    /\ n \in 0..Len(queue)
    /\ Enough(map, queue, size, n)
    /\ \A i \in 0..(n - 1) : ~Enough(map, queue, size, i)

LEMMA EvictPops ==
    ASSUME NEW map, Sized(map), NEW queue, Lists(queue, DOMAIN map),
           Evict(map, queue, SizeOf(map, DOMAIN map))
    PROVE  \E n : LET rest == DOMAIN map \ Popped(queue, n)
                  IN  /\ Evicts(map, queue, SizeOf(map, DOMAIN map), n)
                      /\ entries' = [k \in rest |-> map[k]]
                      /\ bytes' = SizeOf(map, rest)
                      /\ lru' = SubSeq(queue, n + 1, Len(queue))
<1> DEFINE size == SizeOf(map, DOMAIN map)
           S == {n \in 0..Len(queue) : Enough(map, queue, size, n)}
           n == CHOOSE n \in 0..Len(queue) :
                   /\ Enough(map, queue, size, n)
                   /\ \A i \in 0..(n - 1) : ~Enough(map, queue, size, i)
<1>1. Len(queue) \in Nat /\ IsFiniteSet(DOMAIN map)
  BY LenProperties, ListedAreFinite DEF Lists
<1>2. \E m \in 0..Len(queue) : /\ Enough(map, queue, size, m)
                               /\ \A i \in 0..(m - 1) : ~Enough(map, queue, size, i)
  <2>1. S \in SUBSET Nat /\ Len(queue) \in S
    BY <1>1 DEF Enough
  <2>2. PICK m \in S : \A j \in S : m <= j
    BY <2>1, LeastExists
  <2>3. \A i \in 0..(m - 1) : i \in 0..Len(queue) /\ ~(m <= i)
    BY <1>1, <2>2
  <2>4. QED
    BY <2>2, <2>3
<1>3. Evicts(map, queue, size, n)
  BY <1>2 DEF Evicts
<1>4. /\ entries' = [k \in DOMAIN map \ Popped(queue, n) |-> map[k]]
      /\ bytes' = Monus(size, SizeOf(map, Popped(queue, n)))
      /\ lru' = SubSeq(queue, n + 1, Len(queue))
  BY DEF Evict
<1> HIDE DEF n
<1> DEFINE gone == Popped(queue, n)
<1>5. gone \in SUBSET DOMAIN map
  <2>1. \A i \in 1..n : i \in DOMAIN queue
    BY <1>1, <1>3, LenProperties DEF Evicts, Lists
  <2>2. QED
    BY <2>1 DEF Lists, Holds, Popped
<1> HIDE DEF gone
<1>6. bytes' = SizeOf(map, DOMAIN map \ gone)
  <2>1. /\ size = SizeOf(map, gone) + SizeOf(map, DOMAIN map \ gone)
        /\ SizeOf(map, gone) \in Nat /\ SizeOf(map, DOMAIN map \ gone) \in Nat
    BY <1>1, <1>5, SizeSplits, SizeAdds
  <2>2. bytes' = Monus(size, SizeOf(map, gone))
    BY <1>4 DEF gone
  <2>3. QED
    BY <2>1, <2>2 DEF Monus
<1>7. QED
  BY <1>3, <1>4, <1>6 DEF gone

(* Whatever it pops, the fields agree again and both limits hold.           *)
LEMMA EvictedFields ==
    ASSUME NEW map, Sized(map), NEW queue, Lists(queue, DOMAIN map),
           Evict(map, queue, SizeOf(map, DOMAIN map))
    PROVE  /\ Lists(lru', DOMAIN entries')
           /\ bytes' = SizeOf(entries', DOMAIN entries')
           /\ bytes' <= MaxBytes
           /\ Cardinality(DOMAIN entries') <= MaxEntries
<1> DEFINE size == SizeOf(map, DOMAIN map)
<1>1. PICK n : /\ Evicts(map, queue, size, n)
               /\ entries' = [k \in DOMAIN map \ Popped(queue, n) |-> map[k]]
               /\ bytes' = SizeOf(map, DOMAIN map \ Popped(queue, n))
               /\ lru' = SubSeq(queue, n + 1, Len(queue))
  BY EvictPops
<1> DEFINE gone == Popped(queue, n)
           rest == DOMAIN map \ gone
<1>2. DOMAIN entries' = rest /\ \A k \in rest : entries'[k] = map[k]
  BY <1>1
<1>3. Single(queue) /\ queue \in Seq(Keys) /\ IsFiniteSet(DOMAIN map) /\ IsFiniteSet(rest)
  BY ListedAreFinite, FS_Subset DEF Lists
<1>4. Lists(lru', rest)
  BY <1>1, <1>3, RestOfQueue DEF Lists, Evicts
<1>5. bytes' = SizeOf(entries', rest)
  <2>1. rest \cap DOMAIN map = rest \cap DOMAIN entries' /\ rest \cap DOMAIN map = rest
    BY <1>2
  <2> HIDE DEF rest
  <2>2. SizeOf(map, rest) = SizeOf(entries', rest)
    BY <1>2, <1>3, <2>1, SizeSame
  <2>3. QED
    BY <1>1, <2>2 DEF rest
<1>6. bytes' <= MaxBytes /\ Cardinality(rest) <= MaxEntries
  <2>1. CASE n = Len(queue)
    <3>1. rest = {}
      BY <2>1, LenProperties DEF Lists, Holds, Popped
    <3>2. bytes' = 0 /\ Cardinality(rest) = 0
      BY <1>1, <3>1, <1>3, SizeAdds, FS_EmptySet
    <3>3. QED
      BY <3>2, CacheAssumption
  <2>2. CASE n # Len(queue)
    <3>1. /\ Cardinality(rest) <= MaxEntries
          /\ Monus(size, SizeOf(map, gone)) <= MaxBytes
      BY <1>1, <2>2 DEF Evicts, Enough
    <3>2. gone \in SUBSET DOMAIN map
      <4>1. \A i \in 1..n : i \in DOMAIN queue
        BY <1>1, LenProperties DEF Evicts, Lists
      <4>2. QED
        BY <4>1 DEF Lists, Holds, Popped
    <3>3. /\ size = SizeOf(map, gone) + SizeOf(map, rest)
          /\ SizeOf(map, gone) \in Nat /\ SizeOf(map, rest) \in Nat
      BY <1>3, <3>2, SizeSplits, SizeAdds
    <3>4. Monus(size, SizeOf(map, gone)) = bytes'
      BY <1>1, <3>3 DEF Monus
    <3>5. QED
      BY <3>1, <3>4
  <2>3. QED
    BY <2>1, <2>2
<1>7. QED
  BY <1>2, <1>4, <1>5, <1>6

-----------------------------------------------------------------------------
(* The fields of the requests, and nothing about the cache's own.           *)
RequestsOK ==
    /\ now \in Nat
    /\ phase \in [Clients -> {"idle", "hit", "miss", "delivered"}]
    /\ request \in [Clients -> Request \cup {Nothing}]
    /\ answer \in [Clients -> Answers \cup {Nothing}]

(* Every stored answer carries its key, and is the last one stored there.   *)
Carries(k, body) == body.from = k[1] /\ body.asked = k[2]

EntriesMatch ==
    /\ DOMAIN entries \subseteq Keys
    /\ \A k \in DOMAIN entries :
          /\ entries[k] \in [body : Answers, storedAt : Nat]
          /\ Carries(k, entries[k].body)

LatestStays ==
    /\ DOMAIN latest = DOMAIN entries
    /\ \A k \in DOMAIN entries : latest[k] = entries[k]

(* A request past its lookup knows what it asked, and an answer waiting to  *)
(* be stored is an answer to that.                                          *)
AsksItsOwn ==
    \A c \in Clients :
        /\ phase[c] \in {"miss", "delivered"} => request[c] \in Request
        /\ phase[c] = "delivered" =>
              answer[c] \in Answers /\ answer[c].asked = request[c].body

CacheInv ==
    RequestsOK /\ EntriesMatch /\ LatestStays /\ AsksItsOwn /\ NoForeignReplay

LEMMA PutMatches ==
    ASSUME now \in Nat, EntriesMatch, LatestStays,
           NEW k \in Keys, NEW body \in Answers, Carries(k, body),
           Put(k, body),
           latest' = [j \in DOMAIN entries' |->
                        IF j = k /\ body.size <= MaxBytes
                        THEN [body |-> body, storedAt |-> now] ELSE latest[j]]
    PROVE  EntriesMatch' /\ LatestStays'
<1> DEFINE map == [j \in DOMAIN entries \cup {k} |->
                      IF j = k THEN [body |-> body, storedAt |-> now] ELSE entries[j]]
<1>1. CASE body.size > MaxBytes
  <2>1. entries' = entries
    BY <1>1 DEF Put, cacheVars
  <2>2. body.size \in Nat /\ MaxBytes \in Nat
    BY CacheAssumption DEF Answers
  <2>3. ~(body.size <= MaxBytes)
    BY <1>1, <2>2
  <2>4. QED
    BY <2>1, <2>3 DEF EntriesMatch, LatestStays, Carries
<1>2. CASE ~(body.size > MaxBytes)
  <2>1. PICK gone : entries' = [j \in DOMAIN map \ gone |-> map[j]]
    BY <1>2 DEF Put, Evict
  <2>2. body.size \in Nat /\ MaxBytes \in Nat
    BY CacheAssumption DEF Answers
  <2>3. body.size <= MaxBytes
    BY <1>2, <2>2
  <2>4. \A j \in DOMAIN entries' :
           /\ j \in Keys
           /\ \/ j = k /\ entries'[j] = [body |-> body, storedAt |-> now]
              \/ j # k /\ j \in DOMAIN entries /\ entries'[j] = entries[j]
    BY <2>1 DEF EntriesMatch
  <2> HIDE DEF map
  <2>5. EntriesMatch'
    BY <2>4 DEF EntriesMatch, Carries
  <2>6. LatestStays'
    BY <2>3, <2>4 DEF LatestStays
  <2>7. QED
    BY <2>5, <2>6
<1>3. QED
  BY <1>1, <1>2

LEMMA CacheInvariant == Spec => []CacheInv
<1>1. Init => CacheInv
  BY DEF Init, CacheInv, RequestsOK, EntriesMatch, LatestStays, AsksItsOwn,
         NoForeignReplay
<1>2. CacheInv /\ [Next]_vars => CacheInv'
  <2> SUFFICES ASSUME CacheInv, [Next]_vars PROVE CacheInv'
    OBVIOUS
  <2> USE DEF CacheInv, RequestsOK
  <2>1. CASE Tick \/ UNCHANGED vars
    BY <2>1 DEF Tick, vars, cacheVars, EntriesMatch, LatestStays, Carries,
                AsksItsOwn, NoForeignReplay
  <2>2. ASSUME NEW c \in Clients, NEW m \in Endpoints, NEW b \in Bodies, Hit(c, m, b)
        PROVE  CacheInv'
    <3> DEFINE k == <<UpstreamOf[m], b>>
    <3>1. /\ k \in DOMAIN entries
          /\ entries[k].body \in Answers
          /\ entries[k].body.from = UpstreamOf[m]
          /\ entries[k].body.asked = b
      BY <2>2 DEF Hit, EntriesMatch, Carries
    <3>2. /\ request' = [request EXCEPT ![c] = [model |-> m, body |-> b]]
          /\ phase' = [phase EXCEPT ![c] = "hit"]
          /\ answer' = [answer EXCEPT ![c] = entries[k].body]
          /\ entries' = entries /\ latest' = latest /\ now' = now
      BY <2>2 DEF Hit, Asks
    <3> HIDE DEF k
    <3>3. [model |-> m, body |-> b] \in Request
      BY DEF Request
    <3>4. RequestsOK'
      BY <3>1, <3>2, <3>3
    <3>5. EntriesMatch' /\ LatestStays'
      BY <3>2 DEF EntriesMatch, LatestStays, Carries
    <3>6. AsksItsOwn' /\ NoForeignReplay'
      BY <3>1, <3>2 DEF AsksItsOwn, NoForeignReplay
    <3>7. QED
      BY <3>4, <3>5, <3>6
  <2>3. ASSUME NEW c \in Clients, NEW m \in Endpoints, NEW b \in Bodies, Miss(c, m, b)
        PROVE  CacheInv'
    <3>1. /\ request' = [request EXCEPT ![c] = [model |-> m, body |-> b]]
          /\ phase' = [phase EXCEPT ![c] = "miss"]
          /\ answer' = [answer EXCEPT ![c] = Nothing]
          /\ now' = now
      BY <2>3 DEF Miss, Asks
    <3>2. [model |-> m, body |-> b] \in Request
      BY DEF Request
    <3>3. RequestsOK'
      BY <3>1, <3>2
    <3>4. EntriesMatch' /\ LatestStays'
      <4>1. /\ DOMAIN entries' \subseteq DOMAIN entries
            /\ \A k \in DOMAIN entries' : entries'[k] = entries[k]
        <5>1. CASE UNCHANGED cacheVars
          BY <5>1 DEF cacheVars
        <5>2. CASE DropKey(<<UpstreamOf[m], b>>)
          BY <5>2 DEF DropKey, Remove
        <5>3. QED
          BY <2>3, <5>1, <5>2 DEF Miss
      <4>2. latest' = [j \in DOMAIN entries' |-> latest[j]]
        BY <2>3 DEF Miss
      <4>3. QED
        BY <4>1, <4>2 DEF EntriesMatch, LatestStays, Carries
    <3>5. AsksItsOwn' /\ NoForeignReplay'
      BY <3>1, <3>2 DEF AsksItsOwn, NoForeignReplay
    <3>6. QED
      BY <3>3, <3>4, <3>5
  <2>4. ASSUME NEW c \in Clients, Deliver(c) PROVE CacheInv'
    <3>1. phase[c] = "miss" /\ request[c] \in Request
      BY <2>4 DEF Deliver, AsksItsOwn
    <3>2. PICK m \in Endpoints, n \in Sizes :
             answer' = [answer EXCEPT ![c] =
                          [from |-> UpstreamOf[m], asked |-> request[c].body, size |-> n]]
      BY <2>4 DEF Deliver
    <3> DEFINE a == [from |-> UpstreamOf[m], asked |-> request[c].body, size |-> n]
    <3>3. a \in Answers /\ a.asked = request[c].body
      BY <3>1 DEF Answers, UpstreamIds, Request
    <3>4. answer' = [answer EXCEPT ![c] = a]
          /\ phase' = [phase EXCEPT ![c] = "delivered"]
          /\ request' = request /\ entries' = entries
          /\ latest' = latest /\ now' = now
      BY <2>4, <3>2 DEF Deliver, cacheVars
    <3> HIDE DEF a
    <3>5. RequestsOK'
      BY <3>3, <3>4
    <3>6. EntriesMatch' /\ LatestStays'
      BY <3>4 DEF EntriesMatch, LatestStays, Carries
    <3>7. AsksItsOwn' /\ NoForeignReplay'
      BY <3>1, <3>3, <3>4 DEF AsksItsOwn, NoForeignReplay
    <3>8. QED
      BY <3>5, <3>6, <3>7
  <2>5. ASSUME NEW c \in Clients, DeliverNothing(c) PROVE CacheInv'
    BY <2>5 DEF DeliverNothing, cacheVars, EntriesMatch, LatestStays, Carries,
                AsksItsOwn, NoForeignReplay
  <2>6. ASSUME NEW c \in Clients, Store(c) PROVE CacheInv'
    <3>1. /\ answer[c] \in Answers /\ answer[c].asked = request[c].body
          /\ request[c] \in Request
      BY <2>6 DEF Store, AsksItsOwn
    <3>2. StoreKey(c) \in Keys /\ Carries(StoreKey(c), answer[c])
      BY <3>1 DEF StoreKey, Keys, Answers, Request, Carries
    <3>3. EntriesMatch' /\ LatestStays'
      BY <2>6, <3>1, <3>2, PutMatches DEF Store
    <3>4. /\ phase' = [phase EXCEPT ![c] = "idle"]
          /\ request' = [request EXCEPT ![c] = Nothing]
          /\ answer' = [answer EXCEPT ![c] = Nothing]
          /\ now' = now
      BY <2>6 DEF Store
    <3>5. RequestsOK' /\ AsksItsOwn' /\ NoForeignReplay'
      BY <3>4 DEF AsksItsOwn, NoForeignReplay
    <3>6. QED
      BY <3>3, <3>5
  <2>7. QED
    BY <2>1, <2>2, <2>3, <2>4, <2>5, <2>6 DEF Next
<1>3. QED
  BY <1>1, <1>2, PTL DEF Spec

(* ResponseCache::get and put, with cache_key over the upstream model id:   *)
(* whatever was stored, replaced, evicted or failed over in between, a hit  *)
(* replays an answer of the request's own model to the request's own body.  *)
THEOREM HitsAreOwn == Spec => []NoForeignReplay
BY CacheInvariant, PTL DEF CacheInv

(* ResponseCache::get: a hit replays the last answer stored under its key,  *)
(* less than ttl after it was stored, whoever used it in between.           *)
THEOREM HitsAreFreshAlways == Spec => HitsAreFresh
<1>1. CacheInv /\ [Next]_vars =>
         [\A c \in Clients, m \in Endpoints, b \in Bodies :
            Hit(c, m, b) =>
               LET last == latest[<<UpstreamOf[m], b>>]
               IN  /\ answer'[c] = last.body
                   /\ Ttl # NeverExpires => now - last.storedAt < Ttl]_vars
  <2> SUFFICES ASSUME CacheInv,
                      NEW c \in Clients, NEW m \in Endpoints, NEW b \in Bodies,
                      Hit(c, m, b)
               PROVE  LET last == latest[<<UpstreamOf[m], b>>]
                      IN  /\ answer'[c] = last.body
                          /\ Ttl # NeverExpires => now - last.storedAt < Ttl
    OBVIOUS
  <2> DEFINE k == <<UpstreamOf[m], b>>
  <2>1. k \in DOMAIN entries /\ ~Expired(entries[k])
        /\ answer' = [answer EXCEPT ![c] = entries[k].body]
    BY DEF Hit
  <2> HIDE DEF k
  <2>2. answer'[c] = entries[k].body
    BY <2>1 DEF CacheInv, RequestsOK
  <2>3. /\ latest[k].body = entries[k].body
        /\ latest[k].storedAt = entries[k].storedAt
        /\ entries[k].storedAt \in Nat /\ now \in Nat /\ Ttl \in Nat
    BY <2>1, CacheAssumption DEF CacheInv, LatestStays, EntriesMatch, RequestsOK
  <2>4. Ttl # NeverExpires => now - latest[k].storedAt < Ttl
    BY <2>1, <2>3 DEF Expired
  <2>5. QED
    BY <2>2, <2>3, <2>4 DEF k
<1>2. QED
  BY <1>1, CacheInvariant, PTL DEF Spec, HitsAreFresh

-----------------------------------------------------------------------------
(* The fields of the cache agree.                                           *)

Tidy ==
    /\ Lists(lru, DOMAIN entries)
    /\ bytes = SizeOf(entries, DOMAIN entries)
    /\ bytes <= MaxBytes
    /\ Cardinality(DOMAIN entries) <= MaxEntries

LEMMA EntriesSized == ASSUME EntriesMatch PROVE Sized(entries)
BY CacheAssumption DEF EntriesMatch, Sized, Answers

LEMMA TidyFields == Tidy => FieldsAgree
<1> SUFFICES ASSUME Tidy PROVE FieldsAgree
  OBVIOUS
<1>1. Single(lru)
  BY ListedAreFinite DEF Tidy
<1>2. {lru[i] : i \in DOMAIN lru} = DOMAIN entries
  BY DEF Tidy, Lists, Holds
<1>3. QED
  BY <1>1, <1>2 DEF Tidy, FieldsAgree, Single

Stored(k, body) ==
    [j \in DOMAIN entries \cup {k} |->
        IF j = k THEN [body |-> body, storedAt |-> now] ELSE entries[j]]

Touched(k) == Append(Without(lru, k), k)

(* put takes the replaced body off the counter before it adds the new one.  *)
LEMMA PutEvicts ==
    ASSUME EntriesMatch, Tidy, NEW k \in Keys, NEW body \in Answers,
           Put(k, body), ~(body.size > MaxBytes)
    PROVE  LET map == Stored(k, body)
           IN  /\ Sized(map) /\ Lists(Touched(k), DOMAIN map)
               /\ Evict(map, Touched(k), SizeOf(map, DOMAIN map))
<1> DEFINE map == Stored(k, body)
           D == DOMAIN entries
           old == IF k \in D THEN entries[k].body.size ELSE 0
<1>1. Evict(map, Touched(k), Monus(bytes, old) + body.size)
  BY DEF Put, Stored, Touched
<1>2. /\ DOMAIN map = D \cup {k} /\ map[k].body = body
      /\ \A j \in D \ {k} : map[j] = entries[j]
  BY DEF Stored
<1>3. body.size \in Nat
  BY CacheAssumption DEF Answers
<1>4. Sized(map) /\ Sized(entries)
  BY <1>2, <1>3, EntriesSized DEF Sized
<1>5. Lists(Touched(k), DOMAIN map)
  BY <1>2, TouchedLists DEF Tidy, Touched
<1>6. IsFiniteSet(D) /\ IsFiniteSet(DOMAIN map)
  BY <1>5, ListedAreFinite DEF Tidy
<1> HIDE DEF map
<1>7. SizeOf(map, DOMAIN map) = body.size + SizeOf(map, DOMAIN map \ {k})
  BY <1>2, <1>4, <1>6, SizeAdds
<1>8. SizeOf(map, DOMAIN map \ {k}) = SizeOf(entries, D \ {k})
  <2> DEFINE K == DOMAIN map \ {k}
             K2 == D \ {k}
  <2>1. K \cap DOMAIN map = K2 \cap DOMAIN entries /\ IsFiniteSet(K \cap DOMAIN map)
    BY <1>2, <1>6, FS_Subset
  <2>2. \A j \in K \cap DOMAIN map : map[j].body.size = entries[j].body.size
    BY <1>2
  <2> HIDE DEF K, K2
  <2>3. SizeOf(map, K) = SizeOf(entries, K2)
    BY <2>1, <2>2, SizeSame
  <2>4. QED
    BY <2>3 DEF K, K2
<1>9. Monus(bytes, old) = SizeOf(entries, D \ {k}) /\ SizeOf(entries, D \ {k}) \in Nat
  <2>1. bytes = SizeOf(entries, D) /\ SizeOf(entries, D \ {k}) \in Nat
    BY <1>4, <1>6, SizeAdds DEF Tidy
  <2>2. CASE k \in D
    <3>1. SizeOf(entries, D) = entries[k].body.size + SizeOf(entries, D \ {k})
          /\ entries[k].body.size \in Nat
      BY <1>4, <1>6, <2>2, SizeAdds DEF Sized
    <3>2. QED
      BY <2>1, <2>2, <3>1 DEF Monus
  <2>3. CASE k \notin D
    <3>1. D \ {k} = D
      BY <2>3
    <3>2. SizeOf(entries, D \ {k}) = SizeOf(entries, D)
      BY <3>1, Zenon
    <3>3. QED
      BY <2>1, <2>3, <3>2 DEF Monus
  <2>4. QED
    BY <2>2, <2>3
<1>10. Monus(bytes, old) + body.size = SizeOf(map, DOMAIN map)
  BY <1>3, <1>7, <1>8, <1>9
<1>11. Evict(map, Touched(k), SizeOf(map, DOMAIN map))
  BY <1>1, <1>10
<1>12. QED
  BY <1>4, <1>5, <1>11 DEF map

LEMMA PutTidy ==
    ASSUME EntriesMatch, Tidy, NEW k \in Keys, NEW body \in Answers, Put(k, body)
    PROVE  Tidy'
<1>1. CASE body.size > MaxBytes
  BY <1>1 DEF Put, cacheVars, Tidy
<1>2. CASE ~(body.size > MaxBytes)
  BY <1>2, PutEvicts, EvictedFields DEF Tidy
<1>3. QED
  BY <1>1, <1>2

LEMMA DropTidy ==
    ASSUME EntriesMatch, Tidy, NEW k \in DOMAIN entries, DropKey(k)
    PROVE  Tidy'
<1> DEFINE D == DOMAIN entries
<1>1. /\ DOMAIN entries' = D \ {k} /\ \A j \in D \ {k} : entries'[j] = entries[j]
      /\ bytes' = Monus(bytes, entries[k].body.size) /\ lru' = Without(lru, k)
  BY DEF DropKey, Remove
<1>2. Sized(entries) /\ IsFiniteSet(D) /\ IsFiniteSet(D \ {k}) /\ Cardinality(D) \in Nat
      /\ Cardinality(D \ {k}) = Cardinality(D) - 1
  BY EntriesSized, ListedAreFinite, FS_RemoveElement DEF Tidy
<1>3. Lists(lru', DOMAIN entries')
  BY <1>1, DroppedLists DEF Tidy
<1>4. /\ SizeOf(entries, D) = entries[k].body.size + SizeOf(entries, D \ {k})
      /\ entries[k].body.size \in Nat /\ SizeOf(entries, D \ {k}) \in Nat
  BY <1>2, SizeAdds DEF Sized
<1>5. SizeOf(entries, D \ {k}) = SizeOf(entries', D \ {k})
  <2> DEFINE K == D \ {k}
  <2>1. K \cap DOMAIN entries = K \cap DOMAIN entries' /\ IsFiniteSet(K \cap DOMAIN entries)
        /\ \A j \in K \cap DOMAIN entries : entries[j].body.size = entries'[j].body.size
    BY <1>1, <1>2, FS_Subset
  <2> HIDE DEF K
  <2>2. SizeOf(entries, K) = SizeOf(entries', K)
    BY <2>1, SizeSame
  <2>3. QED
    BY <2>2 DEF K
<1>6. bytes' = SizeOf(entries', DOMAIN entries') /\ bytes' <= MaxBytes
  BY <1>1, <1>4, <1>5, CacheAssumption DEF Tidy, Monus
<1>7. Cardinality(DOMAIN entries') <= MaxEntries
  BY <1>1, <1>2, CacheAssumption DEF Tidy
<1>8. QED
  BY <1>3, <1>6, <1>7 DEF Tidy

LEMMA TidyInvariant == Spec => []Tidy
<1>1. Init => Tidy
  <2> SUFFICES ASSUME Init PROVE Tidy
    OBVIOUS
  <2>1. entries = [k \in {} |-> {}] /\ lru = << >> /\ bytes = 0 /\ DOMAIN entries = {}
    BY DEF Init
  <2>2. Lists(lru, DOMAIN entries)
    BY <2>1, EmptySeq DEF Lists, Holds, Precedes
  <2>3. SizeOf(entries, DOMAIN entries) = 0 /\ Cardinality(DOMAIN entries) = 0
    <3>1. IsFiniteSet(DOMAIN entries) /\ Sized(entries)
      BY <2>1, FS_EmptySet DEF Sized
    <3>2. SizeOf(entries, {}) = 0
      BY <3>1, SizeAdds
    <3>3. QED
      BY <2>1, <3>2, FS_EmptySet
  <2>4. QED
    BY <2>1, <2>2, <2>3, CacheAssumption DEF Tidy
<1>2. CacheInv /\ Tidy /\ [Next]_vars => Tidy'
  <2> SUFFICES ASSUME CacheInv, Tidy, [Next]_vars PROVE Tidy'
    OBVIOUS
  <2>0. EntriesMatch
    BY DEF CacheInv
  <2>1. ASSUME UNCHANGED cacheVars PROVE Tidy'
    BY <2>1 DEF cacheVars, Tidy
  <2>2. CASE Tick \/ UNCHANGED vars
    BY <2>1, <2>2 DEF Tick, vars, cacheVars
  <2>3. ASSUME NEW c \in Clients, NEW m \in Endpoints, NEW b \in Bodies, Hit(c, m, b)
        PROVE  Tidy'
    <3> DEFINE k == <<UpstreamOf[m], b>>
    <3>1. k \in DOMAIN entries /\ entries' = entries /\ bytes' = bytes
          /\ lru' = Append(Without(lru, k), k)
      BY <2>3 DEF Hit, Touch
    <3>2. k \in Keys /\ DOMAIN entries \cup {k} = DOMAIN entries
      BY <2>0, <3>1 DEF EntriesMatch
    <3> HIDE DEF k
    <3>3. Lists(lru', DOMAIN entries')
      <4>1. Lists(lru', DOMAIN entries \cup {k})
        BY <3>1, <3>2, TouchedLists DEF Tidy
      <4>2. QED
        BY <3>1, <3>2, <4>1
    <3>4. QED
      BY <3>1, <3>3 DEF Tidy
  <2>4. ASSUME NEW c \in Clients, NEW m \in Endpoints, NEW b \in Bodies, Miss(c, m, b)
        PROVE  Tidy'
    <3> DEFINE k == <<UpstreamOf[m], b>>
    <3>1. UNCHANGED cacheVars \/ (k \in DOMAIN entries /\ DropKey(k))
      BY <2>4 DEF Miss
    <3> HIDE DEF k
    <3>2. QED
      BY <2>0, <2>1, <3>1, DropTidy
  <2>5. ASSUME NEW c \in Clients, Deliver(c) \/ DeliverNothing(c) PROVE Tidy'
    BY <2>1, <2>5 DEF Deliver, DeliverNothing
  <2>6. ASSUME NEW c \in Clients, Store(c) PROVE Tidy'
    <3>1. answer[c] \in Answers /\ request[c] \in Request
      BY <2>6 DEF Store, CacheInv, AsksItsOwn
    <3>2. StoreKey(c) \in Keys /\ Put(StoreKey(c), answer[c])
      BY <2>6, <3>1 DEF Store, StoreKey, Keys, Answers, Request
    <3>3. QED
      BY <2>0, <3>1, <3>2, PutTidy
  <2>7. QED
    BY <2>2, <2>3, <2>4, <2>5, <2>6 DEF Next
<1>3. QED
  BY <1>1, <1>2, CacheInvariant, PTL DEF Spec

(* Types of the cache's fields and of the requests.                         *)
THEOREM TypeCorrect == Spec => []TypeOK
<1>1. CacheInv /\ Tidy => TypeOK
  <2> SUFFICES ASSUME CacheInv, Tidy PROVE TypeOK
    OBVIOUS
  <2>1. bytes \in Nat
    BY EntriesSized, ListedAreFinite, SizeAdds DEF CacheInv, Tidy
  <2>2. lru \in Seq(Keys)
    BY DEF Tidy, Lists
  <2>3. QED
    BY <2>1, <2>2 DEF CacheInv, RequestsOK, EntriesMatch, LatestStays, TypeOK
<1>2. QED
  BY <1>1, CacheInvariant, TidyInvariant, PTL

(* evict, drop_key, touch and put between them: whatever is stored,         *)
(* replaced, evicted and expires, the queue lists every stored key once,    *)
(* the counter is the length of the stored bodies, and both limits hold.    *)
THEOREM FieldsAlwaysAgree == Spec => []FieldsAgree
BY TidyInvariant, TidyFields, PTL

-----------------------------------------------------------------------------
(* The bounded map.                                                         *)

(* An order of use, read off a queue.                                       *)
Reads(order, q) ==
    /\ \A x, y : <<x, y>> \in order <=> Precedes(q, x, y)
    /\ \A p \in order : p = <<p[1], p[2]>>

Order(q) == {<<q[p[1]], q[p[2]]>> : p \in
              {o \in (DOMAIN q) \X (DOMAIN q) : o[1] < o[2]}}

LEMMA OrderReads == ASSUME NEW q PROVE Reads(Order(q), q)
<1>1. \A x, y : <<x, y>> \in Order(q) => Precedes(q, x, y)
  BY DEF Order, Precedes
<1>2. ASSUME NEW x, NEW y, Precedes(q, x, y) PROVE <<x, y>> \in Order(q)
  <2>1. PICK i \in DOMAIN q, j \in DOMAIN q : i < j /\ q[i] = x /\ q[j] = y
    BY <1>2 DEF Precedes
  <2> DEFINE p == <<i, j>>
  <2>2. p \in (DOMAIN q) \X (DOMAIN q) /\ p[1] < p[2] /\ <<x, y>> = <<q[p[1]], q[p[2]]>>
    BY <2>1
  <2> HIDE DEF p
  <2>3. QED
    BY <2>2 DEF Order
<1>3. \A p \in Order(q) : p = <<p[1], p[2]>>
  BY DEF Order
<1>4. QED
  BY <1>1, <1>2, <1>3 DEF Reads

LEMMA BeforeReads == Reads(Before, lru) /\ Reads(Before', lru')
<1>1. Before = Order(lru) /\ Before' = Order(lru')
  BY DEF Before, Order
<1>2. QED
  BY <1>1, OrderReads

LEMMA SameOrder ==
    ASSUME NEW o1, NEW o2, NEW q, Reads(o1, q), Reads(o2, q)
    PROVE  o1 = o2
BY DEF Reads

LEMMA UsedReads ==
    ASSUME NEW q, NEW keys, Lists(q, keys), NEW k \in Keys, NEW order, Reads(order, q)
    PROVE  Reads(Promise!Used(k, keys \cup {k}, order), Append(Without(q, k), k))
<1> DEFINE u == Promise!Used(k, keys \cup {k}, order)
           a == Append(Without(q, k), k)
<1>1. \A x, y : Precedes(a, x, y) <=>
         \/ Precedes(q, x, y) /\ x # k /\ y # k
         \/ x \in keys \ {k} /\ y = k
  BY TouchedLists
<1> HIDE DEF a
<1>2. (keys \cup {k}) \ {k} = keys \ {k}
  OBVIOUS
<1>3. u = {p \in order : p[1] \in keys \ {k} /\ p[2] \in keys \ {k}}
             \cup {<<j, k>> : j \in keys \ {k}}
  BY <1>2 DEF Promise!Used, Promise!OnlyAmong
<1> HIDE DEF u
<1>4. \A p \in u : p = <<p[1], p[2]>>
  BY <1>3 DEF Reads
<1>5. \A x, y : Precedes(q, x, y) => x \in keys /\ y \in keys
  BY DEF Precedes, Lists, Holds
<1>6. \A x, y : <<x, y>> \in u <=>
         \/ <<x, y>> \in order /\ x \in keys \ {k} /\ y \in keys \ {k}
         \/ x \in keys \ {k} /\ y = k
  BY <1>3
<1>7. \A x, y : <<x, y>> \in u <=> Precedes(a, x, y)
  <2> SUFFICES ASSUME NEW x, NEW y PROVE <<x, y>> \in u <=> Precedes(a, x, y)
    OBVIOUS
  <2>1. <<x, y>> \in order <=> Precedes(q, x, y)
    BY DEF Reads
  <2>2. QED
    BY <1>1, <1>5, <1>6, <2>1
<1>8. QED
  BY <1>4, <1>7 DEF Reads, u, a

(* The promise's size of some stored keys is the cache's.                   *)
LEMMA PromisedSize ==
    ASSUME NEW map, NEW keys \in SUBSET DOMAIN map
    PROVE  Promise!SizeOf(map, keys) = SizeOf(map, keys)
<1>1. keys \cap DOMAIN map = keys
  OBVIOUS
<1>2. QED
  BY <1>1 DEF SizeOf, MapThenSumSet, MapThenFoldSet,
              Promise!SizeOf, Promise!MapThenSumSet, Promise!MapThenFoldSet

LEMMA PromisedCardinality ==
    ASSUME NEW S PROVE Promise!Cardinality(S) = Cardinality(S)
BY DEF Promise!Cardinality, Cardinality

(* Evicting pops as few keys as the limits allow, oldest first.             *)
LEMMA EvictKeepsPromise ==
    ASSUME NEW map, Sized(map), NEW queue, Lists(queue, DOMAIN map),
           NEW k \in DOMAIN map, queue[Len(queue)] = k, map[k].body.size <= MaxBytes,
           NEW n, Evicts(map, queue, SizeOf(map, DOMAIN map), n),
           NEW order, Reads(order, queue)
    PROVE  LET rest == DOMAIN map \ Popped(queue, n)
           IN  /\ k \in rest
               /\ rest \in Promise!Suffixes(DOMAIN map, order)
               /\ \A more \in Promise!Suffixes(DOMAIN map, order) :
                     Promise!Fits(map, more) => more \subseteq rest
<1> DEFINE D == DOMAIN map
           L == Len(queue)
           size == SizeOf(map, D)
           Rest(i) == D \ Popped(queue, i)
<1>1. /\ L \in Nat /\ DOMAIN queue = 1..L /\ Single(queue) /\ IsFiniteSet(D)
      /\ n \in Nat /\ n <= L
  <2>1. queue \in Seq(Keys) /\ Single(queue) /\ IsFiniteSet(D) /\ n \in 0..L
    BY ListedAreFinite DEF Lists, Evicts
  <2>2. L \in Nat /\ DOMAIN queue = 1..L
    BY <2>1, LenProperties
  <2>3. QED
    BY <2>1, <2>2
<1>2. \A x : x \in D <=> \E i \in 1..L : queue[i] = x
  BY <1>1 DEF Lists, Holds
<1>3. ASSUME NEW i \in 0..L, NEW j \in 1..L PROVE queue[j] \in Rest(i) <=> j > i
  BY <1>1, <1>2 DEF Popped, Single
<1>4. ASSUME NEW i \in 0..L
      PROVE  /\ Popped(queue, i) \in SUBSET D
             /\ Monus(size, SizeOf(map, Popped(queue, i))) = SizeOf(map, Rest(i))
  <2> DEFINE gone == Popped(queue, i)
  <2>1. gone \in SUBSET D
    BY <1>1, <1>2 DEF Popped
  <2> HIDE DEF gone
  <2>2. /\ size = SizeOf(map, gone) + SizeOf(map, D \ gone)
        /\ SizeOf(map, gone) \in Nat /\ SizeOf(map, D \ gone) \in Nat
    BY <1>1, <2>1, SizeSplits, SizeAdds
  <2>3. Monus(size, SizeOf(map, gone)) = SizeOf(map, D \ gone)
    BY <2>2 DEF Monus
  <2>4. QED
    BY <2>1, <2>3 DEF gone
<1>5. k \in Rest(n)
  <2>1. L \in 1..L
    BY <1>1, <1>2
  <2>2. Rest(L - 1) = {k}
    <3>1. \A x \in D : x \in Rest(L - 1) <=> x = k
      <4> SUFFICES ASSUME NEW x \in D PROVE x \in Rest(L - 1) <=> x = k
        OBVIOUS
      <4>1. PICK j \in 1..L : queue[j] = x
        BY <1>2
      <4>2. L - 1 \in 0..L /\ (j > L - 1 <=> j = L)
        <5> HIDE DEF L
        <5>1. L \in Nat /\ L >= 1 /\ j \in Nat /\ j <= L
          BY <1>1, <2>1
        <5>2. QED
          BY ONLY <5>1
      <4>3. x = k <=> j = L
        BY <1>1, <2>1, <4>1 DEF Single
      <4>4. queue[j] \in Rest(L - 1) <=> j > L - 1
        BY <1>3, <4>2
      <4>5. QED
        BY <4>1, <4>2, <4>3, <4>4
    <3>2. QED
      BY <3>1
  <2>3. Cardinality({k}) = 1 /\ SizeOf(map, {k}) = map[k].body.size
    <3>1. SizeOf(map, {k}) = map[k].body.size + SizeOf(map, {k} \ {k})
      BY <1>1, SizeAdds
    <3>2. {k} \ {k} = {}
      OBVIOUS
    <3>3. SizeOf(map, {k} \ {k}) = 0
      BY <1>1, <3>2, SizeAdds
    <3>4. map[k].body.size \in Nat
      BY DEF Sized
    <3>5. SizeOf(map, {k}) = map[k].body.size
      BY ONLY <3>1, <3>3, <3>4
    <3>6. QED
      BY <3>5, FS_Singleton
  <2>4. Enough(map, queue, size, L - 1)
    <3>1. L - 1 \in 0..L
      BY <1>1, <2>1
    <3>2. Monus(size, SizeOf(map, Popped(queue, L - 1))) = SizeOf(map, {k})
      BY <1>4, <2>2, <3>1
    <3>3. Cardinality(D \ Popped(queue, L - 1)) = 1
      BY <2>2, <2>3
    <3>4. QED
      BY <2>3, <3>2, <3>3, CacheAssumption DEF Enough
  <2>5. n <= L - 1
    BY <1>1, <2>1, <2>4 DEF Evicts
  <2>6. QED
    BY <1>1, <1>3, <2>1, <2>5
<1>6. Rest(n) \in Promise!Suffixes(D, order)
  <2> SUFFICES ASSUME NEW x \in Rest(n), NEW y \in D, <<x, y>> \in order PROVE y \in Rest(n)
    BY DEF Promise!Suffixes
  <2>1. PICK i \in 1..L, j \in 1..L : i < j /\ queue[i] = x /\ queue[j] = y
    BY <1>1 DEF Reads, Precedes
  <2>2. n \in 0..L
    BY <1>1
  <2>3. i > n /\ j > n
    BY <1>1, <1>3, <2>1, <2>2
  <2>4. QED
    BY <1>3, <2>1, <2>2, <2>3
<1>7. ASSUME NEW more \in Promise!Suffixes(D, order), Promise!Fits(map, more),
             NEW x \in more, x \notin Rest(n)
      PROVE  FALSE
  <2>1. more \in SUBSET D /\ \A u \in more, v \in D : <<u, v>> \in order => v \in more
    BY <1>7 DEF Promise!Suffixes
  <2>2. PICK i \in 1..L : queue[i] = x
    BY <1>2, <1>7, <2>1
  <2>3. i <= n /\ i - 1 \in 0..(n - 1) /\ i - 1 \in 0..L /\ i - 1 # L
    BY <1>1, <1>3, <1>7, <2>2
  <2>4. Rest(i - 1) \in SUBSET more
    <3> SUFFICES ASSUME NEW y \in Rest(i - 1) PROVE y \in more
      OBVIOUS
    <3>1. PICK j \in 1..L : queue[j] = y
      BY <1>2
    <3>2. j >= i
      BY <1>3, <2>2, <2>3, <3>1
    <3>3. CASE j = i
      BY <1>7, <2>2, <3>1, <3>3
    <3>4. CASE j > i
      <4>1. Precedes(queue, x, y)
        BY <1>1, <2>2, <3>1, <3>4 DEF Precedes
      <4>2. <<x, y>> \in order
        BY <4>1 DEF Reads
      <4>3. QED
        BY <1>7, <2>1, <4>2
    <3>5. QED
      BY <3>2, <3>3, <3>4
  <2> DEFINE R == Rest(i - 1)
  <2>5. Cardinality(more) <= MaxEntries /\ SizeOf(map, more) <= MaxBytes
    <3>1. Promise!SizeOf(map, more) = SizeOf(map, more)
      BY <2>1, PromisedSize
    <3>2. QED
      BY <1>7, <3>1, PromisedCardinality DEF Promise!Fits
  <2>6. /\ Cardinality(R) <= Cardinality(more)
        /\ Cardinality(R) \in Nat /\ Cardinality(more) \in Nat
    BY <1>1, <2>1, <2>4, FS_Subset, FS_CardinalityType
  <2>7. SizeOf(map, R) <= SizeOf(map, more) /\ SizeOf(map, R) \in Nat
        /\ SizeOf(map, more) \in Nat
    <3> HIDE DEF R
    <3>1. R \in SUBSET more
      BY <2>4 DEF R
    <3>2. /\ SizeOf(map, more) = SizeOf(map, R) + SizeOf(map, more \ R)
          /\ SizeOf(map, R) \in Nat /\ SizeOf(map, more \ R) \in Nat
      BY <1>1, <2>1, <3>1, SizeSplits, SizeAdds
    <3>3. QED
      BY <3>2
  <2>8. ~Enough(map, queue, size, i - 1)
    BY <2>3 DEF Evicts
  <2>9. ~(Cardinality(R) <= MaxEntries /\ SizeOf(map, R) <= MaxBytes)
    BY <1>4, <2>3, <2>8 DEF Enough
  <2> HIDE DEF R
  <2>10. QED
    BY <2>5, <2>6, <2>7, <2>9, CacheAssumption
<1>8. QED
  BY <1>5, <1>6, <1>7

(* Dropping a key takes it out of the order of use.                         *)
LEMMA DropReads ==
    ASSUME Tidy, NEW k, lru' = Without(lru, k), Tidy'
    PROVE  Before' = Promise!OnlyAmong(Before, DOMAIN entries \ {k})
<1> DEFINE o == Promise!OnlyAmong(Before, DOMAIN entries \ {k})
<1>1. Reads(Before, lru) /\ Reads(Before', lru')
  BY BeforeReads
<1>2. \A x, y : Precedes(lru', x, y) <=> Precedes(lru, x, y) /\ x # k /\ y # k
  BY DroppedLists DEF Tidy
<1>3. \A x, y : Precedes(lru, x, y) => x \in DOMAIN entries /\ y \in DOMAIN entries
  BY DEF Tidy, Lists, Precedes, Holds
<1>4. o = {p \in Before : p[1] \in DOMAIN entries \ {k} /\ p[2] \in DOMAIN entries \ {k}}
  BY DEF Promise!OnlyAmong
<1> HIDE DEF o
<1>5. Reads(o, lru')
  BY <1>1, <1>2, <1>3, <1>4 DEF Reads
<1>6. QED
  BY <1>1, <1>5, SameOrder DEF o

(* put implements the promised store.                                       *)
LEMMA PutKeepsPromise ==
    ASSUME EntriesMatch, Tidy, Tidy', NEW k \in Keys, NEW body \in Answers, Put(k, body),
           ~(body.size > MaxBytes), now' = now, Given' = Given
    PROVE  Promise!Store(k, body)
<1> DEFINE map == Stored(k, body)
           D == DOMAIN entries \cup {k}
           queue == Touched(k)
           order == Promise!Used(k, D, Before)
<1>1. Sized(map) /\ Lists(queue, D) /\ Evict(map, queue, SizeOf(map, D)) /\ DOMAIN map = D
  BY PutEvicts DEF Stored
<1>2. body.size \in Nat /\ MaxBytes \in Nat /\ body.size <= MaxBytes /\ k \in D
      /\ map[k].body = body
  <2>1. body.size \in Nat /\ MaxBytes \in Nat
    BY CacheAssumption DEF Answers
  <2>2. map[k].body = body
    BY DEF Stored
  <2>3. QED
    BY <2>1, <2>2
<1>3. queue[Len(queue)] = k
  <2>1. Without(lru, k) \in Seq(Keys)
    BY WithoutKeeps DEF Tidy, Lists
  <2>2. QED
    BY <2>1, AppendProperties DEF Touched
<1>4. Reads(order, queue)
  <2>1. Lists(lru, DOMAIN entries) /\ Reads(Before, lru)
    BY BeforeReads DEF Tidy
  <2>2. QED
    BY <2>1, UsedReads DEF Touched
<1>5. map = [j \in D |-> IF j = k THEN [body |-> body, storedAt |-> now] ELSE entries[j]]
  BY DEF Stored
<1> HIDE DEF map, queue
<1>6. PICK n : /\ Evicts(map, queue, SizeOf(map, D), n)
               /\ entries' = [j \in D \ Popped(queue, n) |-> map[j]]
               /\ bytes' = SizeOf(map, D \ Popped(queue, n))
               /\ lru' = SubSeq(queue, n + 1, Len(queue))
  BY <1>1, EvictPops
<1> DEFINE rest == D \ Popped(queue, n)
<1>7. /\ k \in rest
      /\ rest \in Promise!Suffixes(D, order)
      /\ \A more \in Promise!Suffixes(D, order) :
            Promise!Fits(map, more) => more \subseteq rest
  <2>1. map[k].body.size <= MaxBytes /\ DOMAIN map = D
    BY <1>1, <1>2
  <2>2. LET left == DOMAIN map \ Popped(queue, n)
        IN  /\ k \in left
            /\ left \in Promise!Suffixes(DOMAIN map, order)
            /\ \A more \in Promise!Suffixes(DOMAIN map, order) :
                  Promise!Fits(map, more) => more \subseteq left
    <3>1. /\ Sized(map) /\ Lists(queue, DOMAIN map) /\ k \in DOMAIN map
          /\ Evicts(map, queue, SizeOf(map, DOMAIN map), n)
      BY <1>1, <1>2, <1>6
    <3> HIDE DEF order, D
    <3>2. QED
      BY <1>3, <1>4, <2>1, <3>1, EvictKeepsPromise
  <2>3. QED
    BY <2>1, <2>2
<1>8. DOMAIN entries' = rest /\ entries'[k].body = body
  BY <1>2, <1>6, <1>7
<1>9. Promise!Fits(map, rest)
  <2>1. Cardinality(rest) <= MaxEntries /\ SizeOf(map, rest) <= MaxBytes
    BY <1>6, <1>8 DEF Tidy
  <2>2. Promise!SizeOf(map, rest) = SizeOf(map, rest)
    BY <1>1, PromisedSize
  <2>3. QED
    BY <2>1, <2>2, PromisedCardinality DEF Promise!Fits
<1>10. Before' = Promise!OnlyAmong(order, rest)
  <2>1. Reads(Before', lru')
    BY BeforeReads
  <2>2. \A x, y : Precedes(lru', x, y) <=>
           /\ Precedes(queue, x, y)
           /\ x \notin Popped(queue, n) /\ y \notin Popped(queue, n)
    BY <1>1, <1>6, ListedAreFinite, RestOfQueue DEF Lists, Evicts
  <2>3. \A x, y : Precedes(queue, x, y) => x \in D /\ y \in D
    BY <1>1 DEF Lists, Precedes, Holds
  <2> DEFINE o == Promise!OnlyAmong(order, rest)
  <2>4. o = {p \in order : p[1] \in rest /\ p[2] \in rest}
    BY DEF Promise!OnlyAmong
  <2> HIDE DEF o, order
  <2>5. Reads(o, lru')
    BY <1>4, <2>2, <2>3, <2>4 DEF Reads
  <2>6. o = Before'
    BY <2>1, <2>5, SameOrder
  <2>7. QED
    BY <2>6 DEF o, order
<1>11. entries' = [j \in rest |-> map[j]] /\ rest \in Promise!Suffixes(D, order)
  BY <1>6, <1>7
<1> HIDE DEF rest, order
<1>12. QED
  BY <1>2, <1>5, <1>7, <1>8, <1>9, <1>10, <1>11 DEF Promise!Store, order

LEMMA StepKeepsPromise ==
    ASSUME CacheInv, Tidy, Tidy', [Next]_vars
    PROVE  [Promise!Next]_<<now, entries, Before, Given>>
<1> USE DEF CacheInv, RequestsOK
<1>0. Reads(Before, lru) /\ Reads(Before', lru')
  BY BeforeReads
<1>1. ASSUME UNCHANGED lru PROVE Before' = Before
  BY <1>1 DEF Before
<1>2. ASSUME UNCHANGED <<phase, answer>> PROVE Given' = Given
  BY <1>2 DEF Given
<1>3. ASSUME NEW c \in Clients, NEW p, NEW a,
             phase' = [phase EXCEPT ![c] = p], answer' = [answer EXCEPT ![c] = a]
      PROVE  Given' = [Given EXCEPT ![c] = IF p = "hit" THEN a ELSE Nothing]
  <2>1. \A d \in Clients : phase'[d] = (IF d = c THEN p ELSE phase[d])
                        /\ answer'[d] = (IF d = c THEN a ELSE answer[d])
    BY <1>3
  <2>2. QED
    BY <2>1 DEF Given
<1>4. CASE Tick
  BY <1>1, <1>2, <1>4 DEF Tick, cacheVars, Promise!Next, Promise!Pass
<1>5. CASE UNCHANGED vars
  BY <1>1, <1>2, <1>5 DEF vars
<1>6. ASSUME NEW c \in Clients, NEW m \in Endpoints, NEW b \in Bodies, Hit(c, m, b)
      PROVE  Promise!Next
  <2> DEFINE k == <<UpstreamOf[m], b>>
  <2>1. /\ k \in DOMAIN entries /\ ~Expired(entries[k])
        /\ entries' = entries /\ now' = now
        /\ lru' = Append(Without(lru, k), k)
        /\ phase' = [phase EXCEPT ![c] = "hit"]
        /\ answer' = [answer EXCEPT ![c] = entries[k].body]
    BY <1>6 DEF Hit, Touch
  <2>2. k \in Keys /\ DOMAIN entries \cup {k} = DOMAIN entries
    BY <2>1 DEF EntriesMatch
  <2> HIDE DEF k
  <2>3. ~Promise!Expired(entries[k])
    BY <2>1 DEF Expired, Promise!Expired, NeverExpires, Promise!NeverExpires
  <2>4. Before' = Promise!Used(k, DOMAIN entries, Before)
    <3>1. Reads(Promise!Used(k, DOMAIN entries \cup {k}, Before), lru')
      BY <1>0, <2>1, <2>2, UsedReads DEF Tidy
    <3>2. Reads(Promise!Used(k, DOMAIN entries, Before), lru')
      BY <2>2, <3>1
    <3>3. QED
      BY <1>0, <3>2, SameOrder
  <2>5. Given' = [Given EXCEPT ![c] = entries[k].body]
    BY <1>3, <2>1
  <2>6. Promise!Hit(c, k)
    BY <2>1, <2>3, <2>4, <2>5 DEF Promise!Hit
  <2>7. QED
    BY <2>2, <2>6 DEF Promise!Next
<1>7. ASSUME NEW c \in Clients, NEW m \in Endpoints, NEW b \in Bodies, Miss(c, m, b)
      PROVE  Promise!Next
  <2> DEFINE k == <<UpstreamOf[m], b>>
  <2>1. /\ phase' = [phase EXCEPT ![c] = "miss"]
        /\ answer' = [answer EXCEPT ![c] = Nothing]
        /\ now' = now
        /\ UNCHANGED cacheVars \/ (k \in DOMAIN entries /\ Expired(entries[k]) /\ DropKey(k))
    BY <1>7 DEF Miss
  <2> HIDE DEF k
  <2>2. Given' = [Given EXCEPT ![c] = Nothing]
    BY <1>3, <2>1
  <2>3. CASE UNCHANGED cacheVars
    BY <1>1, <2>1, <2>2, <2>3 DEF cacheVars, Promise!Next, Promise!Miss
  <2>4. CASE k \in DOMAIN entries /\ Expired(entries[k]) /\ DropKey(k)
    <3>1. Promise!Expired(entries[k])
      BY <2>4 DEF Expired, Promise!Expired, NeverExpires, Promise!NeverExpires
    <3>2. entries' = [j \in DOMAIN entries \ {k} |-> entries[j]] /\ lru' = Without(lru, k)
      BY <2>4 DEF DropKey, Remove
    <3>3. Before' = Promise!OnlyAmong(Before, DOMAIN entries \ {k})
      BY <3>2, DropReads
    <3>4. Promise!Miss(c)
      BY <2>1, <2>2, <2>4, <3>1, <3>2, <3>3 DEF Promise!Miss
    <3>5. QED
      BY <3>4 DEF Promise!Next
  <2>5. QED
    BY <2>1, <2>3, <2>4
<1>8. ASSUME NEW c \in Clients, Deliver(c)
      PROVE  UNCHANGED <<now, entries, Before, Given>>
  <2>1. PICK r : /\ phase[c] = "miss" /\ phase' = [phase EXCEPT ![c] = "delivered"]
                 /\ answer' = [answer EXCEPT ![c] = r]
                 /\ UNCHANGED <<now, entries, lru>>
    BY <1>8 DEF Deliver, cacheVars
  <2>2. Given' = [Given EXCEPT ![c] = Nothing]
    <3>1. Given' = [Given EXCEPT ![c] = IF "delivered" = "hit" THEN r ELSE Nothing]
      BY ONLY <1>3, <2>1
    <3>2. QED
      BY <3>1
  <2>3. Given' = Given
    BY <2>1, <2>2 DEF Given
  <2>4. QED
    BY <1>1, <2>1, <2>3
<1>9. ASSUME NEW c \in Clients, DeliverNothing(c)
      PROVE  UNCHANGED <<now, entries, Before, Given>>
  <2>1. /\ phase[c] = "miss" /\ phase' = [phase EXCEPT ![c] = "idle"]
        /\ answer' = answer /\ UNCHANGED <<now, entries, lru>>
    BY <1>9 DEF DeliverNothing, cacheVars
  <2>2. Given' = Given
    BY <2>1 DEF Given
  <2>3. QED
    BY <1>1, <2>1, <2>2
<1>10. ASSUME NEW c \in Clients, Store(c)
       PROVE  Promise!Next \/ UNCHANGED <<now, entries, Before, Given>>
  <2>1. answer[c] \in Answers /\ request[c] \in Request
    BY <1>10 DEF Store, AsksItsOwn
  <2>2. StoreKey(c) \in Keys /\ Put(StoreKey(c), answer[c])
    BY <1>10, <2>1 DEF Store, StoreKey, Keys, Answers, Request
  <2>3. Given' = Given /\ now' = now
    <3>1. /\ phase[c] = "delivered" /\ phase' = [phase EXCEPT ![c] = "idle"]
          /\ answer' = [answer EXCEPT ![c] = Nothing] /\ now' = now
      BY <1>10 DEF Store
    <3>2. Given' = [Given EXCEPT ![c] = Nothing]
      BY <1>3, <3>1
    <3>3. Given' = Given
      BY <3>1, <3>2 DEF Given
    <3>4. QED
      BY <3>1, <3>3
  <2>4. CASE answer[c].size > MaxBytes
    BY <1>1, <2>2, <2>3, <2>4 DEF Put, cacheVars
  <2>5. CASE ~(answer[c].size > MaxBytes)
    <3>1. Promise!Store(StoreKey(c), answer[c])
      BY <2>1, <2>2, <2>3, <2>5, PutKeepsPromise
    <3>2. QED
      BY <2>1, <2>2, <3>1 DEF Promise!Next
  <2>6. QED
    BY <2>4, <2>5
<1>11. QED
  BY <1>4, <1>5, <1>6, <1>7, <1>8, <1>9, <1>10 DEF Next

(* ResponseCache::get, put, touch, drop_key and evict keep what BoundedCache*)
(* promises: eviction forgets as few keys as the limits allow, those used   *)
(* longest ago, never the one just stored, and a lookup returns what was    *)
(* stored and nothing past its time to live.                                *)
THEOREM CacheKeepsPromise == Spec => KeepsPromise
<1>1. Init => Promise!Init
  <2> SUFFICES ASSUME Init PROVE Promise!Init
    OBVIOUS
  <2>1. Before = {}
    BY DEF Init, Before
  <2>2. Given = [c \in Clients |-> Nothing]
    BY DEF Init, Given
  <2>3. QED
    BY <2>1, <2>2 DEF Init, Promise!Init
<1>2. CacheInv /\ Tidy /\ Tidy' /\ [Next]_vars
         => [Promise!Next]_<<now, entries, Before, Given>>
  BY StepKeepsPromise
<1>3. QED
  BY <1>1, <1>2, CacheInvariant, TidyInvariant, PTL DEF Spec, KeepsPromise, Promise!Spec
=============================================================================
