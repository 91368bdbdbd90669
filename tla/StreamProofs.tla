---------------------------- MODULE StreamProofs ----------------------------
(***************************************************************************)
(* Theorems of AnthropicStream, for every script and every set of calls.    *)
(*                                                                         *)
(* The argument is about the stream as the client will have seen it when    *)
(* the buffer is empty: out \o pending.  While the translator reads, its    *)
(* fields are what the lines read so far determine (After): the slots hold  *)
(* the arguments of each call in order, the stream carries the text and     *)
(* nothing else, and block 0 is open exactly when there was text.  Each of  *)
(* the four kinds of lines preserves that (FeedFits), hence so does a whole *)
(* chunk (FeedLinesFits), and finish completes the message behind it        *)
(* (FinishCompletes).  Emit moves an event inside the stream; every prefix  *)
(* of a well-formed stream is one, which gives the refinement of            *)
(* MessageStream.                                                           *)
(*                                                                         *)
(* InOrder, FlattenSeq and FeedLines are a choice, a function and a fold:   *)
(* the first lemmas say what they return.                                   *)
(***************************************************************************)
EXTENDS AnthropicStream, FiniteSetTheorems, WellFoundedInduction,
        SequenceTheorems, TLAPS

(* A set of numbers that has a member has a least one.                      *)
LEMMA LeastExists ==
    ASSUME NEW S \in SUBSET Nat, S # {}
    PROVE  \E i \in S : \A j \in S : i <= j
<1>1. PICK i \in S : \A j \in S : <<j, i>> \notin OpToRel(<, Nat)
  BY NatLessThanWellFounded, WFMin, Zenon
<1>2. \A j \in S : ~(j < i)
  BY <1>1 DEF OpToRel
<1>3. QED
  BY <1>2

(* A set that holds 0 and with every number the next holds them all.        *)
LEMMA NaturalSteps ==
    ASSUME NEW N, 0 \in N, \A n \in Nat : n \in N => n + 1 \in N
    PROVE  Nat \subseteq N
<1> SUFFICES ASSUME Nat \ N # {} PROVE FALSE
  OBVIOUS
<1>1. PICK n \in Nat \ N : \A m \in Nat \ N : n <= m
  BY LeastExists
<1>2. n # 0 /\ n - 1 \in Nat /\ n - 1 \notin Nat \ N
  BY <1>1
<1>3. n - 1 \in N /\ n - 1 \in Nat /\ (n - 1) + 1 = n
  BY <1>2
<1>4. QED
  BY <1>3

-----------------------------------------------------------------------------
(* What InOrder returns.                                                    *)

Increasing(s) == \A i, j \in DOMAIN s : i < j => s[i] < s[j]

(* The numbers of S, each once, in order.                                   *)
Lists(s, S) ==
    /\ s \in Seq(S)
    /\ Increasing(s)
    /\ \A x \in S : \E i \in DOMAIN s : s[i] = x

(* A list of S goes through S without a repetition.                         *)
LEMMA ListsInjective ==
    ASSUME NEW S \in SUBSET Nat, NEW s, Lists(s, S)
    PROVE  s \in Bijection(1..Len(s), S)
<1>1. Len(s) \in Nat /\ s \in [1..Len(s) -> S] /\ DOMAIN s = 1..Len(s)
  BY DEF Lists
<1>2. \A i, j \in 1..Len(s) : i # j => s[i] # s[j]
  <2> SUFFICES ASSUME NEW i \in 1..Len(s), NEW j \in 1..Len(s), i < j
               PROVE  s[i] # s[j]
    OBVIOUS
  <2>1. s[i] < s[j] /\ s[i] \in Nat /\ s[j] \in Nat
    BY <1>1 DEF Lists, Increasing
  <2>2. QED
    BY <2>1
<1>3. s \in Injection(1..Len(s), S)
  BY <1>1, <1>2 DEF Injection, IsInjective
<1>4. s \in Surjection(1..Len(s), S)
  BY <1>1 DEF Lists, Surjection
<1>5. QED
  BY <1>3, <1>4 DEF Bijection

(* Only a finite set has a list, as long as the set is large.               *)
LEMMA ListsCounts ==
    ASSUME NEW S \in SUBSET Nat, NEW s, Lists(s, S)
    PROVE  Len(s) \in Nat /\ IsFiniteSet(S) /\ Cardinality(S) = Len(s)
<1>1. Len(s) \in Nat
  BY DEF Lists
<1>2. ExistsBijection(1..Len(s), S)
  BY ListsInjective DEF ExistsBijection
<1>3. QED
  BY <1>1, <1>2, FS_CountingElements, FS_NatBijection

(* An element's place counts the smaller ones.                              *)
LEMMA Place ==
    ASSUME NEW S \in SUBSET Nat, NEW s, Lists(s, S), NEW i \in DOMAIN s
    PROVE  Cardinality({x \in S : x < s[i]}) = i - 1
<1> DEFINE T == {x \in S : x < s[i]}
           u == [j \in 1..(i - 1) |-> s[j]]
<1>1. Len(s) \in Nat /\ s \in [1..Len(s) -> S] /\ DOMAIN s = 1..Len(s) /\ i \in 1..Len(s)
  BY DEF Lists
<1>2. \A j, k \in 1..Len(s) : j < k => s[j] < s[k]
  BY <1>1 DEF Lists, Increasing
<1>3. u \in Seq(T) /\ Len(u) = i - 1
  <2>1. \A j \in 1..(i - 1) : s[j] \in T
    BY <1>1, <1>2
  <2>2. i - 1 \in Nat
    BY <1>1
  <2> HIDE DEF T
  <2>3. QED
    BY <2>1, <2>2
<1>4. \A x \in T : \E j \in DOMAIN u : u[j] = x
  <2> SUFFICES ASSUME NEW x \in S, x < s[i]
               PROVE  \E j \in 1..(i - 1) : s[j] = x
    OBVIOUS
  <2>1. PICK j \in 1..Len(s) : s[j] = x
    BY <1>1 DEF Lists
  <2>2. j < i
    <3>1. CASE j = i
      BY <2>1, <1>1, <3>1
    <3>2. CASE i < j
      <4>1. s[i] < s[j] /\ s[i] \in Nat /\ s[j] \in Nat
        BY <1>1, <1>2, <2>1, <3>2
      <4>2. QED
        BY <4>1, <2>1
    <3>3. QED
      BY <3>1, <3>2, <1>1, <2>1
  <2>3. QED
    BY <2>1, <2>2, <1>1
<1>5. Increasing(u)
  BY <1>1, <1>2 DEF Increasing
<1>6. T \in SUBSET Nat /\ Lists(u, T)
  BY <1>3, <1>4, <1>5 DEF Lists
<1> HIDE DEF T, u
<1>7. Cardinality(T) = Len(u)
  BY <1>6, ListsCounts
<1>8. QED
  BY <1>7, <1>3 DEF T

(* There is one such list at most ...                                       *)
LEMMA ListsUnique ==
    ASSUME NEW S \in SUBSET Nat, NEW s, NEW u, Lists(s, S), Lists(u, S)
    PROVE  s = u
<1>1. /\ Len(s) \in Nat /\ s \in [1..Len(s) -> S] /\ DOMAIN s = 1..Len(s)
      /\ Len(u) \in Nat /\ u \in [1..Len(u) -> S] /\ DOMAIN u = 1..Len(u)
  BY DEF Lists
<1>2. Len(s) = Len(u)
  BY ListsCounts
<1>3. ASSUME NEW i \in 1..Len(s) PROVE s[i] = u[i]
  <2>1. PICK j \in DOMAIN u : u[j] = s[i]
    BY <1>1 DEF Lists
  <2>2. Cardinality({x \in S : x < s[i]}) = i - 1
    BY <1>1, Place
  <2>3. Cardinality({x \in S : x < u[j]}) = j - 1
    BY <1>1, <2>1, Place
  <2>4. i = j
    BY <1>1, <2>1, <2>2, <2>3
  <2>5. QED
    BY <2>1, <2>4
<1>4. QED
  BY <1>1, <1>2, <1>3

(* The empty list is the list of the empty set.                             *)
LEMMA EmptyList == Lists(<< >>, {})
BY DEF Lists, Increasing

(* A number above all others goes to the end of the list.                   *)
LEMMA ListsAppend ==
    ASSUME NEW S \in SUBSET Nat, NEW s, Lists(s, S),
           NEW k \in Nat, \A x \in S : x < k
    PROVE  Lists(Append(s, k), S \cup {k})
<1> DEFINE T == S \cup {k}
           u == Append(s, k)
<1>1. Len(s) \in Nat /\ s \in [1..Len(s) -> S] /\ DOMAIN s = 1..Len(s) /\ s \in Seq(T)
  BY DEF Lists
<1>2. /\ u \in Seq(T) /\ Len(u) = Len(s) + 1 /\ DOMAIN u = 1..(Len(s) + 1)
      /\ \A i \in 1..Len(s) : u[i] = s[i]
      /\ u[Len(s) + 1] = k
  BY <1>1
<1>3. Increasing(u)
  <2> SUFFICES ASSUME NEW i \in 1..(Len(s) + 1), NEW j \in 1..(Len(s) + 1), i < j
               PROVE  u[i] < u[j]
    BY <1>2 DEF Increasing
  <2>1. i \in 1..Len(s) /\ u[i] = s[i] /\ s[i] \in S
    BY <1>1, <1>2
  <2>2. CASE j = Len(s) + 1
    BY <2>1, <2>2, <1>2
  <2>3. CASE j \in 1..Len(s)
    <3>1. s[i] < s[j]
      BY <2>1, <2>3, <1>1 DEF Lists, Increasing
    <3>2. QED
      BY <3>1, <2>1, <2>3, <1>2
  <2>4. QED
    BY <2>2, <2>3, <1>1
<1>4. \A x \in T : \E i \in DOMAIN u : u[i] = x
  <2> SUFFICES ASSUME NEW x \in T PROVE \E i \in 1..(Len(s) + 1) : u[i] = x
    BY <1>2
  <2>1. CASE x = k
    BY <2>1, <1>1, <1>2
  <2>2. CASE x \in S
    <3>1. PICK i \in 1..Len(s) : s[i] = x
      BY <2>2, <1>1 DEF Lists
    <3>2. QED
      BY <3>1, <1>1, <1>2
  <2>3. QED
    BY <2>1, <2>2
<1>5. QED
  BY <1>2, <1>3, <1>4 DEF Lists

(* ... and for a finite set there is one.                                   *)
LEMMA ListExists ==
    ASSUME NEW S \in SUBSET Nat, IsFiniteSet(S)
    PROVE  \E s : Lists(s, S)
<1> DEFINE N == {n \in Nat : \A T \in SUBSET Nat :
                    (\A x \in T : x < n) => \E s : Lists(s, T)}
<1>1. 0 \in N
  <2> SUFFICES ASSUME NEW T \in SUBSET Nat, \A x \in T : x < 0
               PROVE  \E s : Lists(s, T)
    OBVIOUS
  <2>1. T = {}
    OBVIOUS
  <2>2. QED
    BY <2>1, EmptyList
<1>2. ASSUME NEW n \in Nat, n \in N PROVE n + 1 \in N
  <2> SUFFICES ASSUME NEW T \in SUBSET Nat, \A x \in T : x < n + 1
               PROVE  \E s : Lists(s, T)
    OBVIOUS
  <2> DEFINE U == T \ {n}
  <2>1. U \in SUBSET Nat /\ \A x \in U : x < n
    OBVIOUS
  <2>2. PICK s : Lists(s, U)
    BY <1>2, <2>1
  <2>3. CASE n \in T
    <3>1. T = U \cup {n}
      BY <2>3
    <3> HIDE DEF U
    <3>2. QED
      BY <2>1, <2>2, <3>1, ListsAppend
  <2>4. CASE n \notin T
    <3>1. T = U
      BY <2>4
    <3>2. QED
      BY <3>1, <2>2
  <2>5. QED
    BY <2>3, <2>4
<1>3. Nat \subseteq N
  <2> HIDE DEF N
  <2>1. QED
    BY <1>1, <1>2, NaturalSteps
<1>4. \E n \in Nat : \A x \in S : x < n
  <2>1. PICK n \in Nat : ExistsSurjection(1..n, S)
    BY FS_NatSurjection
  <2>2. PICK f \in [1..n -> S] : \A x \in S : \E i \in 1..n : f[i] = x
    BY <2>1 DEF ExistsSurjection, Surjection
  <2> DEFINE M == {m \in Nat : m <= n => \E b \in Nat : \A i \in 1..m : f[i] < b}
  <2>3. 0 \in M
    OBVIOUS
  <2>4. ASSUME NEW m \in Nat, m \in M PROVE m + 1 \in M
    <3> SUFFICES ASSUME m + 1 <= n
                 PROVE  \E b \in Nat : \A i \in 1..(m + 1) : f[i] < b
      OBVIOUS
    <3>1. PICK b \in Nat : \A i \in 1..m : f[i] < b
      BY <2>4
    <3>2. f[m + 1] \in Nat /\ \A i \in 1..m : f[i] \in Nat
      <4>1. m + 1 \in 1..n /\ \A i \in 1..m : i \in 1..n
        BY <2>4
      <4>2. QED
        BY <4>1, <2>2
    <3>3. \A i \in 1..(m + 1) : f[i] < b + f[m + 1] + 1
      BY <3>1, <3>2
    <3>4. QED
      BY <3>2, <3>3
  <2>5. n \in M
    <3> HIDE DEF M
    <3>1. QED
      BY <2>3, <2>4, NaturalSteps
  <2>6. PICK b \in Nat : \A i \in 1..n : f[i] < b
    BY <2>5
  <2>7. \A x \in S : x < b
    BY <2>2, <2>6
  <2>8. QED
    BY <2>7
<1>5. QED
  BY <1>3, <1>4

(* InOrder returns the list of its set ...                                  *)
LEMMA InOrderLists ==
    ASSUME NEW S \in SUBSET Nat, IsFiniteSet(S)
    PROVE  Lists(InOrder(S), S)
<1> DEFINE Fits(s) == s \in [1..Cardinality(S) -> S] /\ Increasing(s)
<1>1. PICK s : Lists(s, S)
  BY ListExists
<1>2. Fits(s)
  BY <1>1, ListsCounts DEF Lists
<1>3. InOrder(S) = CHOOSE q \in [1..Cardinality(S) -> S] : Increasing(q)
  BY DEF InOrder, Increasing
<1>4. Fits(InOrder(S))
  BY <1>2, <1>3
<1> DEFINE q == InOrder(S)
           n == Cardinality(S)
<1>5. n \in Nat
  BY FS_CardinalityType
<1>6. q \in [1..n -> S] /\ Increasing(q)
  BY <1>4
<1> HIDE DEF q, n
<1>7. q \in Injection(1..n, S)
  <2>1. \A i, j \in 1..n : i < j => q[i] # q[j]
    <3> SUFFICES ASSUME NEW i \in 1..n, NEW j \in 1..n, i < j PROVE q[i] # q[j]
      OBVIOUS
    <3>1. q[i] < q[j] /\ q[i] \in Nat
      BY <1>6 DEF Increasing
    <3>2. QED
      BY <3>1
  <2>2. \A i, j \in 1..n : q[i] = q[j] => i = j
    BY <2>1, <1>5
  <2>3. QED
    BY <2>2, <1>6 DEF Injection, IsInjective
<1>8. Cardinality(1..n) = n
  BY <1>5, FS_Interval
<1>9. q \in Surjection(1..n, S)
  BY <1>7, <1>8, FS_Injection DEF n
<1>10. \A x \in S : \E i \in 1..n : q[i] = x
  BY <1>9 DEF Surjection
<1>11. q \in Seq(S)
  BY <1>5, <1>6
<1>12. Lists(q, S)
  BY <1>6, <1>10, <1>11 DEF Lists
<1>13. QED
  BY <1>12 DEF q

(* ... and grows at the end by a number above all others.                   *)
LEMMA InOrderAppend ==
    ASSUME NEW S \in SUBSET Nat, IsFiniteSet(S),
           NEW k \in Nat, \A x \in S : x < k
    PROVE  InOrder(S \cup {k}) = Append(InOrder(S), k)
<1> DEFINE T == S \cup {k}
<1>1. T \in SUBSET Nat /\ IsFiniteSet(T)
  BY FS_AddElement
<1>2. Lists(Append(InOrder(S), k), T)
  BY InOrderLists, ListsAppend
<1>3. Lists(InOrder(T), T)
  BY <1>1, InOrderLists
<1> HIDE DEF T
<1>4. InOrder(T) = Append(InOrder(S), k)
  BY <1>1, <1>2, <1>3, ListsUnique
<1>5. QED
  BY <1>4 DEF T

(* Nothing has an empty order.                                              *)
LEMMA InOrderEmpty == InOrder({}) = << >>
BY EmptyList, InOrderLists, ListsUnique, FS_EmptySet

-----------------------------------------------------------------------------
(***************************************************************************)
(* What FlattenSeq returns.                                                 *)
(***************************************************************************)
(* The function that FlattenSeq chooses.                                    *)
Flattens(f, ss) ==
    f = [i \in 1..Len(ss) |-> IF i = 1 THEN ss[i] ELSE f[i - 1] \o ss[i]]

(* FlattenSeq is the last value of a function that flattens.                *)
LEMMA FlattenIs ==
    ASSUME NEW ss, Len(ss) # 0
    PROVE  FlattenSeq(ss) = (CHOOSE f : Flattens(f, ss))[Len(ss)]
BY DEF FlattenSeq, Flattens

(* The concatenation of the first sequences of ss, for each number of them. *)
Joins(g, ss, V) ==
    /\ g \in [0..Len(ss) -> Seq(V)]
    /\ g[0] = << >>
    /\ \A i \in 1..Len(ss) : g[i] = g[i - 1] \o ss[i]

(* The concatenations exist for every sequence of sequences.                *)
LEMMA JoinsExists ==
    ASSUME NEW V, NEW ss \in Seq(Seq(V))
    PROVE  \E g : Joins(g, ss, V)
<1> DEFINE OK(g, n) == /\ g \in [0..n -> Seq(V)]
                       /\ g[0] = << >>
                       /\ \A i \in 1..n : g[i] = g[i - 1] \o ss[i]
           N == {n \in Nat : n <= Len(ss) => \E g : OK(g, n)}
<1>0. Len(ss) \in Nat /\ \A i \in 1..Len(ss) : ss[i] \in Seq(V)
  OBVIOUS
<1>1. 0 \in N
  <2> DEFINE g == [i \in 0..0 |-> << >>]
  <2>1. OK(g, 0)
    OBVIOUS
  <2>2. QED
    BY <2>1
<1>2. ASSUME NEW n \in Nat, n \in N PROVE n + 1 \in N
  <2>a. n \in Nat /\ n + 1 \in Nat /\ (n <= Len(ss) => \E g : OK(g, n))
    <3> HIDE DEF OK
    <3>1. QED
      BY <1>2
  <2> SUFFICES ASSUME n + 1 <= Len(ss) PROVE \E g : OK(g, n + 1)
    <3> HIDE DEF OK
    <3>1. QED
      BY <2>a
  <2>b. n <= Len(ss)
    BY <1>0, <2>a
  <2>1. PICK g : OK(g, n)
    BY <2>a, <2>b
  <2> DEFINE h == [i \in 0..(n + 1) |-> IF i = n + 1 THEN g[n] \o ss[n + 1] ELSE g[i]]
  <2>2. g[n] \in Seq(V) /\ ss[n + 1] \in Seq(V)
    BY <1>0, <2>a, <2>b, <2>1
  <2>3. g[n] \o ss[n + 1] \in Seq(V)
    BY <2>2
  <2>4. /\ h[n + 1] = g[n] \o ss[n + 1]
        /\ \A i \in 0..n : h[i] = g[i]
    <3>1. n + 1 \in 0..(n + 1) /\ \A i \in 0..n : i \in 0..(n + 1) /\ i # n + 1
      BY <2>a
    <3>2. QED
      BY <3>1, Zenon
  <2>5. h \in [0..(n + 1) -> Seq(V)]
    <3> SUFFICES ASSUME NEW i \in 0..(n + 1) PROVE h[i] \in Seq(V)
      OBVIOUS
    <3>1. i = n + 1 \/ i \in 0..n
      BY <2>a
    <3> HIDE DEF h
    <3>2. QED
      BY <3>1, <2>1, <2>3, <2>4
  <2>6. \A i \in 1..(n + 1) : h[i] = h[i - 1] \o ss[i]
    <3> SUFFICES ASSUME NEW i \in 1..(n + 1) PROVE h[i] = h[i - 1] \o ss[i]
      OBVIOUS
    <3>1. \/ i = n + 1 /\ i - 1 \in 0..n /\ i - 1 = n
          \/ i \in 1..n /\ i \in 0..n /\ i - 1 \in 0..n
      BY <2>a
    <3> HIDE DEF h
    <3>2. QED
      BY <3>1, <2>1, <2>4
  <2>7. h[0] = << >>
    BY <2>1
  <2>8. OK(h, n + 1)
    BY <2>5, <2>6, <2>7
  <2>9. QED
    BY <2>8
<1>3. Len(ss) \in N
  <2> HIDE DEF N
  <2>1. QED
    BY <1>0, <1>1, <1>2, NaturalSteps
<1>4. PICK g : OK(g, Len(ss))
  <2>1. Len(ss) <= Len(ss)
    BY <1>0
  <2> HIDE DEF OK
  <2>2. QED
    BY <1>3, <2>1
<1>5. QED
  BY <1>4 DEF Joins

(* A function that flattens exists.                                         *)
LEMMA FlattenExists ==
    ASSUME NEW V, NEW ss \in Seq(Seq(V))
    PROVE  \E f : Flattens(f, ss)
<1>1. PICK g : Joins(g, ss, V)
  BY JoinsExists
<1> DEFINE f == [i \in 1..Len(ss) |-> g[i]]
<1>2. ASSUME NEW i \in 1..Len(ss)
      PROVE  g[i] = IF i = 1 THEN ss[i] ELSE f[i - 1] \o ss[i]
  <2>1. g[i] = g[i - 1] \o ss[i] /\ g[0] = << >>
    BY <1>1 DEF Joins
  <2>a. ss[i] \in Seq(V) /\ Len(ss) \in Nat
    OBVIOUS
  <2>2. CASE i = 1
    <3>0. i - 1 = 0
      BY <2>2
    <3>1. g[i] = << >> \o ss[i]
      BY <2>1, <3>0, Zenon
    <3>2. << >> \o ss[i] = ss[i]
      BY <2>a
    <3>3. QED
      BY <3>1, <3>2, <2>2
  <2>3. CASE i # 1
    <3>1. i - 1 \in 1..Len(ss)
      BY <2>3
    <3>2. QED
      BY <2>1, <2>3, <3>1
  <2>4. QED
    BY <2>2, <2>3
<1>3. QED
  BY <1>2 DEF Flattens

(* FlattenSeq is the concatenation of all of them.                          *)
LEMMA FlattenJoins ==
    ASSUME NEW V, NEW ss \in Seq(Seq(V)), NEW g, Joins(g, ss, V)
    PROVE  FlattenSeq(ss) = g[Len(ss)]
<1>0. Len(ss) \in Nat /\ \A i \in 1..Len(ss) : ss[i] \in Seq(V)
  OBVIOUS
<1>1. CASE Len(ss) = 0
  <2>1. ss = << >>
    BY <1>1
  <2>2. QED
    BY <2>1, <1>1 DEF FlattenSeq, Joins
<1>2. CASE Len(ss) # 0
  <2> DEFINE f == CHOOSE f : Flattens(f, ss)
  <2>1. Flattens(f, ss)
    BY FlattenExists
  <2> HIDE DEF f
  <2>2. \A i \in 1..Len(ss) : f[i] = IF i = 1 THEN ss[i] ELSE f[i - 1] \o ss[i]
    BY <2>1 DEF Flattens
  <2> DEFINE N == {n \in Nat : n \in 1..Len(ss) => f[n] = g[n]}
  <2>3. 0 \in N
    OBVIOUS
  <2>4. ASSUME NEW n \in Nat, n \in N PROVE n + 1 \in N
    <3> SUFFICES ASSUME n + 1 \in 1..Len(ss) PROVE f[n + 1] = g[n + 1]
      OBVIOUS
    <3>0. n \in Nat /\ (n \in 1..Len(ss) => f[n] = g[n]) /\ (n + 1) - 1 = n
      BY <2>4
    <3>1. g[n + 1] = g[n] \o ss[n + 1] /\ g[0] = << >>
      BY <3>0 DEF Joins
    <3>2. CASE n = 0
      <4>1. f[1] = ss[1] /\ ss[1] \in Seq(V)
        BY <2>2, <3>2, <1>0
      <4>0. n + 1 = 1
        BY <3>2
      <4>2. g[1] = << >> \o ss[1]
        BY <3>1, <3>2, <4>0, Zenon
      <4>3. << >> \o ss[1] = ss[1]
        BY <4>1
      <4>4. QED
        BY <4>1, <4>2, <4>3, <3>2
    <3>3. CASE n # 0
      <4>0. n \in 1..Len(ss) /\ n + 1 # 1
        BY <1>0, <3>0, <3>3
      <4>1. f[n + 1] = f[n] \o ss[n + 1] /\ f[n] = g[n]
        BY <2>2, <3>0, <4>0
      <4>2. QED
        BY <4>1, <3>1
    <3>4. QED
      BY <3>2, <3>3
  <2>5. Len(ss) \in N
    <3> HIDE DEF N
    <3>1. QED
      BY <1>0, <2>3, <2>4, NaturalSteps
  <2>6. FlattenSeq(ss) = f[Len(ss)]
    BY <1>2, FlattenIs DEF f
  <2>7. QED
    BY <1>0, <1>2, <2>5, <2>6
<1>3. QED
  BY <1>1, <1>2

(* Nothing concatenates to nothing.                                         *)
LEMMA FlattenEmpty == FlattenSeq(<< >>) = << >>
BY DEF FlattenSeq

(* The members of the concatenation are members of the sequences.           *)
LEMMA FlattenType ==
    ASSUME NEW V, NEW ss \in Seq(Seq(V))
    PROVE  FlattenSeq(ss) \in Seq(V)
<1>1. PICK g : Joins(g, ss, V)
  BY JoinsExists
<1>2. FlattenSeq(ss) = g[Len(ss)]
  BY <1>1, FlattenJoins
<1>3. Len(ss) \in Nat /\ g \in [0..Len(ss) -> Seq(V)]
  BY <1>1 DEF Joins
<1>4. QED
  BY <1>2, <1>3

(* One sequence more goes to the end of the concatenation.                  *)
LEMMA FlattenAppend ==
    ASSUME NEW V, NEW ss \in Seq(Seq(V)), NEW x \in Seq(V)
    PROVE  FlattenSeq(Append(ss, x)) = FlattenSeq(ss) \o x
<1> DEFINE tt == Append(ss, x)
           n == Len(ss)
<1>1. /\ n \in Nat /\ tt \in Seq(Seq(V)) /\ Len(tt) = n + 1
      /\ \A i \in 1..n : tt[i] = ss[i]
      /\ tt[n + 1] = x
  OBVIOUS
<1> HIDE DEF tt
<1>2. PICK g : Joins(g, tt, V)
  BY <1>1, JoinsExists
<1> DEFINE h == [i \in 0..n |-> g[i]]
<1>3. Joins(h, ss, V)
  <2>1. /\ g \in [0..(n + 1) -> Seq(V)]
        /\ g[0] = << >>
        /\ \A i \in 1..(n + 1) : g[i] = g[i - 1] \o tt[i]
    BY <1>1, <1>2 DEF Joins
  <2>2. h \in [0..n -> Seq(V)] /\ h[0] = << >>
    BY <2>1, <1>1
  <2>3. ASSUME NEW i \in 1..n PROVE h[i] = h[i - 1] \o ss[i]
    <3>1. i \in 1..(n + 1) /\ i \in 0..n /\ i - 1 \in 0..n
      BY <1>1
    <3>2. QED
      BY <3>1, <2>1, <1>1
  <2>4. QED
    BY <2>2, <2>3 DEF Joins
<1>4. FlattenSeq(ss) = g[n]
  BY <1>1, <1>3, FlattenJoins
<1>5. FlattenSeq(tt) = g[n + 1]
  BY <1>1, <1>2, FlattenJoins
<1>6. g[n + 1] = g[n] \o x
  <2>1. n + 1 \in 1..Len(tt) /\ (n + 1) - 1 = n
    BY <1>1
  <2>2. g[n + 1] = g[(n + 1) - 1] \o tt[n + 1]
    BY <1>2, <2>1 DEF Joins
  <2>3. QED
    BY <2>1, <2>2, <1>1
<1>7. QED
  BY <1>4, <1>5, <1>6 DEF tt

-----------------------------------------------------------------------------
(***************************************************************************)
(* FeedLines takes the lines one after the other.                           *)
(***************************************************************************)
(* The places of a sequence are folded from the last.                       *)
Greatest(s) == CHOOSE x \in s : \A y \in s : x >= y

(* The function that the fold computes on the sets of places.               *)
Folds(it, t, lines) ==
    it = [s \in SUBSET (DOMAIN lines) |->
            IF s = {} THEN t
            ELSE Feed(it[s \ {Greatest(s)}], lines[Greatest(s)])]

(* FeedLines is the fold of the library, written out.                       *)
LEMMA FeedLinesIsFold ==
    ASSUME NEW t, NEW lines
    PROVE  FeedLines(t, lines) = (CHOOSE it : Folds(it, t, lines))[DOMAIN lines]
BY DEF FeedLines, FoldLeft, MapThenFoldSet, Folds, Greatest, Max

(* The greatest of the first places is the last.                            *)
LEMMA GreatestExists ==
    ASSUME NEW n \in Nat, NEW s \in SUBSET (1..n), s # {}
    PROVE  Greatest(s) \in s /\ \A y \in s : Greatest(s) >= y
<1> DEFINE D == {n - x : x \in s}
<1>1. D \in SUBSET Nat /\ D # {}
  <2>1. \A x \in s : n - x \in Nat
    OBVIOUS
  <2>2. PICK x : x \in s
    OBVIOUS
  <2>3. n - x \in D
    BY <2>2
  <2>4. QED
    BY <2>1, <2>3
<1>2. PICK d \in D : \A e \in D : d <= e
  <2> HIDE DEF D
  <2>1. QED
    BY <1>1, LeastExists
<1>3. PICK x \in s : d = n - x
  BY <1>2
<1>4. \A y \in s : n - x <= n - y
  BY <1>2, <1>3
<1>5. \A y \in s : x >= y
  BY <1>4
<1>6. QED
  BY <1>3, <1>5 DEF Greatest

(* The function that the fold computes exists.                              *)
LEMMA FoldExists ==
    ASSUME NEW t, NEW lines, NEW n \in Nat, DOMAIN lines = 1..n
    PROVE  \E it : Folds(it, t, lines)
<1> DEFINE S == 1..n
           Rest(s) == s \ {Greatest(s)}
           Upto(m) == {s \in SUBSET S : Cardinality(s) <= m}
           OK(it, m) == it = [s \in Upto(m) |-> IF s = {} THEN t
                                ELSE Feed(it[Rest(s)], lines[Greatest(s)])]
           N == {m \in Nat : \E it : OK(it, m)}
<1>0. IsFiniteSet(S) /\ Cardinality(S) = n
  BY FS_Interval
<1>1. \A s \in SUBSET S : IsFiniteSet(s) /\ Cardinality(s) \in Nat /\ Cardinality(s) <= n
  BY <1>0, FS_Subset, FS_CardinalityType
<1>2. \A s \in SUBSET S : s # {} => /\ Rest(s) \in SUBSET S
                                    /\ Cardinality(Rest(s)) = Cardinality(s) - 1
  BY <1>1, FS_RemoveElement, GreatestExists
<1> HIDE DEF Rest
<1>3. 0 \in N
  <2> DEFINE it == [s \in Upto(0) |-> t]
  <2>1. \A s \in Upto(0) : s = {}
    BY <1>1, FS_EmptySet
  <2>2. OK(it, 0)
    BY <2>1
  <2>3. QED
    BY <2>2
<1>4. ASSUME NEW m \in Nat, m \in N PROVE m + 1 \in N
  <2>1. PICK it : OK(it, m)
    BY <1>4
  <2> DEFINE jt == [s \in Upto(m + 1) |-> IF s = {} THEN t
                      ELSE Feed(it[Rest(s)], lines[Greatest(s)])]
  <2>2. \A s \in Upto(m) : s \in Upto(m + 1) /\ jt[s] = it[s]
    <3>1. \A s \in Upto(m) : s \in Upto(m + 1)
      BY <1>1
    <3>2. \A s \in Upto(m) : it[s] = IF s = {} THEN t
                                ELSE Feed(it[Rest(s)], lines[Greatest(s)])
      BY <2>1
    <3>3. QED
      BY <3>1, <3>2
  <2>3. \A s \in Upto(m + 1) : s # {} => Rest(s) \in Upto(m)
    BY <1>1, <1>2
  <2>4. \A s \in Upto(m + 1) : s # {} => jt[Rest(s)] = it[Rest(s)]
    BY <2>2, <2>3
  <2>5. jt = [s \in Upto(m + 1) |-> IF s = {} THEN t
                ELSE Feed(jt[Rest(s)], lines[Greatest(s)])]
    BY <2>4
  <2>6. OK(jt, m + 1)
    BY <2>5
  <2>7. m + 1 \in Nat
    OBVIOUS
  <2> HIDE DEF OK
  <2>8. QED
    BY <2>6, <2>7
<1>5. PICK it : OK(it, n)
  <2>1. Nat \subseteq N
    <3> HIDE DEF N
    <3>1. QED
      BY <1>3, <1>4, NaturalSteps
  <2>2. QED
    BY <2>1
<1>6. Upto(n) = SUBSET S
  BY <1>1
<1>7. QED
  BY <1>5, <1>6 DEF Folds, Rest

(* The translator's fields after each number of lines.                      *)
Feeds(g, t, lines) ==
    /\ DOMAIN g = 0..Len(lines)
    /\ g[0] = t
    /\ \A i \in 1..Len(lines) : g[i] = Feed(g[i - 1], lines[i])

(* FeedLines feeds every line to what the one before has left.              *)
LEMMA FeedLinesSteps ==
    ASSUME NEW t, NEW S, NEW lines \in Seq(S)
    PROVE  \E g : Feeds(g, t, lines) /\ FeedLines(t, lines) = g[Len(lines)]
<1> DEFINE it == CHOOSE it : Folds(it, t, lines)
           n == Len(lines)
<1>1. n \in Nat /\ DOMAIN lines = 1..n
  OBVIOUS
<1>2. Folds(it, t, lines)
  BY <1>1, FoldExists
<1>3. FeedLines(t, lines) = it[1..n]
  BY <1>1, FeedLinesIsFold
<1> HIDE DEF it, n
<1>4. \A s \in SUBSET (1..n) : it[s] = IF s = {} THEN t
            ELSE Feed(it[s \ {Greatest(s)}], lines[Greatest(s)])
  BY <1>1, <1>2 DEF Folds
<1>5. it[1..0] = t
  <2>1. 1..0 = {} /\ {} \in SUBSET (1..n)
    OBVIOUS
  <2>2. QED
    BY <1>4, <2>1
<1>6. ASSUME NEW i \in 1..n PROVE it[1..i] = Feed(it[1..(i - 1)], lines[i])
  <2>1. 1..i \in SUBSET (1..n) /\ i \in 1..i /\ 1..i # {}
    BY <1>1
  <2>2. Greatest(1..i) = i
    <3>1. Greatest(1..i) \in 1..i /\ \A y \in 1..i : Greatest(1..i) >= y
      BY <2>1, <1>1, GreatestExists
    <3>2. QED
      BY <3>1, <2>1, <1>1
  <2>3. (1..i) \ {i} = 1..(i - 1)
    BY <1>1
  <2>4. it[1..i] = Feed(it[(1..i) \ {Greatest(1..i)}], lines[Greatest(1..i)])
    BY <1>4, <2>1
  <2>5. QED
    BY <2>2, <2>3, <2>4
<1> DEFINE g == [i \in 0..n |-> it[1..i]]
<1>7. g[0] = t /\ g[n] = it[1..n] /\ DOMAIN g = 0..n
  BY <1>1, <1>5
<1>8. ASSUME NEW i \in 1..n PROVE g[i] = Feed(g[i - 1], lines[i])
  <2>1. i \in 0..n /\ i - 1 \in 0..n
    BY <1>1
  <2>2. g[i] = it[1..i] /\ g[i - 1] = it[1..(i - 1)]
    BY <2>1
  <2> HIDE DEF g
  <2>3. QED
    BY <1>6, <2>2
<1> HIDE DEF g
<1>9. Feeds(g, t, lines) /\ FeedLines(t, lines) = g[n]
  BY <1>3, <1>7, <1>8 DEF Feeds, n
<1>10. QED
  BY <1>9 DEF n

-----------------------------------------------------------------------------
(***************************************************************************)
(* The shape of a stream of events.                                         *)
(***************************************************************************)
(* The message of which the client has seen s.                              *)
At(s) == INSTANCE MessageStream WITH out <- s

(* Every event may follow the ones before it.                               *)
Formed(s) == \A i \in 1..Len(s) : At(SubSeq(s, 1, i - 1))!MayFollow(s[i])

(* Some event of s is of the type.                                          *)
Says(s, type) == At(s)!Seen(type)

(* The message is under way: no stop reason yet.                            *)
UnderWay(s) ==
    /\ s \in Seq(ClientEvent)
    /\ s # << >>
    /\ Formed(s)
    /\ ~Says(s, "message_delta")
    /\ ~Says(s, "message_stop")

(* n blocks so far, all of them stopped.                                    *)
Between(s, n) ==
    /\ UnderWay(s)
    /\ ~At(s)!BlockOpen
    /\ At(s)!IsNextIndex(n)

(* Block n is open, and the last one.                                       *)
Inside(s, n) ==
    /\ UnderWay(s)
    /\ At(s)!BlockOpen
    /\ At(s)!IsCurrent(n)
    /\ At(s)!IsNextIndex(n + 1)

(* The events the translator makes are events of a client.                  *)
LEMMA EventTypes ==
    /\ MessageStart \in ClientEvent
    /\ MessageStop \in ClientEvent
    /\ \A n \in Nat : /\ \A kind \in {"text", "tool_use"} : BlockStart(n, kind) \in ClientEvent
                      /\ \A parts \in Seq(Nat) : BlockDelta(n, parts) \in ClientEvent
                      /\ BlockStop(n) \in ClientEvent
                      /\ MessageDelta(n) \in ClientEvent
BY DEF ClientEvent, MessageStart, MessageStop, BlockStart, BlockDelta, BlockStop, MessageDelta

(* What appending an event does to a stream.                                *)
LEMMA Appended ==
    ASSUME NEW s \in Seq(ClientEvent), NEW e \in ClientEvent
    PROVE  /\ Append(s, e) \in Seq(ClientEvent)
           /\ Len(Append(s, e)) = Len(s) + 1
           /\ DOMAIN Append(s, e) = 1..(Len(s) + 1)
           /\ DOMAIN s = 1..Len(s)
           /\ Len(s) \in Nat
           /\ \A i \in 1..Len(s) : Append(s, e)[i] = s[i]
           /\ Append(s, e)[Len(s) + 1] = e
OBVIOUS

(* A well-formed stream takes an event that may follow.                     *)
LEMMA FormedAppend ==
    ASSUME NEW s \in Seq(ClientEvent), NEW e \in ClientEvent,
           Formed(s), At(s)!MayFollow(e)
    PROVE  Formed(Append(s, e))
<1> DEFINE u == Append(s, e)
<1>1. /\ u \in Seq(ClientEvent) /\ Len(u) = Len(s) + 1 /\ Len(s) \in Nat
      /\ \A i \in 1..Len(s) : u[i] = s[i]
      /\ u[Len(s) + 1] = e
  BY Appended
<1> HIDE DEF u
<1>2. \A i \in 0..Len(s) : SubSeq(u, 1, i) = SubSeq(s, 1, i)
  BY <1>1
<1>3. SubSeq(s, 1, Len(s)) = s
  BY SubSeqFull
<1>4. ASSUME NEW i \in 1..(Len(s) + 1)
      PROVE  At(SubSeq(u, 1, i - 1))!MayFollow(u[i])
  <2>1. i - 1 \in 0..Len(s)
    BY <1>1
  <2>2. SubSeq(u, 1, i - 1) = SubSeq(s, 1, i - 1)
    BY <1>2, <2>1
  <2>3. CASE i = Len(s) + 1
    <3>1. i - 1 = Len(s)
      BY <2>3, <1>1
    <3>2. SubSeq(u, 1, i - 1) = s
      BY <2>2, <3>1, <1>3
    <3>3. QED
      BY <3>2, <2>3, <1>1
  <2>4. CASE i \in 1..Len(s)
    BY <2>2, <2>4, <1>1 DEF Formed
  <2>5. QED
    BY <2>3, <2>4, <1>1
<1>5. QED
  BY <1>1, <1>4 DEF Formed, u

(* What an event adds to the blocks started and stopped, and to the types   *)
(* seen.                                                                    *)
LEMMA StartedAppend ==
    ASSUME NEW s \in Seq(ClientEvent), NEW e \in ClientEvent
    PROVE  /\ At(Append(s, e))!Started =
                IF e.type = "content_block_start" THEN At(s)!Started \cup {Len(s) + 1}
                                                  ELSE At(s)!Started
           /\ At(Append(s, e))!Stopped =
                IF e.type = "content_block_stop" THEN At(s)!Stopped \cup {Len(s) + 1}
                                                 ELSE At(s)!Stopped
           /\ \A type : Says(Append(s, e), type) <=> Says(s, type) \/ e.type = type
<1> DEFINE u == Append(s, e)
<1>1. /\ DOMAIN u = 1..(Len(s) + 1) /\ DOMAIN s = 1..Len(s) /\ Len(s) \in Nat
      /\ \A i \in 1..Len(s) : u[i] = s[i]
      /\ u[Len(s) + 1] = e
  BY Appended
<1>2. /\ DOMAIN u = DOMAIN s \cup {Len(s) + 1}
      /\ \A i \in DOMAIN s : i # Len(s) + 1 /\ u[i] = s[i]
  BY <1>1
<1> HIDE DEF u
<1>3. /\ At(u)!Started = IF e.type = "content_block_start" THEN At(s)!Started \cup {Len(s) + 1}
                                                           ELSE At(s)!Started
      /\ At(u)!Stopped = IF e.type = "content_block_stop" THEN At(s)!Stopped \cup {Len(s) + 1}
                                                          ELSE At(s)!Stopped
  BY <1>1, <1>2 DEF At!Started, At!Stopped
<1>4. \A type : Says(u, type) <=> Says(s, type) \/ e.type = type
  BY <1>1, <1>2 DEF Says, At!Seen
<1>5. QED
  BY <1>3, <1>4 DEF u

(* Blocks are started and stopped by events of the stream, at a number.     *)
LEMMA BlockIndices ==
    ASSUME NEW s \in Seq(ClientEvent)
    PROVE  /\ At(s)!Started \subseteq 1..Len(s) /\ At(s)!Stopped \subseteq 1..Len(s)
           /\ Len(s) \in Nat
           /\ \A i \in At(s)!Started : s[i].index \in Nat
<1>1. ASSUME NEW i \in At(s)!Started PROVE s[i].index \in Nat
  <2>1. s[i] \in ClientEvent /\ s[i].type = "content_block_start"
    BY DEF At!Started
  <2>2. QED
    BY <2>1 DEF ClientEvent
<1>2. QED
  BY <1>1 DEF At!Started, At!Stopped

(* The first event leaves the message under way, without a block.           *)
LEMMA FirstEvent == Between(<<MessageStart>>, 0)
<1> DEFINE s == <<MessageStart>>
<1>1. s \in Seq(ClientEvent) /\ Len(s) = 1 /\ s[1] = MessageStart /\ DOMAIN s = 1..1
  BY EventTypes
<1>2. MessageStart.type = "message_start"
  BY DEF MessageStart
<1> HIDE DEF s
<1>3. SubSeq(s, 1, 0) = << >>
  BY <1>1
<1>4. Formed(s)
  <2>1. At(<< >>)!MayFollow(MessageStart)
    BY <1>2 DEF At!MayFollow
  <2>2. \A i \in 1..Len(s) : i = 1 /\ i - 1 = 0
    BY <1>1
  <2>3. QED
    BY <1>1, <1>3, <2>1, <2>2 DEF Formed
<1>5. At(s)!Started = {} /\ At(s)!Stopped = {}
  BY <1>1, <1>2 DEF At!Started, At!Stopped
<1>6. ~Says(s, "message_delta") /\ ~Says(s, "message_stop")
  BY <1>1, <1>2 DEF Says, At!Seen
<1>7. s # << >>
  BY DEF s
<1>8. Between(s, 0)
  BY <1>1, <1>4, <1>5, <1>6, <1>7 DEF Between, UnderWay, At!BlockOpen, At!IsNextIndex
<1>9. QED
  BY <1>8 DEF s

(* The next block is started when no block is open.                         *)
LEMMA StartsBlock ==
    ASSUME NEW n \in Nat, NEW kind \in {"text", "tool_use"}, NEW s, Between(s, n)
    PROVE  Inside(Append(s, BlockStart(n, kind)), n)
<1> DEFINE e == BlockStart(n, kind)
           u == Append(s, e)
<1>1. e \in ClientEvent /\ e.type = "content_block_start" /\ e.index = n
  BY EventTypes DEF BlockStart
<1>2. s \in Seq(ClientEvent) /\ s # << >> /\ Formed(s)
  BY DEF Between, UnderWay
<1> HIDE DEF e
<1>3. At(s)!MayFollow(e)
  BY <1>1 DEF At!MayFollow, Between, UnderWay, Says
<1>4. Formed(u)
  BY <1>1, <1>2, <1>3, FormedAppend
<1>5. /\ At(u)!Started = At(s)!Started \cup {Len(s) + 1}
      /\ At(u)!Stopped = At(s)!Stopped
      /\ \A type : Says(u, type) <=> Says(s, type) \/ "content_block_start" = type
  BY <1>1, <1>2, StartedAppend
<1>6. /\ u \in Seq(ClientEvent) /\ Len(s) \in Nat /\ u # << >>
      /\ \A i \in 1..Len(s) : u[i] = s[i]
      /\ u[Len(s) + 1] = e
  BY <1>1, <1>2, Appended
<1>7. /\ At(s)!Started \subseteq 1..Len(s) /\ At(s)!Stopped \subseteq 1..Len(s)
      /\ \A i \in At(s)!Started : s[i].index \in Nat
  BY <1>2, BlockIndices
<1> HIDE DEF u
<1>8. UnderWay(u)
  BY <1>4, <1>5, <1>6 DEF UnderWay, Between
<1>9. At(u)!BlockOpen
  BY <1>5, <1>6, <1>7 DEF At!BlockOpen
<1>10. At(u)!IsCurrent(n)
  BY <1>1, <1>5, <1>6, <1>7 DEF At!IsCurrent
<1>11. At(u)!IsNextIndex(n + 1)
  <2>1. \A i \in At(s)!Started : s[i].index < n /\ u[i] = s[i]
    BY <1>6, <1>7 DEF Between, At!IsNextIndex
  <2>2. \A i \in At(u)!Started : u[i].index < n + 1
    BY <1>1, <1>5, <1>6, <1>7, <2>1
  <2>3. Len(s) + 1 \in At(u)!Started /\ u[Len(s) + 1].index = (n + 1) - 1
    BY <1>1, <1>5, <1>6
  <2>4. QED
    BY <2>2, <2>3 DEF At!IsNextIndex
<1>12. QED
  BY <1>8, <1>9, <1>10, <1>11 DEF Inside, u, e

(* A delta for the open block leaves it open.                               *)
LEMMA FillsBlock ==
    ASSUME NEW n \in Nat, NEW parts \in Seq(Nat), NEW s, Inside(s, n)
    PROVE  Inside(Append(s, BlockDelta(n, parts)), n)
<1> DEFINE e == BlockDelta(n, parts)
           u == Append(s, e)
<1>1. e \in ClientEvent /\ e.type = "content_block_delta" /\ e.index = n
  BY EventTypes DEF BlockDelta
<1>2. s \in Seq(ClientEvent) /\ s # << >> /\ Formed(s)
  BY DEF Inside, UnderWay
<1> HIDE DEF e
<1>3. At(s)!MayFollow(e)
  BY <1>1 DEF At!MayFollow, Inside
<1>4. Formed(u)
  BY <1>1, <1>2, <1>3, FormedAppend
<1>5. /\ At(u)!Started = At(s)!Started
      /\ At(u)!Stopped = At(s)!Stopped
      /\ \A type : Says(u, type) <=> Says(s, type) \/ "content_block_delta" = type
  BY <1>1, <1>2, StartedAppend
<1>6. /\ u \in Seq(ClientEvent) /\ Len(s) \in Nat /\ u # << >>
      /\ \A i \in 1..Len(s) : u[i] = s[i]
  BY <1>1, <1>2, Appended
<1>7. At(s)!Started \subseteq 1..Len(s)
  BY <1>2, BlockIndices
<1> HIDE DEF u
<1>8. UnderWay(u)
  BY <1>4, <1>5, <1>6 DEF UnderWay, Inside
<1>9. \A i \in At(s)!Started : u[i] = s[i]
  BY <1>6, <1>7
<1>10. At(u)!BlockOpen /\ At(u)!IsCurrent(n) /\ At(u)!IsNextIndex(n + 1)
  BY <1>5, <1>9 DEF Inside, At!BlockOpen, At!IsCurrent, At!IsNextIndex
<1>11. QED
  BY <1>8, <1>10 DEF Inside, u, e

(* The stop of the open block makes room for the next.                      *)
LEMMA StopsBlock ==
    ASSUME NEW n \in Nat, NEW s, Inside(s, n)
    PROVE  Between(Append(s, BlockStop(n)), n + 1)
<1> DEFINE e == BlockStop(n)
           u == Append(s, e)
<1>1. e \in ClientEvent /\ e.type = "content_block_stop" /\ e.index = n
  BY EventTypes DEF BlockStop
<1>2. s \in Seq(ClientEvent) /\ s # << >> /\ Formed(s)
  BY DEF Inside, UnderWay
<1> HIDE DEF e
<1>3. At(s)!MayFollow(e)
  BY <1>1 DEF At!MayFollow, Inside
<1>4. Formed(u)
  BY <1>1, <1>2, <1>3, FormedAppend
<1>5. /\ At(u)!Started = At(s)!Started
      /\ At(u)!Stopped = At(s)!Stopped \cup {Len(s) + 1}
      /\ \A type : Says(u, type) <=> Says(s, type) \/ "content_block_stop" = type
  BY <1>1, <1>2, StartedAppend
<1>6. /\ u \in Seq(ClientEvent) /\ Len(s) \in Nat /\ u # << >>
      /\ \A i \in 1..Len(s) : u[i] = s[i]
  BY <1>1, <1>2, Appended
<1>7. At(s)!Started \subseteq 1..Len(s)
  BY <1>2, BlockIndices
<1> HIDE DEF u
<1>8. UnderWay(u)
  BY <1>4, <1>5, <1>6 DEF UnderWay, Inside
<1>9. \A i \in At(s)!Started : u[i] = s[i] /\ ~(Len(s) + 1 < i)
  BY <1>6, <1>7
<1>10. ~At(u)!BlockOpen /\ At(u)!IsNextIndex(n + 1)
  BY <1>5, <1>9 DEF Inside, At!BlockOpen, At!IsNextIndex
<1>11. QED
  BY <1>8, <1>10 DEF Between, u, e

(* The end of a message of at least one block.                              *)
LEMMA EndsMessage ==
    ASSUME NEW n \in Nat \ {0}, NEW k \in Nat, NEW s, Between(s, n)
    PROVE  Formed(Append(Append(s, MessageDelta(k)), MessageStop))
<1> DEFINE e == MessageDelta(k)
           u == Append(s, e)
<1>1. e \in ClientEvent /\ e.type = "message_delta"
  BY EventTypes DEF MessageDelta
<1>2. s \in Seq(ClientEvent) /\ s # << >> /\ Formed(s)
  BY DEF Between, UnderWay
<1> HIDE DEF e
<1>3. At(s)!Started # {}
  BY DEF Between, At!IsNextIndex
<1>4. At(s)!MayFollow(e)
  BY <1>1, <1>3 DEF At!MayFollow, Between, UnderWay, Says
<1>5. Formed(u)
  BY <1>1, <1>2, <1>4, FormedAppend
<1>6. \A type : Says(u, type) <=> Says(s, type) \/ "message_delta" = type
  BY <1>1, <1>2, StartedAppend
<1>7. u \in Seq(ClientEvent)
  BY <1>1, <1>2, Appended
<1> HIDE DEF u
<1>8. MessageStop \in ClientEvent /\ MessageStop.type = "message_stop"
  BY EventTypes DEF MessageStop
<1>9. At(u)!MayFollow(MessageStop)
  BY <1>6, <1>8 DEF At!MayFollow, Between, UnderWay, Says
<1>10. QED
  BY <1>5, <1>7, <1>8, <1>9, FormedAppend DEF u, e

-----------------------------------------------------------------------------
(***************************************************************************)
(* What a stream of events carries.                                         *)
(***************************************************************************)
(* What event e carries for block n.                                        *)
Part(e, n) ==
    IF e.type = "content_block_delta" /\ e.index = n THEN e.parts ELSE << >>

(* An event carries a sequence of numbers, an empty one perhaps.            *)
LEMMA PartType ==
    ASSUME NEW e \in ClientEvent, NEW n
    PROVE  Part(e, n) \in Seq(Nat)
<1>1. CASE e.type = "content_block_delta"
  <2>1. e \in [type : {"content_block_delta"}, index : Nat, parts : Seq(Nat)]
    BY <1>1 DEF ClientEvent
  <2>2. e.parts \in Seq(Nat)
    BY <2>1
  <2>3. QED
    BY <2>2 DEF Part
<1>2. CASE e.type # "content_block_delta"
  BY <1>2 DEF Part
<1>3. QED
  BY <1>1, <1>2

(* The same for every event of a stream.                                    *)
Parts(s, n) == [i \in DOMAIN s |-> Part(s[i], n)]

(* Carried concatenates the parts.                                          *)
LEMMA CarriedIs ==
    ASSUME NEW s, NEW n
    PROVE  Carried(s, n) = FlattenSeq(Parts(s, n))
BY DEF Carried, Parts, Part

(* The parts of a stream are sequences, one for each event.                 *)
LEMMA PartsType ==
    ASSUME NEW s \in Seq(ClientEvent), NEW n
    PROVE  Parts(s, n) \in Seq(Seq(Nat)) /\ Len(Parts(s, n)) = Len(s)
<1> DEFINE f == Parts(s, n)
<1>1. Len(s) \in Nat /\ DOMAIN s = 1..Len(s) /\ \A i \in 1..Len(s) : s[i] \in ClientEvent
  OBVIOUS
<1>2. \A i \in 1..Len(s) : Part(s[i], n) \in Seq(Nat)
  BY <1>1, PartType
<1>3. f \in [1..Len(s) -> Seq(Nat)]
  BY <1>1, <1>2 DEF Parts
<1> HIDE DEF f
<1>4. f \in Seq(Seq(Nat)) /\ Len(f) = Len(s)
  BY <1>1, <1>3
<1>5. QED
  BY <1>4 DEF f

(* What a stream carries in a block is a sequence of numbers.               *)
LEMMA CarriedType ==
    ASSUME NEW s \in Seq(ClientEvent), NEW n
    PROVE  Carried(s, n) \in Seq(Nat)
BY CarriedIs, PartsType, FlattenType

(* One event more carries its part behind the others'.                      *)
LEMMA CarriedAppend ==
    ASSUME NEW s \in Seq(ClientEvent), NEW e \in ClientEvent, NEW n
    PROVE  Carried(Append(s, e), n) = Carried(s, n) \o Part(e, n)
<1> DEFINE u == Append(s, e)
           f == Parts(s, n)
           g == Parts(u, n)
           x == Part(e, n)
<1>1. /\ u \in Seq(ClientEvent) /\ Len(u) = Len(s) + 1 /\ Len(s) \in Nat
      /\ DOMAIN u = 1..(Len(s) + 1) /\ DOMAIN s = 1..Len(s)
      /\ \A i \in 1..Len(s) : u[i] = s[i]
      /\ u[Len(s) + 1] = e
  BY Appended
<1> HIDE DEF u
<1>2. f \in Seq(Seq(Nat)) /\ Len(f) = Len(s) /\ g \in Seq(Seq(Nat)) /\ Len(g) = Len(s) + 1
  BY <1>1, PartsType
<1>3. x \in Seq(Nat)
  BY PartType
<1>4. \A i \in 1..Len(s) : g[i] = f[i]
  BY <1>1 DEF Parts
<1>5. g[Len(s) + 1] = x
  <2>1. Len(s) + 1 \in DOMAIN u
    BY <1>1
  <2>2. QED
    BY <1>1, <2>1 DEF Parts
<1> HIDE DEF f, g, x
<1>6. g = Append(f, x)
  <2> DEFINE h == Append(f, x)
  <2>1. h \in Seq(Seq(Nat)) /\ Len(h) = Len(f) + 1 /\ h[Len(f) + 1] = x
        /\ \A i \in 1..Len(f) : h[i] = f[i]
    BY <1>2, <1>3, AppendProperties
  <2> HIDE DEF h
  <2>2. \A i \in 1..Len(g) : g[i] = h[i]
    <3> SUFFICES ASSUME NEW i \in 1..(Len(s) + 1) PROVE g[i] = h[i]
      BY <1>2
    <3>1. i \in 1..Len(s) \/ i = Len(s) + 1
      BY <1>1
    <3>2. QED
      BY <3>1, <2>1, <1>2, <1>4, <1>5
  <2>3. g = h
    BY <1>2, <2>1, <2>2, SeqEqual
  <2>4. QED
    BY <2>3 DEF h
<1>7. FlattenSeq(g) = FlattenSeq(f) \o x
  BY <1>2, <1>3, <1>6, FlattenAppend
<1>8. QED
  BY <1>7, CarriedIs DEF f, g, u, x

(* An event that is no delta of the block changes nothing there.            *)
LEMMA CarriedSame ==
    ASSUME NEW s \in Seq(ClientEvent), NEW e \in ClientEvent, NEW n,
           e.type # "content_block_delta" \/ e.index # n
    PROVE  Carried(Append(s, e), n) = Carried(s, n)
<1>1. Part(e, n) = << >>
  BY DEF Part
<1>2. Carried(s, n) \in Seq(Nat)
  BY CarriedType
<1>3. QED
  BY <1>1, <1>2, CarriedAppend, ConcatEmptySeq

(* The first event carries nothing.                                         *)
LEMMA FirstCarries ==
    ASSUME NEW n PROVE Carried(<<MessageStart>>, n) = << >>
<1> DEFINE s == << >>
<1>1. s \in Seq(ClientEvent) /\ MessageStart \in ClientEvent
  BY EventTypes
<1>2. MessageStart.type # "content_block_delta"
  BY DEF MessageStart
<1>3. Carried(s, n) = << >>
  BY FlattenEmpty DEF Carried
<1>4. Append(s, MessageStart) = <<MessageStart>>
  OBVIOUS
<1>5. Carried(Append(s, MessageStart), n) = Carried(s, n)
  BY <1>1, <1>2, CarriedSame
<1>6. QED
  BY <1>3, <1>4, <1>5

-----------------------------------------------------------------------------
(* A sequence of one behind a sequence is appended.                         *)
LEMMA ConcatOne ==
    ASSUME NEW V, NEW s \in Seq(V), NEW e \in V
    PROVE  s \o <<e>> = Append(s, e)
BY AppendIsConcat

(* The block of a tool call goes behind the last block.                     *)
LEMMA ToolBlockFits ==
    ASSUME NEW t, NEW c, NEW n \in Nat, t.slots[c] \in Seq(Nat),
           NEW s, Between(s, n)
    PROVE  /\ ToolBlock(t, c, n) \in Seq(ClientEvent)
           /\ Between(s \o ToolBlock(t, c, n), n + 1)
           /\ \A m \in Nat : Carried(s \o ToolBlock(t, c, n), m) =
                 IF m = n THEN Carried(s, m) \o t.slots[c] ELSE Carried(s, m)
<1> DEFINE p == t.slots[c]
           a == BlockStart(n, "tool_use")
           d == BlockDelta(n, p)
           b == BlockStop(n)
           v == Append(s, a)
           w == Append(v, d)
<1>1. p \in Seq(Nat)
  OBVIOUS
<1> HIDE DEF p
<1>2. s \in Seq(ClientEvent) /\ a \in ClientEvent /\ d \in ClientEvent /\ b \in ClientEvent
  BY <1>1, EventTypes DEF Between, UnderWay
<1>3. Inside(v, n) /\ v \in Seq(ClientEvent)
  BY <1>2, StartsBlock, Appended
<1>4. Inside(w, n) /\ w \in Seq(ClientEvent)
  BY <1>1, <1>2, <1>3, FillsBlock, Appended
<1>5. Between(Append(v, b), n + 1) /\ Between(Append(w, b), n + 1)
  BY <1>3, <1>4, StopsBlock
<1>6. /\ a.type = "content_block_start" /\ b.type = "content_block_stop"
      /\ d.type = "content_block_delta" /\ d.index = n /\ d.parts = p
  BY DEF BlockStart, BlockStop, BlockDelta
<1>7. ToolBlock(t, c, n) = (<<a>> \o (IF p = << >> THEN << >> ELSE <<d>>)) \o <<b>>
  BY DEF ToolBlock, p
<1>8. \A m \in Nat : /\ Carried(v, m) = Carried(s, m)
                     /\ Carried(Append(v, b), m) = Carried(v, m)
                     /\ Carried(Append(w, b), m) = Carried(w, m)
                     /\ Carried(w, m) = Carried(v, m) \o (IF m = n THEN p ELSE << >>)
  <2> SUFFICES ASSUME NEW m \in Nat
               PROVE  /\ Carried(v, m) = Carried(s, m)
                      /\ Carried(Append(v, b), m) = Carried(v, m)
                      /\ Carried(Append(w, b), m) = Carried(w, m)
                      /\ Carried(w, m) = Carried(v, m) \o (IF m = n THEN p ELSE << >>)
    OBVIOUS
  <2> HIDE DEF a, b, d, v, w
  <2>1. Carried(v, m) = Carried(s, m)
    <3>1. Carried(Append(s, a), m) = Carried(s, m)
      BY <1>2, <1>6, CarriedSame
    <3>2. QED
      BY <3>1 DEF v
  <2>2. Carried(Append(v, b), m) = Carried(v, m)
    BY <1>2, <1>3, <1>6, CarriedSame
  <2>3. Carried(Append(w, b), m) = Carried(w, m)
    BY <1>2, <1>4, <1>6, CarriedSame
  <2>4. Part(d, m) = IF m = n THEN p ELSE << >>
    BY <1>6 DEF Part
  <2>5. Carried(Append(v, d), m) = Carried(v, m) \o Part(d, m)
    BY <1>2, <1>3, CarriedAppend
  <2>6. QED
    BY <2>1, <2>2, <2>3, <2>4, <2>5 DEF w
<1>9. \A m \in Nat : Carried(s, m) \in Seq(Nat)
  BY <1>2, CarriedType
<1> HIDE DEF a, b, d
<1>10. CASE p = << >>
  <2>1. ToolBlock(t, c, n) = <<a>> \o <<b>>
    <3>1. <<a>> \in Seq(ClientEvent)
      BY <1>2
    <3>2. <<a>> \o << >> = <<a>>
      BY <3>1, ConcatEmptySeq
    <3>3. QED
      BY <3>2, <1>7, <1>10
  <2>2. s \o (<<a>> \o <<b>>) = (s \o <<a>>) \o <<b>>
    <3>1. <<a>> \in Seq(ClientEvent) /\ <<b>> \in Seq(ClientEvent)
      BY <1>2
    <3>2. QED
      BY <1>2, <3>1, ConcatAssociative
  <2>3. s \o <<a>> = v
    BY <1>2, ConcatOne
  <2>4. v \o <<b>> = Append(v, b)
    BY <1>2, <1>3, ConcatOne
  <2>5. s \o ToolBlock(t, c, n) = Append(v, b)
    BY <2>1, <2>2, <2>3, <2>4
  <2>6. <<a>> \o <<b>> \in Seq(ClientEvent)
    BY <1>2
  <2> HIDE DEF v
  <2>7. \A m \in Nat : Carried(Append(v, b), m) = Carried(s, m)
    BY <1>8
  <2>8. \A m \in Nat : Carried(s, m) \o p = Carried(s, m)
    BY <1>9, <1>10, ConcatEmptySeq
  <2>9. QED
    BY <1>5, <2>1, <2>5, <2>6, <2>7, <2>8 DEF p
<1>11. CASE p # << >>
  <2>0. <<a>> \in Seq(ClientEvent) /\ <<b>> \in Seq(ClientEvent) /\ <<d>> \in Seq(ClientEvent)
        /\ <<a>> \o <<d>> \in Seq(ClientEvent)
    BY <1>2
  <2>1. ToolBlock(t, c, n) = (<<a>> \o <<d>>) \o <<b>>
    BY <1>7, <1>11
  <2>2. s \o ((<<a>> \o <<d>>) \o <<b>>) = (s \o (<<a>> \o <<d>>)) \o <<b>>
    BY <1>2, <2>0, ConcatAssociative
  <2>a. s \o (<<a>> \o <<d>>) = (s \o <<a>>) \o <<d>>
    BY <1>2, <2>0, ConcatAssociative
  <2>3. s \o <<a>> = v
    BY <1>2, ConcatOne
  <2>4. v \o <<d>> = w
    BY <1>2, <1>3, ConcatOne
  <2>b. w \o <<b>> = Append(w, b)
    BY <1>2, <1>4, ConcatOne
  <2>5. s \o ToolBlock(t, c, n) = Append(w, b)
    BY <2>1, <2>2, <2>3, <2>4, <2>a, <2>b
  <2>6. (<<a>> \o <<d>>) \o <<b>> \in Seq(ClientEvent)
    BY <2>0
  <2> HIDE DEF v, w
  <2>7. \A m \in Nat : Carried(Append(w, b), m) = Carried(s, m) \o (IF m = n THEN p ELSE << >>)
    BY <1>8
  <2>8. \A m \in Nat : Carried(s, m) \o << >> = Carried(s, m)
    BY <1>9, ConcatEmptySeq
  <2>9. QED
    BY <1>5, <2>1, <2>5, <2>6, <2>7, <2>8 DEF p
<1>12. QED
  BY <1>10, <1>11

-----------------------------------------------------------------------------
(* The block of a tool call is a sequence of events.                        *)
LEMMA ToolBlockType ==
    ASSUME NEW t, NEW c, NEW n \in Nat, t.slots[c] \in Seq(Nat)
    PROVE  ToolBlock(t, c, n) \in Seq(ClientEvent)
<1> DEFINE p == t.slots[c]
           a == BlockStart(n, "tool_use")
           d == BlockDelta(n, p)
           b == BlockStop(n)
<1>1. p \in Seq(Nat)
  OBVIOUS
<1> HIDE DEF p
<1>2. a \in ClientEvent /\ d \in ClientEvent /\ b \in ClientEvent
  BY <1>1, EventTypes
<1>3. ToolBlock(t, c, n) = (<<a>> \o (IF p = << >> THEN << >> ELSE <<d>>)) \o <<b>>
  BY DEF ToolBlock, p
<1> HIDE DEF a, b, d
<1>4. <<a>> \in Seq(ClientEvent) /\ <<b>> \in Seq(ClientEvent) /\ <<d>> \in Seq(ClientEvent)
      /\ << >> \in Seq(ClientEvent)
  BY <1>2
<1> DEFINE x == IF p = << >> THEN << >> ELSE <<d>>
<1>5. x \in Seq(ClientEvent)
  BY <1>4
<1> HIDE DEF x
<1>6. (<<a>> \o x) \o <<b>> \in Seq(ClientEvent)
  BY <1>4, <1>5
<1>7. QED
  BY <1>3, <1>6 DEF x

(* The blocks of the tool calls, from the index first on.                   *)
Blocks(t, tools, first) ==
    FlattenSeq([i \in DOMAIN tools |-> ToolBlock(t, tools[i], first + i - 1)])

(* Blocks first, first + 1, ... carry what the slots hold.                  *)
SlotsCarried(s, t, tools, first) ==
    \A j \in 1..Len(tools) : Carried(s, first + j - 1) = t.slots[tools[j]]

(* The blocks from first on are empty.                                      *)
NothingFrom(s, first) == \A m \in Nat : m >= first => Carried(s, m) = << >>

(* The blocks below first carry the same in both streams.                   *)
SameBelow(s, u, first) == \A m \in Nat : m < first => Carried(u, m) = Carried(s, m)

(* The blocks of all tool calls go behind the last block, in their order.   *)
LEMMA ToolsFit ==
    ASSUME NEW t, NEW C, NEW tools \in Seq(C), \A c \in C : t.slots[c] \in Seq(Nat),
           NEW first \in Nat, NEW s, Between(s, first),
           NothingFrom(s, first)
    PROVE  /\ Blocks(t, tools, first) \in Seq(ClientEvent)
           /\ Between(s \o Blocks(t, tools, first), first + Len(tools))
           /\ SlotsCarried(s \o Blocks(t, tools, first), t, tools, first)
           /\ SameBelow(s, s \o Blocks(t, tools, first), first)
<1> DEFINE ss == [i \in DOMAIN tools |-> ToolBlock(t, tools[i], first + i - 1)]
           n == Len(tools)
<1>1. n \in Nat /\ DOMAIN tools = 1..n /\ \A i \in 1..n : tools[i] \in C
  OBVIOUS
<1>2. \A i \in 1..n : first + i - 1 \in Nat
  BY <1>1
<1>3. \A i \in 1..n : ToolBlock(t, tools[i], first + i - 1) \in Seq(ClientEvent)
  BY <1>1, <1>2, ToolBlockType
<1>4. /\ ss \in Seq(Seq(ClientEvent)) /\ Len(ss) = n
      /\ \A i \in 1..n : ss[i] = ToolBlock(t, tools[i], first + i - 1)
  <2>1. ss \in [1..n -> Seq(ClientEvent)]
    BY <1>1, <1>3
  <2>2. \A i \in 1..n : ss[i] = ToolBlock(t, tools[i], first + i - 1)
    BY <1>1
  <2> HIDE DEF ss, n
  <2>3. QED
    BY <2>1, <2>2, <1>1
<1> HIDE DEF ss, n
<1>5. PICK g : Joins(g, ss, ClientEvent)
  BY <1>4, JoinsExists
<1>6. /\ g \in [0..n -> Seq(ClientEvent)]
      /\ g[0] = << >>
      /\ \A i \in 1..n : g[i] = g[i - 1] \o ss[i]
  BY <1>4, <1>5 DEF Joins
<1>7. FlattenSeq(ss) = g[n]
  BY <1>4, <1>5, FlattenJoins
<1>8. s \in Seq(ClientEvent)
  BY DEF Between, UnderWay
<1> DEFINE Fits(u, i) ==
             /\ Between(u, first + i)
             /\ \A m \in Nat : m >= first + i => Carried(u, m) = << >>
             /\ \A j \in 1..i : Carried(u, first + j - 1) = t.slots[tools[j]]
             /\ \A m \in Nat : m < first => Carried(u, m) = Carried(s, m)
           N == {i \in Nat : i <= n => Fits(s \o g[i], i)}
<1>9. 0 \in N
  <2>1. s \o g[0] = s
    BY <1>6, <1>8, ConcatEmptySeq
  <2>2. first + 0 = first /\ 1..0 = {}
    OBVIOUS
  <2>3. Fits(s, 0)
    BY <2>2 DEF NothingFrom
  <2> HIDE DEF Fits
  <2>4. QED
    BY <2>1, <2>3
<1>10. ASSUME NEW i \in Nat, i \in N PROVE i + 1 \in N
  <2>0. i \in Nat /\ i + 1 \in Nat /\ (i <= n => Fits(s \o g[i], i))
    <3> HIDE DEF Fits
    <3>1. QED
      BY <1>10
  <2> SUFFICES ASSUME i + 1 <= n PROVE Fits(s \o g[i + 1], i + 1)
    <3> HIDE DEF Fits
    <3>1. QED
      BY <2>0
  <2> DEFINE now == s \o g[i]
             next == first + i
             call == tools[i + 1]
             block == ToolBlock(t, call, next)
  <2>1. i <= n /\ i + 1 \in 1..n /\ (i + 1) - 1 = i /\ first + (i + 1) - 1 = next /\ next \in Nat
        /\ i \in 0..n
    BY <2>0, <1>1
  <2>2. Fits(now, i)
    BY <2>0, <2>1
  <2>3. ss[i + 1] = block
    BY <2>1, <1>4
  <2>4. g[i + 1] = g[i] \o block
    <3> HIDE DEF block, next
    <3>1. g[i + 1] = g[(i + 1) - 1] \o ss[i + 1]
      BY <2>1, <1>6
    <3>2. QED
      BY <2>1, <2>3, <3>1
  <2>5. t.slots[call] \in Seq(Nat)
    BY <2>1, <1>1
  <2> HIDE DEF call, next
  <2>6. Between(now, next) /\ \A m \in Nat : m >= next => Carried(now, m) = << >>
    BY <2>2 DEF next
  <2> DEFINE then == now \o block
  <2>7. /\ block \in Seq(ClientEvent)
        /\ Between(then, next + 1)
        /\ \A m \in Nat : Carried(then, m) = IF m = next THEN Carried(now, m) \o t.slots[call]
                                                   ELSE Carried(now, m)
    <3> HIDE DEF now
    <3>1. next \in Nat
      BY <2>1 DEF next
    <3>2. Between(now, next) /\ t.slots[call] \in Seq(Nat)
      BY <2>5, <2>6
    <3> HIDE DEF N, Fits, now
    <3>3. block \in Seq(ClientEvent)
      BY ONLY <3>1, <3>2, ToolBlockFits
    <3>4. Between(then, next + 1)
      BY ONLY <3>1, <3>2, ToolBlockFits
    <3>5. ASSUME NEW m \in Nat
          PROVE  Carried(then, m) = IF m = next THEN Carried(now, m) \o t.slots[call]
                                                ELSE Carried(now, m)
      <4>1. CASE m = next
        <5>1. Carried(now \o ToolBlock(t, call, next), m) = Carried(now, m) \o t.slots[call]
          BY ONLY <3>1, <3>2, <4>1, m \in Nat, ToolBlockFits
        <5>2. QED
          BY ONLY <5>1, <4>1
      <4>2. CASE m # next
        <5>1. Carried(now \o ToolBlock(t, call, next), m) = Carried(now, m)
          BY ONLY <3>1, <3>2, <4>2, m \in Nat, ToolBlockFits
        <5>2. QED
          BY ONLY <5>1, <4>2
      <4>3. QED
        BY <4>1, <4>2
    <3>6. QED
      BY <3>3, <3>4, <3>5
  <2>8. s \o g[i + 1] = then
    <3>1. g[i] \in Seq(ClientEvent)
      BY <1>6, <2>1
    <3>0. block \in Seq(ClientEvent)
      BY <2>7
    <3> DEFINE x == g[i]
    <3>a. x \in Seq(ClientEvent)
      BY <3>1
    <3> HIDE DEF N, Fits, block, x
    <3>2. s \o (x \o block) = (s \o x) \o block
      BY ONLY <1>8, <3>0, <3>a, ConcatAssociative
    <3>3. QED
      BY <2>4, <3>2 DEF x
  <2> HIDE DEF now, then, block
  <2>9. /\ \A j \in 1..i : Carried(now, first + j - 1) = t.slots[tools[j]]
        /\ \A m \in Nat : m < first => Carried(now, m) = Carried(s, m)
    BY <2>2
  <2>10. Carried(then, next) = t.slots[call]
    <3>1. Carried(now, next) = << >>
      BY <2>1, <2>6
    <3>2. Carried(then, next) = << >> \o t.slots[call]
      BY <2>1, <2>7, <3>1
    <3>3. QED
      BY <2>5, <3>2, ConcatEmptySeq
  <2>11. \A m \in Nat : m >= next + 1 => Carried(then, m) = << >>
    BY <2>1, <2>6, <2>7
  <2>12. \A m \in Nat : m < first => Carried(then, m) = Carried(s, m)
    BY <2>0, <2>7, <2>9 DEF next
  <2>13. ASSUME NEW j \in 1..(i + 1) PROVE Carried(then, first + j - 1) = t.slots[tools[j]]
    <3>1. CASE j = i + 1
      BY <3>1, <2>1, <2>10 DEF call
    <3>2. CASE j \in 1..i
      <4>1. first + j - 1 \in Nat /\ first + j - 1 # next
        BY <3>2, <2>0 DEF next
      <4>2. Carried(then, first + j - 1) = Carried(now, first + j - 1)
        BY <4>1, <2>7
      <4>3. QED
        BY <4>2, <3>2, <2>9
    <3>3. QED
      BY <3>1, <3>2, <2>0
  <2>14. next + 1 = first + (i + 1)
    BY <2>0 DEF next
  <2>15. Fits(then, i + 1)
    BY <2>7, <2>11, <2>12, <2>13, <2>14
  <2> HIDE DEF Fits
  <2>16. QED
    BY <2>8, <2>15
<1>11. Fits(s \o g[n], n)
  <2>1. n \in N
    <3> HIDE DEF N
    <3>1. QED
      BY <1>1, <1>9, <1>10, NaturalSteps
  <2>2. n <= n
    BY <1>1
  <2> HIDE DEF Fits
  <2>3. QED
    BY <2>1, <2>2
<1>12. g[n] \in Seq(ClientEvent)
  BY <1>1, <1>6
<1>13. QED
  BY <1>7, <1>11, <1>12 DEF ss, n, Blocks, SlotsCarried, SameBelow

-----------------------------------------------------------------------------
(***************************************************************************)
(* What finish adds to the stream.                                          *)
(***************************************************************************)
(* Types of a translator's fields.                                          *)
Fields(t) ==
    /\ t.text \in {NoBlock, 0}
    /\ DOMAIN t.slots \in SUBSET Nat
    /\ IsFiniteSet(DOMAIN t.slots)
    /\ \A c \in DOMAIN t.slots : t.slots[c] \in Seq(Nat)
    /\ t.reason \in Nat

(* The stream s behind which the translator t stands before it finishes.    *)
Standing(s, t) ==
    /\ t.text = NoBlock => Between(s, 0) /\ Carried(s, 0) = << >>
    /\ t.text = 0 => Inside(s, 0)
    /\ \A m \in Nat : m >= 1 => Carried(s, m) = << >>

(* The parts of Finish.                                                     *)
Tools(t) == InOrder(DOMAIN t.slots)

First(t) == IF t.text = NoBlock /\ Tools(t) # << >> THEN 0 ELSE 1

Ending(t) == <<MessageDelta(t.reason), MessageStop>>

(* Finish, with its parts named.                                            *)
LEMMA FinishIs ==
    ASSUME NEW t
    PROVE  Finish(t) =
             (((IF t.text = NoBlock /\ Tools(t) = << >> THEN <<BlockStart(0, "text")>> ELSE << >>)
               \o (IF First(t) = 1 THEN <<BlockStop(0)>> ELSE << >>))
              \o Blocks(t, Tools(t), First(t)))
             \o Ending(t)
<1>1. First(t) = IF t.text = NoBlock /\ ~(t.text = NoBlock /\ Tools(t) = << >>) THEN 0 ELSE 1
  BY DEF First
<1>2. QED
  BY <1>1, Zenon DEF Finish, Tools, Blocks, Ending

(* The tool calls of the translator, by their index.                        *)
LEMMA ToolsType ==
    ASSUME NEW t, Fields(t)
    PROVE  /\ Tools(t) \in Seq(DOMAIN t.slots)
           /\ Lists(Tools(t), DOMAIN t.slots)
           /\ Len(Tools(t)) \in Nat
           /\ Tools(t) = << >> <=> Len(Tools(t)) = 0
<1>1. Lists(Tools(t), DOMAIN t.slots)
  BY InOrderLists DEF Fields, Tools
<1>2. Tools(t) \in Seq(DOMAIN t.slots)
  BY <1>1 DEF Lists
<1>3. QED
  BY <1>1, <1>2

(* The text's block, if there is to be one, is stopped first.               *)
LEMMA TextStops ==
    ASSUME NEW t, Fields(t), NEW s, Standing(s, t)
    PROVE  LET a == IF t.text = NoBlock /\ Tools(t) = << >>
                    THEN <<BlockStart(0, "text")>> ELSE << >>
               b == IF First(t) = 1 THEN <<BlockStop(0)>> ELSE << >>
               u == s \o (a \o b)
           IN  /\ a \o b \in Seq(ClientEvent)
               /\ Between(u, First(t))
               /\ \A m \in Nat : Carried(u, m) = Carried(s, m)
<1> DEFINE a == IF t.text = NoBlock /\ Tools(t) = << >>
                THEN <<BlockStart(0, "text")>> ELSE << >>
           b == IF First(t) = 1 THEN <<BlockStop(0)>> ELSE << >>
           x == BlockStart(0, "text")
           y == BlockStop(0)
<1>0. x \in ClientEvent /\ y \in ClientEvent /\ x.type = "content_block_start"
      /\ y.type = "content_block_stop"
  BY EventTypes DEF BlockStart, BlockStop
<1>1. s \in Seq(ClientEvent)
  BY DEF Fields, Standing, Between, Inside, UnderWay
<1>2. CASE t.text = NoBlock /\ Tools(t) = << >>
  <2>1. a = <<x>> /\ b = <<y>> /\ First(t) = 1
    BY <1>2 DEF First
  <2> DEFINE v == Append(s, x)
  <2>2. Inside(v, 0)
    BY <1>2, StartsBlock DEF Standing
  <2>3. Between(Append(v, y), 0 + 1)
    BY <2>2, StopsBlock
  <2>4. v \in Seq(ClientEvent)
    BY <2>2 DEF Inside, UnderWay
  <2> HIDE DEF x, y, a, b
  <2>5. <<x>> \in Seq(ClientEvent) /\ <<y>> \in Seq(ClientEvent)
    BY <1>0
  <2>6. \A m \in Nat : Carried(v, m) = Carried(s, m)
    BY <1>0, <1>1, CarriedSame
  <2>7. s \o (a \o b) = Append(v, y)
    <3>1. s \o (<<x>> \o <<y>>) = (s \o <<x>>) \o <<y>>
      BY <1>1, <2>5, ConcatAssociative
    <3>2. s \o <<x>> = v
      BY <1>0, <1>1, ConcatOne
    <3> HIDE DEF v
    <3>3. v \o <<y>> = Append(v, y)
      BY <1>0, <2>4, ConcatOne
    <3>4. QED
      BY <2>1, <3>1, <3>2, <3>3
  <2>8. a \o b \in Seq(ClientEvent)
    BY <2>1, <2>5
  <2> HIDE DEF v
  <2>9. \A m \in Nat : Carried(Append(v, y), m) = Carried(s, m)
    BY <1>0, <2>4, <2>6, CarriedSame
  <2>10. 0 + 1 = 1
    OBVIOUS
  <2>11. QED
    BY <2>1, <2>3, <2>7, <2>8, <2>9, <2>10 DEF a, b, x, y
<1>3. CASE t.text = 0
  <2>1. a = << >> /\ b = <<y>> /\ First(t) = 1
    BY <1>3 DEF First, NoBlock
  <2>2. Between(Append(s, y), 0 + 1)
    BY <1>3, StopsBlock DEF Standing
  <2> HIDE DEF x, y, a, b
  <2>3. <<y>> \in Seq(ClientEvent)
    BY <1>0
  <2>4. a \o b = <<y>>
    <3>1. << >> \o <<y>> = <<y>>
      BY <2>3, ConcatEmptySeq
    <3>2. QED
      BY <2>1, <3>1
  <2>5. s \o <<y>> = Append(s, y)
    BY <1>0, <1>1, ConcatOne
  <2>6. \A m \in Nat : Carried(Append(s, y), m) = Carried(s, m)
    BY <1>0, <1>1, CarriedSame
  <2>7. 0 + 1 = 1
    OBVIOUS
  <2>8. QED
    BY <2>1, <2>2, <2>3, <2>4, <2>5, <2>6, <2>7 DEF a, b, x, y
<1>4. CASE t.text = NoBlock /\ Tools(t) # << >>
  <2>1. a = << >> /\ b = << >> /\ First(t) = 0
    BY <1>4 DEF First
  <2>2. Between(s, 0)
    BY <1>4 DEF Standing
  <2>3. a \o b = << >> /\ << >> \in Seq(ClientEvent)
    BY <2>1
  <2>4. s \o << >> = s
    BY <1>1, ConcatEmptySeq
  <2> HIDE DEF a, b
  <2>5. QED
    BY <2>1, <2>2, <2>3, <2>4 DEF a, b
<1>5. QED
  BY <1>2, <1>3, <1>4 DEF Fields

(* No event says that the message stops, except perhaps the last.           *)
StopsAtEnd(s) == \A i \in 1..Len(s) : s[i].type = "message_stop" => i = Len(s)

(* The stop of the message may be the last event.                           *)
LEMMA StopsAppend ==
    ASSUME NEW s \in Seq(ClientEvent), ~Says(s, "message_stop"), NEW e \in ClientEvent
    PROVE  StopsAtEnd(Append(s, e)) /\ StopsAtEnd(s)
<1> DEFINE u == Append(s, e)
<1>1. /\ Len(u) = Len(s) + 1 /\ DOMAIN s = 1..Len(s) /\ Len(s) \in Nat
      /\ \A i \in 1..Len(s) : u[i] = s[i]
  BY Appended
<1>2. \A i \in 1..Len(s) : s[i].type # "message_stop"
  BY <1>1 DEF Says, At!Seen
<1> HIDE DEF u
<1>3. StopsAtEnd(u)
  BY <1>1, <1>2 DEF StopsAtEnd
<1>4. QED
  BY <1>2, <1>3 DEF StopsAtEnd, u

(* The stream gives the reason k.                                           *)
TellsReason(s, k) ==
    \E i \in DOMAIN s : s[i].type = "message_delta" /\ s[i].reason = k

(* Behind the translator's stream finish completes the message: it is well  *)
(* formed, ends with the stop, tells the reason, and carries every tool call*)
(* in the block of its place.                                               *)
LEMMA FinishFits ==
    ASSUME NEW t, Fields(t), NEW s, Standing(s, t)
    PROVE  LET u == s \o Finish(t)
           IN  /\ Finish(t) \in Seq(ClientEvent)
               /\ Formed(u)
               /\ StopsAtEnd(u)
               /\ TellsReason(u, t.reason)
               /\ \A j \in 1..Len(Tools(t)) :
                     Carried(u, First(t) + j - 1) = t.slots[Tools(t)[j]]
               /\ t.text = 0 => Carried(u, 0) = Carried(s, 0)
<1> DEFINE a == IF t.text = NoBlock /\ Tools(t) = << >>
                THEN <<BlockStart(0, "text")>> ELSE << >>
           b == IF First(t) = 1 THEN <<BlockStop(0)>> ELSE << >>
           ab == a \o b
           c == Blocks(t, Tools(t), First(t))
           v == s \o ab
           w == v \o c
           first == First(t)
           n == Len(Tools(t))
           d == MessageDelta(t.reason)
<1>1. ab \in Seq(ClientEvent) /\ Between(v, first) /\ \A m \in Nat : Carried(v, m) = Carried(s, m)
  BY TextStops
<1>2. /\ Tools(t) \in Seq(DOMAIN t.slots) /\ n \in Nat
      /\ Tools(t) = << >> <=> n = 0
  BY ToolsType
<1>3. first \in {0, 1} /\ (first = 0 => n # 0) /\ (t.text = 0 => first = 1)
  BY <1>2 DEF First, NoBlock
<1>4. s \in Seq(ClientEvent)
  BY DEF Fields, Standing, Between, Inside, UnderWay
<1> HIDE DEF ab, v, n
<1>5. NothingFrom(v, first)
  <2>1. CASE first = 1
    BY <2>1, <1>1 DEF Standing, NothingFrom
  <2>2. CASE first = 0
    <3>1. t.text = NoBlock
      BY <2>2 DEF First
    <3>2. \A m \in Nat : m = 0 \/ m >= 1
      OBVIOUS
    <3>3. \A m \in Nat : Carried(s, m) = << >>
      BY <3>1, <3>2 DEF Standing
    <3>4. QED
      BY <3>3, <1>1 DEF NothingFrom
  <2>3. QED
    BY <1>3, <2>1, <2>2
<1> HIDE DEF first
<1>6. /\ c \in Seq(ClientEvent)
      /\ Between(w, first + n)
      /\ \A j \in 1..n : Carried(w, first + j - 1) = t.slots[Tools(t)[j]]
      /\ \A m \in Nat : m < first => Carried(w, m) = Carried(v, m)
  <2>1. \A k \in DOMAIN t.slots : t.slots[k] \in Seq(Nat)
    BY DEF Fields
  <2>2. first \in Nat
    BY <1>3
  <2> DEFINE tools == Tools(t)
             slotted == DOMAIN t.slots
  <2>3. c = Blocks(t, tools, first)
    BY DEF first
  <2>4. tools \in Seq(slotted) /\ \A k \in slotted : t.slots[k] \in Seq(Nat)
    BY <1>2, <2>1
  <2> HIDE DEF tools, slotted, c
  <2>5. /\ Blocks(t, tools, first) \in Seq(ClientEvent)
        /\ Between(v \o Blocks(t, tools, first), first + Len(tools))
        /\ SlotsCarried(v \o Blocks(t, tools, first), t, tools, first)
        /\ SameBelow(v, v \o Blocks(t, tools, first), first)
    BY <2>2, <2>4, <1>1, <1>5, ToolsFit
  <2>6. QED
    BY <2>3, <2>5 DEF tools, n, SlotsCarried, SameBelow
<1>7. first + n \in Nat \ {0}
  BY <1>2, <1>3
<1> HIDE DEF w, c, d
<1>8. t.reason \in Nat /\ d \in ClientEvent /\ MessageStop \in ClientEvent
      /\ d.type = "message_delta" /\ d.reason = t.reason /\ MessageStop.type = "message_stop"
  BY EventTypes DEF Fields, d, MessageDelta, MessageStop
<1>9. w \in Seq(ClientEvent) /\ ~Says(w, "message_stop")
  BY <1>6 DEF Between, UnderWay
<1> DEFINE x == Append(w, d)
           u == Append(x, MessageStop)
<1>10. Formed(u)
  BY <1>6, <1>7, <1>8, EndsMessage DEF d
<1>11. x \in Seq(ClientEvent) /\ Len(x) = Len(w) + 1 /\ Len(w) \in Nat /\ x[Len(w) + 1] = d
       /\ DOMAIN x = 1..(Len(w) + 1)
  BY <1>8, <1>9, Appended
<1>12. ~Says(x, "message_stop")
  BY <1>8, <1>9, StartedAppend
<1> HIDE DEF x
<1>13. u \in Seq(ClientEvent) /\ Len(u) = Len(x) + 1 /\ DOMAIN u = 1..(Len(x) + 1)
       /\ \A i \in 1..Len(x) : u[i] = x[i]
  BY <1>8, <1>11, Appended
<1>14. StopsAtEnd(u)
  BY <1>8, <1>11, <1>12, StopsAppend
<1>15. \A m \in Nat : Carried(u, m) = Carried(w, m)
  <2>1. \A m \in Nat : Carried(u, m) = Carried(x, m)
    BY <1>8, <1>11, CarriedSame
  <2>2. \A m \in Nat : Carried(x, m) = Carried(w, m)
    BY <1>8, <1>9, CarriedSame DEF x
  <2>3. QED
    BY <2>1, <2>2
<1> HIDE DEF u
<1>16. TellsReason(u, t.reason)
  <2>1. Len(w) + 1 \in DOMAIN u /\ u[Len(w) + 1] = d
    BY <1>11, <1>13
  <2>2. QED
    BY <2>1, <1>8 DEF TellsReason
<1>17. Finish(t) = (ab \o c) \o <<d, MessageStop>>
  BY FinishIs DEF ab, c, d, Ending
<1>18. Finish(t) \in Seq(ClientEvent) /\ s \o Finish(t) = u
  <2> DEFINE e == <<d, MessageStop>>
             abc == ab \o c
  <2>1. e \in Seq(ClientEvent) /\ e = <<d>> \o <<MessageStop>>
        /\ <<d>> \in Seq(ClientEvent) /\ <<MessageStop>> \in Seq(ClientEvent)
    BY <1>8
  <2>2. abc \in Seq(ClientEvent)
    BY <1>1, <1>6
  <2> HIDE DEF e
  <2>3. s \o abc = w
    BY <1>1, <1>4, <1>6, ConcatAssociative DEF w, v
  <2> HIDE DEF abc
  <2>4. s \o (abc \o e) = (s \o abc) \o e
    BY <1>4, <2>1, <2>2, ConcatAssociative
  <2>5. w \o (<<d>> \o <<MessageStop>>) = (w \o <<d>>) \o <<MessageStop>>
    BY <1>9, <2>1, ConcatAssociative
  <2>6. w \o <<d>> = x
    BY <1>8, <1>9, ConcatOne DEF x
  <2>7. x \o <<MessageStop>> = u
    BY <1>8, <1>11, ConcatOne DEF u
  <2>8. abc \o e \in Seq(ClientEvent)
    BY <2>1, <2>2
  <2>9. QED
    BY <1>17, <2>1, <2>3, <2>4, <2>5, <2>6, <2>7, <2>8 DEF abc, e
<1>19. \A j \in 1..n : Carried(u, first + j - 1) = t.slots[Tools(t)[j]]
  <2>1. \A j \in 1..n : first + j - 1 \in Nat
    BY <1>2, <1>3
  <2>2. QED
    BY <2>1, <1>6, <1>15
<1>20. t.text = 0 => Carried(u, 0) = Carried(s, 0)
  <2> SUFFICES ASSUME t.text = 0 PROVE Carried(u, 0) = Carried(s, 0)
    OBVIOUS
  <2>1. first = 1
    BY <1>3
  <2>2. Carried(u, 0) = Carried(w, 0) /\ Carried(w, 0) = Carried(v, 0)
    BY <2>1, <1>6, <1>15
  <2>3. QED
    BY <2>2, <1>1
<1>21. QED
  BY <1>10, <1>14, <1>16, <1>18, <1>19, <1>20 DEF n, first

-----------------------------------------------------------------------------
(***************************************************************************)
(* What the translator knows after the first n lines of the script sc.      *)
(***************************************************************************)
IsScript(sc) == sc \in Seq([kind : Kinds, call : Calls, end : LineEnds])

Texts(sc, n) == {k \in 1..n : sc[k].kind = "text"}
Reasons(sc, n) == {k \in 1..n : sc[k].kind = "reason"}
ArgumentsOf(sc, n, c) == {k \in 1..n : sc[k].kind = "args" /\ sc[k].call = c}
CallsIn(sc, n) ==
    {sc[k].call : k \in {j \in 1..n : sc[j].kind \in {"call", "args"}}}

LastReason(sc, n) ==
    IF Reasons(sc, n) = {} THEN 0 ELSE Last(InOrder(Reasons(sc, n)))

(* A translator has these four fields.                                      *)
HasFields(t) ==
    t = [text |-> t.text, slots |-> t.slots, reason |-> t.reason, events |-> t.events]

(* The slots hold the arguments of the calls among the first n lines.       *)
SlotsAfter(t, sc, n) ==
    /\ t.slots = [c \in DOMAIN t.slots |-> t.slots[c]]
    /\ DOMAIN t.slots = CallsIn(sc, n)
    /\ \A c \in CallsIn(sc, n) : t.slots[c] = InOrder(ArgumentsOf(sc, n, c))

(* The stream u carries the text of the first n lines.                      *)
StreamAfter(u, t, sc, n) ==
    /\ Standing(u, t)
    /\ Carried(u, 0) = InOrder(Texts(sc, n))

(* The translator t, behind the stream s, after the first n lines.          *)
After(t, s, sc, n) ==
    /\ HasFields(t)
    /\ t.events \in Seq(ClientEvent)
    /\ t.text = IF Texts(sc, n) = {} THEN NoBlock ELSE 0
    /\ t.reason = LastReason(sc, n)
    /\ SlotsAfter(t, sc, n)
    /\ StreamAfter(s \o t.events, t, sc, n)

(* Sets of line numbers are finite.                                         *)
LEMMA LinesFinite ==
    ASSUME NEW n \in Nat, NEW S \in SUBSET (1..n)
    PROVE  S \in SUBSET Nat /\ IsFiniteSet(S) /\ \A x \in S : x < n + 1
<1>1. IsFiniteSet(1..n)
  BY FS_Interval
<1>2. IsFiniteSet(S)
  BY <1>1, FS_Subset
<1>3. QED
  BY <1>2

(* A script has finitely many calls among its first lines.                  *)
LEMMA CallsFinite ==
    ASSUME NEW sc, IsScript(sc), NEW n \in 0..Len(sc)
    PROVE  CallsIn(sc, n) \in SUBSET Nat /\ CallsIn(sc, n) \subseteq Calls
           /\ IsFiniteSet(CallsIn(sc, n))
<1> DEFINE J == {j \in 1..n : sc[j].kind \in {"call", "args"}}
           f == [k \in J |-> sc[k].call]
<1>0. n \in Nat /\ \A k \in 1..n : sc[k] \in [kind : Kinds, call : Calls, end : LineEnds]
  <2>1. Len(sc) \in Nat /\ \A k \in 1..Len(sc) : sc[k] \in [kind : Kinds, call : Calls, end : LineEnds]
    BY ElementOfSeq, LenProperties DEF IsScript
  <2>2. QED
    BY <2>1
<1>1. IsFiniteSet(J)
  BY <1>0, LinesFinite
<1>2. \A k \in J : sc[k].call \in Calls
  BY <1>0
<1>3. f \in Surjection(J, CallsIn(sc, n))
  BY DEF CallsIn, Surjection
<1> HIDE DEF J, f
<1>4. IsFiniteSet(CallsIn(sc, n))
  BY <1>1, <1>3, FS_Surjection
<1>5. CallsIn(sc, n) \subseteq Calls
  BY <1>2 DEF CallsIn, J
<1>6. QED
  BY <1>4, <1>5, ScriptAssumption

(* The last reason is a line, or 0.                                         *)
LEMMA LastReasonType ==
    ASSUME NEW sc, NEW n \in Nat
    PROVE  LastReason(sc, n) \in Nat
<1> DEFINE S == Reasons(sc, n)
           q == InOrder(S)
<1>1. S \in SUBSET (1..n)
  BY DEF Reasons
<1> HIDE DEF S
<1>2. S \in SUBSET Nat /\ IsFiniteSet(S)
  BY <1>1, LinesFinite
<1>3. Lists(q, S)
  BY <1>2, InOrderLists
<1> HIDE DEF q
<1>4. q \in Seq(S) /\ \A x \in S : \E i \in DOMAIN q : q[i] = x
  BY <1>3 DEF Lists
<1>5. CASE S # {}
  <2>1. Len(q) \in Nat /\ Len(q) # 0
    BY <1>4, <1>5
  <2>2. q[Len(q)] \in S
    BY <1>4, <2>1
  <2>3. QED
    BY <2>2, <1>2, <1>5 DEF LastReason, Last, S, q
<1>6. CASE S = {}
  BY <1>6 DEF LastReason, S
<1>7. QED
  BY <1>5, <1>6

(* What the translator knows after some lines is of the right types.        *)
LEMMA AfterFields ==
    ASSUME NEW t, NEW s, NEW sc, IsScript(sc), NEW n \in 0..Len(sc), After(t, s, sc, n)
    PROVE  Fields(t)
<1>0. n \in Nat
  BY DEF IsScript
<1>1. t.text \in {NoBlock, 0} /\ t.reason \in Nat
  BY <1>0, LastReasonType DEF After
<1>2. DOMAIN t.slots \in SUBSET Nat /\ IsFiniteSet(DOMAIN t.slots)
  BY CallsFinite DEF After, SlotsAfter
<1>3. ASSUME NEW c \in DOMAIN t.slots PROVE t.slots[c] \in Seq(Nat)
  <2> DEFINE S == ArgumentsOf(sc, n, c)
  <2>1. t.slots[c] = InOrder(S)
    BY DEF After, SlotsAfter
  <2>2. S \in SUBSET (1..n)
    BY DEF ArgumentsOf
  <2> HIDE DEF S
  <2>3. S \in SUBSET Nat /\ IsFiniteSet(S)
    BY <1>0, <2>2, LinesFinite
  <2>4. Lists(InOrder(S), S)
    BY <2>3, InOrderLists
  <2>5. InOrder(S) \in Seq(S)
    BY <2>4 DEF Lists
  <2>6. InOrder(S) \in Seq(Nat)
    BY <2>3, <2>5, SeqMonotonic
  <2>7. QED
    BY <2>1, <2>6
<1>4. QED
  BY <1>1, <1>2, <1>3 DEF Fields

(* One line more.                                                           *)
LEMMA OneMore ==
    ASSUME NEW sc, NEW n \in Nat
    PROVE  /\ Texts(sc, n + 1) = IF sc[n + 1].kind = "text" THEN Texts(sc, n) \cup {n + 1}
                                                            ELSE Texts(sc, n)
           /\ Reasons(sc, n + 1) = IF sc[n + 1].kind = "reason" THEN Reasons(sc, n) \cup {n + 1}
                                                                ELSE Reasons(sc, n)
           /\ \A c : ArgumentsOf(sc, n + 1, c) =
                IF sc[n + 1].kind = "args" /\ sc[n + 1].call = c
                THEN ArgumentsOf(sc, n, c) \cup {n + 1} ELSE ArgumentsOf(sc, n, c)
           /\ CallsIn(sc, n + 1) = IF sc[n + 1].kind \in {"call", "args"}
                THEN CallsIn(sc, n) \cup {sc[n + 1].call} ELSE CallsIn(sc, n)
<1> DEFINE k == n + 1
<1>1. 1..k = (1..n) \cup {k} /\ k \notin 1..n
  OBVIOUS
<1> HIDE DEF k
<1>2. Texts(sc, k) = IF sc[k].kind = "text" THEN Texts(sc, n) \cup {k} ELSE Texts(sc, n)
  BY <1>1 DEF Texts
<1>3. Reasons(sc, k) = IF sc[k].kind = "reason" THEN Reasons(sc, n) \cup {k} ELSE Reasons(sc, n)
  BY <1>1 DEF Reasons
<1>4. \A c : ArgumentsOf(sc, k, c) = IF sc[k].kind = "args" /\ sc[k].call = c
                THEN ArgumentsOf(sc, n, c) \cup {k} ELSE ArgumentsOf(sc, n, c)
  BY <1>1 DEF ArgumentsOf
<1>5. CallsIn(sc, k) = IF sc[k].kind \in {"call", "args"}
                THEN CallsIn(sc, n) \cup {sc[k].call} ELSE CallsIn(sc, n)
  BY <1>1 DEF CallsIn
<1>6. QED
  BY <1>2, <1>3, <1>4, <1>5 DEF k

(* A call not seen has no arguments.                                        *)
LEMMA NoArgumentsBefore ==
    ASSUME NEW sc, NEW n, NEW c, c \notin CallsIn(sc, n)
    PROVE  ArgumentsOf(sc, n, c) = {}
BY DEF CallsIn, ArgumentsOf

-----------------------------------------------------------------------------
(* A line of text: the block is started with the first one and filled.      *)
LEMMA FeedTextFits ==
    ASSUME IsScript(script), NEW n \in Nat, n + 1 <= Len(script),
           script[n + 1].kind = "text",
           NEW s \in Seq(ClientEvent), NEW t, After(t, s, script, n)
    PROVE  After(FeedText(t, n + 1), s, script, n + 1)
<1> DEFINE k == n + 1
           u == s \o t.events
           a == BlockStart(0, "text")
           d == BlockDelta(0, <<k>>)
           r == FeedText(t, k)
           v == IF t.text = NoBlock THEN Append(u, a) ELSE u
           w == Append(v, d)
<1>1. /\ Texts(script, k) = Texts(script, n) \cup {k}
      /\ Reasons(script, k) = Reasons(script, n)
      /\ \A c : ArgumentsOf(script, k, c) = ArgumentsOf(script, n, c)
      /\ CallsIn(script, k) = CallsIn(script, n)
  BY OneMore
<1>2. /\ t.events \in Seq(ClientEvent) /\ HasFields(t)
      /\ StreamAfter(u, t, script, n) /\ SlotsAfter(t, script, n)
      /\ t.reason = LastReason(script, n)
      /\ t.text \in {NoBlock, 0}
  BY DEF After
<1>3. /\ a \in ClientEvent /\ d \in ClientEvent /\ a.type = "content_block_start"
      /\ d.type = "content_block_delta" /\ d.index = 0 /\ d.parts = <<k>>
  <2>1. <<k>> \in Seq(Nat)
    OBVIOUS
  <2>2. QED
    BY <2>1, EventTypes DEF BlockStart, BlockDelta
<1>4. u \in Seq(ClientEvent)
  BY <1>2
<1> HIDE DEF u
<1>5. /\ HasFields(r) /\ r.text = 0 /\ r.slots = t.slots /\ r.reason = t.reason
      /\ r.events = (IF t.text = NoBlock THEN t.events \o <<a>> ELSE t.events) \o <<d>>
  <2> DEFINE x == (IF t.text = NoBlock THEN t.events \o <<a>> ELSE t.events) \o <<d>>
  <2>1. r = [t EXCEPT !.text = 0, !.events = x]
    BY DEF FeedText
  <2> HIDE DEF x, r
  <2>2. HasFields(r) /\ r.text = 0 /\ r.slots = t.slots /\ r.reason = t.reason /\ r.events = x
    BY <1>2, <2>1 DEF HasFields
  <2>3. QED
    BY <2>2 DEF x
<1> HIDE DEF a, d, r
<1>6. r.events \in Seq(ClientEvent) /\ s \o r.events = w
  <2> DEFINE e == IF t.text = NoBlock THEN t.events \o <<a>> ELSE t.events
  <2>1. e \in Seq(ClientEvent) /\ s \o e = v
    <3>1. CASE t.text = NoBlock
      <4>1. <<a>> \in Seq(ClientEvent)
        BY <1>3
      <4>2. s \o (t.events \o <<a>>) = (s \o t.events) \o <<a>>
        <5> DEFINE x == t.events
        <5>1. x \in Seq(ClientEvent)
          BY <1>2
        <5> HIDE DEF x
        <5>2. s \o (x \o <<a>>) = (s \o x) \o <<a>>
          BY <4>1, <5>1, ConcatAssociative
        <5>3. QED
          BY <5>2 DEF x
      <4>3. u \o <<a>> = Append(u, a)
        BY <1>3, <1>4, ConcatOne
      <4>4. t.events \o <<a>> \in Seq(ClientEvent)
        BY <1>2, <4>1
      <4>5. QED
        BY <3>1, <4>2, <4>3, <4>4 DEF u
    <3>2. CASE t.text # NoBlock
      BY <3>2, <1>2 DEF u
    <3>3. QED
      BY <3>1, <3>2
  <2>2. <<d>> \in Seq(ClientEvent)
    BY <1>3
  <2>3. v \in Seq(ClientEvent)
    BY <1>3, <1>4, Appended
  <2> HIDE DEF e, v
  <2>4. s \o (e \o <<d>>) = (s \o e) \o <<d>>
    BY <2>1, <2>2, ConcatAssociative
  <2>5. v \o <<d>> = w
    BY <1>3, <2>3, ConcatOne
  <2>6. r.events = e \o <<d>>
    BY <1>5 DEF e
  <2>7. e \o <<d>> \in Seq(ClientEvent)
    BY <2>1, <2>2
  <2>8. QED
    BY <2>1, <2>4, <2>5, <2>6, <2>7
<1>7. Inside(v, 0) /\ v \in Seq(ClientEvent) /\ \A m \in Nat : Carried(v, m) = Carried(u, m)
  <2>1. CASE t.text = NoBlock
    <3>1. Between(u, 0)
      BY <2>1, <1>2 DEF StreamAfter, Standing
    <3>2. Inside(Append(u, a), 0)
      BY <3>1, StartsBlock DEF a
    <3>3. Append(u, a) \in Seq(ClientEvent)
      BY <1>3, <1>4, Appended
    <3>4. \A m \in Nat : Carried(Append(u, a), m) = Carried(u, m)
      BY <1>3, <1>4, CarriedSame
    <3>5. QED
      BY <2>1, <3>2, <3>3, <3>4
  <2>2. CASE t.text # NoBlock
    <3>1. t.text = 0
      BY <2>2, <1>2
    <3>2. Inside(u, 0)
      BY <3>1, <1>2 DEF StreamAfter, Standing
    <3>3. QED
      BY <2>2, <3>2, <1>4
  <2>3. QED
    BY <2>1, <2>2
<1> HIDE DEF v
<1>8. Inside(w, 0)
  <2>1. <<k>> \in Seq(Nat)
    OBVIOUS
  <2>2. QED
    BY <1>7, <2>1, FillsBlock DEF d
<1>9. \A m \in Nat : m >= 1 => Carried(w, m) = << >>
  <2> SUFFICES ASSUME NEW m \in Nat, m >= 1 PROVE Carried(w, m) = << >>
    OBVIOUS
  <2>1. Carried(u, m) = << >>
    BY <1>2 DEF StreamAfter, Standing
  <2>2. Carried(w, m) = Carried(v, m)
    BY <1>3, <1>7, CarriedSame
  <2>3. QED
    BY <2>1, <2>2, <1>7
<1>10. Carried(w, 0) = InOrder(Texts(script, k))
  <2> DEFINE S == Texts(script, n)
             q == InOrder(S)
  <2>0. S \in SUBSET (1..n)
    BY DEF Texts
  <2>1. Carried(u, 0) = q
    BY <1>2 DEF StreamAfter
  <2> HIDE DEF S
  <2>2. S \in SUBSET Nat /\ IsFiniteSet(S) /\ \A x \in S : x < k
    BY <2>0, LinesFinite
  <2>3. InOrder(S \cup {k}) = Append(q, k)
    BY <2>2, InOrderAppend
  <2>4. Carried(w, 0) = Carried(v, 0) \o Part(d, 0)
    BY <1>3, <1>7, CarriedAppend
  <2>5. Part(d, 0) = <<k>>
    BY <1>3 DEF Part
  <2>6. Carried(v, 0) = q /\ Carried(v, 0) \in Seq(Nat)
    BY <1>7, <2>1, CarriedType
  <2> HIDE DEF q
  <2>7. q \o <<k>> = Append(q, k)
    BY <2>6, ConcatOne
  <2>8. QED
    BY <1>1, <2>3, <2>4, <2>5, <2>6, <2>7 DEF S
<1>11. Standing(w, r)
  BY <1>5, <1>8, <1>9 DEF Standing, NoBlock
<1>12. SlotsAfter(r, script, k) /\ r.reason = LastReason(script, k)
  <2>1. SlotsAfter(r, script, k)
    BY <1>1, <1>2, <1>5 DEF SlotsAfter
  <2>2. r.reason = LastReason(script, k)
    BY <1>1, <1>2, <1>5 DEF LastReason
  <2>3. QED
    BY <2>1, <2>2
<1>13. Texts(script, k) # {}
  BY <1>1
<1> HIDE DEF w, k
<1>14. After(r, s, script, k)
  BY <1>5, <1>6, <1>10, <1>11, <1>12, <1>13 DEF After, StreamAfter
<1>15. QED
  BY <1>14 DEF r, k

(* A line of a tool call: its slot holds one piece more.                    *)
LEMMA IngestFits ==
    ASSUME IsScript(script), NEW n \in Nat, n + 1 <= Len(script),
           script[n + 1].kind \in {"call", "args"},
           NEW s \in Seq(ClientEvent), NEW t, After(t, s, script, n)
    PROVE  After(Ingest(t, n + 1), s, script, n + 1)
<1> DEFINE k == n + 1
           u == s \o t.events
           c == script[k].call
           p == Held(t, c) \o Piece(k)
           r == Ingest(t, k)
<1>1. /\ Texts(script, k) = Texts(script, n)
      /\ Reasons(script, k) = Reasons(script, n)
      /\ CallsIn(script, k) = CallsIn(script, n) \cup {c}
      /\ \A e : ArgumentsOf(script, k, e) =
            IF script[k].kind = "args" /\ c = e
            THEN ArgumentsOf(script, n, e) \cup {k} ELSE ArgumentsOf(script, n, e)
  BY OneMore
<1>2. /\ t.events \in Seq(ClientEvent) /\ HasFields(t)
      /\ StreamAfter(u, t, script, n) /\ SlotsAfter(t, script, n)
      /\ t.reason = LastReason(script, n)
      /\ t.text = IF Texts(script, n) = {} THEN NoBlock ELSE 0
  BY DEF After
<1>3. /\ HasFields(r) /\ r.text = t.text /\ r.reason = t.reason /\ r.events = t.events
      /\ r.slots = [e \in DOMAIN t.slots \cup {c} |-> IF e = c THEN p ELSE t.slots[e]]
  <2> DEFINE x == [e \in DOMAIN t.slots \cup {c} |-> IF e = c THEN p ELSE t.slots[e]]
  <2>1. r = [t EXCEPT !.slots = x]
    BY DEF Ingest, SetSlot
  <2> HIDE DEF x, r
  <2>2. HasFields(r) /\ r.text = t.text /\ r.reason = t.reason /\ r.events = t.events /\ r.slots = x
    BY <1>2, <2>1 DEF HasFields
  <2>3. QED
    BY <2>2 DEF x
<1> DEFINE S == ArgumentsOf(script, n, c)
           q == InOrder(S)
<1>4. Held(t, c) = q
  <2>1. CASE c \in CallsIn(script, n)
    BY <2>1, <1>2 DEF SlotsAfter, Held
  <2>2. CASE c \notin CallsIn(script, n)
    <3>1. S = {}
      BY <2>2, NoArgumentsBefore
    <3>2. Held(t, c) = << >>
      BY <2>2, <1>2 DEF SlotsAfter, Held
    <3>3. q = << >>
      BY <3>1, InOrderEmpty
    <3>4. QED
      BY <3>2, <3>3
  <2>3. QED
    BY <2>1, <2>2
<1>5. p = InOrder(ArgumentsOf(script, k, c))
  <2>0. S \in SUBSET (1..n)
    BY DEF ArgumentsOf
  <2>1. ArgumentsOf(script, k, c) = IF script[k].kind = "args" THEN S \cup {k} ELSE S
    BY <1>1
  <2> HIDE DEF S
  <2>2. S \in SUBSET Nat /\ IsFiniteSet(S) /\ \A x \in S : x < k
    BY <2>0, LinesFinite
  <2>3. InOrder(S \cup {k}) = Append(q, k)
    BY <2>2, InOrderAppend
  <2>4. Lists(q, S)
    BY <2>2, InOrderLists
  <2> HIDE DEF q, c
  <2>5. q \in Seq(S)
    BY <2>4 DEF Lists
  <2>6. q \in Seq(Nat)
    BY <2>2, <2>5, SeqMonotonic
  <2>7. CASE script[k].kind = "args"
    <3>1. Piece(k) = <<k>>
      BY <2>7 DEF Piece
    <3>2. q \o <<k>> = Append(q, k)
      BY <2>6, ConcatOne
    <3>3. QED
      BY <3>1, <3>2, <2>1, <2>3, <2>7, <1>4
  <2>8. CASE script[k].kind # "args"
    <3>1. Piece(k) = << >>
      BY <2>8 DEF Piece
    <3>2. q \o << >> = q
      BY <2>6, ConcatEmptySeq
    <3>3. QED
      BY <3>1, <3>2, <2>1, <2>8, <1>4 DEF q
  <2>9. QED
    BY <2>7, <2>8
<1> HIDE DEF p, c, r, u, k
<1>6. SlotsAfter(r, script, k)
  <2>1. DOMAIN r.slots = CallsIn(script, k)
    BY <1>1, <1>2, <1>3 DEF SlotsAfter
  <2>2. ASSUME NEW e \in CallsIn(script, k)
        PROVE  r.slots[e] = InOrder(ArgumentsOf(script, k, e))
    <3>1. e \in DOMAIN t.slots \cup {c}
      BY <2>1, <1>3
    <3>2. CASE e = c
      BY <3>1, <3>2, <1>3, <1>5
    <3>3. CASE e # c
      <4>1. e \in CallsIn(script, n)
        BY <3>3, <1>1
      <4>2. r.slots[e] = t.slots[e]
        BY <3>1, <3>3, <1>3
      <4>3. ArgumentsOf(script, k, e) = ArgumentsOf(script, n, e)
        BY <3>3, <1>1
      <4>4. QED
        BY <4>1, <4>2, <4>3, <1>2 DEF SlotsAfter
    <3>4. QED
      BY <3>2, <3>3
  <2>3. r.slots = [e \in DOMAIN r.slots |-> r.slots[e]]
    BY <1>3
  <2>4. QED
    BY <2>1, <2>2, <2>3 DEF SlotsAfter
<1>7. StreamAfter(s \o r.events, r, script, k)
  <2>1. StreamAfter(u, r, script, k)
    BY <1>1, <1>2, <1>3 DEF StreamAfter, Standing
  <2>2. QED
    BY <2>1, <1>3 DEF u
<1>8. r.reason = LastReason(script, k)
  BY <1>1, <1>2, <1>3 DEF LastReason
<1>9. r.text = IF Texts(script, k) = {} THEN NoBlock ELSE 0
  BY <1>1, <1>2, <1>3
<1>10. After(r, s, script, k)
  BY <1>2, <1>3, <1>6, <1>7, <1>8, <1>9 DEF After
<1>11. QED
  BY <1>10 DEF r, k

(* A line with a stop reason: the last one counts.                          *)
LEMMA FeedReasonFits ==
    ASSUME IsScript(script), NEW n \in Nat, n + 1 <= Len(script),
           script[n + 1].kind = "reason",
           NEW s \in Seq(ClientEvent), NEW t, After(t, s, script, n)
    PROVE  After([t EXCEPT !.reason = n + 1], s, script, n + 1)
<1> DEFINE k == n + 1
           r == [t EXCEPT !.reason = k]
           S == Reasons(script, n)
           q == InOrder(S)
<1>1. /\ Texts(script, k) = Texts(script, n)
      /\ Reasons(script, k) = S \cup {k}
      /\ CallsIn(script, k) = CallsIn(script, n)
      /\ \A e : ArgumentsOf(script, k, e) = ArgumentsOf(script, n, e)
  BY OneMore
<1>2. /\ t.events \in Seq(ClientEvent) /\ HasFields(t)
      /\ StreamAfter(s \o t.events, t, script, n) /\ SlotsAfter(t, script, n)
      /\ t.text = IF Texts(script, n) = {} THEN NoBlock ELSE 0
  BY DEF After
<1>3. /\ HasFields(r) /\ r.text = t.text /\ r.reason = k /\ r.events = t.events
      /\ r.slots = t.slots
  BY <1>2 DEF HasFields
<1>4. LastReason(script, k) = k
  <2>0. S \in SUBSET (1..n)
    BY DEF Reasons
  <2>a. LastReason(script, k) = Last(InOrder(S \cup {k}))
    BY <1>1 DEF LastReason
  <2> HIDE DEF S
  <2>1. S \in SUBSET Nat /\ IsFiniteSet(S) /\ \A x \in S : x < k
    BY <2>0, LinesFinite
  <2>2. InOrder(S \cup {k}) = Append(q, k)
    BY <2>1, InOrderAppend
  <2>3. Lists(q, S)
    BY <2>1, InOrderLists
  <2> HIDE DEF q
  <2>4. q \in Seq(S)
    BY <2>3 DEF Lists
  <2>5. q \in Seq(Nat)
    BY <2>1, <2>4, SeqMonotonic
  <2>6. Last(Append(q, k)) = k
    BY <2>5 DEF Last
  <2>7. QED
    BY <2>a, <2>2, <2>6
<1> HIDE DEF r, k
<1>5. SlotsAfter(r, script, k)
  BY <1>1, <1>2, <1>3 DEF SlotsAfter
<1>6. StreamAfter(s \o r.events, r, script, k)
  BY <1>1, <1>2, <1>3 DEF StreamAfter, Standing
<1>7. After(r, s, script, k)
  BY <1>1, <1>2, <1>3, <1>4, <1>5, <1>6 DEF After
<1>8. QED
  BY <1>7 DEF r, k

(* Any other line: nothing to translate.                                    *)
LEMMA FeedNothingFits ==
    ASSUME IsScript(script), NEW n \in Nat, n + 1 <= Len(script),
           script[n + 1].kind \in {"junk", "done"},
           NEW s \in Seq(ClientEvent), NEW t, After(t, s, script, n)
    PROVE  After(t, s, script, n + 1)
<1> DEFINE k == n + 1
<1>1. /\ Texts(script, k) = Texts(script, n)
      /\ Reasons(script, k) = Reasons(script, n)
      /\ CallsIn(script, k) = CallsIn(script, n)
      /\ \A e : ArgumentsOf(script, k, e) = ArgumentsOf(script, n, e)
  BY OneMore
<1> HIDE DEF k
<1>2. After(t, s, script, k)
  BY <1>1 DEF After, SlotsAfter, StreamAfter, LastReason
<1>3. QED
  BY <1>2 DEF k

(* Whatever the next line is, the translator knows it after feed.           *)
LEMMA FeedFits ==
    ASSUME IsScript(script), NEW n \in Nat, n + 1 <= Len(script),
           NEW s \in Seq(ClientEvent), NEW t, After(t, s, script, n)
    PROVE  After(Feed(t, n + 1), s, script, n + 1)
<1>0. script[n + 1].kind \in Kinds
  <2>1. n + 1 \in 1..Len(script)
    BY DEF IsScript
  <2>2. script[n + 1] \in [kind : Kinds, call : Calls, end : LineEnds]
    BY <2>1, ElementOfSeq DEF IsScript
  <2>3. QED
    BY <2>2
<1>1. CASE script[n + 1].kind = "text"
  BY <1>1, FeedTextFits DEF Feed
<1>2. CASE script[n + 1].kind \in {"call", "args"}
  BY <1>2, IngestFits DEF Feed
<1>3. CASE script[n + 1].kind = "reason"
  BY <1>3, FeedReasonFits DEF Feed
<1>4. CASE script[n + 1].kind \in {"junk", "done"}
  BY <1>4, FeedNothingFits DEF Feed
<1>5. QED
  BY <1>0, <1>1, <1>2, <1>3, <1>4 DEF Kinds

-----------------------------------------------------------------------------
(* The numbers of an interval, in order.                                    *)
LEMMA IntervalInOrder ==
    ASSUME NEW a \in Nat, NEW b \in Nat, a <= b
    PROVE  /\ Len(InOrder((a + 1)..b)) = b - a
           /\ InOrder((a + 1)..b) \in Seq(Nat)
           /\ \A i \in 1..(b - a) : InOrder((a + 1)..b)[i] = a + i
<1> DEFINE S == (a + 1)..b
           n == b - a
           q == [i \in 1..n |-> a + i]
<1>1. S \in SUBSET Nat /\ IsFiniteSet(S)
  BY FS_Interval
<1>2. n \in Nat
  OBVIOUS
<1>3. \A i \in 1..n : a + i \in S
  OBVIOUS
<1>4. \A x \in S : x - a \in 1..n /\ a + (x - a) = x
  OBVIOUS
<1> HIDE DEF S, n
<1>5. q \in Seq(S) /\ Len(q) = n /\ DOMAIN q = 1..n
  BY <1>2, <1>3
<1>6. Increasing(q)
  BY <1>2 DEF Increasing
<1>7. \A x \in S : \E i \in DOMAIN q : q[i] = x
  BY <1>4, <1>5
<1>8. \A i \in 1..n : q[i] = a + i
  OBVIOUS
<1> HIDE DEF q
<1>9. Lists(q, S)
  BY <1>5, <1>6, <1>7 DEF Lists
<1>10. q = InOrder(S)
  BY <1>1, <1>9, InOrderLists, ListsUnique
<1>11. q \in Seq(Nat)
  BY <1>1, <1>5, SeqMonotonic
<1>12. Len(InOrder(S)) = n /\ InOrder(S) \in Seq(Nat) /\ \A i \in 1..n : InOrder(S)[i] = a + i
  BY <1>5, <1>8, <1>10, <1>11
<1>13. QED
  BY <1>12 DEF S, n

(* The complete lines of a chunk, one after the other.                      *)
LEMMA FeedLinesFits ==
    ASSUME IsScript(script), NEW a \in Nat, NEW b \in Nat, a <= b, b <= Len(script),
           NEW s \in Seq(ClientEvent), NEW t, After(t, s, script, a)
    PROVE  After(FeedLines(t, InOrder((a + 1)..b)), s, script, b)
<1> DEFINE lines == InOrder((a + 1)..b)
           n == b - a
<1>1. lines \in Seq(Nat) /\ Len(lines) = n /\ \A i \in 1..n : lines[i] = a + i
  BY IntervalInOrder
<1>2. n \in Nat /\ a + n = b
  OBVIOUS
<1>3. Len(script) \in Nat
  BY DEF IsScript
<1> HIDE DEF lines, n
<1>4. PICK g : Feeds(g, t, lines) /\ FeedLines(t, lines) = g[n]
  BY <1>1, FeedLinesSteps
<1>5. g[0] = t /\ \A i \in 1..n : g[i] = Feed(g[i - 1], a + i)
  BY <1>1, <1>4 DEF Feeds
<1> DEFINE N == {i \in Nat : i <= n => After(g[i], s, script, a + i)}
<1>6. 0 \in N
  <2>1. a + 0 = a
    OBVIOUS
  <2>2. QED
    BY <2>1, <1>5
<1>7. ASSUME NEW i \in Nat, i \in N PROVE i + 1 \in N
  <2>0. i <= n => After(g[i], s, script, a + i)
    BY <1>7
  <2> HIDE DEF N
  <2> SUFFICES ASSUME i + 1 <= n PROVE After(g[i + 1], s, script, a + (i + 1))
    BY DEF N
  <2>1. i <= n /\ i + 1 \in 1..n /\ (i + 1) - 1 = i /\ a + (i + 1) = (a + i) + 1
        /\ a + i \in Nat /\ (a + i) + 1 <= Len(script)
    BY <1>2, <1>3
  <2>2. After(g[i], s, script, a + i)
    BY <2>0, <2>1
  <2> DEFINE m == a + i
             h == g[i]
  <2>3. g[i + 1] = Feed(h, m + 1)
    <3>1. g[i + 1] = Feed(g[(i + 1) - 1], a + (i + 1))
      BY <2>1, <1>5
    <3>2. QED
      BY <2>1, <3>1
  <2>4. m \in Nat /\ m + 1 <= Len(script) /\ After(h, s, script, m)
    BY <2>1, <2>2
  <2> HIDE DEF m, h
  <2>5. After(Feed(h, m + 1), s, script, m + 1)
    BY <2>4, FeedFits
  <2>6. a + (i + 1) = m + 1
    BY <2>1 DEF m
  <2>7. QED
    BY <2>3, <2>5, <2>6
<1>8. n \in N
  <2> HIDE DEF N
  <2>1. QED
    BY <1>2, <1>6, <1>7, NaturalSteps
<1>9. After(g[n], s, script, b)
  BY <1>2, <1>8
<1>10. QED
  BY <1>4, <1>9 DEF lines

-----------------------------------------------------------------------------
(* The complete message s tells everything of the first b lines.            *)
ToolsTold(s, sc, b) ==
    \A c \in CallsIn(sc, b) :
        Carried(s, Cardinality({d \in CallsIn(sc, b) : d < c})
                   + IF Texts(sc, b) = {} THEN 0 ELSE 1)
            = InOrder(ArgumentsOf(sc, b, c))

Complete(s, sc, b) ==
    /\ Texts(sc, b) # {} => Carried(s, 0) = InOrder(Texts(sc, b))
    /\ ToolsTold(s, sc, b)
    /\ TellsReason(s, LastReason(sc, b))

(* Finishing behind b lines: the whole stream is well formed and complete.  *)
LEMMA FinishCompletes ==
    ASSUME IsScript(script), NEW b \in 0..Len(script),
           NEW s \in Seq(ClientEvent), NEW t, After(t, s, script, b)
    PROVE  LET u == (s \o t.events) \o Finish(t)
           IN  /\ t.events \in Seq(ClientEvent)
               /\ Finish(t) \in Seq(ClientEvent)
               /\ Formed(u)
               /\ StopsAtEnd(u)
               /\ Complete(u, script, b)
<1> DEFINE v == s \o t.events
           u == v \o Finish(t)
           T == CallsIn(script, b)
           tools == Tools(t)
           first == IF Texts(script, b) = {} THEN 0 ELSE 1
<1>1. Fields(t) /\ Standing(v, t)
  BY AfterFields DEF After, StreamAfter
<1>2. /\ t.events \in Seq(ClientEvent)
      /\ Carried(v, 0) = InOrder(Texts(script, b))
      /\ t.text = (IF Texts(script, b) = {} THEN NoBlock ELSE 0)
      /\ t.reason = LastReason(script, b)
      /\ SlotsAfter(t, script, b)
  BY DEF After, StreamAfter
<1> HIDE DEF v
<1>3. /\ Finish(t) \in Seq(ClientEvent)
      /\ Formed(u)
      /\ StopsAtEnd(u)
      /\ TellsReason(u, t.reason)
      /\ \A j \in 1..Len(Tools(t)) : Carried(u, First(t) + j - 1) = t.slots[Tools(t)[j]]
      /\ t.text = 0 => Carried(u, 0) = Carried(v, 0)
  BY <1>1, FinishFits
<1> HIDE DEF u
<1>4. Texts(script, b) # {} => Carried(u, 0) = InOrder(Texts(script, b))
  BY <1>2, <1>3
<1>5. ASSUME NEW c \in T
      PROVE  Carried(u, Cardinality({d \in T : d < c}) + first) = InOrder(ArgumentsOf(script, b, c))
  <2>1. T \in SUBSET Nat
    BY CallsFinite
  <2>2. Lists(tools, T) /\ Len(tools) \in Nat
    BY <1>1, <1>2, ToolsType DEF SlotsAfter
  <2>3. PICK j \in DOMAIN tools : tools[j] = c
    BY <2>2 DEF Lists
  <2>4. Cardinality({d \in T : d < tools[j]}) = j - 1
    <3> HIDE DEF T, tools
    <3>1. QED
      BY <2>1, <2>2, Place
  <2>5. j \in 1..Len(tools)
    BY <2>2 DEF Lists
  <2>6. First(t) = first
    <3>1. tools # << >>
      BY <2>3
    <3>2. QED
      BY <3>1, <1>2 DEF First, NoBlock
  <2>7. Carried(u, first + j - 1) = t.slots[c]
    BY <1>3, <2>3, <2>5, <2>6
  <2>8. t.slots[c] = InOrder(ArgumentsOf(script, b, c))
    BY <1>2 DEF SlotsAfter
  <2>9. Cardinality({d \in T : d < c}) + first = first + j - 1
    <3>1. first \in Nat /\ j \in Nat
      BY <2>2, <2>5
    <3>2. Cardinality({d \in T : d < c}) = j - 1
      BY <2>3, <2>4
    <3> HIDE DEF first, T
    <3>3. QED
      BY <3>1, <3>2
  <2>10. QED
    BY <2>7, <2>8, <2>9
<1>6. ToolsTold(u, script, b)
  BY <1>5 DEF ToolsTold
<1>7. QED
  BY <1>2, <1>3, <1>4, <1>6 DEF Complete, u, v

-----------------------------------------------------------------------------
(***************************************************************************)
(* The translator between two reads.                                        *)
(***************************************************************************)
(* The translator when its events have gone to the buffer.                  *)
Restarted(t) ==
    [text |-> t.text, slots |-> t.slots, reason |-> t.reason, events |-> << >>]

(* What was translated has gone to the buffer: the translator stands where  *)
(* it stood, behind a longer stream.                                        *)
LEMMA AfterRestarts ==
    ASSUME NEW s \in Seq(ClientEvent), NEW sc, NEW n, NEW t, After(t, s, sc, n)
    PROVE  After(Restarted(t), s \o t.events, sc, n)
<1> DEFINE u == s \o t.events
           r == Restarted(t)
<1>1. u \in Seq(ClientEvent)
  BY DEF After
<1>2. u \o << >> = u
  BY <1>1, ConcatEmptySeq
<1>3. HasFields(r) /\ r.text = t.text /\ r.slots = t.slots /\ r.reason = t.reason
      /\ r.events = << >>
  BY DEF Restarted, HasFields
<1>4. << >> \in Seq(ClientEvent)
  OBVIOUS
<1>5. StreamAfter(u, t, sc, n)
  BY DEF After
<1> HIDE DEF u, r
<1>6. StreamAfter(u, r, sc, n)
  BY <1>3, <1>5 DEF StreamAfter, Standing
<1>7. SlotsAfter(r, sc, n)
  BY <1>3 DEF SlotsAfter, After
<1>8. After(r, u, sc, n)
  BY <1>2, <1>3, <1>4, <1>6, <1>7 DEF After
<1>9. QED
  BY <1>8 DEF u, r

(* What the fields of the translator hold comes from the script.            *)
LEMMA AfterTypes ==
    ASSUME NEW t, NEW s, NEW sc, IsScript(sc), NEW n \in 0..Len(sc), After(t, s, sc, n)
    PROVE  /\ t.text \in {NoBlock, 0}
           /\ DOMAIN t.slots \subseteq Calls
           /\ t.slots \in [DOMAIN t.slots -> Seq(1..Len(sc))]
           /\ t.reason \in 0..Len(sc)
<1>0. n \in Nat /\ Len(sc) \in Nat /\ n <= Len(sc)
  BY DEF IsScript
<1>1. t.text \in {NoBlock, 0}
  BY DEF After
<1>2. DOMAIN t.slots \subseteq Calls
  BY CallsFinite DEF After, SlotsAfter
<1>3. ASSUME NEW S \in SUBSET (1..n)
      PROVE  /\ InOrder(S) \in Seq(1..Len(sc))
             /\ S # {} => Last(InOrder(S)) \in 1..Len(sc)
  <2> DEFINE q == InOrder(S)
  <2>1. S \in SUBSET Nat /\ IsFiniteSet(S)
    BY <1>0, LinesFinite
  <2>2. Lists(q, S)
    BY <2>1, InOrderLists
  <2> HIDE DEF q
  <2>3. q \in Seq(S) /\ \A x \in S : \E i \in DOMAIN q : q[i] = x
    BY <2>2 DEF Lists
  <2>4. S \subseteq 1..Len(sc)
    BY <1>0
  <2>5. q \in Seq(1..Len(sc))
    BY <2>3, <2>4, SeqMonotonic
  <2>6. ASSUME S # {} PROVE Last(q) \in 1..Len(sc)
    <3>0. Len(q) \in Nat /\ DOMAIN q = 1..Len(q)
      BY <2>3
    <3>1. Len(q) # 0
      <4>1. PICK x \in S : TRUE
        BY <2>6
      <4>2. PICK i \in DOMAIN q : q[i] = x
        BY <2>3
      <4>3. QED
        BY <3>0, <4>2
    <3>2. q[Len(q)] \in S
      BY <2>3, <3>1
    <3>3. QED
      BY <3>2, <2>4 DEF Last
  <2>7. QED
    BY <2>5, <2>6 DEF q
<1>4. t.slots \in [DOMAIN t.slots -> Seq(1..Len(sc))]
  <2>1. ASSUME NEW c \in DOMAIN t.slots PROVE t.slots[c] \in Seq(1..Len(sc))
    <3>1. ArgumentsOf(sc, n, c) \in SUBSET (1..n)
      BY DEF ArgumentsOf
    <3>2. t.slots[c] = InOrder(ArgumentsOf(sc, n, c))
      BY DEF After, SlotsAfter
    <3>3. QED
      BY <3>1, <3>2, <1>3
  <2>2. t.slots = [c \in DOMAIN t.slots |-> t.slots[c]]
    BY DEF After, SlotsAfter
  <2>3. QED
    BY <2>1, <2>2
<1>5. t.reason \in 0..Len(sc)
  <2>1. Reasons(sc, n) \in SUBSET (1..n)
    BY DEF Reasons
  <2>2. t.reason = LastReason(sc, n)
    BY DEF After
  <2>3. CASE Reasons(sc, n) = {}
    BY <2>2, <2>3, <1>0 DEF LastReason
  <2>4. CASE Reasons(sc, n) # {}
    <3>1. Last(InOrder(Reasons(sc, n))) \in 1..Len(sc)
      BY <2>1, <2>4, <1>3
    <3>2. QED
      BY <3>1, <2>2, <2>4, <1>0 DEF LastReason
  <2>5. QED
    BY <2>3, <2>4
<1>6. QED
  BY <1>1, <1>2, <1>4, <1>5

(* The stream as it stands while the message is under way.                  *)
LEMMA AfterStream ==
    ASSUME NEW s \in Seq(ClientEvent), NEW sc, NEW n, NEW t, After(t, s, sc, n)
    PROVE  /\ s \o t.events \in Seq(ClientEvent)
           /\ Formed(s \o t.events)
           /\ StopsAtEnd(s \o t.events)
           /\ ~Says(s \o t.events, "message_stop")
<1> DEFINE u == s \o t.events
<1>1. u \in Seq(ClientEvent)
  BY DEF After
<1>2. Standing(u, t) /\ t.text \in {NoBlock, 0}
  BY DEF After, StreamAfter
<1> HIDE DEF u
<1>3. UnderWay(u)
  BY <1>2 DEF Standing, Between, Inside
<1>4. StopsAtEnd(u)
  BY <1>1, <1>3, EventTypes, StopsAppend DEF UnderWay
<1>5. QED
  BY <1>1, <1>3, <1>4 DEF UnderWay, u

-----------------------------------------------------------------------------
(* The complete lines of a chunk that come before [DONE].                   *)
LEMMA LinesBeforeDone ==
    ASSUME NEW a \in Nat, NEW b \in Nat, a <= b, NEW D \in SUBSET ((a + 1)..b)
    PROVE  \E c \in a..b :
              /\ {k \in (a + 1)..b : \A d \in D : k < d} = (a + 1)..c
              /\ D = {} => c = b
              /\ D # {} => c + 1 \in D
              /\ \A d \in D : c < d
<1>1. CASE D = {}
  BY <1>1
<1>2. CASE D # {}
  <2>1. D \in SUBSET Nat
    OBVIOUS
  <2>2. PICK m \in D : \A d \in D : m <= d
    BY <1>2, <2>1, LeastExists
  <2>3. m - 1 \in a..b /\ (m - 1) + 1 = m /\ \A d \in D : m - 1 < d
    BY <2>1, <2>2
  <2>4. {k \in (a + 1)..b : \A d \in D : k < d} = (a + 1)..(m - 1)
    BY <2>1, <2>2
  <2>5. QED
    BY <1>2, <2>2, <2>3, <2>4
<1>3. QED
  BY <1>1, <1>2

(* Lines and events read up to a piece of n events' pieces.                 *)
LEMMA LinesReadBounds ==
    ASSUME NEW n \in Nat, NEW p \in 0..(3 * n), NEW a \in 0..p
    PROVE  /\ LinesRead(p) \in 0..n
           /\ LinesRead(a) \in 0..LinesRead(p)
           /\ LinesRead(0) = 0
           /\ p % 3 = 1 => p \div 3 + 1 \in 1..n
           /\ \A k \in Int : k > p \div 3 /\ k <= LinesRead(p) => p % 3 = 2 /\ k = LinesRead(p)
           /\ p \div 3 \in Nat
BY DEF LinesRead

(* The first b lines of the script sc are what the translator read of the   *)
(* lines up to piece p.                                                     *)
NoDone(sc, n) == \A k \in 1..n : sc[k].kind # "done"

Read(sc, p, b) ==
    /\ b \in 0..Len(sc)
    /\ {k \in 1..LinesRead(p) : \A d \in 1..k : sc[d].kind # "done"} = 1..b

(* Without [DONE] everything is read ...                                    *)
LEMMA ReadAll ==
    ASSUME NEW sc, NEW p, LinesRead(p) \in 0..Len(sc), NoDone(sc, LinesRead(p))
    PROVE  Read(sc, p, LinesRead(p))
<1>1. \A k \in 1..LinesRead(p) : \A d \in 1..k : d \in 1..LinesRead(p)
  OBVIOUS
<1>2. QED
  BY <1>1 DEF Read, NoDone

(* ... and with it, what comes before.                                      *)
LEMMA ReadUpTo ==
    ASSUME NEW sc, NEW p, NEW a \in Nat, NEW b \in Nat, b = LinesRead(p),
           b <= Len(sc), Len(sc) \in Nat, NoDone(sc, a),
           NEW c \in a..b, c + 1 \in 1..b, sc[c + 1].kind = "done",
           \A k \in (a + 1)..c : sc[k].kind # "done"
    PROVE  Read(sc, p, c)
<1>1. \A d \in 1..c : sc[d].kind # "done"
  BY DEF NoDone
<1>2. \A k \in 1..b : k \notin 1..c => c + 1 \in 1..k
  OBVIOUS
<1>3. \A k \in 1..c : k \in 1..b /\ \A d \in 1..k : d \in 1..c
  OBVIOUS
<1>4. {k \in 1..b : \A d \in 1..k : sc[d].kind # "done"} = 1..c
  BY <1>1, <1>2, <1>3
<1>5. QED
  BY <1>4 DEF Read

-----------------------------------------------------------------------------
(***************************************************************************)
(* The invariant: the stream as the client will have seen it when the       *)
(* buffer is empty.                                                         *)
(***************************************************************************)
(* What was sent, and what is ready.                                        *)
Stream == out \o pending

(* Types, and a script of the behaviours.                                   *)
Typed ==
    /\ script \in Scripts
    /\ TypeOK

(* While the translator reads it stands behind the stream, and has not come *)
(* to [DONE].                                                               *)
Abreast ==
    mode = "reading" =>
        /\ After(Translator, Stream, script, LinesRead(pos))
        /\ NoDone(script, LinesRead(pos))

(* A stream that says that the message stops tells everything read.         *)
Told ==
    Says(Stream, "message_stop") =>
        \E b \in Nat : Read(script, pos, b) /\ Complete(Stream, script, b)

(* The whole invariant.                                                     *)
StreamOK ==
    /\ Typed
    /\ Formed(Stream)
    /\ StopsAtEnd(Stream)
    /\ Abreast
    /\ Told

(* Every script is one.                                                     *)
LEMMA ScriptsAre ==
    ASSUME NEW sc \in Scripts
    PROVE  IsScript(sc) /\ Len(sc) \in Nat
<1>1. sc \in Seq([kind : Kinds, call : Calls, end : LineEnds])
  BY ScriptAssumption
<1>2. Len(sc) \in Nat
  BY <1>1, LenProperties
<1>3. QED
  BY <1>1, <1>2 DEF IsScript

(* Behind message_start the translator knows nothing.                       *)
LEMMA AtTheStart ==
    ASSUME NEW sc
    PROVE  After([text |-> NoBlock, slots |-> << >>, reason |-> 0, events |-> << >>],
                 <<MessageStart>>, sc, 0)
<1> DEFINE t == [text |-> NoBlock, slots |-> << >>, reason |-> 0, events |-> << >>]
           s == <<MessageStart>>
<1>1. Texts(sc, 0) = {} /\ Reasons(sc, 0) = {} /\ CallsIn(sc, 0) = {}
  BY DEF Texts, Reasons, CallsIn
<1>2. s \in Seq(ClientEvent) /\ << >> \in Seq(ClientEvent) /\ s \o << >> = s
  <2>1. s \in Seq(ClientEvent)
    BY EventTypes
  <2> HIDE DEF s
  <2>2. QED
    BY <2>1, ConcatEmptySeq
<1>3. Between(s, 0) /\ \A m \in Nat : Carried(s, m) = << >>
  BY FirstEvent, FirstCarries
<1>4. HasFields(t)
  BY DEF HasFields
<1>5. SlotsAfter(t, sc, 0)
  BY <1>1 DEF SlotsAfter
<1> HIDE DEF s
<1>6. StreamAfter(s, t, sc, 0)
  <2>1. Standing(s, t)
    BY <1>3 DEF Standing, NoBlock
  <2>2. Carried(s, 0) = InOrder(Texts(sc, 0))
    BY <1>1, <1>3, InOrderEmpty
  <2>3. QED
    BY <2>1, <2>2 DEF StreamAfter
<1>7. LastReason(sc, 0) = 0
  BY <1>1 DEF LastReason
<1>8. QED
  BY <1>1, <1>2, <1>4, <1>5, <1>6, <1>7 DEF After, s

(* The invariant holds when the stream is made.                             *)
LEMMA StreamInit == Init => StreamOK
<1> SUFFICES ASSUME Init PROVE StreamOK
  OBVIOUS
<1>0. IsScript(script) /\ Len(script) \in Nat
  BY ScriptsAre DEF Init
<1>1. MessageStart \in ClientEvent /\ pending = <<MessageStart>> /\ out = << >>
  BY EventTypes DEF Init
<1>2. Typed
  <2>1. pending \in Seq(ClientEvent) /\ out \in Seq(ClientEvent)
    BY <1>1
  <2>2. slots \in [DOMAIN slots -> Seq(1..Len(script))] /\ DOMAIN slots \subseteq Calls
    BY DEF Init
  <2>3. pos \in 0..Pieces
    BY <1>0 DEF Init, Pieces
  <2>4. /\ garbled \subseteq 1..Len(script) /\ accounted \in BOOLEAN
        /\ textIndex \in {NoBlock, 0} /\ reason \in 0..Len(script)
        /\ mode \in {"reading", "finished", "aborted"} /\ script \in Scripts
    <3>1. 0 \in 0..Len(script)
      BY <1>0
    <3>2. QED
      BY <3>1 DEF Init
  <2>5. QED
    BY <2>1, <2>2, <2>3, <2>4 DEF Typed, TypeOK
<1>3. Stream = <<MessageStart>>
  BY <1>1, ConcatEmptySeq DEF Stream
<1>4. Translator = [text |-> NoBlock, slots |-> << >>, reason |-> 0, events |-> << >>]
  BY DEF Init, Translator
<1>5. LinesRead(pos) = 0
  BY DEF Init, LinesRead
<1>6. Abreast
  <2>1. NoDone(script, 0)
    BY DEF NoDone
  <2>2. QED
    BY <1>3, <1>4, <1>5, <2>1, AtTheStart DEF Abreast
<1>7. <<MessageStart>> \in Seq(ClientEvent) /\ << >> \in Seq(ClientEvent)
      /\ <<MessageStart>> \o << >> = <<MessageStart>>
  BY <1>1
<1>8. Formed(Stream) /\ StopsAtEnd(Stream) /\ ~Says(Stream, "message_stop")
  <2>1. Translator.events = << >> /\ Stream \in Seq(ClientEvent)
        /\ Stream \o << >> = Stream
    BY <1>3, <1>4, <1>7
  <2>2. After(Translator, Stream, script, LinesRead(pos))
    BY <1>3, <1>4, <1>5, AtTheStart
  <2>3. QED
    BY <2>1, <2>2, AfterStream
<1>9. QED
  BY <1>2, <1>6, <1>8 DEF StreamOK, Told

(* The script and the position of a typed state.                            *)
LEMMA TypedScript ==
    ASSUME Typed
    PROVE  IsScript(script) /\ Len(script) \in Nat /\ pos \in 0..(3 * Len(script))
BY ScriptsAre DEF Typed, TypeOK, Pieces

-----------------------------------------------------------------------------
(* An event goes from the buffer to the client: the stream stays the same.  *)
LEMMA EmitKeeps == StreamOK /\ Emit => StreamOK'
<1> SUFFICES ASSUME StreamOK, Emit PROVE StreamOK'
  OBVIOUS
<1>1. /\ out \in Seq(ClientEvent) /\ pending \in Seq(ClientEvent) /\ pending # << >>
      /\ out' = Append(out, Head(pending)) /\ pending' = Tail(pending)
      /\ UNCHANGED <<script, pos, garbled, accounted, trVars, mode>>
  BY DEF StreamOK, Typed, TypeOK, Emit
<1>2. out' \in Seq(ClientEvent) /\ pending' \in Seq(ClientEvent)
  BY <1>1
<1>3. Append(out, Head(pending)) \o Tail(pending) = out \o pending
  BY <1>1
<1>4. Stream' = Stream
  BY <1>1, <1>3 DEF Stream
<1>5. Typed'
  BY <1>1, <1>2 DEF StreamOK, Typed, TypeOK, Pieces, trVars
<1>6. Abreast'
  BY <1>1, <1>4 DEF StreamOK, Abreast, Translator, trVars
<1>7. Told'
  BY <1>1, <1>4 DEF StreamOK, Told
<1>8. QED
  BY <1>4, <1>5, <1>6, <1>7 DEF StreamOK

(* Steps that touch nothing but the mode.                                   *)
LEMMA StopKeeps ==
    ASSUME StreamOK, UNCHANGED <<script, pos, garbled, accounted, trVars, pending, out>>,
           mode' \in {mode, "aborted"}
    PROVE  StreamOK'
<1>1. Stream' = Stream
  BY DEF Stream
<1>2. Typed'
  BY DEF StreamOK, Typed, TypeOK, Pieces, trVars
<1>3. Abreast'
  BY <1>1 DEF StreamOK, Abreast, Translator, trVars
<1>4. Told'
  BY <1>1 DEF StreamOK, Told
<1>5. QED
  BY <1>1, <1>2, <1>3, <1>4 DEF StreamOK

-----------------------------------------------------------------------------
(* The end of a stream that the translator has finished, b lines of it read.*)
LEMMA ToldAtTheEnd ==
    ASSUME Typed, NEW b \in 0..Len(script),
           NEW s \in Seq(ClientEvent), NEW t, After(t, s, script, b)
    PROVE  LET u == s \o (t.events \o Finish(t))
           IN  /\ t.events \o Finish(t) \in Seq(ClientEvent)
               /\ Formed(u)
               /\ StopsAtEnd(u)
               /\ Complete(u, script, b)
<1>1. IsScript(script)
  BY TypedScript
<1>2. /\ t.events \in Seq(ClientEvent)
      /\ Finish(t) \in Seq(ClientEvent)
      /\ Formed((s \o t.events) \o Finish(t))
      /\ StopsAtEnd((s \o t.events) \o Finish(t))
      /\ Complete((s \o t.events) \o Finish(t), script, b)
  BY <1>1, FinishCompletes
<1>3. (s \o t.events) \o Finish(t) = s \o (t.events \o Finish(t))
  <2> DEFINE e == t.events
             f == Finish(t)
  <2>1. e \in Seq(ClientEvent) /\ f \in Seq(ClientEvent) /\ s \in Seq(ClientEvent)
    BY <1>2
  <2> HIDE DEF e, f
  <2>2. (s \o e) \o f = s \o (e \o f)
    BY <2>1, ConcatAssociative
  <2>3. QED
    BY <2>2 DEF e, f
<1>4. t.events \o Finish(t) \in Seq(ClientEvent)
  BY <1>2
<1>5. QED
  BY <1>2, <1>3, <1>4

(* The upstream ends: the message is finished behind what was read.         *)
LEMMA EndKeeps == StreamOK /\ End => StreamOK'
<1> SUFFICES ASSUME StreamOK, End PROVE StreamOK'
  OBVIOUS
<1> DEFINE b == LinesRead(pos)
           t == Translator
<1>1. /\ mode = "reading" /\ pending = << >> /\ out \in Seq(ClientEvent) /\ accounted' = TRUE
      /\ pending' = Finish(t) /\ mode' = "finished"
      /\ UNCHANGED <<script, pos, garbled, trVars, out>>
  BY DEF StreamOK, Typed, TypeOK, End, Accounts
<1>2. Typed /\ IsScript(script) /\ Len(script) \in Nat /\ pos \in 0..(3 * Len(script))
  BY TypedScript DEF StreamOK
<1>3. b \in 0..Len(script)
  BY <1>2, LinesReadBounds
<1>4. Stream = out
  BY <1>1, ConcatEmptySeq DEF Stream
<1>5. After(t, out, script, b) /\ NoDone(script, b)
  BY <1>1, <1>4 DEF StreamOK, Abreast
<1>6. t.events = << >> /\ Finish(t) \in Seq(ClientEvent)
  <2>1. Finish(t) \in Seq(ClientEvent)
    BY <1>1, <1>2, <1>3, <1>5, FinishCompletes
  <2>2. QED
    BY <2>1 DEF Translator
<1> HIDE DEF t
<1>7. t.events \o Finish(t) = Finish(t)
  BY <1>6, ConcatEmptySeq
<1>8. Stream' = out \o Finish(t)
  BY <1>1 DEF Stream
<1> DEFINE u == out \o Finish(t)
<1>9. Formed(u) /\ StopsAtEnd(u) /\ Complete(u, script, b)
  BY <1>1, <1>2, <1>3, <1>5, <1>7, ToldAtTheEnd
<1> HIDE DEF u
<1>10. Read(script, pos, b)
  BY <1>3, <1>5, ReadAll
<1>11. Typed'
  BY <1>1, <1>2, <1>6 DEF Typed, TypeOK, Pieces, trVars
<1>12. Abreast'
  BY <1>1 DEF Abreast
<1>13. Told'
  <2>1. b \in Nat
    BY <1>2, <1>3
  <2> HIDE DEF b
  <2>2. Stream' = u /\ script' = script /\ pos' = pos
    BY <1>1, <1>8 DEF u
  <2>3. QED
    BY <2>1, <2>2, <1>9, <1>10 DEF Told
<1>14. Stream' = u
  BY <1>8 DEF u
<1>15. Formed(Stream)' /\ StopsAtEnd(Stream)'
  BY <1>9, <1>14
<1>16. QED
  BY <1>11, <1>12, <1>13, <1>15 DEF StreamOK

-----------------------------------------------------------------------------
(* A chunk, up to piece p, that starts with a lines read.                   *)
LEMMA ChunkKeeps == StreamOK /\ Chunk => StreamOK'
<1> SUFFICES ASSUME StreamOK, Chunk PROVE StreamOK'
  OBVIOUS
<1>1. /\ mode = "reading" /\ pending = << >> /\ out \in Seq(ClientEvent)
      /\ UNCHANGED <<script, out>>
  BY DEF StreamOK, Typed, TypeOK, Chunk
<1>2. Typed /\ IsScript(script) /\ Len(script) \in Nat /\ pos \in 0..(3 * Len(script))
  BY TypedScript DEF StreamOK
<1> DEFINE a == LinesRead(pos)
           New(p) == (a + 1)..LinesRead(p)
           Stop(p) == {k \in New(p) : IsDone(k)}
           Taken(p) == {k \in New(p) : \A d \in Stop(p) : k < d}
           Tr(p) == FeedLines(Translator, InOrder(Taken(p)))
<1>3. PICK p \in (pos + 1)..Pieces :
         /\ pos' = p
         /\ garbled' \in Garble(p)
         /\ accounted' = Accounts(p, FALSE)
         /\ Become(Tr(p))
         /\ pending' = Tr(p).events \o (IF Stop(p) = {} THEN << >> ELSE Finish(Tr(p)))
         /\ mode' = IF Stop(p) = {} THEN "reading" ELSE "finished"
  BY DEF Chunk
<1> DEFINE b == LinesRead(p)
           D == Stop(p)
           t == Tr(p)
<1>4. p \in 0..(3 * Len(script)) /\ pos \in 0..p /\ p \in 1..Pieces
  BY <1>2 DEF Pieces
<1>5. b \in 0..Len(script) /\ a \in 0..b /\ a \in Nat /\ b \in Nat
  BY <1>2, <1>4, LinesReadBounds
<1>6. Stream = out
  BY <1>1, ConcatEmptySeq DEF Stream
<1>7. After(Translator, out, script, a) /\ NoDone(script, a)
  BY <1>1, <1>6 DEF StreamOK, Abreast
<1>8. D \in SUBSET ((a + 1)..b) /\ \A k \in (a + 1)..b : k \in D <=> script[k].kind = "done"
  BY DEF IsDone
<1>9. t = FeedLines(Translator, InOrder({k \in (a + 1)..b : \A d \in D : k < d}))
  OBVIOUS
<1>10. /\ pos' = p
       /\ garbled' \in Garble(p)
       /\ accounted' = Accounts(p, FALSE)
       /\ Become(t)
       /\ pending' = t.events \o (IF D = {} THEN << >> ELSE Finish(t))
       /\ mode' = IF D = {} THEN "reading" ELSE "finished"
  BY <1>3
<1>20. b = LinesRead(p) /\ a <= b
  BY <1>5
<1> HIDE DEF b, D, t, a, New, Stop, Taken, Tr
<1>11. PICK c \in a..b :
          /\ {k \in (a + 1)..b : \A d \in D : k < d} = (a + 1)..c
          /\ D = {} => c = b
          /\ D # {} => c + 1 \in D
          /\ \A d \in D : c < d
  <2>1. a \in Nat /\ b \in Nat /\ a <= b /\ D \in SUBSET ((a + 1)..b)
    BY <1>5, <1>8, <1>20
  <2>2. QED
    BY ONLY <2>1, LinesBeforeDone
<1>12. c \in 0..Len(script) /\ c \in Nat /\ a <= c /\ c <= Len(script)
  BY <1>2, <1>5
<1>13. After(t, out, script, c)
  BY <1>1, <1>2, <1>5, <1>7, <1>9, <1>11, <1>12, FeedLinesFits
<1>14. Translator' = Restarted(t)
  BY <1>10 DEF Translator, Become, Restarted
<1>15. \A k \in (a + 1)..c : script[k].kind # "done"
  BY <1>5, <1>8, <1>11
<1>16. /\ t.text \in {NoBlock, 0}
       /\ DOMAIN t.slots \subseteq Calls
       /\ t.slots \in [DOMAIN t.slots -> Seq(1..Len(script))]
       /\ t.reason \in 0..Len(script)
  BY <1>2, <1>12, <1>13, AfterTypes
<1>17. pending' \in Seq(ClientEvent) => Typed'
  <2>1. garbled' \subseteq 1..Len(script) /\ accounted' \in BOOLEAN /\ pos' \in 0..Pieces
    <3>1. garbled \subseteq 1..Len(script) /\ accounted \in BOOLEAN
      BY <1>2 DEF Typed, TypeOK
    <3>2. p % 3 = 1 => p \div 3 + 1 \in 1..Len(script)
      BY <1>2, <1>4, LinesReadBounds
    <3>3. garbled' \subseteq 1..Len(script)
      BY <1>10, <3>1, <3>2 DEF Garble
    <3>4. accounted' \in BOOLEAN
      BY <1>10, <3>1 DEF Accounts
    <3>5. QED
      BY <3>3, <3>4, <1>4, <1>10 DEF Pieces
  <2>2. textIndex' = t.text /\ slots' = t.slots /\ reason' = t.reason
    BY <1>10 DEF Become
  <2>3. mode' \in {"reading", "finished", "aborted"} /\ out' \in Seq(ClientEvent)
    BY <1>1, <1>10
  <2>4. Pieces' = Pieces /\ script' \in Scripts
    BY <1>1, <1>2 DEF Pieces, Typed
  <2>5. QED
    BY <1>1, <1>16, <2>1, <2>2, <2>3, <2>4 DEF Typed, TypeOK
<1>18. CASE D = {}
  <2>1. c = b /\ mode' = "reading" /\ pending' = t.events \o << >>
    BY <1>10, <1>11, <1>18
  <2>2. t.events \in Seq(ClientEvent)
    BY <1>13 DEF After
  <2>3. pending' = t.events
    BY <2>1, <2>2, ConcatEmptySeq
  <2> DEFINE u == out \o t.events
             r == Restarted(t)
  <2>4. Stream' = u
    BY <1>1, <2>3 DEF Stream
  <2>5. /\ Formed(u) /\ StopsAtEnd(u) /\ ~Says(u, "message_stop")
    BY <1>1, <1>13, AfterStream
  <2>6. After(r, u, script, b)
    BY <1>1, <1>13, <2>1, AfterRestarts
  <2>7. NoDone(script, b)
    BY <1>5, <1>7, <1>15, <2>1 DEF NoDone
  <2>8. LinesRead(pos') = b
    BY <1>10, <1>20
  <2> HIDE DEF u, r
  <2>9. Abreast'
    <3>1. Translator' = r /\ script' = script
      BY <1>1, <1>14 DEF r
    <3>2. QED
      BY <2>4, <2>6, <2>7, <2>8, <3>1 DEF Abreast
  <2>10. Formed(Stream)' /\ StopsAtEnd(Stream)' /\ Told'
    BY <2>4, <2>5 DEF Told
  <2>11. QED
    BY <1>17, <2>2, <2>3, <2>9, <2>10 DEF StreamOK
<1>19. CASE D # {}
  <2>1. c + 1 \in D /\ mode' = "finished" /\ pending' = t.events \o Finish(t)
    BY <1>10, <1>11, <1>19
  <2> DEFINE u == out \o (t.events \o Finish(t))
  <2>2. Stream' = u
    BY <1>1, <2>1 DEF Stream
  <2>3. /\ pending' \in Seq(ClientEvent)
        /\ Formed(u) /\ StopsAtEnd(u) /\ Complete(u, script, c)
    BY <1>1, <1>2, <1>12, <1>13, <2>1, ToldAtTheEnd
  <2> HIDE DEF u
  <2>4. c + 1 \in (a + 1)..b /\ script[c + 1].kind = "done"
    BY <1>8, <2>1
  <2>5. Read(script, p, c)
    <3>1. c + 1 \in 1..b
      BY <1>5, <2>4
    <3>2. QED
      BY <1>2, <1>5, <1>7, <1>15, <1>20, <2>4, <3>1, ReadUpTo
  <2>6. Abreast'
    BY <2>1 DEF Abreast
  <2>7. Told'
    <3>1. script' = script /\ pos' = p /\ c \in Nat
      BY <1>1, <1>10, <1>12
    <3>2. QED
      BY <3>1, <2>2, <2>3, <2>5 DEF Told
  <2>8. Formed(Stream)' /\ StopsAtEnd(Stream)'
    BY <2>2, <2>3
  <2>9. QED
    BY <1>17, <2>3, <2>6, <2>7, <2>8 DEF StreamOK
<1>21. QED
  BY <1>18, <1>19

-----------------------------------------------------------------------------
(* Every step preserves the invariant.                                      *)
LEMMA StreamNext == StreamOK /\ [Next]_vars => StreamOK'
<1> SUFFICES ASSUME StreamOK, [Next]_vars PROVE StreamOK'
  OBVIOUS
<1>1. CASE Emit
  BY <1>1, EmitKeeps
<1>2. CASE Chunk
  BY <1>2, ChunkKeeps
<1>3. CASE End
  BY <1>3, EndKeeps
<1>4. CASE Fail
  BY <1>4, StopKeeps DEF Fail
<1>5. CASE Leave
  BY <1>5, StopKeeps DEF Leave
<1>6. CASE UNCHANGED vars
  BY <1>6, StopKeeps DEF vars, trVars
<1>7. QED
  BY <1>1, <1>2, <1>3, <1>4, <1>5, <1>6 DEF Next, Poll

(* The invariant holds always.                                              *)
LEMMA StreamInvariant == Spec => []StreamOK
<1>1. Init => StreamOK
  BY StreamInit
<1>2. StreamOK /\ [Next]_vars => StreamOK'
  BY StreamNext
<1>3. QED
  BY <1>1, <1>2, PTL DEF Spec

(* Types of the translator's fields and of the buffers.                     *)
THEOREM TypeCorrect == Spec => []TypeOK
<1>1. StreamOK => TypeOK
  BY DEF StreamOK, Typed
<1>2. QED
  BY <1>1, StreamInvariant, PTL

-----------------------------------------------------------------------------
LEMMA MessageSteps == StreamOK /\ [Next]_vars => [Message!Next]_out
<1> SUFFICES ASSUME StreamOK, [Next]_vars PROVE Message!Next \/ out' = out
  OBVIOUS
<1>1. ASSUME Emit PROVE Message!Next
  <2> DEFINE e == Head(pending)
             u == out \o pending
  <2>1. /\ out \in Seq(ClientEvent) /\ pending \in Seq(ClientEvent) /\ pending # << >>
        /\ out' = Append(out, e)
    BY <1>1 DEF StreamOK, Typed, TypeOK, Emit
  <2>2. /\ Len(out) \in Nat /\ e \in ClientEvent /\ Len(out) + 1 \in 1..Len(u)
        /\ u[Len(out) + 1] = e /\ u \in Seq(ClientEvent)
        /\ \A i \in 1..Len(out) : u[i] = out[i]
    BY <2>1
  <2>3. (Len(out) + 1) - 1 = Len(out) /\ SubSeq(u, 1, Len(out)) = out
    <3> HIDE DEF u
    <3>1. QED
      BY <2>1, <2>2
  <2>4. Formed(u)
    BY DEF StreamOK, Stream
  <2> HIDE DEF e, u
  <2>5. At(SubSeq(u, 1, (Len(out) + 1) - 1))!MayFollow(u[Len(out) + 1])
    BY <2>2, <2>4 DEF Formed
  <2>6. At(out)!MayFollow(e)
    BY <2>2, <2>3, <2>5
  <2>7. Message!MayFollow(e)
    BY <2>6 DEF At!MayFollow, At!BlockOpen, At!IsNextIndex, At!IsCurrent, At!Seen,
                At!Started, At!Stopped,
                Message!MayFollow, Message!BlockOpen, Message!IsNextIndex,
                Message!IsCurrent, Message!Seen, Message!Started, Message!Stopped
  <2>8. Len(out') = Len(out) + 1 /\ out'[Len(out')] = e /\ SubSeq(out', 1, Len(out)) = out
    <3>1. out' \in Seq(ClientEvent) /\ Len(out') = Len(out) + 1 /\ out'[Len(out')] = e
          /\ \A i \in 1..Len(out) : out'[i] = out[i]
      BY <2>1, <2>2
    <3>2. SubSeq(out', 1, Len(out)) = out
      BY <2>1, <2>2, <3>1
    <3>3. QED
      BY <3>1, <3>2
  <2>9. QED
    BY <2>7, <2>8 DEF Message!Next
<1>2. CASE Chunk \/ End \/ Fail \/ Leave \/ UNCHANGED vars
  BY <1>2 DEF Chunk, End, Fail, Leave, vars
<1>3. QED
  BY <1>1, <1>2 DEF Next, Poll

(* WF-DESIGN-0011, for every script and every cut of it into chunks: what   *)
(* the client sees is at every moment the beginning of a well-formed        *)
(* message.                                                                 *)
THEOREM MessagesAreWellFormed == Spec => WellFormed
<1>1. Init => Message!Init
  BY DEF Init, Message!Init
<1>2. StreamOK /\ [Next]_vars => [Message!Next]_out
  BY MessageSteps
<1>3. QED
  BY <1>1, <1>2, StreamInvariant, PTL DEF Spec, WellFormed, Message!Spec

-----------------------------------------------------------------------------
(* The invariant says what a complete message has told.                     *)
LEMMA CompleteMessageTells == StreamOK => NothingLost
<1> SUFFICES ASSUME StreamOK, out # << >>, Last(out) = MessageStop
             PROVE  NothingLost
  BY DEF NothingLost
<1>1. out \in Seq(ClientEvent) /\ pending \in Seq(ClientEvent) /\ Typed
  BY DEF StreamOK, Typed, TypeOK
<1>2. IsScript(script) /\ Len(script) \in Nat
  BY <1>1, TypedScript
<1>3. Stream = out
  <2> DEFINE u == out \o pending
  <2>1. Len(out) \in 1..Len(u) /\ u[Len(out)] = out[Len(out)] /\ Len(u) = Len(out) + Len(pending)
        /\ Len(out) \in Nat /\ Len(pending) \in Nat
    BY <1>1
  <2>2. out[Len(out)].type = "message_stop"
    BY DEF Last, MessageStop
  <2>3. StopsAtEnd(u)
    BY DEF StreamOK, Stream
  <2>4. Len(out) = Len(u)
    BY <2>1, <2>2, <2>3 DEF StopsAtEnd
  <2>5. Len(pending) = 0
    BY <2>1, <2>4
  <2>6. pending = << >>
    BY <2>5, <1>1
  <2>7. QED
    BY <2>6, <1>1, ConcatEmptySeq DEF Stream
<1>4. Says(out, "message_stop")
  <2>1. Len(out) \in DOMAIN out
    BY <1>1
  <2>2. out[Len(out)].type = "message_stop"
    BY DEF Last, MessageStop
  <2>3. QED
    BY <2>1, <2>2 DEF Says, At!Seen
<1>5. PICK b \in Nat : Read(script, pos, b) /\ Complete(out, script, b)
  BY <1>3, <1>4 DEF StreamOK, Told
<1>6. ReadEvents = 1..b /\ b \in 0..Len(script)
  BY <1>5 DEF ReadEvents, Read, IsDone
<1> DEFINE texts == {k \in ReadEvents : script[k].kind = "text"}
           used  == {c \in Calls : \E k \in ReadEvents :
                         script[k].kind \in {"call", "args"} /\ script[k].call = c}
           block(c) == Cardinality({d \in used : d < c})
                        + IF texts = {} THEN 0 ELSE 1
           ends  == {k \in ReadEvents : script[k].kind = "reason"}
           given(c) == {k \in ReadEvents : script[k].kind = "args" /\ script[k].call = c}
<1>7. texts = Texts(script, b) /\ ends = Reasons(script, b)
  BY <1>6 DEF Texts, Reasons
<1>8. used = CallsIn(script, b)
  <2>1. \A k \in 1..b : script[k].call \in Calls
    <3>1. \A k \in 1..Len(script) : script[k] \in [kind : Kinds, call : Calls, end : LineEnds]
      BY <1>2, ElementOfSeq DEF IsScript
    <3>2. QED
      BY <1>2, <1>6, <3>1
  <2>2. QED
    BY <1>6, <2>1 DEF CallsIn
<1>9. \A c : given(c) = ArgumentsOf(script, b, c)
  BY <1>6 DEF ArgumentsOf
<1> HIDE DEF texts, used, ends, given
<1>10. texts # {} => Carried(out, 0) = InOrder(texts)
  BY <1>5, <1>7 DEF Complete
<1>11. \A c \in used : Carried(out, block(c)) = InOrder(given(c))
  BY <1>5, <1>7, <1>8, <1>9 DEF Complete, ToolsTold
<1>12. \E i \in DOMAIN out :
          /\ out[i].type = "message_delta"
          /\ out[i].reason = IF ends = {} THEN 0 ELSE Last(InOrder(ends))
  BY <1>5, <1>7 DEF Complete, TellsReason, LastReason
<1>13. QED
  BY <1>10, <1>11, <1>12 DEF NothingLost, texts, used, ends, given

(* For every script: a message that reaches its end has given the client    *)
(* every piece of text and of arguments the translator read, once, in order,*)
(* in the block it belongs to, and the last stop reason.                    *)
THEOREM NothingIsLost == Spec => []NothingLost
BY CompleteMessageTells, StreamInvariant, PTL

-----------------------------------------------------------------------------
(* Every step preserves what is said about the accounting.                  *)
LEMMA AccountedStep ==
    StreamOK /\ AccountedUnlessMissed /\ [Next]_vars => AccountedUnlessMissed'
<1> SUFFICES ASSUME StreamOK, AccountedUnlessMissed, [Next]_vars PROVE AccountedUnlessMissed'
  OBVIOUS
<1>1. IsScript(script) /\ Len(script) \in Nat /\ pos \in 0..(3 * Len(script))
  BY TypedScript DEF StreamOK
<1>2. ASSUME Chunk, mode' = "finished", ~accounted'
      PROVE  \E k \in 1..LinesRead(pos)' : Missed(k)'
  <2>1. PICK p \in (pos + 1)..Pieces :
           /\ pos' = p /\ script' = script
           /\ accounted' = Accounts(p, FALSE)
           /\ \E k \in (LinesRead(pos) + 1)..LinesRead(p) : IsDone(k)
    BY <1>2 DEF Chunk
  <2>2. PICK k \in (LinesRead(pos) + 1)..LinesRead(p) : IsDone(k)
    BY <2>1
  <2>3. p \in 0..(3 * Len(script)) /\ pos \in 0..p
    BY <1>1 DEF Pieces
  <2>4. k \in 1..LinesRead(p) /\ k \in 1..Len(script)
    <3>1. LinesRead(pos) \in Nat /\ LinesRead(p) \in 0..Len(script)
      BY <1>1, <2>3, LinesReadBounds
    <3>2. QED
      BY <1>1, <3>1
  <2>5. p \div 3 \in Nat
    BY <1>1, <2>3, LinesReadBounds
  <2>6. CASE script[k].end = "crlf"
    BY <2>1, <2>2, <2>4, <2>6 DEF Missed, IsDone, LinesRead
  <2>7. CASE script[k].end = "lf"
    <3>1. k \notin Drained(p)
      BY <1>2, <2>1, <2>2 DEF Accounts
    <3>2. k > p \div 3
      BY <2>4, <2>5, <2>7, <3>1 DEF Drained
    <3>3. p % 3 = 2 /\ k = LinesRead(p)
      <4>1. k \in Int /\ k <= LinesRead(p)
        BY <2>4
      <4>2. QED
        BY <1>1, <2>3, <3>2, <4>1, LinesReadBounds
    <3>4. QED
      BY <2>1, <2>2, <2>4, <3>3 DEF Missed, IsDone, LinesRead
  <2>8. script[k].end \in LineEnds
    <3>1. script[k] \in [kind : Kinds, call : Calls, end : LineEnds]
      BY <1>1, <2>4, ElementOfSeq DEF IsScript
    <3>2. QED
      BY <3>1
  <2>9. QED
    BY <2>6, <2>7, <2>8 DEF LineEnds
<1>3. CASE Chunk
  BY <1>2, <1>3 DEF AccountedUnlessMissed, LinesRead
<1>4. CASE End
  BY <1>4 DEF End, Accounts, AccountedUnlessMissed
<1>5. CASE Emit \/ UNCHANGED vars
  BY <1>5 DEF Emit, vars, trVars, AccountedUnlessMissed, Missed, IsDone, LinesRead
<1>6. CASE Fail \/ Leave
  BY <1>6 DEF Fail, Leave, AccountedUnlessMissed
<1>7. QED
  BY <1>3, <1>4, <1>5, <1>6 DEF Next, Poll

(* A message that reached its end was charged and counted, except when the  *)
(* network cut the stream between the line of [DONE] and its blank line, or *)
(* the upstream ends that event with CRLF.                                  *)
THEOREM FinishedIsAccounted == Spec => []AccountedUnlessMissed
<1>1. Init => AccountedUnlessMissed
  BY DEF Init, AccountedUnlessMissed
<1>2. QED
  BY <1>1, AccountedStep, StreamInvariant, PTL DEF Spec
=============================================================================
