------------------------- MODULE LinuxMountPlan_proofs -------------------------
(* Proofs about LinuxMountPlan: for any tree of paths, any host and config,  *)
(* any number of denies and of steps of other processes and of the child.    *)
EXTENDS LinuxMountPlan, TLAPS, SequenceTheorems, FiniteSetTheorems

-----------------------------------------------------------------------------
(* Numbers and lists.                                                      *)

\* A set of numbers with a bound has a greatest element.
LEMMA MaxMeans ==
  ASSUME NEW n \in Nat, NEW S \in SUBSET (0..n), S # {}
  PROVE  Max(S) \in S /\ \A i \in S : i <= Max(S)
<1> DEFINE R == OpToRel(<, Nat)
           T == {n - i : i \in S}
<1>1. T \subseteq Nat /\ T # {}
  <2>1. \A i \in S : i \in 0..n /\ n - i \in Nat
    OBVIOUS
  <2>2. QED
    BY <2>1
<1>2. IsWellFoundedOn(R, Nat)
  BY NatLessThanWellFounded
<1>3. PICK x \in T : \A y \in T : ~ (<<y, x>> \in R)
  <2> HIDE DEF R, T
  <2> QED BY <1>1, <1>2, WFMin
<1>4. \A y \in T : ~ (y < x)
  BY <1>1, <1>3 DEF OpToRel
<1>5. PICK i \in S : x = n - i
  OBVIOUS
<1>6. \A j \in S : i >= j
  <2> SUFFICES ASSUME NEW j \in S PROVE i >= j
    OBVIOUS
  <2>1. n - j \in T
    OBVIOUS
  <2>2. ~ (n - j < n - i)
    BY <1>4, <1>5, <2>1
  <2>3. i \in Nat /\ j \in Nat
    OBVIOUS
  <2>4. QED
    BY <2>2, <2>3
<1>7. Max(S) \in S /\ \A j \in S : Max(S) >= j
  BY <1>6 DEF Max
<1>8. QED
  BY <1>7

\* Every set of indices can be put in order, and InOrder does.
LEMMA InOrderMeans ==
  ASSUME NEW n \in Nat, NEW I \in SUBSET (1..n)
  PROVE  /\ Cardinality(I) \in Nat
         /\ InOrder(I) \in [1..Cardinality(I) -> I]
         /\ \A i, j \in 1..Cardinality(I) : i < j => InOrder(I)[i] < InOrder(I)[j]
         /\ \A m \in I : \E i \in 1..Cardinality(I) : InOrder(I)[i] = m
<1> DEFINE Enum(J, f) == /\ f \in [1..Cardinality(J) -> J]
                         /\ \A i, j \in DOMAIN f : i < j => f[i] < f[j]
           R == OpToRel(<, Nat)
           Bad == {k \in Nat : \E J \in SUBSET (1..n) : Cardinality(J) = k /\ ~ \E f : Enum(J, f)}
<1>1. \A J \in SUBSET (1..n) : IsFiniteSet(J) /\ Cardinality(J) \in Nat
  <2>1. n \in Int /\ 1 \in Int
    OBVIOUS
  <2>2. IsFiniteSet(1..n)
    BY <2>1, FS_Interval
  <2>3. QED
    BY <2>2, FS_Subset, FS_CardinalityType
<1>2. ASSUME Bad # {} PROVE FALSE
  <2>1. IsWellFoundedOn(R, Nat) /\ Bad \subseteq Nat
    BY NatLessThanWellFounded
  <2>2. PICK k \in Bad : \A y \in Bad : ~ (<<y, k>> \in R)
    <3> HIDE DEF R, Bad
    <3> QED BY <1>2, <2>1, WFMin
  <2>3. \A y \in Bad : ~ (y < k)
    BY <2>1, <2>2 DEF OpToRel
  <2>4. PICK J \in SUBSET (1..n) : Cardinality(J) = k /\ ~ \E f : Enum(J, f)
    OBVIOUS
  <2>5. IsFiniteSet(J) /\ k \in Nat
    BY <1>1, <2>4
  <2>6. CASE J = {}
    <3>1. k = 0
      BY <2>4, <2>6, FS_EmptySet
    <3> DEFINE g == [i \in 1..0 |-> i]
    <3>2. Enum(J, g)
      BY <2>4, <2>6, <3>1
    <3>3. QED
      BY <2>4, <3>2
  <2>7. CASE J # {}
    <3> DEFINE m == Max(J)
               K == J \ {m}
    <3>1. m \in J /\ \A i \in J : i <= m
      BY <2>7, MaxMeans
    <3> HIDE DEF m
    <3>2. IsFiniteSet(K) /\ Cardinality(K) = k - 1 /\ k # 0
      BY <2>4, <2>5, <2>7, <3>1, FS_RemoveElement, FS_EmptySet
    <3>0. k - 1 \in Nat /\ k - 1 < k
      BY <2>5, <3>2
    <3>3. k - 1 \in Nat /\ k - 1 < k /\ K \in SUBSET (1..n)
      BY <3>0
    <3>4. PICK g : Enum(K, g)
      BY <2>3, <3>2, <3>3
    <3> DEFINE f == [i \in 1..k |-> IF i = k THEN m ELSE g[i]]
    <3>5. g \in [1..(k - 1) -> K] /\ \A i, j \in 1..(k - 1) : i < j => g[i] < g[j]
      BY <3>2, <3>4
    <3>6. f \in [1..k -> J]
      BY <2>5, <3>1, <3>5
    <3>7. ASSUME NEW i \in 1..k, NEW j \in 1..k, i < j PROVE f[i] < f[j]
      <4>1. i \in 1..(k - 1) /\ i # k /\ f[i] = g[i] /\ g[i] \in K
        BY <2>5, <3>5, <3>7
      <4>0. g[i] \in 1..n /\ m \in 1..n /\ g[i] # m /\ g[i] <= m
        BY <3>1, <4>1
      <4>2. g[i] < m
        BY <4>0
      <4>3. CASE j = k
        BY <4>1, <4>2, <4>3
      <4>4. CASE j # k
        BY <2>5, <3>5, <3>7, <4>1, <4>4
      <4>5. QED
        BY <4>3, <4>4
    <3>8. Enum(J, f)
      BY <2>4, <3>6, <3>7
    <3>9. QED
      BY <2>4, <3>8
  <2>8. QED
    BY <2>6, <2>7
<1>3. \E f : Enum(I, f)
  BY <1>1, <1>2
<1>4. Enum(I, InOrder(I))
  BY <1>3 DEF InOrder
<1>5. \A m \in I : \E i \in 1..Cardinality(I) : InOrder(I)[i] = m
  <2> DEFINE c == Cardinality(I)
             F == InOrder(I)
  <2>1. F \in [1..c -> I] /\ c \in Nat
    BY <1>1, <1>4
  <2>2. \A i, j \in 1..c : i < j => F[i] < F[j]
    BY <1>4, <2>1
  <2>3. \A i, j \in 1..c : F[i] = F[j] => i = j
    <3> SUFFICES ASSUME NEW i \in 1..c, NEW j \in 1..c, F[i] = F[j], i # j PROVE FALSE
      OBVIOUS
    <3> HIDE DEF F, c
    <3>1. i < j \/ j < i
      BY <2>1
    <3>2. F[i] \in 1..n /\ F[j] \in 1..n
      BY <2>1
    <3>3. F[i] < F[j] \/ F[j] < F[i]
      BY <2>2, <3>1
    <3>4. QED
      BY <3>2, <3>3
  <2>4. F \in Injection(1..c, I)
    BY <2>1, <2>3 DEF Injection, IsInjective
  <2>5. IsFiniteSet(1..c) /\ Cardinality(1..c) = c /\ IsFiniteSet(I)
    BY <1>1, <2>1, FS_Interval
  <2>6. F \in Surjection(1..c, I)
    BY <2>4, <2>5, FS_Injection
  <2>7. QED
    BY <2>6 DEF Surjection
<1>6. QED
  BY <1>1, <1>4, <1>5

-----------------------------------------------------------------------------
(* Sequences: paths, and lists of mounts.                                  *)

\* Every sequence is a path.
LEMMA SeqIsPath ==
  ASSUME NEW S, NEW u \in Seq(S)
  PROVE  IsPath(u)
<1>1. u \in Seq(Range(u))
  BY SeqOfRange
<1>2. QED
  BY <1>1 DEF Range, ToSet, IsPath

\* What it is to be a sequence over a set.
LEMMA SeqMeans ==
  ASSUME NEW S, NEW u \in Seq(S)
  PROVE  /\ IsPath(u) /\ Len(u) \in Nat /\ DOMAIN u = 1..Len(u)
         /\ \A i \in 1..Len(u) : u[i] \in S
BY SeqIsPath

\* A path is a function on the indices up to its length.
LEMMA PathIsFunction ==
  ASSUME NEW p, IsPath(p)
  PROVE  Len(p) \in Nat /\ DOMAIN p = 1..Len(p) /\ p = [i \in 1..Len(p) |-> p[i]]
BY DEF IsPath

\* A prefix agrees with the path at each of its indices.
LEMMA PrefixMeans ==
  ASSUME NEW s, NEW t, IsPath(s), IsPath(t)
  PROVE  IsPrefix(s, t) <=> Len(s) <= Len(t) /\ \A i \in 1..Len(s) : s[i] = t[i]
<1>1. s \in Seq(ToSet(s)) /\ t \in Seq(ToSet(t)) /\ Len(s) \in Nat /\ Len(t) \in Nat
  BY DEF IsPath
<1>2. SubSeq(s, 1, Len(s)) = [i \in 1..Len(s) |-> s[i]]
  BY <1>1
<1>3. Len(s) <= Len(t) => SubSeq(t, 1, Len(s)) = [i \in 1..Len(s) |-> t[i]]
  BY <1>1
<1>4. QED
  BY <1>2, <1>3 DEF IsPrefix

\* What is where in two paths, one after the other.
LEMMA ConcatPath ==
  ASSUME NEW s, NEW t, IsPath(s), IsPath(t)
  PROVE  /\ IsPath(s \o t) /\ Len(s \o t) = Len(s) + Len(t)
         /\ \A i \in 1..Len(s) : (s \o t)[i] = s[i]
         /\ \A i \in 1..Len(t) : (s \o t)[Len(s) + i] = t[i]
<1> DEFINE S == ToSet(s) \cup ToSet(t)
<1>1. s \in Seq(S) /\ t \in Seq(S)
  BY SeqMonotonic DEF IsPath
<1>2. /\ s \o t \in Seq(S) /\ Len(s \o t) = Len(s) + Len(t)
      /\ \A i \in 1..Len(s) : (s \o t)[i] = s[i]
      /\ \A i \in 1..Len(t) : (s \o t)[Len(s) + i] = t[i]
  BY <1>1
<1> HIDE DEF S
<1>3. IsPath(s \o t)
  BY <1>2, SeqIsPath
<1>4. QED
  BY <1>2, <1>3

\* A prefix of a prefix of a path is a prefix of the path.
LEMMA PrefixTransitive ==
  ASSUME NEW s, NEW t, NEW u, IsPath(s), IsPath(t), IsPath(u), IsPrefix(s, t), IsPrefix(t, u)
  PROVE  IsPrefix(s, u)
<1>1. Len(s) <= Len(t) /\ Len(t) <= Len(u) /\ Len(s) \in Nat /\ Len(t) \in Nat /\ Len(u) \in Nat
  BY PrefixMeans, PathIsFunction
<1>2. \A i \in 1..Len(s) : s[i] = u[i]
  BY <1>1, PrefixMeans
<1>3. QED
  BY <1>1, <1>2, PrefixMeans

\* Two prefixes of a path are prefixes of one another.
LEMMA PrefixChain ==
  ASSUME NEW s, NEW t, NEW u, IsPath(s), IsPath(t), IsPath(u), IsPrefix(s, u), IsPrefix(t, u)
  PROVE  IsPrefix(s, t) \/ IsPrefix(t, s)
<1>1. /\ Len(s) \in Nat /\ Len(t) \in Nat /\ Len(u) \in Nat
      /\ \A i \in 1..Len(s) : s[i] = u[i]
      /\ \A i \in 1..Len(t) : t[i] = u[i]
  BY PrefixMeans, PathIsFunction
<1>2. QED
  BY <1>1, PrefixMeans

\* Paths, and lists of mounts, are equal if they are at each index.
LEMMA PathsEqual ==
  ASSUME NEW s, NEW t, IsPath(s), IsPath(t), Len(s) = Len(t),
         \A i \in 1..Len(s) : s[i] = t[i]
  PROVE  s = t
BY PathIsFunction

\* What Picked picks.
LEMMA PickedMeans ==
  ASSUME NEW list, IsPath(list), NEW I \in SUBSET (1..Len(list))
  PROVE  /\ IsPath(Picked(list, I))
         /\ \A i \in 1..Len(Picked(list, I)) : \E k \in I :
              /\ Picked(list, I)[i] = list[k]
              /\ \A m \in I : m > k => \E j \in 1..Len(Picked(list, I)) :
                                         j > i /\ Picked(list, I)[j] = list[m]
         /\ \A m \in I : \E j \in 1..Len(Picked(list, I)) : Picked(list, I)[j] = list[m]
<1> DEFINE f == InOrder(I)
           c == Cardinality(I)
           R == Picked(list, I)
<1>1. Len(list) \in Nat /\ DOMAIN list = 1..Len(list)
  BY PathIsFunction
<1>2. /\ c \in Nat /\ f \in [1..c -> I]
      /\ \A i, j \in 1..c : i < j => f[i] < f[j]
      /\ \A m \in I : \E i \in 1..c : f[i] = m
  BY <1>1, InOrderMeans
<1>3. R = [i \in 1..c |-> list[f[i]]]
  BY <1>2 DEF Picked
<1> HIDE DEF f, c, R
<1>4. IsPath(R) /\ Len(R) = c
  <2>1. R \in Seq({list[k] : k \in I})
    BY <1>2, <1>3
  <2>2. Len(R) = c
    BY <1>2, <1>3
  <2>3. QED
    BY <2>1, <2>2, SeqIsPath
<1>5. \A i \in 1..c : R[i] = list[f[i]] /\ f[i] \in I
  BY <1>2, <1>3
<1>6. ASSUME NEW i \in 1..c, NEW m \in I, m > f[i]
      PROVE  \E j \in 1..c : j > i /\ R[j] = list[m]
  <2>1. PICK j \in 1..c : f[j] = m
    BY <1>2
  <2>2. f[i] \in Nat /\ f[j] \in Nat
    <3>1. f[i] \in I /\ f[j] \in I /\ \A k \in I : k \in Nat
      BY <1>2
    <3>2. QED
      BY <3>1
  <2>3. j > i
    BY <1>2, <1>6, <2>1, <2>2
  <2>4. QED
    BY <1>5, <2>1, <2>3
<1>7. \A m \in I : \E j \in 1..c : R[j] = list[m]
  BY <1>2, <1>5
<1>8. \A i \in 1..c : \E k \in I :
        /\ R[i] = list[k]
        /\ \A m \in I : m > k => \E j \in 1..c : j > i /\ R[j] = list[m]
  BY <1>5, <1>6
<1>9. QED
  BY <1>4, <1>7, <1>8 DEF R

\* A finite set can be listed.
LEMMA SetToSeqMeans ==
  ASSUME NEW S, IsFiniteSet(S)
  PROVE  /\ IsPath(SetToSeq(S))
         /\ \A i \in 1..Len(SetToSeq(S)) : SetToSeq(S)[i] \in S
         /\ \A x \in S : \E i \in 1..Len(SetToSeq(S)) : SetToSeq(S)[i] = x
<1> DEFINE c == Cardinality(S)
           q == SetToSeq(S)
<1>1. c \in Nat /\ Bijection(1..c, S) # {}
  BY FS_CardinalityType DEF ExistsBijection
<1>2. \E f \in [1..c -> S] : IsInjective(f)
  BY <1>1 DEF Bijection, Injection
<1>3. q \in [1..c -> S] /\ IsInjective(q)
  BY <1>2 DEF SetToSeq
<1>4. q \in Injection(1..c, S)
  BY <1>3 DEF Injection
<1>5. IsFiniteSet(1..c) /\ Cardinality(1..c) = c
  BY <1>1, FS_Interval
<1>6. q \in Surjection(1..c, S)
  BY <1>4, <1>5, FS_Injection
<1>7. \A x \in S : \E i \in 1..c : q[i] = x
  BY <1>6 DEF Surjection
<1> HIDE DEF q, c
<1>8. q \in Seq(S) /\ Len(q) = c
  BY <1>1, <1>3
<1>9. IsPath(q)
  BY <1>8, SeqIsPath
<1>10. QED
  BY <1>3, <1>7, <1>8, <1>9 DEF q

-----------------------------------------------------------------------------
(* The mount that governs a path.                                          *)

\* It is the last that covers it.
LEMMA GoverningMeans ==
  ASSUME NEW ms, IsPath(ms), NEW p
  PROVE  /\ Governing(ms, p) \in 0..Len(ms)
         /\ Governing(ms, p) # 0 => IsPrefix(ms[Governing(ms, p)].at, p)
         /\ \A i \in 1..Len(ms) : IsPrefix(ms[i].at, p) => i <= Governing(ms, p)
<1> DEFINE S == {0} \cup {i \in DOMAIN ms : IsPrefix(ms[i].at, p)}
<1>1. Len(ms) \in Nat /\ DOMAIN ms = 1..Len(ms)
  BY PathIsFunction
<1>2. S \in SUBSET (0..Len(ms)) /\ S # {}
  BY <1>1
<1>3. Max(S) \in S /\ \A i \in S : i <= Max(S)
  <2> HIDE DEF S
  <2> QED BY <1>1, <1>2, MaxMeans
<1>4. QED
  BY <1>1, <1>2, <1>3 DEF Governing

\* And only that.
LEMMA GoverningIs ==
  ASSUME NEW ms, IsPath(ms), NEW p, NEW g \in 1..Len(ms), IsPrefix(ms[g].at, p),
         \A i \in 1..Len(ms) : IsPrefix(ms[i].at, p) => i <= g
  PROVE  Governing(ms, p) = g
<1>1. Len(ms) \in Nat /\ Governing(ms, p) \in 0..Len(ms) /\ g <= Governing(ms, p)
  BY PathIsFunction, GoverningMeans
<1>2. Governing(ms, p) <= g
  BY <1>1, GoverningMeans
<1>3. QED
  BY <1>1, <1>2

\* Of two lists the second governs what it covers.
LEMMA LaterGoverns ==
  ASSUME NEW A, NEW B, IsPath(A), IsPath(B), NEW p
  PROVE  /\ IsPath(A \o B)
         /\ Governing(A \o B, p) = IF Governing(B, p) = 0 THEN Governing(A, p)
                                   ELSE Len(A) + Governing(B, p)
         /\ View(A \o B, p) = IF Governing(B, p) = 0 THEN View(A, p) ELSE View(B, p)
<1> DEFINE C == A \o B
           m == Len(A)
           n == Len(B)
           a == Governing(A, p)
           b == Governing(B, p)
           c == Governing(C, p)
<1>1. m \in Nat /\ n \in Nat
  BY PathIsFunction
<1>2. /\ IsPath(C) /\ Len(C) = m + n
      /\ \A i \in 1..m : C[i] = A[i]
      /\ \A i \in 1..n : C[m + i] = B[i]
  BY ConcatPath
<1> HIDE DEF C
<1>3. /\ a \in 0..m /\ b \in 0..n /\ c \in 0..(m + n)
      /\ a # 0 => IsPrefix(A[a].at, p)
      /\ b # 0 => IsPrefix(B[b].at, p)
      /\ c # 0 => IsPrefix(C[c].at, p)
      /\ \A i \in 1..m : IsPrefix(A[i].at, p) => i <= a
      /\ \A i \in 1..n : IsPrefix(B[i].at, p) => i <= b
      /\ \A i \in 1..(m + n) : IsPrefix(C[i].at, p) => i <= c
  BY <1>2, GoverningMeans
<1> HIDE DEF m, n, a, b, c
<1>4. \A i \in 1..(m + n) : i \in 1..m \/ (i - m \in 1..n /\ i = m + (i - m))
  BY <1>1
<1>5. ASSUME b # 0 PROVE c = m + b /\ C[c] = B[b]
  <2>1. b \in 1..n /\ m + b \in 1..(m + n) /\ C[m + b] = B[b]
    BY <1>1, <1>2, <1>3, <1>5
  <2>2. m + b <= c
    BY <1>3, <1>5, <2>1
  <2>3. c \in 1..(m + n) /\ c \notin 1..m
    BY <1>1, <1>3, <2>1, <2>2
  <2>4. c - m \in 1..n /\ c = m + (c - m)
    BY <1>4, <2>3
  <2>5. C[c] = B[c - m]
    BY <1>2, <2>4
  <2>6. c - m <= b
    BY <1>3, <2>3, <2>4, <2>5
  <2>7. c = m + b
    BY <1>1, <1>3, <2>2, <2>4, <2>6
  <2>8. QED
    BY <2>1, <2>7
<1>6. ASSUME b = 0 PROVE c = a /\ (a # 0 => C[c] = A[a])
  <2>1. c # 0 => c \in 1..m
    <3> SUFFICES ASSUME c # 0, c \notin 1..m PROVE FALSE
      OBVIOUS
    <3>1. c - m \in 1..n /\ C[c] = B[c - m]
      BY <1>1, <1>2, <1>3, <1>4
    <3>2. c - m <= 0
      BY <1>3, <1>6, <3>1
    <3>3. QED
      BY <1>1, <3>1, <3>2
  <2>2. c # 0 => c <= a
    BY <1>2, <1>3, <2>1
  <2>3. a # 0 => a \in 1..m /\ a \in 1..(m + n) /\ C[a] = A[a]
    BY <1>1, <1>2, <1>3
  <2>4. a # 0 => a <= c
    BY <1>3, <2>3
  <2>5. c = a
    BY <1>1, <1>3, <2>2, <2>4
  <2>6. QED
    BY <2>3, <2>5
<1>7. /\ c = IF b = 0 THEN a ELSE m + b
      /\ (IF c = 0 THEN "root" ELSE C[c].op) =
           IF b = 0 THEN (IF a = 0 THEN "root" ELSE A[a].op)
           ELSE (IF b = 0 THEN "root" ELSE B[b].op)
  <2>1. CASE b = 0
    BY <1>6, <2>1
  <2>2. CASE b # 0
    <3>1. c # 0
      BY <1>1, <1>3, <1>5, <2>2
    <3>2. QED
      BY <1>5, <2>2, <3>1
  <2>3. QED
    BY <2>1, <2>2
<1>8. QED
  BY <1>2, <1>7 DEF View, C, m, n, a, b, c

\* The beginnings of a list that goes on.
LEMMA BeginsConcat ==
  ASSUME NEW A, NEW B, IsPath(A), IsPath(B), NEW n \in Nat
  PROVE  /\ n <= Len(A) => IsPath(SubSeq(A, 1, n)) /\ SubSeq(A \o B, 1, n) = SubSeq(A, 1, n)
         /\ n <= Len(B) => SubSeq(A \o B, 1, Len(A) + n) = A \o SubSeq(B, 1, n)
<1> DEFINE C == A \o B
<1>1. /\ Len(A) \in Nat /\ Len(B) \in Nat
      /\ A \in Seq(ToSet(A)) /\ B \in Seq(ToSet(B))
  BY DEF IsPath
<1>2. /\ IsPath(C) /\ Len(C) = Len(A) + Len(B)
      /\ \A i \in 1..Len(A) : C[i] = A[i]
      /\ \A i \in 1..Len(B) : C[Len(A) + i] = B[i]
  BY ConcatPath
<1> HIDE DEF C
<1>3. C \in Seq(ToSet(C))
  BY <1>2 DEF IsPath
<1>4. ASSUME n <= Len(A)
      PROVE  IsPath(SubSeq(A, 1, n)) /\ SubSeq(C, 1, n) = SubSeq(A, 1, n)
  <2> DEFINE u == SubSeq(C, 1, n)
             v == SubSeq(A, 1, n)
  <2>1. u \in Seq(ToSet(C)) /\ Len(u) = n /\ \A i \in 1..n : u[i] = C[i]
    BY <1>1, <1>2, <1>3, <1>4
  <2>2. v \in Seq(ToSet(A)) /\ Len(v) = n /\ \A i \in 1..n : v[i] = A[i]
    BY <1>1, <1>4
  <2> HIDE DEF u, v
  <2>3. IsPath(u) /\ IsPath(v)
    BY <2>1, <2>2, SeqIsPath
  <2>4. \A i \in 1..n : u[i] = v[i]
    <3>1. \A i \in 1..n : i \in 1..Len(A)
      BY <1>1, <1>4
    <3>2. QED
      BY <1>2, <2>1, <2>2, <3>1
  <2>5. u = v
    BY <2>1, <2>2, <2>3, <2>4, PathsEqual
  <2>6. QED
    BY <2>3, <2>5 DEF u, v
<1>5. ASSUME n <= Len(B) PROVE SubSeq(C, 1, Len(A) + n) = A \o SubSeq(B, 1, n)
  <2> DEFINE u == SubSeq(C, 1, Len(A) + n)
             v == SubSeq(B, 1, n)
             w == A \o v
  <2>1. u \in Seq(ToSet(C)) /\ Len(u) = Len(A) + n /\ \A i \in 1..(Len(A) + n) : u[i] = C[i]
    BY <1>1, <1>2, <1>3, <1>5
  <2>2. v \in Seq(ToSet(B)) /\ Len(v) = n /\ \A i \in 1..n : v[i] = B[i]
    BY <1>1, <1>5
  <2> HIDE DEF u, v
  <2>3. IsPath(u) /\ IsPath(v)
    BY <2>1, <2>2, SeqIsPath
  <2>4. /\ IsPath(w) /\ Len(w) = Len(A) + Len(v)
        /\ \A i \in 1..Len(A) : w[i] = A[i]
        /\ \A i \in 1..Len(v) : w[Len(A) + i] = v[i]
    BY <2>3, ConcatPath
  <2> HIDE DEF w
  <2>5. ASSUME NEW i \in 1..(Len(A) + n) PROVE u[i] = w[i]
    <3>1. CASE i \in 1..Len(A)
      BY <1>2, <2>1, <2>4, <3>1
    <3>2. CASE i \notin 1..Len(A)
      <4> DEFINE k == i - Len(A)
      <4>1. k \in 1..n /\ k \in 1..Len(B) /\ i = Len(A) + k
        BY <1>1, <1>5, <3>2
      <4> HIDE DEF k
      <4>2. u[i] = B[k] /\ w[i] = v[k] /\ v[k] = B[k]
        BY <1>2, <2>1, <2>2, <2>4, <4>1
      <4>3. QED
        BY <4>2
    <3>3. QED
      BY <3>1, <3>2
  <2>6. u = w
    BY <2>1, <2>2, <2>3, <2>4, <2>5, PathsEqual
  <2>7. QED
    BY <2>6 DEF u, v, w
<1>6. QED
  BY <1>4, <1>5 DEF C

\* The same, of the beginnings that reach into the second list.
LEMMA BeginsBeyond ==
  ASSUME NEW A, NEW B, IsPath(A), IsPath(B), NEW n \in Nat, n <= Len(B)
  PROVE  SubSeq(A \o B, 1, Len(A) + n) = A \o SubSeq(B, 1, n)
BY BeginsConcat

-----------------------------------------------------------------------------
(* The paths of interest.                                                  *)

\* The paths of interest are paths, and closed under parents.
LEMMA KnownPaths ==
  /\ \A p \in Paths : IsPath(p) /\ p # <<>> /\ Len(p) \in Nat
  /\ \A h \in Hosts : IsPath(h.tmp)
BY PathsAssumption, HostsAssumption, PathIsFunction

\* A path is strictly below the one it lies in.
LEMMA FrontAbove ==
  ASSUME NEW c \in Paths
  PROVE  IsStrictPrefix(Front(c), c) /\ IsPath(Front(c))
<1> DEFINE f == Front(c)
<1>1. c \in Seq(ToSet(c)) /\ c # <<>> /\ Len(c) \in Nat
  BY KnownPaths DEF IsPath
<1>2. Len(c) - 1 \in Nat /\ Len(c) - 1 <= Len(c)
  BY <1>1
<1>3. f \in Seq(ToSet(c)) /\ Len(f) = Len(c) - 1 /\ \A i \in 1..(Len(c) - 1) : f[i] = c[i]
  <2> DEFINE n == Len(c) - 1
  <2>1. f = SubSeq(c, 1, n) /\ n \in Nat /\ n <= Len(c)
    BY <1>2 DEF Front
  <2> HIDE DEF n, f
  <2>2. f \in Seq(ToSet(c)) /\ Len(f) = n /\ \A i \in 1..n : f[i] = c[i]
    BY <1>1, <2>1
  <2>3. QED
    BY <2>2 DEF n
<1> HIDE DEF f
<1>4. IsPath(f) /\ IsPath(c)
  BY <1>3, SeqIsPath, KnownPaths
<1>5. IsPrefix(f, c)
  BY <1>1, <1>2, <1>3, <1>4, PrefixMeans
<1>6. f # c
  BY <1>1, <1>3
<1>7. QED
  BY <1>4, <1>5, <1>6 DEF IsStrictPrefix, f

\* Between a path and one below it there is a child of the first.
LEMMA ChildBetween ==
  ASSUME NEW d \in Paths, NEW p \in Paths, IsStrictPrefix(d, p)
  PROVE  \E c \in Paths : IsPrefix(c, p) /\ IsStrictPrefix(d, c) /\ Front(c) = d
<1> DEFINE n == Len(d) + 1
           c == SubSeq(p, 1, n)
<1>1. /\ IsPath(d) /\ IsPath(p) /\ Len(d) \in Nat /\ Len(p) \in Nat
      /\ p \in Seq(ToSet(p)) /\ d \in Seq(ToSet(d))
  BY KnownPaths DEF IsPath
<1>2. Len(d) <= Len(p) /\ \A i \in 1..Len(d) : d[i] = p[i]
  BY <1>1, PrefixMeans DEF IsStrictPrefix
<1>3. Len(d) # Len(p)
  BY <1>1, <1>2, PathsEqual DEF IsStrictPrefix
<1>4. n \in 1..Len(p)
  BY <1>1, <1>2, <1>3
<1>5. c \in Paths
  BY <1>4, PathsAssumption
<1>6. c \in Seq(ToSet(p)) /\ Len(c) = n /\ \A i \in 1..n : c[i] = p[i]
  BY <1>1, <1>4
<1>7. IsPath(c) /\ IsPath(Front(c)) /\ IsStrictPrefix(Front(c), c)
  BY <1>5, KnownPaths, FrontAbove
<1>8. Len(Front(c)) = Len(d) /\ \A i \in 1..Len(d) : Front(c)[i] = c[i]
  <2>1. Front(c) = SubSeq(c, 1, Len(c) - 1)
    BY DEF Front
  <2> HIDE DEF c
  <2>2. Len(c) - 1 = Len(d)
    BY <1>1, <1>6
  <2>3. QED
    BY <1>1, <1>6, <2>1, <2>2
<1> HIDE DEF c
<1>9. Front(c) = d
  <2>1. \A i \in 1..Len(d) : i \in 1..n
    BY <1>1
  <2>2. \A i \in 1..Len(Front(c)) : Front(c)[i] = d[i]
    BY <1>2, <1>6, <1>8, <2>1
  <2>3. QED
    BY <1>1, <1>7, <1>8, <2>2, PathsEqual
<1>10. IsPrefix(c, p)
  BY <1>1, <1>4, <1>6, <1>7, PrefixMeans
<1>11. QED
  BY <1>5, <1>7, <1>9, <1>10

-----------------------------------------------------------------------------
(* The inductive invariant: what holds whatever others do.                 *)

\* The mounts of the config's paths.
Binds == [op : {"bind", "ro-bind"}, at : Paths]

\* What the variables range over.
TypeInv ==
  /\ host \in Hosts /\ kind \in [Paths -> Kinds]
  /\ writes \in Seq(Paths) /\ reads \in Seq(Paths) /\ denies \in Seq(Paths)
  /\ phase \in Phases /\ cursor \in Nat /\ done \in Nat /\ others \in Nat
  /\ base \in Seq([op : {"ro-bind", "tmpfs"}, at : Paths \cup {host.tmp}])
  /\ emitted \in Seq(Binds) /\ overlays \in Seq([op : Ops, at : Paths])
  /\ maskable \subseteq Paths /\ seals \subseteq Paths /\ sealed \subseteq Paths

\* What the loops have not come to yet.
LoopInv ==
  /\ phase = "start" => base = <<>>
  /\ phase \in {"start", "writes", "reads"} => seals = {} /\ maskable = {}
  /\ phase \in {"start", "writes", "reads", "scan"} => sealed = {} /\ overlays = <<>>
  /\ phase \in {"overlay", "mount", "running"} => seals = {}

\* The read-write binds come first.
OrderInv ==
  /\ phase \in {"start", "writes"} => \A i \in DOMAIN emitted : emitted[i].op = "bind"
  /\ \A i, j \in DOMAIN emitted : i < j /\ emitted[j].op = "bind" => emitted[i].op = "bind"

\* Only directories below a read-write bind are sealed.
SealInv == \A q \in seals \cup sealed : View(emitted, q) = "bind"

\* Nothing is read-write by an overlay that is not by the config's mounts.
WidthInv ==
  \A p \in Paths : ~Denied(p) /\ View(overlays, p) = "bind" => View(emitted, p) = "bind"

\* All of that.
WideInv == TypeInv /\ LoopInv /\ OrderInv /\ SealInv /\ WidthInv

-----------------------------------------------------------------------------
(* And what holds as long as others do nothing: until the process runs, the *)
(* host is as the plan has seen it.                                         *)

\* What is above something is a directory.
TreeInv == \A p \in Paths : kind[p] # "absent" => \A q \in Above(p) : kind[q] = "dir"

\* The mount can be performed: something of its kind is there, or the mask of a
\* missing path can be made.
Fits(m) ==
  \/ m.at \notin Paths /\ m.at = host.tmp /\ m.op = "tmpfs"
  \/ /\ m.at \in Paths /\ kind[m.at] # "absent"
     /\ m.op = "tmpfs" => kind[m.at] = "dir"
     /\ m.op = "null" => kind[m.at] = "file"
  \/ /\ m.at \in Paths /\ kind[m.at] = "absent"
     /\ \A q \in Above(m.at) : kind[q] # "file"
     /\ m.op = IF m.at \in FileLeaves THEN "null" ELSE "tmpfs"

\* Every mount of the plan can be performed.
FitInv ==
  /\ phase = "start" /\ host.tmp \in Paths => kind[host.tmp] = "dir"
  /\ \A i \in DOMAIN base :
       Fits(base[i]) /\ (base[i].at \in Paths => kind[base[i].at] # "absent")
  /\ \A i \in DOMAIN emitted : kind[emitted[i].at] # "absent"
  /\ \A i \in DOMAIN overlays : Fits(overlays[i])

\* q is the deepest directory there is above d, which is missing.
Masks(q, d) ==
  /\ q \in Above(d) /\ kind[q] = "dir" /\ kind[d] = "absent"
  /\ \A r \in Above(d) : Len(r) > Len(q) => kind[r] = "absent"

\* At the path there is a tmpfs or /dev/null.
Hides(ms, p) == View(ms, p) \in {"tmpfs", "null"}

\* Sealed are directories, the shallower ones first; each missing deny that is to
\* have a mask lies below one, which hides it before its mask comes.
MaskInv ==
  /\ \A q \in seals \cup sealed : kind[q] = "dir"
  /\ \A d \in maskable : \E q \in seals \cup sealed : Masks(q, d)
  /\ \A s \in sealed, r \in seals : Len(s) <= Len(r)
  /\ \A q \in sealed, d \in Paths : Masks(q, d) => Hides(overlays, d)
  /\ \A i \in DOMAIN overlays :
       kind[overlays[i].at] = "absent" =>
         Hides(SubSeq(overlays, 1, i - 1), overlays[i].at)

\* There is something at the path.
Exists(d) == kind[d] # "absent"

\* What becomes of a deny: hidden by its overlay, below another deny, below a
\* file, or where nothing is read-write.
Settled(d) ==
  \/ Exists(d) \/ d \in maskable \/ d \in blocked
  \/ View(emitted, d) # "bind"
  \/ \E i \in DOMAIN denies : IsPrefix(denies[i], d) /\ Exists(denies[i])

\* The first loop over the denies leaves none behind unsettled.
SettledInv ==
  /\ phase = "scan" => \A j \in DOMAIN denies : j <= cursor => Settled(denies[j])
  /\ phase \in {"seal", "overlay", "mount"} => \A j \in DOMAIN denies : Settled(denies[j])

\* The overlays there are so far hide what they are for.
CoverInv ==
  \A j \in DOMAIN denies :
    /\ phase = "mount" \/ (phase = "overlay" /\ j <= cursor)
    /\ Exists(denies[j]) \/ denies[j] \in maskable
    => \A p \in Paths : IsPrefix(denies[j], p) => Hides(overlays, p)

\* Below what is missing nothing becomes read-write that was not.
ShownInv ==
  \A p \in Paths :
    /\ View(overlays, p) = "bind"
    /\ ~ \E i \in DOMAIN denies : IsPrefix(denies[i], p) /\ Exists(denies[i])
    => View(emitted, p) = "bind"

\* What is there, and neither denied nor sealed, is seen as without the seals.
KeepInv ==
  \A p \in Paths : Exists(p) /\ ~Denied(p) /\ p \notin sealed =>
    Governing(overlays, p) = 0 \/ View(overlays, p) = View(emitted, p)

\* All of that.
StillInv == TreeInv /\ FitInv /\ MaskInv /\ SettledInv /\ CoverInv /\ ShownInv

\* Nothing has been created, nothing has failed.
CalmInv ==
  /\ made = {} /\ phase # "aborted"
  /\ phase # "running" => StillInv
  /\ KeepInv

\* Once the process runs: where something is denied, nothing of the host is seen,
\* or there is nothing and the process cannot change that.
RunInv ==
  phase = "running" =>
    \A p \in Paths : Denied(p) =>
      \/ Hides(Args, p) \/ \E d \in blocked : IsPrefix(d, p)
      \/ View(Args, p) # "bind" /\ ~Exists(p)

\* The inductive invariant.
IInv == WideInv /\ (others = 0 => CalmInv /\ RunInv)

-----------------------------------------------------------------------------
(* What a seal consists of.                                                *)

\* The mounts of the config that the seal of a directory replays.
Buried(dir) == {i \in DOMAIN emitted : /\ IsStrictPrefix(dir, emitted[i].at)
                                       /\ emitted[i].at \notin ToSet(denies)}

\* The children it binds back.
Back(dir) ==
  {p \in Paths : /\ kind[p] # "absent" /\ Above(p) # {} /\ Front(p) = dir
                 /\ p \notin ToSet(denies)
                 /\ \A i \in Buried(dir) : emitted[i].at # p}

\* The parts of a seal: the empty directory, what is bound back, what is replayed.
Tmpfs(dir) == <<Mount("tmpfs", dir)>>
BackList(dir) == SetToSeq({Mount("bind", p) : p \in Back(dir)})
Replays(dir) == Picked(emitted, Buried(dir))

\* A list of mounts of the config, or of overlays, is a list.
LEMMA MountsListed ==
  ASSUME TypeInv
  PROVE  /\ IsPath(emitted) /\ DOMAIN emitted = 1..Len(emitted) /\ Len(emitted) \in Nat
         /\ \A i \in 1..Len(emitted) : emitted[i].op \in {"bind", "ro-bind"} /\ emitted[i].at \in Paths
         /\ IsPath(overlays) /\ DOMAIN overlays = 1..Len(overlays) /\ Len(overlays) \in Nat
         /\ \A i \in 1..Len(overlays) : overlays[i].op \in Ops /\ overlays[i].at \in Paths
         /\ IsPath(base) /\ DOMAIN base = 1..Len(base) /\ Len(base) \in Nat
         /\ \A i \in 1..Len(base) : /\ base[i].op \in {"ro-bind", "tmpfs"}
                                    /\ base[i].at \in Paths \cup {host.tmp}
         /\ DOMAIN denies = 1..Len(denies) /\ Len(denies) \in Nat
         /\ \A i \in 1..Len(denies) : denies[i] \in Paths
<1>1. \A i \in 1..Len(emitted) : emitted[i] \in Binds
  BY SeqMeans DEF TypeInv
<1>2. \A i \in 1..Len(overlays) : overlays[i] \in [op : Ops, at : Paths]
  BY SeqMeans DEF TypeInv
<1>3. \A i \in 1..Len(base) : base[i] \in [op : {"ro-bind", "tmpfs"}, at : Paths \cup {host.tmp}]
  BY SeqMeans DEF TypeInv
<1>4. /\ IsPath(emitted) /\ DOMAIN emitted = 1..Len(emitted) /\ Len(emitted) \in Nat
      /\ IsPath(overlays) /\ DOMAIN overlays = 1..Len(overlays) /\ Len(overlays) \in Nat
      /\ IsPath(base) /\ DOMAIN base = 1..Len(base) /\ Len(base) \in Nat
      /\ DOMAIN denies = 1..Len(denies) /\ Len(denies) \in Nat
      /\ \A i \in 1..Len(denies) : denies[i] \in Paths
  BY SeqMeans DEF TypeInv
<1>5. QED
  BY <1>1, <1>2, <1>3, <1>4 DEF Binds

\* A seal is its three parts, one after the other.
LEMMA SealIsThree ==
  ASSUME TypeInv, NEW dir \in Paths
  PROVE  SealOf(dir) = (Tmpfs(dir) \o BackList(dir)) \o Replays(dir)
<1>1. \A p : (\A i \in Buried(dir) : emitted[i].at # p)
               <=> \A i \in DOMAIN Replays(dir) : Replays(dir)[i].at # p
  <2>1. IsPath(emitted) /\ Buried(dir) \in SUBSET (1..Len(emitted))
    BY MountsListed DEF Buried
  <2>2. /\ IsPath(Replays(dir))
        /\ \A i \in 1..Len(Replays(dir)) : \E k \in Buried(dir) : Replays(dir)[i] = emitted[k]
        /\ \A m \in Buried(dir) : \E j \in 1..Len(Replays(dir)) : Replays(dir)[j] = emitted[m]
    BY <2>1, PickedMeans DEF Replays
  <2>3. DOMAIN Replays(dir) = 1..Len(Replays(dir))
    BY <2>2, PathIsFunction
  <2>4. QED
    BY <2>2, <2>3
<1>2. Back(dir) = {p \in Paths : /\ kind[p] # "absent" /\ Above(p) # {} /\ Front(p) = dir
                                 /\ p \notin ToSet(denies)
                                 /\ \A i \in DOMAIN Replays(dir) : Replays(dir)[i].at # p}
  BY <1>1 DEF Back
<1>3. QED
  BY <1>2 DEF SealOf, Tmpfs, BackList, Replays, Buried

\* The three parts, each by itself.
LEMMA SealParts ==
  ASSUME TypeInv, NEW dir \in Paths
  PROVE  /\ IsPath(Tmpfs(dir)) /\ Len(Tmpfs(dir)) = 1 /\ Tmpfs(dir)[1] = Mount("tmpfs", dir)
         /\ IsPath(BackList(dir))
         /\ \A i \in 1..Len(BackList(dir)) : \E p \in Back(dir) : BackList(dir)[i] = Mount("bind", p)
         /\ \A p \in Back(dir) : \E i \in 1..Len(BackList(dir)) : BackList(dir)[i] = Mount("bind", p)
         /\ IsPath(Replays(dir))
         /\ \A i \in 1..Len(Replays(dir)) : \E k \in Buried(dir) :
              /\ Replays(dir)[i] = emitted[k]
              /\ \A m \in Buried(dir) : m > k => \E j \in 1..Len(Replays(dir)) :
                                                   j > i /\ Replays(dir)[j] = emitted[m]
         /\ \A m \in Buried(dir) : \E j \in 1..Len(Replays(dir)) : Replays(dir)[j] = emitted[m]
<1>1. IsPath(Tmpfs(dir)) /\ Len(Tmpfs(dir)) = 1 /\ Tmpfs(dir)[1] = Mount("tmpfs", dir)
  <2> DEFINE m == Mount("tmpfs", dir)
  <2> HIDE DEF m
  <2>1. <<m>> \in Seq({m}) /\ Len(<<m>>) = 1 /\ <<m>>[1] = m
    OBVIOUS
  <2>2. IsPath(<<m>>)
    BY <2>1, SeqIsPath
  <2>3. QED
    BY <2>1, <2>2 DEF Tmpfs, m
<1>2. IsFiniteSet({Mount("bind", p) : p \in Back(dir)})
  <2> DEFINE S == Back(dir)
             T == {Mount("bind", p) : p \in S}
             f == [p \in S |-> Mount("bind", p)]
  <2>1. IsFiniteSet(S)
    <3>1. S \in SUBSET Paths
      BY DEF Back
    <3>2. QED
      BY <3>1, PathsAssumption, FS_Subset
  <2>2. f \in Surjection(S, T)
    BY DEF Surjection
  <2>3. QED
    BY <2>1, <2>2, FS_Surjection
<1>3. /\ IsPath(BackList(dir))
      /\ \A i \in 1..Len(BackList(dir)) : \E p \in Back(dir) : BackList(dir)[i] = Mount("bind", p)
      /\ \A p \in Back(dir) : \E i \in 1..Len(BackList(dir)) : BackList(dir)[i] = Mount("bind", p)
  <2> DEFINE T == {Mount("bind", p) : p \in Back(dir)}
             B == SetToSeq(T)
  <2>1. \A m : m \in T <=> \E p \in Back(dir) : m = Mount("bind", p)
    OBVIOUS
  <2>2. IsFiniteSet(T)
    BY <1>2
  <2> HIDE DEF T
  <2>3. /\ IsPath(B) /\ \A i \in 1..Len(B) : B[i] \in T
        /\ \A m \in T : \E i \in 1..Len(B) : B[i] = m
    BY <2>2, SetToSeqMeans
  <2>4. BackList(dir) = B
    BY DEF BackList, T
  <2> HIDE DEF B
  <2>5. QED
    BY <2>1, <2>3, <2>4
<1>4. IsPath(emitted) /\ Buried(dir) \in SUBSET (1..Len(emitted))
  BY MountsListed DEF Buried
<1>5. QED
  BY <1>1, <1>3, <1>4, PickedMeans DEF Replays

\* Where the mounts of a seal are.
LEMMA SealEntries ==
  ASSUME TypeInv, NEW dir \in Paths
  PROVE  /\ IsPath(SealOf(dir))
         /\ SealOf(dir) \in Seq([op : Ops, at : Paths])
         /\ \A i \in 1..Len(SealOf(dir)) :
              \/ SealOf(dir)[i] = Mount("tmpfs", dir)
              \/ \E c \in Back(dir) : SealOf(dir)[i] = Mount("bind", c)
              \/ \E k \in Buried(dir) : SealOf(dir)[i] = emitted[k]
<1> DEFINE T == Tmpfs(dir)
           B == BackList(dir)
           R == Replays(dir)
           TB == T \o B
           S == TB \o R
           Entry(m) == \/ m = Mount("tmpfs", dir)
                       \/ \E c \in Back(dir) : m = Mount("bind", c)
                       \/ \E k \in Buried(dir) : m = emitted[k]
<1>1. /\ IsPath(T) /\ Len(T) = 1 /\ \A i \in 1..Len(T) : Entry(T[i])
      /\ IsPath(B) /\ \A i \in 1..Len(B) : Entry(B[i])
      /\ IsPath(R) /\ \A i \in 1..Len(R) : Entry(R[i])
  BY SealParts
<1>0. IsPath(T) /\ IsPath(B) /\ IsPath(R)
  BY <1>1
<1>2. \A i \in DOMAIN emitted : emitted[i] \in Binds
  BY SeqMeans DEF TypeInv
<1>3. \A m : Entry(m) => m \in [op : Ops, at : Paths]
  BY <1>2 DEF Mount, Ops, Back, Buried, Binds
<1> HIDE DEF T, B, R, Entry
<1>4. /\ IsPath(TB) /\ Len(TB) = Len(T) + Len(B)
      /\ \A i \in 1..Len(T) : TB[i] = T[i]
      /\ \A i \in 1..Len(B) : TB[Len(T) + i] = B[i]
  BY <1>0, ConcatPath
<1> HIDE DEF TB
<1>5. /\ IsPath(S) /\ Len(S) = Len(TB) + Len(R)
      /\ \A i \in 1..Len(TB) : S[i] = TB[i]
      /\ \A i \in 1..Len(R) : S[Len(TB) + i] = R[i]
  <2>1. IsPath(TB)
    BY <1>4
  <2>2. QED
    BY <1>0, <2>1, ConcatPath
<1>6. Len(B) \in Nat /\ Len(R) \in Nat /\ Len(TB) \in Nat
  BY <1>1, <1>4, PathIsFunction
<1> HIDE DEF S
<1>7. \A i \in 1..Len(TB) : Entry(TB[i])
  <2> SUFFICES ASSUME NEW i \in 1..Len(TB) PROVE Entry(TB[i])
    OBVIOUS
  <2>1. i \in 1..Len(T) \/ (i - Len(T) \in 1..Len(B) /\ i = Len(T) + (i - Len(T)))
    BY <1>1, <1>4, <1>6
  <2>2. QED
    BY <1>1, <1>4, <2>1
<1>8. \A i \in 1..Len(S) : Entry(S[i])
  <2> SUFFICES ASSUME NEW i \in 1..Len(S) PROVE Entry(S[i])
    OBVIOUS
  <2>1. i \in 1..Len(TB) \/ (i - Len(TB) \in 1..Len(R) /\ i = Len(TB) + (i - Len(TB)))
    BY <1>5, <1>6
  <2>2. QED
    BY <1>1, <1>5, <1>7, <2>1
<1>9. S \in Seq([op : Ops, at : Paths])
  <2>1. S = [i \in 1..Len(S) |-> S[i]] /\ Len(S) \in Nat
    BY <1>5, PathIsFunction
  <2>2. \A i \in 1..Len(S) : S[i] \in [op : Ops, at : Paths]
    BY <1>3, <1>8
  <2>3. S \in [1..Len(S) -> [op : Ops, at : Paths]]
    BY <2>1, <2>2
  <2>4. QED
    BY <2>1, <2>3, SeqDef
<1>10. SealOf(dir) = S
  BY SealIsThree DEF S, TB, T, B, R
<1>11. QED
  BY <1>5, <1>8, <1>9, <1>10 DEF Entry

\* The mounts a seal hands back are below it.
LEMMA SealBelow ==
  ASSUME TypeInv, NEW dir \in Paths
  PROVE  /\ \A c \in Back(dir) : c \in Paths /\ IsStrictPrefix(dir, c)
         /\ \A k \in Buried(dir) : /\ k \in 1..Len(emitted) /\ emitted[k].at \in Paths
                                   /\ IsStrictPrefix(dir, emitted[k].at)
BY FrontAbove, MountsListed DEF Back, Buried

\* What a seal makes of a path in the directory: a name of its own tmpfs, a child
\* bound back, or the last mount of the config that was replayed on top.
LEMMA SealView ==
  ASSUME TypeInv, NEW dir \in Paths, NEW p \in Paths, IsPrefix(dir, p)
  PROVE  /\ Governing(SealOf(dir), p) # 0
         /\ \/ /\ View(SealOf(dir), p) = "tmpfs"
               /\ \A c \in Back(dir) : ~ IsPrefix(c, p)
               /\ \A k \in Buried(dir) : ~ IsPrefix(emitted[k].at, p)
            \/ /\ View(SealOf(dir), p) = "bind"
               /\ \E c \in Back(dir) : IsPrefix(c, p)
               /\ \A k \in Buried(dir) : ~ IsPrefix(emitted[k].at, p)
            \/ \E k \in Buried(dir) :
                 /\ IsPrefix(emitted[k].at, p) /\ View(SealOf(dir), p) = emitted[k].op
                 /\ \A m \in Buried(dir) : IsPrefix(emitted[m].at, p) => m <= k
<1> DEFINE T == Tmpfs(dir)
           B == BackList(dir)
           R == Replays(dir)
           b == Governing(B, p)
           r == Governing(R, p)
<1>1. /\ IsPath(T) /\ Len(T) = 1 /\ T[1] = Mount("tmpfs", dir)
      /\ IsPath(B)
      /\ \A i \in 1..Len(B) : \E c \in Back(dir) : B[i] = Mount("bind", c)
      /\ \A c \in Back(dir) : \E i \in 1..Len(B) : B[i] = Mount("bind", c)
      /\ IsPath(R)
      /\ \A i \in 1..Len(R) : \E k \in Buried(dir) :
           /\ R[i] = emitted[k]
           /\ \A m \in Buried(dir) : m > k => \E j \in 1..Len(R) : j > i /\ R[j] = emitted[m]
      /\ \A m \in Buried(dir) : \E j \in 1..Len(R) : R[j] = emitted[m]
  BY SealParts
<1>2. Len(B) \in Nat /\ Len(R) \in Nat
  BY <1>1, PathIsFunction
<1>3. /\ b \in 0..Len(B) /\ (b # 0 => IsPrefix(B[b].at, p))
      /\ \A i \in 1..Len(B) : IsPrefix(B[i].at, p) => i <= b
      /\ r \in 0..Len(R) /\ (r # 0 => IsPrefix(R[r].at, p))
      /\ \A i \in 1..Len(R) : IsPrefix(R[i].at, p) => i <= r
  BY <1>1, GoverningMeans
<1>4. Governing(T, p) = 1 /\ View(T, p) = "tmpfs"
  <2>1. 1 \in 1..Len(T) /\ IsPrefix(T[1].at, p) /\ \A i \in 1..Len(T) : i <= 1
    BY <1>1 DEF Mount
  <2>2. Governing(T, p) = 1
    BY <1>1, <2>1, GoverningIs
  <2>3. QED
    BY <1>1, <2>2 DEF View, Mount
<1>0. IsPath(T) /\ IsPath(B) /\ IsPath(R) /\ \A c : Mount("bind", c).op = "bind"
  BY <1>1 DEF Mount
<1> HIDE DEF T, B, R, b, r
<1>9. ASSUME NEW i \in 1..Len(B) PROVE B[i].op = "bind"
  <2>1. PICK c \in Back(dir) : B[i] = Mount("bind", c)
    BY <1>1
  <2>2. QED
    BY <1>0, <2>1
<1>5. /\ IsPath(T \o B)
      /\ Governing(T \o B, p) = IF b = 0 THEN 1 ELSE 1 + b
      /\ View(T \o B, p) = IF b = 0 THEN "tmpfs" ELSE View(B, p)
  <2>1. /\ IsPath(T \o B)
        /\ Governing(T \o B, p) = IF b = 0 THEN Governing(T, p) ELSE Len(T) + b
        /\ View(T \o B, p) = IF b = 0 THEN View(T, p) ELSE View(B, p)
    BY <1>0, LaterGoverns DEF b
  <2>2. QED
    BY <1>1, <1>4, <2>1
<1> DEFINE TB == T \o B
<1> HIDE DEF TB
<1>6. /\ Governing(TB \o R, p) = IF r = 0 THEN Governing(TB, p) ELSE Len(TB) + r
      /\ View(TB \o R, p) = IF r = 0 THEN View(TB, p) ELSE View(R, p)
      /\ Len(TB) \in Nat
  <2>1. IsPath(TB)
    BY <1>5 DEF TB
  <2>2. QED
    BY <1>0, <2>1, LaterGoverns, PathIsFunction DEF r
<1>7. SealOf(dir) = TB \o R
  BY SealIsThree DEF TB, T, B, R
<1> DEFINE V == View(SealOf(dir), p)
<1>8. Governing(SealOf(dir), p) # 0
  BY <1>2, <1>3, <1>5, <1>6, <1>7 DEF TB
<1>10. r = 0 => \A k \in Buried(dir) : ~ IsPrefix(emitted[k].at, p)
  <2> SUFFICES ASSUME r = 0, NEW k \in Buried(dir), IsPrefix(emitted[k].at, p) PROVE FALSE
    OBVIOUS
  <2>1. PICK j \in 1..Len(R) : R[j] = emitted[k]
    BY <1>1
  <2>2. j <= 0
    BY <1>3, <2>1
  <2>3. QED
    BY <1>2, <2>2
<1>11. CASE r = 0 /\ b = 0
  <2>1. V = "tmpfs"
    BY <1>5, <1>6, <1>7, <1>11 DEF TB
  <2>2. ASSUME NEW c \in Back(dir), IsPrefix(c, p) PROVE FALSE
    <3>1. PICK i \in 1..Len(B) : B[i] = Mount("bind", c)
      BY <1>1
    <3>2. i <= 0
      BY <1>3, <1>11, <2>2, <3>1 DEF Mount
    <3>3. QED
      BY <1>2, <3>2
  <2>3. QED
    BY <1>8, <1>10, <1>11, <2>1, <2>2
<1>12. CASE r = 0 /\ b # 0
  <2>1. b \in 1..Len(B)
    BY <1>2, <1>3, <1>12
  <2>2. V = "bind"
    BY <1>5, <1>6, <1>7, <1>9, <1>12, <2>1 DEF TB, View, b
  <2>3. PICK c \in Back(dir) : B[b] = Mount("bind", c)
    BY <1>1, <2>1
  <2>4. IsPrefix(c, p)
    BY <1>3, <1>12, <2>3 DEF Mount
  <2>5. QED
    BY <1>8, <1>10, <1>12, <2>2, <2>4
<1>13. CASE r # 0
  <2>1. r \in 1..Len(R)
    BY <1>2, <1>3, <1>13
  <2>2. PICK k \in Buried(dir) :
          /\ R[r] = emitted[k]
          /\ \A m \in Buried(dir) : m > k => \E j \in 1..Len(R) : j > r /\ R[j] = emitted[m]
    BY <1>1, <2>1
  <2>3. V = emitted[k].op
    BY <1>6, <1>7, <1>13, <2>2 DEF View, r
  <2>4. IsPrefix(emitted[k].at, p)
    BY <1>3, <1>13, <2>2
  <2>5. ASSUME NEW m \in Buried(dir), IsPrefix(emitted[m].at, p) PROVE m <= k
    <3>1. m \in Nat /\ k \in Nat
      BY MountsListed DEF Buried
    <3>2. ASSUME m > k PROVE FALSE
      <4>1. PICK j \in 1..Len(R) : j > r /\ R[j] = emitted[m]
        BY <2>2, <3>2
      <4>2. j <= r
        BY <1>3, <2>5, <4>1
      <4>3. QED
        BY <1>2, <1>3, <4>1, <4>2
    <3>3. QED
      BY <3>1, <3>2
  <2>6. QED
    BY <1>8, <2>3, <2>4, <2>5
<1>14. QED
  BY <1>11, <1>12, <1>13

\* Outside of the directory a seal is of no consequence.
LEMMA SealElsewhere ==
  ASSUME TypeInv, NEW dir \in Paths, NEW p \in Paths, ~ IsPrefix(dir, p)
  PROVE  Governing(SealOf(dir), p) = 0
<1> DEFINE S == SealOf(dir)
           g == Governing(S, p)
<1>1. /\ IsPath(S) /\ Len(S) \in Nat
      /\ g \in 0..Len(S) /\ (g # 0 => IsPrefix(S[g].at, p))
  BY SealEntries, GoverningMeans, PathIsFunction
<1>2. ASSUME NEW i \in 1..Len(S) PROVE IsPath(S[i].at) /\ IsPrefix(dir, S[i].at)
  <2>1. IsPath(dir) /\ IsPrefix(dir, dir)
    BY KnownPaths, PrefixMeans
  <2>2. CASE S[i] = Mount("tmpfs", dir)
    BY <2>1, <2>2 DEF Mount
  <2>3. CASE \E c \in Back(dir) : S[i] = Mount("bind", c)
    BY <2>3, SealBelow, KnownPaths DEF Mount, IsStrictPrefix
  <2>4. CASE \E k \in Buried(dir) : S[i] = emitted[k]
    BY <2>4, SealBelow, KnownPaths DEF IsStrictPrefix
  <2>5. QED
    BY <2>2, <2>3, <2>4, SealEntries
<1> HIDE DEF S, g
<1>3. ASSUME g # 0 PROVE FALSE
  <2>1. g \in 1..Len(S)
    BY <1>1, <1>3
  <2>2. IsPath(dir) /\ IsPath(p)
    BY KnownPaths
  <2>3. IsPrefix(dir, p)
    BY <1>1, <1>2, <1>3, <2>1, <2>2, PrefixTransitive
  <2>4. QED
    BY <2>3
<1>4. QED
  BY <1>3 DEF g, S

\* Below a sealed directory, where nothing is denied, the seal either shows its
\* own empty directory or what the config's mounts give.
LEMMA SealSeen ==
  ASSUME TypeInv, OrderInv, NEW dir \in Paths, View(emitted, dir) = "bind",
         NEW p \in Paths, IsPrefix(dir, p),
         \A i \in 1..Len(emitted) : IsPrefix(emitted[i].at, p) => emitted[i].at \notin ToSet(denies)
  PROVE  View(SealOf(dir), p) = "tmpfs" \/ View(SealOf(dir), p) = View(emitted, p)
<1> DEFINE V == View(SealOf(dir), p)
           g == Governing(emitted, p)
           d == Governing(emitted, dir)
<1>1. /\ IsPath(emitted) /\ DOMAIN emitted = 1..Len(emitted) /\ Len(emitted) \in Nat
      /\ \A i \in 1..Len(emitted) : emitted[i].op \in {"bind", "ro-bind"} /\ emitted[i].at \in Paths
      /\ DOMAIN denies = 1..Len(denies)
  BY MountsListed
<1>2. /\ g \in 0..Len(emitted) /\ (g # 0 => IsPrefix(emitted[g].at, p))
      /\ \A i \in 1..Len(emitted) : IsPrefix(emitted[i].at, p) => i <= g
      /\ d \in 0..Len(emitted) /\ (d # 0 => IsPrefix(emitted[d].at, dir))
      /\ \A i \in 1..Len(emitted) : IsPrefix(emitted[i].at, dir) => i <= d
  BY <1>1, GoverningMeans
<1>3. d # 0 /\ emitted[d].op = "bind"
  BY DEF View
<1>4. IsPath(dir) /\ IsPath(p) /\ \A i \in 1..Len(emitted) : IsPath(emitted[i].at)
  BY <1>1, KnownPaths
<1>5. d \in 1..Len(emitted)
  BY <1>1, <1>2, <1>3
<1>6. IsPrefix(emitted[d].at, p)
  BY <1>2, <1>3, <1>4, <1>5, PrefixTransitive
<1>7. d <= g /\ g \in 1..Len(emitted)
  BY <1>1, <1>2, <1>5, <1>6
<1>8. View(emitted, p) = emitted[g].op
  BY <1>1, <1>7 DEF View
<1>9. \A i \in 1..Len(emitted) : IsPrefix(emitted[i].at, p) => emitted[i].at \notin ToSet(denies)
  OBVIOUS
<1>10. \A k \in 1..Len(emitted) :
         IsPrefix(emitted[k].at, p) /\ k \notin Buried(dir) => IsPrefix(emitted[k].at, dir)
  <2> SUFFICES ASSUME NEW k \in 1..Len(emitted), IsPrefix(emitted[k].at, p), k \notin Buried(dir)
               PROVE  IsPrefix(emitted[k].at, dir)
    OBVIOUS
  <2>1. ~ IsStrictPrefix(dir, emitted[k].at)
    BY <1>1, <1>9 DEF Buried
  <2>2. IsPrefix(emitted[k].at, dir) \/ IsPrefix(dir, emitted[k].at)
    BY <1>4, PrefixChain
  <2>3. QED
    BY <2>1, <2>2 DEF IsStrictPrefix
<1> HIDE DEF V, g, d
<1>11. CASE V = "tmpfs"
  BY <1>11 DEF V
<1>12. CASE V = "bind" /\ \A k \in Buried(dir) : ~ IsPrefix(emitted[k].at, p)
  <2>1. IsPrefix(emitted[g].at, dir)
    BY <1>1, <1>2, <1>7, <1>10, <1>12
  <2>2. g = d
    BY <1>1, <1>2, <1>7, <2>1
  <2>3. QED
    BY <1>3, <1>8, <1>12, <2>2 DEF V
<1>13. CASE \E k \in Buried(dir) :
              /\ IsPrefix(emitted[k].at, p) /\ V = emitted[k].op
              /\ \A m \in Buried(dir) : IsPrefix(emitted[m].at, p) => m <= k
  <2>1. PICK k \in Buried(dir) :
              /\ IsPrefix(emitted[k].at, p) /\ V = emitted[k].op
              /\ \A m \in Buried(dir) : IsPrefix(emitted[m].at, p) => m <= k
    BY <1>13
  <2>2. k \in 1..Len(emitted) /\ k <= g
    BY <1>1, <1>2, <2>1 DEF Buried
  <2>3. CASE g \in Buried(dir)
    <3>1. g <= k
      BY <1>1, <1>2, <1>7, <2>1, <2>3
    <3>2. g = k
      BY <1>1, <1>7, <2>2, <3>1
    <3>3. QED
      BY <1>8, <2>1, <3>2 DEF V
  <2>4. CASE g \notin Buried(dir)
    <3>1. g = d
      BY <1>1, <1>2, <1>7, <1>10, <2>4
    <3>2. k < g
      BY <1>7, <2>1, <2>2, <2>4
    <3>3. emitted[k].op = "bind"
      BY <1>1, <1>3, <1>7, <2>2, <3>1, <3>2 DEF OrderInv
    <3>4. QED
      BY <1>3, <1>8, <2>1, <3>1, <3>3 DEF V
  <2>5. QED
    BY <2>3, <2>4
<1>14. QED
  BY <1>11, <1>12, <1>13, SealView DEF V

-----------------------------------------------------------------------------
(* The first part of the invariant, which holds whatever others do.        *)

\* One mount more.
LEMMA AppendView ==
  ASSUME NEW ms, IsPath(ms), NEW m, NEW p
  PROVE  /\ IsPath(ms \o <<m>>) /\ Len(ms \o <<m>>) = Len(ms) + 1
         /\ (ms \o <<m>>)[Len(ms) + 1] = m
         /\ \A i \in 1..Len(ms) : (ms \o <<m>>)[i] = ms[i]
         /\ View(ms \o <<m>>, p) = IF IsPrefix(m.at, p) THEN m.op ELSE View(ms, p)
         /\ Governing(ms \o <<m>>, p) = IF IsPrefix(m.at, p) THEN Len(ms) + 1 ELSE Governing(ms, p)
<1> DEFINE one == <<m>>
           g == Governing(one, p)
<1>1. one \in Seq({m}) /\ Len(one) = 1 /\ one[1] = m
  OBVIOUS
<1>2. IsPath(one)
  BY <1>1, SeqIsPath
<1> HIDE DEF one
<1>3. /\ g \in 0..1 /\ (g # 0 => IsPrefix(one[g].at, p))
      /\ \A i \in 1..1 : IsPrefix(one[i].at, p) => i <= g
  <2>1. Len(one) = 1
    BY <1>1
  <2>2. QED
    BY <1>2, <2>1, GoverningMeans
<1> HIDE DEF g
<1>4. g = IF IsPrefix(m.at, p) THEN 1 ELSE 0
  BY <1>1, <1>3
<1>5. View(one, p) = IF IsPrefix(m.at, p) THEN m.op ELSE "root"
  BY <1>1, <1>4 DEF View, g
<1>6. /\ Governing(ms \o one, p) = IF g = 0 THEN Governing(ms, p) ELSE Len(ms) + g
      /\ View(ms \o one, p) = IF g = 0 THEN View(ms, p) ELSE View(one, p)
  BY <1>2, LaterGoverns DEF g
<1>7. /\ IsPath(ms \o one) /\ Len(ms \o one) = Len(ms) + Len(one)
      /\ \A i \in 1..Len(ms) : (ms \o one)[i] = ms[i]
      /\ \A i \in 1..Len(one) : (ms \o one)[Len(ms) + i] = one[i]
  BY <1>2, ConcatPath
<1>8. QED
  BY <1>1, <1>4, <1>5, <1>6, <1>7 DEF one

\* No mount governs nothing.
LEMMA NothingGoverns ==
  ASSUME NEW p
  PROVE  IsPath(<<>>) /\ Governing(<<>>, p) = 0 /\ View(<<>>, p) = "root"
<1>1. <<>> \in Seq({}) /\ Len(<<>>) = 0
  OBVIOUS
<1>2. IsPath(<<>>)
  BY <1>1, SeqIsPath
<1>3. Governing(<<>>, p) \in 0..0
  BY <1>1, <1>2, GoverningMeans
<1>4. QED
  BY <1>2, <1>3 DEF View

\* What a process sees by the whole plan.
LEMMA ArgsView ==
  ASSUME TypeInv, NEW p
  PROVE  /\ IsPath(base \o emitted) /\ IsPath(Args)
         /\ View(base \o emitted, p) = IF Governing(emitted, p) = 0 THEN View(base, p)
                                       ELSE View(emitted, p)
         /\ View(Args, p) = IF Governing(overlays, p) = 0 THEN View(base \o emitted, p)
                            ELSE View(overlays, p)
         /\ View(base, p) \in {"root", "ro-bind", "tmpfs"}
<1>1. IsPath(base) /\ IsPath(emitted) /\ IsPath(overlays)
  BY MountsListed
<1>2. /\ IsPath(base \o emitted)
      /\ View(base \o emitted, p) = IF Governing(emitted, p) = 0 THEN View(base, p)
                                    ELSE View(emitted, p)
  BY <1>1, LaterGoverns
<1> DEFINE be == base \o emitted
<1> HIDE DEF be
<1>3. /\ IsPath(be \o overlays)
      /\ View(be \o overlays, p) = IF Governing(overlays, p) = 0 THEN View(be, p)
                                   ELSE View(overlays, p)
  <2>1. IsPath(be)
    BY <1>2 DEF be
  <2>2. QED
    BY <1>1, <2>1, LaterGoverns
<1>4. View(base, p) \in {"root", "ro-bind", "tmpfs"}
  <2>1. Governing(base, p) \in 0..Len(base)
    BY <1>1, GoverningMeans
  <2>2. Governing(base, p) # 0 => base[Governing(base, p)].op \in {"ro-bind", "tmpfs"}
    BY <2>1, MountsListed
  <2>3. QED
    BY <2>2 DEF View
<1>5. QED
  BY <1>2, <1>3, <1>4 DEF Args, be

\* A step that leaves the plan's lists alone.
LEMMA PlanFrame ==
  ASSUME OrderInv, SealInv, WidthInv, UNCHANGED <<emitted, overlays, denies>>,
         (seals \cup sealed)' = seals \cup sealed,
         phase' \in {"start", "writes"} => phase \in {"start", "writes"}
  PROVE  OrderInv' /\ SealInv' /\ WidthInv'
<1>1. OrderInv'
  BY DEF OrderInv
<1>2. \A p : View(emitted, p)' = View(emitted, p) /\ View(overlays, p)' = View(overlays, p)
              /\ Denied(p)' = Denied(p)
  BY DEF View, Governing, Denied
<1>3. SealInv' /\ WidthInv'
  BY <1>2 DEF SealInv, WidthInv
<1>4. QED
  BY <1>1, <1>3

\* The invariant begins to hold.
LEMMA WideInit == Init => WideInv
<1> SUFFICES ASSUME Init PROVE WideInv
  OBVIOUS
<1>1. TypeInv
  <2>0. ASSUME NEW n, NEW l \in Lists(n) PROVE l \in Seq(Paths)
    <3>1. PICK m \in 0..n : l \in [1..m -> Paths]
      BY DEF Lists, BoundedSeq, SeqOf
    <3>2. QED
      BY <3>1
  <2>1. writes \in Seq(Paths) /\ reads \in Seq(Paths) /\ denies \in Seq(Paths)
    BY <2>0 DEF Init
  <2>2. QED
    BY <2>1 DEF Init, TypeInv, Phases
<1>2. LoopInv /\ OrderInv /\ SealInv
  BY DEF Init, LoopInv, OrderInv, SealInv
<1>3. WidthInv
  BY NothingGoverns DEF Init, WidthInv
<1>4. QED
  BY <1>1, <1>2, <1>3 DEF WideInv

\* The mounts of system paths.
LEMMA StartMounts ==
  ASSUME TypeInv, Start
  PROVE  /\ base' \in Seq([op : {"ro-bind", "tmpfs"}, at : Paths \cup {host.tmp}])
         /\ IsPath(Existing(host.system))
         /\ \A i \in 1..Len(Existing(host.system)) :
              Existing(host.system)[i] \in Paths /\ kind[Existing(host.system)[i]] # "absent"
         /\ base' = [i \in 1..Len(Existing(host.system)) |->
                       Mount("ro-bind", Existing(host.system)[i])] \o <<Mount("tmpfs", host.tmp)>>
<1> DEFINE E == Existing(host.system)
           I == {i \in DOMAIN host.system : kind[host.system[i]] # "absent"}
           S == [op : {"ro-bind", "tmpfs"}, at : Paths \cup {host.tmp}]
           b == [i \in 1..Len(E) |-> Mount("ro-bind", E[i])]
<1>1. host.system \in Seq(Paths)
  BY HostsAssumption DEF TypeInv
<1>2. /\ IsPath(host.system) /\ I \in SUBSET (1..Len(host.system))
      /\ \A i \in 1..Len(host.system) : host.system[i] \in Paths
  BY <1>1, SeqMeans
<1>3. /\ IsPath(E) /\ \A i \in 1..Len(E) : \E k \in I : E[i] = host.system[k]
  <2>1. E = Picked(host.system, I)
    BY DEF Existing
  <2> HIDE DEF E, I
  <2>2. QED
    BY <1>2, <2>1, PickedMeans
<1>4. \A i \in 1..Len(E) : E[i] \in Paths /\ kind[E[i]] # "absent"
  BY <1>2, <1>3
<1>5. Len(E) \in Nat /\ DOMAIN E = 1..Len(E)
  BY <1>3, PathIsFunction
<1>6. base' = b \o <<Mount("tmpfs", host.tmp)>>
  BY <1>5 DEF Start
<1> HIDE DEF E
<1>7. b \in Seq(S)
  BY <1>4, <1>5 DEF Mount
<1>8. Mount("tmpfs", host.tmp) \in S
  BY DEF Mount
<1> HIDE DEF b, S
<1>9. base' \in Seq(S)
  BY <1>6, <1>7, <1>8
<1>10. QED
  BY <1>3, <1>4, <1>6, <1>9 DEF E, b, S

\* One of a list of paths, and what is left.
LEMMA HeadAndTail ==
  ASSUME NEW S, NEW l \in Seq(S), l # <<>>
  PROVE  Head(l) \in S /\ Tail(l) \in Seq(S)
OBVIOUS

\* The list grows by one mount.
LEMMA AppendTyped ==
  ASSUME NEW S, NEW l \in Seq(S), NEW m \in S
  PROVE  Append(l, m) \in Seq(S) /\ Append(l, m) = l \o <<m>>
OBVIOUS

\* The loops over the write and the read paths.
LEMMA WideBind ==
  ASSUME WideInv, BindWrite \/ BindRead
  PROVE  WideInv'
<1> USE DEF WideInv
<1>1. PICK op \in {"bind", "ro-bind"}, p \in Paths :
        /\ emitted' = emitted \/ emitted' = Append(emitted, Mount(op, p))
        /\ op = "bind" => phase = "writes"
        /\ phase \in {"start", "writes"} => op = "bind"
  <2>1. CASE BindWrite
    <3>1. Head(writes) \in Paths
      BY <2>1, HeadAndTail DEF BindWrite, TypeInv
    <3>2. QED
      BY <2>1, <3>1 DEF BindWrite
  <2>2. CASE BindRead
    <3>1. Head(reads) \in Paths
      BY <2>2, HeadAndTail DEF BindRead, TypeInv
    <3>2. QED
      BY <2>2, <3>1 DEF BindRead
  <2>3. QED
    BY <2>1, <2>2
<1> DEFINE m == Mount(op, p)
<1>2. m \in Binds /\ m.op = op /\ emitted \in Seq(Binds)
  BY DEF Mount, Binds, TypeInv
<1>3. emitted' \in Seq(Binds)
  BY <1>1, <1>2, AppendTyped
<1>4. writes' \in Seq(Paths) /\ reads' \in Seq(Paths)
  <2>1. writes \in Seq(Paths) /\ reads \in Seq(Paths)
    BY DEF TypeInv
  <2>2. \/ writes' = Tail(writes) /\ writes # <<>> /\ reads' = reads
        \/ reads' = Tail(reads) /\ reads # <<>> /\ writes' = writes
    BY DEF BindWrite, BindRead
  <2>3. QED
    BY <2>1, <2>2, HeadAndTail
<1>5. TypeInv'
  BY <1>3, <1>4 DEF TypeInv, BindWrite, BindRead, bwrapVars, countVars
<1>6. LoopInv'
  BY DEF LoopInv, BindWrite, BindRead
<1>7. /\ seals' = {} /\ sealed' = {} /\ overlays' = <<>> /\ phase' = phase
  BY DEF LoopInv, BindWrite, BindRead
<1>8. SealInv' /\ WidthInv'
  BY <1>7, NothingGoverns DEF SealInv, WidthInv
<1>9. OrderInv'
  <2>1. CASE emitted' = emitted
    BY <1>7, <2>1 DEF OrderInv
  <2>2. CASE emitted' = Append(emitted, m)
    <3>1. /\ emitted' = emitted \o <<m>> /\ IsPath(emitted)
      BY <1>2, <2>2, AppendTyped, MountsListed
    <3>2. /\ IsPath(emitted') /\ Len(emitted') = Len(emitted) + 1
          /\ emitted'[Len(emitted) + 1] = m
          /\ \A i \in 1..Len(emitted) : emitted'[i] = emitted[i]
      BY <3>1, AppendView
    <3>3. /\ DOMAIN emitted' = 1..Len(emitted') /\ DOMAIN emitted = 1..Len(emitted)
          /\ Len(emitted) \in Nat
      BY <3>1, <3>2, PathIsFunction
    <3> HIDE DEF m
    <3>4. QED
      BY <1>1, <1>2, <1>7, <3>2, <3>3 DEF OrderInv
  <2>3. QED
    BY <1>1, <2>1, <2>2
<1>10. QED
  BY <1>5, <1>6, <1>8, <1>9

\* A directory that is to be sealed lies below a read-write bind.
LEMMA AnchorBound ==
  ASSUME TypeInv, NEW p \in Paths, NEW q \in Anchor(p)
  PROVE  /\ View(emitted, q) = "bind" /\ q \in Above(p) /\ kind[q] = "dir" /\ ~ Denied(q)
         /\ \A r \in Above(p) : Len(r) > Len(q) => kind[r] = "absent"
<1> DEFINE g == Governing(emitted, p)
<1>1. /\ IsPath(emitted) /\ DOMAIN emitted = 1..Len(emitted) /\ Len(emitted) \in Nat
      /\ \A i \in 1..Len(emitted) : IsPath(emitted[i].at)
  BY MountsListed, KnownPaths
<1>2. /\ g \in 0..Len(emitted)
      /\ \A i \in 1..Len(emitted) : IsPrefix(emitted[i].at, p) => i <= g
  BY <1>1, GoverningMeans
<1>3. /\ g # 0 /\ emitted[g].op = "bind" /\ IsPrefix(emitted[g].at, q)
      /\ q \in Above(p) /\ kind[q] = "dir" /\ ~ Denied(q)
      /\ \A r \in Above(p) : Len(r) > Len(q) => kind[r] = "absent"
  BY DEF Anchor, DeepestExistingDir
<1> HIDE DEF g
<1>4. IsPath(p) /\ IsPath(q) /\ IsPrefix(q, p)
  BY <1>3, KnownPaths DEF Above, IsStrictPrefix
<1>5. \A i \in 1..Len(emitted) : IsPrefix(emitted[i].at, q) => i <= g
  BY <1>1, <1>2, <1>4, PrefixTransitive
<1>6. g \in 1..Len(emitted)
  BY <1>1, <1>2, <1>3
<1>7. Governing(emitted, q) = g
  BY <1>1, <1>3, <1>5, <1>6, GoverningIs
<1>8. QED
  BY <1>3, <1>7 DEF View

\* The next deny.
LEMMA CursorDeny ==
  ASSUME TypeInv, cursor < Len(denies)
  PROVE  cursor + 1 \in DOMAIN denies /\ denies[cursor + 1] \in Paths
BY MountsListed DEF TypeInv

\* The first loop over the denies.
LEMMA WideScan ==
  ASSUME WideInv, ScanDeny
  PROVE  WideInv'
<1> USE DEF WideInv
<1> DEFINE d == denies[cursor + 1]
           anchor == IF kind[d] = "absent" THEN Anchor(d) ELSE {}
<1>1. d \in Paths
  BY CursorDeny DEF ScanDeny
<1>2. \A q \in anchor : q \in Paths /\ View(emitted, q) = "bind"
  BY <1>1, AnchorBound DEF Above
<1>3. /\ seals' = seals \cup anchor /\ maskable' \subseteq maskable \cup {d}
      /\ phase = "scan"
      /\ UNCHANGED <<kind, configVars, phase, base, emitted, sealed, overlays, bwrapVars,
                     countVars>>
  BY DEF ScanDeny
<1> HIDE DEF anchor
<1>4. TypeInv'
  BY <1>1, <1>2, <1>3 DEF TypeInv, configVars, bwrapVars, countVars, ScanDeny
<1>5. LoopInv'
  BY <1>3 DEF LoopInv
<1>6. SealInv'
  BY <1>2, <1>3 DEF SealInv, View, Governing
<1>7. OrderInv' /\ WidthInv'
  BY <1>3 DEF OrderInv, WidthInv, View, Governing, Denied, configVars
<1>8. QED
  BY <1>4, <1>5, <1>6, <1>7

\* A seal hands back nothing at a wider access than it had.
LEMMA WideSeal ==
  ASSUME WideInv, NEW dir \in Paths, Seal(dir)
  PROVE  WideInv'
<1> USE DEF WideInv
<1>1. /\ dir \in seals /\ overlays' = overlays \o SealOf(dir)
      /\ (seals \cup sealed)' = seals \cup sealed /\ phase = "seal"
      /\ seals' \subseteq seals /\ sealed' \subseteq sealed \cup {dir}
      /\ UNCHANGED <<kind, configVars, phase, cursor, base, emitted, maskable, bwrapVars,
                     countVars>>
  BY DEF Seal
<1>2. /\ IsPath(SealOf(dir)) /\ SealOf(dir) \in Seq([op : Ops, at : Paths])
      /\ IsPath(overlays) /\ overlays \in Seq([op : Ops, at : Paths])
  BY SealEntries, MountsListed DEF TypeInv
<1>3. overlays' \in Seq([op : Ops, at : Paths])
  <2> DEFINE S == SealOf(dir)
  <2> HIDE DEF S
  <2>1. S \in Seq([op : Ops, at : Paths]) /\ overlays' = overlays \o S
    BY <1>1, <1>2 DEF S
  <2>2. QED
    BY <1>2, <2>1
<1>4. TypeInv'
  BY <1>1, <1>3 DEF TypeInv, configVars, bwrapVars, countVars
<1>5. LoopInv'
  BY <1>1 DEF LoopInv
<1>6. OrderInv' /\ SealInv'
  BY <1>1 DEF OrderInv, SealInv, View, Governing
<1>7. ASSUME NEW p \in Paths, ~ Denied(p), View(overlays', p) = "bind"
      PROVE  View(emitted, p) = "bind"
  <2>1. View(overlays', p) = IF Governing(SealOf(dir), p) = 0 THEN View(overlays, p)
                             ELSE View(SealOf(dir), p)
    BY <1>1, <1>2, LaterGoverns
  <2>2. CASE Governing(SealOf(dir), p) = 0
    BY <1>7, <2>1, <2>2 DEF WidthInv
  <2>3. CASE Governing(SealOf(dir), p) # 0
    <3>1. IsPrefix(dir, p)
      BY <2>3, SealElsewhere
    <3>2. View(emitted, dir) = "bind"
      BY <1>1 DEF SealInv
    <3>3. \A i \in 1..Len(emitted) : IsPrefix(emitted[i].at, p) => emitted[i].at \notin ToSet(denies)
      BY <1>7 DEF Denied, ToSet
    <3>4. View(SealOf(dir), p) = "tmpfs" \/ View(SealOf(dir), p) = View(emitted, p)
      BY <3>1, <3>2, <3>3, SealSeen
    <3>5. QED
      BY <1>7, <2>1, <2>3, <3>4
  <2>4. QED
    BY <2>2, <2>3
<1>8. WidthInv'
  BY <1>1, <1>7 DEF WidthInv, View, Governing, Denied, configVars
<1>9. QED
  BY <1>4, <1>5, <1>6, <1>8

\* The overlay of a deny is a mask at its place, or there is none.
LEMMA OverlayParts ==
  ASSUME TypeInv, NEW d \in Paths
  PROVE  \/ OverlayOf(d) = <<>> /\ kind[d] = "absent" /\ d \notin maskable
         \/ \E op \in {"tmpfs", "null"} :
              /\ OverlayOf(d) = <<Mount(op, d)>>
              /\ op = "tmpfs" => kind[d] = "dir" \/ (kind[d] = "absent" /\ d \notin FileLeaves)
              /\ op = "null" => kind[d] = "file" \/ (kind[d] = "absent" /\ d \in FileLeaves)
              /\ kind[d] # "absent" \/ d \in maskable
<1>1. kind[d] \in {"absent", "file", "dir"}
  BY DEF TypeInv, Kinds
<1>2. CASE kind[d] = "dir"
  <2>1. OverlayOf(d) = <<Mount("tmpfs", d)>>
    BY <1>2 DEF OverlayOf
  <2>2. QED
    BY <1>2, <2>1
<1>3. CASE kind[d] = "file"
  <2>1. OverlayOf(d) = <<Mount("null", d)>>
    BY <1>3 DEF OverlayOf
  <2>2. QED
    BY <1>3, <2>1
<1>4. CASE kind[d] = "absent" /\ d \in maskable
  <2>1. OverlayOf(d) = <<Mount(IF d \in FileLeaves THEN "null" ELSE "tmpfs", d)>>
    BY <1>4 DEF OverlayOf
  <2>2. QED
    BY <1>4, <2>1
<1>5. CASE kind[d] = "absent" /\ d \notin maskable
  BY <1>5 DEF OverlayOf
<1>6. QED
  BY <1>1, <1>2, <1>3, <1>4, <1>5

\* The second loop over the denies.
LEMMA WideOverlay ==
  ASSUME WideInv, OverlayDeny
  PROVE  WideInv'
<1> USE DEF WideInv
<1> DEFINE d == denies[cursor + 1]
           O == [op : Ops, at : Paths]
<1>1. d \in Paths
  BY CursorDeny DEF OverlayDeny
<1>2. IsPath(overlays) /\ overlays \in Seq(O)
  BY MountsListed DEF TypeInv
<1>3. /\ overlays' = overlays \o OverlayOf(d) /\ phase = "overlay"
      /\ UNCHANGED <<kind, configVars, phase, base, emitted, maskable, seals, sealed, blocked,
                     bwrapVars, countVars>>
      /\ cursor' = cursor + 1
  BY DEF OverlayDeny
<1>4. \/ overlays' = overlays
      \/ \E op \in {"tmpfs", "null"} : overlays' = overlays \o <<Mount(op, d)>>
  <2>1. overlays \o <<>> = overlays
    BY <1>2
  <2>2. QED
    BY <1>1, <1>3, <2>1, OverlayParts
<1>5. overlays' \in Seq(O)
  <2>1. CASE overlays' = overlays
    BY <1>2, <2>1
  <2>2. ASSUME NEW op \in {"tmpfs", "null"}, overlays' = overlays \o <<Mount(op, d)>>
        PROVE  overlays' \in Seq(O)
    <3>1. Mount(op, d) \in O
      BY <1>1 DEF Mount, Ops
    <3> HIDE DEF O
    <3>2. QED
      BY <1>2, <2>2, <3>1, AppendTyped
  <2>3. QED
    BY <1>4, <2>1, <2>2
<1>6. TypeInv'
  BY <1>3, <1>5 DEF TypeInv, configVars, bwrapVars, countVars
<1>7. LoopInv' /\ OrderInv' /\ SealInv'
  BY <1>3 DEF LoopInv, OrderInv, SealInv, View, Governing
<1>8. ASSUME NEW p \in Paths, View(overlays', p) = "bind"
      PROVE  View(overlays, p) = "bind"
  <2>1. CASE overlays' = overlays
    BY <1>8, <2>1
  <2>2. ASSUME NEW op \in {"tmpfs", "null"}, overlays' = overlays \o <<Mount(op, d)>>
        PROVE  View(overlays, p) = "bind"
    <3>1. View(overlays', p) = IF IsPrefix(Mount(op, d).at, p) THEN Mount(op, d).op
                               ELSE View(overlays, p)
      BY <1>2, <2>2, AppendView
    <3>2. Mount(op, d).op = op
      BY DEF Mount
    <3>3. QED
      BY <1>8, <3>1, <3>2
  <2>3. QED
    BY <1>4, <2>1, <2>2
<1>9. WidthInv'
  BY <1>3, <1>8 DEF WidthInv, View, Governing, Denied, configVars
<1>10. QED
  BY <1>6, <1>7, <1>9

\* The steps that do not touch the plan's lists.
LEMMA WideOther ==
  ASSUME WideInv,
         \/ Start \/ NextLoop \/ PerformMount \/ Abort \/ Run
         \/ \E d \in Paths : RefuseSeal(d)
         \/ \E p \in Paths, k \in {"file", "dir"} : OtherCreates(p, k) \/ ChildCreates(p, k)
         \/ \E p \in Paths : OtherRemoves(p) \/ ChildRemoves(p)
         \/ UNCHANGED vars
  PROVE  WideInv'
<1> USE DEF WideInv
<1>1. CASE Start
  <2>1. base' \in Seq([op : {"ro-bind", "tmpfs"}, at : Paths \cup {host.tmp}])
    BY <1>1, StartMounts
  <2>2. TypeInv'
    BY <1>1, <2>1 DEF TypeInv, Start, configVars, bwrapVars, countVars, Phases
  <2>3. LoopInv'
    BY <1>1 DEF LoopInv, Start
  <2>4. OrderInv' /\ SealInv' /\ WidthInv'
    BY <1>1, PlanFrame DEF Start, configVars
  <2>5. QED
    BY <2>2, <2>3, <2>4
<1>2. CASE NextLoop
  <2>1. TypeInv'
    BY <1>2 DEF TypeInv, NextLoop, configVars, bwrapVars, countVars, Phases
  <2>2. LoopInv'
    BY <1>2 DEF LoopInv, NextLoop
  <2>3. OrderInv' /\ SealInv' /\ WidthInv'
    BY <1>2, PlanFrame DEF NextLoop, configVars
  <2>4. QED
    BY <2>1, <2>2, <2>3
<1>3. CASE PerformMount
  <2>1. /\ UNCHANGED <<configVars, planVars, countVars>> /\ done' = done + 1
    BY <1>3 DEF PerformMount
  <2>2. kind' \in [Paths -> Kinds]
    <3>0. kind \in [Paths -> Kinds]
      BY DEF TypeInv
    <3> DEFINE m == Args[done + 1]
    <3> HIDE DEF m
    <3>1. \/ kind' = kind
          \/ /\ OnHost(m.at)
             /\ kind' = [q \in Paths |->
                           CASE q = m.at -> PointKind(m)
                             [] q \in {r \in Above(m.at) \cup {m.at} : kind[r] = "absent"} \ {m.at} -> "dir"
                             [] OTHER -> kind[q]]
      BY <1>3 DEF PerformMount, m
    <3>2. OnHost(m.at) => PointKind(m) \in Kinds
      BY <3>0 DEF PointKind, OnHost, Kinds
    <3>3. QED
      BY <3>0, <3>1, <3>2 DEF Kinds
  <2>3. TypeInv'
    BY <2>1, <2>2 DEF TypeInv, configVars, planVars, countVars
  <2>4. LoopInv'
    BY <2>1 DEF LoopInv, planVars
  <2>5. OrderInv' /\ SealInv' /\ WidthInv'
    BY <2>1, PlanFrame DEF configVars, planVars
  <2>6. QED
    BY <2>3, <2>4, <2>5
<1>4. CASE Abort \/ Run \/ \E d \in Paths : RefuseSeal(d)
  <2>1. /\ phase' \in {"aborted", "running", "refused"}
        /\ phase \in {"seal", "mount"} /\ (phase' = "running" => phase = "mount")
        /\ UNCHANGED <<kind, configVars, cursor, base, emitted, maskable, seals, sealed,
                       overlays, blocked, bwrapVars, countVars>>
    BY <1>4 DEF Abort, Run, RefuseSeal
  <2>2. TypeInv'
    BY <2>1 DEF TypeInv, configVars, bwrapVars, countVars, Phases
  <2>3. LoopInv'
    BY <2>1 DEF LoopInv
  <2>4. OrderInv' /\ SealInv' /\ WidthInv'
    BY <2>1, PlanFrame DEF configVars
  <2>5. QED
    BY <2>2, <2>3, <2>4
<1>5. CASE \/ \E p \in Paths, k \in {"file", "dir"} : OtherCreates(p, k) \/ ChildCreates(p, k)
           \/ \E p \in Paths : OtherRemoves(p) \/ ChildRemoves(p)
           \/ UNCHANGED vars
  <2>1. /\ UNCHANGED <<configVars, planVars, bwrapVars>> /\ others' \in {others, others + 1}
        /\ kind' = kind \/ \E p \in Paths, k \in Kinds : kind' = [kind EXCEPT ![p] = k]
    BY <1>5 DEF OtherCreates, ChildCreates, OtherRemoves, ChildRemoves, vars, Kinds, countVars
  <2>0. kind' \in [Paths -> Kinds] /\ others' \in Nat
    BY <2>1 DEF TypeInv
  <2>2. TypeInv'
    BY <2>0, <2>1 DEF TypeInv, configVars, planVars, bwrapVars
  <2>3. LoopInv'
    BY <2>1 DEF LoopInv, planVars
  <2>4. OrderInv' /\ SealInv' /\ WidthInv'
    BY <2>1, PlanFrame DEF configVars, planVars
  <2>5. QED
    BY <2>2, <2>3, <2>4
<1>6. QED
  BY <1>1, <1>2, <1>3, <1>4, <1>5

\* Every step, whoever takes it.
LEMMA WideNext == WideInv /\ [Next]_vars => WideInv'
<1> SUFFICES ASSUME WideInv, [Next]_vars PROVE WideInv'
  OBVIOUS
<1>1. CASE BindWrite \/ BindRead
  BY <1>1, WideBind
<1>2. CASE ScanDeny
  BY <1>2, WideScan
<1>3. CASE \E dir \in Paths : Seal(dir)
  BY <1>3, WideSeal
<1>4. CASE OverlayDeny
  BY <1>4, WideOverlay
<1>5. CASE \/ Start \/ NextLoop \/ PerformMount \/ Abort \/ Run
           \/ \E d \in Paths : RefuseSeal(d)
           \/ \E p \in Paths, k \in {"file", "dir"} : OtherCreates(p, k) \/ ChildCreates(p, k)
           \/ \E p \in Paths : OtherRemoves(p) \/ ChildRemoves(p)
           \/ UNCHANGED vars
  BY <1>5, WideOther
<1>6. QED
  BY <1>1, <1>2, <1>3, <1>4, <1>5 DEF Next

\* The first part of the invariant holds in every state, whatever others do.
THEOREM WideInvariance == Spec => []WideInv
<1>1. QED
  BY WideInit, WideNext, PTL DEF Spec

\* What it comes to.
LEMMA WideMeans == WideInv => NeverWidened
<1> SUFFICES ASSUME WideInv, NEW p \in Paths, View(Args, p) = "bind", ~ Denied(p)
             PROVE  View(base \o emitted, p) = "bind"
  BY DEF NeverWidened
<1>1. /\ View(base \o emitted, p) = IF Governing(emitted, p) = 0 THEN View(base, p)
                                    ELSE View(emitted, p)
      /\ View(Args, p) = IF Governing(overlays, p) = 0 THEN View(base \o emitted, p)
                         ELSE View(overlays, p)
  BY ArgsView DEF WideInv
<1>2. CASE Governing(overlays, p) = 0
  BY <1>1, <1>2
<1>3. CASE Governing(overlays, p) # 0
  <2>1. View(emitted, p) = "bind"
    BY <1>1, <1>3 DEF WideInv, WidthInv
  <2>2. Governing(emitted, p) # 0
    BY <2>1 DEF View
  <2>3. QED
    BY <1>1, <2>1, <2>2
<1>4. QED
  BY <1>2, <1>3

\* Whatever others do, no seal and no overlay makes read-write what the config's
\* mounts do not (NeverWidened).
THEOREM NothingIsWidened == Spec => []NeverWidened
<1>1. QED
  BY WideInvariance, WideMeans, PTL

-----------------------------------------------------------------------------
(* The overlay of a deny stays on top, whatever others do.                 *)

\* An overlay of a denied path.
MasksDenied(m) == m.op \in {"tmpfs", "null"} /\ Denied(m.at)

\* Seals are put on nothing that is denied, and before the second loop over the
\* denies there is nothing else; what an overlay covers stays hidden.
HeldInv ==
  /\ \A q \in seals \cup sealed : ~Denied(q)
  /\ phase \in {"start", "writes", "reads", "scan", "seal"} =>
       \A i \in DOMAIN overlays : ~MasksDenied(overlays[i])
  /\ \A p \in Paths : Overlaid(p) => Hides(overlays, p)

\* A step that leaves the seals and the overlays alone.
LEMMA HeldFrame ==
  ASSUME HeldInv, UNCHANGED <<overlays, denies>>, (seals \cup sealed)' = seals \cup sealed,
         phase' \in {"start", "writes", "reads", "scan", "seal"} =>
           phase \in {"start", "writes", "reads", "scan", "seal"}
  PROVE  HeldInv'
<1>1. \A p : /\ Denied(p)' = Denied(p) /\ Overlaid(p)' = Overlaid(p)
             /\ Hides(overlays, p)' = Hides(overlays, p)
  BY DEF Denied, Overlaid, Hides, View, Governing
<1>2. \A i \in DOMAIN overlays : MasksDenied(overlays[i])' = MasksDenied(overlays[i])
  BY <1>1 DEF MasksDenied
<1>3. QED
  BY <1>1, <1>2 DEF HeldInv

\* The first loop over the denies seals nothing that is denied.
LEMMA HeldScan ==
  ASSUME WideInv, HeldInv, ScanDeny
  PROVE  HeldInv'
<1> DEFINE d == denies[cursor + 1]
           anchor == IF kind[d] = "absent" THEN Anchor(d) ELSE {}
<1>0. TypeInv
  BY DEF WideInv
<1>1. d \in Paths
  BY <1>0, CursorDeny DEF ScanDeny
<1>2. \A q \in anchor : ~ Denied(q)
  BY <1>0, <1>1, AnchorBound
<1>3. seals' = seals \cup anchor /\ UNCHANGED <<phase, sealed, overlays, denies>>
  BY DEF ScanDeny, configVars
<1> HIDE DEF anchor
<1>4. \A p : /\ Denied(p)' = Denied(p) /\ Overlaid(p)' = Overlaid(p)
             /\ Hides(overlays, p)' = Hides(overlays, p)
  BY <1>3 DEF Denied, Overlaid, Hides, View, Governing
<1>5. \A i \in DOMAIN overlays : MasksDenied(overlays[i])' = MasksDenied(overlays[i])
  BY <1>3, <1>4 DEF MasksDenied
<1>6. QED
  BY <1>2, <1>3, <1>4, <1>5 DEF HeldInv

\* A seal has a tmpfs at its directory, which is not denied, and binds on it.
LEMMA HeldSeal ==
  ASSUME WideInv, HeldInv, NEW dir \in Paths, Seal(dir)
  PROVE  HeldInv'
<1> DEFINE S == SealOf(dir)
<1>0. TypeInv
  BY DEF WideInv
<1>1. /\ dir \in seals /\ overlays' = overlays \o S /\ phase = "seal" /\ phase' = phase
      /\ seals' = seals \ {dir} /\ sealed' = sealed \cup {dir} /\ denies' = denies
  BY DEF Seal, configVars
<1>2. /\ IsPath(overlays) /\ IsPath(S) /\ DOMAIN overlays = 1..Len(overlays)
      /\ Len(overlays) \in Nat /\ Len(S) \in Nat
  BY <1>0, MountsListed, SealEntries, PathIsFunction
<1>3. ~ Denied(dir)
  BY <1>1 DEF HeldInv
<1>4. \A i \in 1..Len(S) : ~ MasksDenied(S[i])
  <2> SUFFICES ASSUME NEW i \in 1..Len(S) PROVE ~ MasksDenied(S[i])
    OBVIOUS
  <2>1. \/ S[i] = Mount("tmpfs", dir)
        \/ \E c \in Back(dir) : S[i] = Mount("bind", c)
        \/ \E k \in Buried(dir) : S[i] = emitted[k]
    BY <1>0, SealEntries
  <2> HIDE DEF S
  <2>2. \A k \in Buried(dir) : emitted[k].op \in {"bind", "ro-bind"}
    BY <1>0, SealBelow, MountsListed
  <2>3. /\ Mount("tmpfs", dir).at = dir
        /\ \A c : Mount("bind", c).op = "bind"
    BY DEF Mount
  <2>4. CASE S[i] = Mount("tmpfs", dir)
    BY <1>3, <2>3, <2>4 DEF MasksDenied
  <2>5. ASSUME NEW c \in Back(dir), S[i] = Mount("bind", c) PROVE ~ MasksDenied(S[i])
    <3>1. S[i].op = "bind"
      BY <2>3, <2>5
    <3>2. QED
      BY <3>1 DEF MasksDenied
  <2>6. ASSUME NEW k \in Buried(dir), S[i] = emitted[k] PROVE ~ MasksDenied(S[i])
    <3>1. S[i].op \in {"bind", "ro-bind"}
      BY <2>2, <2>6
    <3>2. QED
      BY <3>1 DEF MasksDenied
  <2>7. QED
    BY <2>1, <2>4, <2>5, <2>6
<1> HIDE DEF S
<1>5. /\ IsPath(overlays') /\ Len(overlays') = Len(overlays) + Len(S)
      /\ \A i \in 1..Len(overlays) : overlays'[i] = overlays[i]
      /\ \A i \in 1..Len(S) : overlays'[Len(overlays) + i] = S[i]
  BY <1>1, <1>2, ConcatPath
<1>6. \A i \in DOMAIN overlays' : ~ MasksDenied(overlays'[i])
  <2> SUFFICES ASSUME NEW i \in DOMAIN overlays' PROVE ~ MasksDenied(overlays'[i])
    OBVIOUS
  <2>1. i \in 1..Len(overlays')
    BY <1>5, PathIsFunction
  <2>2. i \in 1..Len(overlays) \/ (i - Len(overlays) \in 1..Len(S) /\ i = Len(overlays) + (i - Len(overlays)))
    BY <1>2, <1>5, <2>1
  <2>3. CASE i \in 1..Len(overlays)
    BY <1>1, <1>2, <1>5, <2>3 DEF HeldInv
  <2>4. CASE i - Len(overlays) \in 1..Len(S) /\ i = Len(overlays) + (i - Len(overlays))
    BY <1>4, <1>5, <2>4
  <2>5. QED
    BY <2>2, <2>3, <2>4
<1>7. \A p : Denied(p)' = Denied(p)
  BY <1>1 DEF Denied
<1>8. \A i \in DOMAIN overlays' : ~ MasksDenied(overlays[i])'
  BY <1>6, <1>7 DEF MasksDenied
<1>9. \A p : ~ Overlaid(p)'
  BY <1>6, <1>7 DEF Overlaid, MasksDenied
<1>10. QED
  BY <1>1, <1>7, <1>8, <1>9 DEF HeldInv

\* An overlay that comes later hides what it covers, and leaves hidden what the
\* others cover.
LEMMA HeldOverlay ==
  ASSUME WideInv, HeldInv, OverlayDeny
  PROVE  HeldInv'
<1> DEFINE d == denies[cursor + 1]
<1>0. TypeInv
  BY DEF WideInv
<1>1. d \in Paths
  BY <1>0, CursorDeny DEF OverlayDeny
<1>2. IsPath(overlays) /\ DOMAIN overlays = 1..Len(overlays) /\ Len(overlays) \in Nat
      /\ overlays \in Seq([op : Ops, at : Paths])
  BY <1>0, MountsListed DEF TypeInv
<1>3. /\ overlays' = overlays \o OverlayOf(d) /\ phase = "overlay"
      /\ UNCHANGED <<phase, seals, sealed, denies>>
  BY DEF OverlayDeny, configVars
<1>4. \/ overlays' = overlays
      \/ \E op \in {"tmpfs", "null"} : overlays' = overlays \o <<Mount(op, d)>>
  <2>1. overlays \o <<>> = overlays
    BY <1>2
  <2>2. QED
    BY <1>0, <1>1, <1>3, <2>1, OverlayParts
<1> HIDE DEF d
<1>5. CASE overlays' = overlays
  BY <1>3, <1>5, HeldFrame
<1>6. ASSUME NEW op \in {"tmpfs", "null"}, overlays' = overlays \o <<Mount(op, d)>>
      PROVE  HeldInv'
  <2>1. ASSUME NEW p \in Paths, Overlaid(p)' PROVE Hides(overlays, p)'
    <3>1. /\ IsPath(overlays') /\ Len(overlays') = Len(overlays) + 1
          /\ overlays'[Len(overlays) + 1] = Mount(op, d)
          /\ \A i \in 1..Len(overlays) : overlays'[i] = overlays[i]
          /\ View(overlays', p) = IF IsPrefix(Mount(op, d).at, p) THEN Mount(op, d).op
                                  ELSE View(overlays, p)
      BY <1>2, <1>6, AppendView
    <3>2. Mount(op, d).op = op /\ Mount(op, d).at = d
      BY DEF Mount
    <3>3. PICK i \in DOMAIN overlays' :
            /\ overlays'[i].op \in {"tmpfs", "null"} /\ Denied(overlays'[i].at)
            /\ IsPrefix(overlays'[i].at, p)
      BY <1>3, <2>1 DEF Overlaid, Denied
    <3>4. i \in 1..Len(overlays')
      BY <3>1, PathIsFunction
    <3>5. i \in 1..Len(overlays) \/ i = Len(overlays) + 1
      BY <1>2, <3>1, <3>4
    <3>6. CASE IsPrefix(d, p)
      <4>1. View(overlays', p) \in {"tmpfs", "null"}
        BY <3>1, <3>2, <3>6
      <4>2. QED
        BY <4>1 DEF Hides, View, Governing
    <3>7. CASE ~ IsPrefix(d, p)
      <4>1. i \in 1..Len(overlays)
        BY <3>1, <3>2, <3>3, <3>5, <3>7
      <4>2. Overlaid(p)
        BY <1>2, <3>1, <3>3, <4>1 DEF Overlaid
      <4>3. View(overlays', p) \in {"tmpfs", "null"}
        BY <3>1, <3>2, <3>7, <4>2 DEF HeldInv, Hides
      <4>4. QED
        BY <4>3 DEF Hides, View, Governing
    <3>8. QED
      BY <3>6, <3>7
  <2>2. \A p : Denied(p)' = Denied(p)
    BY <1>3 DEF Denied
  <2>3. QED
    BY <1>3, <2>1, <2>2 DEF HeldInv
<1>7. QED
  BY <1>4, <1>5, <1>6

\* Every step, whoever takes it.
LEMMA HeldNext == WideInv /\ HeldInv /\ [Next]_vars => HeldInv'
<1> SUFFICES ASSUME WideInv, HeldInv, [Next]_vars PROVE HeldInv'
  OBVIOUS
<1>1. CASE ScanDeny
  BY <1>1, HeldScan
<1>2. CASE \E dir \in Paths : Seal(dir)
  BY <1>2, HeldSeal
<1>3. CASE OverlayDeny
  BY <1>3, HeldOverlay
<1>4. CASE \/ Start \/ BindWrite \/ BindRead \/ NextLoop \/ PerformMount \/ Abort \/ Run
           \/ \E d \in Paths : RefuseSeal(d)
           \/ \E p \in Paths, k \in {"file", "dir"} : OtherCreates(p, k) \/ ChildCreates(p, k)
           \/ \E p \in Paths : OtherRemoves(p) \/ ChildRemoves(p)
           \/ UNCHANGED vars
  <2>1. /\ UNCHANGED <<overlays, denies, seals, sealed>>
        /\ phase' \in {"start", "writes", "reads", "scan", "seal"} =>
             phase \in {"start", "writes", "reads", "scan", "seal"}
    BY <1>4 DEF Start, BindWrite, BindRead, NextLoop, RefuseSeal, PerformMount, Abort, Run,
       OtherCreates, ChildCreates, OtherRemoves, ChildRemoves, vars, configVars, planVars
  <2>2. QED
    BY <2>1, HeldFrame
<1>5. QED
  BY <1>1, <1>2, <1>3, <1>4 DEF Next

\* What has an overlay stays hidden in every state, whatever others do.
THEOREM OverlaysHold == Spec => []HeldInv
<1>1. Init => HeldInv
  BY DEF Init, HeldInv, Overlaid
<1>2. QED
  BY <1>1, HeldNext, WideInvariance, PTL DEF Spec

-----------------------------------------------------------------------------
(* The second part, as long as others do nothing.                          *)

\* What is above something that is there is a directory.
LEMMA TreeBelow ==
  ASSUME TreeInv, NEW p \in Paths, Exists(p), NEW q \in Paths, IsPrefix(q, p)
  PROVE  Exists(q) /\ (q # p => kind[q] = "dir")
BY DEF TreeInv, Exists, Above, IsStrictPrefix

\* Of two places above a path, the shorter is above the other.
LEMMA AboveChain ==
  ASSUME NEW p \in Paths, NEW q \in Paths, NEW r \in Paths,
         IsPrefix(q, p), IsPrefix(r, p), Len(r) <= Len(q)
  PROVE  IsPrefix(r, q)
<1>1. /\ IsPath(p) /\ IsPath(q) /\ IsPath(r)
      /\ Len(p) \in Nat /\ Len(q) \in Nat /\ Len(r) \in Nat
  BY KnownPaths
<1>2. /\ \A i \in 1..Len(q) : q[i] = p[i]
      /\ \A i \in 1..Len(r) : r[i] = p[i]
  BY <1>1, PrefixMeans
<1>3. \A i \in 1..Len(r) : r[i] = q[i]
  BY <1>1, <1>2
<1>4. QED
  BY <1>1, <1>3, PrefixMeans

\* What is strictly below a path is longer.
LEMMA BelowLonger ==
  ASSUME NEW p \in Paths, NEW q \in Paths, IsStrictPrefix(q, p)
  PROVE  Len(q) < Len(p)
<1>1. IsPath(p) /\ IsPath(q) /\ Len(p) \in Nat /\ Len(q) \in Nat
  BY KnownPaths
<1>2. Len(q) <= Len(p) /\ \A i \in 1..Len(q) : q[i] = p[i]
  BY <1>1, PrefixMeans DEF IsStrictPrefix
<1>3. Len(q) # Len(p)
  BY <1>1, <1>2, PathsEqual DEF IsStrictPrefix
<1>4. QED
  BY <1>1, <1>2, <1>3

\* The seal of a directory that masks a missing path hides it.
LEMMA SealHides ==
  ASSUME TypeInv, FitInv, NEW dir \in Paths, NEW d \in Paths, Masks(dir, d)
  PROVE  Governing(SealOf(dir), d) # 0 /\ View(SealOf(dir), d) = "tmpfs"
<1>1. /\ IsStrictPrefix(dir, d) /\ kind[d] = "absent"
      /\ \A r \in Paths : IsStrictPrefix(r, d) /\ Len(r) > Len(dir) => kind[r] = "absent"
  BY DEF Masks, Above
<1>2. ASSUME NEW r \in Paths, IsStrictPrefix(dir, r), IsPrefix(r, d)
      PROVE  kind[r] = "absent"
  <2>1. Len(dir) < Len(r) /\ Len(dir) \in Nat /\ Len(r) \in Nat
    BY <1>2, BelowLonger, KnownPaths
  <2>2. QED
    BY <1>1, <1>2, <2>1 DEF IsStrictPrefix
<1>3. ASSUME NEW c \in Back(dir) PROVE ~ IsPrefix(c, d)
  BY <1>2, SealBelow DEF Back
<1>4. ASSUME NEW k \in Buried(dir) PROVE ~ IsPrefix(emitted[k].at, d)
  <2>1. k \in DOMAIN emitted
    BY DEF Buried
  <2>2. kind[emitted[k].at] # "absent"
    BY <2>1 DEF FitInv
  <2>3. QED
    BY <1>2, <2>2, SealBelow
<1>5. IsPrefix(dir, d)
  BY <1>1 DEF IsStrictPrefix
<1>6. QED
  BY <1>3, <1>4, <1>5, SealView

\* A list of mounts goes on with the seal of a directory.
LEMMA SealAppended ==
  ASSUME TypeInv, NEW dir \in Paths, NEW p
  PROVE  /\ IsPath(overlays) /\ IsPath(SealOf(dir)) /\ IsPath(overlays \o SealOf(dir))
         /\ View(overlays \o SealOf(dir), p) =
              IF Governing(SealOf(dir), p) = 0 THEN View(overlays, p) ELSE View(SealOf(dir), p)
         /\ Governing(overlays \o SealOf(dir), p) =
              IF Governing(SealOf(dir), p) = 0 THEN Governing(overlays, p)
              ELSE Len(overlays) + Governing(SealOf(dir), p)
<1>1. IsPath(overlays) /\ IsPath(SealOf(dir))
  BY MountsListed, SealEntries
<1>2. QED
  BY <1>1, LaterGoverns

\* The mounts of a seal exist and fit.
LEMMA SealFits ==
  ASSUME TypeInv, FitInv, MaskInv, NEW dir \in seals, NEW i \in 1..Len(SealOf(dir))
  PROVE  Fits(SealOf(dir)[i]) /\ Exists(SealOf(dir)[i].at)
<1>1. dir \in Paths /\ kind[dir] = "dir"
  BY DEF TypeInv, MaskInv
<1> DEFINE m == SealOf(dir)[i]
<1> HIDE DEF m
<1>2. \/ m = Mount("tmpfs", dir)
      \/ \E c \in Back(dir) : m = Mount("bind", c)
      \/ \E k \in Buried(dir) : m = emitted[k]
  BY <1>1, SealEntries DEF m
<1>3. CASE m = Mount("tmpfs", dir)
  BY <1>1, <1>3 DEF m, Mount, Fits, Exists
<1>4. CASE \E c \in Back(dir) : m = Mount("bind", c)
  BY <1>4 DEF m, Mount, Fits, Exists, Back
<1>5. CASE \E k \in Buried(dir) : m = emitted[k]
  <2>1. PICK k \in Buried(dir) : m = emitted[k]
    BY <1>5
  <2>2. k \in DOMAIN emitted
    BY DEF Buried
  <2>3. /\ emitted[k].op \in {"bind", "ro-bind"} /\ emitted[k].at \in Paths
        /\ kind[emitted[k].at] # "absent"
    BY <2>2, MountsListed DEF FitInv
  <2>4. QED
    BY <2>1, <2>3 DEF m, Fits, Exists
<1>6. QED
  BY <1>2, <1>3, <1>4, <1>5

-----------------------------------------------------------------------------
(* bwrap.                                                                  *)

\* What is at a path comes from the host, from /dev/null, or is a directory on
\* the way to a mount.
LEMMA KindInMeans ==
  ASSUME NEW ms, IsPath(ms), \A i \in 1..Len(ms) : ms[i].op \in Ops, NEW p
  PROVE  \/ View(ms, p) \in {"bind", "ro-bind"} /\ KindIn(ms, p) = kind[p]
         \/ \E g \in 1..Len(ms) :
              /\ ms[g].op = "null" /\ View(ms, p) = "null" /\ IsPrefix(ms[g].at, p)
              /\ KindIn(ms, p) = IF ms[g].at = p THEN "file" ELSE "absent"
         \/ View(ms, p) \in {"root", "tmpfs"} /\ KindIn(ms, p) = "absent"
         \/ /\ View(ms, p) \in {"root", "tmpfs"} /\ KindIn(ms, p) = "dir"
            /\ \E i \in 1..Len(ms) :
                 (ms[i].op = "tmpfs" /\ ms[i].at = p) \/ IsStrictPrefix(p, ms[i].at)
<1> DEFINE g == Governing(ms, p)
           V == View(ms, p)
           on == \/ g # 0 /\ ms[g].at = p
                 \/ \E i \in DOMAIN ms : i > g /\ IsStrictPrefix(p, ms[i].at)
<1>1. /\ Len(ms) \in Nat /\ DOMAIN ms = 1..Len(ms)
      /\ g \in 0..Len(ms) /\ (g # 0 => IsPrefix(ms[g].at, p))
  BY GoverningMeans, PathIsFunction
<1>2. V = IF g = 0 THEN "root" ELSE ms[g].op
  BY DEF View
<1>3. V \in {"root", "bind", "ro-bind", "tmpfs", "null"}
  BY <1>1, <1>2 DEF Ops
<1>4. KindIn(ms, p) = CASE V \in {"bind", "ro-bind"} -> kind[p]
                        [] V = "null" -> IF ms[g].at = p THEN "file" ELSE "absent"
                        [] OTHER -> IF on THEN "dir" ELSE "absent"
  BY DEF KindIn
<1> HIDE DEF g, V, on
<1>5. CASE V \in {"bind", "ro-bind"}
  <2>1. KindIn(ms, p) = kind[p]
    BY <1>4, <1>5
  <2>2. QED
    BY <1>5, <2>1 DEF V
<1>6. CASE V = "null"
  <2>1. KindIn(ms, p) = IF ms[g].at = p THEN "file" ELSE "absent"
    BY <1>4, <1>6
  <2>2. g \in 1..Len(ms) /\ ms[g].op = "null" /\ IsPrefix(ms[g].at, p)
    BY <1>1, <1>2, <1>6
  <2>3. QED
    BY <1>6, <2>1, <2>2 DEF V
<1>7. CASE V \in {"root", "tmpfs"}
  <2>1. KindIn(ms, p) = IF on THEN "dir" ELSE "absent"
    BY <1>4, <1>7
  <2>0. g # 0 => g \in 1..Len(ms) /\ ms[g].op = "tmpfs"
    BY <1>1, <1>2, <1>7 DEF Ops
  <2>2. on => \E i \in 1..Len(ms) :
                (ms[i].op = "tmpfs" /\ ms[i].at = p) \/ IsStrictPrefix(p, ms[i].at)
    BY <1>1, <2>0 DEF on
  <2>3. QED
    BY <1>7, <2>1, <2>2 DEF V
<1>8. QED
  BY <1>3, <1>5, <1>6, <1>7

\* A mount that fits, by what there is on the host.
LEMMA FitsMeans ==
  ASSUME TypeInv, TreeInv, NEW m, Fits(m), m.op \in Ops, NEW p \in Paths
  PROVE  /\ Exists(p) /\ m.at = p /\ m.op = "null" => kind[p] = "file"
         /\ Exists(p) /\ m.at = p /\ m.op = "tmpfs" => kind[p] = "dir"
         /\ Exists(p) /\ IsStrictPrefix(p, m.at) => kind[p] = "dir"
         /\ Exists(p) /\ IsStrictPrefix(m.at, p) => m.op # "null"
         /\ ~ Exists(p) /\ m.at = p =>
              m.op = IF p \in FileLeaves THEN "null" ELSE "tmpfs"
         /\ IsStrictPrefix(p, m.at) => p \notin FileLeaves
         /\ kind[p] # "file" /\ p \notin FileLeaves /\ m.at = p => m.op # "null"
<1>1. m.at \notin Paths => m.at = host.tmp /\ m.op = "tmpfs"
  BY DEF Fits
<1>2. m.at \notin Paths => ~ IsStrictPrefix(p, m.at)
  BY <1>1, HostsAssumption DEF TypeInv, IsStrictPrefix
<1>3. m.at \in Paths /\ kind[m.at] # "absent" =>
        /\ m.op = "tmpfs" => kind[m.at] = "dir"
        /\ m.op = "null" => kind[m.at] = "file"
  BY DEF Fits
<1>4. m.at \in Paths /\ kind[m.at] = "absent" =>
        /\ \A q \in Above(m.at) : kind[q] # "file"
        /\ m.op = IF m.at \in FileLeaves THEN "null" ELSE "tmpfs"
  BY DEF Fits
<1>5. kind[p] \in {"absent", "file", "dir"}
  BY DEF TypeInv, Kinds
<1>6. /\ Exists(p) /\ m.at = p /\ m.op = "null" => kind[p] = "file"
      /\ Exists(p) /\ m.at = p /\ m.op = "tmpfs" => kind[p] = "dir"
      /\ ~ Exists(p) /\ m.at = p =>
           m.op = IF p \in FileLeaves THEN "null" ELSE "tmpfs"
      /\ kind[p] # "file" /\ p \notin FileLeaves /\ m.at = p => m.op # "null"
  BY <1>3, <1>4 DEF Exists
<1>7. ASSUME IsStrictPrefix(p, m.at) PROVE p \notin FileLeaves /\ (Exists(p) => kind[p] = "dir")
  <2>1. m.at \in Paths /\ p \in Above(m.at)
    BY <1>2, <1>7 DEF Above
  <2>2. p \notin FileLeaves
    BY <2>1, LeavesAssumption
  <2>3. CASE kind[m.at] = "absent"
    BY <1>4, <1>5, <2>1, <2>2, <2>3 DEF Exists
  <2>4. CASE kind[m.at] # "absent"
    BY <2>1, <2>2, <2>4 DEF TreeInv
  <2>5. QED
    BY <2>3, <2>4
<1>8. ASSUME Exists(p), IsStrictPrefix(m.at, p), m.op = "null" PROVE FALSE
  <2>1. m.at \in Paths
    BY <1>1, <1>8
  <2>2. m.at \in Above(p)
    BY <1>8, <2>1 DEF Above
  <2>3. kind[m.at] = "dir"
    BY <1>8, <2>2 DEF TreeInv, Exists
  <2>4. QED
    BY <1>3, <1>8, <2>1, <2>3
<1>9. QED
  BY <1>6, <1>7, <1>8

\* Where the host has no file, and a mask would be none, no mount makes one.
LEMMA NoFileMade ==
  ASSUME TypeInv, TreeInv, NEW ms, IsPath(ms),
         \A i \in 1..Len(ms) : ms[i].op \in Ops /\ Fits(ms[i]),
         NEW q \in Paths, kind[q] # "file", q \notin FileLeaves
  PROVE  KindIn(ms, q) # "file"
<1>1. ASSUME NEW g \in 1..Len(ms), ms[g].op = "null" PROVE ms[g].at # q
  BY <1>1, FitsMeans
<1>2. QED
  BY <1>1, KindInMeans

\* A mount that fits can be performed after others that fit, and nothing has to
\* be created on the host for it; but a mask of a missing path needs a seal.
LEMMA Performable ==
  ASSUME TypeInv, TreeInv, NEW ms, IsPath(ms),
         \A i \in 1..Len(ms) : ms[i].op \in Ops /\ Fits(ms[i]),
         NEW m, Fits(m), m.op \in Ops,
         m.at \in Paths /\ kind[m.at] = "absent" => Hides(ms, m.at),
         NEW here, here = IF OnHost(m.at) THEN KindIn(ms, m.at) ELSE "dir"
  PROVE  /\ PointKind(m) # "absent"
         /\ \/ here = PointKind(m)
            \/ /\ here = "absent" /\ View(ms, m.at) \in {"root", "tmpfs"}
               /\ \A q \in Above(m.at) : KindIn(ms, q) # "file"
<1> DEFINE p == m.at
<1>1. m.op \in {"bind", "ro-bind", "tmpfs", "null"}
  BY DEF Ops
<1>2. PointKind(m) = CASE m.op = "tmpfs" -> "dir" [] m.op = "null" -> "file" [] OTHER -> kind[p]
  BY DEF PointKind
<1>3. CASE p \notin Paths
  <2>1. m.op = "tmpfs"
    BY <1>3 DEF Fits
  <2>2. QED
    BY <1>2, <1>3, <2>1 DEF OnHost
<1>4. ASSUME p \in Paths
      PROVE  \A q \in Above(p) : kind[q] # "file" /\ q \notin FileLeaves
  <2>1. \A q \in Above(p) : q \notin FileLeaves
    BY <1>4, LeavesAssumption
  <2>2. CASE kind[p] = "absent"
    BY <1>4, <2>1, <2>2 DEF Fits
  <2>3. CASE kind[p] # "absent"
    BY <1>4, <2>1, <2>3 DEF TreeInv
  <2>4. QED
    BY <2>2, <2>3
<1>5. ASSUME p \in Paths
      PROVE  \A q \in Above(p) : KindIn(ms, q) # "file"
  <2>1. \A q \in Above(p) : q \in Paths
    BY DEF Above
  <2>2. QED
    BY <1>4, <1>5, <2>1, NoFileMade
<1>6. CASE p \in Paths /\ Exists(p)
  <2>1. PointKind(m) = kind[p] /\ kind[p] # "absent"
    <3>1. /\ m.op = "null" => kind[p] = "file"
          /\ m.op = "tmpfs" => kind[p] = "dir"
      BY <1>6, FitsMeans
    <3>2. QED
      BY <1>1, <1>2, <1>6, <3>1 DEF Exists
  <2>2. here = KindIn(ms, p)
    BY <1>6 DEF OnHost
  <2>3. CASE View(ms, p) \in {"bind", "ro-bind"} /\ KindIn(ms, p) = kind[p]
    BY <2>1, <2>2, <2>3
  <2>4. CASE \E g \in 1..Len(ms) :
               /\ ms[g].op = "null" /\ View(ms, p) = "null" /\ IsPrefix(ms[g].at, p)
               /\ KindIn(ms, p) = IF ms[g].at = p THEN "file" ELSE "absent"
    <3>1. PICK g \in 1..Len(ms) :
               /\ ms[g].op = "null" /\ View(ms, p) = "null" /\ IsPrefix(ms[g].at, p)
               /\ KindIn(ms, p) = IF ms[g].at = p THEN "file" ELSE "absent"
      BY <2>4
    <3>2. ms[g].at = p
      BY <1>6, <3>1, FitsMeans DEF IsStrictPrefix
    <3>3. kind[p] = "file"
      BY <1>6, <3>1, <3>2, FitsMeans
    <3>4. QED
      BY <2>1, <2>2, <3>1, <3>2, <3>3
  <2>5. CASE View(ms, p) \in {"root", "tmpfs"} /\ KindIn(ms, p) = "absent"
    BY <1>5, <1>6, <2>1, <2>2, <2>5
  <2>6. CASE /\ View(ms, p) \in {"root", "tmpfs"} /\ KindIn(ms, p) = "dir"
             /\ \E i \in 1..Len(ms) :
                  (ms[i].op = "tmpfs" /\ ms[i].at = p) \/ IsStrictPrefix(p, ms[i].at)
    <3>1. kind[p] = "dir"
      BY <1>6, <2>6, FitsMeans
    <3>2. QED
      BY <2>1, <2>2, <2>6, <3>1
  <2>7. (\A i \in 1..Len(ms) : ms[i].op \in Ops)
    OBVIOUS
  <2>8. QED
    BY <2>3, <2>4, <2>5, <2>6, <2>7, KindInMeans
<1>7. CASE p \in Paths /\ ~ Exists(p)
  <2>1. m.op = IF p \in FileLeaves THEN "null" ELSE "tmpfs"
    BY <1>7, FitsMeans
  <2>2. PointKind(m) = IF p \in FileLeaves THEN "file" ELSE "dir"
    BY <1>2, <2>1
  <2>3. here = KindIn(ms, p) /\ View(ms, p) \in {"tmpfs", "null"}
    BY <1>7 DEF OnHost, Exists, Hides
  <2>4. CASE \E g \in 1..Len(ms) :
               /\ ms[g].op = "null" /\ View(ms, p) = "null" /\ IsPrefix(ms[g].at, p)
               /\ KindIn(ms, p) = IF ms[g].at = p THEN "file" ELSE "absent"
    <3>1. PICK g \in 1..Len(ms) :
               /\ ms[g].op = "null" /\ View(ms, p) = "null" /\ IsPrefix(ms[g].at, p)
               /\ KindIn(ms, p) = IF ms[g].at = p THEN "file" ELSE "absent"
      BY <2>4
    <3>2. ms[g].at = p
      <4>1. ms[g].at \in Paths
        BY <3>1 DEF Fits
      <4>2. ASSUME ms[g].at # p PROVE FALSE
        <5>1. ms[g].at \in Above(p)
          BY <3>1, <4>1, <4>2 DEF Above, IsStrictPrefix
        <5>2. kind[ms[g].at] # "file" /\ ms[g].at \notin FileLeaves
          BY <1>4, <1>7, <5>1
        <5>3. QED
          BY <3>1, <4>1, <5>2, FitsMeans
      <4>3. QED
        BY <4>2
    <3>3. p \in FileLeaves
      BY <1>7, <3>1, <3>2, FitsMeans
    <3>4. QED
      BY <2>2, <2>3, <3>1, <3>2, <3>3
  <2>5. CASE View(ms, p) \in {"root", "tmpfs"} /\ KindIn(ms, p) = "absent"
    BY <1>5, <1>7, <2>2, <2>3, <2>5
  <2>6. CASE /\ View(ms, p) \in {"root", "tmpfs"} /\ KindIn(ms, p) = "dir"
             /\ \E i \in 1..Len(ms) :
                  (ms[i].op = "tmpfs" /\ ms[i].at = p) \/ IsStrictPrefix(p, ms[i].at)
    <3>1. PICK i \in 1..Len(ms) :
                  (ms[i].op = "tmpfs" /\ ms[i].at = p) \/ IsStrictPrefix(p, ms[i].at)
      BY <2>6
    <3>2. p \notin FileLeaves
      BY <1>7, <3>1, FitsMeans
    <3>3. QED
      BY <2>2, <2>3, <2>6, <3>2
  <2>7. (\A i \in 1..Len(ms) : ms[i].op \in Ops)
    OBVIOUS
  <2>8. QED
    BY <2>3, <2>4, <2>5, <2>6, <2>7, KindInMeans
<1>8. QED
  BY <1>3, <1>6, <1>7

\* The parts of the plan, one after the other.
LEMMA ArgsParts ==
  ASSUME TypeInv
  PROVE  /\ Args = (base \o emitted) \o overlays
         /\ IsPath(base \o emitted) /\ IsPath(Args) /\ Len(Args) \in Nat
         /\ Len(Args) = Len(base \o emitted) + Len(overlays)
         /\ Len(base \o emitted) = Len(base) + Len(emitted)
         /\ \A i \in 1..Len(base) : Args[i] = base[i]
         /\ \A i \in 1..Len(emitted) : Args[Len(base) + i] = emitted[i]
         /\ \A i \in 1..Len(overlays) : Args[Len(base \o emitted) + i] = overlays[i]
<1> DEFINE be == base \o emitted
<1>1. /\ IsPath(base) /\ IsPath(emitted) /\ IsPath(overlays)
      /\ Len(base) \in Nat /\ Len(emitted) \in Nat /\ Len(overlays) \in Nat
  BY MountsListed
<1>2. /\ IsPath(be) /\ Len(be) = Len(base) + Len(emitted)
      /\ \A i \in 1..Len(base) : be[i] = base[i]
      /\ \A i \in 1..Len(emitted) : be[Len(base) + i] = emitted[i]
  BY <1>1, ConcatPath
<1> HIDE DEF be
<1> DEFINE a == be \o overlays
<1>3. /\ IsPath(a) /\ Len(a) = Len(be) + Len(overlays)
      /\ \A i \in 1..Len(be) : a[i] = be[i]
      /\ \A i \in 1..Len(overlays) : a[Len(be) + i] = overlays[i]
  <2>1. IsPath(be)
    BY <1>2
  <2>2. QED
    BY <1>1, <2>1, ConcatPath
<1>4. Args = a
  BY DEF Args, a, be
<1> HIDE DEF a
<1>5. \A i \in 1..Len(base) : a[i] = base[i]
  BY <1>1, <1>2, <1>3
<1>6. \A i \in 1..Len(emitted) : a[Len(base) + i] = emitted[i]
  <2>1. \A i \in 1..Len(emitted) : Len(base) + i \in 1..Len(be)
    BY <1>1, <1>2
  <2>2. QED
    BY <1>2, <1>3, <2>1
<1>7. QED
  BY <1>1, <1>2, <1>3, <1>4, <1>5, <1>6 DEF a, be

\* Each mount of the plan fits, and is of something that is there unless it is
\* an overlay.
LEMMA ArgsFit ==
  ASSUME TypeInv, FitInv, NEW n \in 1..Len(Args)
  PROVE  /\ Args[n].op \in Ops /\ Fits(Args[n])
         /\ \/ Args[n].at \in Paths => Exists(Args[n].at)
            \/ \E i \in 1..Len(overlays) :
                 n = Len(base \o emitted) + i /\ Args[n] = overlays[i]
<1> DEFINE k == Len(base \o emitted)
<1>1. /\ Len(base) \in Nat /\ Len(emitted) \in Nat /\ Len(overlays) \in Nat
      /\ k = Len(base) + Len(emitted) /\ Len(Args) = k + Len(overlays)
      /\ \A i \in 1..Len(base) : Args[i] = base[i]
      /\ \A i \in 1..Len(emitted) : Args[Len(base) + i] = emitted[i]
      /\ \A i \in 1..Len(overlays) : Args[k + i] = overlays[i]
  BY ArgsParts, MountsListed
<1> HIDE DEF k
<1>2. \/ n \in 1..Len(base)
      \/ n - Len(base) \in 1..Len(emitted) /\ n = Len(base) + (n - Len(base))
      \/ n - k \in 1..Len(overlays) /\ n = k + (n - k)
  BY <1>1
<1>3. CASE n \in 1..Len(base)
  BY <1>1, <1>3, MountsListed DEF FitInv, Ops, Exists
<1>4. CASE n - Len(base) \in 1..Len(emitted) /\ n = Len(base) + (n - Len(base))
  <2>1. PICK i \in 1..Len(emitted) : Args[n] = emitted[i]
    BY <1>1, <1>4
  <2>2. /\ emitted[i].op \in {"bind", "ro-bind"} /\ emitted[i].at \in Paths
        /\ kind[emitted[i].at] # "absent"
    BY MountsListed DEF FitInv
  <2>3. QED
    BY <2>1, <2>2 DEF Fits, Exists, Ops
<1>5. CASE n - k \in 1..Len(overlays) /\ n = k + (n - k)
  <2>1. PICK i \in 1..Len(overlays) : n = k + i /\ Args[n] = overlays[i]
    BY <1>1, <1>5
  <2>2. Args[n].op \in Ops /\ Fits(Args[n])
    BY <2>1, MountsListed DEF FitInv
  <2>3. QED
    BY <2>1, <2>2 DEF k
<1>6. QED
  BY <1>2, <1>3, <1>4, <1>5

\* On a host that keeps still every mount of the plan can be performed, and
\* nothing has to be created for it.
LEMMA PlanPerformable ==
  ASSUME TypeInv, TreeInv, FitInv, MaskInv, done < Len(Args),
         NEW m, m = Args[done + 1],
         NEW here, here = IF OnHost(m.at) THEN KindIn(Performed, m.at) ELSE "dir"
  PROVE  /\ PointKind(m) # "absent"
         /\ here = PointKind(m) \/ (here = "absent" /\ CanMake(m.at) /\ View(Performed, m.at) # "bind")
<1> DEFINE k == Len(base \o emitted)
           ms == Performed
<1> HIDE DEF k
<1>1. done \in Nat /\ Len(Args) \in Nat /\ IsPath(Args) /\ done + 1 \in 1..Len(Args)
  BY ArgsParts DEF TypeInv
<1>2. IsPath(ms) /\ Len(ms) = done /\ \A i \in 1..done : ms[i] = Args[i]
  <2>1. Args \in Seq(ToSet(Args))
    BY <1>1 DEF IsPath
  <2>2. /\ SubSeq(Args, 1, done) \in Seq(ToSet(Args)) /\ Len(SubSeq(Args, 1, done)) = done
        /\ \A i \in 1..done : SubSeq(Args, 1, done)[i] = Args[i]
    BY <1>1, <2>1
  <2>3. QED
    BY <2>2, SeqIsPath DEF Performed
<1>3. \A i \in 1..Len(ms) : ms[i].op \in Ops /\ Fits(ms[i])
  <2>1. \A i \in 1..done : i \in 1..Len(Args)
    BY <1>1
  <2> HIDE DEF ms
  <2>2. QED
    BY <1>2, <2>1, ArgsFit
<1>4. m.op \in Ops /\ Fits(m)
  BY <1>1, ArgsFit
<1>5. ASSUME m.at \in Paths, kind[m.at] = "absent" PROVE Hides(ms, m.at)
  <2>1. PICK i \in 1..Len(overlays) : done + 1 = k + i /\ m = overlays[i]
    BY <1>1, <1>5, ArgsFit DEF Exists, k
  <2>2. i \in DOMAIN overlays /\ i \in Nat /\ i - 1 \in Nat /\ i - 1 <= Len(overlays) /\ k \in Nat
    BY <2>1, MountsListed, ArgsParts, PathIsFunction DEF k
  <2>3. done = k + (i - 1)
    <3>1. done \in Nat /\ i \in Nat /\ k \in Nat /\ done + 1 = k + i
      BY <1>1, <2>1, <2>2
    <3>2. QED
      BY <3>1
  <2> DEFINE part == SubSeq(overlays, 1, i - 1)
             be == base \o emitted
  <2>4. Hides(part, m.at)
    BY <1>5, <2>1, <2>2 DEF MaskInv
  <2>5. IsPath(be) /\ IsPath(overlays) /\ Args = be \o overlays
    BY ArgsParts, MountsListed
  <2> HIDE DEF be
  <2>6. IsPath(part)
    <3>1. SubSeq(overlays \o overlays, 1, i - 1) = part /\ IsPath(part)
      BY <2>2, <2>5, BeginsConcat
    <3>2. QED
      BY <3>1
  <2>7. ms = be \o part
    <3> DEFINE n == i - 1
    <3>1. n \in Nat /\ n <= Len(overlays) /\ IsPath(be) /\ IsPath(overlays)
      BY <2>2, <2>5
    <3> HIDE DEF n
    <3>2. SubSeq(be \o overlays, 1, Len(be) + n) = be \o SubSeq(overlays, 1, n)
      BY <3>1, BeginsBeyond, Zenon
    <3>3. done = Len(be) + n
      BY <2>3 DEF n, be, k
    <3>4. Performed = be \o SubSeq(overlays, 1, n)
      BY <2>5, <3>2, <3>3 DEF Performed
    <3>5. QED
      BY <3>4 DEF n
  <2> HIDE DEF part, ms
  <2>8. View(be \o part, m.at) = IF Governing(part, m.at) = 0 THEN View(be, m.at)
                                 ELSE View(part, m.at)
    <3>1. IsPath(be) /\ IsPath(part)
      BY <2>5, <2>6
    <3>2. QED
      BY <3>1, LaterGoverns
  <2>9. Governing(part, m.at) # 0
    BY <2>4 DEF Hides, View
  <2>10. QED
    BY <2>4, <2>7, <2>8, <2>9 DEF Hides
<1> HIDE DEF ms
<1>6. here = IF OnHost(m.at) THEN KindIn(ms, m.at) ELSE "dir"
  BY DEF ms
<1>7. /\ PointKind(m) # "absent"
      /\ \/ here = PointKind(m)
         \/ /\ here = "absent" /\ View(ms, m.at) \in {"root", "tmpfs"}
            /\ \A q \in Above(m.at) : KindIn(ms, q) # "file"
  BY <1>2, <1>3, <1>4, <1>5, <1>6, Performable
<1>8. QED
  BY <1>7 DEF CanMake, ms

-----------------------------------------------------------------------------
(* The steps of the plan, on a host that keeps still.                      *)

\* What the steps of the plan start from.
CalmPre == WideInv /\ StillInv /\ KeepInv

\* Before the seals there are no overlays.
LEMMA NoOverlays ==
  ASSUME LoopInv, phase \in {"start", "writes", "reads", "scan"}
  PROVE  /\ overlays = <<>> /\ DOMAIN overlays = {}
         /\ \A p : Governing(overlays, p) = 0 /\ View(overlays, p) = "root"
<1>1. overlays = <<>>
  BY DEF LoopInv
<1>2. QED
  BY <1>1, NothingGoverns

\* The system mounts and /tmp.
LEMMA StillStart ==
  ASSUME CalmPre, Start
  PROVE  StillInv' /\ KeepInv'
<1>0. /\ TypeInv /\ LoopInv /\ OrderInv /\ SealInv /\ WidthInv
      /\ TreeInv /\ FitInv /\ MaskInv /\ SettledInv /\ CoverInv /\ ShownInv /\ KeepInv
  BY DEF CalmPre, StillInv, WideInv
<1>1. /\ phase = "start" /\ phase' = "writes"
      /\ UNCHANGED <<kind, host, denies, emitted, maskable, seals, sealed, overlays, blocked>>
  BY DEF Start, configVars
<1>2. TreeInv' /\ MaskInv' /\ SettledInv' /\ CoverInv' /\ ShownInv' /\ KeepInv'
  <2>1. TreeInv'
    BY <1>0, <1>1 DEF TreeInv
  <2>2. MaskInv'
    BY <1>0, <1>1 DEF MaskInv, Masks, Hides
  <2>3. SettledInv' /\ CoverInv'
    BY <1>0, <1>1 DEF SettledInv, CoverInv
  <2>4. ShownInv' /\ KeepInv'
    BY <1>0, <1>1 DEF ShownInv, KeepInv, Exists, Denied
  <2>5. QED
    BY <2>1, <2>2, <2>3, <2>4
<1>3. FitInv'
  <2> DEFINE E == Existing(host.system)
             b == [i \in 1..Len(E) |-> Mount("ro-bind", E[i])]
             m == Mount("tmpfs", host.tmp)
  <2>1. /\ IsPath(E) /\ \A i \in 1..Len(E) : E[i] \in Paths /\ kind[E[i]] # "absent"
        /\ base' = b \o <<m>>
    BY <1>0, StartMounts
  <2>2. Len(E) \in Nat
    BY <2>1, PathIsFunction
  <2> HIDE DEF E
  <2>3. IsPath(b) /\ Len(b) = Len(E) /\ \A i \in 1..Len(b) : b[i] = Mount("ro-bind", E[i])
    <3> DEFINE S == {Mount("ro-bind", E[i]) : i \in 1..Len(E)}
    <3>1. b \in [1..Len(E) -> S]
      OBVIOUS
    <3> HIDE DEF S
    <3>2. b \in Seq(S) /\ Len(b) = Len(E)
      BY <2>2, <3>1
    <3>3. QED
      BY <3>2, SeqIsPath
  <2> HIDE DEF b
  <2>4. /\ IsPath(base') /\ Len(base') = Len(b) + 1 /\ base'[Len(b) + 1] = m
        /\ \A i \in 1..Len(b) : base'[i] = b[i]
    <3> HIDE DEF m
    <3>1. IsPath(b) /\ base' = b \o <<m>>
      BY <2>1, <2>3
    <3>2. QED
      BY <3>1, AppendView
  <2>5. DOMAIN base' = 1..(Len(b) + 1)
    BY <2>4, PathIsFunction
  <2>6. ASSUME NEW i \in 1..Len(b)
        PROVE  Fits(base'[i]) /\ (base'[i].at \in Paths => kind[base'[i].at] # "absent")
    <3>1. base'[i] = Mount("ro-bind", E[i]) /\ E[i] \in Paths /\ kind[E[i]] # "absent"
      BY <2>1, <2>3, <2>4
    <3>2. QED
      BY <3>1 DEF Mount, Fits
  <2>7. Fits(m) /\ (m.at \in Paths => kind[m.at] # "absent")
    <3>1. host.tmp \in Paths => kind[host.tmp] = "dir"
      BY <1>0, <1>1 DEF FitInv
    <3>2. QED
      BY <3>1 DEF Mount, Fits
  <2>8. \A i \in DOMAIN base' : Fits(base'[i]) /\ (base'[i].at \in Paths => kind[base'[i].at] # "absent")
    <3>1. \A i \in DOMAIN base' : i \in 1..Len(b) \/ i = Len(b) + 1
      BY <2>2, <2>3, <2>5
    <3> HIDE DEF m
    <3>2. QED
      BY <2>4, <2>6, <2>7, <3>1
  <2>9. QED
    BY <1>0, <1>1, <2>8 DEF FitInv, Fits
<1>4. QED
  BY <1>2, <1>3 DEF StillInv

\* The loops over the write and the read paths.
LEMMA StillBind ==
  ASSUME CalmPre, BindWrite \/ BindRead
  PROVE  StillInv' /\ KeepInv'
<1>0. /\ TypeInv /\ LoopInv /\ OrderInv /\ SealInv /\ WidthInv
      /\ TreeInv /\ FitInv /\ MaskInv /\ SettledInv /\ CoverInv /\ ShownInv /\ KeepInv
  BY DEF CalmPre, StillInv, WideInv
<1>1. /\ phase \in {"writes", "reads"} /\ phase' = phase
      /\ UNCHANGED <<kind, host, denies, base, maskable, seals, sealed, overlays, blocked>>
  BY DEF BindWrite, BindRead
<1>2. emitted' = emitted \/ \E m \in Binds : emitted' = Append(emitted, m) /\ kind[m.at] # "absent"
  <2>1. /\ writes # <<>> => Head(writes) \in Paths
        /\ reads # <<>> => Head(reads) \in Paths
    BY <1>0, HeadAndTail DEF TypeInv
  <2>2. CASE BindWrite
    <3> DEFINE m == Mount("bind", Head(writes))
    <3>1. writes # <<>> => m \in Binds /\ m.at = Head(writes)
      BY <2>1 DEF Mount, Binds
    <3>2. \/ emitted' = emitted
          \/ writes # <<>> /\ emitted' = Append(emitted, m) /\ kind[Head(writes)] # "absent"
      BY <2>2 DEF BindWrite
    <3> HIDE DEF m
    <3>3. QED
      BY <3>1, <3>2
  <2>3. CASE BindRead
    <3> DEFINE m == Mount("ro-bind", Head(reads))
    <3>1. reads # <<>> => m \in Binds /\ m.at = Head(reads)
      BY <2>1 DEF Mount, Binds
    <3>2. \/ emitted' = emitted
          \/ reads # <<>> /\ emitted' = Append(emitted, m) /\ kind[Head(reads)] # "absent"
      BY <2>3 DEF BindRead
    <3> HIDE DEF m
    <3>3. QED
      BY <3>1, <3>2
  <2>4. QED
    BY <2>2, <2>3
<1>3. /\ seals = {} /\ sealed = {} /\ maskable = {} /\ overlays = <<>> /\ DOMAIN overlays = {}
      /\ \A p : Governing(overlays, p) = 0 /\ View(overlays, p) = "root"
  BY <1>0, <1>1, NoOverlays DEF LoopInv
<1>4. TreeInv' /\ SettledInv' /\ CoverInv'
  BY <1>0, <1>1 DEF TreeInv, SettledInv, CoverInv
<1>5. MaskInv' /\ ShownInv' /\ KeepInv'
  BY <1>1, <1>3 DEF MaskInv, ShownInv, KeepInv
<1>6. \A i \in DOMAIN emitted' : kind[emitted'[i].at] # "absent"
  <2>1. CASE emitted' = emitted
    BY <1>0, <2>1 DEF FitInv
  <2>2. ASSUME NEW m \in Binds, emitted' = Append(emitted, m), kind[m.at] # "absent"
        PROVE  \A i \in DOMAIN emitted' : kind[emitted'[i].at] # "absent"
    <3>1. emitted' = emitted \o <<m>> /\ IsPath(emitted)
      BY <1>0, <2>2, AppendTyped, MountsListed DEF TypeInv
    <3>2. /\ IsPath(emitted') /\ Len(emitted') = Len(emitted) + 1
          /\ emitted'[Len(emitted) + 1] = m
          /\ \A i \in 1..Len(emitted) : emitted'[i] = emitted[i]
      BY <3>1, AppendView
    <3>3. /\ DOMAIN emitted' = 1..Len(emitted') /\ DOMAIN emitted = 1..Len(emitted)
          /\ Len(emitted) \in Nat
      BY <3>1, <3>2, PathIsFunction
    <3>4. \A i \in 1..Len(emitted') : i \in 1..Len(emitted) \/ i = Len(emitted) + 1
      BY <3>2, <3>3
    <3>5. QED
      BY <1>0, <2>2, <3>2, <3>3, <3>4 DEF FitInv
  <2>3. QED
    BY <1>2, <2>1, <2>2
<1>7. FitInv'
  BY <1>0, <1>1, <1>6 DEF FitInv, Fits
<1>8. QED
  BY <1>4, <1>5, <1>7 DEF StillInv

\* What the first loop over the denies finds out about one of them.
LEMMA ScanSettles ==
  ASSUME TypeInv, TreeInv, FitInv, NEW d \in Paths, ~ Exists(d), Anchor(d) = {},
         \A q \in Above(d) : kind[q] # "file"
  PROVE  \/ View(emitted, d) # "bind"
         \/ \E i \in DOMAIN denies : IsPrefix(denies[i], d) /\ Exists(denies[i])
<1> SUFFICES ASSUME View(emitted, d) = "bind"
             PROVE  \E i \in DOMAIN denies : IsPrefix(denies[i], d) /\ Exists(denies[i])
  OBVIOUS
<1> DEFINE g == Governing(emitted, d)
           at == emitted[g].at
           E == {q \in Above(d) : Exists(q)}
           L == {Len(q) : q \in E}
<1>1. g # 0 /\ emitted[g].op = "bind"
  BY DEF View
<1>2. /\ g \in 1..Len(emitted) /\ IsPrefix(at, d) /\ at \in Paths /\ g \in DOMAIN emitted
  <2>1. IsPath(emitted) /\ Len(emitted) \in Nat /\ DOMAIN emitted = 1..Len(emitted)
    BY MountsListed
  <2>2. g \in 0..Len(emitted) /\ (g # 0 => IsPrefix(at, d))
    BY <2>1, GoverningMeans
  <2> HIDE DEF g
  <2>3. g \in 1..Len(emitted)
    BY <1>1, <2>1, <2>2
  <2>4. QED
    BY <1>1, <2>1, <2>2, <2>3, MountsListed
<1>3. Exists(at) /\ at # d
  BY <1>2 DEF FitInv, Exists
<1>4. {q \in DeepestExistingDir(at, d) : ~Denied(q)} = {}
  BY <1>1 DEF Anchor
<1> HIDE DEF g, at
<1>5. at \in E
  BY <1>2, <1>3 DEF Above, IsStrictPrefix
<1>6. \A q \in E : q \in Paths /\ IsStrictPrefix(q, d) /\ Len(q) \in 0..Len(d)
  <2> SUFFICES ASSUME NEW q \in E PROVE q \in Paths /\ IsStrictPrefix(q, d) /\ Len(q) \in 0..Len(d)
    OBVIOUS
  <2>1. q \in Paths /\ IsStrictPrefix(q, d)
    BY DEF Above
  <2>2. Len(q) < Len(d) /\ Len(q) \in Nat /\ Len(d) \in Nat
    BY <2>1, BelowLonger, KnownPaths
  <2>3. QED
    BY <2>1, <2>2
<1>7. L \in SUBSET (0..Len(d)) /\ L # {}
  BY <1>5, <1>6
<1>8. PICK q \in E : \A r \in E : Len(r) <= Len(q)
  <2>1. Len(d) \in Nat
    BY KnownPaths
  <2>2. Max(L) \in L /\ \A n \in L : n <= Max(L)
    <3> HIDE DEF L
    <3>1. QED
      BY <1>7, <2>1, MaxMeans
  <2>3. QED
    BY <2>2
<1>9. kind[q] = "dir" /\ q \in Above(d)
  BY DEF TypeInv, Kinds, Exists, Above
<1>10. IsPrefix(at, q)
  BY <1>2, <1>5, <1>6, <1>8, AboveChain DEF IsStrictPrefix
<1>11. \A r \in Above(d) : Len(r) > Len(q) => kind[r] = "absent"
  <2> SUFFICES ASSUME NEW r \in Above(d), Len(r) > Len(q), kind[r] # "absent" PROVE FALSE
    OBVIOUS
  <2>1. r \in E
    BY DEF Exists
  <2>2. Len(r) <= Len(q) /\ Len(r) \in Nat /\ Len(q) \in Nat
    BY <1>6, <1>8, <2>1
  <2>3. QED
    BY <2>2
<1>12. Denied(q)
  BY <1>4, <1>9, <1>10, <1>11 DEF DeepestExistingDir
<1>13. PICK i \in DOMAIN denies : IsPrefix(denies[i], q)
  BY <1>12 DEF Denied
<1>14. denies[i] \in Paths
  BY MountsListed
<1>15. Exists(denies[i])
  BY <1>6, <1>13, <1>14, TreeBelow
<1>16. IsPrefix(denies[i], d)
  <2>1. IsPath(denies[i]) /\ IsPath(q) /\ IsPath(d) /\ IsPrefix(q, d)
    BY <1>6, <1>14, KnownPaths DEF IsStrictPrefix
  <2>2. QED
    BY <1>13, <2>1, PrefixTransitive
<1>17. QED
  BY <1>15, <1>16

\* The first loop over the denies.
LEMMA StillScan ==
  ASSUME CalmPre, ScanDeny
  PROVE  StillInv' /\ KeepInv'
<1>0. /\ TypeInv /\ LoopInv /\ OrderInv /\ SealInv /\ WidthInv
      /\ TreeInv /\ FitInv /\ MaskInv /\ SettledInv /\ CoverInv /\ ShownInv /\ KeepInv
  BY DEF CalmPre, StillInv, WideInv
<1> DEFINE d == denies[cursor + 1]
           anchor == IF kind[d] = "absent" THEN Anchor(d) ELSE {}
<1>1. /\ phase = "scan" /\ phase' = phase /\ cursor' = cursor + 1 /\ cursor \in Nat
      /\ seals' = seals \cup anchor
      /\ maskable' = (IF anchor # {} THEN maskable \cup {d} ELSE maskable)
      /\ blocked' = (IF \E q \in Above(d) : kind[q] = "file" THEN blocked \cup {d} ELSE blocked)
      /\ UNCHANGED <<kind, host, denies, base, emitted, sealed, overlays>>
  BY <1>0 DEF ScanDeny, configVars, TypeInv
<1>2. d \in Paths /\ cursor + 1 \in DOMAIN denies
  BY <1>0, CursorDeny DEF ScanDeny
<1>3. /\ sealed = {} /\ overlays = <<>> /\ DOMAIN overlays = {}
      /\ \A p : Governing(overlays, p) = 0 /\ View(overlays, p) = "root"
  BY <1>0, <1>1, NoOverlays DEF LoopInv
<1>4. \A q \in anchor : kind[d] = "absent" /\ kind[q] = "dir" /\ Masks(q, d)
  <2>1. TypeInv
    BY <1>0
  <2>2. \A q \in anchor : kind[d] = "absent" /\ q \in Anchor(d)
    OBVIOUS
  <2>3. QED
    BY <1>2, <2>1, <2>2, AnchorBound DEF Masks
<1>5. TreeInv' /\ FitInv' /\ CoverInv'
  BY <1>0, <1>1 DEF TreeInv, FitInv, Fits, CoverInv
<1>6. ShownInv' /\ KeepInv'
  BY <1>1, <1>3 DEF ShownInv, KeepInv
<1> DEFINE Now(e) ==
             \/ Exists(e) \/ e \in maskable' \/ e \in blocked'
             \/ View(emitted, e) # "bind"
             \/ \E i \in DOMAIN denies : IsPrefix(denies[i], e) /\ Exists(denies[i])
<1>7. SettledInv'
  <2>1. Now(d)
    <3>1. CASE Exists(d) \/ anchor # {} \/ \E q \in Above(d) : kind[q] = "file"
      <4>1. CASE Exists(d)
        BY <4>1
      <4>2. CASE anchor # {}
        BY <1>1, <4>2
      <4>3. CASE \E q \in Above(d) : kind[q] = "file"
        BY <1>1, <4>3
      <4>4. QED
        BY <3>1, <4>1, <4>2, <4>3
    <3>2. CASE ~ Exists(d) /\ anchor = {} /\ \A q \in Above(d) : kind[q] # "file"
      <4>1. Anchor(d) = {} /\ TypeInv /\ TreeInv /\ FitInv
        BY <1>0, <3>2 DEF Exists
      <4>2. QED
        BY <1>2, <3>2, <4>1, ScanSettles
    <3>3. QED
      BY <3>1, <3>2
  <2>2. ASSUME NEW j \in DOMAIN denies, j <= cursor + 1 PROVE Now(denies[j])
    <3>1. j \in Nat
      BY <1>0, MountsListed
    <3>2. j = cursor + 1 \/ j <= cursor
      BY <1>1, <2>2, <3>1
    <3>3. CASE j = cursor + 1
      BY <2>1, <3>3
    <3>4. CASE j <= cursor
      <4>1. Settled(denies[j])
        BY <1>0, <1>1, <3>4 DEF SettledInv
      <4>2. QED
        BY <1>1, <4>1 DEF Settled
    <3>5. QED
      BY <3>2, <3>3, <3>4
  <2>3. QED
    BY <1>1, <2>2 DEF SettledInv, Settled, Exists
<1> HIDE DEF anchor, d
<1>8. MaskInv'
  <2>1. \A q \in seals' \cup sealed' : kind'[q] = "dir"
    BY <1>0, <1>1, <1>4 DEF MaskInv
  <2>2. \A x \in maskable' : \E q \in seals' \cup sealed' : Masks(q, x)
    <3>1. \A x \in maskable : \E q \in seals \cup sealed : Masks(q, x)
      BY <1>0 DEF MaskInv
    <3>2. QED
      BY <1>1, <1>4, <3>1
  <2>3. QED
    BY <1>1, <1>3, <2>1, <2>2 DEF MaskInv, Masks
<1>9. QED
  BY <1>5, <1>6, <1>7, <1>8 DEF StillInv

\* A seal hides what is missing below it, and hands back what is there.
LEMMA StillSeal ==
  ASSUME CalmPre, NEW dir \in Paths, Seal(dir)
  PROVE  StillInv' /\ KeepInv'
<1>0. /\ TypeInv /\ LoopInv /\ OrderInv /\ SealInv /\ WidthInv
      /\ TreeInv /\ FitInv /\ MaskInv /\ SettledInv /\ CoverInv /\ ShownInv /\ KeepInv
  BY DEF CalmPre, StillInv, WideInv
<1> DEFINE S == SealOf(dir)
<1>1. /\ phase = "seal" /\ phase' = phase
      /\ dir \in seals /\ \A r \in seals : Len(dir) <= Len(r)
      /\ seals' = seals \ {dir} /\ sealed' = sealed \cup {dir}
      /\ overlays' = overlays \o S
      /\ UNCHANGED <<kind, host, denies, base, emitted, maskable, blocked>>
  BY DEF Seal, configVars
<1>2. TypeInv /\ FitInv /\ MaskInv
  BY <1>0
<1>3. /\ IsPath(overlays) /\ IsPath(S) /\ IsPath(overlays')
      /\ \A p : /\ View(overlays', p) = IF Governing(S, p) = 0 THEN View(overlays, p) ELSE View(S, p)
                /\ Governing(S, p) = 0 => Governing(overlays', p) = Governing(overlays, p)
  BY <1>1, <1>2, SealAppended
<1>4. \A p \in Paths : ~ IsPrefix(dir, p) => Governing(S, p) = 0
  BY <1>2, SealElsewhere
<1>5. \A i \in 1..Len(S) : Fits(S[i]) /\ Exists(S[i].at)
  BY <1>1, <1>2, SealFits
<1>6. \A x \in Paths : Masks(dir, x) => Governing(S, x) # 0 /\ View(S, x) = "tmpfs"
  BY <1>2, SealHides
<1>7. ASSUME NEW p \in Paths, IsPrefix(dir, p),
             \A i \in 1..Len(emitted) : IsPrefix(emitted[i].at, p) => emitted[i].at \notin ToSet(denies)
      PROVE  /\ Governing(S, p) # 0
             /\ \/ View(S, p) = View(emitted, p)
                \/ /\ View(S, p) = "tmpfs"
                   /\ \A c \in Back(dir) : ~ IsPrefix(c, p)
                   /\ \A k \in Buried(dir) : ~ IsPrefix(emitted[k].at, p)
  <2>1. TypeInv /\ OrderInv /\ View(emitted, dir) = "bind"
    BY <1>0, <1>1 DEF SealInv
  <2>2. View(S, p) = "tmpfs" \/ View(S, p) = View(emitted, p)
    BY <1>7, <2>1, SealSeen
  <2>3. \A k \in Buried(dir) : emitted[k].op # "tmpfs"
    <3>1. \A k \in Buried(dir) : emitted[k].op \in {"bind", "ro-bind"}
      BY <2>1, MountsListed DEF Buried
    <3>2. QED
      BY <3>1
  <2> HIDE DEF S
  <2>4. /\ Governing(S, p) # 0
        /\ \/ /\ View(S, p) = "tmpfs"
              /\ \A c \in Back(dir) : ~ IsPrefix(c, p)
              /\ \A k \in Buried(dir) : ~ IsPrefix(emitted[k].at, p)
           \/ View(S, p) = "bind"
           \/ \E k \in Buried(dir) : View(S, p) = emitted[k].op
    BY <1>7, <2>1, SealView DEF S
  <2>5. QED
    BY <2>2, <2>3, <2>4
<1> HIDE DEF S
<1>8. /\ Len(overlays) \in Nat /\ Len(S) \in Nat /\ DOMAIN overlays = 1..Len(overlays)
      /\ DOMAIN overlays' = 1..Len(overlays') /\ Len(overlays') = Len(overlays) + Len(S)
      /\ \A i \in 1..Len(overlays) : overlays'[i] = overlays[i]
      /\ \A i \in 1..Len(S) : overlays'[Len(overlays) + i] = S[i]
  BY <1>1, <1>3, ConcatPath, PathIsFunction
<1>9. ASSUME NEW i \in DOMAIN overlays'
      PROVE  \/ i \in 1..Len(overlays) /\ overlays'[i] = overlays[i]
             \/ \E j \in 1..Len(S) : overlays'[i] = S[j]
  <2>1. \/ i \in 1..Len(overlays)
        \/ i - Len(overlays) \in 1..Len(S) /\ i = Len(overlays) + (i - Len(overlays))
    BY <1>8
  <2>2. QED
    BY <1>8, <2>1
<1>10. TreeInv' /\ SettledInv' /\ CoverInv'
  BY <1>0, <1>1 DEF TreeInv, SettledInv, Settled, Exists, CoverInv
<1>11. FitInv'
  <2>1. \A i \in DOMAIN overlays' : Fits(overlays'[i])
    BY <1>2, <1>5, <1>8, <1>9 DEF FitInv
  <2>2. QED
    BY <1>1, <1>2, <2>1 DEF FitInv, Fits
<1>12. MaskInv'
  <2>1. \A q \in seals' \cup sealed' : kind'[q] = "dir"
    BY <1>1, <1>2 DEF MaskInv
  <2>2. \A x \in maskable' : \E q \in seals' \cup sealed' : Masks(q, x)'
    BY <1>1, <1>2 DEF MaskInv, Masks
  <2>3. \A s \in sealed', r \in seals' : Len(s) <= Len(r)
    BY <1>1, <1>2 DEF MaskInv
  <2>4. ASSUME NEW q \in sealed', NEW x \in Paths, Masks(q, x) PROVE Hides(overlays', x)
    <3>1. CASE Governing(S, x) = 0
      <4>1. q # dir
        BY <1>6, <2>4, <3>1
      <4>2. Hides(overlays, x)
        BY <1>1, <1>2, <2>4, <4>1 DEF MaskInv
      <4>3. QED
        BY <1>3, <3>1, <4>2 DEF Hides
    <3>2. CASE Governing(S, x) # 0
      <4>1. IsPrefix(dir, x)
        BY <1>4, <3>2
      <4>2. kind[dir] = "dir" /\ q \in Paths
        BY <1>1, <1>2, <2>4 DEF MaskInv, TypeInv
      <4>3. dir \in Above(x) /\ kind[x] = "absent"
        BY <2>4, <4>1, <4>2 DEF Masks, Above, IsStrictPrefix
      <4>4. Len(dir) <= Len(q)
        <5>1. ~ (Len(dir) > Len(q))
          BY <2>4, <4>2, <4>3 DEF Masks
        <5>2. Len(dir) \in Nat /\ Len(q) \in Nat
          BY <4>2, KnownPaths
        <5>3. QED
          BY <5>1, <5>2
      <4>5. Len(q) <= Len(dir)
        <5>1. q = dir \/ Len(q) <= Len(dir)
          BY <1>1, <1>2, <2>4 DEF MaskInv
        <5>2. Len(dir) \in Nat
          BY KnownPaths
        <5>3. QED
          BY <5>1, <5>2
      <4>6. IsPrefix(q, x)
        BY <2>4 DEF Masks, Above, IsStrictPrefix
      <4>7. q = dir
        <5>1. /\ IsPath(dir) /\ IsPath(q) /\ IsPath(x) /\ Len(dir) \in Nat /\ Len(q) \in Nat
          BY <4>2, KnownPaths
        <5>2. /\ \A i \in 1..Len(q) : q[i] = x[i]
              /\ \A i \in 1..Len(dir) : dir[i] = x[i]
          BY <4>1, <4>6, <5>1, PrefixMeans
        <5>3. Len(q) = Len(dir)
          BY <4>4, <4>5, <5>1
        <5>4. QED
          BY <5>1, <5>2, <5>3, PathsEqual
      <4>8. QED
        BY <1>3, <1>6, <2>4, <4>7 DEF Hides
    <3>3. QED
      BY <3>1, <3>2
  <2>5. ASSUME NEW i \in DOMAIN overlays', kind[overlays'[i].at] = "absent"
        PROVE  Hides(SubSeq(overlays', 1, i - 1), overlays'[i].at)
    <3>1. i \in 1..Len(overlays) /\ overlays'[i] = overlays[i]
      BY <1>5, <1>9, <2>5 DEF Exists
    <3>2. Hides(SubSeq(overlays, 1, i - 1), overlays[i].at)
      BY <1>2, <1>8, <2>5, <3>1 DEF MaskInv
    <3> DEFINE n == i - 1
    <3>3. n \in Nat /\ n <= Len(overlays) /\ IsPath(overlays) /\ IsPath(S)
      BY <1>3, <1>8, <3>1
    <3> HIDE DEF n
    <3>4. SubSeq(overlays \o S, 1, n) = SubSeq(overlays, 1, n)
      BY <3>3, BeginsConcat
    <3>5. QED
      BY <1>1, <3>1, <3>2, <3>4 DEF n
  <2>6. QED
    BY <1>1, <2>1, <2>2, <2>3, <2>4, <2>5 DEF MaskInv, Masks
<1>13. ShownInv'
  <2> SUFFICES ASSUME NEW p \in Paths, View(overlays', p) = "bind",
                      ~ \E i \in DOMAIN denies : IsPrefix(denies[i], p) /\ Exists(denies[i])
               PROVE  View(emitted, p) = "bind"
    BY <1>1 DEF ShownInv, Exists
  <2>1. CASE Governing(S, p) = 0
    BY <1>0, <1>3, <2>1 DEF ShownInv
  <2>2. CASE Governing(S, p) # 0
    <3>1. IsPrefix(dir, p)
      BY <1>4, <2>2
    <3>2. ASSUME NEW i \in 1..Len(emitted), IsPrefix(emitted[i].at, p)
          PROVE  emitted[i].at \notin ToSet(denies)
      <4>1. Exists(emitted[i].at)
        BY <1>2, MountsListed DEF FitInv, Exists
      <4>2. QED
        BY <3>2, <4>1 DEF ToSet
    <3>3. View(S, p) = "bind" => View(emitted, p) = "bind"
      BY <1>7, <3>1, <3>2
    <3>4. QED
      BY <1>3, <2>2, <3>3
  <2>3. QED
    BY <2>1, <2>2
<1>14. KeepInv'
  <2> SUFFICES ASSUME NEW p \in Paths, Exists(p), ~ Denied(p), p \notin sealed, p # dir
               PROVE  Governing(overlays', p) = 0 \/ View(overlays', p) = View(emitted, p)
    BY <1>1 DEF KeepInv, Exists, Denied
  <2>1. CASE ~ IsPrefix(dir, p)
    BY <1>0, <1>3, <1>4, <2>1 DEF KeepInv
  <2>2. CASE IsPrefix(dir, p)
    <3>1. \A i \in 1..Len(emitted) : IsPrefix(emitted[i].at, p) => emitted[i].at \notin ToSet(denies)
      BY DEF Denied, ToSet
    <3>2. PICK c \in Paths : IsPrefix(c, p) /\ IsStrictPrefix(dir, c) /\ Front(c) = dir
      BY <2>2, ChildBetween DEF IsStrictPrefix
    <3>3. kind[c] # "absent" /\ Above(c) # {} /\ c \notin ToSet(denies)
      <4>1. kind[c] # "absent"
        BY <1>0, <3>2, TreeBelow DEF Exists
      <4>2. dir \in Above(c)
        BY <3>2 DEF Above
      <4>3. c \notin ToSet(denies)
        BY <3>2 DEF Denied, ToSet
      <4>4. QED
        BY <4>1, <4>2, <4>3
    <3>4. c \in Back(dir) \/ \E k \in Buried(dir) : emitted[k].at = c
      BY <3>2, <3>3 DEF Back
    <3>5. Governing(S, p) # 0 /\ View(S, p) = View(emitted, p)
      <4>1. ~ ((\A x \in Back(dir) : ~ IsPrefix(x, p))
               /\ \A k \in Buried(dir) : ~ IsPrefix(emitted[k].at, p))
        BY <3>2, <3>4
      <4>2. QED
        BY <1>7, <2>2, <3>1, <4>1
    <3>6. QED
      BY <1>3, <3>5
  <2>3. QED
    BY <2>1, <2>2
<1>15. QED
  BY <1>10, <1>11, <1>12, <1>13, <1>14 DEF StillInv

\* The second loop over the denies.
LEMMA StillOverlay ==
  ASSUME CalmPre, OverlayDeny
  PROVE  StillInv' /\ KeepInv'
<1>0. /\ TypeInv /\ LoopInv /\ OrderInv /\ SealInv /\ WidthInv
      /\ TreeInv /\ FitInv /\ MaskInv /\ SettledInv /\ CoverInv /\ ShownInv /\ KeepInv
  BY DEF CalmPre, StillInv, WideInv
<1> DEFINE d == denies[cursor + 1]
<1>1. /\ phase = "overlay" /\ phase' = phase /\ cursor' = cursor + 1 /\ cursor \in Nat
      /\ overlays' = overlays \o OverlayOf(d)
      /\ UNCHANGED <<kind, host, denies, base, emitted, maskable, seals, sealed, blocked>>
  BY <1>0 DEF OverlayDeny, configVars, TypeInv
<1>2. d \in Paths /\ cursor + 1 \in DOMAIN denies
  BY <1>0, CursorDeny DEF OverlayDeny
<1>3. TreeInv' /\ SettledInv'
  BY <1>0, <1>1 DEF TreeInv, SettledInv, Settled, Exists
<1> HIDE DEF d
<1>4. \/ overlays' = overlays /\ kind[d] = "absent" /\ d \notin maskable
      \/ \E op \in {"tmpfs", "null"} :
           /\ overlays' = overlays \o <<Mount(op, d)>>
           /\ op = "tmpfs" => kind[d] = "dir" \/ (kind[d] = "absent" /\ d \notin FileLeaves)
           /\ op = "null" => kind[d] = "file" \/ (kind[d] = "absent" /\ d \in FileLeaves)
           /\ kind[d] # "absent" \/ d \in maskable
  <2>1. overlays \o <<>> = overlays
    BY <1>0 DEF TypeInv
  <2>2. \/ OverlayOf(d) = <<>> /\ kind[d] = "absent" /\ d \notin maskable
        \/ \E op \in {"tmpfs", "null"} :
             /\ OverlayOf(d) = <<Mount(op, d)>>
             /\ op = "tmpfs" => kind[d] = "dir" \/ (kind[d] = "absent" /\ d \notin FileLeaves)
             /\ op = "null" => kind[d] = "file" \/ (kind[d] = "absent" /\ d \in FileLeaves)
             /\ kind[d] # "absent" \/ d \in maskable
    BY <1>0, <1>2, OverlayParts
  <2>3. QED
    BY <1>1, <2>1, <2>2
<1>5. CASE overlays' = overlays /\ kind[d] = "absent" /\ d \notin maskable
  <2>1. FitInv' /\ MaskInv' /\ ShownInv' /\ KeepInv'
    BY <1>0, <1>1, <1>5 DEF FitInv, Fits, MaskInv, Masks, Hides, ShownInv, KeepInv, Exists, Denied
  <2>2. ASSUME NEW j \in DOMAIN denies, j <= cursor + 1, Exists(denies[j]) \/ denies[j] \in maskable,
               NEW p \in Paths, IsPrefix(denies[j], p)
        PROVE  Hides(overlays, p)
    <3>1. j # cursor + 1
      BY <1>5, <2>2 DEF d, Exists
    <3>2. j <= cursor
      BY <1>0, <1>1, <2>2, <3>1, MountsListed
    <3>3. QED
      BY <1>0, <1>1, <2>2, <3>2 DEF CoverInv
  <2>3. CoverInv'
    BY <1>1, <1>5, <2>2 DEF CoverInv, Exists, Hides
  <2>4. QED
    BY <1>3, <2>1, <2>3 DEF StillInv
<1>6. ASSUME NEW op \in {"tmpfs", "null"},
             overlays' = overlays \o <<Mount(op, d)>>,
             op = "tmpfs" => kind[d] = "dir" \/ (kind[d] = "absent" /\ d \notin FileLeaves),
             op = "null" => kind[d] = "file" \/ (kind[d] = "absent" /\ d \in FileLeaves),
             kind[d] # "absent" \/ d \in maskable
      PROVE  StillInv' /\ KeepInv'
  <2> DEFINE m == Mount(op, d)
  <2>1. m.op = op /\ m.at = d
    BY DEF Mount
  <2>2. IsPath(overlays) /\ DOMAIN overlays = 1..Len(overlays) /\ Len(overlays) \in Nat
    BY <1>0, MountsListed
  <2>3. /\ IsPath(overlays') /\ Len(overlays') = Len(overlays) + 1
        /\ overlays'[Len(overlays) + 1] = m
        /\ \A i \in 1..Len(overlays) : overlays'[i] = overlays[i]
        /\ \A p : /\ View(overlays', p) = IF IsPrefix(d, p) THEN op ELSE View(overlays, p)
                  /\ ~ IsPrefix(d, p) => Governing(overlays', p) = Governing(overlays, p)
    <3> HIDE DEF m
    <3>1. overlays' = overlays \o <<m>>
      BY <1>6 DEF m
    <3>2. QED
      BY <2>1, <2>2, <3>1, AppendView
  <2> HIDE DEF m
  <2>4. /\ DOMAIN overlays' = 1..(Len(overlays) + 1)
        /\ \A i \in DOMAIN overlays' : i \in DOMAIN overlays \/ i = Len(overlays) + 1
    BY <2>2, <2>3, PathIsFunction
  <2>5. ASSUME kind[d] = "absent"
        PROVE  \E q \in sealed : Masks(q, d)
    <3>1. d \in maskable /\ seals = {}
      BY <1>0, <1>1, <1>6, <2>5 DEF LoopInv
    <3>2. QED
      BY <1>0, <3>1 DEF MaskInv
  <2>6. Fits(m)
    <3>1. CASE kind[d] # "absent"
      BY <1>2, <1>6, <2>1, <3>1 DEF Fits
    <3>2. CASE kind[d] = "absent"
      <4>1. PICK q \in sealed : Masks(q, d)
        BY <2>5, <3>2
      <4>2. q \in Paths /\ kind[q] = "dir" /\ IsPrefix(q, d)
        BY <1>0, <4>1 DEF TypeInv, Masks, Above, IsStrictPrefix
      <4>3. ASSUME NEW r \in Above(d) PROVE kind[r] # "file"
        <5>1. r \in Paths /\ IsPrefix(r, d)
          BY DEF Above, IsStrictPrefix
        <5>2. CASE Len(r) > Len(q)
          BY <4>1, <5>2 DEF Masks
        <5>3. CASE ~ (Len(r) > Len(q))
          <6>1. Len(r) <= Len(q)
            BY <4>2, <5>1, <5>3, KnownPaths
          <6>2. IsPrefix(r, q)
            BY <1>2, <4>2, <5>1, <6>1, AboveChain
          <6>3. Exists(q) /\ TreeInv
            BY <1>0, <4>2 DEF Exists
          <6>4. r # q => kind[r] = "dir"
            BY <4>2, <5>1, <6>2, <6>3, TreeBelow
          <6>5. QED
            BY <4>2, <6>4
        <5>4. QED
          BY <5>2, <5>3
      <4>4. QED
        BY <1>2, <1>6, <2>1, <3>2, <4>3 DEF Fits
    <3>3. QED
      BY <3>1, <3>2
  <2>7. FitInv'
    <3>1. \A i \in DOMAIN overlays' : Fits(overlays'[i])
      BY <1>0, <2>2, <2>3, <2>4, <2>6 DEF FitInv
    <3>2. QED
      BY <1>0, <1>1, <3>1 DEF FitInv, Fits
  <2>8. \A p : Hides(overlays, p) => Hides(overlays', p)
    BY <2>3 DEF Hides
  <2>9. MaskInv'
    <3>1. ASSUME NEW i \in DOMAIN overlays', kind[overlays'[i].at] = "absent"
          PROVE  Hides(SubSeq(overlays', 1, i - 1), overlays'[i].at)
      <4> DEFINE n == i - 1
      <4>1. n \in Nat /\ n <= Len(overlays) /\ IsPath(overlays)
        BY <2>2, <2>4
      <4> HIDE DEF n
      <4>2. IsPath(<<m>>)
        <5>1. <<m>> \in Seq({m})
          OBVIOUS
        <5>2. QED
          BY <5>1, SeqIsPath
      <4>3. SubSeq(overlays \o <<m>>, 1, n) = SubSeq(overlays, 1, n)
        BY <4>1, <4>2, BeginsConcat
      <4>4. SubSeq(overlays', 1, n) = SubSeq(overlays, 1, n)
        BY <1>6, <4>3 DEF m
      <4>5. CASE i \in DOMAIN overlays
        <5>1. overlays'[i] = overlays[i]
          BY <2>2, <2>3, <4>5
        <5>2. Hides(SubSeq(overlays, 1, i - 1), overlays[i].at)
          BY <1>0, <3>1, <4>5, <5>1 DEF MaskInv
        <5>3. QED
          BY <4>4, <5>1, <5>2 DEF n
      <4>6. CASE i = Len(overlays) + 1
        <5>1. overlays'[i].at = d
          BY <2>1, <2>3, <4>6
        <5>2. n = Len(overlays)
          BY <2>2, <4>6 DEF n
        <5>3. SubSeq(overlays, 1, n) = overlays
          <6>1. overlays \in Seq(ToSet(overlays))
            BY <2>2 DEF IsPath
          <6>2. QED
            BY <5>2, <6>1
        <5>4. Hides(overlays, d)
          BY <1>0, <1>2, <2>5, <3>1, <5>1 DEF MaskInv
        <5>5. QED
          BY <4>4, <5>1, <5>3, <5>4 DEF n
      <4>7. QED
        BY <2>4, <4>5, <4>6
    <3>2. \A q \in sealed, x \in Paths : Masks(q, x) => Hides(overlays', x)
      BY <1>0, <2>8 DEF MaskInv
    <3>3. /\ \A q \in seals \cup sealed : kind[q] = "dir"
          /\ \A x \in maskable : \E q \in seals \cup sealed : Masks(q, x)
          /\ \A q \in sealed, r \in seals : Len(q) <= Len(r)
      BY <1>0 DEF MaskInv
    <3>4. UNCHANGED <<kind, maskable, seals, sealed>>
      BY <1>1
    <3>5. QED
      BY <3>1, <3>2, <3>3, <3>4 DEF MaskInv, Masks
  <2>10. CoverInv'
    <3>1. ASSUME NEW j \in DOMAIN denies, j <= cursor + 1, Exists(denies[j]) \/ denies[j] \in maskable,
                 NEW p \in Paths, IsPrefix(denies[j], p)
          PROVE  Hides(overlays', p)
      <4>1. CASE j = cursor + 1
        BY <2>3, <3>1, <4>1 DEF d, Hides
      <4>2. CASE j # cursor + 1
        <5>1. j <= cursor
          BY <1>0, <1>1, <3>1, <4>2, MountsListed
        <5>2. Hides(overlays, p)
          BY <1>0, <1>1, <3>1, <5>1 DEF CoverInv
        <5>3. QED
          BY <2>8, <5>2
      <4>3. QED
        BY <4>1, <4>2
    <3>2. QED
      BY <1>1, <3>1 DEF CoverInv, Exists
  <2>11. ShownInv'
    BY <1>0, <1>1, <2>3 DEF ShownInv, Exists
  <2>12. KeepInv'
    <3>1. \A p \in Paths : ~ Denied(p) => ~ IsPrefix(d, p)
      BY <1>2 DEF Denied, d
    <3>2. QED
      BY <1>0, <1>1, <2>3, <3>1 DEF KeepInv, Exists, Denied
  <2>13. QED
    BY <1>3, <2>7, <2>9, <2>10, <2>11, <2>12 DEF StillInv
<1>7. QED
  BY <1>4, <1>5, <1>6

\* The steps that leave the plan and the host alone.
LEMMA StillFrame ==
  ASSUME CalmPre,
         UNCHANGED <<kind, host, denies, base, emitted, maskable, seals, sealed, overlays, blocked>>,
         \/ UNCHANGED <<phase, cursor>>
         \/ phase' \in {"refused", "aborted"}
         \/ NextLoop
  PROVE  StillInv' /\ KeepInv'
<1>0. /\ TypeInv /\ LoopInv /\ OrderInv /\ SealInv /\ WidthInv
      /\ TreeInv /\ FitInv /\ MaskInv /\ SettledInv /\ CoverInv /\ ShownInv /\ KeepInv
  BY DEF CalmPre, StillInv, WideInv
<1>1. TreeInv' /\ MaskInv' /\ ShownInv' /\ KeepInv'
  BY <1>0 DEF TreeInv, MaskInv, Masks, Hides, ShownInv, KeepInv, Exists, Denied
<1>2. phase' = "start" => phase = "start"
  BY DEF NextLoop
<1>3. FitInv'
  BY <1>0, <1>2 DEF FitInv, Fits
<1>4. /\ DOMAIN denies = 1..Len(denies) /\ Len(denies) \in Nat
      /\ \A j \in DOMAIN denies : j \in Nat /\ j <= Len(denies) /\ ~ (j <= 0)
  <2>1. DOMAIN denies = 1..Len(denies) /\ Len(denies) \in Nat
    BY <1>0, MountsListed
  <2>2. QED
    BY <2>1
<1>5. \/ UNCHANGED <<phase, cursor>>
      \/ phase' \in {"refused", "aborted", "reads"}
      \/ phase' = "scan" /\ cursor' = 0
      \/ phase = "scan" /\ cursor = Len(denies) /\ phase' = "seal"
      \/ phase = "seal" /\ phase' = "overlay" /\ cursor' = 0
      \/ phase = "overlay" /\ cursor = Len(denies) /\ phase' = "mount"
  BY DEF NextLoop
<1>6. \A e : Settled(e)' <=> Settled(e)
  BY DEF Settled, Exists
<1>7. SettledInv'
  <2>1. CASE UNCHANGED <<phase, cursor>>
    BY <1>0, <2>1 DEF SettledInv, Settled, Exists
  <2>2. CASE phase' \in {"refused", "aborted", "reads"}
    BY <2>2 DEF SettledInv
  <2>3. CASE phase' = "scan" /\ cursor' = 0
    BY <1>4, <2>3 DEF SettledInv
  <2>4. CASE phase = "scan" /\ cursor = Len(denies) /\ phase' = "seal"
    BY <1>0, <1>4, <2>4 DEF SettledInv, Settled, Exists
  <2>5. CASE phase = "seal" /\ phase' = "overlay" /\ cursor' = 0
    BY <1>0, <2>5 DEF SettledInv, Settled, Exists
  <2>6. CASE phase = "overlay" /\ cursor = Len(denies) /\ phase' = "mount"
    BY <1>0, <2>6 DEF SettledInv, Settled, Exists
  <2>7. QED
    BY <1>5, <2>1, <2>2, <2>3, <2>4, <2>5, <2>6
<1>8. CoverInv'
  <2>1. CASE UNCHANGED <<phase, cursor>>
    BY <1>0, <2>1 DEF CoverInv, Exists, Hides
  <2>2. CASE phase' \in {"refused", "aborted", "reads", "scan", "seal"}
    BY <2>2 DEF CoverInv
  <2>3. CASE phase' = "overlay" /\ cursor' = 0
    BY <1>4, <2>3 DEF CoverInv
  <2>4. CASE phase = "overlay" /\ cursor = Len(denies) /\ phase' = "mount"
    BY <1>0, <1>4, <2>4 DEF CoverInv, Exists, Hides
  <2>5. QED
    BY <1>5, <2>1, <2>2, <2>3, <2>4
<1>9. QED
  BY <1>1, <1>3, <1>7, <1>8 DEF StillInv

-----------------------------------------------------------------------------
(* The whole invariant.                                                    *)

\* On a host that keeps still a mount changes nothing on it, and none fails.
LEMMA MountSteps ==
  ASSUME WideInv, StillInv
  PROVE  /\ PerformMount => UNCHANGED <<kind, made>>
         /\ ~ Abort
<1>0. TypeInv /\ TreeInv /\ FitInv /\ MaskInv
  BY DEF WideInv, StillInv
<1> DEFINE m == Args[done + 1]
           here == IF OnHost(m.at) THEN KindIn(Performed, m.at) ELSE "dir"
<1>1. done < Len(Args) =>
        /\ PointKind(m) # "absent"
        /\ here = PointKind(m) \/ (here = "absent" /\ CanMake(m.at) /\ View(Performed, m.at) # "bind")
  BY <1>0, PlanPerformable
<1>2. ASSUME PerformMount PROVE UNCHANGED <<kind, made>>
  <2>1. /\ done < Len(Args) /\ PointKind(m) # "absent"
        /\ \/ here = PointKind(m) /\ UNCHANGED <<kind, made>>
           \/ /\ here = "absent"
              /\ View(Performed, m.at) # "bind" => UNCHANGED <<kind, made>>
    BY <1>2 DEF PerformMount
  <2> HIDE DEF here, m
  <2>2. QED
    BY <1>1, <2>1
<1>3. ASSUME Abort PROVE FALSE
  <2>1. /\ done < Len(Args)
        /\ \/ PointKind(m) = "absent"
           \/ here # PointKind(m) /\ ~(here = "absent" /\ CanMake(m.at))
    BY <1>3 DEF Abort
  <2> HIDE DEF here, m
  <2>2. QED
    BY <1>1, <2>1
<1>4. QED
  BY <1>2, <1>3

\* Where something is denied, once bwrap is through.
LEMMA RunHides ==
  ASSUME WideInv, StillInv, phase = "mount", NEW p \in Paths, Denied(p)
  PROVE  \/ Hides(Args, p) \/ \E d \in blocked : IsPrefix(d, p)
         \/ View(Args, p) # "bind" /\ ~ Exists(p)
<1>0. /\ TypeInv /\ TreeInv /\ FitInv /\ SettledInv /\ CoverInv /\ ShownInv
  BY DEF WideInv, StillInv
<1>1. /\ View(base \o emitted, p) = IF Governing(emitted, p) = 0 THEN View(base, p)
                                    ELSE View(emitted, p)
      /\ View(Args, p) = IF Governing(overlays, p) = 0 THEN View(base \o emitted, p)
                         ELSE View(overlays, p)
      /\ View(base, p) # "bind"
  BY <1>0, ArgsView
<1>2. ASSUME NEW i \in DOMAIN denies, IsPrefix(denies[i], p),
             Exists(denies[i]) \/ denies[i] \in maskable
      PROVE  Hides(Args, p)
  <2>1. Hides(overlays, p)
    BY <1>0, <1>2 DEF CoverInv
  <2>2. Governing(overlays, p) # 0
    BY <2>1 DEF Hides, View
  <2>3. QED
    BY <1>1, <2>1, <2>2 DEF Hides
<1>3. PICK j \in DOMAIN denies : IsPrefix(denies[j], p)
  BY DEF Denied
<1> DEFINE d == denies[j]
<1>4. d \in Paths
  BY <1>0, MountsListed
<1>5. IsPath(d) /\ IsPath(p)
  BY <1>4, KnownPaths
<1>6. Settled(d)
  BY <1>0 DEF SettledInv
<1> HIDE DEF d
<1>7. IsPrefix(d, p)
  BY <1>3 DEF d
<1>8. CASE \E i \in DOMAIN denies : IsPrefix(denies[i], p) /\ (Exists(denies[i]) \/ denies[i] \in maskable)
  BY <1>2, <1>8
<1>9. CASE d \in blocked
  BY <1>7, <1>9
<1>10. CASE /\ ~ \E i \in DOMAIN denies : IsPrefix(denies[i], p) /\ (Exists(denies[i]) \/ denies[i] \in maskable)
            /\ d \notin blocked
  <2>1. ASSUME NEW i \in DOMAIN denies, IsPrefix(denies[i], d) PROVE ~ Exists(denies[i])
    <3>1. IsPath(denies[i])
      BY <1>0, MountsListed, KnownPaths
    <3>2. IsPrefix(denies[i], p)
      BY <1>5, <1>7, <2>1, <3>1, PrefixTransitive
    <3>3. QED
      BY <1>10, <3>2
  <2>2. ~ Exists(d) /\ d \notin maskable
    BY <1>3, <1>10 DEF d
  <2>3. View(emitted, d) # "bind"
    BY <1>6, <1>10, <2>1, <2>2 DEF Settled
  <2>4. ~ Exists(p)
    BY <1>0, <1>4, <1>7, <2>2, TreeBelow
  <2>5. ASSUME View(Args, p) = "bind" PROVE FALSE
    <3>1. View(emitted, p) = "bind"
      <4>1. CASE Governing(overlays, p) = 0
        BY <1>1, <2>5, <4>1
      <4>2. CASE Governing(overlays, p) # 0
        BY <1>0, <1>1, <1>10, <2>5, <4>2 DEF ShownInv
      <4>3. QED
        BY <4>1, <4>2
    <3> DEFINE g == Governing(emitted, p)
               at == emitted[g].at
    <3>2. g # 0 /\ emitted[g].op = "bind"
      BY <3>1 DEF View
    <3>3. /\ IsPath(emitted) /\ Len(emitted) \in Nat /\ DOMAIN emitted = 1..Len(emitted)
          /\ \A i \in 1..Len(emitted) : emitted[i].at \in Paths
      BY <1>0, MountsListed
    <3>4. /\ g \in 0..Len(emitted) /\ (g # 0 => IsPrefix(at, p))
          /\ \A i \in 1..Len(emitted) : IsPrefix(emitted[i].at, p) => i <= g
      BY <3>3, GoverningMeans
    <3> HIDE DEF g
    <3>5. g \in 1..Len(emitted) /\ IsPrefix(at, p) /\ at \in Paths
      BY <3>2, <3>3, <3>4
    <3>6. Exists(at)
      BY <1>0, <3>3, <3>5 DEF FitInv, Exists
    <3> HIDE DEF at
    <3>7. IsPath(at)
      BY <3>5, KnownPaths
    <3>8. IsPrefix(at, d)
      <4>1. ~ IsPrefix(d, at)
        BY <1>0, <1>4, <2>2, <3>5, <3>6, TreeBelow
      <4>2. QED
        BY <1>5, <1>7, <3>5, <3>7, <4>1, PrefixChain
    <3>9. \A i \in 1..Len(emitted) : IsPrefix(emitted[i].at, d) => i <= g
      <4> SUFFICES ASSUME NEW i \in 1..Len(emitted), IsPrefix(emitted[i].at, d) PROVE i <= g
        OBVIOUS
      <4>1. IsPath(emitted[i].at)
        BY <3>3, KnownPaths
      <4>2. IsPrefix(emitted[i].at, p)
        BY <1>5, <1>7, <4>1, PrefixTransitive
      <4>3. QED
        BY <3>4, <4>2
    <3>10. IsPrefix(emitted[g].at, d)
      BY <3>8 DEF at
    <3>11. Governing(emitted, d) = g
      BY <3>3, <3>5, <3>9, <3>10, GoverningIs
    <3>12. QED
      BY <2>3, <3>2, <3>11 DEF View
  <2>6. QED
    BY <2>4, <2>5
<1>11. QED
  BY <1>8, <1>9, <1>10

\* The sandboxed process moves only what the config's mounts show read-write.
LEMMA ChildKeeps ==
  ASSUME WideInv, KeepInv, RunInv, NEW c \in Paths, NEW k \in Kinds,
         phase = "running", View(Args, c) = "bind",
         kind' = [kind EXCEPT ![c] = k],
         UNCHANGED <<configVars, planVars, bwrapVars>>
  PROVE  KeepInv' /\ RunInv'
<1>0. TypeInv /\ WidthInv
  BY DEF WideInv
<1>1. \A p \in Paths : p # c => kind'[p] = kind[p]
  BY <1>0 DEF TypeInv
<1>2. UNCHANGED <<denies, phase, base, emitted, sealed, overlays, blocked, Args>>
  BY DEF configVars, planVars, Args
<1>3. KeepInv'
  <2> SUFFICES ASSUME NEW p \in Paths, Exists(p)', ~ Denied(p), p \notin sealed
               PROVE  Governing(overlays, p) = 0 \/ View(overlays, p) = View(emitted, p)
    BY <1>2 DEF KeepInv, Denied
  <2>1. CASE p # c
    BY <1>1, <2>1 DEF KeepInv, Exists
  <2>2. CASE p = c
    <3>1. Governing(overlays, p) # 0 => View(overlays, p) = "bind"
      BY <1>0, <2>2, ArgsView
    <3>2. QED
      BY <1>0, <3>1 DEF WidthInv
  <2>3. QED
    BY <2>1, <2>2
<1>4. RunInv'
  <2> SUFFICES ASSUME NEW p \in Paths, Denied(p)
               PROVE  \/ Hides(Args, p) \/ \E d \in blocked : IsPrefix(d, p)
                      \/ View(Args, p) # "bind" /\ ~ Exists(p)'
    BY <1>2 DEF RunInv, Denied, Hides
  <2>1. \/ Hides(Args, p) \/ \E d \in blocked : IsPrefix(d, p)
        \/ View(Args, p) # "bind" /\ ~ Exists(p)
    BY DEF RunInv
  <2>2. View(Args, p) # "bind" => p # c
    OBVIOUS
  <2>3. QED
    BY <1>1, <2>1, <2>2 DEF Exists
<1>5. QED
  BY <1>3, <1>4

\* The invariant begins to hold.
LEMMA CalmInit == Init => CalmInv /\ RunInv
<1> SUFFICES ASSUME Init PROVE CalmInv /\ RunInv
  OBVIOUS
<1>1. /\ phase = "start" /\ made = {} /\ base = <<>> /\ emitted = <<>> /\ overlays = <<>>
      /\ maskable = {} /\ seals = {} /\ sealed = {}
      /\ \A p \in Paths : kind[p] # "absent" => \A q \in Above(p) : kind[q] = "dir"
      /\ host.tmp \in Paths => kind[host.tmp] = "dir"
  BY DEF Init
<1>2. \A p : Governing(overlays, p) = 0 /\ View(overlays, p) = "root"
  BY <1>1, NothingGoverns
<1>3. KeepInv /\ ShownInv
  BY <1>2 DEF KeepInv, ShownInv
<1>4. TreeInv /\ MaskInv /\ SettledInv /\ CoverInv
  BY <1>1 DEF TreeInv, MaskInv, SettledInv, CoverInv
<1>5. FitInv
  BY <1>1 DEF FitInv
<1>6. QED
  BY <1>1, <1>3, <1>4, <1>5 DEF CalmInv, StillInv, RunInv

\* As long as others do nothing, every step keeps it.
LEMMA CalmNext ==
  ASSUME WideInv, others = 0, CalmInv, RunInv, [Next]_vars, others' = 0
  PROVE  CalmInv' /\ RunInv'
<1>0. /\ KeepInv /\ made = {} /\ phase # "aborted"
      /\ phase # "running" => StillInv
  BY DEF CalmInv
<1>1. ASSUME phase # "running", made' = {}, phase' \notin {"running", "aborted"}, StillInv' /\ KeepInv'
      PROVE  CalmInv' /\ RunInv'
  BY <1>1 DEF CalmInv, RunInv
<1>2. phase # "running" => CalmPre
  BY <1>0 DEF CalmPre
<1>3. CASE Start
  <2>1. phase = "start" /\ phase' = "writes" /\ made' = made
    BY <1>3 DEF Start, bwrapVars
  <2>2. QED
    BY <1>0, <1>1, <1>2, <1>3, <2>1, StillStart
<1>4. CASE BindWrite \/ BindRead
  <2>1. phase \in {"writes", "reads"} /\ phase' = phase /\ made' = made
    BY <1>4 DEF BindWrite, BindRead, bwrapVars
  <2>2. QED
    BY <1>0, <1>1, <1>2, <1>4, <2>1, StillBind
<1>5. CASE ScanDeny
  <2>1. phase = "scan" /\ phase' = phase /\ made' = made
    BY <1>5 DEF ScanDeny, bwrapVars
  <2>2. QED
    BY <1>0, <1>1, <1>2, <1>5, <2>1, StillScan
<1>6. CASE \E dir \in Paths : Seal(dir)
  <2>1. phase = "seal" /\ phase' = phase /\ made' = made
    BY <1>6 DEF Seal, bwrapVars
  <2>2. QED
    BY <1>0, <1>1, <1>2, <1>6, <2>1, StillSeal
<1>7. CASE OverlayDeny
  <2>1. phase = "overlay" /\ phase' = phase /\ made' = made
    BY <1>7 DEF OverlayDeny, bwrapVars
  <2>2. QED
    BY <1>0, <1>1, <1>2, <1>7, <2>1, StillOverlay
<1>8. CASE NextLoop \/ \E dir \in Paths : RefuseSeal(dir)
  <2>1. /\ phase \in {"writes", "reads", "scan", "seal", "overlay"}
        /\ phase' \in {"reads", "scan", "seal", "overlay", "mount", "refused"} /\ made' = made
        /\ UNCHANGED <<kind, host, denies, base, emitted, maskable, seals, sealed, overlays, blocked>>
        /\ phase' = "refused" \/ NextLoop
    BY <1>8 DEF NextLoop, RefuseSeal, configVars, bwrapVars
  <2>2. StillInv' /\ KeepInv'
    BY <1>2, <2>1, StillFrame
  <2>3. QED
    BY <1>0, <1>1, <2>1, <2>2
<1>9. CASE PerformMount \/ Abort
  <2>1. phase = "mount"
    BY <1>9 DEF PerformMount, Abort
  <2>2. PerformMount /\ UNCHANGED <<kind, made>>
    BY <1>0, <1>9, <2>1, MountSteps
  <2>3. /\ UNCHANGED <<phase, cursor>>
        /\ UNCHANGED <<kind, host, denies, base, emitted, maskable, seals, sealed, overlays, blocked>>
    BY <2>2 DEF PerformMount, configVars, planVars
  <2>4. StillInv' /\ KeepInv'
    BY <1>2, <2>1, <2>3, StillFrame
  <2>5. QED
    BY <1>0, <1>1, <2>1, <2>2, <2>3, <2>4
<1>10. CASE Run
  <2>1. /\ phase = "mount" /\ phase' = "running"
        /\ UNCHANGED <<kind, denies, base, emitted, sealed, overlays, blocked, made, Args>>
    BY <1>10 DEF Run, configVars, bwrapVars, Args
  <2>2. KeepInv'
    BY <1>0, <2>1 DEF KeepInv, Exists, Denied
  <2>3. \A p \in Paths : Denied(p) =>
          \/ Hides(Args, p) \/ \E d \in blocked : IsPrefix(d, p)
          \/ View(Args, p) # "bind" /\ ~ Exists(p)
    BY <1>0, <2>1, RunHides
  <2>4. RunInv'
    BY <2>1, <2>3 DEF RunInv, Denied, Exists, Hides
  <2>5. QED
    BY <1>0, <2>1, <2>2, <2>4 DEF CalmInv
<1>11. CASE \/ \E p \in Paths, k \in {"file", "dir"} : ChildCreates(p, k)
            \/ \E p \in Paths : ChildRemoves(p)
  <2>1. PICK c \in Paths, k \in Kinds :
          /\ phase = "running" /\ View(Args, c) = "bind" /\ kind' = [kind EXCEPT ![c] = k]
          /\ UNCHANGED <<configVars, planVars, bwrapVars>>
    BY <1>11 DEF ChildCreates, ChildRemoves, Kinds
  <2>2. KeepInv' /\ RunInv'
    BY <1>0, <2>1, ChildKeeps
  <2>3. phase' = "running" /\ made' = made
    BY <2>1 DEF planVars, bwrapVars
  <2>4. QED
    BY <1>0, <2>2, <2>3 DEF CalmInv
<1>12. CASE \/ \E p \in Paths, k \in {"file", "dir"} : OtherCreates(p, k)
            \/ \E p \in Paths : OtherRemoves(p)
  <2>1. others' = others + 1
    BY <1>12 DEF OtherCreates, OtherRemoves
  <2>2. QED
    BY <2>1
<1>13. CASE UNCHANGED vars
  <2>1. /\ UNCHANGED <<kind, host, denies, base, emitted, maskable, seals, sealed, overlays, blocked>>
        /\ UNCHANGED <<phase, cursor, made, Args>>
    BY <1>13 DEF vars, configVars, planVars, bwrapVars, Args
  <2>2. KeepInv' /\ RunInv'
    BY <1>0, <2>1 DEF KeepInv, RunInv, Exists, Denied, Hides
  <2>3. CASE phase = "running"
    BY <1>0, <2>1, <2>2, <2>3 DEF CalmInv
  <2>4. CASE phase # "running"
    <3>1. StillInv'
      BY <1>2, <2>1, <2>4, StillFrame
    <3>2. QED
      BY <1>0, <2>1, <2>2, <3>1 DEF CalmInv
  <2>5. QED
    BY <2>3, <2>4
<1>14. QED
  BY <1>3, <1>4, <1>5, <1>6, <1>7, <1>8, <1>9, <1>10, <1>11, <1>12, <1>13 DEF Next

\* The inductive invariant holds in every state.
THEOREM LinuxInvariance == Spec => []IInv
<1>1. Init => IInv
  BY WideInit, CalmInit DEF IInv
<1>2. IInv /\ [Next]_vars => IInv'
  <2> SUFFICES ASSUME IInv, [Next]_vars PROVE IInv'
    OBVIOUS
  <2>1. WideInv
    BY DEF IInv
  <2>2. WideInv'
    BY <2>1, WideNext
  <2>3. ASSUME others' = 0 PROVE others = 0
    <3>1. others' = others \/ others' = others + 1
      BY DEF Next, Start, BindWrite, BindRead, ScanDeny, OverlayDeny, NextLoop, Seal, RefuseSeal,
             PerformMount, Abort, Run, OtherCreates, ChildCreates, OtherRemoves, ChildRemoves,
             vars, countVars
    <3>2. others \in Nat
      BY <2>1 DEF WideInv, TypeInv
    <3>3. QED
      BY <2>3, <3>1, <3>2
  <2>4. others' = 0 => CalmInv' /\ RunInv'
    BY <2>1, <2>3, CalmNext DEF IInv
  <2>5. QED
    BY <2>2, <2>4 DEF IInv
<1>3. QED
  BY <1>1, <1>2, PTL DEF Spec

\* What it comes to.
LEMMA InvariantMeans ==
  IInv /\ HeldInv => DeniesHold /\ HostUntouched /\ SealsKeepContents /\ PlansCanBeMounted
<1> SUFFICES ASSUME IInv, HeldInv PROVE DeniesHold /\ HostUntouched /\ SealsKeepContents /\ PlansCanBeMounted
  OBVIOUS
<1>0. TypeInv /\ (others = 0 => KeepInv /\ RunInv /\ made = {} /\ phase # "aborted")
  BY DEF IInv, WideInv, CalmInv
<1>1. HostUntouched /\ PlansCanBeMounted
  BY <1>0 DEF HostUntouched, PlansCanBeMounted
<1>2. DeniesHold
  <2> SUFFICES ASSUME phase = "running", NEW p \in Paths, Denied(p), ShowsHost(p),
                      others > 0 => Overlaid(p)
               PROVE  \E d \in blocked : IsPrefix(d, p)
    BY DEF DeniesHold
  <2>1. View(Args, p) \in {"bind", "ro-bind"} /\ Exists(p)
    BY DEF ShowsHost, Exists
  <2>2. CASE others = 0
    BY <1>0, <2>1, <2>2 DEF RunInv, Hides
  <2>3. CASE others # 0
    <3>1. Hides(overlays, p)
      BY <1>0, <2>3 DEF HeldInv, TypeInv
    <3>2. Governing(overlays, p) # 0
      BY <3>1 DEF Hides, View
    <3>3. QED
      BY <1>0, <2>1, <3>1, <3>2, ArgsView DEF Hides
  <2>4. QED
    BY <2>2, <2>3
<1>3. SealsKeepContents
  <2> SUFFICES ASSUME others = 0, NEW p \in Paths, Exists(p), ~ Denied(p), p \notin sealed
               PROVE  View(Args, p) = View(base \o emitted, p)
    BY DEF SealsKeepContents, Exists
  <2>1. Governing(overlays, p) = 0 \/ View(overlays, p) = View(emitted, p)
    BY <1>0 DEF KeepInv
  <2>2. /\ View(base \o emitted, p) = IF Governing(emitted, p) = 0 THEN View(base, p)
                                      ELSE View(emitted, p)
        /\ View(Args, p) = IF Governing(overlays, p) = 0 THEN View(base \o emitted, p)
                           ELSE View(overlays, p)
    BY <1>0, ArgsView
  <2>3. CASE Governing(overlays, p) = 0
    BY <2>2, <2>3
  <2>4. CASE Governing(overlays, p) # 0
    <3>1. View(overlays, p) # "root"
      <4>1. Governing(overlays, p) \in 1..Len(overlays)
        <5>1. Governing(overlays, p) \in 0..Len(overlays) /\ Len(overlays) \in Nat
          BY <1>0, MountsListed, GoverningMeans
        <5>2. QED
          BY <2>4, <5>1
      <4>2. overlays[Governing(overlays, p)].op \in Ops
        BY <1>0, <4>1, MountsListed
      <4>3. QED
        BY <2>4, <4>2 DEF View, Ops
    <3>2. Governing(emitted, p) # 0
      BY <2>1, <2>4, <3>1 DEF View
    <3>3. QED
      BY <2>1, <2>2, <2>4, <3>2
  <2>5. QED
    BY <2>3, <2>4
<1>4. QED
  BY <1>1, <1>2, <1>3

\* Nothing of the host shows at a denied path, before or after the sandboxed process
\* has created and removed what it can; nor, where there is an overlay, whatever
\* others do (DeniesHold).
THEOREM DeniedIsOutOfReach == Spec => []DeniesHold
<1>1. QED
  BY LinuxInvariance, OverlaysHold, InvariantMeans, PTL

\* bwrap creates no mount point through a read-write bind (HostUntouched).
THEOREM HostIsUntouched == Spec => []HostUntouched
<1>1. QED
  BY LinuxInvariance, OverlaysHold, InvariantMeans, PTL

\* What a seal covers is seen as the config's mounts alone would show it
\* (SealsKeepContents).
THEOREM SealsAreNotSeen == Spec => []SealsKeepContents
<1>1. QED
  BY LinuxInvariance, OverlaysHold, InvariantMeans, PTL

\* Every mount of every plan finds its source and its mount point
\* (PlansCanBeMounted).
THEOREM EveryPlanMounts == Spec => []PlansCanBeMounted
<1>1. QED
  BY LinuxInvariance, OverlaysHold, InvariantMeans, PTL

=============================================================================
