-------------------------- MODULE PathAdapters_proofs --------------------------
(* Proofs about PathAdapters: for any paths, configs, commands, system      *)
(* directories and links, what the generated rules and the ACEs come to.    *)
EXTENDS PathAdapters, TLAPS, SequenceTheorems

-----------------------------------------------------------------------------
(* Paths and their prefixes.                                               *)

\* Every sequence is a path.
LEMMA SeqIsPath ==
  ASSUME NEW S, NEW u \in Seq(S)
  PROVE  IsPath(u)
<1>1. u \in Seq(Range(u))
  BY SeqOfRange
<1>2. QED
  BY <1>1 DEF Range, ToSet, IsPath

\* A path is a function on the indices up to its length.
LEMMA PathIsFunction ==
  ASSUME NEW p, IsPath(p)
  PROVE  Len(p) \in Nat /\ DOMAIN p = 1..Len(p) /\ p = [i \in 1..Len(p) |-> p[i]]
BY DEF IsPath

\* A prefix agrees with the path at each of its indices.
LEMMA PrefixMeans ==
  ASSUME NEW s, NEW t, IsPath(s), IsPath(t)
  PROVE  IsPrefix(s, t) <=> Len(s) <= Len(t) /\ \A i \in 1..Len(s) : s[i] = t[i]
<1>1. s \in Seq(ToSet(s)) /\ t \in Seq(ToSet(t)) /\ Len(s) \in Nat /\ Len(t) \in Nat
  BY DEF IsPath
<1>2. SubSeq(s, 1, Len(s)) = [i \in 1..Len(s) |-> s[i]]
  BY <1>1
<1>3. Len(s) <= Len(t) => SubSeq(t, 1, Len(s)) = [i \in 1..Len(s) |-> t[i]]
  BY <1>1
<1>4. QED
  BY <1>2, <1>3 DEF IsPrefix

\* What is where in two paths, one after the other.
LEMMA ConcatPath ==
  ASSUME NEW s, NEW t, IsPath(s), IsPath(t)
  PROVE  /\ IsPath(s \o t) /\ Len(s \o t) = Len(s) + Len(t)
         /\ \A i \in 1..Len(s) : (s \o t)[i] = s[i]
         /\ \A i \in 1..Len(t) : (s \o t)[Len(s) + i] = t[i]
<1> DEFINE S == ToSet(s) \cup ToSet(t)
<1>1. s \in Seq(S) /\ t \in Seq(S)
  BY SeqMonotonic DEF IsPath
<1>2. /\ s \o t \in Seq(S) /\ Len(s \o t) = Len(s) + Len(t)
      /\ \A i \in 1..Len(s) : (s \o t)[i] = s[i]
      /\ \A i \in 1..Len(t) : (s \o t)[Len(s) + i] = t[i]
  BY <1>1
<1> HIDE DEF S
<1>3. IsPath(s \o t)
  BY <1>2, SeqIsPath
<1>4. QED
  BY <1>2, <1>3

\* A prefix of a prefix of a path is a prefix of the path.
LEMMA PrefixTransitive ==
  ASSUME NEW s, NEW t, NEW u, IsPath(s), IsPath(t), IsPath(u), IsPrefix(s, t), IsPrefix(t, u)
  PROVE  IsPrefix(s, u)
<1>1. Len(s) <= Len(t) /\ Len(t) <= Len(u) /\ Len(s) \in Nat /\ Len(t) \in Nat /\ Len(u) \in Nat
  BY PrefixMeans, PathIsFunction
<1>2. \A i \in 1..Len(s) : s[i] = u[i]
  BY <1>1, PrefixMeans
<1>3. QED
  BY <1>1, <1>2, PrefixMeans

\* Two prefixes of a path are prefixes of one another.
LEMMA PrefixChain ==
  ASSUME NEW s, NEW t, NEW u, IsPath(s), IsPath(t), IsPath(u), IsPrefix(s, u), IsPrefix(t, u)
  PROVE  IsPrefix(s, t) \/ IsPrefix(t, s)
<1>1. /\ Len(s) \in Nat /\ Len(t) \in Nat /\ Len(u) \in Nat
      /\ \A i \in 1..Len(s) : s[i] = u[i]
      /\ \A i \in 1..Len(t) : t[i] = u[i]
  BY PrefixMeans, PathIsFunction
<1>2. QED
  BY <1>1, PrefixMeans

\* The same path before two others keeps one a prefix of the other.
LEMMA PrefixConcat ==
  ASSUME NEW s, NEW t, NEW u, IsPath(s), IsPath(t), IsPath(u)
  PROVE  /\ IsPrefix(u, u \o s)
         /\ IsPrefix(s, t) => IsPrefix(u \o s, u \o t)
<1> DEFINE us == u \o s
           ut == u \o t
<1>1. Len(s) \in Nat /\ Len(t) \in Nat /\ Len(u) \in Nat
  BY PathIsFunction
<1>2. /\ IsPath(us) /\ IsPath(ut)
      /\ Len(us) = Len(u) + Len(s) /\ Len(ut) = Len(u) + Len(t)
  BY ConcatPath
<1>3. /\ \A i \in 1..Len(u) : us[i] = u[i] /\ ut[i] = u[i]
      /\ \A i \in 1..Len(s) : us[Len(u) + i] = s[i]
      /\ \A i \in 1..Len(t) : ut[Len(u) + i] = t[i]
  BY ConcatPath
<1> HIDE DEF us, ut
<1>4. IsPrefix(u, us)
  BY <1>1, <1>2, <1>3, PrefixMeans
<1>5. ASSUME IsPrefix(s, t) PROVE IsPrefix(us, ut)
  <2>1. Len(s) <= Len(t) /\ \A i \in 1..Len(s) : s[i] = t[i]
    BY <1>5, PrefixMeans
  <2>2. ASSUME NEW i \in 1..Len(us) PROVE us[i] = ut[i]
    <3>1. CASE i <= Len(u)
      BY <1>1, <1>2, <1>3, <3>1
    <3>2. CASE i > Len(u)
      <4>1. i - Len(u) \in 1..Len(s) /\ i = Len(u) + (i - Len(u))
        BY <1>1, <1>2, <3>2
      <4>2. us[i] = s[i - Len(u)] /\ ut[i] = t[i - Len(u)]
        BY <1>1, <1>3, <2>1, <4>1
      <4>3. QED
        BY <2>1, <4>1, <4>2
    <3>3. QED
      BY <1>1, <1>2, <3>1, <3>2
  <2>3. QED
    BY <1>1, <1>2, <2>1, <2>2, PrefixMeans
<1>6. QED
  BY <1>4, <1>5 DEF us, ut

\* UpTo gives the non-empty prefixes.
LEMMA UpToMeans ==
  ASSUME NEW p, IsPath(p)
  PROVE  /\ \A q \in UpTo(p) : IsPath(q) /\ IsPrefix(q, p)
         /\ \A q : IsPath(q) /\ q # <<>> /\ IsPrefix(q, p) => q \in UpTo(p)
<1>1. p \in Seq(ToSet(p)) /\ Len(p) \in Nat
  BY DEF IsPath
<1>2. ASSUME NEW n \in 1..Len(p) PROVE IsPath(SubSeq(p, 1, n)) /\ IsPrefix(SubSeq(p, 1, n), p)
  <2> DEFINE q == SubSeq(p, 1, n)
  <2>1. q \in Seq(ToSet(p)) /\ Len(q) = n /\ \A i \in 1..n : q[i] = p[i]
    BY <1>1
  <2> HIDE DEF q
  <2>2. IsPath(q)
    BY <2>1, SeqIsPath
  <2>3. IsPrefix(q, p)
    BY <1>1, <2>1, <2>2, PrefixMeans
  <2>4. QED
    BY <2>2, <2>3 DEF q
<1>3. ASSUME NEW q, IsPath(q), q # <<>>, IsPrefix(q, p) PROVE q \in UpTo(p)
  <2>1. Len(q) \in 1..Len(p)
    BY <1>1, <1>3 DEF IsPath, IsPrefix
  <2>2. q = SubSeq(p, 1, Len(q))
    BY <1>1, <1>3 DEF IsPath, IsPrefix
  <2>3. QED
    BY <2>1, <2>2 DEF UpTo
<1>4. QED
  BY <1>2, <1>3 DEF UpTo

-----------------------------------------------------------------------------
(* Lists of rules.                                                         *)

\* No rule of the list says anything of the path.
Silent(rules, op, p) == \A i \in DOMAIN rules : ~ Matches(rules[i], op, p)

\* Of two lists the second decides, unless it is silent.
LEMMA LaterDecides ==
  ASSUME NEW A, NEW B, IsPath(A), IsPath(B), NEW op, NEW p
  PROVE  /\ IsPath(A \o B)
         /\ Silent(A \o B, op, p) <=> Silent(A, op, p) /\ Silent(B, op, p)
         /\ Allows(A \o B, op, p) <=>
              Allows(B, op, p) \/ (Silent(B, op, p) /\ Allows(A, op, p))
<1> DEFINE C == A \o B
           m == Len(A)
           n == Len(B)
           MA(i) == Matches(A[i], op, p)
           MB(i) == Matches(B[i], op, p)
           MC(i) == Matches(C[i], op, p)
<1>1. m \in Nat /\ n \in Nat /\ DOMAIN A = 1..m /\ DOMAIN B = 1..n
  BY PathIsFunction
<1>2. /\ IsPath(C) /\ Len(C) = m + n
      /\ \A i \in 1..m : C[i] = A[i]
      /\ \A i \in 1..n : C[m + i] = B[i]
  BY ConcatPath
<1>3. DOMAIN C = 1..(m + n)
  BY <1>2, PathIsFunction
<1> HIDE DEF C, m, n
<1>4. /\ \A i \in 1..m : MC(i) = MA(i)
      /\ \A i \in 1..n : MC(m + i) = MB(i)
  BY <1>2
<1>5. \A i \in 1..(m + n) : i \in 1..m \/ (i - m \in 1..n /\ i = m + (i - m))
  BY <1>1
<1>6. \A i \in 1..m : i \in 1..(m + n)
  BY <1>1
<1>7. \A i \in 1..n : m + i \in 1..(m + n)
  BY <1>1
<1>8. Silent(C, op, p) <=> Silent(A, op, p) /\ Silent(B, op, p)
  BY <1>1, <1>3, <1>4, <1>5, <1>6, <1>7 DEF Silent
<1>9. Allows(B, op, p) => Allows(C, op, p)
  <2> SUFFICES ASSUME NEW i \in 1..n, B[i].allow, MB(i), \A j \in (i + 1)..n : ~ MB(j)
               PROVE  Allows(C, op, p)
    BY <1>1 DEF Allows, n
  <2>1. m + i \in 1..(m + n) /\ C[m + i].allow /\ MC(m + i)
    BY <1>2, <1>4, <1>7
  <2>2. ASSUME NEW j \in (m + i + 1)..(m + n) PROVE ~ MC(j)
    <3>1. j - m \in (i + 1)..n /\ j - m \in 1..n /\ j = m + (j - m)
      BY <1>1
    <3>2. QED
      BY <1>4, <3>1
  <2>3. QED
    BY <1>2, <1>3, <2>1, <2>2 DEF Allows
<1>10. Silent(B, op, p) /\ Allows(A, op, p) => Allows(C, op, p)
  <2> SUFFICES ASSUME Silent(B, op, p), NEW i \in 1..m, A[i].allow, MA(i),
                      \A j \in (i + 1)..m : ~ MA(j)
               PROVE  Allows(C, op, p)
    BY <1>1 DEF Allows, m
  <2>1. i \in 1..(m + n) /\ C[i].allow /\ MC(i)
    BY <1>2, <1>4, <1>6
  <2>2. ASSUME NEW j \in (i + 1)..(m + n) PROVE ~ MC(j)
    <3>1. CASE j \in 1..m
      <4>1. j \in (i + 1)..m
        BY <1>1, <3>1
      <4>2. QED
        BY <1>4, <3>1, <4>1
    <3>2. CASE j - m \in 1..n /\ j = m + (j - m)
      BY <1>1, <1>4, <3>2 DEF Silent
    <3>3. QED
      BY <1>1, <3>1, <3>2
  <2>3. QED
    BY <1>2, <1>3, <2>1, <2>2 DEF Allows
<1>11. Allows(C, op, p) => Allows(B, op, p) \/ (Silent(B, op, p) /\ Allows(A, op, p))
  <2> SUFFICES ASSUME NEW i \in 1..(m + n), C[i].allow, MC(i),
                      \A j \in (i + 1)..(m + n) : ~ MC(j)
               PROVE  Allows(B, op, p) \/ (Silent(B, op, p) /\ Allows(A, op, p))
    BY <1>2, <1>3 DEF Allows
  <2>1. CASE i \in 1..m
    <3>1. ASSUME NEW j \in 1..n PROVE ~ MB(j)
      <4>1. m + j \in (i + 1)..(m + n)
        BY <1>1, <2>1
      <4>2. QED
        BY <1>4, <4>1
    <3>2. ASSUME NEW j \in (i + 1)..m PROVE ~ MA(j)
      <4>1. j \in (i + 1)..(m + n) /\ j \in 1..m
        BY <1>1, <2>1
      <4>2. QED
        BY <1>4, <4>1
    <3>3. A[i].allow /\ MA(i)
      BY <1>2, <1>4, <2>1
    <3>4. QED
      BY <1>1, <2>1, <3>1, <3>2, <3>3 DEF Allows, Silent, m
  <2>2. CASE i - m \in 1..n /\ i = m + (i - m)
    <3> DEFINE k == i - m
    <3>1. B[k].allow /\ MB(k)
      BY <1>2, <1>4, <2>2
    <3>2. ASSUME NEW j \in (k + 1)..n PROVE ~ MB(j)
      <4>1. m + j \in (i + 1)..(m + n) /\ j \in 1..n
        BY <1>1, <2>2
      <4>2. QED
        BY <1>4, <4>1
    <3>3. QED
      BY <1>1, <2>2, <3>1, <3>2 DEF Allows, n
  <2>3. QED
    BY <1>5, <2>1, <2>2
<1>12. QED
  BY <1>2, <1>8, <1>9, <1>10, <1>11 DEF C

\* One rule, and the rule of a list of paths.
LEMMA OneRule ==
  ASSUME NEW r, NEW op, NEW p
  PROVE  /\ IsPath(<<r>>)
         /\ Silent(<<r>>, op, p) <=> ~ Matches(r, op, p)
         /\ Allows(<<r>>, op, p) <=> r.allow /\ Matches(r, op, p)
<1>1. <<r>> \in Seq({r})
  OBVIOUS
<1>2. IsPath(<<r>>)
  BY <1>1, SeqIsPath
<1>3. DOMAIN <<r>> = {1} /\ <<r>>[1] = r /\ Len(<<r>>) = 1
  OBVIOUS
<1>4. (1 + 1)..1 = {}
  OBVIOUS
<1>5. QED
  BY <1>2, <1>3, <1>4 DEF Silent, Allows

\* A section is silent on what it does not list, or of it allows all or nothing.
LEMMA OneSection ==
  ASSUME NEW allow \in BOOLEAN, NEW ops, NEW dirs, NEW op, NEW p
  PROVE  /\ IsPath(Section(allow, ops, dirs))
         /\ Silent(Section(allow, ops, dirs), op, p) <=> ~ (op \in ops /\ Covered(dirs, p))
         /\ Allows(Section(allow, ops, dirs), op, p) <=> allow /\ op \in ops /\ Covered(dirs, p)
<1>1. CASE dirs = {}
  <2>1. Section(allow, ops, dirs) = <<>> /\ ~ Covered(dirs, p)
    BY <1>1 DEF Section, Covered
  <2>2. <<>> \in Seq({}) /\ DOMAIN <<>> = {}
    OBVIOUS
  <2>3. IsPath(<<>>)
    BY <2>2, SeqIsPath
  <2>4. QED
    BY <2>1, <2>2, <2>3 DEF Silent, Allows
<1>2. CASE dirs # {}
  <2>1. Section(allow, ops, dirs) = <<Rule(allow, ops, dirs)>>
    BY <1>2 DEF Section
  <2>2. /\ Rule(allow, ops, dirs).allow = allow
        /\ Matches(Rule(allow, ops, dirs), op, p) <=> op \in ops /\ Covered(dirs, p)
    BY <1>2 DEF Rule, Matches
  <2>3. QED
    BY <2>1, <2>2, OneRule
<1>3. QED
  BY <1>1, <1>2

\* Paths, and lists of rules, are equal if they are at each index.
LEMMA PathsEqual ==
  ASSUME NEW s, NEW t, IsPath(s), IsPath(t), Len(s) = Len(t),
         \A i \in 1..Len(s) : s[i] = t[i]
  PROVE  s = t
BY PathIsFunction

\* A tuple is its first element and then the others.
LEMMA TuplesConcat ==
  ASSUME NEW r, NEW s, NEW t
  PROVE  <<r, s>> = <<r>> \o <<s>> /\ <<r, s, t>> = <<r>> \o <<s, t>>
<1> DEFINE u == <<r>>
           v == <<s>>
           w == <<r, s>>
           x == <<s, t>>
           y == <<r, s, t>>
<1>1. /\ u \in Seq({r}) /\ v \in Seq({s}) /\ w \in Seq({r, s})
      /\ Len(u) = 1 /\ Len(v) = 1 /\ Len(w) = 2
      /\ u[1] = r /\ v[1] = s /\ w[1] = r /\ w[2] = s
  OBVIOUS
<1>2. /\ x \in Seq({s, t}) /\ y \in Seq({r, s, t})
      /\ Len(x) = 2 /\ Len(y) = 3
      /\ x[1] = s /\ x[2] = t /\ y[1] = r /\ y[2] = s /\ y[3] = t
  OBVIOUS
<1> HIDE DEF u, v, w, x, y
<1>3. IsPath(u) /\ IsPath(v) /\ IsPath(w) /\ IsPath(x) /\ IsPath(y)
  BY <1>1, <1>2, SeqIsPath
<1> DEFINE uv == u \o v
           ux == u \o x
<1>4. /\ IsPath(uv) /\ Len(uv) = Len(u) + Len(v)
      /\ \A i \in 1..Len(u) : uv[i] = u[i]
      /\ \A i \in 1..Len(v) : uv[Len(u) + i] = v[i]
  BY <1>3, ConcatPath
<1>5. /\ IsPath(ux) /\ Len(ux) = Len(u) + Len(x)
      /\ \A i \in 1..Len(u) : ux[i] = u[i]
      /\ \A i \in 1..Len(x) : ux[Len(u) + i] = x[i]
  BY <1>3, ConcatPath
<1> HIDE DEF uv, ux
<1>6. uv = w /\ ux = y
  <2>1. /\ \A i \in 1..2 : i = 1 \/ i = 2
        /\ \A i \in 1..3 : i = 1 \/ i = 2 \/ i = 3
        /\ 1 \in 1..1 /\ 1 \in 1..2 /\ 2 \in 1..2 /\ 1 + 1 = 2 /\ 1 + 2 = 3
    OBVIOUS
  <2>2. Len(uv) = 2 /\ uv[1] = r /\ uv[2] = s
    BY <1>1, <1>4, <2>1
  <2>3. Len(ux) = 3 /\ ux[1] = r /\ ux[2] = s /\ ux[3] = t
    BY <1>1, <1>2, <1>5, <2>1
  <2>4. uv = w
    <3>1. \A i \in 1..Len(uv) : uv[i] = w[i]
      BY <1>1, <2>1, <2>2
    <3>2. QED
      BY <1>1, <1>3, <1>4, <2>2, <3>1, PathsEqual
  <2>5. ux = y
    <3>1. \A i \in 1..Len(ux) : ux[i] = y[i]
      BY <1>2, <2>1, <2>3
    <3>2. QED
      BY <1>2, <1>3, <1>5, <2>3, <3>1, PathsEqual
  <2>6. QED
    BY <2>4, <2>5
<1>7. QED
  BY <1>6 DEF u, v, w, x, y, uv, ux

\* Two rules, the second of which decides.
LEMMA TwoRules ==
  ASSUME NEW r, NEW s, NEW op, NEW p
  PROVE  /\ IsPath(<<r, s>>)
         /\ Silent(<<r, s>>, op, p) <=> ~ Matches(r, op, p) /\ ~ Matches(s, op, p)
         /\ Allows(<<r, s>>, op, p) <=>
              \/ s.allow /\ Matches(s, op, p)
              \/ ~ Matches(s, op, p) /\ r.allow /\ Matches(r, op, p)
<1>1. <<r, s>> = <<r>> \o <<s>>
  BY TuplesConcat
<1> DEFINE A == <<r>>
           B == <<s>>
<1>2. /\ IsPath(A) /\ IsPath(B)
      /\ Silent(A, op, p) <=> ~ Matches(r, op, p)
      /\ Silent(B, op, p) <=> ~ Matches(s, op, p)
      /\ Allows(A, op, p) <=> r.allow /\ Matches(r, op, p)
      /\ Allows(B, op, p) <=> s.allow /\ Matches(s, op, p)
  BY OneRule
<1> HIDE DEF A, B
<1>3. /\ IsPath(A \o B)
      /\ Silent(A \o B, op, p) <=> Silent(A, op, p) /\ Silent(B, op, p)
      /\ Allows(A \o B, op, p) <=>
           Allows(B, op, p) \/ (Silent(B, op, p) /\ Allows(A, op, p))
  BY <1>2, LaterDecides
<1>4. QED
  BY <1>1, <1>2, <1>3 DEF A, B

-----------------------------------------------------------------------------
(* The profiles.                                                           *)

\* What the generated profile comes to.
Profiled(c, d, op, p) ==
  /\ ~ Covered(c.deny, p)
  /\ ~ (op = "read" /\ IsPrefix(DataVolume, p))
  /\ \/ Covered(TempDirs, p) \/ Covered(c.write, p)
     \/ op = "read" /\ (Covered(SystemDirs, p) \/ Covered(c.read \cup CommandReads(d), p))

\* The last rule that matches decides, so the generated profile comes to this
\* (generateSeatbeltProfile).
LEMMA SeatbeltDecides ==
  ASSUME NEW c, NEW d, NEW op \in Ops, NEW p
  PROVE  Allows(SeatbeltRules(c, d), op, p) <=> Profiled(c, d, op, p)
<1> DEFINE A == <<Rule(TRUE, Read, SystemDirs), Rule(TRUE, {"metadata"}, {})>>
           B == Section(TRUE, Read, c.read \cup CommandReads(d))
           C == Section(TRUE, ReadWrite, c.write)
           D == <<Rule(TRUE, ReadWrite, TempDirs), Rule(FALSE, Read, {DataVolume})>>
           E == Section(FALSE, ReadWrite, c.deny)
           sys == op = "read" /\ Covered(SystemDirs, p)
           com == op = "read" /\ Covered(c.read \cup CommandReads(d), p)
           wri == Covered(c.write, p)
           tmp == Covered(TempDirs, p)
           vol == op = "read" /\ IsPrefix(DataVolume, p)
           den == Covered(c.deny, p)
<1>1. op \in ReadWrite /\ op # "metadata" /\ (op \in Read <=> op = "read")
  BY DEF Ops, ReadWrite, Read
<1>2. /\ Matches(Rule(TRUE, Read, SystemDirs), op, p) <=> sys
      /\ ~ Matches(Rule(TRUE, {"metadata"}, {}), op, p)
      /\ Matches(Rule(TRUE, ReadWrite, TempDirs), op, p) <=> tmp
      /\ Matches(Rule(FALSE, Read, {DataVolume}), op, p) <=> vol
  BY <1>1, SystemAssumption DEF Matches, Rule, Covered
<1>3. /\ Rule(TRUE, Read, SystemDirs).allow
      /\ Rule(TRUE, ReadWrite, TempDirs).allow
      /\ ~ Rule(FALSE, Read, {DataVolume}).allow
  BY DEF Rule
<1>4. IsPath(A) /\ (Allows(A, op, p) <=> sys)
  BY <1>2, <1>3, TwoRules
<1>5. /\ IsPath(B) /\ (Silent(B, op, p) <=> ~ com) /\ (Allows(B, op, p) <=> com)
      /\ IsPath(C) /\ (Silent(C, op, p) <=> ~ wri) /\ (Allows(C, op, p) <=> wri)
      /\ IsPath(E) /\ (Silent(E, op, p) <=> ~ den) /\ ~ Allows(E, op, p)
  BY <1>1, OneSection
<1>6. /\ IsPath(D) /\ (Silent(D, op, p) <=> ~ tmp /\ ~ vol)
      /\ (Allows(D, op, p) <=> tmp /\ ~ vol)
  BY <1>2, <1>3, TwoRules
<1> HIDE DEF A, B, C, D, E, sys, com, wri, tmp, vol, den
<1>7. IsPath(A \o B) /\ (Allows(A \o B, op, p) <=> com \/ sys)
  BY <1>4, <1>5, LaterDecides
<1> DEFINE AB == A \o B
<1> HIDE DEF AB
<1>8. IsPath(AB \o C) /\ (Allows(AB \o C, op, p) <=> wri \/ com \/ sys)
  BY <1>5, <1>7, LaterDecides DEF AB
<1> DEFINE AC == AB \o C
<1> HIDE DEF AC
<1>9. IsPath(AC \o D) /\ (Allows(AC \o D, op, p) <=> ~ vol /\ (tmp \/ wri \/ com \/ sys))
  BY <1>6, <1>8, LaterDecides DEF AC
<1> DEFINE AD == AC \o D
<1> HIDE DEF AD
<1>10. Allows(AD \o E, op, p) <=> ~ den /\ ~ vol /\ (tmp \/ wri \/ com \/ sys)
  BY <1>5, <1>9, LaterDecides DEF AD
<1>11. SeatbeltRules(c, d) = AD \o E
  BY DEF SeatbeltRules, A, B, C, D, E, AB, AC, AD
<1>12. QED
  BY <1>10, <1>11 DEF Profiled, sys, com, wri, tmp, vol, den

\* And the legacy profile to the floor, and what is not sensitive.
LEMMA LegacyDecides ==
  ASSUME NEW op \in Ops, NEW p
  PROVE  Allows(LegacyRules, op, p) <=>
           Covered(Floor, p) \/ ~ Covered(Sensitive \cup {DataVolume}, p)
<1> DEFINE A == <<Rule(TRUE, ReadWrite, {})>>
           B == <<Rule(FALSE, ReadWrite, Sensitive \cup {DataVolume}),
                  Rule(TRUE, ReadWrite, Floor)>>
           sen == Covered(Sensitive \cup {DataVolume}, p)
           flo == Covered(Floor, p)
<1>1. op \in ReadWrite
  BY DEF Ops, ReadWrite, Read
<1>2. /\ Matches(Rule(TRUE, ReadWrite, {}), op, p)
      /\ Matches(Rule(FALSE, ReadWrite, Sensitive \cup {DataVolume}), op, p) <=> sen
      /\ Matches(Rule(TRUE, ReadWrite, Floor), op, p) <=> flo
  BY <1>1, SystemAssumption DEF Matches, Rule, Covered
<1>3. /\ Rule(TRUE, ReadWrite, {}).allow /\ Rule(TRUE, ReadWrite, Floor).allow
      /\ ~ Rule(FALSE, ReadWrite, Sensitive \cup {DataVolume}).allow
  BY DEF Rule
<1>4. IsPath(A) /\ Allows(A, op, p)
  BY <1>2, <1>3, OneRule
<1>5. /\ IsPath(B) /\ (Silent(B, op, p) <=> ~ sen /\ ~ flo)
      /\ (Allows(B, op, p) <=> flo)
  BY <1>2, <1>3, TwoRules
<1>6. LegacyRules = A \o B
  <2> DEFINE r == Rule(TRUE, ReadWrite, {})
             s == Rule(FALSE, ReadWrite, Sensitive \cup {DataVolume})
             t == Rule(TRUE, ReadWrite, Floor)
  <2>1. LegacyRules = <<r, s, t>> /\ A = <<r>> /\ B = <<s, t>>
    BY DEF LegacyRules
  <2> HIDE DEF r, s, t, A, B
  <2>2. <<r, s, t>> = <<r>> \o <<s, t>>
    BY TuplesConcat
  <2>3. QED
    BY <2>1, <2>2
<1> HIDE DEF A, B, sen, flo
<1>7. Allows(A \o B, op, p) <=> flo \/ ~ sen
  BY <1>4, <1>5, LaterDecides
<1>8. QED
  BY <1>6, <1>7 DEF sen, flo
-----------------------------------------------------------------------------
(* The inductive invariant.                                                *)

Grants == [read : SUBSET Paths, write : SUBSET Paths, deny : SUBSET Paths]

\* Which adapter goes through which phases, with which config.
PhaseInv ==
  /\ \/ adapter = "macos" /\ phase \in {"idle", "large", "dir", "ready", "running", "over"}
     \/ adapter = "legacy" /\ phase \in {"idle", "ready", "running", "over"}
     \/ adapter = "windows" /\ phase \in {"idle", "filter", "materialize", "apply", "running", "over"}
  /\ phase # "idle" => config \in Configs

\* The profile is the one that was generated from config and command.
ProfileInv ==
  phase # "idle" =>
    /\ adapter = "legacy" => profile = LegacyRules
    /\ adapter = "macos" => /\ profile = SeatbeltRules(config, command)
                            /\ command \in CommandDirs \cup {<<>>}

\* The grants file says nothing the config does not, but for the directory of
\* the command, and leaves out no deny that a grant would reach.
GrantsInv ==
  /\ grants \in Grants
  /\ phase # "idle" => /\ grants.read \subseteq config.read \cup ({command} \ {<<>>})
                       /\ grants.write \subseteq config.write
                       /\ grants.deny \subseteq config.deny
  /\ phase \in {"materialize", "apply", "running"} =>
       \A d \in config.deny : Covered(grants.read \cup grants.write, d) => d \in grants.deny

\* Each ACE comes from a line of the file, and each line is to come or has left
\* its ACE, unless others have taken the path away, or a deny was of a path that
\* is granted as well.
AceInv ==
  /\ ace \in [Paths -> SUBSET {"read", "write", "deny"}]
  /\ others \in Nat
  /\ \A l \in todo : \E k \in {"read", "write", "deny"} : \E p \in grants[k] :
       l = [kind |-> k, path |-> p]
  /\ phase \in {"idle", "filter", "materialize"} => todo = {} /\ \A q \in Paths : ace[q] = {}
  /\ phase = "running" => todo = {}
  /\ \A q \in Paths :
       /\ "read" \in ace[q] => q \in grants.read \cup grants.write
       /\ "write" \in ace[q] => q \in grants.write
       /\ "deny" \in ace[q] => q \in grants.deny
  /\ phase \in {"apply", "running"} =>
       /\ \A d \in grants.deny \ (grants.read \cup grants.write) :
            [kind |-> "deny", path |-> d] \in todo \/ "deny" \in ace[d] \/ d \in replaced
       /\ others = 0 => \A k \in {"read", "write"} : \A g \in grants[k] :
            [kind |-> k, path |-> g] \in todo \/ Aces(k) \subseteq ace[g]

IInv == PhaseInv /\ ProfileInv /\ (adapter = "windows" => GrantsInv /\ AceInv)

\* The inductive invariant holds at first.
LEMMA InitIInv == Init => IInv
BY DEF Init, MacInit, WinInit, NoGrants, IInv, PhaseInv, ProfileInv, GrantsInv, AceInv, Grants, Covered

\* The steps of the macOS adapter.
LEMMA MacSteps == IInv /\ MacNext /\ UNCHANGED winVars => IInv'
<1> SUFFICES ASSUME IInv, MacNext, UNCHANGED winVars PROVE IInv'
  OBVIOUS
<1> USE DEF IInv
<1>1. ASSUME UNCHANGED <<adapter, config, command>>, adapter = "windows" => phase' = phase
      PROVE  adapter' = "windows" => GrantsInv' /\ AceInv'
  BY <1>1 DEF winVars, GrantsInv, AceInv
<1>2. ASSUME NEW c \in Configs, LegacySpawn(c) PROVE IInv'
  BY <1>2 DEF LegacySpawn, PhaseInv, ProfileInv
<1>3. ASSUME NEW c \in Configs, NEW d \in CommandDirs \cup {<<>>}, NEW gone, WrapSpawn(c, d, gone)
      PROVE  IInv'
  BY <1>3 DEF WrapSpawn, PhaseInv, ProfileInv
<1>4. ASSUME NEW d \in Dirs, MakeDir(d) PROVE IInv'
  BY <1>1, <1>4 DEF MakeDir, PhaseInv, ProfileInv
<1>5. ASSUME NEW d \in Dirs, WeekPasses(d) PROVE IInv'
  BY <1>1, <1>5 DEF WeekPasses, PhaseInv, ProfileInv
<1>6. ASSUME WriteProfile PROVE IInv'
  BY <1>1, <1>6 DEF WriteProfile, PhaseInv, ProfileInv
<1>7. ASSUME WriteFails PROVE IInv'
  BY <1>1, <1>7 DEF WriteFails, macVars, PhaseInv, ProfileInv
<1>8. ASSUME SandboxExec PROVE IInv'
  BY <1>1, <1>8 DEF SandboxExec, macVars, PhaseInv, ProfileInv
<1>9. ASSUME Exit PROVE IInv'
  BY <1>1, <1>9 DEF Exit, PhaseInv, ProfileInv
<1>10. ASSUME Restart PROVE IInv'
  BY <1>1, <1>10 DEF Restart, PhaseInv, ProfileInv
<1>11. ASSUME NextSpawn PROVE IInv'
  BY <1>11 DEF NextSpawn, PhaseInv, ProfileInv
<1>12. QED
  BY <1>2, <1>3, <1>4, <1>5, <1>6, <1>7, <1>8, <1>9, <1>10, <1>11 DEF MacNext

\* The steps of the Windows adapter.
LEMMA WinSteps == IInv /\ WinNext /\ UNCHANGED macVars => IInv'
<1> SUFFICES ASSUME IInv, WinNext, UNCHANGED macVars PROVE IInv'
  OBVIOUS
<1>1. PhaseInv /\ ProfileInv /\ (adapter = "windows" => GrantsInv /\ AceInv)
  BY DEF IInv
<1>2. ASSUME NEW c \in Configs, NEW d \in Images \cup {<<>>}, NEW t \in Trees, Filter(c, d, t)
      PROVE  IInv'
  <2>1. c \in [read : SUBSET Paths, write : SUBSET Paths, deny : SUBSET Paths]
    BY ConfigsAssumption
  <2>2. PhaseInv' /\ ProfileInv'
    BY <1>1, <1>2 DEF Filter, PhaseInv, ProfileInv
  <2>3. GrantsInv'
    <3>1. t \subseteq Paths /\ <<>> \notin t
      BY PathsAssumption DEF Trees
    <3>2. /\ grants' = [read |-> (c.read \cup {d}) \cap t, write |-> c.write \cap t, deny |-> {}]
          /\ config' = c /\ command' = d /\ phase' = "filter"
      BY <1>2 DEF Filter
    <3>3. QED
      BY <2>1, <3>1, <3>2 DEF GrantsInv, Grants
  <2>4. AceInv'
    BY <1>1, <1>2 DEF Filter, AceInv
  <2>5. QED
    BY <2>2, <2>3, <2>4 DEF IInv
<1>3. ASSUME KindsKnown PROVE IInv'
  <2>1. adapter = "windows" /\ config \in Configs
    BY <1>1, <1>3 DEF KindsKnown, PhaseInv
  <2>2. KeptDenies \subseteq config.deny /\ config.deny \subseteq Paths
    BY <2>1, ConfigsAssumption DEF KeptDenies
  <2>3. PhaseInv' /\ ProfileInv'
    BY <1>1, <1>3, <2>1 DEF KindsKnown, macVars, PhaseInv, ProfileInv
  <2>4. /\ grants' \in Grants /\ grants'.deny = KeptDenies
        /\ grants'.read = grants.read /\ grants'.write = grants.write
    BY <1>1, <1>3, <2>1, <2>2 DEF KindsKnown, GrantsInv, Grants
  <2>5. GrantsInv'
    BY <1>1, <1>3, <2>1, <2>2, <2>4 DEF KindsKnown, GrantsInv, KeptDenies
  <2>6. AceInv'
    BY <1>1, <1>3, <2>1 DEF KindsKnown, AceInv
  <2>7. QED
    BY <2>3, <2>5, <2>6 DEF IInv
<1>4. ASSUME KindUnknown \/ MaterializeFails PROVE IInv'
  BY <1>1, <1>4 DEF KindUnknown, MaterializeFails, winVars, macVars, IInv, PhaseInv, ProfileInv, GrantsInv, AceInv
<1>5. ASSUME NEW d \in Paths, Materialize(d) PROVE IInv'
  BY <1>1, <1>5 DEF Materialize, macVars, IInv, PhaseInv, ProfileInv, GrantsInv, AceInv
<1>6. ASSUME WriteGrants PROVE IInv'
  <2>1. adapter = "windows"
    BY <1>1, <1>6 DEF WriteGrants, PhaseInv
  <2>2. PhaseInv' /\ ProfileInv' /\ GrantsInv'
    BY <1>1, <1>6, <2>1 DEF WriteGrants, macVars, PhaseInv, ProfileInv, GrantsInv
  <2>3. \A l : l \in todo' <=> \E k \in {"read", "write", "deny"} : l \in [kind : {k}, path : grants[k]]
    BY <1>1, <1>6, <2>1 DEF WriteGrants, GrantsInv, Grants
  <2>4. AceInv'
    <3>1. \A l \in todo' : \E k \in {"read", "write", "deny"} : \E p \in grants[k] :
            l = [kind |-> k, path |-> p]
      <4> SUFFICES ASSUME NEW l \in todo'
                   PROVE  \E k \in {"read", "write", "deny"} : \E p \in grants[k] :
                            l = [kind |-> k, path |-> p]
        OBVIOUS
      <4>1. PICK k \in {"read", "write", "deny"} : l \in [kind : {k}, path : grants[k]]
        BY <2>3
      <4>2. l.path \in grants[k] /\ l = [kind |-> k, path |-> l.path]
        BY <4>1
      <4>3. QED
        BY <4>2
    <3>2. \A k \in {"read", "write", "deny"} : \A g \in grants[k] : [kind |-> k, path |-> g] \in todo'
      BY <2>3
    <3>3. UNCHANGED <<ace, grants, replaced, others>> /\ phase' = "apply"
      BY <1>6 DEF WriteGrants
    <3>4. QED
      BY <1>1, <2>1, <3>1, <3>2, <3>3 DEF AceInv
  <2>5. QED
    BY <2>2, <2>4 DEF IInv
<1>7. ASSUME NEW l \in todo, ApplyLine(l) PROVE IInv'
  <2>1. adapter = "windows" /\ phase = "apply"
    BY <1>1, <1>7 DEF ApplyLine, PhaseInv
  <2>2. PhaseInv' /\ ProfileInv' /\ GrantsInv'
    BY <1>1, <1>7, <2>1 DEF ApplyLine, macVars, PhaseInv, ProfileInv, GrantsInv
  <2>3. AceInv'
    <3>1. grants.deny \subseteq Paths /\ grants.read \subseteq Paths /\ grants.write \subseteq Paths
      BY <1>1, <2>1 DEF GrantsInv, Grants
    <3>0. PICK k \in {"read", "write", "deny"} : \E g \in grants[k] : l = [kind |-> k, path |-> g]
      BY <1>1, <2>1 DEF AceInv
    <3>2. PICK g \in grants[k] : l = [kind |-> k, path |-> g]
      BY <3>0
    <3>3. /\ UNCHANGED <<grants, replaced, others>> /\ todo' = todo \ {l}
          /\ phase' \in {"apply", "over"}
          /\ phase' = "apply" => g \in exists
          /\ \E kept \in {ace[g], ace[g] \ {"deny"}} :
               ace' = IF g \notin exists THEN ace ELSE [ace EXCEPT ![g] = kept \cup Aces(k)]
      BY <1>7, <2>1, <3>2 DEF ApplyLine
    <3>4. g \in Paths
      BY <3>1
    <3>4a. PICK kept \in {ace[g], ace[g] \ {"deny"}} :
             ace' = IF g \notin exists THEN ace ELSE [ace EXCEPT ![g] = kept \cup Aces(k)]
      BY <3>3
    <3>5. /\ ace \in [Paths -> SUBSET {"read", "write", "deny"}]
          /\ \A q \in Paths : q # g => ace'[q] = ace[q]
          /\ g \in exists => ace'[g] = kept \cup Aces(k)
          /\ g \notin exists => ace' = ace
          /\ kept \subseteq ace[g] /\ ace[g] \subseteq kept \cup {"deny"}
      BY <1>1, <2>1, <3>4a, <3>4 DEF AceInv
    <3>6. /\ Aces("read") = {"read"} /\ Aces("write") = {"read", "write"} /\ Aces("deny") = {"deny"}
          /\ ace' \in [Paths -> SUBSET {"read", "write", "deny"}]
      BY <3>4, <3>5, <3>4a DEF Aces, Ops
    <3>7. \A m \in todo' : \E i \in {"read", "write", "deny"} : \E p \in grants'[i] :
            m = [kind |-> i, path |-> p]
      BY <1>1, <2>1, <3>3 DEF AceInv
    <3>8. \A q \in Paths :
            /\ "read" \in ace'[q] => q \in grants.read \cup grants.write
            /\ "write" \in ace'[q] => q \in grants.write
            /\ "deny" \in ace'[q] => q \in grants.deny
      <4> SUFFICES ASSUME NEW q \in Paths
                   PROVE  /\ "read" \in ace'[q] => q \in grants.read \cup grants.write
                          /\ "write" \in ace'[q] => q \in grants.write
                          /\ "deny" \in ace'[q] => q \in grants.deny
        OBVIOUS
      <4>1. CASE q # g \/ g \notin exists
        BY <1>1, <2>1, <3>5, <4>1 DEF AceInv
      <4>2. CASE q = g /\ g \in exists
        BY <1>1, <2>1, <3>2, <3>4, <3>5, <3>6, <4>2 DEF AceInv
      <4>3. QED
        BY <4>1, <4>2
    <3>9. ASSUME phase' = "apply", NEW d \in grants.deny \ (grants.read \cup grants.write)
          PROVE  [kind |-> "deny", path |-> d] \in todo' \/ "deny" \in ace'[d] \/ d \in replaced'
      <4>1. CASE d = g
        BY <3>2, <3>3, <3>4, <3>5, <3>6, <3>9, <4>1
      <4>2. CASE d # g
        <5>1. [kind |-> "deny", path |-> d] # l
          BY <3>2, <4>2
        <5>2. QED
          BY <1>1, <2>1, <3>1, <3>3, <3>5, <4>2, <5>1 DEF AceInv
      <4>3. QED
        BY <4>1, <4>2
    <3>10. ASSUME phase' = "apply", others = 0, NEW i \in {"read", "write"}, NEW h \in grants[i]
           PROVE  [kind |-> i, path |-> h] \in todo' \/ Aces(i) \subseteq ace'[h]
      <4>1. h \in Paths
        BY <3>1, <3>10
      <4>2. [kind |-> i, path |-> h] \in todo \/ Aces(i) \subseteq ace[h]
        BY <1>1, <2>1, <3>10 DEF AceInv
      <4>3. CASE Aces(i) \subseteq ace[h]
        BY <3>4, <3>5, <3>6, <3>10, <4>1, <4>3
      <4>4. CASE [kind |-> i, path |-> h] = l
        BY <3>2, <3>3, <3>4, <3>5, <3>10, <4>1, <4>4
      <4>5. QED
        BY <3>3, <4>2, <4>3, <4>4
    <3>11. QED
      BY <1>1, <2>1, <3>3, <3>6, <3>7, <3>8, <3>9, <3>10 DEF AceInv
  <2>4. QED
    BY <2>2, <2>3 DEF IInv
<1>8. ASSUME Resume PROVE IInv'
  BY <1>1, <1>8 DEF Resume, winVars, macVars, IInv, PhaseInv, ProfileInv, GrantsInv, AceInv
<1>9. ASSUME NEW p \in Paths, OtherCreates(p) PROVE IInv'
  <2>1. PhaseInv' /\ ProfileInv' /\ GrantsInv' /\ UNCHANGED <<phase, grants, todo, ace, replaced>>
    BY <1>1, <1>9 DEF OtherCreates, macVars, PhaseInv, ProfileInv, GrantsInv
  <2>2. others' \in Nat /\ others' # 0
    BY <1>1, <1>9 DEF OtherCreates, AceInv
  <2>3. QED
    BY <1>1, <1>9, <2>1, <2>2 DEF OtherCreates, IInv, AceInv
<1>10. ASSUME NEW p \in Paths, OtherRemoves(p) PROVE IInv'
  <2>1. /\ adapter = "windows" /\ phase # "idle"
        /\ PhaseInv' /\ ProfileInv' /\ GrantsInv' /\ UNCHANGED <<phase, grants, todo>>
        /\ ace' = [ace EXCEPT ![p] = {}]
        /\ replaced' = IF "deny" \in ace[p] THEN replaced \cup {p} ELSE replaced
    BY <1>1, <1>10 DEF OtherRemoves, macVars, PhaseInv, ProfileInv, GrantsInv
  <2>2. others' \in Nat /\ others' # 0
    BY <1>1, <1>10 DEF OtherRemoves, AceInv
  <2>3. AceInv
    BY <1>1, <2>1
  <2>4. /\ ace' \in [Paths -> SUBSET {"read", "write", "deny"}]
        /\ \A q \in Paths : ace'[q] = IF q = p THEN {} ELSE ace[q]
    BY <2>1, <2>3 DEF AceInv
  <2>5. \A q \in grants.deny : "deny" \in ace[q] => "deny" \in ace'[q] \/ q \in replaced'
    BY <1>1, <2>1, <2>4 DEF GrantsInv, Grants
  <2>6. \A q : q \in replaced => q \in replaced'
    BY <2>1
  <2>7. AceInv'
    BY <2>1, <2>2, <2>3, <2>4, <2>5, <2>6 DEF AceInv
  <2>8. QED
    BY <2>1, <2>7 DEF IInv
<1>11. QED
  BY <1>2, <1>3, <1>4, <1>5, <1>6, <1>7, <1>8, <1>9, <1>10 DEF WinNext

\* The inductive invariant holds in every state.
THEOREM PathInvariance == Spec => []IInv
<1>1. IInv /\ [Next]_vars => IInv'
  <2>1. IInv /\ UNCHANGED vars => IInv'
    BY DEF vars, macVars, winVars, IInv, PhaseInv, ProfileInv, GrantsInv, AceInv
  <2>2. QED
    BY <2>1, MacSteps, WinSteps DEF Next
<1>2. QED
  BY InitIInv, <1>1, PTL DEF Spec

-----------------------------------------------------------------------------
(* The promises.                                                           *)

\* All the paths the promises speak of are paths.
LEMMA KnownPaths ==
  /\ \A p \in Paths \cup SystemDirs \cup TempDirs \cup Floor \cup CommandDirs
             \cup {Private, DataVolume} : IsPath(p)
  /\ IInv /\ phase # "idle" =>
       /\ config.read \subseteq Paths /\ config.write \subseteq Paths /\ config.deny \subseteq Paths
BY PathsAssumption, SystemAssumption, ConfigsAssumption DEF IInv, PhaseInv

\* No profile lets anybody in by a name on the data volume, but to write below a
\* grant that covers all of it.
LEMMA AliasClosed ==
  ASSUME IInv, phase # "idle", adapter # "windows", NEW p \in Paths, NEW op \in Ops,
         Allows(profile, op, DataVolume \o p)
  PROVE  adapter = "macos" /\ op = "write" /\ Covered(config.write, DataVolume)
<1> DEFINE n == DataVolume \o p
<1>1. IsPath(p) /\ IsPath(DataVolume) /\ \A f \in Floor \cup TempDirs \cup Paths : IsPath(f)
  BY KnownPaths
<1>2. IsPath(n) /\ IsPrefix(DataVolume, n)
  BY <1>1, ConcatPath, PrefixConcat
<1> HIDE DEF n
<1>3. ~ Covered(Floor, n)
  BY <1>1, <1>2, PrefixChain, AliasAssumption DEF Covered
<1>4. Covered(Sensitive \cup {DataVolume}, n)
  BY <1>2 DEF Covered
<1>5. CASE adapter = "legacy"
  <2>1. profile = LegacyRules
    BY <1>5 DEF IInv, ProfileInv
  <2>2. ~ Allows(profile, op, n)
    BY <1>3, <1>4, <2>1, LegacyDecides
  <2>3. QED
    BY <2>2 DEF n
<1>6. CASE adapter = "macos"
  <2>1. profile = SeatbeltRules(config, command)
    BY <1>6 DEF IInv, ProfileInv
  <2>2. Profiled(config, command, op, n)
    BY <2>1, SeatbeltDecides DEF n
  <2>3. op = "write" /\ (Covered(TempDirs, n) \/ Covered(config.write, n))
    BY <1>2, <2>2 DEF Profiled, Ops
  <2>4. PICK w \in TempDirs \cup config.write : IsPrefix(w, n)
    BY <2>3 DEF Covered
  <2>5. IsPath(w) /\ w \in TempDirs \cup Paths
    BY <1>1, KnownPaths
  <2>6. IsPrefix(w, DataVolume)
    BY <1>1, <1>2, <2>4, <2>5, PrefixChain, AliasAssumption
  <2>7. w \in config.write
    BY <2>4, <2>6, AliasAssumption
  <2>8. QED
    BY <1>6, <2>3, <2>6, <2>7 DEF Covered
<1>7. QED
  BY <1>5, <1>6 DEF IInv, PhaseInv

\* Otherwise what is accessible is so by its real name.
LEMMA ByRealName ==
  ASSUME IInv, phase # "idle", adapter # "windows", NEW p \in Paths, NEW op \in Ops,
         Accessible(op, p)
  PROVE  \/ Allows(profile, op, p)
         \/ adapter = "macos" /\ op = "write" /\ Covered(config.write, DataVolume)
BY AliasClosed DEF Accessible, Names

\* What the DACLs allow comes from a grant of the path or of one above it.
LEMMA DaclFromGrant ==
  ASSUME IInv, adapter = "windows", NEW p \in Paths, NEW op \in Ops, NEW q \in UpTo(p) \cap Paths,
         op \in ace[q]
  PROVE  /\ IsPath(q) /\ IsPrefix(q, p)
         /\ q \in IF op = "read" THEN grants.read \cup grants.write ELSE grants.write
<1>1. IsPath(p)
  BY KnownPaths
<1>2. IsPath(q) /\ IsPrefix(q, p)
  BY <1>1, UpToMeans
<1>3. QED
  BY <1>2 DEF IInv, AceInv, Ops

\* denyPaths are hidden, on each platform, whatever the lists and whatever other
\* processes make of the paths (DeniedIsHidden).
THEOREM DeniedStaysHidden == Spec => []DeniedIsHidden
<1>1. IInv => DeniedIsHidden
  <2> SUFFICES ASSUME IInv, phase = "running", NEW p \in Paths, NEW op \in Ops, Hidden(p)
               PROVE  ~ Accessible(op, p)
    BY DEF DeniedIsHidden
  <2>1. CASE adapter = "legacy"
    <3>1. profile = LegacyRules /\ Covered(Sensitive, p) /\ ~ Covered(Floor, p)
      BY <2>1 DEF IInv, ProfileInv, Hidden
    <3>2. ~ Allows(profile, op, p)
      BY <3>1, LegacyDecides DEF Covered
    <3>3. QED
      BY <2>1, <3>2, ByRealName
  <2>2. CASE adapter = "macos"
    <3>1. /\ profile = SeatbeltRules(config, command) /\ Covered(config.deny, p)
          /\ ~ Covered(config.write, DataVolume)
      BY <2>2 DEF IInv, ProfileInv, Hidden
    <3>2. ~ Allows(profile, op, p)
      BY <3>1, SeatbeltDecides DEF Profiled
    <3>3. QED
      BY <2>2, <3>1, <3>2, ByRealName
  <2>3. CASE adapter = "windows"
    <3>1. PICK d \in config.deny :
            /\ IsPrefix(d, p) /\ d \notin replaced
            /\ ~ \E g \in config.read \cup config.write \cup AlsoRead :
                   IsPrefix(d, g) /\ IsPrefix(g, p)
      BY <2>3 DEF Hidden
    <3>2. IsPath(p) /\ IsPath(d) /\ d # <<>> /\ d \in Paths
      BY KnownPaths, PathsAssumption
    <3>3. d \in UpTo(p) \cap Paths
      BY <3>1, <3>2, UpToMeans
    <3> SUFFICES ASSUME NEW q \in UpTo(p) \cap Paths, op \in ace[q]
                 PROVE  IsPrefix(q, d) /\ "deny" \in ace[d]
      BY <2>3, <3>3 DEF Accessible, DaclAllows
    <3>4. IsPath(q) /\ IsPrefix(q, p) /\ q \in grants.read \cup grants.write
      BY <2>3, DaclFromGrant
    <3>5. grants.read \cup grants.write \subseteq config.read \cup config.write \cup AlsoRead
      BY <2>3 DEF IInv, GrantsInv, AlsoRead
    <3>6. IsPrefix(q, d)
      BY <3>1, <3>2, <3>4, <3>5, PrefixChain
    <3>7. d \in grants.deny
      BY <2>3, <3>4, <3>6 DEF IInv, GrantsInv, Covered
    <3>8. IsPrefix(d, d)
      BY <3>2, PrefixMeans, PathIsFunction
    <3>9. d \notin grants.read \cup grants.write
      BY <3>1, <3>5, <3>8
    <3>10. QED
      BY <2>3, <3>1, <3>6, <3>7, <3>9 DEF IInv, AceInv
  <2>4. QED
    BY <2>1, <2>2, <2>3 DEF IInv, PhaseInv
<1>2. QED
  BY <1>1, PathInvariance, PTL

\* Nothing is accessible but what was granted or what every profile has
\* (NothingUngranted).
THEOREM NothingIsUngranted == Spec => []NothingUngranted
<1>1. IInv => NothingUngranted
  <2> SUFFICES ASSUME IInv, phase = "running", adapter # "legacy", NEW p \in Paths, NEW op \in Ops,
                      Accessible(op, p)
               PROVE  \/ Granted(config, op, p)
                      \/ op = "read" /\ Covered(AlsoRead, p)
                      \/ adapter = "macos" /\ Covered(TempDirs, p)
                      \/ adapter = "macos" /\ op = "write" /\ Covered(config.write, DataVolume)
    BY DEF NothingUngranted
  <2>1. CASE adapter = "macos"
    <3>1. \/ Profiled(config, command, op, p)
          \/ op = "write" /\ Covered(config.write, DataVolume)
      BY <2>1, ByRealName, SeatbeltDecides DEF IInv, ProfileInv
    <3>2. QED
      BY <2>1, <3>1 DEF Profiled, Granted, Covered, AlsoRead
  <2>2. CASE adapter = "windows"
    <3>1. PICK q \in UpTo(p) \cap Paths : op \in ace[q]
      BY <2>2 DEF Accessible, DaclAllows
    <3>2. /\ IsPrefix(q, p)
          /\ q \in IF op = "read" THEN grants.read \cup grants.write ELSE grants.write
      BY <2>2, <3>1, DaclFromGrant
    <3>3. QED
      BY <2>2, <3>2 DEF IInv, GrantsInv, Granted, Covered, AlsoRead
  <2>3. QED
    BY <2>1, <2>2 DEF IInv, PhaseInv
<1>2. QED
  BY <1>1, PathInvariance, PTL

\* A system directory covers the real name of what it covers.
LEMMA SystemByRealName ==
  ASSUME NEW d \in CommandDirs, Covered(SystemDirs, d)
  PROVE  Covered(SystemDirs, Resolved(d))
<1>1. PICK s \in SystemDirs : IsPrefix(s, d)
  BY DEF Covered
<1>2. IsPath(s) /\ IsPath(d) /\ IsPath(Private) /\ s # <<>> /\ \A e \in SystemDirs : IsPath(e)
  BY KnownPaths, LinksAssumption
<1>3. Len(s) \in Nat /\ Len(d) \in Nat /\ 1 \in 1..Len(s) /\ s[1] = d[1] /\ d # <<>>
  <2>1. Len(s) \in Nat /\ Len(d) \in Nat /\ Len(s) # 0
    BY <1>2 DEF IsPath
  <2>2. Len(s) <= Len(d) /\ s[1] = d[1]
    BY <1>1, <1>2, <2>1, PrefixMeans
  <2>3. QED
    BY <2>1, <2>2
<1>4. IsPath(Private \o s) /\ IsPath(Private \o d) /\ IsPrefix(Private \o s, Private \o d)
  BY <1>1, <1>2, ConcatPath, PrefixConcat
<1>5. IsPath(Resolved(s)) /\ IsPath(Resolved(d)) /\ IsPrefix(Resolved(s), Resolved(d))
  BY <1>1, <1>2, <1>3, <1>4 DEF Resolved
<1>6. PICK e \in SystemDirs : IsPrefix(e, Resolved(s))
  BY LinksAssumption DEF Covered
<1>7. IsPrefix(e, Resolved(d))
  BY <1>2, <1>5, <1>6, PrefixTransitive
<1>8. QED
  BY <1>7 DEF Covered

\* What was granted, and the command, can be used (GrantedIsUsable).
THEOREM GrantedStaysUsable == Spec => []GrantedIsUsable
<1>1. IInv => GrantedIsUsable
  <2> SUFFICES ASSUME IInv, phase = "running", NEW p \in Paths, NEW op \in Ops
               PROVE  /\ adapter = "legacy" /\ ~ Hidden(p) => Allows(profile, op, p)
                      /\ /\ adapter = "macos" /\ ~ Covered(config.deny, p)
                         /\ \/ Granted(config, op, p)
                            \/ op = "read" /\ command # <<>> /\ command \notin Lookalikes
                                           /\ IsPrefix(Resolved(command), p)
                         => Allows(profile, op, p)
                      /\ /\ adapter = "windows" /\ ~ Covered(config.deny, p)
                         /\ p \in exists /\ others = 0 /\ Granted(grants, op, p)
                         => DaclAllows(op, p)
    BY DEF GrantedIsUsable
  <2>1. IsPath(p) /\ p # <<>> /\ ~ IsPrefix(DataVolume, p)
    BY KnownPaths, PathsAssumption, AliasAssumption
  <2>2. ASSUME adapter = "legacy", ~ Hidden(p) PROVE Allows(profile, op, p)
    <3>1. profile = LegacyRules
      BY <2>2 DEF IInv, ProfileInv
    <3>2. Covered(Floor, p) \/ ~ Covered(Sensitive \cup {DataVolume}, p)
      BY <2>1, <2>2 DEF Hidden, Covered
    <3>3. QED
      BY <3>1, <3>2, LegacyDecides
  <2>3. ASSUME adapter = "macos", ~ Covered(config.deny, p),
               \/ Granted(config, op, p)
               \/ op = "read" /\ command # <<>> /\ command \notin Lookalikes
                              /\ IsPrefix(Resolved(command), p)
        PROVE  Allows(profile, op, p)
    <3>1. profile = SeatbeltRules(config, command) /\ command \in CommandDirs \cup {<<>>}
      BY <2>3 DEF IInv, ProfileInv
    <3>2. ASSUME Granted(config, op, p) PROVE Profiled(config, command, op, p)
      BY <2>1, <2>3, <3>2 DEF Granted, Covered, Profiled, Ops
    <3>3. ASSUME op = "read", command # <<>>, command \notin Lookalikes,
                 IsPrefix(Resolved(command), p)
          PROVE  Profiled(config, command, op, p)
      <4>1. CASE Covered(SystemDirs, command)
        <5>1. PICK e \in SystemDirs : IsPrefix(e, Resolved(command))
          BY <3>1, <3>3, <4>1, SystemByRealName DEF Covered
        <5>2. IsPath(e) /\ IsPath(command) /\ IsPath(Private)
          BY <3>1, <3>3, KnownPaths
        <5>3. IsPath(Resolved(command))
          BY <5>2, ConcatPath DEF Resolved
        <5>4. IsPrefix(e, p)
          BY <2>1, <3>3, <5>1, <5>2, <5>3, PrefixTransitive
        <5>5. QED
          BY <2>1, <2>3, <3>3, <5>4 DEF Profiled, Covered
      <4>2. CASE ~ Covered(SystemDirs, command)
        <5>1. Resolved(command) \in CommandReads(command)
          BY <3>3, <4>2 DEF CommandReads
        <5>2. Covered(config.read \cup CommandReads(command), p)
          BY <3>3, <5>1 DEF Covered
        <5>3. QED
          BY <2>1, <2>3, <3>3, <5>2 DEF Profiled
      <4>3. QED
        BY <4>1, <4>2
    <3>4. QED
      BY <2>3, <3>1, <3>2, <3>3, SeatbeltDecides
  <2>4. ASSUME adapter = "windows", ~ Covered(config.deny, p), others = 0, Granted(grants, op, p)
        PROVE  DaclAllows(op, p)
    <3>1. GrantsInv /\ AceInv
      BY <2>4 DEF IInv
    <3>2. PICK k \in {"read", "write"} : op \in Aces(k) /\ \E g \in grants[k] : IsPrefix(g, p)
      BY <2>4 DEF Granted, Covered, Aces, Ops
    <3>3. PICK g \in grants[k] : IsPrefix(g, p)
      BY <3>2
    <3>4. g \in Paths
      BY <3>1 DEF GrantsInv, Grants
    <3>5. g \in UpTo(p)
      BY <2>1, <3>3, <3>4, KnownPaths, PathsAssumption, UpToMeans
    <3>6. op \in ace[g]
      BY <2>4, <3>1, <3>2 DEF AceInv
    <3>7. ASSUME NEW r \in UpTo(p) \cap Paths PROVE "deny" \notin ace[r]
      <4>1. IsPrefix(r, p)
        BY <2>1, UpToMeans
      <4>2. r \notin config.deny
        BY <2>4, <4>1 DEF Covered
      <4>3. QED
        BY <3>1, <4>2 DEF AceInv, GrantsInv
    <3>8. QED
      BY <3>4, <3>5, <3>6, <3>7 DEF DaclAllows
  <2>5. QED
    BY <2>2, <2>3, <2>4
<1>2. QED
  BY <1>1, PathInvariance, PTL

=============================================================================
