------------------------------ MODULE SeqLemmas ------------------------------
(***************************************************************************)
(* Facts the proofs of several components rest on: induction over the      *)
(* naturals, recursively defined functions, the least and the greatest of  *)
(* a set of numbers, and the parts of concatenated sequences.              *)
(***************************************************************************)
EXTENDS Integers, Sequences, FiniteSetsExt, SequenceTheorems, WellFoundedInduction, TLAPS

-----------------------------------------------------------------------------
(* Induction over the naturals, for sets: every set of naturals has a      *)
(* least member.                                                           *)
LEMMA Least ==
  ASSUME NEW T, T \subseteq Nat, T # {}
  PROVE  \E x \in T : \A y \in T : x <= y
<1>1. IsWellFoundedOn(OpToRel(<, Nat), Nat)
  BY NatLessThanWellFounded
<1>2. PICK x \in T : \A y \in T : ~(<<y, x>> \in OpToRel(<, Nat))
  BY <1>1, WFMin
<1>3. \A y \in T : ~(y < x)
  BY <1>2 DEF OpToRel
<1>4. QED
  BY <1>3

LEMMA Induct ==
  ASSUME NEW T, T \subseteq Nat, 0 \in T, \A n \in T : n + 1 \in T
  PROVE  T = Nat
<1>1. SUFFICES ASSUME Nat \ T # {} PROVE FALSE
  OBVIOUS
<1>2. PICK x \in Nat \ T : \A y \in Nat \ T : x <= y
  BY <1>1, Least
<1>3. x # 0 /\ x - 1 \in Nat /\ ~(x <= x - 1)
  BY <1>2
<1>4. x - 1 \in T
  BY <1>2, <1>3
<1>5. (x - 1) + 1 = x
  BY <1>3
<1>6. QED
  BY <1>4, <1>5

(* A recursively defined function exists and is unique.                    *)
Follows(g, S, n, z, step) ==
  g \in [0..n -> S] /\ g[0] = z /\ \A i \in 1..n : g[i] = step[i][g[i - 1]]

LEMMA FcnExists ==
  ASSUME NEW S, NEW z \in S, NEW n \in Nat, NEW step \in [1..n -> [S -> S]]
  PROVE  \E g : Follows(g, S, n, z, step)
<1> DEFINE Is(m, g) == g[0] = z /\ \A i \in 1..m : g[i] = step[i][g[i - 1]]
           Ns == {m \in Nat : m <= n => \E g \in [0..m -> S] : Is(m, g)}
<1>1. 0 \in Ns
  <2>1. PICK g : g = [i \in 0..0 |-> z]
    OBVIOUS
  <2>2. g \in [0..0 -> S] /\ Is(0, g)
    BY <2>1
  <2>3. QED
    BY <2>2
<1>2. ASSUME NEW m \in Ns PROVE m + 1 \in Ns
  <2>0. m \in Nat /\ m + 1 \in Nat
    OBVIOUS
  <2>1. ASSUME m + 1 <= n PROVE \E g \in [0..(m + 1) -> S] : Is(m + 1, g)
    <3>1. m <= n
      BY <2>0, <2>1
    <3>2. PICK g \in [0..m -> S] : Is(m, g)
      BY <3>1
    <3>3. step[m + 1] \in [S -> S] /\ g[m] \in S
      BY <2>0, <2>1
    <3>4. PICK x \in S : x = step[m + 1][g[m]]
      BY <3>3
    <3>5. PICK h : h = [i \in 0..(m + 1) |-> IF i = m + 1 THEN x ELSE g[i]]
      OBVIOUS
    <3>6. h \in [0..(m + 1) -> S] /\ h[m + 1] = x /\ \A i \in 0..m : h[i] = g[i]
      BY <2>0, <3>5
    <3>7. ASSUME NEW i \in 1..(m + 1) PROVE h[i] = step[i][h[i - 1]]
      <4>1. CASE i = m + 1
        <5>1. i - 1 = m /\ m \in 0..m
          BY <2>0, <4>1
        <5>2. QED
          BY <3>4, <3>6, <4>1, <5>1
      <4>2. CASE i # m + 1
        <5>1. i \in 1..m /\ i \in 0..m /\ i - 1 \in 0..m
          BY <2>0, <4>2
        <5>2. QED
          BY <3>2, <3>6, <5>1
      <4>3. QED
        BY <4>1, <4>2
    <3>8. h[0] = z
      BY <2>0, <3>2, <3>6
    <3>9. QED
      BY <3>6, <3>7, <3>8
  <2>2. QED
    BY <2>0, <2>1
<1>3. Ns = Nat
  <2> HIDE DEF Is
  <2>1. Ns \subseteq Nat
    OBVIOUS
  <2> HIDE DEF Ns
  <2>2. QED
    BY <1>1, <1>2, <2>1, Induct
<1>4. QED
  BY <1>3 DEF Follows

Alike(f, g, n) == f[0] = g[0] /\ \A i \in 1..n : f[i - 1] = g[i - 1] => f[i] = g[i]

LEMMA FcnUnique ==
  ASSUME NEW n \in Nat, NEW f, NEW g, Alike(f, g, n)
  PROVE  \A i \in 0..n : f[i] = g[i]
<1> DEFINE Ns == {m \in Nat : m <= n => f[m] = g[m]}
<1>1. 0 \in Ns
  BY DEF Alike
<1>2. ASSUME NEW m \in Ns PROVE m + 1 \in Ns
  <2>1. m \in Nat /\ m + 1 \in Nat /\ (m + 1) - 1 = m
    OBVIOUS
  <2>2. ASSUME m + 1 <= n PROVE f[m + 1] = g[m + 1]
    <3>1. m + 1 \in 1..n /\ f[m] = g[m]
      BY <2>1, <2>2
    <3>2. QED
      BY <2>1, <3>1 DEF Alike
  <2>3. QED
    BY <2>1, <2>2
<1>3. Ns = Nat
  <2>1. Ns \subseteq Nat
    OBVIOUS
  <2> HIDE DEF Ns
  <2>2. QED
    BY <1>1, <1>2, <2>1, Induct
<1>4. QED
  BY <1>3

(* The greatest of a bounded set.                                          *)
LEMMA Longest ==
  ASSUME NEW T, T \subseteq Nat, T # {}, NEW n \in Nat, \A x \in T : x <= n
  PROVE  Max(T) \in T /\ \A x \in T : x <= Max(T)
<1> DEFINE Bounds == {m \in Nat : \A x \in T : x <= m}
<1>1. n \in Bounds
  OBVIOUS
<1>2. PICK m \in Bounds : \A y \in Bounds : m <= y
  BY <1>1, Least
<1>3. m \in T
  <2>1. SUFFICES ASSUME m \notin T PROVE FALSE
    OBVIOUS
  <2>2. PICK z \in T : z \in Nat
    OBVIOUS
  <2>3. m \in Nat /\ m - 1 \in Int /\ m # 0 /\ ~(m <= m - 1)
    BY <1>2, <2>1, <2>2
  <2>4. \A x \in T : x <= m - 1
    BY <1>2, <2>1, <2>3
  <2>5. m - 1 \in Bounds
    BY <2>3, <2>4
  <2>6. QED
    BY <1>2, <2>3, <2>5
<1>4. \E x \in T : \A y \in T : x >= y
  BY <1>2, <1>3
<1>5. Max(T) \in T /\ \A y \in T : Max(T) >= y
  BY <1>4 DEF Max
<1>6. QED
  BY <1>5

-----------------------------------------------------------------------------
(* Parts of concatenations.                                                *)
LEMMA Slice ==
  ASSUME NEW S, NEW s \in Seq(S), NEW b \in Seq(S), NEW i \in Nat, NEW j \in Nat,
         j = Len(b), i + j <= Len(s), \A x \in 1..j : s[i + x] = b[x]
  PROVE  SubSeq(s, i + 1, i + j) = b
<1>1. PICK n \in Nat : n = Len(s)
  OBVIOUS
<1>2. PICK m \in Int, k \in Int : m = i + 1 /\ k = i + j /\ k <= n /\ 1 <= m
  BY <1>1
<1>3. \A x \in m..k : s[x] \in S
  <2>1. \A x \in m..k : x \in 1..n
    BY <1>2
  <2>2. \A x \in 1..n : s[x] \in S
    BY <1>1
  <2>3. QED
    BY <2>1, <2>2, Zenon
<1>4. /\ SubSeq(s, m, k) \in Seq(S)
      /\ Len(SubSeq(s, m, k)) = IF m <= k THEN k - m + 1 ELSE 0
      /\ \A x \in 1..(k - m + 1) : SubSeq(s, m, k)[x] = s[m + x - 1]
  BY <1>3, SubSeqProperties
<1>5. k - m + 1 = j /\ (~(m <= k) => j = 0)
  BY <1>2
<1>6. Len(SubSeq(s, m, k)) = Len(b)
  BY <1>4, <1>5
<1>7. ASSUME NEW x \in 1..Len(b) PROVE SubSeq(s, m, k)[x] = b[x]
  <2>1. m + x - 1 = i + x
    BY <1>2
  <2>2. QED
    BY <1>4, <1>5, <2>1
<1>8. SubSeq(s, m, k) = b
  BY <1>4, <1>6, <1>7, SeqEqual
<1>9. QED
  BY <1>2, <1>8

CutAt(s, S, m, n) ==
  /\ SubSeq(s, 1, m) \in Seq(S) /\ Len(SubSeq(s, 1, m)) = m
  /\ SubSeq(s, m + 1, n) \in Seq(S) /\ Len(SubSeq(s, m + 1, n)) = n - m
  /\ SubSeq(s, 1, m) \o SubSeq(s, m + 1, n) = s

LEMMA Cut ==
  ASSUME NEW S, NEW s \in Seq(S), NEW m \in Nat, NEW n \in Nat, n = Len(s), m <= n
  PROVE  CutAt(s, S, m, n)
<1>1. (\A i \in 1..m : s[i] \in S) /\ (\A i \in (m + 1)..n : s[i] \in S)
  OBVIOUS
<1>2. SubSeq(s, 1, m) \in Seq(S) /\ Len(SubSeq(s, 1, m)) = IF 1 <= m THEN m - 1 + 1 ELSE 0
  BY <1>1, SubSeqProperties
<1>3. SubSeq(s, m + 1, n) \in Seq(S) /\ Len(SubSeq(s, m + 1, n)) = IF m + 1 <= n THEN n - (m + 1) + 1 ELSE 0
  BY <1>1, SubSeqProperties
<1>4. SubSeq(s, 1, m) \o SubSeq(s, m + 1, n) = SubSeq(s, 1, n)
  <2>1. 1 \in 1..(n + 1) /\ m \in (1 - 1)..n /\ n \in m..n
    OBVIOUS
  <2>2. QED
    BY <2>1, ConcatAdjacentSubSeq
<1>5. SubSeq(s, 1, n) = s
  BY SubSeqFull
<1>6. (IF 1 <= m THEN m - 1 + 1 ELSE 0) = m /\ (IF m + 1 <= n THEN n - (m + 1) + 1 ELSE 0) = n - m
  OBVIOUS
<1>7. QED
  BY <1>2, <1>3, <1>4, <1>5, <1>6 DEF CutAt

(* What a concatenation of two sequences is, part by part.                 *)
Joined(s, S, a, b, i, j) ==
  /\ s \in Seq(S) /\ Len(s) = i + j
  /\ \A x \in 1..i : s[x] = a[x]
  /\ \A x \in 1..j : s[i + x] = b[x]

LEMMA Two ==
  ASSUME NEW S, NEW a \in Seq(S), NEW b \in Seq(S), NEW i \in Nat, NEW j \in Nat,
         i = Len(a), j = Len(b)
  PROVE  Joined(a \o b, S, a, b, i, j)
<1>1. /\ a \o b \in Seq(S) /\ Len(a \o b) = Len(a) + Len(b)
      /\ \A x \in 1..(Len(a) + Len(b)) :
           (a \o b)[x] = IF x <= Len(a) THEN a[x] ELSE b[x - Len(a)]
  BY ConcatProperties
<1>2. a \o b \in Seq(S) /\ Len(a \o b) = i + j
  BY <1>1
<1>3. \A x \in 1..(i + j) : (a \o b)[x] = IF x <= i THEN a[x] ELSE b[x - i]
  BY <1>1
<1>4. ASSUME NEW x \in 1..i PROVE (a \o b)[x] = a[x]
  <2>1. x \in 1..(i + j) /\ x <= i
    OBVIOUS
  <2>2. QED
    BY <1>3, <2>1
<1>5. ASSUME NEW x \in 1..j PROVE (a \o b)[i + x] = b[x]
  <2>1. i + x \in 1..(i + j) /\ ~(i + x <= i) /\ (i + x) - i = x
    OBVIOUS
  <2>2. QED
    BY <1>3, <2>1
<1>6. QED
  BY <1>2, <1>4, <1>5 DEF Joined

(* Frames and records have four parts.                                     *)
Split(s, S, a, b, c, d, i, j, k, l) ==
  /\ s \in Seq(S) /\ Len(s) = i + j + k + l
  /\ \A x \in 1..i : s[x] = a[x]
  /\ \A x \in 1..j : s[i + x] = b[x]
  /\ \A x \in 1..k : s[i + j + x] = c[x]
  /\ \A x \in 1..l : s[i + j + k + x] = d[x]

LEMMA Four ==
  ASSUME NEW S, NEW a \in Seq(S), NEW b \in Seq(S), NEW c \in Seq(S), NEW d \in Seq(S),
         NEW i \in Nat, NEW j \in Nat, NEW k \in Nat, NEW l \in Nat,
         i = Len(a), j = Len(b), k = Len(c), l = Len(d)
  PROVE  Split(a \o b \o c \o d, S, a, b, c, d, i, j, k, l)
<1>1. Joined(a \o b, S, a, b, i, j)
  BY Two
<1>2. PICK u \in Seq(S), m \in Nat : u = a \o b /\ m = i + j /\ m = Len(u)
  <2>1. a \o b \in Seq(S) /\ Len(a \o b) = i + j /\ i + j \in Nat
    BY <1>1 DEF Joined
  <2>2. QED
    BY <2>1
<1>3. Joined(u \o c, S, u, c, m, k)
  BY <1>2, Two
<1>4. PICK v \in Seq(S), n \in Nat : v = u \o c /\ n = m + k /\ n = Len(v)
  <2>1. u \o c \in Seq(S) /\ Len(u \o c) = m + k /\ m + k \in Nat
    BY <1>3 DEF Joined
  <2>2. QED
    BY <2>1
<1>5. Joined(v \o d, S, v, d, n, l)
  BY <1>4, Two
<1>6. PICK w \in Seq(S) : w = v \o d
  BY <1>5 DEF Joined
<1>7. w = a \o b \o c \o d
  BY <1>2, <1>4, <1>6
<1>8. Len(w) = i + j + k + l
  BY <1>2, <1>4, <1>5, <1>6 DEF Joined
<1>9. \A x \in 1..i : w[x] = a[x]
  <2>1. \A x \in 1..i : x \in 1..m /\ x \in 1..n
    BY <1>2, <1>4
  <2>2. QED
    BY <2>1, <1>1, <1>2, <1>3, <1>4, <1>5, <1>6, Zenon DEF Joined
<1>10. ASSUME NEW x \in 1..j PROVE w[i + x] = b[x]
  <2>1. i + x \in 1..m /\ i + x \in 1..n
    BY <1>2, <1>4
  <2>2. w[i + x] = v[i + x]
    BY <1>5, <1>6, <2>1, Zenon DEF Joined
  <2>3. v[i + x] = u[i + x]
    BY <1>3, <1>4, <2>1, Zenon DEF Joined
  <2>4. u[i + x] = b[x]
    BY <1>1, <1>2, Zenon DEF Joined
  <2>5. QED
    BY <2>2, <2>3, <2>4
<1>11. ASSUME NEW x \in 1..k PROVE w[i + j + x] = c[x]
  <2>1. m + x \in 1..n
    BY <1>2, <1>4
  <2>2. w[m + x] = c[x]
    BY <2>1, <1>3, <1>4, <1>5, <1>6, Zenon DEF Joined
  <2>3. QED
    BY <1>2, <2>2, Zenon
<1>12. ASSUME NEW x \in 1..l PROVE w[i + j + k + x] = d[x]
  <2>1. w[n + x] = d[x]
    BY <1>5, <1>6, Zenon DEF Joined
  <2>2. QED
    BY <1>2, <1>4, <2>1, Zenon
<1>13. QED
  <2>1. Split(w, S, a, b, c, d, i, j, k, l)
    BY <1>6, <1>8, <1>9, <1>10, <1>11, <1>12 DEF Split
  <2>2. QED
    BY <1>7, <2>1

(* A sequence with the same parts is that concatenation.                   *)
LEMMA SplitIs ==
  ASSUME NEW S, NEW s, NEW t, NEW a, NEW b, NEW c, NEW d,
         NEW i \in Nat, NEW j \in Nat, NEW k \in Nat, NEW l \in Nat,
         Split(s, S, a, b, c, d, i, j, k, l), Split(t, S, a, b, c, d, i, j, k, l)
  PROVE  s = t
<1>1. s \in Seq(S) /\ t \in Seq(S) /\ Len(s) = Len(t) /\ Len(s) = i + j + k + l
  BY DEF Split
<1>2. ASSUME NEW x \in 1..(i + j + k + l) PROVE s[x] = t[x]
  <2>1. CASE x <= i
    <3>1. x \in 1..i
      BY <2>1
    <3>2. QED
      BY <3>1 DEF Split
  <2>2. CASE x > i /\ x <= i + j
    <3>1. PICK y \in 1..j : x = i + y
      <4>1. x - i \in 1..j /\ x = i + (x - i)
        BY <2>2
      <4>2. QED
        BY <4>1
    <3>2. s[i + y] = t[i + y]
      BY DEF Split
    <3>3. QED
      BY <3>1, <3>2
  <2>3. CASE x > i + j /\ x <= i + j + k
    <3>1. PICK y \in 1..k : x = i + j + y
      <4>1. x - (i + j) \in 1..k /\ x = i + j + (x - (i + j))
        BY <2>3
      <4>2. QED
        BY <4>1
    <3>2. s[i + j + y] = t[i + j + y]
      BY DEF Split
    <3>3. QED
      BY <3>1, <3>2
  <2>4. CASE x > i + j + k
    <3>1. PICK y \in 1..l : x = i + j + k + y
      <4>1. x - (i + j + k) \in 1..l /\ x = i + j + k + (x - (i + j + k))
        BY <2>4
      <4>2. QED
        BY <4>1
    <3>2. s[i + j + k + y] = t[i + j + k + y]
      BY DEF Split
    <3>3. QED
      BY <3>1, <3>2
  <2>5. QED
    BY <2>1, <2>2, <2>3, <2>4
<1>3. QED
  BY <1>1, <1>2, SeqEqual

(* Two sequences that start with as much and are equal end with the same.  *)
LEMMA Cancel ==
  ASSUME NEW S, NEW a \in Seq(S), NEW b \in Seq(S), NEW x \in Seq(S), NEW y \in Seq(S),
         Len(a) = Len(b), a \o x = b \o y
  PROVE  x = y
<1>1. PICK i \in Nat, j \in Nat, k \in Nat : i = Len(a) /\ i = Len(b) /\ j = Len(x) /\ k = Len(y)
  OBVIOUS
<1>2. Joined(a \o x, S, a, x, i, j) /\ Joined(a \o x, S, b, y, i, k)
  <2>1. Joined(a \o x, S, a, x, i, j)
    BY <1>1, Two
  <2>2. Joined(b \o y, S, b, y, i, k)
    BY <1>1, Two
  <2>3. QED
    BY <2>1, <2>2
<1>3. j = k
  BY <1>2 DEF Joined
<1>4. \A n \in 1..j : x[n] = y[n]
  BY <1>2, <1>3, Zenon DEF Joined
<1>5. QED
  BY <1>1, <1>3, <1>4, SeqEqual

LEMMA Tails ==
  ASSUME NEW S, NEW s \in Seq(S), NEW n \in Nat, n = Len(s), NEW i \in 1..(n + 1)
  PROVE  SubSeq(s, i, n) \in Seq(S)
<1>1. \A x \in i..n : s[x] \in S
  <2>1. \A x \in i..n : x \in 1..n
    OBVIOUS
  <2>2. \A x \in 1..n : s[x] \in S
    OBVIOUS
  <2>3. QED
    BY <2>1, <2>2, Zenon
<1>2. i \in Int /\ n \in Int
  OBVIOUS
<1>3. QED
  BY <1>1, <1>2, SubSeqProperties
=============================================================================
