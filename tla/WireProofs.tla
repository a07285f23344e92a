----------------------------- MODULE WireProofs -----------------------------
(***************************************************************************)
(* Proofs about Wire, for all byte sizes, lengths of ids and lengths, and  *)
(* sets of plaintexts.                                                     *)
(***************************************************************************)
EXTENDS Wire, SeqLemmas

-----------------------------------------------------------------------------
(* Numbers as bytes.                                                       *)
LEMMA BaseFacts ==
  /\ Base \in Nat /\ Base > 5
  /\ \A x \in Nat : x * Base \in Nat /\ x \div Base \in Nat /\ (x % Base) \in Bytes
  /\ \A x \in Nat : (x \div Base) * Base + (x % Base) = x
<1>1. Base \in Nat /\ Base > 5
  BY WireAssumption DEF PONG
<1>2. ASSUME NEW x \in Nat
      PROVE  x * Base \in Nat /\ x \div Base \in Nat /\ (x % Base) \in Bytes
  BY <1>1 DEF Bytes
<1>3. ASSUME NEW x \in Nat PROVE (x \div Base) * Base + (x % Base) = x
  BY <1>1
<1>4. QED
  BY <1>1, <1>2, <1>3

LEMMA BaseIs == Base \in Nat /\ Base > 5
BY BaseFacts

LEMMA ByteFacts == \A d \in Bytes : d \in Nat /\ d < Base
BY BaseIs DEF Bytes

LEMMA BytesAreNats ==
  ASSUME NEW ds \in Seq(Bytes)
  PROVE  ds \in Seq(Nat) /\ \A i \in 1..Len(ds) : ds[i] \in Bytes
<1>1. \A i \in 1..Len(ds) : ds[i] \in Bytes
  OBVIOUS
<1>2. \A i \in 1..Len(ds) : ds[i] \in Nat
  BY <1>1, ByteFacts
<1>3. QED
  BY <1>1, <1>2

LEMMA ShiftsFacts ==
  ASSUME NEW n \in Nat, NEW k \in Nat
  PROVE  /\ Shifts(n, k) \in [0..k -> Nat] /\ Shifts(n, k)[0] = n
         /\ \A j \in 1..k : Shifts(n, k)[j] = Shifts(n, k)[j - 1] \div Base
<1> DEFINE Is(f) == f = [j \in 0..k |-> IF j = 0 THEN n ELSE f[j - 1] \div Base]
           step == [j \in 1..k |-> [x \in Nat |-> x \div Base]]
<1>1. step \in [1..k -> [Nat -> Nat]]
  BY BaseFacts
<1>2. \A j \in 1..k, x \in Nat : step[j][x] = x \div Base
  OBVIOUS
<1> HIDE DEF step
<1>3. PICK g \in [0..k -> Nat] : g[0] = n /\ \A j \in 1..k : g[j] = step[j][g[j - 1]]
  <2>1. \E g : Follows(g, Nat, k, n, step)
    BY <1>1, FcnExists
  <2>2. QED
    BY <2>1, Zenon DEF Follows
<1>4. ASSUME NEW j \in 1..k PROVE g[j] = g[j - 1] \div Base
  <2>1. j - 1 \in 0..k
    OBVIOUS
  <2>2. QED
    BY <1>2, <1>3, <2>1
<1>5. Is(g)
  BY <1>3, <1>4
<1>6. Is(CHOOSE f : Is(f))
  BY <1>5
<1>7. Is(Shifts(n, k))
  BY <1>6 DEF Shifts
<1>8. PICK f : f = Shifts(n, k) /\ Is(f)
  BY <1>7
<1>9. DOMAIN f = 0..k /\ f[0] = n /\ \A j \in 1..k : f[j] = f[j - 1] \div Base
  <2>1. PICK h : h = [j \in 0..k |-> IF j = 0 THEN n ELSE f[j - 1] \div Base] /\ f = h
    BY <1>8
  <2>2. DOMAIN h = 0..k /\ h[0] = n /\ \A j \in 1..k : h[j] = f[j - 1] \div Base
    BY <2>1
  <2>3. QED
    BY <2>1, <2>2, Zenon
<1>10. \A j \in 0..k : f[j] = g[j]
  <2>1. Alike(f, g, k)
    BY <1>3, <1>4, <1>9 DEF Alike
  <2>2. QED
    BY <2>1, FcnUnique
<1>11. f \in [0..k -> Nat]
  BY <1>8, <1>10
<1>12. QED
  BY <1>8, <1>9, <1>11

LEMMA PowersFacts ==
  ASSUME NEW k \in Nat
  PROVE  /\ Powers(k) \in [0..k -> Nat] /\ Powers(k)[0] = 1
         /\ \A j \in 1..k : Powers(k)[j] = Powers(k)[j - 1] * Base
<1> DEFINE Is(f) == f = [j \in 0..k |-> IF j = 0 THEN 1 ELSE f[j - 1] * Base]
           step == [j \in 1..k |-> [x \in Nat |-> x * Base]]
<1>1. step \in [1..k -> [Nat -> Nat]]
  BY BaseFacts
<1>2. \A j \in 1..k, x \in Nat : step[j][x] = x * Base
  OBVIOUS
<1> HIDE DEF step
<1>3. PICK g \in [0..k -> Nat] : g[0] = 1 /\ \A j \in 1..k : g[j] = step[j][g[j - 1]]
  <2>1. \E g : Follows(g, Nat, k, 1, step)
    BY <1>1, FcnExists
  <2>2. QED
    BY <2>1, Zenon DEF Follows
<1>4. ASSUME NEW j \in 1..k PROVE g[j] = g[j - 1] * Base
  <2>1. j - 1 \in 0..k
    OBVIOUS
  <2>2. QED
    BY <1>2, <1>3, <2>1
<1>5. Is(g)
  BY <1>3, <1>4
<1>6. Is(CHOOSE f : Is(f))
  BY <1>5
<1>7. Is(Powers(k))
  BY <1>6 DEF Powers
<1>8. PICK f : f = Powers(k) /\ Is(f)
  BY <1>7
<1>9. DOMAIN f = 0..k /\ f[0] = 1 /\ \A j \in 1..k : f[j] = f[j - 1] * Base
  <2>1. PICK h : h = [j \in 0..k |-> IF j = 0 THEN 1 ELSE f[j - 1] * Base] /\ f = h
    BY <1>8
  <2>2. DOMAIN h = 0..k /\ h[0] = 1 /\ \A j \in 1..k : h[j] = f[j - 1] * Base
    BY <2>1
  <2>3. QED
    BY <2>1, <2>2, Zenon
<1>10. \A j \in 0..k : f[j] = g[j]
  <2>1. Alike(f, g, k)
    BY <1>3, <1>4, <1>9 DEF Alike
  <2>2. QED
    BY <2>1, FcnUnique
<1>11. f \in [0..k -> Nat]
  BY <1>8, <1>10
<1>12. QED
  BY <1>8, <1>9, <1>11

LEMMA SumsFacts ==
  ASSUME NEW ds \in Seq(Nat), NEW k \in Nat, k = Len(ds)
  PROVE  /\ Sums(ds) \in [0..k -> Nat] /\ Sums(ds)[0] = 0
         /\ \A j \in 1..k : Sums(ds)[j] = Sums(ds)[j - 1] * Base + ds[j]
<1> DEFINE Is(f) == f = [j \in 0..k |-> IF j = 0 THEN 0 ELSE f[j - 1] * Base + ds[j]]
           step == [j \in 1..k |-> [x \in Nat |-> x * Base + ds[j]]]
<1>1. step \in [1..k -> [Nat -> Nat]]
  <2>1. ASSUME NEW j \in 1..k, NEW x \in Nat PROVE x * Base + ds[j] \in Nat
    <3>1. x * Base \in Nat
      BY BaseFacts
    <3>2. ds[j] \in Nat
      OBVIOUS
    <3>3. QED
      BY <3>1, <3>2
  <2>2. QED
    BY <2>1
<1>2. \A j \in 1..k, x \in Nat : step[j][x] = x * Base + ds[j]
  OBVIOUS
<1> HIDE DEF step
<1>3. PICK g \in [0..k -> Nat] : g[0] = 0 /\ \A j \in 1..k : g[j] = step[j][g[j - 1]]
  <2>1. \E g : Follows(g, Nat, k, 0, step)
    BY <1>1, FcnExists
  <2>2. QED
    BY <2>1, Zenon DEF Follows
<1>4. ASSUME NEW j \in 1..k PROVE g[j] = g[j - 1] * Base + ds[j]
  <2>1. j - 1 \in 0..k
    OBVIOUS
  <2>2. QED
    BY <1>2, <1>3, <2>1
<1>5. Is(g)
  BY <1>3, <1>4
<1>6. Is(CHOOSE f : Is(f))
  BY <1>5
<1>7. Is(Sums(ds))
  BY <1>6 DEF Sums
<1>8. PICK f : f = Sums(ds) /\ Is(f)
  BY <1>7
<1>9. DOMAIN f = 0..k /\ f[0] = 0 /\ \A j \in 1..k : f[j] = f[j - 1] * Base + ds[j]
  <2>1. PICK h : h = [j \in 0..k |-> IF j = 0 THEN 0 ELSE f[j - 1] * Base + ds[j]] /\ f = h
    BY <1>8
  <2>2. DOMAIN h = 0..k /\ h[0] = 0 /\ \A j \in 1..k : h[j] = f[j - 1] * Base + ds[j]
    BY <2>1
  <2>3. QED
    BY <2>1, <2>2, Zenon
<1>10. \A j \in 0..k : f[j] = g[j]
  <2>1. Alike(f, g, k)
    BY <1>3, <1>4, <1>9 DEF Alike
  <2>2. QED
    BY <2>1, FcnUnique
<1>11. f \in [0..k -> Nat]
  BY <1>8, <1>10
<1>12. QED
  BY <1>8, <1>9, <1>11

(* A number that k bytes can hold is gone after k shifts, and k bytes hold *)
(* no more than that.                                                      *)
LEMMA ShiftedOut ==
  ASSUME NEW k \in Nat, NEW n \in Nat, n < Power(k)
  PROVE  Shifts(n, k)[k] = 0
<1> DEFINE s == Shifts(n, k)
           p == Powers(k)
<1>1. s \in [0..k -> Nat] /\ s[0] = n /\ \A j \in 1..k : s[j] = s[j - 1] \div Base
  BY ShiftsFacts
<1>2. p \in [0..k -> Nat] /\ p[0] = 1 /\ \A j \in 1..k : p[j] = p[j - 1] * Base
  BY PowersFacts
<1>3. n < p[k]
  BY DEF Power
<1> HIDE DEF s, p
<1> DEFINE Ns == {j \in Nat : j <= k => s[j] < p[k - j]}
<1>4. 0 \in Ns
  BY <1>1, <1>3
<1>5. ASSUME NEW j \in Ns PROVE j + 1 \in Ns
  <2>0. j \in Nat /\ j + 1 \in Nat
    OBVIOUS
  <2>1. ASSUME j + 1 <= k PROVE s[j + 1] < p[k - (j + 1)]
    <3>1. PICK i \in 1..k : i = k - j
      BY <2>0, <2>1
    <3>2. s[j] < p[i]
      BY <2>0, <2>1, <3>1
    <3>3. j \in 0..k /\ j + 1 \in 1..k /\ (j + 1) - 1 = j /\ k - (j + 1) = i - 1 /\ i - 1 \in 0..k
      BY <2>0, <2>1, <3>1
    <3>4. PICK x \in Nat, y \in Nat : x = s[j] /\ y = p[i - 1]
      BY <1>1, <1>2, <3>3
    <3>5. x < y * Base
      BY <1>2, <3>2, <3>4
    <3>6. x \div Base < y
      BY <3>5, BaseFacts
    <3>7. s[j + 1] = x \div Base
      BY <1>1, <3>3, <3>4
    <3>8. QED
      BY <3>3, <3>4, <3>6, <3>7
  <2>2. QED
    BY <2>0, <2>1
<1>6. Ns = Nat
  <2>1. Ns \subseteq Nat
    OBVIOUS
  <2> HIDE DEF Ns
  <2>2. QED
    BY <1>4, <1>5, <2>1, Induct
<1>7. s[k] < p[0] /\ s[k] \in Nat
  <2>1. k \in Ns /\ k <= k /\ k - k = 0
    BY <1>6
  <2>2. QED
    BY <1>1, <2>1
<1>8. s[k] = 0
  BY <1>2, <1>7
<1>9. QED
  BY <1>8 DEF s

LEMMA ValueBound ==
  ASSUME NEW ds \in Seq(Bytes), NEW k \in Nat, k = Len(ds)
  PROVE  Value(ds) \in Nat /\ Value(ds) < Power(k)
<1> DEFINE v == Sums(ds)
           p == Powers(k)
<1>0. ds \in Seq(Nat) /\ \A i \in 1..k : ds[i] \in Bytes
  BY BytesAreNats
<1>1. v \in [0..k -> Nat] /\ v[0] = 0 /\ \A j \in 1..k : v[j] = v[j - 1] * Base + ds[j]
  BY <1>0, SumsFacts
<1>2. p \in [0..k -> Nat] /\ p[0] = 1 /\ \A j \in 1..k : p[j] = p[j - 1] * Base
  BY PowersFacts
<1> HIDE DEF v, p
<1> DEFINE Ns == {j \in Nat : j <= k => v[j] < p[j]}
<1>3. 0 \in Ns
  BY <1>1, <1>2
<1>4. ASSUME NEW j \in Ns PROVE j + 1 \in Ns
  <2>0. j \in Nat /\ j + 1 \in Nat
    OBVIOUS
  <2>1. ASSUME j + 1 <= k PROVE v[j + 1] < p[j + 1]
    <3>1. v[j] < p[j] /\ j \in 0..k /\ j + 1 \in 1..k /\ (j + 1) - 1 = j
      BY <2>0, <2>1
    <3>2. PICK x \in Nat, y \in Nat, d \in Bytes : x = v[j] /\ y = p[j] /\ d = ds[j + 1]
      BY <1>0, <1>1, <1>2, <3>1
    <3>3. x < y /\ d \in Nat /\ d < Base
      BY <3>1, <3>2, ByteFacts
    <3>4. x * Base + d < y * Base
      <4>1. (x + 1) * Base <= y * Base
        BY <3>3, BaseFacts
      <4>2. (x + 1) * Base = x * Base + Base
        BY BaseFacts
      <4>3. QED
        <5>1. x * Base \in Nat /\ y * Base \in Nat
          BY BaseFacts
        <5>2. QED
          BY <3>3, <4>1, <4>2, <5>1, BaseIs
    <3>5. QED
      BY <1>1, <1>2, <3>1, <3>2, <3>4
  <2>2. QED
    BY <2>0, <2>1
<1>5. Ns = Nat
  <2>1. Ns \subseteq Nat
    OBVIOUS
  <2> HIDE DEF Ns
  <2>2. QED
    BY <1>3, <1>4, <2>1, Induct
<1>6. v[k] \in Nat /\ v[k] < p[k]
  <2>1. k \in Ns /\ k <= k /\ k \in 0..k
    BY <1>5
  <2>2. QED
    BY <1>1, <2>1
<1>7. QED
  BY <1>6 DEF v, p, Value, Power

LEMMA DigitsFacts ==
  ASSUME NEW n \in Nat, NEW k \in Nat
  PROVE  Digits(n, k) \in Seq(Bytes) /\ Len(Digits(n, k)) = k
<1>1. Shifts(n, k) \in [0..k -> Nat]
  BY ShiftsFacts
<1>2. ASSUME NEW i \in 1..k PROVE (Shifts(n, k)[k - i] % Base) \in Bytes
  <2>1. k - i \in 0..k
    OBVIOUS
  <2>2. QED
    BY <1>1, <2>1, BaseFacts
<1>3. Digits(n, k) \in [1..k -> Bytes]
  BY <1>2 DEF Digits
<1>4. QED
  BY <1>3

(* from_be_bytes undoes to_be_bytes.                                       *)
LEMMA ValueOfDigits ==
  ASSUME NEW k \in Nat, NEW n \in Nat, n < Power(k)
  PROVE  Value(Digits(n, k)) = n
<1> DEFINE s == Shifts(n, k)
           d == Digits(n, k)
           v == Sums(d)
<1>1. s \in [0..k -> Nat] /\ s[0] = n /\ \A j \in 1..k : s[j] = s[j - 1] \div Base
  BY ShiftsFacts
<1>2. s[k] = 0
  BY ShiftedOut
<1>3. d \in Seq(Bytes) /\ Len(d) = k
  BY DigitsFacts
<1>4. \A i \in 1..k : d[i] = s[k - i] % Base
  BY DEF Digits
<1> HIDE DEF s, d
<1>5. d \in Seq(Nat)
  BY <1>3, BytesAreNats
<1>6. v \in [0..k -> Nat] /\ v[0] = 0 /\ \A j \in 1..k : v[j] = v[j - 1] * Base + d[j]
  BY <1>3, <1>5, SumsFacts
<1> HIDE DEF v
<1>7. PICK g : g = [i \in 0..k |-> s[k - i]]
  OBVIOUS
<1>8. ASSUME NEW i \in 1..k, v[i - 1] = g[i - 1] PROVE v[i] = g[i]
  <2>1. PICK j \in 1..k : j = k - i + 1
    OBVIOUS
  <2>2. i - 1 \in 0..k /\ k - (i - 1) = j /\ k - i = j - 1 /\ j - 1 \in 0..k
    BY <2>1
  <2>3. g[i - 1] = s[j] /\ g[i] = s[j - 1] /\ d[i] = s[j - 1] % Base
    BY <1>4, <1>7, <2>2
  <2>4. PICK x \in Nat : x = s[j - 1]
    BY <1>1, <2>2
  <2>5. v[i - 1] = x \div Base /\ d[i] = x % Base /\ g[i] = x
    BY <1>1, <1>8, <2>3, <2>4
  <2>6. (x \div Base) * Base + (x % Base) = x
    BY BaseFacts
  <2>7. QED
    BY <1>6, <2>5, <2>6
<1>9. v[0] = g[0]
  BY <1>2, <1>6, <1>7
<1>10. \A i \in 0..k : v[i] = g[i]
  BY <1>8, <1>9, FcnUnique DEF Alike
<1>11. k \in 0..k /\ k - k = 0
  OBVIOUS
<1>12. v[k] = n
  BY <1>1, <1>7, <1>10, <1>11
<1>13. QED
  BY <1>3, <1>12 DEF Value, v, d

LEMMA ShiftedIn ==
  ASSUME NEW x \in Nat, NEW d \in Bytes
  PROVE  (x * Base + d) \div Base = x /\ (x * Base + d) % Base = d
<1>1. PICK y \in Nat : y = x * Base + d
  BY BaseFacts, ByteFacts
<1>2. PICK q \in Nat, r \in Bytes : q = y \div Base /\ r = y % Base /\ q * Base + r = y
  BY BaseFacts
<1>3. q * Base + r = x * Base + d
  BY <1>1, <1>2
<1>4. q = x
  <2>1. CASE q < x
    <3>1. (q + 1) * Base <= x * Base /\ (q + 1) * Base = q * Base + Base
      BY <2>1, BaseIs
    <3>2. q * Base \in Nat /\ x * Base \in Nat /\ r \in Nat /\ r < Base /\ d \in Nat
      BY BaseFacts, ByteFacts
    <3>3. QED
      BY <1>3, <3>1, <3>2, BaseIs
  <2>2. CASE x < q
    <3>1. (x + 1) * Base <= q * Base /\ (x + 1) * Base = x * Base + Base
      BY <2>2, BaseIs
    <3>2. q * Base \in Nat /\ x * Base \in Nat /\ r \in Nat /\ d < Base /\ d \in Nat
      BY BaseFacts, ByteFacts
    <3>3. QED
      BY <1>3, <3>1, <3>2, BaseIs
  <2>3. QED
    BY <2>1, <2>2
<1>5. r = d
  <2>1. q * Base \in Nat /\ r \in Nat /\ d \in Nat /\ q * Base + r = q * Base + d
    BY <1>3, <1>4, BaseFacts, ByteFacts
  <2>2. QED
    BY <2>1
<1>6. QED
  BY <1>1, <1>2, <1>4, <1>5

(* to_be_bytes undoes from_be_bytes.                                       *)
LEMMA DigitsOfValue ==
  ASSUME NEW ds \in Seq(Bytes), NEW k \in Nat, k = Len(ds)
  PROVE  Digits(Value(ds), k) = ds
<1> DEFINE v == Sums(ds)
<1>1. ds \in Seq(Nat) /\ \A i \in 1..k : ds[i] \in Bytes
  BY BytesAreNats
<1>2. v \in [0..k -> Nat] /\ v[0] = 0 /\ \A j \in 1..k : v[j] = v[j - 1] * Base + ds[j]
  BY <1>1, SumsFacts
<1>3. Value(ds) = v[k]
  BY DEF Value
<1> HIDE DEF v
<1>4. PICK n \in Nat : n = v[k] /\ n = Value(ds)
  <2>1. k \in 0..k
    OBVIOUS
  <2>2. QED
    BY <1>2, <1>3, <2>1
<1> DEFINE s == Shifts(n, k)
<1>5. s \in [0..k -> Nat] /\ s[0] = n /\ \A j \in 1..k : s[j] = s[j - 1] \div Base
  BY ShiftsFacts
<1> HIDE DEF s
<1>6. PICK g : g = [j \in 0..k |-> v[k - j]]
  OBVIOUS
<1>7. ASSUME NEW j \in 1..k, s[j - 1] = g[j - 1] PROVE s[j] = g[j]
  <2>1. PICK i \in 1..k : i = k - j + 1
    OBVIOUS
  <2>2. j - 1 \in 0..k /\ k - (j - 1) = i /\ k - j = i - 1 /\ i - 1 \in 0..k
    BY <2>1
  <2>3. g[j - 1] = v[i] /\ g[j] = v[i - 1]
    <3>1. \A x \in 0..k : g[x] = v[k - x]
      BY <1>6
    <3>2. j \in 0..k
      OBVIOUS
    <3>3. QED
      BY <2>2, <3>1, <3>2, Zenon
  <2>4. PICK x \in Nat, d \in Bytes : x = v[i - 1] /\ d = ds[i]
    BY <1>1, <1>2, <2>2
  <2>5. s[j] = (x * Base + d) \div Base
    BY <1>2, <1>5, <1>7, <2>3, <2>4
  <2>6. QED
    BY <2>3, <2>4, <2>5, ShiftedIn
<1>8. s[0] = g[0]
  <2>1. 0 \in 0..k /\ k - 0 = k
    OBVIOUS
  <2>2. g[0] = v[k]
    BY <1>6, <2>1
  <2>3. QED
    BY <1>4, <1>5, <2>2
<1>9. \A j \in 0..k : s[j] = g[j]
  <2>1. Alike(s, g, k)
    BY <1>7, <1>8, Zenon DEF Alike
  <2>2. QED
    BY <2>1, FcnUnique
<1>10. ASSUME NEW i \in 1..k PROVE Digits(n, k)[i] = ds[i]
  <2>1. k - i \in 0..k /\ k - (k - i) = i /\ i - 1 \in 0..k
    OBVIOUS
  <2>2. Digits(n, k)[i] = s[k - i] % Base
    BY DEF Digits, s
  <2>3. s[k - i] = v[i]
    BY <1>6, <1>9, <2>1
  <2>4. PICK x \in Nat, d \in Bytes : x = v[i - 1] /\ d = ds[i]
    BY <1>1, <1>2, <2>1
  <2>5. v[i] = x * Base + d
    BY <1>2, <2>4
  <2>6. QED
    BY <2>2, <2>3, <2>4, <2>5, ShiftedIn
<1>11. Digits(n, k) \in Seq(Bytes) /\ Len(Digits(n, k)) = k
  BY DigitsFacts
<1>12. Digits(n, k) = ds
  BY <1>10, <1>11, SeqEqual
<1>13. QED
  BY <1>4, <1>12

-----------------------------------------------------------------------------
(* The frame codec.                                                        *)
LEMMA Assoc ==
  \A a, b, c \in Seq(Bytes) : (a \o b) \o c = a \o (b \o c)
BY ConcatAssociative

LEMMA Constants ==
  /\ IdLen \in Nat /\ LenLen \in Nat /\ MaxData \in Nat /\ NonceLen \in Nat /\ ReadBuf \in Nat
  /\ IdLen > 0 /\ LenLen > 0 /\ ReadBuf > 0
  /\ MaxData < Power(LenLen) /\ NonceLen < Power(LenLen)
BY WireAssumption

LEMMA PowerIs == ASSUME NEW k \in Nat PROVE Power(k) \in Nat
<1>1. Powers(k) \in [0..k -> Nat] /\ k \in 0..k
  BY PowersFacts
<1>2. QED
  BY <1>1 DEF Power

LEMMA TypesAreBytes == \A t \in OPEN..PONG : t \in Bytes
BY BaseIs DEF Bytes, OPEN, PONG

LEMMA Encoded ==
  ASSUME NEW t \in Bytes, NEW id \in Nat, NEW q \in Seq(Bytes), NEW l \in Nat, l = Len(q)
  PROVE  Split(Encode(Frame(t, id, q)), Bytes, <<t>>, Digits(id, IdLen), Digits(l, LenLen), q,
               1, IdLen, LenLen, l)
<1>1. /\ Digits(id, IdLen) \in Seq(Bytes) /\ Len(Digits(id, IdLen)) = IdLen
      /\ Digits(l, LenLen) \in Seq(Bytes) /\ Len(Digits(l, LenLen)) = LenLen
  BY DigitsFacts, Constants
<1>2. <<t>> \in Seq(Bytes) /\ Len(<<t>>) = 1
  OBVIOUS
<1>3. Encode(Frame(t, id, q)) = <<t>> \o Digits(id, IdLen) \o Digits(l, LenLen) \o q
  BY DEF Encode, Frame
<1> DEFINE x == Digits(id, IdLen)
           y == Digits(l, LenLen)
<1> HIDE DEF x, y
<1>4. Split(<<t>> \o x \o y \o q, Bytes, <<t>>, x, y, q, 1, IdLen, LenLen, l)
  BY <1>1, <1>2, Constants, Four DEF x, y
<1>5. QED
  BY <1>3, <1>4 DEF x, y

(* What Decode reads from the fields is what Encode wrote to them.         *)
LEMMA Fields ==
  ASSUME NEW t \in Bytes, NEW id \in Ids, NEW q \in Seq(Bytes), NEW l \in Nat, l = Len(q),
         l < Power(LenLen), NEW p, p = Encode(Frame(t, id, q))
  PROVE  /\ p \in Seq(Bytes) /\ Len(p) = FrameHeader + l /\ p[1] = t
         /\ Stream(p) = id /\ PayloadLen(p) = l /\ Payload(p) = q
<1> DEFINE x == Digits(id, IdLen)
           y == Digits(l, LenLen)
<1>0. id \in Nat /\ id < Power(IdLen)
  <2>1. Power(IdLen) \in Nat
    BY PowerIs, Constants
  <2>2. QED
    BY <2>1 DEF Ids
<1>1. Split(p, Bytes, <<t>>, x, y, q, 1, IdLen, LenLen, l)
  BY <1>0, Encoded
<1>2. /\ x \in Seq(Bytes) /\ Len(x) = IdLen /\ y \in Seq(Bytes) /\ Len(y) = LenLen
      /\ Value(x) = id /\ Value(y) = l
  BY <1>0, DigitsFacts, ValueOfDigits, Constants
<1> HIDE DEF x, y
<1>3. /\ p \in Seq(Bytes) /\ Len(p) = 1 + IdLen + LenLen + l
      /\ \A n \in 1..1 : p[n] = <<t>>[n]
      /\ \A n \in 1..IdLen : p[1 + n] = x[n]
      /\ \A n \in 1..LenLen : p[1 + IdLen + n] = y[n]
      /\ \A n \in 1..l : p[1 + IdLen + LenLen + n] = q[n]
  BY <1>1 DEF Split
<1>4. p[1] = t
  BY <1>3
<1>5. SubSeq(p, 1 + 1, 1 + IdLen) = x
  <2>1. 1 \in Nat /\ 1 + IdLen <= Len(p)
    BY <1>3, Constants
  <2>2. QED
    BY <1>2, <1>3, <2>1, Constants, Slice
<1>6. SubSeq(p, (1 + IdLen) + 1, (1 + IdLen) + LenLen) = y
  <2>1. 1 + IdLen \in Nat /\ (1 + IdLen) + LenLen <= Len(p)
    BY <1>3, Constants
  <2>2. QED
    BY <1>2, <1>3, <2>1, Constants, Slice
<1>7. SubSeq(p, (1 + IdLen + LenLen) + 1, (1 + IdLen + LenLen) + l) = q
  <2>1. PICK h \in Nat : h = 1 + IdLen + LenLen /\ h + l <= Len(p)
    BY <1>3, Constants
  <2>2. \A n \in 1..l : p[h + n] = q[n]
    BY <1>3, <2>1, Zenon
  <2>3. SubSeq(p, h + 1, h + l) = q
    BY <1>3, <2>1, <2>2, Slice
  <2>4. QED
    BY <2>1, <2>3
<1>8. 1 + 1 = 2 /\ (1 + IdLen) + 1 = 2 + IdLen
  BY Constants
<1>9. Stream(p) = id /\ PayloadLen(p) = l /\ Payload(p) = q
  BY <1>2, <1>3, <1>5, <1>6, <1>7, <1>8 DEF Stream, PayloadLen, Payload, FrameHeader
<1>10. QED
  BY <1>3, <1>4, <1>9 DEF FrameHeader

(* A frame decodes to itself; only the stream of a keepalive frame is not  *)
(* looked at.                                                              *)
LEMMA DecodeOf ==
  ASSUME NEW t \in OPEN..PONG, NEW i \in Nat, NEW id \in Ids, NEW q \in Seq(Bytes),
         IsFrame(Frame(t, i, q)), t \in {PING, PONG} \/ id = i
  PROVE  Decode(Encode(Frame(t, id, q))) = Frame(t, i, q) /\ Frame(t, i, q) # Malformed
<1>1. PICK p : p = Encode(Frame(t, id, q))
  OBVIOUS
<1>0. PICK l \in Nat : l = Len(q)
  OBVIOUS
<1>2. t \in Nat /\ t # 0 /\ t \in Bytes
  BY TypesAreBytes DEF OPEN, PONG
<1>3. LengthFits(t, l) /\ (t \in {PING, PONG} => i = 0)
  <2>1. \/ t \in {OPEN, CLOSE} /\ q = <<>>
        \/ t = DATA /\ l <= MaxData
        \/ t \in {PING, PONG} /\ i = 0 /\ l = NonceLen
    BY <1>0 DEF IsFrame, Frame
  <2>2. QED
    BY <1>0, <2>1 DEF LengthFits, OPEN, CLOSE, DATA, PING, PONG
<1>4. l < Power(LenLen)
  <2>1. Power(LenLen) \in Nat
    BY PowerIs, Constants
  <2>2. l = 0 \/ l <= MaxData \/ l = NonceLen
    BY <1>3 DEF LengthFits
  <2>3. QED
    BY <2>1, <2>2, Constants
<1>5. /\ Len(p) = FrameHeader + l /\ p[1] = t
      /\ Stream(p) = id /\ PayloadLen(p) = l /\ Payload(p) = q
  BY <1>0, <1>1, <1>2, <1>4, Fields
<1>6. Len(p) >= FrameHeader
  BY <1>5, Constants DEF FrameHeader
<1>7. Decode(p) = Frame(t, IF t \in {PING, PONG} THEN 0 ELSE id, q)
  BY <1>0, <1>1, <1>3, <1>5, <1>6 DEF Decode
<1>8. (IF t \in {PING, PONG} THEN 0 ELSE id) = i
  BY <1>3
<1>9. Frame(t, i, q) # Malformed
  BY <1>2 DEF Malformed, Frame
<1>10. QED
  BY <1>1, <1>7, <1>8, <1>9

(* Frame::decode undoes Frame::encode_into, for every frame there is:      *)
(* whatever the widths of the fields, no stream id or payload is changed,  *)
(* cut off or taken for something malformed.                               *)
THEOREM CodecRoundTrip ==
  \A f \in [type : OPEN..PONG, stream : Ids, payload : Seq(Bytes)] :
    IsFrame(f) => Decode(Encode(f)) = f
<1>1. SUFFICES ASSUME NEW f \in [type : OPEN..PONG, stream : Ids, payload : Seq(Bytes)], IsFrame(f)
               PROVE  Decode(Encode(f)) = f
  OBVIOUS
<1>2. PICK t \in OPEN..PONG, i \in Ids, q \in Seq(Bytes) : f = Frame(t, i, q)
  <2>1. f = Frame(f.type, f.stream, f.payload)
    BY DEF Frame
  <2>2. QED
    BY <2>1
<1>3. i \in Nat
  <2>1. Power(IdLen) \in Nat
    BY PowerIs, Constants
  <2>2. QED
    BY <2>1 DEF Ids
<1>4. QED
  BY <1>1, <1>2, <1>3, DecodeOf

LEMMA IdsAreNats == \A i \in Ids : i \in Nat /\ i < Power(IdLen)
<1>1. Power(IdLen) \in Nat
  BY PowerIs, Constants
<1>2. QED
  BY <1>1 DEF Ids

LEMMA PlainsAre == \A p \in Plains : p \in Seq(Bytes) /\ Len(p) + 1 < Power(LenLen)
BY WireAssumption

(* What Decode accepts is a frame, and the bytes are those of that frame.  *)
LEMMA Means ==
  ASSUME NEW p \in Plains, Decode(p) # Malformed
  PROVE  Decode(p) \in Meanings[p]
<1>1. PICK n \in Nat : n = Len(p)
  BY PlainsAre
<1>2. p \in Seq(Bytes)
  BY PlainsAre
<1>3. PICK h \in Nat : h = FrameHeader /\ h = 1 + IdLen + LenLen
  BY Constants DEF FrameHeader
<1> DEFINE t == p[1]
           x == SubSeq(p, 2, 1 + IdLen)
           y == SubSeq(p, 2 + IdLen, h)
           q == SubSeq(p, h + 1, n)
           i == IF t \in {PING, PONG} THEN 0 ELSE Value(x)
<1>4. Payload(p) = q /\ Stream(p) = Value(x) /\ PayloadLen(p) = Value(y)
  BY <1>1, <1>3 DEF Payload, Stream, PayloadLen
<1>5. n >= h /\ Len(q) = Value(y) /\ LengthFits(t, Value(y)) /\ Decode(p) = Frame(t, i, q)
  BY <1>1, <1>3, <1>4 DEF Decode
<1>6. PICK l \in Nat : n = h + l
  <2>1. n - h \in Nat /\ n = h + (n - h)
    BY <1>5
  <2>2. QED
    BY <2>1
<1>7. \A z \in 1..n : p[z] \in Bytes
  BY <1>1, <1>2
<1>8. /\ x \in Seq(Bytes) /\ Len(x) = IdLen
      /\ \A z \in 1..IdLen : x[z] = p[1 + z]
  <2>1. PICK b \in Int : b = 1 + IdLen /\ b <= n
    BY <1>3, <1>6, Constants
  <2>2. \A z \in 2..b : p[z] \in Bytes
    BY <1>7, <2>1
  <2>3. /\ SubSeq(p, 2, b) \in Seq(Bytes)
        /\ Len(SubSeq(p, 2, b)) = IF 2 <= b THEN b - 2 + 1 ELSE 0
        /\ \A z \in 1..(b - 2 + 1) : SubSeq(p, 2, b)[z] = p[2 + z - 1]
    BY <2>2, SubSeqProperties
  <2>4. b - 2 + 1 = IdLen /\ 2 <= b /\ \A z \in 1..IdLen : 2 + z - 1 = 1 + z
    BY <2>1, Constants
  <2>5. QED
    BY <2>1, <2>3, <2>4
<1>9. /\ y \in Seq(Bytes) /\ Len(y) = LenLen
      /\ \A z \in 1..LenLen : y[z] = p[1 + IdLen + z]
  <2>1. PICK a \in Int, b \in Int : a = 2 + IdLen /\ b = h /\ b <= n
    BY <1>3, <1>6, Constants
  <2>2. \A z \in a..b : p[z] \in Bytes
    BY <1>7, <2>1, Constants
  <2>3. /\ SubSeq(p, a, b) \in Seq(Bytes)
        /\ Len(SubSeq(p, a, b)) = IF a <= b THEN b - a + 1 ELSE 0
        /\ \A z \in 1..(b - a + 1) : SubSeq(p, a, b)[z] = p[a + z - 1]
    BY <2>2, SubSeqProperties
  <2>4. b - a + 1 = LenLen /\ a <= b /\ \A z \in 1..LenLen : a + z - 1 = 1 + IdLen + z
    BY <1>3, <2>1, Constants
  <2>5. QED
    BY <2>1, <2>3, <2>4
<1>10. /\ q \in Seq(Bytes) /\ Len(q) = l
       /\ \A z \in 1..l : q[z] = p[h + z]
  <2>1. PICK a \in Int, b \in Int : a = h + 1 /\ b = n /\ b = h + l
    BY <1>6
  <2>2. \A z \in a..b : p[z] \in Bytes
    BY <1>7, <2>1
  <2>3. /\ SubSeq(p, a, b) \in Seq(Bytes)
        /\ Len(SubSeq(p, a, b)) = IF a <= b THEN b - a + 1 ELSE 0
        /\ \A z \in 1..(b - a + 1) : SubSeq(p, a, b)[z] = p[a + z - 1]
    BY <2>2, SubSeqProperties
  <2>4. b - a + 1 = l /\ (~(a <= b) => l = 0) /\ \A z \in 1..l : a + z - 1 = h + z
    BY <2>1
  <2>5. QED
    BY <2>1, <2>3, <2>4
<1>11. t \in OPEN..PONG /\ t \in Bytes
  <2>1. t \in {OPEN, CLOSE, DATA, PING, PONG}
    BY <1>5 DEF LengthFits
  <2>2. t \in OPEN..PONG
    BY <2>1 DEF OPEN, CLOSE, DATA, PING, PONG
  <2>3. QED
    BY <2>2, TypesAreBytes
<1>12. Value(x) \in Ids /\ 0 \in Ids
  <2>1. Value(x) \in Nat /\ Value(x) < Power(IdLen) /\ Power(IdLen) \in Nat
    BY <1>8, ValueBound, PowerIs, Constants
  <2>2. QED
    BY <2>1 DEF Ids
<1>13. PICK v \in Ids : v = Value(x) /\ v \in Nat
  BY <1>12, IdsAreNats
<1>14. Digits(v, IdLen) = x /\ Digits(l, LenLen) = y
  BY <1>5, <1>8, <1>9, <1>10, <1>13, DigitsOfValue, Constants
<1>15. p = Encode(Frame(t, v, q))
  <2>1. Split(Encode(Frame(t, v, q)), Bytes, <<t>>, x, y, q, 1, IdLen, LenLen, l)
    <3> HIDE DEF t, x, y, q
    <3>1. Split(Encode(Frame(t, v, q)), Bytes, <<t>>, Digits(v, IdLen), Digits(l, LenLen), q,
                1, IdLen, LenLen, l)
      BY <1>10, <1>11, <1>13, Encoded
    <3>2. QED
      BY <1>14, <3>1
  <2>2. Split(p, Bytes, <<t>>, x, y, q, 1, IdLen, LenLen, l)
    <3>1. Len(p) = 1 + IdLen + LenLen + l
      BY <1>1, <1>3, <1>6
    <3>2. \A z \in 1..1 : p[z] = <<t>>[z]
      OBVIOUS
    <3>3. \A z \in 1..l : p[1 + IdLen + LenLen + z] = q[z]
      BY <1>3, <1>10
    <3> HIDE DEF x, y, q
    <3>4. QED
      BY <1>2, <1>8, <1>9, <3>1, <3>2, <3>3 DEF Split
  <2>3. QED
    BY <2>1, <2>2, SplitIs, Constants
<1>16. IsFrame(Frame(t, i, q))
  <2>1. Len(q) = 0 => q = <<>>
    BY <1>10
  <2> HIDE DEF q, t
  <2>2. CASE t \in {OPEN, CLOSE} /\ Value(y) = 0
    BY <1>5, <2>1, <2>2 DEF IsFrame, Frame
  <2>3. CASE t = DATA /\ Value(y) <= MaxData
    BY <1>5, <2>3 DEF IsFrame, Frame
  <2>4. CASE t \in {PING, PONG} /\ Value(y) = NonceLen
    <3>1. i = 0
      BY <2>4
    <3>2. QED
      BY <1>5, <2>4, <3>1 DEF IsFrame, Frame
  <2>5. QED
    BY <1>5, <2>2, <2>3, <2>4 DEF LengthFits
<1>17. Encodes(p, Frame(t, i, q))
  <2>1. Frame(t, i, q).type = t /\ Frame(t, i, q).stream = i /\ Frame(t, i, q).payload = q
    BY DEF Frame
  <2>2. t \in {PING, PONG} \/ v = i
    BY <1>13
  <2>3. QED
    BY <1>13, <1>15, <2>1, <2>2 DEF Encodes
<1>18. Frame(t, i, q) \in Candidates(p)
  <2>1. h + 1 \in 1..(Len(p) + 1) /\ i \in Ids
    BY <1>1, <1>5, <1>12
  <2>2. QED
    BY <1>1, <1>11, <2>1 DEF Candidates
<1>19. QED
  BY <1>5, <1>16, <1>17, <1>18 DEF Meanings

(* Conversely, Decode accepts every encoding of a frame, as that frame.    *)
LEMMA MeansOnly ==
  ASSUME NEW p \in Plains, NEW f \in Meanings[p]
  PROVE  Decode(p) = f /\ f # Malformed
<1>1. f \in Candidates(p) /\ IsFrame(f) /\ Encodes(p, f)
  BY DEF Meanings
<1>2. PICK n \in Nat : n = Len(p)
  BY PlainsAre
<1>3. PICK t \in OPEN..PONG, i \in Ids, z \in 1..(n + 1) : f = Frame(t, i, SubSeq(p, z, n))
  BY <1>1, <1>2 DEF Candidates
<1>4. PICK q \in Seq(Bytes) : q = SubSeq(p, z, n)
  BY <1>2, Tails, PlainsAre
<1>5. f = Frame(t, i, q) /\ f.type = t /\ f.stream = i /\ f.payload = q
  BY <1>3, <1>4 DEF Frame
<1>6. PICK id \in Ids : (t \in {PING, PONG} \/ id = i) /\ p = Encode(Frame(t, id, q))
  BY <1>1, <1>5 DEF Encodes
<1>7. i \in Nat /\ IsFrame(Frame(t, i, q))
  BY <1>1, <1>5, IdsAreNats
<1>8. Decode(Encode(Frame(t, id, q))) = Frame(t, i, q) /\ Frame(t, i, q) # Malformed
  BY <1>6, <1>7, DecodeOf
<1>9. QED
  BY <1>5, <1>6, <1>8

(* So what a record says is what the reader makes of it.                   *)
LEMMA SaidIs ==
  ASSUME NEW r, r.plain \in Plains
  PROVE  Said(r) = IF r.tag = 0 /\ Decode(r.plain) # Malformed
                   THEN <<Decode(r.plain)>> ELSE <<>>
<1>1. PICK p \in Plains : p = r.plain
  OBVIOUS
<1>2. Meanings[p] = IF Decode(p) # Malformed THEN {Decode(p)} ELSE {}
  <2>1. CASE Decode(p) # Malformed
    BY <2>1, Means, MeansOnly
  <2>2. CASE Decode(p) = Malformed
    <3>1. \A f \in Meanings[p] : FALSE
      BY <2>2, MeansOnly
    <3>2. QED
      BY <2>2, <3>1
  <2>3. QED
    BY <2>1, <2>2
<1>3. \A d : (CHOOSE f \in {d} : TRUE) = d
  OBVIOUS
<1>4. QED
  BY <1>1, <1>2, <1>3 DEF Said

-----------------------------------------------------------------------------
(* The record buffer.                                                      *)
Records == [plain : Plains, tag : {0, 1}]

LEMMA Dressed ==
  ASSUME NEW r \in Records, NEW l \in Nat, l = Len(r.plain)
  PROVE  /\ Split(Dress(r), Bytes, <<0>>, Digits(l + 1, LenLen), r.plain, <<r.tag>>, 1, LenLen, l, 1)
         /\ Value(Digits(l + 1, LenLen)) = l + 1
<1>1. r.plain \in Seq(Bytes) /\ l + 1 < Power(LenLen) /\ r.tag \in {0, 1} /\ l + 1 \in Nat
  BY PlainsAre DEF Records
<1>2. 0 \in Bytes /\ r.tag \in Bytes
  BY <1>1, BaseIs DEF Bytes
<1>3. PICK d \in Seq(Bytes) : d = Digits(l + 1, LenLen) /\ Len(d) = LenLen
  BY <1>1, DigitsFacts, Constants
<1>4. PICK p \in Seq(Bytes), z \in Seq(Bytes), a \in Seq(Bytes) :
        p = r.plain /\ z = <<r.tag>> /\ Len(z) = 1 /\ a = <<0>> /\ Len(a) = 1
  <2>1. <<0>> \in Seq(Bytes) /\ Len(<<0>>) = 1
    BY <1>2
  <2>2. <<r.tag>> \in Seq(Bytes) /\ Len(<<r.tag>>) = 1
    BY <1>2
  <2>3. QED
    BY <1>1, <2>1, <2>2
<1>5. Split(a \o d \o p \o z, Bytes, a, d, p, z, 1, LenLen, l, 1)
  BY <1>3, <1>4, Constants, Four
<1>6. Dress(r) = a \o d \o p \o z
  BY <1>3, <1>4 DEF Dress
<1>7. Value(Digits(l + 1, LenLen)) = l + 1
  BY <1>1, ValueOfDigits, Constants
<1>8. QED
  BY <1>3, <1>4, <1>5, <1>6, <1>7

LEMMA DressIs ==
  ASSUME NEW r \in Records
  PROVE  Dress(r) \in Seq(Bytes) /\ Len(r.plain) \in Nat /\ Len(Dress(r)) = RecordHeader + Len(r.plain) + 1
<1>1. PICK l \in Nat : l = Len(r.plain)
  BY PlainsAre DEF Records
<1>2. Dress(r) \in Seq(Bytes) /\ Len(Dress(r)) = 1 + LenLen + l + 1
  BY <1>1, Dressed DEF Split
<1>3. QED
  BY <1>1, <1>2 DEF RecordHeader

(* take_record on a buffer b that was consumed up to ps and goes on with   *)
(* the record r, of which w is still to come: the length it reads is that  *)
(* of r, and once r is there, the plaintext and the tag are those of r.    *)
Found(b, ps, r) ==
  /\ RecordHeader + Value(SubSeq(b, ps + 2, ps + RecordHeader)) = Len(Dress(r))
  /\ ps + Len(Dress(r)) <= Len(b) =>
       /\ SubSeq(b, ps + RecordHeader + 1, ps + Len(Dress(r)) - 1) = r.plain
       /\ b[ps + Len(Dress(r))] = r.tag

LEMMA Finds ==
  ASSUME NEW b \in Seq(Bytes), NEW w \in Seq(Bytes), NEW pre \in Seq(Bytes), NEW rest \in Seq(Bytes),
         NEW r \in Records, NEW ps \in Nat, ps = Len(pre), ps + RecordHeader <= Len(b),
         b \o w = pre \o (Dress(r) \o rest)
  PROVE  Found(b, ps, r)
<1>1. PICK l \in Nat : l = Len(r.plain)
  BY PlainsAre DEF Records
<1>2. PICK n \in Nat, nw \in Nat, nr \in Nat : n = Len(b) /\ nw = Len(w) /\ nr = Len(rest)
  OBVIOUS
<1>3. PICK e \in Seq(Bytes) : e = Dress(r)
  BY DressIs
<1>4. PICK h \in Nat : h = RecordHeader /\ h = 1 + LenLen
  BY Constants DEF RecordHeader
<1>5. PICK ne \in Nat : ne = Len(e) /\ ne = h + l + 1
  BY <1>1, <1>3, <1>4, DressIs
<1>6. PICK d \in Seq(Bytes) : d = Digits(l + 1, LenLen) /\ Len(d) = LenLen /\ Value(d) = l + 1
  <2>1. l + 1 \in Nat
    OBVIOUS
  <2>2. QED
    BY <1>1, <2>1, Dressed, DigitsFacts, Constants
<1>7. Split(e, Bytes, <<0>>, d, r.plain, <<r.tag>>, 1, LenLen, l, 1)
  BY <1>1, <1>3, <1>6, Dressed
<1>8. PICK u \in Seq(Bytes) : u = e \o rest /\ Len(u) = ne + nr /\ \A x \in 1..ne : u[x] = e[x]
  <2>1. Joined(e \o rest, Bytes, e, rest, ne, nr)
    BY <1>2, <1>5, Two
  <2>2. QED
    BY <2>1 DEF Joined
<1>9. PICK all \in Seq(Bytes) : all = b \o w /\ \A x \in 1..n : all[x] = b[x]
  <2>1. Joined(b \o w, Bytes, b, w, n, nw)
    BY <1>2, Two
  <2>2. QED
    BY <2>1 DEF Joined
<1>10. \A x \in 1..(ne + nr) : all[ps + x] = u[x]
  <2>0. PICK m \in Nat : m = ne + nr /\ m = Len(u)
    BY <1>8
  <2>1. Joined(pre \o u, Bytes, pre, u, ps, m)
    BY <2>0, Two
  <2>2. all = pre \o u
    BY <1>3, <1>8, <1>9
  <2>3. QED
    BY <2>0, <2>1, <2>2 DEF Joined
<1>11. ASSUME NEW x \in 1..ne, ps + x <= n PROVE b[ps + x] = e[x]
  <2>1. ps + x \in 1..n /\ x \in 1..(ne + nr)
    BY <1>11
  <2>2. QED
    BY <1>8, <1>9, <1>10, <2>1
<1>12. SubSeq(b, (ps + 1) + 1, (ps + 1) + LenLen) = d
  <2>0. ps + h <= n
    BY <1>2, <1>4
  <2>1. PICK i \in Nat : i = ps + 1 /\ i + LenLen <= n
    BY <1>4, <2>0, Constants
  <2>2. ASSUME NEW x \in 1..LenLen PROVE b[i + x] = d[x]
    <3>0. x \in Nat /\ 1 <= x /\ x <= LenLen /\ LenLen \in Nat
      BY Constants
    <3>1. PICK y \in 1..ne : y = 1 + x /\ ps + y <= n /\ i + x = ps + y
      <4>1. 1 + x \in 1..ne /\ ps + (1 + x) <= n /\ i + x = ps + (1 + x)
        BY <1>4, <1>5, <2>1, <3>0
      <4>2. QED
        BY <4>1
    <3>2. b[ps + y] = e[y]
      BY <1>11, <3>1
    <3>3. e[1 + x] = d[x]
      BY <1>7 DEF Split
    <3>4. QED
      BY <3>1, <3>2, <3>3
  <2>3. SubSeq(b, i + 1, i + LenLen) = d
    <3>1. i + LenLen <= Len(b) /\ LenLen = Len(d) /\ LenLen \in Nat
      BY <1>2, <1>6, <2>1, Constants
    <3>2. \A x \in 1..LenLen : b[i + x] = d[x]
      BY <2>2
    <3>3. QED
      BY <3>1, <3>2, Slice
  <2>4. QED
    BY <2>1, <2>3
<1>13. h + Value(SubSeq(b, ps + 2, ps + h)) = ne
  <2>1. (ps + 1) + 1 = ps + 2 /\ (ps + 1) + LenLen = ps + h
    BY <1>4, Constants
  <2>2. Value(SubSeq(b, ps + 2, ps + h)) = l + 1
    BY <1>6, <1>12, <2>1
  <2>3. QED
    BY <1>5, <2>2
<1>14. ASSUME ps + ne <= n
       PROVE  SubSeq(b, ps + h + 1, ps + ne - 1) = r.plain /\ b[ps + ne] = r.tag
  <2>1. PICK i \in Nat : i = ps + h /\ i + l <= n
    BY <1>5, <1>14
  <2>2. ASSUME NEW x \in 1..l PROVE b[i + x] = r.plain[x]
    <3>1. PICK y \in 1..ne : y = 1 + LenLen + x /\ ps + y <= n /\ i + x = ps + y
      BY <1>4, <1>5, <1>14, <2>1, Constants
    <3>2. b[ps + y] = e[y]
      BY <1>11, <3>1
    <3>3. e[1 + LenLen + x] = r.plain[x]
      BY <1>7 DEF Split
    <3>4. QED
      BY <3>1, <3>2, <3>3
  <2>3. SubSeq(b, i + 1, i + l) = r.plain
    <3>1. r.plain \in Seq(Bytes)
      BY PlainsAre DEF Records
    <3>2. i + l <= Len(b)
      BY <1>2, <2>1
    <3>3. QED
      BY <1>1, <2>2, <3>1, <3>2, Slice
  <2>4. i + 1 = ps + h + 1 /\ i + l = ps + ne - 1
    BY <1>5, <2>1
  <2>5. b[ps + ne] = r.tag
    <3>1. ne \in 1..ne /\ ne = 1 + LenLen + l + 1
      BY <1>4, <1>5, Constants
    <3>2. b[ps + ne] = e[ne]
      BY <1>11, <1>14, <3>1
    <3>3. e[1 + LenLen + l + 1] = <<r.tag>>[1]
      <4>1. 1 \in 1..1
        OBVIOUS
      <4>2. QED
        BY <1>7, <4>1 DEF Split
    <3>4. QED
      BY <3>1, <3>2, <3>3
  <2>6. QED
    BY <2>3, <2>4, <2>5
<1>15. QED
  BY <1>2, <1>3, <1>4, <1>5, <1>13, <1>14 DEF Found

LEMMA MaxRecordIs ==
  /\ MaxRecord \in Nat /\ RecordHeader \in Nat /\ RecordHeader > 0 /\ RecordHeader < MaxRecord
  /\ \A r \in Records : Len(Dress(r)) <= MaxRecord
<1> DEFINE T == {Len(Dress([plain |-> p, tag |-> 0])) : p \in Plains}
<1>0. RecordHeader \in Nat /\ RecordHeader > 0
  BY Constants DEF RecordHeader
<1>1. ASSUME NEW p \in Plains
      PROVE  /\ Len(Dress([plain |-> p, tag |-> 0])) = RecordHeader + Len(p) + 1
             /\ Len(p) \in Nat /\ Len(p) + 1 < Power(LenLen)
  <2>1. [plain |-> p, tag |-> 0] \in Records
    BY DEF Records
  <2>2. QED
    BY <2>1, DressIs, PlainsAre
<1>2. PICK top \in Nat : top = Power(LenLen)
  BY PowerIs, Constants
<1>3. T \subseteq Nat /\ RecordHeader + top \in Nat /\ \A x \in T : x <= RecordHeader + top
  <2>1. ASSUME NEW x \in T PROVE x \in Nat /\ x <= RecordHeader + top
    <3>1. PICK p \in Plains : x = Len(Dress([plain |-> p, tag |-> 0]))
      OBVIOUS
    <3>2. PICK l \in Nat : l = Len(p) /\ l + 1 < top
      BY <1>1, <1>2
    <3>3. x = RecordHeader + l + 1
      BY <1>1, <3>1, <3>2
    <3>4. QED
      BY <1>0, <3>2, <3>3
  <2> HIDE DEF T
  <2>2. QED
    BY <1>0, <2>1
<1>4. T # {}
  BY WireAssumption
<1>5. Max(T) \in T /\ \A x \in T : x <= Max(T)
  <2> HIDE DEF T
  <2>1. QED
    BY <1>3, <1>4, Longest
<1>6. MaxRecord = Max(T)
  BY DEF MaxRecord
<1>7. MaxRecord \in Nat /\ RecordHeader < MaxRecord
  <2>1. PICK p \in Plains : MaxRecord = Len(Dress([plain |-> p, tag |-> 0]))
    BY <1>5, <1>6
  <2>2. QED
    BY <1>0, <1>1, <2>1
<1>8. ASSUME NEW r \in Records PROVE Len(Dress(r)) <= MaxRecord
  <2>1. PICK p \in Plains : p = r.plain
    BY DEF Records
  <2>2. Len(Dress(r)) = Len(Dress([plain |-> p, tag |-> 0]))
    BY <1>1, <2>1, DressIs
  <2>3. QED
    BY <1>5, <1>6, <2>2
<1>9. QED
  BY <1>0, <1>7, <1>8

-----------------------------------------------------------------------------
(* The invariant. After the records sn, c[i] is what the stream carries    *)
(* behind the first i of them, and m[i] is what those i mean.              *)
Messages == [type : Nat, stream : Nat, payload : Seq(Bytes)]

Chain(sn, c, m) ==
  /\ c \in [0..Len(sn) -> Seq(Bytes)] /\ m \in [0..Len(sn) -> Seq(Messages)]
  /\ c[Len(sn)] = <<>> /\ m[0] = <<>>
  /\ \A i \in 1..Len(sn) : c[i - 1] = Dress(sn[i]) \o c[i] /\ m[i] = m[i - 1] \o Said(sn[i])

(* The reader is between two records: behind the ps consumed bytes come,   *)
(* in the buffer b and then on the wire w, the records after the k-th.     *)
Place(sn, b, w, ps, c, k, pre) ==
  /\ k \in 0..Len(sn) /\ pre \in Seq(Bytes) /\ Len(pre) = ps
  /\ b \o w = pre \o c[k]

WireTypes ==
  /\ sent \in Seq(Records) /\ wire \in Seq(Bytes) /\ buf \in Seq(Bytes)
  /\ pos \in Nat /\ pos <= Len(buf) /\ phase \in {"parse", "wait"}

PlaceInv == \E c, m, k, pre :
  Chain(sent, c, m) /\ Place(sent, buf, wire, pos, c, k, pre) /\ got = m[k]

WaitInv == phase = "wait" => pos = 0 /\ ~Complete /\ Len(buf) < MaxRecord

WireInv == WireTypes /\ PlaceInv /\ WaitInv /\ BufferBounded

LEMMA SaidType == ASSUME NEW r \in Records PROVE Said(r) \in Seq(Messages)
<1>1. PICK p \in Plains : p = r.plain
  BY DEF Records
<1>2. Said(r) = IF r.tag = 0 /\ Decode(p) # Malformed THEN <<Decode(p)>> ELSE <<>>
  BY <1>1, SaidIs
<1>3. ASSUME Decode(p) # Malformed PROVE Decode(p) \in Messages
  <2>1. PICK n \in Nat : n = Len(p)
    BY PlainsAre
  <2>2. Decode(p) \in Candidates(p)
    BY <1>3, Means DEF Meanings
  <2>3. PICK t \in OPEN..PONG, i \in Ids, z \in 1..(n + 1) : Decode(p) = Frame(t, i, SubSeq(p, z, n))
    BY <2>1, <2>2 DEF Candidates
  <2>4. SubSeq(p, z, n) \in Seq(Bytes) /\ t \in Nat /\ i \in Nat
    BY <2>1, Tails, PlainsAre, IdsAreNats DEF OPEN, PONG
  <2>5. QED
    BY <2>3, <2>4 DEF Frame, Messages
<1>4. CASE r.tag = 0 /\ Decode(p) # Malformed
  <2>1. \A d \in Messages : <<d>> \in Seq(Messages)
    OBVIOUS
  <2>2. QED
    BY <1>2, <1>3, <1>4, <2>1
<1>5. CASE ~(r.tag = 0 /\ Decode(p) # Malformed)
  BY <1>2, <1>5
<1>6. QED
  BY <1>4, <1>5

(* Meant(k), by its recursive definition, is the m[k] of any chain.        *)
LEMMA MeantIs ==
  ASSUME NEW c, NEW m, Chain(sent, c, m), sent \in Seq(Records), NEW k \in 0..Len(sent)
  PROVE  Meant(k) = m[k]
<1> DEFINE Is(f) == f = [i \in 0..k |-> IF i = 0 THEN <<>> ELSE f[i - 1] \o Said(sent[i])]
<1>1. k \in Nat /\ k <= Len(sent) /\ Len(sent) \in Nat
  OBVIOUS
<1>2. m[0] = <<>> /\ \A i \in 1..k : m[i] = m[i - 1] \o Said(sent[i])
  <2>1. \A i \in 1..k : i \in 1..Len(sent)
    BY <1>1
  <2>2. QED
    BY <2>1, Zenon DEF Chain
<1>3. PICK g : g = [i \in 0..k |-> m[i]]
  OBVIOUS
<1>4. g[0] = <<>> /\ \A i \in 1..k : g[i] = g[i - 1] \o Said(sent[i])
  <2>1. \A i \in 0..k : g[i] = m[i]
    BY <1>3
  <2>2. 0 \in 0..k /\ \A i \in 1..k : i \in 0..k /\ i - 1 \in 0..k
    BY <1>1
  <2>3. QED
    BY <1>2, <2>1, <2>2, Zenon
<1>5. Is(g)
  <2>1. DOMAIN g = 0..k
    BY <1>3
  <2>2. g = [i \in 0..k |-> g[i]]
    BY <1>3
  <2>3. \A i \in 0..k : g[i] = IF i = 0 THEN <<>> ELSE g[i - 1] \o Said(sent[i])
    <3>1. \A i \in 0..k : i = 0 \/ i \in 1..k
      BY <1>1
    <3>2. \A i \in 1..k : i # 0
      BY <1>1
    <3>3. QED
      BY <1>4, <3>1, <3>2, Zenon
  <2>4. QED
    BY <2>2, <2>3
<1>6. Is(CHOOSE f : Is(f))
  BY <1>5
<1>7. Is(Meants(k))
  BY <1>6 DEF Meants
<1>8. PICK f : f = Meants(k) /\ Is(f)
  BY <1>7
<1>9. f[0] = <<>> /\ \A i \in 1..k : f[i] = f[i - 1] \o Said(sent[i])
  <2>1. PICK h : h = [i \in 0..k |-> IF i = 0 THEN <<>> ELSE f[i - 1] \o Said(sent[i])] /\ f = h
    BY <1>8
  <2>2. h[0] = <<>> /\ \A i \in 1..k : h[i] = f[i - 1] \o Said(sent[i])
    BY <1>1, <2>1
  <2>3. QED
    BY <2>1, <2>2, Zenon
<1>10. \A i \in 0..k : f[i] = g[i]
  <2>1. Alike(f, g, k)
    BY <1>4, <1>9, Zenon DEF Alike
  <2>2. QED
    BY <1>1, <2>1, FcnUnique
<1>11. k \in 0..k /\ g[k] = m[k]
  BY <1>1, <1>3
<1>12. QED
  BY <1>8, <1>10, <1>11 DEF Meant

(* What a chain says at the place where the reader is.                     *)
LEMMA ChainAt ==
  ASSUME NEW sn \in Seq(Records), NEW c, NEW m, Chain(sn, c, m), NEW k \in 0..Len(sn)
  PROVE  c[k] \in Seq(Bytes) /\ m[k] \in Seq(Messages) /\ (k = Len(sn) => c[k] = <<>>)
BY DEF Chain

Onward(r, rest, sn, c, m, k) ==
  /\ r = sn[k + 1] /\ rest = c[k + 1] /\ k + 1 \in 0..Len(sn)
  /\ c[k] = Dress(r) \o rest /\ m[k + 1] = m[k] \o Said(r)

LEMMA ChainNext ==
  ASSUME NEW sn \in Seq(Records), NEW c, NEW m, Chain(sn, c, m), NEW k \in 0..Len(sn), k < Len(sn)
  PROVE  \E r \in Records, rest \in Seq(Bytes) : Onward(r, rest, sn, c, m, k)
<1>1. PICK i \in 1..Len(sn) : i = k + 1 /\ i \in 0..Len(sn) /\ i - 1 = k
  <2>1. Len(sn) \in Nat /\ k \in Nat
    OBVIOUS
  <2>2. k + 1 \in 1..Len(sn) /\ k + 1 \in 0..Len(sn) /\ (k + 1) - 1 = k
    BY <2>1
  <2>3. QED
    BY <2>2
<1>2. c[i - 1] = Dress(sn[i]) \o c[i] /\ m[i] = m[i - 1] \o Said(sn[i]) /\ c[i] \in Seq(Bytes)
  BY <1>1 DEF Chain
<1>3. sn[i] \in Records
  OBVIOUS
<1>4. Onward(sn[i], c[i], sn, c, m, k)
  BY <1>1, <1>2 DEF Onward
<1>5. QED
  BY <1>2, <1>3, <1>4

(* A chain grows with the records written.                                 *)
Grown(sn, r, c, m, d, l) ==
  /\ Chain(Append(sn, r), d, l)
  /\ \A i \in 0..Len(sn) : d[i] = c[i] \o Dress(r) /\ l[i] = m[i]

LEMMA ChainGrows ==
  ASSUME NEW sn \in Seq(Records), NEW r \in Records, NEW c, NEW m, Chain(sn, c, m)
  PROVE  \E d, l : Grown(sn, r, c, m, d, l)
<1>1. PICK n \in Nat : n = Len(sn)
  OBVIOUS
<1>2. PICK sm \in Seq(Records) :
        sm = Append(sn, r) /\ Len(sm) = n + 1 /\ sm[n + 1] = r /\ \A i \in 1..n : sm[i] = sn[i]
  <2>1. Append(sn, r) \in Seq(Records)
    OBVIOUS
  <2>2. Len(Append(sn, r)) = n + 1 /\ Append(sn, r)[n + 1] = r
    BY <1>1
  <2>3. \A i \in 1..n : Append(sn, r)[i] = sn[i]
    BY <1>1
  <2>4. QED
    BY <2>1, <2>2, <2>3
<1>3. PICK e \in Seq(Bytes), z \in Seq(Messages) : e = Dress(r) /\ z = Said(r)
  BY DressIs, SaidType
<1>4. /\ c \in [0..n -> Seq(Bytes)] /\ m \in [0..n -> Seq(Messages)]
      /\ c[n] = <<>> /\ m[0] = <<>>
      /\ \A i \in 1..n : c[i - 1] = Dress(sn[i]) \o c[i] /\ m[i] = m[i - 1] \o Said(sn[i])
  BY <1>1 DEF Chain
<1>5. PICK d : d = [i \in 0..(n + 1) |-> IF i = n + 1 THEN <<>> ELSE c[i] \o e]
  OBVIOUS
<1>6. PICK l : l = [i \in 0..(n + 1) |-> IF i = n + 1 THEN m[n] \o z ELSE m[i]]
  OBVIOUS
<1>7. \A i \in 0..n : i \in 0..(n + 1) /\ i # n + 1
  OBVIOUS
<1>8. n + 1 \in 0..(n + 1) /\ n \in 0..n /\ 0 \in 0..n
  OBVIOUS
<1>9. d[n + 1] = <<>> /\ l[n + 1] = m[n] \o z
  BY <1>5, <1>6, <1>8
<1>10. \A i \in 0..n : d[i] = c[i] \o e /\ l[i] = m[i]
  BY <1>5, <1>6, <1>7
<1>11. d \in [0..(n + 1) -> Seq(Bytes)]
  <2>1. \A i \in 0..n : c[i] \o e \in Seq(Bytes)
    BY <1>4, ConcatProperties
  <2>2. \A i \in 0..(n + 1) : d[i] \in Seq(Bytes)
    <3>1. \A i \in 0..(n + 1) : i \in 0..n \/ i = n + 1
      OBVIOUS
    <3>2. <<>> \in Seq(Bytes)
      OBVIOUS
    <3>3. QED
      BY <1>9, <1>10, <2>1, <3>1, <3>2, Zenon
  <2>3. QED
    BY <1>5, <2>2
<1>12. l \in [0..(n + 1) -> Seq(Messages)]
  <2>1. m[n] \o z \in Seq(Messages)
    BY <1>4, <1>8, ConcatProperties
  <2>2. \A i \in 0..(n + 1) : l[i] \in Seq(Messages)
    <3>1. \A i \in 0..(n + 1) : i \in 0..n \/ i = n + 1
      OBVIOUS
    <3>2. \A i \in 0..n : m[i] \in Seq(Messages)
      BY <1>4
    <3>3. QED
      BY <1>9, <1>10, <2>1, <3>1, <3>2, Zenon
  <2>3. QED
    BY <1>6, <2>2
<1>13. l[0] = <<>>
  BY <1>4, <1>8, <1>10
<1>14. ASSUME NEW i \in 1..(n + 1)
       PROVE  d[i - 1] = Dress(sm[i]) \o d[i] /\ l[i] = l[i - 1] \o Said(sm[i])
  <2>1. CASE i = n + 1
    <3>1. i - 1 = n
      BY <2>1
    <3>2. d[i - 1] = <<>> \o e /\ l[i - 1] = m[n]
      BY <1>4, <1>8, <1>10, <3>1
    <3>3. <<>> \o e = e /\ e \o <<>> = e
      BY ConcatEmptySeq
    <3>4. QED
      BY <1>2, <1>3, <1>9, <2>1, <3>2, <3>3
  <2>2. CASE i # n + 1
    <3>1. i \in 1..n /\ i \in 0..n /\ i - 1 \in 0..n
      BY <2>2
    <3>2. c[i - 1] = Dress(sn[i]) \o c[i] /\ m[i] = m[i - 1] \o Said(sn[i]) /\ sm[i] = sn[i]
      BY <1>2, <1>4, <3>1
    <3>3. sn[i] \in Records /\ c[i] \in Seq(Bytes)
      <4>1. sn[i] \in Records
        BY <1>1, <3>1
      <4>2. c[i] \in Seq(Bytes)
        BY <1>4, <3>1
      <4>3. QED
        BY <4>1, <4>2
    <3>4. PICK x \in Seq(Bytes), y \in Seq(Bytes) : x = Dress(sn[i]) /\ y = c[i]
      BY <3>3, DressIs
    <3>5. (x \o y) \o e = x \o (y \o e)
      BY Assoc, Zenon
    <3>6. d[i - 1] = (x \o y) \o e /\ d[i] = y \o e /\ l[i] = m[i] /\ l[i - 1] = m[i - 1]
      BY <1>10, <3>1, <3>2, <3>4
    <3>7. QED
      BY <3>2, <3>4, <3>5, <3>6
  <2>3. QED
    BY <2>1, <2>2
<1>15. Chain(sm, d, l)
  BY <1>2, <1>9, <1>11, <1>12, <1>13, <1>14 DEF Chain
<1>16. \A i \in 0..Len(sn) : d[i] = c[i] \o Dress(r) /\ l[i] = m[i]
  BY <1>1, <1>3, <1>10
<1>17. QED
  <2>1. Grown(sn, r, c, m, d, l)
    BY <1>2, <1>15, <1>16 DEF Grown
  <2>2. QED
    BY <2>1

(* take_record, at that place: it finds the record that comes next once    *)
(* the header is there, and returns it once the rest is.                   *)
TotalAt(b, ps) == RecordHeader + Value(SubSeq(b, ps + 2, ps + RecordHeader))
CompleteAt(b, ps) == Len(b) - ps >= RecordHeader /\ Len(b) - ps >= TotalAt(b, ps)

LEMMA TakesNext ==
  ASSUME NEW sn \in Seq(Records), NEW b \in Seq(Bytes), NEW w \in Seq(Bytes), NEW ps \in Nat,
         ps <= Len(b), NEW c, NEW m, Chain(sn, c, m), NEW k, NEW pre, Place(sn, b, w, ps, c, k, pre)
  PROVE  /\ CompleteAt(b, ps) <=> k < Len(sn) /\ Len(Dress(sn[k + 1])) <= Len(b) - ps
         /\ Len(b) - ps >= RecordHeader => k < Len(sn) /\ Found(b, ps, sn[k + 1])
<1>1. /\ k \in 0..Len(sn) /\ k \in Nat /\ Len(sn) \in Nat /\ pre \in Seq(Bytes) /\ Len(pre) = ps
      /\ b \o w = pre \o c[k]
  BY DEF Place
<1>2. PICK n \in Nat, h \in Nat : n = Len(b) /\ h = RecordHeader /\ h > 0 /\ ps <= n
  BY MaxRecordIs
<1>3. CASE k < Len(sn)
  <2>1. PICK r \in Records, rest \in Seq(Bytes) : r = sn[k + 1] /\ c[k] = Dress(r) \o rest
    <3>1. PICK r \in Records, rest \in Seq(Bytes) : Onward(r, rest, sn, c, m, k)
      BY <1>1, <1>3, ChainNext
    <3>2. QED
      BY <3>1 DEF Onward
  <2>2. n - ps >= h => Found(b, ps, r)
    <3>1. n - ps >= h => ps + RecordHeader <= Len(b)
      BY <1>2
    <3>2. QED
      BY <1>1, <2>1, <3>1, Finds
  <2>3. PICK l \in Nat : l = Len(Dress(r)) /\ l >= h
    BY <1>2, DressIs
  <2>4. n - ps >= h => TotalAt(b, ps) = l
    BY <2>2, <2>3 DEF Found, TotalAt
  <2>5. CompleteAt(b, ps) <=> l <= n - ps
    BY <1>2, <2>3, <2>4 DEF CompleteAt
  <2>6. QED
    BY <1>2, <1>3, <2>1, <2>2, <2>3, <2>5
<1>4. CASE ~(k < Len(sn))
  <2>1. k = Len(sn)
    BY <1>1, <1>4
  <2>2. c[k] = <<>>
    BY <1>1, <2>1, ChainAt
  <2>3. Len(b) + Len(w) = ps
    <3>1. pre \o <<>> = pre
      BY <1>1, ConcatEmptySeq
    <3>2. Len(b \o w) = Len(b) + Len(w)
      BY ConcatProperties
    <3>3. QED
      BY <1>1, <2>2, <3>1, <3>2
  <2>4. ~(n - ps >= h)
    BY <1>2, <2>3
  <2>5. QED
    BY <1>2, <1>4, <2>4 DEF CompleteAt
<1>5. QED
  BY <1>3, <1>4

LEMMA CompleteIs == /\ Complete = CompleteAt(buf, pos) /\ Total = TotalAt(buf, pos)
                    /\ Complete' = CompleteAt(buf', pos')
BY DEF Complete, Avail, Total, CompleteAt, TotalAt

LEMMA WireInit == ASSUME Init PROVE WireInv
<1>1. WireTypes
  BY DEF Init, WireTypes
<1>2. PlaceInv
  <2>1. PICK c, m : c = [i \in 0..0 |-> <<>>] /\ m = [i \in 0..0 |-> <<>>]
    OBVIOUS
  <2>2. Len(sent) = 0 /\ Len(<<>>) = 0 /\ <<>> \in Seq(Bytes)
    BY DEF Init
  <2>3. Chain(sent, c, m)
    BY <2>1, <2>2 DEF Chain
  <2>4. <<>> \o <<>> = <<>> \o c[0] /\ got = m[0]
    BY <2>1 DEF Init
  <2>5. Place(sent, buf, wire, pos, c, 0, <<>>)
    BY <2>2, <2>4 DEF Init, Place
  <2>6. QED
    BY <2>3, <2>4, <2>5 DEF PlaceInv
<1>3. WaitInv
  BY DEF Init, WaitInv
<1>4. BufferBounded
  <2>1. Len(buf) = 0
    BY DEF Init
  <2>2. QED
    BY <2>1, MaxRecordIs, Constants DEF BufferBounded
<1>5. QED
  BY <1>1, <1>2, <1>3, <1>4 DEF WireInv

LEMMA WriteStep ==
  ASSUME WireInv, NEW r \in Records, Write(r)
  PROVE  WireInv'
<1>1. WireTypes /\ WaitInv /\ BufferBounded
  BY DEF WireInv
<1>2. sent' = Append(sent, r) /\ wire' = wire \o Dress(r) /\ buf' = buf /\ pos' = pos /\ phase' = phase /\ got' = got
  BY DEF Write
<1>3. WireTypes'
  <2>1. Dress(r) \in Seq(Bytes)
    BY DressIs
  <2>2. wire \o Dress(r) \in Seq(Bytes)
    BY <1>1, <2>1, ConcatProperties DEF WireTypes
  <2>3. Append(sent, r) \in Seq(Records)
    BY <1>1 DEF WireTypes
  <2>4. QED
    BY <1>1, <1>2, <2>2, <2>3 DEF WireTypes
<1>4. PlaceInv'
  <2>1. PICK c, m, k, pre :
          Chain(sent, c, m) /\ Place(sent, buf, wire, pos, c, k, pre) /\ got = m[k]
    BY DEF WireInv, PlaceInv
  <2>2. PICK d, l : Chain(sent', d, l) /\ \A i \in 0..Len(sent) : d[i] = c[i] \o Dress(r) /\ l[i] = m[i]
    <3>1. sent \in Seq(Records)
      BY <1>1 DEF WireTypes
    <3>2. \E d, l : Grown(sent, r, c, m, d, l)
      BY <2>1, <3>1, ChainGrows
    <3>3. PICK d, l : Grown(sent, r, c, m, d, l)
      BY <3>2
    <3>4. Chain(sent', d, l) /\ \A i \in 0..Len(sent) : d[i] = c[i] \o Dress(r) /\ l[i] = m[i]
      BY <1>2, <3>3 DEF Grown
    <3>5. QED
      BY <3>4
  <2>3. /\ k \in 0..Len(sent) /\ pre \in Seq(Bytes) /\ Len(pre) = pos /\ buf \o wire = pre \o c[k]
        /\ k \in 0..Len(sent')
    <3>1. Len(sent) \in Nat /\ Len(sent') = Len(sent) + 1
      BY <1>1, <1>2 DEF WireTypes
    <3>2. QED
      BY <2>1, <3>1 DEF Place
  <2>4. PICK x \in Seq(Bytes), e \in Seq(Bytes) : x = c[k] /\ e = Dress(r)
    BY <1>1, <2>1, <2>3, ChainAt, DressIs DEF WireTypes
  <2>5. (buf \o wire) \o e = buf \o (wire \o e) /\ (pre \o x) \o e = pre \o (x \o e)
    <3>1. buf \in Seq(Bytes) /\ wire \in Seq(Bytes)
      BY <1>1 DEF WireTypes
    <3>2. (buf \o wire) \o e = buf \o (wire \o e)
      BY <3>1, Assoc, Zenon
    <3>0. pre \in Seq(Bytes)
      BY <2>3
    <3>3. (pre \o x) \o e = pre \o (x \o e)
      BY <3>0, Assoc, Zenon
    <3>4. QED
      BY <3>2, <3>3
  <2>6. buf' \o wire' = pre \o d[k]
    BY <1>2, <2>2, <2>3, <2>4, <2>5
  <2>7. Place(sent', buf', wire', pos', d, k, pre) /\ got' = l[k]
    BY <1>2, <2>1, <2>2, <2>3, <2>6 DEF Place
  <2>8. QED
    BY <2>2, <2>7 DEF PlaceInv
<1>5. WaitInv' /\ BufferBounded'
  <2>1. Complete' = Complete
    BY <1>2, CompleteIs
  <2>2. QED
    BY <1>1, <1>2, <2>1 DEF WaitInv, BufferBounded, MaxRecord
<1>6. QED
  BY <1>3, <1>4, <1>5 DEF WireInv

LEMMA ReadStep ==
  ASSUME WireInv, NEW n \in 1..ReadBuf, Read(n)
  PROVE  WireInv'
<1>1. WireTypes /\ WaitInv /\ BufferBounded
  BY DEF WireInv
<1>2. /\ phase = "wait" /\ n <= Len(wire) /\ wire' = SubSeq(wire, n + 1, Len(wire)) /\ phase' = "parse"
      /\ sent' = sent /\ got' = got /\ Push(SubSeq(wire, 1, n))
  BY DEF Read
<1>3. PICK nw \in Nat, nb \in Nat : nw = Len(wire) /\ nb = Len(buf) /\ n \in Nat /\ n <= nw /\ n <= ReadBuf
  BY <1>1, <1>2, Constants DEF WireTypes
<1>4. PICK x \in Seq(Bytes), y \in Seq(Bytes) :
        x = SubSeq(wire, 1, n) /\ Len(x) = n /\ y = wire' /\ x \o y = wire
  <2>1. wire \in Seq(Bytes)
    BY <1>1 DEF WireTypes
  <2>2. CutAt(wire, Bytes, n, nw)
    BY <1>3, <2>1, Cut
  <2>3. QED
    BY <1>2, <1>3, <2>2 DEF CutAt
<1>5. pos = 0 /\ nb < MaxRecord
  BY <1>1, <1>2, <1>3 DEF WaitInv
<1>6. PICK c, m, k, pre :
        Chain(sent, c, m) /\ Place(sent, buf, wire, pos, c, k, pre) /\ got = m[k]
  BY DEF WireInv, PlaceInv
<1>7. /\ k \in 0..Len(sent) /\ pre \in Seq(Bytes) /\ Len(pre) = pos /\ buf \o wire = pre \o c[k]
      /\ c[k] \in Seq(Bytes)
  BY <1>1, <1>6, ChainAt DEF Place, WireTypes
<1>8. buf' = buf \o x /\ pos' = pos
  <2>1. CASE pos = nb
    <3>1. buf = <<>>
      BY <1>1, <1>3, <1>5, <2>1 DEF WireTypes
    <3>2. <<>> \o x = x
      BY ConcatEmptySeq
    <3>3. QED
      BY <1>2, <1>3, <1>4, <1>5, <2>1, <3>1, <3>2 DEF Push
  <2>2. CASE pos # nb
    BY <1>2, <1>3, <1>4, <2>2 DEF Push
  <2>3. QED
    BY <2>1, <2>2
<1>9. buf' \in Seq(Bytes) /\ Len(buf') = nb + n
  <2>1. buf \o x \in Seq(Bytes) /\ Len(buf \o x) = Len(buf) + Len(x)
    BY <1>1, ConcatProperties DEF WireTypes
  <2>2. QED
    BY <1>3, <1>4, <1>8, <2>1
<1>10. buf' \o wire' = pre \o c[k]
  <2>1. (buf \o x) \o y = buf \o (x \o y)
    BY <1>1, Assoc, Zenon DEF WireTypes
  <2>2. QED
    BY <1>4, <1>7, <1>8, <2>1
<1>11. WireTypes'
  BY <1>1, <1>2, <1>3, <1>4, <1>5, <1>8, <1>9 DEF WireTypes
<1>12. PlaceInv'
  <2>1. Place(sent', buf', wire', pos', c, k, pre)
    BY <1>2, <1>7, <1>8, <1>10 DEF Place
  <2>2. QED
    BY <1>2, <1>6, <2>1 DEF PlaceInv
<1>13. WaitInv'
  BY <1>2 DEF WaitInv
<1>14. BufferBounded'
  <2>1. nb + n < MaxRecord + ReadBuf
    BY <1>3, <1>5, MaxRecordIs, Constants
  <2>2. MaxRecord' = MaxRecord
    BY DEF MaxRecord
  <2>3. QED
    BY <1>9, <2>1, <2>2 DEF BufferBounded
<1>15. QED
  BY <1>11, <1>12, <1>13, <1>14 DEF WireInv

LEMMA TakeStep ==
  ASSUME WireInv, Take
  PROVE  WireInv'
<1>1. WireTypes /\ WaitInv /\ BufferBounded
  BY DEF WireInv
<1>2. PICK plain, last :
        plain = SubSeq(buf, pos + RecordHeader + 1, pos + Total - 1) /\ last = buf[pos + Total]
  OBVIOUS
<1>3. /\ Complete /\ pos' = pos + Total /\ phase' = "parse"
      /\ got' = IF last = 0 /\ Decode(plain) # Malformed THEN Append(got, Decode(plain)) ELSE got
      /\ sent' = sent /\ wire' = wire /\ buf' = buf
  BY <1>2 DEF Take, Taken
<1>4. PICK c, m, k, pre :
        Chain(sent, c, m) /\ Place(sent, buf, wire, pos, c, k, pre) /\ got = m[k]
  BY DEF WireInv, PlaceInv
<1>5. k \in 0..Len(sent) /\ pre \in Seq(Bytes) /\ Len(pre) = pos /\ buf \o wire = pre \o c[k]
  BY <1>4 DEF Place
<1>6. sent \in Seq(Records) /\ buf \in Seq(Bytes) /\ wire \in Seq(Bytes) /\ pos \in Nat /\ pos <= Len(buf)
  BY <1>1 DEF WireTypes
<1>7. /\ k < Len(sent) /\ Len(Dress(sent[k + 1])) <= Len(buf) - pos
      /\ Found(buf, pos, sent[k + 1])
  <2>1. /\ CompleteAt(buf, pos) <=> k < Len(sent) /\ Len(Dress(sent[k + 1])) <= Len(buf) - pos
        /\ Len(buf) - pos >= RecordHeader => k < Len(sent) /\ Found(buf, pos, sent[k + 1])
    BY <1>4, <1>6, TakesNext
  <2>2. CompleteAt(buf, pos)
    BY <1>3, CompleteIs
  <2>3. Len(buf) - pos >= RecordHeader
    BY <2>2 DEF CompleteAt
  <2>4. QED
    BY <2>1, <2>2, <2>3
<1>8. PICK r \in Records, rest \in Seq(Bytes) :
        /\ r = sent[k + 1] /\ rest = c[k + 1] /\ c[k] = Dress(r) \o rest
        /\ k + 1 \in 0..Len(sent) /\ m[k + 1] = m[k] \o Said(r) /\ m[k] \in Seq(Messages)
  <2>1. PICK r \in Records, rest \in Seq(Bytes) : Onward(r, rest, sent, c, m, k)
    BY <1>4, <1>5, <1>6, <1>7, ChainNext
  <2>2. m[k] \in Seq(Messages)
    BY <1>4, <1>5, <1>6, ChainAt
  <2>3. QED
    BY <2>1, <2>2 DEF Onward
<1>9. PICK e \in Seq(Bytes), l \in Nat : e = Dress(r) /\ l = Len(e)
  BY DressIs
<1>10. Total = l /\ pos + l <= Len(buf) /\ plain = r.plain /\ last = r.tag
  <2>1. PICK nb \in Nat : nb = Len(buf)
    BY <1>6
  <2>2. TotalAt(buf, pos) = l
    BY <1>7, <1>8, <1>9 DEF Found, TotalAt
  <2>3. pos + l <= nb
    BY <1>6, <1>7, <1>8, <1>9, <2>1
  <2>4. /\ SubSeq(buf, pos + RecordHeader + 1, pos + l - 1) = r.plain
        /\ buf[pos + l] = r.tag
    BY <1>7, <1>8, <1>9, <2>1, <2>3 DEF Found
  <2>5. Total = l
    BY <2>2, CompleteIs
  <2>6. QED
    BY <1>2, <2>1, <2>3, <2>4, <2>5
<1>11. got' = m[k + 1]
  <2>1. r.plain \in Plains
    BY DEF Records
  <2>2. Said(r) = IF last = 0 /\ Decode(plain) # Malformed THEN <<Decode(plain)>> ELSE <<>>
    BY <1>10, <2>1, SaidIs
  <2>3. Said(r) \in Seq(Messages)
    BY SaidType
  <2>4. CASE last = 0 /\ Decode(plain) # Malformed
    <3>1. PICK d : d = Decode(plain)
      OBVIOUS
    <3>2. <<d>> \in Seq(Messages) /\ Said(r) = <<d>>
      BY <2>2, <2>3, <2>4, <3>1
    <3>3. d \in Messages
      BY <3>2
    <3>4. Append(m[k], d) = m[k] \o <<d>>
      BY <1>8, <3>3, AppendIsConcat
    <3>5. QED
      BY <1>3, <1>4, <1>8, <2>4, <3>1, <3>2, <3>4
  <2>5. CASE ~(last = 0 /\ Decode(plain) # Malformed)
    <3>1. m[k] \o <<>> = m[k]
      BY <1>8, ConcatEmptySeq
    <3>2. QED
      BY <1>3, <1>4, <1>8, <2>2, <2>5, <3>1
  <2>6. QED
    BY <2>4, <2>5
<1>12. WireTypes'
  BY <1>1, <1>3, <1>6, <1>10 DEF WireTypes
<1>13. PlaceInv'
  <2>1. pre \o (e \o rest) = (pre \o e) \o rest
    BY <1>5, Assoc, Zenon
  <2>2. buf' \o wire' = (pre \o e) \o c[k + 1]
    BY <1>3, <1>5, <1>8, <1>9, <2>1
  <2>3. pre \o e \in Seq(Bytes) /\ Len(pre \o e) = Len(pre) + Len(e)
    BY <1>5, ConcatProperties
  <2>4. Len(pre \o e) = pos'
    BY <1>3, <1>5, <1>9, <1>10, <2>3
  <2>5. Place(sent', buf', wire', pos', c, k + 1, pre \o e)
    BY <1>3, <1>8, <2>2, <2>3, <2>4 DEF Place
  <2>6. Chain(sent', c, m)
    BY <1>3, <1>4
  <2>7. QED
    BY <1>11, <2>5, <2>6 DEF PlaceInv
<1>14. WaitInv'
  BY <1>3 DEF WaitInv
<1>15. BufferBounded'
  BY <1>1, <1>3 DEF BufferBounded, MaxRecord
<1>16. QED
  BY <1>12, <1>13, <1>14, <1>15 DEF WireInv

LEMMA TakeNoneStep ==
  ASSUME WireInv, TakeNone
  PROVE  WireInv'
<1>1. WireTypes /\ WaitInv /\ BufferBounded
  BY DEF WireInv
<1>2. /\ ~Complete /\ buf' = SubSeq(buf, pos + 1, Len(buf)) /\ pos' = 0 /\ phase' = "wait"
      /\ sent' = sent /\ wire' = wire /\ got' = got
  BY DEF TakeNone
<1>3. PICK c, m, k, pre :
        Chain(sent, c, m) /\ Place(sent, buf, wire, pos, c, k, pre) /\ got = m[k]
  BY DEF WireInv, PlaceInv
<1>4. k \in 0..Len(sent) /\ pre \in Seq(Bytes) /\ Len(pre) = pos /\ buf \o wire = pre \o c[k]
  BY <1>3 DEF Place
<1>5. sent \in Seq(Records) /\ buf \in Seq(Bytes) /\ wire \in Seq(Bytes) /\ pos \in Nat /\ pos <= Len(buf)
  BY <1>1 DEF WireTypes
<1>6. c[k] \in Seq(Bytes)
  BY <1>3, <1>4, <1>5, ChainAt
<1>7. PICK nb \in Nat : nb = Len(buf)
  BY <1>5
<1>8. PICK x \in Seq(Bytes), y \in Seq(Bytes) :
        Len(x) = pos /\ y = buf' /\ Len(y) = nb - pos /\ x \o y = buf
  <2>1. pos \in Nat /\ pos <= nb /\ buf \in Seq(Bytes)
    BY <1>5, <1>7
  <2>2. CutAt(buf, Bytes, pos, nb)
    BY <1>7, <2>1, Cut
  <2>3. QED
    BY <1>2, <1>7, <2>2 DEF CutAt
<1>9. y \o wire = c[k]
  <2>1. (x \o y) \o wire = x \o (y \o wire)
    BY <1>5, Assoc, Zenon
  <2>2. y \o wire \in Seq(Bytes)
    BY <1>5, ConcatProperties
  <2>3. PICK u \in Seq(Bytes), v \in Seq(Bytes) : u = y \o wire /\ v = c[k]
    BY <1>6, <2>2
  <2>4. x \o u = pre \o v /\ Len(x) = Len(pre)
    BY <1>4, <1>8, <2>1, <2>3
  <2>5. u = v
    BY <1>4, <2>4, Cancel
  <2>6. QED
    BY <2>3, <2>5
<1>10. WireTypes'
  BY <1>1, <1>2, <1>5, <1>7, <1>8 DEF WireTypes
<1>11. Place(sent', buf', wire', pos', c, k, <<>>)
  <2>1. <<>> \o c[k] = c[k] /\ <<>> \in Seq(Bytes) /\ Len(<<>>) = 0
    BY <1>6, ConcatEmptySeq
  <2>2. QED
    BY <1>2, <1>4, <1>8, <1>9, <2>1 DEF Place
<1>12. PlaceInv'
  BY <1>2, <1>3, <1>11 DEF PlaceInv
<1>13. /\ CompleteAt(buf, pos) <=> k < Len(sent) /\ Len(Dress(sent[k + 1])) <= nb - pos
       /\ nb - pos >= RecordHeader => k < Len(sent) /\ Found(buf, pos, sent[k + 1])
  BY <1>3, <1>5, <1>7, TakesNext
<1>14. ~Complete'
  <2>1. Place(sent, y, wire, 0, c, k, <<>>) /\ 0 <= Len(y) /\ 0 \in Nat
    BY <1>2, <1>8, <1>11
  <2>2. CompleteAt(y, 0) <=> k < Len(sent) /\ Len(Dress(sent[k + 1])) <= Len(y) - 0
    BY <1>3, <1>5, <2>1, TakesNext
  <2>3. Len(y) - 0 = nb - pos
    BY <1>5, <1>7, <1>8
  <2>4. CompleteAt(y, 0) <=> CompleteAt(buf, pos)
    BY <1>13, <2>2, <2>3, Zenon
  <2>5. QED
    BY <1>2, <1>8, <2>4, CompleteIs
<1>15. nb - pos < MaxRecord
  <2>1. CASE nb - pos >= RecordHeader
    <3>1. k < Len(sent) /\ ~(Len(Dress(sent[k + 1])) <= nb - pos)
      BY <1>2, <1>13, <2>1, CompleteIs
    <3>2. sent[k + 1] \in Records
      <4>1. PICK r \in Records, rest \in Seq(Bytes) : Onward(r, rest, sent, c, m, k)
        BY <1>3, <1>4, <1>5, <3>1, ChainNext
      <4>2. QED
        BY <4>1 DEF Onward
    <3>3. PICK l \in Nat : l = Len(Dress(sent[k + 1])) /\ l <= MaxRecord
      BY <3>2, DressIs, MaxRecordIs
    <3>4. QED
      BY <1>5, <1>7, <3>1, <3>3, MaxRecordIs
  <2>2. CASE ~(nb - pos >= RecordHeader)
    BY <1>5, <1>7, <2>2, MaxRecordIs
  <2>3. QED
    BY <2>1, <2>2
<1>16. MaxRecord' = MaxRecord
  BY DEF MaxRecord
<1>17. WaitInv'
  BY <1>2, <1>8, <1>14, <1>15, <1>16 DEF WaitInv
<1>18. BufferBounded'
  <2>1. nb - pos < MaxRecord + ReadBuf
    BY <1>5, <1>7, <1>15, MaxRecordIs, Constants
  <2>2. QED
    BY <1>8, <1>16, <2>1 DEF BufferBounded
<1>19. QED
  BY <1>10, <1>12, <1>17, <1>18 DEF WireInv

LEMMA WireStep == WireInv /\ [Next]_vars => WireInv'
<1>1. SUFFICES ASSUME WireInv, [Next]_vars PROVE WireInv'
  OBVIOUS
<1>2. CASE \E p \in Plains, t \in {0, 1} : Write([plain |-> p, tag |-> t])
  <2>1. PICK p \in Plains, t \in {0, 1} : Write([plain |-> p, tag |-> t])
    BY <1>2
  <2>2. [plain |-> p, tag |-> t] \in Records
    BY DEF Records
  <2>3. QED
    BY <1>1, <2>1, <2>2, WriteStep
<1>3. CASE \E n \in 1..ReadBuf : Read(n)
  BY <1>1, <1>3, ReadStep
<1>4. CASE Take
  BY <1>1, <1>4, TakeStep
<1>5. CASE TakeNone
  BY <1>1, <1>5, TakeNoneStep
<1>6. CASE UNCHANGED vars
  <2>1. sent' = sent /\ wire' = wire /\ buf' = buf /\ pos' = pos /\ phase' = phase /\ got' = got
    BY <1>6 DEF vars
  <2>2. WireTypes' /\ PlaceInv' /\ BufferBounded'
    BY <1>1, <2>1 DEF WireInv, WireTypes, PlaceInv, BufferBounded, MaxRecord
  <2>3. Complete' = Complete
    BY <2>1, CompleteIs
  <2>4. WaitInv'
    BY <1>1, <2>1, <2>3 DEF WireInv, WaitInv, MaxRecord
  <2>5. QED
    BY <2>2, <2>4 DEF WireInv
<1>7. QED
  BY <1>1, <1>2, <1>3, <1>4, <1>5, <1>6 DEF Next

LEMMA WireAlways == Spec => []WireInv
<1>1. Init => WireInv
  BY WireInit
<1>2. QED
  BY <1>1, WireStep, PTL DEF Spec

-----------------------------------------------------------------------------
(* What is dispatched is what the first so many records mean, in order and *)
(* each once, wherever the reads of reader_loop cut the records: RecordBuf *)
(* never loses its place in the stream, whatever is in the records.        *)
THEOREM WireDispatchesInOrder == Spec => []InOrder
<1>1. WireInv => InOrder
  <2>1. SUFFICES ASSUME WireInv PROVE InOrder
    OBVIOUS
  <2>2. PICK c, m, k, pre :
          Chain(sent, c, m) /\ Place(sent, buf, wire, pos, c, k, pre) /\ got = m[k]
    BY <2>1 DEF WireInv, PlaceInv
  <2>3. sent \in Seq(Records) /\ k \in 0..Len(sent)
    BY <2>1, <2>2 DEF WireInv, WireTypes, Place
  <2>4. Meant(k) = m[k]
    BY <2>2, <2>3, MeantIs
  <2>5. QED
    BY <2>2, <2>3, <2>4 DEF InOrder
<1>2. QED
  BY <1>1, WireAlways, PTL

(* Once everything was read and the reader waits for the socket, every     *)
(* good record has been dispatched: none is left behind in the buffer, at  *)
(* a cut or behind a record that fails to decrypt or decode.               *)
THEOREM WireLosesNothing == Spec => []Lossless
<1>1. WireInv => Lossless
  <2>1. SUFFICES ASSUME WireInv, phase = "wait", wire = <<>> PROVE got = Meant(Len(sent))
    BY DEF Lossless
  <2>2. PICK c, m, k, pre :
          Chain(sent, c, m) /\ Place(sent, buf, wire, pos, c, k, pre) /\ got = m[k]
    BY <2>1 DEF WireInv, PlaceInv
  <2>3. /\ sent \in Seq(Records) /\ buf \in Seq(Bytes) /\ wire \in Seq(Bytes) /\ pos \in Nat
        /\ pos <= Len(buf) /\ k \in 0..Len(sent) /\ Len(sent) \in Nat
    BY <2>1, <2>2 DEF WireInv, WireTypes, Place
  <2>4. pos = 0 /\ ~CompleteAt(buf, pos)
    BY <2>1, CompleteIs DEF WireInv, WaitInv
  <2>5. k = Len(sent)
    <3>1. SUFFICES ASSUME k < Len(sent) PROVE FALSE
      BY <2>3
    <3>2. PICK r \in Records, rest \in Seq(Bytes) : r = sent[k + 1] /\ c[k] = Dress(r) \o rest
      <4>1. PICK r \in Records, rest \in Seq(Bytes) : Onward(r, rest, sent, c, m, k)
        BY <2>2, <2>3, <3>1, ChainNext
      <4>2. QED
        BY <4>1 DEF Onward
    <3>3. ~(Len(Dress(r)) <= Len(buf) - pos)
      BY <2>2, <2>3, <2>4, <3>1, <3>2, TakesNext
    <3>4. buf \o wire = buf /\ pre = <<>>
      <4>1. buf \o <<>> = buf
        BY <2>3, ConcatEmptySeq
      <4>2. QED
        BY <2>1, <2>2, <2>4, <4>1 DEF Place
    <3>5. buf = Dress(r) \o rest
      <4>1. PICK x \in Seq(Bytes) : x = c[k] /\ <<>> \o x = x
        <5>1. c[k] \in Seq(Bytes)
          BY <2>2, <2>3, ChainAt
        <5>2. <<>> \o c[k] = c[k]
          BY <5>1, ConcatEmptySeq
        <5>3. QED
          BY <5>1, <5>2
      <4>2. QED
        BY <2>2, <3>2, <3>4, <4>1 DEF Place
    <3>6. Len(buf) = Len(Dress(r)) + Len(rest) /\ Len(Dress(r)) \in Nat /\ Len(rest) \in Nat
      BY <3>5, DressIs, ConcatProperties
    <3>7. QED
      BY <2>4, <3>3, <3>6
  <2>6. Meant(k) = m[k]
    BY <2>2, <2>3, MeantIs
  <2>7. QED
    BY <2>2, <2>5, <2>6
<1>2. QED
  BY <1>1, WireAlways, PTL

(* The reader never goes back to the socket with a complete record in the  *)
(* buffer ("The socket is never re-armed while complete records remain").  *)
THEOREM WireNeverParks == Spec => []NeverParks
<1>1. WireInv => NeverParks
  BY DEF WireInv, WaitInv, NeverParks
<1>2. QED
  BY <1>1, WireAlways, PTL

(* The buffer holds less than one record and one read, however long the    *)
(* tunnel lives and whatever arrives.                                      *)
THEOREM WireBufferBounded == Spec => []BufferBounded
<1>1. WireInv => BufferBounded
  BY DEF WireInv
<1>2. QED
  BY <1>1, WireAlways, PTL
=============================================================================
