-------------------------- MODULE ServerPluginsProofs --------------------------
(***************************************************************************)
(* Proofs for ServerPlugins: its variables have their types, and an honest *)
(* client is served (Served), for any sessions in which the server lets    *)
(* the client in, any sizes and draws, and wherever TCP cuts.              *)
(*                                                                         *)
(* First what the units of a direction are: partial sums of heads and      *)
(* data, which only grow behind what a reader has seen; then the frames a  *)
(* protocol makes of its calls.  The invariant (PluginsInv) says for each  *)
(* of the three ways of a client (no obfs, HTTP, TLS) what either end has  *)
(* written, and how far either has come in it.  One lemma per action shows *)
(* that it is kept.                                                        *)
(***************************************************************************)
EXTENDS ServerPlugins, StreamProofs
-----------------------------------------------------------------------------
(* ServerPlugins: units, how far they reach and what they carry.           *)

\* Every unit has a byte.
Solid(w) == w \in Seq(UnitType) /\ \A i \in 1..Len(w) : w[i].head + w[i].data > 0

\* The partial sums of a sequence of numbers.
LEMMA SumsAre ==
  ASSUME NEW s \in Seq(Int)
  PROVE  /\ Sums(s) \in [0..Len(s) -> Int] /\ Sums(s)[0] = 0 /\ Sum(s) = Sums(s)[Len(s)]
         /\ \A k \in 1..Len(s) : Sums(s)[k] = Sums(s)[k - 1] + s[k]
<1>1. PICK f : Adds(f, s)
  BY PartialSums
<1>2. Sums(s) = f /\ Sum(s) = f[Len(s)]
  BY <1>1, SumIs
<1> QED BY <1>1, <1>2 DEF Adds

\* Natural numbers add up to natural numbers that grow.
LEMMA SumsGrow ==
  ASSUME NEW s \in Seq(Int), \A k \in 1..Len(s) : s[k] >= 0
  PROVE  /\ \A k \in 0..Len(s) : Sums(s)[k] \in Nat
         /\ \A i, j \in 0..Len(s) : i <= j => Sums(s)[i] <= Sums(s)[j]
<1> DEFINE f == Sums(s)
           n == Len(s)
<1>1. n \in Nat /\ \A k \in 1..n : s[k] \in Int
  BY LenProperties, ElementOfSeq
<1>2. f \in [0..n -> Int] /\ f[0] = 0 /\ \A k \in 1..n : f[k] = f[k - 1] + s[k]
  BY SumsAre
<1> HIDE DEF f
<1>3. ASSUME NEW i \in 0..n, NEW j \in 0..n, i <= j PROVE f[i] <= f[j]
  <2> DEFINE S == {k \in 0..n : k < i \/ f[i] <= f[k]}
  <2>1. 0 \in S
    <3>1. 0 \in 0..n /\ (0 < i \/ i = 0)
      BY <1>1
    <3>2. f[0] <= f[0]
      BY <1>2
    <3> QED BY <3>1, <3>2
  <2>2. ASSUME NEW k \in 0..n, k < n, k \in S PROVE k + 1 \in S
    <3>1. k + 1 \in 0..n /\ k + 1 \in 1..n /\ (k + 1) - 1 = k
      BY <1>1, <2>2
    <3>2. f[k + 1] = f[k] + s[k + 1] /\ s[k + 1] >= 0 /\ s[k + 1] \in Int /\ f[k] \in Int /\ f[i] \in Int
      BY <1>1, <1>2, <3>1
    <3>3. CASE k < i
      <4>1. k + 1 < i \/ k + 1 = i
        BY <1>1, <3>3
      <4>2. f[i] <= f[i]
        BY <3>2
      <4> QED BY <3>1, <4>1, <4>2
    <3>4. CASE ~(k < i)
      <4>1. f[i] <= f[k]
        BY <2>2, <3>4
      <4>2. f[i] <= f[k + 1]
        BY <3>2, <4>1
      <4> QED BY <3>1, <4>2
    <3> QED BY <3>3, <3>4
  <2>3. \A k \in 0..n : k \in S
    <3> HIDE DEF S
    <3> QED BY <1>1, <2>1, <2>2, UpTo
  <2>4. ~(j < i)
    BY <1>1, <1>3
  <2> QED BY <2>3, <2>4
<1>4. ASSUME NEW k \in 0..n PROVE f[k] \in Nat
  <2>1. 0 \in 0..n /\ 0 <= k
    BY <1>1
  <2>2. f[0] <= f[k] /\ f[k] \in Int
    BY <1>2, <1>3, <2>1
  <2> QED BY <1>2, <2>2
<1> QED BY <1>3, <1>4 DEF f

\* Partial sums stay when a sequence goes on, and go on with it.
LEMMA SumsStay ==
  ASSUME NEW s \in Seq(Int), NEW r \in Seq(Int)
  PROVE  /\ \A k \in 0..Len(s) : Sums(s \o r)[k] = Sums(s)[k]
         /\ \A k \in 0..Len(r) : Sums(s \o r)[Len(s) + k] = Sums(s)[Len(s)] + Sums(r)[k]
<1> DEFINE t == s \o r
           f == Sums(s)
           g == Sums(r)
           h == Sums(t)
           m == Len(s)
           n == Len(r)
<1>1. m \in Nat /\ n \in Nat
  OBVIOUS
<1>2. /\ t \in Seq(Int) /\ Len(t) = m + n
      /\ \A k \in 1..(m + n) : t[k] = IF k <= m THEN s[k] ELSE r[k - m]
      /\ \A k \in 1..m : s[k] \in Int
      /\ \A k \in 1..n : r[k] \in Int
  BY ConcatProperties, ElementOfSeq, <1>1
<1> HIDE DEF t
<1>3. f \in [0..m -> Int] /\ f[0] = 0 /\ \A k \in 1..m : f[k] = f[k - 1] + s[k]
  BY SumsAre
<1>4. g \in [0..n -> Int] /\ g[0] = 0 /\ \A k \in 1..n : g[k] = g[k - 1] + r[k]
  BY SumsAre
<1>5. h \in [0..(m + n) -> Int] /\ h[0] = 0 /\ \A k \in 1..(m + n) : h[k] = h[k - 1] + t[k]
  BY <1>2, SumsAre
<1> HIDE DEF f, g, h, m, n
<1>6. \A k \in 0..m : h[k] = f[k]
  <2> DEFINE S == {k \in 0..m : h[k] = f[k]}
  <2>1. 0 \in S
    BY <1>1, <1>3, <1>5
  <2>2. ASSUME NEW k \in 0..m, k < m, k \in S PROVE k + 1 \in S
    <3>1. k + 1 \in 0..m /\ k + 1 \in 1..m /\ (k + 1) - 1 = k /\ k + 1 \in 1..(m + n)
      BY SMTT(20), <1>1, <2>2
    <3>2. f[k + 1] = f[k] + s[k + 1] /\ h[k + 1] = h[k] + t[k + 1] /\ t[k + 1] = s[k + 1]
      BY <1>2, <1>3, <1>5, <3>1
    <3> QED BY <2>2, <3>1, <3>2
  <2>3. \A k \in 0..m : k \in S
    <3> HIDE DEF S
    <3> QED BY <1>1, <2>1, <2>2, UpTo
  <2> QED BY <2>3
<1>7. \A k \in 0..n : h[m + k] = f[m] + g[k]
  <2> DEFINE S == {k \in 0..n : h[m + k] = f[m] + g[k]}
  <2>1. 0 \in S
    <3>1. m \in 0..m /\ m + 0 = m /\ 0 \in 0..n
      BY <1>1
    <3>2. h[m] = f[m] /\ f[m] \in Int
      BY <1>3, <1>6, <3>1
    <3> QED BY <1>4, <3>1, <3>2
  <2>2. ASSUME NEW k \in 0..n, k < n, k \in S PROVE k + 1 \in S
    <3>1. k + 1 \in 0..n /\ k + 1 \in 1..n /\ (k + 1) - 1 = k /\ m + (k + 1) \in 1..(m + n)
          /\ m + (k + 1) - 1 = m + k /\ ~(m + (k + 1) <= m) /\ m + (k + 1) - m = k + 1 /\ m \in 0..m
      BY <1>1, <2>2
    <3>2. g[k + 1] = g[k] + r[k + 1]
      BY <1>4, <3>1
    <3>4. h[m + (k + 1)] = h[m + k] + t[m + (k + 1)] /\ t[m + (k + 1)] = r[k + 1]
      <4> DEFINE q == m + (k + 1)
      <4> HIDE DEF S
      <4>1. q \in 1..(m + n) /\ q - 1 = m + k /\ ~(q <= m) /\ q - m = k + 1
        BY <3>1
      <4> HIDE DEF q
      <4>2. h[q] = h[q - 1] + t[q] /\ t[q] = r[q - m]
        BY <1>2, <1>5, <4>1
      <4> QED BY <4>1, <4>2 DEF q
    <3>3. f[m] \in Int /\ g[k] \in Int /\ r[k + 1] \in Int
      BY <1>2, <1>3, <1>4, <3>1
    <3> QED BY SMTT(20), <2>2, <3>1, <3>2, <3>3, <3>4
  <2>3. \A k \in 0..n : k \in S
    <3> HIDE DEF S
    <3> QED BY <1>1, <2>1, <2>2, UpTo
  <2> QED BY <2>3
<1> QED BY <1>6, <1>7 DEF f, g, h, t, m, n

\* A unit's fields.
LEMMA UnitFields ==
  ASSUME NEW w \in Seq(UnitType)
  PROVE  /\ Len(w) \in Nat /\ DOMAIN w = 1..Len(w)
         /\ \A i \in 1..Len(w) : w[i] \in UnitType /\ w[i].head \in Nat /\ w[i].data \in Nat
<1>1. Len(w) \in Nat /\ DOMAIN w = 1..Len(w) /\ \A i \in 1..Len(w) : w[i] \in UnitType
  BY LenProperties, ElementOfSeq
<1> QED BY <1>1 DEF UnitType

\* What UnitSums says of it as sequences of numbers.
LEMMA UnitCounts ==
  ASSUME NEW w \in Seq(UnitType), NEW s, NEW d,
         s = [i \in DOMAIN w |-> w[i].head + w[i].data], d = [i \in DOMAIN w |-> w[i].data]
  PROVE  /\ s \in Seq(Int) /\ Len(s) = Len(w) /\ EndsOf(w) = Sums(s)
         /\ d \in Seq(Int) /\ Len(d) = Len(w) /\ DataIn(w) = Sums(d)
         /\ \A i \in 1..Len(w) : s[i] = w[i].head + w[i].data /\ s[i] >= 0 /\ d[i] = w[i].data /\ d[i] >= 0
<1>1. /\ Len(w) \in Nat /\ DOMAIN w = 1..Len(w)
      /\ \A i \in 1..Len(w) : w[i].head \in Nat /\ w[i].data \in Nat
  BY UnitFields
<1>2. s = [i \in 1..Len(w) |-> w[i].head + w[i].data] /\ d = [i \in 1..Len(w) |-> w[i].data]
  BY <1>1
<1>3. s \in Seq(Int) /\ Len(s) = Len(w) /\ d \in Seq(Int) /\ Len(d) = Len(w)
  BY <1>1, <1>2
<1>4. \A i \in 1..Len(w) : s[i] = w[i].head + w[i].data /\ s[i] >= 0 /\ d[i] = w[i].data /\ d[i] >= 0
  BY <1>1, <1>2
<1>5. EndsOf(w) = Sums(s) /\ DataIn(w) = Sums(d)
  BY Zenon DEF EndsOf, DataIn
<1> QED BY <1>3, <1>4, <1>5

\* Unit by unit.
LEMMA UnitSums ==
  ASSUME NEW w \in Seq(UnitType)
  PROVE  /\ Len(w) \in Nat
         /\ \A i \in 1..Len(w) : w[i].head \in Nat /\ w[i].data \in Nat
         /\ EndsOf(w)[0] = 0 /\ DataIn(w)[0] = 0
         /\ \A k \in 0..Len(w) : EndsOf(w)[k] \in Nat /\ DataIn(w)[k] \in Nat
         /\ \A k \in 1..Len(w) : /\ EndsOf(w)[k] = EndsOf(w)[k - 1] + (w[k].head + w[k].data)
                                 /\ DataIn(w)[k] = DataIn(w)[k - 1] + w[k].data
<1> DEFINE s == [i \in DOMAIN w |-> w[i].head + w[i].data]
           d == [i \in DOMAIN w |-> w[i].data]
<1>1. /\ s \in Seq(Int) /\ Len(s) = Len(w) /\ EndsOf(w) = Sums(s)
      /\ d \in Seq(Int) /\ Len(d) = Len(w) /\ DataIn(w) = Sums(d)
      /\ \A i \in 1..Len(w) : s[i] = w[i].head + w[i].data /\ s[i] >= 0 /\ d[i] = w[i].data /\ d[i] >= 0
  BY UnitCounts
<1>2. Len(w) \in Nat /\ \A i \in 1..Len(w) : w[i].head \in Nat /\ w[i].data \in Nat
  BY UnitFields
<1> HIDE DEF s, d
<1>3. /\ Sums(s)[0] = 0 /\ \A k \in 1..Len(w) : Sums(s)[k] = Sums(s)[k - 1] + s[k]
      /\ Sums(d)[0] = 0 /\ \A k \in 1..Len(w) : Sums(d)[k] = Sums(d)[k - 1] + d[k]
  BY <1>1, SumsAre
<1>4. \A k \in 0..Len(w) : Sums(s)[k] \in Nat /\ Sums(d)[k] \in Nat
  BY <1>1, SumsGrow
<1> QED BY <1>1, <1>2, <1>3, <1>4

\* What comes later ends later, and no less data is up to there.
LEMMA UnitsGrow ==
  ASSUME NEW w \in Seq(UnitType), NEW i \in 0..Len(w), NEW j \in 0..Len(w)
  PROVE  /\ i <= j => EndsOf(w)[i] <= EndsOf(w)[j] /\ DataIn(w)[i] <= DataIn(w)[j]
         /\ i < j /\ Solid(w) => EndsOf(w)[i] < EndsOf(w)[j]
<1> DEFINE s == [k \in DOMAIN w |-> w[k].head + w[k].data]
           d == [k \in DOMAIN w |-> w[k].data]
<1>1. /\ s \in Seq(Int) /\ Len(s) = Len(w) /\ EndsOf(w) = Sums(s)
      /\ d \in Seq(Int) /\ Len(d) = Len(w) /\ DataIn(w) = Sums(d)
      /\ \A k \in 1..Len(w) : s[k] >= 0 /\ d[k] >= 0
  BY UnitCounts
<1> HIDE DEF s, d
<1>2. \A a, b \in 0..Len(w) : a <= b => EndsOf(w)[a] <= EndsOf(w)[b] /\ DataIn(w)[a] <= DataIn(w)[b]
  <2>1. \A a, b \in 0..Len(s) : a <= b => Sums(s)[a] <= Sums(s)[b]
    BY <1>1, SumsGrow
  <2>2. \A a, b \in 0..Len(d) : a <= b => Sums(d)[a] <= Sums(d)[b]
    BY <1>1, SumsGrow
  <2> QED BY <1>1, <2>1, <2>2
<1>3. ASSUME i < j, Solid(w) PROVE EndsOf(w)[i] < EndsOf(w)[j]
  <2>1. Len(w) \in Nat
    BY UnitSums
  <2>2. j \in 1..Len(w) /\ j - 1 \in 0..Len(w) /\ i <= j - 1
    BY <1>3, <2>1
  <2>3. EndsOf(w)[i] <= EndsOf(w)[j - 1]
    BY <1>2, <2>2
  <2>4. EndsOf(w)[j] = EndsOf(w)[j - 1] + (w[j].head + w[j].data)
        /\ w[j].head \in Nat /\ w[j].data \in Nat /\ EndsOf(w)[j - 1] \in Nat /\ EndsOf(w)[i] \in Nat
    BY <2>2, UnitSums
  <2>5. w[j].head + w[j].data > 0
    BY <1>3, <2>2 DEF Solid
  <2> QED BY <2>3, <2>4, <2>5
<1> QED BY <1>2, <1>3

\* A sequence of numbers that has those of two.
LEMMA ConcatWhen ==
  ASSUME NEW a \in Seq(Int), NEW b \in Seq(Int), NEW c \in Seq(Int), Len(c) = Len(a) + Len(b),
         \A i \in 1..Len(a) : c[i] = a[i], \A i \in 1..Len(b) : c[Len(a) + i] = b[i]
  PROVE  c = a \o b
<1>1. Len(a) \in Nat /\ Len(b) \in Nat
  OBVIOUS
<1>2. a \o b = [q \in 1..(Len(a) + Len(b)) |-> IF q <= Len(a) THEN a[q] ELSE b[q - Len(a)]]
  BY ConcatIs
<1>3. c = [q \in 1..(Len(a) + Len(b)) |-> c[q]]
  BY <1>1
<1>4. ASSUME NEW q \in 1..(Len(a) + Len(b)) PROVE c[q] = IF q <= Len(a) THEN a[q] ELSE b[q - Len(a)]
  <2>1. CASE q <= Len(a)
    BY <1>1, <2>1
  <2>2. CASE ~(q <= Len(a))
    <3>1. q - Len(a) \in 1..Len(b) /\ Len(a) + (q - Len(a)) = q
      BY <1>1, <2>2
    <3> QED BY <2>2, <3>1
  <2> QED BY <2>1, <2>2
<1> QED BY <1>2, <1>3, <1>4

\* Units that go on: those before stay where they are.
LEMMA UnitsStay ==
  ASSUME NEW w \in Seq(UnitType), NEW v \in Seq(UnitType)
  PROVE  /\ w \o v \in Seq(UnitType) /\ Len(w \o v) = Len(w) + Len(v)
         /\ \A i \in 1..Len(w) : (w \o v)[i] = w[i]
         /\ \A i \in 1..Len(v) : (w \o v)[Len(w) + i] = v[i]
         /\ \A k \in 0..Len(w) : EndsOf(w \o v)[k] = EndsOf(w)[k] /\ DataIn(w \o v)[k] = DataIn(w)[k]
         /\ \A k \in 0..Len(v) : /\ EndsOf(w \o v)[Len(w) + k] = Bytes(w) + EndsOf(v)[k]
                                 /\ DataIn(w \o v)[Len(w) + k] = DataIn(w)[Len(w)] + DataIn(v)[k]
<1> DEFINE x == w \o v
           Sizes(y) == [i \in DOMAIN y |-> y[i].head + y[i].data]
           Datas(y) == [i \in DOMAIN y |-> y[i].data]
<1>1. Len(w) \in Nat /\ Len(v) \in Nat
  BY UnitFields
<1>2. /\ x \in Seq(UnitType) /\ Len(x) = Len(w) + Len(v)
      /\ \A i \in 1..(Len(w) + Len(v)) : x[i] = IF i <= Len(w) THEN w[i] ELSE v[i - Len(w)]
  BY <1>1, ConcatProperties
<1> HIDE DEF x
<1>3. \A i \in 1..Len(w) : x[i] = w[i] /\ i \in 1..(Len(w) + Len(v)) /\ i <= Len(w)
  BY <1>1, <1>2
<1>4. ASSUME NEW i \in 1..Len(v) PROVE x[Len(w) + i] = v[i]
  <2>1. Len(w) + i \in 1..(Len(w) + Len(v)) /\ ~(Len(w) + i <= Len(w)) /\ Len(w) + i - Len(w) = i
    BY <1>1
  <2> QED BY <1>2, <2>1
<1>5. \A y \in Seq(UnitType) :
        /\ Sizes(y) \in Seq(Int) /\ Len(Sizes(y)) = Len(y) /\ EndsOf(y) = Sums(Sizes(y))
        /\ Datas(y) \in Seq(Int) /\ Len(Datas(y)) = Len(y) /\ DataIn(y) = Sums(Datas(y))
        /\ \A i \in 1..Len(y) : Sizes(y)[i] = y[i].head + y[i].data /\ Datas(y)[i] = y[i].data
  BY UnitCounts
<1> HIDE DEF Sizes, Datas
<1>6. Sizes(x) = Sizes(w) \o Sizes(v) /\ Datas(x) = Datas(w) \o Datas(v)
  <2>1. /\ Sizes(x) \in Seq(Int) /\ Sizes(w) \in Seq(Int) /\ Sizes(v) \in Seq(Int)
        /\ Datas(x) \in Seq(Int) /\ Datas(w) \in Seq(Int) /\ Datas(v) \in Seq(Int)
        /\ Len(Sizes(x)) = Len(x) /\ Len(Sizes(w)) = Len(w) /\ Len(Sizes(v)) = Len(v)
        /\ Len(Datas(x)) = Len(x) /\ Len(Datas(w)) = Len(w) /\ Len(Datas(v)) = Len(v)
    BY <1>2, <1>5
  <2>2. ASSUME NEW i \in 1..Len(w) PROVE Sizes(x)[i] = Sizes(w)[i] /\ Datas(x)[i] = Datas(w)[i]
    <3>1. i \in 1..Len(x) /\ x[i] = w[i]
      BY <1>1, <1>2, <1>3
    <3> QED BY <1>2, <1>5, <3>1
  <2>3. ASSUME NEW i \in 1..Len(v)
        PROVE  Sizes(x)[Len(w) + i] = Sizes(v)[i] /\ Datas(x)[Len(w) + i] = Datas(v)[i]
    <3>1. Len(w) + i \in 1..Len(x) /\ x[Len(w) + i] = v[i]
      BY <1>1, <1>2, <1>4
    <3> QED BY <1>2, <1>5, <3>1
  <2>4. ASSUME NEW a \in Seq(Int), NEW b \in Seq(Int), NEW c \in Seq(Int),
               Len(a) = Len(w), Len(b) = Len(v), Len(c) = Len(x),
               \A i \in 1..Len(w) : c[i] = a[i], \A i \in 1..Len(v) : c[Len(w) + i] = b[i]
        PROVE  c = a \o b
    <3>1. Len(c) = Len(a) + Len(b) /\ (\A i \in 1..Len(a) : c[i] = a[i])
          /\ \A i \in 1..Len(b) : c[Len(a) + i] = b[i]
      BY <1>2, <2>4
    <3> QED BY <3>1, ConcatWhen
  <2>5. Sizes(x) = Sizes(w) \o Sizes(v)
    BY <2>1, <2>2, <2>3, <2>4
  <2>6. Datas(x) = Datas(w) \o Datas(v)
    BY <2>1, <2>2, <2>3, <2>4
  <2> QED BY <2>5, <2>6
<1>7. /\ \A k \in 0..Len(w) : EndsOf(x)[k] = EndsOf(w)[k] /\ DataIn(x)[k] = DataIn(w)[k]
      /\ \A k \in 0..Len(v) : /\ EndsOf(x)[Len(w) + k] = EndsOf(w)[Len(w)] + EndsOf(v)[k]
                              /\ DataIn(x)[Len(w) + k] = DataIn(w)[Len(w)] + DataIn(v)[k]
  <2> DEFINE a == Sizes(w)
             b == Sizes(v)
             c == Datas(w)
             e == Datas(v)
  <2>1. /\ a \in Seq(Int) /\ b \in Seq(Int) /\ Len(a) = Len(w) /\ Len(b) = Len(v)
        /\ c \in Seq(Int) /\ e \in Seq(Int) /\ Len(c) = Len(w) /\ Len(e) = Len(v)
    BY <1>5
  <2>2. EndsOf(x) = Sums(a \o b) /\ EndsOf(w) = Sums(a) /\ EndsOf(v) = Sums(b)
        /\ DataIn(x) = Sums(c \o e) /\ DataIn(w) = Sums(c) /\ DataIn(v) = Sums(e)
    BY <1>2, <1>5, <1>6
  <2> HIDE DEF a, b, c, e
  <2>3. /\ \A k \in 0..Len(a) : Sums(a \o b)[k] = Sums(a)[k]
        /\ \A k \in 0..Len(b) : Sums(a \o b)[Len(a) + k] = Sums(a)[Len(a)] + Sums(b)[k]
    BY <2>1, SumsStay
  <2>4. /\ \A k \in 0..Len(c) : Sums(c \o e)[k] = Sums(c)[k]
        /\ \A k \in 0..Len(e) : Sums(c \o e)[Len(c) + k] = Sums(c)[Len(c)] + Sums(e)[k]
    BY <2>1, SumsStay
  <2> QED BY <2>1, <2>2, <2>3, <2>4
<1> QED BY <1>2, <1>3, <1>4, <1>7 DEF x, Bytes

\* No more data is in units than they have bytes.
LEMMA DataInside ==
  ASSUME NEW w \in Seq(UnitType)
  PROVE  Bytes(w) \in Nat /\ DataIn(w)[Len(w)] \in Nat /\ Bytes(w) >= DataIn(w)[Len(w)]
<1> DEFINE S == {k \in 0..Len(w) : EndsOf(w)[k] >= DataIn(w)[k]}
<1>1. /\ Len(w) \in Nat /\ EndsOf(w)[0] = 0 /\ DataIn(w)[0] = 0
      /\ \A k \in 0..Len(w) : EndsOf(w)[k] \in Nat /\ DataIn(w)[k] \in Nat
      /\ \A i \in 1..Len(w) : w[i].head \in Nat /\ w[i].data \in Nat
      /\ \A i \in 1..Len(w) : /\ EndsOf(w)[i] = EndsOf(w)[i - 1] + (w[i].head + w[i].data)
                              /\ DataIn(w)[i] = DataIn(w)[i - 1] + w[i].data
  BY UnitSums
<1>2. 0 \in S
  BY <1>1
<1>3. ASSUME NEW k \in 0..Len(w), k < Len(w), k \in S PROVE k + 1 \in S
  <2>1. k + 1 \in 1..Len(w) /\ k + 1 \in 0..Len(w) /\ (k + 1) - 1 = k
    BY <1>1, <1>3
  <2>2. EndsOf(w)[k + 1] = EndsOf(w)[k] + (w[k + 1].head + w[k + 1].data)
        /\ DataIn(w)[k + 1] = DataIn(w)[k] + w[k + 1].data
        /\ w[k + 1].head \in Nat /\ w[k + 1].data \in Nat /\ EndsOf(w)[k] \in Nat /\ DataIn(w)[k] \in Nat
    BY <1>1, <2>1
  <2> QED BY <1>3, <2>1, <2>2
<1>4. \A k \in 0..Len(w) : k \in S
  <2> HIDE DEF S
  <2> QED BY <1>1, <1>2, <1>3, UpTo
<1>5. Len(w) \in 0..Len(w)
  BY <1>1
<1> QED BY <1>1, <1>4, <1>5 DEF Bytes

\* Where a read ends lies behind the units that are whole in it, and before the next one's end.
LEMMA WholeHas ==
  ASSUME NEW w \in Seq(UnitType), NEW pos \in Nat
  PROVE  /\ Whole(w, pos) \in 0..Len(w) /\ EndsOf(w)[Whole(w, pos)] <= pos
         /\ Whole(w, pos) = Len(w) \/ pos < EndsOf(w)[Whole(w, pos) + 1]
<1> DEFINE Fits(k) == EndsOf(w)[k] <= pos /\ (k = Len(w) \/ pos < EndsOf(w)[k + 1])
<1>1. Len(w) \in Nat /\ EndsOf(w)[0] = 0 /\ \A k \in 0..Len(w) : EndsOf(w)[k] \in Nat
  BY UnitSums
<1>2. \E k \in 0..Len(w) : Fits(k)
  <2> SUFFICES ASSUME \A k \in 0..Len(w) : ~Fits(k) PROVE FALSE
    OBVIOUS
  <2> DEFINE S == {k \in 0..Len(w) : EndsOf(w)[k] <= pos}
  <2>1. 0 \in S
    BY <1>1
  <2>2. ASSUME NEW k \in 0..Len(w), k < Len(w), k \in S PROVE k + 1 \in S
    <3>1. k + 1 \in 0..Len(w) /\ k # Len(w) /\ ~Fits(k)
      BY <1>1, <2>2
    <3>2. EndsOf(w)[k + 1] \in Nat
      BY <1>1, <3>1
    <3> QED BY <2>2, <3>1, <3>2
  <2>3. \A k \in 0..Len(w) : k \in S
    <3> HIDE DEF S, Fits
    <3> QED BY <1>1, <2>1, <2>2, UpTo
  <2>4. Len(w) \in 0..Len(w) /\ ~Fits(Len(w))
    BY <1>1
  <2> QED BY <2>3, <2>4
<1>3. Whole(w, pos) = CHOOSE k \in 0..Len(w) : Fits(k)
  BY DEF Whole
<1> HIDE DEF Fits
<1>4. Whole(w, pos) \in 0..Len(w) /\ Fits(Whole(w, pos))
  BY <1>2, <1>3
<1> QED BY <1>4 DEF Fits

\* No other number does, unless units are empty.
LEMMA WholeIs ==
  ASSUME NEW w, Solid(w), NEW pos \in Nat, NEW k \in 0..Len(w),
         EndsOf(w)[k] <= pos, k = Len(w) \/ pos < EndsOf(w)[k + 1]
  PROVE  Whole(w, pos) = k
<1> DEFINE m == Whole(w, pos)
<1>0. w \in Seq(UnitType)
  BY Zenon DEF Solid
<1>1. m \in 0..Len(w) /\ EndsOf(w)[m] <= pos /\ (m = Len(w) \/ pos < EndsOf(w)[m + 1])
  BY <1>0, WholeHas, Zenon
<1> HIDE DEF m
<1>2. Len(w) \in Nat /\ \A i \in 0..Len(w) : EndsOf(w)[i] \in Nat
  BY <1>0, UnitSums
<1>3. \A i, j \in 0..Len(w) : i <= j => EndsOf(w)[i] <= EndsOf(w)[j]
  BY <1>0, UnitsGrow
<1>4. ASSUME m < k PROVE FALSE
  <2>1. m + 1 \in 0..Len(w) /\ m + 1 <= k /\ m # Len(w)
    BY <1>1, <1>2, <1>4
  <2>2. EndsOf(w)[m + 1] <= EndsOf(w)[k]
    BY <1>3, <2>1
  <2> QED BY <1>1, <1>2, <2>1, <2>2
<1>5. ASSUME k < m PROVE FALSE
  <2>1. k + 1 \in 0..Len(w) /\ k + 1 <= m /\ k # Len(w)
    BY <1>1, <1>2, <1>5
  <2>2. EndsOf(w)[k + 1] <= EndsOf(w)[m]
    BY <1>1, <1>3, <2>1
  <2>3. EndsOf(w)[k + 1] \in Nat /\ EndsOf(w)[m] \in Nat
    BY <1>1, <1>2, <2>1
  <2> QED BY <1>1, <2>1, <2>2, <2>3
<1>6. m = k
  BY <1>1, <1>2, <1>4, <1>5
<1> QED BY <1>6 DEF m

\* Units of bytes, one after the other, are units of bytes.
LEMMA SolidConcat ==
  ASSUME NEW w, Solid(w), NEW v, Solid(v)
  PROVE  Solid(w \o v)
<1>1. w \in Seq(UnitType) /\ v \in Seq(UnitType) /\ Len(w) \in Nat /\ Len(v) \in Nat
  BY UnitSums DEF Solid
<1>2. /\ w \o v \in Seq(UnitType) /\ Len(w \o v) = Len(w) + Len(v)
      /\ \A i \in 1..Len(w) : (w \o v)[i] = w[i]
      /\ \A i \in 1..Len(v) : (w \o v)[Len(w) + i] = v[i]
  BY <1>1, UnitsStay
<1>3. ASSUME NEW i \in 1..Len(w \o v) PROVE (w \o v)[i].head + (w \o v)[i].data > 0
  <2>1. CASE i <= Len(w)
    <3>1. i \in 1..Len(w)
      BY <1>1, <2>1
    <3> QED BY <1>2, <3>1 DEF Solid
  <2>2. CASE ~(i <= Len(w))
    <3>1. i - Len(w) \in 1..Len(v) /\ Len(w) + (i - Len(w)) = i
      BY <1>1, <1>2, <2>2
    <3>2. (w \o v)[i] = v[i - Len(w)]
      BY <1>2, <3>1
    <3> QED BY <3>1, <3>2 DEF Solid
  <2> QED BY <2>1, <2>2
<1> QED BY <1>2, <1>3 DEF Solid

\* What is whole in a read stays what it is when more is written.
LEMMA WholeStays ==
  ASSUME NEW w, Solid(w), NEW v, Solid(v), NEW pos \in Nat, pos <= Bytes(w)
  PROVE  Whole(w \o v, pos) = Whole(w, pos)
<1> DEFINE k == Whole(w, pos)
           x == w \o v
<1>1. w \in Seq(UnitType) /\ v \in Seq(UnitType) /\ Solid(x)
  BY SolidConcat DEF Solid
<1>2. /\ x \in Seq(UnitType) /\ Len(x) = Len(w) + Len(v)
      /\ \A i \in 0..Len(w) : EndsOf(x)[i] = EndsOf(w)[i]
  BY <1>1, UnitsStay
<1>3. k \in 0..Len(w) /\ EndsOf(w)[k] <= pos /\ (k = Len(w) \/ pos < EndsOf(w)[k + 1])
  BY <1>1, WholeHas, Zenon
<1>4. Len(w) \in Nat /\ Len(v) \in Nat /\ \A i \in 0..Len(x) : EndsOf(x)[i] \in Nat
  BY <1>1, <1>2, UnitSums
<1> HIDE DEF k, x
<1>5. k \in 0..Len(x) /\ EndsOf(x)[k] <= pos
  BY <1>2, <1>3, <1>4
<1>6. k = Len(x) \/ pos < EndsOf(x)[k + 1]
  <2>1. CASE k < Len(w)
    <3>1. k + 1 \in 0..Len(w)
      BY <1>3, <1>4, <2>1
    <3> QED BY <1>2, <1>3, <1>4, <2>1, <3>1
  <2>2. CASE k = Len(w) /\ Len(v) = 0
    BY <1>2, <1>4, <2>2
  <2>3. CASE k = Len(w) /\ Len(v) # 0
    <3>1. k + 1 \in 0..Len(x) /\ k < k + 1 /\ k \in Nat
      BY <1>2, <1>4, <2>3
    <3>2. EndsOf(x)[k] < EndsOf(x)[k + 1]
      BY <1>1, <1>2, <1>5, <3>1, UnitsGrow
    <3>3. EndsOf(x)[k] = Bytes(w)
      BY <1>2, <1>3, <2>3 DEF Bytes
    <3>4. EndsOf(x)[k] \in Nat /\ EndsOf(x)[k + 1] \in Nat
      BY <1>4, <1>5, <3>1
    <3> QED BY <3>2, <3>3, <3>4
  <2> QED BY <1>3, <1>4, <2>1, <2>2, <2>3
<1>7. Whole(x, pos) = k
  BY <1>1, <1>5, <1>6, WholeIs
<1> QED BY <1>7 DEF k, x

\* What Cipher counts behind the units that are whole.
Parted(w, pos, k) ==
  IF k < Len(w) /\ w[k + 1].kind # "record" /\ pos - EndsOf(w)[k] > w[k + 1].head
    THEN pos - EndsOf(w)[k] - w[k + 1].head ELSE 0

\* Cipher in two parts.
LEMMA CipherIs ==
  ASSUME NEW w, NEW pos, NEW k, k = Whole(w, pos)
  PROVE  Cipher(w, pos) = DataIn(w)[k] + Parted(w, pos, k)
BY DEF Cipher, Parted

\* Cipher counts the data of the units that are whole, and of no more than the next.
LEMMA CipherBounds ==
  ASSUME NEW w \in Seq(UnitType), NEW pos \in Nat
  PROVE  /\ Cipher(w, pos) \in Nat /\ Cipher(w, pos) <= DataIn(w)[Len(w)]
         /\ DataIn(w)[Whole(w, pos)] <= Cipher(w, pos)
<1> DEFINE k == Whole(w, pos)
<1>1. k \in 0..Len(w) /\ EndsOf(w)[k] <= pos /\ (k = Len(w) \/ pos < EndsOf(w)[k + 1])
  BY WholeHas, Zenon
<1>2. Cipher(w, pos) = DataIn(w)[k] + Parted(w, pos, k)
  BY CipherIs
<1> HIDE DEF k
<1>3. /\ Len(w) \in Nat /\ \A i \in 0..Len(w) : EndsOf(w)[i] \in Nat /\ DataIn(w)[i] \in Nat
      /\ \A i \in 1..Len(w) : w[i].head \in Nat /\ w[i].data \in Nat
      /\ \A i \in 1..Len(w) : /\ EndsOf(w)[i] = EndsOf(w)[i - 1] + (w[i].head + w[i].data)
                              /\ DataIn(w)[i] = DataIn(w)[i - 1] + w[i].data
  BY UnitSums
<1>4. DataIn(w)[k] \in Nat /\ EndsOf(w)[k] \in Nat /\ k \in Nat /\ Len(w) \in 0..Len(w) /\ DataIn(w)[Len(w)] \in Nat
  BY <1>1, <1>3
<1>5. DataIn(w)[k] <= DataIn(w)[Len(w)]
  BY <1>1, <1>4, UnitsGrow
<1>6. CASE k < Len(w) /\ w[k + 1].kind # "record" /\ pos - EndsOf(w)[k] > w[k + 1].head
  <2>1. k + 1 \in 1..Len(w) /\ k + 1 \in 0..Len(w) /\ (k + 1) - 1 = k /\ k # Len(w)
    BY <1>3, <1>4, <1>6
  <2>2. EndsOf(w)[k + 1] = EndsOf(w)[k] + (w[k + 1].head + w[k + 1].data)
        /\ DataIn(w)[k + 1] = DataIn(w)[k] + w[k + 1].data
        /\ w[k + 1].head \in Nat /\ w[k + 1].data \in Nat
    BY <1>3, <2>1
  <2>3. DataIn(w)[k + 1] <= DataIn(w)[Len(w)]
    BY <1>3, <1>4, <2>1, UnitsGrow
  <2>4. Parted(w, pos, k) = pos - EndsOf(w)[k] - w[k + 1].head
    BY <1>6 DEF Parted
  <2>5. pos < EndsOf(w)[k + 1]
    BY <1>1, <2>1
  <2>6. pos - EndsOf(w)[k] > w[k + 1].head
    BY <1>6
  <2>8. Parted(w, pos, k) \in Nat /\ Parted(w, pos, k) <= w[k + 1].data
    BY SMTT(20), <1>4, <2>2, <2>4, <2>5, <2>6
  <2>9. Cipher(w, pos) \in Nat /\ Cipher(w, pos) <= DataIn(w)[Len(w)] /\ DataIn(w)[k] <= Cipher(w, pos)
    <3> DEFINE a == DataIn(w)[k]
               b == DataIn(w)[Len(w)]
               c == Cipher(w, pos)
               p == Parted(w, pos, k)
               e == DataIn(w)[k + 1]
               g == w[k + 1].data
    <3>1. a \in Nat /\ b \in Nat /\ c = a + p /\ p \in Nat /\ p <= g /\ g \in Nat /\ e = a + g /\ e <= b
      BY <1>2, <1>4, <2>2, <2>3, <2>8
    <3> HIDE DEF a, b, c, p, e, g
    <3>2. c \in Nat /\ c <= b /\ a <= c
      BY <3>1
    <3> QED BY <3>2 DEF a, b, c
  <2> QED BY <2>9 DEF k
<1>7. CASE ~(k < Len(w) /\ w[k + 1].kind # "record" /\ pos - EndsOf(w)[k] > w[k + 1].head)
  <2>1. Parted(w, pos, k) = 0
    BY <1>7 DEF Parted
  <2>2. Cipher(w, pos) = DataIn(w)[k]
    BY <1>2, <1>4, <2>1
  <2> QED BY <1>4, <1>5, <2>2 DEF k
<1> QED BY <1>6, <1>7

\* It counts the same when more is written.
LEMMA CipherStays ==
  ASSUME NEW w, Solid(w), NEW v, Solid(v), NEW pos \in Nat, pos <= Bytes(w)
  PROVE  Cipher(w \o v, pos) = Cipher(w, pos)
<1> DEFINE k == Whole(w, pos)
           x == w \o v
<1>1. w \in Seq(UnitType) /\ v \in Seq(UnitType)
  BY DEF Solid
<1>2. /\ x \in Seq(UnitType) /\ Len(x) = Len(w) + Len(v)
      /\ \A i \in 1..Len(w) : x[i] = w[i]
      /\ \A i \in 0..Len(w) : EndsOf(x)[i] = EndsOf(w)[i] /\ DataIn(x)[i] = DataIn(w)[i]
  BY <1>1, UnitsStay
<1>3. k \in 0..Len(w) /\ EndsOf(w)[k] <= pos /\ (k = Len(w) \/ pos < EndsOf(w)[k + 1])
  BY <1>1, WholeHas, Zenon
<1>4. /\ Len(w) \in Nat /\ Len(v) \in Nat /\ \A i \in 0..Len(w) : EndsOf(w)[i] \in Nat
      /\ \A i \in 1..Len(x) : x[i].head \in Nat
  BY <1>1, <1>2, UnitSums
<1>5. Whole(x, pos) = k
  BY WholeStays
<1>6. Cipher(x, pos) = DataIn(x)[k] + Parted(x, pos, k) /\ Cipher(w, pos) = DataIn(w)[k] + Parted(w, pos, k)
  BY <1>5, CipherIs, Zenon
<1> HIDE DEF k, x
<1>7. Parted(x, pos, k) = Parted(w, pos, k)
  <2>1. CASE k < Len(w)
    <3>1. k + 1 \in 1..Len(w) /\ k < Len(x)
      BY <1>2, <1>3, <1>4, <2>1
    <3>2. x[k + 1] = w[k + 1] /\ EndsOf(x)[k] = EndsOf(w)[k]
      BY <1>2, <1>3, <3>1
    <3> QED BY <2>1, <3>1, <3>2 DEF Parted
  <2>2. CASE k = Len(w)
    <3>1. EndsOf(x)[k] = EndsOf(w)[k] /\ EndsOf(w)[k] \in Nat /\ EndsOf(w)[k] = Bytes(w)
      BY <1>2, <1>3, <1>4, <2>2 DEF Bytes
    <3>2. pos - EndsOf(x)[k] = 0
      BY <1>3, <3>1
    <3>3. Parted(w, pos, k) = 0
      BY <1>4, <2>2 DEF Parted
    <3>4. CASE k < Len(x)
      <4>1. k + 1 \in 1..Len(x)
        BY <1>2, <1>3, <1>4, <3>4
      <4>2. x[k + 1].head \in Nat
        BY <1>4, <4>1
      <4> QED BY <3>2, <3>3, <4>2 DEF Parted
    <3>5. CASE ~(k < Len(x))
      BY <3>3, <3>5 DEF Parted
    <3> QED BY <3>4, <3>5
  <2> QED BY <1>3, <1>4, <2>1, <2>2
<1>8. Cipher(x, pos) = Cipher(w, pos)
  BY <1>2, <1>3, <1>6, <1>7
<1> QED BY <1>8 DEF x

\* Bytes as they are, but for what the first unit has before them.
Plain(w, h) ==
  \A i \in 1..Len(w) : w[i].kind # "record" /\ w[i].head = IF i = 1 THEN h ELSE 0

\* Of those Cipher counts all but what goes before.
LEMMA PlainCipher ==
  ASSUME NEW w, Solid(w), NEW h \in Nat, Plain(w, h), NEW pos \in Nat, pos <= Bytes(w)
  PROVE  Cipher(w, pos) = IF pos > h THEN pos - h ELSE 0
<1> DEFINE k == Whole(w, pos)
<1>0. w \in Seq(UnitType)
  BY DEF Solid
<1>1. k \in 0..Len(w) /\ EndsOf(w)[k] <= pos /\ (k = Len(w) \/ pos < EndsOf(w)[k + 1])
  BY <1>0, WholeHas, Zenon
<1>2. Cipher(w, pos) = DataIn(w)[k] + Parted(w, pos, k)
  BY CipherIs
<1> HIDE DEF k
<1>3. /\ Len(w) \in Nat /\ \A i \in 0..Len(w) : EndsOf(w)[i] \in Nat /\ DataIn(w)[i] \in Nat
      /\ EndsOf(w)[0] = 0 /\ DataIn(w)[0] = 0
      /\ \A i \in 1..Len(w) : w[i].head \in Nat /\ w[i].data \in Nat
      /\ \A i \in 1..Len(w) : /\ EndsOf(w)[i] = EndsOf(w)[i - 1] + (w[i].head + w[i].data)
                              /\ DataIn(w)[i] = DataIn(w)[i - 1] + w[i].data
  BY <1>0, UnitSums
<1>4. \A i \in 0..Len(w) : i = 0 \/ EndsOf(w)[i] = DataIn(w)[i] + h
  <2> DEFINE S == {i \in 0..Len(w) : i = 0 \/ EndsOf(w)[i] = DataIn(w)[i] + h}
  <2>1. 0 \in S
    BY <1>3
  <2>2. ASSUME NEW i \in 0..Len(w), i < Len(w), i \in S PROVE i + 1 \in S
    <3>1. i + 1 \in 0..Len(w) /\ i + 1 \in 1..Len(w) /\ (i + 1) - 1 = i /\ (i + 1 = 1 <=> i = 0)
      BY <1>3, <2>2
    <3>2. EndsOf(w)[i + 1] = EndsOf(w)[i] + (w[i + 1].head + w[i + 1].data)
          /\ DataIn(w)[i + 1] = DataIn(w)[i] + w[i + 1].data
          /\ w[i + 1].data \in Nat /\ DataIn(w)[i] \in Nat /\ EndsOf(w)[i] \in Nat
      BY <1>3, <3>1
    <3>3. w[i + 1].head = IF i = 0 THEN h ELSE 0
      BY <3>1 DEF Plain
    <3>4. CASE i = 0
      <4>1. EndsOf(w)[i] = 0 /\ DataIn(w)[i] = 0
        BY <1>3, <3>4
      <4>2. EndsOf(w)[i + 1] = DataIn(w)[i + 1] + h
        BY <3>2, <3>3, <3>4, <4>1
      <4> QED BY <3>1, <4>2
    <3>5. CASE i # 0
      <4>1. EndsOf(w)[i] = DataIn(w)[i] + h
        BY <2>2, <3>5
      <4>2. EndsOf(w)[i + 1] = DataIn(w)[i + 1] + h
        BY <3>2, <3>3, <3>5, <4>1
      <4> QED BY <3>1, <4>2
    <3> QED BY <3>4, <3>5
  <2>3. \A i \in 0..Len(w) : i \in S
    <3> HIDE DEF S
    <3> QED BY <1>3, <2>1, <2>2, UpTo
  <2> QED BY <2>3
<1>5. DataIn(w)[k] \in Nat /\ EndsOf(w)[k] \in Nat /\ k \in Nat
  BY <1>1, <1>3
<1>6. CASE k = 0 /\ Len(w) = 0
  <2>1. Bytes(w) = 0 /\ DataIn(w)[k] = 0 /\ Parted(w, pos, k) = 0
    BY <1>3, <1>6 DEF Bytes, Parted
  <2> QED BY <1>2, <2>1
<1>7. CASE k = 0 /\ Len(w) # 0
  <2>1. 1 \in 1..Len(w) /\ k < Len(w) /\ k + 1 = 1 /\ DataIn(w)[k] = 0 /\ pos - EndsOf(w)[k] = pos
    BY <1>3, <1>7
  <2>2. w[1].kind # "record" /\ w[1].head = h
    BY <2>1 DEF Plain
  <2>3. Parted(w, pos, k) = IF pos > h THEN pos - h ELSE 0
    BY <2>1, <2>2 DEF Parted
  <2> QED BY <1>2, <2>1, <2>3
<1>8. CASE k # 0
  <2>1. EndsOf(w)[k] = DataIn(w)[k] + h
    BY <1>1, <1>4, <1>8
  <2>2. Parted(w, pos, k) = pos - EndsOf(w)[k]
    <3>1. CASE k = Len(w)
      <4>1. pos - EndsOf(w)[k] = 0
        BY <1>1, <1>5, <3>1 DEF Bytes
      <4> QED BY <1>3, <3>1, <4>1 DEF Parted
    <3>2. CASE k # Len(w)
      <4>1. k < Len(w) /\ k + 1 \in 1..Len(w) /\ k + 1 # 1
        BY <1>1, <1>3, <1>8, <3>2
      <4>2. w[k + 1].kind # "record" /\ w[k + 1].head = 0
        BY <4>1 DEF Plain
      <4> QED BY <1>1, <1>5, <4>1, <4>2 DEF Parted
    <3> QED BY <3>1, <3>2
  <2> QED BY <1>1, <1>2, <1>5, <2>1, <2>2
<1> QED BY <1>6, <1>7, <1>8

\* The loop over the records, spelled out.
RecordLeft(w, had, size, k) == size - (EndsOf(w)[had + k] - EndsOf(w)[had])
RecordStops(w, had, size, k) ==
  \/ RecordLeft(w, had, size, k) <= 5
  \/ w[had + k + 1].head + w[had + k + 1].data > RecordLeft(w, had, size, k)

\* It stops at the first record that is not whole, and takes no byte that is not there.
LEMMA RecordsTaken ==
  ASSUME NEW w \in Seq(UnitType), NEW had \in 0..Len(w), NEW size \in Nat, NEW to \in Nat,
         to = EndsOf(w)[had] + size, to <= Bytes(w)
  PROVE  LET k == WholeRecords(w, had, size)
         IN  /\ k \in 0..(Len(w) - had) /\ RecordStops(w, had, size, k)
             /\ had + k \in 0..Len(w) /\ EndsOf(w)[had + k] <= to
<1> DEFINE n == Len(w) - had
           Stop(k) == RecordStops(w, had, size, k)
           S == {k \in 0..n : Stop(k)}
<1>1. /\ Len(w) \in Nat /\ had \in Nat /\ n \in Nat /\ had + n = Len(w)
      /\ \A i \in 0..Len(w) : EndsOf(w)[i] \in Nat
      /\ \A i \in 1..Len(w) : w[i].head \in Nat /\ w[i].data \in Nat
      /\ \A i \in 1..Len(w) : EndsOf(w)[i] = EndsOf(w)[i - 1] + (w[i].head + w[i].data)
  BY UnitSums
<1>2. n \in S
  <2>1. EndsOf(w)[had] \in Nat /\ EndsOf(w)[had + n] = Bytes(w) /\ Bytes(w) \in Nat
    <3>1. Len(w) \in 0..Len(w)
      BY <1>1
    <3> QED BY <1>1, <3>1 DEF Bytes
  <2>2. RecordLeft(w, had, size, n) <= 5
    <3> HIDE DEF n
    <3> QED BY <2>1 DEF RecordLeft
  <2>3. Stop(n)
    <3> HIDE DEF n
    <3> QED BY <2>2 DEF RecordStops
  <2> HIDE DEF Stop
  <2> QED BY <1>1, <2>3
<1>3. PICK k \in S : \A m \in S : k <= m
  <2>1. S # {}
    <3> HIDE DEF S
    <3> QED BY <1>2
  <2>2. S \subseteq Nat
    <3> HIDE DEF Stop, n
    <3> QED BY <1>1
  <2> HIDE DEF S
  <2> QED BY <2>1, <2>2, LeastOf
<1> DEFINE r == WholeRecords(w, had, size)
<1>4. r = CHOOSE q \in 0..n : Stop(q) /\ \A j \in 0..(q - 1) : ~Stop(j)
  BY Zenon DEF WholeRecords, RecordStops, RecordLeft
<1>5. \E q \in 0..n : Stop(q) /\ \A j \in 0..(q - 1) : ~Stop(j)
  <2>1. \A j \in 0..(k - 1) : j \in 0..n /\ ~(k <= j)
    BY <1>1
  <2> HIDE DEF Stop
  <2> QED BY <1>3, <2>1
<1>6. r \in 0..n /\ Stop(r) /\ \A j \in 0..(r - 1) : ~Stop(j)
  <2> HIDE DEF Stop, n, r
  <2> QED BY <1>4, <1>5
<1> HIDE DEF r
<1>7. had + r \in 0..Len(w)
  BY <1>1, <1>6
<1>8. EndsOf(w)[had + r] <= to
  <2>1. CASE r = 0
    <3>1. had + r = had
      BY <1>1, <2>1
    <3>2. EndsOf(w)[had] \in Nat
      BY <1>1
    <3> QED BY <3>1, <3>2
  <2>2. CASE r # 0
    <3> DEFINE p == had + (r - 1)
    <3>0. r \in Nat /\ r > 0 /\ r <= n
      BY <1>1, <1>6, <2>2
    <3>1. r - 1 \in 0..(r - 1) /\ p \in 0..Len(w) /\ p + 1 \in 1..Len(w) /\ (p + 1) - 1 = p /\ had + r = p + 1
      BY <1>1, <3>0
    <3>2. ~Stop(r - 1)
      BY <1>6, <3>1
    <3> HIDE DEF p
    <3>3. ~(w[p + 1].head + w[p + 1].data > size - (EndsOf(w)[p] - EndsOf(w)[had]))
      BY <3>2 DEF RecordStops, RecordLeft, p
    <3>4. EndsOf(w)[p + 1] = EndsOf(w)[p] + (w[p + 1].head + w[p + 1].data)
          /\ EndsOf(w)[p] \in Nat /\ EndsOf(w)[had] \in Nat /\ w[p + 1].head \in Nat /\ w[p + 1].data \in Nat
      BY <1>1, <3>1
    <3> DEFINE a == EndsOf(w)[p + 1]
               b == EndsOf(w)[p]
               c == EndsOf(w)[had]
               h == w[p + 1].head
               g == w[p + 1].data
               d == h + g
    <3>5. a = b + d /\ b \in Nat /\ c \in Nat /\ h \in Nat /\ g \in Nat
      BY Zenon, <3>4
    <3>7. ~(d > size - (b - c)) /\ to = c + size
      BY <3>3, Zenon
    <3> HIDE DEF a, b, c, h, g
    <3>6. a <= to
      BY <3>5, <3>7
    <3> QED BY <3>1, <3>6 DEF a
  <2> QED BY <2>1, <2>2
<1>9. r \in 0..n /\ RecordStops(w, had, size, r) /\ had + r \in 0..Len(w) /\ EndsOf(w)[had + r] <= to
  BY <1>6, <1>7, <1>8
<1> QED BY <1>9 DEF r

\* Whole to a reader of records: those from the next one on, with their own five bytes.
Recorded(w, had) ==
  \A i \in 1..Len(w) : i > had => w[i].kind = "record" /\ w[i].head = 5

\* Of records it takes the data that Cipher counts.
LEMMA RecordsCipher ==
  ASSUME NEW w, Solid(w), NEW had \in 0..Len(w), Recorded(w, had), NEW size \in Nat, NEW to \in Nat,
         to = EndsOf(w)[had] + size, to <= Bytes(w), NEW k, k = WholeRecords(w, had, size)
  PROVE  DataIn(w)[had + k] = Cipher(w, to)
<1> DEFINE t == had + k
<1>0. w \in Seq(UnitType)
  BY DEF Solid
<1>1. k \in 0..(Len(w) - had) /\ RecordStops(w, had, size, k) /\ t \in 0..Len(w) /\ EndsOf(w)[t] <= to
  BY <1>0, RecordsTaken, Zenon
<1>2. /\ Len(w) \in Nat /\ had \in Nat
      /\ \A i \in 0..Len(w) : EndsOf(w)[i] \in Nat /\ DataIn(w)[i] \in Nat
      /\ \A i \in 1..Len(w) : w[i].head \in Nat /\ w[i].data \in Nat
      /\ \A i \in 1..Len(w) : /\ EndsOf(w)[i] = EndsOf(w)[i - 1] + (w[i].head + w[i].data)
                              /\ DataIn(w)[i] = DataIn(w)[i - 1] + w[i].data
  <2>1. /\ Len(w) \in Nat
        /\ \A i \in 0..Len(w) : EndsOf(w)[i] \in Nat /\ DataIn(w)[i] \in Nat
        /\ \A i \in 1..Len(w) : w[i].head \in Nat /\ w[i].data \in Nat
        /\ \A i \in 1..Len(w) : /\ EndsOf(w)[i] = EndsOf(w)[i - 1] + (w[i].head + w[i].data)
                                /\ DataIn(w)[i] = DataIn(w)[i - 1] + w[i].data
    BY Zenon, <1>0, UnitSums
  <2>2. had \in Nat
    BY <2>1
  <2> QED BY Zenon, <2>1, <2>2
<1>3. t \in Nat /\ t >= had
  BY <1>1, <1>2
<1>4. size - (EndsOf(w)[t] - EndsOf(w)[had]) <= 5
      \/ w[t + 1].head + w[t + 1].data > size - (EndsOf(w)[t] - EndsOf(w)[had])
  BY <1>1 DEF RecordStops, RecordLeft
<1> HIDE DEF t
<1>5. ASSUME NEW m \in 0..Len(w), m >= had, EndsOf(w)[m] <= to, m = Len(w) \/ to < EndsOf(w)[m + 1]
      PROVE  Cipher(w, to) = DataIn(w)[m]
  <2>1. Whole(w, to) = m
    BY <1>5, WholeIs
  <2>2. Cipher(w, to) = DataIn(w)[m] + Parted(w, to, m)
    BY <2>1, CipherIs
  <2>3. Parted(w, to, m) = 0
    <3>1. CASE m < Len(w)
      <4>1. m + 1 \in 1..Len(w) /\ m + 1 > had
        BY <1>2, <1>5, <3>1
      <4>2. w[m + 1].kind = "record"
        BY <4>1 DEF Recorded
      <4> QED BY <4>2 DEF Parted
    <3>2. CASE ~(m < Len(w))
      BY <3>2 DEF Parted
    <3> QED BY <3>1, <3>2
  <2> QED BY <1>2, <2>2, <2>3
<1>6. CASE t = Len(w) \/ to < EndsOf(w)[t + 1]
  <2>1. Cipher(w, to) = DataIn(w)[t]
    BY <1>1, <1>3, <1>5, <1>6
  <2> QED BY <2>1 DEF t
<1>7. CASE t # Len(w) /\ ~(to < EndsOf(w)[t + 1])
  <2>1. t + 1 \in 1..Len(w) /\ t + 1 \in 0..Len(w) /\ (t + 1) - 1 = t /\ t + 1 > had
    BY <1>1, <1>2, <1>3, <1>7
  <2>2. EndsOf(w)[t + 1] = EndsOf(w)[t] + (w[t + 1].head + w[t + 1].data)
        /\ DataIn(w)[t + 1] = DataIn(w)[t] + w[t + 1].data
        /\ EndsOf(w)[t] \in Nat /\ DataIn(w)[t] \in Nat /\ EndsOf(w)[had] \in Nat
        /\ w[t + 1].head \in Nat /\ w[t + 1].data \in Nat /\ EndsOf(w)[t + 1] \in Nat
    BY <1>1, <1>2, <2>1
  <2>3. w[t + 1].head = 5
    BY <2>1 DEF Recorded
  <2>4. w[t + 1].data = 0 /\ EndsOf(w)[t + 1] = to
    <3> DEFINE a == EndsOf(w)[t + 1]
               b == EndsOf(w)[t]
               c == EndsOf(w)[had]
               d == w[t + 1].data
    <3>1. a = b + (5 + d) /\ a \in Nat /\ b \in Nat /\ c \in Nat /\ d \in Nat /\ to = c + size /\ ~(to < a)
          /\ (size - (b - c) <= 5 \/ 5 + d > size - (b - c))
      BY <1>4, <1>7, <2>2, <2>3
    <3> HIDE DEF a, b, c, d
    <3>2. d = 0 /\ a = to
      BY <3>1
    <3> QED BY <3>2 DEF a, d
  <2>5. t + 1 = Len(w) \/ to < EndsOf(w)[(t + 1) + 1]
    <3>1. CASE t + 1 # Len(w)
      <4>1. (t + 1) + 1 \in 0..Len(w) /\ t + 1 < (t + 1) + 1
        BY <1>2, <2>1, <3>1
      <4> QED BY <1>0, <2>1, <2>4, <4>1, UnitsGrow
    <3> QED BY <3>1
  <2>6. Cipher(w, to) = DataIn(w)[t + 1]
    BY <1>5, <2>1, <2>4, <2>5, <1>3
  <2> QED BY <2>2, <2>4, <2>6 DEF t
<1> QED BY <1>6, <1>7

-----------------------------------------------------------------------------
(* What a protocol makes of the calls.                                     *)

\* Units none of which comes without data.
Loaded(w) == w \in Seq(UnitType) /\ \A i \in 1..Len(w) : w[i].data > 0

\* Data are bytes.
LEMMA LoadedSolid ==
  ASSUME NEW w, Loaded(w)
  PROVE  Solid(w)
BY UnitFields DEF Loaded, Solid

\* The sizes of a call.
Pos == Nat \ {0}

\* One call makes a frame or two, with its bytes in them.
LEMMA FramesOfCall ==
  ASSUME NEW n \in Pos
  PROVE  /\ Loaded(FramesOf(n)) /\ Len(FramesOf(n)) \in Pos
         /\ DataIn(FramesOf(n))[Len(FramesOf(n))] = n
         /\ Bytes(FramesOf(n)) \in Nat /\ Bytes(FramesOf(n)) >= n
<1> DEFINE w == FramesOf(n)
<1>1. \A m \in Pos : FrameOf(m) \in UnitType /\ FrameOf(m).data = m /\ FrameOf(m).head = 7
  BY DEF FrameOf, Unit, FrameHead, UnitType, Pos
<1>2. Loaded(w) /\ Len(w) \in Pos /\ DataIn(w)[Len(w)] = n
  <2>1. CASE n <= pack_unit_size
    <3>1. w = <<FrameOf(n)>>
      BY <2>1, Zenon DEF FramesOf
    <3> HIDE DEF w
    <3>2. w \in Seq(UnitType) /\ Len(w) = 1 /\ w[1] = FrameOf(n)
      BY <1>1, <3>1
    <3>3. Loaded(w)
      BY <1>1, <3>2 DEF Loaded, Pos
    <3>4. DataIn(w)[0] = 0 /\ DataIn(w)[1] = DataIn(w)[1 - 1] + w[1].data
      <4>1. 1 \in 1..Len(w)
        BY <3>2
      <4> QED BY <3>2, <4>1, UnitSums
    <3>5. DataIn(w)[1] = n
      BY <1>1, <3>2, <3>4 DEF Pos
    <3> QED BY <3>2, <3>3, <3>5 DEF Pos
  <2>2. CASE ~(n <= pack_unit_size)
    <3>1. w = <<FrameOf(pack_unit_size), FrameOf(n - pack_unit_size)>>
      BY <2>2, Zenon DEF FramesOf
    <3>2. pack_unit_size \in Pos /\ n - pack_unit_size \in Pos /\ n = pack_unit_size + (n - pack_unit_size)
      BY <2>2 DEF pack_unit_size, Pos
    <3> DEFINE a == pack_unit_size
               b == n - pack_unit_size
    <3> HIDE DEF w, a, b
    <3>3. w = <<FrameOf(a), FrameOf(b)>> /\ a \in Pos /\ b \in Pos /\ n = a + b
      BY <3>1, <3>2, Zenon DEF a, b
    <3>4. FrameOf(a) \in UnitType /\ FrameOf(b) \in UnitType /\ FrameOf(a).data = a /\ FrameOf(b).data = b
      BY <1>1, <3>3
    <3>5. w \in Seq(UnitType) /\ Len(w) = 2 /\ w[1] = FrameOf(a) /\ w[2] = FrameOf(b)
      BY <3>3, <3>4
    <3>6. Loaded(w)
      <4>1. \A i \in 1..2 : i = 1 \/ i = 2
        OBVIOUS
      <4> QED BY <3>3, <3>4, <3>5, <4>1 DEF Loaded, Pos
    <3>7. DataIn(w)[0] = 0 /\ DataIn(w)[1] = DataIn(w)[1 - 1] + w[1].data /\ DataIn(w)[2] = DataIn(w)[2 - 1] + w[2].data
      BY <3>5, UnitSums
    <3>8. DataIn(w)[2] = n
      BY <3>3, <3>4, <3>5, <3>7 DEF Pos
    <3> QED BY <3>5, <3>6, <3>8 DEF Pos
  <2> HIDE DEF w
  <2> QED BY <2>1, <2>2
<1> HIDE DEF w
<1>3. w \in Seq(UnitType)
  BY <1>2 DEF Loaded
<1>4. Bytes(w) \in Nat /\ Bytes(w) >= DataIn(w)[Len(w)]
  BY <1>3, DataInside
<1> QED BY <1>2, <1>4 DEF w

\* The frames of the first calls.
LEMMA FramesFirsts ==
  ASSUME NEW calls \in Seq(Pos)
  PROVE  /\ FramesOfAll(SubSeq(calls, 1, 0)) = <<>>
         /\ FramesOfAll(SubSeq(calls, 1, Len(calls))) = FramesOfAll(calls)
         /\ \A k \in 0..Len(calls) : FramesOfAll(SubSeq(calls, 1, k)) \in Seq(UnitType)
         /\ \A k \in 1..Len(calls) :
              FramesOfAll(SubSeq(calls, 1, k)) = FramesOfAll(SubSeq(calls, 1, k - 1)) \o FramesOf(calls[k])
<1>1. Len(calls) \in Nat /\ DOMAIN calls = 1..Len(calls) /\ \A i \in 1..Len(calls) : calls[i] \in Pos
  BY LenProperties, ElementOfSeq
<1> DEFINE t == [i \in 1..Len(calls) |-> FramesOf(calls[i])]
           J(k) == Joined([i \in 1..k |-> t[i]])
<1>2. t \in Seq(Seq(UnitType)) /\ Len(t) = Len(calls) /\ \A i \in 1..Len(calls) : t[i] = FramesOf(calls[i])
  <2>1. \A i \in 1..Len(calls) : FramesOf(calls[i]) \in Seq(UnitType)
    BY <1>1, FramesOfCall DEF Loaded
  <2> QED BY <1>1, <2>1
<1>3. /\ J(0) = <<>> /\ \A k \in 0..Len(calls) : J(k) \in Seq(UnitType)
      /\ \A k \in 1..Len(calls) : J(k) = J(k - 1) \o t[k]
  <2> HIDE DEF t
  <2> QED BY <1>2, JoinedPrefixes
<1>4. ASSUME NEW k \in 0..Len(calls) PROVE FramesOfAll(SubSeq(calls, 1, k)) = J(k)
  <2> DEFINE p == SubSeq(calls, 1, k)
  <2>1. p \in Seq(Pos) /\ Len(p) = k /\ DOMAIN p = 1..k /\ \A i \in 1..k : p[i] = calls[i] /\ i \in 1..Len(calls)
    BY <1>1
  <2> HIDE DEF p, t
  <2>2. [i \in DOMAIN p |-> FramesOf(p[i])] = [i \in 1..k |-> t[i]]
    BY <1>2, <2>1
  <2>3. FramesOfAll(p) = J(k)
    BY <2>2, Zenon DEF FramesOfAll
  <2> QED BY <2>3 DEF p
<1>5. FramesOfAll(calls) = J(Len(calls))
  <2> HIDE DEF t
  <2>1. [i \in DOMAIN calls |-> FramesOf(calls[i])] = [i \in 1..Len(calls) |-> t[i]]
    BY <1>1, <1>2
  <2> QED BY <2>1, Zenon DEF FramesOfAll
<1>6. 0 \in 0..Len(calls) /\ Len(calls) \in 0..Len(calls)
      /\ \A k \in 1..Len(calls) : k \in 0..Len(calls) /\ k - 1 \in 0..Len(calls)
  BY <1>1
<1> HIDE DEF J, t
<1>7. \A k \in 1..Len(calls) : J(k) = J(k - 1) \o FramesOf(calls[k])
  BY <1>2, <1>3
<1> QED BY <1>3, <1>4, <1>5, <1>6, <1>7

\* Units that carry data, joined.
LEMMA LoadedConcat ==
  ASSUME NEW w, Loaded(w), NEW v, Loaded(v)
  PROVE  Loaded(w \o v)
<1>1. w \in Seq(UnitType) /\ v \in Seq(UnitType) /\ Len(w) \in Nat /\ Len(v) \in Nat
  BY UnitSums DEF Loaded
<1>2. /\ w \o v \in Seq(UnitType) /\ Len(w \o v) = Len(w) + Len(v)
      /\ \A i \in 1..Len(w) : (w \o v)[i] = w[i]
      /\ \A i \in 1..Len(v) : (w \o v)[Len(w) + i] = v[i]
  BY <1>1, UnitsStay
<1>3. ASSUME NEW i \in 1..Len(w \o v) PROVE (w \o v)[i].data > 0
  <2>1. CASE i <= Len(w)
    <3>1. i \in 1..Len(w)
      BY <1>1, <2>1
    <3> QED BY <1>2, <3>1 DEF Loaded
  <2>2. CASE ~(i <= Len(w))
    <3>1. i - Len(w) \in 1..Len(v) /\ Len(w) + (i - Len(w)) = i
      BY <1>1, <1>2, <2>2
    <3>2. (w \o v)[i] = v[i - Len(w)]
      BY <1>2, <3>1
    <3> QED BY <3>1, <3>2 DEF Loaded
  <2> QED BY <2>1, <2>2
<1> QED BY <1>2, <1>3 DEF Loaded

\* The frames of the first i calls, of the first j: the same, and more.
Firsts(calls, k) == FramesOfAll(SubSeq(calls, 1, k))

\* The frames of more calls begin with those of the fewer.
LEMMA FramesMore ==
  ASSUME NEW calls \in Seq(Pos), NEW i \in 0..Len(calls), NEW j \in 0..Len(calls), i <= j
  PROVE  \E v : Loaded(v) /\ Firsts(calls, j) = Firsts(calls, i) \o v
<1> DEFINE n == Len(calls) - i
           Goes(k) == \E v : Loaded(v) /\ Firsts(calls, i + k) = Firsts(calls, i) \o v
           S == {k \in 0..n : Goes(k)}
<1>1. Len(calls) \in Nat /\ i \in Nat /\ n \in Nat /\ i + 0 = i /\ \A k \in 1..Len(calls) : calls[k] \in Pos
  BY LenProperties, ElementOfSeq
<1>2. (\A k \in 0..Len(calls) : Firsts(calls, k) \in Seq(UnitType))
      /\ \A k \in 1..Len(calls) : Firsts(calls, k) = Firsts(calls, k - 1) \o FramesOf(calls[k])
  BY FramesFirsts, Zenon DEF Firsts
<1>3. Goes(0)
  <2>1. <<>> \in Seq(UnitType) /\ Len(<<>>) = 0
    BY EmptySeq
  <2>2. Loaded(<<>>)
    BY <2>1 DEF Loaded
  <2>3. Firsts(calls, i) = Firsts(calls, i) \o <<>>
    BY <1>2, ConcatEmptySeq
  <2> QED BY <1>1, <2>2, <2>3
<1> HIDE DEF n
<1>4. ASSUME NEW k \in 0..n, k < n, k \in S PROVE k + 1 \in S
  <2>1. PICK v : Loaded(v) /\ Firsts(calls, i + k) = Firsts(calls, i) \o v
    BY <1>4
  <2> DEFINE q == i + (k + 1)
             g == FramesOf(calls[q])
  <2>2. q \in 1..Len(calls) /\ q - 1 = i + k /\ k + 1 \in 0..n
    BY <1>1, <1>4 DEF n
  <2>3. Loaded(g)
    BY <1>1, <2>2, FramesOfCall
  <2>4. Firsts(calls, q) = Firsts(calls, i + k) \o g
    <3> HIDE DEF q
    <3> QED BY <1>2, <2>2
  <2> HIDE DEF q, g
  <2>5. Firsts(calls, q) = Firsts(calls, i) \o (v \o g)
    <3>1. Firsts(calls, i) \in Seq(UnitType) /\ v \in Seq(UnitType) /\ g \in Seq(UnitType)
      BY <1>2, <2>1, <2>3 DEF Loaded
    <3>2. (Firsts(calls, i) \o v) \o g = Firsts(calls, i) \o (v \o g)
      BY SMTT(20), <3>1, ConcatAssociative
    <3> QED BY <2>1, <2>4, <3>2, Zenon
  <2>6. Loaded(v \o g)
    BY <2>1, <2>3, LoadedConcat
  <2>7. Goes(k + 1)
    BY <2>5, <2>6 DEF q
  <2> HIDE DEF Goes
  <2> QED BY <2>2, <2>7
<1>5. \A k \in 0..n : k \in S
  <2>1. 0 \in S
    <3> HIDE DEF Goes
    <3> QED BY <1>1, <1>3
  <2> HIDE DEF S
  <2> QED BY <1>1, <1>4, <2>1, UpTo
<1>6. j - i \in 0..n /\ i + (j - i) = j
  BY <1>1 DEF n
<1>7. Goes(j - i)
  <2> HIDE DEF Goes
  <2> QED BY <1>5, <1>6
<1> QED BY <1>6, <1>7

\* No frame of the calls comes without data, and those of all the calls are the last of them.
LEMMA FirstsLoaded ==
  ASSUME NEW calls \in Seq(Pos), NEW k \in 0..Len(calls)
  PROVE  Loaded(Firsts(calls, k)) /\ Firsts(calls, Len(calls)) = FramesOfAll(calls)
<1>1. Len(calls) \in Nat /\ 0 \in 0..Len(calls) /\ 0 <= k
  OBVIOUS
<1>2. Firsts(calls, 0) = <<>> /\ Firsts(calls, Len(calls)) = FramesOfAll(calls)
  BY FramesFirsts DEF Firsts
<1>3. PICK v : Loaded(v) /\ Firsts(calls, k) = Firsts(calls, 0) \o v
  BY <1>1, FramesMore
<1>4. v \in Seq(UnitType)
  BY <1>3 DEF Loaded
<1>5. <<>> \o v = v
  BY <1>4, ConcatEmptySeq
<1> QED BY <1>2, <1>3, <1>5

\* Units joined: their bytes and their data.
LEMMA BytesConcat ==
  ASSUME NEW w \in Seq(UnitType), NEW v \in Seq(UnitType)
  PROVE  /\ Bytes(w \o v) = Bytes(w) + Bytes(v)
         /\ DataIn(w \o v)[Len(w \o v)] = DataIn(w)[Len(w)] + DataIn(v)[Len(v)]
<1>1. Len(v) \in 0..Len(v) /\ Len(w \o v) = Len(w) + Len(v)
  BY UnitFields
<1>2. /\ EndsOf(w \o v)[Len(w) + Len(v)] = Bytes(w) + EndsOf(v)[Len(v)]
      /\ DataIn(w \o v)[Len(w) + Len(v)] = DataIn(w)[Len(w)] + DataIn(v)[Len(v)]
  BY <1>1, UnitsStay
<1> QED BY <1>1, <1>2 DEF Bytes

\* No units, no bytes.
LEMMA NoUnits == <<>> \in Seq(UnitType) /\ Solid(<<>>) /\ Bytes(<<>>) = 0 /\ DataIn(<<>>)[0] = 0
<1>1. <<>> \in Seq(UnitType) /\ Len(<<>>) = 0
  BY EmptySeq
<1>2. EndsOf(<<>>)[0] = 0 /\ DataIn(<<>>)[0] = 0
  BY <1>1, UnitSums
<1> QED BY <1>1, <1>2 DEF Bytes, Solid

\* A call on its own.
LEMMA SpokenOne ==
  ASSUME NEW n \in Pos, NEW p
  PROVE  Spoken(<<n>>, p) = (IF p = "verify_simple" THEN Bytes(FramesOf(n)) ELSE n) /\ Spoken(<<n>>, p) \in Pos
<1> DEFINE c == <<n>>
<1>1. c \in Seq(Pos) /\ Len(c) = 1 /\ c[1] = n /\ c \in Seq(Int) /\ n \in Int
  BY DEF Pos
<1> HIDE DEF c
<1>2. FramesOfAll(c) = FramesOf(n)
  <2>1. 1 \in 1..Len(c) /\ 1 - 1 = 0
    BY <1>1
  <2>2. FramesOfAll(c) = FramesOfAll(SubSeq(c, 1, 0)) \o FramesOf(n) /\ FramesOfAll(SubSeq(c, 1, 0)) = <<>>
    BY <1>1, <2>1, FramesFirsts
  <2>3. FramesOf(n) \in Seq(UnitType)
    BY FramesOfCall DEF Loaded
  <2> QED BY <2>2, <2>3, ConcatEmptySeq
<1>3. Sum(c) = n
  <2>1. 1 \in 1..Len(c) /\ 1 - 1 = 0
    BY <1>1
  <2>2. Sum(c) = Sums(c)[1] /\ Sums(c)[1] = Sums(c)[0] + c[1] /\ Sums(c)[0] = 0
    BY <1>1, <2>1, SumsAre
  <2> QED BY <1>1, <2>2
<1>4. Bytes(FramesOf(n)) \in Nat /\ Bytes(FramesOf(n)) >= n
  BY FramesOfCall
<1>5. Spoken(c, p) = IF p = "verify_simple" THEN Bytes(FramesOf(n)) ELSE n
  BY <1>2, <1>3, Zenon DEF Spoken
<1>6. Spoken(c, p) \in Pos
  BY <1>4, <1>5 DEF Pos
<1> QED BY <1>5, <1>6 DEF c

\* The bytes of the first calls.
Spoke(calls, p, k) == Spoken(SubSeq(calls, 1, k), p)

\* They grow by what each call comes to.
LEMMA SpokenSteps ==
  ASSUME NEW calls \in Seq(Pos), NEW p
  PROVE  /\ Spoke(calls, p, 0) = 0 /\ Spoke(calls, p, Len(calls)) = Spoken(calls, p)
         /\ \A k \in 0..Len(calls) : Spoke(calls, p, k) \in Nat
         /\ \A k \in 1..Len(calls) : Spoke(calls, p, k) = Spoke(calls, p, k - 1) + Spoken(<<calls[k]>>, p)
<1>1. /\ Len(calls) \in Nat /\ calls \in Seq(Int) /\ \A k \in 1..Len(calls) : calls[k] \in Pos
      /\ 0 \in 0..Len(calls) /\ Len(calls) \in 0..Len(calls)
      /\ \A k \in 1..Len(calls) : k \in 0..Len(calls) /\ k - 1 \in 0..Len(calls)
  BY LenProperties, ElementOfSeq DEF Pos
<1>2. CASE p = "verify_simple"
  <2>1. \A k \in 0..Len(calls) : Spoke(calls, p, k) = Bytes(Firsts(calls, k)) /\ Loaded(Firsts(calls, k))
    BY <1>2, FirstsLoaded DEF Spoke, Spoken, Firsts
  <2>2. Firsts(calls, 0) = <<>> /\ Firsts(calls, Len(calls)) = FramesOfAll(calls)
    BY FramesFirsts DEF Firsts
  <2>3. Spoke(calls, p, 0) = 0
    BY <1>1, <2>1, <2>2, NoUnits
  <2>4. Spoke(calls, p, Len(calls)) = Spoken(calls, p)
    BY <1>1, <1>2, <2>1, <2>2 DEF Spoken
  <2>5. ASSUME NEW k \in 0..Len(calls) PROVE Spoke(calls, p, k) \in Nat
    BY <2>1, DataInside DEF Loaded
  <2>6. ASSUME NEW k \in 1..Len(calls)
        PROVE  Spoke(calls, p, k) = Spoke(calls, p, k - 1) + Spoken(<<calls[k]>>, p)
    <3>1. Firsts(calls, k) = Firsts(calls, k - 1) \o FramesOf(calls[k])
      BY FramesFirsts DEF Firsts
    <3>2. Firsts(calls, k - 1) \in Seq(UnitType) /\ FramesOf(calls[k]) \in Seq(UnitType)
      BY <1>1, <2>1, FramesOfCall DEF Loaded
    <3>3. Bytes(Firsts(calls, k)) = Bytes(Firsts(calls, k - 1)) + Bytes(FramesOf(calls[k]))
      BY <3>1, <3>2, BytesConcat
    <3>4. Spoken(<<calls[k]>>, p) = Bytes(FramesOf(calls[k]))
      BY <1>1, <1>2, SpokenOne
    <3> QED BY <1>1, <2>1, <3>3, <3>4
  <2> QED BY <2>3, <2>4, <2>5, <2>6
<1>3. CASE p # "verify_simple"
  <2>1. \A k \in 0..Len(calls) : Spoke(calls, p, k) = Sum(SubSeq(calls, 1, k))
    BY <1>3 DEF Spoke, Spoken
  <2>2. Spoken(calls, p) = Sum(calls) /\ \A k \in 1..Len(calls) : Spoken(<<calls[k]>>, p) = calls[k]
    BY <1>1, <1>3, SpokenOne DEF Spoken
  <2>3. /\ Sum(SubSeq(calls, 1, 0)) = 0 /\ Sum(SubSeq(calls, 1, Len(calls))) = Sum(calls)
        /\ \A k \in 0..Len(calls) : Sum(SubSeq(calls, 1, k)) \in Int
        /\ \A k \in 1..Len(calls) : Sum(SubSeq(calls, 1, k)) = Sum(SubSeq(calls, 1, k - 1)) + calls[k]
    BY <1>1, SumPrefixes
  <2>4. \A k \in 0..Len(calls) : Sum(SubSeq(calls, 1, k)) \in Nat
    <3> DEFINE S == {k \in 0..Len(calls) : Sum(SubSeq(calls, 1, k)) \in Nat}
    <3>1. 0 \in S
      BY <1>1, <2>3
    <3>2. ASSUME NEW k \in 0..Len(calls), k < Len(calls), k \in S PROVE k + 1 \in S
      <4>1. k + 1 \in 1..Len(calls) /\ k + 1 \in 0..Len(calls) /\ (k + 1) - 1 = k
        BY <1>1, <3>2
      <4>2. Sum(SubSeq(calls, 1, k + 1)) = Sum(SubSeq(calls, 1, k)) + calls[k + 1] /\ calls[k + 1] \in Nat
        BY <1>1, <2>3, <4>1 DEF Pos
      <4> QED BY <3>2, <4>1, <4>2
    <3>3. \A k \in 0..Len(calls) : k \in S
      <4> HIDE DEF S
      <4> QED BY <1>1, <3>1, <3>2, UpTo
    <3> QED BY <3>3
  <2> QED BY <1>1, <2>1, <2>2, <2>3, <2>4
<1> QED BY <1>2, <1>3

\* They grow with every call.
LEMMA SpokenGrows ==
  ASSUME NEW calls \in Seq(Pos), NEW p, NEW i \in 0..Len(calls), NEW j \in 0..Len(calls)
  PROVE  /\ i <= j => Spoke(calls, p, i) <= Spoke(calls, p, j)
         /\ i < j => Spoke(calls, p, i) < Spoke(calls, p, j)
<1> DEFINE f(k) == Spoke(calls, p, k)
           S == {k \in 0..Len(calls) : k < i \/ (k = i /\ f(i) <= f(k)) \/ f(i) < f(k)}
<1>1. /\ Len(calls) \in Nat /\ \A k \in 0..Len(calls) : f(k) \in Nat
      /\ \A k \in 1..Len(calls) : f(k) = f(k - 1) + Spoken(<<calls[k]>>, p) /\ Spoken(<<calls[k]>>, p) \in Pos
  BY SpokenSteps, SpokenOne, LenProperties, ElementOfSeq
<1> HIDE DEF f
<1>2. 0 \in S
  <2>1. 0 \in 0..Len(calls) /\ (0 < i \/ 0 = i) /\ f(i) \in Nat
    BY <1>1
  <2> QED BY <2>1
<1>3. ASSUME NEW k \in 0..Len(calls), k < Len(calls), k \in S PROVE k + 1 \in S
  <2>1. k + 1 \in 1..Len(calls) /\ k + 1 \in 0..Len(calls) /\ (k + 1) - 1 = k
    BY <1>1, <1>3
  <2>2. f(k + 1) = f(k) + Spoken(<<calls[k + 1]>>, p) /\ Spoken(<<calls[k + 1]>>, p) \in Pos /\ f(k) \in Nat /\ f(i) \in Nat
    BY <1>1, <2>1
  <2>3. f(k) < f(k + 1) /\ f(k + 1) \in Nat
    BY <2>2 DEF Pos
  <2>4. k < i => k + 1 < i \/ k + 1 = i
    BY <1>1
  <2> QED BY <1>3, <2>1, <2>2, <2>3, <2>4
<1>4. \A k \in 0..Len(calls) : k \in S
  <2> HIDE DEF S
  <2> QED BY <1>1, <1>2, <1>3, UpTo
<1>5. (i <= j => f(i) <= f(j)) /\ (i < j => f(i) < f(j))
  <2>1. j < i \/ (j = i /\ f(i) <= f(j)) \/ f(i) < f(j)
    BY <1>4
  <2>2. f(i) \in Nat /\ f(j) \in Nat /\ i \in Int /\ j \in Int
    BY <1>1
  <2> QED BY <2>1, <2>2
<1> QED BY <1>5 DEF f

\* The payload of the frames that are whole in the first n bytes.
PayloadTo(w, n) == DataIn(w)[Whole(w, n)]

\* More bytes have no less payload in them.
LEMMA PayloadGrows ==
  ASSUME NEW w, Loaded(w), NEW a \in Nat, NEW b \in Nat, a <= b
  PROVE  PayloadTo(w, a) \in Nat /\ PayloadTo(w, b) \in Nat /\ PayloadTo(w, a) <= PayloadTo(w, b)
<1> DEFINE k == Whole(w, a)
           m == Whole(w, b)
<1>1. w \in Seq(UnitType)
  BY DEF Loaded
<1>2. /\ k \in 0..Len(w) /\ EndsOf(w)[k] <= a /\ (k = Len(w) \/ a < EndsOf(w)[k + 1])
      /\ m \in 0..Len(w) /\ EndsOf(w)[m] <= b /\ (m = Len(w) \/ b < EndsOf(w)[m + 1])
  BY <1>1, WholeHas, Zenon
<1> HIDE DEF k, m
<1>3. Len(w) \in Nat /\ \A i \in 0..Len(w) : EndsOf(w)[i] \in Nat /\ DataIn(w)[i] \in Nat
  BY <1>1, UnitSums
<1>4. k <= m
  <2> SUFFICES ASSUME m < k PROVE FALSE
    BY <1>2, <1>3
  <2>1. m + 1 \in 0..Len(w) /\ m + 1 <= k /\ m # Len(w)
    BY <1>2, <1>3
  <2>2. EndsOf(w)[m + 1] <= EndsOf(w)[k]
    BY <1>1, <1>2, <2>1, UnitsGrow
  <2>3. EndsOf(w)[m + 1] \in Nat /\ EndsOf(w)[k] \in Nat
    BY <1>2, <1>3, <2>1
  <2> QED BY <1>2, <2>1, <2>2, <2>3
<1>5. DataIn(w)[k] <= DataIn(w)[m] /\ DataIn(w)[k] \in Nat /\ DataIn(w)[m] \in Nat
  BY <1>1, <1>2, <1>3, <1>4, UnitsGrow
<1> QED BY <1>5 DEF PayloadTo, k, m

\* It stays when there are more frames, and is nothing at first.
LEMMA PayloadStays ==
  ASSUME NEW w, Loaded(w), NEW v, Loaded(v), NEW n \in Nat, n <= Bytes(w)
  PROVE  PayloadTo(w \o v, n) = PayloadTo(w, n)
<1>1. Solid(w) /\ Solid(v) /\ w \in Seq(UnitType) /\ v \in Seq(UnitType)
  BY LoadedSolid DEF Loaded
<1>2. Whole(w \o v, n) = Whole(w, n) /\ Whole(w, n) \in 0..Len(w)
  BY <1>1, WholeStays, WholeHas, Zenon
<1>3. DataIn(w \o v)[Whole(w, n)] = DataIn(w)[Whole(w, n)]
  BY <1>1, <1>2, UnitsStay
<1> QED BY <1>2, <1>3 DEF PayloadTo

\* At the end of a call it is what the calls were about: more with every call.
LEMMA PayloadCalls ==
  ASSUME NEW calls \in Seq(Pos), NEW i \in 0..Len(calls), NEW j \in 0..Len(calls), i < j
  PROVE  PayloadTo(FramesOfAll(calls), Spoke(calls, "verify_simple", i))
           < PayloadTo(FramesOfAll(calls), Spoke(calls, "verify_simple", j))
<1> DEFINE w == FramesOfAll(calls)
<1>1. Len(calls) \in Nat /\ Len(calls) \in 0..Len(calls) /\ \A k \in 0..Len(calls) : k <= Len(calls)
  BY LenProperties
<1>2. Loaded(w) /\ w \in Seq(UnitType) /\ Solid(w)
  BY <1>1, FirstsLoaded, LoadedSolid DEF Loaded
<1>3. ASSUME NEW k \in 0..Len(calls)
      PROVE  /\ Len(Firsts(calls, k)) \in 0..Len(w)
             /\ Bytes(Firsts(calls, k)) \in Nat /\ Spoke(calls, "verify_simple", k) = Bytes(Firsts(calls, k))
             /\ EndsOf(w)[Len(Firsts(calls, k))] = Bytes(Firsts(calls, k))
             /\ PayloadTo(w, Bytes(Firsts(calls, k))) = DataIn(w)[Len(Firsts(calls, k))]
  <2> DEFINE g == Firsts(calls, k)
             q == Len(g)
  <2>1. PICK v : Loaded(v) /\ Firsts(calls, Len(calls)) = g \o v
    BY <1>1, FramesMore
  <2>2. w = g \o v /\ Loaded(g) /\ g \in Seq(UnitType) /\ v \in Seq(UnitType)
    BY <1>1, <2>1, FirstsLoaded DEF Loaded
  <2>3. q \in Nat /\ Len(v) \in Nat /\ q \in 0..q /\ Bytes(g) \in Nat /\ q \in 0..(q + Len(v))
    BY <2>2, UnitSums, DataInside
  <2> HIDE DEF g, w
  <2>4. Len(w) = q + Len(v) /\ EndsOf(w)[q] = EndsOf(g)[q]
    BY <2>2, <2>3, UnitsStay
  <2>5. EndsOf(w)[q] = Bytes(g)
    BY <2>4 DEF Bytes
  <2>6. q = Len(w) \/ Bytes(g) < EndsOf(w)[q + 1]
    <3>1. CASE q < Len(w)
      <4>1. q + 1 \in 0..Len(w) /\ q \in 0..Len(w) /\ q < q + 1
        BY <2>3, <2>4, <3>1
      <4>2. EndsOf(w)[q] < EndsOf(w)[q + 1]
        BY <1>2, <4>1, UnitsGrow
      <4> QED BY <2>5, <4>2
    <3>2. CASE ~(q < Len(w))
      BY <2>3, <2>4, <3>2
    <3> QED BY <3>1, <3>2
  <2>7. Whole(w, Bytes(g)) = q
    <3>1. q \in 0..Len(w) /\ EndsOf(w)[q] <= Bytes(g)
      BY <2>3, <2>4, <2>5
    <3> QED BY <1>2, <2>3, <2>6, <3>1, WholeIs
  <2>8. PayloadTo(w, Bytes(g)) = DataIn(w)[q]
    BY <2>7 DEF PayloadTo
  <2>9. Spoke(calls, "verify_simple", k) = Bytes(g)
    BY DEF Spoke, Spoken, g, Firsts
  <2> QED BY <2>3, <2>4, <2>5, <2>8, <2>9 DEF g
<1> DEFINE a == Len(Firsts(calls, i))
           b == Len(Firsts(calls, j))
<1>4. /\ a \in 0..Len(w) /\ EndsOf(w)[a] = Spoke(calls, "verify_simple", i)
      /\ PayloadTo(w, Spoke(calls, "verify_simple", i)) = DataIn(w)[a]
      /\ b \in 0..Len(w) /\ EndsOf(w)[b] = Spoke(calls, "verify_simple", j)
      /\ PayloadTo(w, Spoke(calls, "verify_simple", j)) = DataIn(w)[b]
  <2> HIDE DEF w
  <2> QED BY <1>3
<1>5. Spoke(calls, "verify_simple", i) < Spoke(calls, "verify_simple", j)
  BY SpokenGrows
<1> HIDE DEF w, a, b
<1>6. /\ Len(w) \in Nat /\ \A k \in 0..Len(w) : EndsOf(w)[k] \in Nat /\ DataIn(w)[k] \in Nat
      /\ \A k \in 1..Len(w) : DataIn(w)[k] = DataIn(w)[k - 1] + w[k].data /\ w[k].data \in Nat
  BY <1>2, UnitSums
<1>7. a < b
  <2> SUFFICES ASSUME b <= a PROVE FALSE
    BY <1>4, <1>6
  <2>1. EndsOf(w)[b] <= EndsOf(w)[a]
    BY <1>2, <1>4, UnitsGrow
  <2>2. EndsOf(w)[b] \in Nat /\ EndsOf(w)[a] \in Nat
    BY <1>4, <1>6
  <2> QED BY <1>4, <1>5, <2>1, <2>2
<1>8. DataIn(w)[a] < DataIn(w)[b]
  <2>1. b \in 1..Len(w) /\ b - 1 \in 0..Len(w) /\ a <= b - 1
    BY <1>4, <1>6, <1>7
  <2>2. DataIn(w)[a] <= DataIn(w)[b - 1]
    BY <1>2, <1>4, <2>1, UnitsGrow
  <2>3. DataIn(w)[b] = DataIn(w)[b - 1] + w[b].data /\ w[b].data \in Nat /\ w[b].data > 0
        /\ DataIn(w)[b - 1] \in Nat /\ DataIn(w)[a] \in Nat
    BY <1>2, <1>4, <1>6, <2>1 DEF Loaded
  <2> QED BY <2>2, <2>3
<1>9. PayloadTo(w, Spoke(calls, "verify_simple", i)) < PayloadTo(w, Spoke(calls, "verify_simple", j))
  BY <1>4, <1>8
<1> QED BY <1>9 DEF w

-----------------------------------------------------------------------------
(* The invariant of ServerPlugins.                                         *)

\* The first unit is the client's hello.
Greets(w, size) == Len(w) >= 1 /\ w[1] = Unit("hello", size, 0)

\* What the client has written, by its obfs and how far its handshake is.
UpLayout ==
  /\ Solid(up) /\ Solid(send_buffer) /\ Recorded(send_buffer, 0)
  /\ client_status # 1 => send_buffer = <<>>
  /\ session.obfs = "none" => client_status = 0 /\ Plain(up, 0) /\ \A i \in 1..Len(up) : up[i].kind = "raw"
  /\ Http => client_status # 1 /\ (client_status = 0 => up = <<>>)
  /\ Http /\ client_status = 8 => Len(up) >= 1 /\ up[1].kind = "request" /\ Plain(up, up[1].head)
  /\ Tls /\ client_status = 0 => up = <<>>
  /\ Tls /\ client_status = 1 => Greets(up, HelloSize) /\ Len(up) = 1
  /\ Tls /\ client_status = 8 =>
       Greets(up, HelloSize) /\ Len(up) >= 2 /\ up[2] = Unit("finish", Finish, 0) /\ Recorded(up, 2)

\* It has written the bytes of its requests, or holds them back.
UpTotal ==
  /\ DataIn(up)[Len(up)] + DataIn(send_buffer)[Len(send_buffer)] = Asked(Len(requests))
  /\ up # <<>> => requests # <<>>

\* What the server has made of it, whatever tore.
ServerLayout ==
  /\ held <= uread /\ (dec = 0 \/ dec >= IV)
  /\ uread = held => down = <<>> /\ server_status = 0
  /\ server_status = 3 => Tls /\ uread - held >= HelloSize
  /\ session.plugin = "tls1.2_ticket_auth" /\ server_status = 8 => EndsOf(up)[server_taken] <= uread
  /\ Solid(down)

\* Where nothing tore.  What the server has decrypted, and handed on:
Passes ==
  /\ open
  /\ dec = Cipher(up, uread - held)
  /\ dec = 0 => got = 0
  /\ dec > 0 => /\ got = IF Speaks THEN PayloadIn(dec - IV) ELSE dec - IV
                /\ dec >= Asked(1) /\ got > 0 /\ held = 0
  /\ Speaks /\ "protocol" \in session.compatible => \E n \in 0..Len(requests) : dec = Asked(n)

\* How far its obfs is.
ServerPhase ==
  /\ obfs_compatible_state = 1 => session.obfs = "none" /\ session.plugin # "plain"
  /\ session.plugin # "plain" /\ session.obfs = "none" =>
       /\ dec > 0 => obfs_compatible_state = 1
       /\ server_status = 8 => session.plugin = "http_simple"
       /\ obfs_compatible_state = 0 => server_status = 0
  /\ Http => /\ server_status \in {0, 8} /\ (server_status = 0 => uread = held)
             /\ server_status = 8 => Len(up) >= 1 /\ uread - held >= up[1].head
  /\ Tls => /\ server_status \in {0, 3, 8}
            /\ server_status = 0 => uread = held /\ client_data = {}
            /\ server_status = 3 => uread - held = HelloSize
            /\ server_status = 8 => server_taken >= 2 /\ dec > 0 /\ DataIn(up)[server_taken] = dec
            /\ client_status = 0 => server_status = 0
            /\ client_status = 8 => server_status # 0

\* What the server has written.
DownLayout ==
  /\ session.obfs = "none" => \A i \in 1..Len(down) : down[i].kind = "raw" /\ down[i].head = 0
  /\ Http => /\ \A i \in 1..Len(down) : IF i = 1 THEN down[i].kind = "response" /\ down[i].head = ResponseHead
                                        ELSE down[i].kind = "raw" /\ down[i].head = 0
             /\ sent = 0 <=> down = <<>>
  /\ Tls => /\ down = <<>> \/ Greets(down, ServerHello)
            /\ Recorded(down, 1)
            /\ server_status = 3 => Len(down) = 1
            /\ server_status = 8 => Len(down) >= 1
  /\ BothOrNeither => framings \subseteq {session.speaks}

\* How far the client has read it.
ClientPhase ==
  /\ c_dec = Cipher(down, dread)
  /\ Http => /\ client_from = 0 => dread <= ResponseHead - 4
             /\ client_from > 0 => dread >= ResponseHead
  /\ Tls => /\ client_status # 8 => dread = 0
            /\ client_status = 8 => client_from >= ServerHello /\ DataIn(down)[Whole(down, client_from)] = c_dec
                                    /\ EndsOf(down)[Whole(down, client_from)] = client_from

\* All of that, for a connection on which nothing tore.
Intact == Passes /\ ServerPhase /\ DownLayout /\ ClientPhase

\* The invariant: what is in its place whatever tore, and what holds where nothing did.
PluginsInv == PluginsTypeOK /\ UpLayout /\ UpTotal /\ ServerLayout /\ (~torn => Intact)

\* What a session is one of: no obfs, HTTP or TLS, and what the server has for it.
LEMMA SessionIs ==
  ASSUME session \in Sessions
  PROVE  /\ session.plugin \in {"plain", "http_simple", "tls1.2_ticket_auth"}
         /\ \/ session.obfs = "none" /\ ~Http /\ ~Tls
            \/ session.obfs # "none" /\ Http /\ ~Tls /\ session.plugin = "http_simple"
            \/ session.obfs # "none" /\ ~Http /\ Tls /\ session.plugin = "tls1.2_ticket_auth"
         /\ session.plugin = "plain" => "obfs" \notin session.compatible
         /\ session.obfs = "none" /\ session.plugin # "plain" => "obfs" \in session.compatible
         /\ session.protocol \in {"origin", "verify_simple"} /\ session.speaks \in {"origin", "verify_simple"}
         /\ session.protocol = "origin" => session.speaks = "origin"
         /\ Tls <=> session.obfs = "tls1.2_ticket_auth"
<1>1. session \in SessionType /\ LetsIn(session)
  BY SessionsAssumption
<1>2. /\ session.plugin \in {"plain", "http_simple", "tls1.2_ticket_auth"}
      /\ session.obfs \in {"none", "http_simple", "http_post", "tls1.2_ticket_auth"}
      /\ session.protocol \in {"origin", "verify_simple"} /\ session.speaks \in {"origin", "verify_simple"}
  BY <1>1 DEF SessionType
<1>3. /\ session.plugin = "plain" => session.obfs = "none" /\ "obfs" \notin session.compatible
      /\ session.plugin = "http_simple" => session.obfs # "tls1.2_ticket_auth"
      /\ session.plugin = "tls1.2_ticket_auth" => session.obfs \in {"none", "tls1.2_ticket_auth"}
      /\ session.plugin # "plain" /\ session.obfs = "none" => "obfs" \in session.compatible
      /\ session.protocol = "origin" => session.speaks = "origin"
  BY <1>1, Zenon DEF LetsIn
<1> QED BY <1>2, <1>3 DEF Http, Tls

\* What the sizes are.
LEMMA SizesAre ==
  /\ HelloSize \in Nat /\ HelloSize >= 18 /\ HelloSize <= 2048 /\ BUF_SIZE = 2048
  /\ IV = 16 /\ Finish = 43 /\ ServerHello = 129 /\ ResponseHead = 180 /\ ClientCheck = 76
  /\ RequestSizes \subseteq Pos /\ ReplySizes \subseteq Pos
<1>1. BUF_SIZE = 2048 /\ IV = 16 /\ Finish = 43 /\ ServerHello = 129 /\ ResponseHead = 180 /\ ClientCheck = 76
  BY DEF IV, Finish, ServerHello, ResponseHead, ClientCheck, BUF_SIZE
<1>2. HelloSize \in IV + 2 .. BUF_SIZE
  BY Zenon, DrawsAssumption
<1>3. HelloSize \in Nat /\ HelloSize >= 18 /\ HelloSize <= 2048
  BY <1>1, <1>2
<1>4. 1..BUF_SIZE \subseteq Pos
  BY <1>1 DEF Pos
<1>5. RequestSizes \subseteq Pos /\ ReplySizes \subseteq Pos
  BY Zenon, <1>4, RequestsAssumption
<1> QED BY <1>1, <1>3, <1>5

\* The client's sequence of calls.
LEMMA CallsAre ==
  ASSUME requests \in Seq(RequestSizes)
  PROVE  requests \in Seq(Pos) /\ Len(requests) \in Nat
<1>1. RequestSizes \subseteq Pos
  BY SizesAre
<1> QED BY <1>1

\* What has been asked, by the calls.
LEMMA AskedIs ==
  ASSUME requests \in Seq(Pos)
  PROVE  /\ Asked(0) = 0 /\ \A n \in 0..Len(requests) : Asked(n) \in Nat
         /\ \A n \in 1..Len(requests) : Asked(n) = IV + Spoke(requests, session.speaks, n) /\ Asked(n) > IV
         /\ \A i, j \in 0..Len(requests) : i <= j => Asked(i) <= Asked(j)
<1> DEFINE f(k) == Spoke(requests, session.speaks, k)
<1>1. Len(requests) \in Nat /\ IV = 16
  BY SizesAre, LenProperties
<1>2. /\ f(0) = 0 /\ \A k \in 0..Len(requests) : f(k) \in Nat
  BY SpokenSteps
<1>3. \A i, j \in 0..Len(requests) : (i <= j => f(i) <= f(j)) /\ (i < j => f(i) < f(j))
  BY SpokenGrows
<1>4. Asked(0) = 0 /\ \A n \in 1..Len(requests) : Asked(n) = IV + f(n)
  BY <1>1 DEF Asked, Spoke
<1> HIDE DEF f
<1>5. \A n \in 1..Len(requests) : Asked(n) > IV /\ Asked(n) \in Nat
  <2> TAKE n \in 1..Len(requests)
  <2>1. 0 \in 0..Len(requests) /\ n \in 0..Len(requests) /\ 0 < n
    BY <1>1
  <2>2. f(0) < f(n) /\ f(n) \in Nat
    BY <1>2, <1>3, <2>1
  <2> QED BY <1>1, <1>2, <1>4, <2>2
<1>6. \A n \in 0..Len(requests) : Asked(n) \in Nat
  BY <1>1, <1>4, <1>5
<1>7. ASSUME NEW i \in 0..Len(requests), NEW j \in 0..Len(requests), i <= j PROVE Asked(i) <= Asked(j)
  <2>1. CASE i = 0
    BY <1>4, <1>6, <2>1
  <2>2. CASE i # 0
    <3>1. i \in 1..Len(requests) /\ j \in 1..Len(requests)
      BY <1>1, <1>7, <2>2
    <3>2. f(i) <= f(j) /\ f(i) \in Nat /\ f(j) \in Nat
      BY <1>2, <1>3, <1>7
    <3> QED BY <1>1, <1>4, <3>1, <3>2
  <2> QED BY <2>1, <2>2
<1> QED BY <1>4, <1>5, <1>6, <1>7 DEF f

\* Before the first byte there is nothing, and a hello has none of the cipher's bytes.
LEMMA CipherZero ==
  ASSUME NEW w, Solid(w)
  PROVE  Cipher(w, 0) = 0 /\ Whole(w, 0) = 0
<1>1. w \in Seq(UnitType) /\ 0 \in Nat
  BY DEF Solid
<1>2. /\ Len(w) \in Nat /\ EndsOf(w)[0] = 0 /\ DataIn(w)[0] = 0 /\ 0 \in 0..Len(w)
      /\ \A i \in 1..Len(w) : w[i].head \in Nat
  BY <1>1, UnitSums
<1>3. 0 = Len(w) \/ 0 < EndsOf(w)[0 + 1]
  <2>1. CASE Len(w) # 0
    <3>1. 1 \in 0..Len(w) /\ 0 < 1 /\ 0 + 1 = 1
      BY <1>2, <2>1
    <3>2. EndsOf(w)[0] < EndsOf(w)[1]
      BY <1>1, <1>2, <3>1, UnitsGrow
    <3> QED BY <1>2, <3>1, <3>2
  <2> QED BY <2>1
<1>4. Whole(w, 0) = 0
  BY <1>1, <1>2, <1>3, WholeIs
<1>5. Cipher(w, 0) = DataIn(w)[0] + Parted(w, 0, 0)
  BY <1>4, CipherIs
<1>6. Parted(w, 0, 0) = 0
  <2>1. CASE 0 < Len(w)
    <3>1. 0 + 1 = 1 /\ 1 \in 1..Len(w) /\ w[1].head \in Nat
      BY <1>2, <2>1
    <3>2. ~(0 - EndsOf(w)[0] > w[0 + 1].head)
      BY <1>2, <3>1
    <3> QED BY <3>2 DEF Parted
  <2>2. CASE ~(0 < Len(w))
    BY <2>2 DEF Parted
  <2> QED BY <2>1, <2>2
<1> QED BY <1>2, <1>4, <1>5, <1>6

\* The fields of a unit.
LEMMA UnitIs ==
  ASSUME NEW kind, NEW head, NEW n
  PROVE  Unit(kind, head, n).kind = kind /\ Unit(kind, head, n).head = head /\ Unit(kind, head, n).data = n
BY DEF Unit

\* A hello first: where it ends, and nothing of the cipher's stream before that.
LEMMA HelloFirst ==
  ASSUME NEW w, Solid(w), NEW size \in Nat, Greets(w, size)
  PROVE  /\ EndsOf(w)[1] = size /\ DataIn(w)[1] = 0 /\ size > 0
         /\ \A pos \in Nat : pos <= size => Cipher(w, pos) = 0
<1>1. w \in Seq(UnitType) /\ Len(w) >= 1 /\ w[1] = Unit("hello", size, 0)
  BY DEF Solid, Greets
<1>2. /\ Len(w) \in Nat /\ EndsOf(w)[0] = 0 /\ DataIn(w)[0] = 0
      /\ \A i \in 0..Len(w) : EndsOf(w)[i] \in Nat /\ DataIn(w)[i] \in Nat
      /\ \A i \in 1..Len(w) : w[i].head \in Nat /\ w[i].data \in Nat
      /\ \A i \in 1..Len(w) : /\ EndsOf(w)[i] = EndsOf(w)[i - 1] + (w[i].head + w[i].data)
                              /\ DataIn(w)[i] = DataIn(w)[i - 1] + w[i].data
  BY <1>1, UnitSums
<1>3. w[1].kind = "hello" /\ w[1].head = size /\ w[1].data = 0
  BY <1>1, UnitIs
<1>4. 1 \in 1..Len(w) /\ 1 \in 0..Len(w) /\ 1 - 1 = 0
  BY <1>1, <1>2
<1>5. EndsOf(w)[1] = size /\ DataIn(w)[1] = 0
  <2>1. EndsOf(w)[1] = EndsOf(w)[1 - 1] + (w[1].head + w[1].data) /\ DataIn(w)[1] = DataIn(w)[1 - 1] + w[1].data
    BY <1>2, <1>4
  <2>2. EndsOf(w)[1] = EndsOf(w)[0] + (w[1].head + w[1].data) /\ DataIn(w)[1] = DataIn(w)[0] + w[1].data
    BY Zenon, <1>4, <2>1
  <2>3. EndsOf(w)[1] = 0 + (size + 0) /\ DataIn(w)[1] = 0 + 0
    BY Zenon, <1>2, <1>3, <2>2
  <2> QED BY <2>3
<1>6. size > 0
  BY <1>1, <1>3, <1>4 DEF Solid
<1>7. ASSUME NEW pos \in Nat, pos <= size PROVE Cipher(w, pos) = 0
  <2>1. CASE pos < size
    <3>1. Whole(w, pos) = 0
      <4>1. 0 \in 0..Len(w) /\ EndsOf(w)[0] <= pos /\ pos < EndsOf(w)[0 + 1] /\ 0 + 1 = 1
        BY <1>2, <1>5, <2>1
      <4> QED BY <4>1, WholeIs
    <3>2. Cipher(w, pos) = DataIn(w)[0] + Parted(w, pos, 0)
      BY <3>1, CipherIs
    <3>3. ~(pos - EndsOf(w)[0] > w[0 + 1].head)
      <4>1. 0 + 1 = 1
        OBVIOUS
      <4>2. w[0 + 1].head = size /\ EndsOf(w)[0] = 0
        BY Zenon, <1>2, <1>3, <4>1
      <4> QED BY <2>1, <4>2
    <3>4. Parted(w, pos, 0) = 0
      BY <3>3 DEF Parted
    <3> QED BY <1>2, <3>2, <3>4
  <2>2. CASE pos = size
    <3>1. 1 = Len(w) \/ pos < EndsOf(w)[1 + 1]
      <4>1. CASE 1 # Len(w)
        <5>1. 1 + 1 \in 0..Len(w) /\ 1 < 1 + 1
          <6> DEFINE n == Len(w)
          <6>1. n \in Nat /\ n >= 1 /\ 1 # n
            BY Zenon, <1>1, <1>2, <4>1
          <6> HIDE DEF n
          <6>2. 1 + 1 \in 0..n /\ 1 < 1 + 1
            BY <6>1
          <6> QED BY <6>2 DEF n
        <5>2. EndsOf(w)[1] < EndsOf(w)[1 + 1]
          BY <1>1, <1>4, <5>1, UnitsGrow
        <5> QED BY <1>5, <2>2, <5>2
      <4> QED BY <4>1
    <3>2. Whole(w, pos) = 1
      <4>1. EndsOf(w)[1] <= pos
        BY <1>5, <2>2
      <4> QED BY <1>4, <3>1, <4>1, WholeIs
    <3>3. Cipher(w, pos) = DataIn(w)[1] + Parted(w, pos, 1)
      BY <3>2, CipherIs
    <3>4. Parted(w, pos, 1) = 0
      <4>1. CASE 1 < Len(w)
        <5>1. 1 + 1 \in 1..Len(w)
          BY <1>2, <4>1
        <5>2. w[1 + 1].head \in Nat
          BY <1>2, <5>1
        <5>3. ~(pos - EndsOf(w)[1] > w[1 + 1].head)
          BY <1>5, <2>2, <5>2
        <5> QED BY <5>3 DEF Parted
      <4>2. CASE ~(1 < Len(w))
        BY <4>2 DEF Parted
      <4> QED BY <4>1, <4>2
    <3> QED BY <1>5, <3>3, <3>4
  <2> QED BY <1>7, <2>1, <2>2
<1> QED BY <1>5, <1>6, <1>7

-----------------------------------------------------------------------------
(* One call more.                                                          *)

\* The first calls stay, and the last one's bytes and frames follow theirs.
LEMMA CallsGo ==
  ASSUME NEW calls \in Seq(Pos), NEW n \in Pos, NEW all, all = Append(calls, n), NEW p
  PROVE  /\ all \in Seq(Pos) /\ Len(all) = Len(calls) + 1 /\ Len(calls) \in Nat
         /\ \A k \in 0..Len(calls) : SubSeq(all, 1, k) = SubSeq(calls, 1, k)
         /\ FramesOfAll(all) = FramesOfAll(calls) \o FramesOf(n)
         /\ Spoken(all, p) = Spoken(calls, p) + Spoken(<<n>>, p)
<1>1. /\ Len(calls) \in Nat /\ all \in Seq(Pos) /\ Len(all) = Len(calls) + 1
      /\ \A i \in 1..Len(calls) : all[i] = calls[i]
      /\ all[Len(calls) + 1] = n
  BY LenProperties, AppendProperties
<1>2. ASSUME NEW k \in 0..Len(calls) PROVE SubSeq(all, 1, k) = SubSeq(calls, 1, k)
  <2>1. SubSeq(all, 1, k) = [i \in 1..k |-> all[i]] /\ SubSeq(calls, 1, k) = [i \in 1..k |-> calls[i]]
    BY <1>1
  <2>2. \A i \in 1..k : all[i] = calls[i]
    BY <1>1
  <2> QED BY <2>1, <2>2
<1>3. Len(all) \in 1..Len(all) /\ Len(all) - 1 = Len(calls) /\ Len(calls) \in 0..Len(calls)
  BY <1>1
<1>4. SubSeq(all, 1, Len(calls)) = SubSeq(calls, 1, Len(calls))
  BY <1>2, <1>3
<1>5. FramesOfAll(all) = FramesOfAll(calls) \o FramesOf(n)
  <2>1. /\ FramesOfAll(SubSeq(all, 1, Len(all))) = FramesOfAll(all)
        /\ FramesOfAll(SubSeq(all, 1, Len(all)))
             = FramesOfAll(SubSeq(all, 1, Len(all) - 1)) \o FramesOf(all[Len(all)])
    BY <1>1, <1>3, FramesFirsts
  <2>2. FramesOfAll(SubSeq(calls, 1, Len(calls))) = FramesOfAll(calls)
    BY FramesFirsts
  <2>3. all[Len(all)] = n
    BY <1>1
  <2> QED BY Zenon, <1>3, <1>4, <2>1, <2>2, <2>3
<1>6. Spoken(all, p) = Spoken(calls, p) + Spoken(<<n>>, p)
  <2>1. /\ Spoke(all, p, Len(all)) = Spoken(all, p)
        /\ Spoke(all, p, Len(all)) = Spoke(all, p, Len(all) - 1) + Spoken(<<all[Len(all)]>>, p)
    BY <1>1, <1>3, SpokenSteps
  <2>2. Spoke(calls, p, Len(calls)) = Spoken(calls, p)
    BY SpokenSteps
  <2>3. all[Len(all)] = n
    BY <1>1
  <2>4. Spoke(all, p, Len(calls)) = Spoke(calls, p, Len(calls))
    BY <1>4 DEF Spoke
  <2> QED BY Zenon, <1>3, <2>1, <2>2, <2>3, <2>4
<1> QED BY <1>1, <1>2, <1>5, <1>6

\* What the client has asked for, and what of it the server may see.
LEMMA AskedGoes ==
  ASSUME requests \in Seq(Pos), NEW n \in Pos, requests' = Append(requests, n), session' = session
  PROVE  /\ requests' \in Seq(Pos) /\ Len(requests') = Len(requests) + 1
         /\ \A k \in 0..Len(requests) : Asked(k)' = Asked(k)
         /\ Asked(Len(requests))'
              = Asked(Len(requests)) + ((IF requests = <<>> THEN IV ELSE 0) + Spoken(<<n>>, session.speaks))
         /\ \A a \in Nat : a <= Bytes(FramesOfAll(requests)) => PayloadIn(a)' = PayloadIn(a)
<1> DEFINE p == session.speaks
           m == Len(requests)
<1>1. PICK all : all = requests'
  OBVIOUS
<1>2. /\ all \in Seq(Pos) /\ Len(all) = m + 1 /\ m \in Nat
      /\ \A k \in 0..m : SubSeq(all, 1, k) = SubSeq(requests, 1, k)
      /\ FramesOfAll(all) = FramesOfAll(requests) \o FramesOf(n)
      /\ Spoken(all, p) = Spoken(requests, p) + Spoken(<<n>>, p)
  BY <1>1, CallsGo
<1>3. ASSUME NEW k \in 0..m PROVE Asked(k)' = Asked(k)
  BY <1>1, <1>2 DEF Asked
<1>4. Asked(m)' = Asked(m) + ((IF requests = <<>> THEN IV ELSE 0) + Spoken(<<n>>, p))
  <2>1. SubSeq(all, 1, Len(all)) = all /\ SubSeq(requests, 1, m) = requests
    BY <1>2
  <2>2. Asked(m)' = IV + Spoken(all, p)
    <3>1. Len(all) # 0
      BY <1>2
    <3> QED BY <1>1, <2>1, <3>1 DEF Asked
  <2>3. Asked(m) = IF requests = <<>> THEN 0 ELSE IV + Spoken(requests, p)
    <3>1. m = 0 <=> requests = <<>>
      BY EmptySeq
    <3> HIDE DEF m
    <3>2. Asked(m) = IF m = 0 THEN 0 ELSE IV + Spoken(SubSeq(requests, 1, m), p)
      BY DEF Asked
    <3> QED BY Zenon, <2>1, <3>1, <3>2
  <2>4. Spoken(<<n>>, p) \in Nat /\ IV = 16
    BY SpokenOne, SizesAre DEF Pos
  <2>5. Spoken(requests, p) \in Nat /\ (requests = <<>> => Spoken(requests, p) = 0)
    <3>1. /\ Spoke(requests, p, 0) = 0 /\ Spoke(requests, p, m) = Spoken(requests, p)
          /\ \A k \in 0..m : Spoke(requests, p, k) \in Nat
      BY SpokenSteps
    <3>2. m \in 0..m /\ (requests = <<>> => m = 0)
      BY <1>2
    <3> QED BY Zenon, <3>1, <3>2
  <2> HIDE DEF p, m
  <2> QED BY <1>2, <2>2, <2>3, <2>4, <2>5
<1>5. ASSUME NEW a \in Nat, a <= Bytes(FramesOfAll(requests)) PROVE PayloadIn(a)' = PayloadIn(a)
  <2>1. Loaded(FramesOfAll(requests)) /\ Loaded(FramesOf(n))
    <3>1. m \in 0..m
      BY <1>2
    <3> QED BY <3>1, FirstsLoaded, FramesOfCall
  <2>2. PayloadTo(FramesOfAll(all), a) = PayloadTo(FramesOfAll(requests), a)
    BY <1>2, <1>5, <2>1, PayloadStays
  <2> QED BY <1>1, <2>2 DEF PayloadIn, PayloadTo
<1> QED BY <1>1, <1>2, <1>3, <1>4, <1>5

\* The types, one by one.
LEMMA TypesAre ==
  ASSUME PluginsTypeOK
  PROVE  /\ session \in Sessions /\ requests \in Seq(RequestSizes) /\ requests \in Seq(Pos) /\ Len(requests) \in Nat
         /\ up \in Seq(UnitType) /\ down \in Seq(UnitType) /\ send_buffer \in Seq(UnitType)
         /\ Bytes(up) \in Nat /\ Bytes(down) \in Nat
         /\ uread \in Nat /\ uread <= Bytes(up) /\ dread \in Nat /\ dread <= Bytes(down)
         /\ held \in Nat /\ held <= 17 /\ client_status \in {0, 1, 8}
         /\ client_from \in Nat /\ client_from <= dread
         /\ server_status \in {0, 2, 3, 8} /\ sent \in {0, 1} /\ server_taken \in 0..Len(up)
         /\ obfs_compatible_state \in {0, 1} /\ client_data \subseteq 1..LastConnection
         /\ dec \in Nat /\ c_dec \in Nat /\ got \in Nat /\ open \in BOOLEAN /\ torn \in BOOLEAN
<1>1. Bytes(up) \in Nat /\ Bytes(down) \in Nat
  BY DataInside DEF PluginsTypeOK
<1>2. requests \in Seq(Pos) /\ Len(requests) \in Nat
  BY CallsAre DEF PluginsTypeOK
<1> HIDE DEF Bytes
<1>3. uread \in Nat /\ uread <= Bytes(up) /\ dread \in Nat /\ dread <= Bytes(down)
  BY <1>1 DEF PluginsTypeOK
<1>4. held \in Nat /\ held <= 17
  BY SizesAre DEF PluginsTypeOK
<1>5. client_from \in Nat /\ client_from <= dread
  BY <1>3 DEF PluginsTypeOK
<1> QED BY Zenon, <1>1, <1>2, <1>3, <1>4, <1>5 DEF PluginsTypeOK

-----------------------------------------------------------------------------
(* More is written to the server.                                          *)

\* What the server leaves alone while the client writes.
ServerWaits ==
  UNCHANGED <<session, down, uread, server, held, obfs_compatible_state, client_data, dec, got, open>>

\* What the server has read stays what it is.
LEMMA UpStays ==
  ASSUME PluginsTypeOK, Solid(up), NEW more, Solid(more), NEW now, now = up \o more
  PROVE  /\ Solid(now) /\ now \in Seq(UnitType) /\ Bytes(now) \in Nat /\ Bytes(now) >= Bytes(up)
         /\ Len(up) \in Nat /\ Len(now) \in Nat /\ Len(now) >= Len(up)
         /\ \A i \in 1..Len(up) : now[i] = up[i]
         /\ \A pos \in Nat : pos <= uread => Cipher(now, pos) = Cipher(up, pos)
         /\ \A k \in 0..Len(up) : EndsOf(now)[k] = EndsOf(up)[k] /\ DataIn(now)[k] = DataIn(up)[k]
<1>1. up \in Seq(UnitType) /\ more \in Seq(UnitType)
  BY DEF Solid
<1>2. Solid(now) /\ now \in Seq(UnitType)
  BY SolidConcat DEF Solid
<1>3. Bytes(now) = Bytes(up) + Bytes(more)
  BY <1>1, BytesConcat
<1>4. Bytes(up) \in Nat /\ Bytes(more) \in Nat /\ Bytes(now) \in Nat
  BY <1>1, <1>2, DataInside
<1>5. /\ Len(now) = Len(up) + Len(more) /\ \A i \in 1..Len(up) : now[i] = up[i]
      /\ \A k \in 0..Len(up) : EndsOf(now)[k] = EndsOf(up)[k] /\ DataIn(now)[k] = DataIn(up)[k]
  BY <1>1, UnitsStay
<1>6. Len(up) \in Nat /\ Len(more) \in Nat /\ Len(now) \in Nat
  BY <1>1, <1>2, LenProperties
<1>7. uread \in Nat /\ uread <= Bytes(up)
  BY TypesAre
<1>8. ASSUME NEW pos \in Nat, pos <= uread PROVE Cipher(now, pos) = Cipher(up, pos)
  <2>1. pos <= Bytes(up)
    BY <1>4, <1>7, <1>8
  <2> QED BY <2>1, CipherStays
<1>9. Bytes(now) >= Bytes(up) /\ Len(now) >= Len(up)
  BY <1>3, <1>4, <1>5, <1>6
<1> QED BY <1>2, <1>4, <1>5, <1>6, <1>8, <1>9

\* The layout on the server's side does not change with it.
LEMMA UpGrowsLayout ==
  ASSUME PluginsTypeOK, ServerLayout, Solid(up), NEW more, Solid(more), up' = up \o more, ServerWaits
  PROVE  ServerLayout'
<1>1. PICK now : now = up'
  OBVIOUS
<1>2. \A k \in 0..Len(up) : EndsOf(now)[k] = EndsOf(up)[k]
  BY <1>1, UpStays
<1>3. server_taken \in 0..Len(up)
  BY TypesAre
<1>4. EndsOf(up')[server_taken'] = EndsOf(up)[server_taken]
  BY <1>1, <1>2, <1>3 DEF ServerWaits, server
<1>5. /\ held <= uread /\ (dec = 0 \/ dec >= IV)
      /\ uread = held => down = <<>> /\ server_status = 0
      /\ server_status = 3 => Tls /\ uread - held >= HelloSize
      /\ session.plugin = "tls1.2_ticket_auth" /\ server_status = 8 => EndsOf(up)[server_taken] <= uread
      /\ Solid(down)
  BY Zenon DEF ServerLayout
<1>6. /\ session' = session /\ down' = down /\ uread' = uread /\ held' = held /\ dec' = dec
      /\ server_status' = server_status
  BY DEF ServerWaits, server
<1>7. Tls' = Tls
  BY <1>6 DEF Tls
<1> QED BY Zenon, <1>4, <1>5, <1>6, <1>7 DEF ServerLayout

\* The calls are the same, or one more.
Calls == requests' = requests \/ \E n \in Pos : requests' = Append(requests, n)

\* Nor does what it has decrypted and handed on.
LEMMA UpGrowsPasses ==
  ASSUME PluginsTypeOK, UpTotal, ServerLayout, Solid(up), Solid(send_buffer), Passes,
         NEW more, Solid(more), up' = up \o more, Calls, ServerWaits
  PROVE  Passes'
<1>1. PICK now : now = up'
  OBVIOUS
<1>2. /\ session' = session /\ uread' = uread /\ held' = held /\ dec' = dec /\ got' = got /\ open' = open
  BY DEF ServerWaits
<1>3. Speaks' = Speaks
  BY <1>2 DEF Speaks
<1>4. /\ open /\ dec = Cipher(up, uread - held)
      /\ dec = 0 => got = 0
      /\ dec > 0 => /\ got = IF Speaks THEN PayloadIn(dec - IV) ELSE dec - IV
                    /\ dec >= Asked(1) /\ got > 0 /\ held = 0
      /\ Speaks /\ "protocol" \in session.compatible => \E n \in 0..Len(requests) : dec = Asked(n)
  BY Zenon DEF Passes
<1>5. /\ requests \in Seq(Pos) /\ Len(requests) \in Nat /\ uread \in Nat /\ held \in Nat /\ dec \in Nat
      /\ up \in Seq(UnitType) /\ send_buffer \in Seq(UnitType) /\ uread <= Bytes(up)
  BY TypesAre
<1>6. uread - held \in Nat /\ uread - held <= uread
  <2>1. held <= uread
    BY Zenon DEF ServerLayout
  <2> QED BY <1>5, <2>1
<1>7. Cipher(now, uread - held) = Cipher(up, uread - held)
  BY <1>1, <1>6, UpStays
<1>8. dec' = Cipher(up', uread' - held')
  BY <1>1, <1>2, <1>4, <1>7
<1>9. dec <= Asked(Len(requests)) /\ (dec > 0 => requests # <<>>)
  <2>1. Cipher(up, uread - held) <= DataIn(up)[Len(up)]
    BY <1>5, <1>6, CipherBounds
  <2>2. /\ DataIn(up)[Len(up)] + DataIn(send_buffer)[Len(send_buffer)] = Asked(Len(requests))
        /\ up # <<>> => requests # <<>>
    BY Zenon DEF UpTotal
  <2>3. DataIn(up)[Len(up)] \in Nat /\ DataIn(send_buffer)[Len(send_buffer)] \in Nat
    BY <1>5, DataInside
  <2>4. up = <<>> => DataIn(up)[Len(up)] = 0
    <3>1. Len(<<>>) = 0
      OBVIOUS
    <3> QED BY Zenon, <3>1, NoUnits
  <2>5. Asked(Len(requests)) \in Nat
    <3>1. Len(requests) \in 0..Len(requests)
      BY <1>5
    <3> QED BY <1>5, <3>1, AskedIs
  <2> DEFINE d == DataIn(up)[Len(up)]
             b == DataIn(send_buffer)[Len(send_buffer)]
             a == Asked(Len(requests))
  <2>6. dec <= d /\ d + b = a /\ d \in Nat /\ b \in Nat /\ a \in Nat
    BY <1>4, <2>1, <2>2, <2>3, <2>5
  <2> HIDE DEF d, b, a
  <2>7. dec <= a /\ (dec > 0 => d # 0)
    BY <1>5, <2>6
  <2> QED BY <2>2, <2>4, <2>7 DEF a, d
<1>10. CASE requests' = requests
  <2>1. Asked(1)' = Asked(1) /\ PayloadIn(dec - IV)' = PayloadIn(dec - IV) /\ \A n : Asked(n)' = Asked(n)
    BY <1>2, <1>10 DEF Asked, PayloadIn
  <2> QED BY Zenon, <1>2, <1>3, <1>4, <1>8, <1>10, <2>1 DEF Passes
<1>11. CASE \E n \in Pos : requests' = Append(requests, n)
  <2>1. PICK n \in Pos : requests' = Append(requests, n)
    BY <1>11
  <2>2. /\ Len(requests') = Len(requests) + 1
        /\ \A k \in 0..Len(requests) : Asked(k)' = Asked(k)
        /\ \A a \in Nat : a <= Bytes(FramesOfAll(requests)) => PayloadIn(a)' = PayloadIn(a)
    BY <1>2, <1>5, <2>1, AskedGoes
  <2>3. dec > 0 => Asked(1)' = Asked(1)
    <3>1. requests # <<>> => 1 \in 0..Len(requests)
      BY <1>5, EmptySeq
    <3> QED BY <1>9, <2>2, <3>1
  <2>4. dec > 0 /\ Speaks => PayloadIn(dec - IV)' = PayloadIn(dec - IV)
    <3> SUFFICES ASSUME dec > 0, Speaks PROVE PayloadIn(dec - IV)' = PayloadIn(dec - IV)
      OBVIOUS
    <3>1. Len(requests) \in 1..Len(requests) /\ Len(requests) \in 0..Len(requests) /\ 1 \in 1..Len(requests)
      BY <1>5, <1>9, EmptySeq
    <3>2. Asked(Len(requests)) = IV + Spoke(requests, session.speaks, Len(requests)) /\ Asked(1) > IV /\ IV = 16
      BY <1>5, <3>1, AskedIs, SizesAre
    <3>3. Spoke(requests, session.speaks, Len(requests)) = Bytes(FramesOfAll(requests))
      <4>1. SubSeq(requests, 1, Len(requests)) = requests
        BY <1>5
      <4> QED BY <4>1 DEF Spoke, Spoken, Speaks
    <3>4. Bytes(FramesOfAll(requests)) \in Nat /\ Asked(1) \in Nat
      <4>1. Loaded(FramesOfAll(requests))
        BY <1>5, <3>1, FirstsLoaded
      <4> QED BY <1>5, <3>1, <4>1, AskedIs, DataInside DEF Loaded
    <3> DEFINE b == Bytes(FramesOfAll(requests))
               a == Asked(1)
    <3>5. dec <= 16 + b /\ dec >= a /\ a > 16 /\ a \in Nat /\ b \in Nat
      BY <1>4, <1>9, <3>2, <3>3, <3>4
    <3> HIDE DEF a, b
    <3>6. dec - IV \in Nat /\ dec - IV <= b
      BY <1>5, <3>2, <3>5
    <3>7. PICK x \in Nat : x = dec - IV
      BY <3>6
    <3>8. PayloadIn(x)' = PayloadIn(x)
      BY <2>2, <3>6, <3>7 DEF b
    <3> QED BY <1>2, <3>7, <3>8 DEF PayloadIn, IV
  <2>5. (\E k \in 0..Len(requests) : dec = Asked(k)) => (\E k \in 0..Len(requests') : dec' = Asked(k)')
    <3> SUFFICES ASSUME NEW k \in 0..Len(requests), dec = Asked(k) PROVE \E j \in 0..Len(requests') : dec' = Asked(j)'
      OBVIOUS
    <3>1. k \in 0..Len(requests')
      BY <1>5, <2>2
    <3>2. dec' = Asked(k)'
      BY <1>2, <2>2
    <3> QED BY <3>1, <3>2
  <2> QED BY Zenon, <1>2, <1>3, <1>4, <1>8, <2>3, <2>4, <2>5 DEF Passes
<1> QED BY <1>10, <1>11 DEF Calls

\* Nor how far the server's obfs is.
LEMMA UpGrowsPhase ==
  ASSUME PluginsTypeOK, Solid(up), ServerPhase, NEW more, Solid(more), up' = up \o more, ServerWaits,
         Tls => (client_status' = 0 => server_status = 0) /\ (client_status' = 8 => server_status # 0)
  PROVE  ServerPhase'
<1>1. PICK now : now = up'
  OBVIOUS
<1>2. /\ session' = session /\ uread' = uread /\ held' = held /\ dec' = dec /\ down' = down
      /\ server_status' = server_status /\ server_taken' = server_taken
      /\ obfs_compatible_state' = obfs_compatible_state /\ client_data' = client_data
  BY DEF ServerWaits, server
<1>3. Tls' = Tls /\ Http' = Http
  BY <1>2 DEF Tls, Http
<1>4. /\ \A k \in 0..Len(up) : DataIn(now)[k] = DataIn(up)[k]
      /\ \A i \in 1..Len(up) : now[i] = up[i]
      /\ Len(now) \in Nat /\ Len(up) \in Nat /\ Len(now) >= Len(up)
  BY ZenonT(30), <1>1, UpStays
<1>5. server_taken \in 0..Len(up)
  BY TypesAre
<1>6. DataIn(up')[server_taken'] = DataIn(up)[server_taken]
  BY <1>1, <1>2, <1>4, <1>5
<1>7. Len(up) >= 1 => Len(up') >= 1 /\ (up'[1]).head = up[1].head
  <2> SUFFICES ASSUME Len(up) >= 1 PROVE Len(now) >= 1 /\ now[1] = up[1]
    BY <1>1
  <2>1. 1 \in 1..Len(up)
    BY <1>4
  <2> QED BY <1>4, <2>1
<1>8. /\ obfs_compatible_state = 1 => session.obfs = "none" /\ session.plugin # "plain"
      /\ session.plugin # "plain" /\ session.obfs = "none" =>
           /\ dec > 0 => obfs_compatible_state = 1
           /\ server_status = 8 => session.plugin = "http_simple"
           /\ obfs_compatible_state = 0 => server_status = 0
      /\ Http => /\ server_status \in {0, 8} /\ (server_status = 0 => uread = held)
                 /\ server_status = 8 => Len(up) >= 1 /\ uread - held >= up[1].head
      /\ Tls => /\ server_status \in {0, 3, 8}
                /\ server_status = 0 => uread = held /\ client_data = {}
                /\ server_status = 3 => uread - held = HelloSize
                /\ server_status = 8 => server_taken >= 2 /\ dec > 0 /\ DataIn(up)[server_taken] = dec
  BY Zenon DEF ServerPhase
<1> QED BY Zenon, <1>2, <1>3, <1>6, <1>7, <1>8 DEF ServerPhase

-----------------------------------------------------------------------------
(* A new connection.                                                       *)

\* As accept_cb leaves a connection.
Fresh ==
  /\ session \in Sessions /\ connection \in 1..LastConnection
  /\ requests = <<>> /\ replies = 0 /\ framings = {}
  /\ up = <<>> /\ down = <<>> /\ uread = 0 /\ dread = 0
  /\ client_status = 0 /\ send_buffer = <<>> /\ client_from = 0
  /\ server_status = 0 /\ sent = 0 /\ server_taken = 0
  /\ held = 0 /\ obfs_compatible_state = 0 /\ client_data = {}
  /\ dec = 0 /\ c_dec = 0 /\ got = 0 /\ open = TRUE /\ torn = FALSE

\* The invariant holds of a new connection,
LEMMA FreshInv == Fresh => PluginsInv
<1> SUFFICES ASSUME Fresh PROVE PluginsInv
  OBVIOUS
<1> USE DEF Fresh
<1>1. /\ <<>> \in Seq(UnitType) /\ Solid(<<>>) /\ Bytes(<<>>) = 0 /\ DataIn(<<>>)[0] = 0 /\ Len(<<>>) = 0
      /\ Cipher(<<>>, 0) = 0
  BY NoUnits, CipherZero
<1>2. PluginsTypeOK
  <2>1. <<>> \in Seq(RequestSizes) /\ MaxRequests \in Nat
    BY LimitsAssumption
  <2>2. Len(requests) <= MaxRequests /\ replies \in 0..Len(requests)
    BY <1>1, <2>1
  <2>3. uread \in 0..Bytes(up) /\ dread \in 0..Bytes(down) /\ held \in 0..(IV + 1) /\ client_from \in 0..dread
    BY <1>1, SizesAre
  <2>4. server_taken \in 0..Len(up) /\ dec \in Nat /\ c_dec \in Nat /\ got \in Nat
    BY <1>1
  <2> QED BY <1>1, <2>1, <2>2, <2>3, <2>4 DEF PluginsTypeOK
<1>3. UpLayout
  <2>1. Recorded(<<>>, 0) /\ Plain(<<>>, 0) /\ \A i \in 1..Len(<<>>) : <<>>[i].kind = "raw"
    BY DEF Recorded, Plain
  <2>2. /\ Solid(up) /\ Solid(send_buffer) /\ Recorded(send_buffer, 0) /\ send_buffer = <<>>
        /\ client_status = 0 /\ client_status # 8 /\ client_status # 1 /\ up = <<>>
        /\ Plain(up, 0) /\ \A i \in 1..Len(up) : up[i].kind = "raw"
    BY <1>1, <2>1
  <2> HIDE DEF Fresh
  <2> QED BY Zenon, <2>2 DEF UpLayout
<1>4. Asked(0) = 0
  BY DEF Asked
<1>5. UpTotal
  <2>1. DataIn(up)[Len(up)] = 0 /\ DataIn(send_buffer)[Len(send_buffer)] = 0 /\ Asked(Len(requests)) = 0
    BY <1>1, <1>4
  <2> QED BY <2>1 DEF UpTotal
<1>6. ServerLayout
  BY <1>1 DEF ServerLayout
<1>7. Passes
  <2>1. dec = Cipher(up, uread - held)
    BY <1>1
  <2>2. \E n \in 0..Len(requests) : dec = Asked(n)
    <3>1. 0 \in 0..Len(requests)
      BY <1>1
    <3> QED BY <1>4, <3>1
  <2> QED BY <2>1, <2>2 DEF Passes
<1>8. ServerPhase
  BY DEF ServerPhase
<1>9. DownLayout
  <2>1. Recorded(<<>>, 1)
    BY DEF Recorded
  <2> QED BY <1>1, <2>1 DEF DownLayout
<1>10. ClientPhase
  BY <1>1, SizesAre DEF ClientPhase
<1> QED BY <1>2, <1>3, <1>5, <1>6, <1>7, <1>8, <1>9, <1>10 DEF PluginsInv, Intact

\* so it does after a step that ends in one;
LEMMA FreshNext == Fresh' => PluginsInv'
BY FreshInv, PTL

\* the first connection is one,
LEMMA PluginsStart == PluginsInit => PluginsInv
<1>1. 1 \in 1..LastConnection
  BY LimitsAssumption
<1>2. PluginsInit => Fresh
  BY <1>1 DEF PluginsInit, Fresh
<1> QED BY <1>2, FreshInv

\* and so is the next.
LEMMA ReconnectsKeeps == ASSUME PluginsInv, Reconnects PROVE PluginsInv'
<1>1. session \in Sessions /\ connection \in 1..LastConnection
  BY Zenon DEF PluginsInv, PluginsTypeOK
<1>2. /\ connection < LastConnection /\ connection' = connection + 1
      /\ client_data' = NewGlobal(client_data)
      /\ requests' = <<>> /\ replies' = 0 /\ framings' = {}
      /\ up' = <<>> /\ down' = <<>> /\ uread' = 0 /\ dread' = 0
      /\ client_status' = 0 /\ send_buffer' = <<>> /\ client_from' = 0
      /\ server_status' = 0 /\ sent' = 0 /\ server_taken' = 0
      /\ held' = 0 /\ obfs_compatible_state' = 0
      /\ dec' = 0 /\ c_dec' = 0 /\ got' = 0 /\ open' = TRUE /\ torn' = FALSE
      /\ session' = session
  BY Zenon DEF Reconnects
<1>3. connection' \in 1..LastConnection
  BY <1>1, <1>2, LimitsAssumption
<1>4. client_data' = {}
  BY <1>2 DEF NewGlobal
<1>5. Fresh'
  BY <1>1, <1>2, <1>3, <1>4 DEF Fresh
<1> QED BY <1>5, FreshNext

-----------------------------------------------------------------------------
(* The client's obfs.                                                      *)

\* What a unit may be.
UnitKinds == {"hello", "finish", "record", "frame", "request", "response", "raw"}

\* A unit on its own.
LEMMA OneUnit ==
  ASSUME NEW kind \in UnitKinds, NEW head \in Nat, NEW n \in Nat, head + n > 0
  PROVE  /\ <<Unit(kind, head, n)>> \in Seq(UnitType) /\ Solid(<<Unit(kind, head, n)>>)
         /\ Len(<<Unit(kind, head, n)>>) = 1 /\ <<Unit(kind, head, n)>>[1] = Unit(kind, head, n)
         /\ DataIn(<<Unit(kind, head, n)>>)[1] = n /\ EndsOf(<<Unit(kind, head, n)>>)[1] = head + n
         /\ Bytes(<<Unit(kind, head, n)>>) = head + n
<1> DEFINE w == <<Unit(kind, head, n)>>
<1>1. Len(w) = 1 /\ w[1] = Unit(kind, head, n)
  OBVIOUS
<1>2. w[1].kind = kind /\ w[1].head = head /\ w[1].data = n
  BY <1>1, UnitIs
<1>3. w \in Seq(UnitType)
  BY DEF Unit, UnitType, UnitKinds
<1> HIDE DEF w
<1>4. Solid(w)
  BY <1>1, <1>2, <1>3 DEF Solid
<1>5. /\ EndsOf(w)[0] = 0 /\ DataIn(w)[0] = 0
      /\ EndsOf(w)[1] = EndsOf(w)[1 - 1] + (w[1].head + w[1].data)
      /\ DataIn(w)[1] = DataIn(w)[1 - 1] + w[1].data
  <2>1. 1 \in 1..Len(w)
    BY <1>1
  <2> QED BY <1>3, <2>1, UnitSums
<1>6. EndsOf(w)[1] = 0 + (head + n) /\ DataIn(w)[1] = 0 + n
  <2>1. 1 - 1 = 0
    OBVIOUS
  <2> QED BY Zenon, <1>2, <1>5, <2>1
<1>7. EndsOf(w)[1] = head + n /\ DataIn(w)[1] = n
  BY <1>6
<1>8. Bytes(w) = head + n
  BY <1>1, <1>7 DEF Bytes
<1> QED BY <1>1, <1>3, <1>4, <1>7, <1>8 DEF w

\* Records, and more of them.
LEMMA RecordedConcat ==
  ASSUME NEW w \in Seq(UnitType), NEW v \in Seq(UnitType), NEW had \in Nat, Recorded(w, had), Recorded(v, 0)
  PROVE  Recorded(w \o v, had)
<1>1. /\ Len(w) \in Nat /\ Len(v) \in Nat /\ Len(w \o v) = Len(w) + Len(v)
      /\ \A i \in 1..Len(w) : (w \o v)[i] = w[i]
      /\ \A i \in 1..Len(v) : (w \o v)[Len(w) + i] = v[i]
  BY UnitsStay, LenProperties
<1> SUFFICES ASSUME NEW i \in 1..Len(w \o v), i > had
             PROVE  (w \o v)[i].kind = "record" /\ (w \o v)[i].head = 5
  BY DEF Recorded
<1>2. CASE i <= Len(w)
  <2>1. i \in 1..Len(w)
    BY <1>1, <1>2
  <2> QED BY <1>1, <2>1 DEF Recorded
<1>3. CASE ~(i <= Len(w))
  <2>1. PICK j \in 1..Len(v) : i = Len(w) + j
    <3>1. i - Len(w) \in 1..Len(v) /\ i = Len(w) + (i - Len(w))
      BY <1>1, <1>3
    <3> QED BY <3>1
  <2>2. v[j].kind = "record" /\ v[j].head = 5
    BY <2>1 DEF Recorded
  <2> QED BY <1>1, <2>1, <2>2
<1> QED BY <1>2, <1>3

\* Bytes as they are, and more of them.
LEMMA PlainConcat ==
  ASSUME NEW w \in Seq(UnitType), NEW v \in Seq(UnitType), NEW h \in Nat, Plain(w, h), Plain(v, 0),
         Len(w) >= 1 \/ h = 0
  PROVE  Plain(w \o v, h)
<1>1. /\ Len(w) \in Nat /\ Len(v) \in Nat /\ Len(w \o v) = Len(w) + Len(v)
      /\ \A i \in 1..Len(w) : (w \o v)[i] = w[i]
      /\ \A i \in 1..Len(v) : (w \o v)[Len(w) + i] = v[i]
  BY UnitsStay, LenProperties
<1> SUFFICES ASSUME NEW i \in 1..Len(w \o v)
             PROVE  (w \o v)[i].kind # "record" /\ (w \o v)[i].head = IF i = 1 THEN h ELSE 0
  BY DEF Plain
<1>2. CASE i <= Len(w)
  <2>1. i \in 1..Len(w)
    BY <1>1, <1>2
  <2> QED BY <1>1, <2>1 DEF Plain
<1>3. CASE ~(i <= Len(w))
  <2>1. PICK j \in 1..Len(v) : i = Len(w) + j
    <3>1. i - Len(w) \in 1..Len(v) /\ i = Len(w) + (i - Len(w))
      BY <1>1, <1>3
    <3> QED BY <3>1
  <2>2. v[j].kind # "record" /\ v[j].head = 0
    BY <2>1 DEF Plain
  <2>3. i # 1 \/ h = 0
    BY <1>1, <1>3
  <2> QED BY <1>1, <2>1, <2>2, <2>3
<1> QED BY <1>2, <1>3

\* A record on its own.
LEMMA OneRecord ==
  ASSUME NEW n \in Nat
  PROVE  /\ <<Record(n)>> \in Seq(UnitType) /\ Solid(<<Record(n)>>) /\ Recorded(<<Record(n)>>, 0)
         /\ Len(<<Record(n)>>) = 1 /\ DataIn(<<Record(n)>>)[1] = n
<1>1. 5 + n > 0 /\ 5 \in Nat
  OBVIOUS
<1>2. /\ <<Record(n)>> \in Seq(UnitType) /\ Solid(<<Record(n)>>)
      /\ Len(<<Record(n)>>) = 1 /\ <<Record(n)>>[1] = Unit("record", 5, n) /\ DataIn(<<Record(n)>>)[1] = n
  BY <1>1, OneUnit DEF Record, UnitKinds
<1>3. Recorded(<<Record(n)>>, 0)
  <2> DEFINE w == <<Record(n)>>
  <2>1. Len(w) = 1 /\ w[1].kind = "record" /\ w[1].head = 5
    BY <1>2, UnitIs
  <2> HIDE DEF w
  <2>2. Recorded(w, 0)
    BY <2>1 DEF Recorded
  <2> QED BY <2>2 DEF w
<1> QED BY <1>2, <1>3

\* What is cut in pieces are records with the same bytes.
LEMMA PiecesAre ==
  ASSUME NEW n \in Nat, NEW units \in Pieces(n)
  PROVE  units \in Seq(UnitType) /\ Solid(units) /\ Recorded(units, 0) /\ DataIn(units)[Len(units)] = n
<1>1. CASE units = <<Record(n)>>
  BY <1>1, OneRecord
<1>2. CASE \E p \in PieceSizes : p < n /\ units = <<Record(p), Record(n - p)>>
  <2>1. PICK p \in PieceSizes : p < n /\ units = <<Record(p), Record(n - p)>>
    BY <1>2
  <2>2. p \in Nat
    BY Zenon, DrawsAssumption
  <2>3. n - p \in Nat
    BY <2>1, <2>2
  <2> DEFINE a == <<Record(p)>>
             b == <<Record(n - p)>>
  <2>4. /\ a \in Seq(UnitType) /\ Solid(a) /\ Recorded(a, 0) /\ DataIn(a)[Len(a)] = p
        /\ b \in Seq(UnitType) /\ Solid(b) /\ Recorded(b, 0) /\ DataIn(b)[Len(b)] = n - p
    BY <2>2, <2>3, OneRecord
  <2>5. units = a \o b
    BY <2>1
  <2> HIDE DEF a, b
  <2>6. DataIn(units)[Len(units)] = n
    <3>1. DataIn(units)[Len(units)] = p + (n - p)
      BY <2>4, <2>5, BytesConcat
    <3> QED BY <2>2, <3>1
  <2> QED BY <2>4, <2>5, <2>6, SolidConcat, RecordedConcat DEF Solid
<1> QED BY <1>1, <1>2 DEF Pieces

\* An encoded request.
LEMMA RequestIs ==
  ASSUME NEW n \in Nat, NEW u, u \in http_post_client_encode(n) \/ u \in http_simple_client_encode(n)
  PROVE  \E head \in Nat : u = Unit("request", head, n)
<1>1. \A x \in Extra : HeadLen + x \in Nat
  BY DrawsAssumption DEF HeadLen
<1>2. ASSUME NEW v \in http_simple_client_encode(n) PROVE \E head \in Nat : v = Unit("request", head, n)
  <2>1. PICK h : h \in {IF HeadLen + x < n THEN HeadLen + x ELSE n : x \in Extra} /\ v = Unit("request", Request + 2 * h, n)
    BY <1>2 DEF http_simple_client_encode
  <2>2. h \in Nat
    BY <1>1, <2>1
  <2>3. Request + 2 * h \in Nat
    BY <2>2, DrawsAssumption
  <2> QED BY <2>1, <2>3
<1>3. CASE u \in http_post_client_encode(n)
  <2>1. PICK v \in http_simple_client_encode(n) : u = Unit("request", v.head + 84, n)
    BY <1>3 DEF http_post_client_encode
  <2>2. PICK head \in Nat : v = Unit("request", head, n)
    BY <1>2
  <2>3. v.head + 84 \in Nat
    BY <2>2, UnitIs
  <2> QED BY <2>1, <2>3
<1> QED BY <1>2, <1>3

-----------------------------------------------------------------------------
(* The client writes.                                                      *)

\* What an encoded call adds.
Wrote(more, held_back, n) ==
  /\ Solid(more) /\ Solid(held_back) /\ Recorded(held_back, 0)
  /\ up' = up \o more /\ send_buffer' = send_buffer \o held_back
  /\ DataIn(more)[Len(more)] + DataIn(held_back)[Len(held_back)] = n

\* It goes where the handshake has it go.
LEMMA EncodesAdds ==
  ASSUME PluginsTypeOK, UpLayout, NEW n \in Pos, ClientEncodes(n), session' = session
  PROVE  /\ \E more, held_back : Wrote(more, held_back, n)
         /\ UpLayout'
         /\ client_status' \in {0, 1, 8}
         /\ Tls => (client_status' = 0 => client_status = 0) /\ (client_status' = 8 <=> client_status = 8)
<1>1. /\ up \in Seq(UnitType) /\ send_buffer \in Seq(UnitType) /\ client_status \in {0, 1, 8} /\ session \in Sessions
      /\ n \in Nat /\ n > 0
  BY TypesAre DEF Pos
<1>2. /\ Solid(up) /\ Solid(send_buffer) /\ Recorded(send_buffer, 0)
      /\ client_status # 1 => send_buffer = <<>>
      /\ session.obfs = "none" => client_status = 0 /\ Plain(up, 0) /\ \A i \in 1..Len(up) : up[i].kind = "raw"
      /\ Http => client_status # 1 /\ (client_status = 0 => up = <<>>)
      /\ Http /\ client_status = 8 => Len(up) >= 1 /\ up[1].kind = "request" /\ Plain(up, up[1].head)
      /\ Tls /\ client_status = 0 => up = <<>>
      /\ Tls /\ client_status = 1 => Greets(up, HelloSize) /\ Len(up) = 1
      /\ Tls /\ client_status = 8 =>
           Greets(up, HelloSize) /\ Len(up) >= 2 /\ up[2] = Unit("finish", Finish, 0) /\ Recorded(up, 2)
  BY Zenon DEF UpLayout
<1>3. Tls' = Tls /\ Http' = Http /\ (session.obfs)' = session.obfs
  BY DEF Tls, Http
<1>4. ~(Tls /\ Http) /\ ~(Tls /\ session.obfs = "none") /\ ~(Http /\ session.obfs = "none")
  BY <1>1, SessionIs
<1>5. /\ <<>> \in Seq(UnitType) /\ Solid(<<>>) /\ Bytes(<<>>) = 0 /\ DataIn(<<>>)[Len(<<>>)] = 0
      /\ Recorded(<<>>, 0) /\ send_buffer \o <<>> = send_buffer /\ up \o <<>> = up
  <2>1. Len(<<>>) = 0
    OBVIOUS
  <2>2. Recorded(<<>>, 0)
    BY <2>1 DEF Recorded
  <2> QED BY <1>1, <2>1, <2>2, NoUnits, ConcatEmptySeq
<1> DEFINE r == <<Record(n)>>
<1>6. r \in Seq(UnitType) /\ Solid(r) /\ Recorded(r, 0) /\ Len(r) = 1 /\ DataIn(r)[Len(r)] = n
  BY <1>1, OneRecord
<1>7. Append(send_buffer, Record(n)) = send_buffer \o r
  BY <1>1, AppendIsConcat
<1> HIDE DEF r
<1>8. Solid(send_buffer \o r) /\ Recorded(send_buffer \o r, 0)
  BY <1>1, <1>2, <1>6, SolidConcat, RecordedConcat
<1>9. 0 + n = n /\ n + 0 = n
  BY <1>1
<1>10. CASE /\ Tls /\ client_status = 0
            /\ up' = Append(up, Unit("hello", HelloSize, 0))
            /\ client_status' = 1 /\ send_buffer' = Append(send_buffer, Record(n))
  <2> DEFINE h == <<Unit("hello", HelloSize, 0)>>
  <2>1. Solid(h) /\ Len(h) = 1 /\ h[1] = Unit("hello", HelloSize, 0) /\ DataIn(h)[1] = 0
    <3>1. HelloSize \in Nat /\ 0 \in Nat /\ HelloSize + 0 > 0
      BY SizesAre
    <3> QED BY <3>1, OneUnit DEF UnitKinds
  <2>2. up' = up \o h
    BY <1>1, <1>10, AppendIsConcat
  <2> HIDE DEF h
  <2>3. up' = h
    <3>1. up = <<>>
      BY Zenon, <1>2, <1>10
    <3>2. h \in Seq(UnitType)
      BY <2>1 DEF Solid
    <3> QED BY <2>2, <3>1, <3>2, ConcatEmptySeq
  <2>4. Wrote(h, r, n)
    <3>1. DataIn(h)[Len(h)] + DataIn(r)[Len(r)] = n
      BY Zenon, <1>6, <1>9, <2>1
    <3> QED BY <1>6, <1>7, <1>10, <2>1, <2>2, <3>1 DEF Wrote
  <2>5. Greets(h, HelloSize) /\ Len(h) = 1
    BY <2>1 DEF Greets
  <2>6. UpLayout'
    <3> DEFINE s == send_buffer'
    <3>1. Solid(up') /\ Solid(s) /\ Recorded(s, 0)
      BY <1>7, <1>8, <1>10, <2>1, <2>3
    <3>2. Greets(up', HelloSize) /\ Len(up') = 1 /\ client_status' = 1
      BY <1>10, <2>3, <2>5
    <3>3. client_status' # 8 /\ client_status' # 0
      BY <1>10
    <3> QED BY Zenon, <1>3, <1>4, <1>10, <3>1, <3>2, <3>3 DEF UpLayout
  <2> QED BY <1>10, <2>4, <2>6
<1>11. CASE /\ Tls /\ client_status = 1
            /\ send_buffer' = Append(send_buffer, Record(n))
            /\ UNCHANGED <<up, client_status>>
  <2>1. Wrote(<<>>, r, n)
    <3>1. DataIn(<<>>)[Len(<<>>)] + DataIn(r)[Len(r)] = n
      BY Zenon, <1>5, <1>6, <1>9
    <3> QED BY <1>5, <1>6, <1>7, <1>11, <3>1 DEF Wrote
  <2>2. UpLayout'
    <3>1. Solid(up') /\ Solid(send_buffer') /\ Recorded(send_buffer', 0)
      BY <1>2, <1>7, <1>8, <1>11
    <3>2. Greets(up', HelloSize) /\ Len(up') = 1 /\ client_status' = 1
      BY <1>2, <1>11
    <3>3. client_status' # 8 /\ client_status' # 0
      BY <1>11
    <3> QED BY Zenon, <1>3, <1>4, <1>11, <3>1, <3>2, <3>3 DEF UpLayout
  <2> QED BY <1>11, <2>1, <2>2
<1>12. CASE /\ Tls /\ client_status = 8
            /\ \E units \in Pieces(n) : up' = up \o units
            /\ UNCHANGED <<client_status, send_buffer>>
  <2>1. PICK units \in Pieces(n) : up' = up \o units
    BY <1>12
  <2>2. units \in Seq(UnitType) /\ Solid(units) /\ Recorded(units, 0) /\ DataIn(units)[Len(units)] = n
    BY <1>1, PiecesAre
  <2>3. Wrote(units, <<>>, n)
    <3>1. DataIn(units)[Len(units)] + DataIn(<<>>)[Len(<<>>)] = n
      BY Zenon, <1>5, <1>9, <2>2
    <3> QED BY <1>5, <1>12, <2>1, <2>2, <3>1 DEF Wrote
  <2>4. Greets(up, HelloSize) /\ Len(up) >= 2 /\ up[2] = Unit("finish", Finish, 0) /\ Recorded(up, 2)
    BY <1>2, <1>12
  <2>5. Solid(up') /\ Recorded(up', 2)
    BY <1>1, <1>2, <2>1, <2>2, <2>4, SolidConcat, RecordedConcat
  <2>6. Greets(up', HelloSize) /\ Len(up') >= 2 /\ up'[2] = Unit("finish", Finish, 0)
    <3>1. PICK now : now = up'
      OBVIOUS
    <3>2. Len(now) = Len(up) + Len(units) /\ \A i \in 1..Len(up) : now[i] = up[i]
      BY <1>1, <2>1, <2>2, <3>1, UnitsStay
    <3>3. Len(up) \in Nat /\ Len(units) \in Nat
      BY <1>1, <2>2, LenProperties
    <3>4. 1 \in 1..Len(up) /\ 2 \in 1..Len(up)
      BY <2>4, <3>3
    <3>5. Len(now) >= 2 /\ Len(now) >= 1
      BY <2>4, <3>2, <3>3
    <3>6. now[1] = Unit("hello", HelloSize, 0) /\ now[2] = Unit("finish", Finish, 0)
      BY <2>4, <3>2, <3>4 DEF Greets
    <3> QED BY <3>1, <3>5, <3>6 DEF Greets
  <2>7. UpLayout'
    <3>1. Solid(send_buffer') /\ Recorded(send_buffer', 0) /\ send_buffer' = <<>>
      BY <1>2, <1>12
    <3>2. client_status' = 8 /\ client_status' # 0 /\ client_status' # 1
      BY <1>12
    <3> QED BY Zenon, <1>3, <1>4, <1>12, <2>5, <2>6, <3>1, <3>2 DEF UpLayout
  <2> QED BY <1>12, <2>3, <2>7
<1>13. CASE /\ Http /\ client_status = 0
            /\ \E u \in IF session.obfs = "http_post" THEN http_post_client_encode(n)
                        ELSE http_simple_client_encode(n) : up' = Append(up, u)
            /\ client_status' = 8
            /\ UNCHANGED send_buffer
  <2>1. PICK u : /\ u \in http_post_client_encode(n) \/ u \in http_simple_client_encode(n)
                 /\ up' = Append(up, u)
    BY <1>13
  <2>2. PICK head \in Nat : u = Unit("request", head, n)
    BY <1>1, <2>1, RequestIs
  <2> DEFINE v == <<u>>
  <2>3. v \in Seq(UnitType) /\ Solid(v) /\ Len(v) = 1 /\ v[1] = u /\ DataIn(v)[Len(v)] = n
    <3>1. head + n > 0
      BY <1>1
    <3> QED BY <1>1, <2>2, <3>1, OneUnit DEF UnitKinds
  <2>4. up' = up \o v
    BY <1>1, <2>1, AppendIsConcat
  <2> HIDE DEF v
  <2>5. up' = v
    <3>1. up = <<>>
      BY Zenon, <1>2, <1>13
    <3> QED BY <2>3, <2>4, <3>1, ConcatEmptySeq
  <2>6. Wrote(v, <<>>, n)
    <3>1. DataIn(v)[Len(v)] + DataIn(<<>>)[Len(<<>>)] = n
      BY Zenon, <1>5, <1>9, <2>3
    <3> QED BY <1>5, <1>13, <2>3, <2>4, <3>1 DEF Wrote
  <2>7. Len(v) >= 1 /\ v[1].kind = "request" /\ Plain(v, v[1].head)
    BY <2>2, <2>3, UnitIs DEF Plain
  <2>8. UpLayout'
    <3>1. Solid(up') /\ Solid(send_buffer') /\ Recorded(send_buffer', 0) /\ send_buffer' = <<>>
      BY <1>2, <1>13, <2>3, <2>5
    <3>2. client_status' = 8 /\ client_status' # 0 /\ client_status' # 1
      BY <1>13
    <3>3. Len(up') >= 1 /\ up'[1].kind = "request" /\ Plain(up', up'[1].head)
      BY <2>5, <2>7
    <3> QED BY Zenon, <1>3, <1>4, <1>13, <3>1, <3>2, <3>3 DEF UpLayout
  <2> QED BY <1>4, <1>13, <2>6, <2>8
<1>14. CASE /\ session.obfs = "none" \/ (Http /\ client_status = 8)
            /\ up' = Append(up, Unit("raw", 0, n))
            /\ UNCHANGED <<client_status, send_buffer>>
  <2> DEFINE v == <<Unit("raw", 0, n)>>
  <2>1. v \in Seq(UnitType) /\ Solid(v) /\ Len(v) = 1 /\ v[1] = Unit("raw", 0, n) /\ DataIn(v)[Len(v)] = n
    <3>1. 0 + n > 0 /\ 0 \in Nat
      BY <1>1
    <3> QED BY <1>1, <3>1, OneUnit DEF UnitKinds
  <2>2. up' = up \o v
    BY <1>1, <1>14, AppendIsConcat
  <2> HIDE DEF v
  <2>3. Wrote(v, <<>>, n)
    <3>1. DataIn(v)[Len(v)] + DataIn(<<>>)[Len(<<>>)] = n
      BY Zenon, <1>5, <1>9, <2>1
    <3> QED BY <1>5, <1>14, <2>1, <2>2, <3>1 DEF Wrote
  <2>4. Plain(v, 0) /\ \A i \in 1..Len(v) : v[i].kind = "raw"
    BY <2>1, UnitIs DEF Plain
  <2>5. Solid(up') /\ Solid(send_buffer') /\ Recorded(send_buffer', 0) /\ (client_status' # 1 => send_buffer' = <<>>)
    BY <1>2, <1>14, <2>1, <2>2, SolidConcat
  <2>6. PICK now : now = up'
    OBVIOUS
  <2>7. /\ Len(now) = Len(up) + Len(v) /\ Len(up) \in Nat
        /\ \A i \in 1..Len(up) : now[i] = up[i]
        /\ \A i \in 1..Len(v) : now[Len(up) + i] = v[i]
    BY <1>1, <2>1, <2>2, <2>6, UnitsStay, LenProperties
  <2>8. CASE session.obfs = "none"
    <3>1. client_status = 0 /\ Plain(up, 0) /\ \A i \in 1..Len(up) : up[i].kind = "raw"
      BY Zenon, <1>2, <2>8
    <3>2. Plain(now, 0)
      <4>1. 0 \in Nat
        OBVIOUS
      <4> QED BY <1>1, <2>1, <2>2, <2>4, <2>6, <3>1, <4>1, PlainConcat
    <3>3. \A i \in 1..Len(now) : now[i].kind = "raw"
      <4> TAKE i \in 1..Len(now)
      <4>1. CASE i <= Len(up)
        <5>1. i \in 1..Len(up)
          BY <2>7, <4>1
        <5> QED BY <2>7, <3>1, <5>1
      <4>2. CASE ~(i <= Len(up))
        <5>1. i = Len(up) + 1 /\ 1 \in 1..Len(v)
          BY <2>1, <2>7, <4>2
        <5>2. v[1].kind = "raw" /\ now[Len(up) + 1] = v[1]
          BY <2>4, <2>7, <5>1
        <5> QED BY <5>1, <5>2
      <4> QED BY <4>1, <4>2
    <3>4. client_status' = 0 /\ client_status' # 1 /\ client_status' # 8 /\ ~Tls /\ ~Http
      BY <1>4, <1>14, <2>8, <3>1
    <3>5. UpLayout'
      BY Zenon, <1>3, <2>5, <2>6, <3>2, <3>3, <3>4 DEF UpLayout
    <3> QED BY <2>3, <3>4, <3>5
  <2>9. CASE Http /\ client_status = 8
    <3>1. Len(up) >= 1 /\ up[1].kind = "request" /\ Plain(up, up[1].head)
      BY Zenon, <1>2, <2>9
    <3>2. 1 \in 1..Len(up)
      BY <2>7, <3>1
    <3>3. now[1] = up[1] /\ up[1].head \in Nat
      BY <1>1, <2>7, <3>2, UnitFields
    <3>4. Plain(now, up[1].head)
      BY <1>1, <2>1, <2>2, <2>4, <2>6, <3>1, <3>3, PlainConcat
    <3>5. Len(now) >= 1
      BY <2>1, <2>7, <3>1
    <3>6. client_status' = 8 /\ client_status' # 1 /\ client_status' # 0 /\ ~Tls /\ session.obfs # "none"
      BY <1>4, <1>14, <2>9
    <3>7. Len(up') >= 1 /\ up'[1].kind = "request" /\ Plain(up', up'[1].head)
      BY <2>6, <3>1, <3>3, <3>4, <3>5
    <3>8. UpLayout'
      BY Zenon, <1>3, <2>5, <2>9, <3>6, <3>7 DEF UpLayout
    <3> QED BY <2>3, <3>6, <3>8
  <2> QED BY <1>14, <2>8, <2>9
<1> QED BY Zenon, <1>10, <1>11, <1>12, <1>13, <1>14 DEF ClientEncodes

\* What the client keeps of what it reads while it writes.
LEMMA ClientPhaseStays ==
  ASSUME ClientPhase, session' = session, down' = down, dread' = dread, c_dec' = c_dec, client_from' = client_from,
         Tls => (client_status' = 8 <=> client_status = 8)
  PROVE  ClientPhase'
<1>1. Tls' = Tls /\ Http' = Http
  BY DEF Tls, Http
<1>2. /\ c_dec = Cipher(down, dread)
      /\ Http => /\ client_from = 0 => dread <= ResponseHead - 4
                 /\ client_from > 0 => dread >= ResponseHead
      /\ Tls => /\ client_status # 8 => dread = 0
                /\ client_status = 8 => client_from >= ServerHello /\ DataIn(down)[Whole(down, client_from)] = c_dec
                                        /\ EndsOf(down)[Whole(down, client_from)] = client_from
  BY Zenon DEF ClientPhase
<1> QED BY Zenon, <1>1, <1>2 DEF ClientPhase

\* What the server has written, while it writes nothing.
LEMMA DownLayoutStays ==
  ASSUME DownLayout, session' = session, down' = down, sent' = sent, server_status' = server_status, framings' = framings
  PROVE  DownLayout'
<1>1. Tls' = Tls /\ Http' = Http /\ BothOrNeither' = BothOrNeither
  BY DEF Tls, Http, BothOrNeither, Speaks
<1>2. /\ session.obfs = "none" => \A i \in 1..Len(down) : down[i].kind = "raw" /\ down[i].head = 0
      /\ Http => /\ \A i \in 1..Len(down) : IF i = 1 THEN down[i].kind = "response" /\ down[i].head = ResponseHead
                                            ELSE down[i].kind = "raw" /\ down[i].head = 0
                 /\ sent = 0 <=> down = <<>>
      /\ Tls => /\ down = <<>> \/ Greets(down, ServerHello)
                /\ Recorded(down, 1)
                /\ server_status = 3 => Len(down) = 1
                /\ server_status = 8 => Len(down) >= 1
      /\ BothOrNeither => framings \subseteq {session.speaks}
  BY Zenon DEF DownLayout
<1> QED BY Zenon, <1>1, <1>2 DEF DownLayout

\* The client's pre_encrypt, its cipher and client_encode keep the invariant.
LEMMA ClientWritesKeeps ==
  ASSUME PluginsInv, NEW n \in RequestSizes, ClientWrites(n)
  PROVE  PluginsInv'
<1> DEFINE m == (IF requests = <<>> THEN IV ELSE 0) + Spoken(<<n>>, session.speaks)
<1>1. /\ PluginsTypeOK /\ UpLayout /\ UpTotal /\ ServerLayout /\ (~torn => Intact)
  BY Zenon DEF PluginsInv
<1>2. /\ open /\ ~torn /\ Len(requests) < MaxRequests
      /\ requests' = Append(requests, n)
      /\ ClientEncodes(m)
      /\ UNCHANGED <<session, connection, replies, framings, down, uread, dread, client_from, server, held,
                     obfs_compatible_state, client_data, dec, c_dec, got, open, torn>>
  BY Zenon DEF ClientWrites
<1>3. n \in Pos /\ m \in Pos
  <2>1. n \in Pos
    BY SizesAre
  <2>2. Spoken(<<n>>, session.speaks) \in Pos /\ IV = 16
    BY <2>1, SpokenOne, SizesAre
  <2>3. m \in Nat /\ m > 0
    BY <2>2 DEF Pos
  <2> QED BY <2>1, <2>3 DEF Pos
<1> HIDE DEF m
<1>4. /\ session' = session /\ connection' = connection /\ replies' = replies /\ framings' = framings /\ down' = down
      /\ uread' = uread /\ dread' = dread /\ client_from' = client_from
      /\ server_status' = server_status /\ sent' = sent /\ server_taken' = server_taken
      /\ held' = held /\ obfs_compatible_state' = obfs_compatible_state /\ client_data' = client_data
      /\ dec' = dec /\ c_dec' = c_dec /\ got' = got /\ open' = open /\ torn' = torn
      /\ ServerWaits
  BY <1>2 DEF server, ServerWaits
<1>5. /\ \E more, held_back : Wrote(more, held_back, m)
      /\ UpLayout' /\ client_status' \in {0, 1, 8}
      /\ Tls => (client_status' = 0 => client_status = 0) /\ (client_status' = 8 <=> client_status = 8)
  BY <1>1, <1>2, <1>3, <1>4, EncodesAdds
<1>6. PICK more, held_back : Wrote(more, held_back, m)
  BY Zenon, <1>5
<1>7. /\ Solid(more) /\ Solid(held_back) /\ up' = up \o more /\ send_buffer' = send_buffer \o held_back
      /\ DataIn(more)[Len(more)] + DataIn(held_back)[Len(held_back)] = m
  BY Zenon, <1>6 DEF Wrote
<1>8. Solid(up) /\ Solid(send_buffer)
  BY Zenon, <1>1 DEF UpLayout
<1>9. /\ up \in Seq(UnitType) /\ send_buffer \in Seq(UnitType) /\ more \in Seq(UnitType) /\ held_back \in Seq(UnitType)
      /\ requests \in Seq(RequestSizes) /\ requests \in Seq(Pos) /\ Len(requests) \in Nat
  BY <1>1, <1>7, TypesAre DEF Solid
<1>10. /\ Len(requests') = Len(requests) + 1
       /\ Asked(Len(requests))' = Asked(Len(requests)) + m
  BY <1>2, <1>3, <1>4, <1>9, AskedGoes DEF m
<1>11. PluginsTypeOK'
  <2>1. /\ requests' \in Seq(RequestSizes) /\ Len(requests') <= MaxRequests /\ replies' \in 0..Len(requests')
    <3>1. replies \in 0..Len(requests) /\ MaxRequests \in Nat
      BY <1>1, LimitsAssumption DEF PluginsTypeOK
    <3>2. requests' \in Seq(RequestSizes)
      BY <1>2, <1>9
    <3> QED BY <1>2, <1>4, <1>9, <1>10, <3>1, <3>2
  <2>2. PICK now : now = up'
    OBVIOUS
  <2>3. /\ now \in Seq(UnitType) /\ Bytes(now) \in Nat /\ Bytes(now) >= Bytes(up)
        /\ Len(now) \in Nat /\ Len(now) >= Len(up) /\ Len(up) \in Nat
    BY <1>1, <1>7, <1>8, <2>2, UpStays
  <2>4. uread \in 0..Bytes(now) /\ server_taken \in 0..Len(now)
    <3>1. uread \in Nat /\ uread <= Bytes(up) /\ Bytes(up) \in Nat /\ server_taken \in 0..Len(up)
      BY <1>1, TypesAre
    <3> QED BY <2>3, <3>1
  <2>5. send_buffer' \in Seq(UnitType)
    BY <1>7, <1>9, ConcatProperties
  <2>6. /\ session \in Sessions /\ connection \in 1..LastConnection /\ framings \subseteq {"origin", "verify_simple"}
        /\ down \in Seq(UnitType) /\ dread \in 0..Bytes(down) /\ held \in 0..(IV + 1)
        /\ client_from \in 0..dread /\ server_status \in {0, 2, 3, 8} /\ sent \in {0, 1}
        /\ obfs_compatible_state \in {0, 1} /\ client_data \subseteq 1..LastConnection
        /\ dec \in Nat /\ c_dec \in Nat /\ got \in Nat /\ open \in BOOLEAN /\ torn \in BOOLEAN
    BY Zenon, <1>1 DEF PluginsTypeOK
  <2> QED BY Zenon, <1>4, <1>5, <2>1, <2>2, <2>3, <2>4, <2>5, <2>6 DEF PluginsTypeOK
<1>12. UpTotal'
  <2> DEFINE a == DataIn(up)[Len(up)]
             b == DataIn(send_buffer)[Len(send_buffer)]
             c == DataIn(more)[Len(more)]
             d == DataIn(held_back)[Len(held_back)]
             t == Asked(Len(requests))
  <2>1. DataIn(up')[Len(up')] = a + c /\ DataIn(send_buffer')[Len(send_buffer')] = b + d
    BY <1>7, <1>9, BytesConcat
  <2>2. a + b = t /\ c + d = m
    BY Zenon, <1>1, <1>7 DEF UpTotal
  <2>3. a \in Nat /\ b \in Nat /\ c \in Nat /\ d \in Nat
    BY <1>9, DataInside
  <2> HIDE DEF a, b, c, d
  <2>4. (a + c) + (b + d) = t + m
    BY <2>2, <2>3
  <2>5. requests' # <<>>
    BY <1>9, <1>10, EmptySeq
  <2> QED BY Zenon, <1>10, <2>1, <2>4, <2>5 DEF UpTotal, t
<1>13. ServerLayout'
  BY <1>1, <1>4, <1>7, <1>8, UpGrowsLayout
<1>14. Passes /\ ServerPhase /\ DownLayout /\ ClientPhase
  BY Zenon, <1>1, <1>2 DEF Intact
<1>15. Passes'
  <2>1. Calls
    BY <1>2, <1>3 DEF Calls
  <2> QED BY <1>1, <1>4, <1>7, <1>8, <1>14, <2>1, UpGrowsPasses
<1>16. ServerPhase'
  <2>1. Tls => (client_status' = 0 => server_status = 0) /\ (client_status' = 8 => server_status # 0)
    <3>1. Tls => (client_status = 0 => server_status = 0) /\ (client_status = 8 => server_status # 0)
      BY Zenon, <1>14 DEF ServerPhase
    <3> QED BY <1>5, <3>1
  <2> QED BY <1>1, <1>4, <1>7, <1>8, <1>14, <2>1, UpGrowsPhase
<1>17. DownLayout'
  BY <1>4, <1>14, DownLayoutStays
<1>18. ClientPhase'
  BY <1>4, <1>5, <1>14, ClientPhaseStays
<1> QED BY Zenon, <1>5, <1>11, <1>12, <1>13, <1>15, <1>16, <1>17, <1>18 DEF PluginsInv, Intact

-----------------------------------------------------------------------------
(* The remote answers.                                                     *)

\* Each part of the invariant stays while the variables it is about do.
LEMMA UpLayoutStays ==
  ASSUME UpLayout, session' = session, up' = up, send_buffer' = send_buffer, client_status' = client_status
  PROVE  UpLayout'
<1>1. Tls' = Tls /\ Http' = Http
  BY DEF Tls, Http
<1>2. /\ Solid(up) /\ Solid(send_buffer) /\ Recorded(send_buffer, 0)
      /\ client_status # 1 => send_buffer = <<>>
      /\ session.obfs = "none" => client_status = 0 /\ Plain(up, 0) /\ \A i \in 1..Len(up) : up[i].kind = "raw"
      /\ Http => client_status # 1 /\ (client_status = 0 => up = <<>>)
      /\ Http /\ client_status = 8 => Len(up) >= 1 /\ up[1].kind = "request" /\ Plain(up, up[1].head)
      /\ Tls /\ client_status = 0 => up = <<>>
      /\ Tls /\ client_status = 1 => Greets(up, HelloSize) /\ Len(up) = 1
      /\ Tls /\ client_status = 8 =>
           Greets(up, HelloSize) /\ Len(up) >= 2 /\ up[2] = Unit("finish", Finish, 0) /\ Recorded(up, 2)
  BY Zenon DEF UpLayout
<1> QED BY Zenon, <1>1, <1>2 DEF UpLayout

\* ... what the client has written or holds back,
LEMMA UpTotalStays ==
  ASSUME UpTotal, session' = session, up' = up, send_buffer' = send_buffer, requests' = requests
  PROVE  UpTotal'
<1>1. Asked(Len(requests))' = Asked(Len(requests))
  BY DEF Asked
<1> QED BY <1>1 DEF UpTotal

\* ... what the server has decrypted and handed on,
LEMMA PassesStays ==
  ASSUME Passes, session' = session, up' = up, requests' = requests, open' = open, dec' = dec, got' = got,
         uread' = uread, held' = held
  PROVE  Passes'
<1>1. Asked(1)' = Asked(1) /\ PayloadIn(dec - IV)' = PayloadIn(dec - IV) /\ \A n : Asked(n)' = Asked(n)
  BY DEF Asked, PayloadIn
<1>2. Speaks' = Speaks
  BY DEF Speaks
<1>3. /\ open /\ dec = Cipher(up, uread - held)
      /\ dec = 0 => got = 0
      /\ dec > 0 => /\ got = IF Speaks THEN PayloadIn(dec - IV) ELSE dec - IV
                    /\ dec >= Asked(1) /\ got > 0 /\ held = 0
      /\ Speaks /\ "protocol" \in session.compatible => \E n \in 0..Len(requests) : dec = Asked(n)
  BY Zenon DEF Passes
<1> QED BY Zenon, <1>1, <1>2, <1>3 DEF Passes

\* ... how far its obfs is.
LEMMA ServerPhaseStays ==
  ASSUME ServerPhase, session' = session, up' = up, dec' = dec, obfs_compatible_state' = obfs_compatible_state,
         server_status' = server_status, uread' = uread, held' = held, client_data' = client_data,
         server_taken' = server_taken,
         Tls => (client_status' = 0 => server_status = 0) /\ (client_status' = 8 => server_status # 0)
  PROVE  ServerPhase'
<1>1. Tls' = Tls /\ Http' = Http
  BY DEF Tls, Http
<1>2. /\ obfs_compatible_state = 1 => session.obfs = "none" /\ session.plugin # "plain"
      /\ session.plugin # "plain" /\ session.obfs = "none" =>
           /\ dec > 0 => obfs_compatible_state = 1
           /\ server_status = 8 => session.plugin = "http_simple"
           /\ obfs_compatible_state = 0 => server_status = 0
      /\ Http => /\ server_status \in {0, 8} /\ (server_status = 0 => uread = held)
                 /\ server_status = 8 => Len(up) >= 1 /\ uread - held >= up[1].head
      /\ Tls => /\ server_status \in {0, 3, 8}
                /\ server_status = 0 => uread = held /\ client_data = {}
                /\ server_status = 3 => uread - held = HelloSize
                /\ server_status = 8 => server_taken >= 2 /\ dec > 0 /\ DataIn(up)[server_taken] = dec
  BY Zenon DEF ServerPhase
<1> QED BY Zenon, <1>1, <1>2 DEF ServerPhase

\* What is handed on has been decrypted, from behind the hello.
LEMMA HandedOn ==
  ASSUME PluginsTypeOK, UpLayout, ServerLayout, Intact, got > 0
  PROVE  /\ dec > 0 /\ uread # held
         /\ session.obfs = "none" /\ session.plugin # "plain" => obfs_compatible_state = 1
         /\ session.obfs # "none" => obfs_compatible_state = 0
         /\ Tls => server_status = 8
<1>1. /\ dec \in Nat /\ uread \in Nat /\ held \in Nat /\ got \in Nat /\ obfs_compatible_state \in {0, 1}
      /\ client_status \in {0, 1, 8} /\ session \in Sessions /\ uread <= Bytes(up)
  BY TypesAre
<1>2. /\ dec = Cipher(up, uread - held) /\ (dec = 0 => got = 0)
      /\ Solid(up) /\ held <= uread
  BY Zenon DEF Intact, Passes, UpLayout, ServerLayout
<1>3. dec > 0
  BY <1>1, <1>2
<1>4. uread # held
  <2> SUFFICES ASSUME uread = held PROVE FALSE
    OBVIOUS
  <2>1. uread - held = 0
    BY <1>1
  <2>2. dec = 0
    BY <1>2, <2>1, CipherZero
  <2> QED BY <1>3, <2>2
<1>5. session.obfs = "none" /\ session.plugin # "plain" => obfs_compatible_state = 1
  BY Zenon, <1>3 DEF Intact, ServerPhase
<1>6. session.obfs # "none" => obfs_compatible_state = 0
  <2>1. obfs_compatible_state = 1 => session.obfs = "none"
    BY Zenon DEF Intact, ServerPhase
  <2> QED BY <1>1, <2>1
<1>7. Tls => server_status = 8
  <2> SUFFICES ASSUME Tls PROVE server_status = 8
    OBVIOUS
  <2>1. /\ server_status \in {0, 3, 8}
        /\ server_status = 0 => uread = held
        /\ server_status = 3 => uread - held = HelloSize
        /\ client_status = 0 => server_status = 0
    BY Zenon DEF Intact, ServerPhase
  <2>2. server_status # 0 /\ client_status # 0
    BY <1>4, <2>1
  <2>3. Greets(up, HelloSize)
    BY <1>1, <2>2 DEF UpLayout
  <2>4. server_status # 3
    <3> SUFFICES ASSUME server_status = 3 PROVE FALSE
      OBVIOUS
    <3>1. HelloSize \in Nat
      BY SizesAre
    <3>2. HelloSize <= HelloSize
      BY <3>1
    <3>3. Cipher(up, HelloSize) = 0
      BY <1>2, <2>3, <3>1, <3>2, HelloFirst
    <3>4. uread - held = HelloSize
      BY <2>1
    <3> QED BY <1>2, <1>3, <3>3, <3>4
  <2> QED BY <2>1, <2>2, <2>4
<1> QED BY <1>3, <1>4, <1>5, <1>6, <1>7

\* What is already asked for is something.
LEMMA SomeAsked ==
  ASSUME NEW calls \in Seq(Pos), NEW k \in 1..Len(calls)
  PROVE  Sum(SubSeq(calls, 1, k)) \in Nat /\ Sum(SubSeq(calls, 1, k)) > 0
<1>1. Len(calls) \in Nat
  BY LenProperties
<1>2. 0 \in 0..Len(calls) /\ k \in 0..Len(calls) /\ 0 < k
  BY <1>1
<1>3. Spoke(calls, "origin", 0) = 0 /\ Spoke(calls, "origin", 0) < Spoke(calls, "origin", k) /\ Spoke(calls, "origin", k) \in Nat
  BY <1>2, SpokenSteps, SpokenGrows
<1>4. Spoke(calls, "origin", k) = Sum(SubSeq(calls, 1, k))
  BY DEF Spoke, Spoken
<1> QED BY Zenon, <1>3, <1>4

\* An answer looks like the client's obfs.
LEMMA AnswerLooks ==
  ASSUME PluginsTypeOK, UpLayout, ServerLayout, Intact, got > 0, NEW m \in Pos, NEW units \in ServerEncodes(m),
         NEW now, now = down \o units
  PROVE  /\ units \in Seq(UnitType) /\ Solid(units) /\ now # <<>>
         /\ session.obfs = "none" => \A i \in 1..Len(now) : now[i].kind = "raw" /\ now[i].head = 0
         /\ Http => \A i \in 1..Len(now) : IF i = 1 THEN now[i].kind = "response" /\ now[i].head = ResponseHead
                                           ELSE now[i].kind = "raw" /\ now[i].head = 0
         /\ Tls => Greets(now, ServerHello) /\ Recorded(now, 1) /\ Len(now) >= 1
<1>1. /\ session \in Sessions /\ down \in Seq(UnitType) /\ obfs_compatible_state \in {0, 1} /\ sent \in {0, 1}
      /\ m \in Nat /\ m > 0
  BY TypesAre DEF Pos
<1>2. /\ session.obfs = "none" /\ session.plugin # "plain" => obfs_compatible_state = 1
      /\ session.obfs # "none" => obfs_compatible_state = 0
      /\ Tls => server_status = 8
  BY HandedOn
<1>3. /\ \/ session.obfs = "none" /\ ~Http /\ ~Tls
         \/ session.obfs # "none" /\ Http /\ ~Tls /\ session.plugin = "http_simple"
         \/ session.obfs # "none" /\ ~Http /\ Tls /\ session.plugin = "tls1.2_ticket_auth"
  BY <1>1, SessionIs
<1>4. /\ session.obfs = "none" => \A i \in 1..Len(down) : down[i].kind = "raw" /\ down[i].head = 0
      /\ Http => /\ \A i \in 1..Len(down) : IF i = 1 THEN down[i].kind = "response" /\ down[i].head = ResponseHead
                                            ELSE down[i].kind = "raw" /\ down[i].head = 0
                 /\ sent = 0 <=> down = <<>>
      /\ Tls => /\ down = <<>> \/ Greets(down, ServerHello)
                /\ Recorded(down, 1)
                /\ server_status = 8 => Len(down) >= 1
  BY Zenon DEF Intact, DownLayout
<1>5. 0 + m > 0 /\ ResponseHead + m > 0 /\ 0 \in Nat /\ ResponseHead \in Nat
  BY <1>1, SizesAre
<1> DEFINE raw == <<Unit("raw", 0, m)>>
           res == <<Unit("response", ResponseHead, m)>>
<1>6. /\ raw \in Seq(UnitType) /\ Solid(raw) /\ Len(raw) = 1 /\ raw[1].kind = "raw" /\ raw[1].head = 0
      /\ res \in Seq(UnitType) /\ Solid(res) /\ Len(res) = 1 /\ res[1].kind = "response" /\ res[1].head = ResponseHead
  BY <1>1, <1>5, OneUnit, UnitIs DEF UnitKinds
<1>7. /\ session.obfs = "none" => units = raw
      /\ Http => units = IF sent = 1 THEN raw ELSE res
      /\ Tls => units \in Pieces(m)
  BY <1>2, <1>3 DEF ServerEncodes, http_simple_server_encode, tls12_ticket_auth_server_encode
<1> HIDE DEF raw, res
<1>8. units \in Seq(UnitType) /\ Solid(units)
  BY <1>1, <1>3, <1>6, <1>7, PiecesAre
<1>9. /\ Len(now) = Len(down) + Len(units) /\ Len(down) \in Nat /\ Len(units) \in Nat
      /\ \A i \in 1..Len(down) : now[i] = down[i]
      /\ \A i \in 1..Len(units) : now[Len(down) + i] = units[i]
  BY <1>1, <1>8, UnitsStay, LenProperties
<1>10. CASE session.obfs = "none"
  <2>1. units = raw
    BY <1>7, <1>10
  <2>2. ASSUME NEW i \in 1..Len(now) PROVE now[i].kind = "raw" /\ now[i].head = 0
    <3>1. CASE i <= Len(down)
      <4>1. i \in 1..Len(down)
        BY <1>9, <3>1
      <4> QED BY <1>4, <1>9, <1>10, <4>1
    <3>2. CASE ~(i <= Len(down))
      <4>1. i = Len(down) + 1 /\ 1 \in 1..Len(units)
        <5>1. Len(units) = 1 /\ Len(now) = Len(down) + Len(units) /\ Len(down) \in Nat
          BY Zenon, <1>6, <1>9, <2>1
        <5>2. Len(now) = Len(down) + 1
          BY Zenon, <5>1
        <5>3. i = Len(down) + 1
          BY <3>2, <5>1, <5>2
        <5> QED BY <5>1, <5>3
      <4>2. now[i] = raw[1]
        BY <1>9, <2>1, <4>1
      <4> QED BY <1>6, <4>2
    <3> QED BY <3>1, <3>2
  <2>3. now # <<>>
    <3>1. Len(now) # 0
      BY <1>6, <1>9, <2>1
    <3> QED BY <3>1
  <2> QED BY <1>3, <1>8, <1>10, <2>2, <2>3
<1>11. CASE Http
  <2>1. Len(units) = 1
    BY <1>6, <1>7, <1>11
  <2>2. ASSUME NEW i \in 1..Len(now)
        PROVE  IF i = 1 THEN now[i].kind = "response" /\ now[i].head = ResponseHead
               ELSE now[i].kind = "raw" /\ now[i].head = 0
    <3>1. CASE i <= Len(down)
      <4>1. i \in 1..Len(down)
        BY <1>9, <3>1
      <4> QED BY <1>4, <1>9, <1>11, <4>1
    <3>2. CASE ~(i <= Len(down))
      <4>1. i = Len(down) + 1 /\ 1 \in 1..Len(units)
        BY <1>9, <2>1, <3>2
      <4>2. now[i] = units[1]
        BY <1>9, <4>1
      <4>3. CASE sent = 1
        <5>1. Len(down) # 0
          BY <1>4, <1>11, <4>3, EmptySeq, <1>1
        <5>2. i # 1 /\ units = raw
          BY <1>7, <1>9, <1>11, <4>1, <4>3, <5>1
        <5> QED BY <1>6, <4>2, <5>2
      <4>4. CASE sent # 1
        <5>1. sent = 0 /\ down = <<>>
          BY <1>1, <1>4, <1>11, <4>4
        <5>2. Len(down) = 0
          BY <5>1
        <5>3. i = 1 /\ units = res
          BY <1>7, <1>11, <4>1, <4>4, <5>2
        <5> QED BY <1>6, <4>2, <5>3
      <4> QED BY <4>3, <4>4
    <3> QED BY <3>1, <3>2
  <2>3. now # <<>>
    <3>1. Len(now) # 0
      BY <1>9, <2>1
    <3> QED BY <3>1
  <2> QED BY <1>3, <1>8, <1>11, <2>2, <2>3
<1>12. CASE Tls
  <2>1. units \in Pieces(m) /\ Len(down) >= 1 /\ Recorded(down, 1)
    BY <1>2, <1>4, <1>7, <1>12
  <2>2. Greets(down, ServerHello)
    <3>1. down # <<>>
      BY <1>9, <2>1
    <3> QED BY <1>4, <1>12, <3>1
  <2>3. Recorded(now, 1)
    <3>1. Recorded(units, 0)
      BY <1>1, <2>1, PiecesAre
    <3>2. 1 \in Nat
      OBVIOUS
    <3> QED BY <1>1, <1>8, <2>1, <3>1, <3>2, RecordedConcat
  <2>4. Len(now) >= 1 /\ now[1] = down[1]
    <3>1. 1 \in 1..Len(down)
      BY <1>9, <2>1
    <3> QED BY <1>9, <2>1, <3>1
  <2>5. Greets(now, ServerHello) /\ now # <<>>
    <3>1. Len(now) # 0
      BY <1>9, <2>4
    <3> QED BY <2>2, <2>4, <3>1 DEF Greets
  <2> QED BY <1>3, <1>8, <1>12, <2>3, <2>4, <2>5
<1> QED BY <1>3, <1>10, <1>11, <1>12

\* More is written to the client: what it has read stays what it is.
LEMMA DownGrows ==
  ASSUME PluginsTypeOK, Solid(down), NEW more, Solid(more), NEW now, now = down \o more
  PROVE  /\ Solid(now) /\ now \in Seq(UnitType) /\ Bytes(now) \in Nat /\ dread <= Bytes(now)
         /\ \A pos \in Nat : pos <= dread =>
              /\ Cipher(now, pos) = Cipher(down, pos) /\ Whole(now, pos) = Whole(down, pos)
              /\ EndsOf(now)[Whole(now, pos)] = EndsOf(down)[Whole(down, pos)]
              /\ DataIn(now)[Whole(now, pos)] = DataIn(down)[Whole(down, pos)]
<1>1. down \in Seq(UnitType) /\ more \in Seq(UnitType)
  BY DEF Solid
<1>2. Solid(now) /\ now \in Seq(UnitType)
  BY SolidConcat DEF Solid
<1>3. Bytes(now) = Bytes(down) + Bytes(more)
  BY <1>1, BytesConcat
<1>4. Bytes(down) \in Nat /\ Bytes(more) \in Nat /\ Bytes(now) \in Nat
  BY <1>1, <1>2, DataInside
<1>5. \A k \in 0..Len(down) : EndsOf(now)[k] = EndsOf(down)[k] /\ DataIn(now)[k] = DataIn(down)[k]
  BY <1>1, UnitsStay
<1>6. dread \in Nat /\ dread <= Bytes(down)
  BY TypesAre
<1>7. ASSUME NEW pos \in Nat, pos <= dread
      PROVE  /\ Cipher(now, pos) = Cipher(down, pos) /\ Whole(now, pos) = Whole(down, pos)
             /\ EndsOf(now)[Whole(now, pos)] = EndsOf(down)[Whole(down, pos)]
             /\ DataIn(now)[Whole(now, pos)] = DataIn(down)[Whole(down, pos)]
  <2>1. pos <= Bytes(down)
    BY <1>4, <1>6, <1>7
  <2>2. Cipher(now, pos) = Cipher(down, pos) /\ Whole(now, pos) = Whole(down, pos)
    BY <2>1, CipherStays, WholeStays
  <2>3. Whole(down, pos) \in 0..Len(down)
    BY <1>1, WholeHas
  <2> QED BY <1>5, <2>2, <2>3
<1>8. dread <= Bytes(now)
  BY <1>3, <1>4, <1>6
<1> QED BY <1>2, <1>4, <1>7, <1>8

\* remote_recv_cb with server_pre_encrypt, ss_encrypt and server_encode keeps the invariant.
LEMMA RemoteRepliesKeeps ==
  ASSUME PluginsInv, NEW n \in ReplySizes, RemoteReplies(n)
  PROVE  PluginsInv'
<1> DEFINE framing == IF obfs_compatible_state = 0 THEN session.protocol ELSE "origin"
           m == (IF replies = 0 THEN IV ELSE 0) + Spoken(<<n>>, framing)
<1>1. /\ PluginsTypeOK /\ UpLayout /\ UpTotal /\ ServerLayout /\ (~torn => Intact)
  BY Zenon DEF PluginsInv
<1>2. /\ open /\ ~torn /\ replies < Len(requests) /\ got >= Sum(SubSeq(requests, 1, replies + 1))
      /\ \E units \in ServerEncodes(m) : down' = down \o units
      /\ sent' = 1
      /\ replies' = replies + 1 /\ framings' = framings \cup {framing}
      /\ UNCHANGED <<session, connection, requests, up, uread, dread, client, server_status, server_taken,
                     held, obfs_compatible_state, client_data, dec, c_dec, got, open, torn>>
  BY Zenon DEF RemoteReplies
<1>3. /\ session' = session /\ connection' = connection /\ requests' = requests /\ up' = up
      /\ uread' = uread /\ dread' = dread
      /\ client_status' = client_status /\ send_buffer' = send_buffer /\ client_from' = client_from
      /\ server_status' = server_status /\ server_taken' = server_taken
      /\ held' = held /\ obfs_compatible_state' = obfs_compatible_state /\ client_data' = client_data
      /\ dec' = dec /\ c_dec' = c_dec /\ got' = got /\ open' = open /\ torn' = torn
  BY <1>2 DEF client
<1>4. m \in Pos
  <2>1. n \in Pos /\ IV = 16
    BY SizesAre
  <2>2. Spoken(<<n>>, framing) \in Pos
    BY <2>1, SpokenOne
  <2> HIDE DEF framing
  <2> QED BY <2>1, <2>2 DEF Pos
<1> HIDE DEF m
<1>5. Intact /\ Passes /\ ServerPhase /\ DownLayout /\ ClientPhase
  BY Zenon, <1>1, <1>2 DEF Intact
<1>6. replies + 1 \in 1..Len(requests) /\ replies \in Nat /\ Len(requests) \in Nat /\ requests \in Seq(Pos)
  <2>1. replies \in 0..Len(requests)
    BY Zenon, <1>1 DEF PluginsTypeOK
  <2>2. requests \in Seq(Pos) /\ Len(requests) \in Nat
    BY <1>1, TypesAre
  <2> QED BY <1>2, <2>1, <2>2
<1>7. got > 0
  <2>1. Sum(SubSeq(requests, 1, replies + 1)) \in Nat /\ Sum(SubSeq(requests, 1, replies + 1)) > 0
    BY <1>6, SomeAsked
  <2>2. got \in Nat
    BY <1>1, TypesAre
  <2> QED BY <1>2, <2>1, <2>2
<1>8. PICK units \in ServerEncodes(m) : down' = down \o units
  BY <1>2
<1>9. PICK now : now = down'
  OBVIOUS
<1>10. /\ units \in Seq(UnitType) /\ Solid(units) /\ now # <<>>
       /\ session.obfs = "none" => \A i \in 1..Len(now) : now[i].kind = "raw" /\ now[i].head = 0
       /\ Http => \A i \in 1..Len(now) : IF i = 1 THEN now[i].kind = "response" /\ now[i].head = ResponseHead
                                         ELSE now[i].kind = "raw" /\ now[i].head = 0
       /\ Tls => Greets(now, ServerHello) /\ Recorded(now, 1) /\ Len(now) >= 1
  BY ZenonT(30), <1>1, <1>4, <1>5, <1>7, <1>8, <1>9, AnswerLooks
<1>11. Solid(down)
  BY Zenon, <1>1 DEF ServerLayout
<1>12. /\ Solid(now) /\ now \in Seq(UnitType) /\ Bytes(now) \in Nat /\ dread <= Bytes(now)
       /\ \A pos \in Nat : pos <= dread =>
              /\ Cipher(now, pos) = Cipher(down, pos) /\ Whole(now, pos) = Whole(down, pos)
              /\ EndsOf(now)[Whole(now, pos)] = EndsOf(down)[Whole(down, pos)]
              /\ DataIn(now)[Whole(now, pos)] = DataIn(down)[Whole(down, pos)]
  <2>1. now = down \o units /\ Solid(units) /\ Solid(down) /\ PluginsTypeOK
    BY Zenon, <1>1, <1>8, <1>9, <1>10, <1>11
  <2> QED BY <2>1, DownGrows
<1>13. dec > 0 /\ uread # held /\ (session.obfs = "none" /\ session.plugin # "plain" => obfs_compatible_state = 1)
       /\ (Tls => server_status = 8)
  BY <1>1, <1>5, <1>7, HandedOn
<1>14. session \in Sessions /\ dread \in Nat /\ client_from \in Nat /\ client_from <= dread /\ obfs_compatible_state \in {0, 1}
  BY <1>1, TypesAre
<1>15. /\ session.protocol \in {"origin", "verify_simple"} /\ session.speaks \in {"origin", "verify_simple"}
       /\ session.protocol = "origin" => session.speaks = "origin"
       /\ ~(Tls /\ Http) /\ ~(Tls /\ session.obfs = "none") /\ ~(Http /\ session.obfs = "none")
  BY <1>14, SessionIs
<1>16. Tls' = Tls /\ Http' = Http /\ Speaks' = Speaks /\ BothOrNeither' = BothOrNeither
  BY <1>3 DEF Tls, Http, Speaks, BothOrNeither
<1>17. PluginsTypeOK'
  <2>1. dread \in 0..Bytes(now) /\ replies' \in 0..Len(requests)
    BY <1>2, <1>6, <1>12, <1>14
  <2>2. framings' \subseteq {"origin", "verify_simple"}
    <3>1. framings \subseteq {"origin", "verify_simple"}
      BY Zenon, <1>1 DEF PluginsTypeOK
    <3> QED BY <1>2, <1>15, <3>1
  <2>3. /\ session \in Sessions /\ connection \in 1..LastConnection
        /\ requests \in Seq(RequestSizes) /\ Len(requests) <= MaxRequests
        /\ up \in Seq(UnitType) /\ send_buffer \in Seq(UnitType) /\ uread \in 0..Bytes(up)
        /\ held \in 0..(IV + 1) /\ client_status \in {0, 1, 8}
        /\ client_from \in 0..dread /\ server_status \in {0, 2, 3, 8} /\ server_taken \in 0..Len(up)
        /\ obfs_compatible_state \in {0, 1} /\ client_data \subseteq 1..LastConnection
        /\ dec \in Nat /\ c_dec \in Nat /\ got \in Nat /\ open \in BOOLEAN /\ torn \in BOOLEAN
    BY Zenon, <1>1 DEF PluginsTypeOK
  <2>4. sent' \in {0, 1}
    BY <1>2
  <2> QED BY Zenon, <1>3, <1>9, <1>12, <2>1, <2>2, <2>3, <2>4 DEF PluginsTypeOK
<1>18. UpLayout' /\ UpTotal' /\ Passes' /\ ServerPhase'
  <2>1. Tls => (client_status' = 0 => server_status = 0) /\ (client_status' = 8 => server_status # 0)
    BY Zenon, <1>3, <1>5 DEF ServerPhase
  <2>2. UpLayout'
    BY <1>1, <1>3, UpLayoutStays
  <2>3. UpTotal'
    BY <1>1, <1>3, UpTotalStays
  <2>4. Passes'
    BY <1>3, <1>5, PassesStays
  <2>5. ServerPhase'
    BY <1>3, <1>5, <2>1, ServerPhaseStays
  <2> QED BY <2>2, <2>3, <2>4, <2>5
<1>19. ServerLayout'
  <2>1. /\ held <= uread /\ (dec = 0 \/ dec >= IV)
        /\ server_status = 3 => Tls /\ uread - held >= HelloSize
        /\ session.plugin = "tls1.2_ticket_auth" /\ server_status = 8 => EndsOf(up)[server_taken] <= uread
    BY Zenon, <1>1 DEF ServerLayout
  <2> QED BY Zenon, <1>3, <1>9, <1>12, <1>13, <1>16, <2>1 DEF ServerLayout
<1>20. DownLayout'
  <2>1. BothOrNeither => framings' \subseteq {session.speaks}
    <3> SUFFICES ASSUME BothOrNeither PROVE framings' \subseteq {session.speaks}
      OBVIOUS
    <3>1. framings \subseteq {session.speaks}
      BY Zenon, <1>5 DEF DownLayout
    <3>2. session.protocol = "verify_simple" => (Speaks <=> session.obfs # "none" \/ session.plugin = "plain")
      BY Zenon DEF BothOrNeither
    <3>3. obfs_compatible_state = 1 => session.obfs = "none" /\ session.plugin # "plain"
      BY Zenon, <1>5 DEF ServerPhase
    <3>4. framing = session.speaks
      BY <1>13, <1>14, <1>15, <3>2, <3>3 DEF Speaks
    <3> QED BY <1>2, <3>1, <3>4
  <2>2. server_status # 3 \/ ~Tls
    BY <1>13
  <2>3. down' # <<>> /\ sent' # 0
    BY <1>2, <1>9, <1>10
  <2> QED BY Zenon, <1>3, <1>9, <1>10, <1>16, <2>1, <2>2, <2>3 DEF DownLayout
<1>21. ClientPhase'
  <2>1. /\ c_dec = Cipher(down, dread)
        /\ Http => /\ client_from = 0 => dread <= ResponseHead - 4
                   /\ client_from > 0 => dread >= ResponseHead
        /\ Tls => /\ client_status # 8 => dread = 0
                  /\ client_status = 8 => client_from >= ServerHello /\ DataIn(down)[Whole(down, client_from)] = c_dec
                                          /\ EndsOf(down)[Whole(down, client_from)] = client_from
    BY Zenon, <1>5 DEF ClientPhase
  <2>2. dread <= dread
    BY <1>14
  <2>3. /\ Cipher(now, dread) = Cipher(down, dread)
        /\ EndsOf(now)[Whole(now, client_from)] = EndsOf(down)[Whole(down, client_from)]
        /\ DataIn(now)[Whole(now, client_from)] = DataIn(down)[Whole(down, client_from)]
    BY <1>12, <1>14, <2>2
  <2> QED BY Zenon, <1>3, <1>9, <1>16, <2>1, <2>3 DEF ClientPhase
<1> QED BY Zenon, <1>17, <1>18, <1>19, <1>20, <1>21 DEF PluginsInv, Intact

-----------------------------------------------------------------------------
(* The client reads.                                                       *)

\* A read ends behind the last, and within what is there.
LEMMA CutsAre ==
  ASSUME NEW w \in Seq(UnitType), NEW at \in Nat, NEW to \in CutsOf(w, at)
  PROVE  to \in Nat /\ to > at /\ to <= Bytes(w) /\ to <= at + BUF_SIZE
<1>1. /\ to \in {EndsOf(w)[k] + d : k \in 0..Len(w), d \in CutDistances} \cup {at + BUF_SIZE, Bytes(w)}
      /\ to > at /\ to <= Bytes(w) /\ to <= at + BUF_SIZE
  BY DEF CutsOf
<1>2. Bytes(w) \in Nat /\ at + BUF_SIZE \in Nat
  BY DataInside, SizesAre
<1>3. CASE to \in {EndsOf(w)[k] + d : k \in 0..Len(w), d \in CutDistances}
  <2>1. PICK k \in 0..Len(w), d \in CutDistances : to = EndsOf(w)[k] + d
    BY <1>3
  <2>2. EndsOf(w)[k] \in Nat /\ d \in Int
    BY UnitSums, LimitsAssumption
  <2>3. to \in Int
    BY <2>1, <2>2
  <2> QED BY <1>1, <2>3
<1>4. CASE to \in {at + BUF_SIZE, Bytes(w)}
  <2>1. to \in Nat
    BY <1>2, <1>4
  <2> QED BY <1>1, <2>1
<1> QED BY <1>1, <1>3, <1>4

\* Where a unit ends, it is the last that is whole.
LEMMA WholeAtEnd ==
  ASSUME NEW w, Solid(w), NEW k \in 0..Len(w)
  PROVE  EndsOf(w)[k] \in Nat /\ Whole(w, EndsOf(w)[k]) = k
<1>1. w \in Seq(UnitType) /\ Len(w) \in Nat /\ k \in Nat
  BY LenProperties DEF Solid
<1>2. EndsOf(w)[k] \in Nat
  BY <1>1, UnitSums
<1>3. k = Len(w) \/ EndsOf(w)[k] < EndsOf(w)[k + 1]
  <2>1. CASE k # Len(w)
    <3>1. k + 1 \in 0..Len(w) /\ k < k + 1
      BY <1>1, <2>1
    <3> QED BY <1>1, <3>1, UnitsGrow
  <2> QED BY <2>1
<1>4. EndsOf(w)[k] <= EndsOf(w)[k]
  BY <1>2
<1> QED BY <1>2, <1>3, <1>4, WholeIs

\* The places the server has come to stay while nothing moves.
LEMMA ServerLayoutStays ==
  ASSUME ServerLayout, session' = session, up' = up, down' = down, uread' = uread, held' = held, dec' = dec,
         server_status' = server_status, server_taken' = server_taken
  PROVE  ServerLayout'
<1>1. Tls' = Tls
  BY DEF Tls
<1>2. /\ held <= uread /\ (dec = 0 \/ dec >= IV)
      /\ uread = held => down = <<>> /\ server_status = 0
      /\ server_status = 3 => Tls /\ uread - held >= HelloSize
      /\ session.plugin = "tls1.2_ticket_auth" /\ server_status = 8 => EndsOf(up)[server_taken] <= uread
      /\ Solid(down)
  BY Zenon DEF ServerLayout
<1> QED BY Zenon, <1>1, <1>2 DEF ServerLayout

\* What the client's reading leaves alone.
ClientOnly ==
  UNCHANGED <<session, connection, requests, replies, framings, down, uread, server, held,
              obfs_compatible_state, client_data, dec, got>>

\* A read that writes nothing.
LEMMA ReadsOnly ==
  ASSUME PluginsInv, ClientOnly, UNCHANGED <<up, client_status, send_buffer>>,
         dread' \in 0..Bytes(down), client_from' \in 0..dread', c_dec' \in Nat, open' \in BOOLEAN, torn' \in BOOLEAN,
         ~torn' => ~torn /\ open' = open /\ ClientPhase'
  PROVE  PluginsInv'
<1>1. /\ PluginsTypeOK /\ UpLayout /\ UpTotal /\ ServerLayout /\ (~torn => Intact)
  BY Zenon DEF PluginsInv
<1>2. /\ session' = session /\ connection' = connection /\ requests' = requests /\ replies' = replies
      /\ framings' = framings /\ up' = up /\ down' = down /\ uread' = uread
      /\ client_status' = client_status /\ send_buffer' = send_buffer
      /\ server_status' = server_status /\ sent' = sent /\ server_taken' = server_taken
      /\ held' = held /\ obfs_compatible_state' = obfs_compatible_state /\ client_data' = client_data
      /\ dec' = dec /\ got' = got
  BY DEF ClientOnly, server
<1>3. PluginsTypeOK'
  <2>1. /\ session \in Sessions /\ connection \in 1..LastConnection
        /\ requests \in Seq(RequestSizes) /\ Len(requests) <= MaxRequests /\ replies \in 0..Len(requests)
        /\ framings \subseteq {"origin", "verify_simple"}
        /\ up \in Seq(UnitType) /\ down \in Seq(UnitType) /\ send_buffer \in Seq(UnitType) /\ uread \in 0..Bytes(up)
        /\ held \in 0..(IV + 1) /\ client_status \in {0, 1, 8}
        /\ server_status \in {0, 2, 3, 8} /\ sent \in {0, 1} /\ server_taken \in 0..Len(up)
        /\ obfs_compatible_state \in {0, 1} /\ client_data \subseteq 1..LastConnection
        /\ dec \in Nat /\ got \in Nat
    BY Zenon, <1>1 DEF PluginsTypeOK
  <2> QED BY Zenon, <1>2, <2>1 DEF PluginsTypeOK
<1>4. UpLayout' /\ UpTotal' /\ ServerLayout'
  BY <1>1, <1>2, UpLayoutStays, UpTotalStays, ServerLayoutStays
<1>5. ASSUME ~torn' PROVE Intact'
  <2>1. Passes /\ ServerPhase /\ DownLayout /\ open' = open /\ ClientPhase'
    BY Zenon, <1>1, <1>5 DEF Intact
  <2>2. Passes'
    BY <1>2, <2>1, PassesStays
  <2>3. ServerPhase'
    <3>1. Tls => (client_status' = 0 => server_status = 0) /\ (client_status' = 8 => server_status # 0)
      BY Zenon, <1>2, <2>1 DEF ServerPhase
    <3> QED BY <1>2, <2>1, <3>1, ServerPhaseStays
  <2>4. DownLayout'
    BY <1>2, <2>1, DownLayoutStays
  <2> QED BY Zenon, <2>1, <2>2, <2>3, <2>4 DEF Intact
<1> QED BY Zenon, <1>3, <1>4, <1>5 DEF PluginsInv

\* The records that are whole.
LEMMA TakesRecordsKeeps ==
  ASSUME PluginsInv, NEW to \in CutsOf(down, dread), ClientTakesRecords(to), dread' = to, ClientOnly
  PROVE  PluginsInv'
<1> DEFINE had == Whole(down, client_from)
           k == WholeRecords(down, had, to - client_from)
<1>1. /\ Tls /\ client_status = 8
      /\ IF client_from < ServerHello
           THEN open' = (to - client_from <= 5) /\ UNCHANGED <<client, c_dec>>
           ELSE /\ c_dec' = c_dec + DataIn(down)[had + k] - DataIn(down)[had]
                /\ client_from' = EndsOf(down)[had + k]
                /\ UNCHANGED <<client_status, send_buffer, open>>
      /\ UNCHANGED <<up, torn>>
  BY Zenon DEF ClientTakesRecords
<1>2. /\ down \in Seq(UnitType) /\ Bytes(down) \in Nat /\ dread \in Nat /\ dread <= Bytes(down)
      /\ client_from \in Nat /\ client_from <= dread /\ c_dec \in Nat /\ open \in BOOLEAN /\ torn \in BOOLEAN
      /\ session \in Sessions
  BY TypesAre DEF PluginsInv
<1>3. to \in Nat /\ to > dread /\ to <= Bytes(down)
  BY <1>2, CutsAre
<1>4. Solid(down) /\ (~torn => Intact)
  BY Zenon DEF PluginsInv, ServerLayout
<1>5. dread' \in 0..Bytes(down)
  BY <1>2, <1>3
<1>6. ~torn => /\ client_from >= ServerHello /\ DataIn(down)[had] = c_dec /\ EndsOf(down)[had] = client_from
               /\ Recorded(down, 1)
  BY Zenon, <1>1, <1>4 DEF Intact, ClientPhase, DownLayout
<1>7. ServerHello = 129
  BY SizesAre
<1>8. CASE client_from < ServerHello
  <2>1. open' = (to - client_from <= 5) /\ client_status' = client_status /\ send_buffer' = send_buffer
        /\ client_from' = client_from /\ c_dec' = c_dec /\ up' = up /\ torn' = torn
    BY <1>1, <1>8 DEF client
  <2>2. open' \in BOOLEAN /\ client_from' \in 0..dread'
    BY <1>2, <1>3, <2>1
  <2>3. torn
    BY <1>2, <1>6, <1>7, <1>8
  <2> QED BY <1>2, <1>5, <2>1, <2>2, <2>3, ReadsOnly
<1>9. CASE ~(client_from < ServerHello)
  <2>1. /\ c_dec' = c_dec + DataIn(down)[had + k] - DataIn(down)[had]
        /\ client_from' = EndsOf(down)[had + k]
        /\ client_status' = client_status /\ send_buffer' = send_buffer /\ open' = open /\ up' = up /\ torn' = torn
    BY Zenon, <1>1, <1>9
  <2>2. had \in 0..Len(down) /\ EndsOf(down)[had] <= client_from /\ Len(down) \in Nat /\ EndsOf(down)[had] \in Nat
    BY <1>2, WholeHas, UnitSums
  <2> DEFINE size == to - client_from
             end == EndsOf(down)[had] + size
  <2>3. size \in Nat /\ end \in Nat /\ end <= to /\ end <= Bytes(down)
    BY <1>2, <1>3, <2>2
  <2>4. end = EndsOf(down)[had] + size
    OBVIOUS
  <2>5. k = WholeRecords(down, had, size)
    OBVIOUS
  <2> HIDE DEF had, k, size, end
  <2>6. k \in 0..(Len(down) - had) /\ had + k \in 0..Len(down) /\ EndsOf(down)[had + k] <= end
    BY <1>2, <2>2, <2>3, <2>4, <2>5, RecordsTaken
  <2>7. had <= had + k /\ had + k \in 0..Len(down)
    BY <2>2, <2>6
  <2>8. /\ EndsOf(down)[had] <= EndsOf(down)[had + k] /\ DataIn(down)[had] <= DataIn(down)[had + k]
        /\ EndsOf(down)[had + k] \in Nat /\ DataIn(down)[had + k] \in Nat /\ DataIn(down)[had] \in Nat
    BY <1>2, <2>2, <2>7, UnitsGrow, UnitSums
  <2>9. c_dec' \in Nat /\ client_from' \in 0..dread'
    <3> DEFINE a == DataIn(down)[had]
               b == DataIn(down)[had + k]
               e == EndsOf(down)[had + k]
    <3>1. a \in Nat /\ b \in Nat /\ a <= b /\ e \in Nat /\ e <= end /\ c_dec' = c_dec + b - a /\ client_from' = e
      BY <2>1, <2>6, <2>8
    <3> HIDE DEF a, b, e
    <3>2. c_dec' \in Nat
      BY <1>2, <3>1
    <3>3. client_from' \in 0..dread'
      BY <1>3, <2>3, <3>1
    <3> QED BY <3>2, <3>3
  <2>10. ASSUME ~torn PROVE ClientPhase'
    <3>1. client_from >= ServerHello /\ DataIn(down)[had] = c_dec /\ EndsOf(down)[had] = client_from /\ Recorded(down, 1)
      BY Zenon, <1>6, <2>10 DEF had
    <3>2. had >= 1
      <4>1. EndsOf(down)[0] = 0
        BY <1>2, UnitSums
      <4>2. had # 0
        <5> SUFFICES ASSUME had = 0 PROVE FALSE
          OBVIOUS
        <5>1. EndsOf(down)[had] = 0
          BY <4>1
        <5> QED BY <1>2, <1>7, <3>1, <5>1
      <4> QED BY <2>2, <4>2
    <3>3. Recorded(down, had)
      <4> SUFFICES ASSUME NEW i \in 1..Len(down), i > had PROVE down[i].kind = "record" /\ down[i].head = 5
        BY DEF Recorded
      <4>1. i > 1
        BY <2>2, <3>2
      <4> QED BY <3>1, <4>1 DEF Recorded
    <3>4. end = to
      <4>1. EndsOf(down)[had] + size = to
        BY <1>2, <1>3, <3>1 DEF size
      <4> QED BY <2>4, <4>1
    <3>5. DataIn(down)[had + k] = Cipher(down, to)
      BY <1>2, <1>3, <1>4, <2>2, <2>3, <2>4, <2>5, <3>3, <3>4, RecordsCipher
    <3>6. c_dec' = Cipher(down, to)
      <4> DEFINE b == DataIn(down)[had + k]
      <4>1. b \in Nat /\ c_dec' = c_dec + b - c_dec
        BY <2>1, <2>8, <3>1
      <4> HIDE DEF b
      <4>2. c_dec' = b
        BY <1>2, <4>1
      <4> QED BY <3>5, <4>2 DEF b
    <3>7. client_from' >= ServerHello
      <4> DEFINE e == EndsOf(down)[had + k]
      <4>1. client_from <= e /\ e \in Nat /\ client_from' = e
        BY <2>1, <2>8, <3>1
      <4> HIDE DEF e
      <4> QED BY <1>2, <1>7, <3>1, <4>1
    <3>8. Whole(down, client_from') = had + k
      BY <1>4, <2>1, <2>7, WholeAtEnd
    <3>9. DataIn(down)[Whole(down, client_from')] = c_dec' /\ EndsOf(down)[Whole(down, client_from')] = client_from'
      BY Zenon, <2>1, <3>5, <3>6, <3>8
    <3>10. Tls' = Tls /\ Http' = Http /\ ~Http /\ down' = down /\ client_status' = 8
      <4>1. session' = session /\ down' = down
        BY DEF ClientOnly
      <4>2. ~Http
        BY <1>1, <1>2, SessionIs
      <4> QED BY <1>1, <2>1, <4>1, <4>2 DEF Tls, Http
    <3> QED BY Zenon, <3>6, <3>7, <3>9, <3>10 DEF ClientPhase
  <2> QED BY <1>2, <1>5, <2>1, <2>9, <2>10, ReadsOnly
<1> QED BY <1>8, <1>9

\* The answers are plain but for the header before the first.
LEMMA PlainDown ==
  ASSUME DownLayout, session \in Sessions
  PROVE  /\ session.obfs = "none" => Plain(down, 0)
         /\ Http => Plain(down, ResponseHead)
<1>1. /\ session.obfs = "none" => \A i \in 1..Len(down) : down[i].kind = "raw" /\ down[i].head = 0
      /\ Http => \A i \in 1..Len(down) : IF i = 1 THEN down[i].kind = "response" /\ down[i].head = ResponseHead
                                         ELSE down[i].kind = "raw" /\ down[i].head = 0
  BY Zenon DEF DownLayout
<1>2. session.obfs = "none" => Plain(down, 0)
  BY <1>1 DEF Plain
<1>3. Http => Plain(down, ResponseHead)
  BY <1>1 DEF Plain
<1> QED BY <1>2, <1>3

\* All behind the header.
LEMMA HttpKeeps ==
  ASSUME PluginsInv, NEW to \in CutsOf(down, dread), http_simple_client_decode(to), dread' = to, ClientOnly
  PROVE  PluginsInv'
<1> DEFINE head == down[1].head
           ends == dread <= head - 4 /\ to >= head
<1>1. /\ Http
      /\ \/ client_from > 0 /\ c_dec' = c_dec + to - dread /\ UNCHANGED <<client_from, torn>>
         \/ /\ client_from = 0 /\ ends
            /\ c_dec' = c_dec + to - head
            /\ client_from' = head
            /\ UNCHANGED torn
         \/ /\ client_from = 0 /\ ~ends
            /\ torn' = (torn \/ to > head - 4)
            /\ UNCHANGED <<client_from, c_dec>>
      /\ UNCHANGED <<up, client_status, send_buffer, open>>
  BY Zenon DEF http_simple_client_decode
<1>2. /\ down \in Seq(UnitType) /\ Bytes(down) \in Nat /\ dread \in Nat /\ dread <= Bytes(down)
      /\ client_from \in Nat /\ client_from <= dread /\ c_dec \in Nat /\ open \in BOOLEAN /\ torn \in BOOLEAN
      /\ session \in Sessions
  BY TypesAre DEF PluginsInv
<1>3. to \in Nat /\ to > dread /\ to <= Bytes(down)
  BY <1>2, CutsAre
<1>4. Solid(down) /\ (~torn => Intact)
  BY Zenon DEF PluginsInv, ServerLayout
<1>5. dread' \in 0..Bytes(down) /\ open' \in BOOLEAN /\ open' = open
  BY <1>1, <1>2, <1>3
<1>6. Len(down) \in Nat /\ Len(down) >= 1 /\ head \in Nat
  <2>1. Len(down) \in Nat
    BY <1>2, LenProperties
  <2>2. Len(down) # 0
    <3> SUFFICES ASSUME Len(down) = 0 PROVE FALSE
      OBVIOUS
    <3>1. Bytes(down) = EndsOf(down)[0]
      BY DEF Bytes
    <3>2. EndsOf(down)[0] = 0
      BY <1>2, UnitSums
    <3> QED BY <1>2, <1>3, <3>1, <3>2
  <2>3. 1 \in 1..Len(down)
    BY <2>1, <2>2
  <2> QED BY <1>2, <2>1, <2>3, UnitFields
<1>7. ResponseHead = 180 /\ ResponseHead \in Nat
  BY SizesAre
<1>8. ~torn => /\ c_dec = Cipher(down, dread)
               /\ client_from = 0 => dread <= ResponseHead - 4
               /\ client_from > 0 => dread >= ResponseHead
               /\ head = ResponseHead /\ Plain(down, ResponseHead)
  <2> SUFFICES ASSUME ~torn
               PROVE  /\ c_dec = Cipher(down, dread)
                      /\ client_from = 0 => dread <= ResponseHead - 4
                      /\ client_from > 0 => dread >= ResponseHead
                      /\ head = ResponseHead /\ Plain(down, ResponseHead)
    OBVIOUS
  <2>1. ClientPhase /\ DownLayout
    BY Zenon, <1>4 DEF Intact
  <2>2. Plain(down, ResponseHead)
    BY <1>1, <1>2, <2>1, PlainDown
  <2>3. 1 \in 1..Len(down)
    BY <1>6
  <2>4. head = ResponseHead
    BY <2>2, <2>3 DEF Plain
  <2> QED BY Zenon, <1>1, <2>1, <2>2, <2>4 DEF ClientPhase
<1>9. ~torn => /\ c_dec = IF dread > ResponseHead THEN dread - ResponseHead ELSE 0
               /\ Cipher(down, to) = IF to > ResponseHead THEN to - ResponseHead ELSE 0
  BY <1>2, <1>3, <1>4, <1>7, <1>8, PlainCipher
<1>10. Http' = Http /\ Tls' = Tls /\ down' = down /\ ~Tls
  <2>1. session' = session /\ down' = down
    BY DEF ClientOnly
  <2> QED BY <1>1, <1>2, <2>1, SessionIs DEF Http, Tls
<1> HIDE DEF head
<1>11. CASE client_from > 0 /\ c_dec' = c_dec + to - dread /\ UNCHANGED <<client_from, torn>>
  <2>1. c_dec' \in Nat /\ client_from' \in 0..dread' /\ torn' \in BOOLEAN
    BY <1>2, <1>3, <1>11
  <2>2. ASSUME ~torn PROVE ClientPhase'
    <3>1. c_dec' = Cipher(down, to) /\ to >= ResponseHead
      BY <1>2, <1>3, <1>7, <1>8, <1>9, <1>11, <2>2
    <3>2. client_from' > 0 /\ client_from' # 0
      BY <1>2, <1>11
    <3> QED BY Zenon, <1>10, <3>1, <3>2 DEF ClientPhase
  <2> QED BY <1>1, <1>5, <1>11, <2>1, <2>2, ReadsOnly
<1>12. CASE /\ client_from = 0 /\ ends
            /\ c_dec' = c_dec + to - head
            /\ client_from' = head
            /\ UNCHANGED torn
  <2>1. c_dec' \in Nat /\ client_from' \in 0..dread' /\ torn' \in BOOLEAN
    BY <1>2, <1>3, <1>6, <1>12
  <2>2. ASSUME ~torn PROVE ClientPhase'
    <3>1. c_dec' = Cipher(down, to) /\ to >= ResponseHead
      BY <1>2, <1>3, <1>7, <1>8, <1>9, <1>12, <2>2
    <3>2. client_from' > 0 /\ client_from' # 0
      BY <1>7, <1>8, <1>12, <2>2
    <3> QED BY Zenon, <1>10, <3>1, <3>2 DEF ClientPhase
  <2> QED BY <1>1, <1>5, <1>12, <2>1, <2>2, ReadsOnly
<1>13. CASE /\ client_from = 0 /\ ~ends
            /\ torn' = (torn \/ to > head - 4)
            /\ UNCHANGED <<client_from, c_dec>>
  <2>1. c_dec' \in Nat /\ client_from' \in 0..dread' /\ torn' \in BOOLEAN
    BY <1>2, <1>3, <1>6, <1>13
  <2>2. ASSUME ~torn' PROVE ~torn /\ ClientPhase'
    <3>1. ~torn /\ ~(to > head - 4)
      BY <1>2, <1>13, <2>2
    <3>2. c_dec' = Cipher(down, to) /\ to <= ResponseHead - 4
      BY <1>2, <1>3, <1>7, <1>8, <1>9, <1>13, <3>1
    <3>3. ~(client_from' > 0)
      BY <1>2, <1>13
    <3> QED BY Zenon, <1>10, <3>1, <3>2, <3>3 DEF ClientPhase
  <2> QED BY <1>1, <1>5, <1>13, <2>1, <2>2, ReadsOnly
<1> QED BY Zenon, <1>1, <1>11, <1>12, <1>13

\* All there is.
LEMMA RawKeeps ==
  ASSUME PluginsInv, NEW to \in CutsOf(down, dread), session.obfs = "none", c_dec' = c_dec + to - dread,
         UNCHANGED <<up, client, open, torn>>, dread' = to, ClientOnly
  PROVE  PluginsInv'
<1>2. /\ down \in Seq(UnitType) /\ Bytes(down) \in Nat /\ dread \in Nat /\ dread <= Bytes(down)
      /\ client_from \in Nat /\ client_from <= dread /\ c_dec \in Nat /\ open \in BOOLEAN /\ torn \in BOOLEAN
      /\ session \in Sessions
  BY TypesAre DEF PluginsInv
<1>3. to \in Nat /\ to > dread /\ to <= Bytes(down)
  BY <1>2, CutsAre
<1>4. Solid(down) /\ (~torn => Intact)
  BY Zenon DEF PluginsInv, ServerLayout
<1>5. dread' \in 0..Bytes(down) /\ open' \in BOOLEAN /\ open' = open /\ torn' = torn /\ torn' \in BOOLEAN
  BY <1>2, <1>3
<1>6. c_dec' \in Nat /\ client_from' \in 0..dread' /\ UNCHANGED <<up, client_status, send_buffer>>
  BY <1>2, <1>3 DEF client
<1>7. ASSUME ~torn PROVE ClientPhase'
  <2>1. c_dec = Cipher(down, dread) /\ DownLayout
    BY Zenon, <1>4, <1>7 DEF Intact, ClientPhase
  <2>2. Plain(down, 0) /\ 0 \in Nat
    BY <1>2, <2>1, PlainDown
  <2>3. c_dec = IF dread > 0 THEN dread - 0 ELSE 0
    BY <1>2, <1>4, <2>1, <2>2, PlainCipher
  <2>4. Cipher(down, to) = IF to > 0 THEN to - 0 ELSE 0
    BY <1>3, <1>4, <2>2, PlainCipher
  <2>5. c_dec' = Cipher(down, to)
    BY <1>2, <1>3, <2>3, <2>4
  <2>6. ~Http' /\ ~Tls' /\ down' = down
    <3>1. session' = session /\ down' = down
      BY DEF ClientOnly
    <3> QED BY <1>2, <3>1, SessionIs DEF Http, Tls
  <2> QED BY Zenon, <2>5, <2>6 DEF ClientPhase
<1> QED BY <1>5, <1>6, <1>7, ReadsOnly

\* With them the client's layout is that of a handshake that is over.
LEMMA FinishingIs ==
  ASSUME PluginsTypeOK, UpLayout, Greets(up, HelloSize), Len(up) = 1, NEW now, now = up \o Finishing
  PROVE  /\ Finishing \in Seq(UnitType) /\ Solid(Finishing)
         /\ DataIn(Finishing)[Len(Finishing)] = DataIn(send_buffer)[Len(send_buffer)]
         /\ Greets(now, HelloSize) /\ Len(now) >= 2 /\ now[2] = Unit("finish", Finish, 0) /\ Recorded(now, 2)
<1> DEFINE f == <<Unit("finish", Finish, 0)>>
           r == <<Record(0)>>
           b == send_buffer
<1>1. up \in Seq(UnitType) /\ b \in Seq(UnitType) /\ Solid(b) /\ Recorded(b, 0) /\ Solid(up)
  BY TypesAre DEF UpLayout
<1>2. f \in Seq(UnitType) /\ Solid(f) /\ Len(f) = 1 /\ f[1] = Unit("finish", Finish, 0) /\ DataIn(f)[Len(f)] = 0
  <2>1. Finish \in Nat /\ 0 \in Nat /\ Finish + 0 > 0
    BY SizesAre
  <2> QED BY <2>1, OneUnit DEF UnitKinds
<1>3. r \in Seq(UnitType) /\ Solid(r) /\ Recorded(r, 0) /\ DataIn(r)[Len(r)] = 0
  <2>1. 0 \in Nat
    OBVIOUS
  <2> QED BY <2>1, OneRecord
<1>4. Finishing = (f \o b) \o r
  BY DEF Finishing
<1> HIDE DEF f, r, b
<1>5. f \o b \in Seq(UnitType) /\ Solid(f \o b) /\ DataIn(f \o b)[Len(f \o b)] = 0 + DataIn(b)[Len(b)]
  <2>1. DataIn(f \o b)[Len(f \o b)] = DataIn(f)[Len(f)] + DataIn(b)[Len(b)]
    BY <1>1, <1>2, BytesConcat
  <2>2. Solid(f \o b)
    BY <1>1, <1>2, SolidConcat
  <2> QED BY <1>2, <2>1, <2>2 DEF Solid
<1>6. Solid(Finishing) /\ Finishing \in Seq(UnitType)
  BY <1>3, <1>4, <1>5, SolidConcat DEF Solid
<1>7. DataIn(Finishing)[Len(Finishing)] = DataIn(b)[Len(b)]
  <2>1. DataIn(Finishing)[Len(Finishing)] = (0 + DataIn(b)[Len(b)]) + 0
    BY <1>3, <1>4, <1>5, BytesConcat
  <2>2. DataIn(b)[Len(b)] \in Nat
    BY <1>1, DataInside
  <2> QED BY <2>1, <2>2
<1> DEFINE first == up \o f
           rest == b \o r
<1>8. first \in Seq(UnitType) /\ Len(first) = 2 /\ first[1] = up[1] /\ first[2] = f[1]
  <2>1. /\ first \in Seq(UnitType) /\ Len(first) = Len(up) + Len(f)
        /\ \A i \in 1..Len(up) : first[i] = up[i]
        /\ \A i \in 1..Len(f) : first[Len(up) + i] = f[i]
    BY <1>1, <1>2, UnitsStay
  <2>2. 1 \in 1..Len(up) /\ 1 \in 1..Len(f) /\ Len(up) + 1 = 2
    BY <1>2
  <2> HIDE DEF first
  <2>3. first[1] = up[1] /\ first[Len(up) + 1] = f[1]
    BY <2>1, <2>2
  <2>4. Len(first) = 2
    BY <1>2, <2>1
  <2> QED BY Zenon, <2>1, <2>2, <2>3, <2>4
<1>9. rest \in Seq(UnitType) /\ Recorded(rest, 0)
  <2>1. 0 \in Nat
    OBVIOUS
  <2>2. rest \in Seq(UnitType)
    BY <1>1, <1>3, ConcatProperties
  <2> QED BY <1>1, <1>3, <2>1, <2>2, RecordedConcat
<1>10. now = first \o rest
  <2>1. (f \o b) \o r = f \o rest
    BY SMTT(20), <1>1, <1>2, <1>3, ConcatAssociative
  <2> HIDE DEF rest
  <2>2. up \o (f \o rest) = (up \o f) \o rest
    BY SMTT(20), <1>1, <1>2, <1>9, ConcatAssociative
  <2> QED BY Zenon, <1>4, <2>1, <2>2
<1> HIDE DEF first, rest
<1>11. Recorded(first, 2)
  BY <1>8 DEF Recorded
<1>12. Recorded(now, 2)
  <2>1. 2 \in Nat
    OBVIOUS
  <2> QED BY <1>8, <1>9, <1>10, <1>11, <2>1, RecordedConcat
<1>13. Len(now) >= 2 /\ now[1] = first[1] /\ now[2] = first[2]
  <2>1. Len(now) = Len(first) + Len(rest) /\ \A i \in 1..Len(first) : now[i] = first[i]
    <3>1. Len(first \o rest) = Len(first) + Len(rest) /\ \A i \in 1..Len(first) : (first \o rest)[i] = first[i]
      BY <1>8, <1>9, UnitsStay
    <3> QED BY <1>10, <3>1
  <2>2. Len(rest) \in Nat
    BY <1>9, LenProperties
  <2>3. 1 \in 1..Len(first) /\ 2 \in 1..Len(first)
    BY <1>8
  <2>4. Len(now) >= 2
    BY <1>8, <2>1, <2>2
  <2> QED BY <2>1, <2>3, <2>4
<1>14. Greets(now, HelloSize)
  <2>1. Len(now) >= 1
    <3>1. Len(now) \in Nat
      <4>1. now \in Seq(UnitType)
        BY <1>8, <1>9, <1>10, UnitsStay
      <4> QED BY <4>1, LenProperties
    <3> QED BY <1>13, <3>1
  <2> QED BY <1>8, <1>13, <2>1 DEF Greets
<1> QED BY <1>2, <1>6, <1>7, <1>8, <1>12, <1>13, <1>14 DEF b

\* The hello, and what has waited for it.
LEMMA FinishesKeeps ==
  ASSUME PluginsInv, open, NEW to \in CutsOf(down, dread), ClientFinishes(to), dread' = to, ClientOnly
  PROVE  PluginsInv'
<1>1. /\ Tls /\ client_status = 1
      /\ IF to < ClientCheck
           THEN open' = FALSE /\ UNCHANGED <<up, client>>
           ELSE /\ up' = up \o Finishing
                /\ client_status' = 8 /\ send_buffer' = <<>> /\ client_from' = to
                /\ UNCHANGED open
      /\ torn' = (torn \/ to # ServerHello)
      /\ UNCHANGED c_dec
  BY Zenon DEF ClientFinishes, Finishing
<1>2. /\ down \in Seq(UnitType) /\ Bytes(down) \in Nat /\ dread \in Nat /\ dread <= Bytes(down)
      /\ up \in Seq(UnitType) /\ send_buffer \in Seq(UnitType)
      /\ client_from \in Nat /\ client_from <= dread /\ c_dec \in Nat /\ open \in BOOLEAN /\ torn \in BOOLEAN
      /\ session \in Sessions
  BY TypesAre DEF PluginsInv
<1>3. to \in Nat /\ to > dread /\ to <= Bytes(down)
  BY <1>2, CutsAre
<1>4. /\ PluginsTypeOK /\ UpLayout /\ UpTotal /\ ServerLayout /\ (~torn => Intact)
  BY Zenon DEF PluginsInv
<1>5. dread' \in 0..Bytes(down) /\ torn' \in BOOLEAN
  BY <1>1, <1>2, <1>3
<1>6. ServerHello = 129 /\ ClientCheck = 76 /\ ServerHello \in Nat
  BY SizesAre
<1>0. PICK s : s = send_buffer'
  OBVIOUS
<1>9. torn' = (torn \/ to # ServerHello)
  BY Zenon, <1>1
<1>10. c_dec' = c_dec
  BY Zenon, <1>1
<1>7. CASE to < ClientCheck
  <2>1. open' = FALSE /\ up' = up /\ client_status' = client_status /\ send_buffer' = send_buffer /\ client_from' = client_from
    BY <1>1, <1>7 DEF client
  <2>2. torn'
    <3>1. to # ServerHello
      BY <1>3, <1>6, <1>7
    <3> QED BY <1>9, <3>1
  <2>3. client_from' \in 0..dread' /\ c_dec' \in Nat /\ open' \in BOOLEAN
    <3>1. client_from' \in 0..dread'
      <4>1. client_from \in 0..to
        BY <1>2, <1>3
      <4> QED BY <2>1, <4>1
    <3> QED BY <1>2, <1>10, <2>1, <3>1
  <2> QED BY <1>5, <2>1, <2>2, <2>3, ReadsOnly
<1>8. CASE ~(to < ClientCheck)
  <2>1. /\ up' = up \o Finishing
        /\ client_status' = 8 /\ send_buffer' = <<>> /\ client_from' = to /\ open' = open /\ c_dec' = c_dec
    BY Zenon, <1>1, <1>8
  <2>2. /\ session' = session /\ connection' = connection /\ requests' = requests /\ replies' = replies
        /\ framings' = framings /\ down' = down /\ uread' = uread
        /\ server_status' = server_status /\ sent' = sent /\ server_taken' = server_taken
        /\ held' = held /\ obfs_compatible_state' = obfs_compatible_state /\ client_data' = client_data
        /\ dec' = dec /\ got' = got
    BY DEF ClientOnly, server
  <2>3. ServerWaits
    BY <2>1, <2>2 DEF ServerWaits, server
  <2>4. Greets(up, HelloSize) /\ Len(up) = 1 /\ Solid(up) /\ Solid(send_buffer)
    BY Zenon, <1>1, <1>4 DEF UpLayout
  <2>5. PICK now : now = up'
    OBVIOUS
  <2>6. now = up \o Finishing
    BY <2>1, <2>5
  <2>7. /\ Finishing \in Seq(UnitType) /\ Solid(Finishing)
        /\ DataIn(Finishing)[Len(Finishing)] = DataIn(send_buffer)[Len(send_buffer)]
        /\ Greets(now, HelloSize) /\ Len(now) >= 2 /\ now[2] = Unit("finish", Finish, 0) /\ Recorded(now, 2)
    BY <1>4, <2>4, <2>6, FinishingIs
  <2>8. /\ Solid(now) /\ now \in Seq(UnitType) /\ Bytes(now) \in Nat /\ Bytes(now) >= Bytes(up)
        /\ Len(now) \in Nat /\ Len(now) >= Len(up) /\ Len(up) \in Nat
    BY <1>4, <2>4, <2>6, <2>7, UpStays
  <2>9. Tls' = Tls /\ Http' = Http /\ ~Http /\ session.obfs # "none"
    <3>1. ~Http /\ session.obfs # "none"
      BY <1>1, <1>2, SessionIs
    <3> QED BY <2>2, <3>1 DEF Tls, Http
  <2>10. s = <<>> /\ s \in Seq(UnitType) /\ Solid(s) /\ Recorded(s, 0) /\ DataIn(s)[Len(s)] = 0
    <3>1. Len(<<>>) = 0 /\ s = <<>>
      BY <1>0, <2>1
    <3> QED BY <3>1, NoUnits DEF Recorded
  <2>16. /\ up' = now /\ send_buffer' = s
         /\ client_status' = 8 /\ client_from' = to /\ open' = open /\ c_dec' = c_dec
    BY <1>0, <2>1, <2>5
  <2>17. s \in Seq(UnitType) /\ Solid(s) /\ Recorded(s, 0) /\ DataIn(s)[Len(s)] = 0
    BY Zenon, <2>10
  <2>18. now \in Seq(UnitType) /\ Solid(now)
    BY Zenon, <2>8
  <2>11. PluginsTypeOK'
    <3>1. /\ session \in Sessions /\ connection \in 1..LastConnection
          /\ requests \in Seq(RequestSizes) /\ Len(requests) <= MaxRequests /\ replies \in 0..Len(requests)
          /\ framings \subseteq {"origin", "verify_simple"}
          /\ down \in Seq(UnitType)
          /\ held \in 0..(IV + 1)
          /\ server_status \in {0, 2, 3, 8} /\ sent \in {0, 1}
          /\ obfs_compatible_state \in {0, 1} /\ client_data \subseteq 1..LastConnection
          /\ dec \in Nat /\ got \in Nat
      BY Zenon, <1>4 DEF PluginsTypeOK
    <3>2. uread \in 0..Bytes(now) /\ server_taken \in 0..Len(now)
      <4>1. uread \in Nat /\ uread <= Bytes(up) /\ Bytes(up) \in Nat /\ server_taken \in 0..Len(up)
        BY <1>4, TypesAre
      <4> QED BY <2>8, <4>1
    <3>3. client_from' \in 0..dread' /\ client_status' \in {0, 1, 8} /\ c_dec' \in Nat /\ open' \in BOOLEAN
      BY <1>2, <1>3, <2>1
    <3> QED BY Zenon, <1>5, <2>16, <2>2, <2>18, <2>17, <3>1, <3>2, <3>3 DEF PluginsTypeOK
  <2>12. UpLayout'
    <3>1. client_status' # 1 /\ client_status' # 0 /\ (client_status' # 1 => send_buffer' = <<>>)
      BY <2>1
    <3>2. Tls
      BY Zenon, <1>1
    <3>3. Tls' /\ ~Http' /\ (session.obfs)' # "none"
      BY <2>2, <2>9, <3>2
    <3>4. up' = now /\ send_buffer' = s
      BY Zenon, <2>16
    <3>5. /\ Solid(up') /\ Greets(up', HelloSize) /\ Len(up') >= 2 /\ up'[2] = Unit("finish", Finish, 0)
          /\ Recorded(up', 2) /\ Solid(send_buffer') /\ Recorded(send_buffer', 0)
      BY <2>7, <2>17, <2>18, <3>4
    <3> QED BY Zenon, <3>1, <3>3, <3>5 DEF UpLayout
  <2>13. UpTotal'
    <3> DEFINE a == DataIn(up)[Len(up)]
               b == DataIn(send_buffer)[Len(send_buffer)]
    <3>1. DataIn(now)[Len(now)] = a + b
      BY <1>2, <2>6, <2>7, BytesConcat
    <3>2. a \in Nat /\ b \in Nat
      BY <1>2, DataInside
    <3>3. a + b = Asked(Len(requests)) /\ requests # <<>>
      <4>1. a + b = Asked(Len(requests)) /\ (up # <<>> => requests # <<>>)
        BY Zenon, <1>4 DEF UpTotal
      <4>2. up # <<>>
        BY <2>4
      <4> QED BY <4>1, <4>2
    <3> HIDE DEF a, b
    <3>4. (a + b) + 0 = a + b
      BY <3>2
    <3>5. Asked(Len(requests))' = Asked(Len(requests))
      BY <2>2 DEF Asked
    <3> QED BY Zenon, <2>16, <2>2, <2>17, <3>1, <3>3, <3>4, <3>5 DEF UpTotal
  <2>14. ServerLayout'
    BY <1>4, <2>1, <2>3, <2>4, <2>7, UpGrowsLayout
  <2>15. ASSUME ~torn' PROVE Intact'
    <3>1. ~torn /\ to = ServerHello
      BY <1>1, <2>15
    <3>2. Passes /\ ServerPhase /\ DownLayout /\ ClientPhase
      BY Zenon, <1>4, <3>1 DEF Intact
    <3>3. Passes'
      <4>1. Calls
        BY <2>2 DEF Calls
      <4> QED BY <1>4, <2>1, <2>3, <2>4, <2>7, <3>2, <4>1, UpGrowsPasses
    <3>4. down # <<>>
      <4> SUFFICES ASSUME down = <<>> PROVE FALSE
        OBVIOUS
      <4>1. Bytes(down) = 0
        BY NoUnits
      <4> QED BY <1>2, <1>3, <4>1
    <3>5. ServerPhase'
      <4>1. server_status # 0
        <5>1. uread = held => down = <<>>
          BY Zenon, <1>4 DEF ServerLayout
        <5>2. server_status = 0 => uread = held
          BY Zenon, <1>1, <3>2 DEF ServerPhase
        <5> QED BY <3>4, <5>1, <5>2
      <4>2. Tls => (client_status' = 0 => server_status = 0) /\ (client_status' = 8 => server_status # 0)
        BY <2>1, <4>1
      <4> QED BY <1>4, <2>1, <2>3, <2>4, <2>7, <3>2, <4>2, UpGrowsPhase
    <3>6. DownLayout'
      BY <2>2, <3>2, DownLayoutStays
    <3>7. ClientPhase'
      <4>1. dread = 0 /\ c_dec = Cipher(down, dread)
        <5>1. client_status # 8
          BY <1>1
        <5> QED BY Zenon, <1>1, <3>2, <5>1 DEF ClientPhase
      <4>2. Solid(down)
        BY Zenon, <1>4 DEF ServerLayout
      <4>3. c_dec = 0
        BY <4>1, <4>2, CipherZero
      <4>4. Greets(down, ServerHello)
        BY Zenon, <1>1, <3>2, <3>4 DEF DownLayout
      <4>5. to <= ServerHello
        BY <1>6, <3>1
      <4>6. EndsOf(down)[1] = ServerHello /\ DataIn(down)[1] = 0 /\ Cipher(down, to) = 0
        BY <1>3, <1>6, <4>2, <4>4, <4>5, HelloFirst
      <4>7. Whole(down, to) = 1
        <5>1. 1 \in 0..Len(down)
          <6>1. Len(down) >= 1 /\ Len(down) \in Nat
            BY <1>2, <4>4, LenProperties DEF Greets
          <6> QED BY <6>1
        <5> QED BY <3>1, <4>2, <4>6, <5>1, WholeAtEnd
      <4>8. client_from' >= ServerHello
        BY <1>6, <2>1, <3>1
      <4>9. /\ DataIn(down)[Whole(down, client_from')] = c_dec'
            /\ EndsOf(down)[Whole(down, client_from')] = client_from'
            /\ c_dec' = Cipher(down, to)
        BY Zenon, <2>1, <3>1, <4>3, <4>6, <4>7
      <4> QED BY Zenon, <2>1, <2>2, <2>9, <4>8, <4>9 DEF ClientPhase
    <3> QED BY Zenon, <3>3, <3>5, <3>6, <3>7 DEF Intact
  <2> QED BY Zenon, <2>11, <2>12, <2>13, <2>14, <2>15 DEF PluginsInv
<1> QED BY <1>7, <1>8

\* Whatever client_decode makes of a read keeps the invariant.
LEMMA ClientReadsKeeps ==
  ASSUME PluginsInv, ClientReads PROVE PluginsInv'
<1>1. /\ open
      /\ \E to \in CutsOf(down, dread) :
           /\ dread' = to
           /\ \/ ClientFinishes(to)
              \/ ClientTakesRecords(to)
              \/ http_simple_client_decode(to)
              \/ /\ session.obfs = "none"
                 /\ c_dec' = c_dec + to - dread
                 /\ UNCHANGED <<up, client, open, torn>>
      /\ ClientOnly
  BY Zenon DEF ClientReads, ClientOnly
<1>2. PICK to \in CutsOf(down, dread) :
           /\ dread' = to
           /\ \/ ClientFinishes(to)
              \/ ClientTakesRecords(to)
              \/ http_simple_client_decode(to)
              \/ /\ session.obfs = "none"
                 /\ c_dec' = c_dec + to - dread
                 /\ UNCHANGED <<up, client, open, torn>>
  BY <1>1
<1> QED BY <1>1, <1>2, FinishesKeeps, TakesRecordsKeeps, HttpKeeps, RawKeeps

-----------------------------------------------------------------------------
(* The server reads.                                                       *)

\* What there is to read.
LEMMA UpThere ==
  ASSUME PluginsTypeOK, UpLayout, UpTotal, NEW to \in Nat, to > 0, to <= Bytes(up)
  PROVE  /\ Len(up) >= 1 /\ requests # <<>> /\ Len(requests) >= 1
         /\ session.obfs = "none" => up[1].kind = "raw"
         /\ Http => client_status = 8 /\ up[1].kind = "request" /\ up[1].head \in Nat /\ Plain(up, up[1].head)
         /\ Tls => client_status \in {1, 8} /\ Greets(up, HelloSize) /\ up[1].kind = "hello"
<1>1. up \in Seq(UnitType) /\ Len(up) \in Nat /\ client_status \in {0, 1, 8} /\ Len(requests) \in Nat
      /\ requests \in Seq(Pos) /\ Bytes(up) \in Nat
  BY TypesAre, LenProperties
<1>2. up # <<>>
  <2> SUFFICES ASSUME up = <<>> PROVE FALSE
    OBVIOUS
  <2>1. Bytes(up) = 0
    BY NoUnits
  <2> QED BY <1>1, <2>1
<1>3. Len(up) >= 1 /\ 1 \in 1..Len(up)
  <2>1. Len(up) # 0
    BY <1>1, <1>2, EmptySeq
  <2> QED BY <1>1, <2>1
<1>4. requests # <<>> /\ Len(requests) >= 1
  <2>1. requests # <<>>
    BY Zenon, <1>2 DEF UpTotal
  <2>2. Len(requests) # 0
    BY <1>1, <2>1, EmptySeq
  <2> QED BY <1>1, <2>1, <2>2
<1>5. session.obfs = "none" => up[1].kind = "raw"
  BY Zenon, <1>3 DEF UpLayout
<1>6. Http => client_status = 8 /\ up[1].kind = "request" /\ Plain(up, up[1].head)
  <2>1. Http => client_status # 1 /\ client_status # 0
    BY Zenon, <1>2 DEF UpLayout
  <2>2. Http => client_status = 8
    BY <1>1, <2>1
  <2> QED BY Zenon, <2>2 DEF UpLayout
<1>7. Tls => client_status \in {1, 8} /\ Greets(up, HelloSize)
  <2>1. Tls => client_status # 0
    BY Zenon, <1>2 DEF UpLayout
  <2>2. Tls => client_status = 1 \/ client_status = 8
    BY <1>1, <2>1
  <2>3. Tls => Greets(up, HelloSize)
    BY Zenon, <2>2 DEF UpLayout
  <2> QED BY <2>2, <2>3
<1>8. up[1].head \in Nat
  BY <1>1, <1>3, UnitFields
<1>9. Greets(up, HelloSize) => up[1].kind = "hello"
  BY UnitIs DEF Greets
<1> QED BY <1>3, <1>4, <1>5, <1>6, <1>7, <1>8, <1>9

\* Behind the hello there is the finish, and nothing of the cipher's stream before its end.
LEMMA FinishThere ==
  ASSUME PluginsTypeOK, UpLayout, Tls, Greets(up, HelloSize), NEW to \in Nat, to > HelloSize, to <= Bytes(up)
  PROVE  /\ client_status = 8 /\ Recorded(up, 2) /\ 2 \in 0..Len(up)
         /\ EndsOf(up)[2] = HelloSize + Finish /\ DataIn(up)[2] = 0
         /\ to < HelloSize + Finish => Cipher(up, to) = 0
<1>1. up \in Seq(UnitType) /\ Len(up) \in Nat /\ client_status \in {0, 1, 8} /\ Solid(up)
  BY TypesAre, LenProperties DEF UpLayout
<1>2. HelloSize \in Nat /\ Finish = 43
  BY SizesAre
<1>3. EndsOf(up)[1] = HelloSize /\ DataIn(up)[1] = 0
  BY <1>1, <1>2, HelloFirst
<1>4. client_status = 8
  <2>1. client_status # 1
    <3> SUFFICES ASSUME client_status = 1 PROVE FALSE
      OBVIOUS
    <3>1. Len(up) = 1
      BY Zenon DEF UpLayout
    <3>2. Bytes(up) = HelloSize
      BY <1>3, <3>1 DEF Bytes
    <3> QED BY <1>2, <3>2
  <2>2. client_status # 0
    <3> SUFFICES ASSUME client_status = 0 PROVE FALSE
      OBVIOUS
    <3>1. up = <<>>
      BY Zenon DEF UpLayout
    <3>2. Bytes(up) = 0
      BY <3>1, NoUnits
    <3> QED BY <1>2, <3>2
  <2> QED BY <1>1, <2>1, <2>2
<1>5. Len(up) >= 2 /\ up[2] = Unit("finish", Finish, 0) /\ Recorded(up, 2)
  BY Zenon, <1>4 DEF UpLayout
<1>6. up[2].kind = "finish" /\ up[2].head = Finish /\ up[2].data = 0
  BY <1>5, UnitIs
<1>7. 2 \in 1..Len(up) /\ 2 \in 0..Len(up) /\ 1 \in 0..Len(up) /\ 2 - 1 = 1 /\ 1 + 1 = 2 /\ 1 < Len(up)
  BY <1>1, <1>5
<1>8. EndsOf(up)[2] = HelloSize + Finish /\ DataIn(up)[2] = 0
  <2>1. EndsOf(up)[2] = EndsOf(up)[2 - 1] + (up[2].head + up[2].data) /\ DataIn(up)[2] = DataIn(up)[2 - 1] + up[2].data
    BY <1>1, <1>7, UnitSums
  <2>2. EndsOf(up)[2] = HelloSize + (Finish + 0) /\ DataIn(up)[2] = 0 + 0
    BY Zenon, <1>3, <1>6, <1>7, <2>1
  <2> QED BY <1>2, <2>2
<1>9. ASSUME to < HelloSize + Finish PROVE Cipher(up, to) = 0
  <2>1. Whole(up, to) = 1
    <3>1. EndsOf(up)[1] <= to
      BY <1>2, <1>3
    <3>2. to < EndsOf(up)[1 + 1]
      BY <1>7, <1>8, <1>9
    <3> QED BY <1>1, <1>7, <3>1, <3>2, WholeIs
  <2>2. Cipher(up, to) = DataIn(up)[1] + Parted(up, to, 1)
    BY <2>1, CipherIs
  <2>3. Parted(up, to, 1) = 0
    <3>1. to - HelloSize <= 43
      BY <1>2, <1>9
    <3>2. ~(to - HelloSize > Finish)
      BY <1>2, <3>1
    <3>3. ~(to - EndsOf(up)[1] > up[1 + 1].head)
      BY Zenon, <1>3, <1>6, <1>7, <3>2
    <3> QED BY <3>3 DEF Parted
  <2> QED BY <1>3, <2>2, <2>3
<1> QED BY <1>4, <1>5, <1>7, <1>8, <1>9

\* What a decoder returns.
LEMMA DecodedIs ==
  ASSUME NEW n, NEW back, NEW status, NEW header, NEW had
  PROVE  LET d == Decoded(n, back, status, header, had)
         IN  d.n = n /\ d.back = back /\ d.status = status /\ d.sent = header /\ d.taken = had
BY DEF Decoded

\* The records up to a place, from one of them on.
LEMMA TakesRecordsAre ==
  ASSUME PluginsTypeOK, NEW to \in Nat, to <= Bytes(up), NEW had \in 0..Len(up), EndsOf(up)[had] <= to,
         NEW d, d = TakesRecords(to, had)
  PROVE  /\ d.n \in Nat /\ d.back = <<>> /\ d.status = 8 /\ d.sent = sent
         /\ d.taken \in 0..Len(up) /\ d.taken >= had /\ EndsOf(up)[d.taken] <= to
         /\ DataIn(up)[had] \in Nat /\ DataIn(up)[d.taken] = DataIn(up)[had] + d.n
         /\ Solid(up) /\ Recorded(up, had) => DataIn(up)[d.taken] = Cipher(up, to)
<1> DEFINE size == to - EndsOf(up)[had]
           k == WholeRecords(up, had, size)
<1>1. up \in Seq(UnitType) /\ Len(up) \in Nat
  BY TypesAre, LenProperties
<1>2. EndsOf(up)[had] \in Nat
  BY <1>1, UnitSums
<1>3. size \in Nat /\ to = EndsOf(up)[had] + size
  BY <1>2
<1>4. d = Decoded(DataIn(up)[had + k] - DataIn(up)[had], <<>>, 8, sent, had + k)
  BY DEF TakesRecords
<1>5. /\ d.n = DataIn(up)[had + k] - DataIn(up)[had] /\ d.back = <<>> /\ d.status = 8 /\ d.sent = sent
      /\ d.taken = had + k
  BY <1>4, DecodedIs
<1>6. k = WholeRecords(up, had, size)
  OBVIOUS
<1> HIDE DEF size, k
<1>7. k \in 0..(Len(up) - had) /\ had + k \in 0..Len(up) /\ EndsOf(up)[had + k] <= to
  BY <1>1, <1>3, <1>6, RecordsTaken
<1>8. had <= had + k /\ had + k >= had
  BY <1>1, <1>7
<1>9. DataIn(up)[had] <= DataIn(up)[had + k] /\ DataIn(up)[had] \in Nat /\ DataIn(up)[had + k] \in Nat
  BY <1>1, <1>7, <1>8, UnitsGrow, UnitSums
<1>10. ASSUME Solid(up), Recorded(up, had) PROVE DataIn(up)[had + k] = Cipher(up, to)
  BY <1>1, <1>3, <1>6, <1>10, RecordsCipher
<1>11. d.n \in Nat /\ DataIn(up)[had + k] = DataIn(up)[had] + d.n
  <2> DEFINE a == DataIn(up)[had]
             b == DataIn(up)[had + k]
  <2>1. a \in Nat /\ b \in Nat /\ a <= b /\ d.n = b - a
    BY <1>5, <1>9
  <2> HIDE DEF a, b
  <2>2. d.n \in Nat /\ b = a + d.n
    BY <2>1
  <2> QED BY <2>2 DEF a, b
<1> QED BY <1>5, <1>7, <1>8, <1>9, <1>10, <1>11

\* What the server's obfs sends back for the client's hello.
ServersHello == <<Unit("hello", ServerHello, 0)>>

\* What a server_decode may return.
DecodedWell(d, to) ==
  /\ d.n \in Nat \/ d.n = -1
  /\ d.status \in {0, 2, 3, 8} /\ d.sent \in {0, 1} /\ d.taken \in 0..Len(up)
  /\ d.back = <<>> \/ (d.back = ServersHello /\ uread = held)
  /\ d.status = 3 => Tls /\ to >= HelloSize
  /\ session.plugin = "tls1.2_ticket_auth" /\ d.status = 8 => EndsOf(up)[d.taken] <= to

\* tls12_ticket_auth_server_decode returns such a thing,
LEMMA TlsDecodes ==
  ASSUME PluginsTypeOK, UpLayout, UpTotal, ServerLayout, NEW to \in Nat, to > uread, to <= Bytes(up),
         session.plugin = "tls1.2_ticket_auth",
         NEW d, d = tls12_ticket_auth_server_decode(uread - held, to)
  PROVE  DecodedWell(d, to)
<1> DEFINE from == uread - held
<1>1. /\ uread \in Nat /\ held \in Nat /\ held <= uread /\ up \in Seq(UnitType)
      /\ server_status \in {0, 2, 3, 8} /\ sent \in {0, 1} /\ server_taken \in 0..Len(up) /\ Bytes(up) \in Nat
  BY TypesAre DEF ServerLayout
<1>2. HelloSize \in Nat /\ HelloSize > 0 /\ Finish = 43
  BY SizesAre
<1>3. from \in Nat /\ from <= uread /\ to > from /\ to > 0
  BY <1>1
<1>4. CASE server_status = 8
  <2>1. d = TakesRecords(to, server_taken)
    BY <1>4 DEF tls12_ticket_auth_server_decode
  <2>2. EndsOf(up)[server_taken] <= uread /\ EndsOf(up)[server_taken] \in Nat
    BY <1>1, <1>4, UnitSums DEF ServerLayout
  <2>3. EndsOf(up)[server_taken] <= to
    BY <1>1, <2>2
  <2>4. /\ d.n \in Nat /\ d.back = <<>> /\ d.status = 8 /\ d.sent = sent
        /\ d.taken \in 0..Len(up) /\ EndsOf(up)[d.taken] <= to
    BY <1>1, <2>1, <2>3, TakesRecordsAre
  <2> QED BY <1>1, <2>4 DEF DecodedWell
<1>5. CASE server_status = 3
  <2>1. Tls /\ from >= HelloSize
    BY Zenon, <1>5 DEF ServerLayout
  <2>2. to > HelloSize
    BY <1>2, <1>3, <2>1
  <2>3. CASE to - from < Finish
    <3>1. d = Decoded(-1, <<>>, 3, sent, server_taken)
      BY <1>5, <2>3 DEF tls12_ticket_auth_server_decode
    <3>2. d.n = -1 /\ d.back = <<>> /\ d.status = 3 /\ d.sent = sent /\ d.taken = server_taken
      BY <3>1, DecodedIs
    <3>3. to >= HelloSize
      BY <1>2, <2>2
    <3> QED BY <1>1, <2>1, <3>2, <3>3 DEF DecodedWell
  <2>4. CASE ~(to - from < Finish)
    <3>1. d = TakesRecords(to, 2)
      BY <1>5, <2>4 DEF tls12_ticket_auth_server_decode
    <3>2. Greets(up, HelloSize)
      BY <1>3, <2>1, UpThere
    <3>3. 2 \in 0..Len(up) /\ EndsOf(up)[2] = HelloSize + Finish
      BY <2>1, <2>2, <3>2, FinishThere
    <3>4. EndsOf(up)[2] <= to
      <4>1. HelloSize + Finish <= to
        BY <1>2, <1>3, <2>1, <2>4
      <4> QED BY <3>3, <4>1
    <3>5. /\ d.n \in Nat /\ d.back = <<>> /\ d.status = 8 /\ d.sent = sent
          /\ d.taken \in 0..Len(up) /\ EndsOf(up)[d.taken] <= to
      BY <3>1, <3>3, <3>4, TakesRecordsAre
    <3> QED BY <1>1, <3>5 DEF DecodedWell
  <2> QED BY <2>3, <2>4
<1>6. CASE server_status # 8 /\ server_status # 3
  <2>1. CASE up[1].kind = "hello" /\ from = 0 /\ to = HelloSize /\ ~HaveSameCmp(client_data, connection)
    <3>1. d = Decoded(0, ServersHello, 3, sent, server_taken)
      BY <1>6, <2>1 DEF tls12_ticket_auth_server_decode, ServersHello
    <3>2. d.n = 0 /\ d.back = ServersHello /\ d.status = 3 /\ d.sent = sent /\ d.taken = server_taken
      BY <3>1, DecodedIs
    <3>3. Tls
      <4>1. session.obfs # "none" /\ ~Http
        <5>1. /\ session.obfs = "none" => up[1].kind = "raw"
              /\ Http => up[1].kind = "request"
          BY <1>3, UpThere
        <5> QED BY <2>1, <5>1
      <4>2. session \in Sessions
        BY TypesAre
      <4> QED BY <4>1, <4>2, SessionIs
    <3>4. uread = held /\ to >= HelloSize
      BY <1>1, <1>2, <2>1
    <3> QED BY <1>1, <3>2, <3>3, <3>4 DEF DecodedWell
  <2>2. CASE ~(up[1].kind = "hello" /\ from = 0 /\ to = HelloSize /\ ~HaveSameCmp(client_data, connection))
    <3>1. d = Decoded(-1, <<>>, 2, sent, server_taken)
      BY <1>6, <2>2 DEF tls12_ticket_auth_server_decode
    <3>2. d.n = -1 /\ d.back = <<>> /\ d.status = 2 /\ d.sent = sent /\ d.taken = server_taken
      BY <3>1, DecodedIs
    <3> QED BY <1>1, <3>2 DEF DecodedWell
  <2> QED BY <2>1, <2>2
<1> QED BY <1>4, <1>5, <1>6

\* and so does the server_decode of each plugin.
LEMMA Decodes ==
  ASSUME PluginsTypeOK, UpLayout, UpTotal, ServerLayout, NEW to \in Nat, to > uread, to <= Bytes(up),
         NEW d, d = ServerDecodes(uread - held, to)
  PROVE  DecodedWell(d, to)
<1> DEFINE from == uread - held
<1>1. /\ uread \in Nat /\ held \in Nat /\ held <= uread /\ up \in Seq(UnitType) /\ session \in Sessions
      /\ server_status \in {0, 2, 3, 8} /\ sent \in {0, 1} /\ server_taken \in 0..Len(up) /\ Bytes(up) \in Nat
  BY TypesAre DEF ServerLayout
<1>2. HelloSize \in Nat
  BY SizesAre
<1>3. from \in Nat /\ from <= uread /\ to > from /\ to > 0 /\ to - from \in Nat
  BY <1>1
<1>4. server_status = 3 => Tls /\ to >= HelloSize
  <2>1. server_status = 3 => Tls /\ from >= HelloSize
    BY Zenon DEF ServerLayout
  <2> QED BY <1>2, <1>3, <2>1
<1>5. session.plugin \in {"plain", "http_simple", "tls1.2_ticket_auth"}
  BY <1>1, SessionIs
<1>6. CASE session.plugin = "plain"
  <2>1. d = Decoded(to - from, <<>>, server_status, sent, server_taken)
    BY <1>6 DEF ServerDecodes
  <2>2. d.n = to - from /\ d.back = <<>> /\ d.status = server_status /\ d.sent = sent /\ d.taken = server_taken
    BY <2>1, DecodedIs
  <2> QED BY <1>1, <1>3, <1>4, <1>6, <2>2 DEF DecodedWell
<1>7. CASE session.plugin = "http_simple"
  <2>1. d = http_simple_server_decode(from, to)
    BY <1>7 DEF ServerDecodes
  <2>2. CASE server_status = 8
    <3>1. d = Decoded(to - from, <<>>, 8, sent, server_taken)
      BY <2>1, <2>2 DEF http_simple_server_decode
    <3>2. d.n = to - from /\ d.back = <<>> /\ d.status = 8 /\ d.sent = sent /\ d.taken = server_taken
      BY <3>1, DecodedIs
    <3> QED BY SMTT(20), <1>1, <1>3, <1>7, <3>2 DEF DecodedWell
  <2>3. CASE server_status # 8 /\ up[1].kind # "request"
    <3>1. d = Decoded(-1, <<>>, 8, 1, server_taken)
      BY <2>1, <2>3 DEF http_simple_server_decode
    <3>2. d.n = -1 /\ d.back = <<>> /\ d.status = 8 /\ d.sent = 1 /\ d.taken = server_taken
      BY <3>1, DecodedIs
    <3> QED BY <1>1, <1>7, <3>2 DEF DecodedWell
  <2>4. CASE server_status # 8 /\ up[1].kind = "request" /\ to < up[1].head
    <3>1. d = Decoded(0, <<>>, server_status, sent, server_taken)
      BY <2>1, <2>4 DEF http_simple_server_decode
    <3>2. d.n = 0 /\ d.back = <<>> /\ d.status = server_status /\ d.sent = sent /\ d.taken = server_taken
      BY <3>1, DecodedIs
    <3> QED BY <1>1, <1>4, <1>7, <3>2 DEF DecodedWell
  <2>5. CASE server_status # 8 /\ up[1].kind = "request" /\ ~(to < up[1].head)
    <3>1. d = Decoded(Cipher(up, to), <<>>, 8, sent, server_taken)
      BY <2>1, <2>5 DEF http_simple_server_decode
    <3>2. d.n = Cipher(up, to) /\ d.back = <<>> /\ d.status = 8 /\ d.sent = sent /\ d.taken = server_taken
      BY <3>1, DecodedIs
    <3>3. Cipher(up, to) \in Nat
      BY <1>1, CipherBounds
    <3> QED BY <1>1, <1>7, <3>2, <3>3 DEF DecodedWell
  <2> QED BY <2>2, <2>3, <2>4, <2>5
<1>8. CASE session.plugin = "tls1.2_ticket_auth"
  <2>1. d = tls12_ticket_auth_server_decode(from, to)
    BY <1>8 DEF ServerDecodes
  <2> QED BY <1>8, <2>1, TlsDecodes
<1> QED BY <1>5, <1>6, <1>7, <1>8

\* What the server's reading leaves alone.
ServerOnly == UNCHANGED <<session, connection, requests, replies, framings, up, dread, client, c_dec>>

\* The types, when the server has read.
LEMMA ServerTypes ==
  ASSUME PluginsTypeOK, ServerOnly, uread' \in 0..Bytes(up), held' \in 0..(IV + 1),
         server_status' \in {0, 2, 3, 8}, sent' \in {0, 1}, server_taken' \in 0..Len(up),
         obfs_compatible_state' \in {0, 1}, client_data' \subseteq 1..LastConnection,
         dec' \in Nat, got' \in Nat, open' \in BOOLEAN, torn' \in BOOLEAN,
         down' \in Seq(UnitType), dread \in 0..Bytes(down')
  PROVE  PluginsTypeOK'
<1>1. /\ session' = session /\ connection' = connection /\ requests' = requests /\ replies' = replies
      /\ framings' = framings /\ up' = up /\ dread' = dread
      /\ client_status' = client_status /\ send_buffer' = send_buffer /\ client_from' = client_from /\ c_dec' = c_dec
  BY DEF ServerOnly, client
<1>2. /\ session \in Sessions /\ connection \in 1..LastConnection
      /\ requests \in Seq(RequestSizes) /\ Len(requests) <= MaxRequests /\ replies \in 0..Len(requests)
      /\ framings \subseteq {"origin", "verify_simple"}
      /\ up \in Seq(UnitType) /\ send_buffer \in Seq(UnitType)
      /\ client_status \in {0, 1, 8} /\ client_from \in 0..dread /\ c_dec \in Nat
  BY Zenon DEF PluginsTypeOK
<1> QED BY Zenon, <1>1, <1>2 DEF PluginsTypeOK

\* Bytes that wait.
LEMMA WaitsKeeps ==
  ASSUME PluginsInv, open, NEW to \in CutsOf(up, uread), uread' = to, torn' = (torn \/ Tears(to)),
         Waits(to - (uread - held)), held' = to - (uread - held),
         UNCHANGED <<down, server, obfs_compatible_state, client_data, dec, got, open>>, ServerOnly
  PROVE  PluginsInv'
<1>1. /\ PluginsTypeOK /\ UpLayout /\ UpTotal /\ ServerLayout /\ (~torn => Intact)
  BY Zenon DEF PluginsInv
<1>2. /\ uread \in Nat /\ held \in Nat /\ up \in Seq(UnitType) /\ Bytes(up) \in Nat /\ session \in Sessions
      /\ server_taken \in 0..Len(up) /\ got \in Nat /\ dec \in Nat /\ dread \in Nat
  BY <1>1, TypesAre
<1>3. to \in Nat /\ to > uread /\ to <= Bytes(up)
  BY <1>2, CutsAre
<1>4. /\ held <= uread /\ (dec = 0 \/ dec >= IV)
      /\ uread = held => down = <<>> /\ server_status = 0
      /\ server_status = 3 => Tls /\ uread - held >= HelloSize
      /\ session.plugin = "tls1.2_ticket_auth" /\ server_status = 8 => EndsOf(up)[server_taken] <= uread
      /\ Solid(down)
  BY Zenon, <1>1 DEF ServerLayout
<1>5. /\ session' = session /\ connection' = connection /\ requests' = requests /\ replies' = replies
      /\ framings' = framings /\ up' = up /\ dread' = dread
      /\ client_status' = client_status /\ send_buffer' = send_buffer /\ client_from' = client_from /\ c_dec' = c_dec
      /\ down' = down /\ server_status' = server_status /\ sent' = sent /\ server_taken' = server_taken
      /\ obfs_compatible_state' = obfs_compatible_state /\ client_data' = client_data
      /\ dec' = dec /\ got' = got /\ open' = open
  BY DEF ServerOnly, client, server
<1>6. got = 0 /\ to - (uread - held) <= 17
  BY SizesAre DEF Waits
<1>7. PICK now : now = held'
  OBVIOUS
<1>8. now \in Nat /\ now <= 17 /\ now <= to /\ to - now = uread - held /\ (to = now <=> uread = held)
  BY <1>2, <1>3, <1>4, <1>6, <1>7
<1>9. uread' - held' = uread - held /\ (uread' = held' <=> uread = held) /\ held' <= uread'
  BY <1>7, <1>8
<1>10. PluginsTypeOK'
  <2>1. uread' \in 0..Bytes(up) /\ held' \in 0..(IV + 1)
    BY <1>2, <1>3, <1>7, <1>8, SizesAre
  <2>2. torn' \in BOOLEAN
    OBVIOUS
  <2>3. /\ server_status \in {0, 2, 3, 8} /\ sent \in {0, 1} /\ server_taken \in 0..Len(up)
        /\ obfs_compatible_state \in {0, 1} /\ client_data \subseteq 1..LastConnection
        /\ dec \in Nat /\ got \in Nat /\ open \in BOOLEAN
        /\ down \in Seq(UnitType) /\ dread \in 0..Bytes(down)
    BY Zenon, <1>1 DEF PluginsTypeOK
  <2> QED BY <1>1, <1>5, <2>1, <2>2, <2>3, ServerTypes
<1>11. UpLayout' /\ UpTotal'
  BY <1>1, <1>5, UpLayoutStays, UpTotalStays
<1>12. ServerLayout'
  <2>1. EndsOf(up)[server_taken] <= uread => EndsOf(up)[server_taken] <= to
    <3>1. EndsOf(up)[server_taken] \in Nat
      BY <1>2, UnitSums
    <3> QED BY <1>2, <1>3, <3>1
  <2>2. Tls' = Tls
    BY <1>5 DEF Tls
  <2> QED BY Zenon, <1>4, <1>5, <1>9, <2>1, <2>2 DEF ServerLayout
<1>13. ASSUME ~torn' PROVE Intact'
  <2>1. Passes /\ ServerPhase /\ DownLayout /\ ClientPhase
    BY Zenon, <1>1, <1>13 DEF Intact
  <2>2. /\ open /\ dec = Cipher(up, uread - held)
        /\ dec = 0 => got = 0
        /\ dec > 0 => got > 0
        /\ Speaks /\ "protocol" \in session.compatible => \E n \in 0..Len(requests) : dec = Asked(n)
    BY Zenon, <2>1 DEF Passes
  <2>3. dec = 0 /\ ~(dec > 0)
    BY <1>2, <1>6, <2>2
  <2>4. Passes'
    <3>1. Speaks' = Speaks /\ \A n : Asked(n)' = Asked(n)
      BY <1>5 DEF Speaks, Asked
    <3>2. dec' = Cipher(up', uread' - held') /\ open' /\ got' = 0 /\ ~(dec' > 0)
      BY <1>5, <1>6, <1>9, <2>2, <2>3
    <3>3. Speaks' /\ "protocol" \in (session.compatible)' => \E n \in 0..Len(requests') : dec' = Asked(n)'
      BY <1>5, <2>2, <3>1
    <3> QED BY Zenon, <3>2, <3>3 DEF Passes
  <2>5. ServerPhase'
    <3>1. Tls' = Tls /\ Http' = Http
      BY <1>5 DEF Tls, Http
    <3>2. /\ obfs_compatible_state = 1 => session.obfs = "none" /\ session.plugin # "plain"
          /\ session.plugin # "plain" /\ session.obfs = "none" =>
               /\ dec > 0 => obfs_compatible_state = 1
               /\ server_status = 8 => session.plugin = "http_simple"
               /\ obfs_compatible_state = 0 => server_status = 0
          /\ Http => /\ server_status \in {0, 8} /\ (server_status = 0 => uread = held)
                     /\ server_status = 8 => Len(up) >= 1 /\ uread - held >= up[1].head
          /\ Tls => /\ server_status \in {0, 3, 8}
                    /\ server_status = 0 => uread = held /\ client_data = {}
                    /\ server_status = 3 => uread - held = HelloSize
                    /\ server_status = 8 => server_taken >= 2 /\ dec > 0 /\ DataIn(up)[server_taken] = dec
                    /\ client_status = 0 => server_status = 0
                    /\ client_status = 8 => server_status # 0
      BY Zenon, <2>1 DEF ServerPhase
    <3> QED BY Zenon, <1>5, <1>9, <3>1, <3>2 DEF ServerPhase
  <2>6. DownLayout'
    BY <1>5, <2>1, DownLayoutStays
  <2>7. ClientPhase'
    BY <1>5, <2>1, ClientPhaseStays
  <2> QED BY Zenon, <2>4, <2>5, <2>6, <2>7 DEF Intact
<1> QED BY Zenon, <1>10, <1>11, <1>12, <1>13 DEF PluginsInv

\* A protocol hands on no less than nothing.
LEMMA HandsOn ==
  ASSUME PluginsTypeOK, ServerLayout, NEW n \in Nat, dec > 0 \/ n >= IV
  PROVE  PostDecrypted(n) \in Nat
<1> DEFINE before == IF dec = 0 THEN 0 ELSE dec - IV
           after == dec + n - IV
           whole == PayloadIn(after) - PayloadIn(before)
<1>1. dec \in Nat /\ IV = 16 /\ requests \in Seq(Pos) /\ Len(requests) \in Nat
  BY TypesAre, SizesAre
<1>2. dec = 0 \/ dec >= IV
  BY Zenon DEF ServerLayout
<1>3. before \in Nat /\ after \in Nat /\ before <= after
  BY <1>1, <1>2
<1> HIDE DEF before, after
<1>4. Loaded(FramesOfAll(requests))
  <2>1. Len(requests) \in 0..Len(requests)
    BY <1>1
  <2> QED BY <1>1, <2>1, FirstsLoaded
<1>5. PayloadIn(before) \in Nat /\ PayloadIn(after) \in Nat /\ PayloadIn(before) <= PayloadIn(after)
  BY <1>3, <1>4, PayloadGrows DEF PayloadIn, PayloadTo
<1>6. whole \in Nat /\ after - before \in Nat
  BY <1>3, <1>5
<1>7. PostDecrypted(n) = whole \/ PostDecrypted(n) = after - before
  BY DEF PostDecrypted, before, after
<1> QED BY <1>6, <1>7

\* What may become of the bytes that are decoded.
LEMMA TakesIs ==
  ASSUME NEW d, NEW from, NEW to, ServerTakes(d, from, to), NEW n, n = IF d.n = -1 THEN to - from ELSE d.n
  PROVE  /\ held' = 0 /\ server_status' = d.status /\ sent' = d.sent /\ server_taken' = d.taken
         /\ IF d.n = -1 /\ "obfs" \in session.compatible THEN obfs_compatible_state' = 1
            ELSE obfs_compatible_state' = obfs_compatible_state
         /\ \/ /\ d.back # <<>> /\ down' = d.back /\ client_data' = client_data \cup {connection}
               /\ dec' = dec /\ got' = got /\ open' = open
            \/ /\ d.back = <<>> /\ ((d.n = -1 /\ "obfs" \notin session.compatible) \/ (dec = 0 /\ n < IV))
               /\ open' = FALSE /\ down' = down /\ client_data' = client_data /\ dec' = dec /\ got' = got
            \/ /\ d.back = <<>> /\ ~(d.n = -1 /\ "obfs" \notin session.compatible) /\ (dec > 0 \/ n >= IV)
               /\ dec' = dec + n /\ got' = got + PostDecrypted(n)
               /\ down' = down /\ client_data' = client_data /\ open' = open
BY DEF ServerTakes, TakesForPlain

\* Whatever tears, the server's variables stay in their places.
LEMMA TakesLayout ==
  ASSUME PluginsInv, open, NEW to \in CutsOf(up, uread), uread' = to, torn' = (torn \/ Tears(to)), ServerOnly,
         NEW d, d = ServerDecodes(uread - held, to), ServerTakes(d, uread - held, to)
  PROVE  PluginsTypeOK' /\ UpLayout' /\ UpTotal' /\ ServerLayout'
<1> DEFINE from == uread - held
           n == IF d.n = -1 THEN to - from ELSE d.n
<1>1. /\ PluginsTypeOK /\ UpLayout /\ UpTotal /\ ServerLayout
  BY Zenon DEF PluginsInv
<1>2. /\ uread \in Nat /\ held \in Nat /\ up \in Seq(UnitType) /\ down \in Seq(UnitType) /\ Bytes(up) \in Nat
      /\ session \in Sessions /\ got \in Nat /\ dec \in Nat /\ dread \in Nat /\ dread <= Bytes(down)
      /\ obfs_compatible_state \in {0, 1} /\ client_data \subseteq 1..LastConnection
      /\ connection \in 1..LastConnection
  BY <1>1, TypesAre DEF PluginsTypeOK
<1>3. to \in Nat /\ to > uread /\ to <= Bytes(up)
  BY <1>2, CutsAre
<1>4. DecodedWell(d, to)
  BY <1>1, <1>3, Decodes
<1>5. /\ d.n \in Nat \/ d.n = -1
      /\ d.status \in {0, 2, 3, 8} /\ d.sent \in {0, 1} /\ d.taken \in 0..Len(up)
      /\ d.back = <<>> \/ (d.back = ServersHello /\ uread = held)
      /\ d.status = 3 => Tls /\ to >= HelloSize
      /\ session.plugin = "tls1.2_ticket_auth" /\ d.status = 8 => EndsOf(up)[d.taken] <= to
  BY Zenon, <1>4 DEF DecodedWell
<1>6. /\ held <= uread /\ (dec = 0 \/ dec >= IV)
      /\ uread = held => down = <<>>
      /\ Solid(down)
  BY Zenon, <1>1 DEF ServerLayout
<1>7. n \in Nat
  BY <1>2, <1>3, <1>5, <1>6
<1>8. n = IF d.n = -1 THEN to - from ELSE d.n
  OBVIOUS
<1> HIDE DEF n
<1>9. /\ held' = 0 /\ server_status' = d.status /\ sent' = d.sent /\ server_taken' = d.taken
      /\ IF d.n = -1 /\ "obfs" \in session.compatible THEN obfs_compatible_state' = 1
         ELSE obfs_compatible_state' = obfs_compatible_state
      /\ \/ /\ d.back # <<>> /\ down' = d.back /\ client_data' = client_data \cup {connection}
            /\ dec' = dec /\ got' = got /\ open' = open
         \/ /\ d.back = <<>> /\ ((d.n = -1 /\ "obfs" \notin session.compatible) \/ (dec = 0 /\ n < IV))
            /\ open' = FALSE /\ down' = down /\ client_data' = client_data /\ dec' = dec /\ got' = got
         \/ /\ d.back = <<>> /\ ~(d.n = -1 /\ "obfs" \notin session.compatible) /\ (dec > 0 \/ n >= IV)
            /\ dec' = dec + n /\ got' = got + PostDecrypted(n)
            /\ down' = down /\ client_data' = client_data /\ open' = open
  BY ZenonT(30), <1>8, TakesIs
<1>10. /\ session' = session /\ connection' = connection /\ requests' = requests /\ up' = up
       /\ client_status' = client_status /\ send_buffer' = send_buffer /\ Tls' = Tls
  BY DEF ServerOnly, client, Tls
<1>11. IV = 16
  BY SizesAre
<1>12. obfs_compatible_state' \in {0, 1}
  BY <1>2, <1>9
<1>13. (down' = down \/ (down' = ServersHello /\ down = <<>>)) /\ client_data' \subseteq 1..LastConnection /\ open' \in BOOLEAN
  BY <1>2, <1>5, <1>6, <1>9
<1>14. dec' \in Nat /\ got' \in Nat /\ (dec' = 0 \/ dec' >= IV)
  <2>1. CASE dec' = dec /\ got' = got
    BY <1>2, <1>6, <2>1
  <2>2. CASE dec' = dec + n /\ got' = got + PostDecrypted(n) /\ (dec > 0 \/ n >= IV)
    <3>1. PostDecrypted(n) \in Nat
      BY <1>1, <1>7, <2>2, HandsOn
    <3>2. dec' \in Nat /\ dec' >= IV
      BY <1>2, <1>6, <1>7, <1>11, <2>2
    <3> QED BY <1>2, <2>2, <3>1, <3>2
  <2> QED BY <1>9, <2>1, <2>2
<1>15. down' \in Seq(UnitType) /\ Solid(down') /\ dread \in 0..Bytes(down')
  <2>1. CASE down' = down
    <3>1. Bytes(down) \in Nat
      BY <1>2, DataInside
    <3> QED BY <1>2, <1>6, <2>1, <3>1
  <2>2. CASE down' = ServersHello /\ down = <<>>
    <3>1. ServerHello \in Nat /\ 0 \in Nat /\ ServerHello + 0 > 0
      BY SizesAre
    <3>2. ServersHello \in Seq(UnitType) /\ Solid(ServersHello)
      BY <3>1, OneUnit DEF ServersHello, UnitKinds
    <3>3. dread = 0
      <4>1. Bytes(down) = 0
        BY <2>2, NoUnits
      <4> QED BY <1>2, <4>1
    <3>4. Bytes(ServersHello) \in Nat
      BY <3>2, DataInside
    <3> QED BY <2>2, <3>2, <3>3, <3>4
  <2> QED BY <1>13, <2>1, <2>2
<1>16. PluginsTypeOK'
  <2>1. uread' \in 0..Bytes(up) /\ held' \in 0..(IV + 1) /\ torn' \in BOOLEAN
    BY <1>2, <1>3, <1>9, <1>11
  <2>2. server_status' \in {0, 2, 3, 8} /\ sent' \in {0, 1} /\ server_taken' \in 0..Len(up)
    BY <1>5, <1>9
  <2> QED BY <1>1, <1>12, <1>13, <1>14, <1>15, <2>1, <2>2, ServerTypes
<1>17. UpLayout' /\ UpTotal'
  BY <1>1, <1>10, UpLayoutStays, UpTotalStays
<1>18. ServerLayout'
  <2>1. held' <= uread' /\ uread' # held' /\ uread' - held' = to
    BY <1>2, <1>3, <1>9
  <2>2. server_status' = 3 => Tls' /\ uread' - held' >= HelloSize
    BY <1>5, <1>9, <1>10, <2>1
  <2>3. (session.plugin)' = "tls1.2_ticket_auth" /\ server_status' = 8 => EndsOf(up')[server_taken'] <= uread'
    <3> SUFFICES ASSUME session.plugin = "tls1.2_ticket_auth", d.status = 8
                 PROVE  EndsOf(up')[server_taken'] <= uread'
      BY <1>9, <1>10
    <3>1. EndsOf(up)[d.taken] <= to
      BY <1>5
    <3> QED BY <1>9, <1>10, <3>1
  <2> QED BY Zenon, <1>14, <1>15, <2>1, <2>2, <2>3 DEF ServerLayout
<1> QED BY <1>16, <1>17, <1>18

\* The server takes the client's hello when it is all there is, and answers with its own.
LEMMA HelloKeeps ==
  ASSUME PluginsInv, ~torn, NEW to \in CutsOf(up, uread), uread' = to, ServerOnly,
         NEW d, d = ServerDecodes(uread - held, to), ServerTakes(d, uread - held, to),
         up[1].kind = "hello", to = HelloSize
  PROVE  Intact'
<1> DEFINE from == uread - held
<1>1. /\ PluginsTypeOK /\ UpLayout /\ UpTotal /\ ServerLayout
      /\ Passes /\ ServerPhase /\ DownLayout /\ ClientPhase
  BY Zenon DEF PluginsInv, Intact
<1>2. /\ uread \in Nat /\ held \in Nat /\ up \in Seq(UnitType) /\ Bytes(up) \in Nat
      /\ session \in Sessions /\ got \in Nat /\ dec \in Nat /\ dread \in Nat /\ dread <= Bytes(down)
      /\ server_status \in {0, 2, 3, 8} /\ client_from \in Nat /\ client_from <= dread /\ requests \in Seq(Pos)
      /\ Len(requests) \in Nat
  BY <1>1, TypesAre
<1>3. to \in Nat /\ to > uread /\ to <= Bytes(up) /\ to > 0
  BY <1>2, CutsAre
<1>4. /\ session.obfs = "none" => up[1].kind = "raw"
      /\ Http => up[1].kind = "request"
      /\ Tls => client_status \in {1, 8} /\ Greets(up, HelloSize)
  BY <1>1, <1>3, UpThere
<1>5. Tls /\ ~Http /\ session.plugin = "tls1.2_ticket_auth" /\ session.obfs # "none"
  BY <1>2, <1>4, SessionIs
<1>6. Greets(up, HelloSize) /\ client_status # 0 /\ Solid(up)
  BY <1>1, <1>4, <1>5 DEF UpLayout
<1>7. HelloSize \in Nat /\ ServerHello = 129 /\ ServerHello \in Nat /\ 0 \in Nat /\ ServerHello + 0 > 0
  BY SizesAre
<1>8. \A pos \in Nat : pos <= HelloSize => Cipher(up, pos) = 0
  BY <1>6, <1>7, HelloFirst
<1>9. /\ open /\ dec = Cipher(up, uread - held) /\ (dec = 0 => got = 0) /\ held <= uread
      /\ uread = held => down = <<>>
      /\ server_status \in {0, 3, 8}
      /\ server_status = 0 => uread = held /\ client_data = {}
      /\ server_status = 3 => uread - held = HelloSize
      /\ server_status = 8 => dec > 0
      /\ obfs_compatible_state = 1 => session.obfs = "none" /\ session.plugin # "plain"
      /\ c_dec = Cipher(down, dread)
      /\ client_status # 8 => dread = 0
      /\ client_status = 8 => client_from >= ServerHello
      /\ BothOrNeither => framings \subseteq {session.speaks}
  BY Zenon, <1>1, <1>5 DEF Passes, ServerLayout, ServerPhase, ClientPhase, DownLayout
<1>10. from \in Nat /\ from < HelloSize
  BY <1>2, <1>3, <1>9
<1>11. dec = 0 /\ got = 0
  <2>1. from <= HelloSize
    BY <1>7, <1>10
  <2> QED BY <1>8, <1>9, <1>10, <2>1
<1>12. server_status = 0 /\ uread = held /\ client_data = {} /\ down = <<>>
  BY <1>7, <1>9, <1>10, <1>11
<1>13. d = Decoded(0, ServersHello, 3, sent, server_taken)
  <2>1. from = 0 /\ ~HaveSameCmp(client_data, connection)
    BY <1>2, <1>12 DEF HaveSameCmp
  <2>2. d = tls12_ticket_auth_server_decode(from, to)
    BY <1>5 DEF ServerDecodes
  <2>3. server_status # 8 /\ server_status # 3
    BY <1>12
  <2> QED BY <2>1, <2>2, <2>3 DEF tls12_ticket_auth_server_decode, ServersHello
<1>14. d.n = 0 /\ d.back = ServersHello /\ d.status = 3 /\ d.sent = sent /\ d.taken = server_taken
  BY <1>13, DecodedIs
<1>15. /\ ServersHello \in Seq(UnitType) /\ Solid(ServersHello) /\ Len(ServersHello) = 1
       /\ ServersHello[1] = Unit("hello", ServerHello, 0)
  <2>1. "hello" \in UnitKinds
    BY DEF UnitKinds
  <2>2. /\ <<Unit("hello", ServerHello, 0)>> \in Seq(UnitType) /\ Solid(<<Unit("hello", ServerHello, 0)>>)
        /\ Len(<<Unit("hello", ServerHello, 0)>>) = 1
        /\ <<Unit("hello", ServerHello, 0)>>[1] = Unit("hello", ServerHello, 0)
    BY <1>7, <2>1, OneUnit
  <2> QED BY Zenon, <2>2 DEF ServersHello
<1>16. /\ held' = 0 /\ server_status' = 3 /\ sent' = sent /\ server_taken' = server_taken
       /\ obfs_compatible_state' = obfs_compatible_state
       /\ down' = ServersHello /\ dec' = dec /\ got' = got /\ open' = open
  <2>1. ServersHello # <<>>
    BY DEF ServersHello
  <2>2. PICK n : n = IF d.n = -1 THEN to - from ELSE d.n
    OBVIOUS
  <2>3. d.n # -1
    BY <1>14
  <2> QED BY <1>14, <2>1, <2>2, <2>3, TakesIs
<1>17. /\ session' = session /\ requests' = requests /\ up' = up /\ dread' = dread /\ framings' = framings
       /\ client_status' = client_status /\ client_from' = client_from /\ c_dec' = c_dec
  BY DEF ServerOnly, client
<1>18. Tls' = Tls /\ Http' = Http /\ Speaks' = Speaks /\ BothOrNeither' = BothOrNeither
  BY <1>17 DEF Tls, Http, Speaks, BothOrNeither
<1>19. uread' - held' = HelloSize /\ uread' - held' = to
  BY <1>3, <1>16
<1>20. Cipher(up, HelloSize) = 0
  <2>1. HelloSize <= HelloSize
    BY <1>7
  <2> QED BY <1>7, <1>8, <2>1
<1>21. Passes'
  <2>1. dec' = Cipher(up', uread' - held') /\ open' /\ ~(dec' > 0) /\ got' = 0
    BY <1>9, <1>11, <1>16, <1>17, <1>19, <1>20
  <2>2. \E n \in 0..Len(requests') : dec' = Asked(n)'
    <3>1. 0 \in 0..Len(requests') /\ Asked(0)' = 0
      BY <1>2, <1>17 DEF Asked
    <3> QED BY <1>11, <1>16, <3>1
  <2> QED BY Zenon, <2>1, <2>2 DEF Passes
<1>22. ServerPhase'
  <2>1. /\ Tls' /\ ~Http' /\ (session.obfs)' # "none" /\ obfs_compatible_state' # 1
        /\ server_status' = 3 /\ server_status' # 0 /\ server_status' # 8 /\ server_status' \in {0, 3, 8}
        /\ client_status' # 0
    BY <1>5, <1>6, <1>9, <1>16, <1>17, <1>18
  <2> QED BY Zenon, <1>19, <2>1 DEF ServerPhase
<1>23. DownLayout'
  <2>1. Greets(ServersHello, ServerHello) /\ Recorded(ServersHello, 1)
    <3>1. Len(ServersHello) >= 1
      BY <1>15
    <3> QED BY <1>15, <3>1 DEF Greets, Recorded
  <2>2. /\ Tls' /\ ~Http' /\ (session.obfs)' # "none" /\ server_status' # 8
        /\ Greets(down', ServerHello) /\ Recorded(down', 1) /\ Len(down') = 1
        /\ BothOrNeither' => framings' \subseteq {(session.speaks)'}
    BY <1>5, <1>9, <1>15, <1>16, <1>17, <1>18, <2>1
  <2> QED BY Zenon, <2>2 DEF DownLayout
<1>24. ClientPhase'
  <2>1. dread = 0
    <3>1. Bytes(down) = 0
      BY <1>12, NoUnits
    <3> QED BY <1>2, <3>1
  <2>2. client_status # 8
    BY <1>2, <1>7, <1>9, <2>1
  <2>3. c_dec = 0
    BY <1>9, <1>12, <2>1, NoUnits, CipherZero
  <2>4. Cipher(ServersHello, 0) = 0
    BY <1>15, CipherZero
  <2>5. Tls' /\ ~Http' /\ client_status' # 8 /\ dread' = 0 /\ c_dec' = Cipher(down', dread')
    BY <1>5, <1>16, <1>17, <1>18, <2>1, <2>2, <2>3, <2>4
  <2> QED BY Zenon, <2>5 DEF ClientPhase
<1> QED BY Zenon, <1>21, <1>22, <1>23, <1>24 DEF Intact

\* What makes of the bytes up to a place all there is in them of the cipher's stream.
DecodedAll(d, to) ==
  LET n == IF d.n = -1 THEN to - (uread - held) ELSE d.n
  IN  /\ d.back = <<>> /\ n \in Nat /\ dec + n = Cipher(up, to)
      /\ d.n = -1 => "obfs" \in session.compatible /\ session.obfs = "none" /\ session.plugin # "plain"
      /\ session.plugin # "plain" /\ session.obfs = "none" =>
           /\ d.n = -1 \/ obfs_compatible_state = 1
           /\ d.status = 8 => session.plugin = "http_simple"
      /\ Http => d.status = 8 /\ d.sent = sent /\ Len(up) >= 1 /\ to >= up[1].head
      /\ Tls => /\ d.status = 8 /\ d.taken >= 2 /\ DataIn(up)[d.taken] = Cipher(up, to)
                /\ server_status \in {3, 8} /\ client_status = 8

\* A client that does without the obfs.
LEMMA DecodesNone ==
  ASSUME PluginsTypeOK, UpLayout, UpTotal, ServerLayout, Passes, ServerPhase,
         NEW to \in Nat, to > uread, to <= Bytes(up), session.obfs = "none",
         NEW d, d = ServerDecodes(uread - held, to)
  PROVE  DecodedAll(d, to)
<1> DEFINE from == uread - held
           n == IF d.n = -1 THEN to - from ELSE d.n
<1>1. /\ uread \in Nat /\ held \in Nat /\ up \in Seq(UnitType) /\ Bytes(up) \in Nat /\ session \in Sessions
      /\ dec \in Nat /\ server_status \in {0, 2, 3, 8} /\ obfs_compatible_state \in {0, 1}
  BY TypesAre
<1>2. held <= uread /\ dec = Cipher(up, from) /\ Solid(up) /\ (server_status = 3 => Tls) /\ Plain(up, 0)
  BY Zenon DEF ServerLayout, Passes, UpLayout
<1>3. from \in Nat /\ from <= Bytes(up) /\ to > from /\ to > 0 /\ to - from \in Nat /\ to - from # -1
  BY <1>1, <1>2
<1>4. /\ session.plugin \in {"plain", "http_simple", "tls1.2_ticket_auth"} /\ ~Http /\ ~Tls
      /\ session.plugin # "plain" => "obfs" \in session.compatible
  BY <1>1, SessionIs
<1>5. up[1].kind = "raw"
  BY <1>3, UpThere
<1>6. dec + (to - from) = Cipher(up, to)
  <2>1. 0 \in Nat
    OBVIOUS
  <2>2. dec = IF from > 0 THEN from - 0 ELSE 0
    BY <1>2, <1>3, <2>1, PlainCipher
  <2>3. Cipher(up, to) = IF to > 0 THEN to - 0 ELSE 0
    BY <1>2, <2>1, PlainCipher
  <2> HIDE DEF from
  <2> QED BY <1>3, <2>2, <2>3
<1>7. session.plugin # "plain" =>
        /\ server_status = 8 => session.plugin = "http_simple"
        /\ obfs_compatible_state = 0 => server_status = 0
  BY Zenon DEF ServerPhase
<1>8. n = IF d.n = -1 THEN to - from ELSE d.n
  OBVIOUS
<1>9. ASSUME d.back = <<>>, d.n = to - from \/ d.n = -1,
             d.n = -1 => session.plugin # "plain",
             session.plugin # "plain" => (d.n = -1 \/ obfs_compatible_state = 1) /\ (d.status = 8 => session.plugin = "http_simple")
      PROVE  DecodedAll(d, to)
  <2>1. n = to - from
    BY <1>9
  <2>2. n \in Nat /\ dec + n = Cipher(up, to)
    BY <1>3, <1>6, <2>1
  <2> HIDE DEF from
  <2> QED BY <1>4, <1>9, <2>2 DEF DecodedAll, from
<1>10. CASE session.plugin = "plain"
  <2>1. d = Decoded(to - from, <<>>, server_status, sent, server_taken)
    BY <1>10 DEF ServerDecodes
  <2>2. d.n = to - from /\ d.back = <<>>
    BY <2>1, DecodedIs
  <2> QED BY <1>3, <1>9, <1>10, <2>2
<1>11. CASE session.plugin = "http_simple"
  <2>1. d = http_simple_server_decode(from, to)
    BY <1>11 DEF ServerDecodes
  <2>2. CASE server_status = 8
    <3>1. d = Decoded(to - from, <<>>, 8, sent, server_taken)
      BY <2>1, <2>2 DEF http_simple_server_decode
    <3>2. d.n = to - from /\ d.back = <<>>
      BY <3>1, DecodedIs
    <3>3. obfs_compatible_state = 1
      BY <1>1, <1>7, <1>11, <2>2
    <3> QED BY <1>3, <1>9, <1>11, <3>2, <3>3
  <2>3. CASE server_status # 8
    <3>1. d = Decoded(-1, <<>>, 8, 1, server_taken)
      BY <1>5, <2>1, <2>3 DEF http_simple_server_decode
    <3>2. d.n = -1 /\ d.back = <<>>
      BY <3>1, DecodedIs
    <3> QED BY <1>9, <1>11, <3>2
  <2> QED BY <2>2, <2>3
<1>12. CASE session.plugin = "tls1.2_ticket_auth"
  <2>1. server_status # 8 /\ server_status # 3
    BY <1>2, <1>4, <1>7, <1>12
  <2>2. d = Decoded(-1, <<>>, 2, sent, server_taken)
    BY <1>5, <1>12, <2>1 DEF ServerDecodes, tls12_ticket_auth_server_decode
  <2>3. d.n = -1 /\ d.back = <<>> /\ d.status = 2
    BY <2>2, DecodedIs
  <2> QED BY <1>9, <1>12, <2>3
<1> QED BY <1>4, <1>10, <1>11, <1>12

\* A client that uses http_simple.
LEMMA DecodesHttp ==
  ASSUME PluginsTypeOK, UpLayout, UpTotal, ServerLayout, Passes, ServerPhase,
         NEW to \in Nat, to > uread, to <= Bytes(up), Http, Cipher(up, to) > 0,
         NEW d, d = ServerDecodes(uread - held, to)
  PROVE  DecodedAll(d, to)
<1> DEFINE from == uread - held
           n == IF d.n = -1 THEN to - from ELSE d.n
           head == up[1].head
<1>1. /\ uread \in Nat /\ held \in Nat /\ up \in Seq(UnitType) /\ Bytes(up) \in Nat /\ session \in Sessions
      /\ dec \in Nat
  BY TypesAre
<1>2. /\ held <= uread /\ dec = Cipher(up, from) /\ Solid(up)
      /\ server_status \in {0, 8} /\ (server_status = 0 => uread = held)
      /\ server_status = 8 => from >= head
  BY Zenon DEF ServerLayout, Passes, UpLayout, ServerPhase
<1>3. from \in Nat /\ from <= Bytes(up) /\ to > from /\ to > 0 /\ to - from \in Nat /\ to - from # -1
  BY <1>1, <1>2
<1>4. session.obfs # "none" /\ session.plugin = "http_simple" /\ ~Tls
  BY <1>1, SessionIs
<1>5. Len(up) >= 1 /\ up[1].kind = "request" /\ head \in Nat /\ Plain(up, head)
  BY <1>3, UpThere
<1>6. d = http_simple_server_decode(from, to)
  BY <1>4 DEF ServerDecodes
<1> HIDE DEF head
<1>7. Cipher(up, to) = IF to > head THEN to - head ELSE 0
  BY <1>2, <1>5, PlainCipher
<1>8. to > head /\ Cipher(up, to) = to - head
  BY <1>3, <1>5, <1>7
<1>9. ASSUME d.back = <<>>, d.n \in Nat, dec + d.n = Cipher(up, to), d.status = 8, d.sent = sent PROVE DecodedAll(d, to)
  <2>1. d.n # -1 /\ n = d.n
    BY <1>9
  <2>2. n \in Nat /\ dec + n = Cipher(up, to)
    BY Zenon, <1>9, <2>1
  <2>3. to >= up[1].head
    BY <1>3, <1>5, <1>8 DEF head
  <2> HIDE DEF from
  <2> QED BY <1>4, <1>5, <1>9, <2>1, <2>2, <2>3 DEF DecodedAll, from
<1>10. CASE server_status = 8
  <2>1. d = Decoded(to - from, <<>>, 8, sent, server_taken)
    BY <1>6, <1>10 DEF http_simple_server_decode
  <2>2. d.n = to - from /\ d.back = <<>> /\ d.status = 8 /\ d.sent = sent
    BY <2>1, DecodedIs
  <2>3. dec = IF from > head THEN from - head ELSE 0
    BY <1>2, <1>3, <1>5, PlainCipher
  <2>4. from >= head
    BY <1>2, <1>10
  <2> HIDE DEF from
  <2>5. dec + (to - from) = to - head
    BY <1>3, <1>5, <2>3, <2>4
  <2> QED BY <1>3, <1>8, <1>9, <2>2, <2>5
<1>11. CASE server_status = 0
  <2>1. ~(to < up[1].head)
    BY <1>3, <1>5, <1>8 DEF head
  <2>2. d = Decoded(Cipher(up, to), <<>>, 8, sent, server_taken)
    BY <1>5, <1>6, <1>11, <2>1 DEF http_simple_server_decode
  <2>3. d.n = Cipher(up, to) /\ d.back = <<>> /\ d.status = 8 /\ d.sent = sent
    BY <2>2, DecodedIs
  <2>4. dec = 0
    <3>1. from = 0
      BY <1>1, <1>2, <1>11
    <3> QED BY <1>2, <3>1, CipherZero
  <2>5. Cipher(up, to) \in Nat
    BY <1>1, CipherBounds
  <2>6. dec + d.n = Cipher(up, to)
    BY <2>3, <2>4, <2>5
  <2> QED BY <1>9, <2>3, <2>5, <2>6
<1> QED BY <1>2, <1>10, <1>11

\* A client that uses tls1.2_ticket_auth.
LEMMA DecodesTls ==
  ASSUME PluginsTypeOK, UpLayout, UpTotal, ServerLayout, Passes, ServerPhase,
         NEW to \in Nat, to > uread, to <= Bytes(up), Tls, Cipher(up, to) > 0,
         NEW d, d = ServerDecodes(uread - held, to)
  PROVE  DecodedAll(d, to)
<1> DEFINE from == uread - held
           n == IF d.n = -1 THEN to - from ELSE d.n
<1>1. /\ uread \in Nat /\ held \in Nat /\ up \in Seq(UnitType) /\ Bytes(up) \in Nat /\ session \in Sessions
      /\ dec \in Nat /\ server_taken \in 0..Len(up) /\ Len(up) \in Nat
  BY TypesAre, LenProperties
<1>2. /\ held <= uread /\ dec = Cipher(up, from) /\ Solid(up)
      /\ server_status \in {0, 3, 8} /\ (server_status = 0 => uread = held)
      /\ server_status = 3 => uread - held = HelloSize
      /\ server_status = 8 => server_taken >= 2 /\ dec > 0 /\ DataIn(up)[server_taken] = dec
      /\ client_status = 8 => server_status # 0
  BY Zenon DEF ServerLayout, Passes, UpLayout, ServerPhase
<1>3. from \in Nat /\ to > from /\ to > 0
  BY <1>1, <1>2
<1>4. session.obfs # "none" /\ session.plugin = "tls1.2_ticket_auth" /\ ~Http
  BY <1>1, SessionIs
<1>5. Greets(up, HelloSize)
  BY <1>3, UpThere
<1>6. HelloSize \in Nat /\ Finish = 43
  BY SizesAre
<1>7. \A pos \in Nat : pos <= HelloSize => Cipher(up, pos) = 0
  BY <1>2, <1>5, <1>6, HelloFirst
<1>8. to > HelloSize
  <2>1. ~(to <= HelloSize)
    BY <1>7
  <2> QED BY <1>6, <2>1
<1>9. /\ client_status = 8 /\ Recorded(up, 2) /\ 2 \in 0..Len(up)
      /\ EndsOf(up)[2] = HelloSize + Finish /\ DataIn(up)[2] = 0
      /\ to < HelloSize + Finish => Cipher(up, to) = 0
  BY <1>5, <1>8, FinishThere
<1>10. server_status \in {3, 8}
  BY <1>2, <1>9
<1>11. d = tls12_ticket_auth_server_decode(from, to)
  BY <1>4 DEF ServerDecodes
<1>12. ASSUME NEW had \in 0..Len(up), had >= 2, EndsOf(up)[had] <= to, DataIn(up)[had] = dec, d = TakesRecords(to, had)
       PROVE  DecodedAll(d, to)
  <2>1. Recorded(up, had)
    <3> SUFFICES ASSUME NEW i \in 1..Len(up), i > had PROVE up[i].kind = "record" /\ up[i].head = 5
      BY DEF Recorded
    <3>1. i > 2
      BY <1>1, <1>12
    <3> QED BY <1>9, <3>1 DEF Recorded
  <2>2. /\ d.n \in Nat /\ d.back = <<>> /\ d.status = 8
        /\ d.taken \in 0..Len(up) /\ d.taken >= had
        /\ DataIn(up)[had] \in Nat /\ DataIn(up)[d.taken] = DataIn(up)[had] + d.n
        /\ DataIn(up)[d.taken] = Cipher(up, to)
    BY <1>2, <1>12, <2>1, TakesRecordsAre
  <2>3. d.taken >= 2
    BY <1>1, <1>12, <2>2
  <2>4. d.n # -1 /\ n = d.n
    BY <2>2
  <2>5. n \in Nat /\ dec + n = Cipher(up, to)
    BY Zenon, <1>12, <2>2, <2>4
  <2> HIDE DEF from
  <2> QED BY <1>4, <1>9, <1>10, <2>2, <2>3, <2>4, <2>5 DEF DecodedAll, from
<1>13. CASE server_status = 8
  <2>1. d = TakesRecords(to, server_taken)
    BY <1>11, <1>13 DEF tls12_ticket_auth_server_decode
  <2>2. EndsOf(up)[server_taken] <= uread
    BY Zenon, <1>4, <1>13 DEF ServerLayout
  <2>3. EndsOf(up)[server_taken] \in Nat
    BY <1>1, UnitSums
  <2>4. EndsOf(up)[server_taken] <= to
    BY <1>1, <2>2, <2>3
  <2>5. server_taken >= 2 /\ DataIn(up)[server_taken] = dec
    BY <1>2, <1>13
  <2> QED BY <1>1, <1>12, <2>1, <2>4, <2>5
<1>14. CASE server_status = 3
  <2>1. from = HelloSize /\ dec = 0
    <3>1. HelloSize <= HelloSize
      BY <1>6
    <3> QED BY <1>2, <1>6, <1>7, <1>14, <3>1
  <2>2. ~(to < HelloSize + Finish)
    BY <1>9
  <2>3. ~(to - from < Finish) /\ EndsOf(up)[2] <= to
    BY <1>6, <1>9, <2>1, <2>2
  <2>4. d = TakesRecords(to, 2)
    BY <1>11, <1>14, <2>3 DEF tls12_ticket_auth_server_decode
  <2>5. 2 >= 2 /\ DataIn(up)[2] = dec
    BY <1>9, <2>1
  <2> QED BY <1>9, <1>12, <2>3, <2>4, <2>5
<1> QED BY <1>10, <1>13, <1>14

\* Each plugin's server_decode takes all there is once the first request has begun to arrive.
LEMMA DecodesAll ==
  ASSUME PluginsTypeOK, UpLayout, UpTotal, ServerLayout, Passes, ServerPhase,
         NEW to \in Nat, to > uread, to <= Bytes(up), Cipher(up, to) > 0,
         NEW d, d = ServerDecodes(uread - held, to)
  PROVE  DecodedAll(d, to)
<1>1. session \in Sessions
  BY TypesAre
<1>2. session.obfs = "none" \/ Http \/ Tls
  BY <1>1, SessionIs
<1> QED BY <1>2, DecodesNone, DecodesHttp, DecodesTls

\* Before the first byte there is no frame.
LEMMA NoPayload ==
  ASSUME NEW w, Loaded(w)
  PROVE  PayloadTo(w, 0) = 0
<1>1. Solid(w) /\ w \in Seq(UnitType)
  BY LoadedSolid DEF Loaded
<1>2. Whole(w, 0) = 0 /\ DataIn(w)[0] = 0
  BY <1>1, CipherZero, UnitSums
<1> QED BY <1>2 DEF PayloadTo

\* What the server has handed on when the bytes it has decrypted end in or behind the first
\* request, in compatible mode at the end of one.
LEMMA HandedOnAll ==
  ASSUME PluginsTypeOK, ServerLayout, Passes, NEW n \in Nat, NEW c, c = dec + n, requests # <<>>, c >= Asked(1),
         Speaks /\ "protocol" \in session.compatible => \E j \in 0..Len(requests) : c = Asked(j)
  PROVE  got + PostDecrypted(n) = (IF Speaks THEN PayloadIn(c - IV) ELSE c - IV) /\ got + PostDecrypted(n) > 0
<1> DEFINE before == IF dec = 0 THEN 0 ELSE dec - IV
           after == dec + n - IV
           p == PayloadIn(before)
           q == PayloadIn(after)
           f(k) == Spoke(requests, "verify_simple", k)
<1>1. dec \in Nat /\ IV = 16 /\ got \in Nat /\ requests \in Seq(Pos) /\ Len(requests) \in Nat
  BY TypesAre, SizesAre
<1>2. /\ dec = 0 => got = 0
      /\ dec > 0 => got = IF Speaks THEN PayloadIn(dec - IV) ELSE dec - IV
      /\ Speaks /\ "protocol" \in session.compatible => \E k \in 0..Len(requests) : dec = Asked(k)
      /\ dec = 0 \/ dec >= IV
  BY Zenon DEF Passes, ServerLayout
<1>3. Len(requests) >= 1
  <2>1. Len(requests) # 0
    BY <1>1, EmptySeq
  <2> QED BY <1>1, <2>1
<1>4. 0 \in 0..Len(requests) /\ 1 \in 1..Len(requests) /\ 1 \in 0..Len(requests)
  BY <1>1, <1>3
<1>5. /\ Asked(0) = 0 /\ \A k \in 0..Len(requests) : Asked(k) \in Nat
      /\ \A k \in 1..Len(requests) : Asked(k) = IV + Spoke(requests, session.speaks, k) /\ Asked(k) > IV
      /\ \A i, j \in 0..Len(requests) : i <= j => Asked(i) <= Asked(j)
  BY <1>1, AskedIs
<1>6. Asked(1) > IV /\ Asked(1) \in Nat
  BY <1>4, <1>5
<1>7. /\ c \in Nat /\ c > IV /\ after = c - IV /\ after \in Nat /\ after > 0 /\ before \in Nat /\ before <= after
      /\ dec <= c
  BY <1>1, <1>2, <1>6
<1>8. PostDecrypted(n) = IF Speaks /\ (q - p > 0 \/ "protocol" \notin session.compatible) THEN q - p ELSE after - before
  BY DEF PostDecrypted
<1>9. CASE ~Speaks
  <2>1. PostDecrypted(n) = after - before
    BY <1>8, <1>9
  <2>2. got = before
    BY <1>1, <1>2, <1>9
  <2> HIDE DEF after, before
  <2>3. got + PostDecrypted(n) = after
    BY <1>1, <1>7, <2>1, <2>2
  <2> QED BY <1>7, <1>9, <2>3
<1>10. CASE Speaks
  <2> DEFINE w == FramesOfAll(requests)
  <2>1. Loaded(w)
    <3>1. Len(requests) \in 0..Len(requests)
      BY <1>1
    <3> QED BY <1>1, <3>1, FirstsLoaded
  <2>2. session.speaks = "verify_simple"
    BY <1>10 DEF Speaks
  <2>3. f(0) = 0 /\ \A k \in 0..Len(requests) : f(k) \in Nat
    BY <1>1, SpokenSteps
  <2>4. \A k \in 1..Len(requests) : Asked(k) = IV + f(k)
    BY <1>5, <2>2
  <2>5. \A a : PayloadIn(a) = PayloadTo(w, a)
    BY DEF PayloadIn, PayloadTo
  <2>6. \A i, j \in 0..Len(requests) : i < j => PayloadIn(f(i)) < PayloadIn(f(j))
    BY <1>1, <2>5, PayloadCalls
  <2>7. \A a, b \in Nat : a <= b => PayloadIn(a) \in Nat /\ PayloadIn(b) \in Nat /\ PayloadIn(a) <= PayloadIn(b)
    BY <2>1, <2>5, PayloadGrows
  <2>8. PayloadIn(0) = 0
    BY <2>1, <2>5, NoPayload
  <2> HIDE DEF w, f
  <2>9. got = p
    BY <1>1, <1>2, <1>10, <2>8
  <2>10. p \in Nat /\ q \in Nat /\ p <= q
    BY <1>7, <2>7
  <2>11. q > 0
    <3>1. PayloadIn(f(0)) < PayloadIn(f(1)) /\ f(1) \in Nat
      BY <1>4, <2>3, <2>6
    <3>2. Asked(1) = IV + f(1)
      BY <1>4, <2>4
    <3>3. f(1) <= after
      BY <1>1, <1>6, <1>7, <3>1, <3>2
    <3>4. PayloadIn(f(1)) <= q /\ PayloadIn(f(1)) \in Nat
      BY <1>7, <2>7, <3>1, <3>3
    <3>5. PayloadIn(f(0)) = 0
      BY <2>3, <2>8
    <3> HIDE DEF q
    <3> QED BY <2>10, <3>1, <3>4, <3>5
  <2>12. PostDecrypted(n) = q - p
    <3>1. CASE q - p > 0 \/ "protocol" \notin session.compatible
      BY <1>8, <1>10, <3>1
    <3>2. CASE ~(q - p > 0) /\ "protocol" \in session.compatible
      <4>1. PICK i \in 0..Len(requests) : dec = Asked(i)
        BY <1>2, <1>10, <3>2
      <4>2. PICK j \in 0..Len(requests) : c = Asked(j)
        BY <1>10, <3>2
      <4>3. j # 0 /\ j \in 1..Len(requests)
        BY <1>1, <1>5, <1>7, <4>2
      <4>4. after = f(j)
        <5>1. Asked(j) = IV + f(j) /\ f(j) \in Nat
          BY <2>3, <2>4, <4>2, <4>3
        <5> QED BY <1>1, <1>7, <4>2, <5>1
      <4>5. before = f(i)
        <5>1. CASE i = 0
          BY <1>5, <2>3, <4>1, <5>1
        <5>2. CASE i # 0
          <6>1. i \in 1..Len(requests)
            BY <1>1, <5>2
          <6>2. Asked(i) = IV + f(i) /\ f(i) \in Nat /\ Asked(i) > IV
            BY <1>5, <2>3, <2>4, <6>1
          <6> QED BY <1>1, <4>1, <6>2
        <5> QED BY <5>1, <5>2
      <4>6. ~(i < j)
        <5> SUFFICES ASSUME i < j PROVE FALSE
          OBVIOUS
        <5>1. p < q
          BY <2>6, <4>4, <4>5
        <5> HIDE DEF p, q
        <5> QED BY <2>10, <3>2, <5>1
      <4>7. dec = c
        <5>1. j <= i
          BY <1>1, <4>6
        <5>2. c <= dec
          BY <1>5, <4>1, <4>2, <5>1
        <5> QED BY <1>1, <1>7, <5>2
      <4>8. before = after
        BY <1>1, <1>7, <4>7
      <4>9. after - before = 0 /\ q - p = 0
        <5>1. after - before = 0
          <6> HIDE DEF after, before
          <6> QED BY <1>7, <4>8
        <5>2. q = p
          BY <4>8
        <5>3. q - p = 0
          <6> HIDE DEF q, p
          <6> QED BY <2>10, <5>2
        <5> QED BY <5>1, <5>3
      <4> QED BY <1>8, <3>2, <4>9
    <3> QED BY <3>1, <3>2
  <2>13. got + PostDecrypted(n) = q
    <3> HIDE DEF p, q
    <3> QED BY <2>9, <2>10, <2>12
  <2>14. q = PayloadIn(c - IV)
    BY <1>7
  <2> QED BY <1>10, <2>11, <2>13, <2>14
<1> QED BY <1>9, <1>10

\* The server decrypts all there is of the stream, and hands on the requests in it.
LEMMA DecryptsKeeps ==
  ASSUME PluginsInv, ~torn, NEW to \in CutsOf(up, uread), uread' = to, ServerOnly,
         NEW d, d = ServerDecodes(uread - held, to), ServerTakes(d, uread - held, to),
         Cipher(up, to) >= Asked(1),
         Speaks /\ "protocol" \in session.compatible => \E n \in 0..Len(requests) : Cipher(up, to) = Asked(n)
  PROVE  Intact'
<1> DEFINE c == Cipher(up, to)
           from == uread - held
<1>1. /\ PluginsTypeOK /\ UpLayout /\ UpTotal /\ ServerLayout
      /\ Passes /\ ServerPhase /\ DownLayout /\ ClientPhase
  BY Zenon DEF PluginsInv, Intact
<1>2. /\ uread \in Nat /\ held \in Nat /\ up \in Seq(UnitType) /\ Bytes(up) \in Nat
      /\ session \in Sessions /\ got \in Nat /\ dec \in Nat
      /\ server_status \in {0, 2, 3, 8} /\ requests \in Seq(Pos) /\ obfs_compatible_state \in {0, 1}
      /\ Len(requests) \in Nat /\ IV = 16
  BY <1>1, TypesAre, SizesAre
<1>3. to \in Nat /\ to > uread /\ to <= Bytes(up) /\ to > 0
  BY <1>2, CutsAre
<1>4. requests # <<>> /\ Len(requests) >= 1
  BY <1>1, <1>3, UpThere
<1>5. Asked(1) > IV /\ Asked(1) \in Nat
  <2>1. 1 \in 1..Len(requests) /\ 1 \in 0..Len(requests)
    BY <1>2, <1>4
  <2> QED BY <1>2, <2>1, AskedIs
<1>6. c \in Nat
  BY <1>2, <1>3, CipherBounds
<1>7. c > 0 /\ c > IV /\ c >= Asked(1)
  <2> DEFINE a == Asked(1)
  <2>1. c >= a /\ a > IV /\ a \in Nat
    BY <1>5
  <2> HIDE DEF a, c
  <2>2. c > 0 /\ c > IV
    BY <1>2, <1>6, <2>1
  <2> QED BY <2>1, <2>2 DEF a
<1>8. DecodedAll(d, to)
  BY <1>1, <1>3, <1>7, DecodesAll
<1>9. PICK n : n = IF d.n = -1 THEN to - from ELSE d.n
  OBVIOUS
<1>10. /\ d.back = <<>> /\ n \in Nat /\ dec + n = c
       /\ d.n = -1 => "obfs" \in session.compatible /\ session.obfs = "none" /\ session.plugin # "plain"
       /\ session.plugin # "plain" /\ session.obfs = "none" =>
            /\ d.n = -1 \/ obfs_compatible_state = 1
            /\ d.status = 8 => session.plugin = "http_simple"
       /\ Http => d.status = 8 /\ d.sent = sent /\ Len(up) >= 1 /\ to >= up[1].head
       /\ Tls => /\ d.status = 8 /\ d.taken >= 2 /\ DataIn(up)[d.taken] = c
                 /\ server_status \in {3, 8} /\ client_status = 8
  BY Zenon, <1>8, <1>9 DEF DecodedAll
<1> HIDE DEF c
<1>11. dec > 0 \/ n >= IV
  BY <1>2, <1>7, <1>10
<1>12. /\ open /\ dec = Cipher(up, from)
       /\ obfs_compatible_state = 1 => session.obfs = "none" /\ session.plugin # "plain"
       /\ session.plugin # "plain" /\ session.obfs = "none" => (obfs_compatible_state = 0 => server_status = 0)
  BY Zenon, <1>1 DEF Passes, ServerPhase
<1>13. /\ held' = 0 /\ server_status' = d.status /\ sent' = d.sent /\ server_taken' = d.taken
       /\ IF d.n = -1 /\ "obfs" \in session.compatible THEN obfs_compatible_state' = 1
          ELSE obfs_compatible_state' = obfs_compatible_state
       /\ dec' = dec + n /\ got' = got + PostDecrypted(n)
       /\ down' = down /\ client_data' = client_data /\ open' = open
  <2>1. ~(dec = 0 /\ n < IV)
    BY <1>2, <1>10, <1>11
  <2>2. ~(d.n = -1 /\ "obfs" \notin session.compatible)
    BY <1>10
  <2> QED BY ZenonT(30), <1>9, <1>10, <2>1, <2>2, TakesIs
<1>14. /\ session' = session /\ requests' = requests /\ up' = up /\ dread' = dread /\ framings' = framings
       /\ client_status' = client_status /\ client_from' = client_from /\ c_dec' = c_dec
  BY DEF ServerOnly, client
<1>15. Tls' = Tls /\ Http' = Http /\ Speaks' = Speaks /\ BothOrNeither' = BothOrNeither
  BY <1>14 DEF Tls, Http, Speaks, BothOrNeither
<1>16. uread' - held' = to
  BY <1>3, <1>13
<1>17. dec' = c
  BY <1>10, <1>13
<1>18. Passes'
  <2>1. \A k : Asked(k)' = Asked(k) /\ PayloadIn(k)' = PayloadIn(k)
    BY <1>14 DEF Asked, PayloadIn
  <2>2. Speaks /\ "protocol" \in session.compatible => \E j \in 0..Len(requests) : c = Asked(j)
    BY DEF c
  <2>3. got' = (IF Speaks THEN PayloadIn(c - IV) ELSE c - IV) /\ got' > 0
    <3>1. got + PostDecrypted(n) = (IF Speaks THEN PayloadIn(c - IV) ELSE c - IV) /\ got + PostDecrypted(n) > 0
      BY <1>1, <1>4, <1>7, <1>10, <2>2, HandedOnAll
    <3> QED BY Zenon, <1>13, <3>1
  <2>4. dec' = Cipher(up', uread' - held') /\ open' /\ dec' # 0
    BY <1>2, <1>7, <1>12, <1>13, <1>14, <1>16, <1>17 DEF c
  <2>5. got' = (IF Speaks' THEN PayloadIn(dec - IV)' ELSE dec' - IV) /\ dec' >= Asked(1)' /\ held' = 0
    <3>1. PayloadIn(dec - IV)' = PayloadIn(c - IV)
      BY <1>14, <1>17 DEF PayloadIn, IV
    <3>2. Asked(1)' = Asked(1)
      BY <2>1
    <3> QED BY <1>7, <1>13, <1>15, <1>17, <2>3, <3>1, <3>2
  <2>6. Speaks' /\ "protocol" \in (session.compatible)' => \E j \in 0..Len(requests') : dec' = Asked(j)'
    BY <1>14, <1>15, <1>17, <2>1, <2>2
  <2> QED BY Zenon, <2>3, <2>4, <2>5, <2>6 DEF Passes
<1>19. Tls => session.obfs # "none" /\ ~Http
  BY <1>2, SessionIs
<1>20. ServerPhase'
  <2>1. obfs_compatible_state' = 1 => session.obfs = "none" /\ session.plugin # "plain"
    BY <1>10, <1>12, <1>13
  <2>2. session.plugin # "plain" /\ session.obfs = "none" =>
          /\ obfs_compatible_state' = 1
          /\ server_status' = 8 => session.plugin = "http_simple"
    BY <1>10, <1>13
  <2>3. Http => server_status' = 8 /\ server_status' \in {0, 8} /\ server_status' # 0 /\ Len(up) >= 1 /\ to >= up[1].head
    BY <1>10, <1>13
  <2>4. Tls => /\ server_status' = 8 /\ server_status' \in {0, 3, 8} /\ server_status' # 0 /\ server_status' # 3
               /\ server_taken' >= 2 /\ DataIn(up)[server_taken'] = c /\ c > 0
               /\ client_status' = 8 /\ client_status' # 0
    BY <1>7, <1>10, <1>13, <1>14
  <2>5. obfs_compatible_state' = 1 => obfs_compatible_state' # 0
    OBVIOUS
  <2> QED BY Zenon, <1>14, <1>15, <1>16, <1>17, <2>1, <2>2, <2>3, <2>4, <2>5 DEF ServerPhase
<1>21. DownLayout'
  <2>1. /\ session.obfs = "none" => \A i \in 1..Len(down) : down[i].kind = "raw" /\ down[i].head = 0
        /\ Http => /\ \A i \in 1..Len(down) : IF i = 1 THEN down[i].kind = "response" /\ down[i].head = ResponseHead
                                              ELSE down[i].kind = "raw" /\ down[i].head = 0
                   /\ sent = 0 <=> down = <<>>
        /\ Tls => /\ down = <<>> \/ Greets(down, ServerHello)
                  /\ Recorded(down, 1)
                  /\ server_status = 3 => Len(down) = 1
                  /\ server_status = 8 => Len(down) >= 1
        /\ BothOrNeither => framings \subseteq {session.speaks}
    BY Zenon, <1>1 DEF DownLayout
  <2>2. Http => sent' = sent
    BY <1>10, <1>13
  <2>3. Tls => Len(down) >= 1
    <3>1. Tls /\ Len(down) = 1 => Len(down) >= 1
      OBVIOUS
    <3> QED BY Zenon, <1>10, <2>1, <3>1
  <2>4. Tls => server_status' # 3
    BY <1>10, <1>13
  <2> QED BY Zenon, <1>13, <1>14, <1>15, <2>1, <2>2, <2>3, <2>4 DEF DownLayout
<1>22. ClientPhase'
  BY <1>1, <1>13, <1>14, ClientPhaseStays
<1> QED BY Zenon, <1>18, <1>20, <1>21, <1>22 DEF Intact

-----------------------------------------------------------------------------
(* The whole.                                                              *)

\* server_recv_cb keeps the invariant, wherever a read ends.
LEMMA ServerReadsKeeps ==
  ASSUME PluginsInv, ServerReads
  PROVE  PluginsInv'
<1>1. open /\ ServerOnly
  BY Zenon DEF ServerReads, ServerOnly
<1>2. PICK to \in CutsOf(up, uread) :
        /\ uread' = to
        /\ torn' = (torn \/ Tears(to))
        /\ \/ /\ Waits(to - (uread - held))
              /\ held' = to - (uread - held)
              /\ UNCHANGED <<down, server, obfs_compatible_state, client_data, dec, got, open>>
           \/ /\ ~Waits(to - (uread - held))
              /\ \E d \in {ServerDecodes(uread - held, to)} : ServerTakes(d, uread - held, to)
  BY Zenon DEF ServerReads
<1>3. CASE /\ Waits(to - (uread - held))
           /\ held' = to - (uread - held)
           /\ UNCHANGED <<down, server, obfs_compatible_state, client_data, dec, got, open>>
  BY Zenon, <1>1, <1>2, <1>3, WaitsKeeps
<1>4. CASE \E d \in {ServerDecodes(uread - held, to)} : ServerTakes(d, uread - held, to)
  <2>1. PICK d : d = ServerDecodes(uread - held, to) /\ ServerTakes(d, uread - held, to)
    BY Zenon, <1>4
  <2>2. PluginsTypeOK' /\ UpLayout' /\ UpTotal' /\ ServerLayout'
    BY Zenon, <1>1, <1>2, <2>1, TakesLayout
  <2>3. ASSUME ~torn' PROVE Intact'
    <3>1. ~torn /\ ~Tears(to)
      BY Zenon, <1>2, <2>3
    <3>2. PluginsTypeOK /\ UpLayout /\ UpTotal
      BY Zenon DEF PluginsInv
    <3>3. up \in Seq(UnitType) /\ uread \in Nat /\ requests \in Seq(Pos) /\ Len(requests) \in Nat
      BY <3>2, TypesAre
    <3>4. to \in Nat /\ to > 0 /\ to <= Bytes(up)
      BY <3>3, CutsAre
    <3>5. 1 \in 0..Len(requests)
      <4>1. Len(requests) >= 1
        BY <3>2, <3>4, UpThere
      <4> QED BY <3>3, <4>1
    <3>6. Cipher(up, to) \in Nat /\ Asked(1) \in Nat
      BY <3>3, <3>4, <3>5, CipherBounds, AskedIs
    <3>7. /\ ~(Cipher(up, to) < Asked(1)) \/ (up[1].kind = "hello" /\ to = HelloSize)
          /\ Speaks /\ "protocol" \in session.compatible => \E n \in 0..Len(requests) : Cipher(up, to) = Asked(n)
      BY Zenon, <3>1 DEF Tears
    <3>8. CASE up[1].kind = "hello" /\ to = HelloSize
      BY Zenon, <1>1, <1>2, <2>1, <3>1, <3>8, HelloKeeps
    <3>9. CASE ~(Cipher(up, to) < Asked(1))
      <4>1. Cipher(up, to) >= Asked(1)
        <5> DEFINE c == Cipher(up, to)
                   a == Asked(1)
        <5>1. c \in Nat /\ a \in Nat /\ ~(c < a)
          BY <3>6, <3>9
        <5> HIDE DEF c, a
        <5>2. c >= a
          BY <5>1
        <5> QED BY <5>2 DEF c, a
      <4> QED BY Zenon, <1>1, <1>2, <2>1, <3>1, <3>7, <4>1, DecryptsKeeps
    <3> QED BY <3>7, <3>8, <3>9
  <2> QED BY Zenon, <2>2, <2>3 DEF PluginsInv
<1> QED BY Zenon, <1>2, <1>3, <1>4

\* Nothing happens.
LEMMA StutterKeeps ==
  ASSUME PluginsInv, UNCHANGED plugins_vars
  PROVE  PluginsInv'
<1>1. /\ session' = session /\ connection' = connection /\ requests' = requests /\ replies' = replies
      /\ framings' = framings /\ up' = up /\ down' = down /\ uread' = uread /\ dread' = dread
      /\ client_status' = client_status /\ send_buffer' = send_buffer /\ client_from' = client_from
      /\ server_status' = server_status /\ sent' = sent /\ server_taken' = server_taken
      /\ held' = held /\ obfs_compatible_state' = obfs_compatible_state /\ client_data' = client_data
      /\ dec' = dec /\ c_dec' = c_dec /\ got' = got /\ open' = open /\ torn' = torn
  BY DEF plugins_vars, wires, client, server
<1>2. PluginsTypeOK /\ UpLayout /\ UpTotal /\ ServerLayout /\ (~torn => Intact)
  BY Zenon DEF PluginsInv
<1>3. PluginsTypeOK'
  BY Zenon, <1>1, <1>2 DEF PluginsTypeOK
<1>4. UpLayout' /\ UpTotal' /\ ServerLayout'
  BY <1>1, <1>2, UpLayoutStays, UpTotalStays, ServerLayoutStays
<1>5. ASSUME ~torn' PROVE Intact'
  <2>1. Passes /\ ServerPhase /\ DownLayout /\ ClientPhase
    BY Zenon, <1>1, <1>2, <1>5 DEF Intact
  <2>2. Tls => (client_status' = 0 => server_status = 0) /\ (client_status' = 8 => server_status # 0)
    BY Zenon, <1>1, <2>1 DEF ServerPhase
  <2>3. Passes' /\ DownLayout' /\ ClientPhase'
    BY <1>1, <2>1, PassesStays, DownLayoutStays, ClientPhaseStays
  <2>4. ServerPhase'
    BY <1>1, <2>1, <2>2, ServerPhaseStays
  <2> QED BY Zenon, <2>3, <2>4 DEF Intact
<1> QED BY Zenon, <1>3, <1>4, <1>5 DEF PluginsInv

\* The invariant is inductive.
LEMMA PluginsStep ==
  ASSUME PluginsInv, [PluginsNext]_plugins_vars
  PROVE  PluginsInv'
<1>1. CASE \E n \in RequestSizes : ClientWrites(n)
  BY <1>1, ClientWritesKeeps
<1>2. CASE \E n \in ReplySizes : RemoteReplies(n)
  BY <1>2, RemoteRepliesKeeps
<1>3. CASE ServerReads
  BY <1>3, ServerReadsKeeps
<1>4. CASE ClientReads
  BY <1>4, ClientReadsKeeps
<1>5. CASE Reconnects
  BY <1>5, ReconnectsKeeps
<1>6. CASE UNCHANGED plugins_vars
  BY <1>6, StutterKeeps
<1> QED BY Zenon, <1>1, <1>2, <1>3, <1>4, <1>5, <1>6 DEF PluginsNext

\* What the invariant says of an honest client.
LEMMA InvServes ==
  ASSUME PluginsInv PROVE Served
<1>1. PluginsTypeOK /\ (~torn => Intact)
  BY Zenon DEF PluginsInv
<1>2. session \in Sessions /\ down \in Seq(UnitType) /\ Len(down) \in Nat
  BY <1>1, TypesAre, LenProperties
<1>3. SUFFICES ASSUME ~torn
               PROVE  /\ open /\ dec = Cipher(up, uread - held)
                      /\ dec > 0 => got = IF Speaks THEN PayloadIn(dec - IV) ELSE dec - IV
                      /\ c_dec = Cipher(down, dread)
                      /\ \A i \in DOMAIN down : Masked(i)
                      /\ BothOrNeither => framings \subseteq {session.speaks}
  BY Zenon DEF Served
<1>4. Passes /\ DownLayout /\ ClientPhase
  BY Zenon, <1>1, <1>3 DEF Intact
<1>5. /\ open /\ dec = Cipher(up, uread - held)
      /\ dec > 0 => got = IF Speaks THEN PayloadIn(dec - IV) ELSE dec - IV
  BY Zenon, <1>4 DEF Passes
<1>6. c_dec = Cipher(down, dread)
  BY Zenon, <1>4 DEF ClientPhase
<1>7. BothOrNeither => framings \subseteq {session.speaks}
  BY Zenon, <1>4 DEF DownLayout
<1>8. /\ session.obfs = "none" => \A i \in 1..Len(down) : down[i].kind = "raw" /\ down[i].head = 0
      /\ Http => \A i \in 1..Len(down) : IF i = 1 THEN down[i].kind = "response" /\ down[i].head = ResponseHead
                                         ELSE down[i].kind = "raw" /\ down[i].head = 0
      /\ Tls => (down = <<>> \/ Greets(down, ServerHello)) /\ Recorded(down, 1)
  BY Zenon, <1>4 DEF DownLayout
<1>9. ASSUME NEW i \in DOMAIN down PROVE Masked(i)
  <2>1. i \in 1..Len(down) /\ i \in Nat /\ i >= 1
    BY <1>2, <1>9
  <2>2. \/ session.obfs = "none" /\ ~Http /\ ~Tls
        \/ session.obfs # "none" /\ Http /\ ~Tls
        \/ session.obfs # "none" /\ ~Http /\ Tls
    BY <1>2, SessionIs
  <2>3. CASE session.obfs = "none" /\ ~Http /\ ~Tls
    <3>1. down[i].kind = "raw"
      BY <1>8, <2>1, <2>3
    <3> QED BY Zenon, <2>3, <3>1 DEF Masked
  <2>4. CASE session.obfs # "none" /\ Http /\ ~Tls
    <3>1. i = 1 => down[i].kind = "response"
      BY <1>8, <2>1, <2>4
    <3>2. i # 1 => down[i].kind = "raw" /\ i > 1
      BY <1>8, <2>1, <2>4
    <3>3. down[i].kind = "raw" <=> i > 1
      BY <2>1, <3>1, <3>2
    <3> QED BY Zenon, <2>4, <3>3 DEF Masked
  <2>5. CASE session.obfs # "none" /\ ~Http /\ Tls
    <3>1. down # <<>>
      BY <2>1, EmptySeq
    <3>2. Greets(down, ServerHello) /\ Recorded(down, 1)
      BY Zenon, <1>8, <2>5, <3>1
    <3>3. down[1].kind = "hello"
      BY <3>2, UnitIs DEF Greets
    <3>4. i > 1 => down[i].kind = "record"
      BY <2>1, <3>2 DEF Recorded
    <3>5. down[i].kind # "raw"
      <4>1. CASE i = 1
        BY <3>3, <4>1
      <4>2. CASE i # 1
        <5>1. i > 1
          BY <2>1, <4>2
        <5> QED BY <3>4, <5>1
      <4> QED BY <4>1, <4>2
    <3> QED BY Zenon, <2>5, <3>4, <3>5 DEF Masked
  <2> QED BY Zenon, <2>2, <2>3, <2>4, <2>5
<1> QED BY Zenon, <1>5, <1>6, <1>7, <1>9

\* The inductive invariant of an honest client's connections: the units either end has written, and
\* how far either has come in them, fit the handshake of its obfs (server_recv_cb, remote_recv_cb).
THEOREM PluginsInvariant == PluginsSpec => []PluginsInv
<1>1. PluginsInv /\ [PluginsNext]_plugins_vars => PluginsInv'
  BY Zenon, PluginsStep
<1> QED BY <1>1, PluginsStart, PTL DEF PluginsSpec

\* The variables of ServerPlugins have their types, for any sessions, sizes, draws and cuts.
THEOREM PluginsTypeCorrect == PluginsSpec => []PluginsTypeOK
<1>1. PluginsInv => PluginsTypeOK
  BY Zenon DEF PluginsInv
<1> QED BY <1>1, PluginsInvariant, PTL

\* Unless a read tore the first request apart, or in a compatible mode a frame, the server lets an
\* honest client in, has decrypted what the client encrypted and handed on its requests, and each
\* answer comes in the client's own obfs and framing (server_recv_cb, remote_recv_cb).
THEOREM HonestClientsServed == PluginsSpec => []Served
<1>1. PluginsInv => Served
  BY Zenon, InvServes
<1> QED BY <1>1, PluginsInvariant, PTL
=============================================================================
