--------------------------- MODULE BlockListProofs ---------------------------
(***************************************************************************)
(* The block list for any peers, grades, limits and length of the pipe:    *)
(* the firewall follows the table, whatever evictions, successes, offences *)
(* and the hour's clearing put into the pipe, and nobody is blocked who    *)
(* has not earned it.                                                      *)
(***************************************************************************)
EXTENDS BlockList, TLAPS, FiniteSetTheorems, SequenceTheorems, WellFoundedInduction

\* The table names each peer once, and is in the order of use.
Filed(t) ==
  /\ t \in Seq(Entry)
  /\ \A i \in DOMAIN t : t[i].count \in 1..(MaxTries + Malicious)
  /\ \A i, j \in DOMAIN t : t[i].peer = t[j].peer => i = j
  /\ \A i, j \in DOMAIN t : i < j => t[j].age <= t[i].age

In(t, p) == \E i \in DOMAIN t : t[i].peer = p
Wanted(t, p) == IF In(t, p) THEN 1 ELSE 0

\* No entry counts more than was reported.
Earned(t, s) ==
  \A i \in DOMAIN t : s[t[i].peer] = Cap \/ t[i].count <= s[t[i].peer]

\* Lines s take the rules for p from a to b, adding only where there is none and deleting
\* only where there is one; f says how many there are after each line.
Moves(p, f, i, c) ==
  \/ c.peer # p /\ f[i] = f[i - 1]
  \/ c.peer = p /\ c.op = "add" /\ f[i - 1] = 0 /\ f[i] = 1
  \/ c.peer = p /\ c.op = "del" /\ f[i - 1] = 1 /\ f[i] = 0
Takes(p, a, s, b) ==
  \E f \in [0..Len(s) -> {0, 1}] :
    /\ f[0] = a /\ f[Len(s)] = b
    /\ \A i \in 1..Len(s) : Moves(p, f, i, s[i])

\* How many lines c there are in s, and what they come to.
Places(s, c) == {i \in DOMAIN s : s[i] = c}
Adds(s, p) == Cardinality(Places(s, [op |-> "add", peer |-> p]))
Dels(s, p) == Cardinality(Places(s, [op |-> "del", peer |-> p]))
Leads(p, a, s, b) == Takes(p, a, s, b) /\ a + Adds(s, p) - Dels(s, p) = b

Follows == \A p \in Peers : Leads(p, rules[p], pipe, Wanted(table, p))

\* The connections are counted.
OpenBounded == IsFiniteSet(OpenNow) /\ Cardinality(OpenNow) <= MaxOpen

IndInv ==
  /\ TypeOK /\ Filed(table) /\ OpenBounded
  /\ Running => Earned(table, strikes)
  /\ Running /\ Firewall => chain = "hooked" /\ Follows

-----------------------------------------------------------------------------
(* Sequences.                                                              *)

\* RemoveAt shifts what comes after.
LEMMA RemoveAtProperties ==
  ASSUME NEW S, NEW s \in Seq(S), NEW i \in 1..Len(s)
  PROVE  /\ RemoveAt(s, i) \in Seq(S)
         /\ Len(RemoveAt(s, i)) = Len(s) - 1
         /\ \A k \in 1 .. Len(s) - 1 : RemoveAt(s, i)[k] = IF k < i THEN s[k] ELSE s[k + 1]
<1> DEFINE a == SubSeq(s, 1, i - 1)
<1> DEFINE b == SubSeq(s, i + 1, Len(s))
<1>1. Len(s) \in Nat /\ \A k \in 1..Len(s) : s[k] \in S
  BY LenProperties, ElementOfSeq
<1>2. /\ a \in Seq(S) /\ Len(a) = i - 1
      /\ \A k \in 1 .. i - 1 : a[k] = s[k]
  <2>1. \A k \in 1 .. i - 1 : s[k] \in S
    BY <1>1
  <2>2. 1 \in Int /\ i - 1 \in Int
    BY <1>1
  <2>3. /\ a \in Seq(S)
        /\ Len(a) = IF 1 <= i - 1 THEN (i - 1) - 1 + 1 ELSE 0
        /\ \A k \in 1 .. (i - 1) - 1 + 1 : a[k] = s[1 + k - 1]
    BY <2>1, <2>2, SubSeqProperties
  <2>4. ASSUME NEW k \in 1 .. i - 1 PROVE a[k] = s[k]
    <3>1. k \in 1 .. (i - 1) - 1 + 1 /\ 1 + k - 1 = k
      BY <1>1
    <3> QED BY <2>3, <3>1
  <2> QED BY <1>1, <2>3, <2>4
<1>3. /\ b \in Seq(S) /\ Len(b) = Len(s) - i
      /\ \A k \in 1 .. Len(s) - i : b[k] = s[i + k]
  <2>1. \A k \in i + 1 .. Len(s) : s[k] \in S
    BY <1>1
  <2>2. i + 1 \in Int /\ Len(s) \in Int
    BY <1>1
  <2>3. /\ b \in Seq(S)
        /\ Len(b) = IF i + 1 <= Len(s) THEN Len(s) - (i + 1) + 1 ELSE 0
        /\ \A k \in 1 .. Len(s) - (i + 1) + 1 : b[k] = s[(i + 1) + k - 1]
    BY <2>1, <2>2, SubSeqProperties
  <2>4. ASSUME NEW k \in 1 .. Len(s) - i PROVE b[k] = s[i + k]
    <3>1. k \in 1 .. Len(s) - (i + 1) + 1 /\ (i + 1) + k - 1 = i + k
      BY <1>1
    <3> QED BY <2>3, <3>1
  <2> QED BY <1>1, <2>3, <2>4
<1> HIDE DEF a, b
<1>4. /\ a \o b \in Seq(S)
      /\ Len(a \o b) = Len(a) + Len(b)
      /\ \A k \in 1 .. Len(a) + Len(b) : (a \o b)[k] = IF k <= Len(a) THEN a[k] ELSE b[k - Len(a)]
  BY <1>2, <1>3, ConcatProperties
<1>5. Len(a) + Len(b) = Len(s) - 1
  BY <1>1, <1>2, <1>3
<1>6. ASSUME NEW k \in 1 .. Len(s) - 1
      PROVE  (a \o b)[k] = IF k < i THEN s[k] ELSE s[k + 1]
  <2>1. CASE k < i
    BY <1>1, <1>2, <1>4, <1>5, <2>1
  <2>2. CASE ~(k < i)
    <3>1. k - (i - 1) \in 1 .. Len(s) - i /\ i + (k - (i - 1)) = k + 1 /\ ~(k <= i - 1)
      BY <1>1, <2>2
    <3>2. (a \o b)[k] = b[k - (i - 1)]
      BY <1>2, <1>4, <1>5, <3>1
    <3> QED BY <1>3, <2>2, <3>1, <3>2
  <2> QED BY <2>1, <2>2
<1> QED BY <1>4, <1>5, <1>6 DEF RemoveAt, a, b

\* What follows the first n of a sequence.
LEMMA Rest ==
  ASSUME NEW S, NEW s \in Seq(S), NEW n \in 0..Len(s)
  PROVE  /\ SubSeq(s, n + 1, Len(s)) \in Seq(S)
         /\ Len(SubSeq(s, n + 1, Len(s))) = Len(s) - n
         /\ \A i \in 1 .. Len(s) - n : SubSeq(s, n + 1, Len(s))[i] = s[i + n]
<1> DEFINE b == SubSeq(s, n + 1, Len(s))
<1>1. Len(s) \in Nat /\ \A k \in 1..Len(s) : s[k] \in S
  BY LenProperties, ElementOfSeq
<1>2. \A k \in n + 1 .. Len(s) : s[k] \in S
  BY <1>1
<1>3. n + 1 \in Int /\ Len(s) \in Int
  BY <1>1
<1>4. /\ b \in Seq(S)
      /\ Len(b) = IF n + 1 <= Len(s) THEN Len(s) - (n + 1) + 1 ELSE 0
      /\ \A k \in 1 .. Len(s) - (n + 1) + 1 : b[k] = s[(n + 1) + k - 1]
  BY <1>2, <1>3, SubSeqProperties
<1>5. ASSUME NEW k \in 1 .. Len(s) - n PROVE b[k] = s[k + n]
  <2>1. k \in 1 .. Len(s) - (n + 1) + 1 /\ (n + 1) + k - 1 = k + n
    BY <1>1
  <2> QED BY <1>4, <2>1
<1> QED BY <1>1, <1>4, <1>5

\* The first n of a sequence.
LEMMA FirstPart ==
  ASSUME NEW S, NEW s \in Seq(S), NEW n \in 0..Len(s)
  PROVE  /\ SubSeq(s, 1, n) \in Seq(S) /\ Len(SubSeq(s, 1, n)) = n
         /\ \A i \in 1..n : SubSeq(s, 1, n)[i] = s[i]
<1> DEFINE b == SubSeq(s, 1, n)
<1>1. Len(s) \in Nat /\ \A k \in 1..Len(s) : s[k] \in S
  BY LenProperties, ElementOfSeq
<1>2. \A k \in 1 .. n : s[k] \in S
  BY <1>1
<1>3. 1 \in Int /\ n \in Int
  BY <1>1
<1>4. /\ b \in Seq(S)
      /\ Len(b) = IF 1 <= n THEN n - 1 + 1 ELSE 0
      /\ \A k \in 1 .. n - 1 + 1 : b[k] = s[1 + k - 1]
  BY <1>2, <1>3, SubSeqProperties
<1>5. ASSUME NEW k \in 1 .. n PROVE b[k] = s[k]
  <2>1. k \in 1 .. n - 1 + 1 /\ 1 + k - 1 = k
    BY <1>1
  <2> QED BY <1>4, <2>1
<1> QED BY <1>1, <1>4, <1>5

-----------------------------------------------------------------------------
(* The pipe.                                                               *)

\* The places of a line in two pieces, put together.
LEMMA CountConcat ==
  ASSUME NEW S, NEW s \in Seq(S), NEW t \in Seq(S), NEW c
  PROVE  /\ Cardinality(Places(s \o t, c)) = Cardinality(Places(s, c)) + Cardinality(Places(t, c))
         /\ Cardinality(Places(s, c)) \in Nat /\ Cardinality(Places(t, c)) \in Nat
<1> DEFINE n == Len(s)
<1> DEFINE m == Len(t)
<1> DEFINE A == Places(s, c)
<1> DEFINE B == Places(t, c)
<1> DEFINE U == Places(s \o t, c)
<1> DEFINE C == {i \in U : i > n}
<1>1. /\ n \in Nat /\ m \in Nat /\ DOMAIN s = 1..n /\ DOMAIN t = 1..m
      /\ DOMAIN (s \o t) = 1 .. n + m
      /\ \A i \in 1 .. n + m : (s \o t)[i] = IF i <= n THEN s[i] ELSE t[i - n]
  <2>1. n \in Nat /\ m \in Nat /\ DOMAIN s = 1..n /\ DOMAIN t = 1..m
    BY LenProperties
  <2>2. /\ s \o t \in Seq(S) /\ Len(s \o t) = n + m
        /\ \A i \in 1 .. n + m : (s \o t)[i] = IF i <= n THEN s[i] ELSE t[i - n]
    BY ConcatProperties
  <2>3. DOMAIN (s \o t) = 1 .. n + m
    BY <2>2, LenProperties
  <2> QED BY <2>1, <2>2, <2>3
<1>2. /\ IsFiniteSet(A) /\ IsFiniteSet(B)
      /\ Cardinality(A) \in Nat /\ Cardinality(B) \in Nat
  <2>1. IsFiniteSet(1..n) /\ IsFiniteSet(1..m)
    BY <1>1, FS_Interval
  <2>2. A \subseteq 1..n /\ B \subseteq 1..m
    BY <1>1 DEF Places
  <2> QED BY <2>1, <2>2, FS_Subset, FS_CardinalityType
<1>3. /\ \A i \in A : i \in 1..n /\ s[i] = c
      /\ \A i \in 1..n : s[i] = c => i \in A
      /\ \A i \in B : i \in 1..m /\ t[i] = c
      /\ \A i \in 1..m : t[i] = c => i \in B
      /\ \A i \in C : i \in n + 1 .. n + m /\ t[i - n] = c
      /\ \A i \in n + 1 .. n + m : t[i - n] = c => i \in C
  BY <1>1 DEF Places
<1>4. U = A \cup C /\ A \cap C = {}
  BY <1>1 DEF Places
<1> HIDE DEF A, B, C, U, n, m
<1>5. IsFiniteSet(C) /\ Cardinality(C) = Cardinality(B)
  <2> DEFINE f == [i \in B |-> i + n]
  <2>1. f \in [B -> C]
    BY <1>1, <1>3
  <2>2. \A i, j \in B : f[i] = f[j] => i = j
    BY <1>1, <1>3
  <2>3. \A k \in C : \E i \in B : f[i] = k
    <3> SUFFICES ASSUME NEW k \in C PROVE \E i \in B : f[i] = k
      OBVIOUS
    <3>1. k - n \in B /\ (k - n) + n = k
      BY <1>1, <1>3
    <3> QED BY <3>1
  <2> HIDE DEF f
  <2>4. ExistsBijection(B, C)
    <3>1. f \in Bijection(B, C)
      BY <2>1, <2>2, <2>3 DEF Bijection, Injection, Surjection, IsInjective
    <3> QED BY <3>1 DEF ExistsBijection
  <2> QED BY <1>2, <2>4, FS_Bijection
<1>6. Cardinality(U) = Cardinality(A) + Cardinality(C)
  <2>1. Cardinality(A \cup C) = Cardinality(A) + Cardinality(C) - Cardinality(A \cap C)
    BY <1>2, <1>5, FS_Union
  <2>2. Cardinality(A \cap C) = 0
    BY <1>4, FS_EmptySet
  <2> QED BY <1>2, <1>4, <1>5, <2>1, <2>2
<1> QED BY <1>2, <1>5, <1>6 DEF A, B, U

\* What a line about p does after lines that end with b.
LEMMA TakesConcat ==
  ASSUME NEW s \in Seq(Command), NEW t \in Seq(Command), NEW p, NEW a, NEW b, NEW c,
         Takes(p, a, s, b), Takes(p, b, t, c)
  PROVE  Takes(p, a, s \o t, c)
<1> DEFINE n == Len(s)
<1> DEFINE m == Len(t)
<1>1. /\ n \in Nat /\ m \in Nat /\ Len(s \o t) = n + m
      /\ \A i \in 1 .. n + m : (s \o t)[i] = IF i <= n THEN s[i] ELSE t[i - n]
  BY LenProperties, ConcatProperties
<1>2. PICK f \in [0..n -> {0, 1}] :
        /\ f[0] = a /\ f[n] = b
        /\ \A i \in 1..n : Moves(p, f, i, s[i])
  BY DEF Takes
<1>3. PICK g \in [0..m -> {0, 1}] :
        /\ g[0] = b /\ g[m] = c
        /\ \A i \in 1..m : Moves(p, g, i, t[i])
  BY DEF Takes
<1> DEFINE h == [k \in 0 .. n + m |-> IF k <= n THEN f[k] ELSE g[k - n]]
<1> HIDE DEF n, m
<1>4. h \in [0 .. n + m -> {0, 1}]
  <2>1. ASSUME NEW k \in 0 .. n + m PROVE (IF k <= n THEN f[k] ELSE g[k - n]) \in {0, 1}
    <3>1. k <= n => k \in 0..n
      BY <1>1
    <3>2. ~(k <= n) => k - n \in 0..m
      BY <1>1
    <3> QED BY <1>2, <1>3, <3>1, <3>2
  <2> QED BY <2>1
<1>5. \A k \in 0..n : h[k] = f[k]
  BY <1>1
<1>6. \A k \in 0..m : h[n + k] = g[k]
  <2> SUFFICES ASSUME NEW k \in 0..m PROVE h[n + k] = g[k]
    OBVIOUS
  <2>1. CASE k = 0
    <3>1. h[n + k] = f[n]
      BY <1>1, <2>1
    <3> QED BY <1>2, <1>3, <2>1, <3>1
  <2>2. CASE k # 0
    <3>1. n + k \in 0 .. n + m /\ ~(n + k <= n) /\ (n + k) - n = k
      BY <1>1, <2>2
    <3> QED BY <3>1
  <2> QED BY <2>1, <2>2
<1> HIDE DEF h
<1>7. h[0] = a /\ h[n + m] = c
  BY <1>1, <1>2, <1>3, <1>5, <1>6
<1>8. ASSUME NEW i \in 1 .. n + m PROVE Moves(p, h, i, (s \o t)[i])
  <2>1. CASE i <= n
    <3>1. i \in 1..n /\ i \in 0..n /\ i - 1 \in 0..n
      BY <1>1, <2>1
    <3>2. (s \o t)[i] = s[i] /\ h[i] = f[i] /\ h[i - 1] = f[i - 1]
      BY <1>1, <1>5, <2>1, <3>1
    <3>3. Moves(p, f, i, s[i])
      BY <1>2, <3>1
    <3> QED BY <3>2, <3>3 DEF Moves
  <2>2. CASE ~(i <= n)
    <3> DEFINE j == i - n
    <3>1. j \in 1..m /\ j \in 0..m /\ j - 1 \in 0..m /\ n + j = i /\ n + (j - 1) = i - 1
      BY <1>1, <2>2
    <3>2. (s \o t)[i] = t[j] /\ h[n + j] = g[j] /\ h[n + (j - 1)] = g[j - 1]
      BY <1>1, <1>6, <2>2, <3>1
    <3>3. Moves(p, g, j, t[j])
      BY <1>3, <3>1
    <3> QED BY <3>1, <3>2, <3>3 DEF Moves
  <2> QED BY <2>1, <2>2
<1> QED BY <1>1, <1>4, <1>7, <1>8 DEF Takes

\* ... and what they come to.
LEMMA LeadsConcat ==
  ASSUME NEW s \in Seq(Command), NEW t \in Seq(Command), NEW p, NEW a \in {0, 1}, NEW b \in {0, 1},
         NEW c \in {0, 1}, Leads(p, a, s, b), Leads(p, b, t, c)
  PROVE  Leads(p, a, s \o t, c)
<1>1. Takes(p, a, s \o t, c)
  BY TakesConcat DEF Leads
<1>2. /\ Adds(s \o t, p) = Adds(s, p) + Adds(t, p) /\ Adds(s, p) \in Nat /\ Adds(t, p) \in Nat
      /\ Dels(s \o t, p) = Dels(s, p) + Dels(t, p) /\ Dels(s, p) \in Nat /\ Dels(t, p) \in Nat
  BY CountConcat DEF Adds, Dels
<1>3. a + Adds(s, p) - Dels(s, p) = b /\ b + Adds(t, p) - Dels(t, p) = c
  BY DEF Leads
<1>4. a + Adds(s \o t, p) - Dels(s \o t, p) = c
  BY <1>2, <1>3
<1> QED BY <1>1, <1>4 DEF Leads

\* Lines about other peers change nothing.
LEMMA LeadsQuiet ==
  ASSUME NEW t \in Seq(Command), NEW p, NEW b \in {0, 1},
         \A i \in DOMAIN t : t[i].peer # p
  PROVE  Leads(p, b, t, b)
<1>1. Len(t) \in Nat /\ DOMAIN t = 1..Len(t)
  BY LenProperties
<1>2. Takes(p, b, t, b)
  <2> DEFINE f == [k \in 0..Len(t) |-> b]
  <2>1. f \in [0..Len(t) -> {0, 1}] /\ f[0] = b /\ f[Len(t)] = b
    BY <1>1
  <2>2. \A i \in 1..Len(t) : Moves(p, f, i, t[i])
    BY <1>1 DEF Moves
  <2> HIDE DEF f
  <2> QED BY <2>1, <2>2 DEF Takes
<1>3. /\ Places(t, [op |-> "add", peer |-> p]) = {}
      /\ Places(t, [op |-> "del", peer |-> p]) = {}
  BY DEF Places
<1>4. Adds(t, p) = 0 /\ Dels(t, p) = 0
  BY <1>3, FS_EmptySet DEF Adds, Dels
<1> QED BY <1>2, <1>4 DEF Leads

\* The one line about p adds or deletes the rule.
LEMMA LeadsOne ==
  ASSUME NEW t \in Seq(Command), NEW p, NEW i \in DOMAIN t, t[i].peer = p,
         \A k \in DOMAIN t : t[k].peer = p => k = i,
         NEW b \in {0, 1}, t[i].op = IF b = 0 THEN "add" ELSE "del"
  PROVE  Leads(p, b, t, 1 - b)
<1>1. Len(t) \in Nat /\ DOMAIN t = 1..Len(t) /\ i \in 1..Len(t)
  BY LenProperties
<1>2. \A k \in 1..Len(t) : t[k] \in Command
  BY ElementOfSeq
<1>3. Takes(p, b, t, 1 - b)
  <2> DEFINE f == [k \in 0..Len(t) |-> IF k < i THEN b ELSE 1 - b]
  <2>1. f \in [0..Len(t) -> {0, 1}] /\ f[0] = b /\ f[Len(t)] = 1 - b
    BY <1>1
  <2>2. ASSUME NEW k \in 1..Len(t) PROVE Moves(p, f, k, t[k])
    <3>1. /\ f[k] = IF k < i THEN b ELSE 1 - b
          /\ f[k - 1] = IF k - 1 < i THEN b ELSE 1 - b
      BY <1>1
    <3> HIDE DEF f
    <3>2. CASE k = i
      BY <1>1, <3>1, <3>2 DEF Moves
    <3>3. CASE k # i
      <4>1. t[k].peer # p
        BY <1>1, <3>3
      <4>2. f[k] = f[k - 1]
        BY <1>1, <3>1, <3>3
      <4> QED BY <4>1, <4>2 DEF Moves
    <3> QED BY <3>2, <3>3
  <2> HIDE DEF f
  <2> QED BY <2>1, <2>2 DEF Takes
<1>4. \A k \in DOMAIN t : t[k] = [op |-> t[k].op, peer |-> t[k].peer]
  BY <1>1, <1>2 DEF Command
<1>5. CASE b = 0
  <2>1. /\ Places(t, [op |-> "add", peer |-> p]) = {i}
        /\ Places(t, [op |-> "del", peer |-> p]) = {}
    BY <1>4, <1>5 DEF Places
  <2>2. Adds(t, p) = 1 /\ Dels(t, p) = 0
    BY <2>1, FS_EmptySet, FS_Singleton DEF Adds, Dels
  <2> QED BY <1>3, <1>5, <2>2 DEF Leads
<1>6. CASE b = 1
  <2>1. /\ Places(t, [op |-> "del", peer |-> p]) = {i}
        /\ Places(t, [op |-> "add", peer |-> p]) = {}
    BY <1>4, <1>6 DEF Places
  <2>2. Adds(t, p) = 0 /\ Dels(t, p) = 1
    BY <2>1, FS_EmptySet, FS_Singleton DEF Adds, Dels
  <2> QED BY <1>3, <1>6, <2>2 DEF Leads
<1> QED BY <1>5, <1>6

\* One line at a time.
LEMMA Single ==
  ASSUME NEW S, NEW x \in S
  PROVE  <<x>> \in Seq(S) /\ Len(<<x>>) = 1 /\ DOMAIN <<x>> = {1} /\ <<x>>[1] = x
OBVIOUS

\* The shell has run the first line.
LEMMA LeadsTail ==
  ASSUME NEW s \in Seq(Command), s # <<>>, NEW p, NEW a \in {0, 1}, NEW b \in {0, 1}, Leads(p, a, s, b)
  PROVE  LET c == IF Head(s).peer # p THEN a ELSE IF Head(s).op = "add" THEN 1 ELSE 0
         IN  /\ Leads(p, c, Tail(s), b)
             /\ Head(s).peer = p => a = (IF Head(s).op = "add" THEN 0 ELSE 1)
<1> DEFINE x == Head(s)
<1> DEFINE r == Tail(s)
<1> DEFINE n == Len(s)
<1> DEFINE c == IF x.peer # p THEN a ELSE IF x.op = "add" THEN 1 ELSE 0
<1>1. /\ n \in Nat \ {0} /\ x = s[1] /\ x \in Command
      /\ r \in Seq(Command) /\ Len(r) = n - 1
      /\ \A i \in 1 .. n - 1 : r[i] = s[i + 1]
  BY HeadTailProperties, EmptySeq, LenProperties
<1>2. PICK f \in [0..n -> {0, 1}] :
        /\ f[0] = a /\ f[n] = b
        /\ \A i \in 1..n : Moves(p, f, i, s[i])
  BY DEF Leads, Takes
<1>3. s = <<x>> \o r
  <2>1. /\ <<x>> \in Seq(Command) /\ Len(<<x>>) = 1 /\ <<x>>[1] = x
    BY <1>1, Single
  <2>2. /\ <<x>> \o r \in Seq(Command) /\ Len(<<x>> \o r) = n
        /\ \A i \in 1..n : (<<x>> \o r)[i] = IF i <= 1 THEN <<x>>[i] ELSE r[i - 1]
    BY <1>1, <2>1, ConcatProperties
  <2>3. ASSUME NEW i \in 1..n PROVE (<<x>> \o r)[i] = s[i]
    <3>1. CASE i = 1
      BY <1>1, <2>1, <2>2, <3>1
    <3>2. CASE i # 1
      <4>1. i - 1 \in 1 .. n - 1 /\ (i - 1) + 1 = i
        BY <1>1, <3>2
      <4> QED BY <1>1, <2>2, <3>2, <4>1
    <3> QED BY <3>1, <3>2
  <2> QED BY <2>2, <2>3, SeqEqual
<1> HIDE DEF x, r, n
<1>4. /\ f[1] = c
      /\ x.peer = p => a = (IF x.op = "add" THEN 0 ELSE 1)
  <2>1. Moves(p, f, 1, x) /\ 1 - 1 = 0
    BY <1>1, <1>2
  <2> QED BY <1>2, <2>1 DEF Moves
<1>5. Takes(p, c, r, b)
  <2> DEFINE g == [k \in 0 .. n - 1 |-> f[k + 1]]
  <2>1. ASSUME NEW k \in 0 .. n - 1 PROVE k + 1 \in 0..n
    BY <1>1
  <2>2. g \in [0 .. n - 1 -> {0, 1}]
    BY <1>2, <2>1
  <2>3. g[0] = c /\ g[n - 1] = b
    BY <1>1, <1>2, <1>4
  <2>4. ASSUME NEW i \in 1 .. n - 1 PROVE Moves(p, g, i, r[i])
    <3>1. i \in 0 .. n - 1 /\ i - 1 \in 0 .. n - 1 /\ i + 1 \in 1..n /\ (i - 1) + 1 = i /\ (i + 1) - 1 = i
      BY <1>1
    <3>2. g[i] = f[i + 1] /\ g[i - 1] = f[(i + 1) - 1] /\ r[i] = s[i + 1]
      BY <1>1, <3>1
    <3>3. Moves(p, f, i + 1, s[i + 1])
      BY <1>2, <3>1
    <3> HIDE DEF g
    <3> QED BY <3>2, <3>3 DEF Moves
  <2> HIDE DEF g
  <2> QED BY <1>1, <2>2, <2>3, <2>4 DEF Takes
<1>6. /\ Adds(s, p) = Adds(<<x>>, p) + Adds(r, p) /\ Adds(<<x>>, p) \in Nat /\ Adds(r, p) \in Nat
      /\ Dels(s, p) = Dels(<<x>>, p) + Dels(r, p) /\ Dels(<<x>>, p) \in Nat /\ Dels(r, p) \in Nat
  <2>1. <<x>> \in Seq(Command) /\ r \in Seq(Command)
    BY <1>1, Single
  <2>2. \A k : /\ Cardinality(Places(<<x>> \o r, k)) = Cardinality(Places(<<x>>, k)) + Cardinality(Places(r, k))
             /\ Cardinality(Places(<<x>>, k)) \in Nat /\ Cardinality(Places(r, k)) \in Nat
    BY <2>1, CountConcat
  <2>3. \A k : Cardinality(Places(s, k)) = Cardinality(Places(<<x>> \o r, k))
    BY <1>3
  <2> QED BY <2>2, <2>3 DEF Adds, Dels
<1>7. a + Adds(<<x>>, p) - Dels(<<x>>, p) = c
  <2>1. /\ <<x>> \in Seq(Command) /\ DOMAIN <<x>> = {1} /\ <<x>>[1] = x
    BY <1>1, Single
  <2>2. CASE x.peer # p
    <3>1. Leads(p, a, <<x>>, a)
      BY <2>1, <2>2, LeadsQuiet
    <3> QED BY <2>2, <3>1 DEF Leads
  <2>3. CASE x.peer = p
    <3>1. x.op = (IF a = 0 THEN "add" ELSE "del")
      BY <1>1, <1>4, <2>3 DEF Command
    <3>2. Leads(p, a, <<x>>, 1 - a)
      BY <2>1, <2>3, <3>1, LeadsOne
    <3>3. c = 1 - a
      BY <2>3, <3>1
    <3> QED BY <3>2, <3>3 DEF Leads
  <2> QED BY <2>2, <2>3
<1>8. a + Adds(s, p) - Dels(s, p) = b
  BY DEF Leads
<1>9. c + Adds(r, p) - Dels(r, p) = b
  BY <1>6, <1>7, <1>8
<1> QED BY <1>4, <1>5, <1>9 DEF Leads, x, r

-----------------------------------------------------------------------------
(* The table.                                                              *)

LEMMA EntryTypes ==
  ASSUME NEW t, Filed(t)
  PROVE  /\ Len(t) \in Nat /\ DOMAIN t = 1..Len(t)
         /\ \A i \in 1..Len(t) :
              /\ t[i] \in Entry /\ t[i].peer \in Peers /\ t[i].age \in 0..(OneHour + 1)
              /\ t[i].count \in 1..(MaxTries + Malicious)
<1>1. Len(t) \in Nat /\ DOMAIN t = 1..Len(t)
  BY LenProperties DEF Filed
<1>2. ASSUME NEW i \in 1..Len(t) PROVE t[i] \in Entry
  BY ElementOfSeq DEF Filed
<1>3. ASSUME NEW i \in 1..Len(t) PROVE t[i].peer \in Peers /\ t[i].age \in 0..(OneHour + 1)
  BY <1>2 DEF Entry
<1> QED BY <1>1, <1>2, <1>3 DEF Filed

\* What the table says of p.
LEMMA ListedPlace ==
  ASSUME Filed(table), NEW p, Listed(p)
  PROVE  Place(p) \in 1..Len(table) /\ table[Place(p)].peer = p
<1>1. \E i \in DOMAIN table : table[i].peer = p
  BY DEF Listed
<1>2. Place(p) \in DOMAIN table /\ table[Place(p)].peer = p
  BY <1>1 DEF Place
<1> QED BY <1>2, EntryTypes

\* Whatever part of a table, in its order, is a table.
LEMMA PartKeeps ==
  ASSUME NEW t, Filed(t), NEW u, u \in Seq(Entry), NEW f,
         \A i \in 1..Len(u) : f[i] \in 1..Len(t) /\ u[i] = t[f[i]],
         \A i, j \in 1..Len(u) : i < j => f[i] < f[j]
  PROVE  Filed(u)
<1>1. /\ Len(t) \in Nat /\ DOMAIN t = 1..Len(t)
      /\ \A i \in 1..Len(t) : t[i].count \in 1..(MaxTries + Malicious)
  BY EntryTypes
<1>2. Len(u) \in Nat /\ DOMAIN u = 1..Len(u)
  BY LenProperties
<1>3. \A i \in DOMAIN u : u[i].count \in 1..(MaxTries + Malicious)
  BY <1>1, <1>2
<1>4. ASSUME NEW i \in DOMAIN u, NEW j \in DOMAIN u, u[i].peer = u[j].peer PROVE i = j
  <2>1. f[i] \in 1..Len(t) /\ f[j] \in 1..Len(t) /\ t[f[i]].peer = t[f[j]].peer
    BY <1>2, <1>4
  <2>2. f[i] = f[j]
    BY <1>1, <2>1 DEF Filed
  <2>3. ~(f[i] < f[j]) /\ ~(f[j] < f[i])
    BY <1>1, <2>1, <2>2
  <2> QED BY <1>2, <2>3
<1>5. ASSUME NEW i \in DOMAIN u, NEW j \in DOMAIN u, i < j PROVE u[j].age <= u[i].age
  <2>1. f[i] \in 1..Len(t) /\ f[j] \in 1..Len(t) /\ f[i] < f[j] /\ u[i] = t[f[i]] /\ u[j] = t[f[j]]
    BY <1>2, <1>5
  <2>2. t[f[j]].age <= t[f[i]].age
    BY <1>1, <2>1 DEF Filed
  <2> QED BY <2>1, <2>2
<1> QED BY <1>3, <1>4, <1>5 DEF Filed

\* The table without p.
LEMMA WithoutKeeps ==
  ASSUME Filed(table), NEW p
  PROVE  /\ Filed(Without(p)) /\ ~In(Without(p), p)
         /\ Len(Without(p)) <= Len(table) /\ (Listed(p) => Len(Without(p)) = Len(table) - 1)
         /\ \A q : q # p => (In(Without(p), q) <=> Listed(q))
         /\ \A i \in DOMAIN Without(p) : \E j \in DOMAIN table : Without(p)[i] = table[j]
<1> DEFINE n == Len(table)
<1>1. n \in Nat /\ DOMAIN table = 1..n
  BY EntryTypes
<1>2. CASE ~Listed(p)
  <2>1. Without(p) = table
    BY <1>2 DEF Without
  <2>2. \A q : In(table, q) <=> Listed(q)
    BY DEF In, Listed
  <2>3. Len(table) <= Len(table)
    BY <1>1
  <2> QED BY <1>2, <2>1, <2>2, <2>3
<1>3. CASE Listed(p)
  <2> DEFINE k == Place(p)
  <2> DEFINE t == Without(p)
  <2>1. k \in 1..n /\ table[k].peer = p
    BY <1>3, ListedPlace
  <2>2. t = RemoveAt(table, k)
    BY <1>3 DEF Without
  <2>3. table \in Seq(Entry)
    BY DEF Filed
  <2> HIDE DEF k, t
  <2>4. /\ t \in Seq(Entry) /\ Len(t) = n - 1
        /\ \A i \in 1 .. n - 1 : t[i] = IF i < k THEN table[i] ELSE table[i + 1]
    BY <2>1, <2>2, <2>3, RemoveAtProperties
  <2>5. DOMAIN t = 1 .. n - 1
    BY <2>4, LenProperties
  <2> DEFINE f == [i \in 1 .. n - 1 |-> IF i < k THEN i ELSE i + 1]
  <2>6. \A i \in 1 .. n - 1 : f[i] \in 1..n /\ f[i] # k /\ t[i] = table[f[i]]
    BY <1>1, <2>1, <2>4
  <2>7. \A i, j \in 1 .. n - 1 : i < j => f[i] < f[j]
    BY <1>1, <2>1
  <2>8. \A j \in 1..n : j # k => \E i \in 1 .. n - 1 : f[i] = j
    <3> SUFFICES ASSUME NEW j \in 1..n, j # k PROVE \E i \in 1 .. n - 1 : f[i] = j
      OBVIOUS
    <3>1. CASE j < k
      <4>1. j \in 1 .. n - 1 /\ f[j] = j
        BY <1>1, <2>1, <3>1
      <4> QED BY <4>1
    <3>2. CASE ~(j < k)
      <4>1. j - 1 \in 1 .. n - 1 /\ ~(j - 1 < k) /\ (j - 1) + 1 = j
        BY <1>1, <2>1, <3>2
      <4>2. f[j - 1] = j
        BY <4>1
      <4> QED BY <4>1, <4>2
    <3> QED BY <3>1, <3>2
  <2> HIDE DEF f, n
  <2>9. Filed(t)
    <3>1. \A i \in 1..Len(t) : f[i] \in 1..Len(table) /\ t[i] = table[f[i]]
      BY <2>4, <2>6 DEF n
    <3>2. \A i, j \in 1..Len(t) : i < j => f[i] < f[j]
      BY <2>4, <2>7
    <3>3. t \in Seq(Entry)
      BY <2>4
    <3> QED BY <3>1, <3>2, <3>3, PartKeeps
  <2>10. ~In(t, p)
    <3>1. \A j \in 1..n : table[j].peer = p => j = k
      BY <1>1, <2>1 DEF Filed
    <3> QED BY <2>5, <2>6, <3>1 DEF In
  <2>11. \A q : q # p => (In(t, q) <=> Listed(q))
    <3> SUFFICES ASSUME NEW q, q # p PROVE In(t, q) <=> Listed(q)
      OBVIOUS
    <3>1. ASSUME In(t, q) PROVE Listed(q)
      BY <1>1, <2>5, <2>6, <3>1 DEF In, Listed
    <3>2. ASSUME Listed(q) PROVE In(t, q)
      <4>1. PICK j \in 1..n : table[j].peer = q
        BY <1>1, <3>2 DEF Listed
      <4>2. j # k
        BY <2>1, <4>1
      <4>3. PICK i \in 1 .. n - 1 : f[i] = j
        BY <2>8, <4>2
      <4> QED BY <2>5, <2>6, <4>1, <4>3 DEF In
    <3> QED BY <3>1, <3>2
  <2>12. \A i \in DOMAIN t : \E j \in DOMAIN table : t[i] = table[j]
    BY <1>1, <2>5, <2>6
  <2>13. Len(t) <= n
    BY <1>1, <2>4
  <2> QED BY <2>4, <2>9, <2>10, <2>11, <2>12, <2>13 DEF t, n
<1> QED BY <1>2, <1>3

\* The table without its first n entries.
LEMMA RestKeeps ==
  ASSUME NEW t, Filed(t), NEW n \in 0..Len(t)
  PROVE  LET u == SubSeq(t, n + 1, Len(t)) IN
         /\ Filed(u) /\ Len(u) = Len(t) - n
         /\ \A q : In(u, q) <=> \E i \in DOMAIN t : i > n /\ t[i].peer = q
         /\ \A i \in DOMAIN u : \E j \in DOMAIN t : u[i] = t[j]
<1> DEFINE u == SubSeq(t, n + 1, Len(t))
<1> DEFINE m == Len(t)
<1>1. m \in Nat /\ DOMAIN t = 1..m /\ t \in Seq(Entry)
  BY EntryTypes DEF Filed
<1>2. /\ u \in Seq(Entry) /\ Len(u) = m - n
      /\ \A i \in 1 .. m - n : u[i] = t[i + n]
  BY <1>1, Rest
<1> HIDE DEF u, m
<1>3. DOMAIN u = 1 .. m - n
  BY <1>2, LenProperties
<1> DEFINE f == [i \in 1 .. m - n |-> i + n]
<1>4. \A i \in 1 .. m - n : f[i] \in 1..m /\ f[i] > n /\ u[i] = t[f[i]]
  BY <1>1, <1>2 DEF m
<1>5. \A i, j \in 1 .. m - n : i < j => f[i] < f[j]
  BY <1>1 DEF m
<1>6. \A j \in 1..m : j > n => \E i \in 1 .. m - n : f[i] = j
  <2> SUFFICES ASSUME NEW j \in 1..m, j > n PROVE \E i \in 1 .. m - n : f[i] = j
    OBVIOUS
  <2>1. j - n \in 1 .. m - n /\ (j - n) + n = j
    BY <1>1 DEF m
  <2>2. f[j - n] = j
    BY <2>1
  <2> QED BY <2>1, <2>2
<1> HIDE DEF f
<1>7. Filed(u)
  <2>1. \A i \in 1..Len(u) : f[i] \in 1..Len(t) /\ u[i] = t[f[i]]
    BY <1>2, <1>4 DEF m
  <2>2. \A i, j \in 1..Len(u) : i < j => f[i] < f[j]
    BY <1>2, <1>5
  <2>3. u \in Seq(Entry)
    BY <1>2
  <2> QED BY <2>1, <2>2, <2>3, PartKeeps
<1>8. \A q : In(u, q) <=> \E i \in DOMAIN t : i > n /\ t[i].peer = q
  <2> SUFFICES ASSUME NEW q PROVE In(u, q) <=> \E i \in DOMAIN t : i > n /\ t[i].peer = q
    OBVIOUS
  <2>1. ASSUME In(u, q) PROVE \E i \in DOMAIN t : i > n /\ t[i].peer = q
    BY <1>1, <1>3, <1>4, <2>1 DEF In
  <2>2. ASSUME NEW j \in DOMAIN t, j > n, t[j].peer = q PROVE In(u, q)
    <3>1. PICK i \in 1 .. m - n : f[i] = j
      BY <1>1, <1>6, <2>2
    <3>2. i \in DOMAIN u /\ u[i] = t[j]
      BY <1>3, <1>4, <3>1
    <3> QED BY <2>2, <3>2 DEF In
  <2> QED BY <2>1, <2>2
<1>9. \A i \in DOMAIN u : \E j \in DOMAIN t : u[i] = t[j]
  BY <1>1, <1>3, <1>4
<1> QED BY <1>2, <1>7, <1>8, <1>9 DEF u, m

\* The table with a fresh entry for a peer it does not name.
LEMMA AppendKeeps ==
  ASSUME NEW t, Filed(t), NEW p \in Peers, ~In(t, p), NEW n \in 1..(MaxTries + Malicious)
  PROVE  LET e == [peer |-> p, count |-> n, age |-> 0]
             u == Append(t, e) IN
         /\ Filed(u) /\ Len(u) = Len(t) + 1
         /\ \A q : In(u, q) <=> In(t, q) \/ q = p
         /\ \A i \in DOMAIN t : i \in DOMAIN u /\ u[i] = t[i]
         /\ \A i \in DOMAIN u : (i \in DOMAIN t /\ u[i] = t[i]) \/ u[i] = e
<1> DEFINE e == [peer |-> p, count |-> n, age |-> 0]
<1> DEFINE u == Append(t, e)
<1> DEFINE m == Len(t)
<1>1. /\ m \in Nat /\ DOMAIN t = 1..m /\ t \in Seq(Entry)
      /\ \A i \in 1..m : t[i].age \in 0..(OneHour + 1) /\ t[i].count \in 1..(MaxTries + Malicious)
  BY EntryTypes DEF Filed
<1>2. MaxTries \in Nat /\ Malicious \in Nat \ {0} /\ OneHour \in Nat
  BY BlockListAssumption
<1>3. e \in Entry /\ e.peer = p /\ e.age = 0 /\ e.count = n
  BY <1>2 DEF Entry
<1> HIDE DEF e
<1>4. /\ u \in Seq(Entry) /\ Len(u) = m + 1 /\ u[m + 1] = e
      /\ \A i \in 1..m : u[i] = t[i]
  BY <1>1, <1>3, AppendProperties
<1> HIDE DEF u, m
<1>5. DOMAIN u = 1 .. m + 1
  BY <1>4, LenProperties
<1>6. \A i \in DOMAIN u : (i \in DOMAIN t /\ u[i] = t[i]) \/ (i = m + 1 /\ u[i] = e)
  BY <1>1, <1>4, <1>5
<1>7. \A i \in DOMAIN t : i \in DOMAIN u /\ u[i] = t[i]
  BY <1>1, <1>4, <1>5
<1>8. \A q : In(u, q) <=> In(t, q) \/ q = p
  <2> SUFFICES ASSUME NEW q PROVE In(u, q) <=> In(t, q) \/ q = p
    OBVIOUS
  <2>1. m + 1 \in DOMAIN u /\ u[m + 1].peer = p
    BY <1>1, <1>3, <1>4, <1>5
  <2> QED BY <1>3, <1>6, <1>7, <2>1 DEF In
<1>9. Filed(u)
  <2>1. \A i \in DOMAIN u : u[i].count \in 1..(MaxTries + Malicious)
    BY <1>1, <1>3, <1>6
  <2>2. ASSUME NEW i \in DOMAIN u, NEW j \in DOMAIN u, u[i].peer = u[j].peer PROVE i = j
    <3>1. i \in DOMAIN t => t[i].peer # p
      BY DEF In
    <3>2. j \in DOMAIN t => t[j].peer # p
      BY DEF In
    <3> QED BY <1>3, <1>6, <2>2, <3>1, <3>2 DEF Filed
  <2>3. ASSUME NEW i \in DOMAIN u, NEW j \in DOMAIN u, i < j PROVE u[j].age <= u[i].age
    <3>1. i \in 1..m /\ u[i] = t[i]
      BY <1>1, <1>4, <1>5, <2>3
    <3>2. CASE j \in DOMAIN t
      <4>1. u[j] = t[j]
        BY <1>7, <3>2
      <4>2. t[j].age <= t[i].age
        BY <1>1, <2>3, <3>1, <3>2 DEF Filed
      <4> QED BY <3>1, <4>1, <4>2
    <3>3. CASE j \notin DOMAIN t
      <4>1. u[j].age = 0
        BY <1>3, <1>6, <3>3
      <4>2. t[i].age \in 0..(OneHour + 1)
        BY <1>1, <3>1
      <4> QED BY <1>2, <3>1, <4>1, <4>2
    <3> QED BY <3>2, <3>3
  <2> QED BY <1>4, <2>1, <2>2, <2>3 DEF Filed
<1> QED BY <1>4, <1>6, <1>7, <1>8, <1>9 DEF u, e, m

-----------------------------------------------------------------------------
(* The connections.                                                        *)

Conns(o) == UNION {{<<p, s, n>> : n \in 1..o[p][s]} : p \in Peers, s \in Stages}
Opens == [Peers -> [Stages -> Nat]]

LEMMA InConns ==
  ASSUME NEW o, o \in Opens
  PROVE  /\ \A p \in Peers, s \in Stages : \A n \in 1..o[p][s] : <<p, s, n>> \in Conns(o)
         /\ \A x \in Conns(o) : \E p \in Peers, s \in Stages : \E n \in 1..o[p][s] : x = <<p, s, n>>
<1>1. ASSUME NEW p \in Peers, NEW s \in Stages, NEW n \in 1..o[p][s] PROVE <<p, s, n>> \in Conns(o)
  <2> DEFINE y == {<<p, s, k>> : k \in 1..o[p][s]}
  <2> DEFINE Y == {{<<q, r, k>> : k \in 1..o[q][r]} : q \in Peers, r \in Stages}
  <2>1. y \in Y /\ <<p, s, n>> \in y
    OBVIOUS
  <2>2. Conns(o) = UNION Y
    BY DEF Conns
  <2> HIDE DEF y, Y
  <2> QED BY <2>1, <2>2
<1>2. ASSUME NEW x \in Conns(o)
      PROVE  \E p \in Peers, s \in Stages : \E n \in 1..o[p][s] : x = <<p, s, n>>
  <2>1. PICK y \in {{<<q, r, k>> : k \in 1..o[q][r]} : q \in Peers, r \in Stages} : x \in y
    BY DEF Conns
  <2>2. PICK p \in Peers, s \in Stages : y = {<<p, s, k>> : k \in 1..o[p][s]}
    OBVIOUS
  <2> QED BY <2>1, <2>2
<1> QED BY <1>1, <1>2

\* No counter exceeds the number of connections.
LEMMA OpenFits ==
  ASSUME NEW o, o \in Opens, IsFiniteSet(Conns(o)), NEW p \in Peers, NEW s \in Stages
  PROVE  o[p][s] <= Cardinality(Conns(o)) /\ Cardinality(Conns(o)) \in Nat
<1> DEFINE n == o[p][s]
<1> DEFINE f == [i \in 1..n |-> <<p, s, i>>]
<1>1. n \in Nat
  BY DEF Opens
<1>2. \A i \in 1..n : <<p, s, i>> \in Conns(o)
  BY InConns
<1> HIDE DEF n
<1>3. f \in Injection(1..n, Conns(o))
  <2>1. f \in [1..n -> Conns(o)]
    BY <1>2
  <2>2. IsInjective(f)
    BY DEF IsInjective
  <2> QED BY <2>1, <2>2 DEF Injection
<1> HIDE DEF f
<1>4. Cardinality(1..n) <= Cardinality(Conns(o))
  BY <1>3, FS_Injection
<1>5. Cardinality(1..n) = n
  <2>1. Cardinality(1..n) = IF 1 > n THEN 0 ELSE n - 1 + 1
    BY <1>1, FS_Interval
  <2> QED BY <1>1, <2>1
<1> QED BY <1>4, <1>5, FS_CardinalityType DEF n

\* One connection more, and one less.
LEMMA OneMore ==
  ASSUME NEW o, o \in Opens, IsFiniteSet(Conns(o)), NEW p \in Peers, NEW s \in Stages,
         NEW u, u \in Opens,
         \A q \in Peers, r \in Stages : u[q][r] = IF q = p /\ r = s THEN o[q][r] + 1 ELSE o[q][r]
  PROVE  /\ IsFiniteSet(Conns(u))
         /\ Cardinality(Conns(u)) = Cardinality(Conns(o)) + 1
<1> DEFINE m == o[p][s]
<1>1. m \in Nat /\ u \in Opens
  BY DEF Opens
<1>2. \A q \in Peers, r \in Stages :
        /\ u[q][r] = IF q = p /\ r = s THEN m + 1 ELSE o[q][r]
        /\ o[q][r] \in Nat
  BY DEF Opens
<1>3. Conns(u) = Conns(o) \cup {<<p, s, m + 1>>}
  <2>1. ASSUME NEW x \in Conns(u) PROVE x \in Conns(o) \cup {<<p, s, m + 1>>}
    <3>1. PICK q \in Peers, r \in Stages : \E n \in 1..u[q][r] : x = <<q, r, n>>
      BY <2>1, InConns
    <3>2. PICK n \in 1..u[q][r] : x = <<q, r, n>>
      BY <3>1
    <3>3. CASE q = p /\ r = s /\ n = m + 1
      BY <3>2, <3>3
    <3>4. CASE ~(q = p /\ r = s /\ n = m + 1)
      <4>1. n \in 1..o[q][r]
        BY <1>1, <1>2, <3>2, <3>4
      <4> QED BY <3>2, <4>1, InConns
    <3> QED BY <3>3, <3>4
  <2>2. ASSUME NEW x \in Conns(o) PROVE x \in Conns(u)
    <3>1. PICK q \in Peers, r \in Stages : \E n \in 1..o[q][r] : x = <<q, r, n>>
      BY <2>2, InConns
    <3>2. PICK n \in 1..o[q][r] : x = <<q, r, n>>
      BY <3>1
    <3>3. n \in 1..u[q][r]
      BY <1>1, <1>2, <3>2
    <3> QED BY <1>1, <3>2, <3>3, InConns
  <2>3. <<p, s, m + 1>> \in Conns(u)
    <3>1. m + 1 \in 1..u[p][s]
      BY <1>1, <1>2
    <3> QED BY <1>1, <3>1, InConns
  <2> QED BY <2>1, <2>2, <2>3
<1>4. <<p, s, m + 1>> \notin Conns(o)
  <2> SUFFICES ASSUME <<p, s, m + 1>> \in Conns(o) PROVE FALSE
    OBVIOUS
  <2>1. PICK q \in Peers, r \in Stages : \E n \in 1..o[q][r] : <<p, s, m + 1>> = <<q, r, n>>
    BY InConns
  <2>2. m + 1 \in 1..m
    BY <2>1
  <2> QED BY <1>1, <2>2
<1> HIDE DEF m
<1>5. /\ IsFiniteSet(Conns(o) \cup {<<p, s, m + 1>>})
      /\ Cardinality(Conns(o) \cup {<<p, s, m + 1>>}) = Cardinality(Conns(o)) + 1
  BY <1>4, FS_AddElement
<1> QED BY <1>3, <1>5

LEMMA OneFewer ==
  ASSUME NEW o, o \in Opens, IsFiniteSet(Conns(o)), NEW p \in Peers, NEW s \in Stages, o[p][s] > 0,
         NEW u, u \in Opens,
         \A q \in Peers, r \in Stages : u[q][r] = IF q = p /\ r = s THEN o[q][r] - 1 ELSE o[q][r]
  PROVE  /\ IsFiniteSet(Conns(u))
         /\ Cardinality(Conns(u)) = Cardinality(Conns(o)) - 1
<1>1. \A q \in Peers, r \in Stages : u[q][r] \in Nat /\ o[q][r] \in Nat
  BY DEF Opens
<1>2. \A q \in Peers, r \in Stages : o[q][r] = IF q = p /\ r = s THEN u[q][r] + 1 ELSE u[q][r]
  BY <1>1
<1>3. Conns(u) \subseteq Conns(o)
  <2> SUFFICES ASSUME NEW x \in Conns(u) PROVE x \in Conns(o)
    OBVIOUS
  <2>1. PICK q \in Peers, r \in Stages : \E n \in 1..u[q][r] : x = <<q, r, n>>
    BY InConns
  <2>2. PICK n \in 1..u[q][r] : x = <<q, r, n>>
    BY <2>1
  <2>3. u[q][r] \in Nat /\ o[q][r] \in Nat /\ u[q][r] <= o[q][r]
    BY <1>1, <1>2
  <2>4. n \in 1..o[q][r]
    BY <2>2, <2>3
  <2> QED BY <2>2, <2>4, InConns
<1>4. IsFiniteSet(Conns(u)) /\ Cardinality(Conns(u)) \in Nat
  BY <1>3, FS_Subset, FS_CardinalityType
<1>5. Cardinality(Conns(o)) = Cardinality(Conns(u)) + 1
  BY <1>2, <1>4, OneMore
<1> QED BY <1>4, <1>5

-----------------------------------------------------------------------------
(* What the operations on the table keep.                                  *)

\* What a step leaves of the table, the pipe and the strikes.
Kept ==
  /\ Filed(table') /\ Len(table') < MaxEntries
  /\ pipe' \in Seq(Command)
  /\ strikes' \in [Peers -> 0..Cap] /\ Earned(table', strikes')
  /\ Firewall => \A p \in Peers : Leads(p, rules[p], pipe', Wanted(table', p))

LEMMA LeadsRange ==
  ASSUME NEW s \in Seq(Command), NEW p, NEW a, NEW b, Leads(p, a, s, b)
  PROVE  a \in {0, 1} /\ b \in {0, 1}
<1>1. PICK f \in [0..Len(s) -> {0, 1}] : f[0] = a /\ f[Len(s)] = b
  BY DEF Leads, Takes
<1>2. Len(s) \in Nat
  BY LenProperties
<1> QED BY <1>1, <1>2

\* Lines written now follow what is in the pipe.
LEMMA WriteLeads ==
  ASSUME IndInv, Running, Firewall, NEW lines, lines \in Seq(Command), NEW p \in Peers,
         NEW w \in {0, 1}, Leads(p, Wanted(table, p), lines, w)
  PROVE  Leads(p, rules[p], pipe \o lines, w)
<1>1. pipe \in Seq(Command) /\ Leads(p, rules[p], pipe, Wanted(table, p))
  BY DEF IndInv, TypeOK, Follows
<1>2. rules[p] \in {0, 1} /\ Wanted(table, p) \in {0, 1}
  BY <1>1, LeadsRange
<1> QED BY <1>1, <1>2, LeadsConcat

LEMMA LeadsLine ==
  ASSUME NEW c \in Command, NEW p, NEW b \in {0, 1},
         c.peer = p => c.op = IF b = 0 THEN "add" ELSE "del"
  PROVE  /\ <<c>> \in Seq(Command)
         /\ c.peer = p => Leads(p, b, <<c>>, 1 - b)
         /\ c.peer # p => Leads(p, b, <<c>>, b)
<1>1. <<c>> \in Seq(Command) /\ DOMAIN <<c>> = {1} /\ <<c>>[1] = c
  BY Single
<1>2. ASSUME c.peer = p PROVE Leads(p, b, <<c>>, 1 - b)
  BY <1>1, <1>2, LeadsOne
<1>3. ASSUME c.peer # p PROVE Leads(p, b, <<c>>, b)
  BY <1>1, <1>3, LeadsQuiet
<1> QED BY <1>1, <1>2, <1>3

\* Who is in the table the invariant speaks of.
LEMMA Now ==
  ASSUME IndInv
  PROVE  /\ Filed(table) /\ Len(table) \in Nat /\ Len(table) < MaxEntries /\ pipe \in Seq(Command)
         /\ strikes \in [Peers -> 0..Cap] /\ rules \in [Peers -> Nat]
         /\ MaxTries \in Nat /\ MaxEntries \in Nat /\ MaxEntries >= 2 /\ Malicious \in Nat \ {0}
         /\ \A p : In(table, p) <=> Listed(p)
BY EntryTypes, BlockListAssumption DEF IndInv, TypeOK, In, Listed

\* A step that leaves table, pipe and strikes alone.
LEMMA IdleKeeps ==
  ASSUME IndInv, Running, UNCHANGED <<table, pipe, strikes>>
  PROVE  Kept
<1>1. Firewall => \A p \in Peers : Leads(p, rules[p], pipe, Wanted(table, p))
  BY DEF IndInv, Follows
<1> QED BY <1>1, Now DEF Kept, IndInv

\* An entry is renewed, and says no more than was reported.
LEMMA TouchedKeeps ==
  ASSUME IndInv, Running, NEW p \in Peers, Listed(p), NEW n \in 1..(MaxTries + Malicious),
         table' = Touched(p, n), UNCHANGED pipe,
         strikes' \in [Peers -> 0..Cap], \A q \in Peers : q # p => strikes'[q] = strikes[q],
         strikes'[p] = Cap \/ n <= strikes'[p]
  PROVE  Kept
<1> DEFINE e == [peer |-> p, count |-> n, age |-> 0]
<1> DEFINE w == Without(p)
<1>1. /\ Filed(table) /\ Len(table) \in Nat /\ Len(table) < MaxEntries
      /\ pipe \in Seq(Command) /\ \A q : In(table, q) <=> Listed(q)
  BY Now
<1>2. /\ Filed(w) /\ ~In(w, p) /\ Len(w) = Len(table) - 1
      /\ \A q : q # p => (In(w, q) <=> Listed(q))
      /\ \A i \in DOMAIN w : \E j \in DOMAIN table : w[i] = table[j]
  BY <1>1, WithoutKeeps
<1>3. table' = Append(w, e)
  BY DEF Touched
<1> HIDE DEF w
<1>4. /\ Filed(table') /\ Len(table') = Len(w) + 1
      /\ \A q : In(table', q) <=> In(w, q) \/ q = p
      /\ \A i \in DOMAIN table' : (i \in DOMAIN w /\ table'[i] = w[i]) \/ table'[i] = e
  BY <1>2, <1>3, AppendKeeps
<1>5. Len(table') < MaxEntries
  BY <1>1, <1>2, <1>4
<1>6. Earned(table', strikes')
  <2> SUFFICES ASSUME NEW i \in DOMAIN table'
               PROVE  LET c == table'[i] IN strikes'[c.peer] = Cap \/ c.count <= strikes'[c.peer]
    BY DEF Earned
  <2>1. CASE table'[i] = e
    BY <2>1
  <2>2. CASE i \in DOMAIN w /\ table'[i] = w[i]
    <3>1. PICK j \in DOMAIN table : w[i] = table[j]
      BY <1>2, <2>2
    <3>2. table[j].peer # p
      BY <1>2, <2>2, <3>1 DEF In
    <3>3. table[j].peer \in Peers
      BY <1>1, EntryTypes
    <3>4. strikes[table[j].peer] = Cap \/ table[j].count <= strikes[table[j].peer]
      BY DEF IndInv, Earned
    <3> QED BY <2>2, <3>1, <3>2, <3>3, <3>4
  <2> QED BY <1>4, <2>1, <2>2
<1>7. \A q : Wanted(table', q) = Wanted(table, q)
  BY <1>1, <1>2, <1>4 DEF Wanted
<1>8. Firewall => \A q \in Peers : Leads(q, rules[q], pipe', Wanted(table', q))
  BY <1>7 DEF IndInv, Follows
<1> QED BY <1>1, <1>4, <1>5, <1>6, <1>8 DEF Kept

\* The lines have their type.
LEMMA LineTypes ==
  ASSUME NEW op \in {"add", "del"}, NEW p \in Peers
  PROVE  /\ [op |-> op, peer |-> p] \in Command
         /\ Line(op, p) \in Seq(Command)
         /\ Line(op, p) = IF Firewall THEN <<[op |-> op, peer |-> p]>> ELSE <<>>
<1>1. [op |-> op, peer |-> p] \in Command
  BY DEF Command
<1>2. <<[op |-> op, peer |-> p]>> \in Seq(Command) /\ <<>> \in Seq(Command)
  BY <1>1, Single, EmptySeq
<1> QED BY <1>1, <1>2 DEF Line

\* The entry of p goes, and its rule with it.
LEMMA RemovedKeeps ==
  ASSUME IndInv, Running, NEW p \in Peers, Removed(p), strikes' = [strikes EXCEPT ![p] = 0]
  PROVE  Kept
<1>1. /\ Filed(table) /\ Len(table) \in Nat /\ Len(table) < MaxEntries
      /\ pipe \in Seq(Command) /\ \A q : In(table, q) <=> Listed(q)
      /\ strikes \in [Peers -> 0..Cap] /\ MaxTries \in Nat /\ MaxEntries \in Nat
  BY Now
<1> DEFINE w == Without(p)
<1>2. /\ Filed(w) /\ ~In(w, p) /\ Len(w) <= Len(table)
      /\ \A q : q # p => (In(w, q) <=> Listed(q))
      /\ \A i \in DOMAIN w : \E j \in DOMAIN table : w[i] = table[j]
  BY <1>1, WithoutKeeps
<1>3. table' = w
  BY DEF Removed
<1> HIDE DEF w
<1>4. Len(table') < MaxEntries
  <2>1. Len(w) \in Nat
    BY <1>2, EntryTypes
  <2> QED BY <1>1, <1>2, <1>3, <2>1
<1>5. strikes' \in [Peers -> 0..Cap] /\ \A q \in Peers : q # p => strikes'[q] = strikes[q]
  BY <1>1 DEF Cap
<1>6. Earned(table', strikes')
  <2> SUFFICES ASSUME NEW i \in DOMAIN w
               PROVE  strikes'[w[i].peer] = Cap \/ w[i].count <= strikes'[w[i].peer]
    BY <1>3 DEF Earned
  <2>1. PICK j \in DOMAIN table : w[i] = table[j]
    BY <1>2
  <2>2. table[j].peer # p
    BY <1>2, <2>1 DEF In
  <2>3. table[j].peer \in Peers
    BY <1>1, EntryTypes
  <2>4. strikes[table[j].peer] = Cap \/ table[j].count <= strikes[table[j].peer]
    BY DEF IndInv, Earned
  <2> QED BY <1>5, <2>1, <2>2, <2>3, <2>4
<1>7. pipe' = pipe \/ (Listed(p) /\ pipe' = pipe \o Line("del", p))
  BY DEF Removed, Write
<1>8. pipe' \in Seq(Command)
  BY <1>1, <1>7, LineTypes, ConcatProperties
<1>9. ASSUME Firewall, NEW q \in Peers PROVE Leads(q, rules[q], pipe', Wanted(table', q))
  <2>1. Leads(q, rules[q], pipe, Wanted(table, q))
    BY <1>9 DEF IndInv, Follows
  <2>2. CASE ~Listed(p)
    <3>1. Wanted(table', q) = Wanted(table, q)
      BY <1>1, <1>2, <1>3, <2>2 DEF Wanted
    <3>2. pipe' = pipe
      BY <1>7, <2>2
    <3> QED BY <2>1, <3>1, <3>2
  <2>3. CASE Listed(p)
    <3> DEFINE c == [op |-> "del", peer |-> p]
    <3>1. pipe' = pipe \o <<c>> /\ c \in Command
      BY <1>9, <2>3, LineTypes DEF Removed, Write
    <3>2. c.peer = p /\ c.op = "del"
      OBVIOUS
    <3>3. Wanted(table', q) = (IF q = p THEN 0 ELSE Wanted(table, q)) /\ Wanted(table, p) = 1
      BY <1>1, <1>2, <1>3, <2>3 DEF Wanted
    <3>4. Wanted(table, q) \in {0, 1}
      BY DEF Wanted
    <3> HIDE DEF c
    <3>5. <<c>> \in Seq(Command) /\ Leads(q, Wanted(table, q), <<c>>, Wanted(table', q))
      <4>1. CASE q = p
        <5>1. <<c>> \in Seq(Command) /\ Leads(q, 1, <<c>>, 1 - 1)
          BY <3>1, <3>2, <4>1, LeadsLine
        <5> QED BY <3>3, <4>1, <5>1
      <4>2. CASE q # p
        BY <3>1, <3>2, <3>3, <3>4, <4>2, LeadsLine
      <4> QED BY <4>1, <4>2
    <3>6. Wanted(table', q) \in {0, 1}
      BY DEF Wanted
    <3> QED BY <1>9, <3>1, <3>5, <3>6, WriteLeads
  <2> QED BY <2>2, <2>3
<1> QED BY <1>2, <1>3, <1>4, <1>5, <1>6, <1>8, <1>9 DEF Kept

\* A new entry, in a full table for the eldest one; the rules change places with them.
LEMMA InsertedKeeps ==
  ASSUME IndInv, Running, NEW p \in Peers, ~Listed(p), Inserted(p),
         strikes' \in [Peers -> 0..Cap], \A q \in Peers : q # p => strikes'[q] = strikes[q],
         strikes'[p] >= 1
  PROVE  Kept
<1> DEFINE e == [peer |-> p, count |-> 1, age |-> 0]
<1> DEFINE t == Append(table, e)
<1> DEFINE add == [op |-> "add", peer |-> p]
<1>1. /\ Filed(table) /\ Len(table) \in Nat /\ Len(table) < MaxEntries
      /\ pipe \in Seq(Command) /\ \A q : In(table, q) <=> Listed(q)
      /\ MaxTries \in Nat /\ MaxEntries \in Nat /\ MaxEntries >= 2 /\ Malicious \in Nat \ {0}
  BY Now
<1>2. /\ Filed(t) /\ Len(t) = Len(table) + 1
      /\ \A q : In(t, q) <=> In(table, q) \/ q = p
      /\ \A i \in DOMAIN table : i \in DOMAIN t /\ t[i] = table[i]
      /\ \A i \in DOMAIN t : (i \in DOMAIN table /\ t[i] = table[i]) \/ t[i] = e
  <2>1. 1 \in 1..(MaxTries + Malicious) /\ ~In(table, p)
    BY <1>1
  <2> QED BY <1>1, <2>1, AppendKeeps
<1>3. \/ /\ Len(t) >= MaxEntries
         /\ table' = Tail(t) /\ Write(Line("del", Head(t).peer) \o Line("add", p))
      \/ /\ ~(Len(t) >= MaxEntries)
         /\ table' = t /\ Write(Line("add", p))
  BY DEF Inserted
<1>4. \A i \in DOMAIN t : t[i].peer \in Peers
  BY <1>2, EntryTypes
<1>5. Earned(t, strikes')
  <2> SUFFICES ASSUME NEW i \in DOMAIN t
               PROVE  strikes'[t[i].peer] = Cap \/ t[i].count <= strikes'[t[i].peer]
    BY DEF Earned
  <2>1. CASE t[i] = e
    BY <2>1
  <2>2. CASE i \in DOMAIN table /\ t[i] = table[i]
    <3>1. t[i].peer \in Peers /\ t[i].peer # p
      BY <1>1, <1>4, <2>2 DEF In
    <3>2. strikes[t[i].peer] = Cap \/ t[i].count <= strikes[t[i].peer]
      BY <2>2 DEF IndInv, Earned
    <3> QED BY <3>1, <3>2
  <2> QED BY <1>2, <2>1, <2>2
<1>6. add \in Command /\ add.peer = p /\ add.op = "add" /\ Line("add", p) \in Seq(Command)
  BY LineTypes
<1> HIDE DEF e, t, add
<1>7. CASE /\ ~(Len(t) >= MaxEntries)
           /\ table' = t /\ Write(Line("add", p))
  <2>1. pipe' \in Seq(Command)
    BY <1>1, <1>6, <1>7, ConcatProperties DEF Write
  <2>2. ASSUME Firewall, NEW q \in Peers PROVE Leads(q, rules[q], pipe', Wanted(table', q))
    <3>1. pipe' = pipe \o <<add>>
      BY <1>7, <2>2, LineTypes DEF Write, add
    <3>2. Wanted(table', q) = (IF q = p THEN 1 ELSE Wanted(table, q)) /\ Wanted(table, p) = 0
      BY <1>1, <1>2, <1>7 DEF Wanted
    <3>3. Wanted(table, q) \in {0, 1} /\ Wanted(table', q) \in {0, 1}
      BY DEF Wanted
    <3>4. <<add>> \in Seq(Command) /\ Leads(q, Wanted(table, q), <<add>>, Wanted(table', q))
      <4>1. CASE q = p
        <5>1. <<add>> \in Seq(Command) /\ Leads(q, 0, <<add>>, 1 - 0)
          BY <1>6, <4>1, LeadsLine
        <5> QED BY <3>2, <4>1, <5>1
      <4>2. CASE q # p
        BY <1>6, <3>2, <3>3, <4>2, LeadsLine
      <4> QED BY <4>1, <4>2
    <3> QED BY <2>2, <3>1, <3>3, <3>4, WriteLeads
  <2>3. Len(table') < MaxEntries
    BY <1>1, <1>2, <1>7
  <2>4. Earned(table', strikes')
    BY <1>5, <1>7
  <2> QED BY <1>2, <1>7, <2>1, <2>2, <2>3, <2>4 DEF Kept
<1>8. CASE /\ Len(t) >= MaxEntries
           /\ table' = Tail(t) /\ Write(Line("del", Head(t).peer) \o Line("add", p))
  <2> DEFINE v == t[1].peer
  <2> DEFINE del == [op |-> "del", peer |-> v]
  <2>1. t \in Seq(Entry) /\ t # <<>> /\ Len(t) \in Nat /\ 1 \in DOMAIN t
    <3>1. t \in Seq(Entry) /\ Len(t) \in Nat /\ Len(t) >= 2
      BY <1>1, <1>2, <1>8 DEF Filed
    <3>2. t # <<>>
      BY <3>1, EmptySeq
    <3>3. 1 \in DOMAIN t
      BY <3>1, LenProperties
    <3> QED BY <3>1, <3>2, <3>3
  <2>2. Head(t) = t[1] /\ v \in Peers
    BY <1>4, <2>1
  <2>3. v # p /\ In(table, v)
    <3>1. 1 \in 1..Len(table)
      BY <1>1, <1>2, <1>8
    <3>2. DOMAIN table = 1..Len(table)
      BY <1>1, EntryTypes
    <3>3. table[1] = t[1]
      BY <1>2, <3>1, <3>2
    <3> QED BY <1>1, <3>1, <3>2, <3>3 DEF In
  <2>4. table' = SubSeq(t, 1 + 1, Len(t))
    BY <1>8, <2>1, TailIsSubSeq
  <2>5. /\ Filed(table') /\ Len(table') = Len(t) - 1
        /\ \A q : In(table', q) <=> \E i \in DOMAIN t : i > 1 /\ t[i].peer = q
        /\ \A i \in DOMAIN table' : \E j \in DOMAIN t : table'[i] = t[j]
    <3>1. 1 \in 0..Len(t)
      BY <1>1, <1>2, <1>8
    <3> DEFINE r == SubSeq(t, 1 + 1, Len(t))
    <3>2. Filed(t)
      BY <1>2
    <3>3. /\ Filed(r) /\ Len(r) = Len(t) - 1
          /\ \A q : In(r, q) <=> \E i \in DOMAIN t : i > 1 /\ t[i].peer = q
          /\ \A i \in DOMAIN r : \E j \in DOMAIN t : r[i] = t[j]
      BY <3>1, <3>2, RestKeeps
    <3>4. table' = r
      BY <2>4
    <3> HIDE DEF r
    <3> QED BY <3>3, <3>4
  <2>6. \A q : In(table', q) <=> In(t, q) /\ q # v
    <3> SUFFICES ASSUME NEW q PROVE In(table', q) <=> In(t, q) /\ q # v
      OBVIOUS
    <3>1. \A i \in DOMAIN t : i > 1 <=> i # 1
      <4>1. DOMAIN t = 1..Len(t)
        BY <1>2, EntryTypes
      <4> QED BY <2>1, <4>1
    <3>2. \A i \in DOMAIN t : t[i].peer = v <=> i = 1
      BY <1>2, <2>1 DEF Filed
    <3> QED BY <2>5, <3>1, <3>2 DEF In
  <2>7. /\ Line("del", v) \in Seq(Command) /\ del \in Command /\ del.peer = v /\ del.op = "del"
        /\ Firewall => Line("del", v) = <<del>> /\ Line("add", p) = <<add>>
    BY <2>2, LineTypes DEF add
  <2> HIDE DEF v, del
  <2>8. pipe' = pipe \o (Line("del", v) \o Line("add", p))
    BY <1>8, <2>2 DEF Write, v
  <2>9. pipe' \in Seq(Command)
    <3>1. Line("del", v) \o Line("add", p) \in Seq(Command)
      BY <1>6, <2>7, ConcatProperties
    <3> QED BY <1>1, <2>8, <3>1, ConcatProperties
  <2>10. ASSUME Firewall, NEW q \in Peers PROVE Leads(q, rules[q], pipe', Wanted(table', q))
    <3> DEFINE a == Wanted(table, q)
    <3> DEFINE b == IF q = v THEN 0 ELSE a
    <3> DEFINE c == Wanted(table', q)
    <3>1. a \in {0, 1} /\ b \in {0, 1} /\ c \in {0, 1}
      BY DEF Wanted
    <3>2. c = IF q = p THEN 1 ELSE b
      BY <1>2, <2>3, <2>6 DEF Wanted
    <3>3. (q = v => a = 1) /\ (q = p => a = 0 /\ b = 0)
      BY <1>1, <2>3 DEF Wanted
    <3> HIDE DEF a, c
    <3>4. <<del>> \in Seq(Command) /\ Leads(q, a, <<del>>, b)
      <4>1. CASE q = v
        <5>1. <<del>> \in Seq(Command) /\ Leads(q, 1, <<del>>, 1 - 1)
          BY <2>7, <4>1, LeadsLine
        <5> QED BY <3>3, <4>1, <5>1
      <4>2. CASE q # v
        BY <2>7, <3>1, <4>2, LeadsLine
      <4> QED BY <4>1, <4>2
    <3> HIDE DEF b
    <3>5. <<add>> \in Seq(Command) /\ Leads(q, b, <<add>>, c)
      <4>1. CASE q = p
        <5>1. <<add>> \in Seq(Command) /\ Leads(q, 0, <<add>>, 1 - 0)
          BY <1>6, <4>1, LeadsLine
        <5> QED BY <3>2, <3>3, <4>1, <5>1
      <4>2. CASE q # p
        BY <1>6, <3>1, <3>2, <4>2, LeadsLine
      <4> QED BY <4>1, <4>2
    <3>6. Leads(q, a, <<del>> \o <<add>>, c)
      BY <3>1, <3>4, <3>5, LeadsConcat
    <3>7. <<del>> \o <<add>> \in Seq(Command)
      BY <3>4, <3>5, ConcatProperties
    <3>8. pipe' = pipe \o (<<del>> \o <<add>>)
      BY <2>7, <2>8, <2>10
    <3>9. Leads(q, rules[q], pipe \o (<<del>> \o <<add>>), c)
      BY <2>10, <3>1, <3>6, <3>7, WriteLeads DEF a
    <3> QED BY <3>8, <3>9 DEF c
  <2>11. Len(table') < MaxEntries
    BY <1>1, <1>2, <2>5
  <2>12. Earned(table', strikes')
    <3> SUFFICES ASSUME NEW i \in DOMAIN table'
                 PROVE  LET c == table'[i] IN strikes'[c.peer] = Cap \/ c.count <= strikes'[c.peer]
      BY DEF Earned
    <3>1. PICK j \in DOMAIN t : table'[i] = t[j]
      BY <2>5
    <3> QED BY <1>5, <3>1 DEF Earned
  <2> QED BY <2>5, <2>9, <2>10, <2>11, <2>12 DEF Kept
<1> QED BY <1>3, <1>7, <1>8

\* A report, or none, whatever the table holds of p.
LEMMA ReportKeeps ==
  ASSUME IndInv, Running, NEW p \in Peers, NEW level \in {Malformed, Bad, Suspicious, Malicious},
         Report(p, level) \/ UNCHANGED <<table, pipe, strikes>>
  PROVE  Kept
<1>1. /\ Filed(table) /\ strikes \in [Peers -> 0..Cap] /\ MaxTries \in Nat
      /\ Malicious \in Nat \ {0} /\ level \in Nat \ {0} /\ level <= Malicious
  BY Now, BlockListAssumption
<1>2. CASE UNCHANGED <<table, pipe, strikes>>
  BY <1>2, IdleKeeps
<1>3. CASE Update(p, level) /\ strikes' = [strikes EXCEPT ![p] = Lesser(Cap, @ + level)]
  <2>1. /\ strikes' \in [Peers -> 0..Cap] /\ \A q \in Peers : q # p => strikes'[q] = strikes[q]
        /\ strikes'[p] = Lesser(Cap, strikes[p] + level)
    BY <1>1, <1>3 DEF Lesser, Cap
  <2>2. strikes'[p] = Cap \/ strikes'[p] = strikes[p] + level
    BY <2>1 DEF Lesser
  <2>3. strikes[p] \in Nat /\ Cap \in Nat \ {0}
    BY <1>1 DEF Cap
  <2>4. CASE ~Listed(p)
    <3>1. Inserted(p)
      BY <1>3, <2>4 DEF Update
    <3>2. strikes'[p] >= 1
      BY <1>1, <2>2, <2>3
    <3> QED BY <2>1, <2>4, <3>1, <3>2, InsertedKeeps
  <2>5. CASE Listed(p)
    <3> DEFINE k == Place(p)
    <3> DEFINE n == IF Count(p) > MaxTries THEN Count(p) ELSE Count(p) + level
    <3>1. table' = Touched(p, n) /\ UNCHANGED pipe
      BY <1>3, <2>5 DEF Update
    <3>2. k \in DOMAIN table /\ table[k].peer = p /\ Count(p) = table[k].count
      BY <1>1, <2>5, ListedPlace, EntryTypes DEF Count
    <3>3. Count(p) \in 1..(MaxTries + Malicious)
      BY <1>1, <3>2 DEF Filed
    <3>4. strikes[p] = Cap \/ Count(p) <= strikes[p]
      BY <3>2 DEF IndInv, Earned
    <3> HIDE DEF k
    <3>5. n \in 1..(MaxTries + Malicious)
      BY <1>1, <3>3
    <3>6. strikes'[p] = Cap \/ n <= strikes'[p]
      <4>1. CASE strikes[p] = Cap
        <5>1. strikes'[p] = Cap
          BY <1>1, <2>1, <2>3, <4>1 DEF Lesser
        <5> QED BY <5>1
      <4>2. CASE Count(p) <= strikes[p]
        BY <1>1, <2>2, <2>3, <3>3, <4>2
      <4> QED BY <3>4, <4>1, <4>2
    <3> HIDE DEF n
    <3> QED BY <2>1, <2>5, <3>1, <3>5, <3>6, TouchedKeeps
  <2> QED BY <2>4, <2>5
<1> QED BY <1>2, <1>3 DEF Report

\* Who asks for p's entry renews it, with the count it has.
LEMMA AskedKeeps ==
  ASSUME IndInv, Running, NEW p \in Peers, Listed(p), table' = Touched(p, Count(p)),
         UNCHANGED <<pipe, strikes>>
  PROVE  Kept
<1>1. Filed(table) /\ strikes \in [Peers -> 0..Cap]
  BY Now
<1>2. Place(p) \in DOMAIN table /\ table[Place(p)].peer = p /\ Count(p) = table[Place(p)].count
  BY <1>1, ListedPlace, EntryTypes DEF Count
<1>3. Count(p) \in 1..(MaxTries + Malicious)
  BY <1>1, <1>2 DEF Filed
<1>4. strikes[p] = Cap \/ Count(p) <= strikes[p]
  BY <1>2 DEF IndInv, Earned
<1> QED BY <1>1, <1>3, <1>4, TouchedKeeps

\* A function on 1..n is a sequence of that length.
LEMMA IsSeq ==
  ASSUME NEW S, NEW n \in Nat, NEW d, d \in [1..n -> S]
  PROVE  d \in Seq(S) /\ Len(d) = n /\ DOMAIN d = 1..n
<1>1. d \in Seq(S)
  BY SeqDef
<1>2. DOMAIN d = 1..n /\ DOMAIN d = 1..Len(d) /\ Len(d) \in Nat
  BY <1>1, LenProperties
<1>3. Len(d) = n
  <2>1. CASE n < Len(d)
    <3>1. Len(d) \in 1..Len(d) /\ Len(d) \notin 1..n
      BY <1>2, <2>1
    <3> QED BY <1>2, <3>1
  <2>2. CASE Len(d) < n
    <3>1. n \in 1..n /\ n \notin 1..Len(d)
      BY <1>2, <2>2
    <3> QED BY <1>2, <3>1
  <2> QED BY <1>2, <2>1, <2>2
<1> QED BY <1>1, <1>2, <1>3

\* The hour's clearing: the eldest go, and their rules with them.
LEMMA ClearOldKeeps ==
  ASSUME IndInv, Running, ClearOld
  PROVE  Kept
<1>1. /\ Filed(table) /\ Len(table) \in Nat /\ Len(table) < MaxEntries /\ MaxEntries \in Nat
      /\ pipe \in Seq(Command) /\ \A q : In(table, q) <=> Listed(q)
      /\ strikes \in [Peers -> 0..Cap]
  BY Now
<1>2. PICK n \in 0..Len(table) :
        /\ table' = SubSeq(table, n + 1, Len(table))
        /\ Write(Deletions(SubSeq(table, 1, n)))
  BY DEF ClearOld
<1> DEFINE r == SubSeq(table, n + 1, Len(table))
<1>3. /\ Filed(r) /\ Len(r) = Len(table) - n
      /\ \A q : In(r, q) <=> \E i \in DOMAIN table : i > n /\ table[i].peer = q
      /\ \A i \in DOMAIN r : \E j \in DOMAIN table : r[i] = table[j]
  BY <1>1, RestKeeps
<1>4. table' = r
  BY <1>2
<1> HIDE DEF r
<1>5. Len(table') < MaxEntries
  BY <1>1, <1>3, <1>4
<1>6. strikes' = strikes
  BY DEF ClearOld
<1>7. Earned(table', strikes')
  <2> SUFFICES ASSUME NEW i \in DOMAIN r
               PROVE  strikes[r[i].peer] = Cap \/ r[i].count <= strikes[r[i].peer]
    BY <1>4, <1>6 DEF Earned
  <2>1. PICK j \in DOMAIN table : r[i] = table[j]
    BY <1>3
  <2> QED BY <2>1 DEF IndInv, Earned
<1> DEFINE t == SubSeq(table, 1, n)
<1> DEFINE d == Deletions(t)
<1>8. t \in Seq(Entry) /\ Len(t) = n /\ DOMAIN t = 1..n /\ \A i \in 1..n : t[i] = table[i]
  <2>1. t \in Seq(Entry) /\ Len(t) = n /\ \A i \in 1..n : t[i] = table[i]
    BY <1>1, FirstPart DEF Filed
  <2> QED BY <2>1, LenProperties
<1>9. \A i \in 1..n : i \in DOMAIN table /\ table[i].peer \in Peers
  BY <1>1, EntryTypes
<1> HIDE DEF t
<1>10. CASE Firewall
  <2>1. d = [i \in 1..n |-> [op |-> "del", peer |-> table[i].peer]]
    BY <1>8, <1>10 DEF Deletions
  <2>2. d \in [1..n -> Command]
    BY <1>9, <2>1 DEF Command
  <2>3. \A i \in 1..n : d[i].op = "del" /\ d[i].peer = table[i].peer
    BY <2>1
  <2>4. pipe' = pipe \o d
    BY <1>2 DEF Write, t
  <2> HIDE DEF d
  <2>5. d \in Seq(Command) /\ DOMAIN d = 1..n
    BY <1>1, <2>2, IsSeq
  <2>6. pipe' \in Seq(Command)
    BY <1>1, <2>4, <2>5, ConcatProperties
  <2>7. ASSUME NEW p \in Peers PROVE Leads(p, rules[p], pipe', Wanted(table', p))
    <3>1. Leads(p, Wanted(table, p), d, Wanted(table', p))
      <4>1. CASE \E i \in 1..n : table[i].peer = p
        <5>1. PICK i \in 1..n : table[i].peer = p
          BY <4>1
        <5>2. \A j \in DOMAIN table : table[j].peer = p => j = i
          BY <1>9, <5>1 DEF Filed, IndInv
        <5>3. In(table, p) /\ ~In(r, p)
          <6>1. i \in DOMAIN table /\ ~(i > n)
            BY <1>9
          <6>2. In(table, p)
            BY <5>1, <6>1 DEF In
          <6>3. ~In(r, p)
            BY <1>3, <5>2, <6>1
          <6> QED BY <6>2, <6>3
        <5>4. Wanted(table, p) = 1 /\ Wanted(table', p) = 1 - 1
          BY <1>4, <5>3 DEF Wanted
        <5>5. /\ i \in DOMAIN d /\ d[i].peer = p /\ d[i].op = "del"
              /\ \A k \in DOMAIN d : d[k].peer = p => k = i
          BY <1>9, <2>3, <2>5, <5>1, <5>2
        <5>6. Leads(p, 1, d, 1 - 1)
          BY <2>5, <5>5, LeadsOne
        <5> QED BY <5>4, <5>6
      <4>2. CASE ~\E i \in 1..n : table[i].peer = p
        <5>1. \A k \in DOMAIN d : d[k].peer # p
          BY <2>3, <2>5, <4>2
        <5>2. In(r, p) <=> In(table, p)
          <6>1. \A i \in DOMAIN table : i > n \/ i \in 1..n
            <7>1. DOMAIN table = 1..Len(table)
              BY <1>1, EntryTypes
            <7> QED BY <1>1, <7>1
          <6> QED BY <1>3, <4>2, <6>1 DEF In
        <5>3. Wanted(table', p) = Wanted(table, p) /\ Wanted(table, p) \in {0, 1}
          BY <1>4, <5>2 DEF Wanted
        <5> QED BY <2>5, <5>1, <5>3, LeadsQuiet
      <4> QED BY <4>1, <4>2
    <3>2. Wanted(table', p) \in {0, 1}
      BY DEF Wanted
    <3> QED BY <1>10, <2>4, <2>5, <3>1, <3>2, WriteLeads
  <2> QED BY <1>1, <1>3, <1>4, <1>5, <1>6, <1>7, <2>6, <2>7 DEF Kept
<1>11. CASE ~Firewall
  <2>1. pipe' = pipe \o <<>>
    BY <1>2, <1>11 DEF Write, Deletions
  <2>2. pipe' \in Seq(Command)
    BY <1>1, <2>1, ConcatEmptySeq
  <2> QED BY <1>1, <1>3, <1>4, <1>5, <1>6, <1>7, <1>11, <2>2 DEF Kept
<1> QED BY <1>10, <1>11

\* Time passes for all entries alike.
LEMMA TickKeeps ==
  ASSUME IndInv, Tick
  PROVE  Kept
<1> DEFINE n == Len(table)
<1>1. /\ Filed(table) /\ n \in Nat /\ n < MaxEntries /\ pipe \in Seq(Command)
      /\ strikes \in [Peers -> 0..Cap] /\ OneHour \in Nat
  BY Now, BlockListAssumption
<1>2. /\ DOMAIN table = 1..n
      /\ \A i \in 1..n : table[i] \in Entry /\ table[i].age \in 0..(OneHour + 1)
  BY <1>1, EntryTypes
<1>3. table' = [i \in 1..n |-> [table[i] EXCEPT !.age = Lesser(@ + 1, OneHour + 1)]]
  BY <1>2 DEF Tick
<1> HIDE DEF n
<1>4. ASSUME NEW i \in 1..n
      PROVE  /\ table'[i] \in Entry
             /\ table'[i].peer = table[i].peer /\ table'[i].count = table[i].count
             /\ table'[i].age = Lesser(table[i].age + 1, OneHour + 1)
  <2>1. table[i] \in Entry /\ table[i].age \in 0..(OneHour + 1)
    BY <1>2
  <2>2. table'[i] = [table[i] EXCEPT !.age = Lesser(@ + 1, OneHour + 1)]
    BY <1>3
  <2>3. Lesser(table[i].age + 1, OneHour + 1) \in 0..(OneHour + 1)
    BY <1>1, <2>1 DEF Lesser
  <2> QED BY <2>1, <2>2, <2>3 DEF Entry
<1>5. table' \in Seq(Entry) /\ Len(table') = n /\ DOMAIN table' = 1..n
  <2>1. table' \in [1..n -> Entry]
    BY <1>3, <1>4
  <2> QED BY <1>1, <2>1, IsSeq
<1>6. Filed(table')
  <2>1. \A i, j \in 1..n : i < j => table'[j].age <= table'[i].age
    <3> SUFFICES ASSUME NEW i \in 1..n, NEW j \in 1..n, i < j PROVE table'[j].age <= table'[i].age
      OBVIOUS
    <3>1. /\ table[j].age <= table[i].age
          /\ table[i].age \in 0..(OneHour + 1) /\ table[j].age \in 0..(OneHour + 1)
      BY <1>1, <1>2 DEF Filed
    <3>2. Lesser(table[j].age + 1, OneHour + 1) <= Lesser(table[i].age + 1, OneHour + 1)
      <4> DEFINE a == table[i].age
      <4> DEFINE b == table[j].age
      <4>1. a \in Int /\ b \in Int /\ b <= a /\ OneHour \in Int
        BY <1>1, <3>1
      <4> HIDE DEF a, b
      <4>2. Lesser(b + 1, OneHour + 1) <= Lesser(a + 1, OneHour + 1)
        BY <4>1 DEF Lesser
      <4> QED BY <4>2 DEF a, b
    <3> QED BY <1>4, <3>2
  <2>2. \A i \in 1..n : table'[i].count \in 1..(MaxTries + Malicious)
    BY <1>1, <1>2, <1>4 DEF Filed
  <2>3. \A i, j \in 1..n : table'[i].peer = table'[j].peer => i = j
    BY <1>1, <1>2, <1>4 DEF Filed
  <2> QED BY <1>5, <2>1, <2>2, <2>3 DEF Filed
<1>7. \A p : In(table', p) <=> In(table, p)
  BY <1>2, <1>4, <1>5 DEF In
<1>8. UNCHANGED <<pipe, strikes, rules, phase>> /\ Running
  BY DEF Tick
<1>9. Earned(table', strikes')
  <2>1. Earned(table, strikes)
    BY <1>8 DEF IndInv
  <2> QED BY <1>2, <1>4, <1>5, <1>8, <2>1 DEF Earned
<1>10. ASSUME Firewall, NEW p \in Peers PROVE Leads(p, rules[p], pipe', Wanted(table', p))
  <2>1. Leads(p, rules[p], pipe, Wanted(table, p))
    BY <1>8, <1>10 DEF IndInv, Follows
  <2>2. Wanted(table', p) = Wanted(table, p)
    BY <1>7 DEF Wanted
  <2> QED BY <1>8, <2>1, <2>2
<1>11. Len(table') < MaxEntries
  BY <1>1, <1>5
<1> QED BY <1>1, <1>6, <1>8, <1>9, <1>10, <1>11 DEF Kept

-----------------------------------------------------------------------------
(* The steps.                                                              *)

OpenKept == open' \in Opens /\ IsFiniteSet(Conns(open')) /\ Cardinality(Conns(open')) <= MaxOpen

LEMMA OpenIsConns == OpenNow = Conns(open)
BY DEF OpenNow, Conns

LEMMA OpenNowTypes ==
  ASSUME IndInv
  PROVE  /\ open \in Opens /\ IsFiniteSet(Conns(open))
         /\ Cardinality(Conns(open)) \in Nat /\ Cardinality(Conns(open)) <= MaxOpen
         /\ MaxOpen \in Nat
<1>1. MaxOpen \in Nat /\ open \in [Peers -> [Stages -> 0..MaxOpen]]
  BY BlockListAssumption DEF IndInv, TypeOK
<1>2. open \in Opens
  BY <1>1 DEF Opens
<1>3. IsFiniteSet(Conns(open)) /\ Cardinality(Conns(open)) <= MaxOpen
  BY OpenIsConns DEF IndInv, OpenBounded
<1> QED BY <1>1, <1>2, <1>3, FS_CardinalityType

\* What the parts make.
LEMMA OpenTyped ==
  ASSUME NEW o, o \in Opens, IsFiniteSet(Conns(o)), Cardinality(Conns(o)) <= MaxOpen
  PROVE  o \in [Peers -> [Stages -> 0..MaxOpen]]
<1>1. ASSUME NEW p \in Peers, NEW s \in Stages PROVE o[p][s] \in 0..MaxOpen
  <2>1. o[p][s] <= Cardinality(Conns(o)) /\ Cardinality(Conns(o)) \in Nat
    BY OpenFits
  <2>2. o[p][s] \in Nat /\ MaxOpen \in Nat
    BY BlockListAssumption DEF Opens
  <2> QED BY <2>1, <2>2
<1>2. o \in [Peers -> [Stages -> Nat]]
  BY DEF Opens
<1> QED BY <1>1, <1>2

LEMMA Assemble ==
  ASSUME IndInv, Kept, OpenKept, UNCHANGED <<rules, chain, phase>>
  PROVE  IndInv'
<1>1. TypeOK'
  <2>1. open' \in [Peers -> [Stages -> 0..MaxOpen]]
    BY OpenTyped DEF OpenKept
  <2>2. table' \in Seq(Entry) /\ \A i \in DOMAIN table' : table'[i].count \in 1..(MaxTries + Malicious)
    BY DEF Kept, Filed
  <2>3. rules' \in [Peers -> Nat] /\ chain' \in {"hooked", "loose", "flushed", "left", "gone"}
        /\ phase' \in {"running", "exiting", "stopped"}
    BY DEF IndInv, TypeOK
  <2> QED BY <2>1, <2>2, <2>3 DEF Kept, TypeOK
<1>2. OpenBounded'
  <2>1. OpenNow' = Conns(open')
    BY DEF OpenNow, Conns
  <2> QED BY <2>1 DEF OpenBounded, OpenKept
<1>3. Filed(table)' /\ Earned(table, strikes)'
  BY DEF Kept, Filed, Earned
<1>4. (Running /\ Firewall => chain = "hooked" /\ Follows)'
  <2>1. Firewall /\ Running => chain' = "hooked"
    BY DEF IndInv
  <2>2. Firewall => \A p \in Peers : Leads(p, rules'[p], pipe', Wanted(table', p))
    BY DEF Kept
  <2>3. Firewall => Follows'
    BY <2>2 DEF Follows, Leads, Takes, Moves, Adds, Dels, Places, Wanted, In
  <2> QED BY <2>1, <2>3 DEF Running
<1> QED BY <1>1, <1>2, <1>3, <1>4 DEF IndInv

\* A connection leaves a stage.
LEMMA FreeKeeps ==
  ASSUME IndInv, NEW p \in Peers, NEW s \in Stages, Free(p, s)
  PROVE  OpenKept
<1>1. /\ open \in Opens /\ IsFiniteSet(Conns(open))
      /\ Cardinality(Conns(open)) \in Nat /\ Cardinality(Conns(open)) <= MaxOpen
      /\ MaxOpen \in Nat
  BY OpenNowTypes
<1>2. open[p][s] \in Nat /\ open[p][s] > 0
  BY <1>1 DEF Free, Opens
<1>3. /\ open' \in Opens
      /\ \A q \in Peers, r \in Stages : open'[q][r] = IF q = p /\ r = s THEN open[q][r] - 1 ELSE open[q][r]
  BY <1>1, <1>2 DEF Free, Opens
<1>4. IsFiniteSet(Conns(open')) /\ Cardinality(Conns(open')) = Cardinality(Conns(open)) - 1
  BY <1>1, <1>2, <1>3, OneFewer
<1> QED BY <1>1, <1>3, <1>4 DEF OpenKept

\* A connection goes from a stage to another.
LEMMA BecomeKeeps ==
  ASSUME IndInv, NEW p \in Peers, NEW from \in Stages, NEW to \in Stages, from # to,
         Become(p, from, to)
  PROVE  OpenKept
<1>1. /\ open \in Opens /\ IsFiniteSet(Conns(open))
      /\ Cardinality(Conns(open)) \in Nat /\ Cardinality(Conns(open)) <= MaxOpen
      /\ MaxOpen \in Nat
  BY OpenNowTypes
<1> DEFINE m == [open EXCEPT ![p][from] = @ - 1]
<1>2. open[p][from] \in Nat /\ open[p][from] > 0
  BY <1>1 DEF Become, Opens
<1>3. /\ m \in Opens
      /\ \A q \in Peers, r \in Stages : m[q][r] = IF q = p /\ r = from THEN open[q][r] - 1 ELSE open[q][r]
  BY <1>1, <1>2 DEF Opens
<1>4. /\ open' \in Opens
      /\ \A q \in Peers, r \in Stages : open'[q][r] = IF q = p /\ r = to THEN m[q][r] + 1 ELSE m[q][r]
  BY <1>1, <1>2 DEF Become, Opens
<1> HIDE DEF m
<1>5. IsFiniteSet(Conns(m)) /\ Cardinality(Conns(m)) = Cardinality(Conns(open)) - 1
  BY <1>1, <1>2, <1>3, OneFewer
<1>6. IsFiniteSet(Conns(open')) /\ Cardinality(Conns(open')) = Cardinality(Conns(m)) + 1
  BY <1>3, <1>4, <1>5, OneMore
<1> QED BY <1>1, <1>4, <1>5, <1>6 DEF OpenKept

\* No connection changes.
LEMMA SameOpen ==
  ASSUME IndInv, UNCHANGED open
  PROVE  OpenKept
BY OpenNowTypes DEF OpenKept

LEMMA RefuseKeeps ==
  ASSUME IndInv, NEW p \in Peers, Refuse(p)
  PROVE  IndInv'
<1>1. Kept
  BY AskedKeeps DEF Refuse, Blocked
<1>2. OpenKept
  BY SameOpen DEF Refuse
<1> QED BY <1>1, <1>2, Assemble DEF Refuse

LEMMA AcceptKeeps ==
  ASSUME IndInv, NEW p \in Peers, Accept(p)
  PROVE  IndInv'
<1>1. Kept
  <2>1. CASE UNCHANGED table
    BY <2>1, IdleKeeps DEF Accept
  <2>2. CASE Listed(p) /\ table' = Touched(p, Count(p))
    BY <2>2, AskedKeeps DEF Accept
  <2> QED BY <2>1, <2>2 DEF Accept
<1>2. OpenKept
  <2>1. /\ open \in Opens /\ IsFiniteSet(Conns(open))
        /\ Cardinality(Conns(open)) \in Nat /\ MaxOpen \in Nat
    BY OpenNowTypes
  <2>2. Cardinality(Conns(open)) < MaxOpen
    BY OpenIsConns DEF Accept
  <2>3. PICK s \in Stages : open' = [open EXCEPT ![p][s] = @ + 1]
    BY DEF Accept, Stages
  <2>4. /\ open' \in Opens
        /\ \A q \in Peers, r \in Stages :
             open'[q][r] = IF q = p /\ r = s THEN open[q][r] + 1 ELSE open[q][r]
    BY <2>1, <2>3 DEF Opens
  <2>5. IsFiniteSet(Conns(open')) /\ Cardinality(Conns(open')) = Cardinality(Conns(open)) + 1
    BY <2>1, <2>4, OneMore
  <2> QED BY <2>1, <2>2, <2>4, <2>5 DEF OpenKept
<1> QED BY <1>1, <1>2, Assemble DEF Accept

LEMMA NoHeaderKeeps ==
  ASSUME IndInv, NEW p \in Peers, NoHeader(p)
  PROVE  IndInv'
<1>1. Running /\ UNCHANGED <<rules, chain, phase>>
  BY DEF NoHeader, Become
<1>2. Kept
  BY <1>1, ReportKeeps DEF NoHeader
<1>3. OpenKept
  <2>1. "greeting" \in Stages /\ "error" \in Stages
    BY DEF Stages
  <2> QED BY <2>1, BecomeKeeps DEF NoHeader
<1> QED BY <1>1, <1>2, <1>3, Assemble

LEMMA OffendsKeeps ==
  ASSUME IndInv, NEW p \in Peers, Offends(p)
  PROVE  IndInv'
<1>1. UNCHANGED <<rules, chain, phase>> /\ "greeting" \in Stages /\ "stream" \in Stages
  BY DEF Offends, Stages
<1>2. CASE Free(p, "greeting") /\ \E level \in {Malformed, Bad, Malicious} : Report(p, level)
  <2>1. Kept
    BY <1>2, ReportKeeps DEF Free
  <2>2. OpenKept
    BY <1>1, <1>2, FreeKeeps
  <2> QED BY <1>1, <2>1, <2>2, Assemble
<1>3. CASE Free(p, "stream") /\ \E level \in {Bad, Malicious} : Report(p, level)
  <2>1. Kept
    BY <1>3, ReportKeeps DEF Free
  <2>2. OpenKept
    BY <1>1, <1>3, FreeKeeps
  <2> QED BY <1>1, <2>1, <2>2, Assemble
<1> QED BY <1>2, <1>3 DEF Offends

LEMMA TimeoutKeeps ==
  ASSUME IndInv, NEW p \in Peers, Timeout(p)
  PROVE  IndInv'
<1>1. PICK s \in Stages : Free(p, s)
  BY DEF Timeout, Stages
<1>2. Running /\ UNCHANGED <<rules, chain, phase>>
  BY <1>1 DEF Timeout, Free
<1>3. Kept
  BY <1>2, ReportKeeps DEF Timeout
<1>4. OpenKept
  BY <1>1, FreeKeeps
<1> QED BY <1>2, <1>3, <1>4, Assemble

LEMMA DialKeeps ==
  ASSUME IndInv, NEW p \in Peers, Dial(p)
  PROVE  IndInv'
<1>1. Running /\ UNCHANGED <<table, pipe, rules, chain, phase, strikes>>
  BY DEF Dial, Become
<1>2. Kept
  BY <1>1, IdleKeeps
<1>3. OpenKept
  <2>1. "greeting" \in Stages /\ "dialling" \in Stages
    BY DEF Stages
  <2> QED BY <2>1, BecomeKeeps DEF Dial
<1> QED BY <1>1, <1>2, <1>3, Assemble

LEMMA ConnectedKeeps ==
  ASSUME IndInv, NEW p \in Peers, Connected(p)
  PROVE  IndInv'
<1>1. Running /\ UNCHANGED <<rules, chain, phase>>
  BY DEF Connected, Become
<1>2. Kept
  <2>1. CASE Removed(p) /\ strikes' = [strikes EXCEPT ![p] = 0]
    BY <1>1, <2>1, RemovedKeeps
  <2>2. CASE UNCHANGED <<table, pipe, strikes>>
    BY <1>1, <2>2, IdleKeeps
  <2> QED BY <2>1, <2>2 DEF Connected
<1>3. OpenKept
  <2>1. "stream" \in Stages /\ "dialling" \in Stages
    BY DEF Stages
  <2> QED BY <2>1, BecomeKeeps DEF Connected
<1> QED BY <1>1, <1>2, <1>3, Assemble

LEMMA CloseKeeps ==
  ASSUME IndInv, NEW p \in Peers, Close(p)
  PROVE  IndInv'
<1>1. PICK s \in Stages : Free(p, s)
  BY DEF Close
<1>2. Running /\ UNCHANGED <<table, pipe, rules, chain, phase, strikes>>
  BY <1>1 DEF Close, Free
<1> QED BY <1>1, <1>2, FreeKeeps, IdleKeeps, Assemble

LEMMA TickStep == ASSUME IndInv, Tick PROVE IndInv'
BY TickKeeps, SameOpen, Assemble DEF Tick

LEMMA ClearOldStep == ASSUME IndInv, ClearOld PROVE IndInv'
<1>1. Running /\ UNCHANGED <<open, rules, chain, phase, strikes>>
  BY DEF ClearOld
<1> QED BY <1>1, ClearOldKeeps, SameOpen, Assemble

\* What does not change of the invariant's parts.
LEMMA SameTable ==
  ASSUME IndInv, UNCHANGED <<table, open, strikes>>
  PROVE  Filed(table') /\ OpenBounded' /\ (Earned(table, strikes) => Earned(table', strikes'))
BY DEF IndInv, OpenBounded, OpenNow, Filed, Earned

\* The shell runs the first line: it adds where there is no rule and deletes where there is one.
LEMMA ShellRunsKeeps ==
  ASSUME IndInv, ShellRuns
  PROVE  IndInv'
<1> DEFINE c == Head(pipe)
<1>1. /\ pipe \in Seq(Command) /\ pipe # <<>> /\ rules \in [Peers -> Nat]
      /\ c \in Command /\ Tail(pipe) \in Seq(Command)
  BY HeadTailProperties DEF ShellRuns, IndInv, TypeOK
<1>2. pipe' = Tail(pipe) /\ UNCHANGED <<table, open, chain, phase, strikes>>
  BY DEF ShellRuns
<1>3. rules' = IF chain = "gone" THEN rules
               ELSE [rules EXCEPT ![c.peer] =
                       IF c.op = "add" THEN @ + 1 ELSE IF @ > 0 THEN @ - 1 ELSE 0]
  BY DEF ShellRuns
<1> HIDE DEF c
<1>4. c.peer \in Peers
  BY <1>1 DEF Command
<1>5. rules' \in [Peers -> Nat]
  <2>1. \A q \in Peers : rules[q] \in Nat
    BY <1>1
  <2>2. rules[c.peer] \in Nat
    BY <1>4, <2>1
  <2>3. (IF c.op = "add" THEN rules[c.peer] + 1 ELSE IF rules[c.peer] > 0 THEN rules[c.peer] - 1 ELSE 0) \in Nat
    BY <2>2
  <2> QED BY <1>1, <1>3, <2>3
<1>6. TypeOK'
  BY <1>1, <1>2, <1>5 DEF IndInv, TypeOK
<1>7. ASSUME Running', Firewall PROVE chain' = "hooked" /\ Follows'
  <2>1. chain = "hooked" /\ Follows
    BY <1>2, <1>7 DEF IndInv, Running
  <2>2. ASSUME NEW p \in Peers PROVE Leads(p, rules'[p], Tail(pipe), Wanted(table, p))
    <3> DEFINE a == rules[p]
    <3> DEFINE b == Wanted(table, p)
    <3>1. Leads(p, a, pipe, b)
      BY <2>1 DEF Follows
    <3>2. a \in {0, 1} /\ b \in {0, 1}
      BY <1>1, <3>1, LeadsRange
    <3> HIDE DEF b
    <3>3. /\ Leads(p, IF c.peer # p THEN a ELSE IF c.op = "add" THEN 1 ELSE 0, Tail(pipe), b)
          /\ c.peer = p => a = (IF c.op = "add" THEN 0 ELSE 1)
      BY <1>1, <3>1, <3>2, LeadsTail DEF c
    <3>4. rules'[p] = IF c.peer # p THEN a ELSE IF c.op = "add" THEN 1 ELSE 0
      <4>1. CASE c.peer # p
        BY <1>1, <1>3, <2>1, <4>1
      <4>2. CASE c.peer = p
        <5>1. rules'[p] = IF c.op = "add" THEN a + 1 ELSE IF a > 0 THEN a - 1 ELSE 0
          BY <1>1, <1>3, <2>1, <4>2
        <5> HIDE DEF a
        <5> QED BY <3>2, <3>3, <4>2, <5>1
      <4> QED BY <4>1, <4>2
    <3> QED BY <3>3, <3>4 DEF b
  <2>3. Follows'
    <3>1. \A p \in Peers : Leads(p, rules'[p], pipe', Wanted(table', p))
      BY <1>2, <2>2
    <3> QED BY <3>1 DEF Follows, Leads, Takes, Moves, Adds, Dels, Places, Wanted, In
  <2> QED BY <1>2, <2>1, <2>3
<1>8. Running' => Earned(table', strikes')
  BY <1>2, SameTable DEF IndInv, Running
<1> QED BY <1>2, <1>6, <1>7, <1>8, SameTable DEF IndInv, Filed, Earned, Running

\* The event loop has ended: no connection counts any more.
LEMMA StopKeeps ==
  ASSUME IndInv, Stop
  PROVE  IndInv'
<1>1. /\ phase' = "exiting" /\ UNCHANGED <<table, pipe, rules, chain>>
      /\ open' = [p \in Peers |-> [s \in Stages |-> 0]] /\ strikes' = [p \in Peers |-> 0]
  BY DEF Stop
<1>2. MaxOpen \in Nat /\ Cap \in Nat
  BY BlockListAssumption DEF Cap
<1>3. OpenBounded'
  <2>1. Conns(open') = {}
    <3>1. open' \in Opens /\ \A p \in Peers, s \in Stages : open'[p][s] = 0
      BY <1>1 DEF Opens
    <3> QED BY <3>1, InConns
  <2>2. OpenNow' = {}
    BY <2>1 DEF OpenNow, Conns
  <2> QED BY <1>2, <2>2, FS_EmptySet DEF OpenBounded
<1>4. TypeOK'
  BY <1>1, <1>2 DEF IndInv, TypeOK
<1>5. Filed(table)' /\ ~Running'
  BY <1>1 DEF IndInv, Filed, Running
<1> QED BY <1>3, <1>4, <1>5 DEF IndInv

\* free_block_list's steps.
LEMMA EndKeeps ==
  ASSUME IndInv, Unhook \/ Flush \/ Delete \/ Exit
  PROVE  IndInv'
<1>1. UNCHANGED <<open, strikes>> /\ ~Running'
  BY DEF Unhook, Flush, Delete, Exit, Running
<1>2. OpenBounded'
  BY <1>1 DEF IndInv, OpenBounded, OpenNow
<1>3. Filed(table)' /\ Len(table') < MaxEntries
  <2>1. CASE table' = table
    BY <2>1 DEF IndInv, TypeOK, Filed
  <2>2. CASE table' = <<>>
    BY <2>2, EmptySeq, BlockListAssumption DEF Filed
  <2> QED BY <2>1, <2>2 DEF Unhook, Flush, Delete, Exit
<1>4. TypeOK'
  <2>1. table' \in Seq(Entry) /\ \A i \in DOMAIN table' : table'[i].count \in 1..(MaxTries + Malicious)
    BY <1>3 DEF Filed
  <2>2. pipe' \in Seq(Command) /\ rules' \in [Peers -> Nat]
        /\ chain' \in {"hooked", "loose", "flushed", "left", "gone"}
        /\ phase' \in {"running", "exiting", "stopped"}
    BY DEF Unhook, Flush, Delete, Exit, IndInv, TypeOK
  <2> QED BY <1>1, <1>3, <2>1, <2>2 DEF IndInv, TypeOK
<1> QED BY <1>1, <1>2, <1>3, <1>4 DEF IndInv

\* A stutter.
LEMMA StutterKeeps ==
  ASSUME IndInv, UNCHANGED vars
  PROVE  IndInv'
<1>1. TypeOK'
  BY DEF IndInv, TypeOK, vars
<1>2. Filed(table') /\ OpenBounded' /\ (Earned(table, strikes) => Earned(table', strikes'))
  BY SameTable DEF vars
<1>3. ASSUME Running', Firewall PROVE chain' = "hooked" /\ Follows'
  <2>1. chain = "hooked" /\ Follows /\ UNCHANGED <<table, pipe, rules, chain>>
    BY <1>3 DEF IndInv, Running, vars
  <2>2. \A p \in Peers : Leads(p, rules'[p], pipe', Wanted(table', p))
    BY <2>1 DEF Follows
  <2>3. Follows'
    BY <2>2 DEF Follows, Leads, Takes, Moves, Adds, Dels, Places, Wanted, In
  <2> QED BY <2>1, <2>3
<1> QED BY <1>1, <1>2, <1>3 DEF IndInv, Filed, Earned, Running, vars

LEMMA InitOk ==
  ASSUME Init
  PROVE  IndInv
<1>1. /\ table = <<>> /\ open = [p \in Peers |-> [s \in Stages |-> 0]]
      /\ pipe = <<>> /\ rules = [p \in Peers |-> 0]
      /\ chain = (IF Firewall THEN "hooked" ELSE "gone")
      /\ phase = "running" /\ strikes = [p \in Peers |-> 0]
  BY DEF Init
<1>2. MaxOpen \in Nat /\ Cap \in Nat /\ MaxEntries \in Nat /\ MaxEntries >= 2
  BY BlockListAssumption DEF Cap
<1>3. /\ <<>> \in Seq(Entry) /\ <<>> \in Seq(Command) /\ Len(<<>>) = 0 /\ DOMAIN <<>> = {}
  BY EmptySeq
<1>4. TypeOK
  <2>1. open \in [Peers -> [Stages -> 0..MaxOpen]] /\ rules \in [Peers -> Nat] /\ strikes \in [Peers -> 0..Cap]
    BY <1>1, <1>2
  <2>2. chain \in {"hooked", "loose", "flushed", "left", "gone"}
    BY <1>1
  <2> QED BY <1>1, <1>2, <1>3, <2>1, <2>2 DEF TypeOK
<1>5. Filed(table)
  BY <1>1, <1>3 DEF Filed
<1>6. OpenBounded
  <2>1. Conns(open) = {}
    <3>1. open \in Opens /\ \A p \in Peers, s \in Stages : open[p][s] = 0
      BY <1>1 DEF Opens
    <3> QED BY <3>1, InConns
  <2> QED BY <1>2, <2>1, OpenIsConns, FS_EmptySet DEF OpenBounded
<1>7. Earned(table, strikes)
  BY <1>1, <1>3 DEF Earned
<1>8. ASSUME Firewall PROVE chain = "hooked" /\ Follows
  <2>1. ASSUME NEW p \in Peers PROVE Leads(p, rules[p], pipe, Wanted(table, p))
    <3>1. Wanted(table, p) = 0 /\ rules[p] = 0
      BY <1>1, <1>3 DEF Wanted, In
    <3> QED BY <1>1, <1>3, <3>1, LeadsQuiet
  <2> QED BY <1>1, <1>8, <2>1 DEF Follows
<1> QED BY <1>4, <1>5, <1>6, <1>7, <1>8 DEF IndInv

\* The table is in order, the pipe alternates and nothing counts more than was reported,
\* after whatever calls of acl.c (update_block_list, remove_from_block_list,
\* clear_block_list, check_block_list) and whatever the shell has run.
THEOREM Inductive == Spec => []IndInv
<1>1. Init => IndInv
  BY InitOk
<1>2. IndInv /\ [Next]_vars => IndInv'
  <2> SUFFICES ASSUME IndInv, [Next]_vars PROVE IndInv'
    OBVIOUS
  <2>1. ASSUME NEW p \in Peers,
               \/ Refuse(p) \/ Accept(p) \/ NoHeader(p) \/ Offends(p)
               \/ Timeout(p) \/ Dial(p) \/ Connected(p) \/ Close(p)
        PROVE  IndInv'
    BY <2>1, RefuseKeeps, AcceptKeeps, NoHeaderKeeps, OffendsKeeps, TimeoutKeeps, DialKeeps,
       ConnectedKeeps, CloseKeeps
  <2>2. CASE Tick
    BY <2>2, TickStep
  <2>3. CASE ClearOld
    BY <2>3, ClearOldStep
  <2>4. CASE ShellRuns
    BY <2>4, ShellRunsKeeps
  <2>5. CASE Stop
    BY <2>5, StopKeeps
  <2>6. CASE Unhook \/ Flush \/ Delete \/ Exit
    BY <2>6, EndKeeps
  <2>7. CASE UNCHANGED vars
    BY <2>7, StutterKeeps
  <2> QED BY <2>1, <2>2, <2>3, <2>4, <2>5, <2>6, <2>7 DEF Next
<1> QED BY <1>1, <1>2, PTL DEF Spec

\* Table, connections and pipe have their types, and the table stays below max_entries
\* (cache_insert, accept_cb, close_and_free_server).
THEOREM TypeCorrect == Spec => []TypeOK
<1>1. IndInv => TypeOK
  BY DEF IndInv
<1> QED BY <1>1, Inductive, PTL

\* When the shell has caught up, the firewall has one rule for each listed peer and none for
\* another (cache_insert, cache_clear, cache_remove, update_block_list, set_firewall_rule).
THEOREM RulesAreTables == Spec => []RulesFollowTable
<1>1. IndInv => RulesFollowTable
  <2> SUFFICES ASSUME IndInv, Running, Firewall, NEW p \in Peers
               PROVE  rules[p] + Pending("add", p) - Pending("del", p) = IF Listed(p) THEN 1 ELSE 0
    BY DEF RulesFollowTable
  <2>1. rules[p] + Adds(pipe, p) - Dels(pipe, p) = Wanted(table, p)
    BY DEF IndInv, Follows, Leads
  <2>2. Adds(pipe, p) = Pending("add", p) /\ Dels(pipe, p) = Pending("del", p)
    BY DEF Adds, Dels, Places, Pending
  <2>3. Wanted(table, p) = IF Listed(p) THEN 1 ELSE 0
    BY DEF Wanted, In, Listed
  <2> QED BY <2>1, <2>2, <2>3
<1> QED BY <1>1, Inductive, PTL

\* The chain never holds a rule twice for a peer, so that one iptables -D is enough to let
\* the peer in again (set_firewall_rule).
THEOREM OneRuleAtMost ==
  Spec => [](Running /\ Firewall => \A p \in Peers : rules[p] \in {0, 1})
<1>1. IndInv => (Running /\ Firewall => \A p \in Peers : rules[p] \in {0, 1})
  <2> SUFFICES ASSUME IndInv, Running, Firewall, NEW p \in Peers PROVE rules[p] \in {0, 1}
    OBVIOUS
  <2>1. pipe \in Seq(Command) /\ Leads(p, rules[p], pipe, Wanted(table, p))
    BY DEF IndInv, TypeOK, Follows
  <2> QED BY <2>1, LeadsRange
<1> QED BY <1>1, Inductive, PTL

\* Who is blocked was reported often enough since the last success of theirs
\* (check_block_list, update_block_list, reset_addr).
THEOREM BlocksAreEarned == Spec => []EarnedBlock
<1>1. IndInv => EarnedBlock
  <2> SUFFICES ASSUME IndInv, Running, NEW p \in Peers, Blocked(p)
               PROVE  strikes[p] > MaxTries
    BY DEF EarnedBlock
  <2>1. /\ Filed(table) /\ strikes \in [Peers -> 0..Cap] /\ MaxTries \in Nat
    BY Now
  <2>2. Place(p) \in DOMAIN table /\ table[Place(p)].peer = p /\ Count(p) = table[Place(p)].count
    BY <2>1, ListedPlace, EntryTypes DEF Count, Blocked
  <2>3. strikes[p] = Cap \/ Count(p) <= strikes[p]
    BY <2>2 DEF IndInv, Earned
  <2>4. Count(p) > MaxTries /\ Count(p) \in Nat /\ strikes[p] \in Nat
    <3>1. Count(p) \in 1..(MaxTries + Malicious)
      BY <2>1, <2>2 DEF Filed
    <3> QED BY <2>1, <3>1 DEF Blocked, Cap
  <2> QED BY <2>1, <2>3, <2>4 DEF Cap
<1> QED BY <1>1, Inductive, PTL

\* What the hour's clearing takes is always the front of the table: cache_clear, which goes
\* through all of it, removes the entries that ClearOld removes (cache_lookup,
\* cache_key_exist and cache_insert put an entry at the end).
THEOREM OldestFirst ==
  Spec => [](\E n \in 0..Len(table) : \A i \in DOMAIN table : Old(table[i]) <=> i <= n)
<1>1. IndInv => \E n \in 0..Len(table) : \A i \in DOMAIN table : Old(table[i]) <=> i <= n
  <2> SUFFICES ASSUME IndInv
               PROVE  \E n \in 0..Len(table) : \A i \in DOMAIN table : Old(table[i]) <=> i <= n
    OBVIOUS
  <2> DEFINE m == Len(table)
  <2> DEFINE S == {i \in 1 .. m + 1 : i = m + 1 \/ ~Old(table[i])}
  <2>1. /\ m \in Nat /\ DOMAIN table = 1..m /\ OneHour \in Nat
        /\ \A i \in 1..m : table[i].age \in 0..(OneHour + 1)
        /\ \A i, j \in 1..m : i < j => table[j].age <= table[i].age
    BY EntryTypes, BlockListAssumption DEF IndInv, Filed
  <2> HIDE DEF m
  <2>2. S \subseteq Nat /\ m + 1 \in S
    BY <2>1
  <2>3. PICK k \in S : \A i \in S : ~(<<i, k>> \in OpToRel(<, Nat))
    BY <2>2, NatLessThanWellFounded, WFMin
  <2>4. \A i \in S : ~(i < k)
    BY <2>2, <2>3 DEF OpToRel
  <2>5. ASSUME NEW i \in 1..m PROVE Old(table[i]) <=> i <= k - 1
    <3>1. k \in 1 .. m + 1 /\ (k = m + 1 \/ ~Old(table[k]))
      OBVIOUS
    <3>2. ASSUME i <= k - 1 PROVE Old(table[i])
      <4>1. i < k /\ i \in 1 .. m + 1 /\ i # m + 1
        BY <2>1, <3>1, <3>2
      <4> QED BY <2>4, <4>1
    <3>3. ASSUME ~(i <= k - 1) PROVE ~Old(table[i])
      <4>1. k \in 1..m /\ k <= i /\ ~Old(table[k])
        BY <2>1, <3>1, <3>3
      <4>2. table[i].age <= table[k].age
        BY <2>1, <4>1
      <4>3. table[i].age \in 0..(OneHour + 1) /\ table[k].age \in 0..(OneHour + 1)
        BY <2>1, <4>1
      <4> QED BY <2>1, <4>1, <4>2, <4>3 DEF Old
    <3> QED BY <3>2, <3>3
  <2>6. k - 1 \in 0..m
    BY <2>1
  <2> QED BY <2>1, <2>5, <2>6 DEF m
<1> QED BY <1>1, Inductive, PTL

=============================================================================
