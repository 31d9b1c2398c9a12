---------------------------- MODULE UdpRelayProofs ----------------------------
(***************************************************************************)
(* The UDP relay for any clients, names, heap, size of the table and       *)
(* number of lookups: its table is exact, whatever lookups, evictions and  *)
(* timeouts cross; and clients with one host name are served right.        *)
(***************************************************************************)
EXTENDS UdpRelay, TLAPS, FiniteSetTheorems, SequenceTheorems

\* Table c files the remotes of heap m: each that is there, once, under its own key.
Files(c, m) ==
  /\ \A i \in DOMAIN c :
       m[c[i].remote].src # NULL /\ c[i].key = Key(m[c[i].remote].af, m[c[i].remote].src)
  /\ \A i, j \in DOMAIN c : c[i].key = c[j].key => i = j
  /\ \A r \in Remotes : m[r].src # NULL => \E i \in DOMAIN c : c[i].remote = r
  /\ Len(c) < MaxEntries

\* The addresses a socket's packets may have left for: those of its name, or those its client
\* asks for.
Reachable(remote) ==
  IF remote.af = "name" THEN Resolves[remote.header] ELSE asks[remote.src] \cap Addrs

\* A session of a client with one host name is for a header of that client.
SessionFits(remote) ==
  /\ remote.header \in asks[remote.src]
  /\ remote.dst \in StandsFor(remote.header)
  /\ remote.reached \subseteq Reachable(remote)

\* ... and no lookup of such a client was asked from within a session.
SessionsFit ==
  SingleName =>
    /\ \A r \in Live : SessionFits(rem[r])
    /\ \A i \in DOMAIN pending : pending[i].remote = NULL /\ pending[i].header \in asks[pending[i].src]

IndInv ==
  /\ TypeOK /\ Files(cache, rem)
  /\ SessionsFit /\ RightDestinationIfSingle /\ RightLabel

-----------------------------------------------------------------------------
(* The table.                                                              *)

\* RemoveAt shifts what comes after.
LEMMA RemoveAtProperties ==
  ASSUME NEW S, NEW s \in Seq(S), NEW i \in 1..Len(s)
  PROVE  /\ RemoveAt(s, i) \in Seq(S)
         /\ Len(RemoveAt(s, i)) = Len(s) - 1
         /\ \A k \in 1 .. Len(s) - 1 : RemoveAt(s, i)[k] = IF k < i THEN s[k] ELSE s[k + 1]
<1> DEFINE a == SubSeq(s, 1, i - 1)
<1> DEFINE b == SubSeq(s, i + 1, Len(s))
<1>1. Len(s) \in Nat /\ \A k \in 1..Len(s) : s[k] \in S
  BY LenProperties, ElementOfSeq
<1>2. /\ a \in Seq(S) /\ Len(a) = i - 1
      /\ \A k \in 1 .. i - 1 : a[k] = s[k]
  <2>1. \A k \in 1 .. i - 1 : s[k] \in S
    BY <1>1
  <2>2. 1 \in Int /\ i - 1 \in Int
    BY <1>1
  <2>3. /\ a \in Seq(S)
        /\ Len(a) = IF 1 <= i - 1 THEN (i - 1) - 1 + 1 ELSE 0
        /\ \A k \in 1 .. (i - 1) - 1 + 1 : a[k] = s[1 + k - 1]
    BY <2>1, <2>2, SubSeqProperties
  <2>4. ASSUME NEW k \in 1 .. i - 1 PROVE a[k] = s[k]
    <3>1. k \in 1 .. (i - 1) - 1 + 1 /\ 1 + k - 1 = k
      BY <1>1
    <3> QED BY <2>3, <3>1
  <2> QED BY <1>1, <2>3, <2>4
<1>3. /\ b \in Seq(S) /\ Len(b) = Len(s) - i
      /\ \A k \in 1 .. Len(s) - i : b[k] = s[i + k]
  <2>1. \A k \in i + 1 .. Len(s) : s[k] \in S
    BY <1>1
  <2>2. i + 1 \in Int /\ Len(s) \in Int
    BY <1>1
  <2>3. /\ b \in Seq(S)
        /\ Len(b) = IF i + 1 <= Len(s) THEN Len(s) - (i + 1) + 1 ELSE 0
        /\ \A k \in 1 .. Len(s) - (i + 1) + 1 : b[k] = s[(i + 1) + k - 1]
    BY <2>1, <2>2, SubSeqProperties
  <2>4. ASSUME NEW k \in 1 .. Len(s) - i PROVE b[k] = s[i + k]
    <3>1. k \in 1 .. Len(s) - (i + 1) + 1 /\ (i + 1) + k - 1 = i + k
      BY <1>1
    <3> QED BY <2>3, <3>1
  <2> QED BY <1>1, <2>3, <2>4
<1> HIDE DEF a, b
<1>4. /\ a \o b \in Seq(S)
      /\ Len(a \o b) = Len(a) + Len(b)
      /\ \A k \in 1 .. Len(a) + Len(b) : (a \o b)[k] = IF k <= Len(a) THEN a[k] ELSE b[k - Len(a)]
  BY <1>2, <1>3, ConcatProperties
<1>5. Len(a) + Len(b) = Len(s) - 1
  BY <1>1, <1>2, <1>3
<1>6. ASSUME NEW k \in 1 .. Len(s) - 1
      PROVE  (a \o b)[k] = IF k < i THEN s[k] ELSE s[k + 1]
  <2>1. CASE k < i
    BY <1>1, <1>2, <1>4, <1>5, <2>1
  <2>2. CASE ~(k < i)
    <3>1. k - (i - 1) \in 1 .. Len(s) - i /\ i + (k - (i - 1)) = k + 1 /\ ~(k <= i - 1)
      BY <1>1, <2>2
    <3>2. (a \o b)[k] = b[k - (i - 1)]
      BY <1>2, <1>4, <1>5, <3>1
    <3> QED BY <1>3, <2>2, <3>1, <3>2
  <2> QED BY <2>1, <2>2
<1> QED BY <1>4, <1>5, <1>6 DEF RemoveAt, a, b

\* The table's entries have their type.
LEMMA CacheTypes ==
  ASSUME TypeOK
  PROVE  /\ Len(cache) \in Nat /\ DOMAIN cache = 1..Len(cache)
         /\ \A i \in 1..Len(cache) : cache[i] \in EntryType /\ cache[i].remote \in Remotes
<1>1. Len(cache) \in Nat /\ DOMAIN cache = 1..Len(cache)
  BY LenProperties DEF TypeOK
<1>2. ASSUME NEW i \in 1..Len(cache) PROVE cache[i] \in EntryType
  BY ElementOfSeq DEF TypeOK
<1> QED BY <1>1, <1>2 DEF EntryType

\* What a lookup finds.
LEMMA Found ==
  ASSUME TypeOK, NEW k, Places(k) # {}
  PROVE  /\ PlaceOf(k) \in 1..Len(cache)
         /\ cache[PlaceOf(k)] \in EntryType
         /\ cache[PlaceOf(k)].key = k
         /\ At(k) = cache[PlaceOf(k)].remote /\ At(k) \in Remotes
<1>1. PlaceOf(k) \in Places(k)
  BY DEF PlaceOf
<1>2. DOMAIN cache = 1..Len(cache)
  BY LenProperties DEF TypeOK
<1>3. PlaceOf(k) \in 1..Len(cache) /\ cache[PlaceOf(k)].key = k
  BY <1>1, <1>2 DEF Places
<1>4. cache[PlaceOf(k)] \in EntryType
  BY <1>3, ElementOfSeq DEF TypeOK
<1> QED BY <1>3, <1>4 DEF At, EntryType

\* A lookup keeps all that is in the table.
LEMMA TouchedKeeps ==
  ASSUME TypeOK, Files(cache, rem), NEW k
  PROVE  Touched(k) \in Seq(EntryType) /\ Files(Touched(k), rem)
<1>1. CASE Places(k) = {}
  BY <1>1 DEF Touched, TypeOK
<1>2. CASE Places(k) # {}
  <2> DEFINE p == PlaceOf(k)
  <2> DEFINE n == Len(cache)
  <2> DEFINE t == Touched(k)
  <2>1. p \in 1..n /\ cache[p] \in EntryType /\ n \in Nat /\ DOMAIN cache = 1..n
    BY <1>2, Found, LenProperties DEF TypeOK
  <2>2. /\ RemoveAt(cache, p) \in Seq(EntryType)
        /\ Len(RemoveAt(cache, p)) = n - 1
        /\ \A i \in 1 .. n - 1 : RemoveAt(cache, p)[i] = IF i < p THEN cache[i] ELSE cache[i + 1]
    BY <2>1, RemoveAtProperties DEF TypeOK
  <2>3. t = Append(RemoveAt(cache, p), cache[p])
    BY <1>2 DEF Touched, Without
  <2>4. /\ t \in Seq(EntryType) /\ Len(t) = n
        /\ \A i \in 1 .. n - 1 : t[i] = IF i < p THEN cache[i] ELSE cache[i + 1]
        /\ t[n] = cache[p]
    <3> DEFINE s == RemoveAt(cache, p)
    <3> DEFINE e == cache[p]
    <3>0. s \in Seq(EntryType) /\ e \in EntryType
      BY <2>1, <2>2
    <3> HIDE DEF s, e
    <3>1. /\ Append(s, e) \in Seq(EntryType)
          /\ Len(Append(s, e)) = Len(s) + 1
          /\ \A i \in 1..Len(s) : Append(s, e)[i] = s[i]
          /\ Append(s, e)[Len(s) + 1] = e
      BY <3>0, AppendProperties
    <3>2. t = Append(s, e) /\ Len(s) = n - 1
      BY <2>2, <2>3 DEF s, e
    <3>3. \A i \in 1 .. n - 1 : t[i] = s[i]
      BY <3>1, <3>2
    <3>4. Len(t) = n /\ t[n] = e
      <4> HIDE DEF n, t
      <4>1. Len(s) + 1 = n
        BY <2>1, <3>2
      <4> QED BY <3>1, <3>2, <4>1
    <3> QED BY <2>2, <3>1, <3>2, <3>3, <3>4 DEF s, e
  <2>5. DOMAIN t = 1..n
    BY <2>4, LenProperties
  <2> HIDE DEF p, n, t
  <2> DEFINE f(i) == IF i = n THEN p ELSE IF i < p THEN i ELSE i + 1
  <2> DEFINE g(i) == IF i = p THEN n ELSE IF i < p THEN i ELSE i - 1
  <2>6. \A i \in 1..n : f(i) \in 1..n /\ t[i] = cache[f(i)]
    BY <2>1, <2>4
  <2>7. \A i, j \in 1..n : f(i) = f(j) => i = j
    BY <2>1
  <2>8. \A i \in 1..n : g(i) \in 1..n /\ f(g(i)) = i
    BY <2>1
  <2> HIDE DEF f, g
  <2>9. \A i \in DOMAIN t :
          rem[t[i].remote].src # NULL /\ t[i].key = Key(rem[t[i].remote].af, rem[t[i].remote].src)
    <3> SUFFICES ASSUME NEW i \in 1..n
                 PROVE  /\ rem[t[i].remote].src # NULL
                        /\ t[i].key = Key(rem[t[i].remote].af, rem[t[i].remote].src)
      BY <2>5
    <3>1. f(i) \in DOMAIN cache /\ t[i] = cache[f(i)]
      BY <2>1, <2>6
    <3> QED BY <3>1 DEF Files
  <2>10. \A i, j \in DOMAIN t : t[i].key = t[j].key => i = j
    <3> SUFFICES ASSUME NEW i \in 1..n, NEW j \in 1..n, t[i].key = t[j].key
                 PROVE  i = j
      BY <2>5
    <3>1. f(i) \in DOMAIN cache /\ f(j) \in DOMAIN cache /\ cache[f(i)].key = cache[f(j)].key
      BY <2>1, <2>6
    <3>2. f(i) = f(j)
      BY <3>1 DEF Files
    <3> QED BY <2>7, <3>2
  <2>11. \A r \in Remotes : rem[r].src # NULL => \E i \in DOMAIN t : t[i].remote = r
    <3> SUFFICES ASSUME NEW r \in Remotes, rem[r].src # NULL
                 PROVE  \E i \in DOMAIN t : t[i].remote = r
      OBVIOUS
    <3>1. PICK i \in 1..n : cache[i].remote = r
      BY <2>1 DEF Files
    <3>2. t[g(i)].remote = r
      BY <2>6, <2>8, <3>1
    <3> QED BY <2>5, <2>8, <3>2
  <2>12. Len(t) < MaxEntries
    BY <2>4 DEF Files, n
  <2> QED BY <2>4, <2>9, <2>10, <2>11, <2>12 DEF Files, t
<1> QED BY <1>1, <1>2

\* The table depends on no more of a remote than its client and family.
LEMMA FilesStays ==
  ASSUME NEW c, NEW m, NEW n, c \in Seq(EntryType), Files(c, m),
         \A r \in Remotes : n[r].src = m[r].src /\ n[r].af = m[r].af
  PROVE  Files(c, n)
<1>1. ASSUME NEW i \in DOMAIN c PROVE c[i].remote \in Remotes
  <2>1. i \in 1..Len(c)
    BY LenProperties
  <2>2. c[i] \in EntryType
    BY <2>1, ElementOfSeq
  <2> QED BY <2>2 DEF EntryType
<1> QED BY <1>1 DEF Files

\* Nothing found: no entry has the key.  Something found: it is the session of that key.
LEMMA FoundSession ==
  ASSUME TypeOK, Files(cache, rem), NEW af \in AFs, NEW s \in Sources
  PROVE  LET r == At(Key(af, s)) IN
         \/ r = NULL /\ \A i \in DOMAIN cache : cache[i].key # Key(af, s)
         \/ r \in Live /\ r # NULL /\ rem[r].af = af /\ rem[r].src = s
<1> DEFINE k == Key(af, s)
<1>1. CASE Places(k) = {}
  BY <1>1 DEF At, Places
<1>2. CASE Places(k) # {}
  <2> DEFINE r == At(k)
  <2>1. PICK i \in 1..Len(cache) : cache[i].key = k /\ cache[i].remote = r /\ r \in Remotes
    BY <1>2, Found
  <2>2. rem[r].src # NULL /\ Key(rem[r].af, rem[r].src) = k
    BY <2>1, LenProperties DEF Files, TypeOK
  <2>3. rem[r].af = af /\ rem[r].src = s
    BY <2>2 DEF Key
  <2>4. r # NULL
    BY <2>1, HeadersAssumption
  <2> QED BY <2>1, <2>2, <2>3, <2>4 DEF Live
<1> QED BY <1>1, <1>2

\* The entry of a live remote goes, and the remote with it.
LEMMA WithoutKeeps ==
  ASSUME TypeOK, Files(cache, rem), NEW r \in Live
  PROVE  LET k == Key(rem[r].af, rem[r].src)
             m == [x \in Remotes |-> IF At(k) = x THEN Freed ELSE rem[x]]
         IN  Without(k) \in Seq(EntryType) /\ Files(Without(k), m)
<1> DEFINE k == Key(rem[r].af, rem[r].src)
<1> DEFINE m == [x \in Remotes |-> IF At(k) = x THEN Freed ELSE rem[x]]
<1> DEFINE p == PlaceOf(k)
<1> DEFINE n == Len(cache)
<1> DEFINE t == Without(k)
<1>1. Places(k) # {}
  BY DEF Files, Live, Places
<1> HIDE DEF k
<1>2. /\ p \in 1..n /\ cache[p] \in EntryType /\ n \in Nat /\ DOMAIN cache = 1..n
      /\ cache[p].key = k /\ cache[p].remote = At(k)
  BY <1>1, Found, LenProperties DEF TypeOK
<1>3. t = RemoveAt(cache, p)
  BY <1>1 DEF Without
<1> HIDE DEF p, t
<1>4. /\ t \in Seq(EntryType) /\ Len(t) = n - 1
      /\ \A i \in 1 .. n - 1 : t[i] = IF i < p THEN cache[i] ELSE cache[i + 1]
  BY <1>2, <1>3, RemoveAtProperties DEF TypeOK
<1> HIDE DEF n
<1>5. DOMAIN t = 1 .. n - 1
  BY <1>4, LenProperties
<1> DEFINE f(i) == IF i < p THEN i ELSE i + 1
<1> DEFINE g(i) == IF i < p THEN i ELSE i - 1
<1>6. \A i \in 1 .. n - 1 : f(i) \in 1..n /\ f(i) # p /\ t[i] = cache[f(i)]
  BY <1>2, <1>4
<1>7. \A i, j \in 1 .. n - 1 : f(i) = f(j) => i = j
  BY <1>2
<1>8. \A i \in 1..n : i # p => g(i) \in 1 .. n - 1 /\ f(g(i)) = i
  BY <1>2
<1> HIDE DEF f, g
<1>9. \A i \in 1..n : cache[i].remote \in Remotes
  BY CacheTypes DEF n
<1>10. \A i \in 1..n : i # p => cache[i].remote # At(k)
  BY <1>2 DEF Files
<1>11. \A i \in DOMAIN t :
         m[t[i].remote].src # NULL /\ t[i].key = Key(m[t[i].remote].af, m[t[i].remote].src)
  <2> SUFFICES ASSUME NEW i \in 1 .. n - 1
               PROVE  m[t[i].remote].src # NULL /\ t[i].key = Key(m[t[i].remote].af, m[t[i].remote].src)
    BY <1>5
  <2> DEFINE x == t[i].remote
  <2>1. x \in Remotes /\ x # At(k)
    BY <1>6, <1>9, <1>10
  <2>2. m[x] = rem[x]
    BY <2>1
  <2>3. rem[x].src # NULL /\ t[i].key = Key(rem[x].af, rem[x].src)
    BY <1>2, <1>6 DEF Files
  <2> QED BY <2>2, <2>3
<1>12. \A i, j \in DOMAIN t : t[i].key = t[j].key => i = j
  BY <1>2, <1>5, <1>6, <1>7 DEF Files
<1>13. \A x \in Remotes : m[x].src # NULL => \E i \in DOMAIN t : t[i].remote = x
  <2> SUFFICES ASSUME NEW x \in Remotes, m[x].src # NULL
               PROVE  \E i \in DOMAIN t : t[i].remote = x
    OBVIOUS
  <2>1. x # At(k) /\ rem[x].src # NULL
    BY DEF Freed
  <2>2. PICK i \in 1..n : cache[i].remote = x
    BY <1>2, <2>1 DEF Files
  <2>3. i # p
    BY <1>2, <2>1, <2>2
  <2> QED BY <1>5, <1>6, <1>8, <2>2, <2>3
<1>14. Len(t) < MaxEntries
  BY <1>2, <1>4, BoundsAssumption DEF Files, n
<1> QED BY <1>4, <1>11, <1>12, <1>13, <1>14 DEF Files, t, k

\* A new remote is filed; in a full table the oldest one goes for it.
LEMMA InsertKeeps ==
  ASSUME TypeOK, Files(cache, rem), NEW r \in Remotes \ Live, NEW remote \in RemoteType,
         \A i \in DOMAIN cache : cache[i].key # Key(remote.af, remote.src),
         Insert(r, remote)
  PROVE  /\ cache' \in Seq(EntryType) /\ Files(cache', rem')
         /\ rem' \in [Remotes -> RemoteType \cup {Freed}]
         /\ rem'[r] = remote
         /\ \A x \in Live' : x # r => x \in Live /\ rem'[x] = rem[x]
<1> DEFINE e == [key |-> Key(remote.af, remote.src), remote |-> r]
<1> DEFINE n == Len(cache)
<1> DEFINE grown == Append(cache, e)
<1>0. NULL \notin Sources
  BY HeadersAssumption
<1>1. /\ n \in Nat /\ DOMAIN cache = 1..n /\ n < MaxEntries
      /\ \A i \in 1..n : cache[i] \in EntryType /\ cache[i].remote \in Remotes
  BY CacheTypes DEF Files
<1>2. e \in EntryType
  BY DEF EntryType, RemoteType, Key
<1>3. /\ \A i \in 1..n : cache[i].remote \in Live /\ cache[i].remote # r
      /\ \A i, j \in 1..n : cache[i].remote = cache[j].remote => i = j
  BY <1>1 DEF Files, Live
<1> HIDE DEF e
<1>4. /\ grown \in Seq(EntryType) /\ grown # <<>> /\ Len(grown) = n + 1
      /\ \A i \in 1..n : grown[i] = cache[i]
      /\ grown[n + 1] = e
  BY <1>2, AppendProperties DEF TypeOK
<1>5. e.remote = r /\ e.key = Key(remote.af, remote.src) /\ remote.src # NULL
  BY <1>0 DEF e, RemoteType
<1> HIDE DEF n, grown
<1>6. CASE ~Overflows(grown)
  <2>1. cache' = grown /\ rem' = [rem EXCEPT ![r] = remote]
    BY <1>6 DEF Insert, grown, e
  <2>2. /\ rem' \in [Remotes -> RemoteType \cup {Freed}] /\ rem'[r] = remote
        /\ \A x \in Remotes : x # r => rem'[x] = rem[x]
    BY <2>1 DEF TypeOK
  <2>3. DOMAIN cache' = 1 .. n + 1
    BY <1>4, <2>1, LenProperties
  <2>4. \A i \in 1 .. n + 1 :
          \/ i \in 1..n /\ cache'[i] = cache[i] /\ rem'[cache[i].remote] = rem[cache[i].remote]
          \/ i = n + 1 /\ cache'[i] = e
    BY <1>1, <1>3, <1>4, <2>1, <2>2
  <2>5. \A i \in DOMAIN cache' :
          /\ rem'[cache'[i].remote].src # NULL
          /\ cache'[i].key = Key(rem'[cache'[i].remote].af, rem'[cache'[i].remote].src)
    BY <1>1, <1>5, <2>2, <2>3, <2>4 DEF Files
  <2>6. \A i, j \in DOMAIN cache' : cache'[i].key = cache'[j].key => i = j
    BY <1>1, <1>5, <2>3, <2>4 DEF Files
  <2>7. \A x \in Remotes : rem'[x].src # NULL => \E i \in DOMAIN cache' : cache'[i].remote = x
    <3> SUFFICES ASSUME NEW x \in Remotes, rem'[x].src # NULL
                 PROVE  \E i \in 1 .. n + 1 : cache'[i].remote = x
      BY <2>3
    <3>1. CASE x = r
      BY <1>1, <1>4, <1>5, <2>1, <3>1
    <3>2. CASE x # r
      BY <1>1, <1>4, <2>1, <2>2, <3>2 DEF Files
    <3> QED BY <3>1, <3>2
  <2>8. Len(cache') < MaxEntries
    BY <1>1, <1>4, <1>6, <2>1, BoundsAssumption DEF Overflows
  <2>9. \A x \in Live' : x # r => x \in Live /\ rem'[x] = rem[x]
    BY <2>2 DEF Live
  <2> QED BY <1>4, <2>1, <2>2, <2>5, <2>6, <2>7, <2>8, <2>9 DEF Files
<1>7. CASE Overflows(grown)
  <2> DEFINE v == cache[1].remote
  <2>1. n >= 1 /\ n + 1 = MaxEntries
    BY <1>1, <1>4, <1>7, BoundsAssumption DEF Overflows
  <2>2. Head(grown) = cache[1]
    BY <1>1, <1>4, <2>1
  <2>3. cache' = Tail(grown) /\ rem' = [rem EXCEPT ![r] = remote, ![v] = Freed]
    BY <1>7, <2>2 DEF Insert, grown, e
  <2>4. v \in Remotes /\ v # r /\ 1 \in 1..n
    BY <1>1, <1>3, <2>1
  <2>5. /\ rem' \in [Remotes -> RemoteType \cup {Freed}] /\ rem'[r] = remote /\ rem'[v] = Freed
        /\ \A x \in Remotes : x # r /\ x # v => rem'[x] = rem[x]
    <3> HIDE DEF v
    <3> QED BY <2>3, <2>4 DEF TypeOK
  <2>6. /\ cache' \in Seq(EntryType) /\ Len(cache') = n
        /\ \A i \in 1..n : cache'[i] = grown[i + 1]
    BY <1>1, <1>4, <2>3, HeadTailProperties
  <2>7. DOMAIN cache' = 1..n
    BY <2>6, LenProperties
  <2>8. \A i \in 1..n :
          \/ /\ i + 1 \in 1..n /\ i + 1 # 1 /\ cache'[i] = cache[i + 1]
             /\ cache[i + 1].remote # v /\ rem'[cache[i + 1].remote] = rem[cache[i + 1].remote]
          \/ i = n /\ cache'[i] = e
    <3> SUFFICES ASSUME NEW i \in 1..n, i # n
                 PROVE  /\ i + 1 \in 1..n /\ i + 1 # 1 /\ cache'[i] = cache[i + 1]
                        /\ cache[i + 1].remote # v /\ rem'[cache[i + 1].remote] = rem[cache[i + 1].remote]
      BY <1>1, <1>4, <2>6
    <3>1. i + 1 \in 1..n /\ i + 1 # 1
      BY <1>1
    <3>2. cache'[i] = cache[i + 1]
      BY <1>4, <2>6, <3>1
    <3>3. cache[i + 1].remote # v
      BY <1>3, <2>4, <3>1
    <3> QED BY <1>1, <1>3, <2>5, <3>1, <3>2, <3>3
  <2>9. \A i \in DOMAIN cache' :
          /\ rem'[cache'[i].remote].src # NULL
          /\ cache'[i].key = Key(rem'[cache'[i].remote].af, rem'[cache'[i].remote].src)
    <3> HIDE DEF v
    <3> SUFFICES ASSUME NEW i \in 1..n
                 PROVE  /\ rem'[cache'[i].remote].src # NULL
                        /\ cache'[i].key = Key(rem'[cache'[i].remote].af, rem'[cache'[i].remote].src)
      BY <2>7
    <3>1. CASE cache'[i] = e
      BY <1>5, <2>5, <3>1
    <3>2. CASE cache'[i] # e
      <4>1. /\ i + 1 \in 1..n /\ cache'[i] = cache[i + 1]
            /\ rem'[cache[i + 1].remote] = rem[cache[i + 1].remote]
        BY <2>8, <3>2
      <4>2. /\ rem[cache[i + 1].remote].src # NULL
            /\ cache[i + 1].key = Key(rem[cache[i + 1].remote].af, rem[cache[i + 1].remote].src)
        BY <1>1, <4>1 DEF Files
      <4> QED BY <4>1, <4>2
    <3> QED BY <3>1, <3>2
  <2>10. \A i, j \in DOMAIN cache' : cache'[i].key = cache'[j].key => i = j
    <3> SUFFICES ASSUME NEW i \in 1..n, NEW j \in 1..n, cache'[i].key = cache'[j].key
                 PROVE  i = j
      BY <2>7
    <3>1. \A l \in 1..n : cache[l].key # e.key
      BY <1>1, <1>5
    <3>2. \A k, l \in 1..n : cache[k].key = cache[l].key => k = l
      BY <1>1 DEF Files
    <3> QED BY <1>1, <2>8, <3>1, <3>2
  <2>11. \A x \in Remotes : rem'[x].src # NULL => \E i \in DOMAIN cache' : cache'[i].remote = x
    <3> SUFFICES ASSUME NEW x \in Remotes, rem'[x].src # NULL
                 PROVE  \E i \in 1..n : cache'[i].remote = x
      BY <2>7
    <3>1. x # v
      BY <2>5 DEF Freed
    <3>2. CASE x = r
      BY <1>1, <1>4, <1>5, <2>1, <2>6, <3>2
    <3>3. CASE x # r
      <4>1. rem[x].src # NULL
        BY <2>5, <3>1, <3>3
      <4>2. PICK i \in 1..n : cache[i].remote = x
        BY <1>1, <4>1 DEF Files
      <4>3. i # 1
        BY <3>1, <4>2
      <4>4. i - 1 \in 1..n /\ (i - 1) + 1 = i
        BY <1>1, <4>3
      <4>5. cache'[i - 1] = cache[i]
        BY <1>4, <2>6, <4>4
      <4> QED BY <4>2, <4>4, <4>5
    <3> QED BY <3>2, <3>3
  <2>12. Len(cache') < MaxEntries
    BY <1>1, <2>6
  <2>13. \A x \in Live' : x # r => x \in Live /\ rem'[x] = rem[x]
    BY <2>5 DEF Live, Freed
  <2> QED BY <2>5, <2>6, <2>9, <2>10, <2>11, <2>12, <2>13 DEF Files
<1> QED BY <1>6, <1>7

-----------------------------------------------------------------------------
(* Sockets.                                                                *)

\* What a header is filed under, and what it stands for.
LEMMA HeaderTypes ==
  ASSUME NEW h \in Headers
  PROVE  /\ AF(h) \in AFs /\ (AF(h) = "name" <=> h \in Names)
         /\ StandsFor(h) \subseteq Addrs
         /\ h \notin Names => h \in Addrs /\ StandsFor(h) = {h}
<1>1. h \in Addrs \/ h \in Names
  BY DEF Headers
<1>2. "name" \notin Families
  BY DEF Families
<1>3. h \in Addrs => Family[h] \in Families
  BY HeadersAssumption
<1> QED BY <1>1, <1>2, <1>3, HeadersAssumption DEF AF, AFs, StandsFor

FamiliesFit == SingleName /\ OneFamily => \A r \in Live : rem[r].family = Family[rem[r].dst]

\* A packet that leaves, or fails to, changes no more of the heap than one session's
\* destination and the addresses it has reached.
LEMMA SendKeeps ==
  ASSUME IndInv, UNCHANGED asks, NEW r \in Live, NEW s, NEW h, NEW a \in Addrs, NEW remote \in RemoteType,
         remote.src = rem[r].src, remote.af = rem[r].af, remote.header = rem[r].header,
         SingleName => SessionFits(remote) /\ a \in Reachable(remote),
         SingleName /\ OneFamily => remote.family = Family[remote.dst],
         SendFrom(r, s, h, a, remote)
  PROVE  /\ rem' \in [Remotes -> RemoteType \cup {Freed}]
         /\ \A x \in Remotes : rem'[x].src = rem[x].src /\ rem'[x].af = rem[x].af
         /\ Live' = Live
         /\ \A x \in Live' : rem'[x].af = AF(rem'[x].header)
         /\ (SingleName => \A x \in Live : SessionFits(rem[x]))'
         /\ FamiliesFit'
         /\ out' = Quiet \/ out' = Forwarded(s, h, a, r)
<1> USE DEF IndInv
<1>1. PICK m \in RemoteType :
        /\ rem' = [rem EXCEPT ![r] = m]
        /\ m.src = remote.src /\ m.af = remote.af /\ m.header = remote.header
        /\ m.dst = remote.dst /\ m.family = remote.family
        /\ m.reached \subseteq remote.reached \cup {a}
  <2> DEFINE new == [remote EXCEPT !.reached = @ \cup {a}]
  <2>1. new \in RemoteType
    BY DEF RemoteType
  <2>2. /\ new.src = remote.src /\ new.af = remote.af /\ new.header = remote.header
        /\ new.dst = remote.dst /\ new.family = remote.family
        /\ new.reached = remote.reached \cup {a}
    BY DEF RemoteType
  <2>3. rem' = [rem EXCEPT ![r] = new] \/ rem' = [rem EXCEPT ![r] = remote]
    BY DEF SendFrom
  <2> HIDE DEF new
  <2> QED BY <2>1, <2>2, <2>3
<1>2. /\ rem' \in [Remotes -> RemoteType \cup {Freed}]
      /\ rem'[r] = m /\ \A x \in Remotes : x # r => rem'[x] = rem[x]
  BY <1>1 DEF TypeOK, Live
<1>3. \A x \in Remotes : rem'[x].src = rem[x].src /\ rem'[x].af = rem[x].af
  BY <1>1, <1>2
<1>4. Live' = Live
  BY <1>3 DEF Live
<1>5. \A x \in Live' : rem'[x].af = AF(rem'[x].header)
  BY <1>1, <1>2, <1>4 DEF TypeOK, Live
<1>6. (SingleName => \A x \in Live : SessionFits(rem[x]))'
  <2> SUFFICES ASSUME SingleName, NEW x \in Live
               PROVE  SessionFits(rem[x])'
    BY <1>4 DEF SingleName
  <2>1. SessionFits(rem[x]) /\ x \in Remotes
    BY DEF SessionsFit, Live
  <2>2. CASE x # r
    BY <1>2, <2>1, <2>2 DEF SessionFits, Reachable
  <2>3. CASE x = r
    BY <1>1, <1>2, <2>3 DEF SessionFits, Reachable
  <2> QED BY <2>2, <2>3
<1>7. FamiliesFit'
  <2> SUFFICES ASSUME SingleName, OneFamily, NEW x \in Live
               PROVE  rem'[x].family = Family[rem'[x].dst]
    BY <1>4 DEF FamiliesFit, SingleName
  <2>1. rem[x].family = Family[rem[x].dst] /\ x \in Remotes
    BY DEF RightDestinationIfSingle, Live
  <2> QED BY <1>1, <1>2, <2>1
<1>8. out' = Quiet \/ out' = Forwarded(s, h, a, r)
  BY DEF SendFrom
<1> QED BY <1>2, <1>3, <1>4, <1>5, <1>6, <1>7, <1>8

\* A socket opened for a header of its client fits; what it may evict is nobody else's.
LEMMA OpenKeeps ==
  ASSUME IndInv, UNCHANGED asks, NEW s \in Sources, NEW h \in Headers, NEW a \in StandsFor(h),
         SingleName => h \in asks[s],
         \A i \in DOMAIN cache : cache[i].key # Key(AF(h), s),
         OpenRemote(s, h, a)
  PROVE  /\ cache' \in Seq(EntryType) /\ Files(cache', rem')
         /\ rem' \in [Remotes -> RemoteType \cup {Freed}]
         /\ \A x \in Live' : rem'[x].af = AF(rem'[x].header)
         /\ (SingleName => \A x \in Live : SessionFits(rem[x]))'
         /\ FamiliesFit'
         /\ out' = Quiet \/ \E r \in Live' : out' = Forwarded(s, h, a, r) /\ rem'[r].src = s
<1> USE DEF IndInv
<1>1. CASE UNCHANGED <<cache, rem>> /\ out' = Quiet
  <2>1. Live' = Live
    BY <1>1 DEF Live
  <2>2. (SingleName => \A x \in Live : SessionFits(rem[x]))'
    BY <1>1, <2>1 DEF SessionsFit, SingleName, SessionFits, Reachable
  <2>3. FamiliesFit'
    BY <1>1, <2>1 DEF FamiliesFit, RightDestinationIfSingle, SingleName
  <2> QED BY <1>1, <2>1, <2>2, <2>3 DEF TypeOK
<1>2. CASE \E r \in Remotes \ Live : Insert(r, NewRemote(s, h, a)) /\ out' = Forwarded(s, h, a, r)
  <2> DEFINE m == NewRemote(s, h, a)
  <2>1. PICK r \in Remotes \ Live : Insert(r, m) /\ out' = Forwarded(s, h, a, r)
    BY <1>2
  <2>2. a \in Addrs /\ Family[a] \in Families
    BY HeaderTypes, HeadersAssumption
  <2>3. /\ m \in RemoteType
        /\ m.src = s /\ m.af = AF(h) /\ m.header = h /\ m.dst = a /\ m.family = Family[a] /\ m.reached = {a}
    BY <2>2, HeaderTypes DEF NewRemote, RemoteType, SocketFamily
  <2> HIDE DEF m
  <2>4. /\ cache' \in Seq(EntryType) /\ Files(cache', rem')
        /\ rem' \in [Remotes -> RemoteType \cup {Freed}]
        /\ rem'[r] = m
        /\ \A x \in Live' : x # r => x \in Live /\ rem'[x] = rem[x]
    BY <2>1, <2>3, InsertKeeps
  <2>5. \A x \in Live' : rem'[x].af = AF(rem'[x].header)
    BY <2>3, <2>4 DEF TypeOK
  <2>6. (SingleName => \A x \in Live : SessionFits(rem[x]))'
    <3> SUFFICES ASSUME SingleName, NEW x \in Live' PROVE SessionFits(rem[x])'
      BY DEF SingleName
    <3>1. CASE x = r
      <4>1. a \in Reachable(m)'
        BY <2>2, <2>3, HeaderTypes DEF Reachable, StandsFor
      <4> QED BY <2>3, <2>4, <3>1, <4>1 DEF SessionFits, Reachable
    <3>2. CASE x # r
      BY <2>4, <3>2 DEF SessionsFit, SessionFits, Reachable
    <3> QED BY <3>1, <3>2
  <2>7. FamiliesFit'
    BY <2>3, <2>4 DEF FamiliesFit, RightDestinationIfSingle, SingleName
  <2>8. r \in Live'
    BY <2>3, <2>4, HeadersAssumption DEF Live
  <2> QED BY <2>1, <2>3, <2>4, <2>5, <2>6, <2>7, <2>8
<1> QED BY <1>1, <1>2 DEF OpenRemote

\* What every handler has to show.
LEMMA Assemble ==
  ASSUME IndInv, UNCHANGED asks,
         cache' \in Seq(EntryType), Files(cache', rem'),
         rem' \in [Remotes -> RemoteType \cup {Freed}],
         \A r \in Live' : rem'[r].af = AF(rem'[r].header),
         (SingleName => \A r \in Live : SessionFits(rem[r]))',
         FamiliesFit',
         pending' \in Seq(QueryType), Len(pending') <= MaxQueries,
         SingleName => \A i \in DOMAIN pending' :
           pending'[i].remote = NULL /\ pending'[i].header \in asks[pending'[i].src],
         SingleName => RightDestination',
         RightLabel'
  PROVE  IndInv'
<1>1. SingleName' = SingleName
  BY DEF SingleName
<1>2. TypeOK'
  BY DEF IndInv, TypeOK
<1>3. SessionsFit'
  BY <1>1 DEF SessionsFit
<1>4. RightDestinationIfSingle'
  BY <1>1 DEF RightDestinationIfSingle, FamiliesFit, RightDestination
<1> QED BY <1>2, <1>3, <1>4 DEF IndInv

\* A packet sent from its client's socket for what its header stands for is right.
LEMMA OutFits ==
  ASSUME UNCHANGED asks, NEW s, NEW h, NEW a, SingleName => a \in StandsFor(h),
         SingleName => out' = Quiet \/ \E r \in Live' : out' = Forwarded(s, h, a, r) /\ rem'[r].src = s
  PROVE  (SingleName => RightDestination') /\ RightLabel'
<1>1. SingleName' = SingleName
  BY DEF SingleName
<1>2. SUFFICES ASSUME SingleName
               PROVE  /\ out'.kind = "packet" => out'.dst \in StandsFor(out'.header) /\ rem'[out'.via].src = out'.src
                      /\ out'.kind # "reply"
  BY <1>1 DEF RightDestination, RightLabel, StandsFor
<1>3. CASE out' = Quiet
  BY <1>3 DEF Quiet
<1>4. CASE \E r \in Live' : out' = Forwarded(s, h, a, r) /\ rem'[r].src = s
  BY <1>2, <1>4 DEF Forwarded
<1> QED BY <1>2, <1>3, <1>4

-----------------------------------------------------------------------------
(* Each handler keeps the invariant.                                       *)

\* At first there is no socket.
LEMMA InitOk == Init => IndInv
<1> SUFFICES ASSUME Init PROVE IndInv
  OBVIOUS
<1>1. Live = {}
  BY DEF Init, Live, Freed
<1>2. /\ cache \in Seq(EntryType) /\ pending \in Seq(QueryType)
      /\ Len(cache) = 0 /\ Len(pending) = 0 /\ DOMAIN cache = {} /\ DOMAIN pending = {}
  BY EmptySeq DEF Init
<1>3. rem \in [Remotes -> RemoteType \cup {Freed}] /\ \A r \in Remotes : rem[r].src = NULL
  BY DEF Init, Freed
<1>4. TypeOK
  BY <1>1, <1>2, <1>3, HeadersAssumption, BoundsAssumption DEF Init, TypeOK
<1>5. Files(cache, rem)
  BY <1>2, <1>3, BoundsAssumption DEF Files
<1>6. out.kind = "none"
  BY DEF Init, Quiet
<1> QED BY <1>1, <1>2, <1>4, <1>5, <1>6
      DEF IndInv, SessionsFit, RightDestinationIfSingle, RightDestination, RightLabel

\* What a session is, read off the heap.
LEMMA SessionTypes ==
  ASSUME IndInv, NEW r \in Live
  PROVE  /\ r \in Remotes /\ rem[r] \in RemoteType /\ rem[r].dst \in Addrs
         /\ rem[r].af = AF(rem[r].header)
         /\ SingleName => SessionFits(rem[r]) /\ rem[r].dst \in Reachable(rem[r])
         /\ SingleName /\ OneFamily => rem[r].family = Family[rem[r].dst]
<1>1. r \in Remotes /\ rem[r] \in RemoteType
  BY DEF Live, IndInv, TypeOK, Freed
<1>2. rem[r].af = AF(rem[r].header) /\ rem[r].dst \in Addrs /\ rem[r].header \in Headers
  BY <1>1 DEF IndInv, TypeOK, RemoteType
<1>3. SingleName => SessionFits(rem[r]) /\ rem[r].dst \in Reachable(rem[r])
  BY <1>2, HeaderTypes DEF IndInv, SessionsFit, SessionFits, Reachable, StandsFor
<1> QED BY <1>1, <1>2, <1>3 DEF IndInv, RightDestinationIfSingle

\* A query joins those that wait.
LEMMA AskKeeps ==
  ASSUME IndInv, UNCHANGED <<asks, rem>>, NEW s \in Sources, NEW h \in Names, h \in asks[s],
         NEW remote \in Remotes \cup {NULL}, SingleName => remote = NULL,
         cache' \in Seq(EntryType), Files(cache', rem), Ask(s, h, remote)
  PROVE  IndInv'
<1> DEFINE q == [src |-> s, header |-> h, remote |-> remote]
<1>1. q \in QueryType
  BY DEF QueryType
<1>2. pending \in Seq(QueryType) /\ Len(pending) \in Nat /\ DOMAIN pending = 1..Len(pending)
  BY LenProperties DEF IndInv, TypeOK
<1>3. q.src = s /\ q.header = h /\ q.remote = remote
  OBVIOUS
<1> HIDE DEF q
<1>4. /\ pending' \in Seq(QueryType) /\ Len(pending') = Len(pending) + 1
      /\ \A i \in 1..Len(pending) : pending'[i] = pending[i]
      /\ pending'[Len(pending) + 1] = q
  BY <1>1, <1>2, AppendProperties DEF Ask, q
<1>5. DOMAIN pending' = 1 .. Len(pending) + 1
  BY <1>4, LenProperties
<1>6. Len(pending') <= MaxQueries
  BY <1>2, <1>4, BoundsAssumption DEF Ask
<1>7. SingleName => \A i \in DOMAIN pending' :
        pending'[i].remote = NULL /\ pending'[i].header \in asks[pending'[i].src]
  BY <1>2, <1>3, <1>4, <1>5 DEF IndInv, SessionsFit
<1>8. Live' = Live
  BY DEF Live
<1>9. (SingleName => \A r \in Live : SessionFits(rem[r]))' /\ FamiliesFit'
  BY <1>8 DEF IndInv, SessionsFit, SessionFits, Reachable, SingleName, FamiliesFit, RightDestinationIfSingle
<1>10. (SingleName => RightDestination') /\ RightLabel'
  BY DEF Ask, Quiet, RightDestination, RightLabel
<1>11. /\ rem' \in [Remotes -> RemoteType \cup {Freed}]
       /\ \A r \in Live' : rem'[r].af = AF(rem'[r].header)
       /\ Files(cache', rem')
  BY <1>8 DEF IndInv, TypeOK
<1> QED BY <1>4, <1>6, <1>7, <1>9, <1>10, <1>11, Assemble

\* A client's packet: sent, kept for a lookup, or the first of a new socket.
LEMMA ServerRecvKeeps ==
  ASSUME IndInv, NEW s \in Sources, NEW h \in Headers, ServerRecv(s, h)
  PROVE  IndInv'
<1> DEFINE k == Key(AF(h), s)
<1> DEFINE r == At(k)
<1>1. h \in asks[s] /\ UNCHANGED asks
  BY DEF ServerRecv
<1>2. AF(h) \in AFs /\ (AF(h) = "name" <=> h \in Names)
  BY HeaderTypes
<1>3. \/ r = NULL /\ \A i \in DOMAIN cache : cache[i].key # k
      \/ r \in Live /\ r # NULL /\ rem[r].af = AF(h) /\ rem[r].src = s
  BY <1>2, FoundSession DEF IndInv
<1>4. \/ /\ r # NULL /\ (Matches(r, h) \/ h \in Addrs)
         /\ cache' = Touched(k)
         /\ SendFrom(r, s, h, IF Matches(r, h) THEN rem[r].dst ELSE h, rem[r])
         /\ UNCHANGED pending
      \/ /\ r # NULL /\ ~Matches(r, h) /\ h \in Names
         /\ cache' = Touched(k) /\ Ask(s, h, r) /\ UNCHANGED rem
      \/ /\ r = NULL /\ h \in Addrs
         /\ OpenRemote(s, h, h) /\ UNCHANGED pending
      \/ /\ r = NULL /\ h \in Names
         /\ Ask(s, h, NULL) /\ UNCHANGED <<cache, rem>>
  BY <1>3 DEF ServerRecv
<1>5. Touched(k) \in Seq(EntryType) /\ Files(Touched(k), rem)
  BY TouchedKeeps DEF IndInv
<1> HIDE DEF k, r
<1>6. /\ pending \in Seq(QueryType) /\ Len(pending) <= MaxQueries
      /\ SingleName => \A i \in DOMAIN pending :
           pending[i].remote = NULL /\ pending[i].header \in asks[pending[i].src]
  BY DEF IndInv, TypeOK, SessionsFit
<1>7. CASE /\ r # NULL /\ (Matches(r, h) \/ h \in Addrs)
           /\ cache' = Touched(k)
           /\ SendFrom(r, s, h, IF Matches(r, h) THEN rem[r].dst ELSE h, rem[r])
           /\ UNCHANGED pending
  <2> DEFINE a == IF Matches(r, h) THEN rem[r].dst ELSE h
  <2>1. r \in Live /\ rem[r].af = AF(h) /\ rem[r].src = s
    BY <1>3, <1>7
  <2>2. /\ rem[r] \in RemoteType /\ rem[r].dst \in Addrs
        /\ SingleName => SessionFits(rem[r]) /\ rem[r].dst \in Reachable(rem[r])
        /\ SingleName /\ OneFamily => rem[r].family = Family[rem[r].dst]
    BY <2>1, SessionTypes
  <2>3. h \in Addrs => h \notin Names
    BY HeadersAssumption
  <2>4. a \in Addrs
    BY <1>7, <2>2
  <2>5. SingleName => a \in Reachable(rem[r])
    BY <1>1, <1>2, <1>7, <2>1, <2>2, <2>3 DEF Reachable
  <2>6. SingleName => a \in StandsFor(h)
    BY <1>7, <2>2, <2>3 DEF Matches, SessionFits, StandsFor
  <2>7. SendFrom(r, s, h, a, rem[r])
    BY <1>7
  <2> HIDE DEF a
  <2>8. /\ rem' \in [Remotes -> RemoteType \cup {Freed}]
        /\ \A x \in Remotes : rem'[x].src = rem[x].src /\ rem'[x].af = rem[x].af
        /\ Live' = Live
        /\ \A x \in Live' : rem'[x].af = AF(rem'[x].header)
        /\ (SingleName => \A x \in Live : SessionFits(rem[x]))'
        /\ FamiliesFit'
        /\ out' = Quiet \/ out' = Forwarded(s, h, a, r)
    BY <1>1, <2>1, <2>2, <2>4, <2>5, <2>7, SendKeeps
  <2>9. rem'[r].src = s
    BY <2>1, <2>8 DEF Live
  <2>10. (SingleName => RightDestination') /\ RightLabel'
    BY <1>1, <2>1, <2>6, <2>8, <2>9, OutFits
  <2>11. cache' \in Seq(EntryType) /\ Files(cache', rem')
    BY <1>5, <1>7, <2>8, FilesStays
  <2>12. /\ pending' \in Seq(QueryType) /\ Len(pending') <= MaxQueries
         /\ SingleName => \A i \in DOMAIN pending' :
              pending'[i].remote = NULL /\ pending'[i].header \in asks[pending'[i].src]
    BY <1>6, <1>7
  <2> QED BY <1>1, <2>8, <2>10, <2>11, <2>12, Assemble
<1>8. CASE /\ r # NULL /\ ~Matches(r, h) /\ h \in Names
           /\ cache' = Touched(k) /\ Ask(s, h, r) /\ UNCHANGED rem
  <2>1. r \in Live /\ rem[r].af = AF(h) /\ rem[r].src = s
    BY <1>3, <1>8
  <2>2. /\ r \in Remotes /\ rem[r] \in RemoteType /\ rem[r].af = AF(rem[r].header)
        /\ SingleName => SessionFits(rem[r])
    BY <2>1, SessionTypes
  <2>3. rem[r].header \in Names
    BY <1>2, <1>8, <2>1, <2>2, HeaderTypes DEF RemoteType
  <2>4. ~SingleName
    BY <1>1, <1>8, <2>1, <2>2, <2>3 DEF SingleName, SessionFits, Matches
  <2>5. cache' \in Seq(EntryType) /\ Files(cache', rem)
    BY <1>5, <1>8
  <2> QED BY <1>1, <1>8, <2>2, <2>4, <2>5, AskKeeps
<1>9. CASE r = NULL /\ h \in Addrs /\ OpenRemote(s, h, h) /\ UNCHANGED pending
  <2>1. h \in StandsFor(h)
    BY <1>9, HeadersAssumption DEF StandsFor
  <2>2. \A i \in DOMAIN cache : cache[i].key # Key(AF(h), s)
    BY <1>3, <1>9 DEF k
  <2>3. /\ cache' \in Seq(EntryType) /\ Files(cache', rem')
        /\ rem' \in [Remotes -> RemoteType \cup {Freed}]
        /\ \A x \in Live' : rem'[x].af = AF(rem'[x].header)
        /\ (SingleName => \A x \in Live : SessionFits(rem[x]))'
        /\ FamiliesFit'
        /\ out' = Quiet \/ \E x \in Live' : out' = Forwarded(s, h, h, x) /\ rem'[x].src = s
    BY <1>1, <1>9, <2>1, <2>2, OpenKeeps
  <2>4. (SingleName => RightDestination') /\ RightLabel'
    BY <1>1, <2>1, <2>3, OutFits
  <2>5. /\ pending' \in Seq(QueryType) /\ Len(pending') <= MaxQueries
        /\ SingleName => \A i \in DOMAIN pending' :
             pending'[i].remote = NULL /\ pending'[i].header \in asks[pending'[i].src]
    BY <1>6, <1>9
  <2> QED BY <1>1, <2>3, <2>4, <2>5, Assemble
<1>10. CASE r = NULL /\ h \in Names /\ Ask(s, h, NULL) /\ UNCHANGED <<cache, rem>>
  <2>1. cache' \in Seq(EntryType) /\ Files(cache', rem)
    BY <1>10 DEF IndInv, TypeOK
  <2> QED BY <1>1, <1>10, <2>1, AskKeeps
<1> QED BY <1>4, <1>7, <1>8, <1>9, <1>10

\* An answer: the query goes, and the packet leaves for the address it brought.
LEMMA QueryResolveKeeps ==
  ASSUME IndInv, NEW i \in 1..MaxQueries, QueryResolve(i)
  PROVE  IndInv'
<1> DEFINE q == pending[i]
<1> DEFINE k == Key("name", q.src)
<1>1. i \in DOMAIN pending /\ pending' = RemoveAt(pending, i) /\ UNCHANGED asks
  BY DEF QueryResolve
<1>2. /\ pending \in Seq(QueryType) /\ Len(pending) \in Nat /\ Len(pending) <= MaxQueries
      /\ DOMAIN pending = 1..Len(pending)
  BY LenProperties DEF IndInv, TypeOK
<1>3. q \in QueryType
  BY <1>1, <1>2, ElementOfSeq
<1>4. q.src \in Sources /\ q.header \in Names /\ q.remote \in Remotes \cup {NULL}
  BY <1>3 DEF QueryType
<1>5. SingleName => q.remote = NULL /\ q.header \in asks[q.src]
  BY <1>1 DEF IndInv, SessionsFit
<1>6. \/ \E a \in Resolves[q.header] : Answered(q, a)
      \/ UNCHANGED <<cache, rem>> /\ out' = Quiet
  BY DEF QueryResolve
<1> HIDE DEF q
<1>7. /\ pending' \in Seq(QueryType) /\ Len(pending') <= MaxQueries
      /\ SingleName => \A j \in DOMAIN pending' :
           pending'[j].remote = NULL /\ pending'[j].header \in asks[pending'[j].src]
  <2>1. /\ pending' \in Seq(QueryType) /\ Len(pending') = Len(pending) - 1
        /\ \A j \in 1 .. Len(pending) - 1 :
             pending'[j] = IF j < i THEN pending[j] ELSE pending[j + 1]
    BY <1>1, <1>2, RemoveAtProperties
  <2>2. DOMAIN pending' = 1 .. Len(pending) - 1
    BY <2>1, LenProperties
  <2>3. \A j \in DOMAIN pending' : \E l \in DOMAIN pending : pending'[j] = pending[l]
    BY <1>1, <1>2, <2>1, <2>2
  <2>4. Len(pending') <= MaxQueries
    BY <1>2, <2>1, BoundsAssumption
  <2> QED BY <2>1, <2>3, <2>4 DEF IndInv, SessionsFit
<1>8. ASSUME Live' = Live, UNCHANGED rem
      PROVE  /\ rem' \in [Remotes -> RemoteType \cup {Freed}]
             /\ \A x \in Live' : rem'[x].af = AF(rem'[x].header)
             /\ (SingleName => \A x \in Live : SessionFits(rem[x]))'
             /\ FamiliesFit'
  BY <1>1, <1>8 DEF IndInv, TypeOK, SessionsFit, SessionFits, Reachable, SingleName, FamiliesFit, RightDestinationIfSingle
<1>9. out' = Quiet => (SingleName => RightDestination') /\ RightLabel'
  BY DEF Quiet, RightDestination, RightLabel
<1>10. CASE UNCHANGED <<cache, rem>> /\ out' = Quiet
  <2>1. Live' = Live /\ cache' \in Seq(EntryType) /\ Files(cache', rem')
    BY <1>10 DEF Live, IndInv, TypeOK
  <2>2. /\ rem' \in [Remotes -> RemoteType \cup {Freed}]
        /\ \A x \in Live' : rem'[x].af = AF(rem'[x].header)
        /\ (SingleName => \A x \in Live : SessionFits(rem[x]))'
        /\ FamiliesFit'
        /\ (SingleName => RightDestination') /\ RightLabel'
    BY <1>8, <1>9, <1>10, <2>1
  <2> QED BY <1>1, <1>7, <2>1, <2>2, Assemble
<1>11. ASSUME NEW a \in Resolves[q.header], Answered(q, a) PROVE IndInv'
  <2> DEFINE r == SessionOf(q)
  <2> DEFINE new == [rem[r] EXCEPT !.dst = a]
  <2>1. a \in StandsFor(q.header) /\ a \in Addrs /\ AF(q.header) = "name" /\ q.header \in Headers
    BY <1>4, HeadersAssumption DEF StandsFor, AF, Headers
  <2>2. "name" \in AFs
    BY DEF AFs
  <2>3. \/ At(k) = NULL /\ \A j \in DOMAIN cache : cache[j].key # k
        \/ At(k) \in Live /\ At(k) # NULL /\ rem[At(k)].af = "name" /\ rem[At(k)].src = q.src
    BY <1>4, <2>2, FoundSession DEF IndInv
  <2>4. \/ r = NULL /\ OpenRemote(q.src, q.header, a)
        \/ /\ r # NULL /\ r \in Live
           /\ SendFrom(r, q.src, q.header, a, new)
           /\ cache' = IF q.remote = NULL THEN Touched(k) ELSE cache
        \/ /\ r # NULL /\ r \notin Live
           /\ \/ UNCHANGED rem /\ out' = Quiet
              \/ \E via \in Live : SendFrom(via, q.src, q.header, a, rem[via])
           /\ UNCHANGED cache
    BY <1>11 DEF Answered
  <2>5. /\ r = NULL => q.remote = NULL /\ At(k) = NULL
        /\ SingleName => r = At(k)
    BY <1>5 DEF SessionOf
  <2>6. Touched(k) \in Seq(EntryType) /\ Files(Touched(k), rem)
    BY TouchedKeeps DEF IndInv
  <2>7. cache \in Seq(EntryType) /\ Files(cache, rem)
    BY DEF IndInv, TypeOK
  <2> HIDE DEF r, k
  <2>8. CASE r = NULL /\ OpenRemote(q.src, q.header, a)
    <3>1. \A j \in DOMAIN cache : cache[j].key # Key(AF(q.header), q.src)
      BY <2>1, <2>3, <2>5, <2>8 DEF k
    <3>2. /\ cache' \in Seq(EntryType) /\ Files(cache', rem')
          /\ rem' \in [Remotes -> RemoteType \cup {Freed}]
          /\ \A x \in Live' : rem'[x].af = AF(rem'[x].header)
          /\ (SingleName => \A x \in Live : SessionFits(rem[x]))'
          /\ FamiliesFit'
          /\ out' = Quiet \/ \E x \in Live' : out' = Forwarded(q.src, q.header, a, x) /\ rem'[x].src = q.src
      BY <1>1, <1>4, <1>5, <2>1, <2>8, <3>1, OpenKeeps
    <3>3. (SingleName => RightDestination') /\ RightLabel'
      BY <1>1, <2>1, <3>2, OutFits
    <3> QED BY <1>1, <1>7, <3>2, <3>3, Assemble
  <2>9. ASSUME r # NULL, r \in Live, SendFrom(r, q.src, q.header, a, new),
               cache' = IF q.remote = NULL THEN Touched(k) ELSE cache
        PROVE  IndInv'
    <3>1. /\ r \in Remotes /\ rem[r] \in RemoteType /\ rem[r].af = AF(rem[r].header)
          /\ SingleName => SessionFits(rem[r])
          /\ SingleName /\ OneFamily => rem[r].family = Family[rem[r].dst]
      BY <2>9, SessionTypes
    <3>2. /\ new \in RemoteType
          /\ new.src = rem[r].src /\ new.af = rem[r].af /\ new.header = rem[r].header
          /\ new.dst = a /\ new.family = rem[r].family /\ new.reached = rem[r].reached
      BY <2>1, <3>1 DEF RemoteType
    <3> HIDE DEF new
    <3>3. SingleName => rem[r].af = "name" /\ rem[r].src = q.src
      BY <2>3, <2>5, <2>9
    <3>4. SingleName => rem[r].header = q.header
      <4>1. SingleName => rem[r].header \in Names
        BY <3>1, <3>3, HeaderTypes DEF RemoteType
      <4> QED BY <1>4, <1>5, <3>1, <3>3, <4>1 DEF SingleName, SessionFits
    <3>5. SingleName => SessionFits(new) /\ a \in Reachable(new)
      BY <2>1, <3>1, <3>2, <3>3, <3>4 DEF SessionFits, Reachable
    <3>6. SingleName /\ OneFamily => new.family = Family[new.dst]
      BY <1>4, <2>1, <3>1, <3>2, <3>4 DEF OneFamily, SessionFits, StandsFor
    <3>7. /\ rem' \in [Remotes -> RemoteType \cup {Freed}]
          /\ \A x \in Remotes : rem'[x].src = rem[x].src /\ rem'[x].af = rem[x].af
          /\ Live' = Live
          /\ \A x \in Live' : rem'[x].af = AF(rem'[x].header)
          /\ (SingleName => \A x \in Live : SessionFits(rem[x]))'
          /\ FamiliesFit'
          /\ out' = Quiet \/ out' = Forwarded(q.src, q.header, a, r)
      BY <1>1, <2>1, <2>9, <3>2, <3>5, <3>6, SendKeeps
    <3>8. cache' \in Seq(EntryType) /\ Files(cache', rem)
      BY <2>6, <2>7, <2>9
    <3>9. Files(cache', rem')
      BY <3>7, <3>8, FilesStays
    <3>10. SingleName => out' = Quiet \/ \E x \in Live' :
             out' = Forwarded(q.src, q.header, a, x) /\ rem'[x].src = q.src
      BY <2>9, <3>1, <3>3, <3>7
    <3>11. (SingleName => RightDestination') /\ RightLabel'
      BY <1>1, <2>1, <3>10, OutFits
    <3> QED BY <1>1, <1>7, <3>7, <3>8, <3>9, <3>11, Assemble
  <2>10. ASSUME r # NULL, r \notin Live, UNCHANGED cache,
                \/ UNCHANGED rem /\ out' = Quiet
                \/ \E via \in Live : SendFrom(via, q.src, q.header, a, rem[via])
         PROVE  IndInv'
    <3>1. ~SingleName
      BY <2>3, <2>5, <2>10
    <3>2. CASE UNCHANGED rem /\ out' = Quiet
      <4>1. Live' = Live /\ cache' \in Seq(EntryType) /\ Files(cache', rem')
        BY <2>7, <2>10, <3>2 DEF Live
      <4>2. /\ rem' \in [Remotes -> RemoteType \cup {Freed}]
            /\ \A x \in Live' : rem'[x].af = AF(rem'[x].header)
            /\ (SingleName => \A x \in Live : SessionFits(rem[x]))'
            /\ FamiliesFit'
            /\ (SingleName => RightDestination') /\ RightLabel'
        BY <1>8, <1>9, <3>2, <4>1
      <4> QED BY <1>1, <1>7, <4>1, <4>2, Assemble
    <3>3. ASSUME NEW via \in Live, SendFrom(via, q.src, q.header, a, rem[via]) PROVE IndInv'
      <4>1. rem[via] \in RemoteType
        BY SessionTypes
      <4>2. /\ rem' \in [Remotes -> RemoteType \cup {Freed}]
            /\ \A x \in Remotes : rem'[x].src = rem[x].src /\ rem'[x].af = rem[x].af
            /\ Live' = Live
            /\ \A x \in Live' : rem'[x].af = AF(rem'[x].header)
            /\ (SingleName => \A x \in Live : SessionFits(rem[x]))'
            /\ FamiliesFit'
        BY <1>1, <2>1, <3>1, <3>3, <4>1, SendKeeps
      <4>3. cache' \in Seq(EntryType) /\ Files(cache', rem')
        BY <2>7, <2>10, <4>2, FilesStays
      <4>4. RightLabel'
        BY <1>1, <3>1 DEF RightLabel, SingleName
      <4> QED BY <1>1, <1>7, <3>1, <4>2, <4>3, <4>4, Assemble
    <3> QED BY <2>10, <3>2, <3>3
  <2> QED BY <2>4, <2>8, <2>9, <2>10
<1> QED BY <1>6, <1>10, <1>11

\* A reply comes from an address its session may have reached.
LEMMA RemoteRecvKeeps ==
  ASSUME IndInv, NEW r \in Remotes, NEW a \in Addrs, RemoteRecv(r, a)
  PROVE  IndInv'
<1>1. /\ r \in Live /\ UNCHANGED <<asks, cache, rem, pending>>
      /\ out' = [kind |-> "reply", src |-> rem[r].src, from |-> a, label |-> Label(r, a),
                 known |-> a \in rem[r].reached]
  BY DEF RemoteRecv
<1>2. /\ rem[r] \in RemoteType /\ rem[r].af = AF(rem[r].header)
      /\ SingleName => SessionFits(rem[r])
  BY <1>1, SessionTypes
<1>3. Live' = Live /\ SingleName' = SingleName
  BY <1>1 DEF Live, SingleName
<1>4. SingleName =>
        /\ a \in rem[r].reached => Label(r, a) \in asks[rem[r].src] /\ a \in StandsFor(Label(r, a))
        /\ Label(r, a) = a \/ Label(r, a) \in asks[rem[r].src] \cap Names
  <2>1. a \notin Names
    BY HeadersAssumption
  <2>2. rem[r].af = "name" <=> rem[r].header \in Names
    BY <1>2, HeaderTypes DEF RemoteType
  <2>3. rem[r].af \in Families \/ rem[r].af = "name"
    BY <1>2 DEF RemoteType, AFs
  <2>4. "name" \notin Families
    BY DEF Families
  <2>5. SingleName => /\ a \in rem[r].reached => a \in Reachable(rem[r])
                      /\ rem[r].header \in asks[rem[r].src]
    BY <1>1, <1>2 DEF SessionFits
  <2> QED BY <2>1, <2>2, <2>3, <2>4, <2>5 DEF Label, StandsFor, Reachable
<1>5. /\ SingleName => RightDestination'
      /\ RightLabel'
  BY <1>1, <1>3, <1>4 DEF RightDestination, RightLabel, StandsFor
<1>6. (SingleName => \A x \in Live : SessionFits(rem[x]))' /\ FamiliesFit'
  BY <1>1, <1>3 DEF IndInv, SessionsFit, SessionFits, Reachable, FamiliesFit, RightDestinationIfSingle
<1>7. /\ cache' \in Seq(EntryType) /\ Files(cache', rem')
      /\ rem' \in [Remotes -> RemoteType \cup {Freed}]
      /\ \A x \in Live' : rem'[x].af = AF(rem'[x].header)
      /\ pending' \in Seq(QueryType) /\ Len(pending') <= MaxQueries
      /\ SingleName => \A i \in DOMAIN pending' :
           pending'[i].remote = NULL /\ pending'[i].header \in asks[pending'[i].src]
  BY <1>1, <1>3 DEF IndInv, TypeOK, SessionsFit
<1> QED BY <1>1, <1>5, <1>6, <1>7, Assemble

\* A timer frees the session whose it is and no other.
LEMMA RemoteTimeoutKeeps ==
  ASSUME IndInv, NEW r \in Remotes, RemoteTimeout(r)
  PROVE  IndInv'
<1> DEFINE k == Key(rem[r].af, rem[r].src)
<1> DEFINE m == [x \in Remotes |-> IF At(k) = x THEN Freed ELSE rem[x]]
<1>1. /\ r \in Live /\ cache' = Without(k) /\ rem' = m /\ out' = Quiet
      /\ UNCHANGED <<asks, pending>>
  BY DEF RemoteTimeout
<1>2. cache' \in Seq(EntryType) /\ Files(cache', rem')
  BY <1>1, WithoutKeeps DEF IndInv
<1>3. rem' \in [Remotes -> RemoteType \cup {Freed}]
  BY <1>1 DEF IndInv, TypeOK
<1>4. \A x \in Live' : x \in Live /\ rem'[x] = rem[x]
  BY <1>1 DEF Live, Freed
<1>5. SingleName' = SingleName
  BY <1>1 DEF SingleName
<1>6. (SingleName => \A x \in Live : SessionFits(rem[x]))' /\ FamiliesFit'
  BY <1>1, <1>4, <1>5 DEF IndInv, SessionsFit, SessionFits, Reachable, FamiliesFit, RightDestinationIfSingle
<1>7. /\ \A x \in Live' : rem'[x].af = AF(rem'[x].header)
      /\ pending' \in Seq(QueryType) /\ Len(pending') <= MaxQueries
      /\ SingleName => \A i \in DOMAIN pending' :
           pending'[i].remote = NULL /\ pending'[i].header \in asks[pending'[i].src]
  BY <1>1, <1>4 DEF IndInv, TypeOK, SessionsFit
<1>8. (SingleName => RightDestination') /\ RightLabel'
  BY <1>1 DEF Quiet, RightDestination, RightLabel
<1> QED BY <1>1, <1>2, <1>3, <1>6, <1>7, <1>8, Assemble

\* The invariant sees nothing but the variables.
LEMMA StutterKeeps ==
  ASSUME IndInv, UNCHANGED vars
  PROVE  IndInv'
<1>1. Live' = Live /\ SingleName' = SingleName
  BY DEF vars, Live, SingleName
<1>2. TypeOK' /\ Files(cache, rem)'
  BY <1>1 DEF IndInv, vars, TypeOK, Files
<1>3. SessionsFit'
  BY <1>1 DEF IndInv, vars, SessionsFit, SessionFits, Reachable
<1>4. RightDestinationIfSingle' /\ RightLabel'
  BY <1>1 DEF IndInv, vars, RightDestinationIfSingle, RightDestination, RightLabel
<1> QED BY <1>2, <1>3, <1>4 DEF IndInv

-----------------------------------------------------------------------------
\* The invariant, for any clients, names, heap, table and number of lookups.
THEOREM Inductive == Spec => []IndInv
<1>1. Init => IndInv
  BY InitOk
<1>2. IndInv /\ [Next]_vars => IndInv'
  <2> SUFFICES ASSUME IndInv, [Next]_vars PROVE IndInv'
    OBVIOUS
  <2>1. CASE UNCHANGED vars
    BY <2>1, StutterKeeps
  <2>2. ASSUME NEW s \in Sources, NEW h \in Headers, ServerRecv(s, h) PROVE IndInv'
    BY <2>2, ServerRecvKeeps
  <2>3. ASSUME NEW i \in 1..MaxQueries, QueryResolve(i) PROVE IndInv'
    BY <2>3, QueryResolveKeeps
  <2>4. ASSUME NEW r \in Remotes, NEW a \in Addrs, RemoteRecv(r, a) PROVE IndInv'
    BY <2>4, RemoteRecvKeeps
  <2>5. ASSUME NEW r \in Remotes, RemoteTimeout(r) PROVE IndInv'
    BY <2>5, RemoteTimeoutKeeps
  <2> QED BY <2>1, <2>2, <2>3, <2>4, <2>5 DEF Next
<1> QED BY <1>1, <1>2, PTL DEF Spec

\* Every table entry, remote_ctx_t and query_ctx_t is what udprelay.h says it is.
THEOREM TypeCorrect == Spec => []TypeOK
<1>1. IndInv => TypeOK
  BY DEF IndInv
<1> QED BY <1>1, Inductive, PTL

\* conn_cache holds each open socket once, under its own key, and there are fewer than
\* MAX_UDP_CONN_NUM of them: none leaks, none is freed twice.
THEOREM TableIsExact == Spec => []TableExact
<1>1. ASSUME IndInv PROVE TableExact
  <2> DEFINE n == Len(cache)
  <2>1. n \in Nat /\ DOMAIN cache = 1..n /\ \A i \in 1..n : cache[i].remote \in Remotes
    BY <1>1, CacheTypes DEF IndInv
  <2>2. Files(cache, rem)
    BY <1>1 DEF IndInv
  <2>3. \A i \in DOMAIN cache :
          LET r == cache[i].remote IN r \in Live /\ cache[i].key = Key(rem[r].af, rem[r].src)
    BY <2>1, <2>2 DEF Files, Live
  <2>4. \A r \in Live : \E i \in DOMAIN cache : cache[i].remote = r
    BY <2>2 DEF Files, Live
  <2>5. Cardinality(Live) < MaxEntries
    <3> DEFINE f == [i \in 1..n |-> cache[i].remote]
    <3>1. f \in Surjection(1..n, Live)
      BY <2>1, <2>3, <2>4 DEF Surjection
    <3>2. IsFiniteSet(1..n) /\ Cardinality(1..n) = n
      BY <2>1, FS_Interval
    <3>3. IsFiniteSet(Live) /\ Cardinality(Live) <= Cardinality(1..n)
      BY <3>1, <3>2, FS_Surjection
    <3>4. Cardinality(Live) \in Nat
      BY <3>3, FS_CardinalityType
    <3>5. n < MaxEntries
      BY <2>2 DEF Files
    <3> HIDE DEF n
    <3> QED BY <2>1, <3>2, <3>3, <3>4, <3>5, BoundsAssumption
  <2> QED BY <2>2, <2>3, <2>4, <2>5 DEF TableExact, Files
<1> QED BY <1>1, Inductive, PTL

\* Clients with one host name get each packet to where its header says.
THEOREM RightPlace == Spec => []RightDestinationIfSingle
<1>1. IndInv => RightDestinationIfSingle
  BY DEF IndInv
<1> QED BY <1>1, Inductive, PTL

\* ... from a socket of their own; and whatever comes back, from whomever, is labelled with what
\* they asked for if one of their packets has left for the sender (remote_recv_cb).
THEOREM RightAnswer == Spec => []RightLabel
<1>1. IndInv => RightLabel
  BY DEF IndInv
<1> QED BY <1>1, Inductive, PTL
=============================================================================
