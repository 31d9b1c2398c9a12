-------------------------- MODULE ResolvQueryProofs --------------------------
(***************************************************************************)
(* The name queries are kept apart for any number of clients and blocks,   *)
(* and for answers of any length, as long as udns accepts at least one of  *)
(* the two lookups of every host.                                          *)
(***************************************************************************)
EXTENDS ResolvQuery, TLAPS

LOCAL INSTANCE SequencesExt

\* No host is refused: resolv_query never returns a freed block.
NeverRefused == {} \notin Accepted

\* A client and its query point to each other, and its data is held as long as they do.
Paired ==
  /\ \A c \in Clients, b \in Blocks : heap[b].owner = c <=> handle[c] = b
  /\ \A c \in Clients : data[c] # "twice" /\ (data[c] = "held" <=> handle[c] # NULL)

\* ... which may fail where hosts are refused; this does not.
Base == TypeOK /\ LookupsOwned

IndInv == Base /\ Paired

\* What the client is given is of a family, or nothing.
LEMMA ChooseType ==
  ASSUME NEW s \in Seq(Families), resolv_mode \in Families
  PROVE  Choose(s) \in Families \cup {"none"}
<1>1. s # <<>> => s[1] \in Families
  OBVIOUS
<1> QED BY <1>1 DEF Choose

\* More addresses of one family leave the responses a sequence of families.
LEMMA Gathered ==
  ASSUME NEW s \in Seq(Families), NEW f \in Families, NEW n \in Nat
  PROVE  s \o [i \in 1..n |-> f] \in Seq(Families)
<1>1. [i \in 1..n |-> f] \in Seq(Families)
  OBVIOUS
<1> QED BY <1>1

-----------------------------------------------------------------------------
(* Blocks and lookups, whatever udns accepts.                              *)

\* The resolver starts with nothing asked and nothing allocated.
LEMMA InitBase == Init => Base /\ Paired
<1> SUFFICES ASSUME Init PROVE Base /\ Paired
  OBVIOUS
<1> USE NullAssumption DEF Init, Free, Nothing
<1>1. <<>> \in Seq(Families)
  OBVIOUS
<1>2. TypeOK
  BY <1>1 DEF TypeOK
<1>3. Paired
  BY DEF Paired, NULL
<1>4. LookupsOwned
  BY DEF LookupsOwned
<1> QED BY <1>2, <1>3, <1>4 DEF Base

\* What is done to a free block by a query, accepted or not.
LEMMA QueryBase ==
  ASSUME Base, NEW c \in Clients, Query(c)
  PROVE  Base'
<1>1. PICK b \in Blocks, ok \in Accepted :
        /\ IsFree(b)
        /\ handle' = [handle EXCEPT ![c] = b]
        /\ heap' = [heap EXCEPT ![b] =
             IF ok = {} THEN Free ELSE [owner |-> c, queries |-> ok, responses |-> <<>>]]
        /\ udns' = udns \cup ({b} \X ok)
        /\ data' = [data EXCEPT ![c] = IF ok = {} THEN "freed" ELSE "held"]
  BY DEF Query
<1> DEFINE q == IF ok = {} THEN Free ELSE [owner |-> c, queries |-> ok, responses |-> <<>>]
<1>2. ok \subseteq Families
  BY AcceptedAssumption
<1>3. /\ UNCHANGED resolv_mode
      /\ got' = [got EXCEPT ![c] = Nothing]
  BY DEF Query
<1>4. <<>> \in Seq(Families)
  OBVIOUS
<1>5. /\ q \in [owner : Clients \cup {NULL}, queries : SUBSET Families, responses : Seq(Families)]
      /\ q.owner = NULL <=> q.queries = {}
      /\ q.queries = ok
  BY <1>2, <1>4, NullAssumption DEF Free
<1> HIDE DEF q
<1>6. heap' = [heap EXCEPT ![b] = q]
  BY <1>1 DEF q
<1>7. TypeOK'
  <2>1. /\ handle' \in [Clients -> Blocks \cup {NULL}]
        /\ data' \in [Clients -> {"none", "held", "freed", "twice"}]
        /\ got' \in [Clients -> [addr : Families \cup {"none"}, offered : SUBSET Families]]
    BY <1>1, <1>3 DEF Base, TypeOK, Nothing
  <2>2. udns' \subseteq Blocks \X Families
    BY <1>1, <1>2 DEF Base, TypeOK
  <2> QED BY <1>3, <1>5, <1>6, <2>1, <2>2 DEF Base, TypeOK
<1>8. LookupsOwned'
  <2> SUFFICES ASSUME NEW x \in Blocks, NEW g \in Families
               PROVE  <<x, g>> \in udns' <=> g \in heap'[x].queries
    BY DEF LookupsOwned
  <2>1. <<x, g>> \in udns' <=> <<x, g>> \in udns \/ (x = b /\ g \in ok)
    BY <1>1
  <2>2. heap'[x].queries = IF x = b THEN ok ELSE heap[x].queries
    BY <1>5, <1>6 DEF Base, TypeOK
  <2>3. heap[b].queries = {}
    BY <1>1 DEF Base, TypeOK, IsFree
  <2> QED BY <2>1, <2>2, <2>3 DEF Base, LookupsOwned
<1> QED BY <1>7, <1>8 DEF Base

\* A freed query takes its lookups with it.
LEMMA FreeingBase ==
  ASSUME Base, NEW b \in Blocks,
         heap' = [heap EXCEPT ![b] = Free],
         udns' = udns \ ({b} \X heap[b].queries),
         handle' \in [Clients -> Blocks \cup {NULL}],
         data' \in [Clients -> {"none", "held", "freed", "twice"}],
         UNCHANGED resolv_mode,
         got' \in [Clients -> [addr : Families \cup {"none"}, offered : SUBSET Families]]
  PROVE  Base'
<1>1. <<>> \in Seq(Families)
  OBVIOUS
<1>2. TypeOK'
  BY <1>1, NullAssumption DEF Base, TypeOK, Free
<1>3. LookupsOwned'
  <2> SUFFICES ASSUME NEW x \in Blocks, NEW g \in Families
               PROVE  <<x, g>> \in udns' <=> g \in heap'[x].queries
    BY DEF LookupsOwned
  <2>1. <<x, g>> \in udns' <=> <<x, g>> \in udns /\ ~(x = b /\ g \in heap[b].queries)
    OBVIOUS
  <2>2. heap'[x].queries = IF x = b THEN {} ELSE heap[x].queries
    BY DEF Base, TypeOK, Free
  <2> QED BY <2>1, <2>2 DEF Base, LookupsOwned
<1> QED BY <1>2, <1>3 DEF Base

\* An answer takes its lookup; the last one frees the query and calls back, another fills it.
LEMMA AnswerDoes ==
  ASSUME Base, NEW b \in Blocks, NEW f \in Families, Answer(b, f)
  PROVE  /\ f \in heap[b].queries /\ heap[b].owner \in Clients
         /\ Base'
         /\ \/ /\ heap' = [heap EXCEPT ![b] = Free]
               /\ handle' = [handle EXCEPT ![heap[b].owner] = NULL]
               /\ data' = [data EXCEPT ![heap[b].owner] = Freed(@)]
            \/ /\ \A x \in Blocks : heap'[x].owner = heap[x].owner
               /\ UNCHANGED <<handle, data>>
<1> DEFINE rest == heap[b].queries \ {f}
<1>1. PICK n \in 0..MaxRecords :
        LET responses == heap[b].responses \o [i \in 1..n |-> f]
            queries == Open(heap[b].queries, f, n)
        IN IF queries = {}
           THEN Finish(b, heap[b].owner, responses)
           ELSE /\ heap' = [heap EXCEPT ![b] =
                     [@ EXCEPT !.queries = queries, !.responses = responses]]
                /\ UNCHANGED <<handle, data, got>>
  BY DEF Answer
<1> DEFINE rs == heap[b].responses \o [i \in 1..n |-> f]
<1>2. <<b, f>> \in udns /\ udns' = udns \ {<<b, f>>} /\ UNCHANGED resolv_mode
  BY DEF Answer
<1>3. f \in heap[b].queries
  BY <1>2 DEF Base, LookupsOwned
<1>4. heap[b].owner \in Clients
  BY <1>3 DEF Base, TypeOK
<1>5. n \in Nat
  BY <1>1, MaxRecordsAssumption
<1>6. rs \in Seq(Families)
  BY <1>5, Gathered DEF Base, TypeOK
<1>7. CASE rest = {}
  <2>1. Finish(b, heap[b].owner, rs)
    BY <1>1, <1>7 DEF Open
  <2>2. ToSet(rs) \subseteq Families
    BY <1>6 DEF ToSet
  <2>3. Choose(rs) \in Families \cup {"none"}
    BY <1>6, ChooseType DEF Base, TypeOK
  <2>4. got' \in [Clients -> [addr : Families \cup {"none"}, offered : SUBSET Families]]
    BY <2>1, <2>2, <2>3 DEF Finish, Base, TypeOK
  <2>5. heap[b].queries = {f}
    BY <1>3, <1>7
  <2>6. udns' = udns \ ({b} \X heap[b].queries)
    BY <1>2, <2>5
  <2>7. /\ heap' = [heap EXCEPT ![b] = Free]
        /\ handle' = [handle EXCEPT ![heap[b].owner] = NULL]
        /\ data' = [data EXCEPT ![heap[b].owner] = Freed(@)]
    BY <2>1 DEF Finish
  <2>8. /\ handle' \in [Clients -> Blocks \cup {NULL}]
        /\ data' \in [Clients -> {"none", "held", "freed", "twice"}]
    BY <1>4, <2>7 DEF Base, TypeOK, Freed
  <2>9. Base'
    BY <1>2, <2>4, <2>6, <2>7, <2>8, FreeingBase
  <2> QED BY <1>3, <1>4, <2>7, <2>9
<1>8. CASE rest # {}
  <2>1. /\ heap' = [heap EXCEPT ![b] = [@ EXCEPT !.queries = rest, !.responses = rs]]
        /\ UNCHANGED <<handle, data, got>>
    BY <1>1, <1>8 DEF Open
  <2> DEFINE q == [heap[b] EXCEPT !.queries = rest, !.responses = rs]
  <2>2. heap' = [heap EXCEPT ![b] = q]
    BY <2>1 DEF Base, TypeOK
  <2>3. q \in [owner : Clients \cup {NULL}, queries : SUBSET Families,
               responses : Seq(Families)]
    BY <1>4, <1>6 DEF Base, TypeOK
  <2>4. q.owner = heap[b].owner /\ q.queries = rest
    BY DEF Base, TypeOK
  <2> HIDE DEF q
  <2>5. TypeOK'
    BY <1>2, <1>4, <1>8, <2>1, <2>2, <2>3, <2>4, NullAssumption DEF Base, TypeOK
  <2>6. \A x \in Blocks : heap'[x].owner = heap[x].owner
    BY <2>2, <2>4 DEF Base, TypeOK
  <2>7. LookupsOwned'
    <3> SUFFICES ASSUME NEW x \in Blocks, NEW g \in Families
                 PROVE  <<x, g>> \in udns' <=> g \in heap'[x].queries
      BY DEF LookupsOwned
    <3>1. <<x, g>> \in udns' <=> <<x, g>> \in udns /\ ~(x = b /\ g = f)
      BY <1>2
    <3>2. heap'[x].queries = IF x = b THEN rest ELSE heap[x].queries
      BY <2>2, <2>4 DEF Base, TypeOK
    <3> QED BY <3>1, <3>2 DEF Base, LookupsOwned
  <2> QED BY <1>3, <1>4, <2>1, <2>5, <2>6, <2>7 DEF Base
<1> QED BY <1>7, <1>8

\* A cancellation frees what is at the block, whoever's it is.
LEMMA CancelBase ==
  ASSUME Base, NEW c \in Clients, Cancel(c)
  PROVE  Base'
<1> DEFINE b == handle[c]
<1>1. b \in Blocks
  BY DEF Cancel, Base, TypeOK
<1> DEFINE owner == IF IsFree(b) THEN c ELSE heap[b].owner
<1>2. /\ owner \in Clients
      /\ data' = [data EXCEPT ![owner] = Freed(@)]
  BY <1>1 DEF Cancel, IsFree, Base, TypeOK
<1>3. /\ udns' = udns \ ({b} \X heap[b].queries)
      /\ heap' = [heap EXCEPT ![b] = Free]
      /\ handle' = [handle EXCEPT ![c] = NULL]
      /\ UNCHANGED <<resolv_mode, got>>
  BY DEF Cancel
<1>4. /\ handle' \in [Clients -> Blocks \cup {NULL}]
      /\ data' \in [Clients -> {"none", "held", "freed", "twice"}]
      /\ got' \in [Clients -> [addr : Families \cup {"none"}, offered : SUBSET Families]]
  BY <1>2, <1>3 DEF Base, TypeOK, Freed
<1> QED BY <1>1, <1>3, <1>4, FreeingBase

LEMMA NextBase == Base /\ [Next]_vars => Base'
<1> SUFFICES ASSUME Base, [Next]_vars PROVE Base'
  OBVIOUS
<1>1. CASE \E c \in Clients : Query(c)
  BY <1>1, QueryBase
<1>2. CASE \E b \in Blocks, f \in Families : Answer(b, f)
  BY <1>2, AnswerDoes
<1>3. CASE \E c \in Clients : Cancel(c)
  BY <1>3, CancelBase
<1>4. CASE UNCHANGED vars
  BY <1>4 DEF vars, Base, TypeOK, LookupsOwned
<1> QED BY <1>1, <1>2, <1>3, <1>4 DEF Next

\* Even with hosts that are refused, no lookup is open but for a query at its block
\* (resolv_query, dns_query_v4_cb, dns_query_v6_cb, resolv_cancel).
THEOREM LookupsAlwaysOwned == Spec => [](TypeOK /\ LookupsOwned)
<1>1. Init => Base
  BY InitBase
<1>2. Base => TypeOK /\ LookupsOwned
  BY DEF Base
<1> QED BY <1>1, <1>2, NextBase, PTL DEF Spec

\* Blocks, handles and what is heard have their types (resolv.c's ResolvQuery and its users).
THEOREM TypeCorrect == Spec => []TypeOK
BY LookupsAlwaysOwned, PTL

-----------------------------------------------------------------------------
(* Clients and their queries, when no host is refused.                     *)

\* A new query takes a free block for a client that had none.
LEMMA QueryKeeps ==
  ASSUME IndInv, NeverRefused, NEW c \in Clients, Query(c)
  PROVE  IndInv'
<1>1. PICK b \in Blocks, ok \in Accepted :
        /\ IsFree(b)
        /\ handle' = [handle EXCEPT ![c] = b]
        /\ heap' = [heap EXCEPT ![b] =
             IF ok = {} THEN Free ELSE [owner |-> c, queries |-> ok, responses |-> <<>>]]
        /\ data' = [data EXCEPT ![c] = IF ok = {} THEN "freed" ELSE "held"]
  BY DEF Query
<1>2. ok # {} /\ handle[c] = NULL
  BY DEF NeverRefused, Query
<1>3. /\ heap' = [heap EXCEPT ![b] = [owner |-> c, queries |-> ok, responses |-> <<>>]]
      /\ data' = [data EXCEPT ![c] = "held"]
  BY <1>1, <1>2
<1>4. \A x \in Clients : handle[x] # b
  BY <1>1, NullAssumption DEF IndInv, Paired, IsFree
<1>5. Paired'
  BY <1>1, <1>2, <1>3, <1>4, NullAssumption DEF IndInv, Base, TypeOK, Paired
<1> QED BY <1>5, QueryBase DEF IndInv

\* A freed query takes its client's handle and its data with it.
LEMMA FreeingKeeps ==
  ASSUME IndInv, NEW b \in Blocks, NEW c \in Clients, heap[b].owner = c,
         heap' = [heap EXCEPT ![b] = Free],
         handle' = [handle EXCEPT ![c] = NULL],
         data' = [data EXCEPT ![c] = Freed(@)]
  PROVE  Paired'
<1>1. handle[c] = b /\ data[c] = "held" /\ Freed(data[c]) = "freed"
  BY NullAssumption DEF IndInv, Paired, Freed
<1> QED BY <1>1, NullAssumption DEF IndInv, Base, TypeOK, Paired, Free

\* An answer fills its query, and the last one ends it.
LEMMA AnswerKeeps ==
  ASSUME IndInv, NEW b \in Blocks, NEW f \in Families, Answer(b, f)
  PROVE  IndInv'
<1>1. heap[b].owner \in Clients /\ Base'
  BY AnswerDoes DEF IndInv
<1>2. CASE /\ heap' = [heap EXCEPT ![b] = Free]
           /\ handle' = [handle EXCEPT ![heap[b].owner] = NULL]
           /\ data' = [data EXCEPT ![heap[b].owner] = Freed(@)]
  BY <1>1, <1>2, FreeingKeeps DEF IndInv
<1>3. CASE (\A x \in Blocks : heap'[x].owner = heap[x].owner) /\ UNCHANGED <<handle, data>>
  BY <1>1, <1>3 DEF IndInv, Paired
<1> QED BY <1>2, <1>3, AnswerDoes DEF IndInv

\* A cancellation ends the client's own query.
LEMMA CancelKeeps ==
  ASSUME IndInv, NEW c \in Clients, Cancel(c)
  PROVE  IndInv'
<1>1. handle[c] \in Blocks
  BY DEF Cancel, IndInv, Base, TypeOK
<1>2. heap[handle[c]].owner = c /\ c # NULL
  BY <1>1, NullAssumption DEF IndInv, Paired
<1>3. /\ data' = [data EXCEPT ![c] = Freed(@)]
      /\ heap' = [heap EXCEPT ![handle[c]] = Free]
      /\ handle' = [handle EXCEPT ![c] = NULL]
  BY <1>2 DEF Cancel, IsFree
<1> QED BY <1>1, <1>2, <1>3, FreeingKeeps, CancelBase DEF IndInv

\* Every step keeps clients and queries paired.
LEMMA NextKeepsPaired == IndInv /\ NeverRefused /\ [Next]_vars => IndInv'
<1> SUFFICES ASSUME IndInv, NeverRefused, [Next]_vars PROVE IndInv'
  OBVIOUS
<1>1. CASE \E c \in Clients : Query(c)
  BY <1>1, QueryKeeps
<1>2. CASE \E b \in Blocks, f \in Families : Answer(b, f)
  BY <1>2, AnswerKeeps
<1>3. CASE \E c \in Clients : Cancel(c)
  BY <1>3, CancelKeeps
<1>4. CASE UNCHANGED vars
  BY <1>4 DEF vars, IndInv, Base, TypeOK, Paired, LookupsOwned
<1> QED BY <1>1, <1>2, <1>3, <1>4 DEF Next

\* The invariant holds throughout: clients and queries stay paired.
THEOREM QueriesPaired == NeverRefused /\ Spec => []IndInv
<1> SUFFICES ASSUME NeverRefused PROVE Spec => []IndInv
  OBVIOUS
<1>1. Init => IndInv
  BY InitBase DEF IndInv
<1>2. IndInv /\ [Next]_vars => IndInv'
  BY NextKeepsPaired
<1> QED BY <1>1, <1>2, PTL DEF Spec

\* A client holds its own live query or none (resolv_query, resolv_cancel).
THEOREM CancelsOwnQuery == NeverRefused /\ Spec => []HandlesLive
<1>1. IndInv => HandlesLive
  BY DEF IndInv, Base, TypeOK, Paired, HandlesLive
<1> QED BY <1>1, QueriesPaired, PTL

\* No lookup outlives its query, and no callback data is freed twice or too early
\* (dns_query_v4_cb, dns_query_v6_cb, process_client_callback, resolv_cancel).
THEOREM NoStaleLookup == NeverRefused /\ Spec => [](LookupsOwned /\ ReleasedOnce)
<1>1. IndInv => LookupsOwned
  BY DEF IndInv, Base
<1>2. IndInv => ReleasedOnce
  BY NullAssumption DEF IndInv, Base, TypeOK, Paired, ReleasedOnce, IsFree
<1> QED BY <1>1, <1>2, QueriesPaired, PTL

\* A client is called back only while it waits (process_client_callback).
THEOREM HeardWhileWaiting == NeverRefused /\ Spec => Heard
<1> DEFINE Hears == \A c \in Clients : got'[c] # got[c] /\ got'[c] # Nothing =>
                      handle[c] # NULL /\ handle'[c] = NULL /\ data[c] = "held"
<1>1. IndInv /\ [Next]_vars => [Hears]_vars
  <2> SUFFICES ASSUME IndInv, Next PROVE Hears
    OBVIOUS
  <2>1. CASE \E c \in Clients : Query(c) \/ Cancel(c)
    BY <2>1 DEF Query, Cancel, IndInv, Base, TypeOK
  <2>2. CASE \E b \in Blocks, f \in Families : Answer(b, f)
    <3>1. PICK b \in Blocks, f \in Families : Answer(b, f)
      BY <2>2
    <3>2. f \in heap[b].queries
      BY <3>1 DEF Answer, IndInv, Base, LookupsOwned
    <3>3. heap[b].owner \in Clients
      BY <3>2 DEF IndInv, Base, TypeOK
    <3>4. handle[heap[b].owner] = b /\ data[heap[b].owner] = "held" /\ b # NULL
      BY <3>3, NullAssumption DEF IndInv, Paired
    <3>5. \/ UNCHANGED got
          \/ \E rs : Finish(b, heap[b].owner, rs)
      BY <3>1 DEF Answer
    <3> QED BY <3>3, <3>4, <3>5 DEF Finish, IndInv, Base, TypeOK
  <2> QED BY <2>1, <2>2 DEF Next
<1> QED BY <1>1, QueriesPaired, PTL DEF Spec, Heard
=============================================================================
