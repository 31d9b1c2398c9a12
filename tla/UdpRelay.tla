------------------------------ MODULE UdpRelay ------------------------------
(***************************************************************************)
(* The UDP half of ss-server (udprelay.c built for the server, cache.c): a *)
(* table from a client's address to the socket its packets leave from.     *)
(* Each packet names its destination in a header: an address, or a host    *)
(* name that is looked up first, while other packets, timers and lookups   *)
(* go on.                                                                  *)
(*                                                                         *)
(* A remote_ctx_t lives at an address of the heap.  The table and the      *)
(* lookups under way refer to it by that address, and malloc may give the  *)
(* address of a freed one to the next.                                     *)
(***************************************************************************)
EXTENDS Naturals, Sequences, SequencesExt, FiniteSets

CONSTANTS
  Sources,       \* the clients' addresses
  Addrs, Names,  \* what a header may hold
  Family,        \* the address family of each address
  Resolves,      \* the addresses a name may be looked up as
  Asks,          \* the sets of headers each client may use: [Sources -> SUBSET ..], see Init
  Remotes,       \* heap addresses for remote_ctx_t
  MaxEntries,    \* MAX_UDP_CONN_NUM
  MaxQueries     \* bound: lookups under way

Families == {"v4", "v6"}
Headers == Addrs \cup Names
NULL == "NULL"

ASSUME HeadersAssumption ==
  /\ Addrs \cap Names = {} /\ NULL \notin Headers \cup Sources \cup Remotes
  /\ Family \in [Addrs -> Families]
  /\ Resolves \in [Names -> SUBSET Addrs]
  /\ Asks \subseteq [Sources -> SUBSET Headers]
ASSUME BoundsAssumption ==
  MaxEntries \in Nat /\ MaxEntries > 1 /\ MaxQueries \in Nat

VARIABLES
  asks,      \* the headers each client uses
  cache,     \* conn_cache: its entries, the least recently used first
  rem,       \* what is at each heap address
  pending,   \* the query_ctx_t waiting for a lookup
  out        \* what the last handler sent, if it sent anything

vars == <<asks, cache, rem, pending, out>>

\* The address family a remote_ctx_t is filed under: AF_UNSPEC, "name", for a host name.
AF(h) == IF h \in Names THEN "name" ELSE Family[h]
\* The addresses a header stands for.
StandsFor(h) == IF h \in Names THEN Resolves[h] ELSE {h}

Key(af, src) == <<af, src>>

Freed == [src |-> NULL, af |-> NULL, header |-> NULL, dst |-> NULL, family |-> NULL, reached |-> {}]
Live == {r \in Remotes : rem[r].src # NULL}

SocketFamily(a) == Family[a]

\* Mutant of NewRemote: the header is not copied.
NewRemoteNoHeader(s, h, a) ==
  [src |-> s, af |-> AF(h), header |-> NULL, dst |-> a, family |-> SocketFamily(a),
   reached |-> {a}]
\* new_remote as its two callers fill it in, for client s, header h and the address a its
\* first packet has gone to; reached (of the model): the addresses its packets have left for.
NewRemote(s, h, a) ==
  [src |-> s, af |-> AF(h), header |-> h, dst |-> a, family |-> SocketFamily(a),
   reached |-> {a}]

Quiet == [kind |-> "none"]
Forwarded(s, h, a, r) == [kind |-> "packet", src |-> s, header |-> h, dst |-> a, via |-> r]

Init ==
  /\ asks \in Asks
  /\ cache = <<>> /\ pending = <<>> /\ out = Quiet
  /\ rem = [r \in Remotes |-> Freed]

-----------------------------------------------------------------------------
\* cache_lookup: the remote of the entry with key k, which moves to the end.
Places(k) == {i \in DOMAIN cache : cache[i].key = k}
PlaceOf(k) == CHOOSE i \in Places(k) : TRUE
At(k) == IF Places(k) = {} THEN NULL ELSE cache[PlaceOf(k)].remote
Without(k) == IF Places(k) = {} THEN cache ELSE RemoveAt(cache, PlaceOf(k))
Touched(k) == IF Places(k) = {} THEN cache ELSE Append(Without(k), cache[PlaceOf(k)])

\* cache_insert drops the oldest entry as soon as the table has MaxEntries of them.
Overflows(c) == Len(c) >= MaxEntries

\* cache_insert of a new remote at the free address r, with free_cb for the victim.
Insert(r, remote) ==
  LET grown == Append(cache, [key |-> Key(remote.af, remote.src), remote |-> r])
  IN IF Overflows(grown)
     THEN /\ cache' = Tail(grown)
          /\ rem' = [rem EXCEPT ![r] = remote, ![Head(grown).remote] = Freed]
     ELSE /\ cache' = grown
          /\ rem' = [rem EXCEPT ![r] = remote]

\* A socket for client s is opened and the packet leaves from it; or the socket or the
\* send fails and nothing is left of it.
OpenRemote(s, h, a) ==
  \/ \E r \in Remotes \ Live :
       Insert(r, NewRemote(s, h, a)) /\ out' = Forwarded(s, h, a, r)
  \/ UNCHANGED <<cache, rem>> /\ out' = Quiet

\* A packet of client s leaves from r's socket for a; or the send fails.
SendFrom(r, s, h, a, remote) ==
  \/ /\ remote.family = Family[a]
     /\ rem' = [rem EXCEPT ![r] = [remote EXCEPT !.reached = @ \cup {a}]]
     /\ out' = Forwarded(s, h, a, r)
  \/ rem' = [rem EXCEPT ![r] = remote] /\ out' = Quiet

\* resolv_query for the packet; remote is set when the client has a session already.
Ask(s, h, remote) ==
  /\ Len(pending) < MaxQueries
  /\ pending' = Append(pending, [src |-> s, header |-> h, remote |-> remote])
  /\ out' = Quiet

\* Mutant of Matches: no mismatch is ever detected.
MatchesAlways(r, h) == TRUE
\* The packet is for the destination the remote was opened for.
Matches(r, h) == rem[r].header = h

-----------------------------------------------------------------------------
\* server_recv_cb: a packet of client s for header h.
ServerRecv(s, h) ==
  LET k == Key(AF(h), s)
      found == At(k)
      r == IF found # NULL /\ rem[found].src = s THEN found ELSE NULL
  IN /\ h \in asks[s]
     /\ \/ /\ r # NULL /\ (Matches(r, h) \/ h \in Addrs)
           /\ cache' = Touched(k)
           /\ SendFrom(r, s, h, IF Matches(r, h) THEN rem[r].dst ELSE h, rem[r])
           /\ UNCHANGED pending
        \/ /\ r # NULL /\ ~Matches(r, h) /\ h \in Names
           /\ cache' = Touched(k) /\ Ask(s, h, r) /\ UNCHANGED rem
        \/ /\ r = NULL /\ h \in Addrs
           /\ OpenRemote(s, h, h) /\ UNCHANGED pending
        \/ /\ r = NULL /\ h \in Names
           /\ Ask(s, h, NULL) /\ UNCHANGED <<cache, rem>>
     /\ UNCHANGED asks

\* Mutant of SessionOf: the table is not looked up again.
SessionAsAsked(q) == q.remote
\* The session an answered lookup belongs to: the remote noted when it was asked, or what
\* the table holds by now.
SessionOf(q) == IF q.remote # NULL THEN q.remote ELSE At(Key("name", q.src))

\* query_resolve_cb with the address a.  A noted remote may be freed by now: its address
\* is written all the same, the send fails, or goes out from whichever socket has the
\* closed descriptor's number.
Answered(q, a) ==
  LET r == SessionOf(q)
  IN \/ /\ r = NULL
        /\ OpenRemote(q.src, q.header, a)
     \/ /\ r # NULL /\ r \in Live
        /\ SendFrom(r, q.src, q.header, a, [rem[r] EXCEPT !.dst = a])
        /\ cache' = IF q.remote = NULL THEN Touched(Key("name", q.src)) ELSE cache
     \/ /\ r # NULL /\ r \notin Live
        /\ \/ UNCHANGED rem /\ out' = Quiet
           \/ \E via \in Live : SendFrom(via, q.src, q.header, a, rem[via])
        /\ UNCHANGED cache

\* The lookup of the i-th query ends: with one of the name's addresses, or with none.
QueryResolve(i) ==
  /\ i \in DOMAIN pending
  /\ pending' = RemoveAt(pending, i)
  /\ \/ \E a \in Resolves[pending[i].header] : Answered(pending[i], a)
     \/ UNCHANGED <<cache, rem>> /\ out' = Quiet
  /\ UNCHANGED asks

\* Mutant of Label: the header of the first packet, whoever answers.
LabelAsAsked(r, a) == rem[r].header
\* What the client is told a reply comes from.
Label(r, a) == IF rem[r].af \in Families THEN a ELSE rem[r].header

\* remote_recv_cb: a packet from address a.  The socket is not connected, so any address of
\* its family may send, one no packet has ever left for too.
RemoteRecv(r, a) ==
  /\ r \in Live /\ Family[a] = rem[r].family
  /\ out' = [kind |-> "reply", src |-> rem[r].src, from |-> a, label |-> Label(r, a),
              known |-> a \in rem[r].reached]
  /\ UNCHANGED <<asks, cache, rem, pending>>

\* remote_timeout_cb: the entry with r's key goes, and free_cb frees the remote it holds.
RemoteTimeout(r) ==
  /\ r \in Live
  /\ LET k == Key(rem[r].af, rem[r].src)
     IN /\ cache' = Without(k)
        /\ rem' = [x \in Remotes |-> IF At(k) = x THEN Freed ELSE rem[x]]
  /\ out' = Quiet
  /\ UNCHANGED <<asks, pending>>

Next ==
  \/ \E s \in Sources, h \in Headers : ServerRecv(s, h)
  \/ \E i \in 1..MaxQueries : QueryResolve(i)
  \/ \E r \in Remotes, a \in Addrs : RemoteRecv(r, a)
  \/ \E r \in Remotes : RemoteTimeout(r)

Spec == Init /\ [][Next]_vars

-----------------------------------------------------------------------------
AFs == Families \cup {"name"}
EntryType == [key : AFs \X Sources, remote : Remotes]
RemoteType ==
  [src : Sources, af : AFs, header : Headers, dst : Addrs, family : Families, reached : SUBSET Addrs]
QueryType == [src : Sources, header : Names, remote : Remotes \cup {NULL}]

\* Table entries, heap and queries hold what udprelay.h lets them hold.
TypeOK ==
  /\ asks \in [Sources -> SUBSET Headers]
  /\ cache \in Seq(EntryType)
  /\ rem \in [Remotes -> RemoteType \cup {Freed}]
  /\ \A r \in Live : rem[r].af = AF(rem[r].header)
  /\ pending \in Seq(QueryType) /\ Len(pending) <= MaxQueries

\* Every socket open is in the table once, under its own family and client, and nothing
\* else is: so each can be found, expire and be evicted, and none is freed twice, though
\* several lookups for one client may each want to open its socket.  And the table, so the
\* number of sockets, stays below MAX_UDP_CONN_NUM (cache_insert).
TableExact ==
  /\ \A i \in DOMAIN cache :
       LET r == cache[i].remote IN r \in Live /\ cache[i].key = Key(rem[r].af, rem[r].src)
  /\ \A i, j \in DOMAIN cache : cache[i].key = cache[j].key => i = j
  /\ \A r \in Live : \E i \in DOMAIN cache : cache[i].remote = r
  /\ Cardinality(Live) < MaxEntries

\* Each client sends to at most one host name, and each name has addresses of one family.
SingleName == \A s \in Sources : \A m, n \in asks[s] \cap Names : m = n
OneFamily == \A n \in Names : \A a, b \in Resolves[n] : Family[a] = Family[b]

\* A packet goes to an address its header stands for, whatever lookups, evictions and
\* timeouts came between its header and its sending ("detect destination mismatch").
RightDestination == out.kind = "packet" => out.dst \in StandsFor(out.header)

\* The same for clients with one host name; and no lookup leaves in a session an address of
\* the other family, which its socket could never reach.
RightDestinationIfSingle ==
  SingleName =>
    /\ RightDestination
    /\ OneFamily => \A r \in Live : rem[r].family = Family[rem[r].dst]

\* A packet leaves from a socket of its own client, so that the answer goes to that client.
\* What comes from an address that client's packets have left for is labelled with a
\* destination the client has asked for, and the address is one of that destination's.  A
\* stranger's packet is handed on as well: under its own address, or in a session opened for a
\* host name under a name the client uses (remote_recv_cb).
RightLabel ==
  SingleName =>
    /\ out.kind = "packet" => rem[out.via].src = out.src
    /\ out.kind = "reply" =>
         /\ out.known => out.label \in asks[out.src] /\ out.from \in StandsFor(out.label)
         /\ out.label = out.from \/ out.label \in asks[out.src] \cap Names
=============================================================================
