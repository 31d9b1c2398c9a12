----------------------------- MODULE ResolvQuery -----------------------------
(***************************************************************************)
(* The name queries of ss-server (resolv.c): a client of the resolver asks *)
(* for a host, udns looks up both address families, and the client hears   *)
(* once, when the last lookup is done, or cancels and never hears.  The    *)
(* clients are the server_t of server.c and the query_ctx of udprelay.c.   *)
(*                                                                         *)
(* A struct ResolvQuery lives at an address, its block.  What the resolver *)
(* hands out, and what udns keeps for its callbacks, is that address, and  *)
(* malloc may give a freed one to somebody else.                           *)
(***************************************************************************)
EXTENDS Naturals, Sequences

LOCAL INSTANCE SequencesExt

CONSTANTS
  Clients,
  Blocks,         \* addresses a ResolvQuery may be allocated at
  Accepted,       \* the sets of lookups udns may accept for a host name
  MaxRecords      \* bound: addresses in one answer

Families == {"v4", "v6"}

NULL == "NULL"

ASSUME AcceptedAssumption == Accepted \subseteq SUBSET Families
ASSUME MaxRecordsAssumption == MaxRecords \in Nat
ASSUME NullAssumption == NULL \notin Clients \cup Blocks

VARIABLES
  resolv_mode,    \* the family resolv_init chose to prefer
  heap,           \* what is at a block: a query, or nothing
  udns,           \* the lookups udns is working on, <<block, family>>
  handle,         \* the client's copy of what resolv_query returned, or NULL
  data,           \* the client's callback data: held by a query, freed, freed twice
  got             \* what the client was last called back with

vars == <<resolv_mode, heap, udns, handle, data, got>>

Free == [owner |-> NULL, queries |-> {}, responses |-> <<>>]
Nothing == [addr |-> "none", offered |-> {}]

Init ==
  /\ resolv_mode \in Families
  /\ heap = [b \in Blocks |-> Free]
  /\ udns = {}
  /\ handle = [c \in Clients |-> NULL]
  /\ data = [c \in Clients |-> "none"]
  /\ got = [c \in Clients |-> Nothing]

IsFree(b) == heap[b].owner = NULL
Freed(d) == IF d = "held" THEN "freed" ELSE "twice"

\* resolv_query, and the caller, which keeps what it returns.  When udns accepts neither
\* lookup the callback data and the block are freed, and the block is returned all the same.
Query(c) ==
  /\ handle[c] = NULL
  /\ \E b \in Blocks, ok \in Accepted :
       /\ IsFree(b)
       /\ handle' = [handle EXCEPT ![c] = b]
       /\ heap' = [heap EXCEPT ![b] =
            IF ok = {} THEN Free ELSE [owner |-> c, queries |-> ok, responses |-> <<>>]]
       /\ udns' = udns \cup ({b} \X ok)
       /\ data' = [data EXCEPT ![c] = IF ok = {} THEN "freed" ELSE "held"]
  /\ got' = [got EXCEPT ![c] = Nothing]
  /\ UNCHANGED resolv_mode

\* choose_ipv4_first, choose_ipv6_first and choose_any.
Choose(responses) ==
  IF \E i \in DOMAIN responses : responses[i] = resolv_mode THEN resolv_mode
  ELSE IF responses = <<>> THEN "none" ELSE responses[1]

\* Mutants of Finish: the block is not freed; the client keeps its handle.
FinishKeepsBlock(b, c, responses) ==
  /\ got' = [got EXCEPT ![c] = [addr |-> Choose(responses), offered |-> ToSet(responses)]]
  /\ handle' = [handle EXCEPT ![c] = NULL]
  /\ data' = [data EXCEPT ![c] = Freed(@)]
  /\ heap' = [heap EXCEPT ![b].queries = {}]
FinishKeepsHandle(b, c, responses) ==
  /\ got' = [got EXCEPT ![c] = [addr |-> Choose(responses), offered |-> ToSet(responses)]]
  /\ data' = [data EXCEPT ![c] = Freed(@)]
  /\ heap' = [heap EXCEPT ![b] = Free]
  /\ UNCHANGED handle
\* process_client_callback: the client c hears, and forgets its handle first; then the
\* query is freed.
Finish(b, c, responses) ==
  /\ got' = [got EXCEPT ![c] = [addr |-> Choose(responses), offered |-> ToSet(responses)]]
  /\ handle' = [handle EXCEPT ![c] = NULL]
  /\ data' = [data EXCEPT ![c] = Freed(@)]
  /\ heap' = [heap EXCEPT ![b] = Free]

\* Mutant of Open: a lookup that found nothing stays open.
OpenUnlessFound(queries, f, n) == IF n = 0 THEN queries ELSE queries \ {f}
\* The lookups of a query that are open once f has been answered with n addresses.
Open(queries, f, n) == queries \ {f}

\* dns_query_v4_cb and dns_query_v6_cb with n addresses, 0 of them also when the lookup
\* failed or timed out.
Answer(b, f) ==
  /\ <<b, f>> \in udns /\ udns' = udns \ {<<b, f>>}
  /\ \E n \in 0..MaxRecords :
       LET responses == heap[b].responses \o [i \in 1..n |-> f]
           queries == Open(heap[b].queries, f, n)
       IN IF queries = {}
          THEN Finish(b, heap[b].owner, responses)
          ELSE /\ heap' = [heap EXCEPT ![b] =
                    [@ EXCEPT !.queries = queries, !.responses = responses]]
               /\ UNCHANGED <<handle, data, got>>
  /\ UNCHANGED resolv_mode

\* Mutants of Cancel: only the A lookup is taken back; the client keeps its handle.
CancelOneSlot(c) ==
  /\ handle[c] # NULL
  /\ udns' = udns \ {<<handle[c], "v4">>}
  /\ heap' = [heap EXCEPT ![handle[c]] = Free]
  /\ data' = [data EXCEPT ![c] = Freed(@)]
  /\ handle' = [handle EXCEPT ![c] = NULL]
  /\ UNCHANGED <<resolv_mode, got>>
CancelKeepsHandle(c) ==
  /\ handle[c] # NULL
  /\ udns' = udns \ ({handle[c]} \X heap[handle[c]].queries)
  /\ heap' = [heap EXCEPT ![handle[c]] = Free]
  /\ data' = [data EXCEPT ![c] = Freed(@)]
  /\ UNCHANGED <<resolv_mode, got, handle>>

\* resolv_cancel, from close_and_free_server: the lookups still open are taken back and
\* the query's data and block freed, whoever's query is at that block by now.  If none is,
\* the block is read after free; its old contents free the old data once more.
Cancel(c) ==
  /\ handle[c] # NULL
  /\ LET b == handle[c]
         owner == IF IsFree(b) THEN c ELSE heap[b].owner
     IN /\ udns' = udns \ ({b} \X heap[b].queries)
        /\ data' = [data EXCEPT ![owner] = Freed(@)]
        /\ heap' = [heap EXCEPT ![b] = Free]
  /\ handle' = [handle EXCEPT ![c] = NULL]
  /\ UNCHANGED <<resolv_mode, got>>

Next ==
  \/ \E c \in Clients : Query(c)
  \/ \E b \in Blocks, f \in Families : Answer(b, f)
  \/ \E c \in Clients : Cancel(c)

Spec == Init /\ [][Next]_vars

\* udns gives every lookup up in the end (resolv_timeout_cb), and libev calls it then.
FairSpec == Spec /\ \A b \in Blocks, f \in Families : WF_vars(Answer(b, f))

-----------------------------------------------------------------------------
\* Every block holds a query or nothing, every client a handle or NULL, and a query is
\* there only as long as it waits for a lookup.
TypeOK ==
  /\ resolv_mode \in Families
  /\ heap \in [Blocks -> [owner : Clients \cup {NULL}, queries : SUBSET Families,
                          responses : Seq(Families)]]
  /\ \A b \in Blocks : heap[b].owner = NULL <=> heap[b].queries = {}
  /\ udns \subseteq Blocks \X Families
  /\ handle \in [Clients -> Blocks \cup {NULL}]
  /\ data \in [Clients -> {"none", "held", "freed", "twice"}]
  /\ got \in [Clients -> [addr : Families \cup {"none"}, offered : SUBSET Families]]

\* What a client holds on to is its own live query, so that cancelling it cancels nothing
\* else (resolv_query, whose callers take every result but NULL for a query under way).
HandlesLive == \A c \in Clients : handle[c] # NULL => heap[handle[c]].owner = c

\* udns works for live queries only, and a query waits only for lookups udns works on:
\* no callback finds its block freed or somebody else's, and no query waits for nothing.
LookupsOwned ==
  \A b \in Blocks, f \in Families : <<b, f>> \in udns <=> f \in heap[b].queries

\* A query's callback data is freed once, however answers, cancellations and new queries
\* interleave, and it is there as long as the query is (the callback gets it).
ReleasedOnce ==
  /\ \A c \in Clients : data[c] # "twice"
  /\ \A b \in Blocks : ~IsFree(b) => data[heap[b].owner] = "held"

\* A client is called back only while it waits, and so never after it cancelled.
Heard ==
  [][\A c \in Clients : got'[c] # got[c] /\ got'[c] # Nothing =>
       handle[c] # NULL /\ handle'[c] = NULL /\ data[c] = "held"]_vars

\* Every query ends: the client is called back, or it cancels.
QueriesEnd == \A c \in Clients : handle[c] # NULL ~> handle[c] = NULL
=============================================================================
