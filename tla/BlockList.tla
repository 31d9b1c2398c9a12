------------------------------ MODULE BlockList ------------------------------
(***************************************************************************)
(* How ss-server remembers peers that send nonsense and refuses them       *)
(* (acl.c, cache.c and their callers in server.c): the cache of offenders, *)
(* the connections that report and clear them, the timer that forgets      *)
(* them, and the firewall rules, which a shell at the end of a pipe sets   *)
(* in its own time.                                                        *)
(***************************************************************************)
EXTENDS Integers, Sequences, SequencesExt, FiniteSets

CONSTANTS
  Peers,        \* addresses clients come from
  Trusted,      \* the peers on the ACL's white list
  MaxOpen,      \* bound: connections open at a time
  Malformed, Bad, Suspicious, Malicious,   \* the grades of a report
  MaxTries,     \* MAX_TRIES
  MaxEntries,   \* the cache's max_entries
  OneHour,      \* 3600 seconds, in ticks of the model
  Firewall,     \* whether init_firewall found a firewall to use
  MaxPipe       \* bound: lines the pipe to the shell holds; a write beyond waits

ASSUME BlockListAssumption ==
  /\ Trusted \subseteq Peers
  /\ {Malformed, Bad, Suspicious, Malicious} \subseteq Nat \ {0}
  /\ \A level \in {Malformed, Bad, Suspicious} : level <= Malicious
  /\ MaxTries \in Nat /\ MaxOpen \in Nat /\ OneHour \in Nat /\ MaxEntries \in Nat \ {0, 1}
  /\ Firewall \in BOOLEAN /\ MaxPipe \in Nat

VARIABLES
  table,     \* the cache, least recently used first: who, count, and age since used
  open,      \* how many connections each peer has at each stage
  pipe,      \* commands written to the shell and not yet run
  rules,     \* how many DROP rules the chain holds for each peer
  chain,     \* the chain: "hooked" into OUTPUT, "loose", "flushed", "left", or "gone"
  phase,     \* the process: "running", "exiting" (free_block_list), "stopped"
  strikes    \* history: what was reported of a peer since its last success

vars == <<table, open, pipe, rules, chain, phase, strikes>>

\* No header yet; a header nobody can parse; connecting to the destination; relaying.
Stages == {"greeting", "error", "dialling", "stream"}
Entry == [peer : Peers, count : Nat, age : 0..(OneHour + 1)]
Command == [op : {"add", "del"}, peer : Peers]
\* bound: strikes are counted no further than this, one more than blocks
Cap == MaxTries + 1
Lesser(a, b) == IF a < b THEN a ELSE b

Listed(p) == \E i \in DOMAIN table : table[i].peer = p
Place(p) == CHOOSE i \in DOMAIN table : table[i].peer = p
Count(p) == table[Place(p)].count
Blocked(p) == Listed(p) /\ Count(p) > MaxTries
Without(p) == IF Listed(p) THEN RemoveAt(table, Place(p)) ELSE table

\* set_firewall_rule: a line for the shell, when there is a firewall.
Line(op, p) == IF Firewall THEN <<[op |-> op, peer |-> p]>> ELSE <<>>
Write(lines) == pipe' = pipe \o lines /\ Len(pipe') <= MaxPipe

Init ==
  /\ table = <<>> /\ open = [p \in Peers |-> [s \in Stages |-> 0]]
  /\ pipe = <<>> /\ rules = [p \in Peers |-> 0]
  /\ chain = IF Firewall THEN "hooked" ELSE "gone"
  /\ phase = "running" /\ strikes = [p \in Peers |-> 0]

-----------------------------------------------------------------------------
\* cache_key_exist and cache_lookup of a listed peer: it becomes the youngest entry; the
\* caller may leave n in its counter.
Touched(p, n) == Append(Without(p), [peer |-> p, count |-> n, age |-> 0])

\* Mutant of Removed: the entry goes, its rule stays.
RemovedQuietly(p) == table' = Without(p) /\ UNCHANGED pipe
\* cache_remove with free_firewall_rule.
Removed(p) ==
  /\ table' = Without(p)
  /\ IF Listed(p) THEN Write(Line("del", p)) ELSE UNCHANGED pipe

\* Mutant of Inserted: the eldest goes when the table is more than full.
InsertedLate(p) ==
  LET t == Append(table, [peer |-> p, count |-> 1, age |-> 0])
  IN IF Len(t) > MaxEntries
     THEN table' = Tail(t) /\ Write(Line("del", Head(t).peer) \o Line("add", p))
     ELSE table' = t /\ Write(Line("add", p))
\* cache_insert evicts the eldest when the table is full, then the rule is added.
Inserted(p) ==
  LET t == Append(table, [peer |-> p, count |-> 1, age |-> 0])
  IN IF Len(t) >= MaxEntries
     THEN table' = Tail(t) /\ Write(Line("del", Head(t).peer) \o Line("add", p))
     ELSE table' = t /\ Write(Line("add", p))

\* update_block_list.
Update(p, level) ==
  \/ /\ Listed(p)
     /\ table' = Touched(p, IF Count(p) > MaxTries THEN Count(p) ELSE Count(p) + level)
     /\ UNCHANGED pipe
  \/ ~Listed(p) /\ Inserted(p)

\* report_addr: getpeername may no longer know the peer, and then nothing is noted.
Report(p, level) ==
  \/ Update(p, level) /\ strikes' = [strikes EXCEPT ![p] = Lesser(Cap, @ + level)]
  \/ UNCHANGED <<table, pipe, strikes>>

-----------------------------------------------------------------------------
Running == phase = "running"
\* A connection of p goes from one stage to the next, or is freed.
Become(p, from, to) ==
  /\ Running /\ open[p][from] > 0
  /\ open' = [open EXCEPT ![p][from] = @ - 1, ![p][to] = @ + 1]
Free(p, from) ==
  /\ Running /\ open[p][from] > 0
  /\ open' = [open EXCEPT ![p][from] = @ - 1]

OpenNow == UNION {{<<p, s, n>> : n \in 1..open[p][s]} : p \in Peers, s \in Stages}

\* accept_cb refuses a peer that is blocked; asking renews the entry.
Refuse(p) ==
  /\ Running /\ p \notin Trusted /\ Blocked(p)
  /\ table' = Touched(p, Count(p))
  /\ UNCHANGED <<open, pipe, rules, chain, phase, strikes>>

\* accept_cb takes the others; asking renews the entry of a peer that is listed.
Accept(p) ==
  /\ Running /\ Cardinality(OpenNow) < MaxOpen
  /\ \/ p \in Trusted /\ UNCHANGED table
     \/ p \notin Trusted /\ ~Listed(p) /\ UNCHANGED table
     \/ p \notin Trusted /\ Listed(p) /\ ~Blocked(p) /\ table' = Touched(p, Count(p))
  /\ open' = [open EXCEPT ![p]["greeting"] = @ + 1]
  /\ UNCHANGED <<pipe, rules, chain, phase, strikes>>

\* server_recv_cb: the first bytes are no header.  The connection stays, deaf, until the
\* timer; only a header that is wrong in its first piece is reported.
NoHeader(p) ==
  /\ Become(p, "greeting", "error")
  /\ Report(p, Malformed) \/ UNCHANGED <<table, pipe, strikes>>
  /\ UNCHANGED <<rules, chain, phase>>

\* server_recv_cb: what cannot be decrypted, parsed or verified is reported, and the
\* connection is freed.
Offends(p) ==
  /\ \/ Free(p, "greeting") /\ \E level \in {Malformed, Bad, Malicious} : Report(p, level)
     \/ Free(p, "stream") /\ \E level \in {Bad, Malicious} : Report(p, level)
  /\ UNCHANGED <<rules, chain, phase>>

\* server_timeout_cb: a client that has not sent a header by now is reported.
Timeout(p) ==
  /\ \/ (Free(p, "greeting") \/ Free(p, "error")) /\ Report(p, Suspicious)
     \/ (Free(p, "dialling") \/ Free(p, "stream")) /\ UNCHANGED <<table, pipe, strikes>>
  /\ UNCHANGED <<rules, chain, phase>>

\* server_recv_cb or server_resolve_cb dials the destination.
Dial(p) ==
  /\ Become(p, "greeting", "dialling")
  /\ UNCHANGED <<table, pipe, rules, chain, phase, strikes>>

\* Mutant of Connected: the block list is not told.
ConnectedSilently(p) ==
  /\ Become(p, "dialling", "stream") /\ strikes' = [strikes EXCEPT ![p] = 0]
  /\ UNCHANGED <<table, pipe, rules, chain, phase>>

\* remote_send_cb: the destination is there, and reset_addr clears the peer, if
\* getpeername still knows it.
Connected(p) ==
  /\ Become(p, "dialling", "stream")
  /\ \/ Removed(p) /\ strikes' = [strikes EXCEPT ![p] = 0]
     \/ UNCHANGED <<table, pipe, strikes>>
  /\ UNCHANGED <<rules, chain, phase>>

\* Either side ends the connection.
Close(p) ==
  /\ \E s \in Stages : Free(p, s)
  /\ UNCHANGED <<table, pipe, rules, chain, phase, strikes>>

-----------------------------------------------------------------------------
\* Time passes; past the hour it makes no difference.
Tick ==
  /\ Running
  /\ table' = [i \in DOMAIN table |-> [table[i] EXCEPT !.age = Lesser(@ + 1, OneHour + 1)]]
  /\ UNCHANGED <<open, pipe, rules, chain, phase, strikes>>

\* Mutant of Old: who is blocked is kept.
OldAndHarmless(e) == e.age > OneHour /\ e.count <= MaxTries
Old(e) == e.age > OneHour

\* The lines free_firewall_rule writes for entries that go, in the table's order.
Deletions(t) ==
  IF Firewall THEN [i \in DOMAIN t |-> [op |-> "del", peer |-> t[i].peer]] ELSE <<>>

\* block_list_clear_cb: cache_clear of what nobody has asked for in an hour.  The table is
\* in order of use, so these are its first n entries.
ClearOld ==
  /\ Running
  /\ \E n \in 0..Len(table) :
       /\ \A i \in DOMAIN table : Old(table[i]) <=> i <= n
       /\ table' = SubSeq(table, n + 1, Len(table))
       /\ Write(Deletions(SubSeq(table, 1, n)))
  /\ UNCHANGED <<open, rules, chain, phase, strikes>>

-----------------------------------------------------------------------------
\* The shell runs the next line: iptables -A adds one rule, -D takes one away; without
\* the chain both fail.
ShellRuns ==
  /\ pipe # <<>> /\ pipe' = Tail(pipe)
  /\ LET cmd == Head(pipe) IN
       rules' = IF chain = "gone" THEN rules
                ELSE [rules EXCEPT ![cmd.peer] =
                        IF cmd.op = "add" THEN @ + 1 ELSE IF @ > 0 THEN @ - 1 ELSE 0]
  /\ UNCHANGED <<table, open, chain, phase, strikes>>

\* The event loop has ended and free_block_list begins.  No handler runs any more, so the
\* connections, which free_connections frees further down, count for nothing.
Stop ==
  /\ Running /\ phase' = "exiting"
  /\ open' = [p \in Peers |-> [s \in Stages |-> 0]] /\ strikes' = [p \in Peers |-> 0]
  /\ UNCHANGED <<table, pipe, rules, chain>>

\* reset_firewall's three commands, by a shell of their own: iptables -D OUTPUT, -F, -X.
Unhook ==
  /\ phase = "exiting" /\ chain = "hooked" /\ chain' = "loose"
  /\ UNCHANGED <<table, open, pipe, rules, phase, strikes>>
Flush ==
  /\ phase = "exiting" /\ chain = "loose"
  /\ chain' = "flushed" /\ rules' = [p \in Peers |-> 0]
  /\ UNCHANGED <<table, open, pipe, phase, strikes>>

\* -X refuses a chain that is not empty.
Delete ==
  /\ phase = "exiting" /\ chain = "flushed"
  /\ chain' = IF \A p \in Peers : rules[p] = 0 THEN "gone" ELSE "left"
  /\ UNCHANGED <<table, open, pipe, rules, phase, strikes>>

\* pclose has waited for the shell to run all it was sent; then the table is cleared.  What
\* free_firewall_rule writes now goes to a closed stream: no shell reads it.
Exit ==
  /\ phase = "exiting" /\ chain \in {"gone", "left"} /\ pipe = <<>>
  /\ phase' = "stopped" /\ table' = <<>>
  /\ UNCHANGED <<open, pipe, rules, chain, strikes>>

Next ==
  \/ \E p \in Peers :
       \/ Refuse(p)
       \/ Accept(p)
       \/ NoHeader(p)
       \/ Offends(p)
       \/ Timeout(p)
       \/ Dial(p)
       \/ Connected(p)
       \/ Close(p)
  \/ Tick
  \/ ClearOld
  \/ ShellRuns
  \/ Stop
  \/ Unhook
  \/ Flush
  \/ Delete
  \/ Exit

Spec == Init /\ [][Next]_vars

\* Time passes, the shell reads its pipe, and main goes on to its end once the event loop
\* has returned.  The clearing timer repeats, and libev calls it when it is due however
\* much else is ready; a write to a full pipe delays it, and does not cancel it.
FairSpec ==
  /\ Spec
  /\ WF_vars(Tick) /\ SF_vars(ClearOld) /\ WF_vars(ShellRuns)
  /\ WF_vars(Unhook) /\ WF_vars(Flush) /\ WF_vars(Delete) /\ WF_vars(Exit)

-----------------------------------------------------------------------------
\* The table and the connections hold what acl.c, cache.c and server.h declare; the table
\* stays below its limit.
TypeOK ==
  /\ table \in Seq(Entry) /\ Len(table) < MaxEntries
  /\ \A i \in DOMAIN table : table[i].count \in 1..(MaxTries + Malicious)
  /\ open \in [Peers -> [Stages -> 0..MaxOpen]]
  /\ pipe \in Seq(Command) /\ rules \in [Peers -> Nat]
  /\ chain \in {"hooked", "loose", "flushed", "left", "gone"}
  /\ phase \in {"running", "exiting", "stopped"}
  /\ strikes \in [Peers -> 0..Cap]

\* The lines of one kind for a peer that the shell has yet to run.
Pending(op, p) == Cardinality({i \in DOMAIN pipe : pipe[i] = [op |-> op, peer |-> p]})

\* While the process runs, the firewall will have exactly one rule for each listed peer as
\* soon as the shell has caught up, and none for any other, whichever of eviction, age,
\* success and repeated offences the lines stand for (cache_insert, cache_clear,
\* cache_remove, update_block_list, set_firewall_rule).
RulesFollowTable ==
  Running /\ Firewall =>
    \A p \in Peers :
      rules[p] + Pending("add", p) - Pending("del", p) = IF Listed(p) THEN 1 ELSE 0

\* Nobody is blocked who has not been reported often enough since the destination last
\* answered a connection of theirs, however their connections overlap (check_block_list,
\* update_block_list, reset_addr).
EarnedBlock == Running => \A p \in Peers : Blocked(p) => strikes[p] > MaxTries

\* A blocked peer that stops knocking is let in again, whatever its open connections are
\* still reported for and however the other peers behave, as long as the server runs
\* (clear_block_list).
Forgiven ==
  \A p \in Peers \ Trusted : <>[][~Refuse(p)]_vars => []<>~Blocked(p)

=============================================================================
