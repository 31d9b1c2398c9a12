# Verification of openwrt-helloworld

The repository is a feed of OpenWrt packages for proxies. Most of it is packaging
(Makefiles, patches, CI) for programs whose source is elsewhere. The code it holds
itself, and which this project is about, is

* **ss-server**, the ShadowsocksR server
  (`src/helloworld/shadowsocksr-libev/src/server/`, and but for one line of `main` the same
  again under `src/openwrt-passwall-packages/`): 15,500 lines of event-driven C on libev;
* the **LuCI applications** ssr-plus, passwall, homeproxy, smartdns and v2raya: shell, Lua
  and ucode that configure, start, watch and switch the proxy clients on a router.

The models are of the first, and of the life cycles of luci-app-ssr-plus and
luci-app-passwall, where processes, callbacks, timers and lock files meet. `PROJECT.json`
maps each definition to its lines.

## Inventory

### ss-server

One process, one libev loop, no threads: an action is one callback, run to its end.

| part | state | operations | interacts with |
|---|---|---|---|
| TCP relay, `server.c` | per connection a `server_t` (stage, `buf`, header buffer, watchers, query) and a `remote_t` (`buf`, watchers, connected) | `accept_cb`, `server_recv_cb`, `server_send_cb`, `server_timeout_cb`, `server_resolve_cb`, `remote_recv_cb`, `remote_send_cb`, `connect_to_remote`, the `close_and_free` pair | resolver (query and cancel), plugins, ciphers, block list |
| name queries, `resolv.c` | a `ResolvQuery` block per query with two udns lookups, the answers so far, the caller's data | `resolv_query`, the two answer callbacks, `resolv_cancel` | udns; called by the TCP and the UDP relay |
| UDP relay, `udprelay.c` | a cache from (family, client) to `remote_ctx_t` (socket, destination, timer), lookups under way | `server_recv_cb`, `query_resolve_cb`, `remote_recv_cb`, `remote_timeout_cb` | resolver, cache |
| cache, `cache.c` | hash table in order of use, limit, free callback | insert with eviction, lookup, key_exist, remove, clear by age | UDP relay, block list |
| block list, `acl.c` | cache of offenders with counters; iptables rules; a pipe to a shell | `update_block_list`, `check_block_list`, `remove_from_block_list`, `clear_block_list`, shutdown | `report_addr`, `reset_addr` and `accept_cb` of the TCP relay; the kernel's firewall |
| protocol plugins, `verify.c`, `auth.c` | per connection the bytes of a frame in part, counters of frames; per process the client and connection ids | `client_pre_encrypt`, `server_pre_encrypt`, `client_post_decrypt`, `server_post_decrypt` | called by the TCP relay inside its two receive callbacks |
| obfs plugins, `http_simple.c`, `tls1.2_ticket.c` | per connection the handshake's status, what is held back, the records in part; a replay list | `client_encode`, `server_decode`, `server_encode`, `client_decode` | the same, outside the cipher |
| one-time authentication, `encrypt.c` | per connection a `chunk_t`: index, length, counter, buffer | `ss_check_hash`, `ss_gen_hash` | TCP relay |
| ciphers, `encrypt.c` | key, IVs | encrypt, decrypt | both relays |
| access lists, `acl.c`, `rule.c`; host sniffing, `http.c`, `tls.c` | read once | pure matching | TCP relay |
| configuration, JSON, utilities, main | read once | – | – |

What is hard here: each direction of a connection has one buffer and two watchers, one of
which must always be running; a handler may free the connection another handler's event is
pending for; a query may be answered, cancelled or refused in several orders; every send
may take only a part, and every read end anywhere, inside a header, a frame, a record or a
chunk; a handshake's two ends must not both wait; eviction, timers and answers each free
what another still refers to; rules are set by lines in a pipe that a shell reads later.

What makes each part correct: the relay delivers both streams in order, once, completely,
and gives everything back; a query is answered once or cancelled, and touches nothing
freed; a UDP packet goes to the address its own header stands for, and the number of
sockets is bounded; exactly the listed peers have a rule, a block is earned and ends; an
honest client is let in, understood and answered in its own framing however TCP cuts its
bytes; what a reader hands on is exactly the payload of the frames or chunks it has whole;
no two connections send the same pair of ids.

### luci-app-ssr-plus

| part | state | operations | interacts with |
|---|---|---|---|
| `/etc/init.d/shadowsocksr` | lock file, firewall rules, client processes | boot, start, stop, restart, reload, reset; any number at once | the two helpers, LuCI pages, cron |
| `ssr-monitor` | lock file | every 30 s: restart if a process is missing | the service script |
| `ssr-switch` | lock file, `CURRENT_SERVER`, `normal_flag`, `server_locate` | every cycle: back to the main server, check, search, move | the service script, with the server as its argument |
| `ssr-rules`, `subscribe.lua`, `update.lua`, `gen_config.lua`, pages | configuration | translation | the service script |

What is hard: the helpers call the script that kills and restarts the helpers; the lock is
a file whose `flock` nobody looks at and that is taken away by force after ten seconds;
`ssr-switch` believes what it last asked for. Correct means: no stale lock, a restart ends
with rules and a monitor, a stop is final, the switch knows the server in use, and the
service gets back to its main server.

### luci-app-passwall

| part | state | operations | interacts with |
|---|---|---|---|
| `/etc/init.d/passwall` | a lock file with an `flock` on it | start, stop, restart; called by procd, hotplug, `tasks.sh` and the pages, any number at once | `app.sh` |
| `app.sh` | processes; `script_func`, a directory of the commands that started them; a file of variables | start, stop, run_socks, socks_node_switch, ln_run | the script above, both helpers below |
| `monitor.sh` | a lock file of its own | every 58 s: start again what is in `script_func` and does not run | `app.sh`'s files |
| `socks_auto_switch.sh` | the node in use, the main node, the backup nodes | test through the port, return to the main node, try the backup nodes in turn | `app.sh`, the configuration |
| firewall scripts, `subscribe.lua`, `rule_update.lua`, pages, `tasks.sh` | configuration | translation | the service script |

What is hard: an `flock` belongs to the opened file and not to its name, and the name is
removed by whoever is done or has lost patience; `stop` kills helpers in the middle of what
they do; a switch takes three steps and the monitor may come between any two; files are
numbered by counting them while others are removed. Correct means: one invocation at a time
is at work, the service ends as the last one wanted it, what dies is started again, and a
service whose node fails is moved to one that answers, and back.

### The other applications

luci-app-homeproxy leaves process keeping to procd; its scripts translate a configuration,
merge subscriptions and download lists under a lock file. luci-app-smartdns,
luci-app-v2raya and the `v2raya` init script configure programs that are not here. None of
these is modelled; see the plan.

## Modules

    RelayPipe        abstract: two ordered streams that share one life
      ^ refined by
    TcpRelay      ---- MCTcpRelay        Tcp.cfg, TcpLive.cfg
      ^ TcpRelayProofs   (the invariant and the refinement)
    ResolvQuery   ---- MCResolvQuery     Resolv.cfg
      ^ ResolvQueryProofs
    UdpRelay      ---- MCUdpRelay        Udp.cfg, UdpTwoNames.cfg
      ^ UdpRelayProofs
    BlockList     ---- MCBlockList       BlockList.cfg
      ^ BlockListProofs
    Frames        ---- MCFrames          Frames.cfg
    OtaChunks     ---- MCOtaChunks       OtaChunks.cfg
      ^ StreamProofs     (both)
    ServerPlugins ---- MCServerPlugins   ServerPlugins.cfg
      ^ ServerPluginsProofs
    SsrPlus       ---- MCSsrPlus         SsrPlus.cfg
      ^ SsrPlusProofs
    Passwall      ---- MCPasswall        Passwall.cfg
    AutoSwitch    ---- MCAutoSwitch      AutoSwitch.cfg
      ^ PasswallProofs   (both)

An MC module only names the finite values a `.cfg` cannot write down. In each module the
operators called "Mutant of X" are plausible bugs of X; no specification uses them. They
exist to show that each property can fail: with X replaced, TLC finds its property violated.

How they divide a connection: `TcpRelay` has the sockets, buffers and watchers and of a
plugin only where the client's frames end; `ServerPlugins` has the same two callbacks' path
through obfs, cipher and protocol, with the sockets reduced to "a read ends somewhere";
`Frames` and `OtaChunks` look inside what `ServerPlugins` and `TcpRelay` take as whole
frames. `Streams` holds what these three share: the two sizes, and the sum and the
concatenation of a sequence as recursive functions, so that they can be proved about. And a
router's service: `Passwall` has who may be at work, `AutoSwitch` what one of each does to
the files and processes. Modules that share a proof module name their operators apart
(`OtaInit`, `PluginsInit`, `SwitchInit`).

### TcpRelay and RelayPipe

A byte is its position in its stream, so order, loss and repetition are visible, and a
buffer is a piece of a stream (`base`, `idx`, `len`). Ciphers keep bytes; what is kept of
them is that the IV comes first and when it is taken off. A plugin is the set `frames` of
positions at which the client's frames end: `server_recv_cb` gets the bytes up to the last
frame that is complete.

| code | actions |
|---|---|
| `accept_cb`, `new_server` | `Init` |
| `server_recv_cb` by stage and early return | `RecvDiscards`, `RecvWaitsForIv`, `RecvNoFrame`, `RecvFirst`, `RecvMore`, `RecvStream`, `RecvEof`, `RecvFails`; header verdicts and dialling in `Parse` and `Dial` |
| `server_resolve_cb` | `ResolveAnswers`, `ResolveFails` |
| `remote_send_cb` | `RemoteReady`, `RemoteRefused`, `RemoteSend`, `RemoteSendGivesUp` |
| `remote_recv_cb` | `RemoteRecv`, `RemoteRecvEof`, `RemoteRecvFails` |
| `server_send_cb` | `ServerSend`, `ServerSendGivesUp` |
| `server_timeout_cb`, `free_connections` | `Timeout`, `Shutdown` |
| the two peers and the kernel (external) | `ClientWrites`, `ClientCloses`, `RemoteWrites`, `RemoteCloses`, `NetConnects` |

`RelayPipe` is the promise: bytes of each direction are appended in order while the
connection lives, nothing comes back before it is open and nothing moves after it is closed.
`PipeSpec` in `TcpRelay` is that specification under a refinement mapping.

Left out: values of `buf->idx` that are stale but never read. The `needsendback` reply and
the `_compatible` modes are in `ServerPlugins`, the contents of OTA chunks in `OtaChunks` (a
bad hash is one of `RecvFails`' outcomes here), a lookup that udns refuses in `ResolvQuery`,
and reports about a peer in `BlockList`.

### ResolvQuery

Addresses are explicit: `heap` says which query lives in which block, `udns` which lookups
it works on, `handle` what each caller keeps. A freed block is given out again by any later
query, so a stale pointer is a pointer to somebody else's query. Actions: `Query`
(`resolv_query` with the lookups udns accepts), `Answer` (both callbacks, and
`process_client_callback` after the last), `Cancel` (`resolv_cancel`).

### UdpRelay

The server build. `cache` is `cache.c`'s table in order of use, `rem` the heap of
`remote_ctx_t`, `pending` the lookups. `ServerRecv` is the whole of `server_recv_cb`:
look the client up, compare the destination, send, open a socket with its eviction, or ask.
A freed `remote_ctx_t` may be reused for another client, and what a stale pointer then does
is what the code does with it. The sockets are not connected, so `RemoteRecv` takes packets
from every address of the socket's family (an IPv6 socket sees an IPv4 sender as an IPv6
address of its own), whether a packet ever left for it or not; `reached`, which the code does
not have, remembers the addresses for which one did, so that `RightLabel` can say what these
are labelled with, and what a stranger is. Left out: fragmentation and cipher failures (the packet is
dropped, nothing changes), shutdown, and the client builds of the file. A refused lookup
leaks its `query_ctx`, which no property looks at.

### BlockList

The table with its counters, what is reported by which handler of the TCP relay (connections
are counted by peer and stage), the commands in the pipe to the shell, the firewall, and the
shutdown with its second shell. Age is in ticks of the clearing timer; since an entry that is
asked for goes to the end of the table, the old ones are its front, which `ClearOld` takes
(`OldestFirst` proves that looking at every entry, as `cache_clear` does, takes the same).

### Frames

One direction of one protocol. Bytes are counted, not spelled: a frame is its length field,
its encoded padding, its payload and where it ends; the padding drawn is a choice, cut to
the range each packing function draws from. `PacksHeader` and `PacksData` are the
`pre_encrypt` of the six protocols, with the cutting into pieces of 2000 bytes, the room
they allocate, the header frame and its ids; `Receive` is a read of any length followed by
the whole loop of the reader's `post_decrypt`; `PacksBad` is a frame whose length or sum is
wrong, `NewConnection` the next connection of the same process, where the ids go on.
This build has no server side of the `auth_*` protocols, so upwards only `verify_simple` is
read, and downwards their packing is that of an external server, packed the same way.
`auth_aes128_md5` shares the code of `auth_aes128_sha1`. Left out: the clock and the hashes
(a frame checks or not), `verify_deflate` (not in this build), the UDP hooks, and the
negative size `get_head_size` makes of a name longer than 127 bytes where `char` is signed.

### ServerPlugins

A direction is the sequence of units written to it (a hello, a record, an HTTP head, plain
bytes), each with the plugin's bytes and the cipher's; a reader is a position. `session`
fixes which plugins the server has, which may be done without (`_compatible`), and which the
client uses: every combination in which the client ought to be let in.

| code | actions |
|---|---|
| the client's `pre_encrypt`, `encrypt`, `client_encode` | `ClientWrites`, `ClientEncodes` |
| `server_recv_cb` from the IV's test to `server_post_decrypt`, with the `needsendback` reply | `ServerReads`, with the obfs in `ServerDecodes` and what follows it in `ServerTakes` |
| `remote_recv_cb`: `server_pre_encrypt`, `ss_encrypt`, `server_encode` | `RemoteReplies` |
| the client's `client_decode`, and its finish | `ClientReads`, `ClientFinishes`, `ClientTakesRecords`, `http_simple_client_decode` |
| `accept_cb`, and for the next connection | `PluginsInit`, `Reconnects` |

`torn` marks a read after which the code can do nothing right: the first request is in it
only in part, or in a `_compatible` mode a frame is (see the findings). Properties hold
where no read tears; a torn connection is followed no further. Left out: `http_simple`'s
host list, what its headers say, the clock in the hello.

### OtaChunks

`ss_check_hash` byte for byte: a byte is `<<chunk, offset>>`, the buffers are arrays from 0,
and what is written outside one is remembered (`overrun`). `ss_gen_hash` is a buffer sent by
the client, with a right hash or a wrong one; `StreamRead` is a read of any length followed
by the whole loop of `ss_check_hash`, which is a recursive function over its turns: `Begin`
grows both buffers, a `Turn` takes a byte (`TakeByte`), and at a chunk's end compares the
hash (`HashFits`) and copies the chunk back (`CopyBack`, with `Moved` for the two copies and
`Rebase` for the indices after them).

### SsrPlus

Each invocation of the script is a record in `job` with its command, its argument (the
server, when `ssr-switch` asks) and the place it has reached; every place where another
invocation could matter is a step. The lock is whether the file exists, for `set_lock` does
not look at `flock`'s result. `UserAsks` also stands for the pages and cron. The two helpers
are a counter and a record. Left out: `check_server`'s restart from inside `start` (see the
findings in `PROJECT.json`), `reset`, kcptun (which disables the switch), a `start` without
a stop on a running service, and the moments between test and touch of the helpers' lock
files. Killing `ssr-switch` and removing its lock file are one step, though the kill runs in
the background.

### Passwall

`name` is the file LOCK_FILE names, `lock` who holds each file's `flock`, `fd` what each
invocation has open: three things, as they are in the kernel. Every command of `unlock`,
`set_lock` and `unset_lock` is a step; `app.sh stop` and `app.sh start` are one each, with
what they do to the monitors. `monitor.sh` looks, touches, works and removes in separate
steps, and a stop may kill it in any of them. (It is taken to be enabled: `start_daemon`.) `removed` remembers that a file went away
under someone who had opened it, `cut` that a monitor was killed at work.

### AutoSwitch

One socks service: `script_func` with the numbers of its files, the processes, the cached
node, the configuration, and `test_auto_switch` step by step with its three-step switch
(`Kills`, `Removes`, `RunsNew`), against a monitor, a restart, proxies that die and nodes that
come and go. `earlier` says how many of the other processes `start` recorded before the
service: haproxy and the socks services listed first get lower numbers, what follows
`start_socks` higher ones, and the place of the service's own file decides what a test or a
switch writes over. `SettlesDown` says that the service works again and again, whichever
proxy the monitor brings back amid a switch. That this is the main node's again it says of a
service of one process, whose old command a test has written over before the kill. Of one with
an HTTP port it is not true: the test may have written over the converter's file, the monitor
brings the old proxy back between the kill and the removal, the main node's finds the port
taken, and the cache names the main node from then on (see the findings). Left out:
several services with a switcher each, and the switcher's own lock file.

## Runs

| run | question | bounds | states |
|---|---|---|---|
| `tcp` | the stream up in order, no orphan, orderly EOF, the abstract pipe, given back after the destination's EOF | IV 1, header 3, buffer 6, 8 bytes up, 2 down; plain and two-byte frames; address, name or bad header; with and without fast open; failures, closes, timer, shutdown | 134,939 |
| `tcp_live` | every byte is delivered | the same without failures; the first write holds the IV, the header and a payload byte | 4,697 |
| `resolv` | queries, lookups and handles stay paired; one callback; every query ends | 2 clients, 2 blocks, 2 records | 526 |
| `udp` | the table is exact, packets go to the right destination under the right label | 2 clients, a table of two, 3 blocks, 2 lookups, 3 names over 3 addresses of 2 families, any of which may send | 20,643 |
| `udp_two_names` (violation) | `RightDestination` for a client with two names | the same | |
| `block_list` | rules follow the table, a block is earned, and ends | 3 peers, 1 trusted; 2 connections; table of two; pipe of two; grades scaled to 1 and 2 | 833,824 |
| `frames` | readers hand on exactly the whole frames; packing fits its buffer; header ids are distinct | 6 protocols, 4 sizes of writes, 3 paddings, 7 cuts around each frame's end, 2 writes, 3 connections, an id that runs over | 68,077 |
| `plugins` | an honest client is served; neither end waits for ever | every session that ought to work; 2 requests and answers on each of 2 connections; 4 cuts | 87,476 |
| `ota` | chunks reassembled, nothing written past a buffer | 3 chunks of 0, 1, 2 or 9 bytes with 4 bytes before each, good or bad; reads of 1–4, 6, 9, 12 bytes | 31,196 |
| `ssr_plus` | no stale lock, comes up, stop is final, switch knows, back to main | 2 invocations at once, 2 servers, the main one second in the file; 2 looks at the lock | 1,506,436 |
| `passwall` | one at a time, left as asked, no file left; what dies comes back | 2 invocations, 3 looks, 2 monitors | 115,756 |
| `auto_switch` | others stay watched; the service works again and again, and returns to the main node | a main node, 2 backup nodes, 1 other process before or after the service, 5 files | 178,272 |

**Why the bounds are enough to be interesting.** A buffer of six holds less than the eight
bytes the client may write, so reads are cut everywhere and several are needed; one payload
byte fits the header's read and more follow. Two clients, two blocks: one is freed and
reused while the other waits. Two clients over
two address families need up to four entries of a table of two, so it must evict. A pipe
of two fills while the shell lags. Two invocations are what it takes to overlap; since a
look at the lock may happen at any time, two looks give every outcome ten give: it is gone,
it is taken away, or it is there again after that. In `Frames` the sizes lie on both sides
of every threshold of the packing functions (400, 900, 1300, 2000), the cuts on both sides
of every comparison of the readers, and with a last id of 3 the counter runs over within
three connections. In `ServerPlugins` an answer of 2048 bytes with its frames is more than
one read and more than one record may hold, a second connection is what a replay list would
see. A chunk of nine bytes does not fit a read of twelve with its head behind another
chunk's end, and three empty ones do. Three looks leave one before the last, and a second
monitor is what a start beside a start would leave behind. Two backup nodes give the
rotation a next and an end; five files are one more than the service's two, the other's and
a test's (`OthersAssumption` asks for room for one test beside the service's file and the
others'). One other process is enough for both orders: its file lies under the service's or
over it. (With none, or with two in any order and six files, TLC finds the same.)

`Patience`, `MaxJobs`, `MaxQueries`, `MaxPipe`, `MaxOpen`, `UpTotal`, `DnTotal`,
`MaxRecords`, `MaxWrites`, `MaxConnections`, `MaxChunks`, `MaxMonitors` and `MaxFiles` are
bounds, and `Cuts`, `ReadSizes`, `WriteSizes` and the like the inputs tried; `MaxEntries`,
`MaxTries`, the grades, `IvLen`, `HdrLen`, `BufSize`, `LastId`, `AUTH_BYTES`, `BufferSize` of
`OtaChunks` and `Looks` are the code's constants, scaled. `Top` only has to be larger than
any index reached: `OtaAssumption` says that it is at least a chunk with its head and a read
more, and the proof shows that this is enough.

**Deadlock** is checked wherever the system never stops. A closed connection (`TcpRelay`), a
process that has exited (`BlockList`), and a stream whose bounded writes are all read
(`Frames`, `ServerPlugins`, `OtaChunks`) do stop, so those runs do not check it;
that neither end of a handshake waits for ever is `Completes`.

**Fairness.** libev calls the callback of every descriptor that stays ready, and of every
timer that is due: weak fairness per handler; strong for the block list's clearing timer,
which a full pipe can disable for a moment again and again, while libev's queue keeps it due.
The kernel settles every connect, a socket that refuses bytes takes some in the end, and
udns ends every lookup by its own timeout. Peers are not fair: they write and close as they
like; only in `ServerPlugins` does the remote answer in the end, for an answer is what
completes a request. In the router's modules the scheduler runs every process: each
invocation of a script goes on, `monitor.sh` and `test_auto_switch` loop. Users, crashes,
servers, nodes and the network are free, and a liveness property that needs them quiet says
so in its premise (`ReturnsToMain`, and `SettledWorld` of `AutoSwitch`).

**What is not as it says.** While modelling, the code turned out to do other things than a
comment of it says, or than it can have meant; `findings` in `PROJECT.json` lists each with
its lines. One has a run: `udp_two_names`, in which two lookups of one client write one
destination although the relay compares each header. For the others the modules state what
holds around them, and under which condition: `SafeSessions` (no address in the header
together with fast open), `FirstWrite` of `tcp_live`, `Accepted` of `ResolvQuery`,
`SingleName`, `~overlapped` of `SsrPlus`, `torn` of `ServerPlugins`, `removed` and `cut` of
`Passwall`, `~http_port` of `AutoSwitch` (in `OthersWatched` and in `SettlesDown`). Each premise is about what the environment does or
happens to cut; without it the property fails, and TLC shows how.

## Proofs

TLAPS proves, for every value of the constants that satisfies the assumptions named in the
modules:

* `TcpRelayProofs`: **TypeCorrect**, **StreamsInOrder**, **BuffersSafe**, **NothingOutlives**,
  **NothingLostAtEof**, each `SafeClients /\ Spec => []...`. All follow from
  **Inductive**, `[]IndInv`. No property is inductive alone: that bytes arrive in order needs
  to know that what a buffer holds begins where the output ends, which holds only in the
  stages in which that buffer carries that direction. `IndInv` therefore adds to the
  properties `Shape` (which watchers, remote and query belong to which stage), `UpAccount`
  and `DnAccount` (the held bytes are exactly those between what was taken and what is out).
  There is one lemma per handler; `SafeClients` excludes a session with an address in the
  header and fast open. From it also **Implements**, `SafeClients /\ Spec => Pipe!Spec`: each
  step is a delivery of the next bytes, a write of a peer, the close, or a stutter.
* `ResolvQueryProofs`: **TypeCorrect** and **LookupsAlwaysOwned** (`LookupsOwned`), inductive
  together and without a hypothesis: whatever udns refuses, no lookup is left without its
  query. **QueriesPaired** (`[]IndInv`: live blocks, handles, lookups and data
  correspond one to one), and from it **CancelsOwnQuery**, **NoStaleLookup** and
  **HeardWhileWaiting**, which is an action property, need `NeverRefused`: udns accepts at
  least one of the two lookups. (With both refused the
  handle points at a block already freed; see the findings.)
* `UdpRelayProofs`: **TypeCorrect**, **TableIsExact**, **RightPlace**, **RightAnswer**, from
  **Inductive**, for any clients, headers, heap, size of the table and number of lookups.
  `Files` is what every operation of the cache keeps: each entry is a socket that is open,
  under its key, and each open socket has an entry; eviction and removal shift the list, and
  the lemmas on `RemoveAt`, `Touched`, `Insert` and `Without` say what stays. `SessionsFit`
  says of a client with one host name that its sessions hold headers it uses and addresses
  those stand for, that their packets have left for no others, and that none of its lookups
  was asked from inside a session: without it, a lookup's answer could be written into a session of another name. With
  any sender allowed, `reached` is what ties a reply's address to what the client asked for.
* `BlockListProofs`: **TypeCorrect**, **RulesAreTables** (`RulesFollowTable`),
  **BlocksAreEarned** (`EarnedBlock`), **OneRuleAtMost** and **OldestFirst**, from
  **Inductive**, for any peers, grades, size of the table and length of the pipe.
  `RulesFollowTable` counts lines that are still in the pipe, and a count alone is not kept
  when the shell runs the first of them: `iptables -D` takes nothing from zero. So `Follows`
  says of every peer that its lines alternate, a rule is added only where by then there is
  none and deleted only where there is one, from the firewall as it is to what the table
  wants, and that the counts come to the same. `Filed` says that the table names each peer
  once and is in order of use: eviction then deletes a rule that is there, and an insertion
  adds one that is not. `Earned` bounds every counter, not only those over the limit.
* `PasswallProofs`, for `Passwall`: **Inductive**, **TypeCorrect**, **LockWorks**, for any finite number of
  invocations and any `Looks` and `MaxMonitors`. `OneAtATime` needs to know who has the file
  open (`Opened`), that one at work holds the `flock` of what it opened (`Holders`), that
  unless a file was removed under someone all have opened the same one, and it has the name
  (`SameFile`), and that a name is never left without a process that will remove it
  (`NamedIsOpen`). That a new file always exists to be opened is a lemma on cardinalities.
* `PasswallProofs`, for `AutoSwitch`: **SwitchTypeCorrect** and **OthersStayWatched**
  (`OthersWatched`), from **SwitchInductive**, for any nodes, number of other processes, order in which `start`
  records them and the service, and room for files. `ln_run`
  numbers a file by counting the files there are, and a switch removes one, so the number
  may be that of a file in use. `Layout` says whose, for a service of one process: the
  files are numbered from 1 without a gap, the service's own at its place among the others',
  or with a hole there once a switch has removed it. Then the next number is that of the last
  file, which is a test's or the service's and never another process's; and the step a switch
  has reached tells which of the two it is.
* `SsrPlusProofs`: **Inductive**, **TypeCorrect**, **LockGoes**, **RestartsComeUp**,
  **StopsForGood**, **SwitchKnows**, for any list of servers, any number of invocations and
  any patience. `Held` says who will remove a lock file; `RulesFollow` and `MonitorFollows`
  which invocation has yet to bring rules and monitor up (the monitor's also needs that its
  lock file is not one a killed monitor left); `Alone`, `Stopped` and `Known` follow a single
  invocation from place to place. The search for a server takes the least of a set of
  positions, which the well-foundedness of the naturals provides.
* `StreamProofs`, for `Frames`: **TypeCorrect**, **StreamReassembled** (`Reassembles`),
  **BuffersHoldFrames** (`PackingFits`) and **IdsNeverRepeat** (`HeadersDistinct`), for any
  writes, paddings, cuts, first ids, bounds and number of connections, under
  `SizesAssumption`, `BoundsAssumption` and `FirstIdsAssumption`. `IndInv` joins
  `FramesInv` (a peer's numbers go on from the frames on the wire, and each frame is of the
  size its packing function makes), `ReaderInv` (what was read ends where the frames taken
  and the bytes kept end, and the first frame kept is not whole), `PackedFits` and
  `CountsInv`; `IdsInv` adds that ids only go up, in the order of client id and then
  connection id. For one frame, **FramesAreSized** and **HonestFramesRead**: no packing
  function makes a frame whose length the readers' bounds refuse, and the i-th frame of an
  honest peer is never refused as the i-th, of whatever bytes are there yet, and what is taken
  out of it is what was put in. For many: the frames that are whole within a read are those
  whose lengths sum to no more than it has.
* `StreamProofs`, for `OtaChunks`: **ChunksInside** (`OtaTypeOK`, with no byte written
  outside a buffer) and **ChunksReassembled** (`Reassembled`), for any sizes, any bytes of
  length and hash together beyond the two of the length, any cuts and any number of chunks,
  under `OtaAssumption`. Both follow from **ChunksGathered**, `[]OtaInv`, which adds to
  `Reassembled` that a chunk whose length has been read has room for all of it. A
  read is one step in which the loop of `ss_check_hash` runs; the loop has an invariant of its
  own, `Going`, of the read's length and of the turns taken: the bytes still to come are at
  `k`, unharmed by the chunks put back before them, what was put back is what the chunks
  since the read began carried, and as soon as a chunk has been put back, it, the bytes
  gathered of the next and the bytes to come are together no more than `chunk->len` and the
  read were, which is what both buffers were grown to. That is why the code may copy in
  place and why a chunk longer than a read, whose first bytes an earlier read took, still
  fits. `TurnStep` shows that a turn keeps `Going` or ends in `Stopped`, a hash that does not
  fit.

* `ServerPluginsProofs`: **PluginsTypeCorrect** and **HonestClientsServed** (`Served`), from
  **PluginsInvariant**, `[]PluginsInv`, for any sessions in which the server is configured to
  let the client in, any sizes of requests, answers, hellos and heads, any draws, any places
  at which TCP cuts, and any number of requests and connections, under
  `SessionsAssumption`, `RequestsAssumption`, `DrawsAssumption` and `LimitsAssumption` (a
  request or an answer fits the code's buffer, a hello fits a read and is longer than what
  STAGE_INIT waits for). `Served` compares positions in two streams, the one TCP cuts and the
  cipher's inside it; what it says is kept only if the readers stand where the writers' units
  begin. So `UpLayout` and `DownLayout` say what either end has written for each way of a
  client: raw units; an HTTP head and then raw units; or a hello, a finish and then only
  records, of which some wait in `send_buffer` until the server's hello is there. `UpTotal`
  says that these carry the requests' bytes, all of them, in order behind one IV, so the
  bytes the server has out are those of whole requests or a part of the last one. `Passes`
  says what the server has decrypted and handed on, and that after its first bytes it
  holds the whole first request, which is why it never waits again in STAGE_INIT and is
  never asked for the IV twice. `ServerPhase` and `ClientPhase` tie the handshake's status at
  either end to the units read: a server in status 8 has taken whole records up to `dec`, one
  in status 3 has read the hello and nothing else, a client that has finished stands at a
  record's first byte. Those four are claimed where nothing tore; `ServerLayout` is what
  remains where something did, and what the types need. A read may hold any number of units:
  `WholeRecords` stops at the first that is not whole, and the lemma that it does so exactly
  at `Whole` of the new position is where the 5 bytes of the loop's test come in (no record is
  shorter). The frames of several calls are those of the joined calls
  (`FramesOfAll`), so whole requests are whole frames, and what `server_post_decrypt` hands on
  in two reads is what it would have in one.

Sums, concatenations and the loop of `ss_check_hash` are recursive functions, and what one
computes for an input of any length is proved by hand. That the function exists is an
induction that adds one element at a time to its domain (`PartialSums`, `PartialJoins`,
`LoopTurns`), after which the CHOOSE behind its definition is unfolded; what it computes is
a second one over its values. An induction is over a set of numbers (`UpTo`: a set that
has 0, and with each number below n the next, has all up to n), which follows from the
well-founded order of the naturals; so no theorem with an operator as parameter is needed.

Each `IndInv`, `OtaInv` and `PluginsInv` was checked by TLC before its proof; the runs check
the properties that follow.

Only model-checked: everything that must eventually happen (`AllDelivered`,
`RemoteEofCloses`, `QueriesEnd`, `Forgiven`, `Completes`, `ReturnsToMain`, `Recovers`,
`SettlesDown`), for liveness is beyond this prover. Every invariant that a run checks is a
theorem.

## Not modelled, and why

Ciphers, compression of names, JSON and option parsing, the generators and the pages are
translations of data with no state between calls. Firewall scripts are lists of calls to
programs that are not here. Third-party packages have no source here. The access lists are
pure matching. What is left out inside a modelled part is said with its module above, and
the parts with their reasons are in `PROJECT.json`.

The map covers less than a fifth of the lines counted as implementation. Half of the C code
is the second copy of ss-server, which is the same program; most of the rest are
`uthash.h` and `json.c` (vendored), tables and calls of crypto libraries in `encrypt.c`,
`main` with its options, the client builds that `#ifdef` leaves out of this server, and
translators in shell and Lua (`app.sh`, the firewall scripts, `subscribe.lua`,
`gen_config.lua`, `generate_client.uc`). What has state that lives between two calls is, but
for what the plan names, modelled.

Limits that matter: two starts of `ssr-monitor` or `ssr-switch` within the milliseconds
between their test and touch of a lock file (`SsrPlus` takes the two as one step, `Passwall`
does not); `check_server`'s restart from inside `start`; several socks services of passwall,
each with a switcher, over one `script_func`.

## Plan

Done, the most important behaviour first: `TcpRelay` with `RelayPipe`, its inductive
invariant and refinement; `ResolvQuery`, `UdpRelay`, `BlockList`, `SsrPlus`, `Frames` and
`OtaChunks`, `ServerPlugins`, `Passwall` and `AutoSwitch` with their proofs. Left:

1. **ListUpdate**: homeproxy's `update_resources.sh` and passwall's `rule_update.lua`: the
   lock file, the download, the list and its version file, killed between any two.
2. **TcpWithResolver**: the TCP relay composed with `ResolvQuery` for several connections
   and one block of memory, instead of the single query flag of `TcpRelay`.
3. **Subscriptions** of ssr-plus, passwall and homeproxy: what a merge does to the server in
   use.
4. **Several switchers** of passwall over one `script_func`; test and touch as two steps in
   `SsrPlus`.
