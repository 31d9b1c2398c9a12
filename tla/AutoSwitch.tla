----------------------------- MODULE AutoSwitch -----------------------------
(***************************************************************************)
(* One of passwall's socks services with automatic switching:              *)
(* socks_auto_switch.sh tests the node in use through the service's port,  *)
(* and on a failure tries the backup nodes in turn, and the main node      *)
(* first if it is to return to that one.  app.sh starts every process      *)
(* through ln_run, which writes its command to a file in script_func, and  *)
(* monitor.sh starts again what is in these files and does not run.        *)
(*                                                                         *)
(* Passwall models how start, stop and the monitors exclude one another;   *)
(* here one of each is at work.                                            *)
(***************************************************************************)
EXTENDS Integers, Sequences, SequencesExt, FiniteSets

CONSTANTS
  Node,          \* the node the service is configured with
  BackupNodes,   \* autoswitch_backup_node, a sequence
  Others,        \* how many processes run besides this service's
  MaxFiles       \* bound: the files of script_func; of a test beyond it none is kept

Nodes == {Node} \cup Range(BackupNodes)
NoNode == "none"

ASSUME NodesAssumption ==
  /\ BackupNodes \in Seq(Nodes) /\ BackupNodes # <<>> /\ IsInjective(BackupNodes)
  /\ NoNode \notin Nodes
\* There is room for a test's file beside those of the service and of the others.
ASSUME OthersAssumption == Others \in Nat /\ MaxFiles \in Nat /\ MaxFiles > Others + 1

VARIABLES
  restore_switch,   \* autoswitch_restore_switch: return to the main node
  earlier,          \* fixed: how many of the other processes start records before the service
  http_port,        \* the service has an HTTP port, served by a process of its own
  node, backups,    \* the node and the backup nodes in the configuration
  script_func,      \* the files of that directory: their numbers, and the commands in them
  socks,            \* the node whose proxy has the port
  http, others,     \* the HTTP converter runs; which of the other processes do
  cache,            \* socks_${id} in the file of variables: the node in use
  at,               \* how far test_auto_switch is
  now_node,         \* its now_node, and then the new_node it switches to
  main_node, b_nodes, status,   \* its other variables
  reach, network    \* the nodes that answer; the network is up

config == <<restore_switch, earlier, http_port, node, backups>>
processes == <<script_func, socks, http, others>>
shell == <<now_node, main_node, b_nodes, status>>
world == <<reach, network>>
switch_vars == <<config, processes, cache, at, shell, world>>

Command(what, of) == [what |-> what, of |-> of]
Socks(n) == Command("socks", n)
Http == Command("http", NoNode)
Test == Command("test", NoNode)
Other(i) == Command("other", i)

\* process_count: the number of files and one more.
NextFile(files) == Cardinality(DOMAIN files) + 1

\* ln_run writes a command to the file of that number, whether it is there or not.
Recorded(files, command) ==
  [i \in DOMAIN files \cup {NextFile(files)} |->
     IF i = NextFile(files) THEN command ELSE files[i]]

\* run_socks: the commands of the service with node n.
Commands(n) == IF http_port THEN <<Socks(n), Http>> ELSE <<Socks(n)>>

\* What start records in an empty directory, in the files 1, 2, ...: haproxy and the socks
\* services listed before this one, this one, then all that comes after it.
Started(n) ==
  [i \in 1..earlier |-> Other(i)] \o Commands(n) \o [i \in 1..(Others - earlier) |-> Other(earlier + i)]

SwitchInit ==
  /\ restore_switch \in BOOLEAN /\ earlier \in 0..Others /\ http_port \in BOOLEAN
  /\ node = Node /\ backups = BackupNodes
  /\ script_func = Started(Node)
  /\ socks = Node /\ http = http_port /\ others = 1..Others
  /\ cache = Node /\ at = "sleep"
  /\ now_node = Node /\ main_node = Node /\ b_nodes = BackupNodes
  /\ status = 0
  /\ network \in BOOLEAN /\ reach \in IF network THEN SUBSET Nodes ELSE {{}}

\* The service's port leads to the world.
Works == socks \in reach

\* app.sh stop and start: all is killed, test_auto_switch too, and starts from the configuration.
Restart ==
  /\ script_func' = Started(node)
  /\ socks' = node /\ http' = http_port /\ others' = 1..Others
  /\ cache' = node /\ at' = "sleep"
  /\ now_node' = node /\ main_node' = node /\ b_nodes' = backups
  /\ status' = 0
  /\ UNCHANGED <<config, world>>

\* start's loop calls test_auto_switch, which takes the node in use from the cache.
Wakes ==
  /\ at = "sleep" /\ at' = "proxy"
  /\ now_node' = cache
  /\ UNCHANGED <<config, processes, cache, main_node, b_nodes, status, world>>

\* test_auto_switch returns; nothing of now_node and status is used again.
Returns == at' = "sleep" /\ now_node' = cache /\ status' = 0

\* test_proxy: 0 through the port, 1 only past it, 2 not at all.
TestsProxy ==
  LET result == IF Works THEN 0 ELSE IF network THEN 1 ELSE 2
      returns == restore_switch /\ now_node # main_node
  IN
  /\ at = "proxy"
  /\ \/ result # 2 /\ returns /\ at' = "main" /\ status' = result /\ UNCHANGED now_node
     \/ result = 1 /\ ~returns /\ at' = "next" /\ status' = result /\ UNCHANGED now_node
     \/ result = 2 /\ Returns
     \/ result = 0 /\ ~returns /\ Returns
  /\ UNCHANGED <<config, processes, cache, main_node, b_nodes, world>>

\* Mutant of TestNode: the command's file is removed with the rest of the test.
TestNodeTidy == UNCHANGED script_func

\* test_node: a proxy is started at another port, tested and killed; its command stays.
TestNode ==
  script_func' = IF Cardinality(DOMAIN script_func) < MaxFiles THEN Recorded(script_func, Test) ELSE script_func

\* The main node answers again, or the verdict of test_proxy counts.
TestsMain ==
  /\ at = "main"
  /\ TestNode
  /\ \/ main_node \in reach /\ at' = "kill" /\ now_node' = main_node /\ status' = 0
     \/ main_node \notin reach /\ status = 1 /\ at' = "next" /\ UNCHANGED <<now_node, status>>
     \/ main_node \notin reach /\ status = 0 /\ Returns
  /\ UNCHANGED <<config, socks, http, others, cache, main_node, b_nodes, world>>

\* Mutant of Following: after the last node the rotation stays with it.
FollowingStays(n) ==
  LET i == SelectInSeq(b_nodes, LAMBDA m : m = n)
  IN  IF i = 0 THEN Head(b_nodes) ELSE IF i < Len(b_nodes) THEN b_nodes[i + 1] ELSE n

\* The backup node after n: the first if n is the last, or none of them.
Following(n) ==
  LET i == SelectInSeq(b_nodes, LAMBDA m : m = n)
  IN  IF i \in 1..(Len(b_nodes) - 1) THEN b_nodes[i + 1] ELSE Head(b_nodes)

\* The next backup node answers: without restore_switch the configuration follows.  Or
\* test_auto_switch calls itself with that one.  (uci add_list would add the main node once
\* more each time, and uniq drops it when b_nodes is made.)
TestsNext ==
  LET new == Following(now_node)
      moves == new \in reach /\ ~restore_switch
      listed == main_node \in Range(b_nodes) \/ Last(backups) = main_node
  IN
  /\ at = "next"
  /\ TestNode
  /\ now_node' = new /\ at' = (IF new \in reach THEN "kill" ELSE "proxy") /\ status' = 0
  /\ node' = IF moves THEN new ELSE node
  /\ backups' = IF moves /\ ~listed THEN Append(backups, main_node) ELSE backups
  /\ UNCHANGED <<restore_switch, earlier, http_port, socks, http, others, cache, main_node, b_nodes, world>>

\* socks_node_switch: the service's processes are killed,
Kills ==
  /\ at = "kill" /\ at' = "remove"
  /\ socks' = NoNode /\ http' = FALSE
  /\ UNCHANGED <<config, script_func, others, cache, shell, world>>

\* their files are removed,
Removes ==
  /\ at = "remove" /\ at' = "run"
  /\ script_func' = LET kept == {i \in DOMAIN script_func : script_func[i].what \notin {"socks", "http"}}
                    IN  [i \in kept |-> script_func[i]]
  /\ UNCHANGED <<config, socks, http, others, cache, shell, world>>

\* Mutant of Cached: the cache is left as it is.
CachedNot == UNCHANGED cache

\* set_cache_var
Cached == cache' = now_node

\* and run_socks starts the new node's; one that finds its port taken ends.
RunsNew ==
  /\ at = "run" /\ at' = "sleep"
  /\ socks' = IF socks = NoNode THEN now_node ELSE socks
  /\ http' = http_port
  /\ LET recorded == Recorded(script_func, Socks(now_node))
     IN  script_func' = IF http_port THEN Recorded(recorded, Http) ELSE recorded
  /\ Cached
  /\ UNCHANGED <<config, others, shell, world>>

\* monitor.sh goes through the files: what does not run is started.  A test's configuration
\* is gone, and its proxy ends at once.
MonitorRestarts ==
  LET inFiles == {script_func[i] : i \in DOMAIN script_func}
  IN
  /\ others' = others \cup {i \in 1..Others : Other(i) \in inFiles}
  /\ http' = (http \/ Http \in inFiles)
  /\ IF socks = NoNode /\ \E n \in Nodes : Socks(n) \in inFiles
       THEN socks' = CHOOSE n \in Nodes : Socks(n) \in inFiles
       ELSE UNCHANGED socks
  /\ UNCHANGED <<config, script_func, cache, at, shell, world>>

\* A process dies.
ServiceDies ==
  /\ \/ socks # NoNode /\ socks' = NoNode /\ UNCHANGED <<http, others>>
     \/ http /\ http' = FALSE /\ UNCHANGED <<socks, others>>
     \/ \E i \in others : others' = others \ {i} /\ UNCHANGED <<socks, http>>
  /\ UNCHANGED <<config, script_func, cache, at, shell, world>>

\* Nodes, or the network, come and go.
Changes ==
  /\ network' \in BOOLEAN /\ reach' \in IF network' THEN SUBSET Nodes ELSE {{}}
  /\ UNCHANGED <<config, processes, cache, at, shell>>

test_auto_switch ==
  \/ Wakes \/ TestsProxy \/ TestsMain \/ TestsNext
  \/ Kills \/ Removes \/ RunsNew

SwitchNext ==
  \/ test_auto_switch
  \/ Restart
  \/ MonitorRestarts
  \/ ServiceDies
  \/ Changes

\* The shell goes on, and the monitor's round comes again.
SwitchSpec ==
  SwitchInit /\ [][SwitchNext]_switch_vars
  /\ WF_switch_vars(test_auto_switch) /\ WF_switch_vars(MonitorRestarts)
-----------------------------------------------------------------------------
\* The variables have their types; and but for a switch under way the configuration names the
\* node the service is to come back with: the one in use, or with restore_switch the main one.
SwitchTypeOK ==
  /\ restore_switch \in BOOLEAN /\ earlier \in 0..Others /\ http_port \in BOOLEAN
  /\ node \in Nodes /\ backups \in Seq(Nodes)
  /\ \A i \in DOMAIN script_func : i \in Nat \ {0} /\ script_func[i].what \in {"socks", "http", "test", "other"}
  /\ socks \in Nodes \cup {NoNode} /\ http \in BOOLEAN /\ others \subseteq 1..Others
  /\ cache \in Nodes /\ at \in {"sleep", "proxy", "main", "next", "kill", "remove", "run"}
  /\ now_node \in Nodes /\ main_node \in Nodes /\ b_nodes \in Seq(Nodes)
  /\ at \notin {"kill", "remove", "run"} => node = IF restore_switch THEN main_node ELSE cache
  /\ status \in 0..2 /\ reach \subseteq Nodes /\ network \in BOOLEAN

\* Whatever is tested and switched, the commands of the other processes stay in their files,
\* where the monitor finds them when one dies (ln_run, socks_node_switch): so for a service of
\* one process.  With an HTTP port's they do not.
OthersWatched ==
  ~http_port => \A i \in 1..Others : \E f \in DOMAIN script_func : script_func[f] = Other(i)

\* Nobody restarts the service any more, nodes and network stay as they are, and a backup node
\* answers.
SettledWorld ==
  /\ <>[][~Restart]_switch_vars
  /\ <>[][UNCHANGED world]_switch_vars
  /\ <>[](reach \cap Range(b_nodes) # {})

\* Then the service works again and again, however often its proxy dies and whichever proxy the
\* monitor brings back to the port amid a switch (test_auto_switch, socks_node_switch).  And with
\* restore_switch and a main node that answers, it is the main node's proxy that is there, for a
\* service of one process: wherever its file is, the test before a switch has written over its
\* command by the time it is killed, but for the first time (ln_run).  With an HTTP port the
\* monitor may bring the old proxy back for good.
SettlesDown ==
  SettledWorld =>
    /\ []<>Works
    /\ ~http_port /\ restore_switch /\ <>[](main_node \in reach) => []<>(socks = main_node)
=============================================================================
