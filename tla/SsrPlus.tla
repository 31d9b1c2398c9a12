------------------------------- MODULE SsrPlus -------------------------------
(***************************************************************************)
(* luci-app-ssr-plus at run time: the service script                       *)
(* /etc/init.d/shadowsocksr, which several invocations may run at once     *)
(* round one lock file, and its two helpers, ssr-monitor, which restarts a *)
(* service that has died, and ssr-switch, which moves to another server    *)
(* when the one in use fails and back when the main server answers again.  *)
(*                                                                         *)
(* set_lock ignores the result of flock, so the lock is a file that exists *)
(* or not, and only stop looks.                                            *)
(***************************************************************************)
EXTENDS Integers, Sequences, FiniteSets

CONSTANTS
  Servers,      \* the configured servers, a sequence in the order of the file
  Main,         \* global_server
  Enabled,      \* the servers with switch_enable
  MaxJobs,      \* bound: invocations of the script at a time
  Patience,     \* how often unlock looks for the lock file to go
  Nobody        \* stands for no server

Names == {Servers[i] : i \in DOMAIN Servers}

ASSUME SsrPlusAssumption ==
  /\ Servers \in Seq(Names) /\ Main \in Names /\ Enabled \subseteq Names
  /\ Nobody \notin Names /\ MaxJobs \in Nat \ {0} /\ Patience \in Nat \ {0}

Jobs == 1..MaxJobs

VARIABLES
  job,          \* the invocations: command, argument, and how far
  lock,         \* ssrplus.lock exists
  daemon,       \* the server the redirector runs for
  rules,        \* the server the firewall rules were made for
  monitors,     \* how many ssr-monitor run
  monitorLock,  \* ssr-monitor.lock exists
  switch,       \* ssr-switch: how far, CURRENT_SERVER, and its variables
  reach,        \* the servers that answer
  asked,        \* history: the commands begun since no invocation was under way
  overlapped    \* history: two invocations have run at once

history == <<asked, overlapped>>
vars == <<job, lock, daemon, rules, monitors, monitorLock, switch, reach, history>>

Commands == {"restart", "stop"}
NoJob == [cmd |-> "restart", arg |-> Nobody, at |-> "idle", tries |-> 0]
NoSwitch == [at |-> "dead", cur |-> Main, normal |-> FALSE, locate |-> 0, waits |-> FALSE]

Idle == \A j \in Jobs : job[j].at = "idle"
IsFree(j) == job[j].at = "idle" /\ \A k \in 1..(j - 1) : job[k].at # "idle"
\* load_config: the server to use is the argument, or else the main server.
Global(j) == IF job[j].arg = Nobody THEN Main ELSE job[j].arg

\* The machine boots, and the script's start begins.
Init ==
  /\ job = [j \in Jobs |-> IF j = 1 THEN [NoJob EXCEPT !.at = "gap"] ELSE NoJob]
  /\ lock = FALSE /\ daemon = Nobody /\ rules = Nobody /\ monitors = 0
  /\ monitorLock = FALSE /\ switch = NoSwitch
  /\ reach \in SUBSET Names
  /\ asked = {"restart"} /\ overlapped = FALSE

-----------------------------------------------------------------------------
\* An invocation begins: the user's, the monitor's, or the switch's, which waits for it.
Begin(j, cmd, arg) ==
  /\ IsFree(j)
  /\ job' = [job EXCEPT ![j] = [cmd |-> cmd, arg |-> arg, at |-> "wait", tries |-> 1]]
  /\ asked' = {cmd} \cup (IF Idle THEN {} ELSE asked)
  /\ overlapped' = (overlapped \/ ~Idle)

UserAsks(j, cmd) ==
  /\ Begin(j, cmd, Nobody)
  /\ UNCHANGED <<lock, daemon, rules, monitors, monitorLock, switch, reach>>

At(j, here) == job[j].at = here
Goto(j, there) == job' = [job EXCEPT ![j].at = there]

\* Mutant of Wait: the loop has no end of its own.
WaitForever(j) ==
  /\ At(j, "wait")
  /\ IF lock
     THEN /\ job' = [job EXCEPT ![j].tries = @ + 1]
          /\ lock' = (job[j].tries + 1 < Patience)
     ELSE job' = [job EXCEPT ![j].at = "take", ![j].tries = 0] /\ UNCHANGED lock
  /\ UNCHANGED <<daemon, rules, monitors, monitorLock, switch, reach, history>>

\* unlock: look for the lock file once a second; at the end of patience take it away.
Wait(j) ==
  /\ At(j, "wait")
  /\ IF lock /\ job[j].tries <= Patience
     THEN /\ job' = [job EXCEPT ![j].tries = @ + 1]
          /\ lock' = (job[j].tries + 1 < Patience)
     ELSE job' = [job EXCEPT ![j].at = "take", ![j].tries = 0] /\ UNCHANGED lock
  /\ UNCHANGED <<daemon, rules, monitors, monitorLock, switch, reach, history>>

\* set_lock, in stop and in start.
Take(j) ==
  /\ \/ At(j, "take") /\ Goto(j, "stop")
     \/ At(j, "gap") /\ Goto(j, "start")
  /\ lock' = TRUE
  /\ UNCHANGED <<daemon, rules, monitors, monitorLock, switch, reach, history>>

\* Mutant of Stop: the switch is spared.
StopSparesSwitch(j) ==
  /\ At(j, "stop") /\ Goto(j, "stopping")
  /\ rules' = Nobody /\ daemon' = Nobody /\ monitors' = 0
  /\ UNCHANGED <<lock, monitorLock, switch, reach, history>>
\* stop drops the rules and kills what runs; ssr-switch and its lock file are spared when
\* it is ssr-switch that asks.
Stop(j) ==
  /\ At(j, "stop") /\ Goto(j, "stopping")
  /\ rules' = Nobody /\ daemon' = Nobody /\ monitors' = 0
  /\ switch' = IF job[j].arg = Nobody THEN NoSwitch ELSE switch
  /\ UNCHANGED <<lock, monitorLock, reach, history>>

\* Mutant of StopEnds: the lock file stays.
StopEndsLocked(j) ==
  /\ At(j, "stopping")
  /\ job' = [job EXCEPT ![j] = IF @.cmd = "stop" THEN NoJob ELSE [@ EXCEPT !.at = "gap"]]
  /\ daemon' = Nobody /\ monitorLock' = FALSE
  /\ UNCHANGED <<lock, rules, monitors, switch, reach, history>>
\* Mutant of StopEnds: the monitor's lock file stays.
StopEndsWatched(j) ==
  /\ At(j, "stopping")
  /\ job' = [job EXCEPT ![j] = IF @.cmd = "stop" THEN NoJob ELSE [@ EXCEPT !.at = "gap"]]
  /\ daemon' = Nobody /\ lock' = FALSE
  /\ UNCHANGED <<monitorLock, rules, monitors, switch, reach, history>>
\* Three seconds later what still has the service's path in its command line is killed for
\* good, also what has been started since; the lock goes; a restart goes on.
StopEnds(j) ==
  /\ At(j, "stopping")
  /\ job' = [job EXCEPT ![j] = IF @.cmd = "stop" THEN NoJob ELSE [@ EXCEPT !.at = "gap"]]
  /\ daemon' = Nobody /\ monitorLock' = FALSE /\ lock' = FALSE
  /\ UNCHANGED <<rules, monitors, switch, reach, history>>

\* start: load_config and Start_Run.  A redirector that finds its port taken gives up.
StartRun(j) ==
  /\ At(j, "start") /\ Goto(j, "rules")
  /\ daemon' = IF daemon = Nobody THEN Global(j) ELSE daemon
  /\ UNCHANGED <<lock, rules, monitors, monitorLock, switch, reach, history>>

\* Mutant of StartRules: made for the main server whatever the argument.
StartRulesForMain(j) ==
  /\ At(j, "rules") /\ Goto(j, "switch") /\ rules' = Main
  /\ UNCHANGED <<lock, daemon, monitors, monitorLock, switch, reach, history>>
\* start_rules.
StartRules(j) ==
  /\ At(j, "rules") /\ Goto(j, "switch") /\ rules' = Global(j)
  /\ UNCHANGED <<lock, daemon, monitors, monitorLock, switch, reach, history>>

\* start_switch, unless ssr-switch itself has asked.  A second ssr-switch finds the lock
\* file of the first, and ends.
StartSwitch(j) ==
  /\ At(j, "switch") /\ Goto(j, "monitor")
  /\ switch' = IF job[j].arg = Nobody /\ switch.at = "dead"
               THEN [NoSwitch EXCEPT !.at = "sleep"] ELSE switch
  /\ UNCHANGED <<lock, daemon, rules, monitors, monitorLock, reach, history>>

\* start_monitor, the same way; then unset_lock, and the invocation ends.
StartEnds(j) ==
  /\ At(j, "monitor") /\ job' = [job EXCEPT ![j] = NoJob]
  /\ monitors' = IF monitorLock THEN monitors ELSE monitors + 1
  /\ monitorLock' = TRUE /\ lock' = FALSE
  /\ switch' = IF job[j].arg # Nobody THEN [switch EXCEPT !.waits = FALSE] ELSE switch
  /\ UNCHANGED <<daemon, rules, reach, history>>

-----------------------------------------------------------------------------
\* ssr-monitor finds the redirector gone: it restarts the service, and exits.
MonitorActs(j) ==
  /\ monitors > 0 /\ daemon = Nobody /\ monitors' = monitors - 1
  /\ Begin(j, "restart", Nobody)
  /\ UNCHANGED <<lock, daemon, rules, monitorLock, switch, reach>>

\* switch_proxy: ssr-switch calls the script with the server to use, and waits.
SwitchTo(s, there, locate) ==
  /\ \E j \in Jobs : Begin(j, "restart", s)
  /\ switch' = [switch EXCEPT !.cur = s, !.at = there, !.locate = locate, !.waits = TRUE]
  /\ UNCHANGED <<lock, daemon, rules, monitors, monitorLock, reach>>

Continue(there, normal) ==
  /\ ~switch.waits
  /\ switch' = [switch EXCEPT !.at = there, !.normal = normal]
  /\ UNCHANGED <<job, lock, daemon, rules, monitors, monitorLock, reach, history>>

\* Mutant of GoesBack: what is tested and started is the server in use.
GoesBackToCurrent ==
  /\ switch.at = "sleep" /\ switch.cur # Main /\ switch.cur \in reach
  /\ SwitchTo(switch.cur, "back", switch.locate)
\* ssr-switch wakes up.  Away from the main server, it goes back when that one answers.
GoesBack ==
  /\ switch.at = "sleep" /\ switch.cur # Main /\ Main \in reach
  /\ SwitchTo(Main, "back", switch.locate)

\* Otherwise, and after that, it turns to the server in use.
TurnsToCheck ==
  /\ switch.at = "back" \/ (switch.at = "sleep" /\ (switch.cur = Main \/ Main \notin reach))
  /\ Continue("check", switch.normal)

\* check_proxy: the world answers through the redirector, or nothing answers at all and
\* the fault is elsewhere; with the rules gone, what is asked is asked directly.
Works == daemon \in reach /\ rules # Nobody
Content ==
  /\ switch.at = "check" /\ (Works \/ rules = Nobody \/ reach = {})
  /\ Continue("sleep", FALSE)

\* search_proxy's candidates: after a move and until the next good check, only servers
\* further down the file.
Candidates ==
  {i \in DOMAIN Servers :
     /\ ~(switch.normal /\ i <= switch.locate)
     /\ Servers[i] \in Enabled /\ Servers[i] # switch.cur /\ Servers[i] \in reach}

\* select_proxy takes the first; without one the server in use is started again.
Moves ==
  /\ switch.at = "check" /\ ~Works
  /\ IF Candidates = {}
     THEN SwitchTo(switch.cur, "moved", switch.locate)
     ELSE LET i == CHOOSE i \in Candidates : \A k \in Candidates : i <= k
          IN SwitchTo(Servers[i], "moved", i)

Moved == switch.at = "moved" /\ Continue("sleep", TRUE)

-----------------------------------------------------------------------------
\* The redirector dies; servers come and go.
Crash ==
  /\ daemon # Nobody /\ daemon' = Nobody
  /\ UNCHANGED <<job, lock, rules, monitors, monitorLock, switch, reach, history>>
ReachChanges ==
  /\ reach' \in SUBSET Names
  /\ UNCHANGED <<job, lock, daemon, rules, monitors, monitorLock, switch, history>>

Run(j) ==
  \/ Wait(j)
  \/ Take(j)
  \/ Stop(j)
  \/ StopEnds(j)
  \/ StartRun(j)
  \/ StartRules(j)
  \/ StartSwitch(j)
  \/ StartEnds(j)
SsrSwitch == GoesBack \/ TurnsToCheck \/ Content \/ Moves \/ Moved

Next ==
  \/ \E j \in Jobs : Run(j) \/ MonitorActs(j) \/ \E cmd \in Commands : UserAsks(j, cmd)
  \/ SsrSwitch
  \/ Crash
  \/ ReachChanges

Spec == Init /\ [][Next]_vars

\* The system runs every process: an invocation takes its next step, ssr-switch wakes up,
\* and ssr-monitor looks again, once no invocation is under way.
FairSpec ==
  /\ Spec /\ WF_vars(SsrSwitch)
  /\ \A j \in Jobs : WF_vars(Run(j))
  /\ WF_vars(\E j \in Jobs : MonitorActs(j))

-----------------------------------------------------------------------------
\* The variables hold what the scripts keep in files, processes and shell variables; each
\* invocation leaves at most one ssr-monitor more than it found.
TypeOK ==
  /\ job \in [Jobs -> [cmd : Commands, arg : Names \cup {Nobody}, tries : 0..(Patience + 1),
                      at : {"idle", "wait", "take", "stop", "stopping", "gap", "start",
                            "rules", "switch", "monitor"}]]
  /\ lock \in BOOLEAN /\ monitorLock \in BOOLEAN
  /\ daemon \in Names \cup {Nobody} /\ rules \in Names \cup {Nobody}
  /\ monitors \in 0..Cardinality(Jobs)
  /\ switch \in [at : {"dead", "sleep", "back", "check", "moved"}, cur : Names,
                 normal : BOOLEAN, locate : 0..Len(Servers), waits : BOOLEAN]
  /\ reach \subseteq Names /\ asked \subseteq Commands
  /\ overlapped \in BOOLEAN

\* When no invocation is under way the lock file is gone, whoever took it from whom in
\* between: the next stop does not wait in vain (set_lock, unset_lock, unlock).
NoStaleLock == Idle => ~lock

\* However many restarts overlap, in the end the rules are there and the service is
\* watched: no order of their steps leaves the network without either, as long as none of
\* them was a stop (stop, start_rules, start_monitor).
ComesUp == Idle /\ asked = {"restart"} => rules # Nobody /\ (monitors > 0)

\* As long as invocations do not overlap, ssr-switch knows the server in use, and the
\* rules are for that one (switch_proxy, load_config, start_rules).
SwitchKnowsAlone ==
  ~overlapped /\ Idle /\ daemon # Nobody =>
    rules = daemon /\ (switch.at = "sleep" => switch.cur = daemon)

\* As long as invocations do not overlap, nothing runs once the user has asked for a stop,
\* and nothing is left that would start it again (stop).
StopIsFinal ==
  ~overlapped /\ Idle /\ asked = {"stop"} =>
    daemon = Nobody /\ rules = Nobody /\ monitors = 0 /\ switch.at = "dead"

\* The service returns to the main server when that one answers for good, unless the user
\* stops it or invocations overlap (ssr-switch, ssr-monitor).
ReturnsToMain ==
  [](~overlapped /\ asked = {"restart"}) /\ <>[](Main \in reach) => []<>(daemon = Main)
=============================================================================
