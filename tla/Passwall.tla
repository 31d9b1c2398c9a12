------------------------------ MODULE Passwall ------------------------------
(***************************************************************************)
(* luci-app-passwall's service script and its monitor.  /etc/init.d/       *)
(* passwall is called by procd, by hotplug, by the timer of tasks.sh and   *)
(* by the pages, several at a time; an flock on a file that is removed     *)
(* when done keeps them apart.  app.sh starts and kills the proxies and    *)
(* monitor.sh, which starts again what has died and has a lock file of its *)
(* own.                                                                    *)
(*                                                                         *)
(* An flock belongs to the file that was opened, not to its name: files    *)
(* are inodes here, and LOCK_FILE names one of them or none.               *)
(***************************************************************************)
EXTENDS Integers, FiniteSets

CONSTANTS
  Invocations,   \* the processes that run the script, each again and again
  Looks,         \* how often unlock looks for the file before it removes it (10 in the code)
  MaxMonitors    \* bound: monitors a start may add

None == 0
Inodes == 1 .. Cardinality(Invocations) + 1
Ops == {"start", "stop", "restart"}
ASSUME LooksAssumption == Looks \in Nat \ {0}
ASSUME InvocationsAssumption == IsFiniteSet(Invocations) /\ None \notin Invocations
ASSUME MonitorsAssumption == MaxMonitors \in Nat

VARIABLES
  name,       \* the inode LOCK_FILE names
  lock,       \* who holds each inode's flock
  fd,         \* what descriptor 999 of each invocation is open on
  op, pc,     \* what each invocation is for, and where it is
  failcount,  \* in unlock
  up,         \* app.sh's proxies have been started
  dead,       \* one of them has died since
  asleep, looked, checking,   \* monitors between their rounds, past their test, at work
  LOCK_FILE,  \* the monitors' lock file is there
  asked,      \* history: what the last invocation that was not refused is for
  removed,    \* history: the lock file was removed under one that had opened it
  cut         \* history: a monitor was killed at work

monitors == <<asleep, looked, checking, LOCK_FILE>>
vars == <<name, lock, fd, op, pc, failcount, up, dead, monitors, asked, removed, cut>>

Working == {"stopping", "starting"}
Quiet == \A p \in Invocations : pc[p] = "idle"

Init ==
  /\ name = None /\ lock = [i \in Inodes |-> None] /\ fd = [p \in Invocations |-> None]
  /\ op = [p \in Invocations |-> "stop"] /\ pc = [p \in Invocations |-> "idle"]
  /\ failcount = [p \in Invocations |-> 1]
  /\ up = FALSE /\ dead = FALSE
  /\ asleep = 0 /\ looked = 0 /\ checking = 0 /\ LOCK_FILE = FALSE
  /\ asked = "stop" /\ removed = FALSE /\ cut = FALSE

\* start, stop or restart is called; stop looks for the file first.
Call(p) ==
  /\ pc[p] = "idle"
  /\ \E o \in Ops :
       /\ op' = [op EXCEPT ![p] = o]
       /\ pc' = [pc EXCEPT ![p] = IF o = "stop" THEN "unlock" ELSE "set_lock"]
  /\ removed' = (removed /\ ~Quiet)
  /\ UNCHANGED <<name, lock, fd, failcount, up, dead, monitors, asked, cut>>

\* "rm -rf $LOCK_FILE"
RemoveFile(p) ==
  /\ name' = None
  /\ removed' = (removed \/ \E q \in Invocations \ {p} : fd[q] # None /\ fd[q] = name)

\* The process ends: its descriptor is closed.
Exits(p) ==
  /\ fd' = [fd EXCEPT ![p] = None]
  /\ op' = [op EXCEPT ![p] = "stop"] /\ pc' = [pc EXCEPT ![p] = "idle"]

\* unlock: while the file is there, count and sleep a second.
unlock(p) ==
  /\ pc[p] = "unlock"
  /\ IF failcount[p] <= Looks /\ name # None
       THEN /\ failcount' = [failcount EXCEPT ![p] = @ + 1]
            /\ pc' = [pc EXCEPT ![p] = "slept"]
       ELSE /\ pc' = [pc EXCEPT ![p] = "set_lock"]
            /\ failcount' = [failcount EXCEPT ![p] = 1]
  /\ UNCHANGED <<name, lock, fd, op, up, dead, monitors, asked, removed, cut>>

\* ... and from the last look on remove it; descriptor 999 is not open here.
unlockSlept(p) ==
  /\ pc[p] = "slept"
  /\ IF failcount[p] >= Looks THEN RemoveFile(p) ELSE UNCHANGED <<name, removed>>
  /\ pc' = [pc EXCEPT ![p] = "unlock"]
  /\ UNCHANGED <<lock, fd, op, failcount, up, dead, monitors, asked, cut>>

\* set_lock: "exec 999>": opens the file, or makes it.
set_lock(p) ==
  /\ pc[p] = "set_lock"
  /\ LET new == CHOOSE i \in Inodes : i # name /\ \A q \in Invocations : fd[q] # i
         i == IF name # None THEN name ELSE new
     IN  name' = i /\ fd' = [fd EXCEPT ![p] = i]
  /\ pc' = [pc EXCEPT ![p] = "flock"]
  /\ UNCHANGED <<lock, op, failcount, up, dead, monitors, asked, removed, cut>>

\* Mutant of Locks: the lock is shared ("flock -sn").
LocksShared(p) == TRUE

\* "flock -xn 999" succeeds.
Locks(p) == lock[fd[p]] = None

\* set_lock: the lock is taken, or the invocation exits.
flock(p) ==
  /\ pc[p] = "flock"
  /\ IF Locks(p)
       THEN /\ lock' = [lock EXCEPT ![fd[p]] = p]
            /\ pc' = [pc EXCEPT ![p] = IF op[p] = "start" THEN "starting" ELSE "stopping"]
            /\ asked' = op[p]
            /\ UNCHANGED <<fd, op>>
       ELSE /\ Exits(p)
            /\ UNCHANGED <<lock, asked>>
  /\ UNCHANGED <<name, failcount, up, dead, monitors, removed, cut>>

\* app.sh stop: "kill -9" of all that runs from passwall/, the monitors with it.
app_stop(p) ==
  /\ pc[p] = "stopping"
  /\ up' = FALSE /\ dead' = FALSE
  /\ asleep' = 0 /\ looked' = 0 /\ checking' = 0
  /\ cut' = (cut \/ checking > 0)
  /\ pc' = [pc EXCEPT ![p] = IF op[p] = "restart" THEN "starting" ELSE "unset_lock"]
  /\ UNCHANGED <<name, lock, fd, op, failcount, LOCK_FILE, asked, removed>>

\* app.sh start: the proxies, and a monitor.
app_start(p) ==
  /\ pc[p] = "starting"
  /\ up' = TRUE
  /\ asleep' = IF asleep + looked + checking < MaxMonitors THEN asleep + 1 ELSE asleep
  /\ pc' = [pc EXCEPT ![p] = "unset_lock"]
  /\ UNCHANGED <<name, lock, fd, op, failcount, dead, looked, checking, LOCK_FILE, asked, removed, cut>>

\* Mutant of Unlocks: the lock is left to the end of the process.
UnlocksNot(p) == UNCHANGED lock

\* "flock -u 999": what app.sh has started holds the descriptor open.
Unlocks(p) == lock' = [lock EXCEPT ![fd[p]] = None]

\* unset_lock
unset_lock(p) ==
  /\ pc[p] = "unset_lock"
  /\ Unlocks(p)
  /\ pc' = [pc EXCEPT ![p] = "rm"]
  /\ UNCHANGED <<name, fd, op, failcount, up, dead, monitors, asked, removed, cut>>

\* ... and the file's name goes; the invocation ends.
unset_lockRm(p) ==
  /\ pc[p] = "rm"
  /\ RemoveFile(p)
  /\ Exits(p)
  /\ UNCHANGED <<lock, failcount, up, dead, monitors, asked, cut>>

\* monitor.sh: "[ -f $LOCK_FILE ]" is false.
MonitorLooks ==
  /\ asleep > 0 /\ ~LOCK_FILE
  /\ asleep' = asleep - 1 /\ looked' = looked + 1
  /\ UNCHANGED <<name, lock, fd, op, pc, failcount, up, dead, checking, LOCK_FILE, asked, removed, cut>>

\* "touch $LOCK_FILE"
MonitorTouches ==
  /\ looked > 0
  /\ looked' = looked - 1 /\ checking' = checking + 1 /\ LOCK_FILE' = TRUE
  /\ UNCHANGED <<name, lock, fd, op, pc, failcount, up, dead, asleep, asked, removed, cut>>

\* Mutant of MonitorUnlocks: the file stays.
MonitorUnlocksNot == UNCHANGED LOCK_FILE

\* "rm -f $LOCK_FILE"
MonitorUnlocks == LOCK_FILE' = FALSE

\* Its loop over the commands, and the end of its round.  That the command of what has died is
\* still in its file is AutoSwitch's OthersWatched.
MonitorChecks ==
  /\ checking > 0
  /\ dead' = FALSE
  /\ checking' = checking - 1 /\ asleep' = asleep + 1
  /\ MonitorUnlocks
  /\ UNCHANGED <<name, lock, fd, op, pc, failcount, up, looked, asked, removed, cut>>

\* A proxy dies.
Dies ==
  /\ up /\ ~dead /\ dead' = TRUE
  /\ UNCHANGED <<name, lock, fd, op, pc, failcount, up, monitors, asked, removed, cut>>

Runs(p) ==
  \/ unlock(p) \/ unlockSlept(p) \/ set_lock(p) \/ flock(p)
  \/ app_stop(p) \/ app_start(p) \/ unset_lock(p) \/ unset_lockRm(p)

Next ==
  \/ \E p \in Invocations : Call(p) \/ Runs(p)
  \/ MonitorLooks \/ MonitorTouches \/ MonitorChecks \/ Dies

Fairness ==
  /\ \A p \in Invocations : WF_vars(Runs(p))
  /\ WF_vars(MonitorLooks) /\ WF_vars(MonitorTouches) /\ WF_vars(MonitorChecks)

Spec == Init /\ [][Next]_vars /\ Fairness
-----------------------------------------------------------------------------
Pcs == {"idle", "unlock", "slept", "set_lock", "flock", "stopping", "starting", "unset_lock", "rm"}

\* The variables have their types, and an flock belongs to one that still has the file open.
TypeOK ==
  /\ name \in Inodes \cup {None} /\ lock \in [Inodes -> Invocations \cup {None}]
  /\ fd \in [Invocations -> Inodes \cup {None}]
  /\ \A i \in Inodes : lock[i] # None => fd[lock[i]] = i /\ pc[lock[i]] \in Working \cup {"unset_lock"}
  /\ op \in [Invocations -> Ops] /\ pc \in [Invocations -> Pcs]
  /\ failcount \in [Invocations -> 1..(Looks + 1)]
  /\ up \in BOOLEAN /\ dead \in BOOLEAN /\ LOCK_FILE \in BOOLEAN
  /\ asleep \in 0..MaxMonitors /\ looked \in 0..MaxMonitors /\ checking \in 0..MaxMonitors
  /\ asleep + looked + checking <= MaxMonitors
  /\ asked \in Ops /\ removed \in BOOLEAN /\ cut \in BOOLEAN

\* As long as nobody has removed the lock file under another who had opened it, one invocation
\* at a time is at work, and when all is quiet the service is as the last one not refused was
\* to leave it.  Whatever happened, the lock file is gone when all is quiet: no stop waits for
\* one that nobody holds.
OneAtATime ==
  /\ ~removed => \A p, q \in Invocations : pc[p] \in Working /\ pc[q] \in Working => p = q
  /\ ~removed /\ Quiet => up = (asked # "stop")
  /\ Quiet => name = None

\* A proxy that dies is started again, or the service is stopped, unless a stop has killed a
\* monitor at work and so left the monitors' lock file for good.
Recovers == []~cut => [](dead => <>~dead)
=============================================================================
