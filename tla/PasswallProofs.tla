--------------------------- MODULE PasswallProofs ---------------------------
(***************************************************************************)
(* Proofs for the two models of luci-app-passwall.                         *)
(*                                                                         *)
(* Passwall: the lock keeps any number of invocations apart, with any      *)
(* number of looks in unlock and of monitors, as long as nobody removes    *)
(* the lock file under another; and the file is gone whenever nobody is at *)
(* work.                                                                   *)
(*                                                                         *)
(* AutoSwitch: the variables have their types, the configuration and the   *)
(* cache name the node the service is to come back with, and for a service *)
(* of one process the numbers ln_run gives the files never fall on the     *)
(* command of another process.                                             *)
(***************************************************************************)
EXTENDS Passwall, AutoSwitch, TLAPS, FiniteSetTheorems

\* Descriptor 999 is open from set_lock to the end of the invocation.
Opened == \A p \in Invocations :
  fd[p] # None <=> pc[p] \in Working \cup {"flock", "unset_lock", "rm"}

\* One at work holds the flock of the file it opened.
Holders == \A p \in Invocations :
  pc[p] \in Working \cup {"unset_lock"} => lock[fd[p]] = p

\* All have opened the file that has the name.
SameFile == ~removed => \A p \in Invocations : fd[p] # None => fd[p] = name

\* The file with the name is open in someone.
NamedIsOpen == name # None => \E p \in Invocations : fd[p] = name

\* What one at work is for, and that it was the last to get the lock.
Jobs == \A p \in Invocations :
  /\ pc[p] = "stopping" => op[p] \in {"stop", "restart"}
  /\ pc[p] = "starting" => op[p] \in {"start", "restart"}
  /\ ~removed /\ pc[p] \in Working => asked = op[p]

\* When the work is done, or all is quiet, the service is as it was to be left.
LeftAsAsked ==
  /\ ~removed
  /\ \A p \in Invocations : pc[p] \notin Working
  /\ Quiet \/ \E p \in Invocations : pc[p] \in {"unset_lock", "rm"}
  => up = (asked # "stop")

IndInv == TypeOK /\ Opened /\ Holders /\ SameFile /\ NamedIsOpen /\ Jobs /\ LeftAsAsked

\* There is a file nobody has open.
LEMMA FreeInode ==
  ASSUME fd \in [Invocations -> Inodes \cup {None}]
  PROVE  \E i \in Inodes : \A q \in Invocations : fd[q] # i
<1> DEFINE used == {fd[q] : q \in Invocations}
<1> DEFINE n == Cardinality(Invocations)
<1>1. IsFiniteSet(used) /\ Cardinality(used) <= n
  <2>1. fd \in Surjection(Invocations, used)
    BY DEF Surjection
  <2> QED BY <2>1, InvocationsAssumption, FS_Surjection
<1>2. n \in Nat
  BY InvocationsAssumption, FS_CardinalityType
<1>3. IsFiniteSet(Inodes) /\ Cardinality(Inodes) = n + 1
  BY <1>2, FS_Interval DEF Inodes
<1>4. ~(Inodes \subseteq used)
  <2>1. Inodes \subseteq used => Cardinality(Inodes) <= Cardinality(used)
    BY <1>1, FS_Subset
  <2>2. Cardinality(used) \in Nat
    BY <1>1, FS_CardinalityType
  <2> QED BY <1>1, <1>2, <1>3, <2>1, <2>2
<1> QED BY <1>4

\* What set_lock opens: the file with the name, or a new one.
LEMMA Opens ==
  ASSUME TypeOK, NEW p \in Invocations, set_lock(p)
  PROVE  \E i \in Inodes :
           name' = i /\ fd' = [fd EXCEPT ![p] = i] /\ (name # None => name = i)
<1> DEFINE free(i) == i # name /\ \A q \in Invocations : fd[q] # i
<1> DEFINE new == CHOOSE i \in Inodes : free(i)
<1> DEFINE i == IF name # None THEN name ELSE new
<1>1. None \notin Inodes
  BY DEF None, Inodes
<1>2. name = None => \E j \in Inodes : free(j)
  BY <1>1, FreeInode DEF TypeOK
<1>3. name = None => new \in Inodes
  BY <1>2
<1>4. i \in Inodes
  BY <1>3 DEF TypeOK
<1>5. name' = i /\ fd' = [fd EXCEPT ![p] = i]
  BY DEF set_lock
<1> QED BY <1>4, <1>5

\* At first nothing runs and no file is there.
LEMMA InitInductive == Init => IndInv
<1> SUFFICES ASSUME Init PROVE IndInv
  OBVIOUS
<1>1. TypeOK
  <2>1. 1 \in 1..(Looks + 1) /\ 0 \in 0..MaxMonitors /\ 0 + 0 + 0 <= MaxMonitors
    BY MonitorsAssumption, LooksAssumption
  <2>2. failcount \in [Invocations -> 1..(Looks + 1)]
    BY <2>1 DEF Init
  <2>3. \A i \in Inodes : lock[i] = None
    BY DEF Init
  <2> QED BY <2>1, <2>2, <2>3 DEF Init, TypeOK, Ops, Pcs
<1> QED BY <1>1, InvocationsAssumption
      DEF Init, IndInv, Opened, Holders, SameFile, NamedIsOpen, Jobs, LeftAsAsked, Working, None

\* A call finds its file closed; after a quiet moment the history starts anew.
LEMMA CallKeeps ==
  ASSUME IndInv, NEW p \in Invocations, Call(p)
  PROVE  IndInv'
<1>1. PICK o \in Ops :
        /\ pc[p] = "idle" /\ op' = [op EXCEPT ![p] = o]
        /\ pc' = [pc EXCEPT ![p] = IF o = "stop" THEN "unlock" ELSE "set_lock"]
        /\ removed' = (removed /\ ~Quiet)
        /\ UNCHANGED <<name, lock, fd, failcount, up, dead, monitors, asked, cut>>
  BY DEF Call
<1> USE DEF IndInv, TypeOK, Working
<1>2. TypeOK'
  BY <1>1 DEF Ops, Pcs, Quiet, monitors
<1>3. Opened' /\ Holders' /\ NamedIsOpen'
  BY <1>1 DEF Opened, Holders, NamedIsOpen
<1>4. SameFile'
  <2>1. Quiet => \A q \in Invocations : fd[q] = None
    BY DEF Quiet, Opened
  <2> QED BY <1>1, <2>1 DEF SameFile
<1>5. Jobs'
  BY <1>1 DEF Jobs, Quiet
<1>6. LeftAsAsked'
  BY <1>1 DEF LeftAsAsked, Quiet
<1> QED BY <1>2, <1>3, <1>4, <1>5, <1>6

\* A look of unlock changes nothing but where the invocation is.
LEMMA UnlockKeeps ==
  ASSUME IndInv, NEW p \in Invocations, unlock(p)
  PROVE  IndInv'
<1> USE DEF IndInv, TypeOK, Working, unlock
<1>1. failcount' \in [Invocations -> 1..(Looks + 1)]
  <2>1. failcount[p] <= Looks => failcount[p] + 1 \in 1..(Looks + 1)
    BY LooksAssumption
  <2>2. 1 \in 1..(Looks + 1)
    BY LooksAssumption
  <2>3. \/ failcount' = [failcount EXCEPT ![p] = failcount[p] + 1] /\ failcount[p] <= Looks
        \/ failcount' = [failcount EXCEPT ![p] = 1]
    OBVIOUS
  <2> QED BY <2>1, <2>2, <2>3
<1>2. /\ pc[p] = "unlock"
      /\ \E to \in {"slept", "set_lock"} : pc' = [pc EXCEPT ![p] = to]
      /\ UNCHANGED <<name, lock, fd, op, up, dead, monitors, asked, removed, cut>>
  OBVIOUS
<1> HIDE DEF unlock
<1>3. TypeOK'
  BY <1>1, <1>2 DEF Pcs, monitors
<1>4. Opened' /\ Holders' /\ SameFile' /\ NamedIsOpen' /\ Jobs'
  BY <1>2 DEF Opened, Holders, SameFile, NamedIsOpen, Jobs
<1>5. LeftAsAsked'
  BY <1>2 DEF LeftAsAsked, Quiet
<1> QED BY <1>3, <1>4, <1>5

\* Taken away, the file has no name, and from then on the history says so.
LEMMA RemoveKeeps ==
  ASSUME IndInv, NEW p \in Invocations, RemoveFile(p), UNCHANGED fd,
         fd[p] = None
  PROVE  /\ name' = None /\ name' \in Inodes \cup {None}
         /\ removed' \in BOOLEAN /\ (~removed' => ~removed)
         /\ SameFile' /\ NamedIsOpen'
<1> USE DEF IndInv, TypeOK, RemoveFile
<1>1. ~removed' => \A q \in Invocations : fd[q] = None
  BY DEF SameFile
<1> QED BY <1>1 DEF SameFile, NamedIsOpen

\* unlock's removal.
LEMMA UnlockSleptKeeps ==
  ASSUME IndInv, NEW p \in Invocations, unlockSlept(p)
  PROVE  IndInv'
<1>1. /\ pc[p] = "slept" /\ pc' = [pc EXCEPT ![p] = "unlock"]
      /\ UNCHANGED <<lock, fd, op, failcount, up, dead, monitors, asked, cut>>
      /\ RemoveFile(p) \/ UNCHANGED <<name, removed>>
  BY DEF unlockSlept
<1>2. fd[p] = None
  BY <1>1 DEF IndInv, Opened, Working
<1>3. /\ name' \in Inodes \cup {None} /\ removed' \in BOOLEAN /\ (~removed' => ~removed)
      /\ SameFile' /\ NamedIsOpen'
  <2>1. CASE RemoveFile(p)
    BY <1>1, <1>2, <2>1, RemoveKeeps
  <2>2. CASE UNCHANGED <<name, removed>>
    BY <1>1, <2>2 DEF IndInv, TypeOK, SameFile, NamedIsOpen
  <2> QED BY <1>1, <2>1, <2>2
<1> USE DEF IndInv, TypeOK, Working
<1>4. TypeOK'
  BY <1>1, <1>3 DEF Pcs, monitors
<1>5. Opened' /\ Holders' /\ Jobs'
  BY <1>1, <1>3 DEF Opened, Holders, Jobs
<1>6. LeftAsAsked'
  BY <1>1, <1>3 DEF LeftAsAsked, Quiet
<1> QED BY <1>3, <1>4, <1>5, <1>6

\* Opening the file gives a name to it, or takes the one it has.
LEMMA SetLockKeeps ==
  ASSUME IndInv, NEW p \in Invocations, set_lock(p)
  PROVE  IndInv'
<1>1. PICK i \in Inodes :
        name' = i /\ fd' = [fd EXCEPT ![p] = i] /\ (name # None => name = i)
  BY Opens DEF IndInv
<1>2. /\ pc[p] = "set_lock" /\ pc' = [pc EXCEPT ![p] = "flock"]
      /\ UNCHANGED <<lock, op, failcount, up, dead, monitors, asked, removed, cut>>
  BY DEF set_lock
<1>3. i # None /\ fd[p] = None
  BY <1>2 DEF None, Inodes, IndInv, Opened, Working
<1> USE DEF IndInv, TypeOK, Working
<1>4. TypeOK'
  BY <1>1, <1>2 DEF Pcs, monitors
<1>5. Opened' /\ Holders' /\ NamedIsOpen' /\ Jobs'
  BY <1>1, <1>2, <1>3 DEF Opened, Holders, NamedIsOpen, Jobs
<1>6. SameFile'
  <2>1. ~removed => \A q \in Invocations : fd[q] # None => fd[q] = i
    BY <1>1 DEF SameFile
  <2> QED BY <1>1, <1>2, <2>1 DEF SameFile
<1>7. LeftAsAsked'
  BY <1>2 DEF LeftAsAsked, Quiet
<1> QED BY <1>4, <1>5, <1>6, <1>7

\* One that gets the lock is alone at work; one that does not leaves another at work.
LEMMA FlockKeeps ==
  ASSUME IndInv, NEW p \in Invocations, flock(p)
  PROVE  IndInv'
<1>1. pc[p] = "flock" /\ UNCHANGED <<name, failcount, up, dead, monitors, removed, cut>>
  BY DEF flock
<1>2. fd[p] \in Inodes /\ \A i \in Inodes : lock[i] # p
  BY <1>1, InvocationsAssumption DEF IndInv, TypeOK, Opened, Working
<1> USE DEF IndInv, TypeOK, Working
<1>3. CASE Locks(p)
  <2>1. /\ lock' = [lock EXCEPT ![fd[p]] = p] /\ asked' = op[p]
        /\ \E to \in {"starting", "stopping"} : pc' = [pc EXCEPT ![p] = to]
        /\ pc'[p] = IF op[p] = "start" THEN "starting" ELSE "stopping"
        /\ UNCHANGED <<fd, op>>
    BY <1>3 DEF flock
  <2>2. lock[fd[p]] = None
    BY <1>3 DEF Locks
  <2>3. ~removed => \A q \in Invocations : pc[q] \notin Working
    BY <1>1, <1>2, <2>2, InvocationsAssumption DEF Holders, SameFile, Opened
  <2>4. TypeOK'
    BY <1>1, <1>2, <2>1 DEF Pcs, monitors
  <2>5. Opened' /\ SameFile' /\ NamedIsOpen'
    BY <1>1, <2>1 DEF Opened, SameFile, NamedIsOpen
  <2>6. Holders'
    BY <1>1, <1>2, <2>1, <2>2, InvocationsAssumption DEF Holders, Opened
  <2>7. Jobs'
    BY <1>1, <2>1, <2>3 DEF Jobs, Ops
  <2>8. LeftAsAsked'
    BY <2>1 DEF LeftAsAsked
  <2> QED BY <2>4, <2>5, <2>6, <2>7, <2>8
<1>4. CASE ~Locks(p)
  <2>1. Exits(p) /\ UNCHANGED <<lock, asked>>
    BY <1>4 DEF flock
  <2>2. PICK r \in Invocations : r = lock[fd[p]]
    BY <1>2, <1>4 DEF Locks
  <2>3. /\ r # p /\ fd[r] = fd[p] /\ pc[r] \in Working \cup {"unset_lock"}
    BY <1>2, <2>2, InvocationsAssumption
  <2>4. TypeOK'
    BY <1>1, <1>2, <2>1 DEF Exits, Pcs, Ops, monitors
  <2>5. Opened' /\ Holders' /\ SameFile'
    BY <1>1, <2>1 DEF Exits, Opened, Holders, SameFile
  <2>6. NamedIsOpen'
    BY <1>1, <2>1, <2>3 DEF Exits, NamedIsOpen
  <2>7. Jobs'
    BY <1>1, <2>1 DEF Exits, Jobs
  <2>8. LeftAsAsked'
    BY <1>1, <2>1, <2>3 DEF Exits, LeftAsAsked, Quiet
  <2> QED BY <2>4, <2>5, <2>6, <2>7, <2>8
<1> QED BY <1>3, <1>4

\* While no file is taken from under another, one is at work.
LEMMA Alone ==
  ASSUME IndInv, ~removed, NEW p \in Invocations, NEW q \in Invocations,
         pc[p] \in Working, pc[q] \in Working
  PROVE  p = q
<1>1. fd[p] = name /\ fd[q] = name
  BY DEF IndInv, Opened, SameFile
<1>2. lock[fd[p]] = p /\ lock[fd[q]] = q
  BY DEF IndInv, Holders
<1> QED BY <1>1, <1>2

\* app.sh stop kills; a restart goes on to start.
LEMMA AppStopKeeps ==
  ASSUME IndInv, NEW p \in Invocations, app_stop(p)
  PROVE  IndInv'
<1> USE DEF IndInv, TypeOK, Working, app_stop
<1>1. TypeOK'
  <2>1. /\ asleep' \in 0..MaxMonitors /\ looked' \in 0..MaxMonitors /\ checking' \in 0..MaxMonitors
        /\ asleep' + looked' + checking' <= MaxMonitors
    BY MonitorsAssumption
  <2>2. cut' \in BOOLEAN
    OBVIOUS
  <2>3. /\ up' \in BOOLEAN /\ dead' \in BOOLEAN /\ pc[p] = "stopping"
        /\ \E to \in {"starting", "unset_lock"} : pc' = [pc EXCEPT ![p] = to]
        /\ UNCHANGED <<name, lock, fd, op, failcount, LOCK_FILE, asked, removed>>
    OBVIOUS
  <2> HIDE DEF app_stop
  <2> QED BY <2>1, <2>2, <2>3 DEF Pcs
<1>2. Opened' /\ Holders' /\ SameFile' /\ NamedIsOpen'
  BY DEF Opened, Holders, SameFile, NamedIsOpen
<1>3. Jobs'
  BY DEF Jobs
<1>4. LeftAsAsked'
  BY DEF Jobs, LeftAsAsked
<1> QED BY <1>1, <1>2, <1>3, <1>4

\* app.sh start brings up the service, and one more monitor as far as the bound goes.
LEMMA AppStartKeeps ==
  ASSUME IndInv, NEW p \in Invocations, app_start(p)
  PROVE  IndInv'
<1> USE DEF IndInv, TypeOK, Working, app_start
<1>1. asleep' \in 0..MaxMonitors /\ asleep' + looked' + checking' <= MaxMonitors
  BY MonitorsAssumption
<1>2. TypeOK'
  BY <1>1 DEF Pcs
<1>3. Opened' /\ Holders' /\ SameFile' /\ NamedIsOpen'
  BY DEF Opened, Holders, SameFile, NamedIsOpen
<1>4. Jobs'
  BY DEF Jobs
<1>5. LeftAsAsked'
  BY DEF Jobs, LeftAsAsked
<1> QED BY <1>2, <1>3, <1>4, <1>5

\* The flock is given up when the work is done.
LEMMA UnsetLockKeeps ==
  ASSUME IndInv, NEW p \in Invocations, unset_lock(p)
  PROVE  IndInv'
<1> USE DEF IndInv, TypeOK, Working, unset_lock, Unlocks
<1>1. fd[p] \in Inodes
  BY DEF Opened
<1>2. \A i \in Inodes : lock[i] = p => i = fd[p]
  BY InvocationsAssumption
<1>3. TypeOK'
  BY <1>1, <1>2 DEF Pcs, monitors
<1>4. Opened' /\ SameFile' /\ NamedIsOpen' /\ Jobs'
  BY DEF Opened, SameFile, NamedIsOpen, Jobs
<1>5. Holders'
  BY <1>1 DEF Holders
<1>6. LeftAsAsked'
  BY DEF LeftAsAsked, Quiet
<1> QED BY <1>3, <1>4, <1>5, <1>6

\* The file goes, and the invocation with it.
LEMMA RmKeeps ==
  ASSUME IndInv, NEW p \in Invocations, unset_lockRm(p)
  PROVE  IndInv'
<1> USE DEF IndInv, TypeOK, Working, unset_lockRm, RemoveFile, Exits
<1>1. \A i \in Inodes : lock[i] # p
  BY InvocationsAssumption
<1>2. TypeOK'
  BY <1>1 DEF Pcs, Ops, monitors
<1>3. Opened' /\ Holders' /\ NamedIsOpen'
  BY DEF Opened, Holders, NamedIsOpen
<1>4. SameFile'
  <2>1. ~removed' => \A q \in Invocations \ {p} : fd[q] = None
    BY DEF SameFile
  <2> QED BY <2>1 DEF SameFile
<1>5. Jobs'
  BY DEF Jobs
<1>6. LeftAsAsked'
  BY DEF LeftAsAsked, Quiet
<1> QED BY <1>2, <1>3, <1>4, <1>5, <1>6

\* The monitors' steps and a proxy's end touch neither lock nor invocations.
LEMMA OthersKeep ==
  ASSUME IndInv, MonitorLooks \/ MonitorTouches \/ MonitorChecks \/ Dies
  PROVE  IndInv'
<1>1. UNCHANGED <<name, lock, fd, op, pc, failcount, up, asked, removed, cut>>
  BY DEF MonitorLooks, MonitorTouches, MonitorChecks, Dies
<1> USE DEF IndInv, TypeOK, Working
<1>2. dead' \in BOOLEAN /\ LOCK_FILE' \in BOOLEAN
  BY DEF MonitorLooks, MonitorTouches, MonitorChecks, MonitorUnlocks, Dies, monitors
<1>3. /\ asleep' + looked' + checking' <= MaxMonitors
      /\ asleep' \in 0..MaxMonitors /\ looked' \in 0..MaxMonitors /\ checking' \in 0..MaxMonitors
  BY MonitorsAssumption DEF MonitorLooks, MonitorTouches, MonitorChecks, Dies, monitors
<1>4. TypeOK'
  BY <1>1, <1>2, <1>3
<1>5. Opened' /\ Holders' /\ SameFile' /\ NamedIsOpen' /\ Jobs'
  BY <1>1 DEF Opened, Holders, SameFile, NamedIsOpen, Jobs
<1>6. LeftAsAsked'
  BY <1>1 DEF LeftAsAsked, Quiet
<1> QED BY <1>4, <1>5, <1>6

\* Every step keeps the invariant.
LEMMA NextKeeps ==
  ASSUME IndInv, [Next]_vars
  PROVE  IndInv'
<1>1. ASSUME NEW p \in Invocations, Call(p) \/ Runs(p)
      PROVE  IndInv'
  BY <1>1, CallKeeps, UnlockKeeps, UnlockSleptKeeps, SetLockKeeps, FlockKeeps,
     AppStopKeeps, AppStartKeeps, UnsetLockKeeps, RmKeeps DEF Runs
<1>2. CASE UNCHANGED vars
  BY <1>2 DEF vars, monitors, IndInv, TypeOK, Opened, Holders, SameFile, NamedIsOpen,
     Jobs, LeftAsAsked, Quiet, Working
<1> QED BY <1>1, <1>2, OthersKeep DEF Next

\* The invariant of the lock: one file, one holder, at work on what was asked last.
THEOREM Inductive == Spec => []IndInv
<1>1. Init => IndInv
  BY InitInductive
<1>2. IndInv /\ [Next]_vars => IndInv'
  BY NextKeeps
<1> QED BY <1>1, <1>2, PTL DEF Spec

\* Every variable keeps its type, and a lock is held by one that has the file open.
THEOREM TypeCorrect == Spec => []TypeOK
<1>1. IndInv => TypeOK
  BY DEF IndInv
<1> QED BY <1>1, Inductive, PTL

\* However many call the script, however often: while nobody takes the lock file from under
\* another, one is at work at a time and the last that got the lock decides; nobody leaves
\* the file behind.
THEOREM LockWorks == Spec => []OneAtATime
<1>1. ASSUME IndInv PROVE OneAtATime
  <2>1. ~removed => \A p, q \in Invocations : pc[p] \in Working /\ pc[q] \in Working => p = q
    BY <1>1, Alone
  <2>2. ~removed /\ Quiet => up = (asked # "stop")
    BY <1>1 DEF IndInv, LeftAsAsked, Quiet, Working
  <2>3. Quiet => name = None
    <3>1. Quiet => \A q \in Invocations : fd[q] = None
      BY <1>1 DEF IndInv, Opened, Quiet, Working
    <3> QED BY <1>1, <3>1 DEF IndInv, NamedIsOpen
  <2> QED BY <2>1, <2>2, <2>3 DEF OneAtATime
<1> QED BY <1>1, Inductive, PTL
-----------------------------------------------------------------------------
(* AutoSwitch.                                                             *)

\* The files of script_func are finitely many, numbered from 1, and hold commands.
Files(f) ==
  /\ IsFiniteSet(DOMAIN f) /\ DOMAIN f \subseteq Nat \ {0}
  /\ \A i \in DOMAIN f : f[i].what \in {"socks", "http", "test", "other"}

\* The node of a switch under way is the one the service is to come back with.
Names ==
  /\ backups # <<>> /\ b_nodes # <<>>
  /\ at \in {"kill", "remove", "run"} => node = IF restore_switch THEN main_node ELSE now_node
  /\ at = "main" => restore_switch

\* Where a service of one process has its file when e others were recorded before it; where the
\* i-th of the others has its; and the number that is free once a switch has removed the first.
Own(e) == e + 1
Place(e, i) == IF i <= e THEN i ELSE i + 1
Gap(e, lo) == IF lo = 1 THEN {} ELSE {Own(e)}

\* The files of a service of one process are numbered to n: its own among those of the others
\* until a switch removes it (lo is 1, and then 2), then those of tests.  Once it is gone the
\* number given out is n: the last file is written over, and is not another's.
Numbered(f, e, lo, n) ==
  /\ lo \in {1, 2} /\ n \in Nat /\ n \in (Others + lo)..MaxFiles
  /\ DOMAIN f = (1..n) \ Gap(e, lo)
  /\ \A i \in 1..Others : f[Place(e, i)] = Other(i)
  /\ lo = 1 => f[Own(e)].what = "socks"
  /\ \A i \in DOMAIN f : i > Others + 1 =>
       f[i].what = "test" \/ (lo = 2 /\ i = n /\ f[i].what = "socks")

\* How far test_auto_switch is tells what the last file is: a test's, when the service's is
\* to be removed; and the service has none when its next one is to be written.
InStep(step, f, lo, n) ==
  /\ step \in {"kill", "remove"} => n > Others + 1 /\ f[n].what = "test"
  /\ step = "run" => lo = 2

Layout == ~http_port =>
  \E lo \in {1, 2}, n \in Nat : Numbered(script_func, earlier, lo, n) /\ InStep(at, script_func, lo, n)

\* The inductive invariant.
SwitchInv == SwitchTypeOK /\ Files(script_func) /\ Names /\ Layout

\* The fields of the commands.
LEMMA CommandFields ==
  /\ \A n : Socks(n).what = "socks" /\ Socks(n).of = n
  /\ Http.what = "http" /\ Test.what = "test"
  /\ \A i : Other(i).what = "other"
BY DEF Socks, Http, Test, Other, Command

\* A command more in the directory is again a directory of commands.
LEMMA RecordedFiles ==
  ASSUME NEW f, Files(f), NEW c, c.what \in {"socks", "http", "test", "other"}
  PROVE  Files(Recorded(f, c))
<1> DEFINE k == NextFile(f)
<1>1. k \in Nat \ {0}
  BY FS_CardinalityType DEF Files, NextFile
<1>2. IsFiniteSet(DOMAIN f \cup {k})
  BY FS_AddElement DEF Files
<1> HIDE DEF k
<1>3. Recorded(f, c) = [i \in DOMAIN f \cup {k} |-> IF i = k THEN c ELSE f[i]]
  BY DEF Recorded, k
<1> QED BY <1>1, <1>2, <1>3 DEF Files

\* Two sequences joined, element by element.
LEMMA Joined ==
  ASSUME NEW S, NEW s \in Seq(S), NEW r \in Seq(S)
  PROVE  /\ DOMAIN (s \o r) = 1..(Len(s) + Len(r))
         /\ \A i \in 1..Len(s) : (s \o r)[i] = s[i]
         /\ \A i \in 1..Len(r) : (s \o r)[Len(s) + i] = r[i]
         /\ \A i \in 1..(Len(s) + Len(r)) : (s \o r)[i] \in S
OBVIOUS

\* The service's file and the others' are different, and all numbers to Others + 1.
LEMMA PlacesAre ==
  ASSUME NEW e \in 0..Others
  PROVE  /\ Own(e) \in 1..(Others + 1)
         /\ \A i \in 1..Others : Place(e, i) \in 1..(Others + 1) /\ Place(e, i) # Own(e)
         /\ \A k \in 1..(Others + 1) : k # Own(e) => \E i \in 1..Others : k = Place(e, i)
<1> USE OthersAssumption
<1>1. Own(e) \in 1..(Others + 1) /\ \A i \in 1..Others : Place(e, i) \in 1..(Others + 1) /\ Place(e, i) # Own(e)
  BY DEF Own, Place
<1>2. ASSUME NEW k \in 1..(Others + 1), k # Own(e) PROVE \E i \in 1..Others : k = Place(e, i)
  <2>1. CASE k <= e
    <3>1. k \in 1..Others /\ k = Place(e, k)
      BY <2>1 DEF Place
    <3> QED BY <3>1
  <2>2. CASE ~(k <= e)
    <3>1. k - 1 \in 1..Others /\ k = Place(e, k - 1)
      BY <1>2, <2>2 DEF Place, Own
    <3> QED BY <3>1
  <2> QED BY <2>1, <2>2
<1> QED BY <1>1, <1>2

\* What start records: files of commands, and for a service of one process numbered from 1.
LEMMA StartedFiles ==
  ASSUME NEW n \in Nodes, http_port \in BOOLEAN, earlier \in 0..Others
  PROVE  Files(Started(n)) /\ (~http_port => Numbered(Started(n), earlier, 1, Others + 1))
<1> USE OthersAssumption
<1> DEFINE All == {Socks(n), Http} \cup {Other(i) : i \in 1..Others}
           before == [i \in 1..earlier |-> Other(i)]
           after == [i \in 1..(Others - earlier) |-> Other(earlier + i)]
           own == Commands(n)
<1>1. before \in Seq(All) /\ Len(before) = earlier /\ \A i \in 1..earlier : before[i] = Other(i)
  OBVIOUS
<1>2. after \in Seq(All) /\ Len(after) = Others - earlier /\ \A i \in 1..(Others - earlier) : after[i] = Other(earlier + i)
  <2>1. \A i \in 1..(Others - earlier) : earlier + i \in 1..Others
    OBVIOUS
  <2>2. Others - earlier \in Nat
    OBVIOUS
  <2> QED BY <2>1, <2>2
<1>3. <<Socks(n)>> \in Seq(All) /\ Len(<<Socks(n)>>) = 1 /\ <<Socks(n)>>[1] = Socks(n)
  OBVIOUS
<1>4. <<Socks(n), Http>> \in Seq(All) /\ Len(<<Socks(n), Http>>) = 2
  OBVIOUS
<1>5. own \in Seq(All) /\ Len(own) \in {1, 2}
  BY <1>3, <1>4 DEF Commands
<1>6. ~http_port => Len(own) = 1 /\ own[1] = Socks(n)
  BY <1>3 DEF Commands
<1>7. \A c \in All : c.what \in {"socks", "http", "test", "other"}
  BY CommandFields
<1>8. Started(n) = (before \o own) \o after
  <2>1. Started(n) = before \o own \o after
    BY DEF Started
  <2> QED BY <2>1
<1> HIDE DEF own, before, after, All
<1> DEFINE front == before \o own
           k == earlier + Len(own)
<1>9. /\ front \in Seq(All) /\ Len(front) = k
      /\ \A i \in 1..earlier : front[i] = before[i]
      /\ \A i \in 1..Len(own) : front[earlier + i] = own[i]
  BY <1>1, <1>5, Joined
<1> HIDE DEF front
<1>10. /\ DOMAIN (front \o after) = 1..(k + (Others - earlier))
       /\ \A i \in 1..k : (front \o after)[i] = front[i]
       /\ \A i \in 1..(Others - earlier) : (front \o after)[k + i] = after[i]
       /\ \A i \in 1..(k + (Others - earlier)) : (front \o after)[i] \in All
  <2>1. /\ DOMAIN (front \o after) = 1..(Len(front) + Len(after))
        /\ \A i \in 1..Len(front) : (front \o after)[i] = front[i]
        /\ \A i \in 1..Len(after) : (front \o after)[Len(front) + i] = after[i]
        /\ \A i \in 1..(Len(front) + Len(after)) : (front \o after)[i] \in All
    BY <1>2, <1>9, Joined
  <2> HIDE DEF k
  <2> QED BY <1>2, <1>9, <2>1, Zenon
<1>11. k + (Others - earlier) = Len(own) + Others /\ Len(own) + Others \in Nat /\ k \in Nat
  BY <1>5
<1>12. IsFiniteSet(1..(Len(own) + Others))
  BY <1>11, FS_Interval
<1>13. Files(Started(n))
  BY <1>7, <1>8, <1>10, <1>11, <1>12 DEF Files, front
<1>14. ASSUME ~http_port PROVE Numbered(Started(n), earlier, 1, Others + 1)
  <2> DEFINE f == front \o after
  <2>1. Len(own) = 1 /\ own[1] = Socks(n) /\ k = earlier + 1
    BY <1>6, <1>14
  <2>2. DOMAIN f = 1..(Others + 1) /\ f[earlier + 1] = Socks(n)
    <3>1. 1 \in 1..Len(own) /\ earlier + 1 \in 1..k /\ 1 + Others = Others + 1
      BY <2>1
    <3> QED BY <1>9, <1>10, <1>11, <2>1, <3>1
  <2>3. ASSUME NEW i \in 1..Others PROVE f[Place(earlier, i)] = Other(i)
    <3>1. CASE i <= earlier
      <4>1. i \in 1..earlier /\ i \in 1..k /\ Place(earlier, i) = i
        BY <2>1, <3>1 DEF Place
      <4> QED BY <1>1, <1>9, <1>10, <4>1
    <3>2. CASE ~(i <= earlier)
      <4>1. i - earlier \in 1..(Others - earlier) /\ k + (i - earlier) = i + 1 /\ earlier + (i - earlier) = i
        BY <2>1, <3>2
      <4>2. Place(earlier, i) = i + 1
        BY <3>2 DEF Place
      <4>3. f[k + (i - earlier)] = after[i - earlier] /\ after[i - earlier] = Other(earlier + (i - earlier))
        BY <1>2, <1>10, <4>1
      <4> QED BY <4>1, <4>2, <4>3
    <3> QED BY <3>1, <3>2
  <2> HIDE DEF f
  <2>4. /\ 1 \in {1, 2} /\ Others + 1 \in Nat /\ Others + 1 \in (Others + 1)..MaxFiles
        /\ \A i \in 1..(Others + 1) : ~(i > Others + 1)
    OBVIOUS
  <2>5. f[Own(earlier)].what = "socks" /\ (1..(Others + 1)) \ Gap(earlier, 1) = 1..(Others + 1)
    BY <2>2, CommandFields DEF Own, Gap
  <2>6. Numbered(f, earlier, 1, Others + 1)
    BY <2>2, <2>3, <2>4, <2>5 DEF Numbered
  <2> QED BY <1>8, <2>6 DEF f, front
<1> QED BY <1>13, <1>14

\* The number of the next file: one more than the last's, or the last's.
LEMMA NextNumber ==
  ASSUME NEW f, NEW e \in 0..Others, NEW lo \in {1, 2}, NEW n \in Nat, Numbered(f, e, lo, n)
  PROVE  /\ Cardinality(DOMAIN f) = n + 1 - lo
         /\ NextFile(f) = n + 2 - lo
<1> USE OthersAssumption
<1>1. IsFiniteSet(1..n) /\ Cardinality(1..n) = n
  BY FS_Interval
<1>2. Cardinality(DOMAIN f) = n + 1 - lo
  <2>1. CASE lo = 1
    <3>1. DOMAIN f = 1..n
      BY <2>1 DEF Numbered, Gap
    <3> QED BY <1>1, <2>1, <3>1
  <2>2. CASE lo = 2
    <3>1. DOMAIN f = (1..n) \ {Own(e)}
      BY <2>2 DEF Numbered, Gap
    <3>2. Own(e) \in 1..n
      BY <2>2, PlacesAre DEF Numbered
    <3>3. Cardinality((1..n) \ {Own(e)}) = Cardinality(1..n) - 1
      BY <1>1, <3>2, FS_RemoveElement
    <3> QED BY <1>1, <2>2, <3>1, <3>3
  <2> QED BY <2>1, <2>2
<1>3. NextFile(f) = n + 1 - lo + 1
  BY <1>2 DEF NextFile
<1> QED BY <1>2, <1>3

\* A test's command comes into a file of its own or over the last one, never over another's.
LEMMA TestKeeps ==
  ASSUME NEW f, NEW e \in 0..Others, NEW lo \in {1, 2}, NEW n \in Nat, Numbered(f, e, lo, n)
  PROVE  LET g == IF Cardinality(DOMAIN f) < MaxFiles THEN Recorded(f, Test) ELSE f
         IN  \E m \in Nat : Numbered(g, e, lo, m) /\ m > Others + 1 /\ g[m].what = "test"
<1> USE OthersAssumption, CommandFields
<1>1. Cardinality(DOMAIN f) = n + 1 - lo /\ NextFile(f) = n + 2 - lo
  BY NextNumber
<1>2. CASE lo = 1 /\ n = MaxFiles
  <2>1. n \in DOMAIN f
    BY <1>2 DEF Numbered, Gap
  <2>2. ~(Cardinality(DOMAIN f) < MaxFiles) /\ n > Others + 1
    BY <1>1, <1>2
  <2>3. f[n].what = "test"
    BY <1>2, <2>1, <2>2 DEF Numbered
  <2> QED BY <2>2, <2>3, Zenon
<1>3. CASE ~(lo = 1 /\ n = MaxFiles)
  <2> DEFINE m == n + 2 - lo
             g == Recorded(f, Test)
  <2>1. m \in Nat /\ m \in (Others + 2)..MaxFiles /\ Cardinality(DOMAIN f) < MaxFiles
    BY <1>1, <1>3 DEF Numbered
  <2>2. DOMAIN f = (1..n) \ Gap(e, lo) /\ Gap(e, lo) \subseteq 1..(Others + 1)
    BY PlacesAre DEF Numbered, Gap
  <2>3. ((1..n) \ Gap(e, lo)) \cup {m} = (1..m) \ Gap(e, lo)
    BY <2>1, <2>2
  <2>4. g = [i \in (1..m) \ Gap(e, lo) |-> IF i = m THEN Test ELSE f[i]]
    BY <1>1, <2>2, <2>3, Zenon DEF Recorded
  <2> HIDE DEF g
  <2>5. \A i \in 1..Others : g[Place(e, i)] = Other(i)
    <3>1. \A i \in 1..Others : Place(e, i) \in (1..m) \ Gap(e, lo) /\ Place(e, i) # m
      BY <2>1, PlacesAre DEF Gap
    <3> QED BY <2>4, <3>1 DEF Numbered
  <2>6. lo = 1 => g[Own(e)].what = "socks"
    <3>1. lo = 1 => Own(e) \in (1..m) \ Gap(e, lo) /\ Own(e) # m
      BY <2>1, PlacesAre DEF Gap
    <3> QED BY <2>4, <3>1 DEF Numbered
  <2>7. \A i \in (1..m) \ Gap(e, lo) : i > Others + 1 =>
          g[i].what = "test" \/ (lo = 2 /\ i = m /\ g[i].what = "socks")
    <3> SUFFICES ASSUME NEW i \in (1..m) \ Gap(e, lo), i > Others + 1 PROVE g[i].what = "test"
      OBVIOUS
    <3>1. CASE i = m
      BY <2>4, <3>1
    <3>2. CASE i # m
      <4>1. i \in DOMAIN f /\ ~(lo = 2 /\ i = n) /\ g[i] = f[i]
        BY <2>1, <2>2, <2>3, <2>4, <3>2
      <4> QED BY <4>1 DEF Numbered
    <3> QED BY <3>1, <3>2
  <2>8. m \in (Others + lo)..MaxFiles /\ DOMAIN g = (1..m) \ Gap(e, lo)
    BY <2>1, <2>4
  <2>9. m > Others + 1 /\ g[m].what = "test"
    <3>1. m \in (1..m) \ Gap(e, lo)
      BY <2>1, <2>2
    <3> QED BY <2>1, <2>4, <3>1
  <2> HIDE DEF m
  <2>10. Numbered(g, e, lo, m)
    BY <2>1, <2>5, <2>6, <2>7, <2>8 DEF Numbered
  <2> QED BY <2>1, <2>9, <2>10 DEF g
<1> QED BY <1>2, <1>3

\* Removing the service's file leaves the others' where they are.
LEMMA RemovalKeeps ==
  ASSUME NEW f, NEW e \in 0..Others, NEW lo \in {1, 2}, NEW n \in Nat, Numbered(f, e, lo, n),
         n > Others + 1, f[n].what = "test"
  PROVE  LET kept == {i \in DOMAIN f : f[i].what \notin {"socks", "http"}}
         IN  Numbered([i \in kept |-> f[i]], e, 2, n)
<1> USE OthersAssumption, CommandFields
<1> DEFINE kept == {i \in DOMAIN f : f[i].what \notin {"socks", "http"}}
           g == [i \in kept |-> f[i]]
           rest == (1..n) \ Gap(e, 2)
<1>1. DOMAIN f = (1..n) \ Gap(e, lo) /\ rest = (1..n) \ {Own(e)} /\ rest \subseteq DOMAIN f
  BY DEF Numbered, Gap
<1>2. ASSUME NEW i \in rest PROVE f[i].what \notin {"socks", "http"}
  <2>1. CASE i <= Others + 1
    <3>1. PICK j \in 1..Others : i = Place(e, j)
      BY <1>1, <2>1, PlacesAre
    <3>2. f[i] = Other(j)
      BY <3>1 DEF Numbered
    <3> QED BY <3>2
  <2>2. CASE i > Others + 1
    BY <1>1, <2>2 DEF Numbered
  <2> QED BY <1>1, <2>1, <2>2
<1>3. kept = rest
  <2>1. ASSUME NEW i \in kept PROVE i \in rest
    <3>1. lo = 1 => f[Own(e)].what = "socks"
      BY DEF Numbered
    <3>2. i # Own(e)
      BY <1>1, <3>1 DEF Gap
    <3> QED BY <1>1, <3>2
  <2> QED BY <1>1, <1>2, <2>1
<1> HIDE DEF kept
<1>4. g = [i \in rest |-> f[i]]
  BY <1>3
<1> HIDE DEF g
<1>5. \A i \in 1..Others : g[Place(e, i)] = Other(i)
  <2>1. \A i \in 1..Others : Place(e, i) \in rest
    BY <1>1, PlacesAre
  <2> QED BY <1>4, <2>1 DEF Numbered
<1>6. \A i \in rest : i > Others + 1 =>
        g[i].what = "test" \/ (2 = 2 /\ i = n /\ g[i].what = "socks")
  BY <1>1, <1>4 DEF Numbered
<1>7. n \in (Others + 2)..MaxFiles /\ DOMAIN g = (1..n) \ Gap(e, 2)
  BY <1>4 DEF Numbered
<1>8. Numbered(g, e, 2, n)
  BY <1>5, <1>6, <1>7 DEF Numbered
<1> QED BY <1>8 DEF g, kept

\* The new node's command comes over the last file, a test's.
LEMMA RunKeeps ==
  ASSUME NEW f, NEW e \in 0..Others, NEW n \in Nat, Numbered(f, e, 2, n), NEW node1
  PROVE  Numbered(Recorded(f, Socks(node1)), e, 2, n)
<1> USE OthersAssumption, CommandFields
<1> DEFINE g == Recorded(f, Socks(node1))
           rest == (1..n) \ {Own(e)}
<1>1. NextFile(f) = n /\ n \in (Others + 2)..MaxFiles /\ DOMAIN f = rest /\ rest = (1..n) \ Gap(e, 2)
  <2>1. NextFile(f) = n + 2 - 2
    BY NextNumber
  <2>2. n \in (Others + 2)..MaxFiles /\ DOMAIN f = (1..n) \ Gap(e, 2)
    BY DEF Numbered
  <2>3. Gap(e, 2) = {Own(e)}
    BY DEF Gap
  <2> QED BY <2>1, <2>2, <2>3
<1>2. n \in rest
  <2>1. Own(e) \in 1..(Others + 1)
    BY PlacesAre
  <2> QED BY <1>1, <2>1
<1>3. g = [i \in rest |-> IF i = n THEN Socks(node1) ELSE f[i]]
  <2>1. rest \cup {n} = rest
    BY <1>2
  <2> QED BY <1>1, <2>1, Zenon DEF Recorded
<1> HIDE DEF g
<1>4. \A i \in 1..Others : g[Place(e, i)] = Other(i)
  <2>1. \A i \in 1..Others : Place(e, i) \in rest /\ Place(e, i) # n
    BY <1>1, PlacesAre
  <2> QED BY <1>3, <2>1 DEF Numbered
<1>5. \A i \in rest : i > Others + 1 =>
        g[i].what = "test" \/ (2 = 2 /\ i = n /\ g[i].what = "socks")
  <2> SUFFICES ASSUME NEW i \in rest, i > Others + 1
               PROVE  g[i].what = "test" \/ (i = n /\ g[i].what = "socks")
    OBVIOUS
  <2>1. CASE i = n
    BY <1>3, <2>1
  <2>2. CASE i # n
    BY <1>1, <1>3, <2>2 DEF Numbered
  <2> QED BY <2>1, <2>2
<1>6. DOMAIN g = (1..n) \ Gap(e, 2) /\ 2 \in {1, 2}
  BY <1>1, <1>3
<1>7. Numbered(g, e, 2, n)
  <2> HIDE DEF rest
  <2>1. \A i \in DOMAIN g : i > Others + 1 =>
          g[i].what = "test" \/ (2 = 2 /\ i = n /\ g[i].what = "socks")
    BY <1>1, <1>5, <1>6
  <2> QED BY <1>1, <1>4, <1>6, <2>1 DEF Numbered
<1> QED BY <1>7 DEF g
-----------------------------------------------------------------------------

\* The next node is one of the backup nodes, wherever the node in use stands among them.
LEMMA FollowingNode ==
  ASSUME b_nodes \in Seq(Nodes), b_nodes # <<>>, NEW n
  PROVE  Following(n) \in Nodes
<1> DEFINE i == SelectInSeq(b_nodes, LAMBDA m : m = n)
<1>1. Following(n) = IF i \in 1..(Len(b_nodes) - 1) THEN b_nodes[i + 1] ELSE Head(b_nodes)
  BY DEF Following
<1> HIDE DEF i
<1>2. Len(b_nodes) \in Nat \ {0} /\ Head(b_nodes) \in Nodes
  OBVIOUS
<1>3. i \in 1..(Len(b_nodes) - 1) => i + 1 \in 1..Len(b_nodes)
  BY <1>2
<1>4. \A j \in 1..Len(b_nodes) : b_nodes[j] \in Nodes
  OBVIOUS
<1> QED BY <1>1, <1>2, <1>3, <1>4

\* The configuration the service starts from.
LEMMA FirstNodes ==
  Node \in Nodes /\ BackupNodes \in Seq(Nodes) /\ BackupNodes # <<>> /\ NoNode \notin Nodes
BY NodesAssumption DEF Nodes

\* Where only the processes, the world or the place in a test changes, the files stay as
\* they are: the step asks for nothing of them unless it begins a switch.
LEMMA LayoutStays ==
  ASSUME Layout, UNCHANGED <<earlier, http_port, script_func>>,
         at' = at \/ at' \notin {"kill", "remove", "run"} \/ (at = "kill" /\ at' = "remove")
  PROVE  Layout'
<1> SUFFICES ASSUME ~http_port
             PROVE  \E lo \in {1, 2}, n \in Nat :
                      Numbered(script_func', earlier', lo, n) /\ InStep(at', script_func', lo, n)
  BY DEF Layout
<1>1. PICK lo \in {1, 2}, n \in Nat :
        Numbered(script_func, earlier, lo, n) /\ InStep(at, script_func, lo, n)
  BY DEF Layout
<1>2. InStep(at', script_func', lo, n)
  BY <1>1 DEF InStep
<1> QED BY <1>1, <1>2

\* A test leaves the files in a state from which a switch may go on.
LEMMA LayoutTested ==
  ASSUME Layout, earlier \in 0..Others, TestNode, UNCHANGED <<earlier, http_port>>, at' # "run"
  PROVE  Layout'
<1> SUFFICES ASSUME ~http_port
             PROVE  \E lo \in {1, 2}, n \in Nat :
                      Numbered(script_func', earlier', lo, n) /\ InStep(at', script_func', lo, n)
  BY DEF Layout
<1>1. PICK lo \in {1, 2}, n \in Nat : Numbered(script_func, earlier, lo, n)
  BY DEF Layout
<1>2. PICK m \in Nat :
        Numbered(script_func', earlier, lo, m) /\ m > Others + 1 /\ script_func'[m].what = "test"
  BY <1>1, TestKeeps DEF TestNode
<1>3. InStep(at', script_func', lo, m)
  BY <1>2 DEF InStep
<1> QED BY <1>2, <1>3

\* A test's file is a file like the others.
LEMMA FilesTested ==
  ASSUME Files(script_func), TestNode
  PROVE  Files(script_func')
BY RecordedFiles, CommandFields DEF TestNode

\* Such a directory has the type SwitchTypeOK asks for.
LEMMA FilesTyped ==
  ASSUME NEW f, Files(f)
  PROVE  \A i \in DOMAIN f : i \in Nat \ {0} /\ f[i].what \in {"socks", "http", "test", "other"}
BY DEF Files

\* start, at first and again: what is running and recorded is what is configured.
LEMMA InitHolds == SwitchInit => SwitchInv
<1> SUFFICES ASSUME SwitchInit PROVE SwitchInv
  OBVIOUS
<1>1. http_port \in BOOLEAN /\ earlier \in 0..Others /\ script_func = Started(Node)
  BY DEF SwitchInit
<1>2. Files(script_func) /\ (~http_port => Numbered(script_func, earlier, 1, Others + 1))
  BY <1>1, FirstNodes, StartedFiles
<1>3. SwitchTypeOK
  BY <1>2, FirstNodes, FilesTyped DEF SwitchInit, SwitchTypeOK
<1>4. Names
  BY FirstNodes DEF SwitchInit, Names
<1>5. Layout
  <2>1. InStep(at, script_func, 1, Others + 1)
    BY DEF SwitchInit, InStep
  <2> QED BY <1>2, <2>1, OthersAssumption DEF Layout
<1> QED BY <1>2, <1>3, <1>4, <1>5 DEF SwitchInv

\* Killed at any step, the switch leaves nothing behind: start writes the files anew.
LEMMA RestartKeeps ==
  ASSUME SwitchInv, Restart
  PROVE  SwitchInv'
<1>1. /\ node \in Nodes /\ http_port \in BOOLEAN /\ earlier \in 0..Others
      /\ http_port' = http_port /\ earlier' = earlier /\ script_func' = Started(node)
  BY DEF Restart, SwitchInv, SwitchTypeOK, config
<1>2. Files(script_func') /\ (~http_port => Numbered(script_func', earlier, 1, Others + 1))
  BY <1>1, StartedFiles
<1>3. SwitchTypeOK'
  BY <1>2, FilesTyped DEF Restart, SwitchInv, SwitchTypeOK, config, world
<1>4. Names'
  BY DEF Restart, SwitchInv, Names, config
<1>5. Layout'
  <2>1. InStep(at', script_func', 1, Others + 1)
    BY DEF Restart, InStep
  <2> QED BY <1>1, <1>2, <2>1, OthersAssumption DEF Layout
<1> QED BY <1>2, <1>3, <1>4, <1>5 DEF SwitchInv

\* The steps of a test before it tries a node.
LEMMA WakesKeeps ==
  ASSUME SwitchInv, Wakes
  PROVE  SwitchInv'
<1> USE DEF Wakes, SwitchInv, config, processes, world
<1>1. SwitchTypeOK'
  BY DEF SwitchTypeOK
<1>2. Names'
  BY DEF Names
<1>3. Layout'
  BY LayoutStays
<1> QED BY <1>1, <1>2, <1>3

\* The verdict of test_proxy changes nothing but the place in the test.
LEMMA TestsProxyKeeps ==
  ASSUME SwitchInv, TestsProxy
  PROVE  SwitchInv'
<1>1. /\ UNCHANGED <<config, processes, cache, main_node, b_nodes, world>>
      /\ at = "proxy" /\ at' \in {"main", "next", "sleep"}
      /\ at' = "main" => restore_switch
      /\ now_node' \in {now_node, cache} /\ status' \in 0..2
  BY DEF TestsProxy, Returns
<1> USE <1>1 DEF SwitchInv, config, processes, world
<1>2. SwitchTypeOK'
  BY DEF SwitchTypeOK
<1>3. Names'
  BY DEF Names
<1>4. Layout'
  BY LayoutStays
<1> QED BY <1>2, <1>3, <1>4

\* The two tests of a node, from which a switch may begin.
LEMMA TestsMainKeeps ==
  ASSUME SwitchInv, TestsMain
  PROVE  SwitchInv'
<1>1. /\ UNCHANGED <<config, socks, http, others, cache, main_node, b_nodes, world>>
      /\ at = "main" /\ at' \in {"kill", "next", "sleep"} /\ TestNode
      /\ at' = "kill" => now_node' = main_node
      /\ now_node' \in {now_node, main_node, cache} /\ status' \in {0, status}
  BY DEF TestsMain, Returns
<1> USE <1>1 DEF SwitchInv, config, world
<1>2. Files(script_func')
  BY FilesTested
<1>3. SwitchTypeOK'
  BY <1>2, FilesTyped DEF SwitchTypeOK
<1>4. Names'
  BY DEF Names, SwitchTypeOK
<1>5. Layout'
  <2>1. earlier \in 0..Others /\ UNCHANGED <<earlier, http_port>> /\ at' # "run"
    BY DEF SwitchTypeOK
  <2> QED BY <2>1, LayoutTested
<1> QED BY <1>2, <1>3, <1>4, <1>5

\* Without restore_switch a switch that is to follow is in the configuration before it begins.
LEMMA TestsNextKeeps ==
  ASSUME SwitchInv, TestsNext
  PROVE  SwitchInv'
<1> DEFINE new == Following(now_node)
           listed == main_node \in Range(b_nodes) \/ Last(backups) = main_node
           moves == new \in reach /\ ~restore_switch
<1>1. new \in Nodes
  BY FollowingNode DEF SwitchInv, SwitchTypeOK, Names
<1>2. /\ UNCHANGED <<restore_switch, earlier, http_port, socks, http, others, cache, main_node, b_nodes, world>>
      /\ at = "next" /\ TestNode
      /\ now_node' = new /\ at' = (IF new \in reach THEN "kill" ELSE "proxy") /\ status' = 0
      /\ node' = IF moves THEN new ELSE node
      /\ backups' = IF moves /\ ~listed THEN Append(backups, main_node) ELSE backups
  BY DEF TestsNext
<1> HIDE DEF new, listed
<1>3. backups' \in Seq(Nodes) /\ backups' # <<>>
  BY <1>2 DEF SwitchInv, SwitchTypeOK, Names
<1>4. Files(script_func')
  BY <1>2, FilesTested DEF SwitchInv
<1>5. SwitchTypeOK'
  BY <1>1, <1>2, <1>3, <1>4, FilesTyped DEF SwitchInv, SwitchTypeOK, world
<1>6. Names'
  BY <1>2, <1>3 DEF SwitchInv, SwitchTypeOK, Names
<1>7. Layout'
  <2>1. earlier \in 0..Others /\ UNCHANGED <<earlier, http_port>> /\ at' # "run"
    BY <1>2 DEF SwitchInv, SwitchTypeOK
  <2> QED BY <1>2, <2>1, LayoutTested DEF SwitchInv
<1> QED BY <1>4, <1>5, <1>6, <1>7 DEF SwitchInv

\* The three steps of a switch.
LEMMA KillsKeeps ==
  ASSUME SwitchInv, Kills
  PROVE  SwitchInv'
<1> USE DEF Kills, SwitchInv, config, shell, world
<1>1. SwitchTypeOK'
  BY DEF SwitchTypeOK
<1>2. Names'
  BY DEF Names
<1>3. Layout'
  BY LayoutStays
<1> QED BY <1>1, <1>2, <1>3

\* The removal leaves a hole where the service had its file, and the last file is a test's.
LEMMA RemovesKeeps ==
  ASSUME SwitchInv, Removes
  PROVE  SwitchInv'
<1> DEFINE kept == {i \in DOMAIN script_func : script_func[i].what \notin {"socks", "http"}}
<1>1. /\ at = "remove" /\ at' = "run" /\ script_func' = [i \in kept |-> script_func[i]]
      /\ UNCHANGED <<config, socks, http, others, cache, shell, world>>
  BY DEF Removes
<1>2. Files(script_func')
  <2>1. IsFiniteSet(kept)
    BY FS_Subset DEF SwitchInv, Files
  <2> QED BY <1>1, <2>1 DEF SwitchInv, Files
<1>3. Layout'
  <2> SUFFICES ASSUME ~http_port
               PROVE  \E lo \in {1, 2}, n \in Nat :
                        Numbered(script_func', earlier', lo, n) /\ InStep(at', script_func', lo, n)
    BY <1>1 DEF Layout, config
  <2>1. PICK lo \in {1, 2}, n \in Nat :
          Numbered(script_func, earlier, lo, n) /\ InStep(at, script_func, lo, n)
    BY DEF SwitchInv, Layout
  <2>a. earlier \in 0..Others /\ earlier' = earlier
    BY <1>1 DEF SwitchInv, SwitchTypeOK, config
  <2>2. Numbered(script_func', earlier, 2, n)
    <3>1. n > Others + 1 /\ script_func[n].what = "test"
      BY <1>1, <2>1 DEF InStep
    <3> QED BY <1>1, <2>a, <2>1, <3>1, RemovalKeeps
  <2>3. InStep(at', script_func', 2, n)
    BY <1>1 DEF InStep
  <2> QED BY <2>a, <2>2, <2>3
<1> HIDE DEF kept
<1>4. SwitchTypeOK'
  BY <1>1, <1>2, FilesTyped DEF SwitchInv, SwitchTypeOK, config, shell, world
<1>5. Names'
  BY <1>1 DEF SwitchInv, Names, config, shell
<1> QED BY <1>2, <1>3, <1>4, <1>5 DEF SwitchInv

\* The new node's command takes the last file, and the cache names that node.
LEMMA RunsNewKeeps ==
  ASSUME SwitchInv, RunsNew
  PROVE  SwitchInv'
<1> DEFINE recorded == Recorded(script_func, Socks(now_node))
<1>1. /\ at = "run" /\ at' = "sleep" /\ cache' = now_node /\ http' = http_port
      /\ socks' = IF socks = NoNode THEN now_node ELSE socks
      /\ script_func' = IF http_port THEN Recorded(recorded, Http) ELSE recorded
      /\ UNCHANGED <<config, others, shell, world>>
  BY DEF RunsNew, Cached
<1>2. Files(script_func')
  <2>1. Files(recorded)
    BY RecordedFiles, CommandFields DEF SwitchInv
  <2> HIDE DEF recorded
  <2>2. Files(Recorded(recorded, Http))
    BY <2>1, RecordedFiles, CommandFields
  <2> QED BY <1>1, <2>1, <2>2
<1>3. Layout'
  <2> SUFFICES ASSUME ~http_port
               PROVE  \E lo \in {1, 2}, n \in Nat :
                        Numbered(script_func', earlier', lo, n) /\ InStep(at', script_func', lo, n)
    BY <1>1 DEF Layout, config
  <2>1. PICK n \in Nat : Numbered(script_func, earlier, 2, n)
    BY <1>1 DEF SwitchInv, Layout, InStep
  <2>a. earlier \in 0..Others /\ earlier' = earlier
    BY <1>1 DEF SwitchInv, SwitchTypeOK, config
  <2>2. Numbered(script_func', earlier, 2, n)
    BY <1>1, <2>a, <2>1, RunKeeps
  <2>3. InStep(at', script_func', 2, n)
    BY <1>1 DEF InStep
  <2> QED BY <2>a, <2>2, <2>3
<1> HIDE DEF recorded
<1>4. SwitchTypeOK'
  BY <1>1, <1>2, FilesTyped DEF SwitchInv, SwitchTypeOK, Names, config, shell, world
<1>5. Names'
  BY <1>1 DEF SwitchInv, Names, config, shell
<1> QED BY <1>2, <1>3, <1>4, <1>5 DEF SwitchInv

\* What goes on beside the tests leaves the files, the configuration and the cache alone.
LEMMA MonitorKeeps ==
  ASSUME SwitchInv, MonitorRestarts \/ ServiceDies \/ Changes \/ UNCHANGED switch_vars
  PROVE  SwitchInv'
<1>1. /\ UNCHANGED <<config, script_func, cache, at, shell>>
      /\ socks' \in Nodes \cup {NoNode} /\ http' \in BOOLEAN /\ others' \subseteq 1..Others
      /\ reach' \subseteq Nodes /\ network' \in BOOLEAN
  <2>1. CASE MonitorRestarts
    <3>1. (CHOOSE n \in Nodes : Socks(n) \in {script_func[i] : i \in DOMAIN script_func}) \in Nodes
          \/ ~(\E n \in Nodes : Socks(n) \in {script_func[i] : i \in DOMAIN script_func})
      OBVIOUS
    <3>2. socks' \in Nodes \cup {NoNode}
      BY <2>1, <3>1 DEF MonitorRestarts, SwitchInv, SwitchTypeOK
    <3>3. http' \in BOOLEAN
      BY <2>1 DEF MonitorRestarts, SwitchInv, SwitchTypeOK
    <3> QED BY <2>1, <3>2, <3>3 DEF MonitorRestarts, SwitchInv, SwitchTypeOK, world
  <2>2. CASE ServiceDies
    BY <2>2 DEF ServiceDies, SwitchInv, SwitchTypeOK, world
  <2>3. CASE Changes
    BY <2>3 DEF Changes, SwitchInv, SwitchTypeOK, processes
  <2>4. CASE UNCHANGED switch_vars
    BY <2>4 DEF switch_vars, SwitchInv, SwitchTypeOK, processes, world
  <2> QED BY <2>1, <2>2, <2>3, <2>4
<1> USE <1>1 DEF SwitchInv, config, shell
<1>2. SwitchTypeOK'
  BY DEF SwitchTypeOK
<1>3. Names'
  BY DEF Names
<1>4. Layout'
  BY LayoutStays
<1> QED BY <1>2, <1>3, <1>4

\* Every step keeps the invariant.
LEMMA SwitchNextKeeps == SwitchInv /\ [SwitchNext]_switch_vars => SwitchInv'
BY WakesKeeps, TestsProxyKeeps, TestsMainKeeps, TestsNextKeeps, KillsKeeps, RemovesKeeps,
   RunsNewKeeps, RestartKeeps, MonitorKeeps DEF SwitchNext, test_auto_switch
-----------------------------------------------------------------------------
\* The invariant holds throughout (socks_auto_switch.sh, ln_run, socks_node_switch).
THEOREM SwitchInductive == SwitchSpec => []SwitchInv
BY InitHolds, SwitchNextKeeps, PTL DEF SwitchSpec

\* The variables have their types, and between switches the configuration names the node the
\* service is to come back with (test_auto_switch, set_cache_var).
THEOREM SwitchTypeCorrect == SwitchSpec => []SwitchTypeOK
<1>1. SwitchInv => SwitchTypeOK
  BY DEF SwitchInv
<1> QED BY <1>1, SwitchInductive, PTL

\* However often nodes are tested and switched, the commands of the other processes stay in
\* their files, for a service of one process (ln_run, socks_node_switch).
THEOREM OthersStayWatched == SwitchSpec => []OthersWatched
<1>1. ASSUME SwitchInv PROVE OthersWatched
  <2> SUFFICES ASSUME ~http_port, NEW i \in 1..Others
               PROVE  \E f \in DOMAIN script_func : script_func[f] = Other(i)
    BY DEF OthersWatched
  <2>1. PICK lo \in {1, 2}, n \in Nat : Numbered(script_func, earlier, lo, n)
    BY <1>1 DEF SwitchInv, Layout
  <2>2. earlier \in 0..Others
    BY <1>1 DEF SwitchInv, SwitchTypeOK
  <2>3. Place(earlier, i) \in DOMAIN script_func
    BY <2>1, <2>2, OthersAssumption, PlacesAre DEF Numbered, Gap
  <2>4. script_func[Place(earlier, i)] = Other(i)
    BY <2>1 DEF Numbered
  <2> QED BY <2>3, <2>4
<1> QED BY <1>1, SwitchInductive, PTL
=============================================================================
