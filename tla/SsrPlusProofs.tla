---------------------------- MODULE SsrPlusProofs ----------------------------
(***************************************************************************)
(* What holds for any list of servers, any number of invocations of the    *)
(* service script at a time and any patience in unlock: a lock without a   *)
(* holder never stays, overlapping restarts end with rules and a monitor,  *)
(* and without overlap a stop is final and ssr-switch knows the server.    *)
(***************************************************************************)
EXTENDS SsrPlus, TLAPS, FiniteSetTheorems, WellFoundedInduction

Waiting == {"wait", "take", "stop"}
Starting == {"gap", "start", "rules", "switch", "monitor"}
Late == Starting \cup {"stopping"}

Working(j) == job[j].at # "idle"
JobType ==
  [cmd : Commands, arg : Names \cup {Nobody}, tries : 0..(Patience + 1),
   at : {"idle", "wait", "take", "stop", "stopping", "gap", "start",
         "rules", "switch", "monitor"}]
JobStates == [Jobs -> JobType]

SwitchStates ==
  [at : {"dead", "sleep", "back", "check", "moved"}, cur : Names, normal : BOOLEAN,
   locate : 0..Len(Servers), waits : BOOLEAN]
LateJobs == {j \in Jobs : job[j].at \in Late}

\* A stop ends every monitor, and after it an invocation starts at most one.
Counted == monitors + Cardinality(LateJobs) <= Cardinality(Jobs)

\* A lock file has an invocation that will remove it.
Held == lock => \E j \in Jobs : job[j].at \in Late \cup {"stop"}

\* What is under way is among what was asked.
OnlyAsked ==
  /\ asked # {}
  /\ asked = {"restart"} => \A j \in Jobs : Working(j) => job[j].cmd = "restart"

\* Without rules, or without a monitor, some restart has yet to make them.
RulesFollow ==
  asked = {"restart"} /\ rules = Nobody =>
    \E j \in Jobs : job[j].at \in Waiting \cup {"stopping", "gap", "start", "rules"}
MonitorFollows ==
  asked = {"restart"} /\ monitors = 0 =>
    \/ \E j \in Jobs : job[j].at \in Waiting \cup {"stopping"}
    \/ ~monitorLock /\ \E j \in Jobs : job[j].at \in Starting

\* Without overlap there is one invocation at most.
Alone == ~overlapped => \A j, k \in Jobs : Working(j) /\ Working(k) => j = k

\* A stop alone: nothing is left from the moment it has killed what runs.
Stopped ==
  ~overlapped /\ asked = {"stop"} =>
    /\ \A j \in Jobs : Working(j) =>
         job[j].cmd = "stop" /\ job[j].arg = Nobody /\ job[j].at \in Waiting \cup {"stopping"}
    /\ \/ \E j \in Jobs : job[j].at \in Waiting
       \/ rules = Nobody /\ monitors = 0 /\ switch.at = "dead"
    /\ Idle => daemon = Nobody

\* A restart alone: what it has started is for its server, and ssr-switch knows that one.
Known ==
  ~overlapped =>
    /\ Idle /\ daemon # Nobody => rules = daemon /\ (switch.at # "dead" => switch.cur = daemon)
    /\ \A j \in Jobs :
         /\ job[j].at \in Waiting /\ job[j].arg # Nobody => switch.cur = job[j].arg
         /\ job[j].at \in Late /\ switch.at # "dead" => switch.cur = Global(j)
         /\ job[j].at \in {"stopping", "gap", "start"} => daemon = Nobody
         /\ job[j].at \in {"rules", "switch", "monitor"} => daemon \in {Nobody, Global(j)}
         /\ job[j].at \in {"switch", "monitor"} => rules = Global(j)

IndInv ==
  /\ TypeOK /\ Counted /\ Held /\ OnlyAsked /\ RulesFollow /\ MonitorFollows
  /\ Alone /\ Stopped /\ Known

-----------------------------------------------------------------------------
\* A set of positions in the list that is not empty has a first.
LEMMA First ==
  ASSUME NEW S \in SUBSET Nat, S # {}
  PROVE  \E i \in S : \A k \in S : i <= k
<1>1. PICK i \in S : \A k \in S : ~(<<k, i>> \in OpToRel(<, Nat))
  BY NatLessThanWellFounded, WFMin
<1>2. \A k \in S : ~(k < i)
  BY <1>1 DEF OpToRel
<1> QED BY <1>2

\* The invocations are finitely many, and so are any of them.
LEMMA JobsFinite ==
  ASSUME NEW S, S \subseteq Jobs
  PROVE  /\ IsFiniteSet(S) /\ Cardinality(S) \in Nat /\ Cardinality(Jobs) \in Nat
         /\ Cardinality(S) <= Cardinality(Jobs)
<1>1. IsFiniteSet(Jobs)
  BY FS_Interval, SsrPlusAssumption DEF Jobs
<1> QED BY <1>1, FS_Subset, FS_CardinalityType

\* One more, or one less, of the invocations.
LEMMA OneLess ==
  ASSUME NEW S, S \subseteq Jobs, NEW j \in S
  PROVE  Cardinality(S \ {j}) = Cardinality(S) - 1
BY JobsFinite, FS_RemoveElement

\* The state of the boot is one of the invariant.
LEMMA InitInductive == Init => IndInv
<1> SUFFICES ASSUME Init PROVE IndInv
  OBVIOUS
<1> USE SsrPlusAssumption
<1>1. 1 \in Jobs
  BY DEF Jobs
<1>2. TypeOK
  <2>1. 0 \in 0..Cardinality(Jobs) /\ 0 \in 0..Len(Servers) /\ 0 \in 0..(Patience + 1)
    BY JobsFinite
  <2> QED BY <2>1 DEF Init, TypeOK, NoJob, NoSwitch, Commands
<1>3. Counted
  <2>1. LateJobs \subseteq Jobs
    BY DEF LateJobs
  <2>2. Cardinality(LateJobs) \in Nat /\ Cardinality(LateJobs) <= Cardinality(Jobs)
    BY <2>1, JobsFinite
  <2> QED BY <2>2, JobsFinite DEF Init, Counted
<1>4. \A j \in Jobs : job[j] = IF j = 1 THEN [NoJob EXCEPT !.at = "gap"] ELSE NoJob
  BY DEF Init
<1> QED
  BY <1>1, <1>2, <1>3, <1>4
     DEF Init, IndInv, Held, OnlyAsked, RulesFollow, MonitorFollows, Alone, Stopped, Known,
         Waiting, Starting, Late, Working, Idle, NoJob, NoSwitch, Global

\* An invocation begins.
LEMMA BeginKeeps ==
  ASSUME IndInv, NEW j \in Jobs, NEW cmd \in Commands, NEW arg \in Names \cup {Nobody},
         Begin(j, cmd, arg), UNCHANGED <<lock, daemon, rules, monitorLock, reach>>,
         monitors' \in Nat, monitors' <= monitors, switch' \in SwitchStates,
         \/ arg = Nobody /\ switch' = switch
         \/ cmd = "restart" /\ switch'.cur = arg
  PROVE  IndInv'
<1> USE DEF IndInv
<1>1. /\ job[j].at = "idle"
      /\ job' = [job EXCEPT ![j] = [cmd |-> cmd, arg |-> arg, at |-> "wait", tries |-> 1]]
      /\ asked' = {cmd} \cup (IF Idle THEN {} ELSE asked)
      /\ overlapped' = (overlapped \/ ~Idle)
  BY DEF Begin, IsFree
<1>2. /\ \A k \in Jobs : k # j => job'[k] = job[k]
      /\ job'[j] = [cmd |-> cmd, arg |-> arg, at |-> "wait", tries |-> 1]
  BY <1>1 DEF TypeOK
<1>3. TypeOK'
  <2>1. 1 \in 0..(Patience + 1)
    BY SsrPlusAssumption
  <2>2. monitors' \in 0..Cardinality(Jobs)
    BY JobsFinite DEF TypeOK
  <2>3. job' \in JobStates
    BY <1>1, <2>1 DEF TypeOK, JobStates, JobType
  <2>4. asked' \subseteq Commands /\ overlapped' \in BOOLEAN
    BY <1>1 DEF TypeOK
  <2> QED BY <2>2, <2>3, <2>4 DEF TypeOK, JobStates, JobType, SwitchStates
<1>4. Counted'
  <2>1. LateJobs' = LateJobs
    BY <1>1, <1>2 DEF LateJobs, Late, Starting
  <2>2. Cardinality(LateJobs) \in Nat /\ Cardinality(Jobs) \in Nat
    BY JobsFinite DEF LateJobs
  <2> QED BY <2>1, <2>2 DEF Counted, TypeOK
<1>5. Held'
  BY <1>1, <1>2 DEF Held, Late, Starting
<1>6. OnlyAsked'
  <2>1. asked' = {"restart"} => cmd = "restart" /\ (Idle \/ asked = {"restart"})
    BY <1>1 DEF OnlyAsked
  <2>2. asked' # {}
    BY <1>1
  <2> QED BY <1>2, <2>1, <2>2 DEF OnlyAsked, Working, Idle
<1>7. RulesFollow' /\ MonitorFollows'
  BY <1>2 DEF RulesFollow, MonitorFollows, Waiting
<1>8. Alone'
  BY <1>1, <1>2 DEF Alone, Idle, Working
<1>9. Stopped'
  <2>1. ~overlapped' => Idle
    BY <1>1
  <2>2. asked' = {"stop"} => cmd = "stop"
    BY <1>1
  <2>3. cmd = "stop" => arg = Nobody
    OBVIOUS
  <2>4. job'[j].at = "wait" /\ job'[j].cmd = cmd /\ job'[j].arg = arg
    BY <1>2
  <2>5. Idle => \A k \in Jobs : Working(k)' => k = j
    BY <1>2 DEF Idle, Working
  <2> QED BY <2>1, <2>2, <2>3, <2>4, <2>5 DEF Stopped, Idle, Waiting
<1>10. Known'
  <2>1. ~overlapped' => Idle
    BY <1>1
  <2>2. job'[j].at = "wait" /\ job'[j].arg = arg
    BY <1>2
  <2>3. arg # Nobody => switch'.cur = arg
    OBVIOUS
  <2>4. Idle => \A k \in Jobs : k # j => job'[k].at = "idle"
    BY <1>2 DEF Idle
  <2> QED BY <2>1, <2>2, <2>3, <2>4 DEF Known, Idle, Waiting, Late, Starting
<1> QED BY <1>3, <1>4, <1>5, <1>6, <1>7, <1>8, <1>9, <1>10

-----------------------------------------------------------------------------
\* A step of an invocation moves that one, and leaves its command and its server.
LEMMA GotoMoves ==
  ASSUME TypeOK, NEW j \in Jobs, NEW there \in Late \cup {"stop"}, Goto(j, there)
  PROVE  /\ \A k \in Jobs : k # j => job'[k] = job[k]
         /\ job'[j].at = there /\ job'[j].cmd = job[j].cmd
         /\ \A k \in Jobs : job'[k].arg = job[k].arg /\ Global(k)' = Global(k)
         /\ job' \in JobStates
<1>1. job' = [job EXCEPT ![j].at = there]
  BY DEF Goto
<1> QED BY <1>1 DEF TypeOK, JobStates, JobType, Global, Late, Starting

\* The invocations past the kill stay as many when one moves on among them.
LEMMA LateStays ==
  ASSUME TypeOK, NEW j \in Jobs,
         \A k \in Jobs : k # j => job'[k] = job[k], job[j].at \in Late <=> job'[j].at \in Late
  PROVE  LateJobs' = LateJobs /\ Cardinality(LateJobs) \in Nat /\ Cardinality(Jobs) \in Nat
<1>1. LateJobs' = LateJobs
  BY DEF LateJobs
<1> QED BY <1>1, JobsFinite DEF LateJobs

\* When it ends, they are one less.
LEMMA LateLeaves ==
  ASSUME TypeOK, NEW j \in Jobs,
         \A k \in Jobs : k # j => job'[k] = job[k], job[j].at \in Late, job'[j].at \notin Late
  PROVE  /\ Cardinality(LateJobs)' = Cardinality(LateJobs) - 1
         /\ Cardinality(LateJobs) \in Nat /\ Cardinality(Jobs) \in Nat
<1>1. LateJobs' = LateJobs \ {j} /\ j \in LateJobs
  BY DEF LateJobs
<1>2. LateJobs \subseteq Jobs
  BY DEF LateJobs
<1> QED BY <1>1, <1>2, OneLess, JobsFinite

\* A look of unlock.
LEMMA WaitKeeps ==
  ASSUME IndInv, NEW j \in Jobs, Wait(j)
  PROVE  IndInv'
<1> USE DEF IndInv
<1>1. /\ job[j].at = "wait"
      /\ UNCHANGED <<daemon, rules, monitors, monitorLock, switch, reach, asked, overlapped>>
      /\ \/ /\ lock /\ job[j].tries <= Patience /\ lock' \in BOOLEAN
            /\ job' = [job EXCEPT ![j].tries = @ + 1]
         \/ job' = [job EXCEPT ![j].at = "take", ![j].tries = 0] /\ lock' = lock
  <2> DEFINE patient == job[j].tries + 1 < Patience
  <2>1. patient \in BOOLEAN
    OBVIOUS
  <2> HIDE DEF patient
  <2>2. /\ At(j, "wait")
        /\ IF lock /\ job[j].tries <= Patience
           THEN job' = [job EXCEPT ![j].tries = @ + 1] /\ lock' = patient
           ELSE job' = [job EXCEPT ![j].at = "take", ![j].tries = 0] /\ UNCHANGED lock
        /\ UNCHANGED <<daemon, rules, monitors, monitorLock, switch, reach, history>>
    BY Zenon DEF Wait, patient
  <2> QED BY <2>1, <2>2 DEF At, history
<1>2. PICK r \in JobType :
        /\ job' = [job EXCEPT ![j] = r]
        /\ r.at \in {"wait", "take"} /\ r.cmd = job[j].cmd /\ r.arg = job[j].arg
  <2>1. job[j] \in JobType /\ job[j].tries \in 0..(Patience + 1) /\ Patience \in Nat
    BY SsrPlusAssumption DEF TypeOK, JobType
  <2>2. CASE lock /\ job[j].tries <= Patience /\ job' = [job EXCEPT ![j].tries = @ + 1]
    <3> DEFINE t == job[j].tries + 1
    <3> DEFINE r == [job[j] EXCEPT !.tries = t]
    <3>1. t \in 0..(Patience + 1)
      BY <2>1, <2>2
    <3>2. job' = [job EXCEPT ![j] = r]
      BY <2>2
    <3> HIDE DEF t
    <3>3. r \in JobType /\ r.at = job[j].at /\ r.cmd = job[j].cmd /\ r.arg = job[j].arg
      BY <2>1, <3>1 DEF JobType
    <3> QED BY <1>1, <3>2, <3>3
  <2>3. CASE job' = [job EXCEPT ![j].at = "take", ![j].tries = 0]
    <3> DEFINE r == [job[j] EXCEPT !.at = "take", !.tries = 0]
    <3>1. 0 \in 0..(Patience + 1)
      BY <2>1
    <3>2. r \in JobType /\ r.at = "take" /\ r.cmd = job[j].cmd /\ r.arg = job[j].arg
      BY <2>1, <3>1 DEF JobType
    <3>3. job' = [job EXCEPT ![j] = r]
      BY <2>3 DEF TypeOK
    <3> QED BY <3>2, <3>3
  <2> QED BY <1>1, <2>2, <2>3
<1>3. /\ job' \in JobStates
      /\ \A k \in Jobs : k # j => job'[k] = job[k]
      /\ job'[j].at \in {"wait", "take"} /\ job'[j].cmd = job[j].cmd
      /\ \A k \in Jobs : job'[k].arg = job[k].arg /\ Global(k)' = Global(k)
  <2>1. job \in JobStates
    BY DEF TypeOK, JobStates, JobType
  <2>2. /\ job' \in JobStates /\ job'[j].arg = job[j].arg
        /\ \A k \in Jobs : k # j => job'[k] = job[k]
    BY <1>2, <2>1 DEF JobStates
  <2>3. job'[j].at \in {"wait", "take"} /\ job'[j].cmd = job[j].cmd
    BY <1>2, <2>1 DEF JobStates
  <2>4. \A k \in Jobs : job'[k].arg = job[k].arg
    BY <2>2
  <2> QED BY <2>2, <2>3, <2>4 DEF Global
<1>11. TypeOK'
  <2>1. lock' \in BOOLEAN
    BY <1>1 DEF TypeOK
  <2> QED BY <1>1, <1>3, <2>1 DEF TypeOK, JobStates, JobType
<1>4. Counted'
  BY <1>1, <1>3, LateStays DEF Counted, Late, Starting
<1>5. Held'
  BY <1>1, <1>3 DEF Held, Late, Starting, TypeOK
<1>6. OnlyAsked'
  BY <1>1, <1>3 DEF OnlyAsked, Working
<1>7. RulesFollow' /\ MonitorFollows'
  BY <1>1, <1>3 DEF RulesFollow, MonitorFollows, Waiting
<1>8. Alone'
  BY <1>1, <1>3 DEF Alone, Working
<1>9. Stopped'
  BY <1>1, <1>3 DEF Stopped, Idle, Working, Waiting
<1>10. Known'
  BY <1>1, <1>3 DEF Known, Idle, Waiting, Late, Starting
<1> QED BY <1>4, <1>5, <1>6, <1>7, <1>8, <1>9, <1>10, <1>11

\* set_lock.
LEMMA TakeKeeps ==
  ASSUME IndInv, NEW j \in Jobs, Take(j)
  PROVE  IndInv'
<1> USE DEF IndInv
<1>1. PICK there \in {"stop", "start"} :
        /\ Goto(j, there) /\ lock' = TRUE
        /\ job[j].at = IF there = "stop" THEN "take" ELSE "gap"
        /\ UNCHANGED <<daemon, rules, monitors, monitorLock, switch, reach, asked, overlapped>>
  BY DEF Take, At, history
<1>2. /\ \A k \in Jobs : k # j => job'[k] = job[k]
      /\ job'[j].at = there /\ job'[j].cmd = job[j].cmd
      /\ \A k \in Jobs : job'[k].arg = job[k].arg /\ Global(k)' = Global(k)
  BY <1>1, GotoMoves DEF Late, Starting
<1>3. TypeOK'
  BY <1>1, GotoMoves DEF TypeOK, JobStates, JobType, Late, Starting
<1>4. Counted'
  BY <1>1, <1>2, LateStays DEF Counted, Late, Starting
<1>5. Held'
  BY <1>1, <1>2 DEF Held, Late, Starting
<1>6. OnlyAsked'
  BY <1>1, <1>2 DEF OnlyAsked, Working
<1>7. RulesFollow' /\ MonitorFollows'
  BY <1>1, <1>2 DEF RulesFollow, MonitorFollows, Waiting, Starting
<1>8. Alone'
  BY <1>1, <1>2 DEF Alone, Working
<1>9. Stopped'
  BY <1>1, <1>2 DEF Stopped, Idle, Working, Waiting
<1>10. Known'
  BY <1>1, <1>2 DEF Known, Idle, Waiting, Late, Starting
<1> QED BY <1>3, <1>4, <1>5, <1>6, <1>7, <1>8, <1>9, <1>10

\* stop kills what runs.
LEMMA StopKeeps ==
  ASSUME IndInv, NEW j \in Jobs, Stop(j)
  PROVE  IndInv'
<1> USE DEF IndInv
<1>1. /\ job[j].at = "stop" /\ Goto(j, "stopping")
      /\ rules' = Nobody /\ daemon' = Nobody /\ monitors' = 0
      /\ switch' = IF job[j].arg = Nobody THEN NoSwitch ELSE switch
      /\ UNCHANGED <<lock, monitorLock, reach, asked, overlapped>>
  BY DEF Stop, At, history
<1>2. /\ \A k \in Jobs : k # j => job'[k] = job[k]
      /\ job'[j].at = "stopping" /\ job'[j].cmd = job[j].cmd
      /\ \A k \in Jobs : job'[k].arg = job[k].arg /\ Global(k)' = Global(k)
  BY <1>1, GotoMoves DEF Late
<1>3. TypeOK'
  <2>1. NoSwitch \in SwitchStates
    BY SsrPlusAssumption DEF NoSwitch, SwitchStates
  <2>2. 0 \in 0..Cardinality(Jobs)
    BY JobsFinite
  <2> QED BY <1>1, <2>1, <2>2, GotoMoves DEF TypeOK, JobStates, JobType, SwitchStates, Late
<1>4. Counted'
  <2>1. /\ LateJobs' \subseteq Jobs
        /\ Cardinality(LateJobs') \in Nat /\ Cardinality(LateJobs') <= Cardinality(Jobs)
    BY JobsFinite DEF LateJobs
  <2> QED BY <1>1, <2>1, JobsFinite DEF Counted
<1>5. Held'
  BY <1>1, <1>2 DEF Held, Late
<1>6. OnlyAsked'
  BY <1>1, <1>2 DEF OnlyAsked, Working
<1>7. RulesFollow' /\ MonitorFollows'
  BY <1>1, <1>2 DEF RulesFollow, MonitorFollows
<1>8. Alone'
  BY <1>1, <1>2 DEF Alone, Working
<1>9. Stopped'
  BY <1>1, <1>2 DEF Stopped, Idle, Working, NoSwitch
<1>10. Known'
  <2>1. ~overlapped => \A k \in Jobs : Working(k) => k = j
    BY <1>1 DEF Alone, Working
  <2>2. ~overlapped /\ switch'.at # "dead" => switch'.cur = Global(j)
    BY <1>1 DEF Known, Waiting, Global, NoSwitch
  <2> QED BY <1>1, <1>2, <2>1, <2>2 DEF Known, Idle, Working, Waiting, Late, Starting
<1> QED BY <1>3, <1>4, <1>5, <1>6, <1>7, <1>8, <1>9, <1>10

\* The end of stop: a stop is over, a restart goes on.
LEMMA StopEndsKeeps ==
  ASSUME IndInv, NEW j \in Jobs, StopEnds(j)
  PROVE  IndInv'
<1> USE DEF IndInv
<1>1. /\ job[j].at = "stopping"
      /\ job' = [job EXCEPT ![j] = IF @.cmd = "stop" THEN NoJob ELSE [@ EXCEPT !.at = "gap"]]
      /\ daemon' = Nobody /\ monitorLock' = FALSE /\ lock' = FALSE
      /\ UNCHANGED <<rules, monitors, switch, reach, asked, overlapped>>
  BY DEF StopEnds, At, history
<1>2. /\ \A k \in Jobs : k # j => job'[k] = job[k] /\ Global(k)' = Global(k)
      /\ job[j].cmd = "stop" => job'[j] = NoJob
      /\ job[j].cmd # "stop" => /\ job'[j].at = "gap" /\ job'[j].cmd = job[j].cmd
                                /\ job'[j].arg = job[j].arg /\ Global(j)' = Global(j)
  BY <1>1 DEF TypeOK, Global
<1>3. TypeOK'
  <2> DEFINE r == IF job[j].cmd = "stop" THEN NoJob ELSE [job[j] EXCEPT !.at = "gap"]
  <2>1. 0 \in 0..(Patience + 1)
    BY SsrPlusAssumption
  <2>2. job \in JobStates /\ job[j] \in JobType
    BY DEF TypeOK, JobStates, JobType
  <2>3. NoJob \in JobType
    BY <2>1 DEF NoJob, JobType, Commands
  <2>4. [job[j] EXCEPT !.at = "gap"] \in JobType
    BY <2>2 DEF JobType
  <2>5. r \in JobType
    BY <2>3, <2>4
  <2>6. job' = [job EXCEPT ![j] = r]
    BY <1>1
  <2> HIDE DEF r
  <2>7. job' \in JobStates
    BY <2>2, <2>5, <2>6 DEF JobStates
  <2> QED BY <1>1, <2>7 DEF TypeOK, JobStates, JobType
<1>4. Counted'
  <2>1. CASE job[j].cmd = "stop"
    BY <1>1, <1>2, <2>1, LateLeaves DEF Counted, Late, Starting, NoJob, TypeOK
  <2>2. CASE job[j].cmd # "stop"
    BY <1>1, <1>2, <2>2, LateStays DEF Counted, Late, Starting
  <2> QED BY <2>1, <2>2
<1>5. Held'
  BY <1>1 DEF Held
<1>6. OnlyAsked'
  BY <1>1, <1>2 DEF OnlyAsked, Working, NoJob
<1>7. RulesFollow' /\ MonitorFollows'
  <2>1. asked = {"restart"} => job[j].cmd # "stop"
    BY <1>1 DEF OnlyAsked, Working
  <2> QED BY <1>1, <1>2, <2>1 DEF RulesFollow, MonitorFollows, Starting
<1>8. Alone'
  BY <1>1, <1>2 DEF Alone, Working, NoJob
<1>9. Stopped'
  BY <1>1, <1>2 DEF Stopped, Alone, Idle, Working, Waiting, NoJob
<1>10. Known'
  <2>1. ~overlapped => \A k \in Jobs : Working(k) => k = j
    BY <1>1 DEF Alone, Working
  <2>2. \A k \in Jobs : job'[k].at # "idle" /\ ~overlapped => k = j /\ job'[k].at = "gap" /\ Global(k)' = Global(k)
    BY <1>2, <2>1 DEF Working, NoJob
  <2>3. ~overlapped /\ switch.at # "dead" => switch.cur = Global(j)
    BY <1>1 DEF Known, Late
  <2> QED BY <1>1, <2>2, <2>3 DEF Known, Idle, Waiting, Late, Starting
<1> QED BY <1>3, <1>4, <1>5, <1>6, <1>7, <1>8, <1>9, <1>10

\* start: the processes.
LEMMA StartRunKeeps ==
  ASSUME IndInv, NEW j \in Jobs, StartRun(j)
  PROVE  IndInv'
<1> USE DEF IndInv
<1>1. /\ job[j].at = "start" /\ Goto(j, "rules")
      /\ daemon' = IF daemon = Nobody THEN Global(j) ELSE daemon
      /\ UNCHANGED <<lock, rules, monitors, monitorLock, switch, reach, asked, overlapped>>
  BY DEF StartRun, At, history
<1>2. /\ \A k \in Jobs : k # j => job'[k] = job[k]
      /\ job'[j].at = "rules" /\ job'[j].cmd = job[j].cmd
      /\ \A k \in Jobs : job'[k].arg = job[k].arg /\ Global(k)' = Global(k)
  BY <1>1, GotoMoves DEF Late, Starting
<1>3. Global(j) \in Names
  BY SsrPlusAssumption DEF Global, TypeOK
<1>4. TypeOK'
  BY <1>1, <1>3, GotoMoves DEF TypeOK, JobStates, JobType, Late, Starting
<1>5. Counted'
  BY <1>1, <1>2, LateStays DEF Counted, Late, Starting
<1>6. Held'
  BY <1>1, <1>2 DEF Held, Late, Starting
<1>7. OnlyAsked'
  BY <1>1, <1>2 DEF OnlyAsked, Working
<1>8. RulesFollow' /\ MonitorFollows'
  BY <1>1, <1>2, <1>3, SsrPlusAssumption DEF RulesFollow, MonitorFollows, Waiting, Starting
<1>9. Alone'
  BY <1>1, <1>2 DEF Alone, Working
<1>10. Stopped'
  BY <1>1, <1>2 DEF Stopped, Working, Waiting
<1>11. Known'
  <2>1. ~overlapped => \A k \in Jobs : Working(k) => k = j
    BY <1>1 DEF Alone, Working
  <2>2. \A k \in Jobs : ~overlapped /\ k # j => job'[k].at = "idle"
    BY <1>2, <2>1 DEF Working
  <2>3. ~overlapped => (switch'.at # "dead" => switch'.cur = Global(j)) /\ daemon' \in {Nobody, Global(j)}
    BY <1>1, <1>3, SsrPlusAssumption DEF Known, Late, Starting, NoSwitch, Global
  <2> QED BY <1>1, <1>2, <2>2, <2>3 DEF Known, Idle, Waiting, Late, Starting
<1> QED BY <1>4, <1>5, <1>6, <1>7, <1>8, <1>9, <1>10, <1>11

\* start: the rules.
LEMMA StartRulesKeeps ==
  ASSUME IndInv, NEW j \in Jobs, StartRules(j)
  PROVE  IndInv'
<1> USE DEF IndInv
<1>1. /\ job[j].at = "rules" /\ Goto(j, "switch")
      /\ rules' = Global(j)
      /\ UNCHANGED <<lock, daemon, monitors, monitorLock, switch, reach, asked, overlapped>>
  BY DEF StartRules, At, history
<1>2. /\ \A k \in Jobs : k # j => job'[k] = job[k]
      /\ job'[j].at = "switch" /\ job'[j].cmd = job[j].cmd
      /\ \A k \in Jobs : job'[k].arg = job[k].arg /\ Global(k)' = Global(k)
  BY <1>1, GotoMoves DEF Late, Starting
<1>3. Global(j) \in Names
  BY SsrPlusAssumption DEF Global, TypeOK
<1>4. TypeOK'
  BY <1>1, <1>3, GotoMoves DEF TypeOK, JobStates, JobType, Late, Starting
<1>5. Counted'
  BY <1>1, <1>2, LateStays DEF Counted, Late, Starting
<1>6. Held'
  BY <1>1, <1>2 DEF Held, Late, Starting
<1>7. OnlyAsked'
  BY <1>1, <1>2 DEF OnlyAsked, Working
<1>8. RulesFollow' /\ MonitorFollows'
  BY <1>1, <1>2, <1>3, SsrPlusAssumption DEF RulesFollow, MonitorFollows, Waiting, Starting
<1>9. Alone'
  BY <1>1, <1>2 DEF Alone, Working
<1>10. Stopped'
  BY <1>1, <1>2 DEF Stopped, Working, Waiting
<1>11. Known'
  <2>1. ~overlapped => \A k \in Jobs : Working(k) => k = j
    BY <1>1 DEF Alone, Working
  <2>2. \A k \in Jobs : ~overlapped /\ k # j => job'[k].at = "idle"
    BY <1>2, <2>1 DEF Working
  <2>3. ~overlapped => (switch'.at # "dead" => switch'.cur = Global(j)) /\ daemon' \in {Nobody, Global(j)}
    BY <1>1, <1>3, SsrPlusAssumption DEF Known, Late, Starting, NoSwitch, Global
  <2> QED BY <1>1, <1>2, <2>2, <2>3 DEF Known, Idle, Waiting, Late, Starting
<1> QED BY <1>4, <1>5, <1>6, <1>7, <1>8, <1>9, <1>10, <1>11

\* start: ssr-switch.
LEMMA StartSwitchKeeps ==
  ASSUME IndInv, NEW j \in Jobs, StartSwitch(j)
  PROVE  IndInv'
<1> USE DEF IndInv
<1>1. /\ job[j].at = "switch" /\ Goto(j, "monitor")
      /\ switch' = IF job[j].arg = Nobody /\ switch.at = "dead"
                   THEN [NoSwitch EXCEPT !.at = "sleep"] ELSE switch
      /\ UNCHANGED <<lock, daemon, rules, monitors, monitorLock, reach, asked, overlapped>>
  BY DEF StartSwitch, At, history
<1>2. /\ \A k \in Jobs : k # j => job'[k] = job[k]
      /\ job'[j].at = "monitor" /\ job'[j].cmd = job[j].cmd
      /\ \A k \in Jobs : job'[k].arg = job[k].arg /\ Global(k)' = Global(k)
  BY <1>1, GotoMoves DEF Late, Starting
<1>3. Global(j) \in Names
  BY SsrPlusAssumption DEF Global, TypeOK
<1>4. TypeOK'
  <2>1. [NoSwitch EXCEPT !.at = "sleep"] \in SwitchStates
    <3>1. NoSwitch \in SwitchStates
      BY SsrPlusAssumption DEF NoSwitch, SwitchStates
    <3> QED BY <3>1 DEF SwitchStates
  <2> QED BY <1>1, <2>1, GotoMoves DEF TypeOK, JobStates, JobType, SwitchStates, Late, Starting
<1>5. Counted'
  BY <1>1, <1>2, LateStays DEF Counted, Late, Starting
<1>6. Held'
  BY <1>1, <1>2 DEF Held, Late, Starting
<1>7. OnlyAsked'
  BY <1>1, <1>2 DEF OnlyAsked, Working
<1>8. RulesFollow' /\ MonitorFollows'
  BY <1>1, <1>2, <1>3, SsrPlusAssumption DEF RulesFollow, MonitorFollows, Waiting, Starting
<1>9. Alone'
  BY <1>1, <1>2 DEF Alone, Working
<1>10. Stopped'
  BY <1>1, <1>2 DEF Stopped, Working, Waiting
<1>11. Known'
  <2>1. ~overlapped => \A k \in Jobs : Working(k) => k = j
    BY <1>1 DEF Alone, Working
  <2>2. \A k \in Jobs : ~overlapped /\ k # j => job'[k].at = "idle"
    BY <1>2, <2>1 DEF Working
  <2>3. ~overlapped => (switch'.at # "dead" => switch'.cur = Global(j)) /\ daemon' \in {Nobody, Global(j)}
    BY <1>1, <1>3, SsrPlusAssumption DEF Known, Late, Starting, NoSwitch, Global
  <2> QED BY <1>1, <1>2, <2>2, <2>3 DEF Known, Idle, Waiting, Late, Starting
<1> QED BY <1>4, <1>5, <1>6, <1>7, <1>8, <1>9, <1>10, <1>11

\* start: ssr-monitor, and the end.
LEMMA StartEndsKeeps ==
  ASSUME IndInv, NEW j \in Jobs, StartEnds(j)
  PROVE  IndInv'
<1> USE DEF IndInv
<1>1. /\ job[j].at = "monitor" /\ job' = [job EXCEPT ![j] = NoJob]
      /\ monitors' = IF monitorLock THEN monitors ELSE monitors + 1
      /\ monitorLock' = TRUE /\ lock' = FALSE
      /\ switch' = IF job[j].arg # Nobody THEN [switch EXCEPT !.waits = FALSE] ELSE switch
      /\ UNCHANGED <<daemon, rules, reach, asked, overlapped>>
  BY DEF StartEnds, At, history
<1>2. /\ \A k \in Jobs : k # j => job'[k] = job[k] /\ Global(k)' = Global(k)
      /\ job'[j] = NoJob /\ switch'.at = switch.at /\ switch'.cur = switch.cur
  BY <1>1 DEF TypeOK, Global
<1>3. Counted' /\ monitors' \in 0..Cardinality(Jobs)
  <2>1. /\ Cardinality(LateJobs)' = Cardinality(LateJobs) - 1
        /\ Cardinality(LateJobs) \in Nat /\ Cardinality(Jobs) \in Nat
    BY <1>1, <1>2, LateLeaves DEF Late, Starting, NoJob
  <2>2. Cardinality(LateJobs)' \in Nat
    BY JobsFinite DEF LateJobs
  <2> QED BY <1>1, <2>1, <2>2 DEF Counted, TypeOK
<1>4. TypeOK'
  <2>1. 0 \in 0..(Patience + 1)
    BY SsrPlusAssumption
  <2>2. job' \in JobStates
    BY <1>1, <2>1 DEF TypeOK, JobStates, JobType, NoJob, Commands
  <2> QED BY <1>1, <1>3, <2>2 DEF TypeOK, JobStates, JobType
<1>5. Held'
  BY <1>1 DEF Held
<1>6. OnlyAsked'
  BY <1>1, <1>2 DEF OnlyAsked, Working, NoJob
<1>7. RulesFollow'
  BY <1>1, <1>2 DEF RulesFollow, Waiting
<1>8. MonitorFollows'
  <2>1. monitors' = 0 => monitors = 0 /\ monitorLock
    BY <1>1, JobsFinite DEF TypeOK
  <2> QED BY <1>1, <1>2, <2>1 DEF MonitorFollows, Waiting
<1>9. Alone'
  BY <1>1, <1>2 DEF Alone, Working, NoJob
<1>10. Stopped'
  BY <1>1 DEF Stopped, Working, Waiting
<1>11. Known'
  <2>1. ~overlapped => \A k \in Jobs : job'[k].at = "idle"
    BY <1>1, <1>2 DEF Alone, Working, NoJob
  <2>2. ~overlapped /\ daemon # Nobody =>
          rules = daemon /\ (switch.at # "dead" => switch.cur = daemon)
    BY <1>1 DEF Known, Late, Starting
  <2> QED BY <1>1, <1>2, <2>1, <2>2 DEF Known, Waiting, Late, Starting
<1> QED BY <1>3, <1>4, <1>5, <1>6, <1>7, <1>8, <1>9, <1>10, <1>11


\* ssr-switch goes on by itself.
LEMMA ContinueKeeps ==
  ASSUME IndInv, NEW there \in {"sleep", "check"}, NEW normal \in BOOLEAN,
         switch.at # "dead", Continue(there, normal)
  PROVE  IndInv'
<1> USE DEF IndInv
<1>1. /\ switch' = [switch EXCEPT !.at = there, !.normal = normal]
      /\ UNCHANGED <<job, lock, daemon, rules, monitors, monitorLock, reach, asked, overlapped>>
  BY DEF Continue, history
<1>2. switch' \in SwitchStates /\ switch'.cur = switch.cur
  <2> DEFINE woken == [switch EXCEPT !.at = there]
  <2>1. woken \in SwitchStates /\ woken.cur = switch.cur
    BY DEF TypeOK, SwitchStates
  <2>2. switch' = [woken EXCEPT !.normal = normal]
    BY <1>1 DEF TypeOK
  <2> HIDE DEF woken
  <2> QED BY <2>1, <2>2 DEF SwitchStates
<1>3. TypeOK'
  BY <1>1, <1>2 DEF TypeOK, SwitchStates
<1>4. Counted' /\ Held' /\ OnlyAsked' /\ RulesFollow' /\ MonitorFollows' /\ Alone'
  BY <1>1 DEF Counted, LateJobs, Held, OnlyAsked, RulesFollow, MonitorFollows, Alone, Working
<1>5. Stopped'
  BY <1>1 DEF Stopped, Working, Idle
<1>6. Known'
  BY <1>1, <1>2 DEF Known, Idle, Global
<1> QED BY <1>3, <1>4, <1>5, <1>6

\* ssr-switch calls the script.
LEMMA SwitchToKeeps ==
  ASSUME IndInv, NEW s \in Names, NEW there \in {"back", "moved"},
         NEW locate \in 0..Len(Servers), switch.at # "dead", SwitchTo(s, there, locate)
  PROVE  IndInv'
<1> USE DEF IndInv
<1>1. PICK j \in Jobs : Begin(j, "restart", s)
  BY DEF SwitchTo
<1>2. /\ switch' = [switch EXCEPT !.cur = s, !.at = there, !.locate = locate, !.waits = TRUE]
      /\ UNCHANGED <<lock, daemon, rules, monitors, monitorLock, reach>>
  BY DEF SwitchTo
<1>3. switch' \in SwitchStates /\ switch'.cur = s
  <2> DEFINE one == [switch EXCEPT !.cur = s]
             two == [one EXCEPT !.at = there]
             three == [two EXCEPT !.locate = locate]
  <2>1. one \in SwitchStates /\ one.cur = s
    BY DEF TypeOK, SwitchStates
  <2> HIDE DEF one
  <2>2. two \in SwitchStates /\ two.cur = s
    BY <2>1 DEF SwitchStates
  <2> HIDE DEF two
  <2>3. three \in SwitchStates /\ three.cur = s
    BY <2>2 DEF SwitchStates
  <2> HIDE DEF three
  <2>4. switch' = [three EXCEPT !.waits = TRUE]
    BY <1>2 DEF one, two, three
  <2> QED BY <2>3, <2>4 DEF SwitchStates
<1>4. monitors' \in Nat /\ monitors' <= monitors
  BY <1>2, JobsFinite DEF TypeOK
<1>5. "restart" \in Commands
  BY DEF Commands
<1> QED BY <1>1, <1>2, <1>3, <1>4, <1>5, BeginKeeps DEF SwitchStates

\* What select_proxy takes is one of the servers.
LEMMA CandidateIsServer ==
  ASSUME TypeOK, Candidates # {}
  PROVE  LET i == CHOOSE i \in Candidates : \A k \in Candidates : i <= k
         IN i \in 1..Len(Servers) /\ Servers[i] \in Names
<1>1. Candidates \subseteq Nat /\ Candidates \subseteq 1..Len(Servers)
  BY SsrPlusAssumption DEF Candidates
<1>2. \E i \in Candidates : \A k \in Candidates : i <= k
  BY <1>1, First
<1>3. \A i \in 1..Len(Servers) : Servers[i] \in Names
  BY SsrPlusAssumption
<1> QED BY <1>1, <1>2, <1>3

\* Every step of ssr-switch.
LEMMA SwitchKeeps ==
  ASSUME IndInv, SsrSwitch
  PROVE  IndInv'
<1>1. Main \in Names /\ switch.cur \in Names /\ switch.locate \in 0..Len(Servers)
      /\ switch.normal \in BOOLEAN
  BY SsrPlusAssumption DEF IndInv, TypeOK
<1>2. CASE GoesBack
  BY <1>1, <1>2, SwitchToKeeps DEF GoesBack
<1>3. CASE TurnsToCheck
  BY <1>1, <1>3, ContinueKeeps DEF TurnsToCheck
<1>4. CASE Content
  BY <1>4, ContinueKeeps DEF Content
<1>5. CASE Moves
  <2>1. CASE Candidates = {}
    BY <1>1, <1>5, <2>1, SwitchToKeeps DEF Moves
  <2>2. CASE Candidates # {}
    <3> DEFINE i == CHOOSE i \in Candidates : \A k \in Candidates : i <= k
    <3>1. i \in 1..Len(Servers) /\ Servers[i] \in Names
      BY <2>2, CandidateIsServer DEF IndInv
    <3>2. switch.at = "check" /\ SwitchTo(Servers[i], "moved", i)
      BY <1>5, <2>2 DEF Moves
    <3>3. i \in 0..Len(Servers)
      BY <3>1, SsrPlusAssumption
    <3> HIDE DEF i
    <3> QED BY <3>1, <3>2, <3>3, SwitchToKeeps
  <2> QED BY <2>1, <2>2
<1>6. CASE Moved
  BY <1>6, ContinueKeeps DEF Moved
<1> QED BY <1>2, <1>3, <1>4, <1>5, <1>6 DEF SsrSwitch

\* What the world does.
LEMMA WorldKeeps ==
  ASSUME IndInv, Crash \/ ReachChanges \/ UNCHANGED vars
  PROVE  IndInv'
<1> USE DEF IndInv
<1>1. /\ UNCHANGED <<job, lock, rules, monitors, monitorLock, switch, asked, overlapped>>
      /\ daemon' \in {daemon, Nobody} /\ reach' \subseteq Names
  BY DEF Crash, ReachChanges, vars, history, TypeOK
<1>2. TypeOK'
  BY <1>1 DEF TypeOK
<1>3. Counted' /\ Held' /\ OnlyAsked' /\ RulesFollow' /\ MonitorFollows' /\ Alone'
  BY <1>1 DEF Counted, LateJobs, Held, OnlyAsked, RulesFollow, MonitorFollows, Alone, Working
<1>4. Stopped' /\ Known'
  BY <1>1 DEF Stopped, Known, Working, Idle, Global
<1> QED BY <1>2, <1>3, <1>4

\* Every step keeps the invariant.
THEOREM Inductive == Spec => []IndInv
<1>1. Init => IndInv
  BY InitInductive
<1>2. IndInv /\ [Next]_vars => IndInv'
  <2> SUFFICES ASSUME IndInv, [Next]_vars PROVE IndInv'
    OBVIOUS
  <2>1. ASSUME NEW j \in Jobs, Run(j) PROVE IndInv'
    BY <2>1, WaitKeeps, TakeKeeps, StopKeeps, StopEndsKeeps, StartRunKeeps, StartRulesKeeps,
       StartSwitchKeeps, StartEndsKeeps DEF Run
  <2>2. ASSUME NEW j \in Jobs, MonitorActs(j) PROVE IndInv'
    <3>1. /\ Begin(j, "restart", Nobody)
          /\ UNCHANGED <<lock, daemon, rules, monitorLock, switch, reach>>
          /\ monitors > 0 /\ monitors' = monitors - 1
      BY <2>2 DEF MonitorActs
    <3>2. monitors' \in Nat /\ monitors' <= monitors
      BY <3>1, JobsFinite DEF IndInv, TypeOK
    <3>3. switch' \in SwitchStates /\ "restart" \in Commands
      BY <3>1 DEF IndInv, TypeOK, SwitchStates, Commands
    <3> QED BY <3>1, <3>2, <3>3, BeginKeeps
  <2>3. ASSUME NEW j \in Jobs, NEW cmd \in Commands, UserAsks(j, cmd) PROVE IndInv'
    <3>1. /\ Begin(j, cmd, Nobody)
          /\ UNCHANGED <<lock, daemon, rules, monitors, monitorLock, switch, reach>>
      BY <2>3 DEF UserAsks
    <3>2. monitors' \in Nat /\ monitors' <= monitors /\ switch' \in SwitchStates
      BY <3>1, JobsFinite DEF IndInv, TypeOK, SwitchStates
    <3> QED BY <3>1, <3>2, BeginKeeps
  <2> QED BY <2>1, <2>2, <2>3, SwitchKeeps, WorldKeeps DEF Next
<1> QED BY <1>1, <1>2, PTL DEF Spec

\* The variables keep their types, and no more monitors run than invocations could.
THEOREM TypeCorrect == Spec => []TypeOK
<1>1. IndInv => TypeOK
  BY DEF IndInv
<1> QED BY <1>1, Inductive, PTL

\* With no invocation under way the lock file is gone (set_lock, unset_lock, unlock).
THEOREM LockGoes == Spec => []NoStaleLock
<1>1. IndInv => NoStaleLock
  BY DEF IndInv, Held, NoStaleLock, Idle, Late, Starting
<1> QED BY <1>1, Inductive, PTL

\* However many restarts overlap, rules and a monitor are there in the end.
THEOREM RestartsComeUp == Spec => []ComesUp
<1>1. IndInv => ComesUp
  <2> SUFFICES ASSUME IndInv, Idle, asked = {"restart"} PROVE rules # Nobody /\ monitors > 0
    BY DEF ComesUp
  <2>1. \A j \in Jobs : job[j].at \notin Waiting \cup {"stopping"} \cup Starting
    BY DEF Idle, Waiting, Starting
  <2>2. rules # Nobody /\ monitors # 0
    BY <2>1 DEF IndInv, RulesFollow, MonitorFollows, Waiting, Starting
  <2> QED BY <2>2, JobsFinite DEF IndInv, TypeOK
<1> QED BY <1>1, Inductive, PTL

\* A stop that overlaps with nothing leaves nothing that runs, or would start it again.
THEOREM StopsForGood == Spec => []StopIsFinal
<1>1. IndInv => StopIsFinal
  BY DEF IndInv, Stopped, StopIsFinal, Idle, Waiting
<1> QED BY <1>1, Inductive, PTL

\* Without overlap the rules and ssr-switch's idea are those of the server in use.
THEOREM SwitchKnows == Spec => []SwitchKnowsAlone
<1>1. IndInv => SwitchKnowsAlone
  BY DEF IndInv, Known, SwitchKnowsAlone
<1> QED BY <1>1, Inductive, PTL
=============================================================================
