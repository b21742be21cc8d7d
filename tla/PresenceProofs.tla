--------------------------- MODULE PresenceProofs ---------------------------
(***************************************************************************)
(* Proofs, for every set of sessions, phones and processes, any number of  *)
(* heartbeat goroutines and any heartbeat timeout, of what Presence says   *)
(* about the online set in Redis.                                          *)
(***************************************************************************)
EXTENDS Presence, TLAPS

USE PresenceAssumption

-----------------------------------------------------------------------------
(* Helpers: the tasks of a session and the ages of scores.                 *)

\* The bound of the ages is a positive number, and Off lies beyond it.
LEMMA Bounds ==
  /\ HeartbeatTimeout \in Nat /\ HeartbeatTimeout >= 1
  /\ TTL \in Nat /\ TTL = 2 * HeartbeatTimeout /\ TTL >= 2
  /\ Off = TTL + 1 /\ Off \notin Ages
BY DEF TTL, Off, Ages

\* A score that grows older stays within the ages, and never gets younger.
LEMMA OlderAge ==
  ASSUME NEW a \in Ages
  PROVE  /\ Older(a) \in Ages
         /\ Older(a) = a + 1 \/ (a = TTL /\ Older(a) = a)
BY Bounds DEF Older, Ages

\* Replacing one task leaves the table of tasks well-typed.
LEMMA TaskUpdate ==
  ASSUME task \in [Conns -> [Slots -> Task]],
         NEW c \in Conns, NEW s \in Slots, NEW t \in Task,
         task' = [task EXCEPT ![c][s] = t]
  PROVE  /\ task' \in [Conns -> [Slots -> Task]]
         /\ task'[c][s] = t
         /\ \A d \in Conns, u \in Slots :
              d # c \/ u # s => task'[d][u] = task[d][u]
<1>1. task[c] \in [Slots -> Task] OBVIOUS
<1>2. [task[c] EXCEPT ![s] = t] \in [Slots -> Task] BY <1>1
<1>3. task' = [task EXCEPT ![c] = [task[c] EXCEPT ![s] = t]] OBVIOUS
<1>4. task' \in [Conns -> [Slots -> Task]] BY <1>2, <1>3
<1>5. task'[c] = [task[c] EXCEPT ![s] = t] BY <1>3
<1>6. \A d \in Conns : d # c => task'[d] = task[d] BY <1>3
<1>7. \A u \in Slots : u # s => task'[c][u] = task[c][u] BY <1>5, <1>1
<1>8. task'[c][s] = t BY <1>5, <1>1
<1> QED BY <1>4, <1>6, <1>7, <1>8

\* The step from the hash to the sorted set replaces the task by one that is
\* as old.
LEMMA WriteHashTask ==
  ASSUME task \in [Conns -> [Slots -> Task]],
         NEW c \in Conns, NEW s \in Slots, WriteHash(c, s)
  PROVE  LET t == [at |-> "zset", age |-> task[c][s].age]
         IN  t \in Task /\ task' = [task EXCEPT ![c][s] = t]
<1>1. task[c][s] \in Task OBVIOUS
<1>2. [at |-> "zset", age |-> task[c][s].age] \in Task BY <1>1 DEF Task
<1>3. [task[c][s] EXCEPT !.at = "zset"]
        = [at |-> "zset", age |-> task[c][s].age]
  BY <1>1 DEF Task
<1>4. task' = [task EXCEPT ![c][s] = [task[c][s] EXCEPT !.at = "zset"]]
  BY DEF WriteHash
<1> QED BY <1>2, <1>3, <1>4

\* The constants a goroutine is set to are tasks.
LEMMA TaskConstants ==
  /\ Idle \in Task /\ Idle.at = "idle" /\ Idle.age = 0
  /\ [at |-> "spawned", age |-> 0] \in Task
  /\ [at |-> "hash", age |-> 0] \in Task
  /\ [at |-> "spawned", age |-> 0] # Idle
  /\ [at |-> "hash", age |-> 0] # Idle
BY DEF Idle, Task

\* A tick ends no goroutine and moves none on.
LEMMA TickTasks ==
  ASSUME task \in [Conns -> [Slots -> Task]], Tick
  PROVE  /\ task' \in [Conns -> [Slots -> Task]]
         /\ \A d \in Conns, u \in Slots :
              /\ task'[d][u].at = task[d][u].at
              /\ task'[d][u] = Idle <=> task[d][u] = Idle
<1>1. \A d \in Conns, u \in Slots :
        task'[d][u] = IF task[d][u].at = "idle" THEN Idle
                      ELSE [task[d][u] EXCEPT !.age = 1]
  BY DEF Tick
<1>2. \A d \in Conns, u \in Slots : task[d][u] \in Task OBVIOUS
<1>3. ASSUME NEW d \in Conns, NEW u \in Slots
      PROVE  /\ task'[d][u] \in Task
             /\ task'[d][u].at = task[d][u].at
             /\ task'[d][u] = Idle <=> task[d][u] = Idle
  <2>1. task[d][u] \in Task /\ task[d][u].age = 0 BY <1>2 DEF Tick
  <2>2. CASE task[d][u].at = "idle"
    <3>1. task[d][u] = Idle BY <2>1, <2>2 DEF Task, Idle
    <3> QED BY <3>1, <2>2, <1>1, TaskConstants
  <2>3. CASE task[d][u].at # "idle"
    <3>0. [task[d][u] EXCEPT !.age = 1] = [at |-> task[d][u].at, age |-> 1]
      BY <2>1 DEF Task
    <3>1. task'[d][u] = [at |-> task[d][u].at, age |-> 1]
      BY <1>1, <2>3, <3>0
    <3>2. task'[d][u] \in Task /\ task'[d][u].at = task[d][u].at
      BY <3>1, <2>1 DEF Task
    <3> QED BY <3>2, <2>3, TaskConstants
  <2> QED BY <2>2, <2>3
<1>4. task' \in [Conns -> [Slots -> Task]] BY <1>3 DEF Tick
<1> QED BY <1>3, <1>4
-----------------------------------------------------------------------------
(* Type correctness.                                                       *)

\* Every step keeps the types.
LEMMA TypeStep == TypeOK /\ [Next]_vars => TypeOK'
<1> SUFFICES ASSUME TypeOK, [Next]_vars PROVE TypeOK' OBVIOUS
<1>0. task \in [Conns -> [Slots -> Task]] BY DEF TypeOK
<1>1. ASSUME NEW c \in Conns, Name(c) PROVE TypeOK'
  BY <1>1 DEF Name, TypeOK
<1>2. ASSUME NEW c \in Conns, Register(c) PROVE TypeOK'
  <2>1. "join" \in Slots BY DEF Slots
  <2>2. task' \in [Conns -> [Slots -> Task]]
    BY <1>0, <1>2, <2>1, TaskUpdate, TaskConstants DEF Register, Spawn
  <2>3. sess' \in [Conns -> {"new", "named", "up", "evicted", "down"}]
    BY <1>2 DEF Register, TypeOK
  <2>4. quiet' \in [Conns -> Ages] BY <1>2, Bounds DEF Register, TypeOK, Ages
  <2> QED BY <1>2, <2>2, <2>3, <2>4 DEF Register, TypeOK
<1>3. ASSUME NEW c \in Conns, Unregister(c) PROVE TypeOK'
  <2>1. "leave" \in Slots BY DEF Slots
  <2>2. task' \in [Conns -> [Slots -> Task]]
    BY <1>0, <1>3, <2>1, TaskUpdate, TaskConstants DEF Unregister, Spawn
  <2> QED BY <1>3, <2>2 DEF Unregister, TypeOK
<1>4. ASSUME NEW c \in Conns, NEW s \in Slots, Heartbeat(c, s) PROVE TypeOK'
  <2>1. task' \in [Conns -> [Slots -> Task]]
    BY <1>0, <1>4, TaskUpdate, TaskConstants DEF Heartbeat, Spawn
  <2>2. quiet' \in [Conns -> Ages] BY <1>4, Bounds DEF Heartbeat, TypeOK, Ages
  <2> QED BY <1>4, <2>1, <2>2 DEF Heartbeat, TypeOK
<1>5. ASSUME NEW c \in Conns, NEW s \in Slots, Capture(c, s) PROVE TypeOK'
  <2>1. task' \in [Conns -> [Slots -> Task]]
    BY <1>0, <1>5, TaskUpdate, TaskConstants DEF Capture
  <2> QED BY <1>5, <2>1 DEF Capture, TypeOK
<1>6. ASSUME NEW c \in Conns, NEW s \in Slots, WriteHash(c, s) PROVE TypeOK'
  <2>1. task' \in [Conns -> [Slots -> Task]]
    BY <1>0, <1>6, TaskUpdate, WriteHashTask, ZenonT(60)
  <2>2. hash' \in [Phones -> SUBSET Fields]
    BY <1>6 DEF WriteHash, TypeOK, Fields
  <2> QED BY <1>6, <2>1, <2>2 DEF WriteHash, TypeOK
<1>7. ASSUME NEW c \in Conns, NEW s \in Slots, WriteZSet(c, s) PROVE TypeOK'
  <2>1. task' \in [Conns -> [Slots -> Task]]
    BY <1>0, <1>7, TaskUpdate, TaskConstants DEF WriteZSet
  <2>2. task[c][s].age \in Ages BY <1>0, Bounds DEF Task, Ages
  <2>3. online' \in [Phones -> Ages \cup {Off}]
    BY <1>7, <2>2 DEF WriteZSet, TypeOK
  <2> QED BY <1>7, <2>1, <2>3 DEF WriteZSet, TypeOK
<1>8. ASSUME NEW c \in Conns, NEW s \in Slots, PipelineFails(c, s) PROVE TypeOK'
  <2>1. task' \in [Conns -> [Slots -> Task]]
    BY <1>0, <1>8, TaskUpdate, TaskConstants DEF PipelineFails
  <2> QED BY <1>8, <2>1 DEF PipelineFails, TypeOK
<1>9. ASSUME NEW r \in Replicas, PruneStale(r) PROVE TypeOK'
  <2>1. online' \in [Phones -> Ages \cup {Off}] BY <1>9 DEF PruneStale, TypeOK
  <2> QED BY <1>9, <2>1 DEF PruneStale, TypeOK
<1>10. ASSUME NEW r \in Replicas, Crash(r) PROVE TypeOK'
  <2>1. task' \in [Conns -> [Slots -> Task]]
    BY <1>0, <1>10, TaskConstants DEF Crash
  <2>2. crashes' \in 0..MaxCrashes BY <1>10 DEF Crash, TypeOK
  <2>3. sess' \in [Conns -> {"new", "named", "up", "evicted", "down"}]
    BY <1>10 DEF Crash, TypeOK
  <2>4. alive' \in [Replicas -> BOOLEAN] BY <1>10 DEF Crash, TypeOK
  <2> QED BY <1>10, <2>1, <2>2, <2>3, <2>4 DEF Crash, TypeOK
<1>11. ASSUME NEW r \in Replicas, Restart(r) PROVE TypeOK'
  BY <1>11 DEF Restart, TypeOK
<1>12. ASSUME Tick PROVE TypeOK'
  <2>1. task' \in [Conns -> [Slots -> Task]] BY <1>0, <1>12, TickTasks
  <2>2. online' \in [Phones -> Ages \cup {Off}]
    <3>1. ASSUME NEW p \in Phones
          PROVE  (IF online[p] = Off THEN Off ELSE Older(online[p]))
                   \in Ages \cup {Off}
      BY OlderAge DEF TypeOK
    <3> QED BY <3>1, <1>12 DEF Tick
  <2>3. quiet' \in [Conns -> Ages]
    <3>1. \A c \in Conns : Older(quiet[c]) \in Ages BY OlderAge DEF TypeOK
    <3> QED BY <3>1, <1>12 DEF Tick
  <2> QED BY <1>12, <2>1, <2>2, <2>3 DEF Tick, TypeOK
<1>13. CASE UNCHANGED vars BY <1>13 DEF vars, TypeOK
<1> QED
  BY <1>1, <1>2, <1>3, <1>4, <1>5, <1>6, <1>7, <1>8, <1>9, <1>10, <1>11,
     <1>12, <1>13 DEF Next, Goroutine

\* Initially nothing runs and Redis is empty.
LEMMA TypeInit == Init => TypeOK
<1> SUFFICES ASSUME Init PROVE TypeOK OBVIOUS
<1>1. task \in [Conns -> [Slots -> Task]] BY TaskConstants DEF Init
<1>2. quiet \in [Conns -> Ages] BY Bounds DEF Init, Ages
<1>3. online \in [Phones -> Ages \cup {Off}] BY DEF Init
<1>4. alive \in [Replicas -> BOOLEAN] /\ lost \in BOOLEAN BY DEF Init
<1>5. sess \in [Conns -> {"new", "named", "up", "evicted", "down"}] BY DEF Init
<1>6. hash \in [Phones -> SUBSET Fields] BY DEF Init
<1>7. crashes \in 0..MaxCrashes BY DEF Init
<1> QED BY <1>1, <1>2, <1>3, <1>4, <1>5, <1>6, <1>7 DEF TypeOK
-----------------------------------------------------------------------------
(* The score in the sorted set follows the session.                        *)

\* A step that sets one goroutine going or moves it on settles nobody.
LEMMA SettledBefore ==
  ASSUME task \in [Conns -> [Slots -> Task]],
         NEW d \in Conns, NEW s \in Slots, NEW t \in Task, t # Idle,
         task' = [task EXCEPT ![d][s] = t],
         NEW c \in Conns, Settled(c)'
  PROVE  c # d /\ Settled(c)
<1>1. /\ task'[d][s] = t
      /\ \A e \in Conns, u \in Slots : e # d \/ u # s => task'[e][u] = task[e][u]
  BY TaskUpdate
<1>2. \A u \in Slots : task'[c][u] = Idle BY DEF Settled
<1>3. c # d BY <1>1, <1>2
<1> QED BY <1>1, <1>2, <1>3 DEF Settled

\* The steps of the calls and of a pipeline's first half set a goroutine to
\* something other than idle.
LEMMA BusySteps ==
  ASSUME task \in [Conns -> [Slots -> Task]],
         NEW d \in Conns, NEW s \in Slots,
         \/ Register(d) /\ s = "join"
         \/ Unregister(d) /\ s = "leave"
         \/ Heartbeat(d, s) \/ Capture(d, s) \/ WriteHash(d, s)
  PROVE  \E t \in Task : t # Idle /\ task' = [task EXCEPT ![d][s] = t]
<1>1. CASE WriteHash(d, s)
  <2> DEFINE t == [at |-> "zset", age |-> task[d][s].age]
  <2>1. t \in Task /\ task' = [task EXCEPT ![d][s] = t] BY <1>1, WriteHashTask
  <2>2. t.at = "zset" OBVIOUS
  <2>3. t # Idle BY <2>2, TaskConstants
  <2> QED BY <2>1, <2>3
<1>2. CASE Capture(d, s) BY <1>2, TaskConstants DEF Capture
<1>3. CASE Register(d) /\ s = "join" BY <1>3, TaskConstants DEF Register, Spawn
<1>4. CASE Unregister(d) /\ s = "leave"
  BY <1>4, TaskConstants DEF Unregister, Spawn
<1>5. CASE Heartbeat(d, s) BY <1>5, TaskConstants DEF Heartbeat, Spawn
<1> QED BY <1>1, <1>2, <1>3, <1>4, <1>5

\* None of them settles a session, and the one they belong to is not settled.
LEMMA BusySettles ==
  ASSUME task \in [Conns -> [Slots -> Task]],
         NEW d \in Conns, NEW s \in Slots,
         \/ Register(d) /\ s = "join"
         \/ Unregister(d) /\ s = "leave"
         \/ Heartbeat(d, s) \/ Capture(d, s) \/ WriteHash(d, s),
         NEW c \in Conns, Settled(c)'
  PROVE  c # d /\ Settled(c)
<1>1. PICK t \in Task : t # Idle /\ task' = [task EXCEPT ![d][s] = t]
  BY BusySteps
<1> QED BY <1>1, SettledBefore

\* Every step keeps the score close to the session's last sign of life.
LEMMA ScoresStep == TypeOK /\ ScoresFollow /\ [Next]_vars => ScoresFollow'
<1> SUFFICES ASSUME TypeOK, ScoresFollow, [Next]_vars, ~lost',
                    NEW c \in Conns, Settled(c)'
             PROVE  \/ online'[PhoneOf[c]] = Off
                    \/ online'[PhoneOf[c]] <= quiet'[c] + 1
  BY DEF ScoresFollow
<1> DEFINE Goal == \/ online'[PhoneOf[c]] = Off
                   \/ online'[PhoneOf[c]] <= quiet'[c] + 1
<1>0. task \in [Conns -> [Slots -> Task]] BY DEF TypeOK
<1>a. PhoneOf[c] \in Phones /\ quiet[c] \in Ages
      /\ online[PhoneOf[c]] \in Ages \cup {Off}
  BY DEF TypeOK
<1>b. ASSUME UNCHANGED lost, Settled(c),
             online'[PhoneOf[c]] = online[PhoneOf[c]], quiet'[c] = quiet[c]
      PROVE  Goal
  BY <1>b DEF ScoresFollow
<1>1. ASSUME NEW d \in Conns, Register(d) PROVE Goal
  <2>1. "join" \in Slots BY DEF Slots
  <2>2. c # d /\ Settled(c) BY <1>0, <1>1, <2>1, BusySettles
  <2>3. quiet'[c] = quiet[c] BY <1>1, <2>2 DEF Register, TypeOK
  <2> QED BY <1>1, <1>b, <2>2, <2>3 DEF Register
<1>2. ASSUME NEW d \in Conns, Unregister(d) PROVE Goal
  <2>1. "leave" \in Slots BY DEF Slots
  <2>2. c # d /\ Settled(c) BY <1>0, <1>2, <2>1, BusySettles
  <2> QED BY <1>2, <1>b, <2>2 DEF Unregister
<1>3. ASSUME NEW d \in Conns, NEW s \in Slots, Heartbeat(d, s) PROVE Goal
  <2>2. c # d /\ Settled(c) BY <1>0, <1>3, BusySettles
  <2>3. quiet'[c] = quiet[c] BY <1>3, <2>2 DEF Heartbeat, TypeOK
  <2> QED BY <1>3, <1>b, <2>2, <2>3 DEF Heartbeat
<1>4. ASSUME NEW d \in Conns, NEW s \in Slots, Capture(d, s) PROVE Goal
  <2>2. c # d /\ Settled(c) BY <1>0, <1>4, BusySettles
  <2> QED BY <1>4, <1>b, <2>2 DEF Capture
<1>5. ASSUME NEW d \in Conns, NEW s \in Slots, WriteHash(d, s) PROVE Goal
  <2>2. c # d /\ Settled(c) BY <1>0, <1>5, BusySettles
  <2> QED BY <1>5, <1>b, <2>2 DEF WriteHash
<1>6. ASSUME NEW d \in Conns, NEW s \in Slots, WriteZSet(d, s) PROVE Goal
  <2>1. task[d][s] \in Task BY <1>0
  <2>2. CASE PhoneOf[d] = PhoneOf[c]
    <3>1. online'[PhoneOf[c]] = IF s = "leave" THEN Off ELSE task[d][s].age
      BY <1>6, <2>2, <1>a DEF WriteZSet, TypeOK
    <3>2. quiet'[c] \in Nat BY <1>6, <1>a DEF WriteZSet, Ages
    <3>3. task[d][s].age \in 0..1 BY <2>1 DEF Task
    <3> QED BY <3>1, <3>2, <3>3
  <2>3. CASE PhoneOf[d] # PhoneOf[c]
    <3>1. online'[PhoneOf[c]] = online[PhoneOf[c]]
      BY <1>6, <2>3, <1>a DEF WriteZSet, TypeOK
    <3>2. \A u \in Slots : task'[c][u] = task[c][u]
      BY <1>0, <1>6, <2>3, TaskUpdate, TaskConstants DEF WriteZSet
    <3>3. Settled(c) BY <3>2 DEF Settled
    <3> QED BY <1>6, <1>b, <3>1, <3>3 DEF WriteZSet
  <2> QED BY <2>2, <2>3
<1>7. ASSUME NEW r \in Replicas, PruneStale(r) PROVE Goal
  <2>1. Settled(c) BY <1>7 DEF PruneStale, Settled
  <2>2. online'[PhoneOf[c]] = Off \/ online'[PhoneOf[c]] = online[PhoneOf[c]]
    BY <1>7, <1>a DEF PruneStale
  <2> QED BY <1>7, <1>b, <2>1, <2>2 DEF PruneStale
<1>8. ASSUME Tick PROVE Goal
  <2>1. Settled(c) BY <1>0, <1>8, TickTasks DEF Settled
  <2>2. online[PhoneOf[c]] = Off \/ online[PhoneOf[c]] <= quiet[c] + 1
    BY <1>8, <2>1 DEF Tick, ScoresFollow
  <2>3. /\ online'[PhoneOf[c]] =
             IF online[PhoneOf[c]] = Off THEN Off ELSE Older(online[PhoneOf[c]])
        /\ quiet'[c] = Older(quiet[c])
    BY <1>8, <1>a DEF Tick
  <2> QED BY <2>2, <2>3, <1>a, Bounds DEF Older, Ages
<1>9. ASSUME NEW d \in Conns, Name(d) PROVE Goal
  BY <1>9, <1>b DEF Name, Settled
<1>10. ASSUME NEW r \in Replicas, Restart(r) PROVE Goal
  BY <1>10, <1>b DEF Restart, Settled
<1>11. CASE UNCHANGED vars BY <1>11, <1>b DEF vars, Settled
<1>12. ASSUME NEW d \in Conns, NEW s \in Slots, PipelineFails(d, s) PROVE Goal
  BY <1>12 DEF PipelineFails
<1>13. ASSUME NEW r \in Replicas, Crash(r) PROVE Goal BY <1>13 DEF Crash
<1> QED
  BY <1>1, <1>2, <1>3, <1>4, <1>5, <1>6, <1>7, <1>8, <1>9, <1>10, <1>11,
     <1>12, <1>13 DEF Next, Goroutine

\* The sorted set is empty at first.
LEMMA ScoresInit == Init => ScoresFollow
BY DEF Init, ScoresFollow

\* PruneStale removes a member at an age of twice the heartbeat timeout; the
\* score of a session that beat within the timeout is at most the timeout
\* old.
LEMMA PruneStep ==
  ASSUME TypeOK, ScoresFollow, NEW r \in Replicas, PruneStale(r),
         NEW c \in Conns, Settled(c), ~lost, quiet[c] < HeartbeatTimeout,
         online[PhoneOf[c]] # Off
  PROVE  online'[PhoneOf[c]] # Off
<1>1. PhoneOf[c] \in Phones /\ quiet[c] \in Ages /\ online[PhoneOf[c]] \in Ages
  BY DEF TypeOK
<1>2. online[PhoneOf[c]] <= quiet[c] + 1 BY DEF ScoresFollow
<1>3. ~(online[PhoneOf[c]] >= 2 * HeartbeatTimeout)
  BY <1>1, <1>2, Bounds DEF Ages
<1> QED BY <1>1, <1>3 DEF PruneStale

\* The inductive invariant of the scores.
THEOREM ScoresCorrect == Spec => [](TypeOK /\ ScoresFollow)
BY TypeInit, TypeStep, ScoresInit, ScoresStep, PTL DEF Spec

\* pruneLoop takes no device off the sorted set whose session is registered,
\* sent a heartbeat within the timeout and has its writes through, for any
\* number of sessions, processes and heartbeats in flight at once.
THEOREM PruneSafe == Spec => PruneSparesBeating
<1>1. ASSUME TypeOK, ScoresFollow
      PROVE  [\A r \in Replicas : PruneStale(r) =>
                \A c \in Conns :
                  /\ sess[c] = "up" /\ Settled(c) /\ ~lost
                  /\ quiet[c] < HeartbeatTimeout
                  /\ online[PhoneOf[c]] # Off
                  => online'[PhoneOf[c]] # Off]_vars
  BY <1>1, PruneStep
<1> QED BY <1>1, ScoresCorrect, PTL DEF PruneSparesBeating
-----------------------------------------------------------------------------
(* A session that is alone on its phone.                                   *)

\* The goroutine of Unregister starts when the session ends, and a session
\* that has ended does nothing more.
LEMMA LeaveStep == TypeOK /\ LeaveIsLast /\ [Next]_vars => LeaveIsLast'
<1> SUFFICES ASSUME TypeOK, LeaveIsLast, [Next]_vars,
                    NEW c \in Conns, task'[c]["leave"] # Idle
             PROVE  sess'[c] = "down"
  BY DEF LeaveIsLast
<1>0. task \in [Conns -> [Slots -> Task]] BY DEF TypeOK
<1>a. "leave" \in Slots /\ "join" \in Slots BY DEF Slots
<1>b. ASSUME task[c]["leave"] # Idle, sess'[c] = sess[c] PROVE sess'[c] = "down"
  BY <1>b DEF LeaveIsLast
<1>1. ASSUME NEW d \in Conns, Register(d) PROVE sess'[c] = "down"
  <2>1. \E t \in Task : task' = [task EXCEPT ![d]["join"] = t]
    BY <1>0, <1>1, <1>a, BusySteps
  <2>2. task'[c]["leave"] = task[c]["leave"] BY <1>0, <1>a, <2>1, TaskUpdate
  <2>3. sess[c] = "down" BY <2>2 DEF LeaveIsLast
  <2> QED BY <1>1, <2>3 DEF Register, TypeOK
<1>2. ASSUME NEW d \in Conns, Unregister(d) PROVE sess'[c] = "down"
  <2>1. CASE d = c BY <1>2, <2>1 DEF Unregister, TypeOK
  <2>2. CASE d # c
    <3>1. \E t \in Task : task' = [task EXCEPT ![d]["leave"] = t]
      BY <1>0, <1>2, <1>a, BusySteps
    <3>2. task'[c]["leave"] = task[c]["leave"]
      BY <1>0, <1>a, <3>1, <2>2, TaskUpdate
    <3> QED BY <1>2, <2>2, <3>2, <1>b DEF Unregister, TypeOK
  <2> QED BY <2>1, <2>2
<1>3. ASSUME NEW d \in Conns, NEW s \in Slots, Heartbeat(d, s)
      PROVE  sess'[c] = "down"
  <2>1. s # "leave" BY <1>3 DEF Heartbeat
  <2>2. \E t \in Task : task' = [task EXCEPT ![d][s] = t]
    BY <1>0, <1>3, BusySteps
  <2>3. task'[c]["leave"] = task[c]["leave"]
    BY <1>0, <1>a, <2>1, <2>2, TaskUpdate
  <2> QED BY <1>3, <2>3, <1>b DEF Heartbeat
<1>4. ASSUME NEW d \in Conns, NEW s \in Slots,
             Capture(d, s) \/ WriteHash(d, s) \/ WriteZSet(d, s)
             \/ PipelineFails(d, s)
      PROVE  sess'[c] = "down"
  <2>1. \E t \in Task : task' = [task EXCEPT ![d][s] = t]
    BY <1>0, <1>4, BusySteps, TaskConstants DEF WriteZSet, PipelineFails
  <2>2. task[d][s] # Idle
    BY <1>4, TaskConstants DEF Capture, WriteHash, WriteZSet, PipelineFails
  <2>3. task[c]["leave"] # Idle BY <1>0, <1>a, <2>1, <2>2, TaskUpdate
  <2>4. sess' = sess BY <1>4 DEF Capture, WriteHash, WriteZSet, PipelineFails
  <2> QED BY <2>3, <2>4, <1>b
<1>5. ASSUME Tick PROVE sess'[c] = "down"
  BY <1>0, <1>5, <1>a, <1>b, TickTasks DEF Tick
<1>6. ASSUME NEW r \in Replicas, Crash(r) PROVE sess'[c] = "down"
  <2>1. ReplicaOf[c] # r BY <1>6, <1>a DEF Crash
  <2>2. task'[c] = task[c] /\ sess'[c] = sess[c] BY <1>6, <2>1 DEF Crash, TypeOK
  <2> QED BY <2>2, <1>b
<1>7. ASSUME NEW d \in Conns, Name(d) PROVE sess'[c] = "down"
  BY <1>7 DEF Name, LeaveIsLast, TypeOK
<1>8. ASSUME NEW r \in Replicas, PruneStale(r) \/ Restart(r)
      PROVE  sess'[c] = "down"
  BY <1>8, <1>b DEF PruneStale, Restart
<1>9. CASE UNCHANGED vars BY <1>9, <1>b DEF vars
<1> QED
  BY <1>1, <1>2, <1>3, <1>4, <1>5, <1>6, <1>7, <1>8, <1>9 DEF Next, Goroutine

\* Every step keeps what a session alone on its phone finds in Redis.
LEMMA AloneStep ==
  TypeOK /\ ScoresFollow /\ LeaveIsLast /\ AloneIsWritten /\ [Next]_vars
    => AloneIsWritten'
<1> SUFFICES ASSUME TypeOK, ScoresFollow, LeaveIsLast, AloneIsWritten,
                    [Next]_vars, ~lost',
                    NEW c \in Conns, Alone(c), sess'[c] = "up"
             PROVE  /\ \/ hash'[PhoneOf[c]] = Fields
                       \/ task'[c]["join"].at \in {"spawned", "hash"}
                    /\ Settled(c)' /\ quiet'[c] < HeartbeatTimeout
                         => online'[PhoneOf[c]] # Off
  <2>1. \A c \in Conns : Alone(c)' <=> Alone(c) BY DEF Alone
  <2> QED BY <2>1 DEF AloneIsWritten
<1> DEFINE Hash == \/ hash'[PhoneOf[c]] = Fields
                   \/ task'[c]["join"].at \in {"spawned", "hash"}
           ZSet == Settled(c)' /\ quiet'[c] < HeartbeatTimeout
                     => online'[PhoneOf[c]] # Off
<1>0. task \in [Conns -> [Slots -> Task]] BY DEF TypeOK
<1>a. "leave" \in Slots /\ "join" \in Slots BY DEF Slots
<1>p. /\ PhoneOf[c] \in Phones /\ quiet[c] \in Ages
      /\ online[PhoneOf[c]] \in Ages \cup {Off}
  BY DEF TypeOK
<1>b. ASSUME sess[c] = "up", ~lost
      PROVE  /\ \/ hash[PhoneOf[c]] = Fields
                \/ task[c]["join"].at \in {"spawned", "hash"}
             /\ Settled(c) /\ quiet[c] < HeartbeatTimeout
                  => online[PhoneOf[c]] # Off
             /\ task[c]["leave"] = Idle
  BY <1>b DEF AloneIsWritten, LeaveIsLast
<1>c. ASSUME ~lost, sess[c] = "up", UNCHANGED <<hash, online, task, quiet>>
      PROVE  Hash /\ ZSet
  BY <1>c, <1>b DEF Settled
<1>1. ASSUME NEW d \in Conns, Register(d) PROVE Hash /\ ZSet
  <2>1. PICK t \in Task : t # Idle /\ task' = [task EXCEPT ![d]["join"] = t]
    BY <1>0, <1>1, <1>a, BusySteps
  <2>2. CASE d = c
    <3>1. task'[c]["join"] = [at |-> "spawned", age |-> 0]
      BY <1>0, <1>1, <1>a, <2>2, TaskUpdate, TaskConstants DEF Register, Spawn
    <3>2. ~Settled(c)' BY <3>1, <1>a, TaskConstants DEF Settled
    <3> QED BY <3>1, <3>2
  <2>3. CASE d # c
    <3>1. sess[c] = "up" /\ ~lost BY <1>1, <2>3 DEF Register, TypeOK
    <3>2. task'[c]["join"] = task[c]["join"]
      BY <1>0, <1>a, <2>1, <2>3, TaskUpdate
    <3>3. hash' = hash /\ online' = online /\ quiet'[c] = quiet[c]
      BY <1>1, <2>3 DEF Register, TypeOK
    <3>4. Settled(c)' => Settled(c) BY <1>0, <1>1, <1>a, BusySettles
    <3> QED BY <1>b, <3>1, <3>2, <3>3, <3>4
  <2> QED BY <2>2, <2>3
<1>2. ASSUME NEW d \in Conns, Unregister(d) PROVE Hash /\ ZSet
  <2>1. d # c BY <1>2 DEF Unregister, TypeOK
  <2>2. sess[c] = "up" /\ ~lost BY <1>2, <2>1 DEF Unregister, TypeOK
  <2>3. PICK t \in Task : t # Idle /\ task' = [task EXCEPT ![d]["leave"] = t]
    BY <1>0, <1>2, <1>a, BusySteps
  <2>4. task'[c]["join"] = task[c]["join"]
    BY <1>0, <1>a, <2>3, <2>1, TaskUpdate
  <2>5. Settled(c)' => Settled(c) BY <1>0, <1>2, <1>a, BusySettles
  <2>6. hash' = hash /\ online' = online /\ quiet' = quiet
    BY <1>2 DEF Unregister
  <2> QED BY <1>b, <2>2, <2>4, <2>5, <2>6
<1>3. ASSUME NEW d \in Conns, NEW s \in Slots, Heartbeat(d, s)
      PROVE  Hash /\ ZSet
  <2>1. s # "join" BY <1>3 DEF Heartbeat
  <2>2. sess[c] = "up" /\ ~lost BY <1>3 DEF Heartbeat
  <2>3. PICK t \in Task : t # Idle /\ task' = [task EXCEPT ![d][s] = t]
    BY <1>0, <1>3, BusySteps
  <2>4. task'[c]["join"] = task[c]["join"]
    BY <1>0, <1>a, <2>3, <2>1, TaskUpdate
  <2>5. Settled(c)' => c # d /\ Settled(c) BY <1>0, <1>3, BusySettles
  <2>6. hash' = hash /\ online' = online /\ (c # d => quiet'[c] = quiet[c])
    BY <1>3 DEF Heartbeat, TypeOK
  <2> QED BY <1>b, <2>2, <2>4, <2>5, <2>6
<1>4. ASSUME NEW d \in Conns, NEW s \in Slots, Capture(d, s)
      PROVE  Hash /\ ZSet
  <2>1. sess[c] = "up" /\ ~lost BY <1>4 DEF Capture
  <2>2. task' = [task EXCEPT ![d][s] = [at |-> "hash", age |-> 0]]
    BY <1>4 DEF Capture
  <2>3. \/ task'[c]["join"] = task[c]["join"]
        \/ task'[c]["join"] = [at |-> "hash", age |-> 0]
    BY <1>0, <1>a, <2>2, TaskUpdate, TaskConstants
  <2>4. Settled(c)' => Settled(c) BY <1>0, <1>4, BusySettles
  <2>5. hash' = hash /\ online' = online /\ quiet' = quiet BY <1>4 DEF Capture
  <2> QED BY <1>b, <2>1, <2>3, <2>4, <2>5
<1>5. ASSUME NEW d \in Conns, NEW s \in Slots, WriteHash(d, s)
      PROVE  Hash /\ ZSet
  <2>1. sess[c] = "up" /\ ~lost BY <1>5 DEF WriteHash
  <2>2. PICK t \in Task : t # Idle /\ task' = [task EXCEPT ![d][s] = t]
    BY <1>0, <1>5, BusySteps
  <2>3. ZSet
    <3>1. Settled(c)' => Settled(c) BY <1>0, <1>5, BusySettles
    <3>2. online' = online /\ quiet' = quiet BY <1>5 DEF WriteHash
    <3> QED BY <1>b, <2>1, <3>1, <3>2
  <2>4. CASE d # c
    <3>1. PhoneOf[d] # PhoneOf[c] BY <2>4 DEF Alone
    <3>2. hash'[PhoneOf[c]] = hash[PhoneOf[c]]
      BY <1>5, <1>p, <3>1 DEF WriteHash, TypeOK
    <3>3. task'[c]["join"] = task[c]["join"]
      BY <1>0, <1>a, <2>2, <2>4, TaskUpdate
    <3> QED BY <1>b, <2>1, <2>3, <3>2, <3>3
  <2>5. CASE d = c /\ s = "join"
    <3>1. hash'[PhoneOf[c]] = Fields BY <1>5, <1>p, <2>5 DEF WriteHash, TypeOK
    <3> QED BY <2>3, <3>1
  <2>6. CASE d = c /\ s # "join"
    <3>1. s # "leave" BY <1>b, <2>1, <2>6, <1>5, TaskConstants DEF WriteHash
    <3>2. hash'[PhoneOf[c]] = hash[PhoneOf[c]] \cup {"last_heartbeat"}
      BY <1>5, <1>p, <2>6, <3>1 DEF WriteHash, TypeOK
    <3>3. task'[c]["join"] = task[c]["join"]
      BY <1>0, <1>a, <2>2, <2>6, TaskUpdate
    <3>4. Fields \cup {"last_heartbeat"} = Fields BY DEF Fields
    <3> QED BY <1>b, <2>1, <2>3, <3>2, <3>3, <3>4
  <2> QED BY <2>4, <2>5, <2>6
<1>6. ASSUME NEW d \in Conns, NEW s \in Slots, WriteZSet(d, s)
      PROVE  Hash /\ ZSet
  <2>1. sess[c] = "up" /\ ~lost BY <1>6 DEF WriteZSet
  <2>2. task' = [task EXCEPT ![d][s] = Idle] BY <1>6 DEF WriteZSet
  <2>3. Hash
    <3>1. hash' = hash BY <1>6 DEF WriteZSet
    <3>2. \/ task'[c]["join"] = task[c]["join"]
          \/ d = c /\ s = "join" /\ task[c]["join"].at = "zset"
      BY <1>0, <1>6, <1>a, <2>2, TaskUpdate, TaskConstants DEF WriteZSet
    <3> QED BY <1>b, <2>1, <3>1, <3>2
  <2>4. CASE d # c
    <3>1. PhoneOf[d] # PhoneOf[c] BY <2>4 DEF Alone
    <3>2. online'[PhoneOf[c]] = online[PhoneOf[c]]
      BY <1>6, <1>p, <3>1 DEF WriteZSet, TypeOK
    <3>3. \A u \in Slots : task'[c][u] = task[c][u]
      BY <1>0, <2>2, <2>4, TaskUpdate, TaskConstants
    <3>4. Settled(c)' => Settled(c) BY <3>3 DEF Settled
    <3>5. quiet' = quiet BY <1>6 DEF WriteZSet
    <3> QED BY <1>b, <2>1, <2>3, <3>2, <3>4, <3>5
  <2>5. CASE d = c
    <3>1. s # "leave" BY <1>b, <2>1, <2>5, <1>6, TaskConstants DEF WriteZSet
    <3>2. online'[PhoneOf[c]] = task[d][s].age
      BY <1>6, <1>p, <2>5, <3>1 DEF WriteZSet, TypeOK
    <3>3. task[d][s].age \in 0..1 BY <1>0 DEF Task
    <3>4. online'[PhoneOf[c]] # Off BY <3>2, <3>3, Bounds
    <3> QED BY <2>3, <3>4
  <2> QED BY <2>4, <2>5
<1>7. ASSUME NEW r \in Replicas, PruneStale(r) PROVE Hash /\ ZSet
  <2>1. sess[c] = "up" /\ ~lost BY <1>7 DEF PruneStale
  <2>2. Hash BY <1>b, <1>7, <2>1 DEF PruneStale
  <2>3. ZSet
    <3> SUFFICES ASSUME Settled(c)', quiet'[c] < HeartbeatTimeout
                 PROVE  online'[PhoneOf[c]] # Off
      OBVIOUS
    <3>1. Settled(c) /\ quiet[c] < HeartbeatTimeout
      BY <1>7 DEF PruneStale, Settled
    <3> QED BY <1>b, <1>7, <2>1, <3>1, PruneStep
  <2> QED BY <2>2, <2>3
<1>8. ASSUME Tick PROVE Hash /\ ZSet
  <2>1. sess[c] = "up" /\ ~lost BY <1>8 DEF Tick
  <2>2. /\ task'[c]["join"].at = task[c]["join"].at
        /\ Settled(c)' => Settled(c)
    BY <1>0, <1>8, <1>a, TickTasks DEF Settled
  <2>3. Hash BY <1>b, <1>8, <2>1, <2>2 DEF Tick
  <2>4. /\ online'[PhoneOf[c]] =
             IF online[PhoneOf[c]] = Off THEN Off ELSE Older(online[PhoneOf[c]])
        /\ quiet'[c] = Older(quiet[c])
    BY <1>8, <1>p DEF Tick
  <2>5. quiet'[c] < HeartbeatTimeout => quiet[c] < HeartbeatTimeout
    BY <1>p, <2>4, Bounds DEF Older, Ages
  <2>6. online[PhoneOf[c]] # Off => online'[PhoneOf[c]] # Off
    BY <1>p, <2>4, OlderAge, Bounds
  <2> QED BY <1>b, <2>1, <2>2, <2>3, <2>5, <2>6
<1>9. ASSUME NEW d \in Conns, Name(d) PROVE Hash /\ ZSet
  <2>1. sess[c] = "up" /\ ~lost BY <1>9 DEF Name, TypeOK
  <2> QED BY <1>9, <2>1, <1>c DEF Name
<1>10. ASSUME NEW r \in Replicas, Restart(r) PROVE Hash /\ ZSet
  BY <1>10, <1>c DEF Restart
<1>11. CASE UNCHANGED vars BY <1>11, <1>c DEF vars
<1>12. ASSUME NEW d \in Conns, NEW s \in Slots, PipelineFails(d, s)
       PROVE  Hash /\ ZSet
  BY <1>12 DEF PipelineFails
<1>13. ASSUME NEW r \in Replicas, Crash(r) PROVE Hash /\ ZSet
  BY <1>13 DEF Crash
<1> QED
  BY <1>1, <1>2, <1>3, <1>4, <1>5, <1>6, <1>7, <1>8, <1>9, <1>10, <1>11,
     <1>12, <1>13 DEF Next, Goroutine

\* No session is registered at first, and no goroutine runs.
LEMMA AloneInit == Init => LeaveIsLast /\ AloneIsWritten
<1> SUFFICES ASSUME Init PROVE LeaveIsLast /\ AloneIsWritten OBVIOUS
<1>1. "leave" \in Slots BY DEF Slots
<1>2. \A c \in Conns : task[c]["leave"] = Idle /\ sess[c] = "new"
  BY <1>1 DEF Init
<1> QED BY <1>2 DEF LeaveIsLast, AloneIsWritten

\* What Redis says of a session that is alone on its phone is complete and
\* up to date once its goroutines are through, however many heartbeats were
\* in flight at once and in whatever order they were written.
THEOREM AloneCorrect == Spec => []AloneIsSynced
<1> DEFINE Inv == TypeOK /\ ScoresFollow /\ LeaveIsLast /\ AloneIsWritten
<1>1. Init => Inv BY TypeInit, ScoresInit, AloneInit
<1>2. Inv /\ [Next]_vars => Inv'
  BY TypeStep, ScoresStep, LeaveStep, AloneStep
<1>3. Inv => AloneIsSynced
  <2> SUFFICES ASSUME Inv, NEW c \in Conns, Quiescent, Alone(c), ~lost,
                      sess[c] = "up", quiet[c] < HeartbeatTimeout
               PROVE  hash[PhoneOf[c]] = Fields /\ online[PhoneOf[c]] # Off
    BY DEF AloneIsSynced
  <2>1. Settled(c) BY DEF Quiescent
  <2>2. task[c]["join"].at = "idle" BY <2>1, TaskConstants DEF Settled, Slots
  <2> QED BY <2>1, <2>2 DEF AloneIsWritten
<1> QED BY <1>1, <1>2, <1>3, PTL DEF Spec
=============================================================================
