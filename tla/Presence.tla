------------------------------ MODULE Presence ------------------------------
(***************************************************************************)
(* The asynchronous half of server/internal/session/registry.go: Register, *)
(* Heartbeat and Unregister each start a goroutine that sends a pipeline   *)
(* to Redis, and pruneLoop in tcp.go removes old members of the online     *)
(* sorted set.  The goroutines of one session run in any order, and a      *)
(* pipeline is not a transaction: other clients' commands run in between.  *)
(*                                                                         *)
(* The calls come from sessions abstracted to what the registry sees of    *)
(* them (TcpServer has the detail): each uses one phone, may be evicted by *)
(* a later one, and ends with Unregister unless its process crashes.       *)
(*                                                                         *)
(* Time is relative.  A score of the sorted set is kept as its age in      *)
(* ticks, up to TTL; a tick is longer than any Redis call takes (go-redis  *)
(* gives up within seconds, TTL is minutes).                               *)
(***************************************************************************)
EXTENDS Naturals

CONSTANTS
  Conns,        \* sessions
  Phones,       \* phone numbers
  PhoneOf,      \* the phone of a session
  Replicas,     \* server processes sharing one Redis
  ReplicaOf,    \* the process of a session
  BeatSlots,    \* heartbeat goroutines of one session in flight at once
  HeartbeatTimeout, \* cfg.HeartbeatTimeout in ticks; members are pruned at twice that
  MaxCrashes,   \* bound on process crashes
  RedisFails    \* may a pipeline fail?

ASSUME PresenceAssumption ==
  /\ PhoneOf \in [Conns -> Phones]
  /\ ReplicaOf \in [Conns -> Replicas]
  /\ {"join", "leave"} \cap BeatSlots = {}
  /\ HeartbeatTimeout \in Nat \ {0}
  /\ MaxCrashes \in Nat
  /\ RedisFails \in BOOLEAN

TTL == 2 * HeartbeatTimeout
Off == TTL + 1            \* not a member of the sorted set
Ages == 0..TTL

\* The goroutines of a session: at most one of Register and Unregister.
Slots == {"join", "leave"} \cup BeatSlots

\* A goroutine: "spawned"; "hash" and "zset", its next command on the wire.
\* Its age counts the ticks since it was spawned or captured time.Now().
Task == [at : {"idle", "spawned", "hash", "zset"}, age : 0..1]
Idle == [at |-> "idle", age |-> 0]

VARIABLES
  sess,     \* "new", "named" (has a phone), "up" (registered), "evicted", "down"
  task,     \* goroutines of each session
  hash,     \* Redis hash prefix+phone: which fields it has
  online,   \* Redis sorted set: age of the member's score, or Off
  alive,    \* processes that run
  crashes,  \* crashes so far
  quiet,    \* history: ticks since the session's last Register or Heartbeat
  lost      \* history: has a pipeline failed or been cut off by a crash?

vars == <<sess, task, hash, online, alive, crashes, quiet, lost>>

Fields == {"identity", "last_heartbeat"}

TypeOK ==
  /\ sess \in [Conns -> {"new", "named", "up", "evicted", "down"}]
  /\ task \in [Conns -> [Slots -> Task]]
  /\ hash \in [Phones -> SUBSET Fields]
  /\ online \in [Phones -> Ages \cup {Off}]
  /\ alive \in [Replicas -> BOOLEAN]
  /\ crashes \in 0..MaxCrashes
  /\ quiet \in [Conns -> Ages]
  /\ lost \in BOOLEAN

Init ==
  /\ sess = [c \in Conns |-> "new"]
  /\ task = [c \in Conns |-> [s \in Slots |-> Idle]]
  /\ hash = [p \in Phones |-> {}]
  /\ online = [p \in Phones |-> Off]
  /\ alive = [r \in Replicas |-> TRUE]
  /\ crashes = 0
  /\ quiet = [c \in Conns |-> TTL]
  /\ lost = FALSE

-----------------------------------------------------------------------------
(* The calls.                                                              *)

\* go func() { ... }() of one call.
Spawn(c, s) ==
  /\ task[c][s] = Idle
  /\ task' = [task EXCEPT ![c][s] = [at |-> "spawned", age |-> 0]]

\* A registration, or an authentication attempt, gives the session a phone.
Name(c) ==
  /\ sess[c] = "new"
  /\ alive[ReplicaOf[c]]
  /\ sess' = [sess EXCEPT ![c] = "named"]
  /\ UNCHANGED <<task, hash, online, alive, crashes, quiet, lost>>

\* Register: the process's other session of the phone is closed.
Register(c) ==
  /\ sess[c] \in {"named", "up", "evicted"}
  /\ Spawn(c, "join")
  /\ sess' = [d \in Conns |->
       IF d = c THEN IF sess[c] = "evicted" THEN "evicted" ELSE "up"
       ELSE IF /\ sess[d] = "up"
               /\ ReplicaOf[d] = ReplicaOf[c]
               /\ PhoneOf[d] = PhoneOf[c]
            THEN "evicted" ELSE sess[d]]
  /\ quiet' = [quiet EXCEPT ![c] = 0]
  /\ UNCHANGED <<hash, online, alive, crashes, lost>>

\* Heartbeat; frames already buffered are dispatched after an eviction, and
\* after authTimer or a rejection closed a session that only has a phone
\* (StateClosing passes the gate of Dispatch).
Heartbeat(c, s) ==
  /\ sess[c] \in {"named", "up", "evicted"}
  /\ s \in BeatSlots
  /\ Spawn(c, s)
  /\ quiet' = [quiet EXCEPT ![c] = 0]
  /\ UNCHANGED <<sess, hash, online, alive, crashes, lost>>

\* Unregister when handleConn returns, also of a session that never
\* authenticated.
Unregister(c) ==
  /\ sess[c] \in {"named", "up", "evicted"}
  /\ Spawn(c, "leave")
  /\ sess' = [sess EXCEPT ![c] = "down"]
  /\ UNCHANGED <<hash, online, alive, crashes, quiet, lost>>

-----------------------------------------------------------------------------
(* The goroutines.                                                         *)

\* time.Now() is read and the pipeline is built.
Capture(c, s) ==
  /\ task[c][s].at = "spawned"
  /\ task' = [task EXCEPT ![c][s] = [at |-> "hash", age |-> 0]]
  /\ UNCHANGED <<sess, hash, online, alive, crashes, quiet, lost>>

\* HSET and EXPIRE, or DEL.
WriteHash(c, s) ==
  /\ task[c][s].at = "hash"
  /\ task' = [task EXCEPT ![c][s].at = "zset"]
  /\ hash' = [hash EXCEPT ![PhoneOf[c]] =
                CASE s = "join"  -> Fields
                  [] s = "leave" -> {}
                  [] OTHER       -> @ \cup {"last_heartbeat"}]
  /\ UNCHANGED <<sess, online, alive, crashes, quiet, lost>>

\* Mutant: the heartbeat pipeline leaves the sorted set alone.
BeatWithoutZAdd(c, s) ==
  /\ task[c][s].at = "zset"
  /\ task' = [task EXCEPT ![c][s] = Idle]
  /\ online' = [online EXCEPT ![PhoneOf[c]] =
                  CASE s = "join" -> task[c][s].age
                    [] s = "leave" -> Off
                    [] OTHER -> @]
  /\ UNCHANGED <<sess, hash, alive, crashes, quiet, lost>>

\* ZADD with the captured time, whatever the score is by now, or ZREM.
WriteZSet(c, s) ==
  /\ task[c][s].at = "zset"
  /\ task' = [task EXCEPT ![c][s] = Idle]
  /\ online' = [online EXCEPT ![PhoneOf[c]] =
                  IF s = "leave" THEN Off ELSE task[c][s].age]
  /\ UNCHANGED <<sess, hash, alive, crashes, quiet, lost>>

\* Exec fails, before the first command or between the two; the error is
\* only logged.
PipelineFails(c, s) ==
  /\ RedisFails
  /\ task[c][s].at \in {"hash", "zset"}
  /\ task' = [task EXCEPT ![c][s] = Idle]
  /\ lost' = TRUE
  /\ UNCHANGED <<sess, hash, online, alive, crashes, quiet>>

-----------------------------------------------------------------------------
(* Time, pruning and processes.                                            *)

\* A score ages by a tick; beyond TTL older is all the same to the cutoff.
Older(age) == IF age < TTL THEN age + 1 ELSE age

\* No goroutine is in flight for two whole ticks.
Tick ==
  /\ \A c \in Conns, s \in Slots : task[c][s].age = 0
  /\ task' = [c \in Conns |-> [s \in Slots |->
                IF task[c][s].at = "idle" THEN Idle
                ELSE [task[c][s] EXCEPT !.age = 1]]]
  /\ online' = [p \in Phones |->
                  IF online[p] = Off THEN Off ELSE Older(online[p])]
  /\ quiet' = [c \in Conns |-> Older(quiet[c])]
  /\ UNCHANGED <<sess, hash, alive, crashes, lost>>

\* Mutant: pruneLoop passes HeartbeatTimeout instead of twice that.
PruneEarly(r) ==
  /\ alive[r]
  /\ online' = [p \in Phones |->
                  IF online[p] >= HeartbeatTimeout THEN Off ELSE online[p]]
  /\ UNCHANGED <<sess, task, hash, alive, crashes, quiet, lost>>

\* Mutant: the cutoff is never reached.
PruneNothing(r) ==
  /\ alive[r]
  /\ UNCHANGED vars

\* pruneLoop / PruneStale: ZREMRANGEBYSCORE -inf cutoff.
PruneStale(r) ==
  /\ alive[r]
  /\ online' = [p \in Phones |->
                  IF online[p] >= 2 * HeartbeatTimeout THEN Off ELSE online[p]]
  /\ UNCHANGED <<sess, task, hash, alive, crashes, quiet, lost>>

\* A process dies: no Unregister runs, goroutines are cut off where they are.
\* A process stopped by a signal does no better: its context is cancelled,
\* so what its goroutines still send fails.
Crash(r) ==
  /\ alive[r]
  /\ crashes < MaxCrashes
  /\ alive' = [alive EXCEPT ![r] = FALSE]
  /\ crashes' = crashes + 1
  /\ sess' = [c \in Conns |->
       IF ReplicaOf[c] = r /\ sess[c] # "new" THEN "down" ELSE sess[c]]
  /\ task' = [c \in Conns |->
       IF ReplicaOf[c] = r THEN [s \in Slots |-> Idle] ELSE task[c]]
  /\ lost' = TRUE
  /\ UNCHANGED <<hash, online, quiet>>

Restart(r) ==
  /\ ~alive[r]
  /\ alive' = [alive EXCEPT ![r] = TRUE]
  /\ UNCHANGED <<sess, task, hash, online, crashes, quiet, lost>>

-----------------------------------------------------------------------------

Goroutine(c, s) == Capture(c, s) \/ WriteHash(c, s) \/ WriteZSet(c, s)

Next ==
  \/ \E c \in Conns : Name(c) \/ Register(c) \/ Unregister(c)
  \/ \E c \in Conns, s \in Slots :
       Heartbeat(c, s) \/ Goroutine(c, s) \/ PipelineFails(c, s)
  \/ \E r \in Replicas : PruneStale(r) \/ Crash(r) \/ Restart(r)
  \/ Tick

Spec == Init /\ [][Next]_vars

\* Goroutines run or fail, time passes, each process prunes periodically
\* and is restarted after a crash.  Nothing obliges a terminal to do
\* anything.
Fairness ==
  /\ \A c \in Conns, s \in Slots : WF_vars(Goroutine(c, s))
  /\ WF_vars(Tick)
  /\ \A r \in Replicas : WF_vars(PruneStale(r)) /\ WF_vars(Restart(r))

FairSpec == Spec /\ Fairness

-----------------------------------------------------------------------------
(* Properties.                                                             *)

Settled(c) == \A s \in Slots : task[c][s] = Idle
Quiescent == \A c \in Conns : Settled(c)
Ended(p) == \A c \in Conns : PhoneOf[c] = p => sess[c] = "down"
Alone(c) == \A d \in Conns \ {c} : PhoneOf[d] # PhoneOf[c]

\* PruneStale takes no device off the sorted set whose session registered or
\* sent a heartbeat within the heartbeat timeout and has it written, although
\* heartbeats are written out of order and a late ZADD, of this session or
\* of one it replaced, may put back an older score.
PruneSparesBeating ==
  [][\A r \in Replicas : PruneStale(r) =>
       \A c \in Conns :
         /\ sess[c] = "up" /\ Settled(c) /\ ~lost
         /\ quiet[c] < HeartbeatTimeout
         /\ online[PhoneOf[c]] # Off
         => online'[PhoneOf[c]] # Off]_vars

\* What Redis says of a session that is alone on its phone, once all its
\* goroutines are through: the hash is complete, and it is in the sorted
\* set unless it sent no heartbeat for the heartbeat timeout.
AloneIsSynced ==
  \A c \in Conns :
    /\ Quiescent /\ Alone(c) /\ ~lost
    /\ sess[c] = "up" /\ quiet[c] < HeartbeatTimeout
    => hash[PhoneOf[c]] = Fields /\ online[PhoneOf[c]] # Off

\* The inductive invariants behind the two.  A goroutine is in flight for
\* less than two ticks, so once those of a session are through the score is
\* at most a tick older than its last Register or Heartbeat, whoever wrote
\* it last.
ScoresFollow ==
  ~lost => \A c \in Conns :
    Settled(c) => \/ online[PhoneOf[c]] = Off
                  \/ online[PhoneOf[c]] <= quiet[c] + 1

\* The goroutine of Unregister belongs to a session that has ended.
LeaveIsLast == \A c \in Conns : task[c]["leave"] # Idle => sess[c] = "down"

\* Alone on its phone, a registered session finds its hash complete unless
\* Register has still to write it, and its member in the sorted set unless
\* a goroutine has still to add it.
AloneIsWritten ==
  ~lost => \A c \in Conns : Alone(c) /\ sess[c] = "up" =>
    /\ \/ hash[PhoneOf[c]] = Fields
       \/ task[c]["join"].at \in {"spawned", "hash"}
    /\ Settled(c) /\ quiet[c] < HeartbeatTimeout => online[PhoneOf[c]] # Off

\* A ghost does not stay: when the last session of a phone has ended, by
\* Unregister or by a crash, and whatever its late goroutines wrote, the
\* phone leaves the sorted set for good.
GhostIsPruned ==
  \A p \in Phones : Ended(p) ~> [](online[p] = Off)

\* registry.go: "manages the local connection map and synchronises state to
\* Redis": a session that is registered and beating is found in Redis once
\* all goroutines are through.
UpIsSynced ==
  \A c \in Conns :
    Quiescent /\ ~lost /\ sess[c] = "up" /\ quiet[c] = 0
      => hash[PhoneOf[c]] = Fields /\ online[PhoneOf[c]] # Off
=============================================================================
