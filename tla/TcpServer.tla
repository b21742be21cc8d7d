----------------------------- MODULE TcpServer ------------------------------
(***************************************************************************)
(* server/internal/server/tcp.go and server/cmd/main.go: the accept loop,  *)
(* the read loop and deferred clean-up of handleConn, the authentication   *)
(* timer, shutdown on a signal, and the crash and restart of a server      *)
(* process.  This module is the specification of the connection side of    *)
(* the server.                                                             *)
(***************************************************************************)
EXTENDS Handler

CONSTANTS
  PhonesOf,      \* the phones a connection's peer puts in its headers
  Kinds,         \* the message ids the peers send ("malformed" included)
  MaxBatch,      \* frames one read from the socket brings in, at most
  MaxClock,      \* bound on the clock
  MaxRestarts,   \* bound on restarts of a process
  RedisOutcomes, \* {"ok"}, or {"ok", "err"} when Redis may fail
  DBOutcomes     \* the same for MySQL

ASSUME ServerAssumption ==
  /\ PhonesOf \in [Conns -> SUBSET PhoneStrings]
  /\ Kinds \subseteq MsgKinds \cup {"malformed"}
  /\ MaxBatch \in Nat \ {0}
  /\ MaxClock \in Nat
  /\ MaxRestarts \in Nat
  /\ RedisOutcomes \subseteq {"ok", "err"}
  /\ DBOutcomes \subseteq {"ok", "err"}

VARIABLES
  timer,      \* authTimer: "armed", "firing" (state read, Close due), "off"
  ctx,        \* of each process: "serving", "cancelled", "exited"
  restarts    \* restarts so far, all processes together

tcpVars == <<timer, ctx, restarts>>
vars == <<serverVars, tcpVars>>

TypeOK ==
  /\ SessionType
  /\ RegistryType
  /\ StoreType
  /\ HandlerType
  /\ timer \in [Conns -> {"armed", "firing", "off"}]
  /\ ctx \in [Replicas -> {"serving", "cancelled", "exited"}]
  /\ restarts \in Nat

Init ==
  /\ SessionInit
  /\ RegistryInit
  /\ StoreInit
  /\ HandlerInit
  /\ timer = [c \in Conns |-> "off"]
  /\ ctx = [r \in Replicas |-> "serving"]
  /\ restarts = 0

Ctx(c) == ctx[ReplicaOf[c]]

\* Calls made with a cancelled context fail at once.
Redis(c) == IF Ctx(c) = "serving" THEN RedisOutcomes ELSE {"err"}
DB(c) == IF Ctx(c) = "serving" THEN DBOutcomes ELSE {"err"}

-----------------------------------------------------------------------------
(* Run and handleConn.                                                     *)

\* AcceptTCP, go handleConn: NewSession, authTimer started.
Accept(c) ==
  /\ pc[c] = "unused"
  /\ Ctx(c) = "serving"
  /\ NewSession(c)
  /\ pc' = [pc EXCEPT ![c] = "read"]
  /\ timer' = [timer EXCEPT ![c] = "armed"]
  /\ UNCHANGED <<registryVars, storeVars, buf, closers, joined, ctx, restarts>>

\* The frames the peer of c may send.
Frames(c) ==
  [msg : Kinds \cap {"registration"}, phone : PhonesOf[c], good : BOOLEAN,
   token : {NoToken}]
  \cup
  [msg : Kinds \cap {"authentication"}, phone : PhonesOf[c], good : {TRUE},
   token : [phone : PhonesOf[c], ts : 0..MaxClock] \cup {NoToken}]
  \cup
  [msg : Kinds \ {"registration", "authentication"}, phone : PhonesOf[c],
   good : {TRUE}, token : {NoToken}]

Batches(c) == UNION {[1..n -> Frames(c)] : n \in 1..MaxBatch}

\* ReadFrame finds the bufio.Reader empty and reads the socket, which may
\* hold several frames.  They stay readable after the socket is closed.
Fill(c) ==
  /\ pc[c] = "read"
  /\ buf[c] = <<>>
  /\ open[c]
  /\ \E fs \in Batches(c) : buf' = [buf EXCEPT ![c] = fs]
  /\ UNCHANGED <<sessionVars, registryVars, storeVars, pc, closers, joined,
                 tcpVars>>

\* ReadFrame fails on an open socket: the peer closed it, the read deadline
\* passed, or the stream broke inside a frame.
ReadFails(c) ==
  /\ pc[c] = "read"
  /\ buf[c] = <<>>
  /\ open[c]
  /\ Goto(c, "cleanup")
  /\ UNCHANGED <<sessionVars, registryVars, storeVars, closers, joined,
                 tcpVars>>

\* Mutant: a read error on a closed socket is taken for a passing one.
ReadClosedIgnored(c) ==
  /\ pc[c] = "read"
  /\ buf[c] = <<>>
  /\ ~open[c]
  /\ Goto(c, "read")
  /\ UNCHANGED <<sessionVars, registryVars, storeVars, closers, joined,
                 tcpVars>>

\* ReadFrame fails because the server closed the socket.
ReadClosed(c) ==
  /\ pc[c] = "read"
  /\ buf[c] = <<>>
  /\ ~open[c]
  /\ Goto(c, "cleanup")
  /\ UNCHANGED <<sessionVars, registryVars, storeVars, closers, joined,
                 tcpVars>>

\* ReadFrame refuses a frame: too short, bad escape, bad checksum.
ReadMalformed(c) ==
  /\ AtFrame(c, {"malformed"})
  /\ Goto(c, "cleanup")
  /\ UNCHANGED <<sessionVars, registryVars, storeVars, closers, joined,
                 tcpVars>>

\* handler.Dispatch in the read loop.
Dispatch(c) ==
  /\ \/ DropUnauthenticated(c)
     \/ \E db \in DB(c) : HandleHeartbeat(c, db)
     \/ HandleNotice(c)
     \/ HandleTerminalResp(c)
     \/ \E ok \in BOOLEAN : HandleLocation(c, ok)
     \/ RegisterUndecodable(c)
     \/ \E db \in DB(c) : HandleRegistration(c, db)
     \/ \E db \in DB(c) : CreateDevice(c, db)
     \/ \E redis \in Redis(c) : IssueToken(c, redis)
     \/ \E redis \in Redis(c) : HandleAuthentication(c, redis)
     \/ SetAuthenticated(c)
     \/ JoinRegistry(c)
  /\ UNCHANGED tcpVars

\* Deferred: authTimer.Stop (a callback already running goes on), then
\* Unregister.
CleanUp(c) ==
  /\ pc[c] = "cleanup"
  /\ timer' = [timer EXCEPT ![c] = IF @ = "armed" THEN "off" ELSE @]
  /\ Unregister(c)
  /\ Goto(c, "closing")
  /\ UNCHANGED <<sessionVars, token, storeVars, closers, joined, ctx,
                 restarts>>

\* Deferred last: conn.Close, which does not touch the session state.
CloseSocket(c) ==
  /\ pc[c] = "closing"
  /\ open' = [open EXCEPT ![c] = FALSE]
  /\ Goto(c, "done")
  /\ UNCHANGED <<phone, authToken, state, reply, registryVars, storeVars,
                 closers, joined, tcpVars>>

-----------------------------------------------------------------------------
(* Timers.                                                                 *)

\* Mutant: the timer spares a session that has only registered.
AuthTimerSparesRegistered(c) ==
  /\ timer[c] = "armed"
  /\ timer' = [timer EXCEPT ![c] =
                 IF state[c] < StateRegistered THEN "firing" ELSE "off"]
  /\ UNCHANGED <<serverVars, ctx, restarts>>

\* AuthTimeout after Accept the callback reads the session state ...
AuthTimerFires(c) ==
  /\ timer[c] = "armed"
  /\ timer' = [timer EXCEPT ![c] =
                 IF state[c] < StateAuthenticated THEN "firing" ELSE "off"]
  /\ UNCHANGED <<serverVars, ctx, restarts>>

\* ... and then, in a separate step, closes the session.
AuthTimerCloses(c) ==
  /\ timer[c] = "firing"
  /\ Close(c)
  /\ timer' = [timer EXCEPT ![c] = "off"]
  /\ UNCHANGED <<phone, authToken, reply, registryVars, storeVars,
                 handlerVars, ctx, restarts>>

\* A delayed close of a rejected session, also after its goroutine is gone.
DelayedClose(c) ==
  /\ closers[c] > 0
  /\ Close(c)
  /\ closers' = [closers EXCEPT ![c] = @ - 1]
  /\ UNCHANGED <<phone, authToken, reply, registryVars, storeVars, pc, buf,
                 joined, tcpVars>>

-----------------------------------------------------------------------------
(* The process.                                                            *)

\* SIGTERM: cancel() closes the listener and cancels every context.
Signal(r) ==
  /\ ctx[r] = "serving"
  /\ ctx' = [ctx EXCEPT ![r] = "cancelled"]
  /\ UNCHANGED <<serverVars, timer, restarts>>

\* The process is gone: its memory, its goroutines, its timers, its sockets.
Vanish(r) ==
  LET mine(c) == ReplicaOf[c] = r /\ pc[c] # "unused" IN
  /\ ctx' = [ctx EXCEPT ![r] = "exited"]
  /\ local' = [local EXCEPT ![r] = [p \in PhoneStrings |-> NoConn]]
  /\ pc' = [c \in Conns |-> IF mine(c) THEN "killed" ELSE pc[c]]
  /\ open' = [c \in Conns |-> IF mine(c) THEN FALSE ELSE open[c]]
  /\ buf' = [c \in Conns |-> IF mine(c) THEN <<>> ELSE buf[c]]
  /\ timer' = [c \in Conns |-> IF mine(c) THEN "off" ELSE timer[c]]
  /\ closers' = [c \in Conns |-> IF mine(c) THEN 0 ELSE closers[c]]
  /\ UNCHANGED <<phone, authToken, state, reply, token, storeVars, joined,
                 restarts>>

\* The accept loop breaks, the HTTP server shuts down, Run returns and main
\* exits; handleConn goroutines are not waited for.
RunReturns(r) == ctx[r] = "cancelled" /\ Vanish(r)

\* The process dies without a signal handler running.
Crash(r) == ctx[r] = "serving" /\ Vanish(r)

\* The orchestrator starts the container again.
Restart(r) ==
  /\ ctx[r] = "exited"
  /\ restarts < MaxRestarts
  /\ ctx' = [ctx EXCEPT ![r] = "serving"]
  /\ restarts' = restarts + 1
  /\ UNCHANGED <<serverVars, timer>>

-----------------------------------------------------------------------------

\* The steps the Go scheduler owes the goroutine of c.
Goroutine(c) ==
  \/ Dispatch(c)
  \/ ReadClosed(c)
  \/ ReadMalformed(c)
  \/ CleanUp(c)
  \/ CloseSocket(c)

\* The steps the runtime owes the timers of c.
Timers(c) == AuthTimerFires(c) \/ AuthTimerCloses(c) \/ DelayedClose(c)

\* Everybody else: clock, Redis expiry, dashboard.
Environment ==
  \/ Tick(MaxClock) /\ UNCHANGED <<sessionVars, registryVars, handlerVars, tcpVars>>
  \/ \E p \in PhoneStrings : ExpireToken(p)
       /\ UNCHANGED <<sessionVars, storeVars, handlerVars, tcpVars>>
  \/ \E p \in PhoneStrings, s \in AdminStatuses :
       \E i \in DOMAIN rows[p] : SetStatus(p, i, s)
         /\ UNCHANGED <<sessionVars, registryVars, handlerVars, tcpVars>>

Next ==
  \/ \E c \in Conns :
       Accept(c) \/ Fill(c) \/ ReadFails(c) \/ Goroutine(c) \/ Timers(c)
  \/ \E r \in Replicas : Signal(r) \/ RunReturns(r) \/ Crash(r) \/ Restart(r)
  \/ Environment

Spec == Init /\ [][Next]_vars

\* Runnable goroutines run, expired timers fire, and a read returns: with
\* data, or because its deadline passes.
Fairness ==
  \A c \in Conns :
    /\ WF_vars(Goroutine(c))
    /\ WF_vars(AuthTimerFires(c) \/ AuthTimerCloses(c))
    /\ WF_vars(DelayedClose(c))
    /\ WF_vars(Fill(c) \/ ReadFails(c))

FairSpec == Spec /\ Fairness
=============================================================================
