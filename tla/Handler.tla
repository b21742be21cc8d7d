------------------------------ MODULE Handler -------------------------------
(***************************************************************************)
(* server/internal/handler/handler.go: Dispatch and the message handlers.  *)
(* Every connection c has one goroutine; pc[c] says where it is, and       *)
(* Head(buf[c]) is the frame it is working on.  A handler is cut into      *)
(* several actions exactly where another goroutine can act in between and  *)
(* the outcome depends on it:                                              *)
(*   - registration: SELECT / INSERT / SET token, set state, reply;        *)
(*   - authentication: GET token / set state / Register, reply.            *)
(* The outcome of a Redis or MySQL call is a parameter ("ok" or "err"): it *)
(* depends on the context.Context the caller passes.                       *)
(*                                                                         *)
(* The goroutines that handlers start to write presence and telemetry to   *)
(* Redis touch none of these variables; see README.                        *)
(***************************************************************************)
EXTENDS DeviceStore

CONSTANTS MaxClosers  \* cap on pending delayed closes counted per session

ASSUME CloserAssumption == MaxClosers \in Nat \ {0}

VARIABLES
  pc,         \* control point of the connection's goroutine
  buf,        \* frames already read from the socket into the bufio.Reader
  closers,    \* pending time.AfterFunc(.., s.Close) calls
  joined      \* history: has this session ever completed Register?

handlerVars == <<pc, buf, closers, joined>>
serverVars == <<sessionVars, registryVars, storeVars, handlerVars>>

\* Control points of a goroutine that has not yet unregistered its session.
Serving == {"read", "regInsert", "regToken", "authSet", "authJoin", "cleanup"}
ControlPoints == Serving \cup {"unused", "closing", "done", "killed"}

HandlerType ==
  /\ pc \in [Conns -> ControlPoints]
  /\ buf \in [Conns -> Seq(Frame)]
  /\ closers \in [Conns -> 0..MaxClosers]
  /\ joined \in [Conns -> BOOLEAN]

HandlerInit ==
  /\ pc = [c \in Conns |-> "unused"]
  /\ buf = [c \in Conns |-> <<>>]
  /\ closers = [c \in Conns |-> 0]
  /\ joined = [c \in Conns |-> FALSE]

Goto(c, l) == pc' = [pc EXCEPT ![c] = l] /\ UNCHANGED buf

\* The handler returns to the read loop.
Return(c) ==
  /\ pc' = [pc EXCEPT ![c] = "read"]
  /\ buf' = [buf EXCEPT ![c] = Tail(@)]

\* time.AfterFunc(delay, s.Close).
CloseLater(c) ==
  closers' = [closers EXCEPT ![c] = IF @ < MaxClosers THEN @ + 1 ELSE @]

-----------------------------------------------------------------------------
(* Dispatch.                                                               *)

\* The goroutine is about to dispatch a frame with one of these ids.
AtFrame(c, kinds) ==
  /\ pc[c] = "read"
  /\ buf[c] # <<>>
  /\ Head(buf[c]).msg \in kinds

\* The gate at the top of Dispatch.
Admitted(c) ==
  state[c] >= StateAuthenticated \/ Head(buf[c]).msg \in PreAuthKinds

DropUnauthenticated(c) ==
  /\ AtFrame(c, MsgKinds)
  /\ ~Admitted(c)
  /\ ACK(c, Head(buf[c]), ResultOK)
  /\ Return(c)
  /\ UNCHANGED <<phone, authToken, state, open, registryVars, storeVars,
                 closers, joined>>

HandleHeartbeat(c, db) ==
  /\ AtFrame(c, {"heartbeat"})
  /\ Admitted(c)
  /\ ACK(c, Head(buf[c]), ResultOK)
  /\ RecordHeartbeat(phone[c], db)
  /\ Return(c)
  /\ UNCHANGED <<phone, authToken, state, open, registryVars, clock,
                 closers, joined>>

\* 0x0120, 0x0121, 0x0304 and every id without a case are acknowledged.
HandleNotice(c) ==
  /\ AtFrame(c, {"terminalProps", "upgradeResult", "accStatus", "unknown"})
  /\ Admitted(c)
  /\ ACK(c, Head(buf[c]), ResultOK)
  /\ Return(c)
  /\ UNCHANGED <<phone, authToken, state, open, registryVars, storeVars,
                 closers, joined>>

\* A terminal's general response is logged and never answered.
HandleTerminalResp(c) ==
  /\ AtFrame(c, {"terminalResp"})
  /\ Return(c)
  /\ UNCHANGED <<sessionVars, registryVars, storeVars, closers, joined>>

\* handleLocation and handleBatchLocation acknowledge first; what follows a
\* successful write is publication, which changes nothing here.
HandleLocation(c, ok) ==
  /\ AtFrame(c, {"location", "batchLocation"})
  /\ Send(c, PlatformACK(Head(buf[c]), ResultOK), ok)
  /\ Return(c)
  /\ UNCHANGED <<phone, authToken, state, open, registryVars, storeVars,
                 closers, joined>>

-----------------------------------------------------------------------------
(* handleRegistration.                                                     *)

RegisterUndecodable(c) ==
  /\ AtFrame(c, {"registration"})
  /\ ~Head(buf[c]).good
  /\ ACK(c, Head(buf[c]), ResultMsgError)
  /\ Return(c)
  /\ UNCHANGED <<phone, authToken, state, open, registryVars, storeVars,
                 closers, joined>>

\* 0x8100 with result 4, then the socket is closed 200 ms later.
RejectRegistration(c) ==
  /\ \E ok \in BOOLEAN :
       Send(c, RegistrationACK(RegTerminalNotInDB, NoToken), ok)
  /\ CloseLater(c)
  /\ Return(c)
  /\ UNCHANGED <<phone, authToken, state, open, registryVars, storeVars,
                 joined>>

\* The session takes the frame's phone; the token is generated.
AdoptPhone(c) ==
  LET p == Head(buf[c]).phone IN
  /\ phone' = [phone EXCEPT ![c] = p]
  /\ authToken' = [authToken EXCEPT ![c] = GenerateAuthToken(p, clock)]
  /\ Goto(c, "regToken")
  /\ UNCHANGED <<state, open, reply, registryVars, clock, closers, joined>>

HandleRegistration(c, db) ==
  /\ AtFrame(c, {"registration"})
  /\ Head(buf[c]).good
  /\ \E found \in Lookups(Head(buf[c]).phone, db) :
       \/ found \in {"error", "blocked"} /\ RejectRegistration(c)
       \/ found = "approved" /\ AdoptPhone(c) /\ UNCHANGED rows
       \/ /\ found = "absent"
          /\ Goto(c, "regInsert")
          /\ UNCHANGED <<sessionVars, registryVars, storeVars, closers, joined>>

CreateDevice(c, db) ==
  LET p == Head(buf[c]).phone IN
  /\ pc[c] = "regInsert"
  /\ \/ InsertSucceeds(p, db) /\ Insert(p) /\ AdoptPhone(c)
     \/ ~InsertSucceeds(p, db) /\ RejectRegistration(c)

\* A failed SET is logged and the token is sent all the same.
IssueToken(c, redis) ==
  /\ pc[c] = "regToken"
  /\ StoreAuthToken(phone[c], authToken[c], redis)
  /\ SetState(c, StateRegistered)
  /\ \E ok \in BOOLEAN : Send(c, RegistrationACK(RegSuccess, authToken[c]), ok)
  /\ Return(c)
  /\ UNCHANGED <<phone, authToken, open, local, storeVars, closers, joined>>

-----------------------------------------------------------------------------
(* handleAuthentication.                                                   *)

\* Redis answers; a Redis error counts as a valid token.
TokenAccepted(f, redis) ==
  redis = "err" \/ ValidateAuthToken(f.phone, f.token)

\* The session's phone is set from the frame, before the token is checked,
\* only when it has none.
HandleAuthentication(c, redis) ==
  LET f == Head(buf[c]) IN
  /\ AtFrame(c, {"authentication"})
  /\ phone' = [phone EXCEPT ![c] = IF @ = NoPhone THEN f.phone ELSE @]
  /\ \/ /\ TokenAccepted(f, redis)
        /\ Goto(c, "authSet")
        /\ UNCHANGED <<reply, closers>>
     \/ /\ ~TokenAccepted(f, redis)
        /\ ACK(c, f, ResultFail)
        /\ CloseLater(c)
        /\ Return(c)
  /\ UNCHANGED <<authToken, state, open, registryVars, storeVars, joined>>

SetAuthenticated(c) ==
  /\ pc[c] = "authSet"
  /\ SetState(c, StateAuthenticated)
  /\ Goto(c, "authJoin")
  /\ UNCHANGED <<phone, authToken, open, reply, registryVars, storeVars,
                 closers, joined>>

JoinRegistry(c) ==
  /\ pc[c] = "authJoin"
  /\ Register(c)
  /\ joined' = [joined EXCEPT ![c] = TRUE]
  /\ ACK(c, Head(buf[c]), ResultOK)
  /\ Return(c)
  /\ UNCHANGED <<phone, authToken, token, storeVars, closers>>
=============================================================================
