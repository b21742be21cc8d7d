---------------------------- MODULE ServerProofs ----------------------------
(***************************************************************************)
(* Proofs, for every set of connections, phones, processes and for every   *)
(* value of the bounds, of the type invariant and of the safety properties *)
(* of ServerProperties.                                                    *)
(***************************************************************************)
EXTENDS ServerProperties, SequenceTheorems, TLAPS

USE DEF StateConnected, StateRegistered, StateAuthenticated, StateClosing,
        ResultOK, ResultFail, ResultMsgError, ResultUnsupported,
        RegSuccess, RegTerminalNotInDB

-----------------------------------------------------------------------------
(* Helpers: what one building block does to the types.                     *)

\* Send writes a well-formed reply or none.
LEMMA SendType ==
  ASSUME SessionType, NEW c \in Conns, NEW r \in Replies, NEW ok, Send(c, r, ok)
  PROVE  reply' \in [Conns -> Replies]
BY DEF Send, SessionType

\* The body BuildPlatformACK makes is a reply.
LEMMA ACKReply ==
  ASSUME NEW f \in Frame, NEW res \in 0..4
  PROVE  PlatformACK(f, res) \in Replies
BY DEF PlatformACK, Replies, Frame

\* ACK writes a well-formed reply or none.
LEMMA ACKType ==
  ASSUME SessionType, NEW c \in Conns, NEW f \in Frame, NEW res \in 0..4,
         ACK(c, f, res)
  PROVE  reply' \in [Conns -> Replies]
BY SendType, ACKReply DEF ACK

\* GenerateAuthToken yields a token.
LEMMA TokenType ==
  ASSUME NEW p \in PhoneStrings, NEW sec \in Nat
  PROVE  GenerateAuthToken(p, sec) \in Tokens
BY DEF GenerateAuthToken, Tokens

\* The body BuildRegistrationACK makes is a reply.
LEMMA RegACKReply ==
  ASSUME NEW res \in 0..4, NEW t \in Tokens \cup {NoToken}
  PROVE  RegistrationACK(res, t) \in Replies
BY DEF RegistrationACK, Replies, MsgKinds

\* Return drops the frame in hand and leaves every buffer a sequence.
LEMMA ReturnType ==
  ASSUME HandlerType, NEW c \in Conns, buf[c] # <<>>, Return(c)
  PROVE  /\ pc' \in [Conns -> ControlPoints]
         /\ buf' \in [Conns -> Seq(Frame)]
         /\ \A d \in Conns : pc'[d] \in InHandler =>
              d # c /\ pc[d] \in InHandler /\ buf'[d] = buf[d]
<1>1. buf[c] \in Seq(Frame) BY DEF HandlerType
<1>2. Tail(buf[c]) \in Seq(Frame) BY <1>1
<1> QED BY <1>2 DEF HandlerType, Return, ControlPoints, Serving, InHandler

\* The frame in hand is a frame.
LEMMA HeadType ==
  ASSUME HandlerType, NEW c \in Conns, buf[c] # <<>>
  PROVE  Head(buf[c]) \in Frame
<1>1. buf[c] \in Seq(Frame) BY DEF HandlerType
<1> QED BY <1>1

\* A heartbeat keeps the table well-typed.
LEMMA BeatType ==
  ASSUME StoreType, BeatsPast, NEW p \in PhoneStrings, NEW db,
         RecordHeartbeat(p, db), clock' = clock
  PROVE  StoreType' /\ BeatsPast'
<1>1. rows[p] \in Seq(Row) BY DEF StoreType
<1> DEFINE s == [i \in DOMAIN rows[p] |-> Beat(rows[p][i])]
<1>2. \A i \in DOMAIN rows[p] : rows[p][i] \in Row BY <1>1
<1>3. \A i \in DOMAIN rows[p] : Beat(rows[p][i]) \in Row
                                /\ Beat(rows[p][i]).beatAt = clock
  <2> TAKE i \in DOMAIN rows[p]
  <2>1. rows[p][i].beatAt # NoTime => clock - rows[p][i].beatAt \in Nat
    BY <1>2 DEF BeatsPast, StoreType, Row
  <2> QED BY <1>2, <2>1 DEF Beat, Row, StoreType
<1>4. s \in Seq(Row)
  <2>1. DOMAIN rows[p] = 1..Len(rows[p]) /\ Len(rows[p]) \in Nat BY <1>1
  <2> QED BY <2>1, <1>3, IsASeq
<1>5. CASE DBEnabled /\ db = "ok"
  <2>1. rows' = [rows EXCEPT ![p] = s] BY <1>5 DEF RecordHeartbeat
  <2>2. StoreType' BY <2>1, <1>4 DEF StoreType
  <2>3. BeatsPast'
    <3> SUFFICES ASSUME NEW q \in PhoneStrings, NEW i \in DOMAIN rows'[q],
                        rows'[q][i].beatAt # NoTime
                 PROVE  rows'[q][i].beatAt <= clock'
      BY DEF BeatsPast
    <3>1. CASE q = p BY <3>1, <2>1, <1>3 DEF StoreType
    <3>2. CASE q # p BY <3>2, <2>1 DEF StoreType, BeatsPast
    <3> QED BY <3>1, <3>2
  <2> QED BY <2>2, <2>3
<1>6. CASE ~(DBEnabled /\ db = "ok")
  BY <1>6 DEF RecordHeartbeat, StoreType, BeatsPast
<1> QED BY <1>5, <1>6

\* An inserted row has no heartbeat yet.
LEMMA InsertType ==
  ASSUME StoreType, BeatsPast, NEW p \in PhoneStrings, Insert(p), clock' = clock
  PROVE  StoreType' /\ BeatsPast'
<1>1. rows[p] \in Seq(Row) /\ NewRow \in Row BY DEF StoreType, NewRow, Row
<1> DEFINE s == Append(rows[p], NewRow)
<1>2. s \in Seq(Row) /\ Len(s) = Len(rows[p]) + 1 BY <1>1
<1>3. \A i \in DOMAIN s :
        IF i = Len(rows[p]) + 1 THEN s[i] = NewRow
                                ELSE i \in DOMAIN rows[p] /\ s[i] = rows[p][i]
  BY <1>1, <1>2
<1>4. rows' = [rows EXCEPT ![p] = s] BY DEF Insert
<1>5. StoreType' BY <1>4, <1>2 DEF StoreType
<1>6. BeatsPast'
  <2> SUFFICES ASSUME NEW q \in PhoneStrings, NEW i \in DOMAIN rows'[q],
                      rows'[q][i].beatAt # NoTime
               PROVE  rows'[q][i].beatAt <= clock'
    BY DEF BeatsPast
  <2>1. CASE q = p
    <3>1. rows'[q] = s BY <2>1, <1>4 DEF StoreType
    <3>2. NewRow.beatAt = NoTime BY DEF NewRow
    <3> QED BY <3>1, <3>2, <2>1, <1>3 DEF BeatsPast
  <2>2. CASE q # p BY <2>2, <1>4 DEF StoreType, BeatsPast
  <2> QED BY <2>1, <2>2
<1> QED BY <1>5, <1>6

\* A status change by the dashboard keeps the table well-typed.
LEMMA StatusType ==
  ASSUME StoreType, BeatsPast, NEW p \in PhoneStrings, NEW i \in DOMAIN rows[p],
         NEW st \in AdminStatuses, SetStatus(p, i, st)
  PROVE  StoreType' /\ BeatsPast'
<1>1. rows[p] \in Seq(Row) BY DEF StoreType
<1>2. st \in {"pending", "active", "blocked"} BY StoreAssumption
<1> DEFINE row == [rows[p][i] EXCEPT !.status = st]
           s == [rows[p] EXCEPT ![i] = row]
<1>3. rows[p][i] \in Row BY <1>1
<1>4. row \in Row /\ row.beatAt = rows[p][i].beatAt BY <1>2, <1>3 DEF Row
<1>5. s \in Seq(Row) /\ DOMAIN s = DOMAIN rows[p] BY <1>1, <1>4
<1>6. rows' = [rows EXCEPT ![p] = s] BY DEF SetStatus
<1>7. StoreType' BY <1>6, <1>5 DEF StoreType, SetStatus
<1>8. BeatsPast'
  <2> SUFFICES ASSUME NEW q \in PhoneStrings, NEW j \in DOMAIN rows'[q],
                      rows'[q][j].beatAt # NoTime
               PROVE  rows'[q][j].beatAt <= clock'
    BY DEF BeatsPast
  <2>0. clock' = clock BY DEF SetStatus
  <2>1. CASE q = p
    <3>1. rows'[q] = s /\ j \in DOMAIN rows[p]
      BY <2>1, <1>5, <1>6 DEF StoreType
    <3>2. s[j].beatAt = rows[p][j].beatAt BY <3>1, <1>1, <1>4
    <3> QED BY <3>1, <3>2, <2>0 DEF BeatsPast
  <2>2. CASE q # p BY <2>2, <2>0, <1>6 DEF StoreType, BeatsPast
  <2> QED BY <2>1, <2>2
<1> QED BY <1>7, <1>8

-----------------------------------------------------------------------------
(* The type invariant.                                                     *)

\* A server that has accepted nothing satisfies the invariant.
LEMMA InitType == Init => TypeInv
<1> SUFFICES ASSUME Init PROVE TypeInv OBVIOUS
<1>1. SessionType
  BY DEF Init, SessionInit, SessionType, PhoneStrings, States, NoReply, Replies
<1>2. RegistryType BY DEF Init, RegistryInit, RegistryType
<1>3. rows \in [PhoneStrings -> Seq(Row)] /\ clock \in Nat
  BY DEF Init, StoreInit
<1>4. HandlerType
  BY CloserAssumption DEF Init, HandlerInit, HandlerType, ControlPoints
<1>5. BeatsPast /\ FrameInHand
  BY DEF Init, StoreInit, HandlerInit, BeatsPast, FrameInHand, InHandler
<1> QED BY <1>1, <1>2, <1>3, <1>4, <1>5 DEF TypeInv, TypeOK, StoreType, Init

\* The handlers that answer a frame and change nothing else of a session.
LEMMA AnsweredType ==
  ASSUME TypeInv, NEW c \in Conns, UNCHANGED tcpVars,
         \/ DropUnauthenticated(c)
         \/ HandleNotice(c)
         \/ HandleTerminalResp(c)
         \/ \E ok \in BOOLEAN : HandleLocation(c, ok)
         \/ RegisterUndecodable(c)
         \/ \E db \in DB(c) : HandleHeartbeat(c, db)
  PROVE  TypeInv'
<1> USE DEF TypeInv, TypeOK
<1>1. buf[c] # <<>> /\ Return(c)
  BY DEF DropUnauthenticated, HandleNotice, HandleTerminalResp,
         HandleLocation, RegisterUndecodable, HandleHeartbeat, AtFrame
<1>2. Head(buf[c]) \in Frame BY <1>1, HeadType
<1>3. reply' \in [Conns -> Replies]
  <2>1. \A res \in 0..4 : ACK(c, Head(buf[c]), res) => reply' \in [Conns -> Replies]
    BY <1>2, ACKType
  <2>2. \A ok \in BOOLEAN : Send(c, PlatformACK(Head(buf[c]), ResultOK), ok)
                              => reply' \in [Conns -> Replies]
    BY <1>2, ACKReply, SendType
  <2>3. CASE HandleTerminalResp(c)
    BY <2>3 DEF HandleTerminalResp, SessionType, sessionVars
  <2> QED BY <2>1, <2>2, <2>3
      DEF DropUnauthenticated, HandleNotice, HandleLocation,
          RegisterUndecodable, HandleHeartbeat
<1>4. /\ UNCHANGED <<phone, authToken, state, open, registryVars, clock,
                     closers, joined>>
      /\ \/ UNCHANGED rows
         \/ \E db \in DB(c) : RecordHeartbeat(phone[c], db)
  BY DEF DropUnauthenticated, HandleNotice, HandleTerminalResp, HandleLocation,
         RegisterUndecodable, HandleHeartbeat, storeVars, sessionVars
<1>5. SessionType' BY <1>3, <1>4 DEF SessionType
<1>6. RegistryType' BY <1>4 DEF RegistryType, registryVars
<1>7. StoreType' /\ BeatsPast'
  <2>1. CASE UNCHANGED rows BY <2>1, <1>4 DEF StoreType, BeatsPast
  <2>2. CASE \E db \in DB(c) : RecordHeartbeat(phone[c], db)
    BY <2>2, <1>4, BeatType DEF SessionType
  <2> QED BY <1>4, <2>1, <2>2
<1>8. HandlerType' /\ FrameInHand'
  BY <1>1, <1>4, ReturnType DEF HandlerType, FrameInHand
<1> QED BY <1>5, <1>6, <1>7, <1>8 DEF tcpVars

\* The two ways handleRegistration goes on after CheckOrCreate.
LEMMA RejectType ==
  ASSUME TypeInv, NEW c \in Conns, buf[c] # <<>>, RejectRegistration(c)
  PROVE  SessionType' /\ RegistryType' /\ StoreType' /\ HandlerType'
         /\ BeatsPast' /\ FrameInHand'
<1> USE DEF TypeInv, TypeOK, RejectRegistration
<1>1. reply' \in [Conns -> Replies] BY RegACKReply, SendType
<1>2. SessionType' BY <1>1 DEF SessionType
<1>3. RegistryType' /\ StoreType' /\ BeatsPast'
  BY DEF RegistryType, registryVars, StoreType, storeVars, BeatsPast
<1>4. closers' \in [Conns -> 0..MaxClosers]
  BY CloserAssumption DEF CloseLater, HandlerType
<1> QED BY <1>2, <1>3, <1>4, ReturnType DEF HandlerType, FrameInHand

\* The registration is accepted: the session takes phone and token.
LEMMA AdoptType ==
  ASSUME TypeInv, NEW c \in Conns, buf[c] # <<>>, AdoptPhone(c)
  PROVE  SessionType' /\ RegistryType' /\ HandlerType' /\ FrameInHand'
<1> USE DEF TypeInv, TypeOK, AdoptPhone
<1>1. Head(buf[c]) \in Frame BY HeadType
<1>2. Head(buf[c]).phone \in PhoneStrings BY <1>1 DEF Frame
<1>3. GenerateAuthToken(Head(buf[c]).phone, clock) \in Tokens
  BY <1>2, TokenType DEF StoreType
<1>4. SessionType' BY <1>2, <1>3 DEF SessionType
<1> QED BY <1>4 DEF RegistryType, registryVars, HandlerType, FrameInHand,
                    InHandler, Goto, ControlPoints, Serving

\* The three database-dependent steps of handleRegistration.
LEMMA RegistrationType ==
  ASSUME TypeInv, NEW c \in Conns, UNCHANGED tcpVars,
         \/ \E db \in DB(c) : HandleRegistration(c, db)
         \/ \E db \in DB(c) : CreateDevice(c, db)
         \/ \E redis \in Redis(c) : IssueToken(c, redis)
  PROVE  TypeInv'
<1> USE DEF TypeInv, TypeOK
<1>0. buf[c] # <<>>
  BY DEF HandleRegistration, AtFrame, CreateDevice, IssueToken, FrameInHand,
         InHandler
<1>1. Head(buf[c]).phone \in PhoneStrings BY <1>0, HeadType DEF Frame
<1>2. CASE RejectRegistration(c) BY <1>0, <1>2, RejectType DEF tcpVars
<1>3. CASE AdoptPhone(c) /\ UNCHANGED rows
  BY <1>0, <1>3, AdoptType DEF tcpVars, AdoptPhone, StoreType, BeatsPast
<1>4. CASE AdoptPhone(c) /\ Insert(Head(buf[c]).phone)
  BY <1>0, <1>1, <1>4, AdoptType, InsertType DEF tcpVars, AdoptPhone
<1>5. CASE /\ Goto(c, "regInsert")
           /\ UNCHANGED <<sessionVars, registryVars, storeVars, closers, joined>>
  BY <1>0, <1>5 DEF tcpVars, Goto, sessionVars, registryVars, storeVars,
       SessionType, RegistryType, StoreType, HandlerType, BeatsPast,
       FrameInHand, InHandler, ControlPoints, Serving
<1>6. CASE \E redis \in Redis(c) : IssueToken(c, redis)
  <2> PICK redis \in Redis(c) : IssueToken(c, redis) BY <1>6
  <2> USE DEF IssueToken
  <2>1. reply' \in [Conns -> Replies]
    BY RegACKReply, SendType DEF SessionType
  <2>2. SessionType'
    <3>1. state' \in [Conns -> States] BY DEF SessionType, SetState, States
    <3>2. UNCHANGED <<phone, authToken, open>> OBVIOUS
    <3> HIDE DEF IssueToken
    <3> QED BY <2>1, <3>1, <3>2 DEF SessionType
  <2>3. RegistryType' BY DEF RegistryType, StoreAuthToken, SessionType
  <2>4. StoreType' /\ BeatsPast' BY DEF StoreType, BeatsPast, storeVars
  <2> QED BY <1>0, <2>2, <2>3, <2>4, ReturnType DEF HandlerType, FrameInHand, tcpVars
<1> QED BY <1>2, <1>3, <1>4, <1>5, <1>6 DEF HandleRegistration, CreateDevice

\* Close and Register keep the types of a session.
LEMMA CloseType ==
  ASSUME SessionType, NEW c \in Conns, Close(c)
  PROVE  state' \in [Conns -> States] /\ open' \in [Conns -> BOOLEAN]
BY DEF Close, SessionType, States

\* The three steps of handleAuthentication.
LEMMA AuthenticationType ==
  ASSUME TypeInv, NEW c \in Conns, UNCHANGED tcpVars,
         \/ \E redis \in Redis(c) : HandleAuthentication(c, redis)
         \/ SetAuthenticated(c)
         \/ JoinRegistry(c)
  PROVE  TypeInv'
<1> USE DEF TypeInv, TypeOK
<1>0. buf[c] # <<>>
  BY DEF HandleAuthentication, AtFrame, SetAuthenticated, JoinRegistry,
         FrameInHand, InHandler
<1>1. Head(buf[c]) \in Frame /\ Head(buf[c]).phone \in PhoneStrings
  BY <1>0, HeadType DEF Frame
<1>2. CASE \E redis \in Redis(c) : HandleAuthentication(c, redis)
  <2> USE <1>2 DEF HandleAuthentication
  <2>1. phone' \in [Conns -> PhoneStrings] BY <1>1 DEF SessionType
  <2>2. /\ reply' \in [Conns -> Replies]
        /\ HandlerType'
        /\ FrameInHand'
    <3>1. CASE Goto(c, "authSet") /\ UNCHANGED <<reply, closers>>
      BY <1>0, <3>1 DEF Goto, SessionType, HandlerType, FrameInHand, InHandler,
                        ControlPoints, Serving
    <3>2. CASE ACK(c, Head(buf[c]), ResultFail) /\ CloseLater(c) /\ Return(c)
      <4>1. reply' \in [Conns -> Replies] BY <1>1, <3>2, ACKType
      <4>2. closers' \in [Conns -> 0..MaxClosers]
        BY <3>2, CloserAssumption DEF CloseLater, HandlerType
      <4> QED BY <1>0, <3>2, <4>1, <4>2, ReturnType DEF HandlerType, FrameInHand
    <3> QED BY <3>1, <3>2
  <2>3. SessionType' BY <2>1, <2>2 DEF SessionType
  <2>4. RegistryType' /\ StoreType' /\ BeatsPast'
    BY DEF RegistryType, registryVars, StoreType, storeVars, BeatsPast
  <2> QED BY <2>2, <2>3, <2>4 DEF tcpVars
<1>3. CASE SetAuthenticated(c)
  BY <1>0, <1>3 DEF SetAuthenticated, SetState, Goto, States, tcpVars, registryVars,
       storeVars, SessionType, RegistryType, StoreType, HandlerType,
       BeatsPast, FrameInHand, InHandler, ControlPoints, Serving
<1>4. CASE JoinRegistry(c)
  <2> USE <1>4 DEF JoinRegistry
  <2>1. reply' \in [Conns -> Replies] BY <1>1, ACKType
  <2>2. phone[c] \in PhoneStrings /\ ReplicaOf[c] \in Replicas
    BY RegistryAssumption DEF SessionType
  <2>3. Owner(c) \in Conns \cup {NoConn} BY <2>2 DEF Owner, RegistryType
  <2>4. state' \in [Conns -> States] /\ open' \in [Conns -> BOOLEAN]
    BY <2>3, CloseType DEF Register, SessionType
  <2>5. SessionType' BY <2>1, <2>4 DEF SessionType
  <2>6. RegistryType' BY <2>2 DEF RegistryType, Register
  <2>7. StoreType' /\ BeatsPast' BY DEF StoreType, storeVars, BeatsPast
  <2> QED BY <1>0, <2>5, <2>6, <2>7, ReturnType DEF HandlerType, FrameInHand, tcpVars
<1> QED BY <1>2, <1>3, <1>4

\* The frames a peer sends are frames.
LEMMA BatchType ==
  ASSUME NEW c \in Conns, NEW fs \in Batches(c)
  PROVE  fs \in Seq(Frame) /\ fs # <<>>
         /\ \A i \in DOMAIN fs : fs[i].phone \in PhonesOf[c]
<1>1. PhonesOf[c] \subseteq PhoneStrings BY ServerAssumption
<1>2. \A t \in [phone : PhonesOf[c], ts : 0..MaxClock] : t \in Tokens
  BY <1>1, ServerAssumption DEF Tokens
<1>3. Kinds \subseteq MsgKinds \cup {"malformed"} BY ServerAssumption
<1>4. \A f \in Frames(c) : f \in Frame /\ f.phone \in PhonesOf[c]
  BY <1>1, <1>2, <1>3 DEF Frames, Frame
<1>5. PICK n \in 1..MaxBatch : fs \in [1..n -> Frames(c)] BY DEF Batches
<1>6. n \in Nat /\ n > 0 BY <1>5, ServerAssumption
<1>7. fs \in [1..n -> Frame] BY <1>4, <1>5
<1>8. fs \in Seq(Frame) BY <1>6, <1>7, IsASeq
<1>9. 1 \in DOMAIN fs BY <1>6, <1>7
<1> QED BY <1>4, <1>5, <1>8, <1>9

\* Accept, reads and the deferred clean-up of handleConn.
LEMMA ConnectionType ==
  ASSUME TypeInv, NEW c \in Conns,
         \/ Accept(c) \/ Fill(c) \/ ReadFails(c) \/ ReadClosed(c)
         \/ ReadMalformed(c) \/ CleanUp(c) \/ CloseSocket(c)
  PROVE  TypeInv'
<1> USE DEF TypeInv, TypeOK
<1>1. CASE Accept(c)
  BY <1>1 DEF Accept, NewSession, registryVars, storeVars, SessionType,
       RegistryType, StoreType, HandlerType, BeatsPast, FrameInHand,
       InHandler, ControlPoints, Serving
<1>2. CASE Fill(c)
  <2>1. PICK fs \in Batches(c) : buf' = [buf EXCEPT ![c] = fs] BY <1>2 DEF Fill
  <2>2. buf' \in [Conns -> Seq(Frame)] BY <2>1, BatchType DEF HandlerType
  <2> QED BY <1>2, <2>1, <2>2, BatchType
      DEF Fill, sessionVars, registryVars, storeVars, tcpVars, SessionType,
          RegistryType, StoreType, HandlerType, BeatsPast, FrameInHand, InHandler
<1>3. CASE ReadFails(c) \/ ReadClosed(c) \/ ReadMalformed(c)
  <2>1. /\ Goto(c, "cleanup")
        /\ UNCHANGED <<sessionVars, registryVars, storeVars, closers, joined,
                       tcpVars>>
    BY <1>3 DEF ReadFails, ReadClosed, ReadMalformed
  <2> QED BY <2>1 DEF Goto, sessionVars, registryVars, storeVars, tcpVars,
       SessionType, RegistryType, StoreType, HandlerType, BeatsPast,
       FrameInHand, InHandler, ControlPoints, Serving
<1>4. CASE CleanUp(c)
  <2>1. timer' \in [Conns -> {"armed", "firing", "off"}] BY <1>4 DEF CleanUp
  <2>2. local' \in [Replicas -> [PhoneStrings -> Conns \cup {NoConn}]]
    BY <1>4, RegistryAssumption DEF CleanUp, Unregister, RegistryType, SessionType
  <2>3. RegistryType' BY <1>4, <2>2 DEF CleanUp, RegistryType
  <2>4. SessionType' /\ StoreType' /\ BeatsPast'
    BY <1>4 DEF CleanUp, sessionVars, storeVars, SessionType, StoreType, BeatsPast
  <2>5. HandlerType' /\ FrameInHand'
    BY <1>4 DEF CleanUp, Goto, HandlerType, FrameInHand, InHandler, ControlPoints
  <2> QED BY <1>4, <2>1, <2>3, <2>4, <2>5 DEF CleanUp
<1>5. CASE CloseSocket(c)
  BY <1>5 DEF CloseSocket, Goto, registryVars, storeVars, tcpVars, SessionType,
       RegistryType, StoreType, HandlerType, BeatsPast, FrameInHand,
       InHandler, ControlPoints, Serving
<1> QED BY <1>1, <1>2, <1>3, <1>4, <1>5

\* The authentication timer and the delayed closes.
LEMMA TimerType ==
  ASSUME TypeInv, NEW c \in Conns, Timers(c)
  PROVE  TypeInv'
<1> USE DEF TypeInv, TypeOK
<1>1. CASE AuthTimerFires(c)
  BY <1>1 DEF AuthTimerFires, serverVars, sessionVars, registryVars, storeVars,
       handlerVars, SessionType, RegistryType, StoreType, HandlerType,
       BeatsPast, FrameInHand
<1>2. CASE AuthTimerCloses(c)
  BY <1>2, CloseType DEF AuthTimerCloses, registryVars, storeVars, handlerVars,
       SessionType, RegistryType, StoreType, HandlerType, BeatsPast, FrameInHand
<1>3. CASE DelayedClose(c)
  <2>1. closers' \in [Conns -> 0..MaxClosers]
    BY <1>3, CloserAssumption DEF DelayedClose, HandlerType
  <2>2. SessionType' BY <1>3, CloseType DEF DelayedClose, SessionType
  <2> QED BY <1>3, <2>1, <2>2 DEF DelayedClose, registryVars, storeVars,
       tcpVars, RegistryType, StoreType, HandlerType, BeatsPast, FrameInHand
<1> QED BY <1>1, <1>2, <1>3 DEF Timers

\* Signals, crashes and restarts.
LEMMA ProcessType ==
  ASSUME TypeInv, NEW r \in Replicas,
         Signal(r) \/ RunReturns(r) \/ Crash(r) \/ Restart(r)
  PROVE  TypeInv'
<1> USE DEF TypeInv, TypeOK
<1>1. CASE Signal(r) \/ Restart(r)
  <2>1. /\ UNCHANGED <<serverVars, timer>>
        /\ ctx' \in [Replicas -> {"serving", "cancelled", "exited"}]
        /\ restarts' \in Nat
    BY <1>1 DEF Signal, Restart
  <2> QED BY <2>1 DEF serverVars, sessionVars, registryVars, storeVars,
       handlerVars, SessionType, RegistryType, StoreType, HandlerType,
       BeatsPast, FrameInHand
<1>2. CASE Vanish(r)
  <2> USE <1>2 DEF Vanish
  <2>1. SessionType' BY DEF SessionType
  <2>2. RegistryType' BY DEF RegistryType
  <2>3. StoreType' /\ BeatsPast' BY DEF StoreType, storeVars, BeatsPast
  <2>4. HandlerType'
    BY EmptySeq, CloserAssumption DEF HandlerType, ControlPoints, Serving
  <2>5. FrameInHand' BY DEF FrameInHand, InHandler, HandlerType
  <2>6. timer' \in [Conns -> {"armed", "firing", "off"}] OBVIOUS
  <2> QED BY <2>1, <2>2, <2>3, <2>4, <2>5, <2>6
<1> QED BY <1>1, <1>2 DEF RunReturns, Crash

\* The clock, Redis expiry and the dashboard.
LEMMA EnvironmentType ==
  ASSUME TypeInv, Environment
  PROVE  TypeInv'
<1> USE DEF TypeInv, TypeOK
<1>1. CASE /\ Tick(MaxClock)
           /\ UNCHANGED <<sessionVars, registryVars, handlerVars, tcpVars>>
  <2>1. StoreType' BY <1>1 DEF Tick, StoreType
  <2>2. BeatsPast'
    <3> SUFFICES ASSUME NEW p \in PhoneStrings, NEW i \in DOMAIN rows[p],
                        rows[p][i].beatAt # NoTime
                 PROVE  rows[p][i].beatAt <= clock + 1
      BY <1>1 DEF BeatsPast, Tick
    <3>1. rows[p] \in Seq(Row) BY DEF StoreType
    <3>2. rows[p][i] \in Row BY <3>1
    <3>3. rows[p][i].beatAt \in Nat BY <3>2 DEF Row
    <3>4. rows[p][i].beatAt <= clock BY DEF BeatsPast
    <3> QED BY <3>3, <3>4 DEF StoreType
  <2> QED BY <1>1, <2>1, <2>2 DEF sessionVars, registryVars, handlerVars,
       tcpVars, SessionType, RegistryType, HandlerType, FrameInHand
<1>2. CASE \E p \in PhoneStrings :
             /\ ExpireToken(p)
             /\ UNCHANGED <<sessionVars, storeVars, handlerVars, tcpVars>>
  BY <1>2 DEF ExpireToken, sessionVars, storeVars, handlerVars, tcpVars,
       SessionType, RegistryType, StoreType, HandlerType, BeatsPast, FrameInHand
<1>3. CASE \E p \in PhoneStrings, st \in AdminStatuses :
             \E i \in DOMAIN rows[p] :
               /\ SetStatus(p, i, st)
               /\ UNCHANGED <<sessionVars, registryVars, handlerVars, tcpVars>>
  <2>1. StoreType' /\ BeatsPast' BY <1>3, StatusType
  <2> QED BY <1>3, <2>1 DEF sessionVars, registryVars, handlerVars, tcpVars,
       SessionType, RegistryType, HandlerType, FrameInHand
<1> QED BY <1>1, <1>2, <1>3 DEF Environment

\* Every step keeps the type invariant.
LEMMA TypeStep == TypeInv /\ [Next]_vars => TypeInv'
<1> SUFFICES ASSUME TypeInv, [Next]_vars PROVE TypeInv' OBVIOUS
<1>1. CASE \E c \in Conns : Accept(c) \/ Fill(c) \/ ReadFails(c)
  BY <1>1, ConnectionType
<1>2. CASE \E c \in Conns : Goroutine(c)
  <2> PICK c \in Conns : Goroutine(c) BY <1>2
  <2>1. CASE Dispatch(c)
    BY <2>1, AnsweredType, RegistrationType, AuthenticationType DEF Dispatch
  <2>2. CASE ~Dispatch(c) BY <2>2, ConnectionType DEF Goroutine
  <2> QED BY <2>1, <2>2
<1>3. CASE \E c \in Conns : Timers(c) BY <1>3, TimerType
<1>4. CASE \E r \in Replicas : Signal(r) \/ RunReturns(r) \/ Crash(r) \/ Restart(r)
  BY <1>4, ProcessType
<1>5. CASE Environment BY <1>5, EnvironmentType
<1>6. CASE UNCHANGED vars
  BY <1>6 DEF vars, serverVars, sessionVars, registryVars, storeVars,
       handlerVars, tcpVars, TypeInv, TypeOK, SessionType, RegistryType,
       StoreType, HandlerType, BeatsPast, FrameInHand
<1> QED BY <1>1, <1>2, <1>3, <1>4, <1>5, <1>6 DEF Next

\* Every variable of the server keeps its type: in particular every frame
\* that is dispatched is well-formed, a handler never runs on an empty
\* buffer, and the heartbeat gap the UPDATE computes is never negative.
THEOREM TypeCorrect == Spec => [](TypeOK /\ BeatsPast /\ FrameInHand)
<1>1. Spec => []TypeInv BY InitType, TypeStep, PTL DEF Spec
<1> QED BY <1>1, PTL DEF TypeInv

-----------------------------------------------------------------------------
(* Ownership of the map entries.                                           *)

\* A peer has one phone, and it is not the empty string.
LEMMA OwnPhoneUnique ==
  ASSUME OnePhonePerConn, NEW c \in Conns, NEW p \in PhonesOf[c],
         NEW q \in PhonesOf[c]
  PROVE  p = q /\ p # NoPhone
BY PhoneAssumption DEF OnePhonePerConn

\* A step of c that consumes at most the frame in hand leaves only frames
\* of c's peer in the buffer.
LEMMA BufferPhones ==
  ASSUME HandlerType, OwnPhone, NEW c \in Conns, buf[c] # <<>>,
         NEW b, b \in {buf[c], Tail(buf[c])}
  PROVE  \A i \in DOMAIN b : b[i].phone \in PhonesOf[c]
<1>1. buf[c] \in Seq(Frame) BY DEF HandlerType
<1>2. CASE b = buf[c] BY <1>2 DEF OwnPhone
<1>3. CASE b = Tail(buf[c])
  <2> TAKE i \in DOMAIN b
  <2>1. i + 1 \in DOMAIN buf[c] /\ b[i] = buf[c][i + 1] BY <1>1, <1>3
  <2> QED BY <2>1 DEF OwnPhone
<1> QED BY <1>2, <1>3

\* What every step of Dispatch does to the part of the state ownership is
\* about: other sessions keep theirs, a phone is adopted from the frame.
LEMMA DispatchFrame ==
  ASSUME OnePhonePerConn, TypeInv, OwnerInv, NEW c \in Conns, Dispatch(c)
  PROVE  /\ \A d \in Conns \ {c} :
              /\ phone'[d] = phone[d] /\ pc'[d] = pc[d]
              /\ buf'[d] = buf[d] /\ joined'[d] = joined[d]
         /\ pc[c] \in Serving /\ pc'[c] \in Serving
         /\ phone'[c] = phone[c] \/ phone[c] = NoPhone
         /\ OwnPhone' /\ PhoneFirst'
<1> USE DEF TypeInv, TypeOK
<1>0. buf[c] # <<>> /\ pc[c] \in InHandler \cup {"read"}
  BY DEF FrameInHand, InHandler, Dispatch, AtFrame, DropUnauthenticated,
         HandleHeartbeat, HandleNotice, HandleTerminalResp, HandleLocation,
         RegisterUndecodable, HandleRegistration, CreateDevice, IssueToken,
         HandleAuthentication, SetAuthenticated, JoinRegistry
<1>1. Head(buf[c]).phone \in PhonesOf[c]
  <2>1. buf[c] \in Seq(Frame) BY DEF HandlerType
  <2>2. 1 \in DOMAIN buf[c] /\ Head(buf[c]) = buf[c][1] BY <1>0, <2>1
  <2> QED BY <2>2 DEF OwnPhone, OwnerInv
<1>2. Head(buf[c]).phone # NoPhone
      /\ (phone[c] = Head(buf[c]).phone \/ phone[c] = NoPhone)
  BY <1>1, OwnPhoneUnique DEF OwnerInv, OwnPhone
<1>3. \/ /\ Return(c)
         /\ UNCHANGED phone
         /\ joined' = joined \/ (pc[c] = "authJoin"
                                /\ joined' = [joined EXCEPT ![c] = TRUE])
      \/ /\ Return(c)
         /\ phone' = [phone EXCEPT ![c] = IF @ = NoPhone THEN Head(buf[c]).phone ELSE @]
         /\ UNCHANGED joined
      \/ /\ \E l \in {"regToken", "authSet"} : Goto(c, l)
         /\ phone' = [phone EXCEPT ![c] = Head(buf[c]).phone]
         /\ UNCHANGED joined
      \/ /\ Goto(c, "authSet")
         /\ phone' = [phone EXCEPT ![c] = IF @ = NoPhone THEN Head(buf[c]).phone ELSE @]
         /\ UNCHANGED joined
      \/ /\ Goto(c, "regInsert")
         /\ UNCHANGED <<phone, joined>>
      \/ /\ Goto(c, "authJoin") /\ pc[c] = "authSet"
         /\ UNCHANGED <<phone, joined>>
  <2>1. CASE \/ DropUnauthenticated(c) \/ HandleNotice(c) \/ HandleTerminalResp(c)
             \/ \E db \in DB(c) : HandleHeartbeat(c, db)
             \/ \E ok \in BOOLEAN : HandleLocation(c, ok)
             \/ RegisterUndecodable(c)
    BY <2>1 DEF DropUnauthenticated, HandleNotice, HandleTerminalResp,
         HandleHeartbeat, HandleLocation, RegisterUndecodable, sessionVars
  <2>2. CASE RejectRegistration(c) BY <2>2 DEF RejectRegistration
  <2>3. CASE AdoptPhone(c) BY <2>3 DEF AdoptPhone
  <2>4. CASE \E db \in DB(c) : HandleRegistration(c, db)
    BY <2>2, <2>3, <2>4 DEF HandleRegistration, sessionVars
  <2>5. CASE \E db \in DB(c) : CreateDevice(c, db)
    BY <2>2, <2>3, <2>5 DEF CreateDevice
  <2>6. CASE \E redis \in Redis(c) : IssueToken(c, redis) BY <2>6 DEF IssueToken
  <2>7. CASE \E redis \in Redis(c) : HandleAuthentication(c, redis)
    BY <2>7 DEF HandleAuthentication
  <2>8. CASE SetAuthenticated(c) \/ JoinRegistry(c)
    BY <2>8 DEF SetAuthenticated, JoinRegistry
  <2> QED BY <2>1, <2>4, <2>5, <2>6, <2>7, <2>8 DEF Dispatch
<1>4. /\ \A d \in Conns \ {c} :
           /\ phone'[d] = phone[d] /\ pc'[d] = pc[d]
           /\ buf'[d] = buf[d] /\ joined'[d] = joined[d]
      /\ buf'[c] \in {buf[c], Tail(buf[c])}
      /\ pc'[c] \in InHandler \cup {"read"}
      /\ phone'[c] = phone[c]
         \/ (phone[c] = NoPhone /\ phone'[c] = Head(buf[c]).phone)
  BY <1>2, <1>3 DEF SessionType, HandlerType, Return, Goto, InHandler
<1>5. OwnPhone'
  <2> SUFFICES ASSUME NEW d \in Conns
               PROVE  /\ phone'[d] \in PhonesOf[d] \cup {NoPhone}
                      /\ \A i \in DOMAIN buf'[d] : buf'[d][i].phone \in PhonesOf[d]
    BY DEF OwnPhone
  <2>1. CASE d = c BY <2>1, <1>0, <1>1, <1>4, BufferPhones DEF OwnerInv, OwnPhone
  <2>2. CASE d # c BY <2>2, <1>4 DEF OwnerInv, OwnPhone
  <2> QED BY <2>1, <2>2
<1>6. PhoneFirst'
  <2> SUFFICES ASSUME NEW d \in Conns,
                      pc'[d] \in {"regToken", "authSet", "authJoin"} \/ joined'[d]
               PROVE  phone'[d] # NoPhone
    BY DEF PhoneFirst
  <2>1. CASE d = c
    BY <2>1, <1>2, <1>3 DEF OwnerInv, PhoneFirst, SessionType, HandlerType,
         Return, Goto
  <2>2. CASE d # c BY <2>2, <1>4 DEF OwnerInv, PhoneFirst
  <2> QED BY <2>1, <2>2
<1> QED BY <1>0, <1>4, <1>5, <1>6 DEF InHandler, Serving

\* A step that leaves the map alone and lets no session that joined come
\* back to life keeps ownership.
LEMMA QuietKeeps ==
  ASSUME TypeInv, OwnerInv, UNCHANGED <<local, joined>>,
         \A c \in Conns :
           /\ phone'[c] = phone[c] \/ phone[c] = NoPhone
           /\ pc[c] \in Serving => pc'[c] \in Serving
           /\ joined[c] /\ Live(c)' => Live(c)
           /\ pc'[c] = "unused" => pc[c] = "unused",
         OwnPhone', PhoneFirst'
  PROVE  OwnerInv'
<1> USE DEF TypeInv, TypeOK, OwnerInv
<1>1. EntriesAgree'
  <2> SUFFICES ASSUME NEW r \in Replicas, NEW p \in PhoneStrings,
                      local[r][p] # NoConn
               PROVE  /\ ReplicaOf[local[r][p]] = r
                      /\ phone'[local[r][p]] = p
                      /\ p # NoPhone
                      /\ pc'[local[r][p]] \in Serving
    BY DEF EntriesAgree
  <2>1. local[r][p] \in Conns BY DEF RegistryType
  <2> QED BY <2>1 DEF EntriesAgree
<1>2. FreshNotJoined' BY DEF FreshNotJoined
<1>3. LiveIsOwner'
  <2> SUFFICES ASSUME NEW c \in Conns, joined[c], Live(c)'
               PROVE  local[ReplicaOf[c]][phone'[c]] = c
    BY DEF LiveIsOwner, Owner
  <2>1. phone'[c] = phone[c] BY DEF PhoneFirst
  <2> QED BY <2>1 DEF LiveIsOwner, Owner
<1> QED BY <1>1, <1>2, <1>3

\* Register: the newcomer takes the entry and the displaced session, the
\* only other one that could be live under this phone here, is closed.
LEMMA JoinKeeps ==
  ASSUME OnePhonePerConn, TypeInv, OwnerInv, NEW c \in Conns, JoinRegistry(c),
         Dispatch(c)
  PROVE  OwnerInv'
<1> USE DEF TypeInv, TypeOK
<1>0. /\ \A d \in Conns \ {c} :
           phone'[d] = phone[d] /\ pc'[d] = pc[d] /\ joined'[d] = joined[d]
      /\ pc[c] \in Serving /\ pc'[c] \in Serving
      /\ OwnPhone' /\ PhoneFirst'
  BY DispatchFrame
<1>1. /\ phone' = phone
      /\ local' = [local EXCEPT ![ReplicaOf[c]][phone[c]] = c]
      /\ \A d \in Conns : open'[d] => open[d]
      /\ Owner(c) \in Conns \ {c} => ~open'[Owner(c)]
  BY RegistryAssumption DEF JoinRegistry, Register, Close, SessionType
<1>2. /\ phone[c] \in PhoneStrings \ {NoPhone} /\ ReplicaOf[c] \in Replicas
      /\ c # NoConn
  BY RegistryAssumption DEF JoinRegistry, OwnerInv, PhoneFirst, SessionType
<1>3. \A r \in Replicas, p \in PhoneStrings :
        local'[r][p] = IF r = ReplicaOf[c] /\ p = phone[c] THEN c ELSE local[r][p]
  BY <1>1, <1>2 DEF RegistryType
<1>4. EntriesAgree'
  <2> SUFFICES ASSUME NEW r \in Replicas, NEW p \in PhoneStrings,
                      local'[r][p] # NoConn
               PROVE  /\ ReplicaOf[local'[r][p]] = r
                      /\ phone'[local'[r][p]] = p
                      /\ p # NoPhone
                      /\ pc'[local'[r][p]] \in Serving
    BY DEF EntriesAgree
  <2>1. CASE r = ReplicaOf[c] /\ p = phone[c] BY <2>1, <1>0, <1>1, <1>2, <1>3
  <2>2. CASE ~(r = ReplicaOf[c] /\ p = phone[c])
    <3>1. local'[r][p] = local[r][p] /\ local[r][p] \in Conns
      BY <2>2, <1>3 DEF RegistryType
    <3> QED BY <3>1, <1>0, <1>1 DEF OwnerInv, EntriesAgree
  <2> QED BY <2>1, <2>2
<1>5. FreshNotJoined'
  <2>1. pc'[c] # "unused" BY <1>0 DEF Serving
  <2> QED BY <2>1, <1>0 DEF OwnerInv, FreshNotJoined
<1>6. LiveIsOwner'
  <2> SUFFICES ASSUME NEW d \in Conns, joined'[d], Live(d)'
               PROVE  local'[ReplicaOf[d]][phone[d]] = d
    BY <1>1 DEF LiveIsOwner, Owner
  <2>0. ReplicaOf[d] \in Replicas /\ phone[d] \in PhoneStrings
    BY RegistryAssumption DEF SessionType
  <2>1. CASE d = c BY <2>1, <1>2, <1>3
  <2>2. CASE d # c
    <3>1. Owner(d) = d BY <2>2, <1>0, <1>1 DEF OwnerInv, LiveIsOwner, Live
    <3>2. ~(ReplicaOf[d] = ReplicaOf[c] /\ phone[d] = phone[c])
      BY <2>2, <3>1, <1>1 DEF Owner, Live
    <3> QED BY <3>1, <3>2, <2>0, <1>3 DEF Owner
  <2> QED BY <2>1, <2>2
<1> QED BY <1>0, <1>4, <1>5, <1>6 DEF OwnerInv

\* Unregister removes the session's own entry and no other.
LEMMA CleanUpKeeps ==
  ASSUME TypeInv, OwnerInv, NEW c \in Conns, CleanUp(c)
  PROVE  OwnerInv'
<1> USE DEF TypeInv, TypeOK
<1>1. /\ UNCHANGED <<phone, open, joined, buf>>
      /\ pc' = [pc EXCEPT ![c] = "closing"]
      /\ pc[c] = "cleanup"
  BY DEF CleanUp, Goto, sessionVars
<1>2. ReplicaOf[c] \in Replicas /\ phone[c] \in PhoneStrings
  BY RegistryAssumption DEF SessionType
<1>3. \A r \in Replicas, p \in PhoneStrings :
        \/ local'[r][p] = local[r][p] /\ local[r][p] # c
        \/ local'[r][p] = NoConn /\ local[r][p] = c
  <2> SUFFICES ASSUME NEW r \in Replicas, NEW p \in PhoneStrings
               PROVE  \/ local'[r][p] = local[r][p] /\ local[r][p] # c
                      \/ local'[r][p] = NoConn /\ local[r][p] = c
    OBVIOUS
  <2>1. local[r][p] = c => r = ReplicaOf[c] /\ p = phone[c] /\ p # NoPhone
    BY RegistryAssumption DEF OwnerInv, EntriesAgree
  <2>2. CASE phone[c] # NoPhone /\ Owner(c) = c
    <3>1. local' = [local EXCEPT ![ReplicaOf[c]][phone[c]] = NoConn]
      BY <2>2 DEF CleanUp, Unregister
    <3>2. CASE r = ReplicaOf[c] /\ p = phone[c]
      BY <3>1, <3>2, <2>2, <1>2 DEF RegistryType, Owner
    <3>3. CASE ~(r = ReplicaOf[c] /\ p = phone[c])
      BY <3>1, <3>3, <2>1, <1>2 DEF RegistryType
    <3> QED BY <3>2, <3>3
  <2>3. CASE ~(phone[c] # NoPhone /\ Owner(c) = c)
    BY <2>1, <2>3 DEF CleanUp, Unregister, Owner
  <2> QED BY <2>2, <2>3
<1>4. EntriesAgree'
  <2> SUFFICES ASSUME NEW r \in Replicas, NEW p \in PhoneStrings,
                      local'[r][p] # NoConn
               PROVE  /\ ReplicaOf[local'[r][p]] = r
                      /\ phone'[local'[r][p]] = p
                      /\ p # NoPhone
                      /\ pc'[local'[r][p]] \in Serving
    BY DEF EntriesAgree
  <2>1. local'[r][p] = local[r][p] /\ local[r][p] \in Conns \ {c}
    BY <1>3 DEF RegistryType
  <2> QED BY <2>1, <1>1 DEF OwnerInv, EntriesAgree, HandlerType
<1>5. LiveIsOwner'
  <2> SUFFICES ASSUME NEW d \in Conns, joined[d], Live(d)'
               PROVE  local'[ReplicaOf[d]][phone[d]] = d
    BY <1>1 DEF LiveIsOwner, Owner
  <2>1. d # c BY <1>1 DEF Live, Serving, HandlerType
  <2>2. Owner(d) = d BY <2>1, <1>1 DEF OwnerInv, LiveIsOwner, Live, HandlerType
  <2>3. ReplicaOf[d] \in Replicas /\ phone[d] \in PhoneStrings
    BY RegistryAssumption DEF SessionType
  <2> QED BY <2>1, <2>2, <2>3, <1>3 DEF Owner
<1>6. OwnPhone' /\ PhoneFirst' /\ FreshNotJoined'
  BY <1>1 DEF OwnerInv, OwnPhone, PhoneFirst, FreshNotJoined, HandlerType
<1> QED BY <1>4, <1>5, <1>6 DEF OwnerInv

\* The end of a process empties its map and ends its goroutines together.
LEMMA VanishKeeps ==
  ASSUME TypeInv, OwnerInv, NEW r \in Replicas, Vanish(r)
  PROVE  OwnerInv'
<1> USE DEF TypeInv, TypeOK
<1>1. /\ UNCHANGED <<phone, joined>>
      /\ \A q \in Replicas, p \in PhoneStrings :
           local'[q][p] = IF q = r THEN NoConn ELSE local[q][p]
      /\ \A c \in Conns :
           IF ReplicaOf[c] = r /\ pc[c] # "unused"
           THEN pc'[c] = "killed" /\ buf'[c] = <<>>
           ELSE pc'[c] = pc[c] /\ buf'[c] = buf[c] /\ open'[c] = open[c]
  BY DEF Vanish, RegistryType
<1>2. EntriesAgree'
  <2> SUFFICES ASSUME NEW q \in Replicas, NEW p \in PhoneStrings,
                      local'[q][p] # NoConn
               PROVE  /\ ReplicaOf[local'[q][p]] = q
                      /\ phone'[local'[q][p]] = p
                      /\ p # NoPhone
                      /\ pc'[local'[q][p]] \in Serving
    BY DEF EntriesAgree
  <2>1. local'[q][p] = local[q][p] /\ local[q][p] \in Conns /\ q # r
    BY <1>1 DEF RegistryType
  <2> QED BY <2>1, <1>1 DEF OwnerInv, EntriesAgree
<1>3. LiveIsOwner'
  <2> SUFFICES ASSUME NEW c \in Conns, joined[c], Live(c)'
               PROVE  local'[ReplicaOf[c]][phone[c]] = c
    BY <1>1 DEF LiveIsOwner, Owner
  <2>1. ReplicaOf[c] \in Replicas /\ phone[c] \in PhoneStrings
    BY RegistryAssumption DEF SessionType
  <2>2. ReplicaOf[c] # r /\ Live(c) BY <1>1 DEF Live, Serving
  <2> QED BY <2>1, <2>2, <1>1 DEF OwnerInv, LiveIsOwner, Owner
<1>4. OwnPhone' /\ PhoneFirst' /\ FreshNotJoined'
  BY <1>1 DEF OwnerInv, OwnPhone, PhoneFirst, FreshNotJoined
<1> QED BY <1>2, <1>3, <1>4 DEF OwnerInv

\* Nobody owns a phone at the start.
LEMMA InitOwner == Init => OwnerInv
BY DEF Init, SessionInit, RegistryInit, HandlerInit, OwnerInv, OwnPhone,
       PhoneFirst, EntriesAgree, FreshNotJoined, LiveIsOwner, PhoneStrings

\* Every step keeps the ownership invariant.
LEMMA OwnerStep ==
  ASSUME OnePhonePerConn, TypeInv, OwnerInv, [Next]_vars
  PROVE  OwnerInv'
<1> USE DEF TypeInv, TypeOK
<1>1. ASSUME NEW c \in Conns, Dispatch(c) PROVE OwnerInv'
  <2>1. CASE JoinRegistry(c) BY <1>1, <2>1, JoinKeeps
  <2>2. CASE ~JoinRegistry(c)
    <3>1. UNCHANGED <<local, joined, open>>
      BY <1>1, <2>2 DEF Dispatch, DropUnauthenticated, HandleHeartbeat,
           HandleNotice, HandleTerminalResp, HandleLocation,
           RegisterUndecodable, HandleRegistration, RejectRegistration,
           AdoptPhone, CreateDevice, IssueToken, HandleAuthentication,
           SetAuthenticated, sessionVars, registryVars
    <3>2. /\ \A d \in Conns \ {c} : phone'[d] = phone[d] /\ pc'[d] = pc[d]
          /\ pc[c] \in Serving /\ pc'[c] \in Serving
          /\ phone'[c] = phone[c] \/ phone[c] = NoPhone
          /\ OwnPhone' /\ PhoneFirst'
      BY <1>1, DispatchFrame
    <3>3. pc'[c] # "unused" BY <3>2 DEF Serving
    <3> QED BY <3>1, <3>2, <3>3, QuietKeeps DEF Live
  <2> QED BY <2>1, <2>2
<1>2. ASSUME NEW c \in Conns, CleanUp(c) PROVE OwnerInv' BY <1>2, CleanUpKeeps
<1>3. ASSUME NEW c \in Conns, Accept(c) PROVE OwnerInv'
  <2>1. /\ UNCHANGED <<local, joined, phone, buf>> /\ pc[c] = "unused"
        /\ pc' = [pc EXCEPT ![c] = "read"] /\ open' = [open EXCEPT ![c] = TRUE]
    BY <1>3 DEF Accept, NewSession, registryVars
  <2>2. ~joined[c] BY <2>1 DEF OwnerInv, FreshNotJoined
  <2>3. OwnPhone' /\ PhoneFirst'
    BY <2>1 DEF OwnerInv, OwnPhone, PhoneFirst, HandlerType
  <2>4. \A d \in Conns :
          /\ pc[d] \in Serving => pc'[d] \in Serving
          /\ joined[d] /\ Live(d)' => Live(d)
          /\ pc'[d] = "unused" => pc[d] = "unused"
    BY <2>1, <2>2 DEF Live, Serving, HandlerType, SessionType
  <2> QED BY <2>1, <2>3, <2>4, QuietKeeps
<1>4. ASSUME NEW c \in Conns, Fill(c) PROVE OwnerInv'
  <2>1. /\ UNCHANGED <<local, joined, phone, pc, open>>
        /\ \E fs \in Batches(c) : buf' = [buf EXCEPT ![c] = fs]
    BY <1>4 DEF Fill, registryVars, sessionVars
  <2>2. OwnPhone' /\ PhoneFirst'
    BY <2>1, BatchType DEF OwnerInv, OwnPhone, PhoneFirst, HandlerType
  <2> QED BY <2>1, <2>2, QuietKeeps DEF Live
<1>5. ASSUME NEW c \in Conns,
             ReadFails(c) \/ ReadClosed(c) \/ ReadMalformed(c) \/ CloseSocket(c)
      PROVE  OwnerInv'
  <2>1. /\ UNCHANGED <<local, joined, phone, buf>>
        /\ \/ pc[c] = "read" /\ pc' = [pc EXCEPT ![c] = "cleanup"]
           \/ pc[c] = "closing" /\ pc' = [pc EXCEPT ![c] = "done"]
        /\ open' = open \/ open' = [open EXCEPT ![c] = FALSE]
    BY <1>5 DEF ReadFails, ReadClosed, ReadMalformed, AtFrame, CloseSocket,
         Goto, registryVars, sessionVars
  <2>2. OwnPhone' /\ PhoneFirst'
    BY <2>1 DEF OwnerInv, OwnPhone, PhoneFirst, HandlerType
  <2>3. \A d \in Conns :
          /\ pc[d] \in Serving => pc'[d] \in Serving
          /\ Live(d)' => Live(d)
          /\ pc'[d] = "unused" => pc[d] = "unused"
    BY <2>1 DEF Live, Serving, HandlerType, SessionType
  <2> QED BY <2>1, <2>2, <2>3, QuietKeeps
<1>6. ASSUME NEW c \in Conns, Timers(c) PROVE OwnerInv'
  <2>1. /\ UNCHANGED <<local, joined, phone, pc, buf>>
        /\ open' = open \/ open' = [open EXCEPT ![c] = FALSE]
    BY <1>6 DEF Timers, AuthTimerFires, AuthTimerCloses, DelayedClose, Close,
         serverVars, handlerVars, registryVars, sessionVars
  <2>2. OwnPhone' /\ PhoneFirst' BY <2>1 DEF OwnerInv, OwnPhone, PhoneFirst
  <2>3. \A d \in Conns : Live(d)' => Live(d) BY <2>1 DEF Live, SessionType
  <2> QED BY <2>1, <2>2, <2>3, QuietKeeps
<1>7. ASSUME NEW r \in Replicas, Vanish(r) PROVE OwnerInv' BY <1>7, VanishKeeps
<1>8. ASSUME UNCHANGED <<local, joined, phone, pc, buf, open>> PROVE OwnerInv'
  BY <1>8 DEF OwnerInv, OwnPhone, PhoneFirst, EntriesAgree, FreshNotJoined,
       LiveIsOwner, Live, Owner
<1>9. CASE (\E r \in Replicas : Signal(r) \/ Restart(r)) \/ Environment
           \/ UNCHANGED vars
  BY <1>8, <1>9 DEF Signal, Restart, Environment, ExpireToken, vars, serverVars,
       handlerVars, registryVars, sessionVars
<1> QED BY <1>1, <1>2, <1>3, <1>4, <1>5, <1>6, <1>7, <1>9
    DEF Next, Goroutine, RunReturns, Crash

\* If every terminal keeps to its own phone number, then in any number of
\* processes and connections, through take-overs, timers, rejections,
\* shutdown, crashes and restarts: Registry.local never points to a session
\* whose goroutine is gone, and a session that authenticated and still has
\* its socket is the one its process finds under its phone.
THEOREM OwnerCorrect ==
  OnePhonePerConn => (Spec => [](NoStaleOwner /\ LiveIsOwner))
<1> SUFFICES ASSUME OnePhonePerConn
             PROVE  Spec => [](NoStaleOwner /\ LiveIsOwner)
  OBVIOUS
<1>1. Init => TypeInv /\ OwnerInv BY InitType, InitOwner
<1>2. TypeInv /\ OwnerInv /\ [Next]_vars => (TypeInv /\ OwnerInv)'
  BY TypeStep, OwnerStep
<1>3. OwnerInv => NoStaleOwner /\ LiveIsOwner
  BY DEF OwnerInv, EntriesAgree, NoStaleOwner
<1> QED BY <1>1, <1>2, <1>3, PTL DEF Spec

-----------------------------------------------------------------------------
(* Only known phones own an entry.                                         *)

\* Rows are never deleted.
RowsKept == \A p \in PhoneStrings : rows[p] # <<>> => rows'[p] # <<>>

\* A heartbeat neither adds nor removes rows.
LEMMA BeatKeepsRows ==
  ASSUME StoreType, NEW p \in PhoneStrings, NEW db, RecordHeartbeat(p, db)
  PROVE  RowsKept
<1> DEFINE s == [i \in DOMAIN rows[p] |-> Beat(rows[p][i])]
<1>1. rows[p] \in Seq(Row) BY DEF StoreType
<1>2. rows[p] # <<>> => s # <<>>
  <2> SUFFICES ASSUME rows[p] # <<>> PROVE s # <<>> OBVIOUS
  <2>1. 1 \in DOMAIN rows[p] BY <1>1
  <2>2. 1 \in DOMAIN s BY <2>1
  <2> QED BY <2>2
<1>3. rows' = rows \/ rows' = [rows EXCEPT ![p] = s] BY DEF RecordHeartbeat
<1> QED BY <1>2, <1>3 DEF RowsKept, StoreType

\* An INSERT removes no row and leaves the phone with one.
LEMMA InsertKeepsRows ==
  ASSUME StoreType, NEW p \in PhoneStrings, Insert(p)
  PROVE  RowsKept /\ rows'[p] # <<>>
<1>1. rows[p] \in Seq(Row) /\ NewRow \in Row BY DEF StoreType, NewRow, Row
<1>2. Append(rows[p], NewRow) # <<>> BY <1>1
<1> QED BY <1>2 DEF Insert, RowsKept, StoreType

\* A status change neither adds nor removes rows.
LEMMA StatusKeepsRows ==
  ASSUME StoreType, NEW p \in PhoneStrings, NEW i, NEW st, SetStatus(p, i, st)
  PROVE  RowsKept
<1> DEFINE s == [rows[p] EXCEPT ![i] = [rows[p][i] EXCEPT !.status = st]]
<1>1. rows[p] \in Seq(Row) BY DEF StoreType
<1>2. DOMAIN s = DOMAIN rows[p] OBVIOUS
<1>3. rows[p] # <<>> => s # <<>> BY <1>1, <1>2
<1>4. rows' = [rows EXCEPT ![p] = s] BY DEF SetStatus
<1> QED BY <1>3, <1>4 DEF RowsKept, StoreType

\* A step that adds no entry, stores no token and moves no goroutine of a
\* process that has exited.
LEMMA KnownQuiet ==
  ASSUME DBEnabled, RedisOutcomes = {"ok"}, TypeInv, KnownInv,
         UNCHANGED <<local, ctx>>, RowsKept,
         \A p \in PhoneStrings : token'[p] # NoToken => token[p] # NoToken,
         \A c \in Conns :
           /\ Ctx(c) = "exited" => pc'[c] = pc[c]
           /\ \/ pc'[c] = "regToken"
              \/ pc'[c] \in {"authSet", "authJoin"} /\ Ctx(c) = "serving"
              => rows'[phone'[c]] # <<>>
  PROVE  KnownInv'
<1>1. ExitedIsEmpty' BY DEF KnownInv, ExitedIsEmpty, Ctx
<1>2. KnownPhones' BY DEF KnownInv, KnownPhones, RowsKept, Ctx
<1>3. KnownOwner' BY DEF KnownInv, KnownOwner, RowsKept
<1> QED BY <1>1, <1>2, <1>3 DEF KnownInv

\* A goroutine that takes a step belongs to a process that has not exited.
LEMMA RunningNotExited ==
  ASSUME DBEnabled, RedisOutcomes = {"ok"}, KnownInv, NEW c \in Conns,
         pc[c] \notin {"unused", "killed"}
  PROVE  Ctx(c) # "exited"
BY RegistryAssumption DEF KnownInv, ExitedIsEmpty, Ctx

\* Dispatch: a phone is adopted, and a token accepted, only when the phone
\* has a row.
LEMMA KnownDispatch ==
  ASSUME OnePhonePerConn, DBEnabled, RedisOutcomes = {"ok"},
         TypeInv, OwnerInv, KnownInv, NEW c \in Conns, Dispatch(c)
  PROVE  KnownInv'
<1> USE DEF TypeInv, TypeOK
<1>1. /\ \A d \in Conns \ {c} : phone'[d] = phone[d] /\ pc'[d] = pc[d]
      /\ pc[c] \in Serving /\ pc'[c] \in Serving
      /\ phone'[c] = phone[c] \/ phone[c] = NoPhone
  BY DispatchFrame
<1>2. Ctx(c) # "exited" BY <1>1, RunningNotExited DEF Serving
<1>3. ctx' = ctx BY DEF Dispatch, tcpVars
<1>4. phone[c] \in PhoneStrings /\ ReplicaOf[c] \in Replicas
  BY RegistryAssumption DEF SessionType
<1>5. ASSUME RowsKept, UNCHANGED <<local, token>>, pc'[c] \in {"read", "regInsert"}
      PROVE  KnownInv'
  <2>1. \A d \in Conns :
          /\ Ctx(d) = "exited" => pc'[d] = pc[d]
          /\ \/ pc'[d] = "regToken"
             \/ pc'[d] \in {"authSet", "authJoin"} /\ Ctx(d) = "serving"
             => rows'[phone'[d]] # <<>>
    BY <1>1, <1>2, <1>5 DEF KnownInv, KnownPhones, RowsKept, SessionType
  <2> QED BY <1>3, <1>5, <2>1, KnownQuiet
<1>6. ASSUME RowsKept, UNCHANGED <<local, token>>,
             rows'[phone'[c]] # <<>> \/ (pc'[c] # "regToken" /\ Ctx(c) # "serving")
      PROVE  KnownInv'
  <2>1. \A d \in Conns :
          /\ Ctx(d) = "exited" => pc'[d] = pc[d]
          /\ \/ pc'[d] = "regToken"
             \/ pc'[d] \in {"authSet", "authJoin"} /\ Ctx(d) = "serving"
             => rows'[phone'[d]] # <<>>
    BY <1>1, <1>2, <1>6 DEF KnownInv, KnownPhones, RowsKept, SessionType
  <2> QED BY <1>3, <1>6, <2>1, KnownQuiet
<1>7. CASE \/ DropUnauthenticated(c) \/ HandleNotice(c) \/ HandleTerminalResp(c)
           \/ \E ok \in BOOLEAN : HandleLocation(c, ok)
           \/ RegisterUndecodable(c) \/ RejectRegistration(c)
  <2>1. UNCHANGED <<rows, local, token>> /\ pc'[c] = "read"
    BY <1>7 DEF DropUnauthenticated, HandleNotice, HandleTerminalResp,
         HandleLocation, RegisterUndecodable, RejectRegistration, storeVars,
         registryVars, Return, HandlerType
  <2> QED BY <2>1, <1>5 DEF RowsKept
<1>8. CASE \E db \in DB(c) : HandleHeartbeat(c, db)
  <2>1. UNCHANGED <<local, token>> /\ pc'[c] = "read"
    BY <1>8 DEF HandleHeartbeat, registryVars, Return, HandlerType
  <2>2. RowsKept BY <1>4, <1>8, BeatKeepsRows DEF HandleHeartbeat
  <2> QED BY <2>1, <2>2, <1>5
<1>9. Head(buf[c]).phone \in PhoneStrings \ {NoPhone}
      /\ (phone[c] # NoPhone => phone[c] = Head(buf[c]).phone)
      /\ buf[c] # <<>>
  <2>1. buf[c] # <<>>
    BY DEF FrameInHand, InHandler, Dispatch, AtFrame, DropUnauthenticated,
         HandleHeartbeat, HandleNotice, HandleTerminalResp, HandleLocation,
         RegisterUndecodable, HandleRegistration, CreateDevice, IssueToken,
         HandleAuthentication, SetAuthenticated, JoinRegistry
  <2>2. buf[c] \in Seq(Frame) BY DEF HandlerType
  <2>3. 1 \in DOMAIN buf[c] /\ Head(buf[c]) = buf[c][1] BY <2>1, <2>2
  <2>4. Head(buf[c]).phone \in PhonesOf[c] BY <2>3 DEF OwnerInv, OwnPhone
  <2>5. Head(buf[c]).phone \in PhoneStrings BY <2>1, HeadType DEF Frame
  <2> QED BY <2>1, <2>4, <2>5, OwnPhoneUnique DEF OwnerInv, OwnPhone
<1>10. ASSUME AdoptPhone(c), RowsKept, rows'[Head(buf[c]).phone] # <<>>
       PROVE  KnownInv'
  <2>1. phone'[c] = Head(buf[c]).phone /\ UNCHANGED <<local, token>>
    BY <1>10 DEF AdoptPhone, registryVars, SessionType
  <2> QED BY <2>1, <1>6, <1>10
<1>11. CASE \E db \in DB(c) : HandleRegistration(c, db)
  <2> PICK db \in DB(c) : HandleRegistration(c, db) BY <1>11
  <2> PICK found \in Lookups(Head(buf[c]).phone, db) :
        \/ RejectRegistration(c)
        \/ found = "approved" /\ AdoptPhone(c) /\ UNCHANGED rows
        \/ /\ Goto(c, "regInsert")
           /\ UNCHANGED <<sessionVars, registryVars, storeVars, closers, joined>>
    BY DEF HandleRegistration
  <2>1. CASE found = "approved" /\ AdoptPhone(c) /\ UNCHANGED rows
    <3>1. rows[Head(buf[c]).phone] # <<>> BY <2>1 DEF Lookups
    <3> QED BY <3>1, <2>1, <1>10 DEF RowsKept
  <2>2. CASE /\ Goto(c, "regInsert")
             /\ UNCHANGED <<sessionVars, registryVars, storeVars, closers, joined>>
    BY <2>2, <1>5 DEF Goto, HandlerType, storeVars, registryVars, RowsKept
  <2> QED BY <1>7, <2>1, <2>2
<1>12. CASE \E db \in DB(c) : CreateDevice(c, db)
  <2>1. CASE Insert(Head(buf[c]).phone) /\ AdoptPhone(c)
    BY <2>1, <1>9, <1>10, InsertKeepsRows
  <2> QED BY <1>7, <1>12, <2>1 DEF CreateDevice
<1>13. CASE \E redis \in Redis(c) : IssueToken(c, redis)
  <2>1. /\ UNCHANGED <<rows, local, phone>> /\ pc[c] = "regToken" /\ pc'[c] = "read"
        /\ \A p \in PhoneStrings \ {phone[c]} : token'[p] = token[p]
    BY <1>13, <1>4 DEF IssueToken, StoreAuthToken, storeVars, Return, HandlerType,
         RegistryType
  <2>2. rows[phone[c]] # <<>> BY <2>1 DEF KnownInv, KnownPhones
  <2>3. ExitedIsEmpty' BY <2>1, <1>1, <1>2, <1>3 DEF KnownInv, ExitedIsEmpty, Ctx
  <2>4. KnownPhones' BY <2>1, <2>2, <1>1, <1>3 DEF KnownInv, KnownPhones, Ctx
  <2>5. KnownOwner' BY <2>1, <1>3 DEF KnownInv, KnownOwner
  <2> QED BY <2>3, <2>4, <2>5 DEF KnownInv
<1>14. CASE \E redis \in Redis(c) : HandleAuthentication(c, redis)
  <2> PICK redis \in Redis(c) : HandleAuthentication(c, redis) BY <1>14
  <2>1. UNCHANGED <<rows, local, token>>
        /\ phone'[c] = Head(buf[c]).phone
    BY <1>9 DEF HandleAuthentication, registryVars, storeVars, SessionType
  <2>2. CASE TokenAccepted(Head(buf[c]), redis) /\ Goto(c, "authSet")
    <3>1. Ctx(c) = "serving" => redis = "ok" BY DEF Redis
    <3>2. Ctx(c) = "serving" => rows[Head(buf[c]).phone] # <<>>
      BY <2>2, <3>1, <1>9 DEF TokenAccepted, ValidateAuthToken, KnownInv, KnownPhones
    <3>3. pc'[c] = "authSet" BY <2>2 DEF Goto, HandlerType
    <3> QED BY <2>1, <3>2, <3>3, <1>6 DEF RowsKept
  <2>3. CASE Return(c)
    BY <2>1, <2>3, <1>5 DEF Return, HandlerType, RowsKept
  <2> QED BY <2>2, <2>3 DEF HandleAuthentication
<1>15. CASE SetAuthenticated(c)
  <2>1. /\ UNCHANGED <<rows, local, token, phone>>
        /\ pc[c] = "authSet" /\ pc'[c] = "authJoin"
    BY <1>15 DEF SetAuthenticated, Goto, storeVars, registryVars, HandlerType
  <2> QED BY <2>1, <1>6 DEF KnownInv, KnownPhones, RowsKept
<1>16. CASE JoinRegistry(c)
  <2>1. /\ UNCHANGED <<rows, token, phone>> /\ pc[c] = "authJoin" /\ pc'[c] = "read"
        /\ local' = [local EXCEPT ![ReplicaOf[c]][phone[c]] = c]
    BY <1>16 DEF JoinRegistry, Register, storeVars, Return, HandlerType
  <2>2. Ctx(c) = "serving" => rows[phone[c]] # <<>>
    BY <2>1 DEF KnownInv, KnownPhones
  <2>3. \A r \in Replicas, p \in PhoneStrings :
          \/ local'[r][p] = local[r][p]
          \/ r = ReplicaOf[c] /\ p = phone[c]
    BY <2>1, <1>4 DEF RegistryType
  <2>4. ExitedIsEmpty'
    BY <2>3, <1>1, <1>2, <1>3 DEF KnownInv, ExitedIsEmpty, Ctx
  <2>5. KnownPhones' BY <2>1, <1>1, <1>3 DEF KnownInv, KnownPhones, Ctx
  <2>6. KnownOwner' BY <2>1, <2>2, <2>3, <1>3 DEF KnownInv, KnownOwner, Ctx
  <2> QED BY <2>4, <2>5, <2>6 DEF KnownInv
<1> QED BY <1>7, <1>8, <1>11, <1>12, <1>13, <1>14, <1>15, <1>16 DEF Dispatch

\* No phone is in Redis or in a map at the start.
LEMMA InitKnown == Init => KnownInv
BY DEF Init, RegistryInit, HandlerInit, KnownInv, ExitedIsEmpty, KnownPhones,
       KnownOwner

\* Every step keeps the invariant on known phones.
LEMMA KnownStep ==
  ASSUME OnePhonePerConn, TypeInv, OwnerInv, KnownInv, [Next]_vars
  PROVE  KnownInv'
<1> SUFFICES ASSUME DBEnabled, RedisOutcomes = {"ok"} PROVE KnownInv'
  BY DEF KnownInv
<1> USE DEF TypeInv, TypeOK
<1>1. ASSUME NEW c \in Conns, Dispatch(c) PROVE KnownInv' BY <1>1, KnownDispatch
<1>2. ASSUME NEW c \in Conns,
             \/ Accept(c) \/ Fill(c) \/ ReadFails(c) \/ ReadClosed(c)
             \/ ReadMalformed(c) \/ CloseSocket(c)
      PROVE  KnownInv'
  <2>1. /\ UNCHANGED <<rows, local, token, phone, ctx>>
        /\ \/ pc' = pc
           \/ \E l \in {"read", "cleanup", "done"} : pc' = [pc EXCEPT ![c] = l]
        /\ Ctx(c) = "serving" \/ pc[c] \in {"read", "closing"}
    BY <1>2 DEF Accept, Fill, ReadFails, ReadClosed, ReadMalformed, CloseSocket,
         AtFrame, Goto, NewSession, sessionVars, registryVars, storeVars, tcpVars
  <2>2. Ctx(c) # "exited" BY <2>1, RunningNotExited
  <2>3. \A d \in Conns :
          /\ Ctx(d) = "exited" => pc'[d] = pc[d]
          /\ \/ pc'[d] = "regToken"
             \/ pc'[d] \in {"authSet", "authJoin"} /\ Ctx(d) = "serving"
             => rows'[phone'[d]] # <<>>
    BY <2>1, <2>2 DEF KnownInv, KnownPhones, HandlerType
  <2> QED BY <2>1, <2>3, KnownQuiet DEF RowsKept
<1>3. ASSUME NEW c \in Conns, CleanUp(c) PROVE KnownInv'
  <2>1. /\ UNCHANGED <<rows, token, phone, ctx>> /\ pc[c] = "cleanup"
        /\ pc' = [pc EXCEPT ![c] = "closing"]
    BY <1>3 DEF CleanUp, Goto, sessionVars, storeVars
  <2>2. Ctx(c) # "exited" BY <2>1, RunningNotExited
  <2>3. ReplicaOf[c] \in Replicas /\ phone[c] \in PhoneStrings
    BY RegistryAssumption DEF SessionType
  <2>4. \A r \in Replicas, p \in PhoneStrings :
          local'[r][p] \in {local[r][p], NoConn}
    BY <1>3, <2>3 DEF CleanUp, Unregister, RegistryType
  <2>5. ExitedIsEmpty'
    BY <2>1, <2>2, <2>4 DEF KnownInv, ExitedIsEmpty, Ctx, HandlerType
  <2>6. KnownPhones' BY <2>1 DEF KnownInv, KnownPhones, Ctx, HandlerType
  <2>7. KnownOwner' BY <2>1, <2>4 DEF KnownInv, KnownOwner
  <2> QED BY <2>5, <2>6, <2>7 DEF KnownInv
<1>4. ASSUME NEW r \in Replicas, Vanish(r) PROVE KnownInv'
  <2>1. /\ UNCHANGED <<rows, token, phone>>
        /\ ctx' = [ctx EXCEPT ![r] = "exited"]
        /\ \A q \in Replicas, p \in PhoneStrings :
             local'[q][p] = IF q = r THEN NoConn ELSE local[q][p]
        /\ \A c \in Conns :
             \/ pc'[c] = "killed" /\ ReplicaOf[c] = r
             \/ pc'[c] = pc[c] /\ (ReplicaOf[c] = r => pc[c] = "unused")
    BY <1>4 DEF Vanish, storeVars, RegistryType
  <2>2. ExitedIsEmpty' BY <2>1 DEF KnownInv, ExitedIsEmpty
  <2>3. KnownPhones'
    <3> SUFFICES ASSUME NEW c \in Conns,
                        \/ pc'[c] = "regToken"
                        \/ pc'[c] \in {"authSet", "authJoin"} /\ Ctx(c)' = "serving"
                 PROVE  rows[phone[c]] # <<>>
      BY <2>1 DEF KnownInv, KnownPhones
    <3>1. pc'[c] = pc[c] /\ ReplicaOf[c] # r BY <2>1
    <3>2. Ctx(c)' = Ctx(c) BY <2>1, <3>1, RegistryAssumption DEF Ctx
    <3> QED BY <3>1, <3>2 DEF KnownInv, KnownPhones
  <2>4. KnownOwner' BY <2>1 DEF KnownInv, KnownOwner
  <2> QED BY <2>2, <2>3, <2>4 DEF KnownInv
<1>5. ASSUME NEW r \in Replicas, Signal(r) \/ Restart(r) PROVE KnownInv'
  <2>1. /\ UNCHANGED <<rows, token, phone, local, pc>>
        /\ \/ ctx[r] = "serving" /\ ctx' = [ctx EXCEPT ![r] = "cancelled"]
           \/ ctx[r] = "exited" /\ ctx' = [ctx EXCEPT ![r] = "serving"]
    BY <1>5 DEF Signal, Restart, serverVars, sessionVars, registryVars,
         storeVars, handlerVars
  <2>2. ExitedIsEmpty' BY <2>1 DEF KnownInv, ExitedIsEmpty
  <2>3. KnownPhones'
    <3> SUFFICES ASSUME NEW c \in Conns, pc[c] \in {"authSet", "authJoin"},
                        Ctx(c)' = "serving"
                 PROVE  rows[phone[c]] # <<>>
      BY <2>1 DEF KnownInv, KnownPhones
    <3>1. Ctx(c) # "exited" BY RunningNotExited
    <3>2. Ctx(c) = "serving" BY <2>1, <3>1, RegistryAssumption DEF Ctx
    <3> QED BY <3>2 DEF KnownInv, KnownPhones
  <2>4. KnownOwner' BY <2>1 DEF KnownInv, KnownOwner, ExitedIsEmpty
  <2> QED BY <2>2, <2>3, <2>4 DEF KnownInv
<1>6. ASSUME RowsKept, UNCHANGED <<local, ctx, pc, phone>>,
             \A p \in PhoneStrings : token'[p] # NoToken => token[p] # NoToken
      PROVE  KnownInv'
  BY <1>6, KnownQuiet DEF KnownInv, KnownPhones, RowsKept, SessionType
<1>7. CASE (\E c \in Conns : Timers(c)) \/ UNCHANGED vars
  <2>1. UNCHANGED <<rows, token, phone, local, pc, ctx>>
    BY <1>7 DEF Timers, AuthTimerFires, AuthTimerCloses, DelayedClose,
         vars, serverVars, sessionVars, registryVars, storeVars, handlerVars,
         tcpVars
  <2> QED BY <2>1, <1>6 DEF RowsKept
<1>8. CASE Environment
  <2>1. UNCHANGED <<local, ctx, pc, phone>>
    BY <1>8 DEF Environment, ExpireToken, sessionVars, registryVars,
         handlerVars, tcpVars
  <2>2. RowsKept
    <3>1. CASE UNCHANGED rows BY <3>1 DEF RowsKept
    <3>2. CASE \E p \in PhoneStrings, st \in AdminStatuses :
                 \E i \in DOMAIN rows[p] : SetStatus(p, i, st)
      BY <3>2, StatusKeepsRows
    <3> QED BY <1>8, <3>1, <3>2 DEF Environment, Tick, storeVars
  <2>3. \A p \in PhoneStrings : token'[p] # NoToken => token[p] # NoToken
    BY <1>8 DEF Environment, ExpireToken, registryVars, RegistryType
  <2> QED BY <2>1, <2>2, <2>3, <1>6
<1> QED BY <1>1, <1>2, <1>3, <1>4, <1>5, <1>7, <1>8
    DEF Next, Goroutine, RunReturns, Crash

\* If moreover the database is enabled and Redis answers, only phones with
\* a row in the devices table own an entry of a serving process: the token
\* handshake between the processes never lets an unknown phone through,
\* whatever crashes, restarts and expiries happen in between.
THEOREM KnownCorrect == OnePhonePerConn => (Spec => []KnownOwner)
<1> SUFFICES ASSUME OnePhonePerConn PROVE Spec => []KnownOwner OBVIOUS
<1> DEFINE I == TypeInv /\ OwnerInv /\ KnownInv
<1>1. Init => I BY InitType, InitOwner, InitKnown
<1>2. I /\ [Next]_vars => I' BY TypeStep, OwnerStep, KnownStep
<1>3. I => KnownOwner BY DEF KnownInv, KnownOwner
<1> QED BY <1>1, <1>2, <1>3, PTL DEF Spec
=============================================================================
