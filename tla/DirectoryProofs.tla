-------------------------- MODULE DirectoryProofs ---------------------------
(***************************************************************************)
(* TcpServer implements SessionDirectory: the initial states agree, and    *)
(* under the inductive invariants of ServerProofs every step of the server *)
(* is a step of the directory or leaves it unchanged.                      *)
(***************************************************************************)
EXTENDS ServerProofs

\* The directory's view of all connections.
View == [c \in Conns |-> Status(c)]

\* A step after which every goroutine is in the same phase and every socket
\* that matters as before shows the observer nothing.
LEMMA SameStatus ==
  ASSUME NEW c \in Conns, pc'[c] = "unused" <=> pc[c] = "unused",
         pc'[c] \in Serving <=> pc[c] \in Serving,
         pc[c] \in Serving => open'[c] = open[c]
  PROVE  Status(c)' = Status(c)
BY DEF Status, Serving

\* An accepted connection.
LEMMA AcceptConnects ==
  ASSUME TypeInv, NEW c \in Conns, Accept(c)
  PROVE  Directory!Connect(c)
<1> USE DEF TypeInv, TypeOK
<1>1. /\ UNCHANGED local /\ pc[c] = "unused"
      /\ pc' = [pc EXCEPT ![c] = "read"] /\ open' = [open EXCEPT ![c] = TRUE]
  BY DEF Accept, NewSession, registryVars
<1>2. Status(c) = "fresh" /\ Status(c)' = "live"
  BY <1>1 DEF Status, Serving, HandlerType, SessionType
<1>3. \A d \in Conns \ {c} : Status(d)' = Status(d)
  BY <1>1, SameStatus DEF HandlerType, SessionType
<1>4. View' = [View EXCEPT ![c] = "live"]
  BY <1>2, <1>3 DEF View
<1> QED BY <1>1, <1>2, <1>4 DEF Directory!Connect, View

\* Closing a socket is seen only while the goroutine has not noticed yet.
LEMMA CloseCuts ==
  ASSUME TypeInv, NEW c \in Conns, UNCHANGED <<local, pc>>,
         open' = [open EXCEPT ![c] = FALSE]
  PROVE  Directory!Cut(c) \/ UNCHANGED <<local, View>>
<1> USE DEF TypeInv, TypeOK
<1>1. \A d \in Conns \ {c} : Status(d)' = Status(d)
  BY SameStatus DEF SessionType
<1>2. CASE pc[c] \in Serving /\ open[c]
  <2>1. Status(c) = "live" /\ Status(c)' = "cut"
    BY <1>2 DEF Status, Serving, SessionType
  <2>2. View' = [View EXCEPT ![c] = "cut"] BY <2>1, <1>1 DEF View
  <2> QED BY <2>1, <2>2 DEF Directory!Cut, View
<1>3. CASE ~(pc[c] \in Serving /\ open[c])
  <2>1. Status(c)' = Status(c) BY <1>3, SameStatus DEF SessionType
  <2> QED BY <2>1, <1>1 DEF View
<1> QED BY <1>2, <1>3

\* Register, inside JoinRegistry.
LEMMA RegisterJoins ==
  ASSUME OnePhonePerConn, TypeInv, OwnerInv, NEW c \in Conns, Dispatch(c),
         JoinRegistry(c)
  PROVE  Directory!Join(c, phone[c])
<1> USE DEF TypeInv, TypeOK
<1> DEFINE old == local[ReplicaOf[c]][phone[c]]
<1>0. /\ \A d \in Conns \ {c} : pc'[d] = pc[d]
      /\ pc[c] \in Serving /\ pc'[c] \in Serving
  BY DispatchFrame
<1>1. /\ local' = [local EXCEPT ![ReplicaOf[c]][phone[c]] = c]
      /\ \A d \in Conns : open'[d] = IF d = old /\ d # c THEN FALSE ELSE open[d]
  <2>1. CASE old \notin {c, NoConn}
    BY <2>1 DEF JoinRegistry, Register, Close, SessionType, Owner
  <2>2. CASE old \in {c, NoConn}
    BY <2>2, RegistryAssumption DEF JoinRegistry, Register, Owner
  <2> QED BY <2>1, <2>2
<1>2. ReplicaOf[c] \in Replicas /\ phone[c] \in PhoneStrings
  BY RegistryAssumption DEF SessionType
<1>3. ASSUME NEW d \in Conns
      PROVE  Status(d)' = IF d = old /\ d # c THEN "cut" ELSE Status(d)
  <2>1. CASE d = old /\ d # c
    <3>1. pc[d] \in Serving
      BY <2>1, <1>2, RegistryAssumption DEF OwnerInv, EntriesAgree
    <3>2. pc'[d] \in Serving /\ ~open'[d] BY <2>1, <3>1, <1>0, <1>1
    <3> QED BY <2>1, <3>2 DEF Status, Serving
  <2>2. CASE ~(d = old /\ d # c)
    <3>1. /\ open'[d] = open[d]
          /\ pc'[d] = "unused" <=> pc[d] = "unused"
          /\ pc'[d] \in Serving <=> pc[d] \in Serving
      BY <2>2, <1>0, <1>1 DEF Serving
    <3> QED BY <2>2, <3>1, SameStatus
  <2> QED BY <2>1, <2>2
<1>4. View' = [d \in Conns |-> IF d = old /\ d # c THEN "cut" ELSE View[d]]
  BY <1>3 DEF View
<1>5. View[c] \in {"live", "cut"} BY <1>0 DEF View, Status, Serving
<1> QED BY <1>1, <1>4, <1>5 DEF Directory!Join, View

\* The deferred Unregister removes every entry of the session.
LEMMA CleanUpLeaves ==
  ASSUME TypeInv, OwnerInv, NEW c \in Conns, CleanUp(c)
  PROVE  Directory!Leave(c)
<1> USE DEF TypeInv, TypeOK
<1>1. /\ UNCHANGED open
      /\ pc' = [pc EXCEPT ![c] = "closing"]
      /\ pc[c] = "cleanup"
  BY DEF CleanUp, Goto, sessionVars
<1>2. ReplicaOf[c] \in Replicas /\ phone[c] \in PhoneStrings
  BY RegistryAssumption DEF SessionType
<1>3. /\ \A d \in Conns \ {c} : Status(d)' = Status(d)
      /\ Status(c) \in {"live", "cut"} /\ Status(c)' = "ended"
  BY <1>1, SameStatus DEF Status, Serving, HandlerType
<1>4. View' = [View EXCEPT ![c] = "ended"] BY <1>3 DEF View
<1>5. \A r \in Replicas, p \in PhoneStrings :
        local[r][p] = c => r = ReplicaOf[c] /\ p = phone[c] /\ p # NoPhone
  BY RegistryAssumption DEF OwnerInv, EntriesAgree
<1>6. local \in [Replicas -> [PhoneStrings -> Conns \cup {NoConn}]]
  BY DEF RegistryType
<1> HIDE DEF TypeInv, TypeOK
<1>7. local' = [r \in Replicas |-> [p \in PhoneStrings |->
                  IF local[r][p] = c THEN NoConn ELSE local[r][p]]]
  <2>1. CASE phone[c] # NoPhone /\ Owner(c) = c
    <3>1. local' = [local EXCEPT ![ReplicaOf[c]][phone[c]] = NoConn]
      BY <2>1 DEF CleanUp, Unregister
    <3>2. local[ReplicaOf[c]][phone[c]] = c BY <2>1 DEF Owner
    <3>3. ASSUME NEW r \in Replicas, NEW p \in PhoneStrings
          PROVE  local'[r][p] = IF local[r][p] = c THEN NoConn ELSE local[r][p]
      BY <3>1, <3>2, <1>2, <1>5, <1>6
    <3>4. local' \in [Replicas -> [PhoneStrings -> Conns \cup {NoConn}]]
      BY <3>1, <1>2, <1>6
    <3> QED BY <3>3, <3>4
  <2>2. CASE ~(phone[c] # NoPhone /\ Owner(c) = c)
    <3>1. local' = local BY <2>2 DEF CleanUp, Unregister
    <3>2. \A r \in Replicas, p \in PhoneStrings : local[r][p] # c
      BY <2>2, <1>5 DEF Owner
    <3> QED BY <3>1, <3>2, <1>6
  <2> QED BY <2>1, <2>2
<1> QED BY <1>3, <1>4, <1>7 DEF Directory!Leave, View

\* The end of a process.
LEMMA VanishFalls ==
  ASSUME TypeInv, NEW r \in Replicas, Vanish(r)
  PROVE  Directory!Fall(r)
<1> USE DEF TypeInv, TypeOK
<1>1. /\ local' = [local EXCEPT ![r] = Directory!Empty]
      /\ \A c \in Conns :
           IF ReplicaOf[c] = r /\ pc[c] # "unused" THEN pc'[c] = "killed"
           ELSE pc'[c] = pc[c] /\ open'[c] = open[c]
  BY DEF Vanish, Directory!Empty
<1>2. ASSUME NEW c \in Conns
      PROVE  Status(c)' = IF ReplicaOf[c] = r /\ Status(c) # "fresh" THEN "ended"
                          ELSE Status(c)
  <2>1. Status(c) = "fresh" <=> pc[c] = "unused" BY DEF Status, Serving
  <2>2. CASE ReplicaOf[c] = r /\ pc[c] # "unused"
    BY <1>1, <2>1, <2>2 DEF Status, Serving
  <2>3. CASE ~(ReplicaOf[c] = r /\ pc[c] # "unused")
    BY <1>1, <2>1, <2>3, SameStatus
  <2> QED BY <2>2, <2>3
<1>3. View' = [c \in Conns |->
                 IF ReplicaOf[c] = r /\ View[c] # "fresh" THEN "ended" ELSE View[c]]
  BY <1>2 DEF View
<1> QED BY <1>1, <1>3 DEF Directory!Fall, View

\* Every step of the server is a step of the directory or none.
LEMMA DirectoryStep ==
  ASSUME OnePhonePerConn, TypeInv, OwnerInv, [Next]_vars
  PROVE  [Directory!Next]_(Directory!vars)
<1> USE DEF TypeInv, TypeOK
<1>0. UNCHANGED <<local, View>> => UNCHANGED Directory!vars
  BY DEF Directory!vars, View
<1>1. ASSUME NEW c \in Conns, Dispatch(c) PROVE [Directory!Next]_(Directory!vars)
  <2>1. CASE JoinRegistry(c)
    <3>1. phone[c] \in PhoneStrings BY DEF SessionType
    <3> QED BY <1>1, <2>1, <3>1, RegisterJoins DEF Directory!Next
  <2>2. CASE ~JoinRegistry(c)
    <3>1. UNCHANGED <<local, open>>
      BY <1>1, <2>2 DEF Dispatch, DropUnauthenticated, HandleHeartbeat,
           HandleNotice, HandleTerminalResp, HandleLocation,
           RegisterUndecodable, HandleRegistration, RejectRegistration,
           AdoptPhone, CreateDevice, IssueToken, HandleAuthentication,
           SetAuthenticated, sessionVars, registryVars
    <3>2. \A d \in Conns :
            /\ pc'[d] = "unused" <=> pc[d] = "unused"
            /\ pc'[d] \in Serving <=> pc[d] \in Serving
      BY <1>1, DispatchFrame DEF Serving
    <3> QED BY <3>1, <3>2, <1>0, SameStatus DEF View
  <2> QED BY <2>1, <2>2
<1>2. ASSUME NEW c \in Conns, Accept(c) \/ CleanUp(c)
      PROVE  [Directory!Next]_(Directory!vars)
  BY <1>2, AcceptConnects, CleanUpLeaves DEF Directory!Next
<1>3. ASSUME NEW c \in Conns, ReadFails(c) \/ ReadClosed(c) \/ ReadMalformed(c)
                              \/ Fill(c) \/ CloseSocket(c)
      PROVE  [Directory!Next]_(Directory!vars)
  <2>1. UNCHANGED local
    BY <1>3 DEF ReadFails, ReadClosed, ReadMalformed, Fill, CloseSocket,
         registryVars
  <2>2. \/ pc[c] = "read" /\ pc' = [pc EXCEPT ![c] = "cleanup"] /\ open' = open
        \/ pc' = pc /\ open' = open
        \/ /\ pc[c] = "closing" /\ pc' = [pc EXCEPT ![c] = "done"]
           /\ open' = [open EXCEPT ![c] = FALSE]
    BY <1>3 DEF ReadFails, ReadClosed, ReadMalformed, AtFrame, Fill,
         CloseSocket, Goto, sessionVars
  <2>3. \A d \in Conns :
          /\ pc'[d] = "unused" <=> pc[d] = "unused"
          /\ pc'[d] \in Serving <=> pc[d] \in Serving
          /\ pc[d] \in Serving => open'[d] = open[d]
    BY <2>2 DEF Serving, HandlerType, SessionType
  <2> QED BY <2>1, <2>3, <1>0, SameStatus DEF View
<1>4. ASSUME NEW c \in Conns, Timers(c) PROVE [Directory!Next]_(Directory!vars)
  <2>1. /\ UNCHANGED <<local, pc>>
        /\ open' = open \/ open' = [open EXCEPT ![c] = FALSE]
    BY <1>4 DEF Timers, AuthTimerFires, AuthTimerCloses, DelayedClose, Close,
         serverVars, handlerVars, registryVars, sessionVars
  <2>2. CASE open' = open
    <3>1. \A d \in Conns : Status(d)' = Status(d) BY <2>1, <2>2, SameStatus
    <3> QED BY <2>1, <3>1, <1>0 DEF View
  <2>3. CASE open' = [open EXCEPT ![c] = FALSE]
    BY <2>1, <2>3, <1>0, CloseCuts DEF Directory!Next
  <2> QED BY <2>1, <2>2, <2>3
<1>5. ASSUME NEW r \in Replicas, Vanish(r) PROVE [Directory!Next]_(Directory!vars)
  BY <1>5, VanishFalls DEF Directory!Next
<1>6. CASE (\E r \in Replicas : Signal(r) \/ Restart(r)) \/ Environment
           \/ UNCHANGED vars
  <2>1. UNCHANGED <<local, pc, open>>
    BY <1>6 DEF Signal, Restart, Environment, ExpireToken, vars, serverVars,
       handlerVars, registryVars, sessionVars
  <2>2. \A d \in Conns : Status(d)' = Status(d) BY <2>1, SameStatus
  <2> QED BY <2>1, <2>2, <1>0 DEF View
<1> QED BY <1>1, <1>2, <1>3, <1>4, <1>5, <1>6
    DEF Next, Goroutine, RunReturns, Crash

\* The registry of the server, with all its goroutines, timers, rejections,
\* shutdowns, crashes and restarts, implements the session directory, for
\* every number of connections, phones and processes, when each terminal
\* keeps to its own phone number.
THEOREM DirectoryImplemented ==
  OnePhonePerConn => (Spec => ImplementsDirectory)
<1> SUFFICES ASSUME OnePhonePerConn PROVE Spec => Directory!Spec
  BY DEF ImplementsDirectory
<1>1. Init => Directory!Init
  <2> SUFFICES ASSUME Init PROVE Directory!Init OBVIOUS
  <2>1. \A c \in Conns : Status(c) = "fresh"
    BY DEF Init, HandlerInit, Status, Serving
  <2>2. local = [r \in Replicas |-> [p \in PhoneStrings |-> NoConn]]
    BY DEF Init, RegistryInit
  <2> QED BY <2>1, <2>2 DEF Directory!Init, Directory!Empty
<1>2. Init => TypeInv /\ OwnerInv BY InitType, InitOwner
<1>3. TypeInv /\ OwnerInv /\ [Next]_vars => (TypeInv /\ OwnerInv)'
  BY TypeStep, OwnerStep
<1>4. TypeInv /\ OwnerInv /\ [Next]_vars => [Directory!Next]_(Directory!vars)
  BY DirectoryStep
<1> QED BY <1>1, <1>2, <1>3, <1>4, PTL DEF Spec, Directory!Spec
=============================================================================
