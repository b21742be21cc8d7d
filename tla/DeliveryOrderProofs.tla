------------------------ MODULE DeliveryOrderProofs ------------------------
(***************************************************************************)
(* The proof that the locations of one run of the simulator reach the      *)
(* forwarder in the order of the journey.  It rests on the stop-and-wait   *)
(* exchange of DeliveryProofs and on what Registry.Register does: of the   *)
(* connections of one phone, at most one can still have a location         *)
(* handled, and once the device is admitted on a connection, no other has. *)
(***************************************************************************)
EXTENDS DeliveryProofs

\* Connection k has a location that can still be handled.
Deliverable(k) == sopen[k] /\ up[k] # <<>> /\ Head(up[k]).msg = "location"

\* The server admitted the connection the device is on: the device goroutine
\* knows, or the answer is on its way.
Admitted ==
  \/ dpc \in {"locSent", "idle", "trunc", "write", "beatSent"}
  \/ dpc = "authSent" /\ down[conn] # <<>> /\ Head(down[conn]).result = 0

\* Only the owner of the phone has a location that can be handled; once the
\* device is admitted, that is the connection it is on or nobody.
OneSpeaks ==
  /\ \A k \in Links : Deliverable(k) => owner = k
  /\ Admitted => /\ sopen[conn] => owner = conn
                 /\ \A k \in Links : Deliverable(k) => k = conn

\* No location that reached the forwarder is ahead of the device, and one
\* that can still be handled is of the position the device is at.  When the
\* process of the device has ended, such a location is still not behind what
\* reached the forwarder.
InStep ==
  /\ proc = "up" =>
       /\ \A q \in Reached : q <= pos
       /\ \A k \in Links : Deliverable(k) => Head(up[k]).pos = pos
  /\ \A k \in Links : Deliverable(k) => \A q \in Reached : q <= Head(up[k]).pos

\* All this in the first run of the simulator: a restart may go back.
OneRun == starts = 1 => InStep

-----------------------------------------------------------------------------
(* One connection speaks.                                                  *)

\* A handler leaves no connection with a location that had none, and takes
\* its own.
LEMMA HandlerSpeaks ==
  ASSUME Wire, NEW k \in Links, Handler(k)
  PROVE  \A j \in Links : Deliverable(j)' => j # k /\ Deliverable(j) /\ up'[j] = up[j]
BY HandlerEffect DEF Deliverable

\* The handlers other than a successful authentication admit nobody.
LEMMA HandlerAdmits ==
  ASSUME Wire, NEW k \in Links, Handler(k)
  PROVE  \/ Join(k)
         \/ owner' = owner /\ (Admitted' => Admitted)
<1> DEFINE f == Head(up[k])
<1>0. TypeOK /\ WireType /\ Lifetimes /\ StopAndWait BY DEF Wire
<1>1. /\ UNCHANGED <<proc, main, copy, dpc, quit, pos, file, starts, conn, seq>>
      /\ up[k] # <<>> /\ down[k] = <<>> /\ f \in Frames
      /\ \/ down' = down
         \/ k = conn /\ Connected
  BY HandlerEffect DEF deviceVars
<1>2. CASE HandleAuthentication(k) /\ ~Join(k)
  <2>1. owner' = owner /\ Answer(k, Reply(f, 1, 0)) BY <1>2 DEF HandleAuthentication
  <2>2. 0 \in 0..MaxConns BY Bounds
  <2>3. Reply(f, 1, 0) \in Replies /\ Reply(f, 1, 0).result = 1
    BY <1>1, <2>2, ReplyType
  <2>4. \/ down' = down
        \/ k = conn /\ down' = [down EXCEPT ![k] = <<Reply(f, 1, 0)>>]
    BY <1>0, <1>1, <2>1, <2>3, AnswerEffect
  <2>5. CASE down' = down BY <1>1, <2>1, <2>5 DEF Admitted
  <2>6. CASE k = conn /\ down' = [down EXCEPT ![k] = <<Reply(f, 1, 0)>>]
    <3>1. Head(down'[conn]) = Reply(f, 1, 0) BY <1>0, <2>3, <2>6, SlotOf DEF WireType
    <3> QED BY <1>1, <2>1, <2>3, <3>1 DEF Admitted
  <2> QED BY <2>4, <2>5, <2>6
<1>3. CASE ~HandleAuthentication(k)
  <2>1. owner' = owner
    BY <1>3 DEF Handler, HandleRegistration, RejectRegistration, HandleHeartbeat,
       AckLocation, AckLocationFails, serverVars
  <2>2. f.msg # "authentication"
    BY <1>3 DEF Handler, HandleRegistration, RejectRegistration, HandleHeartbeat,
       AckLocation, AckLocationFails, AtFrame
  <2>3. CASE down' = down BY <1>1, <2>1, <2>3 DEF Admitted
  <2>4. CASE k = conn /\ Connected
    <3>1. dpc # "authSent"
      BY <1>0, <1>1, <2>2, <2>4 DEF StopAndWait, Waiting, Expected
    <3> QED BY <1>1, <2>1, <3>1 DEF Admitted
  <2> QED BY <1>1, <2>3, <2>4
<1> QED BY <1>2, <1>3

\* A device that is admitted is on a connection.
LEMMA AdmittedLink == Wire /\ Admitted => conn \in Links
BY Bounds DEF Wire, Admitted, Lifetimes, TypeOK, P901Type, Waiting

\* Handlers keep it that one connection speaks: Register closes the other
\* one before the answer is sent.
LEMMA HandlerOne ==
  ASSUME Wire, OneSpeaks, NEW k \in Links, Handler(k)
  PROVE  OneSpeaks'
<1>0. TypeOK /\ WireType /\ Lifetimes /\ StopAndWait BY DEF Wire
<1>1. /\ UNCHANGED <<proc, main, copy, dpc, quit, pos, file, starts, conn, seq>>
      /\ sopen' \in [Links -> BOOLEAN]
      /\ \A j \in Links : sopen'[j] => sopen[j]
      /\ down' = down \/ k = conn
  BY HandlerEffect DEF deviceVars
<1>2. \A j \in Links : Deliverable(j)' => j # k /\ Deliverable(j) /\ up'[j] = up[j]
  BY HandlerSpeaks
<1>3. CASE owner' = owner /\ (Admitted' => Admitted)
  BY <1>1, <1>2, <1>3, AdmittedLink DEF OneSpeaks
<1>4. CASE Join(k)
  <2>1. owner' = k BY <1>4 DEF Join
  <2>2. \A j \in Links : ~Deliverable(j)'
    <3> SUFFICES ASSUME NEW j \in Links, Deliverable(j)' PROVE FALSE OBVIOUS
    <3>1. j # k /\ owner = j BY <1>2 DEF OneSpeaks
    <3>2. up'[j] = <<>> BY <1>4, <3>1 DEF Join
    <3> QED BY <3>2 DEF Deliverable
  <2>3. ASSUME Admitted', k # conn PROVE ~sopen'[conn]
    <3>1. Admitted BY <1>1, <2>3 DEF Admitted
    <3>2. conn \in Links BY <3>1, AdmittedLink
    <3>3. sopen[conn] => owner = conn BY <3>1 DEF OneSpeaks
    <3>4. sopen'[conn] = (sopen[conn] /\ (conn = owner => conn = k))
      BY <1>4, <3>2 DEF Join
    <3> QED BY <2>3, <3>3, <3>4
  <2> QED BY <1>1, <2>1, <2>2, <2>3 DEF OneSpeaks
<1> QED BY <1>3, <1>4, HandlerAdmits

\* What the device does when it sends: a new location is one of a device
\* that is admitted, on an open socket.
LEMMA SendsSpeaks ==
  ASSUME Wire, Sends
  PROVE  /\ \A j \in Links : j # conn => (Deliverable(j)' <=> Deliverable(j))
         /\ \A j \in Links : j # conn => up'[j] = up[j]
         /\ ~Deliverable(conn)
         /\ Deliverable(conn)' =>
              sopen[conn] /\ dpc' = "locSent" /\ Head(up'[conn]).pos = pos
         /\ dpc' \in {"locSent", "beatSent"} => Admitted
         /\ dpc' = "authSent" => ~Admitted'
<1>0. WireType BY DEF Wire
<1>1. /\ UNCHANGED <<sopen, conn, pos>> /\ conn \in Links
      /\ down' = [down EXCEPT ![conn] = <<>>] /\ up[conn] = <<>>
  BY SendsEffect DEF serverVars
<1>2. \/ dpc = "regSent" /\ dpc' = "authSent"
      \/ /\ dpc = "authSent" /\ dpc' = "locSent"
         /\ down[conn] # <<>> /\ Head(down[conn]).result = 0
      \/ dpc = "idle" /\ dpc' = "locSent"
      \/ dpc = "idle" /\ dpc' = "beatSent"
  BY SendsEffect
<1>3. \/ up' = up
      \/ \E f \in Frames :
           /\ f.msg = Expected[dpc'] /\ f.pos = pos
           /\ sopen[conn] /\ up' = [up EXCEPT ![conn] = <<f>>]
  BY SendsEffect
<1>4. \A j \in Links : j # conn => up'[j] = up[j] BY <1>0, <1>3 DEF WireType
<1>5. up'[conn] # <<>> =>
        /\ sopen[conn]
        /\ Head(up'[conn]).msg = Expected[dpc'] /\ Head(up'[conn]).pos = pos
  BY <1>0, <1>1, <1>3, SlotOf DEF WireType
<1>6. Expected[dpc'] = "location" => dpc' = "locSent" BY <1>2 DEF Expected
<1>7. down'[conn] = <<>> BY <1>0, <1>1 DEF WireType
<1>8. dpc' \in {"locSent", "beatSent"} => Admitted BY <1>2 DEF Admitted
<1>9. dpc' = "authSent" => ~Admitted' BY <1>1, <1>7 DEF Admitted
<1>10. ~Deliverable(conn) BY <1>1 DEF Deliverable
<1>11. \A j \in Links : j # conn => (Deliverable(j)' <=> Deliverable(j))
  BY <1>1, <1>4 DEF Deliverable
<1>12. Deliverable(conn)' =>
         sopen[conn] /\ dpc' = "locSent" /\ Head(up'[conn]).pos = pos
  BY <1>1, <1>5, <1>6 DEF Deliverable
<1> QED BY <1>4, <1>8, <1>9, <1>10, <1>11, <1>12

\* A dial opens a connection that carries no location yet.
LEMMA DialSpeaks ==
  ASSUME Wire, srv = "up", Dial, sopen' = [sopen EXCEPT ![conn'] = TRUE]
  PROVE  \A j \in Links : Deliverable(j)' => Deliverable(j) /\ up'[j] = up[j]
<1>0. TypeOK /\ WireType BY DEF Wire
<1>1. conn' \in Links BY DialEffect
<1>2. PICK f \in Frames : f.msg = "registration" /\ up' = [up EXCEPT ![conn'] = <<f>>]
  BY DialEffect
<1>3. Head(up'[conn']) = f BY <1>0, <1>1, <1>2, SlotOf DEF WireType
<1>4. \A j \in Links : j # conn' => up'[j] = up[j] /\ sopen'[j] = sopen[j]
  BY <1>0, <1>2 DEF WireType, TypeOK
<1> QED BY <1>2, <1>3, <1>4 DEF Deliverable

\* Every step keeps it that one connection speaks.
LEMMA OneStep == Wire /\ OneSpeaks /\ [Next]_vars => OneSpeaks'
<1> SUFFICES ASSUME Wire, OneSpeaks, [Next]_vars PROVE OneSpeaks' OBVIOUS
<1>0. TypeOK /\ WireType /\ Lifetimes /\ StopAndWait BY DEF Wire
<1>a. ASSUME UNCHANGED <<owner, up, sopen>>, Admitted' => Admitted, Admitted' => conn' = conn
      PROVE  OneSpeaks'
  BY <1>a DEF OneSpeaks, Deliverable
<1>b. ASSUME owner' = owner, ~Admitted',
             \A j \in Links : Deliverable(j)' => Deliverable(j)
      PROVE  OneSpeaks'
  BY <1>b DEF OneSpeaks
<1>c. ASSUME UNCHANGED <<dpc, down, conn, owner, up, sopen>> PROVE OneSpeaks'
  BY <1>c, <1>a DEF Admitted
<1>1. ASSUME NEW k \in Links, Handler(k) PROVE OneSpeaks' BY <1>1, HandlerOne
<1>2. CASE Sends
  <2>1. /\ UNCHANGED <<sopen, owner, conn>> /\ conn \in Links
        /\ dpc' \in {"authSent", "locSent", "beatSent"}
    BY <1>2, SendsEffect DEF serverVars
  <2>2. /\ \A j \in Links : j # conn => (Deliverable(j)' <=> Deliverable(j))
        /\ Deliverable(conn)' => sopen[conn] /\ dpc' = "locSent"
        /\ dpc' \in {"locSent", "beatSent"} => Admitted
        /\ dpc' = "authSent" => ~Admitted'
    BY <1>2, SendsSpeaks
  <2>3. CASE dpc' = "authSent" BY <1>b, <2>1, <2>2, <2>3
  <2>4. CASE dpc' \in {"locSent", "beatSent"}
    <3>1. /\ sopen[conn] => owner = conn
          /\ \A k \in Links : Deliverable(k) => k = conn
      BY <2>2, <2>4 DEF OneSpeaks
    <3> QED BY <2>1, <2>2, <3>1 DEF OneSpeaks
  <2> QED BY <2>1, <2>3, <2>4
<1>3. CASE Goes
  <2>1. UNCHANGED <<owner, up, sopen, conn>> /\ dpc \in {"locSent", "beatSent"}
    BY <1>3, GoesEffect DEF serverVars
  <2> QED BY <1>a, <2>1 DEF Admitted
<1>4. CASE Leaves
  <2>1. /\ UNCHANGED <<owner, sopen>> /\ dpc' = "failTrunc"
        /\ up' = up \/ up' = [up EXCEPT ![conn] = <<>>]
    BY <1>4, LeavesEffect DEF serverVars
  <2>2. \A j \in Links : up'[j] = up[j] \/ up'[j] = <<>> BY <1>0, <2>1 DEF WireType
  <2>3. \A j \in Links : Deliverable(j)' => Deliverable(j)
    BY <2>1, <2>2 DEF Deliverable
  <2>4. ~Admitted' BY <2>1 DEF Admitted
  <2> QED BY <1>b, <2>1, <2>3, <2>4
<1>5. CASE DeviceDials
  <2>1. CASE srv = "up" /\ Dial /\ sopen' = [sopen EXCEPT ![conn'] = TRUE]
             /\ owner' = owner
    <3>1. ~Admitted' BY <2>1 DEF Dial, Admitted
    <3> QED BY <1>b, <2>1, <3>1, DialSpeaks
  <2>2. CASE DialFails /\ UNCHANGED <<serverVars, streamVars>>
    <3>1. UNCHANGED <<up, sopen, owner>> /\ ~Admitted'
      BY <2>2 DEF DialFails, linkVars, serverVars, Admitted
    <3> QED BY <1>a, <3>1
  <2> QED BY <1>5, <2>1, <2>2 DEF DeviceDials
<1>6. CASE DeviceStores
  <2>1. UNCHANGED <<up, sopen, owner, conn>>
    BY <1>6 DEF DeviceStores, DeviceSaves, linkVars, serverVars
  <2>2. \/ dpc = "trunc" /\ dpc' = "write"
        \/ dpc = "write" /\ dpc' = "idle"
        \/ dpc' \in {"failWrite", "pause"}
    BY <1>6 DEF DeviceStores, DeviceSaves
  <2>3. Admitted' => Admitted BY <2>2 DEF Admitted
  <2> QED BY <1>a, <2>1, <2>3
<1>7. CASE DeviceRedials \/ DeviceQuits
  <2>1. UNCHANGED <<up, sopen, owner>> /\ ~Admitted'
    BY <1>7 DEF DeviceRedials, DeviceQuits, PauseTimer, PauseQuit, linkVars,
       serverVars, Admitted
  <2> QED BY <1>a, <2>1
<1>8. CASE (MainQuit \/ MainSaves \/ Signal)
           /\ UNCHANGED <<serverVars, streamVars>>
  <2>1. UNCHANGED <<dpc, down, conn, owner, up, sopen>>
    BY <1>8 DEF MainQuit, MainSaves, Signal, linkVars, serverVars
  <2> QED BY <1>c, <2>1
<1>9. CASE (Exit \/ Kill \/ Start)
           /\ UNCHANGED <<serverVars, streamVars>>
  <2>1. UNCHANGED <<owner, up, sopen>> /\ ~Admitted'
    BY <1>9 DEF Exit, Kill, Down, Start, linkVars, serverVars, Admitted
  <2> QED BY <1>a, <2>1
<1>10. ASSUME \/ \E k \in Links : StartPublish(k)
              \/ \E e \in pubs : Publishes(e)
              \/ Restart
       PROVE  OneSpeaks'
  <2>1. UNCHANGED <<dpc, down, conn, owner, up, sopen>>
    BY <1>10 DEF StartPublish, Publishes, XAdd, XAddRepeats, XAddFails, Restart,
       linkVars, serverVars, deviceVars
  <2> QED BY <1>c, <2>1
<1>11. CASE Crash
  <2>1. sopen' = [k \in Links |-> FALSE] /\ UNCHANGED <<dpc, down, conn>>
    BY <1>11 DEF Crash, deviceVars
  <2>2. Admitted' => conn' \in Links
    BY <2>1, AdmittedLink DEF Admitted
  <2> QED BY <2>1, <2>2 DEF OneSpeaks, Deliverable
<1>12. CASE UNCHANGED vars
  <2>1. UNCHANGED <<dpc, down, conn, owner, up, sopen>>
    BY <1>12 DEF vars, deviceVars, linkVars, serverVars
  <2> QED BY <1>c, <2>1
<1> QED
  BY <1>1, <1>2, <1>3, <1>4, <1>5, <1>6, <1>7, <1>8, <1>9, <1>10, <1>11,
     <1>12, Steps

-----------------------------------------------------------------------------
(* Locations reach the forwarder in order.                                 *)

\* Positions that reached the forwarder are positions.
LEMMA ReachedType == Wire => Reached \subseteq 0..MaxPos /\ pos \in 0..MaxPos
<1> SUFFICES ASSUME Wire, NEW q \in Reached PROVE q \in 0..MaxPos
  BY DEF Wire, TypeOK, P901Type
<1>0. WireType BY DEF Wire
<1>1. CASE \E i \in DOMAIN stream : stream[i] = q
  BY <1>0, <1>1, SeqElements DEF WireType
<1>2. CASE \E e \in InFlight : e.pos = q
  BY <1>0, <1>2, InFlightType DEF Publications
<1>3. CASE q \in lost BY <1>0, <1>3 DEF WireType
<1> QED BY <1>1, <1>2, <1>3, ReachedIs

\* A step that leaves what is in flight, in the stream and lost alone.
LEMMA SameReached ==
  ASSUME UNCHANGED <<hand, streamVars>>
  PROVE  Reached' = Reached
<1>1. UNCHANGED <<hand, pubs, stream, lost>> BY DEF streamVars
<1>2. InFlight' = InFlight BY <1>1, SameFlight
<1> QED BY <1>1, <1>2 DEF Reached

\* The outcomes of an XADD add nothing to what reached the forwarder.
LEMMA PublishesReached ==
  ASSUME Wire, NEW e \in pubs, Publishes(e)
  PROVE  Reached' \subseteq Reached
<1>0. WireType BY DEF Wire
<1>1. InFlight' \subseteq InFlight /\ e \in InFlight BY XAddFlight
<1>2. e.pos \in Reached BY <1>1, ReachedIs
<1>3. \A q : (\E i \in DOMAIN stream' : stream'[i] = q) =>
        q = e.pos \/ \E i \in DOMAIN stream : stream[i] = q
  <2>1. CASE stream' = stream BY <2>1
  <2>2. CASE stream' = Append(stream, e.pos)
    <3>1. e.pos \in 0..MaxPos /\ stream \in Seq(0..MaxPos)
      BY <1>0 DEF WireType, Publications
    <3>2. \A i \in DOMAIN stream' : i \in DOMAIN stream \/ i = Len(stream) + 1
      BY <2>2, <3>1, AppendFacts
    <3>3. /\ \A i \in DOMAIN stream : stream'[i] = stream[i]
          /\ stream'[Len(stream) + 1] = e.pos
      BY <2>2, <3>1, AppendFacts
    <3> QED BY <3>2, <3>3
  <2> QED BY <2>1, <2>2 DEF Publishes, XAdd, XAddRepeats, XAddFails
<1>4. \A q \in lost' : q \in lost \/ q = e.pos
  BY DEF Publishes, XAdd, XAddRepeats, XAddFails
<1>5. ASSUME NEW q \in Reached' PROVE q \in Reached
  BY <1>1, <1>2, <1>3, <1>4, <1>5, ReachedIs, ReachedNext
<1> QED BY <1>5

\* The end of the server process keeps what reached the forwarder.
LEMMA CrashReached == ASSUME Wire, Crash PROVE Reached' \subseteq Reached
<1>1. /\ stream' = stream /\ pubs' \subseteq pubs
      /\ lost' = lost \cup {e.pos : e \in InFlight \ pubs'}
      /\ hand' = [k \in Links |-> <<>>]
  BY DEF Crash
<1>2. WireType' BY ServerWire DEF Wire
<1>3. InFlight' = pubs' BY <1>1, <1>2, InFlightNext
<1>4. pubs \subseteq InFlight BY DEF InFlight
<1>5. ASSUME NEW q \in Reached' PROVE q \in Reached
  BY <1>1, <1>3, <1>4, <1>5, ReachedIs, ReachedNext
<1> QED BY <1>5

\* A handler adds the position of its own location.
LEMMA HandlerReached ==
  ASSUME Wire, NEW k \in Links, Handler(k), NEW q \in Reached', q \notin Reached
  PROVE  Deliverable(k) /\ q = Head(up[k]).pos
<1>1. UNCHANGED <<stream, lost>> /\ sopen[k] /\ up[k] # <<>>
  BY HandlerEffect DEF streamVars
<1>2. \E e \in InFlight' : e.pos = q /\ e \notin InFlight
  BY <1>1, ReachedIs, ReachedNext
<1>3. Head(up[k]).msg = "location" /\ q = Head(up[k]).pos
  BY <1>2, HandlerFlight
<1> QED BY <1>1, <1>3 DEF Deliverable

\* Steps that add nothing to what reached the forwarder, and no location
\* that can be handled, and leave the device where it is.
LEMMA KeptInStep ==
  ASSUME InStep, Reached' \subseteq Reached,
         \A j \in Links : Deliverable(j)' => Deliverable(j) /\ up'[j] = up[j],
         proc' = "up" => proc = "up" /\ pos' = pos
  PROVE  InStep'
BY DEF InStep

\* Handlers move a location from the wire to the server's hands.
LEMMA HandlerInStep ==
  ASSUME Wire, OneSpeaks, InStep, NEW k \in Links, Handler(k)
  PROVE  InStep'
<1>1. UNCHANGED <<proc, pos>> BY HandlerEffect DEF deviceVars
<1>2. \A j \in Links : Deliverable(j)' => j # k /\ Deliverable(j) /\ up'[j] = up[j]
  BY HandlerSpeaks
<1>3. CASE Reached' \subseteq Reached BY <1>1, <1>2, <1>3, KeptInStep
<1>4. ASSUME NEW q \in Reached', q \notin Reached PROVE InStep'
  <2>1. \A x \in Reached' : x \in Reached \/ (Deliverable(k) /\ x = Head(up[k]).pos)
    BY HandlerReached
  <2>2. Deliverable(k) BY <1>4, HandlerReached
  <2>3. \A j \in Links : ~Deliverable(j)' BY <1>2, <2>2 DEF OneSpeaks
  <2>4. proc = "up" => Head(up[k]).pos = pos BY <2>2 DEF InStep
  <2>5. pos <= pos BY ReachedType, Bounds
  <2>6. proc = "up" => \A x \in Reached' : x <= pos BY <2>1, <2>4, <2>5 DEF InStep
  <2> QED BY <1>1, <2>3, <2>6 DEF InStep
<1> QED BY <1>3, <1>4

\* The device sends the location it is at.
LEMMA SendsInStep == ASSUME Wire, InStep, Sends PROVE InStep'
<1>1. UNCHANGED <<proc, pos, conn, hand, streamVars>> /\ proc = "up"
  BY SendsEffect DEF serverVars
<1>2. Reached' = Reached BY <1>1, SameReached
<1>3. \A j \in Links : Deliverable(j)' =>
        \/ Deliverable(j) /\ up'[j] = up[j]
        \/ Head(up'[j]).pos = pos
  <2>1. ASSUME NEW j \in Links, j # conn, Deliverable(j)'
        PROVE  Deliverable(j) /\ up'[j] = up[j]
    BY <2>1, SendsSpeaks
  <2>2. Deliverable(conn)' => Head(up'[conn]).pos = pos BY SendsSpeaks
  <2> QED BY <1>1, <2>1, <2>2
<1> QED BY <1>1, <1>2, <1>3 DEF InStep

\* When the device moves on, no location can be handled any more.
LEMMA GoesInStep == ASSUME Wire, OneSpeaks, InStep, Goes PROVE InStep'
<1>1. /\ UNCHANGED <<proc, up, sopen, hand, streamVars>> /\ proc = "up"
      /\ up[conn] = <<>> /\ dpc \in {"locSent", "beatSent"}
      /\ pos' = pos \/ pos' = (IF pos < MaxPos THEN pos + 1 ELSE pos)
  BY GoesEffect DEF serverVars
<1>2. Reached' = Reached BY <1>1, SameReached
<1>3. \A j \in Links : ~Deliverable(j)'
  BY <1>1 DEF OneSpeaks, Admitted, Deliverable
<1>4. \A q \in Reached : q <= pos' BY <1>1, ReachedType, Bounds DEF InStep
<1> QED BY <1>2, <1>3, <1>4 DEF InStep

\* Every step keeps the order of one run.
LEMMA OrderStep == Wire /\ OneSpeaks /\ OneRun /\ [Next]_vars => OneRun'
<1> SUFFICES ASSUME Wire, OneSpeaks, OneRun, [Next]_vars, starts' = 1
             PROVE  InStep'
  BY DEF OneRun
<1>0. TypeOK /\ WireType /\ Lifetimes /\ StopAndWait BY DEF Wire
<1>1. ~Start
  BY <1>0 DEF Start, Lifetimes, TypeOK, P901Type
<1>2. starts = 1
  <2>1. CASE \E k \in Links : Handler(k) BY <2>1, HandlerEffect DEF deviceVars
  <2>2. CASE Sends \/ Goes \/ Leaves
    BY <2>2, SendsEffect, GoesEffect, LeavesEffect
  <2>3. CASE UNCHANGED vars BY <2>3 DEF vars, deviceVars
  <2> QED
    BY <1>1, <2>1, <2>2, <2>3, Steps DEF DeviceDials, Dial, DialFails, DeviceStores,
      DeviceSaves, DeviceRedials, PauseTimer, DeviceQuits, PauseQuit, MainQuit,
      MainSaves, Signal, Exit, Kill, Down, StartPublish, Publishes, XAdd,
      XAddRepeats, XAddFails, Crash, Restart, deviceVars
<1>3. InStep BY <1>2 DEF OneRun
<1>a. ASSUME UNCHANGED <<up, sopen>>, Reached' \subseteq Reached,
             proc' = "up" => proc = "up" /\ pos' = pos
      PROVE  InStep'
  BY <1>a, <1>3, KeptInStep DEF Deliverable
<1>b. ASSUME UNCHANGED <<up, serverVars, streamVars>>,
             proc' = "up" => proc = "up" /\ pos' = pos
      PROVE  InStep'
  BY <1>a, <1>b, SameReached DEF serverVars
<1>4. ASSUME NEW k \in Links, Handler(k) PROVE InStep' BY <1>3, <1>4, HandlerInStep
<1>5. CASE Sends BY <1>3, <1>5, SendsInStep
<1>6. CASE Goes BY <1>3, <1>6, GoesInStep
<1>7. CASE Leaves
  <2>1. /\ UNCHANGED <<proc, pos, serverVars, streamVars>> /\ proc = "up"
        /\ up' = up \/ up' = [up EXCEPT ![conn] = <<>>]
    BY <1>7, LeavesEffect
  <2>2. \A j \in Links : up'[j] = up[j] \/ up'[j] = <<>> BY <1>0, <2>1 DEF WireType
  <2>3. \A j \in Links : Deliverable(j)' => Deliverable(j) /\ up'[j] = up[j]
    BY <2>1, <2>2 DEF Deliverable, serverVars
  <2>4. Reached' = Reached BY <2>1, SameReached DEF serverVars
  <2> QED BY <1>3, <2>1, <2>3, <2>4, KeptInStep
<1>8. CASE DeviceDials
  <2>1. CASE DialFails /\ UNCHANGED <<serverVars, streamVars>>
    BY <1>b, <2>1 DEF DialFails, linkVars
  <2>2. CASE srv = "up" /\ Dial /\ sopen' = [sopen EXCEPT ![conn'] = TRUE]
             /\ UNCHANGED <<hand, streamVars>>
    <3>1. UNCHANGED <<proc, pos>> BY <2>2 DEF Dial
    <3>2. \A j \in Links : Deliverable(j)' => Deliverable(j) /\ up'[j] = up[j]
      BY <2>2, DialSpeaks
    <3>3. Reached' = Reached BY <2>2, SameReached
    <3> QED BY <1>3, <3>1, <3>2, <3>3, KeptInStep
  <2> QED BY <1>8, <2>1, <2>2 DEF DeviceDials
<1>9. CASE DeviceStores \/ DeviceRedials \/ DeviceQuits
  BY <1>b, <1>9 DEF DeviceStores, DeviceSaves, DeviceRedials, PauseTimer,
     DeviceQuits, PauseQuit, linkVars
<1>10. CASE (MainQuit \/ MainSaves \/ Signal \/ Exit \/ Kill)
            /\ UNCHANGED <<serverVars, streamVars>>
  BY <1>b, <1>10 DEF MainQuit, MainSaves, Signal, Exit, Kill, Down, linkVars
<1>11. ASSUME NEW k \in Links, StartPublish(k) PROVE InStep'
  <2>1. UNCHANGED <<proc, pos, up, sopen, stream, lost>>
    BY <1>11 DEF StartPublish, deviceVars, linkVars
  <2>2. InFlight' = InFlight BY <1>11, StartFlight
  <2>3. Reached' = Reached BY <2>1, <2>2 DEF Reached
  <2> QED BY <1>a, <2>1, <2>3
<1>12. ASSUME NEW e \in pubs, Publishes(e) PROVE InStep'
  <2>1. UNCHANGED <<proc, pos, up, sopen>>
    BY <1>12 DEF Publishes, XAdd, XAddRepeats, XAddFails, deviceVars, linkVars,
       serverVars
  <2> QED BY <1>a, <1>12, <2>1, PublishesReached
<1>13. CASE Crash
  <2>1. UNCHANGED <<proc, pos>> /\ sopen' = [k \in Links |-> FALSE]
    BY <1>13 DEF Crash, deviceVars
  <2>2. \A j \in Links : ~Deliverable(j)' BY <2>1 DEF Deliverable
  <2> QED BY <1>3, <1>13, <2>1, <2>2, CrashReached, KeptInStep
<1>14. CASE Restart
  <2>1. UNCHANGED <<proc, pos, up, sopen, hand, streamVars>>
    BY <1>14 DEF Restart, deviceVars, linkVars
  <2> QED BY <1>a, <2>1, SameReached
<1>15. CASE UNCHANGED vars
  BY <1>b, <1>15 DEF vars, deviceVars, linkVars
<1> QED
  BY <1>1, <1>4, <1>5, <1>6, <1>7, <1>8, <1>9, <1>10, <1>11, <1>12, <1>13,
     <1>14, <1>15, Steps

\* At first nothing has reached the forwarder.
LEMMA OrderInit == Init => OneSpeaks /\ OneRun
<1> SUFFICES ASSUME Init PROVE OneSpeaks /\ OneRun OBVIOUS
<1>1. \A k \in Links : ~Deliverable(k) BY DEF Init, P901Init, Deliverable
<1>2. WireType BY WireInit DEF Wire
<1>3. InFlight = {} BY <1>2, InFlightIs DEF Init
<1>4. dpc = "dial" /\ stream = <<>> /\ lost = {} BY DEF Init, P901Init
<1>5. DOMAIN stream = {} BY <1>4
<1>6. \A q : q \notin Reached BY <1>3, <1>4, <1>5, ReachedIs
<1>7. OneSpeaks BY <1>1, <1>4 DEF OneSpeaks, Admitted
<1>8. InStep BY <1>1, <1>6 DEF InStep
<1> QED BY <1>7, <1>8 DEF OneRun

\* Only a handler of a location fills the server's hands, and its location
\* could be handled.
LEMMA TakenWas ==
  ASSUME Wire, [Next]_vars, NEW k \in Links, hand'[k] # hand[k], hand'[k] # <<>>
  PROVE  Deliverable(k) /\ Head(hand'[k]) = Head(up[k])
<1>0. hand \in [Links -> Slot(Frames)] BY DEF Wire, WireType
<1>1. ASSUME NEW j \in Links, Handler(j) PROVE Deliverable(k) /\ Head(hand'[k]) = Head(up[k])
  <2> DEFINE f == Head(up[j])
  <2>1. /\ sopen[j] /\ up[j] # <<>> /\ f \in Frames
        /\ \/ hand' = hand
           \/ f.msg = "location" /\ hand' = [hand EXCEPT ![j] = <<f>>]
    BY <1>1, HandlerEffect
  <2>2. j = k /\ f.msg = "location" /\ hand'[k] = <<f>> BY <1>0, <2>1
  <2>3. Head(hand'[k]) = f BY <2>1, <2>2, SlotOf
  <2> QED BY <2>1, <2>2, <2>3 DEF Deliverable
<1>2. ~\E j \in Links : StartPublish(j) BY <1>0 DEF StartPublish
<1>3. ~Crash BY DEF Crash
<1>4. hand' # hand OBVIOUS
<1>5. ~(Sends \/ Goes \/ Leaves)
  BY <1>4, SendsEffect, GoesEffect, LeavesEffect DEF serverVars
<1> QED
  BY <1>1, <1>2, <1>3, <1>4, <1>5, Steps DEF DeviceDials, DeviceStores,
    DeviceRedials, DeviceQuits, Publishes, XAdd, XAddRepeats, XAddFails, Restart,
    serverVars, vars

\* For a journey of any length, any number of connections and any faults,
\* XADDs that are slow, repeated or executed late and a Redis that accepts
\* any token included: the locations of one run of the simulator reach the
\* forwarder in the order of the journey.
THEOREM ReportsOrdered == Spec => ReportsTakenInOrder
<1> DEFINE Inv == Wire /\ OneSpeaks /\ OneRun
<1>1. Init => Inv BY WireInit, OrderInit
<1>2. Inv /\ [Next]_vars => Inv' BY WireStep, OneStep, OrderStep
<1>3. Inv /\ [Next]_vars =>
        [\A k \in Links :
           starts = 1 /\ hand'[k] # hand[k] /\ hand'[k] # <<>> =>
             \A q \in Reached : q <= Head(hand'[k]).pos]_vars
  BY TakenWas DEF OneRun, InStep
<1> QED BY <1>1, <1>2, <1>3, PTL DEF Spec, ReportsTakenInOrder
=============================================================================
