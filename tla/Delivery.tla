------------------------------ MODULE Delivery ------------------------------
(***************************************************************************)
(* From the journey of a P901 to the Redis stream: the simulator (P901),   *)
(* the server goroutine of each of its connections (handler.go, reduced to *)
(* what this peer can make it do; TcpServer has the rest) and the          *)
(* goroutines that publish locations (forwarder/stream.go).  A location is *)
(* acknowledged first and published afterwards, in a goroutine of its own  *)
(* whose failure is only logged.                                           *)
(*                                                                         *)
(* No guard speaks of time.  A publication may take longer than the device *)
(* takes to its next report or to dial again: LOCATION_INTERVAL is set to  *)
(* 3 s where it is deployed, and the 5 s that PublishLocation allows an    *)
(* XADD bound neither its time on the socket nor when Redis executes it.   *)
(***************************************************************************)
EXTENDS P901

VARIABLES
  srv,      \* the server process: "up", "down"
  sopen,    \* the server's sockets
  hand,     \* a location acknowledged and not yet handed to the forwarder
  token,    \* Redis: the connection whose token was stored last
  owner,    \* Registry.local: the connection registered for the phone
  pubs,     \* publications whose XADD may still be executed
  stream,   \* the positions in the stream, as Redis has them
  lost      \* history: positions dropped after the acknowledgement

serverVars == <<srv, sopen, hand, token, owner>>
streamVars == <<pubs, stream, lost>>
vars == <<deviceVars, linkVars, faults, serverVars, streamVars>>

\* The location a goroutine of connection k is publishing.
Publication(k, f) == [conn |-> k, seq |-> f.seq, pos |-> f.pos]
InHand == UNION {{Publication(k, hand[k][i]) : i \in DOMAIN hand[k]} : k \in Links}
InFlight == pubs \cup InHand

\* A connection carries one frame that is not read or one answer that is not
\* read, and its goroutine holds one location.
OneUnderWay ==
  \A k \in Links : Len(up[k]) + Len(down[k]) <= 1 /\ Len(hand[k]) <= 1

TypeOK ==
  /\ P901Type
  /\ srv \in {"up", "down"}
  /\ sopen \in [Links -> BOOLEAN]
  /\ token \in 0..MaxConns /\ owner \in 0..MaxConns
  /\ OneUnderWay

Init ==
  /\ P901Init
  /\ srv = "up"
  /\ sopen = [k \in Links |-> FALSE]
  /\ hand = [k \in Links |-> <<>>]
  /\ token = 0 /\ owner = 0
  /\ pubs = {}
  /\ stream = <<>>
  /\ lost = {}

-----------------------------------------------------------------------------
(* The handlers of connection k.                                           *)

AtFrame(k, msg) ==
  /\ srv = "up" /\ sopen[k]
  /\ hand[k] = <<>>
  /\ up[k] # <<>> /\ Head(up[k]).msg = msg

Pop(k) == [up EXCEPT ![k] = Tail(@)]

Reply(f, result, tok) ==
  [re |-> f.msg, seq |-> f.seq, result |-> result, token |-> tok]

\* Session.Send: the reply gets through if the peer still reads ...
Deliver(k, r) ==
  down' = IF k = conn /\ Connected
          THEN [down EXCEPT ![k] = Append(@, r)] ELSE down

\* ... and may be lost on the way.
Answer(k, r) ==
  \/ Deliver(k, r) /\ UNCHANGED faults
  \/ Fault("link") /\ UNCHANGED down

\* handleRegistration: a token is stored and sent; it is sent as well when
\* the SET reports an error, executed or not.
HandleRegistration(k) ==
  /\ AtFrame(k, "registration")
  /\ LET r == Reply(Head(up[k]), 0, k) IN
       \/ token' = k /\ Answer(k, r)
       \/ Fault("redis") /\ token' \in {token, k} /\ Deliver(k, r)
  /\ up' = Pop(k)
  /\ UNCHANGED <<deviceVars, conn, seq, srv, sopen, hand, owner,
                 streamVars>>

\* The devices table refuses, or cannot be asked; the socket is closed.
RejectRegistration(k) ==
  /\ AtFrame(k, "registration")
  /\ Fault("reject")
  /\ Deliver(k, Reply(Head(up[k]), 4, 0))
  /\ up' = Pop(k)
  /\ sopen' = [sopen EXCEPT ![k] = FALSE]
  /\ UNCHANGED <<deviceVars, conn, seq, srv, hand, token, owner,
                 streamVars>>

\* Mutant: a second connection of the phone does not close the first.
JoinNoClose(k) ==
  /\ owner' = k
  /\ UNCHANGED sopen
  /\ up' = Pop(k)

\* Registry.Register: the owner so far is closed.  What it has not read it
\* can no longer acknowledge, and so it drops it.
Join(k) ==
  /\ owner' = k
  /\ sopen' = [j \in Links |-> sopen[j] /\ (j = owner => j = k)]
  /\ up' = [j \in Links |->
              IF j = k THEN Tail(up[k]) ELSE IF j = owner THEN <<>> ELSE up[j]]

\* handleAuthentication: the token must be the one stored last, unless
\* Redis cannot be asked: then any token will do.
HandleAuthentication(k) ==
  LET f == Head(up[k]) IN
  /\ AtFrame(k, "authentication")
  /\ \/ f.token = token /\ Join(k) /\ Answer(k, Reply(f, 0, 0))
     \/ Fault("redis") /\ Join(k) /\ Deliver(k, Reply(f, 0, 0))
     \/ /\ f.token # token
        /\ up' = Pop(k)
        /\ sopen' = [sopen EXCEPT ![k] = FALSE]
        /\ Answer(k, Reply(f, 1, 0))
        /\ UNCHANGED owner
  /\ UNCHANGED <<deviceVars, conn, seq, srv, hand, token, streamVars>>

HandleHeartbeat(k) ==
  /\ AtFrame(k, "heartbeat")
  /\ Answer(k, Reply(Head(up[k]), 0, 0))
  /\ up' = Pop(k)
  /\ UNCHANGED <<deviceVars, conn, seq, serverVars, streamVars>>

\* handleLocation writes the acknowledgement ...
AckLocation(k) ==
  /\ AtFrame(k, "location")
  /\ Answer(k, Reply(Head(up[k]), 0, 0))
  /\ hand' = [hand EXCEPT ![k] = <<Head(up[k])>>]
  /\ up' = Pop(k)
  /\ UNCHANGED <<deviceVars, conn, seq, srv, sopen, token, owner,
                 streamVars>>

\* ... and returns if that fails, with the location dropped ...
AckLocationFails(k) ==
  /\ AtFrame(k, "location")
  /\ \/ Fault("link")
     \/ ~(k = conn /\ Connected) /\ UNCHANGED faults
  /\ up' = Pop(k)
  /\ UNCHANGED <<deviceVars, conn, seq, down, serverVars, streamVars>>

\* Mutant: the location of a closed session is not published.
StartPublishIfOpen(k) ==
  /\ srv = "up" /\ hand[k] # <<>>
  /\ pubs' = IF sopen[k] /\ k = conn /\ Connected
             THEN pubs \cup {Publication(k, Head(hand[k]))} ELSE pubs
  /\ hand' = [hand EXCEPT ![k] = <<>>]
  /\ UNCHANGED <<deviceVars, linkVars, faults, srv, sopen, token, owner,
                 stream, lost>>

\* ... and then starts the goroutine that publishes.
StartPublish(k) ==
  /\ srv = "up" /\ hand[k] # <<>>
  /\ pubs' = pubs \cup {Publication(k, Head(hand[k]))}
  /\ hand' = [hand EXCEPT ![k] = <<>>]
  /\ UNCHANGED <<deviceVars, linkVars, faults, srv, sopen, token, owner,
                 stream, lost>>

Handle(k) ==
  \/ HandleRegistration(k) \/ HandleAuthentication(k) \/ HandleHeartbeat(k)
  \/ AckLocation(k) \/ StartPublish(k)

-----------------------------------------------------------------------------
(* PublishLocation and the server process.                                 *)

\* Redis executes the XADD: the goroutines of one connection, and of
\* several, overtake each other.  An error its goroutine saw before, a
\* time-out perhaps, is logged and changes nothing here.
XAdd(e) ==
  /\ e \in pubs
  /\ pubs' = pubs \ {e}
  /\ stream' = Append(stream, e.pos)
  /\ UNCHANGED <<deviceVars, linkVars, faults, serverVars, lost>>

\* Redis executes it but the client misses the answer, and sends it again.
XAddRepeats(e) ==
  /\ e \in pubs
  /\ Fault("redis")
  /\ stream' = Append(stream, e.pos)
  /\ UNCHANGED <<deviceVars, linkVars, serverVars, pubs, lost>>

\* The XADD fails for good; this is logged and no more.
XAddFails(e) ==
  /\ e \in pubs
  /\ Fault("redis")
  /\ pubs' = pubs \ {e}
  /\ lost' = lost \cup {e.pos}
  /\ UNCHANGED <<deviceVars, linkVars, serverVars, stream>>

\* The server dies, or is stopped: it waits for none of its goroutines.
\* What they have written to Redis may still be executed.
Crash ==
  /\ srv = "up"
  /\ Fault("crash")
  /\ srv' = "down"
  /\ sopen' = [k \in Links |-> FALSE]
  /\ hand' = [k \in Links |-> <<>>]
  /\ up' = [k \in Links |-> <<>>]
  /\ owner' = 0
  /\ \E sent \in SUBSET pubs :
       /\ pubs' = sent
       /\ lost' = lost \cup {e.pos : e \in InFlight \ sent}
  /\ UNCHANGED <<deviceVars, conn, seq, down, token, stream>>

Restart ==
  /\ srv = "down"
  /\ srv' = "up"
  /\ UNCHANGED <<deviceVars, linkVars, faults, sopen, hand, token, owner,
                 streamVars>>

-----------------------------------------------------------------------------
(* The device against this server.                                         *)

Open == conn > 0 /\ sopen[conn]

DeviceDials ==
  \/ /\ srv = "up" /\ Dial
     /\ sopen' = [sopen EXCEPT ![conn'] = TRUE]
     /\ UNCHANGED <<srv, hand, token, owner, streamVars>>
  \/ srv = "down" /\ DialFails /\ UNCHANGED <<serverVars, streamVars>>

DeviceReceives == Receive(Open) /\ UNCHANGED <<serverVars, streamVars>>
DeviceTimesOut == TimeOut /\ UNCHANGED <<serverVars, streamVars>>

DeviceReports == LocTick(Open) /\ UNCHANGED <<serverVars, streamVars>>
DeviceBeats == HbTick(Open) /\ UNCHANGED <<serverVars, streamVars>>
DeviceStores == DeviceSaves /\ UNCHANGED <<serverVars, streamVars>>
DeviceRedials == PauseTimer /\ UNCHANGED <<serverVars, streamVars>>
DeviceQuits == PauseQuit /\ UNCHANGED <<serverVars, streamVars>>

Main ==
  /\ MainQuit \/ MainSaves \/ Exit
  /\ UNCHANGED <<serverVars, streamVars>>

Faults ==
  \/ (BreakLink \/ Signal \/ Kill) /\ UNCHANGED <<serverVars, streamVars>>
  \/ Crash
  \/ \E k \in Links : RejectRegistration(k) \/ AckLocationFails(k)
  \/ \E e \in pubs : XAddRepeats(e) \/ XAddFails(e)

Next ==
  \/ DeviceDials \/ DeviceReceives \/ DeviceTimesOut \/ DeviceReports
  \/ DeviceBeats \/ DeviceStores \/ DeviceRedials \/ DeviceQuits \/ Main
  \/ \E k \in Links : Handle(k)
  \/ \E e \in pubs : XAdd(e)
  \/ Restart
  \/ Start /\ UNCHANGED <<serverVars, streamVars>>
  \/ Faults

Spec == Init /\ [][Next]_vars

\* The device goroutine, but for its tickers.
Device ==
  DeviceDials \/ DeviceReceives \/ DeviceTimesOut \/ DeviceStores \/ DeviceRedials

\* The server, its restart included.
Server == Restart \/ \E k \in Links : Handle(k)

\* Goroutines run, deadlines pass, a dead server is restarted, and select
\* does not ignore a ticker that is ready for ever.  Nobody has to send a
\* heartbeat or a signal or to restart the simulator, faults need not happen
\* and publications need not end.
Fairness ==
  WF_vars(Device) /\ SF_vars(DeviceReports) /\ WF_vars(Main) /\ WF_vars(Server)

FairSpec == Spec /\ Fairness

-----------------------------------------------------------------------------
(* Properties.                                                             *)

\* readACK compares message ids and not sequence numbers, and yet an answer
\* the device reads is the answer to the very frame it waits for: on any
\* failure the connection is abandoned, and late answers with it.
AnswerIsOwn ==
  Connected => \A i \in DOMAIN down[conn] :
    /\ dpc \in Waiting
    /\ down[conn][i].re = Expected[dpc] /\ down[conn][i].seq = seq

\* The positions that reached the forwarder: they are in the stream, on their
\* way there, or were dropped by a failed XADD or by the end of the server
\* process.
Reached ==
  {stream[i] : i \in DOMAIN stream} \cup {e.pos : e \in InFlight} \cup lost

\* A position the device has moved on from, or would move on from after a
\* restart, reached the forwarder.  A location whose acknowledgement got lost
\* is sent again.
NothingSkipped ==
  \A q \in 0..(MaxPos - 1) :
    q < pos \/ (file.st = "whole" /\ q < file.pos) => q \in Reached

\* The server acknowledges the locations of one run of the simulator in the
\* order of the journey: when it takes one into its hands, no later position
\* has reached the forwarder, although connections are replaced while frames
\* of the old one are unread.  So the entries of the stream can change places
\* only with publications that were under way together.  They do: every
\* location has a goroutine of its own, and its XADD may take longer than
\* the next report.
ReportsTakenInOrder ==
  [][\A k \in Links :
       starts = 1 /\ hand'[k] # hand[k] /\ hand'[k] # <<>> =>
         \A q \in Reached : q <= Head(hand'[k]).pos]_vars

\* When the faults stop, a simulator that is not told to stop gets to the
\* end of its journey, wherever it was when they did.
JourneyGoesOn ==
  (proc = "up") ~> (pos = MaxPos \/ proc = "down" \/ quit = 1
                      \/ main # "waiting" \/ dpc = "returned")

\* A signal ends the reports, whichever goroutine receives it.
SignalStops == (quit = 1) ~> (proc = "down" \/ dpc = "returned")

\* The header of main.go: the state file makes that "restarting the
\* container continues the device's journey rather than teleporting it back
\* to the starting point": a stopped simulator leaves a readable file, or
\* none if it never saved.
StateSurvives == proc = "down" => file.st \in {"absent", "whole"}
=============================================================================
