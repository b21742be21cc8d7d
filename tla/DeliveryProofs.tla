--------------------------- MODULE DeliveryProofs ---------------------------
(***************************************************************************)
(* Proofs, for a journey of any length, any number of connections and any  *)
(* number of faults, of what Delivery says about the exchange between the  *)
(* simulator and the server.                                               *)
(***************************************************************************)
EXTENDS Delivery, TLAPS

USE P901Assumption

-----------------------------------------------------------------------------
(* The inductive invariant of the exchange.                                *)

Kinds == {"registration", "authentication", "location", "heartbeat"}
Seqs == 0..(SeqMod - 1)
Frames == [msg : Kinds, seq : Seqs, pos : 0..MaxPos, token : 0..MaxConns]
Replies == [re : Kinds, seq : Seqs, result : {0, 1, 4}, token : 0..MaxConns]
Publications == [conn : Links, seq : Seqs, pos : 0..MaxPos]

\* A queue of at most one element.
Slot(S) == {<<>>} \cup {<<x>> : x \in S}

\* What is on the wire, in the server's hands and in the stream.
WireType ==
  /\ up \in [Links -> Slot(Frames)]
  /\ down \in [Links -> Slot(Replies)]
  /\ hand \in [Links -> Slot(Frames)]
  /\ pubs \subseteq Publications
  /\ stream \in Seq(0..MaxPos)
  /\ lost \subseteq 0..MaxPos

\* A process that is down does nothing, a goroutine that talks has dialled,
\* and a connection that is not dialled yet is unused.
Lifetimes ==
  /\ starts >= 1
  /\ proc = "down" <=> dpc = "gone"
  /\ dpc \in Waiting \cup {"idle", "trunc", "write"} => conn > 0
  /\ \A k \in Links : k > conn => up[k] = <<>> /\ ~sopen[k]

\* Stop and wait: between the device and the server of the connection it is
\* on there is one frame that the device waits to see answered, or the
\* answer to it, or nothing.
StopAndWait ==
  /\ \A k \in Links : down[k] # <<>> => k = conn /\ dpc \in Waiting
  /\ dpc \in {"idle", "trunc", "write"} => up[conn] = <<>>
  /\ dpc \in Waiting =>
       /\ up[conn] = <<>> \/ down[conn] = <<>>
       /\ up[conn] # <<>> =>
            /\ Head(up[conn]).msg = Expected[dpc]
            /\ Head(up[conn]).seq = seq /\ Head(up[conn]).pos = pos
       /\ down[conn] # <<>> =>
            Head(down[conn]).re = Expected[dpc] /\ Head(down[conn]).seq = seq

Wire == TypeOK /\ WireType /\ Lifetimes /\ StopAndWait

-----------------------------------------------------------------------------
(* Helpers: slots, frames and replies.                                     *)

\* What Head and Tail make of a slot.
LEMMA SlotFacts ==
  ASSUME NEW S, NEW s \in Slot(S)
  PROVE  /\ s \in Seq(S) /\ Len(s) <= 1
         /\ s # <<>> => /\ Head(s) \in S /\ Tail(s) = <<>> /\ s = <<Head(s)>>
                        /\ DOMAIN s = {1} /\ s[1] = Head(s)
         /\ s = <<>> => DOMAIN s = {}
<1>1. CASE s = <<>> BY <1>1
<1>2. CASE s # <<>>
  <2>1. PICK x \in S : s = <<x>> BY <1>2 DEF Slot
  <2>2. Len(s) = 1 /\ DOMAIN s = 1..1 /\ s[1] = x BY <2>1
  <2>3. s \in Seq(S) BY <2>1
  <2>4. Head(s) = x BY <2>1
  <2>5. Tail(s) = <<>> BY <2>1
  <2>6. 1..1 = {1} OBVIOUS
  <2> QED BY <1>2, <2>1, <2>2, <2>3, <2>4, <2>5, <2>6
<1> QED BY <1>1, <1>2

\* What is put into a slot.
LEMMA SlotOf ==
  ASSUME NEW S, NEW x \in S
  PROVE  /\ <<x>> \in Slot(S) /\ <<x>> # <<>> /\ Head(<<x>>) = x
         /\ Append(<<>>, x) = <<x>>
BY DEF Slot

\* The empty queue is a slot.
LEMMA SlotEmpty == \A S : <<>> \in Slot(S)
BY DEF Slot

\* The numbers in the bounds.
LEMMA Bounds ==
  /\ MaxConns \in Nat /\ MaxConns >= 1 /\ MaxPos \in Nat /\ MaxFaults \in Nat
  /\ SeqMod \in Nat /\ SeqMod >= 2
  /\ Links = 1..MaxConns /\ Seqs = 0..(SeqMod - 1)
BY DEF Links, Seqs

\* A frame the server pops leaves the slot empty.
LEMMA PopEmpties ==
  ASSUME WireType, NEW k \in Links, up[k] # <<>>
  PROVE  Pop(k) = [up EXCEPT ![k] = <<>>] /\ Head(up[k]) \in Frames
<1>1. up[k] \in Slot(Frames) BY DEF WireType
<1>2. Tail(up[k]) = <<>> /\ Head(up[k]) \in Frames BY <1>1, SlotFacts
<1> QED BY <1>2 DEF Pop

\* A reply is well-formed and carries the kind and number of its frame.
LEMMA ReplyType ==
  ASSUME NEW f \in Frames, NEW res \in {0, 1, 4}, NEW tok \in 0..MaxConns
  PROVE  /\ Reply(f, res, tok) \in Replies
         /\ Reply(f, res, tok).re = f.msg /\ Reply(f, res, tok).seq = f.seq
         /\ Reply(f, res, tok).result = res
BY DEF Reply, Replies, Frames

\* A fault is counted up to the bound.
LEMMA FaultType ==
  ASSUME TypeOK, NEW kind, Fault(kind)
  PROVE  faults' \in 0..MaxFaults
BY Bounds DEF TypeOK, P901Type, Fault

\* A frame on the connection the device is on leaves no room for a reply.
LEMMA NoReplyYet ==
  ASSUME WireType, Lifetimes, StopAndWait, NEW k \in Links, up[k] # <<>>
  PROVE  down[k] = <<>>
<1>1. down[k] # <<>> => k = conn /\ dpc \in Waiting BY DEF StopAndWait
<1>2. k = conn /\ dpc \in Waiting => up[k] = <<>> \/ down[k] = <<>>
  BY DEF StopAndWait
<1> QED BY <1>1, <1>2

\* Session.Send puts the reply on the wire, or nothing.
LEMMA DeliverEffect ==
  ASSUME NEW k \in Links, down[k] = <<>>, NEW r \in Replies, Deliver(k, r)
  PROVE  \/ down' = down
         \/ k = conn /\ Connected /\ down' = [down EXCEPT ![k] = <<r>>]
<1>1. Append(down[k], r) = <<r>> BY SlotOf
<1>2. [down EXCEPT ![k] = Append(@, r)] = [down EXCEPT ![k] = <<r>>] BY <1>1
<1> QED BY <1>2 DEF Deliver

\* A reply that may get lost does no more than that.
LEMMA AnswerEffect ==
  ASSUME TypeOK, NEW k \in Links, down[k] = <<>>, NEW r \in Replies, Answer(k, r)
  PROVE  /\ \/ down' = down
            \/ k = conn /\ Connected /\ down' = [down EXCEPT ![k] = <<r>>]
         /\ faults' \in 0..MaxFaults
<1>1. faults \in 0..MaxFaults BY DEF TypeOK, P901Type
<1>2. CASE Deliver(k, r) /\ UNCHANGED faults BY <1>1, <1>2, DeliverEffect
<1>3. CASE Fault("link") /\ UNCHANGED down BY <1>3, FaultType
<1> QED BY <1>2, <1>3 DEF Answer

-----------------------------------------------------------------------------
(* What a step does, in terms of the slots.                                *)

\* A handler: the frame at the head of connection k is gone, with those of
\* a connection that is taken over; its answer may be on the wire, and a
\* location in the server's hands.
Handler(k) ==
  \/ HandleRegistration(k) \/ RejectRegistration(k) \/ HandleAuthentication(k)
  \/ HandleHeartbeat(k) \/ AckLocation(k) \/ AckLocationFails(k)

\* The parts every handler has in common.
LEMMA HandlerEffect ==
  ASSUME Wire, NEW k \in Links, Handler(k)
  PROVE  LET f == Head(up[k]) IN
         /\ UNCHANGED <<deviceVars, conn, seq, srv, streamVars>>
         /\ srv = "up" /\ sopen[k] /\ hand[k] = <<>>
         /\ up[k] # <<>> /\ down[k] = <<>> /\ f \in Frames
         /\ up' \in [Links -> Slot(Frames)] /\ up'[k] = <<>>
         /\ \A j \in Links : up'[j] = up[j] \/ up'[j] = <<>>
         /\ sopen' \in [Links -> BOOLEAN]
         /\ \A j \in Links : sopen'[j] => sopen[j]
         /\ \/ down' = down
            \/ /\ k = conn /\ Connected
               /\ \E r \in Replies : /\ r.re = f.msg /\ r.seq = f.seq
                                     /\ down' = [down EXCEPT ![k] = <<r>>]
         /\ \/ hand' = hand
            \/ f.msg = "location" /\ hand' = [hand EXCEPT ![k] = <<f>>]
         /\ faults' \in 0..MaxFaults
         /\ token' \in 0..MaxConns /\ owner' \in 0..MaxConns
<1> DEFINE f == Head(up[k])
<1>0. TypeOK /\ WireType /\ Lifetimes /\ StopAndWait BY DEF Wire
<1>1. \E m \in Kinds : AtFrame(k, m)
  BY DEF Handler, HandleRegistration, RejectRegistration, HandleAuthentication,
         HandleHeartbeat, AckLocation, AckLocationFails, Kinds
<1>2. srv = "up" /\ sopen[k] /\ hand[k] = <<>> /\ up[k] # <<>>
  BY <1>1 DEF AtFrame
<1>3. down[k] = <<>> BY <1>0, <1>2, NoReplyYet
<1>4. Pop(k) = [up EXCEPT ![k] = <<>>] /\ f \in Frames
  BY <1>0, <1>2, PopEmpties
<1>5. k \in 0..MaxConns /\ 0 \in 0..MaxConns BY Bounds
<1>6. UNCHANGED <<deviceVars, conn, seq, srv, streamVars>>
  BY DEF Handler, HandleRegistration, RejectRegistration, HandleAuthentication,
         HandleHeartbeat, AckLocation, AckLocationFails, serverVars
<1>7. /\ up' \in [Links -> Slot(Frames)] /\ up'[k] = <<>>
      /\ \A j \in Links : up'[j] = up[j] \/ up'[j] = <<>>
  <2>0. up \in [Links -> Slot(Frames)] BY <1>0 DEF WireType
  <2>1. CASE up' = Pop(k) BY <2>0, <2>1, <1>4, SlotEmpty
  <2>2. CASE Join(k)
    <3>1. Tail(up[k]) = <<>> BY <2>0, <1>2, SlotFacts
    <3> QED BY <2>0, <2>2, <3>1, SlotEmpty DEF Join
  <2> QED
    BY <2>1, <2>2 DEF Handler, HandleRegistration, RejectRegistration,
      HandleAuthentication, HandleHeartbeat, AckLocation, AckLocationFails
<1>8. /\ sopen' \in [Links -> BOOLEAN]
      /\ \A j \in Links : sopen'[j] => sopen[j]
  <2>0. sopen \in [Links -> BOOLEAN] BY <1>0 DEF TypeOK
  <2>1. CASE sopen' = sopen BY <2>0, <2>1
  <2>2. CASE sopen' = [sopen EXCEPT ![k] = FALSE] BY <2>0, <2>2
  <2>3. CASE Join(k) BY <2>0, <2>3 DEF Join
  <2> QED
    BY <2>1, <2>2, <2>3 DEF Handler, HandleRegistration, RejectRegistration,
      HandleAuthentication, HandleHeartbeat, AckLocation, AckLocationFails,
      serverVars
<1>9. /\ \/ down' = down
         \/ /\ k = conn /\ Connected
            /\ \E r \in Replies : /\ r.re = f.msg /\ r.seq = f.seq
                                  /\ down' = [down EXCEPT ![k] = <<r>>]
      /\ faults' \in 0..MaxFaults
  <2>1. ASSUME NEW res \in {0, 1, 4}, NEW tok \in 0..MaxConns,
               \/ Answer(k, Reply(f, res, tok))
               \/ Deliver(k, Reply(f, res, tok)) /\ \E kind : Fault(kind)
        PROVE  <1>9!:
    <3>1. /\ Reply(f, res, tok) \in Replies
          /\ Reply(f, res, tok).re = f.msg /\ Reply(f, res, tok).seq = f.seq
      BY <1>4, ReplyType
    <3>2. CASE Answer(k, Reply(f, res, tok))
      BY <1>0, <1>3, <3>1, <3>2, AnswerEffect
    <3>3. CASE Deliver(k, Reply(f, res, tok)) /\ \E kind : Fault(kind)
      BY <1>0, <1>3, <3>1, <3>3, DeliverEffect, FaultType
    <3> QED BY <2>1, <3>2, <3>3
  <2>2. CASE RejectRegistration(k)
    BY <1>5, <2>1, <2>2 DEF RejectRegistration
  <2>3. CASE AckLocationFails(k)
    <3>1. down' = down BY <2>3 DEF AckLocationFails
    <3>2. faults' \in 0..MaxFaults
      BY <1>0, <2>3, FaultType DEF AckLocationFails, TypeOK, P901Type
    <3> QED BY <3>1, <3>2
  <2>4. CASE HandleRegistration(k)
    BY <1>5, <2>1, <2>4 DEF HandleRegistration
  <2>5. CASE HandleAuthentication(k)
    BY <1>5, <2>1, <2>5 DEF HandleAuthentication
  <2>6. CASE HandleHeartbeat(k) BY <1>5, <2>1, <2>6 DEF HandleHeartbeat
  <2>7. CASE AckLocation(k) BY <1>5, <2>1, <2>7 DEF AckLocation
  <2> QED BY <2>2, <2>3, <2>4, <2>5, <2>6, <2>7 DEF Handler
<1>10. \/ hand' = hand
       \/ f.msg = "location" /\ hand' = [hand EXCEPT ![k] = <<f>>]
  BY DEF Handler, HandleRegistration, RejectRegistration, HandleAuthentication,
         HandleHeartbeat, AckLocation, AckLocationFails, serverVars, AtFrame
<1>11. token' \in 0..MaxConns /\ owner' \in 0..MaxConns
  BY <1>0, <1>5 DEF Handler, HandleRegistration, RejectRegistration,
     HandleAuthentication, HandleHeartbeat, AckLocation, AckLocationFails,
     serverVars, Join, TypeOK
<1> QED
  BY <1>2, <1>3, <1>4, <1>6, <1>7, <1>8, <1>9, <1>10, <1>11

\* The device sends a frame on the connection it is on, and waits.
Sends ==
  \/ DeviceReports \/ DeviceBeats
  \/ /\ DeviceReceives /\ dpc \in {"regSent", "authSent"}
     /\ Accepted(Head(down[conn]))

\* The frame is the one the device waits to see answered; a closed socket
\* discards it.
LEMMA SendsEffect ==
  ASSUME Wire, Sends
  PROVE  /\ UNCHANGED <<proc, main, copy, quit, pos, file, starts, conn, faults,
                        serverVars, streamVars>>
         /\ conn \in Links /\ proc = "up"
         /\ \/ dpc = "regSent" /\ dpc' = "authSent"
            \/ /\ dpc = "authSent" /\ dpc' = "locSent"
               /\ down[conn] # <<>> /\ Head(down[conn]).result = 0
            \/ dpc = "idle" /\ dpc' = "locSent"
            \/ dpc = "idle" /\ dpc' = "beatSent"
         /\ seq' \in Seqs
         /\ up[conn] = <<>>
         /\ down' = [down EXCEPT ![conn] = <<>>]
         /\ \/ up' = up
            \/ \E f \in Frames :
                 /\ f.msg = Expected[dpc'] /\ f.seq = seq' /\ f.pos = pos
                 /\ sopen[conn] /\ up' = [up EXCEPT ![conn] = <<f>>]
<1>0. TypeOK /\ WireType /\ Lifetimes /\ StopAndWait BY DEF Wire
<1>1. conn \in Links
  <2>1. dpc \in Waiting \cup {"idle"}
    BY DEF Sends, DeviceReports, DeviceBeats, DeviceReceives, LocTick, HbTick,
           Receive
  <2> QED BY <1>0, <2>1, Bounds, SMTT(60) DEF Lifetimes, TypeOK, P901Type
<1>2. down[conn] \in Slot(Replies) /\ up[conn] \in Slot(Frames)
  BY <1>0, <1>1 DEF WireType
<1>3. ASSUME NEW msg \in Kinds, NEW tok \in 0..MaxConns, UNCHANGED pos,
             up[conn] = <<>>, SendOn(Open, msg, tok)
      PROVE  /\ seq' \in Seqs
             /\ \/ up' = up
                \/ \E f \in Frames :
                     /\ f.msg = msg /\ f.seq = seq' /\ f.pos = pos
                     /\ sopen[conn] /\ up' = [up EXCEPT ![conn] = <<f>>]
  <2> DEFINE f == [msg |-> msg, seq |-> seq', pos |-> pos, token |-> tok]
  <2>1. seq' \in Seqs
    <3>1. seq \in Nat BY <1>0, Bounds DEF TypeOK, P901Type
    <3>2. seq + 1 \in Nat /\ SeqMod \in Nat /\ SeqMod > 0 BY <3>1, Bounds
    <3>3. seq' = (seq + 1) % SeqMod BY <1>3 DEF SendOn, NextSeq
    <3> QED BY <3>2, <3>3, Bounds
  <2>2. f \in Frames BY <1>0, <2>1 DEF Frames, TypeOK, P901Type
  <2>3. Append(up[conn], f) = <<f>> BY <1>3, <2>2, SlotOf
  <2>4. CASE Open
    <3>1. up' = [up EXCEPT ![conn] = <<f>>] BY <1>3, <2>3, <2>4 DEF SendOn, Put
    <3> QED BY <2>1, <2>2, <2>4, <3>1 DEF Open
  <2>5. CASE ~Open BY <1>3, <2>1, <2>5 DEF SendOn
  <2> QED BY <2>4, <2>5
<1>4. CASE DeviceReports \/ DeviceBeats
  <2>1. dpc = "idle" /\ proc = "up" BY <1>4 DEF DeviceReports, DeviceBeats, LocTick, HbTick
  <2>2. up[conn] = <<>> BY <1>0, <2>1 DEF StopAndWait
  <2>3. down[conn] = <<>> BY <1>0, <1>1, <2>1 DEF StopAndWait, Waiting
  <2>4. down' = [down EXCEPT ![conn] = <<>>]
    BY <1>0, <1>4, <2>3 DEF DeviceReports, DeviceBeats, LocTick, HbTick, WireType
  <2>5. 0 \in 0..MaxConns BY Bounds
  <2>6. CASE DeviceReports
    <3>1. /\ SendOn(Open, "location", 0) /\ dpc' = "locSent"
          /\ UNCHANGED <<proc, main, copy, quit, pos, file, starts, conn, faults,
                         serverVars, streamVars>>
      BY <2>6 DEF DeviceReports, LocTick
    <3>2. "location" \in Kinds /\ Expected["locSent"] = "location"
      BY DEF Kinds, Expected
    <3> QED BY <1>1, <1>3, <2>1, <2>2, <2>4, <2>5, <3>1, <3>2
  <2>7. CASE DeviceBeats
    <3>1. /\ SendOn(Open, "heartbeat", 0) /\ dpc' = "beatSent"
          /\ UNCHANGED <<proc, main, copy, quit, pos, file, starts, conn, faults,
                         serverVars, streamVars>>
      BY <2>7 DEF DeviceBeats, HbTick
    <3>2. "heartbeat" \in Kinds /\ Expected["beatSent"] = "heartbeat"
      BY DEF Kinds, Expected
    <3> QED BY <1>1, <1>3, <2>1, <2>2, <2>4, <2>5, <3>1, <3>2
  <2> QED BY <1>4, <2>6, <2>7
<1>5. CASE /\ DeviceReceives /\ dpc \in {"regSent", "authSent"}
           /\ Accepted(Head(down[conn]))
  <2> DEFINE r == Head(down[conn])
  <2>1. /\ proc = "up" /\ dpc \in Waiting /\ down[conn] # <<>>
        /\ Proceed(Open, r) /\ r.result = 0
        /\ UNCHANGED <<faults, serverVars, streamVars>>
    BY <1>5 DEF DeviceReceives, Receive, Accepted
  <2>2. r \in Replies /\ Tail(down[conn]) = <<>> BY <1>2, <2>1, SlotFacts
  <2>3. r.token \in 0..MaxConns /\ 0 \in 0..MaxConns BY <2>2, Bounds DEF Replies
  <2>4. up[conn] = <<>> BY <1>0, <2>1 DEF StopAndWait
  <2>5. /\ down' = [down EXCEPT ![conn] = <<>>]
        /\ UNCHANGED <<proc, main, copy, quit, file, starts, conn>>
    BY <2>1, <2>2 DEF Proceed
  <2>6. CASE dpc = "regSent"
    <3>1. SendOn(Open, "authentication", r.token) /\ dpc' = "authSent" /\ UNCHANGED pos
      BY <2>1, <2>6 DEF Proceed
    <3>2. "authentication" \in Kinds /\ Expected["authSent"] = "authentication"
      BY DEF Kinds, Expected
    <3> QED BY <1>1, <1>3, <2>1, <2>3, <2>4, <2>5, <2>6, <3>1, <3>2
  <2>7. CASE dpc = "authSent"
    <3>1. SendOn(Open, "location", 0) /\ dpc' = "locSent" /\ UNCHANGED pos
      BY <2>1, <2>7 DEF Proceed
    <3>2. "location" \in Kinds /\ Expected["locSent"] = "location"
      BY DEF Kinds, Expected
    <3> QED BY <1>1, <1>3, <2>1, <2>3, <2>4, <2>5, <2>7, <3>1, <3>2
  <2> QED BY <1>5, <2>6, <2>7
<1> QED BY <1>4, <1>5 DEF Sends

\* The device reads an answer and sends nothing.
Goes ==
  /\ DeviceReceives /\ dpc \in {"locSent", "beatSent"}
  /\ Accepted(Head(down[conn]))

\* An acknowledged location moves the journey on, an acknowledged heartbeat
\* does not.
LEMMA GoesEffect ==
  ASSUME Wire, Goes
  PROVE  /\ UNCHANGED <<proc, main, copy, quit, file, starts, conn, seq, up,
                        faults, serverVars, streamVars>>
         /\ conn \in Links /\ proc = "up" /\ down[conn] # <<>>
         /\ \/ /\ dpc = "locSent" /\ dpc' = "trunc"
               /\ pos' = IF pos < MaxPos THEN pos + 1 ELSE pos
            \/ dpc = "beatSent" /\ dpc' = "idle" /\ pos' = pos
         /\ up[conn] = <<>>
         /\ down' = [down EXCEPT ![conn] = <<>>]
<1> DEFINE r == Head(down[conn])
<1>0. TypeOK /\ WireType /\ Lifetimes /\ StopAndWait BY DEF Wire
<1>1. /\ proc = "up" /\ dpc \in Waiting /\ down[conn] # <<>>
      /\ Proceed(Open, r)
      /\ UNCHANGED <<faults, serverVars, streamVars>>
  BY DEF Goes, DeviceReceives, Receive
<1>2. conn \in Links
  BY <1>0, <1>1, Bounds DEF Lifetimes, TypeOK, P901Type
<1>3. Tail(down[conn]) = <<>> BY <1>0, <1>1, <1>2, SlotFacts DEF WireType
<1>4. up[conn] = <<>> BY <1>0, <1>1 DEF StopAndWait
<1>5. /\ down' = [down EXCEPT ![conn] = <<>>]
      /\ UNCHANGED <<proc, main, copy, quit, file, starts, conn>>
  BY <1>1, <1>3 DEF Proceed
<1>6. CASE dpc = "locSent" BY <1>1, <1>2, <1>4, <1>5, <1>6 DEF Proceed
<1>7. CASE dpc = "beatSent" BY <1>1, <1>2, <1>4, <1>5, <1>7 DEF Proceed
<1> QED BY <1>6, <1>7 DEF Goes

\* The device leaves the connection it is on.
Leaves ==
  \/ DeviceReceives /\ ~Accepted(Head(down[conn]))
  \/ DeviceTimesOut
  \/ BreakLink /\ UNCHANGED <<serverVars, streamVars>>

\* What the server has not read may still reach it; what it answers is not
\* read any more.
LEMMA LeavesEffect ==
  ASSUME Wire, Leaves
  PROVE  /\ UNCHANGED <<proc, main, copy, quit, pos, file, starts, conn, seq,
                        serverVars, streamVars>>
         /\ conn \in Links /\ proc = "up" /\ dpc \in Waiting
         /\ dpc' = "failTrunc" /\ faults' \in 0..MaxFaults
         /\ down' = [down EXCEPT ![conn] = <<>>]
         /\ up' = up \/ up' = [up EXCEPT ![conn] = <<>>]
<1>0. TypeOK /\ WireType /\ Lifetimes /\ StopAndWait BY DEF Wire
<1>1. /\ proc = "up" /\ dpc \in Waiting /\ Abandon
      /\ UNCHANGED <<serverVars, streamVars>>
  BY DEF Leaves, DeviceReceives, Receive, DeviceTimesOut, TimeOut, NoAnswer,
         BreakLink, GiveUp
<1>2. conn \in Links
  BY <1>0, <1>1, Bounds DEF Lifetimes, TypeOK, P901Type
<1>3. faults' \in 0..MaxFaults
  BY <1>0, FaultType DEF Leaves, DeviceReceives, Receive, DeviceTimesOut,
     TimeOut, BreakLink, TypeOK, P901Type
<1> QED BY <1>1, <1>2, <1>3 DEF Abandon

\* A received answer is accepted, and the device sends or goes on, or it is
\* not, and the device leaves.
LEMMA ReceiveCases == DeviceReceives => Sends \/ Goes \/ Leaves
BY DEF DeviceReceives, Receive, Sends, Goes, Leaves, Waiting

-----------------------------------------------------------------------------
(* The exchange is stop and wait.                                          *)

\* Queues that are slots have at most one element, and stop and wait leaves
\* one of the two of a connection empty.
LEMMA TypeFromWire ==
  ASSUME WireType', StopAndWait', P901Type', srv' \in {"up", "down"},
         sopen' \in [Links -> BOOLEAN], token' \in 0..MaxConns,
         owner' \in 0..MaxConns
  PROVE  TypeOK'
<1>1. \A k \in Links :
        /\ up'[k] \in Slot(Frames) /\ down'[k] \in Slot(Replies)
        /\ hand'[k] \in Slot(Frames)
  BY DEF WireType
<1>2. \A k \in Links :
        /\ up'[k] = <<>> \/ Len(up'[k]) = 1
        /\ down'[k] = <<>> \/ Len(down'[k]) = 1
        /\ Len(hand'[k]) <= 1
  BY <1>1, SlotFacts DEF Slot
<1>3. \A k \in Links : up'[k] = <<>> \/ down'[k] = <<>> BY DEF StopAndWait
<1>4. OneUnderWay'
  <2> SUFFICES ASSUME NEW k \in Links
               PROVE  Len(up'[k]) + Len(down'[k]) <= 1 /\ Len(hand'[k]) <= 1
    BY DEF OneUnderWay
  <2>0. Len(<<>>) = 0 OBVIOUS
  <2>1. Len(up'[k]) \in {0, 1} BY <1>2, <2>0
  <2>2. Len(down'[k]) \in {0, 1} BY <1>2, <2>0
  <2>3. Len(up'[k]) = 0 \/ Len(down'[k]) = 0 BY <1>3, <2>0
  <2>4. \A m, n \in {0, 1} : m = 0 \/ n = 0 => m + n <= 1 OBVIOUS
  <2>5. Len(up'[k]) + Len(down'[k]) <= 1 BY <2>1, <2>2, <2>3, <2>4
  <2> QED BY <1>2, <2>5
<1> QED BY <1>4 DEF TypeOK

\* A handler keeps the exchange in order.
LEMMA HandlerWire == ASSUME Wire, NEW k \in Links, Handler(k) PROVE Wire'
<1> DEFINE f == Head(up[k])
<1>0. TypeOK /\ WireType /\ Lifetimes /\ StopAndWait BY DEF Wire
<1>1. /\ UNCHANGED <<deviceVars, conn, seq, srv, streamVars>>
      /\ sopen[k] /\ up[k] # <<>> /\ down[k] = <<>> /\ f \in Frames
      /\ up' \in [Links -> Slot(Frames)] /\ up'[k] = <<>>
      /\ \A j \in Links : up'[j] = up[j] \/ up'[j] = <<>>
      /\ sopen' \in [Links -> BOOLEAN]
      /\ \A j \in Links : sopen'[j] => sopen[j]
      /\ \/ hand' = hand
         \/ f.msg = "location" /\ hand' = [hand EXCEPT ![k] = <<f>>]
      /\ faults' \in 0..MaxFaults
      /\ token' \in 0..MaxConns /\ owner' \in 0..MaxConns
  BY HandlerEffect
<1>2. \/ down' = down
      \/ /\ k = conn /\ Connected
         /\ \E r \in Replies : /\ r.re = f.msg /\ r.seq = f.seq
                               /\ down' = [down EXCEPT ![k] = <<r>>]
  BY HandlerEffect
<1>3. /\ UNCHANGED <<proc, main, copy, dpc, quit, pos, file, starts, conn, seq,
                     srv, pubs, stream, lost>>
  BY <1>1 DEF deviceVars, streamVars
<1>4. WireType'
  <2>1. down' \in [Links -> Slot(Replies)] BY <1>0, <1>2, SlotOf DEF WireType
  <2>2. hand' \in [Links -> Slot(Frames)] BY <1>0, <1>1, SlotOf, SMTT(60) DEF WireType
  <2> QED BY <1>0, <1>1, <1>3, <2>1, <2>2 DEF WireType
<1>5. P901Type' BY <1>0, <1>1, <1>3 DEF TypeOK, P901Type
<1>7. Lifetimes' BY <1>0, <1>1, <1>3 DEF Lifetimes
<1>8. StopAndWait'
  <2>1. dpc \in Waiting \cup {"idle", "trunc", "write"} => conn \in Links
    BY <1>0, Bounds DEF Lifetimes, TypeOK, P901Type
  <2>2. CASE down' = down
    BY <1>0, <1>1, <1>3, <2>1, <2>2 DEF StopAndWait
  <2>3. ASSUME k = conn, Connected, NEW r \in Replies, r.re = f.msg, r.seq = f.seq,
               down' = [down EXCEPT ![k] = <<r>>]
        PROVE  StopAndWait'
    <3>1. dpc \in Waiting
      BY <1>0, <1>1, <2>3 DEF StopAndWait, Connected
    <3>2. f.msg = Expected[dpc] /\ f.seq = seq
      BY <1>0, <1>1, <2>3, <3>1 DEF StopAndWait
    <3>3. down'[conn] = <<r>> /\ Head(down'[conn]) = r
          /\ \A j \in Links : j # conn => down'[j] = down[j]
      BY <1>0, <2>3, SlotOf DEF WireType
    <3> QED
      BY <1>0, <1>1, <1>3, <2>3, <3>1, <3>2, <3>3 DEF StopAndWait, Waiting
  <2> QED BY <1>2, <2>2, <2>3
<1>6. TypeOK' BY <1>0, <1>1, <1>3, <1>4, <1>5, <1>8, TypeFromWire DEF TypeOK
<1> QED BY <1>4, <1>6, <1>7, <1>8 DEF Wire

\* A step that leaves the links, the sockets and the server's queues alone
\* keeps the exchange in order, if the device goroutine moves between
\* places where it is not on a connection, or where nothing is on its way.
LEMMA ControlWire ==
  ASSUME Wire, P901Type', UNCHANGED <<linkVars, sopen, hand, token, owner>>,
         srv' \in {"up", "down"}, WireType', starts' >= 1,
         proc' = "down" <=> dpc' = "gone",
         \/ dpc' = dpc /\ pos' = pos
         \/ dpc' \in {"write", "idle"} /\ dpc \in {"trunc", "write"}
         \/ /\ dpc \notin Waiting
            /\ dpc' \notin Waiting \cup {"idle", "trunc", "write"}
  PROVE  Wire'
<1>0. TypeOK /\ WireType /\ Lifetimes /\ StopAndWait BY DEF Wire
<1>1. UNCHANGED <<conn, seq, up, down, sopen, hand, token, owner>> BY DEF linkVars
<1>3. Lifetimes' BY <1>0, <1>1 DEF Lifetimes, Waiting
<1>4. StopAndWait' BY <1>0, <1>1 DEF StopAndWait, Waiting
<1>2. TypeOK' BY <1>0, <1>1, <1>4, TypeFromWire DEF TypeOK
<1> QED BY <1>2, <1>3, <1>4 DEF Wire

\* The device sends on a connection with nothing on its way.
LEMMA SendsWire == ASSUME Wire, Sends PROVE Wire'
<1>0. TypeOK /\ WireType /\ Lifetimes /\ StopAndWait BY DEF Wire
<1>1. /\ UNCHANGED <<proc, main, copy, quit, pos, file, starts, conn, faults,
                     srv, sopen, hand, token, owner, pubs, stream, lost>>
      /\ conn \in Links /\ proc = "up"
      /\ dpc' \in {"authSent", "locSent", "beatSent"}
      /\ seq' \in Seqs /\ up[conn] = <<>>
      /\ down' = [down EXCEPT ![conn] = <<>>]
  BY SendsEffect DEF serverVars, streamVars
<1>2. \/ up' = up
      \/ \E f \in Frames :
           /\ f.msg = Expected[dpc'] /\ f.seq = seq' /\ f.pos = pos
           /\ sopen[conn] /\ up' = [up EXCEPT ![conn] = <<f>>]
  BY SendsEffect
<1>3. WireType'
  <2>1. up' \in [Links -> Slot(Frames)] BY <1>0, <1>2, SlotOf DEF WireType
  <2>2. down' \in [Links -> Slot(Replies)] BY <1>0, <1>1, SlotEmpty DEF WireType
  <2> QED BY <1>0, <1>1, <2>1, <2>2 DEF WireType
<1>4. P901Type' BY <1>0, <1>1, Bounds DEF TypeOK, P901Type, Waiting
<1>6. \A k \in Links : k # conn => up'[k] = up[k] BY <1>0, <1>2 DEF WireType
<1>7. Lifetimes'
  <2>1. conn > 0 BY <1>1, Bounds
  <2>2. \A k \in Links : k > conn => k # conn BY <1>1, Bounds
  <2> QED BY <1>0, <1>1, <1>6, <2>1, <2>2 DEF Lifetimes, Waiting
<1>8. StopAndWait'
  <2>1. \A k \in Links : down'[k] = <<>>
    BY <1>0, <1>1 DEF StopAndWait, WireType
  <2>2. up'[conn] # <<>> =>
          /\ Head(up'[conn]).msg = Expected[dpc']
          /\ Head(up'[conn]).seq = seq' /\ Head(up'[conn]).pos = pos
    BY <1>0, <1>1, <1>2, SlotOf DEF WireType
  <2> QED BY <1>1, <2>1, <2>2 DEF StopAndWait, Waiting
<1>5. TypeOK' BY <1>0, <1>1, <1>3, <1>4, <1>8, TypeFromWire DEF TypeOK
<1> QED BY <1>3, <1>5, <1>7, <1>8 DEF Wire

\* The device goes on with nothing on its way.
LEMMA GoesWire == ASSUME Wire, Goes PROVE Wire'
<1>0. TypeOK /\ WireType /\ Lifetimes /\ StopAndWait BY DEF Wire
<1>1. /\ UNCHANGED <<proc, main, copy, quit, file, starts, conn, seq, up, faults,
                     srv, sopen, hand, token, owner, pubs, stream, lost>>
      /\ conn \in Links /\ proc = "up"
      /\ dpc \in Waiting /\ dpc' \in {"trunc", "idle"}
      /\ pos' = pos \/ pos' = (IF pos < MaxPos THEN pos + 1 ELSE pos)
      /\ up[conn] = <<>>
      /\ down' = [down EXCEPT ![conn] = <<>>]
  BY GoesEffect DEF serverVars, streamVars, Waiting
<1>2. WireType' BY <1>0, <1>1, SlotEmpty DEF WireType
<1>3. pos' \in 0..MaxPos BY <1>0, <1>1, Bounds DEF TypeOK, P901Type
<1>4. P901Type' BY <1>0, <1>1, <1>3 DEF TypeOK, P901Type
<1>6. Lifetimes' BY <1>0, <1>1 DEF Lifetimes, Waiting
<1>7. StopAndWait'
  <2>1. \A k \in Links : down'[k] = <<>>
    BY <1>0, <1>1 DEF StopAndWait, WireType
  <2> QED BY <1>1, <2>1 DEF StopAndWait, Waiting
<1>5. TypeOK' BY <1>0, <1>1, <1>2, <1>4, <1>7, TypeFromWire DEF TypeOK
<1> QED BY <1>2, <1>5, <1>6, <1>7 DEF Wire

\* The device leaves a connection and the answers on it.
LEMMA LeavesWire == ASSUME Wire, Leaves PROVE Wire'
<1>0. TypeOK /\ WireType /\ Lifetimes /\ StopAndWait BY DEF Wire
<1>1. /\ UNCHANGED <<proc, main, copy, quit, pos, file, starts, conn, seq,
                     srv, sopen, hand, token, owner, pubs, stream, lost>>
      /\ conn \in Links /\ proc = "up"
      /\ dpc \in Waiting /\ dpc' = "failTrunc" /\ faults' \in 0..MaxFaults
      /\ down' = [down EXCEPT ![conn] = <<>>]
      /\ up' = up \/ up' = [up EXCEPT ![conn] = <<>>]
  BY LeavesEffect DEF serverVars, streamVars
<1>2. WireType' BY <1>0, <1>1, SlotEmpty DEF WireType
<1>4. P901Type' BY <1>0, <1>1 DEF TypeOK, P901Type
<1>6. Lifetimes'
  <2>1. \A k \in Links : up'[k] = up[k] \/ up'[k] = <<>> BY <1>0, <1>1 DEF WireType
  <2> QED BY <1>0, <1>1, <2>1 DEF Lifetimes, Waiting
<1>7. StopAndWait'
  <2>1. \A k \in Links : down'[k] = <<>>
    BY <1>0, <1>1 DEF StopAndWait, WireType
  <2> QED BY <1>1, <2>1 DEF StopAndWait, Waiting
<1>5. TypeOK' BY <1>0, <1>1, <1>2, <1>4, <1>7, TypeFromWire DEF TypeOK
<1> QED BY <1>2, <1>5, <1>6, <1>7 DEF Wire

\* What a successful dial does: the new connection carries the registration.
LEMMA DialEffect ==
  ASSUME Wire, srv = "up", Dial, sopen' = [sopen EXCEPT ![conn'] = TRUE]
  PROVE  /\ conn' \in Links /\ conn' = conn + 1 /\ conn' # conn
         /\ \E f \in Frames :
              /\ f.msg = "registration" /\ f.seq = 1 /\ f.pos = pos
              /\ up' = [up EXCEPT ![conn'] = <<f>>]
         /\ down'[conn'] = <<>>
<1>0. TypeOK /\ WireType /\ Lifetimes /\ StopAndWait BY DEF Wire
<1>1. conn \in 0..MaxConns BY <1>0 DEF TypeOK, P901Type
<1>2. conn' \in Links /\ conn' = conn + 1 /\ conn' # conn /\ conn' > conn
  BY <1>1, Bounds DEF Dial
<1>3. up[conn'] = <<>> BY <1>0, <1>2 DEF Lifetimes
<1>4. down[conn'] = <<>> BY <1>0, <1>2 DEF StopAndWait
<1> DEFINE f == [msg |-> "registration", seq |-> seq', pos |-> pos, token |-> 0]
<1>5. seq' = 1 /\ 1 \in Seqs /\ 0 \in 0..MaxConns BY Bounds DEF Dial
<1>6. f \in Frames BY <1>0, <1>5 DEF Frames, TypeOK, P901Type, Kinds
<1>7. Append(up[conn'], f) = <<f>> BY <1>3, <1>6, SlotOf
<1>8. up' = [up EXCEPT ![conn'] = <<f>>] BY <1>7 DEF Dial, Put
<1>9. down' = down BY DEF Dial
<1> QED BY <1>2, <1>4, <1>5, <1>6, <1>8, <1>9

\* The device dials.
LEMMA DialsWire == ASSUME Wire, DeviceDials PROVE Wire'
<1>0. TypeOK /\ WireType /\ Lifetimes /\ StopAndWait BY DEF Wire
<1>1. CASE srv = "down" /\ DialFails /\ UNCHANGED <<serverVars, streamVars>>
  <2>1. /\ UNCHANGED <<linkVars, sopen, hand, token, owner, srv, pubs,
                       stream, lost, proc, pos, starts>>
        /\ dpc = "dial" /\ dpc' = "failTrunc" /\ proc = "up"
    BY <1>1 DEF DialFails, serverVars, streamVars
  <2>2. P901Type' BY <1>0, <1>1 DEF TypeOK, P901Type, DialFails, linkVars
  <2>3. WireType' BY <1>0, <2>1 DEF WireType, linkVars
  <2>4. dpc \notin Waiting /\ dpc' \notin Waiting \cup {"idle", "trunc", "write"}
    BY <2>1 DEF Waiting
  <2>5. starts' >= 1 /\ srv' \in {"up", "down"}
    BY <1>0, <2>1 DEF Lifetimes, TypeOK
  <2> QED BY <2>1, <2>2, <2>3, <2>4, <2>5, ControlWire
<1>2. CASE /\ srv = "up" /\ Dial
           /\ sopen' = [sopen EXCEPT ![conn'] = TRUE]
           /\ UNCHANGED <<srv, hand, token, owner, streamVars>>
  <2>1. /\ UNCHANGED <<proc, main, copy, quit, pos, file, starts, down, faults, srv,
                       hand, token, owner, pubs, stream, lost>>
        /\ dpc = "dial" /\ dpc' = "regSent" /\ proc = "up" /\ seq' = 1
    BY <1>2 DEF Dial, streamVars
  <2>2. conn' \in Links /\ conn' = conn + 1 /\ conn' # conn /\ down'[conn'] = <<>>
    BY <1>2, DialEffect
  <2>3. PICK f \in Frames : /\ f.msg = "registration" /\ f.seq = 1 /\ f.pos = pos
                            /\ up' = [up EXCEPT ![conn'] = <<f>>]
    BY <1>2, DialEffect
  <2>4. WireType' BY <1>0, <2>1, <2>3, SlotOf DEF WireType
  <2>5. P901Type'
    BY <1>0, <2>1, <2>2, Bounds DEF TypeOK, P901Type, Waiting
  <2>6. sopen' \in [Links -> BOOLEAN] BY <1>0, <1>2 DEF TypeOK
  <2>8. Lifetimes'
    <3>0. conn \in 0..MaxConns BY <1>0 DEF TypeOK, P901Type
    <3>1. conn' > 0 BY <2>2, Bounds
    <3>2. \A k \in Links : k > conn' => k > conn /\ k # conn' BY <2>2, <3>0, Bounds
    <3>3. \A k \in Links : k # conn' => up'[k] = up[k] /\ sopen'[k] = sopen[k]
      BY <1>0, <1>2, <2>3 DEF WireType, TypeOK
    <3> QED BY <1>0, <2>1, <3>1, <3>2, <3>3 DEF Lifetimes, Waiting
  <2>9. StopAndWait'
    <3>1. \A k \in Links : down'[k] = <<>>
      BY <1>0, <2>1 DEF StopAndWait, Waiting
    <3>2. up'[conn'] = <<f>> /\ Head(up'[conn']) = f
      BY <1>0, <2>2, <2>3, SlotOf DEF WireType
    <3>3. Expected["regSent"] = "registration" BY DEF Expected
    <3> QED BY <2>1, <2>2, <2>3, <3>1, <3>2, <3>3 DEF StopAndWait, Waiting
  <2>7. TypeOK' BY <1>0, <2>1, <2>4, <2>5, <2>6, <2>9, TypeFromWire DEF TypeOK
  <2> QED BY <2>4, <2>7, <2>8, <2>9 DEF Wire
<1> QED BY <1>1, <1>2 DEF DeviceDials

\* The publications of hands h, one for each connection with a location.
LEMMA HandsOf ==
  ASSUME NEW h \in [Links -> Slot(Frames)]
  PROVE  \A e : e \in UNION {{Publication(k, h[k][i]) : i \in DOMAIN h[k]} : k \in Links}
               <=> \E k \in Links : h[k] # <<>> /\ e = Publication(k, Head(h[k]))
<1> DEFINE P(k) == {Publication(k, h[k][i]) : i \in DOMAIN h[k]}
<1>1. ASSUME NEW k \in Links
      PROVE  P(k) = IF h[k] = <<>> THEN {} ELSE {Publication(k, Head(h[k]))}
  <2>1. h[k] \in Slot(Frames) OBVIOUS
  <2>2. CASE h[k] = <<>>
    <3>1. DOMAIN h[k] = {} BY <2>1, <2>2, SlotFacts
    <3> QED BY <2>2, <3>1
  <2>3. CASE h[k] # <<>>
    <3>1. DOMAIN h[k] = {1} /\ h[k][1] = Head(h[k]) BY <2>1, <2>3, SlotFacts
    <3> QED BY <2>3, <3>1
  <2> QED BY <2>2, <2>3
<1>2. \A k \in Links : \A e : e \in P(k) <=>
        h[k] # <<>> /\ e = Publication(k, Head(h[k]))
  BY <1>1
<1> HIDE DEF P
<1>3. \A e : e \in UNION {P(k) : k \in Links} <=> \E k \in Links : e \in P(k)
  OBVIOUS
<1>4. UNION {{Publication(k, h[k][i]) : i \in DOMAIN h[k]} : k \in Links}
        = UNION {P(k) : k \in Links}
  BY DEF P
<1> QED BY <1>2, <1>3, <1>4

\* What is in flight, now and after a step.
LEMMA InFlightIs ==
  WireType => \A e : e \in InFlight <=>
    \/ e \in pubs
    \/ \E k \in Links : hand[k] # <<>> /\ e = Publication(k, Head(hand[k]))
BY HandsOf DEF WireType, InFlight, InHand

\* The same after a step.
LEMMA InFlightNext ==
  WireType' => \A e : e \in InFlight' <=>
    \/ e \in pubs'
    \/ \E k \in Links : hand'[k] # <<>> /\ e = Publication(k, Head(hand'[k]))
BY HandsOf DEF WireType, InFlight, InHand

\* A publication is one of a frame in hand.
LEMMA PublicationType ==
  ASSUME NEW k \in Links, NEW f \in Frames
  PROVE  /\ Publication(k, f) \in Publications
         /\ Publication(k, f).pos = f.pos /\ Publication(k, f).conn = k
BY DEF Publication, Publications, Frames

\* What is in flight are publications.
LEMMA InFlightType == WireType => InFlight \subseteq Publications
<1> SUFFICES ASSUME WireType, NEW e \in InFlight, e \notin pubs
             PROVE  e \in Publications
  BY DEF WireType
<1>1. PICK k \in Links : hand[k] # <<>> /\ e = Publication(k, Head(hand[k]))
  BY InFlightIs
<1>2. Head(hand[k]) \in Frames BY <1>1, SlotFacts DEF WireType
<1> QED BY <1>1, <1>2, PublicationType

\* The device goroutine saves the state.
LEMMA StoresWire == ASSUME Wire, DeviceStores PROVE Wire'
<1>0. TypeOK /\ WireType /\ Lifetimes /\ StopAndWait BY DEF Wire
<1>1. /\ UNCHANGED <<proc, main, copy, quit, pos, starts, linkVars, faults>>
      /\ UNCHANGED <<srv, sopen, hand, token, owner, pubs, stream, lost>>
      /\ proc = "up"
  BY DEF DeviceStores, DeviceSaves, serverVars, streamVars
<1>2. \/ dpc = "trunc" /\ dpc' = "write"
      \/ dpc = "write" /\ dpc' = "idle"
      \/ dpc = "failTrunc" /\ dpc' = "failWrite"
      \/ dpc = "failWrite" /\ dpc' = "pause"
  BY DEF DeviceStores, DeviceSaves
<1>3. file' \in [st : {"absent", "empty", "garbled", "whole"}, pos : 0..MaxPos]
  <2>1. pos \in 0..MaxPos /\ 0 \in 0..MaxPos BY <1>0, Bounds DEF TypeOK, P901Type
  <2> QED BY <2>1 DEF DeviceStores, DeviceSaves, Truncate, WriteOut, Whole, NotWhole
<1>4. P901Type' BY <1>0, <1>1, <1>2, <1>3 DEF TypeOK, P901Type, linkVars
<1>5. WireType' BY <1>0, <1>1 DEF WireType, linkVars
<1>6. /\ srv' \in {"up", "down"} /\ starts' >= 1
      /\ proc' = "down" <=> dpc' = "gone"
  BY <1>0, <1>1, <1>2 DEF TypeOK, Lifetimes
<1>7. \/ dpc' \in {"write", "idle"} /\ dpc \in {"trunc", "write"}
      \/ /\ dpc \notin Waiting
         /\ dpc' \notin Waiting \cup {"idle", "trunc", "write"}
  BY <1>2 DEF Waiting
<1> QED BY <1>1, <1>4, <1>5, <1>6, <1>7, ControlWire

\* The pause ends, by the timer or by the signal.
LEMMA PauseWire == ASSUME Wire, DeviceRedials \/ DeviceQuits PROVE Wire'
<1>0. TypeOK /\ WireType /\ Lifetimes /\ StopAndWait BY DEF Wire
<1>1. /\ UNCHANGED <<proc, main, copy, pos, file, starts, linkVars, faults>>
      /\ UNCHANGED <<srv, sopen, hand, token, owner, pubs, stream, lost>>
      /\ proc = "up" /\ quit' \in {0, quit}
      /\ dpc = "pause" /\ dpc' \in {"dial", "returned"}
  BY DEF DeviceRedials, DeviceQuits, PauseTimer, PauseQuit, serverVars, streamVars
<1>2. P901Type' BY <1>0, <1>1 DEF TypeOK, P901Type, linkVars
<1>3. WireType' BY <1>0, <1>1 DEF WireType, linkVars
<1>4. /\ srv' \in {"up", "down"} /\ starts' >= 1
      /\ proc' = "down" <=> dpc' = "gone"
  BY <1>0, <1>1 DEF TypeOK, Lifetimes
<1>5. dpc \notin Waiting /\ dpc' \notin Waiting \cup {"idle", "trunc", "write"}
  BY <1>1 DEF Waiting
<1> QED BY <1>1, <1>2, <1>3, <1>4, <1>5, ControlWire

\* The main goroutine and the signal leave the device goroutine alone.
LEMMA MainWire ==
  ASSUME Wire, MainQuit \/ MainSaves \/ Signal,
         UNCHANGED <<serverVars, streamVars>>
  PROVE  Wire'
<1>0. TypeOK /\ WireType /\ Lifetimes /\ StopAndWait BY DEF Wire
<1>1. /\ UNCHANGED <<proc, dpc, pos, starts, linkVars>>
      /\ UNCHANGED <<srv, sopen, hand, token, owner, pubs, stream, lost>>
  BY DEF MainQuit, MainSaves, Signal, serverVars, streamVars
<1>2. file' \in [st : {"absent", "empty", "garbled", "whole"}, pos : 0..MaxPos]
  <2>1. copy \in 0..MaxPos /\ 0 \in 0..MaxPos BY <1>0, Bounds DEF TypeOK, P901Type
  <2>2. CASE file' = file BY <1>0, <2>2 DEF TypeOK, P901Type
  <2>3. CASE MainSaves
    BY <2>1, <2>3 DEF MainSaves, Truncate, WriteOut, Whole, NotWhole
  <2> QED BY <2>2, <2>3 DEF MainQuit, Signal
<1>3. faults' \in 0..MaxFaults /\ quit' \in 0..1 /\ copy' \in 0..MaxPos
      /\ main' \in {"waiting", "trunc", "write", "return", "gone"}
  <2>1. faults \in 0..MaxFaults /\ quit \in 0..1 /\ copy \in 0..MaxPos
        /\ pos \in 0..MaxPos
        /\ main \in {"waiting", "trunc", "write", "return", "gone"}
    BY <1>0 DEF TypeOK, P901Type
  <2>2. CASE Signal BY <1>0, <2>1, <2>2, FaultType DEF Signal
  <2>3. CASE MainQuit \/ MainSaves BY <2>1, <2>3 DEF MainQuit, MainSaves
  <2> QED BY <2>2, <2>3
<1>4. P901Type' BY <1>0, <1>1, <1>2, <1>3 DEF TypeOK, P901Type, linkVars
<1>5. WireType' BY <1>0, <1>1 DEF WireType, linkVars
<1>6. /\ srv' \in {"up", "down"} /\ starts' >= 1
      /\ proc' = "down" <=> dpc' = "gone"
  BY <1>0, <1>1 DEF TypeOK, Lifetimes
<1> QED BY <1>1, <1>4, <1>5, <1>6, ControlWire

\* The simulator's process ends and takes the answers with it, or starts.
LEMMA ProcessWire ==
  ASSUME Wire, Exit \/ Kill \/ Start, UNCHANGED <<serverVars, streamVars>>
  PROVE  Wire'
<1>0. TypeOK /\ WireType /\ Lifetimes /\ StopAndWait BY DEF Wire
<1>1. UNCHANGED <<srv, sopen, hand, token, owner, pubs, stream, lost>>
  BY DEF serverVars, streamVars
<1>2. CASE Exit \/ Kill
  <2>1. Down BY <1>2 DEF Exit, Kill
  <2>2. faults' \in 0..MaxFaults
    BY <1>0, <1>2, FaultType DEF Exit, Kill, TypeOK, P901Type
  <2>3. WireType' BY <1>0, <1>1, <2>1, SlotEmpty DEF WireType, Down
  <2>4. P901Type' BY <1>0, <2>1, <2>2, Bounds DEF TypeOK, P901Type, Down
  <2>6. Lifetimes' BY <1>0, <1>1, <2>1 DEF Lifetimes, Down, Waiting
  <2>7. StopAndWait' BY <2>1 DEF StopAndWait, Down, Waiting
  <2>5. TypeOK' BY <1>0, <1>1, <2>3, <2>4, <2>7, TypeFromWire DEF TypeOK
  <2> QED BY <2>3, <2>5, <2>6, <2>7 DEF Wire
<1>3. CASE Start
  <2>1. /\ UNCHANGED <<copy, quit, file, linkVars, faults>>
        /\ proc' = "up" /\ main' = "waiting" /\ dpc' = "dial"
        /\ starts' = starts + 1 /\ dpc = "gone"
    BY <1>0, <1>3 DEF Start, Lifetimes
  <2>2. pos' \in 0..MaxPos
    BY <1>0, <1>3, Bounds DEF Start, loadState, TypeOK, P901Type
  <2>3. P901Type' BY <1>0, <2>1, <2>2 DEF TypeOK, P901Type, linkVars
  <2>4. WireType' BY <1>0, <1>1, <2>1 DEF WireType, linkVars
  <2>5. starts' >= 1 /\ srv' \in {"up", "down"}
    BY <1>0, <1>1, <2>1 DEF Lifetimes, TypeOK, P901Type
  <2>6. dpc \notin Waiting /\ dpc' \notin Waiting \cup {"idle", "trunc", "write"}
    BY <2>1 DEF Waiting
  <2> QED BY <1>1, <2>1, <2>3, <2>4, <2>5, <2>6, ControlWire
<1> QED BY <1>2, <1>3

\* The outcomes of an XADD.
Publishes(e) == XAdd(e) \/ XAddRepeats(e) \/ XAddFails(e)

\* A publication starts, succeeds, is repeated or fails; the server process
\* ends or starts.
LEMMA ServerWire ==
  ASSUME Wire,
         \/ \E k \in Links : StartPublish(k)
         \/ \E e \in pubs : Publishes(e)
         \/ Crash \/ Restart
  PROVE  Wire'
<1>0. TypeOK /\ WireType /\ Lifetimes /\ StopAndWait BY DEF Wire
<1>1. ASSUME NEW k \in Links, StartPublish(k) PROVE Wire'
  <2>1. /\ UNCHANGED <<deviceVars, linkVars, faults, srv, sopen, token, owner,
                       stream, lost>>
        /\ pubs' = pubs \cup {Publication(k, Head(hand[k]))}
        /\ hand' = [hand EXCEPT ![k] = <<>>]
        /\ hand[k] # <<>>
    BY <1>1 DEF StartPublish
  <2>2. Head(hand[k]) \in Frames BY <1>0, <2>1, SlotFacts DEF WireType
  <2>3. WireType'
    BY <1>0, <2>1, <2>2, PublicationType, SlotEmpty DEF WireType, linkVars
  <2>4. P901Type' BY <1>0, <2>1 DEF TypeOK, P901Type, deviceVars, linkVars
  <2>6. Lifetimes' BY <1>0, <2>1 DEF Lifetimes, deviceVars, linkVars
  <2>7. StopAndWait' BY <1>0, <2>1 DEF StopAndWait, deviceVars, linkVars
  <2>5. TypeOK' BY <1>0, <2>1, <2>3, <2>4, <2>7, TypeFromWire DEF TypeOK
  <2> QED BY <2>3, <2>5, <2>6, <2>7 DEF Wire
<1>2. ASSUME NEW e \in pubs, Publishes(e) PROVE Wire'
  <2>1. /\ UNCHANGED <<deviceVars, linkVars, serverVars>>
        /\ pubs' \in {pubs, pubs \ {e}}
        /\ stream' \in {stream, Append(stream, e.pos)}
        /\ lost' \in {lost, lost \cup {e.pos}}
    BY <1>2 DEF Publishes, XAdd, XAddRepeats, XAddFails
  <2>2. e.pos \in 0..MaxPos BY <1>0 DEF WireType, Publications
  <2>3. Append(stream, e.pos) \in Seq(0..MaxPos) BY <1>0, <2>2 DEF WireType
  <2>4. WireType' BY <1>0, <2>1, <2>2, <2>3 DEF WireType, linkVars, serverVars
  <2>5. faults' \in 0..MaxFaults
    BY <1>0, <1>2, FaultType DEF Publishes, XAdd, XAddRepeats, XAddFails, TypeOK, P901Type
  <2>6. P901Type' BY <1>0, <2>1, <2>5 DEF TypeOK, P901Type, deviceVars, linkVars
  <2>7. /\ srv' \in {"up", "down"} /\ starts' >= 1
        /\ proc' = "down" <=> dpc' = "gone"
        /\ dpc' = dpc /\ pos' = pos
        /\ UNCHANGED <<linkVars, sopen, hand, token, owner>>
    BY <1>0, <2>1 DEF TypeOK, Lifetimes, deviceVars, serverVars
  <2> QED BY <2>4, <2>6, <2>7, ControlWire
<1>3. CASE Crash
  <2>1. /\ UNCHANGED <<deviceVars, conn, seq, down, token, stream>>
        /\ srv' = "down" /\ sopen' = [k \in Links |-> FALSE]
        /\ hand' = [k \in Links |-> <<>>] /\ up' = [k \in Links |-> <<>>]
        /\ owner' = 0 /\ pubs' \subseteq pubs
        /\ lost' = lost \cup {e.pos : e \in InFlight \ pubs'}
    BY <1>3 DEF Crash
  <2>2. lost' \subseteq 0..MaxPos
    <3>1. \A e \in InFlight : e.pos \in 0..MaxPos
      BY <1>0, InFlightType DEF Publications
    <3> QED BY <1>0, <2>1, <3>1 DEF WireType
  <2>3. WireType' BY <1>0, <2>1, <2>2, SlotEmpty DEF WireType
  <2>4. faults' \in 0..MaxFaults BY <1>0, <1>3, FaultType DEF Crash
  <2>5. P901Type' BY <1>0, <2>1, <2>4 DEF TypeOK, P901Type, deviceVars
  <2>7. Lifetimes' BY <1>0, <2>1 DEF Lifetimes, deviceVars
  <2>8. StopAndWait'
    <3>1. dpc \in Waiting \cup {"idle", "trunc", "write"} => conn \in Links
      BY <1>0, Bounds DEF Lifetimes, TypeOK, P901Type
    <3> QED BY <1>0, <2>1, <3>1 DEF StopAndWait, deviceVars
  <2>6. TypeOK' BY <1>0, <2>1, <2>3, <2>5, Bounds, <2>8, TypeFromWire DEF TypeOK
  <2> QED BY <2>3, <2>6, <2>7, <2>8 DEF Wire
<1>4. CASE Restart
  <2>1. /\ UNCHANGED <<deviceVars, linkVars, faults, sopen, hand, token, owner,
                       streamVars>>
        /\ srv' = "up"
    BY <1>4 DEF Restart
  <2>2. P901Type' BY <1>0, <2>1 DEF TypeOK, P901Type, deviceVars, linkVars
  <2>3. WireType' BY <1>0, <2>1 DEF WireType, linkVars, streamVars
  <2>4. /\ starts' >= 1
        /\ proc' = "down" <=> dpc' = "gone"
        /\ dpc' = dpc /\ pos' = pos
    BY <1>0, <2>1 DEF Lifetimes, deviceVars
  <2> QED BY <2>1, <2>2, <2>3, <2>4, ControlWire
<1> QED BY <1>1, <1>2, <1>3, <1>4

\* The steps by what they do to the exchange.
LEMMA Steps ==
  ASSUME Next
  PROVE  \/ \E k \in Links : Handler(k)
         \/ Sends \/ Goes \/ Leaves
         \/ DeviceDials \/ DeviceStores
         \/ DeviceRedials \/ DeviceQuits
         \/ /\ MainQuit \/ MainSaves \/ Signal
            /\ UNCHANGED <<serverVars, streamVars>>
         \/ /\ Exit \/ Kill \/ Start
            /\ UNCHANGED <<serverVars, streamVars>>
         \/ \E k \in Links : StartPublish(k)
         \/ \E e \in pubs : Publishes(e)
         \/ Crash \/ Restart
<1>1. ASSUME NEW k \in Links, Handle(k) PROVE Handler(k) \/ StartPublish(k)
  BY <1>1 DEF Handle, Handler
<1>2. ASSUME Faults
      PROVE  \/ \E k \in Links : Handler(k)
             \/ Leaves
             \/ (Signal \/ Kill) /\ UNCHANGED <<serverVars, streamVars>>
             \/ \E e \in pubs : Publishes(e)
             \/ Crash
  BY <1>2 DEF Faults, Handler, Leaves, Publishes
<1>3. DeviceReports \/ DeviceBeats => Sends BY DEF Sends
<1>4. DeviceTimesOut => Leaves BY DEF Leaves
<1>5. Main => /\ MainQuit \/ MainSaves \/ Exit
              /\ UNCHANGED <<serverVars, streamVars>>
  BY DEF Main
<1> QED BY <1>1, <1>2, <1>3, <1>4, <1>5, ReceiveCases DEF Next, Publishes

\* The exchange stays in order.
LEMMA WireStep == Wire /\ [Next]_vars => Wire'
<1> SUFFICES ASSUME Wire, [Next]_vars PROVE Wire' OBVIOUS
<1>1. CASE Next
  BY <1>1, Steps, HandlerWire, SendsWire, GoesWire, LeavesWire, DialsWire,
     StoresWire, PauseWire, MainWire, ProcessWire, ServerWire
<1>2. CASE UNCHANGED vars
  <2>1. UNCHANGED <<deviceVars, linkVars, faults, serverVars, streamVars>>
    BY <1>2 DEF vars
  <2> QED
    BY <2>1 DEF Wire, TypeOK, OneUnderWay, P901Type, WireType, Lifetimes, StopAndWait,
      deviceVars, linkVars, serverVars, streamVars
<1> QED BY <1>1, <1>2

\* Nothing is on its way at first.
LEMMA WireInit == Init => Wire
<1> SUFFICES ASSUME Init PROVE Wire OBVIOUS
<1>1. \A k \in Links : up[k] = <<>> /\ down[k] = <<>> /\ hand[k] = <<>> /\ ~sopen[k]
  BY DEF Init, P901Init
<1>2. WireType BY SlotEmpty DEF Init, P901Init, WireType
<1>3. P901Type BY Bounds DEF Init, P901Init, P901Type, NotWhole
<1>4. OneUnderWay
  <2>1. Len(<<>>) = 0 /\ 0 + 0 <= 1 /\ 0 <= 1 OBVIOUS
  <2> QED BY <1>1, <2>1 DEF OneUnderWay
<1>5. sopen \in [Links -> BOOLEAN] BY DEF Init
<1>6. TypeOK BY <1>3, <1>4, <1>5, Bounds DEF Init, TypeOK
<1>7. Lifetimes BY <1>1 DEF Init, P901Init, Lifetimes, Waiting
<1>8. StopAndWait BY <1>1 DEF Init, P901Init, StopAndWait, Waiting
<1> QED BY <1>2, <1>6, <1>7, <1>8 DEF Wire

\* The inductive invariant of the exchange holds for ever.
THEOREM WireCorrect == Spec => []Wire
BY WireInit, WireStep, PTL DEF Spec

\* Type correctness of the simulator, the server and the links between them,
\* at most one frame or reply on each connection included.
THEOREM DeliveryTypeCorrect == Spec => []TypeOK
<1>1. Wire => TypeOK BY DEF Wire
<1> QED BY <1>1, WireCorrect, PTL

\* readACK compares no sequence numbers, and yet an answer the device reads
\* is the answer to the frame it waits for, whatever is lost or late.
THEOREM AnswerOwn == Spec => []AnswerIsOwn
<1>1. Wire => AnswerIsOwn
  <2> SUFFICES ASSUME Wire, Connected, NEW i \in DOMAIN down[conn]
               PROVE  /\ dpc \in Waiting
                      /\ down[conn][i].re = Expected[dpc]
                      /\ down[conn][i].seq = seq
    BY DEF AnswerIsOwn
  <2>1. conn \in Links
    BY Bounds DEF Wire, Connected, Lifetimes, TypeOK, P901Type
  <2>2. down[conn] \in Slot(Replies) BY <2>1 DEF Wire, WireType
  <2>3. down[conn] # <<>> /\ down[conn][i] = Head(down[conn])
    BY <2>2, SlotFacts
  <2> QED BY <2>1, <2>3 DEF Wire, StopAndWait
<1> QED BY <1>1, WireCorrect, PTL

-----------------------------------------------------------------------------
(* No location is skipped.                                                 *)

\* A handler puts at most the position of its own frame in flight.
LEMMA HandlerFlight ==
  ASSUME Wire, NEW k \in Links, Handler(k)
  PROVE  /\ InFlight \subseteq InFlight'
         /\ \A e \in InFlight' :
              \/ e \in InFlight
              \/ Head(up[k]).msg = "location" /\ e.pos = Head(up[k]).pos
<1> DEFINE f == Head(up[k])
<1>1. Wire' BY HandlerWire
<1>2. WireType /\ WireType' BY <1>1 DEF Wire
<1>3. /\ hand[k] = <<>> /\ f \in Frames /\ pubs' = pubs
      /\ \/ hand' = hand
         \/ f.msg = "location" /\ hand' = [hand EXCEPT ![k] = <<f>>]
  BY HandlerEffect DEF streamVars
<1>4. CASE hand' = hand
  <2>1. InFlight' = InFlight BY <1>3, <1>4 DEF InFlight, InHand
  <2> QED BY <2>1
<1>5. CASE f.msg = "location" /\ hand' = [hand EXCEPT ![k] = <<f>>]
  <2>1. /\ hand'[k] = <<f>> /\ hand'[k] # <<>> /\ Head(hand'[k]) = f
        /\ \A j \in Links : j # k => hand'[j] = hand[j]
    BY <1>2, <1>3, <1>5, SlotOf DEF WireType
  <2>2. ASSUME NEW e \in InFlight PROVE e \in InFlight'
    <3>1. \/ e \in pubs
          \/ \E j \in Links : hand[j] # <<>> /\ e = Publication(j, Head(hand[j]))
      BY <1>2, InFlightIs
    <3>2. \/ e \in pubs'
          \/ \E j \in Links : hand'[j] # <<>> /\ e = Publication(j, Head(hand'[j]))
      BY <1>3, <2>1, <3>1
    <3> QED BY <1>2, <3>2, InFlightNext
  <2>3. ASSUME NEW e \in InFlight', e \notin InFlight PROVE e.pos = f.pos
    <3>1. \/ e \in pubs'
          \/ \E j \in Links : hand'[j] # <<>> /\ e = Publication(j, Head(hand'[j]))
      BY <1>2, InFlightNext
    <3>2. ~ \/ e \in pubs
            \/ \E j \in Links : hand[j] # <<>> /\ e = Publication(j, Head(hand[j]))
      BY <1>2, <2>3, InFlightIs
    <3>3. e = Publication(k, f) BY <1>3, <2>1, <3>1, <3>2
    <3> QED BY <1>3, <3>3, PublicationType
  <2> QED BY <1>5, <2>2, <2>3
<1> QED BY <1>3, <1>4, <1>5

\* An acknowledged location is in flight.
LEMMA AckedFlight ==
  ASSUME Wire, NEW k \in Links, AckLocation(k)
  PROVE  \E e \in InFlight' : e.pos = Head(up[k]).pos
<1> DEFINE f == Head(up[k])
<1>0. Handler(k) BY DEF Handler
<1>1. WireType /\ WireType' BY <1>0, HandlerWire DEF Wire
<1>2. f \in Frames BY <1>0, HandlerEffect
<1>3. hand'[k] = <<f>> BY <1>1 DEF AckLocation, WireType
<1>4. hand'[k] # <<>> /\ Head(hand'[k]) = f BY <1>2, <1>3, SlotOf
<1>5. Publication(k, f) \in InFlight' BY <1>1, <1>4, InFlightNext
<1> QED BY <1>2, <1>5, PublicationType

\* The location that is handed to the forwarder stays in flight.
LEMMA StartFlight ==
  ASSUME Wire, NEW k \in Links, StartPublish(k)
  PROVE  InFlight' = InFlight
<1>1. WireType /\ WireType' BY ServerWire DEF Wire
<1>2. /\ hand[k] # <<>> /\ hand' = [hand EXCEPT ![k] = <<>>]
      /\ pubs' = pubs \cup {Publication(k, Head(hand[k]))}
  BY DEF StartPublish
<1>3. hand'[k] = <<>> /\ \A j \in Links : j # k => hand'[j] = hand[j]
  BY <1>1, <1>2 DEF WireType
<1>4. \A e : e \in InFlight <=>
        \/ e \in pubs
        \/ \E j \in Links : hand[j] # <<>> /\ e = Publication(j, Head(hand[j]))
  BY <1>1, InFlightIs
<1>5. \A e : e \in InFlight' <=>
        \/ e \in pubs'
        \/ \E j \in Links : hand'[j] # <<>> /\ e = Publication(j, Head(hand'[j]))
  BY <1>1, InFlightNext
<1>6. \A e : e \in InFlight' <=> e \in InFlight BY <1>2, <1>3, <1>4, <1>5
<1> QED BY <1>6

\* The outcome of an XADD concerns no other publication.
LEMMA XAddFlight ==
  ASSUME Wire, NEW e \in pubs, Publishes(e)
  PROVE  /\ InFlight' \subseteq InFlight /\ InFlight \subseteq InFlight' \cup {e}
         /\ e \in InFlight
BY DEF Publishes, XAdd, XAddRepeats, XAddFails, InFlight, InHand, serverVars

\* The other steps leave alone what is in flight, in the stream or lost.
LEMMA SameFlight ==
  ASSUME UNCHANGED <<hand, pubs>>
  PROVE  InFlight' = InFlight
BY DEF InFlight, InHand

\* What reached the forwarder, spelled out, now and after a step.
LEMMA ReachedIs ==
  \A q : q \in Reached <=> \/ \E i \in DOMAIN stream : stream[i] = q
                           \/ \E e \in InFlight : e.pos = q
                           \/ q \in lost
BY DEF Reached

\* The same after a step.
LEMMA ReachedNext ==
  \A q : q \in Reached' <=> \/ \E i \in DOMAIN stream' : stream'[i] = q
                            \/ \E e \in InFlight' : e.pos = q
                            \/ q \in lost'
BY DEF Reached

\* What a sequence holds.
LEMMA SeqElements ==
  ASSUME NEW S, NEW s \in Seq(S)
  PROVE  \A i \in DOMAIN s : s[i] \in S
OBVIOUS

\* Appending keeps what a sequence holds.
LEMMA AppendFacts ==
  ASSUME NEW S, NEW s \in Seq(S), NEW x \in S
  PROVE  /\ DOMAIN s = 1..Len(s) /\ Len(s) \in Nat
         /\ DOMAIN Append(s, x) = 1..(Len(s) + 1)
         /\ \A i \in DOMAIN s : i \in DOMAIN Append(s, x) /\ Append(s, x)[i] = s[i]
         /\ Append(s, x)[Len(s) + 1] = x
OBVIOUS

\* A position that reached the forwarder does not get forgotten.
LEMMA ReachedGrows == ASSUME Wire, [Next]_vars PROVE Reached \subseteq Reached'
<1>0. WireType BY DEF Wire
<1>a. ASSUME InFlight \subseteq InFlight', UNCHANGED <<stream, lost>>
      PROVE  Reached \subseteq Reached'
  BY <1>a, ReachedIs, ReachedNext
<1>b. ASSUME UNCHANGED <<hand, pubs, stream, lost>> PROVE Reached \subseteq Reached'
  BY <1>b, <1>a, SameFlight
<1>1. ASSUME NEW k \in Links, Handler(k) PROVE Reached \subseteq Reached'
  BY <1>1, <1>a, HandlerFlight, HandlerEffect DEF streamVars
<1>2. ASSUME NEW k \in Links, StartPublish(k) PROVE Reached \subseteq Reached'
  BY <1>2, <1>a, StartFlight DEF StartPublish
<1>3. ASSUME NEW e \in pubs, XAdd(e) \/ XAddRepeats(e) PROVE Reached \subseteq Reached'
  <2>1. stream' = Append(stream, e.pos) /\ lost' = lost BY <1>3 DEF XAdd, XAddRepeats
  <2>2. e.pos \in 0..MaxPos /\ stream \in Seq(0..MaxPos)
    BY <1>0 DEF WireType, Publications
  <2>3. Len(stream) + 1 \in DOMAIN stream' BY <2>1, <2>2, AppendFacts
  <2>4. stream'[Len(stream) + 1] = e.pos BY <2>1, <2>2, AppendFacts
  <2>5. \A i \in DOMAIN stream : i \in DOMAIN stream' /\ stream'[i] = stream[i]
    BY <2>1, <2>2, AppendFacts
  <2>6. InFlight \subseteq InFlight' \cup {e} BY <1>3, XAddFlight DEF Publishes
  <2> QED BY <2>1, <2>3, <2>4, <2>5, <2>6, ReachedIs, ReachedNext
<1>4. ASSUME NEW e \in pubs, XAddFails(e) PROVE Reached \subseteq Reached'
  <2>1. stream' = stream /\ lost' = lost \cup {e.pos} BY <1>4 DEF XAddFails
  <2>2. InFlight \subseteq InFlight' \cup {e} BY <1>4, XAddFlight DEF Publishes
  <2> QED BY <2>1, <2>2, ReachedIs, ReachedNext
<1>5. CASE Crash
  <2>1. stream' = stream /\ lost' = lost \cup {e.pos : e \in InFlight \ pubs'}
    BY <1>5 DEF Crash
  <2>2. pubs' \subseteq InFlight' BY DEF InFlight
  <2> QED BY <2>1, <2>2, ReachedIs, ReachedNext
<1>6. CASE UNCHANGED vars
  <2>1. UNCHANGED <<serverVars, streamVars>> BY <1>6 DEF vars
  <2> QED BY <2>1, <1>b DEF serverVars, streamVars
<1>7. CASE Sends BY <1>7, <1>b, SendsEffect DEF serverVars, streamVars
<1>8. CASE Goes BY <1>8, <1>b, GoesEffect DEF serverVars, streamVars
<1>9. CASE Leaves BY <1>9, <1>b, LeavesEffect DEF serverVars, streamVars
<1>10. CASE DeviceDials BY <1>10, <1>b DEF DeviceDials, serverVars, streamVars
<1>11. CASE DeviceStores \/ DeviceRedials \/ DeviceQuits \/ Restart
  BY <1>11, <1>b DEF DeviceStores, DeviceRedials, DeviceQuits, Restart,
     serverVars, streamVars
<1>12. CASE UNCHANGED <<serverVars, streamVars>>
  BY <1>12, <1>b DEF serverVars, streamVars
<1> QED
  BY <1>1, <1>2, <1>3, <1>4, <1>5, <1>6, <1>7, <1>8, <1>9, <1>10, <1>11,
     <1>12, Steps DEF Publishes

\* Every position before n reached the forwarder.
Behind(n) == \A q \in 0..MaxPos : q < n => q \in Reached

\* The inductive invariant: everything behind the device, behind the copy
\* main is saving and behind the file, and the location whose
\* acknowledgement is on its way.
Forwarded ==
  /\ Behind(pos) /\ Behind(copy)
  /\ file.st = "whole" => Behind(file.pos)
  /\ dpc = "locSent" /\ down[conn] # <<>> => pos \in Reached

\* Positions stay behind the device.
LEMMA BehindStays ==
  ASSUME Wire, [Next]_vars, NEW n, Behind(n)
  PROVE  \A q \in 0..MaxPos : q < n => q \in Reached'
BY ReachedGrows DEF Behind

\* Saving writes the device's position or main's copy of it, or leaves
\* no readable file.
LEMMA SaveFile ==
  ASSUME Wire, [Next]_vars, Forwarded, NEW n, Behind(n), Truncate \/ WriteOut(n)
  PROVE  file'.st = "whole" => \A q \in 0..MaxPos : q < file'.pos => q \in Reached'
<1>1. file'.st = "whole" => file'.pos = n
  BY DEF Truncate, WriteOut, Whole, NotWhole
<1> QED BY <1>1, BehindStays

\* Every step keeps it.
LEMMA ForwardedStep == Wire /\ Forwarded /\ [Next]_vars => Forwarded'
<1> SUFFICES ASSUME Wire, Forwarded, [Next]_vars PROVE Forwarded' OBVIOUS
<1>0. TypeOK /\ WireType /\ Lifetimes /\ StopAndWait BY DEF Wire
<1>1. Reached \subseteq Reached' BY ReachedGrows
<1>2. ASSUME pos' \in {pos, 0}, copy' \in {copy, pos, 0} PROVE Behind(pos)' /\ Behind(copy)'
  BY <1>1, <1>2 DEF Forwarded, Behind
<1>3. ASSUME file' = file PROVE file'.st = "whole" => Behind(file.pos)'
  BY <1>1, <1>3 DEF Forwarded, Behind
<1>4. ASSUME dpc' = dpc, conn' = conn, pos' = pos, down' = down
      PROVE  (dpc = "locSent" /\ down[conn] # <<>> => pos \in Reached)'
  BY <1>1, <1>4 DEF Forwarded
<1>5. ASSUME UNCHANGED <<deviceVars, conn, down>> PROVE Forwarded'
  <2>1. UNCHANGED <<proc, main, copy, dpc, quit, pos, file, starts, conn, down>>
    BY <1>5 DEF deviceVars
  <2> QED BY <1>2, <1>3, <1>4, <2>1 DEF Forwarded
<1>6. ASSUME NEW k \in Links, Handler(k) PROVE Forwarded'
  <2> DEFINE f == Head(up[k])
  <2>1. /\ UNCHANGED <<proc, main, copy, dpc, quit, pos, file, starts, conn, seq>>
        /\ up[k] # <<>> /\ down[k] = <<>>
        /\ \/ down' = down
           \/ /\ k = conn /\ Connected
              /\ \E r \in Replies : /\ r.re = f.msg /\ r.seq = f.seq
                                    /\ down' = [down EXCEPT ![k] = <<r>>]
    BY <1>6, HandlerEffect DEF deviceVars
  <2>2. CASE down' = down BY <1>5, <2>1, <2>2 DEF deviceVars
  <2>3. CASE down' # down /\ dpc # "locSent"
    BY <1>2, <1>3, <2>1, <2>3 DEF Forwarded
  <2>4. CASE down' # down /\ dpc = "locSent"
    <3>1. k = conn BY <2>1, <2>4
    <3>2. f.msg = "location" /\ f.pos = pos
      BY <1>0, <2>1, <2>4, <3>1 DEF StopAndWait, Waiting, Expected
    <3>3. AckLocation(k)
      BY <1>6, <2>4, <3>2 DEF Handler, HandleRegistration, RejectRegistration,
         HandleAuthentication, HandleHeartbeat, AckLocationFails, AtFrame
    <3>4. \E e \in InFlight' : e.pos = pos BY <3>2, <3>3, AckedFlight
    <3>5. pos' \in Reached' BY <2>1, <3>4, ReachedNext
    <3> QED BY <1>2, <1>3, <2>1, <3>5 DEF Forwarded
  <2> QED BY <2>2, <2>3, <2>4
<1>7. CASE Sends
  <2>1. /\ UNCHANGED <<copy, pos, file, conn>> /\ conn \in Links
        /\ down' = [down EXCEPT ![conn] = <<>>]
    BY <1>7, SendsEffect
  <2>2. down'[conn'] = <<>> BY <1>0, <2>1 DEF WireType
  <2> QED BY <1>2, <1>3, <2>1, <2>2 DEF Forwarded
<1>8. CASE Leaves
  <2>1. UNCHANGED <<copy, pos, file>> /\ dpc' = "failTrunc" BY <1>8, LeavesEffect
  <2> QED BY <1>2, <1>3, <2>1 DEF Forwarded
<1>9. CASE Goes
  <2>1. /\ UNCHANGED <<copy, file>> /\ down[conn] # <<>>
        /\ \/ /\ dpc = "locSent" /\ dpc' = "trunc"
              /\ pos' = IF pos < MaxPos THEN pos + 1 ELSE pos
           \/ dpc = "beatSent" /\ dpc' = "idle" /\ pos' = pos
    BY <1>9, GoesEffect
  <2>2. Behind(pos)'
    <3>1. CASE pos' = pos BY <1>1, <3>1 DEF Forwarded, Behind
    <3>2. CASE dpc = "locSent" /\ pos' = pos + 1
      <4>1. pos \in Reached /\ pos \in Nat
        BY <1>0, <2>1, <3>2, Bounds DEF Forwarded, TypeOK, P901Type
      <4>2. \A q \in 0..MaxPos : q < pos + 1 => q < pos \/ q = pos
        BY <4>1, Bounds
      <4> QED BY <1>1, <3>2, <4>1, <4>2 DEF Forwarded, Behind
    <3> QED BY <2>1, <3>1, <3>2
  <2>3. Behind(copy)' BY <1>1, <2>1 DEF Forwarded, Behind
  <2> QED BY <1>3, <2>1, <2>2, <2>3 DEF Forwarded
<1>10. CASE DeviceDials
  <2>1. UNCHANGED <<copy, pos, file>> /\ dpc' \in {"regSent", "failTrunc"}
    BY <1>10 DEF DeviceDials, Dial, DialFails
  <2> QED BY <1>2, <1>3, <2>1 DEF Forwarded
<1>11. CASE DeviceStores
  <2>1. /\ UNCHANGED <<copy, pos>> /\ (Truncate \/ WriteOut(pos))
        /\ dpc' \in {"write", "idle", "failWrite", "pause"}
    BY <1>11 DEF DeviceStores, DeviceSaves
  <2>2. Behind(pos) BY DEF Forwarded
  <2>3. (file.st = "whole" => Behind(file.pos))'
    BY <2>1, <2>2, SaveFile DEF Behind
  <2> QED BY <1>2, <2>1, <2>3 DEF Forwarded
<1>12. CASE DeviceRedials \/ DeviceQuits
  <2>1. UNCHANGED <<copy, pos, file>> /\ dpc' \in {"dial", "returned"}
    BY <1>12 DEF DeviceRedials, DeviceQuits, PauseTimer, PauseQuit
  <2> QED BY <1>2, <1>3, <2>1 DEF Forwarded
<1>13. CASE MainQuit \/ Signal
  <2>1. UNCHANGED <<dpc, conn, down, pos, file>> /\ copy' \in {copy, pos}
    BY <1>13 DEF MainQuit, Signal, linkVars
  <2> QED BY <1>2, <1>3, <1>4, <2>1 DEF Forwarded
<1>14. CASE MainSaves
  <2>1. UNCHANGED <<dpc, conn, down, pos, copy>> /\ (Truncate \/ WriteOut(copy))
    BY <1>14 DEF MainSaves, linkVars
  <2>2. Behind(copy) BY DEF Forwarded
  <2>3. (file.st = "whole" => Behind(file.pos))'
    BY <2>1, <2>2, SaveFile DEF Behind
  <2> QED BY <1>2, <1>4, <2>1, <2>3 DEF Forwarded
<1>15. CASE Exit \/ Kill
  <2>1. pos' = 0 /\ copy' = 0 /\ file' = file /\ dpc' = "gone"
    BY <1>15 DEF Exit, Kill, Down
  <2> QED BY <1>2, <1>3, <2>1 DEF Forwarded
<1>16. CASE Start
  <2>1. /\ UNCHANGED <<copy, file>> /\ dpc' = "dial"
        /\ pos' = IF file.st = "whole" THEN file.pos ELSE 0
    BY <1>16 DEF Start, loadState
  <2>2. Behind(pos)' BY <1>1, <2>1 DEF Forwarded, Behind
  <2>3. Behind(copy)' BY <1>1, <2>1 DEF Forwarded, Behind
  <2> QED BY <1>3, <2>1, <2>2, <2>3 DEF Forwarded
<1>17. ASSUME \/ \E k \in Links : StartPublish(k)
              \/ \E e \in pubs : Publishes(e)
              \/ Crash \/ Restart
       PROVE  Forwarded'
  <2>1. UNCHANGED <<deviceVars, conn, down>>
    BY <1>17 DEF StartPublish, Publishes, XAdd, XAddRepeats, XAddFails, Crash, Restart, linkVars
  <2> QED BY <1>5, <2>1
<1>18. CASE UNCHANGED vars
  <2>1. UNCHANGED <<deviceVars, linkVars>> BY <1>18 DEF vars
  <2> QED BY <1>5, <2>1 DEF linkVars
<1> QED
  BY <1>6, <1>7, <1>8, <1>9, <1>10, <1>11, <1>12, <1>13, <1>14, <1>15, <1>16,
     <1>17, <1>18, Steps

\* The journey has not begun.
LEMMA ForwardedInit == Init => Forwarded
<1> SUFFICES ASSUME Init PROVE Forwarded OBVIOUS
<1>1. pos = 0 /\ copy = 0 /\ file.st = "absent" /\ dpc = "dial"
  BY DEF Init, P901Init, NotWhole
<1>2. Behind(0) BY Bounds DEF Behind
<1> QED BY <1>1, <1>2 DEF Forwarded

\* A position the simulator has moved on from, or would move on from after a
\* restart from its state file, reached the forwarder, for a journey of any
\* length, any number of reconnections and any faults.
THEOREM NothingSkippedCorrect == Spec => []NothingSkipped
<1>1. Forwarded => NothingSkipped
  <2>1. 0..(MaxPos - 1) \subseteq 0..MaxPos BY Bounds
  <2> QED BY <2>1 DEF Forwarded, Behind, NothingSkipped
<1>2. Init => Wire /\ Forwarded BY WireInit, ForwardedInit
<1>3. Wire /\ Forwarded /\ [Next]_vars => Wire' /\ Forwarded'
  BY WireStep, ForwardedStep
<1> QED BY <1>1, <1>2, <1>3, PTL DEF Spec
=============================================================================
