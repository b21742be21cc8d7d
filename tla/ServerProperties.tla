-------------------------- MODULE ServerProperties --------------------------
(***************************************************************************)
(* What the connection side of the server promises.  All of it holds but   *)
(* the last property, a sentence of the repository's comments that the     *)
(* code does not keep.                                                     *)
(***************************************************************************)
EXTENDS TcpServer

\* Every terminal puts one phone number, its own, in all its headers.
OnePhonePerConn == \A c \in Conns : \E p \in Phones : PhonesOf[c] = {p}

Live(c) == pc[c] \in Serving /\ open[c]
Gone(c) == pc[c] \in {"done", "killed"}

-----------------------------------------------------------------------------
(* Safety.                                                                 *)

\* Registry.local never keeps a session whose goroutine has run Unregister
\* or died: every entry belongs to a connection that is still served by
\* this very process.
NoStaleOwner ==
  \A r \in Replicas, p \in PhoneStrings :
    local[r][p] # NoConn =>
      pc[local[r][p]] \in Serving /\ ReplicaOf[local[r][p]] = r

\* A session that completed Register and still has its socket is the one
\* Registry.local finds under its phone.  So no process ever serves two
\* connections of one terminal, and no late Unregister loses the one that
\* registered last.  That need not be the newer connection: a session closed
\* by another's Register may still hold an authentication frame, which makes
\* it register once more and evict the newer one.
LiveIsOwner ==
  \A c \in Conns : joined[c] /\ Live(c) => Owner(c) = c

\* While Redis answers and the process is not shutting down, only phones
\* the devices table knows are in Registry.local: nobody gets past
\* ValidateAuthToken without a CheckOrCreate of the same phone before.
KnownOwner ==
  DBEnabled /\ RedisOutcomes = {"ok"} =>
    \A r \in Replicas, p \in PhoneStrings :
      ctx[r] = "serving" /\ local[r][p] # NoConn => rows[p] # <<>>

-----------------------------------------------------------------------------
(* The inductive invariants behind them.                                   *)

\* A recorded heartbeat is not in the future, so its age is a natural number.
BeatsPast ==
  \A p \in PhoneStrings : \A i \in DOMAIN rows[p] :
    rows[p][i].beatAt # NoTime => rows[p][i].beatAt <= clock

\* A goroutine in the middle of a handler still holds the frame.
InHandler == {"regInsert", "regToken", "authSet", "authJoin"}
FrameInHand == \A c \in Conns : pc[c] \in InHandler => buf[c] # <<>>

TypeInv == TypeOK /\ BeatsPast /\ FrameInHand

\* All that reaches a session carries the phone of its peer.
OwnPhone ==
  \A c \in Conns :
    /\ phone[c] \in PhonesOf[c] \cup {NoPhone}
    /\ \A i \in DOMAIN buf[c] : buf[c][i].phone \in PhonesOf[c]

\* The phone is known before the session can enter the map.
PhoneFirst ==
  \A c \in Conns :
    pc[c] \in {"regToken", "authSet", "authJoin"} \/ joined[c] => phone[c] # NoPhone

\* An entry of the map agrees with the session it points to.
EntriesAgree ==
  \A r \in Replicas, p \in PhoneStrings :
    local[r][p] # NoConn =>
      /\ ReplicaOf[local[r][p]] = r
      /\ phone[local[r][p]] = p
      /\ p # NoPhone
      /\ pc[local[r][p]] \in Serving

FreshNotJoined == \A c \in Conns : pc[c] = "unused" => ~joined[c]

OwnerInv ==
  OwnPhone /\ PhoneFirst /\ EntriesAgree /\ FreshNotJoined /\ LiveIsOwner

\* A process that has exited has no goroutines and an empty map.
ExitedIsEmpty ==
  \A r \in Replicas : ctx[r] = "exited" =>
    /\ \A p \in PhoneStrings : local[r][p] = NoConn
    /\ \A c \in Conns : ReplicaOf[c] = r => pc[c] \in {"unused", "killed"}

\* Where a phone can only be after a CheckOrCreate of it: in Redis, in a
\* session about to store its token, and past ValidateAuthToken.
KnownPhones ==
  /\ \A p \in PhoneStrings : token[p] # NoToken => rows[p] # <<>>
  /\ \A c \in Conns :
       \/ pc[c] = "regToken"
       \/ pc[c] \in {"authSet", "authJoin"} /\ Ctx(c) = "serving"
       => rows[phone[c]] # <<>>

KnownInv ==
  DBEnabled /\ RedisOutcomes = {"ok"} =>
    ExitedIsEmpty /\ KnownPhones /\ KnownOwner

-----------------------------------------------------------------------------
(* Refinement.                                                             *)

\* What an observer of the directory sees of a connection.
Status(c) ==
  CASE pc[c] = "unused"                -> "fresh"
    [] pc[c] \in Serving /\ open[c]    -> "live"
    [] pc[c] \in Serving /\ ~open[c]   -> "cut"
    [] OTHER                           -> "ended"

Directory == INSTANCE SessionDirectory WITH
  Phones <- PhoneStrings, dir <- local, status <- [c \in Conns |-> Status(c)]

\* The server with all its handlers, timers, rejections and restarts keeps
\* what SessionDirectory promises: every step is a step of the directory or
\* leaves it alone.  Register displaces and closes in one step, deferred
\* clean-up removes every trace of a session, nothing else touches the map.
ImplementsDirectory == Directory!Spec

-----------------------------------------------------------------------------
(* Liveness, under FairSpec.                                               *)

\* Whoever closes a session (timer, takeover, rejection), its own goroutine
\* notices, unregisters it and ends.
ClosedIsReaped ==
  \A c \in Conns : (pc[c] \in Serving /\ ~open[c]) ~> Gone(c)

\* An accepted connection completes the handshake or ends: authTimer cannot
\* be held off by a peer that keeps sending.
HandshakeOrClosed ==
  \A c \in Conns : (pc[c] \in Serving) ~> (joined[c] \/ Gone(c))

\* A rejected registration or authentication ends the connection, also when
\* the rejection could not be written or more frames arrive meanwhile.
RejectedIsClosed ==
  \A c \in Conns : (closers[c] > 0 /\ pc[c] \in Serving) ~> Gone(c)

-----------------------------------------------------------------------------
(* A sentence the code does not keep.                                      *)

\* handler.go: "Device disconnects / timeout -> session cleaned up": once a
\* goroutine has ended, Registry.local of a serving process has no entry
\* for its session, whatever phones the session went through.
EndedIsForgotten ==
  \A c \in Conns, p \in PhoneStrings :
    Ctx(c) = "serving" /\ pc[c] = "done" => local[ReplicaOf[c]][p] # c
=============================================================================
