-------------------------- MODULE SessionDirectory --------------------------
(***************************************************************************)
(* What the rest of the system may rely on when it looks a terminal up:    *)
(* every process keeps a directory from phone to connection in which a     *)
(* phone has one connection, joining displaces and cuts off the previous   *)
(* one in the same step, and a connection that ends leaves nothing behind. *)
(* No messages, timers, tokens, handlers or clean-up phases: they are in   *)
(* TcpServer, which implements this specification when every terminal uses *)
(* one phone (ServerProperties!ImplementsDirectory).                       *)
(***************************************************************************)
CONSTANTS Conns, Phones, Replicas, ReplicaOf, NoConn

VARIABLES
  dir,        \* of each process: phone -> connection
  status      \* "fresh", "live", "cut" (socket closed, not yet noticed), "ended"

vars == <<dir, status>>

Empty == [p \in Phones |-> NoConn]

Init ==
  /\ dir = [r \in Replicas |-> Empty]
  /\ status = [c \in Conns |-> "fresh"]

Connect(c) ==
  /\ status[c] = "fresh"
  /\ status' = [status EXCEPT ![c] = "live"]
  /\ UNCHANGED dir

Cut(c) ==
  /\ status[c] = "live"
  /\ status' = [status EXCEPT ![c] = "cut"]
  /\ UNCHANGED dir

\* c becomes the connection of p.  Whoever was, is cut off.
Join(c, p) ==
  LET old == dir[ReplicaOf[c]][p] IN
  /\ status[c] \in {"live", "cut"}
  /\ dir' = [dir EXCEPT ![ReplicaOf[c]][p] = c]
  /\ status' = [d \in Conns |-> IF d = old /\ d # c THEN "cut" ELSE status[d]]

\* The connection ends, and no directory knows it any more.
Leave(c) ==
  /\ status[c] \in {"live", "cut"}
  /\ status' = [status EXCEPT ![c] = "ended"]
  /\ dir' = [r \in Replicas |->
               [p \in Phones |-> IF dir[r][p] = c THEN NoConn ELSE dir[r][p]]]

\* A process stops: its directory and its connections are gone at once.
Fall(r) ==
  /\ dir' = [dir EXCEPT ![r] = Empty]
  /\ status' = [c \in Conns |->
                  IF ReplicaOf[c] = r /\ status[c] # "fresh" THEN "ended"
                  ELSE status[c]]

Next ==
  \/ \E c \in Conns : Connect(c) \/ Cut(c) \/ Leave(c)
  \/ \E c \in Conns, p \in Phones : Join(c, p)
  \/ \E r \in Replicas : Fall(r)

Spec == Init /\ [][Next]_vars
=============================================================================
