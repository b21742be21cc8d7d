------------------------------ MODULE MCServer ------------------------------
(***************************************************************************)
(* Small instances of the server for TLC: which process accepts a          *)
(* connection, and which phone numbers its peer uses.                      *)
(***************************************************************************)
EXTENDS ServerProperties, TLC

CONSTANTS c1, c2, p1, p2, r1

OneReplica == [c \in Conns |-> r1]

OnePhone == [c \in Conns |-> {p1}]
AnyPhone == [c \in Conns |-> Phones]

Symmetry == Permutations(Conns)

\* For the safety runs: what can still be observed of a session.  Past
\* Unregister nothing reads the socket, the state word, the timers or the
\* buffer of a session any more; AuthToken is read only while it is stored;
\* replies are read by no guard.
SessionView(c) ==
  IF pc[c] \in {"closing", "done", "killed"}
  THEN <<pc[c], phone[c], joined[c]>>
  ELSE <<pc[c], phone[c], joined[c], open[c], state[c], buf[c], timer[c],
         closers[c], IF pc[c] = "regToken" THEN authToken[c] ELSE NoToken>>

View == <<[c \in Conns |-> SessionView(c)], local, token, rows, clock, ctx,
          restarts>>
=============================================================================
