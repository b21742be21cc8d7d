------------------------------ MODULE Session -------------------------------
(***************************************************************************)
(* server/internal/session/session.go: the Session object of one accepted  *)
(* TCP connection.  Sessions are shared: the connection's goroutine, the   *)
(* timers started with time.AfterFunc and Registry.Register running in     *)
(* another connection's goroutine all call Close on it.                    *)
(*                                                                         *)
(* Not modelled: outSeq and writeMu (only the connection's own goroutine   *)
(* sends), ConnectedAt, LastHeartbeat and LastLocation (written, read only *)
(* by IsStale, which nothing calls).                                       *)
(***************************************************************************)
EXTENDS Protocol

CONSTANTS Conns       \* the accepted connections, one Session each

VARIABLES
  phone,      \* Session.Phone, "" until a registration or authentication
  authToken,  \* Session.AuthToken, the token generated for this session
  state,      \* Session.state, an atomic
  open,       \* the socket: FALSE after net.Conn.Close
  reply       \* the last frame written to the peer

sessionVars == <<phone, authToken, state, open, reply>>

SessionType ==
  /\ phone \in [Conns -> PhoneStrings]
  /\ authToken \in [Conns -> Tokens \cup {NoToken}]
  /\ state \in [Conns -> States]
  /\ open \in [Conns -> BOOLEAN]
  /\ reply \in [Conns -> Replies]

SessionInit ==
  /\ phone = [c \in Conns |-> NoPhone]
  /\ authToken = [c \in Conns |-> NoToken]
  /\ state = [c \in Conns |-> StateConnected]
  /\ open = [c \in Conns |-> FALSE]
  /\ reply = [c \in Conns |-> NoReply]

\* NewSession: wraps a socket that accept has just returned.
NewSession(c) ==
  /\ open' = [open EXCEPT ![c] = TRUE]
  /\ UNCHANGED <<phone, authToken, state, reply>>

SetState(c, st) == state' = [state EXCEPT ![c] = st]

\* Mutant: Close marks the session but forgets the socket.
CloseKeepsSocket(c) ==
  /\ state' = [state EXCEPT ![c] = StateClosing]
  /\ UNCHANGED open

\* Close: idempotent on the socket; the state word is stored every time.
Close(c) ==
  /\ state' = [state EXCEPT ![c] = StateClosing]
  /\ open' = [open EXCEPT ![c] = FALSE]

\* Send: a write on a closed socket fails; on an open one it fails when the
\* peer is gone or the write deadline passes.
Send(c, r, ok) ==
  /\ ok => open[c]
  /\ reply' = IF ok THEN [reply EXCEPT ![c] = r] ELSE reply

\* ACK with the error ignored by the caller.
ACK(c, f, result) ==
  \E ok \in BOOLEAN : Send(c, PlatformACK(f, result), ok)
=============================================================================
