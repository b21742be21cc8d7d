-------------------------------- MODULE P901 --------------------------------
(***************************************************************************)
(* device/p901/main.go: the simulator process.  Its device goroutine       *)
(* connects, registers, authenticates and reports stop-and-wait; its main  *)
(* goroutine waits for a signal, saves the state and returns.  Both save   *)
(* the same struct to the same file, and both receive from the same        *)
(* channel of signals.                                                     *)
(*                                                                         *)
(* The persisted State is abstracted to how many steps of the journey it   *)
(* is away from the configured starting point.  A copy that main takes     *)
(* while advanceState runs (a data race) mixes two neighbouring steps and  *)
(* counts as one of them.                                                  *)
(***************************************************************************)
EXTENDS Naturals, Sequences

CONSTANTS
  MaxPos,      \* length of the journey
  MaxConns,    \* connections dialled, at most
  SeqMod,      \* sequence numbers wrap here (2^16 in the code)
  FaultKinds,  \* "link", "reject", "redis", "crash", "signal", "kill"
  MaxFaults    \* how many faults happen, all kinds together

ASSUME P901Assumption ==
  /\ MaxPos \in Nat /\ MaxFaults \in Nat
  /\ MaxConns \in Nat \ {0}
  /\ SeqMod \in Nat \ {0, 1}
  /\ FaultKinds \subseteq {"link", "reject", "redis", "crash", "signal", "kill"}

Links == 1..MaxConns

VARIABLES
  proc,     \* the process: "up", "down"
  main,     \* the main goroutine
  copy,     \* the State main passes to saveState
  dpc,      \* the device goroutine
  quit,     \* signals in the channel of capacity 1
  pos,      \* state: steps of the journey
  file,     \* the state file
  conn,     \* number of the latest connection
  seq,      \* sequence number of the latest frame on it
  up,       \* of each connection: frames the server has not read
  down,     \* of each connection: replies the device has not read
  starts,   \* history: starts of the process
  faults    \* faults so far

deviceVars == <<proc, main, copy, dpc, quit, pos, file, starts>>
linkVars == <<conn, seq, up, down>>

\* The device goroutine waits for an answer.
Waiting == {"regSent", "authSent", "locSent", "beatSent"}
Connected == proc = "up" /\ dpc \in Waiting \cup {"idle", "trunc", "write"}

Whole(n) == [st |-> "whole", pos |-> n]
NotWhole(st) == [st |-> st, pos |-> 0]

Fault(kind) ==
  /\ kind \in FaultKinds
  /\ faults < MaxFaults
  /\ faults' = faults + 1

-----------------------------------------------------------------------------
(* The state file.                                                         *)

\* loadState: no file, or one that is no JSON, gives the default state.
loadState == IF file.st = "whole" THEN file.pos ELSE 0

\* saveState is os.WriteFile: the file is truncated ...
Truncate == file' = NotWhole("empty")

\* ... and then written from its start.  Over what the other goroutine
\* wrote meanwhile, the tail of a longer text remains.
WriteOut(n) ==
  \/ file' = Whole(n)
  \/ file.st \in {"whole", "garbled"} /\ file' = NotWhole("garbled")

-----------------------------------------------------------------------------
(* runDevice.                                                              *)

Put(k, msg, tok) ==
  up' = [up EXCEPT ![k] = Append(@, [msg |-> msg, seq |-> seq', pos |-> pos,
                                     token |-> tok])]

NextSeq == seq' = (seq + 1) % SeqMod

\* WriteFrame with the next sequence number; a closed peer discards it.
SendOn(open, msg, tok) ==
  /\ NextSeq
  /\ IF open THEN Put(conn, msg, tok) ELSE UNCHANGED up

\* net.Dial and the registration.
Dial ==
  /\ proc = "up" /\ dpc = "dial"
  /\ conn < MaxConns
  /\ conn' = conn + 1
  /\ seq' = 1
  /\ Put(conn', "registration", 0)
  /\ dpc' = "regSent"
  /\ UNCHANGED <<proc, main, copy, quit, pos, file, starts, down, faults>>

DialFails ==
  /\ proc = "up" /\ dpc = "dial"
  /\ dpc' = "failTrunc"
  /\ UNCHANGED <<proc, main, copy, quit, pos, file, starts, linkVars, faults>>

\* runDevice returns an error: the deferred conn.Close; saveState is next.
\* What the server has not read yet may still reach it.
Abandon ==
  /\ dpc' = "failTrunc"
  /\ down' = [down EXCEPT ![conn] = <<>>]
  /\ \E delivered \in BOOLEAN :
       up' = IF delivered THEN up ELSE [up EXCEPT ![conn] = <<>>]
  /\ UNCHANGED <<proc, main, copy, quit, pos, file, starts, conn, seq>>

\* What the device expects at each point.  No sequence number is compared,
\* and runDevice takes any platform response for that to the authentication.
Expected == [regSent |-> "registration", authSent |-> "authentication",
             locSent |-> "location", beatSent |-> "heartbeat"]
Accepted(r) ==
  /\ r.result = 0
  /\ IF dpc = "authSent" THEN r.re # "registration" ELSE r.re = Expected[dpc]

\* The answer was right: authenticate, send the first location at once,
\* advanceState and save, or go on.
Proceed(open, r) ==
  /\ down' = [down EXCEPT ![conn] = Tail(@)]
  /\ CASE dpc = "regSent" ->
            /\ SendOn(open, "authentication", r.token)
            /\ dpc' = "authSent" /\ UNCHANGED pos
       [] dpc = "authSent" ->
            /\ SendOn(open, "location", 0)
            /\ dpc' = "locSent" /\ UNCHANGED pos
       [] dpc = "locSent" ->
            /\ pos' = IF pos < MaxPos THEN pos + 1 ELSE pos
            /\ dpc' = "trunc" /\ UNCHANGED <<seq, up>>
       [] dpc = "beatSent" -> dpc' = "idle" /\ UNCHANGED <<pos, seq, up>>
  /\ UNCHANGED <<proc, main, copy, quit, file, starts, conn>>

\* ReadFrame returns a reply, which readACK and runDevice judge.
Receive(open) ==
  /\ proc = "up" /\ dpc \in Waiting
  /\ down[conn] # <<>>
  /\ LET r == Head(down[conn]) IN
       \/ Accepted(r) /\ Proceed(open, r)
       \/ ~Accepted(r) /\ Abandon
  /\ UNCHANGED faults

\* Mutant: after a missing answer the device stays on the connection.
GiveUpStays ==
  /\ dpc \in {"locSent", "beatSent"}
  /\ dpc' = "idle"
  /\ UNCHANGED <<proc, main, copy, quit, pos, file, starts, linkVars>>

\* The read deadline passes, or the connection breaks.
GiveUp == dpc \in Waiting /\ Abandon

\* No answer is on its way: the deadline will pass.
NoAnswer ==
  /\ proc = "up" /\ dpc \in Waiting
  /\ down[conn] = <<>> /\ up[conn] = <<>>

\* Mutant: no read deadline.
NoDeadline == FALSE

\* The deadline passes because the answer is lost.
TimeOut == NoAnswer /\ GiveUp /\ UNCHANGED faults

\* The deadline passes although an answer may still come, or the
\* connection breaks.
BreakLink == proc = "up" /\ Fault("link") /\ GiveUp

\* locTick and hbTick.
LocTick(open) ==
  /\ proc = "up" /\ dpc = "idle"
  /\ pos < MaxPos
  /\ SendOn(open, "location", 0)
  /\ dpc' = "locSent"
  /\ UNCHANGED <<proc, main, copy, quit, pos, file, starts, conn, down, faults>>

HbTick(open) ==
  /\ proc = "up" /\ dpc = "idle"
  /\ SendOn(open, "heartbeat", 0)
  /\ dpc' = "beatSent"
  /\ UNCHANGED <<proc, main, copy, quit, pos, file, starts, conn, down, faults>>

\* saveState in the device goroutine, after an acknowledged location and
\* after an error.
DeviceSaves ==
  /\ proc = "up"
  /\ \/ dpc \in {"trunc", "failTrunc"} /\ Truncate
     \/ dpc \in {"write", "failWrite"} /\ WriteOut(pos)
  /\ dpc' = CASE dpc = "trunc" -> "write" [] dpc = "write" -> "idle"
              [] dpc = "failTrunc" -> "failWrite" [] dpc = "failWrite" -> "pause"
  /\ UNCHANGED <<proc, main, copy, quit, pos, starts, linkVars, faults>>

-----------------------------------------------------------------------------
(* The reconnect loop, the main goroutine and the process.                 *)

\* time.After(5 * time.Second).
PauseTimer ==
  /\ proc = "up" /\ dpc = "pause"
  /\ dpc' = "dial"
  /\ UNCHANGED <<proc, main, copy, quit, pos, file, starts, linkVars, faults>>

\* Mutant: the signal ends the pause and not the loop.
PauseQuitContinues ==
  /\ proc = "up" /\ dpc = "pause" /\ quit = 1
  /\ quit' = 0
  /\ dpc' = "dial"
  /\ UNCHANGED <<proc, main, copy, pos, file, starts, linkVars, faults>>

\* The device goroutine receives the signal: main never will.
PauseQuit ==
  /\ proc = "up" /\ dpc = "pause" /\ quit = 1
  /\ quit' = 0
  /\ dpc' = "returned"
  /\ UNCHANGED <<proc, main, copy, pos, file, starts, linkVars, faults>>

\* <-quit in main: saveState gets a copy.
MainQuit ==
  /\ proc = "up" /\ main = "waiting" /\ quit = 1
  /\ quit' = 0
  /\ main' = "trunc"
  /\ copy' = pos
  /\ UNCHANGED <<proc, dpc, pos, file, starts, linkVars, faults>>

MainSaves ==
  /\ proc = "up"
  /\ \/ main = "trunc" /\ Truncate /\ main' = "write"
     \/ main = "write" /\ WriteOut(copy) /\ main' = "return"
  /\ UNCHANGED <<proc, copy, dpc, quit, pos, starts, linkVars, faults>>

\* The process ends, and its memory and its socket with it.
Down ==
  /\ proc' = "down" /\ main' = "gone" /\ dpc' = "gone"
  /\ copy' = 0 /\ quit' = 0 /\ pos' = 0
  /\ down' = [k \in Links |-> <<>>]
  /\ UNCHANGED <<file, starts, conn, seq, up>>

\* main returns; the device goroutine is cut off where it is.
Exit == proc = "up" /\ main = "return" /\ Down /\ UNCHANGED faults

\* SIGTERM or SIGINT; signal.Notify drops one that finds the channel full.
Signal ==
  /\ proc = "up" /\ quit = 0
  /\ Fault("signal")
  /\ quit' = 1
  /\ UNCHANGED <<proc, main, copy, dpc, pos, file, starts, linkVars>>

\* SIGKILL, or a crash.
Kill == proc = "up" /\ Fault("kill") /\ Down

\* main up to the device goroutine, in a fresh process.
Start ==
  /\ proc = "down"
  /\ proc' = "up" /\ main' = "waiting" /\ dpc' = "dial"
  /\ pos' = loadState
  /\ starts' = starts + 1
  /\ UNCHANGED <<copy, quit, file, linkVars, faults>>

P901Type ==
  /\ proc \in {"up", "down"}
  /\ main \in {"waiting", "trunc", "write", "return", "gone"}
  /\ dpc \in Waiting \cup {"dial", "idle", "trunc", "write", "failTrunc",
                           "failWrite", "pause", "returned", "gone"}
  /\ quit \in 0..1 /\ copy \in 0..MaxPos /\ pos \in 0..MaxPos
  /\ file \in [st : {"absent", "empty", "garbled", "whole"}, pos : 0..MaxPos]
  /\ conn \in 0..MaxConns /\ seq \in 0..(SeqMod - 1)
  /\ starts \in Nat /\ faults \in 0..MaxFaults

P901Init ==
  /\ proc = "up" /\ main = "waiting" /\ dpc = "dial"
  /\ quit = 0 /\ copy = 0 /\ pos = 0
  /\ file = NotWhole("absent")
  /\ conn = 0 /\ seq = 0
  /\ up = [k \in Links |-> <<>>]
  /\ down = [k \in Links |-> <<>>]
  /\ starts = 1 /\ faults = 0
=============================================================================
