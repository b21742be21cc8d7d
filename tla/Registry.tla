------------------------------ MODULE Registry ------------------------------
(***************************************************************************)
(* server/internal/session/registry.go, the part that is synchronous with  *)
(* the caller: the mutex-protected map from phone to session that each     *)
(* server process keeps, and the auth-token keys in Redis that all         *)
(* processes share.                                                        *)
(***************************************************************************)
EXTENDS Session

CONSTANTS
  Replicas,   \* server processes sharing one Redis
  ReplicaOf,  \* the process that accepted a connection
  NoConn      \* a nil *Session

ASSUME RegistryAssumption ==
  /\ ReplicaOf \in [Conns -> Replicas]
  /\ NoConn \notin Conns

VARIABLES
  local,      \* Registry.local of each process: phone -> session
  token       \* Redis: authTokenPrefix + phone -> token

registryVars == <<local, token>>

RegistryType ==
  /\ local \in [Replicas -> [PhoneStrings -> Conns \cup {NoConn}]]
  /\ token \in [PhoneStrings -> Tokens \cup {NoToken}]

RegistryInit ==
  /\ local = [r \in Replicas |-> [p \in PhoneStrings |-> NoConn]]
  /\ token = [p \in PhoneStrings |-> NoToken]

\* The map entry for the session's own phone in its own process.
Owner(c) == local[ReplicaOf[c]][phone[c]]

\* Mutant: the displaced session is dropped from the map but not closed.
RegisterNoClose(c) ==
  /\ local' = [local EXCEPT ![ReplicaOf[c]][phone[c]] = c]
  /\ UNCHANGED <<state, open>>

\* Register, the critical section: another session of the same phone is
\* closed and replaced.
Register(c) ==
  /\ local' = [local EXCEPT ![ReplicaOf[c]][phone[c]] = c]
  /\ \/ /\ Owner(c) \notin {c, NoConn}
        /\ Close(Owner(c))
     \/ /\ Owner(c) \in {c, NoConn}
        /\ UNCHANGED <<state, open>>

\* Mutant: the owner check of the deletion is inverted.
UnregisterWrongOwner(c) ==
  local' = IF phone[c] # NoPhone /\ Owner(c) # c
           THEN [local EXCEPT ![ReplicaOf[c]][phone[c]] = NoConn]
           ELSE local

\* Mutant: the owner check of the deletion is missing.
UnregisterAnyOwner(c) ==
  local' = IF phone[c] # NoPhone
           THEN [local EXCEPT ![ReplicaOf[c]][phone[c]] = NoConn]
           ELSE local

\* Unregister, the critical section: a session without a phone returns
\* early, and an entry that a newer session took over is left alone.
Unregister(c) ==
  local' = IF phone[c] # NoPhone /\ Owner(c) = c
           THEN [local EXCEPT ![ReplicaOf[c]][phone[c]] = NoConn]
           ELSE local

\* StoreAuthToken: SET with a 24 h expiry.  A failed SET leaves the key.
StoreAuthToken(p, t, redis) ==
  token' = IF redis = "ok" THEN [token EXCEPT ![p] = t] ELSE token

\* Mutant: a missing key counts as a match.
ValidateMissingMatches(p, t) == token[p] \in {NoToken, t}

\* ValidateAuthToken on a reachable Redis: redis.Nil is FALSE.
ValidateAuthToken(p, t) == token[p] # NoToken /\ token[p] = t

\* Redis drops a token key 24 h after its SET.
ExpireToken(p) ==
  /\ token[p] # NoToken
  /\ token' = [token EXCEPT ![p] = NoToken]
  /\ UNCHANGED local
=============================================================================
