---------------------------- MODULE DeviceStore -----------------------------
(***************************************************************************)
(* server/internal/store/device.go: the MySQL devices table as the server  *)
(* uses it.  Lookup and insertion are two statements without a             *)
(* transaction.  The schema is not in this repository: whether             *)
(* broadcast_id has a unique index is the constant UniqueIndex.            *)
(***************************************************************************)
EXTENDS Registry, Integers

CONSTANTS
  DBEnabled,     \* FALSE: the *DeviceStore is nil and approves everyone
  UniqueIndex,   \* does the schema forbid two rows with one broadcast_id?
  AdminStatuses, \* statuses the dashboard may give a device
  NoTime         \* SQL NULL

ASSUME StoreAssumption ==
  /\ DBEnabled \in BOOLEAN
  /\ UniqueIndex \in BOOLEAN
  /\ AdminStatuses \subseteq {"pending", "active", "blocked"}
  /\ NoTime \notin Nat

VARIABLES
  rows,       \* the table: broadcast_id -> its rows, oldest first
  clock       \* seconds of the wall clock

storeVars == <<rows, clock>>

Row == [status : {"pending", "active", "blocked"},
        beatAt : Nat \cup {NoTime},      \* last_heartbeat_at
        interval : Nat \cup {NoTime}]    \* heartbeat_interval_s

StoreType ==
  /\ rows \in [PhoneStrings -> Seq(Row)]
  /\ clock \in Nat

StoreInit ==
  /\ rows = [p \in PhoneStrings |-> <<>>]
  /\ clock = 0

\* CheckOrCreate, the SELECT ... LIMIT 1: with several rows MySQL may
\* return any of them.
Lookups(p, db) ==
  IF ~DBEnabled THEN {"approved"}
  ELSE IF db = "err" THEN {"error"}
  ELSE IF rows[p] = <<>> THEN {"absent"}
  ELSE {IF rows[p][i].status = "blocked" THEN "blocked" ELSE "approved"
          : i \in DOMAIN rows[p]}

NewRow == [status |-> "pending", beatAt |-> NoTime, interval |-> NoTime]

\* CheckOrCreate, the INSERT that follows an empty SELECT.
InsertSucceeds(p, db) == db = "ok" /\ (UniqueIndex => rows[p] = <<>>)
Insert(p) == rows' = [rows EXCEPT ![p] = Append(@, NewRow)]

\* Mutant: TIMESTAMPDIFF with its arguments swapped.
BeatBackwards(row) ==
  [row EXCEPT !.interval = IF row.beatAt = NoTime THEN @
                           ELSE row.beatAt - clock,
              !.beatAt = clock]

\* RecordHeartbeat: UPDATE of every row of the phone; the interval is the
\* gap to the previous beat and stays as it was for the first one.
Beat(row) ==
  [row EXCEPT !.interval = IF row.beatAt = NoTime THEN @
                           ELSE clock - row.beatAt,
              !.beatAt = clock]
RecordHeartbeat(p, db) ==
  rows' = IF DBEnabled /\ db = "ok"
          THEN [rows EXCEPT ![p] = [i \in DOMAIN rows[p] |-> Beat(rows[p][i])]]
          ELSE rows

\* The dashboard changes a device's status (Laravel, outside this
\* repository).
SetStatus(p, i, s) ==
  /\ i \in DOMAIN rows[p]
  /\ rows[p][i].status # s
  /\ rows' = [rows EXCEPT ![p][i].status = s]
  /\ UNCHANGED clock

\* The wall clock, up to a bound.
Tick(max) ==
  /\ clock < max
  /\ clock' = clock + 1
  /\ UNCHANGED rows
=============================================================================
