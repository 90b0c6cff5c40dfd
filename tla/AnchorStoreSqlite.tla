-------------------------- MODULE AnchorStoreSqlite --------------------------
(***************************************************************************)
(* The sqlite backend of domains/conversation/anchor_store.py: one table,  *)
(* anchor_sets, with the session key as PRIMARY KEY and a UNIQUE turn id,  *)
(* in a file that outlives the process.                                    *)
(*                                                                         *)
(* A save builds its record first and writes it in a later transaction,    *)
(* which also purges what has expired.  A lookup is one SELECT; it changes *)
(* nothing, so it is an operator here (TurnRow, SessionRow) and not a      *)
(* step.  _row_to_record tests the expiry once more, which can only turn   *)
(* the answer into None.                                                   *)
(***************************************************************************)
EXTENDS Naturals

CONSTANTS
  Thread,           \* worker threads
  Session,          \* session keys
  Turn,             \* turn ids
  NoRecord,         \* no row
  TTL,              \* anchor_store_ttl_seconds
  MaxTime           \* bound on the clock

ASSUME TTLAssumption == TTL \in Nat \ {0}
ASSUME MaxTimeAssumption == MaxTime \in Nat

Instant == 0 .. MaxTime + TTL

Record == [session : Session, turn : Turn, expires : Instant]

ASSUME NoRecordAssumption == NoRecord \notin Record

VARIABLES
  now,              \* time.time()
  rows,             \* the table: rows[s] is the row with primary key s
  ready,            \* _SQLITE_READY, a flag of the process
  issued,           \* the turn ids uuid4 has produced
  pc,               \* what each thread does next
  held,             \* the record each thread is saving
  emitted,          \* history: the records whose turn id a save returned
  before            \* history: the turns already returned when a record was built

history == <<emitted, before>>
vars == <<now, rows, ready, issued, pc, held, history>>

Idle == "idle"
Built == "built"    \* saving, about to open the transaction

TypeOK ==
  /\ now \in 0 .. MaxTime
  /\ rows \in [Session -> Record \cup {NoRecord}]
  /\ ready \in BOOLEAN
  /\ issued \in SUBSET Turn
  /\ pc \in [Thread -> {Idle, Built}]
  /\ held \in [Thread -> Record \cup {NoRecord}]
  /\ emitted \in SUBSET Record
  /\ before \in [Turn -> SUBSET Turn]

Init ==
  /\ now = 0
  /\ rows = [s \in Session |-> NoRecord]
  /\ ready = FALSE
  /\ issued = {}
  /\ pc = [t \in Thread |-> Idle]
  /\ held = [t \in Thread |-> NoRecord]
  /\ emitted = {}
  /\ before = [i \in Turn |-> {}]

-----------------------------------------------------------------------------
IsExpired(r) == r.expires <= now

(* Mutant: the purge is one tick early.                                     *)
PurgedEarly(table) ==
  [s \in Session |-> IF table[s] # NoRecord /\ table[s].expires <= now + 1
                     THEN NoRecord ELSE table[s]]

(* DELETE FROM anchor_sets WHERE expires_at <= ?                            *)
Purged(table) ==
  [s \in Session |-> IF table[s] # NoRecord /\ IsExpired(table[s])
                     THEN NoRecord ELSE table[s]]

(* The two SELECTs, by session key and by turn id.                          *)
SessionRow(s) == Purged(rows)[s]
TurnRow(i) ==
  IF \E s \in Session : rows[s] # NoRecord /\ rows[s].turn = i
  THEN SessionRow(CHOOSE s \in Session : rows[s] # NoRecord /\ rows[s].turn = i)
  ELSE NoRecord

(* _ensure_sqlite_schema: the first call of the process creates what is     *)
(* missing and purges, in one transaction under the lock.  Every later call *)
(* returns at once.                                                         *)
EnsureSchema ==
  /\ ~ ready
  /\ ready' = TRUE
  /\ rows' = Purged(rows)
  /\ UNCHANGED <<now, issued, pc, held, history>>

(* Mutant: the expiry is computed in milliseconds.                          *)
ExpiresInMillis == now + 1000 * TTL
ExpiresAtFromNow == now + TTL

BuildRecord(t, s) ==
  /\ pc[t] = Idle
  /\ \E i \in Turn \ issued :
       /\ issued' = issued \cup {i}
       /\ held' = [held EXCEPT ![t] =
                     [session |-> s, turn |-> i, expires |-> ExpiresAtFromNow]]
       /\ before' = [before EXCEPT ![i] = {r.turn : r \in emitted}]
  /\ pc' = [pc EXCEPT ![t] = Built]
  /\ UNCHANGED <<now, rows, ready, emitted>>

(* Mutant: ON CONFLICT DO NOTHING.                                          *)
UpsertKeepingOld(r) == [rows EXCEPT ![r.session] = IF @ = NoRecord THEN r ELSE @]

(* INSERT ... ON CONFLICT(session_key) DO UPDATE: the row of the session,   *)
(* its turn id included, is replaced.                                       *)
Upsert(r) == [rows EXCEPT ![r.session] = r]

(* The transaction of _save_response_anchors_sqlite: upsert, purge, commit. *)
CommitRecord(t) ==
  /\ pc[t] = Built
  /\ ready
  /\ rows' = Purged(Upsert(held[t]))
  /\ emitted' = emitted \cup {held[t]}
  /\ pc' = [pc EXCEPT ![t] = Idle]
  /\ held' = [held EXCEPT ![t] = NoRecord]
  /\ UNCHANGED <<now, ready, issued, before>>

(* The connection times out on a locked database (timeout=5.0): the         *)
(* exception leaves save_response_anchors, the transaction leaves no trace  *)
(* and the client gets no turn id.                                          *)
SaveFails(t) ==
  /\ pc[t] = Built
  /\ pc' = [pc EXCEPT ![t] = Idle]
  /\ held' = [held EXCEPT ![t] = NoRecord]
  /\ UNCHANGED <<now, rows, ready, issued, history>>

Tick ==
  /\ now < MaxTime
  /\ now' = now + 1
  /\ UNCHANGED <<rows, ready, issued, pc, held, history>>

(* The process restarts: threads and the flag are gone, the file is not.    *)
Restart ==
  /\ ready' = FALSE
  /\ pc' = [t \in Thread |-> Idle]
  /\ held' = [t \in Thread |-> NoRecord]
  /\ UNCHANGED <<now, rows, issued, history>>

Next ==
  \/ EnsureSchema
  \/ Tick
  \/ Restart
  \/ \E t \in Thread :
       \/ \E s \in Session : BuildRecord(t, s)
       \/ CommitRecord(t)
       \/ SaveFails(t)

Spec == Init /\ [][Next]_vars

-----------------------------------------------------------------------------
(* A session never goes back: the row of a session is never older than a    *)
(* turn of it that a client already had, across restarts and failed saves.  *)
LatestNotSuperseded ==
  \A s \in Session : rows[s] # NoRecord =>
    \A q \in emitted :
      q.session = s => rows[s].turn \notin before[q.turn]

(* The latest turn that a client has of a session is durable: it finds its  *)
(* record until it expires, unless a save of the session that overlapped or *)
(* followed it replaced the row.                                            *)
LatestTurnResolvable ==
  \A r \in emitted : ~ IsExpired(r) =>
    \/ TurnRow(r.turn) = r
    \/ \E q \in emitted : /\ q.session = r.session /\ q # r
                          /\ q.turn \notin before[r.turn]

(* request_control_honesty.py:56 says that parent-turn hydration is         *)
(* available for a prior turn id emitted by the conversation surface: an    *)
(* emitted turn id finds its record until that expires.  One row per        *)
(* session cannot keep this.                                                *)
EmittedTurnsResolvable ==
  \A r \in emitted : ~ IsExpired(r) => TurnRow(r.turn) = r

-----------------------------------------------------------------------------
LiveRows == {r \in {SessionRow(s) : s \in Session} : r # NoRecord}
LatestRows == [s \in Session |-> SessionRow(s)]

Ledger == INSTANCE AnchorLedger WITH
            live <- LiveRows, latest <- LatestRows, saved <- emitted,
            KeepsSuperseded <- FALSE, Durable <- TRUE

(* The sqlite backend implements the ledger that survives restarts and      *)
(* keeps the latest turn of each session only.                              *)
ImplementsLedger == Ledger!Spec
=============================================================================
