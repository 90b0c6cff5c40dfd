--------------------------- MODULE AnchorStoreRedis ---------------------------
(***************************************************************************)
(* The redis backend of domains/conversation/anchor_store.py with its      *)
(* fallback.  A save writes the same payload under two keys, the session   *)
(* key and then the turn key, in two calls.  When either call raises, the  *)
(* whole save is done again against sqlite, as a new record with a turn id *)
(* of its own.  A lookup that raises asks sqlite as well; a lookup that    *)
(* redis answers, be it with nothing, does not.                            *)
(*                                                                         *)
(* A call that raises may have been executed by the server all the same    *)
(* (the answer timed out).  Redis expires a key no earlier than the        *)
(* payload's own expires_at, which every read tests, so key expiry is left *)
(* out.  Of the sqlite table only the rows matter here; its transactions   *)
(* are those of AnchorStoreSqlite.                                         *)
(***************************************************************************)
EXTENDS Naturals, FiniteSets

CONSTANTS
  Thread,           \* worker threads
  Session,          \* session keys
  Turn,             \* turn ids
  NoRecord,         \* no key, no row
  TTL,              \* anchor_store_ttl_seconds
  MaxTime,          \* bound on the clock
  MaxFaults         \* bound on outages and restarts

ASSUME TTLAssumption == TTL \in Nat \ {0}
ASSUME BoundAssumption == MaxTime \in Nat /\ MaxFaults \in Nat

Instant == 0 .. MaxTime + TTL

Record == [session : Session, turn : Turn, expires : Instant]

ASSUME NoRecordAssumption == NoRecord \notin Record

VARIABLES
  now,              \* time.time()
  up,               \* redis can be reached
  faults,           \* how many outages and restarts there have been
  sessionKey,       \* redis: <namespace>:session:<session key>
  turnKey,          \* redis: <namespace>:turn:<turn id>
  rows,             \* sqlite: the table anchor_sets
  issued,           \* the turn ids uuid4 has produced
  pc,               \* what each thread does next
  held,             \* the record each thread is saving
  emitted,          \* history: the records whose turn id a save returned
  inSqlite,         \* history: the turns of those that sqlite holds
  before            \* history: the turns already returned when a save began

keys == <<sessionKey, turnKey>>
history == <<emitted, inSqlite, before>>
vars == <<now, up, faults, keys, rows, issued, pc, held, history>>

Idle == "idle"
SetSession == "set session key"
SetTurn == "set turn key"
Fallback == "fall back"
Commit == "commit row"

TypeOK ==
  /\ now \in 0 .. MaxTime
  /\ up \in BOOLEAN
  /\ faults \in 0 .. MaxFaults
  /\ sessionKey \in [Session -> Record \cup {NoRecord}]
  /\ turnKey \in [Turn -> Record \cup {NoRecord}]
  /\ rows \in [Session -> Record \cup {NoRecord}]
  /\ issued \in SUBSET Turn
  /\ pc \in [Thread -> {Idle, SetSession, SetTurn, Fallback, Commit}]
  /\ held \in [Thread -> Record \cup {NoRecord}]
  /\ emitted \in SUBSET Record
  /\ inSqlite \in SUBSET Turn
  /\ before \in [Turn -> SUBSET Turn]

Init ==
  /\ now = 0 /\ up = TRUE /\ faults = 0
  /\ sessionKey = [s \in Session |-> NoRecord]
  /\ turnKey = [i \in Turn |-> NoRecord]
  /\ rows = [s \in Session |-> NoRecord]
  /\ issued = {}
  /\ pc = [t \in Thread |-> Idle]
  /\ held = [t \in Thread |-> NoRecord]
  /\ emitted = {} /\ inSqlite = {}
  /\ before = [i \in Turn |-> {}]

-----------------------------------------------------------------------------
IsExpired(r) == r.expires <= now
Visible(r) == IF r # NoRecord /\ ~ IsExpired(r) THEN r ELSE NoRecord

(* What a lookup answers at this moment: redis when it can be reached,      *)
(* sqlite when it cannot.                                                   *)
RowOfTurn(i) ==
  IF \E s \in Session : rows[s] # NoRecord /\ rows[s].turn = i
  THEN rows[CHOOSE s \in Session : rows[s] # NoRecord /\ rows[s].turn = i]
  ELSE NoRecord

LatestForSession(s) == Visible(IF up THEN sessionKey[s] ELSE rows[s])
ForParentTurn(i) == Visible(IF up THEN turnKey[i] ELSE RowOfTurn(i))

(* Mutant: the expiry is computed in milliseconds.                          *)
ExpiresInMillis == now + 1000 * TTL
ExpiresAtFromNow == now + TTL

(* Thread t goes on at step where with a new record for session s whose     *)
(* save, in the caller's eyes, began when the turns in known were returned. *)
NewRecord(t, s, known, where) ==
  /\ \E i \in Turn \ issued :
       /\ issued' = issued \cup {i}
       /\ held' = [held EXCEPT ![t] =
                     [session |-> s, turn |-> i, expires |-> ExpiresAtFromNow]]
       /\ before' = [before EXCEPT ![i] = known]
  /\ pc' = [pc EXCEPT ![t] = where]

(* Bound: a save in progress can still need a second turn id, so a new save *)
(* begins only while there are enough for all.  uuid4 never runs out.       *)
EnoughTurns ==
  Cardinality({u \in Thread : pc[u] \in {SetSession, SetTurn, Fallback}}) + 2
    <= Cardinality(Turn \ issued)

BuildRecord(t, s) ==
  /\ pc[t] = Idle
  /\ EnoughTurns
  /\ NewRecord(t, s, {r.turn : r \in emitted}, SetSession)
  /\ UNCHANGED <<now, up, faults, keys, rows, emitted, inSqlite>>

(* The save returns its record, kept in sqlite or not.                      *)
Return(t, sqlite) ==
  /\ emitted' = emitted \cup {held[t]}
  /\ inSqlite' = inSqlite \cup (IF sqlite THEN {held[t].turn} ELSE {})
  /\ pc' = [pc EXCEPT ![t] = Idle]
  /\ held' = [held EXCEPT ![t] = NoRecord]

(* Mutant: the session key is set with nx=True.                             *)
SessionKeyIfAbsent(r) ==
  [sessionKey EXCEPT ![r.session] = IF @ = NoRecord THEN r ELSE @]

SessionKeySet(r) == [sessionKey EXCEPT ![r.session] = r]

(* Mutant: the turn key is not written.                                     *)
TurnKeyForgotten(r) == turnKey

TurnKeySet(r) == [turnKey EXCEPT ![r.turn] = r]

(* client.set(session key): the first of the two calls.                     *)
SetSessionKey(t) ==
  /\ pc[t] = SetSession
  /\ up
  /\ sessionKey' = SessionKeySet(held[t])
  /\ pc' = [pc EXCEPT ![t] = SetTurn]
  /\ UNCHANGED <<now, up, faults, turnKey, rows, issued, held, history>>

(* client.set(turn key): the second; with it the save is done.              *)
SetTurnKey(t) ==
  /\ pc[t] = SetTurn
  /\ up
  /\ turnKey' = TurnKeySet(held[t])
  /\ Return(t, FALSE)
  /\ UNCHANGED <<now, up, faults, sessionKey, rows, issued, before>>

(* Mutant: an exception of redis is swallowed and the record returned.      *)
RaiseIgnored(t) ==
  /\ pc[t] \in {SetSession, SetTurn}
  /\ ~ up
  /\ Return(t, FALSE)
  /\ UNCHANGED <<now, up, faults, keys, rows, issued, before>>

(* Mutant: the call is retried until redis answers.                         *)
RaiseRetried(t) ==
  /\ pc[t] \in {SetSession, SetTurn}
  /\ ~ up
  /\ UNCHANGED vars

(* A call raises because redis cannot be reached (or no client could be     *)
(* made: the ping failed).                                                  *)
RaiseUnreachable(t) ==
  /\ pc[t] \in {SetSession, SetTurn}
  /\ ~ up
  /\ pc' = [pc EXCEPT ![t] = Fallback]
  /\ UNCHANGED <<now, up, faults, keys, rows, issued, held, history>>

(* A call raises although the server has executed it: the outage came       *)
(* between the execution and the answer.                                    *)
RaiseAfterEffect(t) ==
  /\ pc[t] \in {SetSession, SetTurn}
  /\ up
  /\ faults < MaxFaults
  /\ up' = FALSE
  /\ faults' = faults + 1
  /\ IF pc[t] = SetSession
     THEN /\ sessionKey' = SessionKeySet(held[t])
          /\ UNCHANGED turnKey
     ELSE /\ turnKey' = TurnKeySet(held[t])
          /\ UNCHANGED sessionKey
  /\ pc' = [pc EXCEPT ![t] = Fallback]
  /\ UNCHANGED <<now, rows, issued, held, history>>

(* save_response_anchors catches the exception: a new record for sqlite.    *)
RebuildForSqlite(t) ==
  /\ pc[t] = Fallback
  /\ NewRecord(t, held[t].session, before[held[t].turn], Commit)
  /\ UNCHANGED <<now, up, faults, keys, rows, emitted, inSqlite>>

Upsert(r) == [rows EXCEPT ![r.session] = r]

(* The sqlite transaction, with its purge of what has expired.              *)
CommitRow(t) ==
  /\ pc[t] = Commit
  /\ rows' = [s \in Session |-> Visible(Upsert(held[t])[s])]
  /\ Return(t, TRUE)
  /\ UNCHANGED <<now, up, faults, keys, issued, before>>

Tick ==
  /\ now < MaxTime
  /\ now' = now + 1
  /\ UNCHANGED <<up, faults, keys, rows, issued, pc, held, history>>

GoDown ==
  /\ up /\ faults < MaxFaults
  /\ up' = FALSE
  /\ faults' = faults + 1
  /\ UNCHANGED <<now, keys, rows, issued, pc, held, history>>

ComeUp ==
  /\ ~ up
  /\ up' = TRUE
  /\ UNCHANGED <<now, faults, keys, rows, issued, pc, held, history>>

(* The process restarts, perhaps between the two calls of a save.           *)
Restart ==
  /\ faults < MaxFaults
  /\ faults' = faults + 1
  /\ pc' = [t \in Thread |-> Idle]
  /\ held' = [t \in Thread |-> NoRecord]
  /\ UNCHANGED <<now, up, keys, rows, issued, history>>

Save(t) ==
  \/ SetSessionKey(t)
  \/ SetTurnKey(t)
  \/ RaiseUnreachable(t)
  \/ RebuildForSqlite(t)
  \/ CommitRow(t)

Next ==
  \/ Tick \/ GoDown \/ ComeUp \/ Restart
  \/ \E t \in Thread :
       \/ \E s \in Session : BuildRecord(t, s)
       \/ RaiseAfterEffect(t)
       \/ Save(t)

Spec == Init /\ [][Next]_vars

(* A thread in the middle of a save goes on with it: the calls have a       *)
(* timeout (anchor_store_redis_socket_timeout_seconds), so each of them     *)
(* ends, one way or the other.                                              *)
FairSpec == Spec /\ \A t \in Thread : WF_vars(Save(t))

-----------------------------------------------------------------------------
(* Every turn id that was returned names a stored record, in the backend    *)
(* whose save returned it, until it expires: no save returns after a        *)
(* failure without having stored its record elsewhere.  In sqlite only a    *)
(* later save of the session, itself returned, replaces it.                 *)
EmittedTurnsStored ==
  \A r \in emitted : ~ IsExpired(r) =>
    IF r.turn \in inSqlite
    THEN \/ rows[r.session] = r
         \/ \E q \in emitted : /\ q.session = r.session /\ q # r
                               /\ q.turn \in inSqlite
                               /\ q.turn \notin before[r.turn]
    ELSE turnKey[r.turn] = r

(* A turn key is written after its session key: what a parent turn finds    *)
(* had been the latest of that session, and has only been displaced by a    *)
(* record whose own save did not end before it began.                       *)
TurnKeyFollowsSessionKey ==
  \A i \in Turn : turnKey[i] # NoRecord =>
    LET r == turnKey[i]
    IN  /\ r.turn = i
        /\ sessionKey[r.session] # NoRecord
        /\ sessionKey[r.session].turn \notin before[i]

(* What a session lookup finds is never older than a turn of the session    *)
(* that a client already had, as long as redis could be reached all the     *)
(* time.  (An outage makes the two backends take turns in answering.)       *)
LatestNotSuperseded ==
  faults = 0 =>
    \A s \in Session : LatestForSession(s) # NoRecord =>
      \A q \in emitted :
        q.session = s => LatestForSession(s).turn \notin before[q.turn]

(* request_control_honesty.py:56 says that parent-turn hydration is         *)
(* available for a turn id emitted by the conversation surface: with redis  *)
(* reachable, an emitted turn id finds its record until that expires.       *)
EmittedTurnsResolvable ==
  up => \A r \in emitted : ~ IsExpired(r) => ForParentTurn(r.turn) = r

(* Every save that began ends, with redis down for ever if need be.         *)
SavesEnd == \A t \in Thread : pc[t] # Idle ~> pc[t] = Idle

-----------------------------------------------------------------------------
Pending == {held[t] : t \in {u \in Thread : pc[u] = SetTurn}}

Stored == {turnKey[i] : i \in Turn} \cup Pending
LiveRecords == {r \in Stored : Visible(r) # NoRecord}
LatestRecords == [s \in Session |-> Visible(sessionKey[s])]
SavedRecords == emitted \cup Pending

Ledger == INSTANCE AnchorLedger WITH
            live <- LiveRecords,
            latest <- LatestRecords,
            saved <- SavedRecords,
            KeepsSuperseded <- TRUE, Durable <- TRUE

(* Until the first outage or restart the redis backend implements the       *)
(* durable ledger that keeps superseded turns.  A record enters the ledger  *)
(* with the first of its two keys.                                          *)
ImplementsLedger ==
  Ledger!Init /\ [][faults' = 0 => Ledger!Next \/ UNCHANGED Ledger!vars]_vars
=============================================================================
