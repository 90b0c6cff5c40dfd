----------------------- MODULE AnchorStoreRedisProofs -----------------------
(***************************************************************************)
(* What the redis backend and its fallback keep through outages, calls     *)
(* that raise although they were executed, and restarts, for any number of *)
(* threads, sessions, turns and faults; and that the backend implements    *)
(* the ledger until the first fault.                                       *)
(*                                                                         *)
(* The inductive invariant says who knows a turn id: a record that is      *)
(* being saved is under its own turn key or nowhere, is no row and has not *)
(* been returned, so that nobody's history names it.                       *)
(***************************************************************************)
EXTENDS AnchorStoreRedis, TLAPS

Saving == {SetSession, SetTurn, Fallback, Commit}

(* A thread that saves has a record under a turn id of its own.             *)
HeldFresh ==
  \A t \in Thread : pc[t] \in Saving =>
    /\ held[t] \in Record
    /\ held[t].turn \in issued
    /\ \A r \in emitted : r.turn # held[t].turn
    /\ \A u \in Thread : u # t /\ pc[u] \in Saving => held[u].turn # held[t].turn
    /\ turnKey[held[t].turn] \in {NoRecord, held[t]}

EmittedIssued ==
  /\ \A r \in emitted : r.turn \in issued
  /\ \A q, r \in emitted : q.turn = r.turn => q = r

TurnKeysIssued ==
  \A i \in Turn : turnKey[i] # NoRecord => i \in issued /\ turnKey[i].turn = i

(* The row of a session is a record of it that a save to sqlite returned.   *)
RowsEmitted ==
  \A s \in Session : rows[s] # NoRecord =>
    rows[s] \in emitted /\ rows[s].session = s /\ rows[s].turn \in inSqlite

SqliteEmitted == inSqlite \subseteq {r.turn : r \in emitted}

BeforeEmitted == \A i \in Turn : before[i] \subseteq {r.turn : r \in emitted}

(* Redis keeps the turn of every save that did not fall back, expired or not.*)
RedisKeeps == \A r \in emitted : r.turn \notin inSqlite => turnKey[r.turn] = r

(* A save that goes on to its turn key has written its session key, or a    *)
(* save that overlaps it has.                                               *)
SessionKeyFirst ==
  \A t \in Thread : pc[t] = SetTurn =>
    /\ sessionKey[held[t].session] # NoRecord
    /\ sessionKey[held[t].session].turn \notin before[held[t].turn]

(* Until the first fault nothing has fallen back.                           *)
FaultlessUp ==
  faults = 0 => /\ up /\ inSqlite = {}
                /\ \A t \in Thread : pc[t] \in {Idle, SetSession, SetTurn}

IInv ==
  /\ TypeOK
  /\ HeldFresh
  /\ EmittedIssued
  /\ TurnKeysIssued
  /\ RowsEmitted
  /\ SqliteEmitted
  /\ BeforeEmitted
  /\ RedisKeeps
  /\ EmittedTurnsStored
  /\ SessionKeyFirst
  /\ TurnKeyFollowsSessionKey
  /\ FaultlessUp

-----------------------------------------------------------------------------
LEMMA InitInv == Init => IInv
<1> SUFFICES ASSUME Init PROVE IInv
  OBVIOUS
<1>1. TypeOK
  BY BoundAssumption DEF Init, TypeOK
<1>2. /\ emitted = {} /\ inSqlite = {} /\ up = TRUE
      /\ \A t \in Thread : pc[t] = Idle
      /\ \A s \in Session : rows[s] = NoRecord
      /\ \A i \in Turn : turnKey[i] = NoRecord /\ before[i] = {}
  BY DEF Init
<1>3. Idle \notin Saving /\ Idle # SetTurn
  BY DEF Saving, Idle, SetSession, SetTurn, Fallback, Commit
<1>4. HeldFresh /\ EmittedIssued /\ TurnKeysIssued /\ RowsEmitted /\ SqliteEmitted
  BY <1>2, <1>3 DEF HeldFresh, EmittedIssued, TurnKeysIssued, RowsEmitted, SqliteEmitted
<1>5. BeforeEmitted /\ RedisKeeps /\ EmittedTurnsStored /\ SessionKeyFirst
      /\ TurnKeyFollowsSessionKey /\ FaultlessUp
  BY <1>2, <1>3
     DEF BeforeEmitted, RedisKeeps, EmittedTurnsStored, SessionKeyFirst,
         TurnKeyFollowsSessionKey, FaultlessUp
<1> QED
  BY <1>1, <1>4, <1>5 DEF IInv

(* What is known of the record that a thread is saving.                     *)
LEMMA HeldRecord ==
  ASSUME IInv, NEW t \in Thread, pc[t] \in Saving
  PROVE  /\ held[t] \in Record /\ held[t] # NoRecord
         /\ held[t].session \in Session /\ held[t].turn \in Turn
         /\ held[t].turn \in issued
         /\ turnKey[held[t].turn] \in {NoRecord, held[t]}
         /\ \A i \in Turn : held[t].turn \notin before[i]
         /\ held[t].turn \notin inSqlite
<1>1. /\ held[t] \in Record /\ held[t].turn \in issued
      /\ turnKey[held[t].turn] \in {NoRecord, held[t]}
      /\ \A r \in emitted : r.turn # held[t].turn
  BY DEF IInv, HeldFresh
<1>2. held[t].session \in Session /\ held[t].turn \in Turn
  BY <1>1 DEF Record
<1>3. /\ \A i \in Turn : held[t].turn \notin before[i]
      /\ held[t].turn \notin inSqlite
  BY <1>1 DEF IInv, BeforeEmitted, SqliteEmitted
<1> QED
  BY <1>1, <1>2, <1>3, NoRecordAssumption

(* What has expired stays so.                                               *)
LEMMA ExpiryLasts ==
  ASSUME IInv, now' \in 0 .. MaxTime, now' >= now, NEW r \in Record, IsExpired(r)
  PROVE  IsExpired(r)'
<1>1. now \in Nat /\ now' \in Nat /\ r.expires \in Nat
  BY BoundAssumption, TTLAssumption DEF IInv, TypeOK, Record, Instant
<1> QED
  BY <1>1 DEF IsExpired

-----------------------------------------------------------------------------
(* A new record has a turn id that nothing names yet.                       *)
LEMMA NewRecordKeeps ==
  ASSUME IInv, NEW t \in Thread, NEW s \in Session, NEW known, NEW where,
         known \subseteq {r.turn : r \in emitted},
         where \in {SetSession, Commit}, faults = 0 => where = SetSession,
         NewRecord(t, s, known, where),
         UNCHANGED <<now, up, faults, keys, rows, emitted, inSqlite>>
  PROVE  IInv'
<1> PICK i \in Turn \ issued :
      /\ issued' = issued \cup {i}
      /\ held' = [held EXCEPT ![t] =
                    [session |-> s, turn |-> i, expires |-> ExpiresAtFromNow]]
      /\ before' = [before EXCEPT ![i] = known]
  BY DEF NewRecord
<1> DEFINE r == [session |-> s, turn |-> i, expires |-> ExpiresAtFromNow]
<1>1. /\ pc' = [pc EXCEPT ![t] = where]
      /\ UNCHANGED <<now, up, faults, sessionKey, turnKey, rows, emitted, inSqlite>>
  BY DEF NewRecord, keys
<1>2. r \in Record /\ r.turn = i /\ r.session = s
  <2>1. ExpiresAtFromNow \in Instant
    BY TTLAssumption, BoundAssumption DEF ExpiresAtFromNow, Instant, IInv, TypeOK
  <2> QED
    BY <2>1 DEF Record
<1> HIDE DEF r
<1>3. \A q \in emitted : q.turn \in issued /\ q.turn \in Turn /\ q.turn # i
  BY DEF IInv, EmittedIssued, TypeOK, Record
<1>4. TypeOK'
  <2>1. where \in {Idle, SetSession, SetTurn, Fallback, Commit}
    OBVIOUS
  <2>2. known \in SUBSET Turn
    BY <1>3
  <2> QED
    BY <1>1, <1>2, <2>1, <2>2 DEF IInv, TypeOK, r
<1>5. /\ held'[t] = r /\ pc'[t] = where
      /\ \A u \in Thread : u # t => held'[u] = held[u] /\ pc'[u] = pc[u]
  BY <1>1 DEF IInv, TypeOK, r
<1>6. /\ \A k \in Turn : k # i => before'[k] = before[k]
      /\ before'[i] = known
  BY DEF IInv, TypeOK
<1>7. turnKey[i] = NoRecord
  BY DEF IInv, TurnKeysIssued
<1>8. HeldFresh'
  <2> SUFFICES ASSUME NEW u \in Thread, pc'[u] \in Saving
               PROVE  /\ held'[u] \in Record
                      /\ held'[u].turn \in issued'
                      /\ \A q \in emitted : q.turn # held'[u].turn
                      /\ \A v \in Thread : v # u /\ pc'[v] \in Saving =>
                           held'[v].turn # held'[u].turn
                      /\ turnKey[held'[u].turn] \in {NoRecord, held'[u]}
    BY <1>1 DEF HeldFresh
  <2>1. \A v \in Thread : v # t /\ pc'[v] \in Saving =>
          held'[v] = held[v] /\ held[v].turn # i /\ pc[v] \in Saving
    BY <1>5 DEF IInv, HeldFresh
  <2>2. CASE u = t
    BY <1>2, <1>3, <1>5, <1>7, <2>1, <2>2
  <2>3. CASE u # t
    BY <1>2, <1>5, <2>1, <2>3 DEF IInv, HeldFresh
  <2> QED
    BY <2>2, <2>3
<1>9. EmittedIssued' /\ TurnKeysIssued' /\ RowsEmitted' /\ SqliteEmitted' /\ RedisKeeps'
  BY <1>1 DEF IInv, EmittedIssued, TurnKeysIssued, RowsEmitted, SqliteEmitted, RedisKeeps
<1>10. BeforeEmitted'
  BY <1>1, <1>6 DEF IInv, BeforeEmitted
<1>11. EmittedTurnsStored'
  <2>1. \A q \in emitted : before'[q.turn] = before[q.turn]
    BY <1>3, <1>6
  <2> QED
    BY <1>1, <2>1 DEF IInv, EmittedTurnsStored, IsExpired
<1>12. SessionKeyFirst'
  <2> SUFFICES ASSUME NEW u \in Thread, pc'[u] = SetTurn
               PROVE  /\ sessionKey[held'[u].session] # NoRecord
                      /\ sessionKey[held'[u].session].turn \notin before'[held'[u].turn]
    BY <1>1 DEF SessionKeyFirst
  <2>1. u # t
    BY <1>5 DEF SetTurn, SetSession, Commit
  <2>2. pc[u] = SetTurn /\ held'[u] = held[u]
    BY <1>5, <2>1
  <2>3. held[u].turn \in Turn /\ held[u].turn \in issued
    BY <2>2, HeldRecord DEF Saving
  <2> QED
    BY <1>6, <2>2, <2>3 DEF IInv, SessionKeyFirst
<1>13. TurnKeyFollowsSessionKey'
  BY <1>1, <1>6, <1>7 DEF IInv, TurnKeyFollowsSessionKey
<1>14. FaultlessUp'
  BY <1>1, <1>5 DEF IInv, FaultlessUp
<1> QED
  BY <1>4, <1>8, <1>9, <1>10, <1>11, <1>12, <1>13, <1>14 DEF IInv

(* A step of thread t within its save leaves the records as they are.       *)
LEMMA MovedThread ==
  ASSUME IInv, NEW t \in Thread, NEW where, pc[t] \in Saving, where \in Saving,
         pc' = [pc EXCEPT ![t] = where], held' = held
  PROVE  /\ pc'[t] = where
         /\ \A u \in Thread : u # t => pc'[u] = pc[u]
         /\ \A u \in Thread : pc'[u] \in Saving <=> pc[u] \in Saving
BY DEF IInv, TypeOK

(* Writing the session key: no history names the record that is saved.      *)
LEMMA SessionKeyKeeps ==
  ASSUME IInv, NEW t \in Thread, NEW where, pc[t] = SetSession,
         where \in {SetTurn, Fallback}, pc' = [pc EXCEPT ![t] = where],
         sessionKey' = SessionKeySet(held[t]),
         UNCHANGED <<now, turnKey, rows, issued, held, history>>,
         up' \in BOOLEAN, faults' \in 0 .. MaxFaults,
         faults' = 0 => faults = 0 /\ up' = up /\ where = SetTurn
  PROVE  IInv'
<1> DEFINE r == held[t]
<1>1. UNCHANGED <<now, turnKey, rows, issued, held, emitted, inSqlite, before>>
  BY DEF history
<1>2. pc[t] \in Saving /\ where \in Saving
  BY DEF Saving
<1>3. /\ r \in Record /\ r # NoRecord /\ r.session \in Session
      /\ \A i \in Turn : r.turn \notin before[i]
  BY <1>2, HeldRecord
<1>4. /\ pc'[t] = where
      /\ \A u \in Thread : u # t => pc'[u] = pc[u]
      /\ \A u \in Thread : pc'[u] \in Saving <=> pc[u] \in Saving
  BY <1>1, <1>2, MovedThread
<1>5. sessionKey' = [sessionKey EXCEPT ![r.session] = r]
  BY DEF SessionKeySet
<1> HIDE DEF r
<1>6. /\ sessionKey'[r.session] = r
      /\ \A s \in Session : s # r.session => sessionKey'[s] = sessionKey[s]
  BY <1>3, <1>5 DEF IInv, TypeOK
<1>7. TypeOK'
  BY <1>1, <1>3, <1>5 DEF IInv, TypeOK
<1>8. HeldFresh'
  BY <1>1, <1>4 DEF IInv, HeldFresh
<1>9. /\ EmittedIssued' /\ TurnKeysIssued' /\ RowsEmitted' /\ SqliteEmitted'
      /\ BeforeEmitted' /\ RedisKeeps' /\ EmittedTurnsStored'
  BY <1>1
     DEF IInv, EmittedIssued, TurnKeysIssued, RowsEmitted, SqliteEmitted, BeforeEmitted,
         RedisKeeps, EmittedTurnsStored, IsExpired
<1>10. SessionKeyFirst'
  <2> SUFFICES ASSUME NEW u \in Thread, pc'[u] = SetTurn
               PROVE  /\ sessionKey'[held[u].session] # NoRecord
                      /\ sessionKey'[held[u].session].turn \notin before[held[u].turn]
    BY <1>1 DEF SessionKeyFirst
  <2>1. pc[u] \in Saving
    BY <1>4 DEF Saving
  <2>2. held[u].session \in Session /\ held[u].turn \in Turn
    BY <2>1, HeldRecord
  <2>3. CASE held[u].session = r.session
    BY <1>3, <1>6, <2>2, <2>3
  <2>4. CASE held[u].session # r.session
    BY <1>4, <1>6, <2>2, <2>4 DEF IInv, SessionKeyFirst, r
  <2> QED
    BY <2>3, <2>4
<1>11. TurnKeyFollowsSessionKey'
  <2> SUFFICES ASSUME NEW i \in Turn, turnKey[i] # NoRecord
               PROVE  /\ turnKey[i].turn = i
                      /\ sessionKey'[turnKey[i].session] # NoRecord
                      /\ sessionKey'[turnKey[i].session].turn \notin before[i]
    BY <1>1 DEF TurnKeyFollowsSessionKey
  <2>1. turnKey[i].session \in Session
    BY DEF IInv, TypeOK, Record
  <2> QED
    BY <1>3, <1>6, <2>1 DEF IInv, TurnKeyFollowsSessionKey
<1>12. FaultlessUp'
  BY <1>1, <1>4 DEF IInv, FaultlessUp
<1> QED
  BY <1>7, <1>8, <1>9, <1>10, <1>11, <1>12 DEF IInv

(* Writing the turn key touches no key of another turn, and the session key *)
(* is there already.                                                        *)
LEMMA TurnKeyWritten ==
  ASSUME IInv, NEW t \in Thread, pc[t] = SetTurn, turnKey' = TurnKeySet(held[t])
  PROVE  /\ turnKey' \in [Turn -> Record \cup {NoRecord}]
         /\ turnKey'[held[t].turn] = held[t]
         /\ \A i \in Turn : i # held[t].turn => turnKey'[i] = turnKey[i]
         /\ \A i \in Turn : turnKey[i] # NoRecord => turnKey'[i] = turnKey[i]
         /\ \A i \in Turn : turnKey'[i] # NoRecord =>
              /\ i \in issued /\ turnKey'[i].turn = i
              /\ sessionKey[turnKey'[i].session] # NoRecord
              /\ sessionKey[turnKey'[i].session].turn \notin before[i]
<1> DEFINE r == held[t]
<1>1. /\ r \in Record /\ r.turn \in Turn /\ r.turn \in issued
      /\ turnKey[r.turn] \in {NoRecord, r}
  BY HeldRecord DEF Saving
<1>2. /\ sessionKey[r.session] # NoRecord
      /\ sessionKey[r.session].turn \notin before[r.turn]
  BY DEF IInv, SessionKeyFirst
<1>3. turnKey' = [turnKey EXCEPT ![r.turn] = r]
  BY DEF TurnKeySet
<1> HIDE DEF r
<1>4. /\ turnKey' \in [Turn -> Record \cup {NoRecord}]
      /\ turnKey'[r.turn] = r
      /\ \A i \in Turn : i # r.turn => turnKey'[i] = turnKey[i]
  BY <1>1, <1>3 DEF IInv, TypeOK
<1>5. \A i \in Turn : turnKey[i] # NoRecord => turnKey'[i] = turnKey[i]
  BY <1>1, <1>4
<1>6. \A i \in Turn : turnKey'[i] # NoRecord =>
        /\ i \in issued /\ turnKey'[i].turn = i
        /\ sessionKey[turnKey'[i].session] # NoRecord
        /\ sessionKey[turnKey'[i].session].turn \notin before[i]
  BY <1>1, <1>2, <1>4 DEF IInv, TurnKeysIssued, TurnKeyFollowsSessionKey
<1> QED
  BY <1>4, <1>5, <1>6 DEF r

(* The call raised, but the key is there.                                   *)
LEMMA TurnKeyThenRaiseKeeps ==
  ASSUME IInv, NEW t \in Thread, pc[t] = SetTurn,
         turnKey' = TurnKeySet(held[t]), pc' = [pc EXCEPT ![t] = Fallback],
         UNCHANGED <<now, sessionKey, rows, issued, held, history>>,
         up' \in BOOLEAN, faults' \in 0 .. MaxFaults, faults' # 0
  PROVE  IInv'
<1>1. UNCHANGED <<now, sessionKey, rows, issued, held, emitted, inSqlite, before>>
  BY DEF history
<1>2. pc[t] \in Saving /\ Fallback \in Saving /\ Fallback # SetTurn
  BY DEF Saving, Fallback, SetTurn
<1>3. /\ turnKey' \in [Turn -> Record \cup {NoRecord}]
      /\ turnKey'[held[t].turn] = held[t]
      /\ \A i \in Turn : i # held[t].turn => turnKey'[i] = turnKey[i]
      /\ \A i \in Turn : turnKey[i] # NoRecord => turnKey'[i] = turnKey[i]
      /\ \A i \in Turn : turnKey'[i] # NoRecord =>
           /\ i \in issued /\ turnKey'[i].turn = i
           /\ sessionKey[turnKey'[i].session] # NoRecord
           /\ sessionKey[turnKey'[i].session].turn \notin before[i]
  BY TurnKeyWritten
<1>4. /\ pc'[t] = Fallback
      /\ \A u \in Thread : u # t => pc'[u] = pc[u]
      /\ \A u \in Thread : pc'[u] \in Saving <=> pc[u] \in Saving
  BY <1>1, <1>2, MovedThread
<1>5. TypeOK'
  BY <1>1, <1>3 DEF IInv, TypeOK
<1>6. HeldFresh'
  <2>1. \A u \in Thread : pc[u] \in Saving =>
          held[u].turn \in Turn /\ (u # t => held[u].turn # held[t].turn)
    BY <1>2, HeldRecord DEF IInv, HeldFresh
  <2> QED
    BY <1>1, <1>3, <1>4, <2>1 DEF IInv, HeldFresh
<1>7. \A r \in emitted : r.turn \in Turn /\ r # NoRecord
  BY NoRecordAssumption DEF IInv, TypeOK, Record
<1>8. EmittedIssued' /\ TurnKeysIssued' /\ RowsEmitted' /\ SqliteEmitted' /\ BeforeEmitted'
  BY <1>1, <1>3
     DEF IInv, EmittedIssued, TurnKeysIssued, RowsEmitted, SqliteEmitted, BeforeEmitted
<1>9. RedisKeeps' /\ EmittedTurnsStored'
  BY <1>1, <1>3, <1>7 DEF IInv, RedisKeeps, EmittedTurnsStored, IsExpired
<1>10. SessionKeyFirst' /\ TurnKeyFollowsSessionKey' /\ FaultlessUp'
  BY <1>1, <1>2, <1>3, <1>4
     DEF IInv, SessionKeyFirst, TurnKeyFollowsSessionKey, FaultlessUp
<1> QED
  BY <1>5, <1>6, <1>8, <1>9, <1>10 DEF IInv

(* A save that returns takes its record from the thread to the client.      *)
LEMMA ReturnKeeps ==
  ASSUME IInv, NEW t \in Thread, pc[t] \in Saving, NEW sqlite \in BOOLEAN,
         Return(t, sqlite), UNCHANGED <<issued, before>>,
         \A i \in Turn : i # held[t].turn => turnKey'[i] = turnKey[i]
  PROVE  /\ emitted' = emitted \cup {held[t]} /\ emitted' \in SUBSET Record
         /\ inSqlite' = inSqlite \cup (IF sqlite THEN {held[t].turn} ELSE {})
         /\ inSqlite' \in SUBSET Turn
         /\ pc' \in [Thread -> {Idle, SetSession, SetTurn, Fallback, Commit}]
         /\ held' \in [Thread -> Record \cup {NoRecord}]
         /\ pc'[t] = Idle
         /\ \A u \in Thread : u # t => pc'[u] = pc[u] /\ held'[u] = held[u]
         /\ HeldFresh' /\ EmittedIssued' /\ SqliteEmitted' /\ BeforeEmitted'
<1>1. /\ held[t] \in Record /\ held[t].turn \in Turn /\ held[t].turn \in issued
      /\ \A r \in emitted : r.turn # held[t].turn
  BY HeldRecord DEF IInv, HeldFresh
<1>2. /\ emitted' = emitted \cup {held[t]}
      /\ inSqlite' = inSqlite \cup (IF sqlite THEN {held[t].turn} ELSE {})
      /\ pc' = [pc EXCEPT ![t] = Idle]
      /\ held' = [held EXCEPT ![t] = NoRecord]
  BY DEF Return
<1>3. /\ emitted' \in SUBSET Record /\ inSqlite' \in SUBSET Turn
      /\ pc' \in [Thread -> {Idle, SetSession, SetTurn, Fallback, Commit}]
      /\ held' \in [Thread -> Record \cup {NoRecord}]
      /\ pc'[t] = Idle
      /\ \A u \in Thread : u # t => pc'[u] = pc[u] /\ held'[u] = held[u]
  BY <1>1, <1>2 DEF IInv, TypeOK
<1>4. Idle \notin Saving
  BY DEF Saving, Idle, SetSession, SetTurn, Fallback, Commit
<1>5. \A u \in Thread : pc'[u] \in Saving =>
        /\ u # t /\ pc[u] \in Saving /\ held'[u] = held[u]
        /\ held[u].turn \in Turn /\ held[u].turn # held[t].turn
  BY <1>3, <1>4, HeldRecord DEF IInv, HeldFresh
<1>6. HeldFresh'
  BY <1>2, <1>5 DEF IInv, HeldFresh
<1>7. EmittedIssued' /\ SqliteEmitted' /\ BeforeEmitted'
  BY <1>1, <1>2 DEF IInv, EmittedIssued, SqliteEmitted, BeforeEmitted
<1> QED
  BY <1>2, <1>3, <1>6, <1>7

LEMMA SetTurnKeyKeeps ==
  ASSUME IInv, NEW t \in Thread, SetTurnKey(t)
  PROVE  IInv'
<1> DEFINE r == held[t]
<1>1. /\ pc[t] = SetTurn /\ turnKey' = TurnKeySet(r) /\ Return(t, FALSE)
      /\ UNCHANGED <<now, up, faults, sessionKey, rows, issued, before>>
  BY DEF SetTurnKey
<1>2. pc[t] \in Saving /\ Idle # SetTurn
  BY <1>1 DEF Saving, Idle, SetTurn
<1>3. /\ turnKey' \in [Turn -> Record \cup {NoRecord}]
      /\ turnKey'[r.turn] = r
      /\ \A i \in Turn : i # r.turn => turnKey'[i] = turnKey[i]
      /\ \A i \in Turn : turnKey[i] # NoRecord => turnKey'[i] = turnKey[i]
      /\ \A i \in Turn : turnKey'[i] # NoRecord =>
           /\ i \in issued /\ turnKey'[i].turn = i
           /\ sessionKey[turnKey'[i].session] # NoRecord
           /\ sessionKey[turnKey'[i].session].turn \notin before[i]
  BY <1>1, TurnKeyWritten
<1>4. r.turn \notin inSqlite /\ \A i \in Turn : r.turn \notin before[i]
  BY <1>2, HeldRecord
<1>5. /\ emitted' = emitted \cup {r} /\ emitted' \in SUBSET Record
      /\ inSqlite' = inSqlite \cup (IF FALSE THEN {r.turn} ELSE {}) /\ inSqlite' \in SUBSET Turn
      /\ pc' \in [Thread -> {Idle, SetSession, SetTurn, Fallback, Commit}]
      /\ held' \in [Thread -> Record \cup {NoRecord}]
      /\ pc'[t] = Idle
      /\ \A u \in Thread : u # t => pc'[u] = pc[u] /\ held'[u] = held[u]
      /\ HeldFresh' /\ EmittedIssued' /\ SqliteEmitted' /\ BeforeEmitted'
  BY <1>1, <1>2, <1>3, ReturnKeeps
<1>11. inSqlite' = inSqlite
  BY <1>5
<1> HIDE DEF r
<1>6. TypeOK'
  BY <1>1, <1>3, <1>5 DEF IInv, TypeOK
<1>7. \A q \in emitted : q.turn \in Turn /\ q # NoRecord
  BY NoRecordAssumption DEF IInv, TypeOK, Record
<1>8. TurnKeysIssued' /\ RowsEmitted'
  BY <1>1, <1>3, <1>5, <1>11 DEF IInv, TurnKeysIssued, RowsEmitted
<1>9. RedisKeeps' /\ EmittedTurnsStored'
  BY <1>1, <1>3, <1>4, <1>5, <1>7, <1>11
     DEF IInv, RedisKeeps, EmittedTurnsStored, IsExpired
<1>10. SessionKeyFirst' /\ TurnKeyFollowsSessionKey' /\ FaultlessUp'
  BY <1>1, <1>2, <1>3, <1>5, <1>11
     DEF IInv, SessionKeyFirst, TurnKeyFollowsSessionKey, FaultlessUp
<1> QED
  BY <1>5, <1>6, <1>8, <1>9, <1>10 DEF IInv

(* The transaction replaces the row of one session by a record of it that   *)
(* no client knew before, and purges what has expired.                      *)
LEMMA CommitRowKeeps ==
  ASSUME IInv, NEW t \in Thread, CommitRow(t)
  PROVE  IInv'
<1> DEFINE r == held[t]
<1>1. /\ pc[t] = Commit /\ Return(t, TRUE)
      /\ rows' = [s \in Session |-> Visible(Upsert(r)[s])]
      /\ UNCHANGED <<now, up, faults, sessionKey, turnKey, issued, before>>
  BY DEF CommitRow, keys
<1>2. pc[t] \in Saving /\ Idle # SetTurn /\ Commit \notin {Idle, SetSession, SetTurn}
  BY <1>1 DEF Saving, Idle, SetSession, SetTurn, Commit
<1>3. /\ r \in Record /\ r # NoRecord /\ r.session \in Session /\ r.turn \in Turn
      /\ \A i \in Turn : r.turn \notin before[i]
      /\ r.turn \notin inSqlite
      /\ \A q \in emitted : q.turn # r.turn
  BY <1>2, HeldRecord DEF IInv, HeldFresh
<1>4. /\ emitted' = emitted \cup {r} /\ emitted' \in SUBSET Record
      /\ inSqlite' = inSqlite \cup {r.turn} /\ inSqlite' \in SUBSET Turn
      /\ pc' \in [Thread -> {Idle, SetSession, SetTurn, Fallback, Commit}]
      /\ held' \in [Thread -> Record \cup {NoRecord}]
      /\ pc'[t] = Idle
      /\ \A u \in Thread : u # t => pc'[u] = pc[u] /\ held'[u] = held[u]
      /\ HeldFresh' /\ EmittedIssued' /\ SqliteEmitted' /\ BeforeEmitted'
  BY <1>1, <1>2, ReturnKeeps
<1> HIDE DEF r
<1>5. /\ rows' \in [Session -> Record \cup {NoRecord}]
      /\ rows'[r.session] = IF IsExpired(r) THEN NoRecord ELSE r
      /\ \A s \in Session : s # r.session =>
           \/ rows'[s] = rows[s]
           \/ rows'[s] = NoRecord /\ rows[s] # NoRecord /\ IsExpired(rows[s])
  <2>1. /\ Upsert(r) \in [Session -> Record \cup {NoRecord}]
        /\ Upsert(r)[r.session] = r
        /\ \A s \in Session : s # r.session => Upsert(r)[s] = rows[s]
    BY <1>3 DEF Upsert, IInv, TypeOK
  <2> QED
    BY <1>1, <1>3, <2>1 DEF Visible
<1>6. TypeOK'
  BY <1>1, <1>4, <1>5 DEF IInv, TypeOK
<1>7. TurnKeysIssued' /\ RedisKeeps'
  BY <1>1, <1>4 DEF IInv, TurnKeysIssued, RedisKeeps
<1>8. RowsEmitted'
  BY <1>3, <1>4, <1>5 DEF IInv, RowsEmitted
<1>9. EmittedTurnsStored'
  <2> SUFFICES ASSUME NEW q \in emitted \cup {r}, ~ IsExpired(q)
               PROVE  IF q.turn \in inSqlite \cup {r.turn}
                      THEN \/ rows'[q.session] = q
                           \/ \E p \in emitted \cup {r} :
                                /\ p.session = q.session /\ p # q
                                /\ p.turn \in inSqlite \cup {r.turn}
                                /\ p.turn \notin before[q.turn]
                      ELSE turnKey[q.turn] = q
    BY <1>1, <1>4 DEF EmittedTurnsStored, IsExpired
  <2>1. CASE q = r
    BY <1>5, <2>1
  <2>2. CASE q # r
    <3>1. /\ q \in emitted /\ q.turn # r.turn /\ q # NoRecord
          /\ q.session \in Session /\ q.turn \in Turn
      BY <1>3, <2>2, NoRecordAssumption DEF IInv, TypeOK, Record
    <3>2. CASE q.turn \notin inSqlite
      BY <3>1, <3>2 DEF IInv, EmittedTurnsStored
    <3>3. CASE q.turn \in inSqlite /\ q.session = r.session
      BY <1>3, <3>1, <3>3
    <3>4. CASE q.turn \in inSqlite /\ q.session # r.session
      BY <1>5, <3>1, <3>4 DEF IInv, EmittedTurnsStored
    <3> QED
      BY <3>2, <3>3, <3>4
  <2> QED
    BY <2>1, <2>2
<1>10. SessionKeyFirst' /\ TurnKeyFollowsSessionKey' /\ FaultlessUp'
  BY <1>1, <1>2, <1>4 DEF IInv, SessionKeyFirst, TurnKeyFollowsSessionKey, FaultlessUp
<1> QED
  BY <1>4, <1>6, <1>7, <1>8, <1>9, <1>10 DEF IInv

(* The clock, outages, restarts and calls that raise without effect write   *)
(* nothing; they only turn threads back.                                    *)
LEMMA EnvironmentKeeps ==
  ASSUME IInv,
         \/ Tick \/ GoDown \/ ComeUp \/ Restart \/ UNCHANGED vars
         \/ \E t \in Thread : RaiseUnreachable(t)
  PROVE  IInv'
<1>1. UNCHANGED <<sessionKey, turnKey, rows, issued, emitted, inSqlite, before>>
  BY DEF Tick, GoDown, ComeUp, Restart, RaiseUnreachable, keys, history, vars
<1>2. now' \in 0 .. MaxTime /\ now' >= now
  BY BoundAssumption DEF Tick, GoDown, ComeUp, Restart, RaiseUnreachable, vars, IInv, TypeOK
<1>3. up' \in BOOLEAN /\ faults' \in 0 .. MaxFaults
  <2>1. up \in BOOLEAN /\ faults \in 0 .. MaxFaults /\ MaxFaults \in Nat
    BY BoundAssumption DEF IInv, TypeOK
  <2>2. CASE GoDown \/ Restart
    <3>1. up' \in BOOLEAN
      BY <2>1, <2>2, Zenon DEF GoDown, Restart
    <3>2. faults' = faults + 1 /\ faults < MaxFaults
      BY <2>2 DEF GoDown, Restart
    <3> QED
      BY <2>1, <3>1, <3>2
  <2>3. CASE ComeUp
    BY <2>1, <2>3 DEF ComeUp
  <2>4. CASE Tick \/ (\E t \in Thread : RaiseUnreachable(t)) \/ UNCHANGED vars
    BY <2>1, <2>4 DEF Tick, RaiseUnreachable, vars
  <2> QED
    BY <2>2, <2>3, <2>4
<1>4. /\ pc' \in [Thread -> {Idle, SetSession, SetTurn, Fallback, Commit}]
      /\ held' \in [Thread -> Record \cup {NoRecord}]
      /\ \A t \in Thread : pc'[t] \in Saving => pc[t] \in Saving /\ held'[t] = held[t]
      /\ \A t \in Thread : pc'[t] = SetTurn => pc[t] = SetTurn
  BY DEF Tick, GoDown, ComeUp, Restart, RaiseUnreachable, vars, IInv, TypeOK, Saving,
         Idle, SetSession, SetTurn, Fallback, Commit
<1>5. faults' = 0 => faults = 0 /\ up' = up /\ pc' = pc
  BY BoundAssumption
     DEF Tick, GoDown, ComeUp, Restart, RaiseUnreachable, vars, IInv, TypeOK, FaultlessUp
<1>6. TypeOK'
  BY <1>1, <1>2, <1>3, <1>4 DEF IInv, TypeOK
<1>7. HeldFresh' /\ SessionKeyFirst'
  <2>1. \A t \in Thread : pc'[t] = SetTurn => pc'[t] \in Saving
    BY DEF Saving
  <2> QED
    BY <1>1, <1>4, <2>1 DEF IInv, HeldFresh, SessionKeyFirst
<1>8. /\ EmittedIssued' /\ TurnKeysIssued' /\ RowsEmitted' /\ SqliteEmitted'
      /\ BeforeEmitted' /\ RedisKeeps' /\ TurnKeyFollowsSessionKey'
  BY <1>1
     DEF IInv, EmittedIssued, TurnKeysIssued, RowsEmitted, SqliteEmitted, BeforeEmitted,
         RedisKeeps, TurnKeyFollowsSessionKey
<1>9. EmittedTurnsStored'
  <2>1. \A r \in emitted : r \in Record
    BY DEF IInv, TypeOK
  <2>2. \A r \in emitted : IsExpired(r) => IsExpired(r)'
    BY <1>2, <2>1, ExpiryLasts
  <2> QED
    BY <1>1, <2>2 DEF IInv, EmittedTurnsStored
<1>10. FaultlessUp'
  BY <1>1, <1>5 DEF IInv, FaultlessUp
<1> QED
  BY <1>6, <1>7, <1>8, <1>9, <1>10 DEF IInv

LEMMA RaiseAfterEffectKeeps ==
  ASSUME IInv, NEW t \in Thread, RaiseAfterEffect(t)
  PROVE  IInv'
<1>1. /\ up' \in BOOLEAN /\ faults' \in 0 .. MaxFaults /\ faults' # 0
      /\ pc' = [pc EXCEPT ![t] = Fallback]
      /\ UNCHANGED <<now, rows, issued, held, history>>
  <2>1. up' = FALSE /\ faults < MaxFaults /\ faults' = faults + 1
        /\ pc' = [pc EXCEPT ![t] = Fallback] /\ UNCHANGED <<now, rows, issued, held, history>>
    BY DEF RaiseAfterEffect
  <2>2. faults' \in 0 .. MaxFaults /\ faults' # 0
    BY <2>1, BoundAssumption DEF IInv, TypeOK
  <2>3. up' \in BOOLEAN
    BY <2>1
  <2> QED
    BY <2>1, <2>2, <2>3
<1>2. CASE pc[t] = SetSession
  <2>1. sessionKey' = SessionKeySet(held[t]) /\ turnKey' = turnKey
    BY <1>2 DEF RaiseAfterEffect
  <2> QED
    BY <1>1, <1>2, <2>1, SessionKeyKeeps
<1>3. CASE pc[t] = SetTurn
  <2>1. turnKey' = TurnKeySet(held[t]) /\ sessionKey' = sessionKey
    BY <1>3 DEF RaiseAfterEffect, SetSession, SetTurn
  <2> QED
    BY <1>1, <1>3, <2>1, TurnKeyThenRaiseKeeps
<1> QED
  BY <1>2, <1>3 DEF RaiseAfterEffect

LEMMA NextInv == IInv /\ [Next]_vars => IInv'
<1> SUFFICES ASSUME IInv, [Next]_vars PROVE IInv'
  OBVIOUS
<1>1. ASSUME NEW t \in Thread, NEW s \in Session, BuildRecord(t, s)
      PROVE  IInv'
  BY <1>1, NewRecordKeeps DEF BuildRecord
<1>2. ASSUME NEW t \in Thread, RaiseAfterEffect(t)
      PROVE  IInv'
  BY <1>2, RaiseAfterEffectKeeps
<1>3. ASSUME NEW t \in Thread, SetSessionKey(t)
      PROVE  IInv'
  <2>1. /\ pc[t] = SetSession /\ sessionKey' = SessionKeySet(held[t])
        /\ pc' = [pc EXCEPT ![t] = SetTurn]
        /\ UNCHANGED <<now, up, faults, turnKey, rows, issued, held, history>>
    BY <1>3 DEF SetSessionKey
  <2>2. up \in BOOLEAN /\ faults \in 0 .. MaxFaults
    BY DEF IInv, TypeOK
  <2> QED
    BY <2>1, <2>2, SessionKeyKeeps
<1>4. ASSUME NEW t \in Thread, RebuildForSqlite(t)
      PROVE  IInv'
  <2>1. /\ pc[t] = Fallback
        /\ NewRecord(t, held[t].session, before[held[t].turn], Commit)
        /\ UNCHANGED <<now, up, faults, keys, rows, emitted, inSqlite>>
    BY <1>4 DEF RebuildForSqlite
  <2>2. pc[t] \in Saving
    BY <2>1 DEF Saving
  <2>3. held[t].session \in Session /\ before[held[t].turn] \subseteq {r.turn : r \in emitted}
    BY <2>2, HeldRecord DEF IInv, BeforeEmitted
  <2>4. faults # 0
    BY <2>1 DEF IInv, FaultlessUp, Fallback, Idle, SetSession, SetTurn
  <2> QED
    BY <2>1, <2>3, <2>4, NewRecordKeeps
<1>5. CASE \E t \in Thread : SetTurnKey(t) \/ CommitRow(t)
  BY <1>5, SetTurnKeyKeeps, CommitRowKeeps
<1>6. CASE \/ Tick \/ GoDown \/ ComeUp \/ Restart \/ UNCHANGED vars
           \/ \E t \in Thread : RaiseUnreachable(t)
  BY <1>6, EnvironmentKeeps
<1> QED
  BY <1>1, <1>2, <1>3, <1>4, <1>5, <1>6 DEF Next, Save

LEMMA InductiveInvariant == Spec => []IInv
BY InitInv, NextInv, PTL DEF Spec

-----------------------------------------------------------------------------
(* Threads, keys, rows and clock keep their types.                          *)
THEOREM TypeCorrect == Spec => []TypeOK
<1>1. IInv => TypeOK
  BY DEF IInv
<1> QED
  BY <1>1, InductiveInvariant, PTL

(* Whatever fails and whenever, an unexpired turn id that was returned is   *)
(* in the backend whose save returned it, or was replaced there by a save   *)
(* that did not end before its own began.                                   *)
THEOREM ReturnedTurnsStored == Spec => []EmittedTurnsStored
<1>1. IInv => EmittedTurnsStored
  BY DEF IInv
<1> QED
  BY <1>1, InductiveInvariant, PTL

(* A turn that redis finds has its session key written, by its own save or  *)
(* by one that had not ended when its own began.                            *)
THEOREM TurnKeysFollow == Spec => []TurnKeyFollowsSessionKey
<1>1. IInv => TurnKeyFollowsSessionKey
  BY DEF IInv
<1> QED
  BY <1>1, InductiveInvariant, PTL

(* Until the first fault a session lookup never finds less than what a      *)
(* client had before.                                                       *)
THEOREM SessionsNeverGoBack == Spec => []LatestNotSuperseded
<1>1. IInv => LatestNotSuperseded
  <2> SUFFICES ASSUME IInv, faults = 0, NEW s \in Session, LatestForSession(s) # NoRecord,
                      NEW q \in emitted, q.session = s
               PROVE  LatestForSession(s).turn \notin before[q.turn]
    BY DEF LatestNotSuperseded
  <2>1. LatestForSession(s) = sessionKey[s]
    BY DEF IInv, FaultlessUp, LatestForSession, Visible
  <2>2. q.turn \in Turn /\ q # NoRecord /\ turnKey[q.turn] = q
    BY NoRecordAssumption DEF IInv, TypeOK, Record, FaultlessUp, RedisKeeps
  <2> QED
    BY <2>1, <2>2 DEF IInv, TurnKeyFollowsSessionKey
<1> QED
  BY <1>1, InductiveInvariant, PTL

-----------------------------------------------------------------------------
LEMMA ExpiryMeansNotUnexpired ==
  ASSUME NEW r \in Record, NEW n \in Nat
  PROVE  r.expires <= n <=> ~ Ledger!Unexpired(r, n)
BY TTLAssumption, BoundAssumption DEF Ledger!Unexpired, Record, Instant

LEMMA StoredRecords ==
  ASSUME IInv
  PROVE  /\ Stored \subseteq Record \cup {NoRecord}
         /\ now \in Nat
         /\ \A s \in Session : sessionKey[s] \in Record \cup {NoRecord}
<1>1. Pending \subseteq Record
  BY HeldRecord DEF Pending, Saving
<1> QED
  BY <1>1, BoundAssumption DEF Stored, IInv, TypeOK

(* Two states with the same records and clock are the same ledger.          *)
LEMMA SameLedger ==
  ASSUME now' = now, sessionKey' = sessionKey,
         Stored' \ {NoRecord} = Stored \ {NoRecord},
         SavedRecords' = SavedRecords
  PROVE  UNCHANGED Ledger!vars
<1>1. LiveRecords' = LiveRecords
  <2>1. \A r : Visible(r)' = Visible(r)
    BY DEF Visible, IsExpired
  <2>2. \A r : r \in Stored /\ Visible(r) # NoRecord <=> r \in Stored' /\ Visible(r)' # NoRecord
    BY <2>1 DEF Visible
  <2> QED
    BY <2>2 DEF LiveRecords
<1>2. LatestRecords' = LatestRecords
  BY DEF LatestRecords, Visible, IsExpired
<1> QED
  BY <1>1, <1>2 DEF Ledger!vars

LEMMA BuildStutters ==
  ASSUME IInv, NEW t \in Thread, NEW s \in Session, BuildRecord(t, s)
  PROVE  UNCHANGED Ledger!vars
<1>1. /\ pc[t] = Idle /\ pc' = [pc EXCEPT ![t] = SetSession]
      /\ \E r : held' = [held EXCEPT ![t] = r]
      /\ UNCHANGED <<now, sessionKey, turnKey, emitted>>
  BY DEF BuildRecord, NewRecord, keys
<1>2. \A u \in Thread : u # t => pc'[u] = pc[u] /\ held'[u] = held[u]
  BY <1>1 DEF IInv, TypeOK
<1>3. pc[t] # SetTurn /\ pc'[t] # SetTurn
  BY <1>1 DEF IInv, TypeOK, Idle, SetSession, SetTurn
<1>4. {u \in Thread : pc[u] = SetTurn}' = {u \in Thread : pc[u] = SetTurn}
  BY <1>2, <1>3
<1>5. Pending' = Pending
  BY <1>2, <1>3, <1>4 DEF Pending
<1> QED
  BY <1>1, <1>5, SameLedger DEF Stored, SavedRecords

(* The second key of a save adds nothing: its record is in the ledger.      *)
LEMMA SetTurnKeyStutters ==
  ASSUME IInv, NEW t \in Thread, SetTurnKey(t)
  PROVE  UNCHANGED Ledger!vars
<1> DEFINE r == held[t]
<1>1. /\ pc[t] = SetTurn /\ turnKey' = TurnKeySet(r) /\ Return(t, FALSE)
      /\ UNCHANGED <<now, sessionKey>>
  BY DEF SetTurnKey
<1>2. pc[t] \in Saving
  BY <1>1 DEF Saving
<1>3. /\ r \in Record /\ r.turn \in Turn /\ turnKey[r.turn] \in {NoRecord, r}
      /\ turnKey'[r.turn] = r
      /\ \A i \in Turn : i # r.turn => turnKey'[i] = turnKey[i]
  BY <1>1, <1>2, HeldRecord, TurnKeyWritten
<1>4. /\ emitted' = emitted \cup {r}
      /\ pc'[t] = Idle /\ Idle # SetTurn
      /\ \A u \in Thread : u # t => pc'[u] = pc[u] /\ held'[u] = held[u]
  BY <1>1 DEF Return, IInv, TypeOK, Idle, SetTurn
<1>5. ASSUME NEW q PROVE q \in Pending <=> q \in Pending' \/ q = r
  <2>1. q \in Pending <=> \E u \in Thread : pc[u] = SetTurn /\ held[u] = q
    BY DEF Pending
  <2>2. q \in Pending' <=> \E u \in Thread : pc'[u] = SetTurn /\ held'[u] = q
    BY DEF Pending
  <2> QED
    BY <1>1, <1>4, <2>1, <2>2
<1> HIDE DEF r
<1>6. ASSUME NEW q, q # NoRecord
      PROVE  (\E i \in Turn : turnKey'[i] = q) <=> (\E i \in Turn : turnKey[i] = q) \/ q = r
  BY <1>3, <1>6
<1>7. Stored' \ {NoRecord} = Stored \ {NoRecord}
  <2>1. ASSUME NEW q PROVE q \in Stored' \ {NoRecord} <=> q \in Stored \ {NoRecord}
    <3>1. q \in Stored <=> (\E i \in Turn : turnKey[i] = q) \/ q \in Pending
      BY DEF Stored
    <3>2. q \in Stored' <=> (\E i \in Turn : turnKey'[i] = q) \/ q \in Pending'
      BY DEF Stored
    <3> QED
      BY <1>5, <1>6, <3>1, <3>2
  <2> QED
    BY <2>1
<1>8. SavedRecords' = SavedRecords
  <2>1. ASSUME NEW q PROVE q \in emitted' \cup Pending' <=> q \in emitted \cup Pending
    BY <1>4, <1>5
  <2> QED
    BY <2>1 DEF SavedRecords
<1> QED
  BY <1>1, <1>7, <1>8, SameLedger

LEMMA RememberIsNext ==
  ASSUME NEW r \in Ledger!Record, Ledger!Remember(r)
  PROVE  Ledger!Next
BY Zenon DEF Ledger!Next

(* The first key of a save is the ledger's Remember.                        *)
LEMMA SetSessionKeyIsRemember ==
  ASSUME IInv, NEW t \in Thread, SetSessionKey(t)
  PROVE  Ledger!Next
<1> DEFINE r == held[t]
<1>1. /\ pc[t] = SetSession /\ sessionKey' = [sessionKey EXCEPT ![r.session] = r]
      /\ pc' = [pc EXCEPT ![t] = SetTurn]
      /\ UNCHANGED <<now, turnKey, held, emitted>>
  BY DEF SetSessionKey, SessionKeySet, history
<1>2. pc[t] \in Saving /\ SetTurn \in Saving /\ SetSession # SetTurn
  BY <1>1 DEF Saving, SetSession, SetTurn
<1>3. /\ r \in Record /\ r # NoRecord /\ r.session \in Session /\ r.turn \in Turn
      /\ \A q \in emitted : q.turn # r.turn
      /\ now \in Nat
  BY <1>2, HeldRecord, StoredRecords DEF IInv, HeldFresh
<1>4. \A q \in Pending : q.turn # r.turn
  <2>1. \A q \in Pending : \E u \in Thread : pc[u] = SetTurn /\ held[u] = q
    BY DEF Pending
  <2>2. \A u \in Thread : pc[u] = SetTurn => u # t /\ pc[u] \in Saving
    BY <1>1, <1>2 DEF Saving
  <2> QED
    BY <1>2, <2>1, <2>2 DEF IInv, HeldFresh
<1>5. Pending' = Pending \cup {r}
  <2>1. \A u \in Thread : pc'[u] = SetTurn <=> pc[u] = SetTurn \/ u = t
    BY <1>1 DEF IInv, TypeOK
  <2>2. ASSUME NEW q PROVE q \in Pending' <=> q \in Pending \cup {r}
    <3>1. q \in Pending <=> \E u \in Thread : pc[u] = SetTurn /\ held[u] = q
      BY DEF Pending
    <3>2. q \in Pending' <=> \E u \in Thread : pc'[u] = SetTurn /\ held[u] = q
      BY <1>1 DEF Pending
    <3> QED
      BY <2>1, <3>1, <3>2
  <2> QED
    BY <2>2
<1> HIDE DEF r
<1>6. Stored' = Stored \cup {r}
  BY <1>1, <1>5 DEF Stored
<1>7. \A q : Visible(q)' = Visible(q)
  BY <1>1 DEF Visible, IsExpired
<1>8. Visible(r) = IF Ledger!Unexpired(r, now) THEN r ELSE NoRecord
  BY <1>3, ExpiryMeansNotUnexpired DEF Visible, IsExpired
<1>9. LiveRecords' = LiveRecords \cup (IF Ledger!Unexpired(r, now) THEN {r} ELSE {})
  BY <1>3, <1>6, <1>7, <1>8 DEF LiveRecords
<1>10. LatestRecords' = [LatestRecords EXCEPT ![r.session] = Ledger!Visible(r, now)]
  <2>1. Ledger!Visible(r, now) = Visible(r)
    BY <1>3, <1>8 DEF Ledger!Visible
  <2>2. \A s \in Session : Visible(sessionKey[s])' = IF s = r.session THEN Visible(r)
                                                      ELSE Visible(sessionKey[s])
    BY <1>1, <1>3, <1>7 DEF IInv, TypeOK
  <2> QED
    BY <1>3, <2>1, <2>2 DEF LatestRecords
<1>11. SavedRecords' = SavedRecords \cup {r}
  BY <1>1, <1>5 DEF SavedRecords
<1>12. Ledger!Remember(r)
  BY <1>1, <1>3, <1>4, <1>9, <1>10, <1>11 DEF Ledger!Remember, SavedRecords
<1>13. r \in Ledger!Record
  BY <1>3 DEF Ledger!Record, Record
<1> QED
  BY <1>12, <1>13, RememberIsNext

(* Time takes from the ledger what expires.                                 *)
LEMMA TickIsPass ==
  ASSUME IInv, Tick
  PROVE  Ledger!Next
<1>1. /\ now' = now + 1 /\ now < MaxTime /\ now \in Nat
      /\ UNCHANGED <<sessionKey, turnKey, pc, held, emitted>>
  BY StoredRecords DEF Tick, keys, history
<1>2. now' \in Instant /\ now' > now /\ now' \in Nat
  BY <1>1, TTLAssumption, BoundAssumption DEF Instant
<1>3. Stored' = Stored /\ Pending' = Pending /\ Stored \subseteq Record \cup {NoRecord}
  BY <1>1, StoredRecords DEF Stored, Pending
<1>4. ASSUME NEW q \in Record \cup {NoRecord}
      PROVE  /\ Visible(q)' = Ledger!Visible(Visible(q), now')
             /\ Visible(q)' # NoRecord <=> Visible(q) # NoRecord /\ Ledger!Unexpired(q, now')
  <2>1. CASE q = NoRecord
    BY <2>1 DEF Visible, Ledger!Visible
  <2>2. CASE q \in Record
    <3>1. /\ q.expires <= now' <=> ~ Ledger!Unexpired(q, now')
          /\ q.expires <= now => q.expires <= now'
          /\ q # NoRecord
      <4>1. q.expires \in Nat
        BY <2>2, TTLAssumption, BoundAssumption DEF Record, Instant
      <4> QED
        BY <1>1, <1>2, <2>2, <4>1, ExpiryMeansNotUnexpired, NoRecordAssumption
    <3> QED
      BY <3>1 DEF Visible, IsExpired, Ledger!Visible
  <2> QED
    BY <2>1, <2>2
<1>5. LiveRecords' = {q \in LiveRecords : Ledger!Unexpired(q, now')}
  BY <1>3, <1>4 DEF LiveRecords
<1>6. LatestRecords' = [s \in Session |-> Ledger!Visible(LatestRecords[s], now')]
  BY <1>1, <1>4, StoredRecords DEF LatestRecords
<1>7. Ledger!Pass
  BY <1>1, <1>2, <1>3, <1>5, <1>6 DEF Ledger!Pass, SavedRecords
<1> QED
  BY <1>7 DEF Ledger!Next

LEMMA InitIsLedgerInit == Init => Ledger!Init
<1> SUFFICES ASSUME Init PROVE Ledger!Init
  OBVIOUS
<1>1. Pending = {}
  BY DEF Init, Pending, Idle, SetTurn
<1>2. LiveRecords = {}
  BY <1>1 DEF Init, Stored, LiveRecords, Visible
<1>3. LatestRecords = [s \in Session |-> NoRecord]
  BY DEF Init, LatestRecords, Visible
<1> QED
  BY <1>1, <1>2, <1>3 DEF Init, Ledger!Init, SavedRecords

LEMMA FaultlessStepIsLedgerStep ==
  IInv /\ [Next]_vars => [faults' = 0 => Ledger!Next \/ UNCHANGED Ledger!vars]_vars
<1> SUFFICES ASSUME IInv, Next, faults' = 0
             PROVE  Ledger!Next \/ UNCHANGED Ledger!vars
  BY Zenon
<1>1. faults \in Nat
  BY BoundAssumption DEF IInv, TypeOK
<1>2. CASE \E t \in Thread : RaiseAfterEffect(t)
  BY <1>1, <1>2 DEF RaiseAfterEffect
<1>3. CASE GoDown \/ Restart
  BY <1>1, <1>3 DEF GoDown, Restart
<1>4. ASSUME NEW t \in Thread, RaiseUnreachable(t) \/ RebuildForSqlite(t) \/ CommitRow(t)
      PROVE  FALSE
  <2>1. faults = 0
    BY <1>4 DEF RaiseUnreachable, RebuildForSqlite, CommitRow
  <2> QED
    BY <1>4, <2>1
       DEF RaiseUnreachable, RebuildForSqlite, CommitRow, IInv, FaultlessUp,
           Idle, SetSession, SetTurn, Fallback, Commit
<1>5. ~ ComeUp
  BY DEF ComeUp, IInv, FaultlessUp
<1>6. CASE Tick
  BY <1>6, TickIsPass
<1>7. ASSUME NEW t \in Thread, NEW s \in Session, BuildRecord(t, s)
      PROVE  UNCHANGED Ledger!vars
  BY <1>7, BuildStutters
<1>8. ASSUME NEW t \in Thread, SetSessionKey(t) PROVE Ledger!Next
  BY <1>8, SetSessionKeyIsRemember
<1>9. ASSUME NEW t \in Thread, SetTurnKey(t) PROVE UNCHANGED Ledger!vars
  BY <1>9, SetTurnKeyStutters
<1> QED
  BY <1>2, <1>3, <1>4, <1>5, <1>6, <1>7, <1>8, <1>9 DEF Next, Save

(* Redis, written in two calls per save, is a durable ledger that keeps     *)
(* superseded turns, until the first outage or restart.                     *)
THEOREM RedisImplementsLedger == Spec => ImplementsLedger
BY InductiveInvariant, InitIsLedgerInit, FaultlessStepIsLedgerStep, PTL
   DEF Spec, ImplementsLedger
=============================================================================
