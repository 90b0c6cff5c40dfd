---------------------- MODULE AnchorStoreSqliteProofs ----------------------
(***************************************************************************)
(* The sqlite backend keeps the latest turn of every session and            *)
(* implements the ledger, for any number of threads, sessions and turns.    *)
(***************************************************************************)
EXTENDS AnchorStoreSqlite, TLAPS

(* A thread that saves has a record under a turn id that no client, no row  *)
(* and no other thread knows.                                               *)
HeldFresh ==
  \A t \in Thread : pc[t] = Built =>
    /\ held[t] \in Record
    /\ held[t].turn \in issued
    /\ \A r \in emitted : r.turn # held[t].turn
    /\ \A u \in Thread : u # t /\ pc[u] = Built => held[u].turn # held[t].turn

EmittedIssued ==
  /\ \A r \in emitted : r.turn \in issued
  /\ \A q, r \in emitted : q.turn = r.turn => q = r

(* The row of a session is a record of it that some save returned.          *)
RowsEmitted ==
  \A s \in Session : rows[s] # NoRecord => rows[s] \in emitted /\ rows[s].session = s

BeforeEmitted == \A i \in Turn : before[i] \subseteq {r.turn : r \in emitted}

(* What is not in the table has expired or was replaced.                    *)
LatestStored ==
  \A r \in emitted :
    \/ rows[r.session] = r
    \/ IsExpired(r)
    \/ \E q \in emitted : /\ q.session = r.session /\ q # r
                          /\ q.turn \notin before[r.turn]

IInv ==
  /\ TypeOK
  /\ HeldFresh
  /\ EmittedIssued
  /\ RowsEmitted
  /\ BeforeEmitted
  /\ LatestNotSuperseded
  /\ LatestStored

-----------------------------------------------------------------------------
LEMMA InitInv == Init => IInv
<1> SUFFICES ASSUME Init PROVE IInv
  OBVIOUS
<1>1. 0 \in 0 .. MaxTime
  BY MaxTimeAssumption
<1>2. TypeOK
  BY <1>1 DEF Init, TypeOK
<1>3. \A t \in Thread : pc[t] # Built
  BY DEF Init, Idle, Built
<1> QED
  BY <1>2, <1>3
     DEF Init, IInv, HeldFresh, EmittedIssued, RowsEmitted, BeforeEmitted,
         LatestNotSuperseded, LatestStored

(* A purge takes away expired rows only.                                    *)
LEMMA PurgedRow ==
  ASSUME NEW table \in [Session -> Record \cup {NoRecord}]
  PROVE  /\ Purged(table) \in [Session -> Record \cup {NoRecord}]
         /\ \A s \in Session :
              \/ Purged(table)[s] = table[s] /\ (table[s] # NoRecord => ~ IsExpired(table[s]))
              \/ /\ Purged(table)[s] = NoRecord
                 /\ table[s] # NoRecord /\ IsExpired(table[s])
BY DEF Purged

(* A purge of the table keeps everything; what is emitted does not change.  *)
LEMMA PurgeKeeps ==
  ASSUME IInv, rows' = Purged(rows), UNCHANGED <<now, issued, pc, held, history>>,
         ready' \in BOOLEAN
  PROVE  IInv'
<1>1. rows \in [Session -> Record \cup {NoRecord}]
  BY DEF IInv, TypeOK
<1>2. \A s \in Session :
        \/ rows'[s] = rows[s]
        \/ rows'[s] = NoRecord /\ rows[s] # NoRecord /\ IsExpired(rows[s])
  BY <1>1, PurgedRow
<1>3. TypeOK'
  BY <1>1, PurgedRow DEF IInv, TypeOK, history
<1>4. HeldFresh' /\ EmittedIssued' /\ BeforeEmitted'
  BY DEF IInv, HeldFresh, EmittedIssued, BeforeEmitted, history
<1>5. RowsEmitted' /\ LatestNotSuperseded'
  BY <1>2 DEF IInv, RowsEmitted, LatestNotSuperseded, history
<1>6. \A r \in emitted : r.session \in Session
  BY DEF IInv, TypeOK, Record
<1>7. LatestStored'
  BY <1>2, <1>6 DEF IInv, LatestStored, IsExpired, history
<1> QED
  BY <1>3, <1>4, <1>5, <1>7 DEF IInv

LEMMA BuildKeeps ==
  ASSUME IInv, NEW t \in Thread, NEW s \in Session, BuildRecord(t, s)
  PROVE  IInv'
<1> PICK i \in Turn \ issued :
      /\ issued' = issued \cup {i}
      /\ held' = [held EXCEPT ![t] =
                    [session |-> s, turn |-> i, expires |-> ExpiresAtFromNow]]
      /\ before' = [before EXCEPT ![i] = {r.turn : r \in emitted}]
  BY DEF BuildRecord
<1> DEFINE r == [session |-> s, turn |-> i, expires |-> ExpiresAtFromNow]
<1>1. /\ pc' = [pc EXCEPT ![t] = Built] /\ UNCHANGED <<now, rows, ready, emitted>>
      /\ pc[t] = Idle
  BY DEF BuildRecord
<1>2. r \in Record
  <2>1. ExpiresAtFromNow \in Instant
    BY TTLAssumption, MaxTimeAssumption DEF ExpiresAtFromNow, Instant, IInv, TypeOK
  <2> QED
    BY <2>1 DEF Record
<1>3. \A q \in emitted : q.turn \in issued /\ q.turn \in Turn /\ q.turn # i
  BY DEF IInv, EmittedIssued, TypeOK, Record
<1>4. TypeOK'
  BY <1>1, <1>2, <1>3 DEF IInv, TypeOK
<1>5. /\ held'[t] = r /\ pc'[t] = Built
      /\ \A u \in Thread : u # t => held'[u] = held[u] /\ pc'[u] = pc[u]
      /\ \A u \in Thread : pc[u] = Built => u # t /\ held[u].turn # i
  BY <1>1 DEF IInv, TypeOK, HeldFresh, Idle, Built
<1>6. HeldFresh'
  BY <1>1, <1>2, <1>3, <1>5 DEF IInv, HeldFresh
<1>7. EmittedIssued' /\ RowsEmitted'
  BY <1>1 DEF IInv, EmittedIssued, RowsEmitted
<1>8. /\ \A k \in Turn : k # i => before'[k] = before[k]
      /\ before'[i] = {q.turn : q \in emitted}
  BY DEF IInv, TypeOK
<1>9. BeforeEmitted'
  BY <1>1, <1>8 DEF IInv, BeforeEmitted
<1>10. \A q \in emitted : before'[q.turn] = before[q.turn]
  BY <1>3, <1>8
<1>11. LatestNotSuperseded' /\ LatestStored'
  BY <1>1, <1>10 DEF IInv, LatestNotSuperseded, LatestStored, IsExpired
<1> QED
  BY <1>4, <1>6, <1>7, <1>9, <1>11 DEF IInv

(* A commit puts the record that a thread holds in the place of the row of  *)
(* its session, unless its own time has run out, and purges.                *)
LEMMA CommitEffect ==
  ASSUME IInv, NEW t \in Thread, CommitRecord(t)
  PROVE  /\ held[t] \in Record /\ held[t].session \in Session /\ held[t] # NoRecord
         /\ rows' \in [Session -> Record \cup {NoRecord}]
         /\ rows'[held[t].session] = IF IsExpired(held[t]) THEN NoRecord ELSE held[t]
         /\ \A s \in Session : s # held[t].session =>
              \/ rows'[s] = rows[s]
              \/ rows'[s] = NoRecord /\ rows[s] # NoRecord /\ IsExpired(rows[s])
         /\ \A r \in emitted : r.turn # held[t].turn
<1> DEFINE r == held[t]
<1>1. r \in Record /\ r.session \in Session /\ \A q \in emitted : q.turn # r.turn
  BY DEF CommitRecord, IInv, HeldFresh, Record
<1>2. r # NoRecord
  BY <1>1, NoRecordAssumption
<1> DEFINE table == Upsert(r)
<1>3. /\ table \in [Session -> Record \cup {NoRecord}]
      /\ table[r.session] = r
      /\ \A s \in Session : s # r.session => table[s] = rows[s]
  BY <1>1 DEF Upsert, IInv, TypeOK
<1>4. rows' = Purged(table)
  BY DEF CommitRecord
<1> HIDE DEF r, table
<1>5. /\ Purged(table) \in [Session -> Record \cup {NoRecord}]
      /\ \A s \in Session :
           \/ Purged(table)[s] = table[s] /\ (table[s] # NoRecord => ~ IsExpired(table[s]))
           \/ /\ Purged(table)[s] = NoRecord
              /\ table[s] # NoRecord /\ IsExpired(table[s])
  BY <1>3, PurgedRow
<1>6. rows'[r.session] = IF IsExpired(r) THEN NoRecord ELSE r
  BY <1>1, <1>2, <1>3, <1>4, <1>5
<1>7. \A s \in Session : s # r.session =>
        \/ rows'[s] = rows[s]
        \/ rows'[s] = NoRecord /\ rows[s] # NoRecord /\ IsExpired(rows[s])
  BY <1>3, <1>4, <1>5
<1> QED
  BY <1>1, <1>2, <1>4, <1>5, <1>6, <1>7 DEF r

LEMMA CommitKeeps ==
  ASSUME IInv, NEW t \in Thread, CommitRecord(t)
  PROVE  IInv'
<1> DEFINE r == held[t]
<1>1. /\ r \in Record /\ r.session \in Session /\ r # NoRecord
      /\ rows' \in [Session -> Record \cup {NoRecord}]
      /\ rows'[r.session] = IF IsExpired(r) THEN NoRecord ELSE r
      /\ \A s \in Session : s # r.session =>
           \/ rows'[s] = rows[s]
           \/ rows'[s] = NoRecord /\ rows[s] # NoRecord /\ IsExpired(rows[s])
      /\ \A q \in emitted : q.turn # r.turn
  BY CommitEffect
<1>2. /\ emitted' = emitted \cup {r} /\ UNCHANGED <<now, ready, issued, before>>
      /\ pc' = [pc EXCEPT ![t] = Idle] /\ held' = [held EXCEPT ![t] = NoRecord]
      /\ pc[t] = Built
  BY DEF CommitRecord
<1>3. /\ pc'[t] # Built
      /\ \A u \in Thread : u # t => pc'[u] = pc[u] /\ held'[u] = held[u]
  BY <1>2 DEF IInv, TypeOK, Idle, Built
<1>4. /\ r.turn \in issued
      /\ \A u \in Thread : u # t /\ pc[u] = Built => held[u].turn # r.turn
  BY <1>2 DEF IInv, HeldFresh
<1> HIDE DEF r
<1>5. TypeOK'
  BY <1>1, <1>2 DEF IInv, TypeOK
<1>6. HeldFresh'
  BY <1>2, <1>3, <1>4 DEF IInv, HeldFresh
<1>7. EmittedIssued'
  BY <1>1, <1>2, <1>4 DEF IInv, EmittedIssued
<1>8. RowsEmitted'
  BY <1>1, <1>2 DEF IInv, RowsEmitted
<1>9. BeforeEmitted' /\ \A k \in Turn : r.turn \notin before[k]
  BY <1>1, <1>2 DEF IInv, BeforeEmitted
<1>10. \A q \in emitted \cup {r} : q.turn \in Turn /\ q.session \in Session
  BY <1>1 DEF IInv, TypeOK, Record
<1>11. LatestNotSuperseded'
  <2> SUFFICES ASSUME NEW s \in Session, rows'[s] # NoRecord,
                      NEW q \in emitted \cup {r}, q.session = s
               PROVE  rows'[s].turn \notin before[q.turn]
    BY <1>2 DEF LatestNotSuperseded
  <2>1. CASE s = r.session
    BY <1>1, <1>9, <1>10, <2>1
  <2>2. CASE s # r.session
    BY <1>1, <2>2 DEF IInv, LatestNotSuperseded
  <2> QED
    BY <2>1, <2>2
<1>12. LatestStored'
  <2> SUFFICES ASSUME NEW q \in emitted \cup {r}
               PROVE  \/ rows'[q.session] = q
                      \/ IsExpired(q)
                      \/ \E p \in emitted \cup {r} :
                           /\ p.session = q.session /\ p # q
                           /\ p.turn \notin before[q.turn]
    BY <1>2 DEF LatestStored, IsExpired
  <2>1. CASE q = r
    BY <1>1, <2>1
  <2>2. CASE q # r /\ q.session = r.session
    BY <1>9, <1>10, <2>2
  <2>3. CASE q # r /\ q.session # r.session
    BY <1>1, <1>10, <2>3 DEF IInv, LatestStored
  <2> QED
    BY <2>1, <2>2, <2>3
<1> QED
  BY <1>5, <1>6, <1>7, <1>8, <1>9, <1>11, <1>12 DEF IInv

(* A thread that gives up its record, and a clock that goes on, change      *)
(* nothing of what is stored.                                               *)
LEMMA EnvironmentKeeps ==
  ASSUME IInv, Tick \/ Restart \/ (\E t \in Thread : SaveFails(t)) \/ UNCHANGED vars
  PROVE  IInv'
<1>1. UNCHANGED <<rows, issued, emitted, before>>
  BY DEF Tick, Restart, SaveFails, history, vars
<1>2. now' \in 0 .. MaxTime /\ now' >= now
  BY MaxTimeAssumption DEF Tick, Restart, SaveFails, vars, IInv, TypeOK
<1>3. /\ ready' \in BOOLEAN
      /\ pc' \in [Thread -> {Idle, Built}] /\ held' \in [Thread -> Record \cup {NoRecord}]
      /\ \A t \in Thread : pc'[t] = Built => pc[t] = Built /\ held'[t] = held[t]
  BY DEF Tick, Restart, SaveFails, vars, IInv, TypeOK, Idle, Built
<1>4. TypeOK'
  BY <1>1, <1>2, <1>3 DEF IInv, TypeOK
<1>5. HeldFresh' /\ EmittedIssued' /\ RowsEmitted' /\ BeforeEmitted' /\ LatestNotSuperseded'
  BY <1>1, <1>3
     DEF IInv, HeldFresh, EmittedIssued, RowsEmitted, BeforeEmitted, LatestNotSuperseded
<1>6. \A r \in emitted : IsExpired(r) => IsExpired(r)'
  <2>1. now \in Nat /\ now' \in Nat /\ \A r \in emitted : r.expires \in Nat
    BY <1>2, MaxTimeAssumption, TTLAssumption DEF IInv, TypeOK, Record, Instant
  <2> QED
    BY <1>2, <2>1 DEF IsExpired
<1>7. LatestStored'
  BY <1>1, <1>6 DEF IInv, LatestStored
<1> QED
  BY <1>4, <1>5, <1>7 DEF IInv

LEMMA NextInv == IInv /\ [Next]_vars => IInv'
<1> SUFFICES ASSUME IInv, [Next]_vars PROVE IInv'
  OBVIOUS
<1>1. CASE EnsureSchema
  BY <1>1, PurgeKeeps DEF EnsureSchema
<1>2. CASE \E t \in Thread : (\E s \in Session : BuildRecord(t, s)) \/ CommitRecord(t)
  BY <1>2, BuildKeeps, CommitKeeps
<1> QED
  BY <1>1, <1>2, EnvironmentKeeps DEF Next

LEMMA InductiveInvariant == Spec => []IInv
BY InitInv, NextInv, PTL DEF Spec

-----------------------------------------------------------------------------
(* Threads, rows and clock keep their types.                                *)
THEOREM TypeCorrect == Spec => []TypeOK
<1>1. IInv => TypeOK
  BY DEF IInv
<1> QED
  BY <1>1, InductiveInvariant, PTL

(* Whatever saves overlap or fail, the row of a session is never older than *)
(* a turn of it that a client had before.                                   *)
THEOREM SessionsNeverGoBack == Spec => []LatestNotSuperseded
<1>1. IInv => LatestNotSuperseded
  BY DEF IInv
<1> QED
  BY <1>1, InductiveInvariant, PTL

(* What a lookup by session finds.                                          *)
LEMMA SessionRowIs ==
  ASSUME IInv, NEW s \in Session
  PROVE  /\ SessionRow(s) = IF rows[s] # NoRecord /\ ~ IsExpired(rows[s])
                            THEN rows[s] ELSE NoRecord
         /\ SessionRow(s) # NoRecord =>
              SessionRow(s) \in Record /\ SessionRow(s).session = s
BY DEF SessionRow, Purged, IInv, TypeOK, RowsEmitted

(* A record that is the row of its session is found by its turn id.         *)
LEMMA RowFoundByTurn ==
  ASSUME IInv, NEW r \in emitted, rows[r.session] = r, ~ IsExpired(r)
  PROVE  TurnRow(r.turn) = r
<1> DEFINE Holds(s) == rows[s] # NoRecord /\ rows[s].turn = r.turn
<1>1. r \in Record /\ r.session \in Session /\ r # NoRecord
  BY NoRecordAssumption DEF IInv, TypeOK, Record
<1>2. \A s \in Session : Holds(s) => s = r.session
  BY DEF IInv, RowsEmitted, EmittedIssued
<1>3. Holds(r.session)
  BY <1>1
<1>4. (CHOOSE s \in Session : Holds(s)) = r.session
  BY <1>1, <1>2, <1>3
<1>5. SessionRow(r.session) = r
  BY <1>1, SessionRowIs
<1> QED
  BY <1>1, <1>3, <1>4, <1>5 DEF TurnRow

(* The latest turn that a client has of a session is found until it expires,*)
(* unless a save that overlapped or followed it replaced its row.           *)
THEOREM LatestTurnsResolvable == Spec => []LatestTurnResolvable
<1>1. IInv => LatestTurnResolvable
  BY RowFoundByTurn DEF IInv, LatestStored, LatestTurnResolvable
<1> QED
  BY <1>1, InductiveInvariant, PTL

-----------------------------------------------------------------------------
(* What the ledger holds only depends on what the lookups find.             *)
LEMMA SameRowsStutter ==
  ASSUME UNCHANGED <<now, emitted>>, \A s \in Session : SessionRow(s)' = SessionRow(s)
  PROVE  UNCHANGED Ledger!vars
<1>1. LiveRows' = LiveRows /\ LatestRows' = LatestRows
  BY DEF LiveRows, LatestRows
<1> QED
  BY <1>1 DEF Ledger!vars

LEMMA ExpiryMeansNotUnexpired ==
  ASSUME NEW r \in Record, NEW t \in Nat
  PROVE  r.expires <= t <=> ~ Ledger!Unexpired(r, t)
BY TTLAssumption, MaxTimeAssumption DEF Ledger!Unexpired, Record, Instant

(* The transaction of a save is the ledger's Remember.                      *)
LEMMA CommitIsRemember ==
  ASSUME IInv, IInv', NEW t \in Thread, CommitRecord(t)
  PROVE  Ledger!Next
<1> DEFINE r == held[t]
<1>1. /\ r \in Record /\ r.session \in Session /\ r # NoRecord
      /\ rows'[r.session] = IF IsExpired(r) THEN NoRecord ELSE r
      /\ \A s \in Session : s # r.session =>
           \/ rows'[s] = rows[s]
           \/ rows'[s] = NoRecord /\ rows[s] # NoRecord /\ IsExpired(rows[s])
      /\ \A q \in emitted : q.turn # r.turn
  BY CommitEffect
<1>2. now' = now /\ emitted' = emitted \cup {r} /\ now \in Nat
  BY MaxTimeAssumption DEF CommitRecord, IInv, TypeOK
<1> HIDE DEF r
<1>3. IsExpired(r) <=> ~ Ledger!Unexpired(r, now)
  BY <1>1, <1>2, ExpiryMeansNotUnexpired DEF IsExpired
<1>4. \A s \in Session :
        SessionRow(s)' = IF s = r.session THEN Ledger!Visible(r, now) ELSE SessionRow(s)
  <2> SUFFICES ASSUME NEW s \in Session
               PROVE  SessionRow(s)' = IF s = r.session THEN Ledger!Visible(r, now)
                                       ELSE SessionRow(s)
    OBVIOUS
  <2>1. SessionRow(s)' = IF rows'[s] # NoRecord /\ ~ (rows'[s].expires <= now)
                         THEN rows'[s] ELSE NoRecord
    BY <1>2 DEF SessionRow, Purged, IsExpired
  <2>2. CASE s = r.session
    BY <1>1, <1>3, <2>1, <2>2 DEF Ledger!Visible, IsExpired
  <2>3. CASE s # r.session
    BY <1>1, <2>1, <2>3, SessionRowIs DEF IsExpired
  <2> QED
    BY <2>2, <2>3
<1>5. LatestRows' = [LatestRows EXCEPT ![r.session] = Ledger!Visible(r, now)]
  BY <1>1, <1>4 DEF LatestRows
<1>6. LiveRows' = {q \in LiveRows : q.session # r.session}
                  \cup (IF Ledger!Unexpired(r, now) THEN {r} ELSE {})
  <2>1. ASSUME NEW q
        PROVE  q \in LiveRows' <=>
                 \/ q \in LiveRows /\ q.session # r.session
                 \/ Ledger!Unexpired(r, now) /\ q = r
    <3>1. q \in LiveRows' <=> q # NoRecord /\ \E s \in Session : q = SessionRow(s)'
      BY DEF LiveRows
    <3>2. q \in LiveRows <=> q # NoRecord /\ \E s \in Session : q = SessionRow(s)
      BY DEF LiveRows
    <3>3. \A s \in Session : SessionRow(s) # NoRecord => SessionRow(s).session = s
      BY SessionRowIs
    <3>4. Ledger!Visible(r, now) = IF Ledger!Unexpired(r, now) THEN r ELSE NoRecord
      BY <1>1 DEF Ledger!Visible
    <3> QED
      BY <1>1, <1>4, <3>1, <3>2, <3>3, <3>4
  <2> QED
    BY <2>1
<1>7. Ledger!Remember(r)
  BY <1>1, <1>2, <1>5, <1>6 DEF Ledger!Remember
<1>8. r \in Ledger!Record
  BY <1>1 DEF Ledger!Record, Record
<1>9. \E q \in Ledger!Record : Ledger!Remember(q)
  BY <1>7, <1>8, Zenon
<1> QED
  BY <1>9, Zenon DEF Ledger!Next

(* Time takes from the ledger what expires.                                 *)
LEMMA TickIsPass ==
  ASSUME IInv, Tick
  PROVE  Ledger!Next
<1>1. now' = now + 1 /\ now < MaxTime /\ now \in Nat /\ UNCHANGED <<rows, emitted>>
  BY MaxTimeAssumption DEF Tick, history, IInv, TypeOK
<1>2. now' \in Instant /\ now' > now /\ now' \in Nat
  BY <1>1, TTLAssumption, MaxTimeAssumption DEF Instant
<1>3. \A r \in Record : /\ r.expires <= now' <=> ~ Ledger!Unexpired(r, now')
                        /\ r.expires <= now => r.expires <= now'
  <2>1. \A r \in Record : r.expires \in Nat
    BY TTLAssumption, MaxTimeAssumption DEF Record, Instant
  <2> QED
    BY <1>1, <1>2, <2>1, ExpiryMeansNotUnexpired
<1>4. \A s \in Session : SessionRow(s)' = Ledger!Visible(SessionRow(s), now')
  <2> SUFFICES ASSUME NEW s \in Session
               PROVE  SessionRow(s)' = Ledger!Visible(SessionRow(s), now')
    OBVIOUS
  <2>1. SessionRow(s)' = IF rows[s] # NoRecord /\ ~ (rows[s].expires <= now')
                         THEN rows[s] ELSE NoRecord
    BY <1>1 DEF SessionRow, Purged, IsExpired
  <2>2. rows[s] \in Record \cup {NoRecord}
    BY DEF IInv, TypeOK
  <2> QED
    BY <1>3, <2>1, <2>2, SessionRowIs DEF Ledger!Visible, IsExpired
<1>5. LatestRows' = [s \in Session |-> Ledger!Visible(LatestRows[s], now')]
  BY <1>4 DEF LatestRows
<1>6. LiveRows' = {r \in LiveRows : Ledger!Unexpired(r, now')}
  <2>1. ASSUME NEW q
        PROVE  q \in LiveRows' <=> q \in LiveRows /\ Ledger!Unexpired(q, now')
    <3>1. q \in LiveRows' <=> q # NoRecord /\ \E s \in Session : q = SessionRow(s)'
      BY DEF LiveRows
    <3>2. q \in LiveRows <=> q # NoRecord /\ \E s \in Session : q = SessionRow(s)
      BY DEF LiveRows
    <3> QED
      BY <1>4, <3>1, <3>2 DEF Ledger!Visible
  <2> QED
    BY <2>1
<1>7. Ledger!Pass
  BY <1>1, <1>2, <1>5, <1>6 DEF Ledger!Pass
<1> QED
  BY <1>7 DEF Ledger!Next

LEMMA InitIsLedgerInit == Init => Ledger!Init
<1> SUFFICES ASSUME Init PROVE Ledger!Init
  OBVIOUS
<1>1. \A s \in Session : SessionRow(s) = NoRecord
  BY DEF Init, SessionRow, Purged
<1>2. LiveRows = {} /\ LatestRows = [s \in Session |-> NoRecord]
  BY <1>1 DEF LiveRows, LatestRows
<1> QED
  BY <1>2 DEF Init, Ledger!Init

LEMMA StepIsLedgerStep == IInv /\ IInv' /\ [Next]_vars => [Ledger!Next]_(Ledger!vars)
<1> SUFFICES ASSUME IInv, IInv', [Next]_vars PROVE [Ledger!Next]_(Ledger!vars)
  OBVIOUS
<1>1. ASSUME UNCHANGED <<now, rows, emitted>> PROVE UNCHANGED Ledger!vars
  <2>1. \A s \in Session : SessionRow(s)' = SessionRow(s)
    BY <1>1 DEF SessionRow, Purged, IsExpired
  <2> QED
    BY <1>1, <2>1, SameRowsStutter
<1>2. CASE EnsureSchema
  <2>1. UNCHANGED <<now, emitted>> /\ rows' = Purged(rows)
    BY <1>2 DEF EnsureSchema, history
  <2>2. \A s \in Session : SessionRow(s)' = SessionRow(s)
    BY <2>1 DEF SessionRow, Purged, IsExpired
  <2> QED
    BY <2>1, <2>2, SameRowsStutter
<1>3. CASE \E t \in Thread : (\E s \in Session : BuildRecord(t, s)) \/ SaveFails(t)
  BY <1>1, <1>3 DEF BuildRecord, SaveFails, history
<1>4. CASE \E t \in Thread : CommitRecord(t)
  BY <1>4, CommitIsRemember
<1>5. CASE Tick
  BY <1>5, TickIsPass
<1>6. CASE Restart \/ UNCHANGED vars
  BY <1>1, <1>6 DEF Restart, vars, history
<1> QED
  BY <1>2, <1>3, <1>4, <1>5, <1>6 DEF Next

(* The table, written in transactions and purged whenever it is, is a       *)
(* ledger that survives restarts and keeps the latest turn of each session. *)
THEOREM SqliteImplementsLedger == Spec => ImplementsLedger
BY InductiveInvariant, InitIsLedgerInit, StepIsLedgerStep, PTL
   DEF Spec, ImplementsLedger, Ledger!Spec
=============================================================================
