----------------------- MODULE AnchorStoreMemoryProofs -----------------------
(***************************************************************************)
(* Theorems about AnchorStoreMemory, for any threads, sessions, turn ids   *)
(* and bounds: its safety invariants and that it implements AnchorLedger.  *)
(*                                                                         *)
(* The inductive invariant adds to the properties what the threads know.   *)
(* A record that is about to be stored has a turn id no dictionary, client *)
(* or other thread has ever seen; a record that a lookup still holds is    *)
(* the only one its turn id can find; and one about to be deleted has      *)
(* expired, which stays so because the clock only goes forward.            *)
(***************************************************************************)
EXTENDS AnchorStoreMemory, TLAPS

(* A dictionary entry stands under its own keys and has an issued turn id.  *)
EntriesKeyed ==
  /\ \A i \in Turn : byTurn[i] # NoRecord => byTurn[i].turn = i /\ i \in issued
  /\ \A r \in emitted : r.turn \in issued

(* What a thread holds is a record with an issued turn id.                  *)
HeldIssued ==
  \A t \in Thread : pc[t] # Idle => held[t] \in Record /\ held[t].turn \in issued

(* A record about to be stored is new to everyone else.                     *)
BuiltIsFresh ==
  \A t \in Thread : pc[t] = Built =>
    /\ byTurn[held[t].turn] = NoRecord
    /\ \A r \in emitted : r.turn # held[t].turn
    /\ \A u \in Thread \ {t} : pc[u] # Idle => held[u].turn # held[t].turn

(* A record that a lookup holds is what its turn id finds, if anything.     *)
ReadIsCurrent ==
  \A t \in Thread : pc[t] \in {Read, Expired} =>
    byTurn[held[t].turn] \in {held[t], NoRecord}

(* Only what has expired is deleted.                                        *)
DeletedIsExpired == \A t \in Thread : pc[t] = Expired => IsExpired(held[t])

(* The turns returned before some record was built are issued ones, and     *)
(* none of them is still to be stored.                                      *)
BeforeIsPast ==
  /\ \A i \in Turn : before[i] \subseteq issued
  /\ \A t \in Thread : pc[t] = Built =>
       \A i \in Turn : held[t].turn \notin before[i]

IInv ==
  /\ TypeOK
  /\ MapsAgree
  /\ EmittedTurnsResolvable
  /\ LatestNotSuperseded
  /\ EntriesKeyed
  /\ HeldIssued
  /\ BuiltIsFresh
  /\ ReadIsCurrent
  /\ DeletedIsExpired
  /\ BeforeIsPast

-----------------------------------------------------------------------------
LEMMA InitIInv == Init => IInv
BY TTLAssumption, MaxTimeAssumption
   DEF Init, IInv, TypeOK, MapsAgree, EmittedTurnsResolvable,
       LatestNotSuperseded, EntriesKeyed, HeldIssued, BuiltIsFresh,
       ReadIsCurrent, DeletedIsExpired, BeforeIsPast, Idle, Built, Read, Expired

(* Building a record touches the thread, the issued ids and one before set. *)
LEMMA BuildRecordIInv ==
  ASSUME IInv, NEW t \in Thread, NEW s \in Session, BuildRecord(t, s)
  PROVE  IInv'
<1> USE DEF Idle, Built, Read, Expired
<1>1. PICK i \in Turn \ issued :
        /\ issued' = issued \cup {i}
        /\ held' = [held EXCEPT ![t] =
              [session |-> s, turn |-> i, expires |-> ExpiresAtFromNow]]
        /\ before' = [before EXCEPT ![i] = {r.turn : r \in emitted}]
  BY DEF BuildRecord
<1>2. /\ pc[t] = Idle
      /\ pc' = [pc EXCEPT ![t] = Built]
      /\ UNCHANGED <<now, bySession, byTurn, emitted>>
  BY DEF BuildRecord, store
<1>3. held'[t] \in Record /\ held'[t].turn = i
  BY <1>1, TTLAssumption, MaxTimeAssumption
     DEF IInv, TypeOK, Record, Instant, ExpiresAtFromNow
<1>4. TypeOK'
  <2>1. {r.turn : r \in emitted} \subseteq Turn
    BY DEF IInv, TypeOK, Record
  <2>2. before' \in [Turn -> SUBSET Turn]
    BY <1>1, <2>1 DEF IInv, TypeOK
  <2>3. held' \in [Thread -> Record \cup {NoRecord}]
    BY <1>1, <1>3 DEF IInv, TypeOK
  <2>4. pc' \in [Thread -> {Idle, Built, Read, Expired}]
    BY <1>2 DEF IInv, TypeOK
  <2>5. issued' \in SUBSET Turn
    BY <1>1 DEF IInv, TypeOK
  <2>6. QED
    BY <1>2, <2>2, <2>3, <2>4, <2>5 DEF IInv, TypeOK
<1>5. MapsAgree' /\ EmittedTurnsResolvable'
  BY <1>2 DEF IInv, MapsAgree, EmittedTurnsResolvable, IsExpired
<1>6. EntriesKeyed'
  BY <1>1, <1>2 DEF IInv, EntriesKeyed
<1>7. \A q \in emitted : q.turn \in Turn /\ q.turn # i
  BY DEF IInv, EntriesKeyed, TypeOK, Record
<1>8. LatestNotSuperseded'
  <2>1. \A q \in emitted : before'[q.turn] = before[q.turn]
    BY <1>1, <1>7 DEF IInv, TypeOK
  <2>2. QED
    BY <1>2, <2>1 DEF IInv, LatestNotSuperseded
<1>9. \A u \in Thread \ {t} : held'[u] = held[u] /\ pc'[u] = pc[u]
  BY <1>1, <1>2 DEF IInv, TypeOK
<1>10. pc'[t] = Built
  BY <1>2 DEF IInv, TypeOK
<1>11. HeldIssued'
  BY <1>1, <1>3, <1>9 DEF IInv, HeldIssued
<1>12. BuiltIsFresh'
  <2>1. byTurn[i] = NoRecord
    BY DEF IInv, EntriesKeyed
  <2>2. \A u \in Thread \ {t} : pc[u] # Idle => held[u].turn # i
    BY DEF IInv, HeldIssued
  <2>3. QED
    BY <1>2, <1>3, <1>7, <1>9, <1>10, <2>1, <2>2 DEF IInv, BuiltIsFresh
<1>13. ReadIsCurrent' /\ DeletedIsExpired'
  BY <1>2, <1>9, <1>10 DEF IInv, ReadIsCurrent, DeletedIsExpired, IsExpired
<1>14. BeforeIsPast'
  <2>1. {r.turn : r \in emitted} \subseteq issued
    BY DEF IInv, EntriesKeyed
  <2>2. \A j \in Turn : before'[j] = IF j = i THEN {r.turn : r \in emitted}
                                     ELSE before[j]
    BY <1>1 DEF IInv, TypeOK
  <2>3. \A j \in Turn : before'[j] \subseteq issued
    BY <2>1, <2>2 DEF IInv, BeforeIsPast
  <2>4. \A j \in Turn : i \notin before'[j]
    BY <2>3
  <2>5. ASSUME NEW u \in Thread \ {t}, pc[u] = Built, NEW j \in Turn
        PROVE  held[u].turn \notin before'[j]
    <3>1. held[u].turn \notin {r.turn : r \in emitted}
      BY <2>5 DEF IInv, BuiltIsFresh
    <3>2. held[u].turn \notin before[j]
      BY <2>5 DEF IInv, BeforeIsPast
    <3>3. QED
      BY <2>2, <3>1, <3>2
  <2>6. QED
    BY <1>1, <1>3, <1>9, <1>10, <2>3, <2>4, <2>5 DEF BeforeIsPast
<1>15. QED
  BY <1>4, <1>5, <1>6, <1>8, <1>11, <1>12, <1>13, <1>14 DEF IInv

(* Storing the fresh record of a thread: no other entry changes.            *)
LEMMA StoreRecordIInv ==
  ASSUME IInv, NEW t \in Thread, StoreRecord(t)
  PROVE  IInv'
<1> USE DEF Idle, Built, Read, Expired
<1> DEFINE r == held[t]
<1>1. /\ pc[t] = Built
      /\ bySession' = [bySession EXCEPT ![r.session] = r]
      /\ byTurn' = [byTurn EXCEPT ![r.turn] = r]
      /\ emitted' = emitted \cup {r}
      /\ pc' = [pc EXCEPT ![t] = Idle]
      /\ held' = [held EXCEPT ![t] = NoRecord]
      /\ UNCHANGED <<now, issued, before>>
  BY DEF StoreRecord, SessionsAfterSave, TurnsAfterSave
<1>2. /\ r \in Record /\ r # NoRecord
      /\ r.session \in Session /\ r.turn \in Turn /\ r.turn \in issued
      /\ byTurn[r.turn] = NoRecord
      /\ \A q \in emitted : q.turn # r.turn
  BY <1>1, NoRecordAssumption DEF IInv, HeldIssued, BuiltIsFresh, Record
<1> HIDE DEF r
<1>3. TypeOK'
  BY <1>1, <1>2 DEF IInv, TypeOK
<1>4. \A i \in Turn : byTurn'[i] = IF i = r.turn THEN r ELSE byTurn[i]
  BY <1>1, <1>2 DEF IInv, TypeOK
<1>5. \A s \in Session : bySession'[s] = IF s = r.session THEN r ELSE bySession[s]
  BY <1>1, <1>2 DEF IInv, TypeOK
<1>6. MapsAgree'
  <2>1. \A s \in Session : bySession[s] # NoRecord =>
          bySession[s].turn \in Turn /\ bySession[s].turn # r.turn
    BY <1>2 DEF IInv, TypeOK, MapsAgree, Record
  <2>2. QED
    BY <1>2, <1>4, <1>5, <2>1 DEF IInv, MapsAgree
<1>7. EmittedTurnsResolvable'
  <2>1. \A q \in emitted : q.turn \in Turn
    BY DEF IInv, TypeOK, Record
  <2>2. QED
    BY <1>1, <1>2, <1>4, <2>1 DEF IInv, EmittedTurnsResolvable, IsExpired
<1>8. LatestNotSuperseded'
  <2>1. \A i \in Turn : r.turn \notin before[i]
    BY <1>1 DEF IInv, BeforeIsPast, r
  <2>2. \A q \in emitted' : q.turn \in Turn
    BY <1>1, <1>2 DEF IInv, TypeOK, Record
  <2>3. ASSUME NEW s \in Session, s # r.session, bySession[s] # NoRecord,
               NEW q \in emitted', q.session = s
        PROVE  bySession[s].turn \notin before[q.turn]
    BY <1>1, <2>3 DEF IInv, LatestNotSuperseded
  <2>4. QED
    BY <1>1, <1>5, <2>1, <2>2, <2>3 DEF LatestNotSuperseded
<1>9. EntriesKeyed'
  BY <1>1, <1>2, <1>4 DEF IInv, EntriesKeyed
<1>10. /\ pc'[t] = Idle
       /\ \A u \in Thread \ {t} : held'[u] = held[u] /\ pc'[u] = pc[u]
  BY <1>1 DEF IInv, TypeOK
<1>11. HeldIssued' /\ DeletedIsExpired' /\ BeforeIsPast'
  BY <1>1, <1>10
     DEF IInv, HeldIssued, DeletedIsExpired, BeforeIsPast, IsExpired
<1>12. \A u \in Thread \ {t} : pc[u] # Idle =>
         held[u].turn # r.turn /\ held[u].turn \in Turn
  BY <1>1 DEF IInv, BuiltIsFresh, HeldIssued, Record, r
<1>13. BuiltIsFresh'
  BY <1>1, <1>4, <1>10, <1>12 DEF IInv, BuiltIsFresh
<1>14. ReadIsCurrent'
  BY <1>4, <1>10, <1>12 DEF IInv, ReadIsCurrent
<1>15. QED
  BY <1>3, <1>6, <1>7, <1>8, <1>9, <1>11, <1>13, <1>14 DEF IInv

(* A lookup holds what it read from one of the dictionaries.                *)
LEMMA LookUpIInv ==
  ASSUME IInv, NEW t \in Thread, NEW r, LookUp(t, r),
         (\E i \in Turn : r = byTurn[i]) \/ (\E s \in Session : r = bySession[s])
  PROVE  IInv'
<1> USE DEF Idle, Built, Read, Expired
<1>1. /\ pc[t] = Idle /\ r # NoRecord
      /\ pc' = [pc EXCEPT ![t] = Read]
      /\ held' = [held EXCEPT ![t] = r]
      /\ UNCHANGED <<now, bySession, byTurn, issued, emitted, before>>
  BY DEF LookUp, store, history
<1>2. r \in Record /\ r.turn \in Turn /\ byTurn[r.turn] = r /\ r.turn \in issued
  BY <1>1 DEF IInv, TypeOK, MapsAgree, EntriesKeyed, Record
<1>3. /\ pc'[t] = Read /\ held'[t] = r
      /\ \A u \in Thread \ {t} : held'[u] = held[u] /\ pc'[u] = pc[u]
  BY <1>1 DEF IInv, TypeOK
<1>4. TypeOK'
  BY <1>1, <1>2 DEF IInv, TypeOK
<1>5. /\ MapsAgree' /\ EmittedTurnsResolvable'
      /\ LatestNotSuperseded' /\ EntriesKeyed'
  BY <1>1 DEF IInv, MapsAgree, EmittedTurnsResolvable, LatestNotSuperseded,
              EntriesKeyed, IsExpired
<1>6. HeldIssued'
  BY <1>1, <1>2, <1>3 DEF IInv, HeldIssued
<1>7. BuiltIsFresh'
  BY <1>1, <1>2, <1>3 DEF IInv, BuiltIsFresh
<1>8. ReadIsCurrent' /\ DeletedIsExpired' /\ BeforeIsPast'
  BY <1>1, <1>2, <1>3
     DEF IInv, ReadIsCurrent, DeletedIsExpired, BeforeIsPast, IsExpired
<1>9. QED
  BY <1>4, <1>5, <1>6, <1>7, <1>8 DEF IInv

(* Testing the expiry leaves the dictionaries alone.                        *)
LEMMA TestExpiryIInv ==
  ASSUME IInv, NEW t \in Thread, TestExpiry(t)
  PROVE  IInv'
<1> USE DEF Idle, Built, Read, Expired
<1>1. /\ pc[t] = Read
      /\ UNCHANGED <<now, bySession, byTurn, issued, emitted, before>>
      /\ \/ /\ IsExpired(held[t])
            /\ pc' = [pc EXCEPT ![t] = Expired]
            /\ held' = held
         \/ /\ pc' = [pc EXCEPT ![t] = Idle]
            /\ held' = [held EXCEPT ![t] = NoRecord]
  BY DEF TestExpiry, store, history
<1>2. TypeOK'
  BY <1>1 DEF IInv, TypeOK
<1>3. \A u \in Thread \ {t} : held'[u] = held[u] /\ pc'[u] = pc[u]
  BY <1>1 DEF IInv, TypeOK
<1>4. \/ pc'[t] = Idle
      \/ pc'[t] = Expired /\ held'[t] = held[t] /\ IsExpired(held[t])
  BY <1>1 DEF IInv, TypeOK
<1>5. /\ MapsAgree' /\ EmittedTurnsResolvable'
      /\ LatestNotSuperseded' /\ EntriesKeyed'
  BY <1>1 DEF IInv, MapsAgree, EmittedTurnsResolvable, LatestNotSuperseded,
              EntriesKeyed, IsExpired
<1>6. HeldIssued' /\ BuiltIsFresh'
  BY <1>1, <1>3, <1>4 DEF IInv, HeldIssued, BuiltIsFresh
<1>7. ReadIsCurrent' /\ DeletedIsExpired' /\ BeforeIsPast'
  BY <1>1, <1>3, <1>4
     DEF IInv, ReadIsCurrent, DeletedIsExpired, BeforeIsPast, IsExpired
<1>8. QED
  BY <1>2, <1>5, <1>6, <1>7 DEF IInv

(* Deleting an expired record: a newer record of its session stays, and its *)
(* turn id finds no other record.                                           *)
LEMMA DeleteRecordIInv ==
  ASSUME IInv, NEW t \in Thread, DeleteRecord(t)
  PROVE  IInv'
<1> USE DEF Idle, Built, Read, Expired
<1> DEFINE r == held[t]
<1>1. /\ pc[t] = Expired
      /\ bySession' = IF StillLatest(r)
                      THEN [bySession EXCEPT ![r.session] = NoRecord]
                      ELSE bySession
      /\ byTurn' = [byTurn EXCEPT ![r.turn] = NoRecord]
      /\ pc' = [pc EXCEPT ![t] = Idle]
      /\ held' = [held EXCEPT ![t] = NoRecord]
      /\ UNCHANGED <<now, issued, emitted, before>>
  BY DEF DeleteRecord, history
<1>2. /\ r \in Record /\ r.session \in Session /\ r.turn \in Turn
      /\ byTurn[r.turn] \in {r, NoRecord}
      /\ IsExpired(r)
  BY <1>1 DEF IInv, HeldIssued, ReadIsCurrent, DeletedIsExpired, Record
<1> HIDE DEF r
<1>3. TypeOK'
  BY <1>1, <1>2 DEF IInv, TypeOK
<1>4. \A i \in Turn : byTurn'[i] = IF i = r.turn THEN NoRecord ELSE byTurn[i]
  BY <1>1, <1>2 DEF IInv, TypeOK
<1>5. \A s \in Session :
        \/ bySession'[s] = NoRecord
        \/ bySession'[s] = bySession[s] /\ bySession[s].turn # r.turn
  <2>1. ASSUME NEW s \in Session, bySession[s] # NoRecord, bySession[s].turn = r.turn
        PROVE  bySession[s] = r
    BY <1>2, <2>1 DEF IInv, MapsAgree
  <2>2. CASE StillLatest(r)
    BY <1>1, <1>2, <2>1, <2>2 DEF IInv, TypeOK, MapsAgree
  <2>3. CASE ~ StillLatest(r)
    <3>1. bySession' = bySession
      BY <1>1, <2>3
    <3>2. ASSUME NEW s \in Session, bySession[s] # NoRecord,
                 bySession[s].turn = r.turn
          PROVE  FALSE
      <4>1. bySession[s] = r /\ s = r.session
        BY <2>1, <3>2 DEF IInv, MapsAgree
      <4>2. QED
        BY <2>3, <3>2, <4>1 DEF StillLatest
    <3>3. QED
      BY <3>1, <3>2
  <2>4. QED
    BY <2>2, <2>3
<1>6. MapsAgree'
  <2>1. \A s \in Session : bySession[s] # NoRecord => bySession[s].turn \in Turn
    BY DEF IInv, TypeOK, Record
  <2>2. QED
    BY <1>4, <1>5, <2>1 DEF IInv, MapsAgree
<1>7. EmittedTurnsResolvable'
  <2>1. ASSUME NEW q \in emitted, ~ IsExpired(q)
        PROVE  q.turn \in Turn /\ byTurn[q.turn] = q /\ q.turn # r.turn
    <3>1. q.turn \in Turn /\ q # NoRecord
      BY NoRecordAssumption DEF IInv, TypeOK, Record
    <3>2. byTurn[q.turn] = q
      BY <2>1 DEF IInv, EmittedTurnsResolvable
    <3>3. QED
      BY <1>2, <2>1, <3>1, <3>2
  <2>2. QED
    BY <1>1, <1>4, <2>1 DEF EmittedTurnsResolvable, IsExpired
<1>8. LatestNotSuperseded'
  BY <1>1, <1>5 DEF IInv, LatestNotSuperseded
<1>9. EntriesKeyed'
  BY <1>1, <1>4 DEF IInv, EntriesKeyed
<1>10. /\ pc'[t] = Idle
       /\ \A u \in Thread \ {t} : held'[u] = held[u] /\ pc'[u] = pc[u]
  BY <1>1 DEF IInv, TypeOK
<1>11. HeldIssued' /\ DeletedIsExpired' /\ BeforeIsPast'
  BY <1>1, <1>10
     DEF IInv, HeldIssued, DeletedIsExpired, BeforeIsPast, IsExpired
<1>12. \A u \in Thread : pc[u] # Idle => held[u].turn \in Turn
  BY DEF IInv, HeldIssued, Record
<1>13. BuiltIsFresh' /\ ReadIsCurrent'
  BY <1>1, <1>4, <1>10, <1>12 DEF IInv, BuiltIsFresh, ReadIsCurrent
<1>14. QED
  BY <1>3, <1>6, <1>7, <1>8, <1>9, <1>11, <1>13 DEF IInv

(* The clock only goes forward: what has expired stays expired.             *)
LEMMA TickIInv == ASSUME IInv, Tick PROVE IInv'
<1>1. /\ now' = now + 1 /\ now < MaxTime
      /\ UNCHANGED <<bySession, byTurn, issued, emitted, before, pc, held>>
  BY DEF Tick, store, history
<1>2. now \in Nat /\ TypeOK'
  BY <1>1, MaxTimeAssumption DEF IInv, TypeOK
<1>3. \A r \in Record : r.expires \in Nat
  BY TTLAssumption, MaxTimeAssumption DEF Record, Instant
<1>4. \A r \in Record : IsExpired(r) => IsExpired(r)'
  BY <1>1, <1>2, <1>3 DEF IsExpired
<1>5. emitted \subseteq Record
  BY DEF IInv, TypeOK
<1>6. EmittedTurnsResolvable'
  BY <1>1, <1>4, <1>5 DEF IInv, EmittedTurnsResolvable, IsExpired
<1>7. DeletedIsExpired'
  <2>1. \A t \in Thread : pc[t] = Expired => held[t] \in Record
    BY DEF IInv, HeldIssued, Expired, Idle
  <2>2. QED
    BY <1>1, <1>4, <2>1 DEF IInv, DeletedIsExpired, IsExpired
<1>8. QED
  BY <1>1, <1>2, <1>6, <1>7
     DEF IInv, MapsAgree, LatestNotSuperseded, EntriesKeyed, HeldIssued,
         BuiltIsFresh, ReadIsCurrent, BeforeIsPast

(* A restart leaves nothing but the issued ids and the history of them.     *)
LEMMA RestartIInv == ASSUME IInv, Restart PROVE IInv'
<1> USE DEF Idle, Built, Read, Expired
<1>1. /\ bySession' = [s \in Session |-> NoRecord]
      /\ byTurn' = [i \in Turn |-> NoRecord]
      /\ emitted' = {}
      /\ pc' = [t \in Thread |-> Idle]
      /\ held' = [t \in Thread |-> NoRecord]
      /\ UNCHANGED <<now, issued, before>>
  BY DEF Restart
<1>2. TypeOK' /\ BeforeIsPast'
  BY <1>1 DEF IInv, TypeOK, BeforeIsPast
<1>3. QED
  BY <1>1, <1>2
     DEF IInv, MapsAgree, EmittedTurnsResolvable, LatestNotSuperseded,
         EntriesKeyed, HeldIssued, BuiltIsFresh, ReadIsCurrent, DeletedIsExpired

LEMMA NextIInv == IInv /\ [Next]_vars => IInv'
<1> SUFFICES ASSUME IInv, [Next]_vars PROVE IInv'
  OBVIOUS
<1>1. ASSUME NEW t \in Thread, Step(t) PROVE IInv'
  <2>1. ASSUME NEW s \in Session, BuildRecord(t, s) PROVE IInv'
    BY <2>1, BuildRecordIInv
  <2>2. ASSUME NEW s \in Session, LookUpSession(t, s) PROVE IInv'
    BY <2>2, LookUpIInv DEF LookUpSession
  <2>3. ASSUME NEW i \in Turn, LookUpTurn(t, i) PROVE IInv'
    BY <2>3, LookUpIInv DEF LookUpTurn
  <2>4. CASE StoreRecord(t)
    BY <2>4, StoreRecordIInv
  <2>5. CASE TestExpiry(t)
    BY <2>5, TestExpiryIInv
  <2>6. CASE DeleteRecord(t)
    BY <2>6, DeleteRecordIInv
  <2>7. QED
    BY <1>1, <2>1, <2>2, <2>3, <2>4, <2>5, <2>6 DEF Step
<1>2. CASE Tick
  BY <1>2, TickIInv
<1>3. CASE Restart
  BY <1>3, RestartIInv
<1>4. CASE UNCHANGED vars
  BY <1>4 DEF vars, store, history, IInv, TypeOK, MapsAgree,
              EmittedTurnsResolvable, LatestNotSuperseded, EntriesKeyed,
              HeldIssued, BuiltIsFresh, ReadIsCurrent, DeletedIsExpired,
              BeforeIsPast, IsExpired
<1>5. QED
  BY <1>1, <1>2, <1>3, <1>4 DEF Next

-----------------------------------------------------------------------------
(* The inductive invariant holds in every reachable state.                  *)
THEOREM InductiveInvariant == Spec => []IInv
BY InitIInv, NextIInv, PTL DEF Spec

(* Type correctness of the memory backend.                                  *)
THEOREM TypeCorrect == Spec => []TypeOK
<1>1. IInv => TypeOK
  BY DEF IInv
<1>2. QED
  BY <1>1, InductiveInvariant, PTL

(* _BY_SESSION and _BY_TURN agree for any number of threads.                *)
THEOREM DictionariesAgree == Spec => []MapsAgree
<1>1. IInv => MapsAgree
  BY DEF IInv
<1>2. QED
  BY <1>1, InductiveInvariant, PTL

(* A turn id returned to a client finds its record until it expires.        *)
THEOREM PriorTurnsResolvable == Spec => []EmittedTurnsResolvable
<1>1. IInv => EmittedTurnsResolvable
  BY DEF IInv
<1>2. QED
  BY <1>1, InductiveInvariant, PTL

(* A session lookup never goes back behind a turn a client already had.     *)
THEOREM SessionsNeverGoBack == Spec => []LatestNotSuperseded
<1>1. IInv => LatestNotSuperseded
  BY DEF IInv
<1>2. QED
  BY <1>1, InductiveInvariant, PTL

-----------------------------------------------------------------------------
(* A save is the ledger's Remember when its thread stores the record; the   *)
(* clock is Pass; a restart is Forget; building a record, looking one up    *)
(* and deleting an expired one change nothing that the ledger knows of.     *)
LEMMA LiveTurnsDef ==
  \A q : q \in LiveTurns <=> /\ \E i \in Turn : q = byTurn[i]
                             /\ q # NoRecord
                             /\ ~ IsExpired(q)
BY DEF LiveTurns

(* Expired and absent are the same to the ledger.                           *)
LEMMA ExpiryMeansNotUnexpired ==
  ASSUME NEW r \in Record, NEW n \in Nat
  PROVE  r.expires <= n <=> ~ Ledger!Unexpired(r, n)
<1>1. r.expires \in Nat
  BY TTLAssumption, MaxTimeAssumption DEF Record, Instant
<1>2. QED
  BY <1>1 DEF Ledger!Unexpired

LEMMA SameDictionariesStutter ==
  ASSUME UNCHANGED <<now, bySession, byTurn, emitted>>
  PROVE  UNCHANGED Ledger!vars
BY DEF Ledger!vars, LiveTurns, LatestLive, IsExpired

LEMMA StoreIsRemember ==
  ASSUME IInv, NEW t \in Thread, StoreRecord(t)
  PROVE  Ledger!Next
<1> DEFINE r == held[t]
<1>1. /\ bySession' = [bySession EXCEPT ![r.session] = r]
      /\ byTurn' = [byTurn EXCEPT ![r.turn] = r]
      /\ emitted' = emitted \cup {r}
      /\ now' = now
  BY DEF StoreRecord, SessionsAfterSave, TurnsAfterSave
<1>2. /\ r \in Record /\ r # NoRecord
      /\ r.session \in Session /\ r.turn \in Turn
      /\ byTurn[r.turn] = NoRecord
  BY NoRecordAssumption
     DEF StoreRecord, IInv, HeldIssued, BuiltIsFresh, Record, Built, Idle
<1> HIDE DEF r
<1>3. now \in Nat /\ (IsExpired(r) <=> ~ Ledger!Unexpired(r, now))
  BY <1>2, ExpiryMeansNotUnexpired, MaxTimeAssumption DEF IInv, TypeOK, IsExpired
<1>4. \A i \in Turn : byTurn'[i] = IF i = r.turn THEN r ELSE byTurn[i]
  BY <1>1, <1>2 DEF IInv, TypeOK
<1>5. \A q \in emitted : q.turn # r.turn
  BY DEF StoreRecord, IInv, BuiltIsFresh, r
<1>6. LiveTurns' = LiveTurns \cup (IF Ledger!Unexpired(r, now) THEN {r} ELSE {})
  <2>1. ASSUME NEW q
        PROVE  q \in LiveTurns' <=>
                 q \in LiveTurns \/ (q = r /\ Ledger!Unexpired(r, now))
    <3>1. q \in LiveTurns' <=> /\ \E i \in Turn : q = byTurn'[i]
                               /\ q # NoRecord
                               /\ ~ (q.expires <= now)
      BY <1>1 DEF LiveTurns, IsExpired
    <3>2. QED
      BY <1>2, <1>3, <1>4, <3>1, LiveTurnsDef DEF IsExpired
  <2>2. QED
    BY <2>1
<1>7. LatestLive' = [LatestLive EXCEPT ![r.session] = Ledger!Visible(r, now)]
  <2>1. \A s \in Session : bySession'[s] = IF s = r.session THEN r ELSE bySession[s]
    BY <1>1, <1>2 DEF IInv, TypeOK
  <2>2. LatestLive' = [s \in Session |->
          IF bySession'[s] # NoRecord /\ ~ (bySession'[s].expires <= now)
          THEN bySession'[s] ELSE NoRecord]
    BY <1>1 DEF LatestLive, IsExpired
  <2>3. QED
    BY <1>2, <1>3, <2>1, <2>2 DEF LatestLive, IsExpired, Ledger!Visible
<1>8. Ledger!Remember(r)
  BY <1>1, <1>5, <1>6, <1>7 DEF Ledger!Remember
<1>9. r \in Ledger!Record
  BY <1>2 DEF Record, Ledger!Record
<1>10. QED
  BY <1>8, <1>9 DEF Ledger!Next

LEMMA DeleteIsStutter ==
  ASSUME IInv, NEW t \in Thread, DeleteRecord(t)
  PROVE  UNCHANGED Ledger!vars
<1> DEFINE r == held[t]
<1>1. /\ bySession' = IF StillLatest(r)
                      THEN [bySession EXCEPT ![r.session] = NoRecord]
                      ELSE bySession
      /\ byTurn' = [byTurn EXCEPT ![r.turn] = NoRecord]
      /\ now' = now /\ emitted' = emitted
  BY DEF DeleteRecord, history
<1>2. /\ r \in Record /\ r.session \in Session /\ r.turn \in Turn
      /\ byTurn[r.turn] \in {r, NoRecord}
      /\ IsExpired(r)
  BY DEF DeleteRecord, IInv, HeldIssued, ReadIsCurrent, DeletedIsExpired,
         Record, Expired, Idle
<1> HIDE DEF r
<1>3. \A i \in Turn : byTurn'[i] = IF i = r.turn THEN NoRecord ELSE byTurn[i]
  BY <1>1, <1>2 DEF IInv, TypeOK
<1>4. LiveTurns' = LiveTurns
  <2>1. ASSUME NEW q PROVE q \in LiveTurns' <=> q \in LiveTurns
    <3>1. q \in LiveTurns' <=> /\ \E i \in Turn : q = byTurn'[i]
                               /\ q # NoRecord
                               /\ ~ IsExpired(q)
      BY <1>1 DEF LiveTurns, IsExpired
    <3>2. QED
      BY <1>2, <1>3, <3>1, LiveTurnsDef
  <2>2. QED
    BY <2>1
<1>5. CASE StillLatest(r)
  <2>1. bySession[r.session] = r
    BY <1>2, <1>5 DEF StillLatest, IInv, MapsAgree
  <2>2. \A s \in Session :
          bySession'[s] = IF s = r.session THEN NoRecord ELSE bySession[s]
    BY <1>1, <1>2, <1>5 DEF IInv, TypeOK
  <2>3. LatestLive' = LatestLive
    BY <1>1, <1>2, <2>1, <2>2 DEF LatestLive, IsExpired
  <2>4. QED
    BY <1>1, <1>4, <2>3 DEF Ledger!vars
<1>6. CASE ~ StillLatest(r)
  BY <1>1, <1>4, <1>6 DEF Ledger!vars, LatestLive, IsExpired
<1>7. QED
  BY <1>5, <1>6

LEMMA TickIsPass ==
  ASSUME IInv, Tick
  PROVE  Ledger!Next
<1>1. /\ now' = now + 1 /\ now < MaxTime /\ now \in Nat
      /\ bySession' = bySession /\ byTurn' = byTurn /\ emitted' = emitted
  BY MaxTimeAssumption DEF Tick, store, history, IInv, TypeOK
<1>2. now' \in Instant /\ now' > now /\ now' \in Nat
  BY <1>1, TTLAssumption, MaxTimeAssumption DEF Instant
<1>3. \A r \in Record : /\ r.expires <= now' <=> ~ Ledger!Unexpired(r, now')
                        /\ r.expires <= now => r.expires <= now'
  <2>1. \A r \in Record : r.expires \in Nat
    BY TTLAssumption, MaxTimeAssumption DEF Record, Instant
  <2>2. QED
    BY <1>1, <1>2, <2>1, ExpiryMeansNotUnexpired
<1>4. LiveTurns' = {r \in LiveTurns : Ledger!Unexpired(r, now')}
  <2>1. \A i \in Turn : byTurn[i] \in Record \cup {NoRecord}
    BY DEF IInv, TypeOK
  <2>2. ASSUME NEW q
        PROVE  q \in LiveTurns' <=> q \in LiveTurns /\ Ledger!Unexpired(q, now')
    <3>1. q \in LiveTurns' <=> /\ \E i \in Turn : q = byTurn[i]
                               /\ q # NoRecord
                               /\ ~ (q.expires <= now')
      BY <1>1 DEF LiveTurns, IsExpired
    <3>2. QED
      BY <1>3, <2>1, <3>1, LiveTurnsDef DEF IsExpired
  <2>3. QED
    BY <2>2
<1>5. LatestLive' = [s \in Session |-> Ledger!Visible(LatestLive[s], now')]
  <2>1. \A s \in Session : bySession[s] \in Record \cup {NoRecord}
    BY DEF IInv, TypeOK
  <2>2. LatestLive' = [s \in Session |->
          IF bySession[s] # NoRecord /\ ~ (bySession[s].expires <= now')
          THEN bySession[s] ELSE NoRecord]
    BY <1>1 DEF LatestLive, IsExpired
  <2>3. QED
    BY <1>3, <2>1, <2>2 DEF LatestLive, IsExpired, Ledger!Visible
<1>6. Ledger!Pass
  BY <1>1, <1>2, <1>4, <1>5 DEF Ledger!Pass
<1>7. QED
  BY <1>6 DEF Ledger!Next

LEMMA RestartIsForget ==
  ASSUME Restart
  PROVE  Ledger!Next
<1>1. LiveTurns' = {} /\ LatestLive' = [s \in Session |-> NoRecord]
      /\ now' = now /\ emitted' = {}
  BY DEF Restart, LiveTurns, LatestLive, IsExpired
<1>2. Ledger!Forget
  BY <1>1 DEF Ledger!Forget
<1>3. QED
  BY <1>2 DEF Ledger!Next

LEMMA InitIsLedgerInit == Init => Ledger!Init
BY DEF Init, Ledger!Init, LiveTurns, LatestLive

LEMMA StepIsLedgerStep == IInv /\ [Next]_vars => [Ledger!Next]_(Ledger!vars)
<1> SUFFICES ASSUME IInv, [Next]_vars PROVE [Ledger!Next]_(Ledger!vars)
  OBVIOUS
<1>1. ASSUME NEW t \in Thread, Step(t) PROVE [Ledger!Next]_(Ledger!vars)
  <2>1. CASE StoreRecord(t)
    BY <2>1, StoreIsRemember
  <2>2. CASE DeleteRecord(t)
    BY <2>2, DeleteIsStutter
  <2>3. CASE \/ \E s \in Session : BuildRecord(t, s) \/ LookUpSession(t, s)
             \/ \E i \in Turn : LookUpTurn(t, i)
             \/ TestExpiry(t)
    BY <2>3, SameDictionariesStutter
       DEF BuildRecord, LookUpSession, LookUpTurn, LookUp, TestExpiry, store, history
  <2>4. QED
    BY <1>1, <2>1, <2>2, <2>3 DEF Step
<1>2. CASE Tick
  BY <1>2, TickIsPass
<1>3. CASE Restart
  BY <1>3, RestartIsForget
<1>4. CASE UNCHANGED vars
  BY <1>4, SameDictionariesStutter DEF vars, store, history
<1>5. QED
  BY <1>1, <1>2, <1>3, <1>4 DEF Next

(* The two dictionaries, with their lock held for single accesses only, are *)
(* a ledger: what is saved can be found by turn and as the latest of its    *)
(* session until it expires, and a late deletion removes nothing live.      *)
THEOREM MemoryImplementsLedger == Spec => ImplementsLedger
<1>1. Spec => []IInv
  BY InductiveInvariant
<1>2. QED
  BY <1>1, InitIsLedgerInit, StepIsLedgerStep, PTL
     DEF Spec, ImplementsLedger, Ledger!Spec
=============================================================================
