-------------------------- MODULE AnchorStoreMemory --------------------------
(***************************************************************************)
(* The process-local backend of domains/conversation/anchor_store.py: two  *)
(* dictionaries, _BY_SESSION and _BY_TURN, under one re-entrant lock, used *)
(* by the worker threads that run the synchronous route handlers.          *)
(*                                                                         *)
(* The lock covers each dictionary access and nothing else.  A save builds *)
(* its record, expiry time included, before it takes the lock; a lookup    *)
(* reads a record under the lock, tests its expiry outside of it and, when *)
(* it has expired, takes the lock again to delete it.  Each of these is a  *)
(* step, so other threads and the clock come between them.                 *)
(***************************************************************************)
EXTENDS Naturals

CONSTANTS
  Thread,           \* worker threads
  Session,          \* session keys
  Turn,             \* turn ids
  NoRecord,         \* None
  TTL,              \* anchor_store_ttl_seconds
  MaxTime           \* bound on the clock

ASSUME TTLAssumption == TTL \in Nat \ {0}
ASSUME MaxTimeAssumption == MaxTime \in Nat

Instant == 0 .. MaxTime + TTL

Record == [session : Session, turn : Turn, expires : Instant]

ASSUME NoRecordAssumption == NoRecord \notin Record

VARIABLES
  now,              \* time.time()
  bySession,        \* _BY_SESSION
  byTurn,           \* _BY_TURN
  issued,           \* the turn ids uuid4 has produced
  pc,               \* what each thread does next
  held,             \* the record each thread has in its local variable
  emitted,          \* history: the records whose turn id a save returned
  before            \* history: before[i] are the turns already returned when
                    \* the record of turn i was built

store == <<bySession, byTurn>>
history == <<emitted, before>>
vars == <<now, store, issued, pc, held, history>>

Idle == "idle"      \* outside the store
Built == "built"    \* saving, about to take the lock
Read == "read"      \* looking up, about to test the expiry
Expired == "expired"\* looking up, about to delete what it read

TypeOK ==
  /\ now \in 0 .. MaxTime
  /\ bySession \in [Session -> Record \cup {NoRecord}]
  /\ byTurn \in [Turn -> Record \cup {NoRecord}]
  /\ issued \in SUBSET Turn
  /\ pc \in [Thread -> {Idle, Built, Read, Expired}]
  /\ held \in [Thread -> Record \cup {NoRecord}]
  /\ emitted \in SUBSET Record
  /\ before \in [Turn -> SUBSET Turn]

Init ==
  /\ now = 0
  /\ bySession = [s \in Session |-> NoRecord]
  /\ byTurn = [i \in Turn |-> NoRecord]
  /\ issued = {}
  /\ pc = [t \in Thread |-> Idle]
  /\ held = [t \in Thread |-> NoRecord]
  /\ emitted = {}
  /\ before = [i \in Turn |-> {}]

-----------------------------------------------------------------------------
IsExpired(r) == r.expires <= now

(* Mutant: the expiry is computed in milliseconds.                          *)
ExpiresInMillis == now + 1000 * TTL

(* _expires_at_from_now.                                                    *)
ExpiresAtFromNow == now + TTL

(* _build_record: a fresh turn id and the expiry time, outside the lock.    *)
(* (An answer without anchors builds nothing and changes nothing.)          *)
BuildRecord(t, s) ==
  /\ pc[t] = Idle
  /\ \E i \in Turn \ issued :
       /\ issued' = issued \cup {i}
       /\ held' = [held EXCEPT ![t] =
                     [session |-> s, turn |-> i, expires |-> ExpiresAtFromNow]]
       /\ before' = [before EXCEPT ![i] = {r.turn : r \in emitted}]
  /\ pc' = [pc EXCEPT ![t] = Built]
  /\ UNCHANGED <<now, store, emitted>>

(* The two assignments of _save_response_anchors_memory.  The earlier turns *)
(* of the session stay in _BY_TURN.                                         *)
SessionsAfterSave(r) == [bySession EXCEPT ![r.session] = r]

(* Mutant: the turn that the new record supersedes is dropped.              *)
TurnsDroppingSuperseded(r) ==
  [i \in Turn |-> IF i = r.turn THEN r
                  ELSE IF byTurn[i] # NoRecord /\ byTurn[i].session = r.session
                       THEN NoRecord ELSE byTurn[i]]

TurnsAfterSave(r) == [byTurn EXCEPT ![r.turn] = r]

(* The locked part of _save_response_anchors_memory.                        *)
StoreRecord(t) ==
  /\ pc[t] = Built
  /\ bySession' = SessionsAfterSave(held[t])
  /\ byTurn' = TurnsAfterSave(held[t])
  /\ emitted' = emitted \cup {held[t]}
  /\ pc' = [pc EXCEPT ![t] = Idle]
  /\ held' = [held EXCEPT ![t] = NoRecord]
  /\ UNCHANGED <<now, issued, before>>

(* The locked read of a lookup; finding nothing ends the lookup.            *)
LookUp(t, r) ==
  /\ pc[t] = Idle
  /\ r # NoRecord
  /\ pc' = [pc EXCEPT ![t] = Read]
  /\ held' = [held EXCEPT ![t] = r]
  /\ UNCHANGED <<now, store, issued, history>>

LookUpTurn(t, i) == LookUp(t, byTurn[i])
LookUpSession(t, s) == LookUp(t, bySession[s])

(* The expiry test of a lookup, outside the lock: a live record is the      *)
(* lookup's answer, an expired one is deleted next.                         *)
TestExpiry(t) ==
  /\ pc[t] = Read
  /\ IF IsExpired(held[t])
     THEN /\ pc' = [pc EXCEPT ![t] = Expired]
          /\ UNCHANGED held
     ELSE /\ pc' = [pc EXCEPT ![t] = Idle]
          /\ held' = [held EXCEPT ![t] = NoRecord]
  /\ UNCHANGED <<now, store, issued, history>>

(* Mutant: any record of the session is taken for the expired one.          *)
AnyLatest(r) == bySession[r.session] # NoRecord

(* Mutant: the session keeps its expired record.                            *)
NeverLatest(r) == FALSE

(* By the time of the deletion the session may have a newer record, which   *)
(* must stay.                                                               *)
StillLatest(r) ==
  /\ bySession[r.session] # NoRecord
  /\ bySession[r.session].turn = r.turn

(* _delete_memory_record, in the lock again.                                *)
DeleteRecord(t) ==
  LET r == held[t]
  IN  /\ pc[t] = Expired
      /\ bySession' = IF StillLatest(r)
                      THEN [bySession EXCEPT ![r.session] = NoRecord]
                      ELSE bySession
      /\ byTurn' = [byTurn EXCEPT ![r.turn] = NoRecord]
      /\ pc' = [pc EXCEPT ![t] = Idle]
      /\ held' = [held EXCEPT ![t] = NoRecord]
      /\ UNCHANGED <<now, issued, history>>

Tick ==
  /\ now < MaxTime
  /\ now' = now + 1
  /\ UNCHANGED <<store, issued, pc, held, history>>

(* The process restarts: dictionaries and threads are gone, uuid4 still     *)
(* never repeats an id.                                                     *)
Restart ==
  /\ bySession' = [s \in Session |-> NoRecord]
  /\ byTurn' = [i \in Turn |-> NoRecord]
  /\ emitted' = {}
  /\ pc' = [t \in Thread |-> Idle]
  /\ held' = [t \in Thread |-> NoRecord]
  /\ UNCHANGED <<now, issued, before>>

Step(t) ==
  \/ \E s \in Session : BuildRecord(t, s) \/ LookUpSession(t, s)
  \/ \E i \in Turn : LookUpTurn(t, i)
  \/ StoreRecord(t)
  \/ TestExpiry(t)
  \/ DeleteRecord(t)

Next == Tick \/ Restart \/ \E t \in Thread : Step(t)

Spec == Init /\ [][Next]_vars

-----------------------------------------------------------------------------
(* The two dictionaries agree: whatever the interleaving of saves, lookups  *)
(* and deletions, the record found as the latest of a session is of that    *)
(* session and is the one found under its own turn id.                      *)
MapsAgree ==
  \A s \in Session : bySession[s] # NoRecord =>
    /\ bySession[s].session = s
    /\ byTurn[bySession[s].turn] = bySession[s]

(* A turn id that was returned to a client finds its record until that      *)
(* expires, superseded or not: no deletion of an expired record, however    *)
(* late it comes, takes a live one with it.                                 *)
EmittedTurnsResolvable ==
  \A r \in emitted : ~ IsExpired(r) => byTurn[r.turn] = r

(* What a session lookup finds is never older than a turn of that session   *)
(* that a client already had: no save that began after the one it finds had *)
(* returned has itself returned.  Only records are compared whose saves do  *)
(* not overlap; of overlapping saves either may be the latest.              *)
LatestNotSuperseded ==
  \A s \in Session : bySession[s] # NoRecord =>
    \A q \in emitted :
      q.session = s => bySession[s].turn \notin before[q.turn]

-----------------------------------------------------------------------------
(* The dictionaries, seen without what has expired, are the ledger.         *)
LiveTurns == {r \in {byTurn[i] : i \in Turn} : r # NoRecord /\ ~ IsExpired(r)}

LatestLive ==
  [s \in Session |->
     IF bySession[s] # NoRecord /\ ~ IsExpired(bySession[s])
     THEN bySession[s] ELSE NoRecord]

Ledger == INSTANCE AnchorLedger WITH
            live <- LiveTurns, latest <- LatestLive, saved <- emitted,
            KeepsSuperseded <- TRUE, Durable <- FALSE

(* The memory backend implements the ledger that keeps superseded turns and *)
(* loses everything in a restart: in particular a late deletion never makes *)
(* a session forget a newer turn.                                           *)
ImplementsLedger == Ledger!Spec
=============================================================================
