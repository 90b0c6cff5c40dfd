----------------------------- MODULE AskDispatch -----------------------------
(***************************************************************************)
(* dispatch_ask_query of domains/ask/dispatcher.py in several worker       *)
(* threads: a request hydrates the state of its conversation, answers, and *)
(* stores the state it derived, and other requests of the conversation     *)
(* come between these steps.  Nothing is locked from hydration to storing. *)
(*                                                                         *)
(* The store is one whose saves and lookups are atomic (see AnchorLedger). *)
(* What a turn stores is reduced to the tafsir sources of its thread,      *)
(* which state_hydrator.py accumulates from turn to turn.                  *)
(***************************************************************************)
EXTENDS Naturals, Sequences, Functions

CONSTANTS
  Worker,           \* the threads that run the handler
  Session,          \* session keys, explicit or implicit
  Turn,             \* turn ids; a bound on the turns that are stored
  Source,           \* tafsir sources
  None              \* Python's None

ASSUME NoneAssumption == None \notin Turn \cup Session

VARIABLES
  request,          \* what each worker is doing
  saved,            \* the turns in the order they were stored
  record,           \* record[i]: what was stored under turn id i
  live,             \* the turn ids that the store still finds
  latest            \* latest[s]: the turn that was stored last in session s

store == <<saved, record, live, latest>>
vars == <<request, store>>

(* asked is the session key derived from the request, key the one that its  *)
(* answer is stored under; from is the turn that it was hydrated from;      *)
(* known are the turns returned before the request arrived.                 *)
Idle == [pc |-> "idle", asked |-> None, key |-> None, parent |-> None,
         followup |-> FALSE, from |-> None, known |-> {}]

Request ==
  [pc : {"arrived", "parent missed", "hydrated"}, asked : Session, key : Session,
   parent : Turn \cup {None}, followup : BOOLEAN, from : Turn \cup {None},
   known : SUBSET Turn] \cup {Idle}

StoredTurn ==
  [session : Session, asked : Session, from : Turn \cup {None}, sources : SUBSET Source]

TypeOK ==
  /\ request \in [Worker -> Request]
  /\ saved \in Seq(Turn) /\ IsInjective(saved)
  /\ record \in [Range(saved) -> StoredTurn]
  /\ live \subseteq Range(saved)
  /\ latest \in [Session -> Range(saved) \cup {None}]

Init ==
  /\ request = [w \in Worker |-> Idle]
  /\ saved = << >>
  /\ record = << >>
  /\ live = {}
  /\ latest = [s \in Session |-> None]

-----------------------------------------------------------------------------
(* A request for session s may name any turn that was ever returned, also   *)
(* one of another session.  It is hydrated when it reads like a follow-up   *)
(* or names its conversation or a turn.                                     *)
Arrive(w) ==
  /\ request[w] = Idle
  /\ \E s \in Session, parent \in Range(saved) \cup {None}, followup \in BOOLEAN :
       /\ parent # None => followup
       /\ request' = [request EXCEPT ![w] =
            [pc |-> "arrived", asked |-> s, key |-> s, parent |-> parent,
             followup |-> followup, from |-> None, known |-> Range(saved)]]
  /\ UNCHANGED store

(* Mutant: the answer is stored under the key derived from the request.     *)
KeyOfRequest(w, i) == request[w].asked

(* A turn that was found brings its session key along.                      *)
HydratedKey(w, i) == IF i # None THEN record[i].session ELSE request[w].asked

Hydrate(w, i) ==
  /\ request' = [request EXCEPT ![w] =
       [pc |-> "hydrated", asked |-> request[w].asked, key |-> HydratedKey(w, i),
        parent |-> None, followup |-> FALSE, from |-> i, known |-> {}]]
  /\ UNCHANGED store

(* Anchors in the request itself leave the store unread.                    *)
HydrateSupplied(w) ==
  /\ request[w].pc = "arrived"
  /\ Hydrate(w, None)

(* The parent turn is tried first.                                          *)
HydrateParent(w) ==
  /\ request[w].pc = "arrived"
  /\ request[w].parent \in live
  /\ Hydrate(w, request[w].parent)

(* When it is not found the session is looked up, as if none had been named.*)
MissParent(w) ==
  /\ request[w].pc = "arrived"
  /\ request[w].parent \notin live
  /\ request' = [request EXCEPT ![w].pc = "parent missed"]
  /\ UNCHANGED store

FoundInSession(w) ==
  LET i == latest[request[w].asked]
  IN  IF request[w].followup /\ i \in live THEN i ELSE None

HydrateSession(w) ==
  /\ request[w].pc = "parent missed"
  /\ Hydrate(w, FoundInSession(w))

(* The answer has no evidence, or ends in an exception.                     *)
GiveUp(w) ==
  /\ request[w].pc = "hydrated"
  /\ request' = [request EXCEPT ![w] = Idle]
  /\ UNCHANGED store

(* Mutant: what the thread has shown before is not derived again.           *)
SourcesOfAnswer(w, shown) == shown

SourcesOfThread(w, shown) ==
  shown \cup (IF request[w].from # None THEN record[request[w].from].sources ELSE {})

FreshTurnIds(w) == Turn \ Range(saved)

(* Mutant: the first turn of a session stays its latest.                    *)
LatestKeepingFirst(s, i) == IF latest[s] # None THEN latest[s] ELSE i

LatestAfterSave(s, i) == i

(* The answer shows some sources; its state is stored with                  *)
(* save_response_anchors and its turn id returned.  The sqlite backend      *)
(* drops the earlier turns of the session, the others keep them.            *)
Answer(w) ==
  /\ request[w].pc = "hydrated"
  /\ \E i \in FreshTurnIds(w), shown \in SUBSET Source, dropped \in BOOLEAN :
       LET s == request[w].key
           superseded == {j \in live : dropped /\ record[j].session = s}
       IN  /\ record' = [j \in Range(saved) \cup {i} |->
                IF j = i THEN [session |-> s, asked |-> request[w].asked,
                               from |-> request[w].from,
                               sources |-> SourcesOfThread(w, shown)]
                ELSE record[j]]
           /\ saved' = Append(saved, i)
           /\ live' = (live \ superseded) \cup {i}
           /\ latest' = [latest EXCEPT ![s] = LatestAfterSave(s, i)]
  /\ request' = [request EXCEPT ![w] = Idle]

StoredLater(i, j) ==
  \E m, n \in DOMAIN saved : saved[m] = i /\ saved[n] = j /\ m > n

(* A turn's time is fixed when its record is built, before the store's lock *)
(* or transaction is entered: of two overlapping saves the turn stored last *)
(* may expire first, so turns expire in any order.                          *)
Expire ==
  /\ \E i \in live : live' = live \ {i}
  /\ UNCHANGED <<request, saved, record, latest>>

Next ==
  \/ \E w \in Worker :
       \/ Arrive(w)
       \/ HydrateSupplied(w) \/ HydrateParent(w) \/ MissParent(w) \/ HydrateSession(w)
       \/ GiveUp(w) \/ Answer(w)
  \/ Expire

Spec == Init /\ [][Next]_vars

-----------------------------------------------------------------------------
(* A thread never leaves its session: whatever session a request came from  *)
(* and however requests overlap, its turn is stored in the session of the   *)
(* turn it goes on from (anchor_store.py:463, dispatcher.py:93).            *)
LineageStaysInSession ==
  \A i \in Range(saved) :
    record[i].from # None => record[i].session = record[record[i].from].session

(* A turn keeps the sources of all turns it goes back to, those that have   *)
(* expired or were superseded meanwhile included: the comparison set of     *)
(* state_hydrator.py is carried from snapshot to snapshot.                  *)
LineageKeepsSources ==
  \A i \in Range(saved) :
    record[i].from # None =>
      /\ StoredLater(i, record[i].from)
      /\ record[record[i].from].sources \subseteq record[i].sources

(* A follow-up that goes by its session never goes on from an older turn    *)
(* than one of that session which had been returned when it arrived.  It    *)
(* finds nothing only when such a turn, or one stored later, is not live    *)
(* any more: an older turn that is still live does not stand in for it.     *)
HydratesNewest ==
  \A w \in Worker :
    request[w].pc = "parent missed" /\ request'[w].pc = "hydrated" /\ request[w].followup =>
      \A i \in {k \in request[w].known : record[k].session = request[w].asked} :
        \E j \in Range(saved) :
          /\ record[j].session = request[w].asked
          /\ j = i \/ StoredLater(j, i)
          /\ request'[w].from = IF j \in live THEN j ELSE None

HydratesNewestOfSession == [][HydratesNewest]_vars
=============================================================================
