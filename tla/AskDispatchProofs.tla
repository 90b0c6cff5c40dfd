-------------------------- MODULE AskDispatchProofs --------------------------
(***************************************************************************)
(* Threads of turns stay in their session and keep their sources, and a    *)
(* follow-up goes on from the newest turn of its session, for any number   *)
(* of workers, sessions, turns and sources.                                *)
(***************************************************************************)
EXTENDS AskDispatch, TLAPS

(* A hydrated request carries the session of the turn it goes on from.      *)
HydratedFollowsTurn ==
  \A w \in Worker :
    /\ request[w].from \in Range(saved) \cup {None}
    /\ request[w].from # None => request[w].key = record[request[w].from].session

-----------------------------------------------------------------------------
(* What Append adds to a sequence of turns.                                 *)
LEMMA AppendedTurn ==
  ASSUME NEW s \in Seq(Turn), NEW i \in Turn
  PROVE  /\ Append(s, i) \in Seq(Turn)
         /\ Range(Append(s, i)) = Range(s) \cup {i}
         /\ DOMAIN Append(s, i) = DOMAIN s \cup {Len(s) + 1}
         /\ Append(s, i)[Len(s) + 1] = i
         /\ \A n \in DOMAIN s : Append(s, i)[n] = s[n] /\ n < Len(s) + 1
<1> DEFINE t == Append(s, i)
<1>1. t \in Seq(Turn) /\ Len(t) = Len(s) + 1 /\ Len(s) \in Nat
  OBVIOUS
<1>2. DOMAIN t = 1 .. Len(s) + 1 /\ DOMAIN s = 1 .. Len(s)
  BY <1>1
<1>3. \A n \in DOMAIN s : t[n] = s[n] /\ n < Len(s) + 1
  BY <1>2
<1>4. t[Len(s) + 1] = i
  OBVIOUS
<1>5. DOMAIN t = DOMAIN s \cup {Len(s) + 1}
  BY <1>1, <1>2
<1>6. Range(t) = Range(s) \cup {i}
  BY <1>3, <1>4, <1>5 DEF Range
<1> QED
  BY <1>1, <1>3, <1>4, <1>5, <1>6

(* A worker that is not idle has a proper request.                          *)
LEMMA ActiveRequest ==
  ASSUME TypeOK, NEW w \in Worker, request[w].pc # "idle"
  PROVE  /\ request[w].asked \in Session
         /\ request[w].key \in Session
         /\ request[w].from \in Turn \cup {None}
         /\ request[w] # Idle
<1>1. request[w] \in Request
  BY DEF TypeOK
<1>2. Idle.pc = "idle"
  BY DEF Idle
<1>3. request[w] # Idle
  BY <1>2
<1> QED
  BY <1>1, <1>3 DEF Request

(* A request that is hydrated from a stored turn, or from none, is typed.   *)
LEMMA HydrateType ==
  ASSUME TypeOK, NEW w \in Worker, NEW i \in Range(saved) \cup {None},
         request[w].pc # "idle", Hydrate(w, i)
  PROVE  TypeOK'
<1> DEFINE r == [pc |-> "hydrated", asked |-> request[w].asked,
                 key |-> HydratedKey(w, i), parent |-> None,
                 followup |-> FALSE, from |-> i, known |-> {}]
<1>1. request[w].asked \in Session
  BY ActiveRequest
<1>2. Range(saved) \subseteq Turn
  BY DEF TypeOK, Range
<1>3. HydratedKey(w, i) \in Session
  <2>1. CASE i = None
    BY <1>1, <2>1 DEF HydratedKey
  <2>2. CASE i # None
    <3>1. record[i] \in StoredTurn
      BY <2>2 DEF TypeOK
    <3> QED
      BY <2>2, <3>1 DEF HydratedKey, StoredTurn
  <2> QED
    BY <2>1, <2>2
<1>4. r \in Request
  BY <1>1, <1>2, <1>3 DEF Request
<1>5. request' = [request EXCEPT ![w] = r]
  BY DEF Hydrate
<1>6. request' \in [Worker -> Request]
  BY <1>4, <1>5 DEF TypeOK
<1> QED
  BY <1>6 DEF Hydrate, TypeOK, store

(* An answer stores one typed record, under a turn id that was not in use:  *)
(* a record of the session, and with the sources, of the turn the request   *)
(* was hydrated from.                                                       *)
LEMMA AnswerEffect ==
  ASSUME TypeOK, HydratedFollowsTurn, NEW w \in Worker, Answer(w)
  PROVE  \E i \in Turn \ Range(saved), t \in StoredTurn :
           /\ t.session = request[w].key
           /\ t.from = request[w].from
           /\ t.from # None => record[t.from].sources \subseteq t.sources
           /\ record' = [j \in Range(saved) \cup {i} |-> IF j = i THEN t ELSE record[j]]
           /\ saved' = Append(saved, i)
           /\ live' \subseteq live \cup {i}
           /\ latest' = [latest EXCEPT ![request[w].key] = i]
           /\ request' = [request EXCEPT ![w] = Idle]
<1> PICK i \in FreshTurnIds(w), shown \in SUBSET Source, dropped \in BOOLEAN :
      LET s == request[w].key
          superseded == {j \in live : dropped /\ record[j].session = s}
      IN  /\ record' = [j \in Range(saved) \cup {i} |->
               IF j = i THEN [session |-> s, asked |-> request[w].asked,
                              from |-> request[w].from,
                              sources |-> SourcesOfThread(w, shown)]
               ELSE record[j]]
          /\ saved' = Append(saved, i)
          /\ live' = (live \ superseded) \cup {i}
          /\ latest' = [latest EXCEPT ![s] = LatestAfterSave(s, i)]
  BY DEF Answer
<1> DEFINE t == [session |-> request[w].key, asked |-> request[w].asked,
                 from |-> request[w].from, sources |-> SourcesOfThread(w, shown)]
<1>1. request[w].pc # "idle" /\ request' = [request EXCEPT ![w] = Idle]
  BY DEF Answer
<1>2. /\ request[w].asked \in Session /\ request[w].key \in Session
      /\ request[w].from \in Turn \cup {None}
  BY <1>1, ActiveRequest
<1>3. /\ SourcesOfThread(w, shown) \in SUBSET Source
      /\ request[w].from # None =>
           record[request[w].from].sources \subseteq SourcesOfThread(w, shown)
  <2>1. CASE request[w].from = None
    BY <2>1 DEF SourcesOfThread
  <2>2. CASE request[w].from # None
    <3>1. record[request[w].from] \in StoredTurn
      BY <2>2 DEF HydratedFollowsTurn, TypeOK
    <3> QED
      BY <2>2, <3>1 DEF SourcesOfThread, StoredTurn
  <2> QED
    BY <2>1, <2>2
<1>4. t \in StoredTurn
  BY <1>2, <1>3 DEF StoredTurn
<1>5. i \in Turn \ Range(saved)
  BY DEF FreshTurnIds
<1> WITNESS i \in Turn \ Range(saved)
<1> WITNESS t \in StoredTurn
<1> QED
  BY <1>1, <1>3 DEF LatestAfterSave

LEMMA AnswerType ==
  ASSUME TypeOK, HydratedFollowsTurn, NEW w \in Worker, Answer(w)
  PROVE  TypeOK'
<1> PICK i \in Turn \ Range(saved), t \in StoredTurn :
      /\ record' = [j \in Range(saved) \cup {i} |-> IF j = i THEN t ELSE record[j]]
      /\ saved' = Append(saved, i)
      /\ live' \subseteq live \cup {i}
      /\ latest' = [latest EXCEPT ![request[w].key] = i]
      /\ request' = [request EXCEPT ![w] = Idle]
  BY AnswerEffect
<1>1. request[w].key \in Session
  BY ActiveRequest DEF Answer
<1>2. saved \in Seq(Turn)
  BY DEF TypeOK
<1>3. Range(saved') = Range(saved) \cup {i} /\ saved' \in Seq(Turn)
  BY <1>2, AppendedTurn
<1>4. request' \in [Worker -> Request]
  BY DEF TypeOK, Request
<1>5. IsInjective(saved')
  <2>1. \A n \in DOMAIN saved : saved[n] \in Range(saved)
    BY DEF Range
  <2>2. \A m, n \in DOMAIN saved : saved[m] = saved[n] => m = n
    BY DEF TypeOK, IsInjective
  <2>3. \A m, n \in DOMAIN saved' : saved'[m] = saved'[n] => m = n
    BY <1>2, <2>1, <2>2, AppendedTurn
  <2> QED
    BY <2>3 DEF IsInjective
<1>6. record' \in [Range(saved') -> StoredTurn]
  BY <1>3 DEF TypeOK
<1>7. live' \subseteq Range(saved')
  BY <1>3 DEF TypeOK
<1>8. latest' \in [Session -> Range(saved') \cup {None}]
  BY <1>1, <1>3 DEF TypeOK
<1> QED
  BY <1>3, <1>4, <1>5, <1>6, <1>7, <1>8 DEF TypeOK

-----------------------------------------------------------------------------
(* The inductive invariant: a request keeps to the turn it was hydrated     *)
(* from, and a stored turn to the turn before it.                           *)
LineageInv ==
  TypeOK /\ HydratedFollowsTurn /\ LineageStaysInSession /\ LineageKeepsSources

LEMMA HydrateLineage ==
  ASSUME LineageInv, NEW w \in Worker, NEW i \in Range(saved) \cup {None},
         request[w].pc # "idle", Hydrate(w, i)
  PROVE  LineageInv'
<1> USE DEF LineageInv
<1>1. TypeOK'
  BY HydrateType
<1>2. UNCHANGED store
  BY DEF Hydrate
<1>3. HydratedFollowsTurn'
  <2> SUFFICES ASSUME NEW v \in Worker
               PROVE  /\ request'[v].from \in Range(saved) \cup {None}
                      /\ request'[v].from # None =>
                           request'[v].key = record[request'[v].from].session
    BY <1>2 DEF HydratedFollowsTurn, store
  <2>1. CASE v = w
    BY <2>1 DEF Hydrate, HydratedKey, TypeOK
  <2>2. CASE v # w
    BY <2>2 DEF Hydrate, HydratedFollowsTurn, TypeOK
  <2> QED
    BY <2>1, <2>2
<1>4. LineageStaysInSession' /\ LineageKeepsSources'
  BY <1>2 DEF LineageStaysInSession, LineageKeepsSources, StoredLater, store
<1> QED
  BY <1>1, <1>3, <1>4

LEMMA AnswerLineage ==
  ASSUME LineageInv, NEW w \in Worker, Answer(w)
  PROVE  LineageInv'
<1> USE DEF LineageInv
<1> PICK i \in Turn \ Range(saved), t \in StoredTurn :
      /\ t.session = request[w].key
      /\ t.from = request[w].from
      /\ t.from # None => record[t.from].sources \subseteq t.sources
      /\ record' = [j \in Range(saved) \cup {i} |-> IF j = i THEN t ELSE record[j]]
      /\ saved' = Append(saved, i)
      /\ request' = [request EXCEPT ![w] = Idle]
  BY AnswerEffect
<1>1. TypeOK'
  BY AnswerType
<1>2. saved \in Seq(Turn)
  BY DEF TypeOK
<1>3. Range(saved') = Range(saved) \cup {i}
  BY <1>2, AppendedTurn
<1>4. \A j \in Range(saved) : record'[j] = record[j]
  OBVIOUS
<1>5. record'[i] = t
  OBVIOUS
<1>6. HydratedFollowsTurn'
  <2> SUFFICES ASSUME NEW v \in Worker
               PROVE  /\ request'[v].from \in Range(saved') \cup {None}
                      /\ request'[v].from # None =>
                           request'[v].key = record'[request'[v].from].session
    BY DEF HydratedFollowsTurn
  <2>1. CASE v = w
    BY <2>1 DEF Idle, TypeOK
  <2>2. CASE v # w
    BY <1>3, <1>4, <2>2 DEF HydratedFollowsTurn, TypeOK
  <2> QED
    BY <2>1, <2>2
<1>7. request[w].from # None =>
        /\ request[w].from \in Range(saved)
        /\ request[w].key = record[request[w].from].session
  BY DEF HydratedFollowsTurn
<1>8. \A j \in Range(saved) : record[j].from # None => record[j].from \in Range(saved)
  <2>1. \A j \in Range(saved) :
          record[j].from # None => \E n \in DOMAIN saved : saved[n] = record[j].from
    BY DEF LineageKeepsSources, StoredLater
  <2> QED
    BY <2>1 DEF Range
<1>9. LineageStaysInSession'
  BY <1>3, <1>4, <1>5, <1>7, <1>8 DEF LineageStaysInSession
<1> DEFINE Later(j, k) ==
             \E m, n \in DOMAIN saved' : saved'[m] = j /\ saved'[n] = k /\ m > n
<1>10. \A j \in Range(saved) : Later(i, j)
  <2> SUFFICES ASSUME NEW j \in Range(saved)
               PROVE  Later(i, j)
    OBVIOUS
  <2>1. PICK n \in DOMAIN saved : saved[n] = j
    BY DEF Range
  <2>2. saved'[Len(saved) + 1] = i /\ saved'[n] = j /\ Len(saved) + 1 > n
    BY <1>2, <2>1, AppendedTurn
  <2>3. n \in DOMAIN saved' /\ Len(saved) + 1 \in DOMAIN saved'
    BY <1>2, AppendedTurn
  <2> QED
    BY <2>2, <2>3
<1>11. \A j, k \in Range(saved) : StoredLater(j, k) => Later(j, k)
  BY <1>2, AppendedTurn DEF StoredLater
<1>12. LineageKeepsSources'
  <2> SUFFICES ASSUME NEW j \in Range(saved'), record'[j].from # None
               PROVE  /\ Later(j, record'[j].from)
                      /\ record'[record'[j].from].sources \subseteq record'[j].sources
    BY DEF LineageKeepsSources, StoredLater
  <2> HIDE DEF Later
  <2>1. CASE j = i
    BY <1>4, <1>5, <1>7, <1>10, <2>1
  <2>2. CASE j # i
    <3>1. j \in Range(saved) /\ record'[j] = record[j]
      BY <1>3, <1>4, <2>2
    <3>2. record[j].from \in Range(saved)
      BY <1>8, <3>1
    <3> QED
      BY <1>4, <1>11, <3>1, <3>2 DEF LineageKeepsSources
  <2> QED
    BY <2>1, <2>2
<1> QED
  BY <1>1, <1>6, <1>9, <1>12

(* The steps that store nothing new.                                        *)
LEMMA StoreUntouched ==
  ASSUME LineageInv, UNCHANGED <<saved, record, latest>>, live' \subseteq live,
         request' \in [Worker -> Request],
         \A w \in Worker :
           \/ request'[w].from = None
           \/ request'[w].from = request[w].from /\ request'[w].key = request[w].key
  PROVE  LineageInv'
<1>1. TypeOK'
  BY DEF LineageInv, TypeOK
<1>2. HydratedFollowsTurn'
  BY DEF LineageInv, HydratedFollowsTurn
<1>3. LineageStaysInSession' /\ LineageKeepsSources'
  BY DEF LineageInv, LineageStaysInSession, LineageKeepsSources, StoredLater
<1> QED
  BY <1>1, <1>2, <1>3 DEF LineageInv

LEMMA LineageInvariant == Spec => []LineageInv
<1>1. Init => LineageInv
  <2> SUFFICES ASSUME Init
               PROVE  LineageInv
    OBVIOUS
  <2>1. DOMAIN saved = {} /\ Range(saved) = {} /\ saved \in Seq(Turn)
    BY DEF Init, Range
  <2>2. TypeOK
    BY <2>1 DEF Init, TypeOK, Request, IsInjective
  <2>3. HydratedFollowsTurn
    BY DEF Init, HydratedFollowsTurn, Idle
  <2> QED
    BY <2>1, <2>2, <2>3 DEF LineageInv, LineageStaysInSession, LineageKeepsSources
<1>2. LineageInv /\ [Next]_vars => LineageInv'
  <2> SUFFICES ASSUME LineageInv, [Next]_vars
               PROVE  LineageInv'
    OBVIOUS
  <2>1. request \in [Worker -> Request] /\ Range(saved) \subseteq Turn
    BY DEF LineageInv, TypeOK, Range
  <2>2. ASSUME NEW w \in Worker, Arrive(w)
        PROVE  LineageInv'
    <3>1. PICK s \in Session, parent \in Range(saved) \cup {None}, followup \in BOOLEAN :
            request' = [request EXCEPT ![w] =
              [pc |-> "arrived", asked |-> s, key |-> s, parent |-> parent,
               followup |-> followup, from |-> None, known |-> Range(saved)]]
      BY <2>2 DEF Arrive
    <3>2. [pc |-> "arrived", asked |-> s, key |-> s, parent |-> parent,
           followup |-> followup, from |-> None, known |-> Range(saved)] \in Request
      BY <2>1 DEF Request
    <3>3. request' \in [Worker -> Request]
      BY <2>1, <3>1, <3>2
    <3>4. \A v \in Worker : request'[v].from = None \/ request'[v] = request[v]
      BY <2>1, <3>1
    <3> QED
      BY <2>2, <3>3, <3>4, StoreUntouched DEF Arrive, store
  <2>3. ASSUME NEW w \in Worker, HydrateSupplied(w)
        PROVE  LineageInv'
    BY <2>3, HydrateLineage DEF HydrateSupplied
  <2>4. ASSUME NEW w \in Worker, HydrateParent(w)
        PROVE  LineageInv'
    <3>1. request[w].parent \in Range(saved)
      BY <2>4 DEF HydrateParent, LineageInv, TypeOK
    <3> QED
      BY <2>4, <3>1, HydrateLineage DEF HydrateParent
  <2>5. ASSUME NEW w \in Worker, MissParent(w)
        PROVE  LineageInv'
    <3>0. request[w] \in Request /\ request[w] # Idle
      BY <2>1, <2>5, ActiveRequest DEF MissParent, LineageInv
    <3>1. request' \in [Worker -> Request]
      <4>1. [request[w] EXCEPT !.pc = "parent missed"] \in Request
        BY <3>0 DEF Request
      <4> QED
        BY <2>1, <2>5, <4>1 DEF MissParent
    <3>2. \A v \in Worker :
            request'[v].from = request[v].from /\ request'[v].key = request[v].key
      <4> SUFFICES ASSUME NEW v \in Worker
                   PROVE  /\ request'[v].from = request[v].from
                          /\ request'[v].key = request[v].key
        OBVIOUS
      <4>1. CASE v = w
        BY <2>1, <2>5, <3>0, <4>1 DEF MissParent, Request
      <4>2. CASE v # w
        BY <2>1, <2>5, <4>2 DEF MissParent
      <4> QED
        BY <4>1, <4>2
    <3> QED
      BY <2>5, <3>1, <3>2, StoreUntouched DEF MissParent, store
  <2>6. ASSUME NEW w \in Worker, HydrateSession(w)
        PROVE  LineageInv'
    <3>1. FoundInSession(w) \in Range(saved) \cup {None}
      BY DEF FoundInSession, LineageInv, TypeOK
    <3> QED
      BY <2>6, <3>1, HydrateLineage DEF HydrateSession
  <2>7. ASSUME NEW w \in Worker, GiveUp(w)
        PROVE  LineageInv'
    <3>1. request' \in [Worker -> Request]
      BY <2>1, <2>7 DEF GiveUp, Request
    <3>2. \A v \in Worker : request'[v].from = None \/ request'[v] = request[v]
      BY <2>1, <2>7 DEF GiveUp, Idle
    <3> QED
      BY <2>7, <3>1, <3>2, StoreUntouched DEF GiveUp, store
  <2>8. ASSUME NEW w \in Worker, Answer(w)
        PROVE  LineageInv'
    BY <2>8, AnswerLineage
  <2>9. CASE Expire
    <3>1. live' \subseteq live /\ UNCHANGED <<request, saved, record, latest>>
      BY <2>9 DEF Expire
    <3> QED
      BY <2>1, <3>1, StoreUntouched
  <2>10. CASE UNCHANGED vars
    BY <2>1, <2>10, StoreUntouched DEF vars, store
  <2> QED
    BY <2>2, <2>3, <2>4, <2>5, <2>6, <2>7, <2>8, <2>9, <2>10 DEF Next
<1> QED
  BY <1>1, <1>2, PTL DEF Spec

(* The state of the dispatcher is typed, for every number of workers.       *)
THEOREM TypeCorrect == Spec => []TypeOK
BY LineageInvariant, PTL DEF LineageInv

(* Whatever session a request came from and however requests overlap, a     *)
(* turn is stored in the session of the turn it goes on from.               *)
THEOREM ThreadsKeepTheirSession == Spec => []LineageStaysInSession
BY LineageInvariant, PTL DEF LineageInv

(* A turn keeps the sources of the turns it goes back to, also of those     *)
(* that have expired or were superseded.                                    *)
THEOREM ThreadsKeepTheirSources == Spec => []LineageKeepsSources
BY LineageInvariant, PTL DEF LineageInv

-----------------------------------------------------------------------------
(* No turn of a session was stored after its latest.                        *)
LatestIsNewest ==
  \A i \in Range(saved) :
    LET l == latest[record[i].session]
    IN  /\ l \in Range(saved) /\ record[l].session = record[i].session
        /\ l = i \/ StoredLater(l, i)

(* The turns a request can know of were stored.                             *)
KnownAreStored == \A w \in Worker : request[w].known \subseteq Range(saved)

SessionInv == LatestIsNewest /\ KnownAreStored

(* The turn that is appended comes after all others, whose order stays.     *)
LEMMA StoredOrder ==
  ASSUME TypeOK, NEW i \in Turn \ Range(saved), saved' = Append(saved, i)
  PROVE  /\ Range(saved') = Range(saved) \cup {i}
         /\ \A j, k \in Range(saved) : StoredLater(j, k)' <=> StoredLater(j, k)
         /\ \A j \in Range(saved) : StoredLater(i, j)' /\ ~ StoredLater(j, i)'
<1>1. saved \in Seq(Turn) /\ Len(saved) \in Nat
  BY DEF TypeOK
<1> DEFINE last == Len(saved) + 1
<1>2. /\ Range(saved') = Range(saved) \cup {i}
      /\ DOMAIN saved' = DOMAIN saved \cup {last}
      /\ saved'[last] = i
      /\ \A n \in DOMAIN saved : saved'[n] = saved[n] /\ n < last
  BY <1>1, AppendedTurn
<1>3. \A n \in DOMAIN saved : saved[n] \in Range(saved)
  BY DEF Range
<1>4. \A j \in Range(saved) : \E n \in DOMAIN saved : saved[n] = j
  BY DEF Range
<1>5. \A n \in DOMAIN saved : n \in Nat
  BY <1>1
<1> HIDE DEF last
<1>6. \A n \in DOMAIN saved' : saved'[n] = i <=> n = last
  BY <1>2, <1>3
<1>7. ASSUME NEW j \in Range(saved), NEW k \in Range(saved)
      PROVE  StoredLater(j, k)' <=> StoredLater(j, k)
  BY <1>2, <1>6, <1>7 DEF StoredLater
<1>8. ASSUME NEW j \in Range(saved)
      PROVE  StoredLater(i, j)' /\ ~ StoredLater(j, i)'
  <2>1. last \in Nat
    BY <1>1 DEF last
  <2>2. PICK n \in DOMAIN saved : saved[n] = j
    BY <1>4
  <2>3. last \in DOMAIN saved' /\ n \in DOMAIN saved' /\ saved'[n] = j /\ last > n
    BY <1>2, <1>5, <2>1, <2>2
  <2>4. StoredLater(i, j)'
    BY <1>2, <2>3 DEF StoredLater
  <2>5. \A m \in DOMAIN saved' : ~ (m > last)
    BY <1>2, <1>5, <2>1
  <2> QED
    BY <1>6, <2>4, <2>5 DEF StoredLater
<1> QED
  BY <1>2, <1>7, <1>8

(* An answer is the newest turn of its session and becomes its latest.      *)
LEMMA AnswerSession ==
  ASSUME LineageInv, LatestIsNewest, NEW w \in Worker, Answer(w)
  PROVE  LatestIsNewest'
<1> DEFINE s == request[w].key
<1>1. TypeOK /\ HydratedFollowsTurn
  BY DEF LineageInv
<1>0. s \in Session
  BY <1>1, ActiveRequest DEF Answer
<1> PICK i \in Turn \ Range(saved), t \in StoredTurn :
      /\ t.session = s
      /\ t.from = request[w].from
      /\ t.from # None => record[t.from].sources \subseteq t.sources
      /\ record' = [j \in Range(saved) \cup {i} |-> IF j = i THEN t ELSE record[j]]
      /\ saved' = Append(saved, i)
      /\ live' \subseteq live \cup {i}
      /\ latest' = [latest EXCEPT ![s] = i]
      /\ request' = [request EXCEPT ![w] = Idle]
  BY <1>1, AnswerEffect
<1> HIDE DEF s
<1>2. /\ Range(saved') = Range(saved) \cup {i}
      /\ \A j, k \in Range(saved) : StoredLater(j, k)' <=> StoredLater(j, k)
      /\ \A j \in Range(saved) : StoredLater(i, j)' /\ ~ StoredLater(j, i)'
      /\ \A j \in Range(saved) : record'[j] = record[j]
      /\ record'[i].session = s
  <2>1. /\ \A j \in Range(saved) : record'[j] = record[j]
        /\ record'[i].session = s
    OBVIOUS
  <2>2. TypeOK /\ i \in Turn \ Range(saved) /\ saved' = Append(saved, i)
    BY <1>1
  <2> QED
    BY <2>1, <2>2, StoredOrder
<1>3. /\ \A j \in Range(saved) : record[j].session \in Session
      /\ latest'[s] = i
      /\ \A r \in Session : r # s => latest'[r] = latest[r]
  BY <1>0, <1>1 DEF TypeOK, StoredTurn
<1> DEFINE Later(j, k) ==
      \E m, n \in DOMAIN saved' : saved'[m] = j /\ saved'[n] = k /\ m > n
<1>4. /\ \A j, k \in Range(saved) : Later(j, k) <=> StoredLater(j, k)
      /\ \A j \in Range(saved) : Later(i, j)
  <2>1. \A j, k : StoredLater(j, k)' <=> Later(j, k)
    BY DEF StoredLater
  <2> HIDE DEF Later
  <2> QED
    BY <1>2, <2>1
<1> SUFFICES ASSUME NEW j \in Range(saved')
             PROVE  LET l == latest'[record'[j].session]
                    IN  /\ l \in Range(saved')
                        /\ record'[l].session = record'[j].session
                        /\ l = j \/ Later(l, j)
  BY DEF LatestIsNewest, StoredLater
<1> HIDE DEF Later
<1>5. CASE record'[j].session = s
  BY <1>2, <1>3, <1>4, <1>5
<1>6. CASE record'[j].session # s
  <2>1. j \in Range(saved) /\ record'[j] = record[j]
    BY <1>2, <1>6
  <2>2. latest'[record[j].session] = latest[record[j].session]
    BY <1>3, <1>6, <2>1
  <2> QED
    BY <1>2, <1>4, <2>1, <2>2 DEF LatestIsNewest
<1> QED
  BY <1>5, <1>6

(* The latest turn of a session is its newest, in every state.              *)
LEMMA SessionInvariant == Spec => [](LineageInv /\ SessionInv)
<1>1. Init => SessionInv
  BY DEF Init, SessionInv, LatestIsNewest, KnownAreStored, Idle, Range
<1>2. LineageInv /\ SessionInv /\ [Next]_vars => SessionInv'
  <2> SUFFICES ASSUME LineageInv, SessionInv, [Next]_vars PROVE SessionInv'
    OBVIOUS
  <2>1. LatestIsNewest'
    <3>1. CASE UNCHANGED <<saved, record, latest>>
      BY <3>1 DEF SessionInv, LatestIsNewest, StoredLater
    <3>2. CASE \E w \in Worker : Answer(w)
      BY <3>2, AnswerSession DEF SessionInv
    <3> QED
      BY <3>1, <3>2
         DEF Next, vars, store, Arrive, HydrateSupplied, HydrateParent, HydrateSession,
             Hydrate, MissParent, GiveUp, Expire
  <2>2. KnownAreStored'
    <3>1. request \in [Worker -> Request]
      BY DEF LineageInv, TypeOK
    <3>2. CASE UNCHANGED <<request, saved>>
      BY <3>2 DEF SessionInv, KnownAreStored
    <3>3. ASSUME NEW w \in Worker,
                 \/ Arrive(w) \/ HydrateSupplied(w) \/ HydrateParent(w) \/ MissParent(w)
                 \/ HydrateSession(w) \/ GiveUp(w)
          PROVE  KnownAreStored'
      <4>1. saved' = saved
        BY <3>3
           DEF Arrive, HydrateSupplied, HydrateParent, MissParent, HydrateSession, Hydrate,
               GiveUp, store
      <4>2. \A v \in Worker : v # w => request'[v] = request[v]
        BY <3>1, <3>3
           DEF Arrive, HydrateSupplied, HydrateParent, MissParent, HydrateSession, Hydrate,
               GiveUp
      <4>3. request'[w].known \subseteq Range(saved)
        <5>1. request[w].known \subseteq Range(saved)
          BY DEF SessionInv, KnownAreStored
        <5>2. CASE Arrive(w)
          BY <3>1, <5>2 DEF Arrive
        <5>3. CASE MissParent(w)
          <6>1. request[w] \in Request /\ request[w] # Idle
            BY <3>1, <5>3, ActiveRequest DEF MissParent, LineageInv
          <6>2. request'[w].known = request[w].known
            BY <3>1, <5>3, <6>1 DEF MissParent, Request
          <6> QED
            BY <5>1, <6>2
        <5>4. ASSUME NEW i, Hydrate(w, i)
              PROVE  request'[w].known = {}
          BY <3>1, <5>4 DEF Hydrate
        <5>5. CASE GiveUp(w)
          BY <3>1, <5>5 DEF GiveUp, Idle
        <5> QED
          BY <3>3, <5>2, <5>3, <5>4, <5>5 DEF HydrateSupplied, HydrateParent, HydrateSession
      <4> QED
        BY <4>1, <4>2, <4>3 DEF SessionInv, KnownAreStored
    <3>4. ASSUME NEW w \in Worker, Answer(w)
          PROVE  KnownAreStored'
      <4>1. Range(saved) \subseteq Range(saved')
        BY <3>4, AnswerEffect, StoredOrder DEF LineageInv
      <4>2. request' = [request EXCEPT ![w] = Idle]
        BY <3>4 DEF Answer
      <4> QED
        BY <3>1, <4>1, <4>2 DEF SessionInv, KnownAreStored, Idle
    <3> QED
      BY <3>2, <3>3, <3>4 DEF Next, Expire, vars, store
  <2> QED
    BY <2>1, <2>2 DEF SessionInv
<1> QED
  BY <1>1, <1>2, LineageInvariant, PTL DEF Spec

(* The types in the form the step proofs use them.                          *)
LEMMA TypedTurns ==
  ASSUME TypeOK
  PROVE  /\ request \in [Worker -> Request]
         /\ live \subseteq Range(saved)
         /\ Range(saved) \subseteq Turn
<1>1. \A n \in DOMAIN saved : saved[n] \in Turn
  BY DEF TypeOK
<1> QED
  BY <1>1 DEF TypeOK, Range

(* A follow-up that goes by its session goes on from no older turn than     *)
(* those it could know of, and finds nothing only when a turn at least as   *)
(* new is not live any more, however requests overlap and in whatever order *)
(* turns expire.                                                            *)
THEOREM FollowupsHydrateNewest == Spec => HydratesNewestOfSession
<1>1. LineageInv /\ SessionInv /\ [Next]_vars => [HydratesNewest]_vars
  <2> SUFFICES ASSUME LineageInv, SessionInv, Next, NEW w \in Worker,
                      request[w].pc = "parent missed", request'[w].pc = "hydrated",
                      request[w].followup,
                      NEW i \in request[w].known, record[i].session = request[w].asked
               PROVE  \E j \in Range(saved) :
                        /\ record[j].session = request[w].asked
                        /\ j = i \/ StoredLater(j, i)
                        /\ request'[w].from = IF j \in live THEN j ELSE None
    BY DEF HydratesNewest
  <2>0. /\ request \in [Worker -> Request]
        /\ live \subseteq Range(saved)
        /\ Range(saved) \subseteq Turn
        /\ request[w] # Idle
    <3>1. TypeOK
      BY DEF LineageInv
    <3>2. request[w].pc # "idle"
      OBVIOUS
    <3> QED
      BY <3>1, <3>2, ActiveRequest, TypedTurns
  <2>1. request' # request
    OBVIOUS
  <2>2. \A v \in Worker : v # w /\ request'[w] # request[w] =>
          ~ \E r : request' = [request EXCEPT ![v] = r]
    BY <2>0
  <2>3. HydrateSession(w)
    <3>1. ASSUME NEW v \in Worker,
                 \/ Arrive(v) \/ HydrateSupplied(v) \/ HydrateParent(v) \/ MissParent(v)
                 \/ HydrateSession(v) \/ GiveUp(v) \/ Answer(v)
          PROVE  v = w
      <4>1. \E r : request' = [request EXCEPT ![v] = r]
        BY <3>1
           DEF Arrive, HydrateSupplied, HydrateParent, MissParent, HydrateSession, Hydrate,
               GiveUp, Answer
      <4> QED
        BY <2>2, <4>1
    <3>2. ~ Arrive(w)
      BY <2>0 DEF Arrive
    <3>3. ~ HydrateSupplied(w) /\ ~ HydrateParent(w) /\ ~ MissParent(w)
      BY DEF HydrateSupplied, HydrateParent, MissParent
    <3>4. ~ GiveUp(w)
      BY DEF GiveUp
    <3>5. ~ Answer(w)
      BY DEF Answer
    <3> QED
      BY <2>1, <3>1, <3>2, <3>3, <3>4, <3>5 DEF Next, Expire
  <2>4. request'[w].from = FoundInSession(w)
    BY <2>0, <2>3 DEF HydrateSession, Hydrate
  <2> DEFINE l == latest[request[w].asked]
  <2>5. /\ l \in Range(saved) /\ record[l].session = request[w].asked
        /\ l = i \/ StoredLater(l, i)
    BY DEF SessionInv, LatestIsNewest, KnownAreStored
  <2>6. request'[w].from = IF l \in live THEN l ELSE None
    BY <2>4 DEF FoundInSession
  <2> QED
    BY <2>5, <2>6
<1> QED
  BY <1>1, SessionInvariant, PTL DEF Spec, HydratesNewestOfSession
=============================================================================
