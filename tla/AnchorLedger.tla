---------------------------- MODULE AnchorLedger ----------------------------
(***************************************************************************)
(* What the conversation anchor store promises, whatever its backend: the  *)
(* anchors of an answered turn can be found again, by turn id and as the   *)
(* latest of their session, until they expire.  Time, and with it expiry,  *)
(* is instantaneous here; nothing is ever expired in the ledger's state.   *)
(*                                                                         *)
(* domains/conversation/anchor_store.py has three backends.  They differ   *)
(* in two ways that a caller can see, so both are parameters:              *)
(*   KeepsSuperseded  an earlier turn of a session stays resolvable after  *)
(*                    a later one was saved (memory and redis, not sqlite) *)
(*   Durable          the content survives a restart of the process        *)
(***************************************************************************)
EXTENDS Naturals

CONSTANTS
  Session,          \* the session keys
  Turn,             \* the turn ids (uuid4 values)
  NoRecord,         \* Python's None
  Instant,          \* the values time.time() takes
  KeepsSuperseded,
  Durable

Record == [session : Session, turn : Turn, expires : Instant]

VARIABLES
  now,              \* the wall clock
  live,             \* the records that can be found by their turn id
  latest,           \* latest[s]: what a lookup of session s finds
  saved             \* history: the records saved since the store was empty

vars == <<now, live, latest, saved>>

-----------------------------------------------------------------------------
Unexpired(r, t) == r.expires > t

(* None is handed out for what is absent and for what has expired.         *)
Visible(r, t) == IF r # NoRecord /\ Unexpired(r, t) THEN r ELSE NoRecord

Init ==
  /\ now = 0
  /\ live = {}
  /\ latest = [s \in Session |-> NoRecord]
  /\ saved = {}

(* Saving a record makes it the latest of its session.  A record whose time *)
(* ran out while it was on its way still displaces its predecessor; what is *)
(* saved tells this from a session that forgets its latest for no reason.   *)
Remember(r) ==
  LET kept == IF KeepsSuperseded THEN live
              ELSE {q \in live : q.session # r.session}
  IN  /\ \A q \in saved : q.turn # r.turn
      /\ saved' = saved \cup {r}
      /\ live' = kept \cup (IF Unexpired(r, now) THEN {r} ELSE {})
      /\ latest' = [latest EXCEPT ![r.session] = Visible(r, now)]
      /\ UNCHANGED now

(* Time passes; what has expired is gone at once.                          *)
Pass ==
  /\ now' \in Instant /\ now' > now
  /\ live' = {r \in live : Unexpired(r, now')}
  /\ latest' = [s \in Session |-> Visible(latest[s], now')]
  /\ UNCHANGED saved

(* A restart of the process forgets everything, unless the store is        *)
(* durable.                                                                *)
Forget ==
  /\ ~ Durable
  /\ live' = {} /\ saved' = {}
  /\ latest' = [s \in Session |-> NoRecord]
  /\ UNCHANGED now

Next ==
  \/ \E r \in Record : Remember(r)
  \/ Pass
  \/ Forget

Spec == Init /\ [][Next]_vars

=============================================================================
