------------------------- MODULE ConversationThread -------------------------
(***************************************************************************)
(* One conversation, turn by turn, as domains/ask/dispatcher.py runs it:   *)
(* the stored session state is hydrated, the query is classified, resolved *)
(* and planned, the evidence of the plan is fetched, and the session state *)
(* derived from the answer (domains/conversation/state_hydrator.py) is     *)
(* stored when the turn can be followed up.                                *)
(*                                                                         *)
(* The store is taken to be perfect here (see AnchorLedger) and the turns  *)
(* of the conversation do not overlap.  What the evidence contains is      *)
(* nondeterministic: any of the tafsir sources that the plan asks for may  *)
(* have no section on the verses, or be left out by the request, and a     *)
(* hadith may not be found.  answer is the reference of the evidence: a    *)
(* turn that abstains for want of tafsir still has one, and is stored.     *)
(***************************************************************************)
EXTENDS Followups

CONSTANTS
  AskedRef,         \* the references that queries name; they can be fetched
  SuppliedRef,      \* the anchors that requests bring along
  SourceControls    \* the sets of tafsir sources that requests ask for

ASSUME RequestAssumption ==
  /\ AskedRef \subseteq {r \in Ref : Exists(r)}
  /\ SuppliedRef \subseteq Ref
  /\ SourceControls \subseteq SUBSET Source

VARIABLES
  thread,           \* the stored scope; EmptyScope before the first save
  turn,             \* what the last request was and what came of it
  shown             \* history: the sources displayed in the stored thread

vars == <<thread, turn, shown>>

QuranText(ref, displayed) == [ref |-> ref, displayed |-> displayed, hadith |-> NoHadith]
NoEvidence == QuranText(NoRef, {})

(* ordinal is the number of the verse asked for, if any; target is that of  *)
(* the resolved follow-up, when its answer has Quran text; basis is the     *)
(* reference that a number or reading on is relative to.                    *)
NoTurn == [ordinal |-> NoOrdinal, rejected |-> FALSE, target |-> NoRef,
           raised |-> FALSE, continues |-> "no", basis |-> NoRef,
           answer |-> NoRef, hadith |-> NoHadith]

HasEvidence(t) == t.answer # NoRef \/ t.hadith # NoHadith

TypeOK ==
  /\ thread \in Scope
  /\ shown \in SUBSET Source
  /\ turn.ordinal \in Ordinal \cup {NoOrdinal}
  /\ {turn.rejected, turn.raised} \subseteq BOOLEAN
  /\ turn.target \in Ref \cup Hadith \cup {NoRef}
  /\ {turn.basis, turn.answer} \subseteq Ref \cup {NoRef}
  /\ turn.hadith \in Hadith \cup {NoHadith}

Init ==
  /\ thread = EmptyScope
  /\ turn = NoTurn
  /\ shown = {}

-----------------------------------------------------------------------------
(* The planner asks for the sources of the route and of the request, and    *)
(* for all when there are none; the exact wording comes without tafsir.     *)
RequestedSources(route, resolution, controls) ==
  LET named == controls \cup (IF route.type = "followup tafsir" THEN route.sources ELSE {})
  IN  IF resolution.action = "repeat" THEN {}
      ELSE IF named # {} THEN named ELSE Source

(* Mutant: a span is fetched although some of its rows are missing.         *)
QuranEvidencePartial(target, sources) ==
  IF target = NoRef THEN {NoEvidence}
  ELSE {QuranText(target, d) : d \in SUBSET sources}

(* The span is fetched whole or not at all, and without it no tafsir.       *)
QuranEvidence(target, sources) ==
  IF target = NoRef \/ ~ Exists(target) THEN {NoEvidence}
  ELSE {QuranText(target, d) : d \in SUBSET sources}

HadithEvidence(found) == {NoEvidence} \cup {[NoEvidence EXCEPT !.hadith = h] : h \in found}

EvidenceFor(route, resolution, controls) ==
  CASE route.type \in {"followup quran", "followup tafsir"} ->
         QuranEvidence(route.target, RequestedSources(route, resolution, controls))
    [] route.type = "followup hadith" -> HadithEvidence({route.hadith})
    [] route.type = "topical" -> HadithEvidence(Hadith)
    [] OTHER -> {NoEvidence}

-----------------------------------------------------------------------------
(* Mutant: a span is kept as long as the surah is.                          *)
DeriveSpanOfSurah(ref, previous) ==
  IF ref = NoRef THEN previous.span
  ELSE IF Focus(previous) # NoRef /\ Focus(previous).surah = ref.surah
  THEN IF previous.span # NoRef THEN previous.span ELSE previous.ref
  ELSE ref

(* A verse of the previous span leaves the span as it is.                   *)
DeriveSpan(ref, previous) ==
  LET span == IF previous.span # NoRef THEN previous.span ELSE previous.ref
  IN  IF ref = NoRef THEN previous.span
      ELSE IF Contains(span, ref) THEN span ELSE ref

(* Mutant: only what was displayed last stays in the comparison.            *)
ComparativeOfLastTurn(displayed, previous) == displayed \cup previous.displayed

Comparative(displayed, previous) ==
  displayed \cup previous.comparative \cup previous.displayed

(* hydrate_session_state.  Reading with tafsir goes on with tafsir only if  *)
(* some was found; a turn that shows no Quran text leaves the reading.      *)
DeriveScope(e, previous) ==
  [ref |-> e.ref,
   span |-> DeriveSpan(e.ref, previous),
   displayed |-> e.displayed,
   comparative |-> Comparative(e.displayed, previous),
   hadith |-> e.hadith,
   continuation |-> IF e.ref # NoRef
                    THEN [from |-> e.ref, tafsir |-> e.displayed # {}]
                    ELSE previous.continuation]

(* Mutant: a rejected follow-up is stored like any turn with anchors.       *)
FollowupReadyUnconditionally(e, resolution) == TRUE

FollowupReady(e, resolution) ==
  (e.ref # NoRef \/ e.hadith # NoHadith) /\ resolution.status # "rejected"

(* The span of a numbered verse, or where reading goes on from.             *)
Basis(q, s, route) ==
  IF q.ordinal # NoOrdinal THEN s.span
  ELSE IF route.continues # "no" THEN s.continuation.from
  ELSE NoRef

(* One request: query q with scope s hydrated.  previous is the scope of    *)
(* the stored snapshot, if the request was hydrated from one.               *)
Respond(q, s, previous, resolution, route, found) ==
  \E e \in found :
    LET ready == FollowupReady(e, resolution)
    IN  /\ turn' = [ordinal |-> q.ordinal, rejected |-> resolution.status = "rejected",
                    target |-> IF e.ref # NoRef THEN resolution.target ELSE NoRef,
                    raised |-> route = Raises,
                    continues |-> route.continues, basis |-> Basis(q, s, route),
                    answer |-> e.ref, hadith |-> e.hadith]
        /\ thread' = IF ready THEN DeriveScope(e, previous) ELSE thread
        /\ shown' = IF ready
                    THEN e.displayed \cup (IF previous = thread THEN shown ELSE {})
                    ELSE shown

(* The query names a Quran reference.  It is hydrated when it comes with a  *)
(* conversation id, but never resolved as a follow-up.  Naming sources      *)
(* would add nothing to what may be found: without names it is all of them. *)
AskQuran(r, hydrated) ==
  LET s == IF hydrated THEN thread ELSE EmptyScope
      route == QuranRoute(r)
  IN  Respond(Saying({}), s, s, Unmatched, route, EvidenceFor(route, Unmatched, {}))

AskHadith(h, hydrated) ==
  LET s == IF hydrated THEN thread ELSE EmptyScope
      route == HadithRoute("explain", h)
  IN  Respond(Saying({}), s, s, Unmatched, route, EvidenceFor(route, Unmatched, {}))

(* The query is a follow-up phrase, in the stored thread.                   *)
FollowUp(q, controls) ==
  LET resolution == Resolve(q, thread)
      route == Merge(Classify(q, thread), resolution, thread)
  IN  Respond(q, thread, thread, resolution, route,
              EvidenceFor(route, resolution, controls))

(* The request brings an anchor of its own, which may be no verse at all.   *)
(* There is no snapshot then: the scope is the anchor, its answer starts    *)
(* the stored thread anew.                                                  *)
FollowUpAnchor(q, anchor, controls) ==
  LET s == AnchorScope(anchor)
      resolution == Resolve(q, s)
      route == Merge(Classify(q, s), resolution, s)
  IN  Respond(q, s, EmptyScope, resolution, route,
              EvidenceFor(route, resolution, controls))

Next ==
  \/ \E r \in AskedRef, hydrated \in BOOLEAN : AskQuran(r, hydrated)
  \/ \E h \in Hadith, hydrated \in BOOLEAN : AskHadith(h, hydrated)
  \/ \E q \in Phrase, controls \in SourceControls :
       \/ FollowUp(q, controls)
       \/ \E r \in SuppliedRef : FollowUpAnchor(q, r, controls)

Spec == Init /\ [][Next]_vars

-----------------------------------------------------------------------------
(* The verse in focus is a verse of the active span, whatever navigation,   *)
(* reading and references came before: state_hydrator.py keeps the two in   *)
(* step although they come from different turns.                            *)
SpanCoversFocus == thread.ref # NoRef => Contains(thread.span, thread.ref)

(* Nothing is stored that cannot be fetched: neither "next verse", which    *)
(* quran_followup.py does not bound, nor reading on leaves the surah.       *)
StoredRefsExist ==
  \A r \in {thread.ref, thread.span, thread.continuation.from} \ {NoRef} : Exists(r)

(* A source that the thread has shown can be asked for again, although a    *)
(* later turn has shown others or none (followup_resolver.py).              *)
ShownStayFocusable ==
  HasQuranScope(thread) => \A x \in shown : Resolve(WhatDoesSay(x), thread).status = "matched"

(* A follow-up that the resolver rejects is given no verse and no tafsir,   *)
(* whatever route the classifier had found: at most the hadith that the     *)
(* thread is about, whose route the planner keeps (planner.py).             *)
RejectedStaysInThread ==
  turn.rejected => turn.answer = NoRef /\ turn.hadith \in {NoHadith, thread.hadith}

(* A turn that is rejected or has no evidence leaves the thread as the last *)
(* one stored it (dispatcher.py:89).                                        *)
OnlyEvidenceMovesThread ==
  [][turn'.rejected \/ ~ HasEvidence(turn') => UNCHANGED <<thread, shown>>]_vars

(* A numbered verse is one of the active span, be it found by the           *)
(* classifier in the anchor or by the resolver in the span.                 *)
OrdinalStaysInSpan ==
  turn.ordinal # NoOrdinal /\ turn.answer # NoRef => Contains(turn.basis, turn.answer)

(* Reading on shows the ayahs that follow the last ones shown, across the   *)
(* end of a surah, and ends only with the last ayah of the Quran.           *)
Follows(r, p) ==
  \/ r.surah = p.surah /\ r.first = p.last + 1
  \/ r.surah = p.surah + 1 /\ r.first = 1 /\ p.last = AyahCount[p.surah]

ReadingGoesOn ==
  turn.continues = "forward" =>
    IF turn.answer # NoRef THEN Follows(turn.answer, turn.basis)
    ELSE turn.basis.surah = SurahCount /\ turn.basis.last = AyahCount[SurahCount]

-----------------------------------------------------------------------------
(* followup_phrasebook.py:18 calls the typed capability graph the truth     *)
(* layer: a resolved follow-up is answered at the target of its capability  *)
(* (what reads on in windows, as "Next verse" does, is left aside).         *)
AnsweredAtTarget ==
  turn.target # NoRef /\ turn.continues = "no" => turn.answer = turn.target
=============================================================================
