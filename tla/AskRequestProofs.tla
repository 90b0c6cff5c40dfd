--------------------------- MODULE AskRequestProofs ---------------------------
(***************************************************************************)
(* The properties of a request, proved for every set of requests, every    *)
(* table, every decision of an operator and every result of a retrieval.   *)
(***************************************************************************)
EXTENDS AskRequest, FiniteSetTheorems, TLAPS

HadithPlanMode == {"hadith_text", "hadith_explanation", "topical_hadith", "topical_multi_source"}

AnswerMode == QuranMode \cup TopicalMode \cup HadithPlanMode

PlanFields == {"mode", "abstains", "reason", "terminal", "rejected", "quran", "verify",
               "tafsir", "overlap", "hadith", "retrieval", "shadowOnly"}

(* How a plan ends, and what it then lacks.                                 *)
PlanEnds(p) ==
  \/ /\ p.abstains /\ p.mode = "abstain" /\ p.terminal = "abstain" /\ p.reason \in Reason
  \/ /\ ~ p.abstains /\ ~ p.shadowOnly /\ p.mode = "clarify" /\ p.terminal = "clarify"
     /\ p.reason = None /\ p.quran = None /\ p.retrieval = None
  \/ /\ ~ p.abstains /\ ~ p.shadowOnly /\ p.mode \in AnswerMode /\ p.terminal = "answered"
     /\ p.reason = None
     /\ p.retrieval # None => p.hadith.included /\ p.mode \in HadithPlanMode

SoundPlan(p) ==
  /\ DOMAIN p = PlanFields
  /\ p.abstains \in BOOLEAN /\ p.shadowOnly \in BOOLEAN /\ p.rejected \in BOOLEAN
  /\ p.verify \in BOOLEAN
  /\ PlanEnds(p)
  /\ p.quran # None => p.retrieval = None /\ (p.abstains \/ p.mode \in QuranMode)
  /\ p.verify => p.quran # None /\ p.mode \in {"verification_only", "verification_then_explain"}
  /\ p.tafsir.selected \in Seq(Range(p.tafsir.selected))

-----------------------------------------------------------------------------
(* What the policy on hadith includes is a collection that is enabled.      *)
LEMMA HadithPolicyShape ==
  ASSUME NEW action, NEW mode
  PROVE  HadithPolicy(action, None, mode).included =>
           HadithCollection(None) # None /\ mode # "other"
BY DEF HadithPolicy, Refused

LEMMA TopicalHadithPolicyShape ==
  ASSUME NEW mode
  PROVE  TopicalHadithPolicy(None, mode).included =>
           HadithCollection(None) # None /\ mode \notin {"other", "explicit_lookup_only"}
BY DEF TopicalHadithPolicy, Refused

(* What it selects is a list.                                               *)
LEMMA TafsirPolicyShape ==
  ASSUME NEW a \in Requests, NEW route, NEW action, NEW include, NEW intent
  PROVE  LET p == TafsirPolicy(route, action, include, intent, a.tafsirs, a.text)
         IN  p.selected \in Seq(Range(p.selected))
<1> DEFINE list == ResolvedTafsirs(a.tafsirs)
<1>1. a.tafsirs \in Seq(Tafsirs)
  BY DEF Requests
<1>2. DefaultTafsirs \in Seq(Tafsirs)
  BY DEF DefaultTafsirs, Tafsirs
<1>3. list \in Seq(Tafsirs)
  BY <1>1, <1>2 DEF ResolvedTafsirs
<1>4. ASSUME NEW l \in Seq(Tafsirs)
      PROVE  l \in Seq(Range(l))
  BY DEF Range
<1>5. << >> \in Seq(Tafsirs)
  OBVIOUS
<1>6. TestedTafsirs(list, a.text).selected \in {<< >>, list}
  BY DEF TestedTafsirs, Refused, Included
<1>7. TafsirPolicy(route, action, include, intent, a.tafsirs, a.text).selected \in {<< >>, list}
  BY <1>6 DEF TafsirPolicy, Refused
<1> QED
  BY <1>3, <1>4, <1>5, <1>7

LEMMA TopicalTafsirPolicyShape ==
  ASSUME NEW requested
  PROVE  LET p == TopicalTafsirPolicy(requested)
         IN  p.selected \in Seq(Range(p.selected))
<1> DEFINE s == TafsirForExplain(requested)
<1>1. TopicalTafsirPolicy(requested).selected \in {<< >>, <<s>>}
  BY DEF TopicalTafsirPolicy, TopicalTafsirDecision, Refused, Included
<1>2. << >> \in Seq(Range(<< >>)) /\ <<s>> \in Seq(Range(<<s>>))
  BY DEF Range
<1> QED
  BY <1>1, <1>2

-----------------------------------------------------------------------------
(* The plan of a request, read from the registry as it is.                  *)
PlannedFrom(a, p) ==
  /\ SoundPlan(p) /\ p.rejected = a.rejected
  /\ p.retrieval # None /\ ~ p.abstains => HadithCollection(None) # None
  /\ p.terminal = "answered" => ReadsRegistry(a)

LEMMA EmptyPlanShape ==
  ASSUME NEW a \in Requests
  PROVE  LET p == EmptyPlan(a)
         IN  /\ DOMAIN p = PlanFields
             /\ p.tafsir.selected = << >>
             /\ p.rejected = a.rejected /\ p.rejected \in BOOLEAN
BY DEF EmptyPlan, PlanFields, NotRequested, Refused, Requests

LEMMA OtherPlanShape ==
  ASSUME NEW a \in Requests, a.route \in OtherRoute
  PROVE  PlannedFrom(a, OtherPlan(a))
<1>1. << >> \in Seq(Range(<< >>))
  BY DEF Range
<1>2. CASE a.route = "broad_source_grounded_query"
  BY <1>1, <1>2, RequestAssumption
     DEF PlannedFrom, SoundPlan, PlanEnds, OtherPlan, EmptyPlan, PlanFields, NotRequested, Refused,
         Requests, Reason
<1>3. CASE a.route # "broad_source_grounded_query"
  BY <1>1, <1>3, RequestAssumption
     DEF PlannedFrom, SoundPlan, PlanEnds, OtherPlan, EmptyPlan, PlanFields, NotRequested, Refused,
         Abstaining, Requests, Reason
<1> QED
  BY <1>2, <1>3

LEMMA HadithPlanShape ==
  ASSUME NEW a \in Requests, a.route \in HadithRoute
  PROVE  PlannedFrom(a, HadithPlan(a, HadithPolicy(PlannedAction(a), None, a.mode)))
<1> DEFINE policy == HadithPolicy(PlannedAction(a), None, a.mode)
<1> HIDE DEF policy
<1>1. << >> \in Seq(Range(<< >>))
  BY DEF Range
<1>2. policy.included => HadithCollection(None) # None /\ ReadsRegistry(a)
  BY HadithPolicyShape DEF policy, ReadsRegistry, HadithRoute
<1>3. ASSUME ~ a.resolves PROVE PlannedFrom(a, HadithPlan(a, policy))
  BY <1>1, <1>3, RequestAssumption
     DEF PlannedFrom, SoundPlan, PlanEnds, HadithPlan, EmptyPlan, PlanFields, NotRequested, Refused,
         Abstaining, Requests, Reason
<1>4. ASSUME a.resolves /\ ~ policy.included PROVE PlannedFrom(a, HadithPlan(a, policy))
  BY <1>1, <1>4, RequestAssumption
     DEF PlannedFrom, SoundPlan, PlanEnds, HadithPlan, EmptyPlan, PlanFields, NotRequested, Refused,
         Abstaining, Requests, Reason
<1>5. ASSUME a.resolves /\ policy.included PROVE PlannedFrom(a, HadithPlan(a, policy))
  <2>1. ModeOf(a.route, PlannedAction(a), FALSE) \in {"hadith_explanation", "hadith_text"}
    BY DEF ModeOf, HadithRoute
  <2> QED
    BY <1>1, <1>2, <1>5, <2>1, RequestAssumption
       DEF PlannedFrom, SoundPlan, PlanEnds, HadithPlan, EmptyPlan, PlanFields, NotRequested, Refused,
           Answering, Requests, HadithPlanMode, AnswerMode
<1>6. PlannedFrom(a, HadithPlan(a, policy))
  BY <1>3, <1>4, <1>5
<1> QED
  BY <1>6 DEF policy

LEMMA TopicalTafsirPlanShape ==
  ASSUME NEW a \in Requests, a.route = "topical_tafsir_query"
  PROVE  PlannedFrom(a, TopicalTafsirPlan(a, TopicalTafsirPolicy(Named(a))))
<1> DEFINE policy == TopicalTafsirPolicy(Named(a))
<1>1. policy.selected \in Seq(Range(policy.selected))
  BY TopicalTafsirPolicyShape
<1> HIDE DEF policy
<1>2. ReadsRegistry(a)
  BY DEF ReadsRegistry
<1>3. ASSUME policy.included PROVE PlannedFrom(a, TopicalTafsirPlan(a, policy))
  BY <1>1, <1>2, <1>3, RequestAssumption
     DEF PlannedFrom, SoundPlan, PlanEnds, TopicalTafsirPlan, EmptyPlan, PlanFields, Answering, Requests,
         AnswerMode, TopicalMode
<1>4. ASSUME ~ policy.included PROVE PlannedFrom(a, TopicalTafsirPlan(a, policy))
  BY <1>1, <1>4, RequestAssumption
     DEF PlannedFrom, SoundPlan, PlanEnds, TopicalTafsirPlan, EmptyPlan, PlanFields, Abstaining, Requests, Reason
<1>9. PlannedFrom(a, TopicalTafsirPlan(a, policy))
  BY <1>3, <1>4
<1> QED
  BY <1>9 DEF policy

LEMMA TopicalHadithPlanShape ==
  ASSUME NEW a \in Requests, a.route = "topical_hadith_query"
  PROVE  PlannedFrom(a, TopicalHadithPlan(a, TopicalHadithPolicy(None, a.mode)))
<1> DEFINE policy == TopicalHadithPolicy(None, a.mode)
<1>1. << >> \in Seq(Range(<< >>))
  BY DEF Range
<1>2. policy.included => HadithCollection(None) # None /\ ReadsRegistry(a)
  BY TopicalHadithPolicyShape DEF ReadsRegistry
<1> HIDE DEF policy
<1>3. ASSUME policy.included PROVE PlannedFrom(a, TopicalHadithPlan(a, policy))
  BY <1>1, <1>2, <1>3, RequestAssumption
     DEF PlannedFrom, SoundPlan, PlanEnds, TopicalHadithPlan, EmptyPlan, PlanFields, NotRequested, Refused,
         Answering, Requests, AnswerMode, TopicalMode, HadithPlanMode
<1>4. ASSUME ~ policy.included PROVE PlannedFrom(a, TopicalHadithPlan(a, policy))
  BY <1>1, <1>4, RequestAssumption
     DEF PlannedFrom, SoundPlan, PlanEnds, TopicalHadithPlan, EmptyPlan, PlanFields, NotRequested, Refused,
         Abstaining, Requests, Reason
<1>9. PlannedFrom(a, TopicalHadithPlan(a, policy))
  BY <1>3, <1>4
<1> QED
  BY <1>9 DEF policy

LEMMA MultiSourcePlanShape ==
  ASSUME NEW a \in Requests, a.route = "topical_multi_source_query"
  PROVE  PlannedFrom(a, TopicalMultiSourcePlan(a, TopicalTafsirPolicy(Named(a)),
                                               TopicalHadithPolicy(None, a.mode)))
<1> DEFINE tafsir == TopicalTafsirPolicy(Named(a))
           hadith == TopicalHadithPolicy(None, a.mode)
<1>1. tafsir.selected \in Seq(Range(tafsir.selected))
  BY TopicalTafsirPolicyShape
<1>2. hadith.included => HadithCollection(None) # None
  BY TopicalHadithPolicyShape
<1> HIDE DEF tafsir, hadith
<1>3. ReadsRegistry(a)
  BY DEF ReadsRegistry
<1>4. ASSUME hadith.included PROVE PlannedFrom(a, TopicalMultiSourcePlan(a, tafsir, hadith))
  BY <1>1, <1>2, <1>3, <1>4, RequestAssumption
     DEF PlannedFrom, SoundPlan, PlanEnds, TopicalMultiSourcePlan, EmptyPlan, PlanFields, Answering,
         Requests, AnswerMode, TopicalMode, HadithPlanMode
<1>5. ASSUME ~ hadith.included PROVE PlannedFrom(a, TopicalMultiSourcePlan(a, tafsir, hadith))
  BY <1>1, <1>3, <1>5, RequestAssumption
     DEF PlannedFrom, SoundPlan, PlanEnds, TopicalMultiSourcePlan, EmptyPlan, PlanFields, Answering,
         Abstaining, Requests, Reason, AnswerMode, TopicalMode
<1>9. PlannedFrom(a, TopicalMultiSourcePlan(a, tafsir, hadith))
  BY <1>4, <1>5
<1> QED
  BY <1>9 DEF tafsir, hadith

LEMMA QuotePlanShape ==
  ASSUME NEW a \in Requests, a.route = "arabic_quran_quote"
  PROVE  PlannedFrom(a, QuotePlan(a, QuotePolicy(a)))
<1> DEFINE policy == QuotePolicy(a)
<1>1. policy.selected \in Seq(Range(policy.selected))
  BY TafsirPolicyShape DEF QuotePolicy
<1> HIDE DEF policy
<1>2. ReadsRegistry(a)
  BY DEF ReadsRegistry, QuranRoute
<1>3. ModeOf(a.route, a.action, policy.included) \in {"verification_only", "verification_then_explain"}
  BY DEF ModeOf, HadithRoute
<1>4. a.text # None
  BY RequestAssumption DEF Requests
<1>5. PlannedFrom(a, QuotePlan(a, policy))
  BY <1>1, <1>2, <1>3, <1>4
     DEF PlannedFrom, SoundPlan, PlanEnds, QuotePlan, EmptyPlan, PlanFields, Answering, Requests,
         AnswerMode, QuranMode
<1> QED
  BY <1>5 DEF policy

LEMMA ReferencePlanShape ==
  ASSUME NEW a \in Requests, a.route \in QuranRoute \ {"arabic_quran_quote"}
  PROVE  PlannedFrom(a, ReferencePlan(a, ReferencePolicy(a)))
<1> DEFINE policy == ReferencePolicy(a)
<1>1. policy.selected \in Seq(Range(policy.selected))
  BY TafsirPolicyShape DEF ReferencePolicy
<1> HIDE DEF policy
<1>2. ReadsRegistry(a)
  BY DEF ReadsRegistry, QuranRoute
<1>3. ModeOf(a.route, a.action, policy.included) \in {"quran_with_tafsir", "quran_text", "quran_explanation"}
  BY DEF ModeOf, QuranRoute, HadithRoute
<1> DEFINE refused == policy.reason \in {"tafsir_source_not_enabled", "quran_tafsir_composition_blocked"}
<1>4. ASSUME ~ a.resolves \/ refused PROVE PlannedFrom(a, ReferencePlan(a, policy))
  BY <1>1, <1>4, RequestAssumption
     DEF PlannedFrom, SoundPlan, PlanEnds, ReferencePlan, EmptyPlan, PlanFields, Abstaining, Requests, Reason
<1>5. ASSUME a.resolves /\ ~ refused PROVE PlannedFrom(a, ReferencePlan(a, policy))
  BY <1>1, <1>2, <1>3, <1>5, RequestAssumption
     DEF PlannedFrom, SoundPlan, PlanEnds, ReferencePlan, EmptyPlan, PlanFields, Answering, Requests,
         AnswerMode, QuranMode
<1>6. PlannedFrom(a, ReferencePlan(a, policy))
  BY <1>4, <1>5
<1> QED
  BY <1>6 DEF policy

LEMMA PlanShape ==
  ASSUME NEW a \in Requests
  PROVE  PlannedFrom(a, PlanOf(a))
<1>1. a.route \in Route
  BY DEF Requests
<1>2. CASE a.route \in OtherRoute
  BY <1>2, OtherPlanShape DEF PlanOf, OtherRoute, HadithRoute
<1>3. CASE a.route \in HadithRoute
  BY <1>3, HadithPlanShape DEF PlanOf, OtherRoute, HadithRoute
<1>4. CASE a.route = "topical_tafsir_query"
  BY <1>4, TopicalTafsirPlanShape DEF PlanOf, OtherRoute, HadithRoute
<1>5. CASE a.route = "topical_hadith_query"
  BY <1>5, TopicalHadithPlanShape DEF PlanOf, OtherRoute, HadithRoute
<1>6. CASE a.route = "topical_multi_source_query"
  BY <1>6, MultiSourcePlanShape DEF PlanOf, OtherRoute, HadithRoute
<1>7. CASE a.route = "arabic_quran_quote"
  BY <1>7, QuotePlanShape DEF PlanOf, OtherRoute, HadithRoute
<1>8. CASE a.route \in QuranRoute \ {"arabic_quran_quote"}
  BY <1>8, ReferencePlanShape DEF PlanOf, OtherRoute, HadithRoute, QuranRoute
<1> QED
  BY <1>1, <1>2, <1>3, <1>4, <1>5, <1>6, <1>7, <1>8 DEF Route, TopicalRoute

-----------------------------------------------------------------------------
IsList(l) == l \in Seq(Range(l))

EvidenceFields == {"quran", "match", "verified", "tafsir", "hadith", "supporting", "errors", "warned"}

(* What can be fetched for a plan: nothing for one that abstains, no        *)
(* commentary on a verse that was not fetched.  A match that the verifier   *)
(* found goes without an error, or the answer lacks its commentary.         *)
SoundEvidence(p, ev) ==
  /\ DOMAIN ev = EvidenceFields
  /\ ev.quran \in BOOLEAN /\ ev.verified \in BOOLEAN /\ ev.warned \in BOOLEAN
  /\ IsList(ev.tafsir) /\ IsList(ev.supporting) /\ IsList(ev.errors)
  /\ p.abstains => ~ ev.quran /\ ev.match = "none" /\ ev.tafsir = << >> /\ ev.hadith = None
  /\ ev.hadith # None => p.retrieval # None
  /\ p.quran # None /\ ~ ev.quran => ev.tafsir = << >>
  /\ ev.match # "none" =>
       p.verify /\ (ev.quran \/ ev.errors = << >> \/ p.mode = "verification_then_explain")

(* The readiness gate withholds an answer that lacks what its mode speaks   *)
(* from.                                                                    *)
LEMMA GateShape ==
  ASSUME NEW p, NEW ev, SoundPlan(p)
  PROVE  /\ Readiness(p, ev).forceAbstain <=> Gated(p) /\ ~ HasEvidence(p.mode, ev)
         /\ Readiness(p, ev).forceAbstain =>
              /\ EffectivePlan(p, ev) = Abstaining(p, "insufficient_evidence")
              /\ EffectivePlan(p, ev).abstains /\ EffectivePlan(p, ev).terminal = "abstain"
              /\ EffectivePlan(p, ev).mode = "abstain"
              /\ EffectivePlan(p, ev).reason = "insufficient_evidence"
         /\ ~ Readiness(p, ev).forceAbstain => EffectivePlan(p, ev) = p
         /\ EffectivePlan(p, ev).rejected = p.rejected
<1>1. Readiness(p, ev).forceAbstain <=> Gated(p) /\ ~ HasEvidence(p.mode, ev)
  BY DEF Readiness
<1>2. Readiness(p, ev).forceAbstain =>
        EffectivePlan(p, ev) = Abstaining(p, "insufficient_evidence")
  BY DEF EffectivePlan
<1>3. /\ Abstaining(p, "insufficient_evidence").abstains
      /\ Abstaining(p, "insufficient_evidence").terminal = "abstain"
      /\ Abstaining(p, "insufficient_evidence").mode = "abstain"
      /\ Abstaining(p, "insufficient_evidence").reason = "insufficient_evidence"
      /\ Abstaining(p, "insufficient_evidence").rejected = p.rejected
  BY DEF Abstaining, SoundPlan, PlanFields
<1>4. ~ Readiness(p, ev).forceAbstain => EffectivePlan(p, ev) = p
  BY DEF EffectivePlan
<1> QED
  BY <1>1, <1>2, <1>3, <1>4

LEMMA ResponseFields ==
  ASSUME NEW a, NEW p, NEW ev
  PROVE  LET ready == Readiness(p, ev)
             effective == EffectivePlan(p, ev)
             r == Response(a, p, ev)
         IN  /\ r.ok <=> /\ ~ effective.abstains
                         /\ HasAnswerText(p, ev) \/ RendersAnyway(effective, ev) \/ HasSupport(ev)
             /\ r.mode = effective.mode
             /\ r.terminal = TerminalState(effective)
             /\ r.error = ErrorOf(p, ev, ready, effective)
             /\ r.partial <=> PartialSuccess(p, ev) \/ (ready.forceAbstain /\ ready.partial)
             /\ r.bundles = SourceBundles(effective, ev)
             /\ r.llmReady => r.terminal = "answered"
             /\ r.suggests \/ r.ready => TerminalState(effective) # "abstain" /\ r.anchored
             /\ r.composes <=> r.terminal = "answered"
BY DEF Response, PayloadOf, Payload, Suggests, Capable, PacketReady, Anchored, HasSupport

(* An answer has passed the gate.                                           *)
LEMMA AnsweredPasses ==
  ASSUME NEW a, NEW p, NEW ev, SoundPlan(p), Response(a, p, ev).terminal = "answered"
  PROVE  /\ EffectivePlan(p, ev) = p /\ ~ p.rejected /\ p.terminal = "answered"
         /\ p.mode \in AnswerMode /\ ~ p.abstains
         /\ HasEvidence(p.mode, ev)
<1>1. TerminalState(EffectivePlan(p, ev)) = "answered"
  BY ResponseFields
<1>2. ~ p.rejected /\ EffectivePlan(p, ev).terminal = "answered"
  BY <1>1, GateShape DEF TerminalState
<1>3. EffectivePlan(p, ev) = p /\ ~ Readiness(p, ev).forceAbstain
  BY <1>2, GateShape
<1>4. p.mode \in AnswerMode /\ ~ p.abstains
  BY <1>2, <1>3 DEF SoundPlan, PlanEnds
<1>5. Gated(p)
  BY <1>2, <1>3, <1>4 DEF Gated, AnswerMode, QuranMode, TopicalMode, HadithPlanMode
<1> QED
  BY <1>2, <1>3, <1>4, <1>5, GateShape

(* Every mode of an answer speaks from some evidence.                       *)
LEMMA EvidenceOfMode ==
  ASSUME NEW mode \in AnswerMode, NEW ev, HasEvidence(mode, ev)
  PROVE  /\ (QuranAvailable(ev) /\ mode \in QuranMode) \/ ev.tafsir # << >> \/ ev.hadith # None
         /\ mode \in TopicalMode => ev.tafsir # << >> \/ ev.hadith # None
BY DEF AnswerMode, QuranMode, TopicalMode, HadithPlanMode, HasEvidence

(* The bundles of the three kinds are lists, each empty only without its    *)
(* evidence.                                                                *)
LEMMA ElementsShape ==
  ASSUME NEW list, IsList(list), NEW places \in SUBSET (DOMAIN list)
  PROVE  /\ Cardinality(places) \in Nat
         /\ DOMAIN ElementsAt(list, places) = 1 .. Cardinality(places)
         /\ IsList(ElementsAt(list, places))
         /\ Len(ElementsAt(list, places)) = Cardinality(places)
         /\ places = {} <=> Cardinality(places) = 0
<1>1. IsFiniteSet(DOMAIN list)
  <2>1. DOMAIN list = 1 .. Len(list) /\ Len(list) \in Nat
    BY DEF IsList
  <2> QED
    BY <2>1, FS_Interval
<1>2. IsFiniteSet(places)
  BY <1>1, FS_Subset
<1>3. Cardinality(places) \in Nat /\ (places = {} <=> Cardinality(places) = 0)
  BY <1>2, FS_CardinalityType, FS_EmptySet
<1> DEFINE n == Cardinality(places)
           l == ElementsAt(list, places)
<1>4. DOMAIN l = 1 .. n
  BY DEF ElementsAt
<1>5. l = [k \in 1 .. n |-> l[k]]
  BY DEF ElementsAt
<1>6. \A k \in 1 .. n : l[k] \in Range(l)
  BY <1>4 DEF Range
<1> HIDE DEF n, l
<1>7. l \in Seq(Range(l)) /\ Len(l) = n
  BY <1>3, <1>4, <1>5, <1>6 DEF n
<1> QED
  BY <1>3, <1>4, <1>7 DEF n, l, IsList

LEMMA TafsirBundlesShape ==
  ASSUME NEW ev, IsList(ev.tafsir)
  PROVE  /\ IsList(TafsirBundles(ev))
         /\ TafsirBundles(ev) = << >> <=> ev.tafsir = << >>
<1> DEFINE first == {i \in DOMAIN ev.tafsir : \A j \in 1 .. i - 1 : ev.tafsir[j] # ev.tafsir[i]}
           sources == TafsirSources(ev)
           n == Cardinality(first)
<1>1. sources = ElementsAt(ev.tafsir, first) /\ first \in SUBSET (DOMAIN ev.tafsir)
  BY DEF TafsirSources
<1>2. DOMAIN sources = 1 .. n /\ n \in Nat /\ (first = {} <=> n = 0)
  BY <1>1, ElementsShape
<1>3. first = {} <=> ev.tafsir = << >>
  <2>1. DOMAIN ev.tafsir = 1 .. Len(ev.tafsir) /\ Len(ev.tafsir) \in Nat
    BY DEF IsList
  <2>2. CASE ev.tafsir = << >>
    BY <2>2
  <2>3. CASE ev.tafsir # << >>
    <3>1. Len(ev.tafsir) # 0
      BY <2>3 DEF IsList
    <3>2. 1 \in first
      BY <2>1, <3>1
    <3> QED
      BY <2>3, <3>2
  <2> QED
    BY <2>2, <2>3
<1> DEFINE l == TafsirBundles(ev)
<1>4. DOMAIN l = 1 .. n /\ l = [k \in 1 .. n |-> l[k]]
  BY <1>2 DEF TafsirBundles
<1> HIDE DEF first, sources, n, l
<1>5. \A k \in 1 .. n : l[k] \in Range(l)
  BY <1>4 DEF Range
<1>6. l \in Seq(Range(l)) /\ Len(l) = n
  BY <1>2, <1>4, <1>5
<1>7. l = << >> <=> n = 0
  BY <1>2, <1>6
<1> QED
  BY <1>2, <1>3, <1>6, <1>7 DEF l, IsList

LEMMA HadithBundlesShape ==
  ASSUME NEW p, NEW ev, IsList(ev.supporting)
  PROVE  /\ IsList(HadithBundles(p, ev))
         /\ HadithBundles(p, ev) = << >> <=> ev.hadith = None
<1>1. CASE ev.hadith = None
  BY <1>1 DEF HadithBundles, IsList, Range
<1>2. CASE ev.hadith # None
  <2> DEFINE role == IF p.mode = "topical_hadith" THEN "topical_hadith_source"
                     ELSE "explicit_hadith_source"
             lead == Bundle("hadith", role, ev.hadith)
             rest == [i \in DOMAIN ev.supporting |->
                        Bundle("hadith", "supporting_hadith_source", ev.supporting[i])]
             B == {lead} \cup {Bundle("hadith", "supporting_hadith_source", ev.supporting[i]) :
                                 i \in DOMAIN ev.supporting}
  <2>1. HadithBundles(p, ev) = <<lead>> \o rest
    BY <1>2 DEF HadithBundles
  <2>2. DOMAIN ev.supporting = 1 .. Len(ev.supporting) /\ Len(ev.supporting) \in Nat
    BY DEF IsList
  <2>3. <<lead>> \in Seq(B)
    OBVIOUS
  <2>4. rest \in Seq(B)
    BY <2>2
  <2> HIDE DEF lead, rest, B
  <2>5. Len(<<lead>> \o rest) = 1 + Len(rest) /\ <<lead>> \o rest \in Seq(B) /\ Len(rest) \in Nat
    BY <2>3, <2>4
  <2> DEFINE l == <<lead>> \o rest
  <2>6. l \in Seq(B) /\ Len(l) # 0
    BY <2>5
  <2> HIDE DEF l
  <2>7. l \in Seq(Range(l)) /\ l # << >>
    BY <2>6 DEF Range
  <2> QED
    BY <1>2, <2>1, <2>7 DEF l, IsList
<1> QED
  BY <1>1, <1>2

LEMMA QuranBundlesShape ==
  ASSUME NEW p, NEW ev
  PROVE  /\ IsList(QuranBundles(p, ev))
         /\ QuranBundles(p, ev) = << >> <=> ~ (p.mode \in QuranMode /\ QuranAvailable(ev))
<1> DEFINE l == QuranBundles(p, ev)
<1>1. \/ l = << >> /\ ~ (p.mode \in QuranMode /\ QuranAvailable(ev))
      \/ /\ p.mode \in QuranMode /\ QuranAvailable(ev)
         /\ \E b : l = <<b>>
  BY DEF QuranBundles, QuranAvailable
<1>2. << >> \in Seq(Range(<< >>))
  BY DEF Range
<1>3. \A b : <<b>> \in Seq(Range(<<b>>)) /\ <<b>> # << >>
  BY DEF Range
<1> QED
  BY <1>1, <1>2, <1>3 DEF IsList

(* A response shows something when it has some evidence that it may show.   *)
LEMMA SourceBundlesShape ==
  ASSUME NEW p, NEW ev, IsList(ev.tafsir), IsList(ev.supporting)
  PROVE  SourceBundles(p, ev) = << >> <=>
           /\ ~ (p.mode \in QuranMode /\ QuranAvailable(ev))
           /\ ev.tafsir = << >> /\ ev.hadith = None
<1> DEFINE q == QuranBundles(p, ev)
           t == TafsirBundles(ev)
           h == HadithBundles(p, ev)
           S == Range(q) \cup Range(t) \cup Range(h)
<1>1. IsList(q) /\ IsList(t) /\ IsList(h)
  BY QuranBundlesShape, TafsirBundlesShape, HadithBundlesShape
<1>2. SourceBundles(p, ev) = q \o t \o h
  BY DEF SourceBundles
<1> HIDE DEF q, t, h
<1>3. q \in Seq(S) /\ t \in Seq(S) /\ h \in Seq(S)
  BY <1>1 DEF IsList
<1> HIDE DEF S
<1>4. q \o t \in Seq(S) /\ Len(q \o t) = Len(q) + Len(t)
  BY <1>3
<1>5. q \o t \o h \in Seq(S) /\ Len(q \o t \o h) = Len(q) + Len(t) + Len(h)
  BY <1>3, <1>4
<1>6. /\ Len(q) \in Nat /\ (q = << >> <=> Len(q) = 0)
      /\ Len(t) \in Nat /\ (t = << >> <=> Len(t) = 0)
      /\ Len(h) \in Nat /\ (h = << >> <=> Len(h) = 0)
  BY <1>3
<1>7. q \o t \o h = << >> <=> q = << >> /\ t = << >> /\ h = << >>
  BY <1>5, <1>6
<1> QED
  BY <1>2, <1>7, QuranBundlesShape, TafsirBundlesShape, HadithBundlesShape DEF q, t, h

-----------------------------------------------------------------------------
(* What a response to a sound plan on sound evidence says.                  *)
LEMMA AnswerShape ==
  ASSUME NEW a, NEW p, NEW ev, SoundPlan(p), SoundEvidence(p, ev),
         Response(a, p, ev).terminal = "answered"
  PROVE  /\ Response(a, p, ev).mode = p.mode /\ HasEvidence(p.mode, ev)
         /\ Response(a, p, ev).bundles # << >>
         /\ p.terminal = "answered" /\ ~ p.abstains
<1>1. /\ EffectivePlan(p, ev) = p /\ p.terminal = "answered" /\ ~ p.abstains
      /\ p.mode \in AnswerMode /\ HasEvidence(p.mode, ev)
  BY AnsweredPasses
<1>2. Response(a, p, ev).mode = p.mode /\ Response(a, p, ev).bundles = SourceBundles(p, ev)
  BY <1>1, ResponseFields
<1>3. SourceBundles(p, ev) # << >>
  BY <1>1, EvidenceOfMode, SourceBundlesShape DEF SoundEvidence
<1> QED
  BY <1>1, <1>2, <1>3

LEMMA AbstentionShape ==
  ASSUME NEW a, NEW p, NEW ev, SoundPlan(p), SoundEvidence(p, ev), p.abstains
  PROVE  /\ ~ Response(a, p, ev).ok
         /\ Response(a, p, ev).bundles = << >>
         /\ Response(a, p, ev).error = p.reason
<1>1. p.mode = "abstain" /\ ~ Gated(p)
  BY DEF SoundPlan, PlanEnds, Gated
<1>2. EffectivePlan(p, ev) = p
  BY <1>1, GateShape
<1>3. ~ HasSupport(ev)
  BY DEF SoundEvidence, HasSupport
<1>4. ErrorOf(p, ev, Readiness(p, ev), p) = p.reason
  BY <1>3 DEF ErrorOf
<1>5. SourceBundles(p, ev) = << >>
  BY <1>1, SourceBundlesShape DEF SoundEvidence, QuranMode
<1> QED
  BY <1>2, <1>4, <1>5, ResponseFields

LEMMA SuggestionShape ==
  ASSUME NEW a, NEW p, NEW ev
  PROVE  LET r == Response(a, p, ev)
         IN  /\ r.suggests \/ r.ready => r.terminal # "abstain" /\ r.anchored
             /\ r.terminal # "answered" => ~ r.llmReady /\ ~ r.composes
BY ResponseFields

(* The condition under which an error is named of a response that does not  *)
(* abstain.                                                                 *)
LEMMA ErrorNamed ==
  ASSUME NEW p, NEW ev, NEW ready, NEW effective,
         ~ effective.abstains, ~ ready.forceAbstain,
         ErrorOf(p, ev, ready, effective) # None
  PROVE  /\ ev.errors # << >>
         /\ \/ effective.mode \in TopicalMode /\ ~ HasSupport(ev)
            \/ ev.hadith = None /\ effective.retrieval # None
            \/ ~ ev.quran /\ effective.quran # None
BY DEF ErrorOf

LEMMA ErrorShape ==
  ASSUME NEW a, NEW p, NEW ev, SoundPlan(p), SoundEvidence(p, ev), ~ p.rejected
  PROVE  LET r == Response(a, p, ev)
         IN  /\ r.ok /\ r.error # None => r.partial
             /\ ~ r.ok => r.error # None
<1> DEFINE r == Response(a, p, ev)
           ready == Readiness(p, ev)
<1>1. CASE p.abstains
  <2>1. p.reason # None
    BY <1>1, RequestAssumption DEF SoundPlan, PlanEnds
  <2> QED
    BY <1>1, <2>1, AbstentionShape
<1>2. CASE ready.forceAbstain
  <2> DEFINE effective == EffectivePlan(p, ev)
  <2>1. effective.abstains /\ effective.reason = "insufficient_evidence"
    BY <1>2, GateShape
  <2>2. ErrorOf(p, ev, ready, effective) = "insufficient_evidence"
    BY <1>2, <2>1 DEF ErrorOf
  <2>3. "insufficient_evidence" # None
    BY RequestAssumption DEF Reason
  <2> QED
    BY <2>1, <2>2, <2>3, ResponseFields
<1>3. CASE ~ p.abstains /\ ~ ready.forceAbstain
  <2>1. EffectivePlan(p, ev) = p
    BY <1>3, GateShape
  <2>2. /\ r.ok <=> HasAnswerText(p, ev) \/ RendersAnyway(p, ev) \/ HasSupport(ev)
        /\ r.error = ErrorOf(p, ev, ready, p)
        /\ r.partial <=> PartialSuccess(p, ev)
    BY <1>3, <2>1, ResponseFields
  <2>3. CASE p.mode = "clarify"
    <3>1. HasAnswerText(p, ev)
      BY <2>3 DEF HasAnswerText
    <3>2. p.quran = None /\ p.retrieval = None
      BY <1>3, <2>3 DEF SoundPlan, PlanEnds, AnswerMode, QuranMode, TopicalMode, HadithPlanMode
    <3>3. r.error = None
      BY <1>3, <2>2, <2>3, <3>2, ErrorNamed DEF TopicalMode
    <3> QED
      BY <2>2, <3>1, <3>3
  <2>4. CASE p.mode # "clarify"
    <3>1. p.mode \in AnswerMode /\ p.terminal = "answered"
      BY <1>3, <2>4 DEF SoundPlan, PlanEnds
    <3>2. HasEvidence(p.mode, ev)
      BY <1>3, <3>1, GateShape
         DEF Gated, AnswerMode, QuranMode, TopicalMode, HadithPlanMode
    <3>3. HasSupport(ev) \/ RendersAnyway(p, ev)
      BY <3>1, <3>2, EvidenceOfMode DEF HasSupport, RendersAnyway
    <3>4. ASSUME r.error # None PROVE PartialSuccess(p, ev)
      <4>1. /\ ev.errors # << >>
            /\ \/ p.mode \in TopicalMode /\ ~ HasSupport(ev)
               \/ ev.hadith = None /\ p.retrieval # None
               \/ ~ ev.quran /\ p.quran # None
        BY <1>3, <2>2, <3>4, ErrorNamed
      <4>2. CASE p.mode \in TopicalMode /\ ~ HasSupport(ev)
        BY <3>1, <3>2, <4>2, EvidenceOfMode DEF HasSupport
      <4>3. CASE ev.hadith = None /\ p.retrieval # None
        <5>1. p.mode \in HadithPlanMode
          BY <1>3, <3>1, <4>3 DEF SoundPlan, PlanEnds, AnswerMode, QuranMode, TopicalMode, HadithPlanMode
        <5>2. p.mode = "topical_multi_source" /\ ev.tafsir # << >>
          BY <3>2, <4>3, <5>1 DEF HadithPlanMode, HasEvidence
        <5> QED
          BY <4>3, <5>2 DEF PartialSuccess
      <4>4. CASE ~ ev.quran /\ p.quran # None
        <5>1. p.mode \in QuranMode /\ ev.tafsir = << >>
          BY <1>3, <4>4 DEF SoundPlan, SoundEvidence
        <5>2. ev.match # "none" /\ p.mode # "verification_then_explain"
          BY <3>2, <4>4, <5>1 DEF HasEvidence, QuranAvailable
        <5>3. ev.errors = << >>
          BY <4>4, <5>2 DEF SoundEvidence
        <5> QED
          BY <4>1, <5>3
      <4> QED
        BY <4>1, <4>2, <4>3, <4>4
    <3> QED
      BY <2>2, <3>3, <3>4
  <2> QED
    BY <2>3, <2>4
<1> QED
  BY <1>1, <1>2, <1>3

-----------------------------------------------------------------------------
(* Lists grow at the end and shrink from the front.                         *)
LEMMA AppendIsList ==
  ASSUME NEW l, IsList(l), NEW x
  PROVE  /\ IsList(Append(l, x)) /\ Range(Append(l, x)) = Range(l) \cup {x}
         /\ Append(l, x) # << >>
<1> DEFINE S == Range(l) \cup {x}
           m == Append(l, x)
<1>1. l \in Seq(S)
  BY DEF IsList
<1>2. /\ m \in Seq(S) /\ Len(m) = Len(l) + 1 /\ Len(l) \in Nat
      /\ \A i \in 1 .. Len(l) : m[i] = l[i]
      /\ m[Len(l) + 1] = x
      /\ DOMAIN l = 1 .. Len(l) /\ DOMAIN m = 1 .. Len(l) + 1
  BY <1>1
<1>3. Range(m) = S
  <2>1. \A y \in Range(l) : y \in Range(m)
    BY <1>2 DEF Range
  <2>2. x \in Range(m)
    BY <1>2 DEF Range
  <2>3. \A i \in DOMAIN m : m[i] \in S
    BY <1>2 DEF Range
  <2> QED
    BY <2>1, <2>2, <2>3 DEF Range
<1>4. m # << >>
  BY <1>2
<1> QED
  BY <1>2, <1>3, <1>4 DEF IsList

LEMMA SeqIsList ==
  ASSUME NEW S, NEW l \in Seq(S)
  PROVE  IsList(l)
BY DEF IsList, Range

LEMMA TailIsList ==
  ASSUME NEW l, IsList(l), l # << >>
  PROVE  /\ IsList(Tail(l)) /\ Range(Tail(l)) \subseteq Range(l)
         /\ Head(l) \in Range(l)
<1> DEFINE S == Range(l)
           m == Tail(l)
<1>1. /\ l \in Seq(S) /\ Len(l) \in Nat /\ Len(l) # 0 /\ DOMAIN l = 1 .. Len(l)
  BY DEF IsList
<1>2. /\ m \in Seq(S) /\ Len(m) = Len(l) - 1 /\ DOMAIN m = 1 .. Len(l) - 1
  BY <1>1
<1>3. \A i \in DOMAIN m : m[i] \in S
  BY <1>2
<1>4. Range(m) \subseteq S
  BY <1>3 DEF Range
<1>5. IsList(m)
  BY <1>2, SeqIsList
<1>6. Head(l) \in Range(l)
  BY <1>1 DEF Range
<1> QED
  BY <1>4, <1>5, <1>6

LEMMA EmptyIsList == IsList(<< >>) /\ Range(<< >>) = {}
BY DEF IsList, Range

(* What a fetch makes of sound evidence is sound.                           *)
LEMMA WarnedEvidence ==
  ASSUME NEW p, NEW ev, SoundEvidence(p, ev), NEW w \in BOOLEAN
  PROVE  SoundEvidence(p, [ev EXCEPT !.warned = w])
BY DEF SoundEvidence, EvidenceFields

LEMMA FailedEvidence ==
  ASSUME NEW p, NEW ev, SoundEvidence(p, ev), NEW e,
         ev.match = "none" \/ ev.quran \/ p.mode = "verification_then_explain"
  PROVE  SoundEvidence(p, [ev EXCEPT !.errors = Append(@, e)])
<1>1. IsList(Append(ev.errors, e))
  BY AppendIsList DEF SoundEvidence
<1> QED
  BY <1>1 DEF SoundEvidence, EvidenceFields

LEMMA SpanEvidence ==
  ASSUME NEW p, NEW ev, SoundEvidence(p, ev), ~ p.abstains
  PROVE  SoundEvidence(p, [ev EXCEPT !.quran = TRUE])
BY DEF SoundEvidence, EvidenceFields

LEMMA TafsirEvidence ==
  ASSUME NEW p, NEW ev, SoundEvidence(p, ev), ~ p.abstains, p.quran # None => ev.quran, NEW s
  PROVE  SoundEvidence(p, [ev EXCEPT !.tafsir = Append(@, s)])
<1>1. IsList(Append(ev.tafsir, s))
  BY AppendIsList DEF SoundEvidence
<1> QED
  BY <1>1 DEF SoundEvidence, EvidenceFields

LEMMA HadithEvidence ==
  ASSUME NEW p, NEW ev, SoundEvidence(p, ev), ~ p.abstains, p.retrieval # None,
         NEW n, NEW l, IsList(l)
  PROVE  SoundEvidence(p, [ev EXCEPT !.hadith = n, !.supporting = l])
BY DEF SoundEvidence, EvidenceFields

-----------------------------------------------------------------------------
(* The invariant.  While it fetches, a request carries a plan that the      *)
(* registry allowed and evidence that stays within it.                      *)
Planning == {"context", "plan"}
Fetching == {"quran", "span", "tafsir", "sections"}
Carrying == Fetching \cup {"hadith", "respond"}

Allowed ==
  /\ plan.retrieval # None /\ ~ plan.abstains => Bukhari \in eligible
  /\ plan.terminal = "answered" => reachable

Carried ==
  /\ SoundPlan(plan) /\ SoundEvidence(plan, evidence) /\ Allowed
  /\ plan.rejected = ask.rejected
  /\ Range(evidence.tafsir) \subseteq eligible \cap Range(plan.tafsir.selected)

Pending == IsList(pending) /\ Range(pending) \subseteq Range(plan.tafsir.selected)

(* What holds at one step of a request or another.                          *)
AtQuran == ~ plan.abstains /\ evidence = NoEvidence /\ plan.quran # None

AtSpan ==
  /\ ~ plan.abstains /\ plan.quran # None /\ plan.verify
  /\ evidence.errors = << >> /\ evidence.tafsir = << >> /\ evidence.hadith = None

AtTafsir == ~ plan.abstains /\ evidence.hadith = None

AtSections ==
  /\ AtTafsir /\ pending # << >>
  /\ work \in eligible \cap Range(plan.tafsir.selected)
  /\ plan.quran # None => evidence.quran

AtHadith == evidence.hadith = None /\ (plan.abstains => plan.shadowOnly)

Outcome ==
  \/ response = None
  \/ /\ \E e : e # None /\ response = ErrorResponse(e)
     /\ plan # None => ~ plan.abstains
  \/ Carried /\ response = Response(ask, plan, evidence)

SeesRegistry == Eligible \subseteq eligible /\ (database # "down" => reachable)

IInv ==
  /\ pc \in Step \cup {"idle", "answered"}
  /\ pc # "idle" => ask \in Ask
  /\ pc \in Step => SeesRegistry
  /\ pc # "answered" => response = None
  /\ pc \in Planning => plan = None
  /\ pc \in Carrying => Carried
  /\ pc \in Fetching => Pending
  /\ pc = "quran" => AtQuran
  /\ pc = "span" => AtSpan
  /\ pc = "tafsir" => AtTafsir
  /\ pc = "sections" => AtSections
  /\ pc = "hadith" => AtHadith
  /\ pc = "answered" => Outcome

(* What is eligible depends on the table and on the database alone.         *)
LEMMA EligibleUnchanged ==
  ASSUME UNCHANGED <<row, database>>
  PROVE  Eligible' = Eligible /\ (SeesRegistry /\ UNCHANGED <<eligible, reachable>> => SeesRegistry')
<1>1. Eligible' = Eligible
  BY DEF Eligible, MayBeExplainedFrom, HadithCollection, Known, Rows, Domain
<1> QED
  BY <1>1 DEF SeesRegistry

(* What a request carries stays sound while the registry changes.           *)
LEMMA CarriedGrows ==
  ASSUME Carried, UNCHANGED <<ask, plan, evidence>>, eligible \subseteq eligible', reachable => reachable'
  PROVE  Carried'
BY DEF Carried, Allowed

LEMMA InitInv == Init => IInv
BY DEF Init, IInv, Planning, Carrying, Fetching, Step

LEMMA ArriveInv ==
  ASSUME IInv, NEW a \in Ask, Arrive(a)
  PROVE  IInv'
<1>1. pc' \in Planning /\ pc' \in Step /\ pc' \notin Carrying /\ pc' \notin Fetching
  BY DEF Arrive, Planning, Step, Carrying, Fetching
<1>2. Eligible' = Eligible
  BY EligibleUnchanged DEF Arrive, registry
<1>3. SeesRegistry'
  BY <1>2 DEF SeesRegistry, Arrive, registry
<1> QED
  BY <1>1, <1>3 DEF IInv, Arrive, Planning, Step, Carrying, Fetching

(* A step of the request itself sees the registry as it is.                 *)
LEMMA AtKeeps ==
  ASSUME IInv, NEW step \in Step, At(step)
  PROVE  /\ ask \in Ask /\ UNCHANGED <<ask, eligible, reachable>> /\ pc = step
         /\ SeesRegistry /\ SeesRegistry' /\ response = None
<1>1. pc = step /\ UNCHANGED <<row, database, ask, eligible, reachable>>
  BY DEF At, registry
<1>2. SeesRegistry
  BY <1>1 DEF IInv
<1>3. SeesRegistry'
  BY <1>1, <1>2, EligibleUnchanged
<1> QED
  BY <1>1, <1>2, <1>3 DEF IInv, Step

(* To end without a response, or with an error that the context names.      *)
LEMMA RaisesInv ==
  ASSUME IInv, NEW step \in Step, At(step), Raises
  PROVE  IInv'
<1>1. ask \in Ask /\ ask' = ask
  BY AtKeeps
<1>2. pc' = "answered" /\ Outcome'
  BY DEF Raises, Answer, Outcome
<1> QED
  BY <1>1, <1>2 DEF IInv, Step, Planning, Carrying, Fetching

LEMMA ContextEnds ==
  ASSUME NEW text
  PROVE  QuranContext(RepositoryMode, text, Translation).ends \in ContextEnd
BY DEF QuranContext, ContextEnd

LEMMA WithoutContextInv ==
  ASSUME IInv, NEW step \in Step, At(step), NEW text, WithoutContext(text),
         plan # None => ~ plan.abstains
  PROVE  IInv'
<1> DEFINE e == QuranContext(RepositoryMode, text, Translation).ends
<1>1. ask \in Ask /\ ask' = ask
  BY AtKeeps
<1>2. e # None
  BY ContextEnds, RequestAssumption
<1>3. pc' = "answered" /\ response' = ErrorResponse(e) /\ plan' = plan
  BY DEF WithoutContext, Answer
<1>4. Outcome'
  BY <1>2, <1>3 DEF Outcome
<1> QED
  BY <1>1, <1>3, <1>4 DEF IInv, Step, Planning, Carrying, Fetching

LEMMA ResolveContextInv ==
  ASSUME IInv, ResolveContext
  PROVE  IInv'
<1>1. At("context") /\ "context" \in Step /\ plan = None
  BY DEF ResolveContext, At, IInv, Step, Planning
<1>2. CASE WithoutContext(ask.text)
  BY <1>1, <1>2, WithoutContextInv
<1>3. CASE HasContext(ask.text) /\ pc' = "plan" /\ UNCHANGED <<plan, evidence, pending, work, response>>
  <2>1. ask \in Ask /\ ask' = ask /\ SeesRegistry' /\ response = None
    BY <1>1, AtKeeps
  <2> QED
    BY <1>1, <1>3, <2>1 DEF IInv, Step, Planning, Carrying, Fetching
<1> QED
  BY <1>2, <1>3 DEF ResolveContext

LEMMA NothingFetched ==
  ASSUME NEW p, NEW l, IsList(l)
  PROVE  SoundEvidence(p, [NoEvidence EXCEPT !.errors = l])
BY EmptyIsList DEF SoundEvidence, NoEvidence, EvidenceFields

LEMMA ExecuteInv ==
  ASSUME IInv, At("plan"), ~ (RegistryFails /\ ReadsRegistry(ask)), Execute(PlanOf(ask)),
         UNCHANGED <<work, response>>
  PROVE  IInv'
<1> DEFINE p == PlanOf(ask)
<1>1. /\ ask \in Ask /\ UNCHANGED <<ask, eligible, reachable>> /\ SeesRegistry /\ SeesRegistry'
      /\ response = None
  BY AtKeeps DEF Step
<1>2. PlannedFrom(ask, p)
  BY <1>1, PlanShape, RequestAssumption
<1> HIDE DEF p
<1>3. /\ plan' = p
      /\ pending' = IF p.abstains \/ ~ p.tafsir.included THEN << >> ELSE p.tafsir.selected
      /\ evidence' = [NoEvidence EXCEPT !.errors = IF p.reason = None THEN << >> ELSE <<p.reason>>]
      /\ pc' = IF p.abstains THEN (IF p.shadowOnly THEN "hadith" ELSE "respond")
               ELSE IF p.quran # None THEN "quran" ELSE "tafsir"
  BY DEF Execute, p
<1>4. SoundPlan(plan') /\ IsList(p.tafsir.selected)
  BY <1>2, <1>3 DEF PlannedFrom, SoundPlan, IsList
<1>5. SoundEvidence(plan', evidence')
  <2>1. IsList(<<p.reason>>) /\ IsList(<< >>)
    BY DEF IsList, Range
  <2> QED
    BY <1>3, <2>1, NothingFetched
<1>6. /\ evidence'.tafsir = << >> /\ evidence'.hadith = None
      /\ ~ p.abstains => evidence' = NoEvidence
  BY <1>2, <1>3 DEF NoEvidence, PlannedFrom, SoundPlan, PlanEnds
<1>7. Allowed'
  <2>1. p.retrieval # None /\ ~ p.abstains => Bukhari \in eligible
    <3>1. HadithCollection(None) = HadithCollection(Bukhari)
      BY DEF HadithCollection
    <3> QED
      BY <1>1, <1>2, <3>1 DEF PlannedFrom, SeesRegistry, Eligible
  <2>2. p.terminal = "answered" => reachable
    BY <1>1, <1>2 DEF PlannedFrom, SeesRegistry, RegistryFails
  <2> QED
    BY <1>1, <1>3, <2>1, <2>2 DEF Allowed
<1>8. Carried'
  BY <1>1, <1>2, <1>3, <1>4, <1>5, <1>6, <1>7, EmptyIsList DEF Carried, PlannedFrom
<1>9. Pending'
  BY <1>3, <1>4, EmptyIsList DEF Pending
<1>10. /\ pc' \in Carrying /\ pc' \in Step /\ pc' \notin Planning
       /\ pc' \notin {"span", "sections", "answered"}
  BY <1>3 DEF Carrying, Fetching, Step, Planning
<1>11. /\ pc' = "quran" => AtQuran'
       /\ pc' = "tafsir" => AtTafsir'
       /\ pc' = "hadith" => AtHadith'
  BY <1>3, <1>6 DEF AtQuran, AtTafsir, AtHadith
<1> QED
  BY <1>1, <1>8, <1>9, <1>10, <1>11 DEF IInv

LEMMA PlanRequestInv ==
  ASSUME IInv, PlanRequest
  PROVE  IInv'
<1>1. At("plan") /\ "plan" \in Step /\ plan = None
  BY DEF PlanRequest, At, IInv, Step, Planning
<1>2. CASE WithoutContext(ask.text)
  BY <1>1, <1>2, WithoutContextInv
<1>3. CASE Raises
  BY <1>1, <1>3, RaisesInv
<1>4. CASE Answer(ErrorResponse(Failed)) /\ UNCHANGED <<plan, evidence, pending, work>>
  <2>1. ask \in Ask /\ ask' = ask
    BY <1>1, AtKeeps
  <2>2. Failed # None
    BY RequestAssumption DEF ContextEnd
  <2>3. pc' = "answered" /\ Outcome'
    BY <1>1, <1>4, <2>2 DEF Answer, Outcome
  <2> QED
    BY <2>1, <2>3 DEF IInv, Step, Planning, Carrying, Fetching
<1>5. CASE /\ ~ (RegistryFails /\ ReadsRegistry(ask))
           /\ Execute(PlanOf(ask))
           /\ UNCHANGED <<work, response>>
  BY <1>1, <1>5, ExecuteInv
<1> QED
  BY <1>2, <1>3, <1>4, <1>5 DEF PlanRequest

(* A step that goes on with the same plan.                                  *)
LEMMA FetchInv ==
  ASSUME IInv, NEW step \in Carrying, At(step), UNCHANGED <<plan, response>>,
         SoundEvidence(plan, evidence'),
         Range(evidence'.tafsir) \subseteq eligible \cap Range(plan.tafsir.selected),
         pc' \in Carrying,
         pc' \in Fetching => Pending',
         pc' = "quran" => AtQuran',
         pc' = "span" => AtSpan',
         pc' = "tafsir" => AtTafsir',
         pc' = "sections" => AtSections',
         pc' = "hadith" => AtHadith'
  PROVE  IInv'
<1>1. step \in Step
  BY DEF Carrying, Fetching, Step
<1>2. /\ ask \in Ask /\ UNCHANGED <<ask, eligible, reachable>> /\ pc = step
      /\ SeesRegistry' /\ response = None
  BY <1>1, AtKeeps
<1>3. Carried
  BY <1>2 DEF IInv
<1>4. Carried'
  BY <1>2, <1>3 DEF Carried, Allowed
<1>5. pc' \in Step /\ pc' \notin Planning /\ pc' # "answered"
  BY DEF Carrying, Fetching, Step, Planning
<1> QED
  BY <1>2, <1>4, <1>5 DEF IInv

LEMMA FetchQuranInv ==
  ASSUME IInv, FetchQuran
  PROVE  IInv'
<1>1. At("quran") /\ "quran" \in Step /\ "quran" \in Carrying /\ pc = "quran"
  BY DEF FetchQuran, At, Step, Carrying, Fetching
<1>2. Carried /\ Pending /\ AtQuran
  BY <1>1 DEF IInv, Fetching
<1>3. CASE WithoutContext(plan.quran)
  BY <1>1, <1>2, <1>3, WithoutContextInv DEF AtQuran
<1>4. CASE UNCHANGED <<plan, pending, work, response>>
           /\ \/ /\ evidence' \in {[evidence EXCEPT !.quran = TRUE], Fails("quran_span_fetch_failed")}
                 /\ pc' = "tafsir"
              \/ evidence' = Fails("verifier_workflow_unavailable") /\ pc' = "tafsir"
  <2>1. evidence.match = "none" /\ evidence.tafsir = << >> /\ evidence.hadith = None
    BY <1>2 DEF AtQuran, NoEvidence
  <2>2. SoundEvidence(plan, evidence')
    <3>1. SoundEvidence(plan, [evidence EXCEPT !.quran = TRUE])
      BY <1>2, SpanEvidence DEF Carried, AtQuran
    <3>2. \A e : SoundEvidence(plan, Fails(e))
      BY <1>2, <2>1, FailedEvidence DEF Carried, Fails
    <3> QED
      BY <1>4, <3>1, <3>2
  <2>3. evidence'.tafsir = << >> /\ evidence'.hadith = None
    BY <1>2, <1>4 DEF AtQuran, NoEvidence, Fails
  <2> QED
    BY <1>1, <1>2, <1>4, <2>2, <2>3, EmptyIsList, FetchInv
       DEF Carrying, Fetching, Pending, AtTafsir, AtQuran
<1>5. ASSUME UNCHANGED <<plan, pending, work, response>>, plan.verify, pc' = "tafsir",
             NEW match \in {"none", "unusable"},
             LET ev == [evidence EXCEPT !.verified = TRUE, !.match = match]
             IN  evidence' = IF plan.mode = "verification_only" THEN [ev EXCEPT !.warned = TRUE]
                             ELSE [ev EXCEPT !.errors = Append(@, "insufficient_evidence")]
      PROVE  IInv'
  <2>1. IsList(Append(<< >>, "insufficient_evidence"))
    BY EmptyIsList, AppendIsList
  <2>2. plan.mode = "verification_only" \/ plan.mode = "verification_then_explain"
    BY <1>2, <1>5 DEF Carried, SoundPlan
  <2>3. SoundEvidence(plan, evidence')
    <3>1. CASE plan.mode = "verification_only"
      BY <1>2, <1>5, <3>1, EmptyIsList DEF SoundEvidence, AtQuran, NoEvidence, EvidenceFields
    <3>2. CASE plan.mode # "verification_only"
      <4> DEFINE l == Append(<< >>, "insufficient_evidence")
      <4>1. evidence' = [NoEvidence EXCEPT !.verified = TRUE, !.match = match, !.errors = l]
        BY <1>2, <1>5, <3>2 DEF AtQuran, NoEvidence
      <4> HIDE DEF l
      <4>2. IsList(l)
        BY <2>1 DEF l
      <4> QED
        BY <1>2, <1>5, <2>2, <3>2, <4>1, <4>2, EmptyIsList
           DEF SoundEvidence, AtQuran, NoEvidence, EvidenceFields
    <3> QED
      BY <3>1, <3>2
  <2>4. evidence'.tafsir = << >> /\ evidence'.hadith = None
    BY <1>2, <1>5 DEF AtQuran, NoEvidence
  <2> QED
    BY <1>1, <1>2, <1>5, <2>3, <2>4, EmptyIsList, FetchInv
       DEF Carrying, Fetching, Pending, AtTafsir, AtQuran
<1>6. CASE /\ UNCHANGED <<plan, pending, work, response>>
           /\ plan.verify
           /\ evidence' = [evidence EXCEPT !.verified = TRUE, !.match = "usable"]
           /\ pc' = IF ask.action \in {"explain", "fetch_text", "verify_then_explain"}
                    THEN "span" ELSE "tafsir"
  <2>1. SoundEvidence(plan, evidence')
    BY <1>2, <1>6, EmptyIsList DEF SoundEvidence, AtQuran, NoEvidence, EvidenceFields
  <2>2. evidence'.tafsir = << >> /\ evidence'.hadith = None /\ evidence'.errors = << >>
    BY <1>2, <1>6 DEF AtQuran, NoEvidence
  <2>3. pc' \in {"span", "tafsir"}
    BY <1>6
  <2> QED
    BY <1>1, <1>2, <1>6, <2>1, <2>2, <2>3, EmptyIsList, FetchInv
       DEF Carrying, Fetching, Pending, AtTafsir, AtSpan, AtQuran
<1> QED
  BY <1>3, <1>4, <1>5, <1>6 DEF FetchQuran

LEMMA HydrateMatchInv ==
  ASSUME IInv, HydrateMatch
  PROVE  IInv'
<1>1. At("span") /\ "span" \in Step /\ "span" \in Carrying /\ pc = "span"
  BY DEF HydrateMatch, At, Step, Carrying, Fetching
<1>2. Carried /\ Pending /\ AtSpan
  BY <1>1 DEF IInv, Carrying, Fetching
<1>3. CASE WithoutContext(plan.quran)
  BY <1>1, <1>2, <1>3, WithoutContextInv DEF AtSpan
<1>4. CASE /\ evidence' \in {evidence, [evidence EXCEPT !.quran = TRUE]}
           /\ pc' = "tafsir"
           /\ UNCHANGED <<plan, pending, work, response>>
  <2>1. SoundEvidence(plan, evidence')
    BY <1>2, <1>4, SpanEvidence DEF Carried, AtSpan
  <2>2. evidence'.tafsir = << >> /\ evidence'.hadith = None
    BY <1>2, <1>4 DEF AtSpan, Carried, SoundEvidence, EvidenceFields
  <2> QED
    BY <1>1, <1>2, <1>4, <2>1, <2>2, EmptyIsList, FetchInv
       DEF Carrying, Fetching, Pending, AtTafsir, AtSpan
<1> QED
  BY <1>3, <1>4 DEF HydrateMatch

LEMMA SkipTafsirInv ==
  ASSUME IInv, SkipTafsir
  PROVE  IInv'
<1>1. At("tafsir") /\ "tafsir" \in Carrying /\ pc = "tafsir"
  BY DEF SkipTafsir, At, Carrying, Fetching
<1>2. Carried /\ AtTafsir
  BY <1>1 DEF IInv
<1>3. UNCHANGED <<plan, evidence, response>> /\ pc' = "hadith"
  BY DEF SkipTafsir
<1> QED
  BY <1>1, <1>2, <1>3, FetchInv DEF Carried, AtTafsir, AtHadith, Carrying, Fetching

LEMMA CheckTafsirInv ==
  ASSUME IInv, CheckTafsir
  PROVE  IInv'
<1>1. At("tafsir") /\ "tafsir" \in Carrying /\ "tafsir" \in Step /\ pc = "tafsir" /\ Wanted
  BY DEF CheckTafsir, At, Carrying, Fetching, Step
<1>2. Carried /\ AtTafsir /\ Pending /\ SeesRegistry
  BY <1>1 DEF IInv, Carrying, Fetching, Step
<1>3. /\ pending # << >> /\ Head(pending) \in Range(plan.tafsir.selected)
      /\ IsList(Tail(pending)) /\ Range(Tail(pending)) \subseteq Range(plan.tafsir.selected)
  BY <1>1, <1>2, TailIsList DEF Wanted, Pending
<1>4. CASE /\ MayBeRead(Head(pending))
           /\ work' = Head(pending) /\ pc' = "sections"
           /\ UNCHANGED <<plan, evidence, pending, response>>
  <2>1. Head(pending) \in eligible
    BY <1>2, <1>4 DEF MayBeRead, MayBeExplainedFrom, SeesRegistry, Eligible
  <2>2. UNCHANGED eligible
    BY <1>1 DEF At
  <2>3. AtSections' /\ Pending'
    BY <1>1, <1>2, <1>3, <1>4, <2>1, <2>2 DEF AtSections, AtTafsir, Wanted, Pending
  <2> QED
    BY <1>1, <1>2, <1>4, <2>3, FetchInv DEF Carried, Carrying, Fetching
<1>5. CASE /\ evidence' = Warns
           /\ pending' = AfterRefusal
           /\ pc' = "tafsir"
           /\ UNCHANGED <<plan, work, response>>
  <2>1. SoundEvidence(plan, evidence')
    BY <1>2, <1>5, WarnedEvidence DEF Carried, Warns
  <2>2. evidence'.tafsir = evidence.tafsir /\ evidence'.hadith = evidence.hadith
    BY <1>2, <1>5 DEF Warns, Carried, SoundEvidence, EvidenceFields
  <2>3. Pending' /\ AtTafsir'
    BY <1>2, <1>3, <1>5, <2>2, EmptyIsList DEF Pending, AfterRefusal, AtTafsir
  <2> QED
    BY <1>1, <1>2, <1>5, <2>1, <2>2, <2>3, FetchInv DEF Carried, Carrying, Fetching
<1> QED
  BY <1>4, <1>5 DEF CheckTafsir

LEMMA ReadSectionsInv ==
  ASSUME IInv, ReadSections
  PROVE  IInv'
<1>1. At("sections") /\ "sections" \in Carrying /\ "sections" \in Step /\ pc = "sections"
  BY DEF ReadSections, At, Carrying, Fetching, Step
<1>2. Carried /\ AtSections /\ Pending
  BY <1>1 DEF IInv, Carrying, Fetching, Step
<1>3. CASE Raises
  BY <1>1, <1>3, RaisesInv
<1>4. CASE /\ pending' = Tail(pending) /\ pc' = "tafsir"
           /\ UNCHANGED <<plan, response>>
           /\ \/ evidence' = [evidence EXCEPT !.tafsir = Append(@, work)]
              \/ /\ plan.mode \in TopicalMode
                 /\ evidence' = [Fails("insufficient_evidence") EXCEPT !.warned = TRUE]
              \/ evidence' = Warns
  <2>1. IsList(Tail(pending)) /\ Range(Tail(pending)) \subseteq Range(pending)
    BY <1>2, TailIsList DEF AtSections, Pending
  <2>2. Pending'
    BY <1>2, <1>4, <2>1 DEF Pending
  <2>3. CASE evidence' = [evidence EXCEPT !.tafsir = Append(@, work)]
    <3>1. SoundEvidence(plan, evidence')
      BY <1>2, <2>3, TafsirEvidence DEF Carried, AtSections, AtTafsir
    <3>2. evidence'.tafsir = Append(evidence.tafsir, work) /\ evidence'.hadith = evidence.hadith
      BY <1>2, <2>3 DEF Carried, SoundEvidence, EvidenceFields
    <3>3. Range(evidence'.tafsir) = Range(evidence.tafsir) \cup {work}
      BY <1>2, <3>2, AppendIsList DEF Carried, SoundEvidence
    <3> QED
      BY <1>1, <1>2, <1>4, <2>2, <3>1, <3>2, <3>3, FetchInv
         DEF Carried, AtSections, AtTafsir, Carrying, Fetching
  <2>4. CASE /\ plan.mode \in TopicalMode
             /\ evidence' = [Fails("insufficient_evidence") EXCEPT !.warned = TRUE]
    <3>1. plan.quran = None
      BY <1>2, <2>4 DEF Carried, SoundPlan, AtSections, AtTafsir, QuranMode, TopicalMode
    <3>2. evidence.match = "none"
      BY <1>2, <3>1 DEF Carried, SoundPlan, SoundEvidence
    <3>3. SoundEvidence(plan, Fails("insufficient_evidence"))
      BY <1>2, <3>2, FailedEvidence DEF Carried, Fails
    <3>4. SoundEvidence(plan, evidence')
      BY <2>4, <3>3, WarnedEvidence
    <3>5. evidence'.tafsir = evidence.tafsir /\ evidence'.hadith = evidence.hadith
      BY <1>2, <2>4 DEF Fails, Carried, SoundEvidence, EvidenceFields
    <3> QED
      BY <1>1, <1>2, <1>4, <2>2, <3>4, <3>5, FetchInv
         DEF Carried, AtSections, AtTafsir, Carrying, Fetching
  <2>5. CASE evidence' = Warns
    <3>1. SoundEvidence(plan, evidence')
      BY <1>2, <2>5, WarnedEvidence DEF Carried, Warns
    <3>2. evidence'.tafsir = evidence.tafsir /\ evidence'.hadith = evidence.hadith
      BY <1>2, <2>5 DEF Warns, Carried, SoundEvidence, EvidenceFields
    <3> QED
      BY <1>1, <1>2, <1>4, <2>2, <3>1, <3>2, FetchInv
         DEF Carried, AtSections, AtTafsir, Carrying, Fetching
  <2> QED
    BY <1>4, <2>3, <2>4, <2>5
<1> QED
  BY <1>3, <1>4 DEF ReadSections

(* The narrations of either search are a list, whose rest supports its      *)
(* first one.                                                               *)
LEMMA UpToIsList ==
  ASSUME NEW l \in Seq(Narration)
  PROVE  /\ IsList(UpTo(l))
         /\ l # << >> => UpTo(l) # << >>
<1> DEFINE n == IF Len(l) < BundleSize THEN Len(l) ELSE BundleSize
<1>1. n \in 0 .. Len(l) /\ (l # << >> => n # 0)
  BY RequestAssumption
<1>2. UpTo(l) = SubSeq(l, 1, n)
  BY DEF UpTo
<1> HIDE DEF n
<1>3. UpTo(l) \in Seq(Narration) /\ Len(UpTo(l)) = n
  BY <1>1, <1>2
<1> QED
  BY <1>1, <1>3, SeqIsList

LEMMA BuiltIsList ==
  ASSUME NEW t \in Topical
  PROVE  IsList(Built(t))
<1> DEFINE l == UpTo(t.candidates)
           places == {i \in DOMAIN l : l[i] \in t.stored}
<1>1. IsList(l)
  <2>1. t.candidates \in Seq(Narration)
    BY RequestAssumption DEF Topical
  <2> QED
    BY <2>1, UpToIsList
<1>2. places \in SUBSET (DOMAIN l)
  OBVIOUS
<1>3. Built(t) = << >> \/ Built(t) = ElementsAt(l, places)
  BY DEF Built
<1> HIDE DEF l, places
<1> QED
  BY <1>1, <1>2, <1>3, ElementsShape, EmptyIsList

(* What was fetched before is kept: a hadith is added, or its failure.      *)
GrowsTo(ev) == SoundEvidence(plan, ev) /\ ev.tafsir = evidence.tafsir

LEMMA FoundGrows ==
  ASSUME SoundEvidence(plan, evidence), ~ plan.abstains, plan.retrieval # None,
         NEW n, NEW l, IsList(l), NEW w \in BOOLEAN
  PROVE  GrowsTo([evidence EXCEPT !.hadith = n, !.supporting = l, !.warned = w])
BY DEF SoundEvidence, EvidenceFields, GrowsTo

LEMMA MissedEvidence ==
  ASSUME NEW p, NEW ev, SoundEvidence(p, ev), ev.match = "none", NEW e, NEW w \in BOOLEAN
  PROVE  LET missed == [ev EXCEPT !.errors = Append(@, e), !.warned = w]
         IN  SoundEvidence(p, missed) /\ missed.tafsir = ev.tafsir
<1>1. IsList(Append(ev.errors, e))
  BY AppendIsList DEF SoundEvidence
<1> QED
  BY <1>1 DEF SoundEvidence, EvidenceFields

LEMMA FailureGrows ==
  ASSUME SoundEvidence(plan, evidence), evidence.match = "none", NEW e
  PROVE  GrowsTo(Fails(e)) /\ GrowsTo([Fails(e) EXCEPT !.warned = TRUE])
<1>1. \A w \in BOOLEAN : GrowsTo([evidence EXCEPT !.errors = Append(@, e), !.warned = w])
  BY MissedEvidence DEF GrowsTo
<1>2. Fails(e) = [evidence EXCEPT !.errors = Append(@, e), !.warned = evidence.warned]
  BY DEF Fails, SoundEvidence, EvidenceFields
<1>3. [Fails(e) EXCEPT !.warned = TRUE] = [evidence EXCEPT !.errors = Append(@, e), !.warned = TRUE]
  BY DEF Fails, SoundEvidence, EvidenceFields
<1>4. evidence.warned \in BOOLEAN
  BY DEF SoundEvidence
<1> QED
  BY <1>1, <1>2, <1>3, <1>4

LEMMA TopicalEvidenceShape ==
  ASSUME NEW t \in Topical, SoundEvidence(plan, evidence), ~ plan.abstains,
         plan.retrieval # None, evidence.match = "none"
  PROVE  GrowsTo(TopicalEvidence(t))
<1>1. CASE Built(t) # << >>
  <2> DEFINE n == Built(t)[1]
             l == Tail(Built(t))
  <2>1. TopicalEvidence(t) = [evidence EXCEPT !.hadith = n, !.supporting = l]
    BY <1>1 DEF TopicalEvidence
  <2>2. IsList(l)
    BY <1>1, BuiltIsList, TailIsList
  <2> HIDE DEF n, l
  <2>3. /\ TopicalEvidence(t) = [evidence EXCEPT !.hadith = n, !.supporting = l,
                                                !.warned = evidence.warned]
        /\ evidence.warned \in BOOLEAN
    BY <2>1 DEF SoundEvidence, EvidenceFields
  <2>4. GrowsTo([evidence EXCEPT !.hadith = n, !.supporting = l, !.warned = evidence.warned])
    BY <2>2, <2>3, FoundGrows
  <2> QED
    BY <2>3, <2>4
<1>2. CASE Built(t) = << >> /\ FallsBack(t)
  <2> DEFINE n == t.hits[1]
             l == Tail(UpTo(t.hits))
             w == evidence.warned \/ Len(t.hits) > 1
  <2>1. TopicalEvidence(t) = [evidence EXCEPT !.hadith = n, !.supporting = l, !.warned = w]
    BY <1>2 DEF TopicalEvidence
  <2>2. IsList(l)
    <3>1. t.hits \in Seq(Narration) /\ t.hits # << >>
      BY <1>2, RequestAssumption DEF Topical, FallsBack
    <3> QED
      BY <3>1, UpToIsList, TailIsList
  <2>3. w \in BOOLEAN
    OBVIOUS
  <2> HIDE DEF n, l, w
  <2>4. GrowsTo([evidence EXCEPT !.hadith = n, !.supporting = l, !.warned = w])
    BY <2>2, <2>3, FoundGrows
  <2> QED
    BY <2>1, <2>4
<1>3. CASE Built(t) = << >> /\ ~ FallsBack(t)
  <2>1. TopicalEvidence(t) = [Fails("insufficient_evidence") EXCEPT !.warned = TRUE]
    BY <1>3 DEF TopicalEvidence
  <2> QED
    BY <2>1, FailureGrows
<1> QED
  BY <1>1, <1>2, <1>3

LEMMA CitationEvidenceShape ==
  ASSUME NEW ev \in CitationEvidence, SoundEvidence(plan, evidence), ~ plan.abstains,
         plan.retrieval # None, evidence.match = "none"
  PROVE  GrowsTo(ev)
<1>1. CASE \/ ev = Fails("hadith_lookup_failed")
           \/ ev = [Fails("hadith_collection_not_enabled") EXCEPT !.warned = TRUE]
           \/ ev = [Fails("hadith_citation_not_found") EXCEPT !.warned = TRUE]
  BY <1>1, FailureGrows
<1>2. ASSUME NEW n \in Narration, NEW w \in BOOLEAN, ev = Cited(n, w)
      PROVE  GrowsTo(ev)
  <2> DEFINE v == evidence.warned \/ w
  <2>1. ev = [evidence EXCEPT !.hadith = n, !.warned = v]
    BY <1>2 DEF Cited
  <2>2. v \in BOOLEAN
    OBVIOUS
  <2> HIDE DEF v
  <2>3. /\ ev = [evidence EXCEPT !.hadith = n, !.supporting = evidence.supporting, !.warned = v]
        /\ IsList(evidence.supporting)
    BY <2>1 DEF SoundEvidence, EvidenceFields
  <2> QED
    BY <2>2, <2>3, FoundGrows
<1> QED
  BY <1>1, <1>2 DEF CitationEvidence

LEMMA FetchHadithInv ==
  ASSUME IInv, FetchHadith
  PROVE  IInv'
<1>1. At("hadith") /\ "hadith" \in Carrying /\ pc = "hadith"
  BY DEF FetchHadith, At, Carrying
<1>2. Carried /\ AtHadith
  BY <1>1 DEF IInv
<1>3. UNCHANGED <<plan, response>> /\ pc' = "respond"
  BY DEF FetchHadith
<1>4. SoundEvidence(plan, evidence') /\ evidence'.tafsir = evidence.tafsir
  <2>1. CASE evidence' = evidence
    BY <1>2, <2>1 DEF Carried
  <2>2. CASE ~ AddsNothing
    <3>1. plan.retrieval # None /\ ~ plan.abstains
      BY <1>2, <2>2 DEF AddsNothing, AtHadith
    <3>2. evidence.match = "none"
      BY <1>2, <3>1 DEF Carried, SoundPlan, SoundEvidence
    <3>3. \/ evidence' \in CitationEvidence
          \/ evidence' = Fails("hadith_topical_lookup_failed")
          \/ \E t \in Topical : evidence' = TopicalEvidence(t)
      BY <2>2 DEF FetchHadith
    <3>4. GrowsTo(evidence')
      BY <1>2, <3>1, <3>2, <3>3, FailureGrows, CitationEvidenceShape, TopicalEvidenceShape DEF Carried
    <3> QED
      BY <3>4 DEF GrowsTo
  <2> QED
    BY <2>1, <2>2 DEF FetchHadith
<1> QED
  BY <1>1, <1>2, <1>3, <1>4, FetchInv DEF Carried, Carrying, Fetching

LEMMA RespondInv ==
  ASSUME IInv, Respond
  PROVE  IInv'
<1>1. At("respond") /\ "respond" \in Step /\ pc = "respond"
  BY DEF Respond, At, Step
<1>2. ask \in Ask /\ UNCHANGED <<ask, eligible, reachable>> /\ Carried
  BY <1>1, AtKeeps DEF IInv, Carrying
<1>3. /\ UNCHANGED <<plan, evidence>> /\ pc' = "answered"
      /\ response' = Response(ask, plan, evidence)
  BY DEF Respond, Answer
<1>4. Carried'
  BY <1>2, <1>3, CarriedGrows
<1>5. response' = Response(ask', plan', evidence')
  BY <1>2, <1>3
<1>6. Outcome'
  BY <1>4, <1>5 DEF Outcome
<1> QED
  BY <1>2, <1>3, <1>6 DEF IInv, Step, Planning, Carrying, Fetching

(* What an operator or an outage changes, the request sees.                 *)
LEMMA MeanwhileInv ==
  ASSUME IInv, Meanwhile
  PROVE  IInv'
<1>1. /\ UNCHANGED <<ask, pc, plan, evidence, pending, work, response>> /\ pc # "answered"
      /\ eligible' = eligible \cup Eligible' /\ reachable' = (reachable \/ database' # "down")
  BY DEF Meanwhile, Note, request
<1>2. SeesRegistry'
  <2>1. Eligible' \subseteq eligible'
    BY <1>1
  <2>2. database' # "down" => reachable'
    BY <1>1, Zenon
  <2> QED
    BY <2>1, <2>2 DEF SeesRegistry
<1>3. eligible \subseteq eligible'
  BY <1>1
<1>4. reachable => reachable'
  BY <1>1, Zenon
<1>5. Carried => Carried'
  BY <1>1, <1>3, <1>4, CarriedGrows
<1>6. AtSections => AtSections'
  BY <1>1, <1>3 DEF AtSections, AtTafsir
<1>7. (Pending => Pending') /\ (AtQuran => AtQuran') /\ (AtSpan => AtSpan')
      /\ (AtTafsir => AtTafsir') /\ (AtHadith => AtHadith')
  BY <1>1 DEF Pending, AtQuran, AtSpan, AtTafsir, AtHadith
<1> QED
  BY <1>1, <1>2, <1>5, <1>6, <1>7 DEF IInv

LEMMA StutterInv ==
  ASSUME IInv, UNCHANGED vars
  PROVE  IInv'
<1>1. UNCHANGED <<row, database, ask, pc, plan, evidence, pending, work, response, eligible, reachable>>
  BY DEF vars, registry, request
<1>2. Eligible' = Eligible
  BY <1>1, EligibleUnchanged
<1>3. (SeesRegistry => SeesRegistry') /\ (Carried => Carried')
  BY <1>1, <1>2, CarriedGrows DEF SeesRegistry
<1>4. Outcome => Outcome'
  BY <1>1, <1>3 DEF Outcome
<1>5. (Pending => Pending') /\ (AtQuran => AtQuran') /\ (AtSpan => AtSpan')
      /\ (AtTafsir => AtTafsir') /\ (AtHadith => AtHadith') /\ (AtSections => AtSections')
  BY <1>1 DEF Pending, AtQuran, AtSpan, AtTafsir, AtHadith, AtSections
<1> QED
  BY <1>1, <1>3, <1>4, <1>5 DEF IInv

LEMMA NextInv ==
  ASSUME IInv, [Next]_vars
  PROVE  IInv'
<1>1. ASSUME NEW a \in Ask, Arrive(a) PROVE IInv'
  BY <1>1, ArriveInv
<1>2. CASE Request
  BY <1>2, ResolveContextInv, PlanRequestInv, FetchQuranInv, HydrateMatchInv, SkipTafsirInv,
     CheckTafsirInv, ReadSectionsInv, FetchHadithInv, RespondInv DEF Request
<1>3. CASE Operate
  BY <1>3, MeanwhileInv DEF Operate
<1>4. CASE Outage
  BY <1>4, MeanwhileInv DEF Outage
<1>5. CASE UNCHANGED vars
  BY <1>5, StutterInv
<1> QED
  BY <1>1, <1>2, <1>3, <1>4, <1>5 DEF Next

LEMMA Invariance == Spec => []IInv
BY InitInv, NextInv, PTL DEF Spec

-----------------------------------------------------------------------------
LEMMA ErrorIsNoAnswer ==
  ASSUME NEW e
  PROVE  /\ ~ ErrorResponse(e).ok /\ ErrorResponse(e).terminal = "abstain"
         /\ ErrorResponse(e).error = e /\ ~ ErrorResponse(e).llmReady
         /\ ~ ErrorResponse(e).composes
         /\ ~ ErrorResponse(e).suggests /\ ~ ErrorResponse(e).ready
BY DEF ErrorResponse

(* A response is an error that stands for itself or the one that is built.  *)
LEMMA OutcomeOfResponse ==
  ASSUME IInv, response # None
  PROVE  Outcome
BY DEF IInv

LEMMA AnsweredIsBuilt ==
  ASSUME IInv, Answered
  PROVE  /\ Carried /\ response = Response(ask, plan, evidence)
         /\ Response(ask, plan, evidence).terminal = "answered"
BY OutcomeOfResponse, ErrorIsNoAnswer DEF Outcome, Answered

(* An answer rests on the evidence its mode speaks from, of sources that    *)
(* were eligible meanwhile and that its plan selected, whatever an operator *)
(* or an outage changed between the plan and the reads.                     *)
THEOREM OnGovernedEvidence == Spec => []AnsweredOnGovernedEvidence
<1>1. ASSUME IInv PROVE AnsweredOnGovernedEvidence
  <2> SUFFICES ASSUME Answered
               PROVE  /\ response.mode = plan.mode /\ HasEvidence(plan.mode, evidence)
                      /\ response.bundles # << >>
                      /\ Range(evidence.tafsir) \subseteq eligible \cap Range(plan.tafsir.selected)
                      /\ evidence.hadith # None => Bukhari \in eligible /\ plan.hadith.included
    BY DEF AnsweredOnGovernedEvidence
  <2>1. Carried /\ response = Response(ask, plan, evidence)
        /\ Response(ask, plan, evidence).terminal = "answered"
    BY <1>1, AnsweredIsBuilt
  <2>2. SoundPlan(plan) /\ SoundEvidence(plan, evidence)
    BY <2>1 DEF Carried
  <2>3. /\ response.mode = plan.mode /\ HasEvidence(plan.mode, evidence)
        /\ response.bundles # << >> /\ plan.terminal = "answered" /\ ~ plan.abstains
    BY <2>1, <2>2, AnswerShape
  <2>4. evidence.hadith # None => plan.retrieval # None
    BY <2>2 DEF SoundEvidence
  <2>5. plan.retrieval # None => Bukhari \in eligible /\ plan.hadith.included
    BY <2>1, <2>2, <2>3 DEF Carried, Allowed, SoundPlan, PlanEnds
  <2> QED
    BY <2>1, <2>3, <2>4, <2>5 DEF Carried
<1> QED
  BY <1>1, Invariance, PTL

(* A plan that abstains shows nothing, even when something was retrieved    *)
(* for debug output, and names its own reason.                              *)
THEOREM AbstainingShowsNothing == Spec => []NothingBeyondPlan
<1>1. ASSUME IInv PROVE NothingBeyondPlan
  <2> SUFFICES ASSUME response # None, plan # None, plan.abstains
               PROVE  ~ response.ok /\ response.bundles = << >> /\ response.error = plan.reason
    BY DEF NothingBeyondPlan
  <2>1. Carried /\ response = Response(ask, plan, evidence)
    BY <1>1, OutcomeOfResponse DEF Outcome
  <2> QED
    BY <2>1, AbstentionShape DEF Carried
<1> QED
  BY <1>1, Invariance, PTL

(* What a response suggests can be followed: it does not abstain and its    *)
(* turn is stored.  What abstains or asks back is given neither to the      *)
(* language model nor to the composition.                                   *)
THEOREM SuggestionsFollowed == Spec => []SuggestionsCanBeFollowed
<1>1. ASSUME IInv PROVE SuggestionsCanBeFollowed
  <2> SUFFICES ASSUME response # None
               PROVE  /\ response.suggests \/ response.ready =>
                           response.terminal # "abstain" /\ response.anchored
                      /\ response.terminal # "answered" =>
                           ~ response.llmReady /\ ~ response.composes
    BY DEF SuggestionsCanBeFollowed
  <2> QED
    BY <1>1, OutcomeOfResponse, ErrorIsNoAnswer, SuggestionShape DEF Outcome
<1> QED
  BY <1>1, Invariance, PTL

(* Errors and success agree: a response is fine with an error only when it  *)
(* is partial, and never fails without one, unless the follow-up was        *)
(* rejected with its route kept.                                            *)
THEOREM HonestErrors == Spec => []ErrorsAreHonest
<1>1. ASSUME IInv PROVE ErrorsAreHonest
  <2> SUFFICES ASSUME response # None, ~ ask.rejected
               PROVE  /\ response.ok /\ response.error # None => response.partial
                      /\ ~ response.ok => response.error # None
    BY DEF ErrorsAreHonest
  <2>1. CASE \E e : e # None /\ response = ErrorResponse(e)
    BY <2>1, ErrorIsNoAnswer
  <2>2. CASE Carried /\ response = Response(ask, plan, evidence)
    BY <2>2, ErrorShape DEF Carried
  <2> QED
    BY <1>1, <2>1, <2>2, OutcomeOfResponse DEF Outcome
<1> QED
  BY <1>1, Invariance, PTL

(* Nothing is answered while the database cannot be reached throughout the  *)
(* request, though the records of the program then choose the Quran         *)
(* sources.                                                                 *)
THEOREM AnsweringNeedsDatabase == Spec => []FallbackNeverAnswers
<1>1. ASSUME IInv PROVE FallbackNeverAnswers
  <2> SUFFICES ASSUME Answered PROVE reachable
    BY DEF FallbackNeverAnswers
  <2>1. Carried /\ Response(ask, plan, evidence).terminal = "answered"
    BY <1>1, AnsweredIsBuilt
  <2>2. plan.terminal = "answered"
    BY <2>1, AnswerShape DEF Carried
  <2> QED
    BY <2>1, <2>2 DEF Carried, Allowed
<1> QED
  BY <1>1, Invariance, PTL
===============================================================================
