------------------------------ MODULE AskAnswer ------------------------------
(***************************************************************************)
(* domains/answer_engine: what a response says, given a plan and the       *)
(* evidence that was fetched for it.  Texts are left out, the advice of an *)
(* abstention included: of the answer only whether there is one, of the    *)
(* packets what they suggest and allow.                                    *)
(*                                                                         *)
(* ev.quran       a span of the Quran was fetched                          *)
(* ev.match       the verifier's best match: "none", "unusable", "usable"  *)
(* ev.verified    the verifier gave a result at all                        *)
(* ev.tafsir      the sources of the sections, in their order              *)
(* ev.hadith      the narration, or None                                   *)
(* ev.supporting  the narrations that support it                           *)
(* ev.errors      what failed, in order                                    *)
(* ev.warned      something was warned of                                  *)
(***************************************************************************)
EXTENDS AskPlan

NoEvidence ==
  [quran |-> FALSE, match |-> "none", verified |-> FALSE, tafsir |-> << >>,
   hadith |-> None, supporting |-> << >>, errors |-> << >>, warned |-> FALSE]

QuranMode == {"verification_only", "verification_then_explain", "quran_with_tafsir",
              "quran_text", "quran_explanation"}
TopicalMode == {"topical_tafsir", "topical_hadith", "topical_multi_source"}

-----------------------------------------------------------------------------
(* evidence_readiness.py: the evidence that an answer of a mode rests on.    *)
(* A match of the verifier counts, even one it does not find reliable.       *)
QuranAvailable(ev) == ev.quran \/ ev.match # "none"

(* Mutant: a commentary that could not be fetched is only warned of.         *)
HasSomeEvidence(mode, ev) ==
  (mode \in QuranMode => QuranAvailable(ev)) /\ (mode \in TopicalMode => ev.tafsir # << >> \/ ev.hadith # None)

(* What the answer of a mode cannot do without.                              *)
HasEvidence(mode, ev) ==
  LET hadith == ev.hadith # None
      tafsir == ev.tafsir # << >>
  IN  /\ mode \in QuranMode => QuranAvailable(ev)
      /\ mode \in {"quran_with_tafsir", "verification_then_explain", "topical_tafsir"} => tafsir
      /\ mode \in {"hadith_text", "hadith_explanation", "topical_hadith"} => hadith
      /\ mode = "topical_multi_source" => tafsir \/ hadith

Gated(plan) ==
  plan.mode \notin {"abstain", "clarify"} /\ plan.terminal = "answered" /\ ~ plan.rejected

Readiness(plan, ev) ==
  LET answerable == Gated(plan) /\ HasEvidence(plan.mode, ev)
  IN  [llmReady |-> answerable,
       forceAbstain |-> Gated(plan) /\ ~ answerable,
       partial |-> Gated(plan) /\ (QuranAvailable(ev) \/ ev.hadith # None \/ ev.tafsir # << >>)]

(* The plan that the rest of the response is built from.                     *)
EffectivePlan(plan, ev) ==
  IF Readiness(plan, ev).forceAbstain THEN Abstaining(plan, "insufficient_evidence") ELSE plan

TerminalState(plan) == IF plan.rejected THEN "abstain" ELSE plan.terminal

-----------------------------------------------------------------------------
(* _build_answer_text, up to its wording                                     *)
HasAnswerText(plan, ev) ==
  IF plan.mode = "abstain" THEN plan.hadith.reason = "topical_hadith_temporarily_disabled"
  ELSE IF plan.mode = "clarify" THEN TRUE
  ELSE IF plan.mode \in TopicalMode THEN HasEvidence(plan.mode, ev)
  ELSE IF plan.retrieval = "citation" THEN ev.hadith # None
  ELSE ev.quran \/ ev.verified

(* _derive_partial_success                                                   *)
PartialSuccess(plan, ev) ==
  LET complaint == ev.warned \/ ev.errors # << >>
  IN  IF plan.mode = "clarify" THEN FALSE
      ELSE IF plan.mode = "topical_multi_source"
      THEN (ev.tafsir = << >>) # (ev.hadith = None) \/ ev.warned
      ELSE IF plan.mode = "topical_tafsir" THEN ev.tafsir = << >> /\ complaint
      ELSE IF plan.mode = "topical_hadith" THEN ev.hadith = None /\ complaint
      ELSE IF plan.retrieval = "citation" THEN ev.hadith # None /\ ev.warned
      ELSE ev.quran /\ plan.overlap /\ ev.tafsir = << >> /\ complaint

HasSupport(ev) == ev.quran \/ ev.hadith # None \/ ev.tafsir # << >>

(* conversational_renderer.py: what a mode is rendered as when there is no   *)
(* answer.  An explanation of a hadith always says something, be it that an  *)
(* unnamed one was retrieved; the others leave it at the answer.             *)
RendersAnyway(plan, ev) ==
  \/ plan.mode \in {"hadith_explanation", "topical_hadith", "abstain"}
  \/ plan.mode \in QuranMode /\ QuranAvailable(ev)

(* Mutant: evidence that is missing altogether is not an error of its own.   *)
FirstError(plan, ev, ready, effective) ==
  IF effective.abstains /\ ~ HasSupport(ev) THEN effective.reason
  ELSE IF ev.errors = << >> THEN None ELSE ev.errors[1]

(* The first of the conditions that holds names the error of the response.   *)
ErrorOf(plan, ev, ready, effective) ==
  LET first == IF ev.errors = << >> THEN None ELSE ev.errors[1]
  IN  IF effective.abstains /\ ~ HasSupport(ev) THEN effective.reason
      ELSE IF ready.forceAbstain THEN "insufficient_evidence"
      ELSE IF effective.mode \in TopicalMode /\ ~ HasSupport(ev) /\ first # None THEN first
      ELSE IF ev.hadith = None /\ effective.retrieval # None /\ first # None THEN first
      ELSE IF ~ ev.quran /\ effective.quran # None /\ first # None THEN first
      ELSE None

-----------------------------------------------------------------------------
(* composition_builder.py                                                    *)
Bundle(domain, role, source) == [domain |-> domain, role |-> role, source |-> source]

QuranBundles(plan, ev) ==
  IF plan.mode \notin QuranMode THEN << >>
  ELSE IF ev.quran THEN <<Bundle("quran", "quran_source", plan.quran)>>
  ELSE IF ev.match # "none" THEN <<Bundle("quran", "verification_source", None)>>
  ELSE << >>

(* The elements of a list at some of its places, in their order.            *)
ElementsAt(list, places) ==
  [k \in 1 .. Cardinality(places) |->
     list[CHOOSE i \in places : Cardinality({j \in places : j <= i}) = k]]

(* One bundle for each commentary, however many of its sections were found.  *)
TafsirSources(ev) ==
  ElementsAt(ev.tafsir,
             {i \in DOMAIN ev.tafsir : \A j \in 1 .. i - 1 : ev.tafsir[j] # ev.tafsir[i]})

TafsirBundles(ev) ==
  LET sources == TafsirSources(ev)
      role == IF Len(sources) > 1 THEN "comparative_commentary" ELSE "tafsir_commentary"
  IN  [i \in DOMAIN sources |-> Bundle("tafsir", role, sources[i])]

HadithBundles(plan, ev) ==
  IF ev.hadith = None THEN << >>
  ELSE LET role == IF plan.mode = "topical_hadith" THEN "topical_hadith_source"
                   ELSE "explicit_hadith_source"
       IN  <<Bundle("hadith", role, ev.hadith)>>
           \o [i \in DOMAIN ev.supporting |->
                 Bundle("hadith", "supporting_hadith_source", ev.supporting[i])]

SourceBundles(plan, ev) == QuranBundles(plan, ev) \o TafsirBundles(ev) \o HadithBundles(plan, ev)

(* The domain that a follow-up starts from.                                  *)
PrimaryDomain(ask, ev) ==
  CASE QuranAvailable(ev) -> "quran"
    [] ~ QuranAvailable(ev) /\ (ev.hadith # None \/ ask.route \in HadithRoute \cup {"topical_hadith_query"}) -> "hadith"
    [] ~ QuranAvailable(ev) /\ ev.hadith = None /\ ask.route \in QuranRoute \cup {"topical_tafsir_query"} -> "quran"
    [] OTHER -> None

(* What the abstention says of its reason; the hadith part of the policy     *)
(* comes first, and on the routes of the Quran it says that no hadith was    *)
(* asked for.                                                                *)
AbstentionReason(ask, plan) ==
  IF ask.route \notin OtherRoute \cup {"topical_tafsir_query"} /\ plan.hadith.reason # None
  THEN plan.hadith.reason
  ELSE IF plan.rejected THEN "followup_rejected"
  ELSE IF plan.reason # None THEN plan.reason
  ELSE "policy_restricted"

(* The follow-ups that the scope of a response supports; they are listed as *)
(* its capabilities also when the answer is withheld.  Sections alone make  *)
(* no scope, but the thread may have one.                                   *)
Capable(ask, ev) == ev.quran \/ ev.hadith # None \/ (ev.tafsir # << >> /\ ask.thread)

(* Mutant: the capabilities decide alone.                                   *)
SuggestsCapable(ask, plan, ev) == Capable(ask, ev)

(* Only what does not abstain puts them into phrases.                       *)
Suggests(ask, plan, ev) == Capable(ask, ev) /\ TerminalState(plan) # "abstain"

(* The packet is ready for a follow-up.                                     *)
PacketReady(plan, ev) == HasSupport(ev) /\ TerminalState(plan) # "abstain"

(* The conversation is, and the turn is stored: also when the answer was    *)
(* withheld for want of evidence, but not for a rejected follow-up.         *)
Anchored(plan, ev) == HasSupport(ev) /\ ~ (plan.rejected /\ TerminalState(plan) = "abstain")

-----------------------------------------------------------------------------
(* build_explain_answer_payload: built from the effective plan, except for   *)
(* the text, the error and how far it succeeded.  continues: the controls   *)
(* that offer to read on, which every fetched verse brings, also one whose  *)
(* answer is withheld.                                                      *)
Payload(ask, plan, ev, ready, effective, terminal) ==
  [ok |-> /\ ~ effective.abstains
          /\ HasAnswerText(plan, ev) \/ RendersAnyway(effective, ev) \/ HasSupport(ev),
   mode |-> effective.mode,
   terminal |-> terminal,
   error |-> ErrorOf(plan, ev, ready, effective),
   partial |-> PartialSuccess(plan, ev) \/ (ready.forceAbstain /\ ready.partial),
   bundles |-> SourceBundles(effective, ev),
   llmReady |-> Readiness(effective, ev).llmReady /\ terminal = "answered",
   capable |-> Capable(ask, ev),
   suggests |-> Suggests(ask, effective, ev),
   ready |-> PacketReady(effective, ev),
   anchored |-> Anchored(effective, ev),
   continues |-> ev.quran,
   composes |-> terminal = "answered",
   scope |-> PrimaryDomain(ask, ev),
   abstention |-> IF terminal = "abstain" THEN AbstentionReason(ask, effective) ELSE None]

PayloadOf(ask, plan, ev, ready, effective) ==
  Payload(ask, plan, ev, ready, effective, TerminalState(effective))

Response(ask, plan, ev) ==
  PayloadOf(ask, plan, ev, Readiness(plan, ev), EffectivePlan(plan, ev))

(* _build_source_selection_error_payload                                     *)
ErrorResponse(error) ==
  [ok |-> FALSE, mode |-> "abstain", terminal |-> "abstain", error |-> error,
   partial |-> FALSE, bundles |-> << >>, llmReady |-> FALSE, capable |-> FALSE,
   suggests |-> FALSE, ready |-> FALSE, anchored |-> FALSE, continues |-> FALSE,
   composes |-> FALSE, scope |-> None, abstention |-> None]
=============================================================================
