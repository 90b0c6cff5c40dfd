------------------------------- MODULE AskPlan -------------------------------
(***************************************************************************)
(* build_ask_plan of domains/ask/planner.py: what a request is answered    *)
(* from and in which mode, given the route that was classified or resolved *)
(* from a follow-up.  Queries, references and limits are left out; whether *)
(* a reference resolves and a citation parses is part of the request.      *)
(*                                                                         *)
(* ask.route, ask.action   the route and its action                        *)
(* ask.include             include_tafsir: "on", "off" or None             *)
(* ask.intent              the query reads like a request for tafsir       *)
(* ask.tafsirs             the commentaries asked for                      *)
(* ask.mode                the hadith mode of the source controls          *)
(* ask.text                the Quran text asked for, or its default        *)
(* ask.resolves            the reference, or the citation, is understood   *)
(* ask.repeats             it is a follow-up that repeats the exact text   *)
(* ask.rejected            a follow-up was rejected and its route kept     *)
(* ask.debug               debug output is asked for                       *)
(* ask.thread              its conversation is about a verse or a hadith   *)
(***************************************************************************)
EXTENDS SourcePolicy

CONSTANT RepositoryMode   \* "file", "db_preferred" or "db_only"

ASSUME ModeAssumption == RepositoryMode \in {"file", "db_preferred", "db_only"}

Action == {"explain", "fetch_text", "verify_source", "verify_then_explain", "unknown"}

Requests ==
  [route : Route, action : Action, include : {"on", "off", None}, intent : BOOLEAN,
   tafsirs : Seq(Tafsirs), mode : HadithMode, text : Source, resolves : BOOLEAN,
   repeats : BOOLEAN, rejected : BOOLEAN, debug : BOOLEAN, thread : BOOLEAN]

(* Why a plan may abstain.                                                  *)
Reason == {"unsupported_domain", "unsupported_capability", "no_resolved_reference",
           "source_not_enabled", "insufficient_evidence", "hadith_not_supported_yet",
           "needs_clarification", "policy_restricted"}

Mode == {"verification_only", "verification_then_explain", "quran_with_tafsir", "quran_text",
         "quran_explanation", "hadith_text", "hadith_explanation", "topical_tafsir",
         "topical_hadith", "topical_multi_source", "clarify", "abstain"}

(* A plan without anything to fetch.                                        *)
EmptyPlan(ask) ==
  [mode |-> "abstain", abstains |-> FALSE, reason |-> None, terminal |-> "abstain",
   rejected |-> ask.rejected, quran |-> None, verify |-> FALSE,
   tafsir |-> NotRequested, overlap |-> FALSE,
   hadith |-> NotRequested, retrieval |-> None, shadowOnly |-> FALSE]

Abstaining(plan, reason) ==
  [plan EXCEPT !.mode = "abstain", !.terminal = "abstain", !.abstains = TRUE, !.reason = reason]

Answering(plan, mode) == [plan EXCEPT !.mode = mode, !.terminal = "answered"]

(* _response_mode_for_plan, for the routes that come to it                  *)
ModeOf(route, action, useTafsir) ==
  CASE route = "arabic_quran_quote" ->
         IF action = "verify_source" THEN "verification_only" ELSE "verification_then_explain"
    [] route \in HadithRoute -> IF action = "explain" THEN "hadith_explanation" ELSE "hadith_text"
    [] OTHER -> IF useTafsir THEN "quran_with_tafsir"
                ELSE IF action = "fetch_text" THEN "quran_text" ELSE "quran_explanation"

-----------------------------------------------------------------------------
(* A hadith follow-up is planned as an explanation, whatever its action.    *)
PlannedAction(ask) == IF ask.route = "anchored_followup_hadith" THEN "explain" ELSE ask.action

HadithPlan(ask, policy) ==
  LET plan == [EmptyPlan(ask) EXCEPT !.hadith = policy]
  IN  IF ~ ask.resolves THEN Abstaining(plan, "needs_clarification")
      ELSE IF ~ policy.included THEN Abstaining(plan, "source_not_enabled")
      ELSE Answering([plan EXCEPT !.retrieval = "citation"], ModeOf(ask.route, PlannedAction(ask), FALSE))

Named(ask) == IF ask.tafsirs = << >> THEN None ELSE ask.tafsirs[1]

TopicalTafsirPlan(ask, policy) ==
  LET plan == [EmptyPlan(ask) EXCEPT !.tafsir = policy]
  IN  IF policy.included THEN Answering(plan, "topical_tafsir")
      ELSE Abstaining(plan, IF policy.reason = "tafsir_source_not_enabled"
                            THEN "source_not_enabled" ELSE "policy_restricted")

(* While topical hadith is disabled, debug output still shows what would    *)
(* have been retrieved.                                                     *)
TopicalHadithPlan(ask, policy) ==
  LET plan == [EmptyPlan(ask) EXCEPT !.hadith = policy]
      shadow == ask.debug /\ policy.reason = "topical_hadith_temporarily_disabled"
  IN  IF policy.included
      THEN Answering([plan EXCEPT !.retrieval = "topical_v2_shadow"], "topical_hadith")
      ELSE Abstaining([plan EXCEPT !.retrieval = IF shadow THEN "topical_v2_shadow" ELSE None,
                                   !.shadowOnly = shadow], "policy_restricted")

TopicalMultiSourcePlan(ask, tafsir, hadith) ==
  LET plan == [EmptyPlan(ask) EXCEPT !.tafsir = tafsir, !.hadith = hadith,
                 !.retrieval = IF hadith.included THEN "lexical" ELSE None]
  IN  IF ~ tafsir.included /\ ~ hadith.included THEN Abstaining(plan, "policy_restricted")
      ELSE Answering(plan, IF tafsir.included /\ hadith.included THEN "topical_multi_source"
                           ELSE IF tafsir.included THEN "topical_tafsir" ELSE "topical_hadith")

-----------------------------------------------------------------------------
(* Commentary belongs to an explanation unless the caller suppresses it;    *)
(* repeating the exact text leaves it out.                                  *)
EffectiveInclude(ask) ==
  IF ask.repeats THEN "off"
  ELSE IF ask.include # None THEN ask.include
  ELSE IF ask.route \in {"anchored_followup_tafsir", "anchored_followup_quran"} THEN "on"
  ELSE IF ask.action = "explain" /\ ~ ask.intent THEN "on"
  ELSE None

(* An explicit reference, or a verse of the thread.  A refused commentary   *)
(* ends the request, except for a capability that the source does not have. *)
ReferencePolicy(ask) ==
  LET onVerse == ask.route = "anchored_followup_quran"
  IN  TafsirPolicy(IF onVerse THEN "explicit_quran_reference" ELSE ask.route,
                   IF onVerse THEN "explain" ELSE ask.action,
                   EffectiveInclude(ask),
                   ask.intent \/ ask.route = "anchored_followup_tafsir",
                   ask.tafsirs, ask.text)

ReferencePlan(ask, policy) ==
  LET plan == [EmptyPlan(ask) EXCEPT !.quran = ask.text, !.tafsir = policy, !.overlap = policy.included]
  IN  IF ~ ask.resolves THEN Abstaining([plan EXCEPT !.overlap = FALSE], "no_resolved_reference")
      ELSE IF policy.reason = "tafsir_source_not_enabled"
           THEN Abstaining(plan, "source_not_enabled")
      ELSE IF policy.reason = "quran_tafsir_composition_blocked"
           THEN Abstaining(plan, "policy_restricted")
      ELSE Answering(plan, ModeOf(ask.route, ask.action, policy.included))

(* A quotation is verified first.  Its plan goes on without commentary,     *)
(* however that was refused.                                                *)
QuotePolicy(ask) ==
  TafsirPolicy(ask.route, ask.action, ask.include, ask.intent, ask.tafsirs, ask.text)

QuotePlan(ask, policy) ==
  Answering([EmptyPlan(ask) EXCEPT !.quran = ask.text, !.verify = TRUE, !.tafsir = policy,
                                   !.overlap = policy.included],
            ModeOf(ask.route, ask.action, policy.included))

(* The routes without an answer.  Finer reasons, which the classifier may   *)
(* hand on for some of them, are left out.                                  *)
OtherPlan(ask) ==
  IF ask.route = "broad_source_grounded_query"
  THEN [EmptyPlan(ask) EXCEPT !.mode = "clarify", !.terminal = "clarify"]
  ELSE Abstaining(EmptyPlan(ask), IF ask.route = "policy_restricted_request"
                                  THEN "policy_restricted" ELSE "unsupported_capability")

PlanOf(ask) ==
  CASE ask.route \in OtherRoute -> OtherPlan(ask)
    [] ask.route \in HadithRoute -> HadithPlan(ask, HadithPolicy(PlannedAction(ask), None, ask.mode))
    [] ask.route = "topical_tafsir_query" -> TopicalTafsirPlan(ask, TopicalTafsirPolicy(Named(ask)))
    [] ask.route = "topical_hadith_query" -> TopicalHadithPlan(ask, TopicalHadithPolicy(None, ask.mode))
    [] ask.route = "topical_multi_source_query" ->
         TopicalMultiSourcePlan(ask, TopicalTafsirPolicy(Named(ask)), TopicalHadithPolicy(None, ask.mode))
    [] ask.route = "arabic_quran_quote" -> QuotePlan(ask, QuotePolicy(ask))
    [] OTHER -> ReferencePlan(ask, ReferencePolicy(ask))

(* Mutant: the text that a Quran answer mixes with is not looked up.        *)
ReadsForTopicsOnly(ask) == ask.route \in HadithRoute \cup TopicalRoute

(* Whether the plan reads the registry; the Quran routes always do, as they *)
(* look up the text that they mix with.                                     *)
ReadsRegistry(ask) ==
  \/ ask.route \in QuranRoute \cup {"topical_tafsir_query"}
  \/ ask.route \in HadithRoute \cup {"topical_hadith_query"} /\ ask.mode # "other"
     /\ ~ (ask.route = "topical_hadith_query" /\ ask.mode = "explicit_lookup_only")
  \/ ask.route = "topical_multi_source_query"
=============================================================================
