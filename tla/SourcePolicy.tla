---------------------------- MODULE SourcePolicy ----------------------------
(***************************************************************************)
(* domains/policies/ask_source_policy.py: which sources a request may be   *)
(* answered from.  A decision names the reason, whether the domain is      *)
(* included, and the sources that were selected.                           *)
(***************************************************************************)
EXTENDS SourceRegistry, Sequences, Functions

VARIABLE public   \* the topical answers that the settings make public

PublicTopicalTafsir == "tafsir" \in public
PublicTopicalHadith == "hadith" \in public

QuranRoute == {"explicit_quran_reference", "anchored_followup_quran",
               "anchored_followup_tafsir", "arabic_quran_quote"}
HadithRoute == {"explicit_hadith_reference", "anchored_followup_hadith"}
TopicalRoute == {"topical_tafsir_query", "topical_hadith_query", "topical_multi_source_query"}
OtherRoute == {"broad_source_grounded_query", "policy_restricted_request", "unsupported_for_now"}
Route == QuranRoute \cup HadithRoute \cup TopicalRoute \cup OtherRoute

HadithMode == {"auto", "explicit_lookup_only", "other"}

Place(list, s) == CHOOSE i \in DOMAIN list : list[i] = s

Refused(reason, selected) == [reason |-> reason, included |-> FALSE, selected |-> selected]
Included(reason, selected) == [reason |-> reason, included |-> TRUE, selected |-> selected]

NotRequested == Refused("not_requested_for_route", << >>)

-----------------------------------------------------------------------------
(* The commentaries asked for, in their order and each once, or all three   *)
(* when none is named.  One that may not be used leaves none of them.       *)
DefaultTafsirs == <<IbnKathir, Maarif, Tafheem>>

ResolvedTafsirs(requested) ==
  LET wanted == IF requested = << >> THEN DefaultTafsirs ELSE requested
  IN  IF \A s \in Range(wanted) : MayBeExplainedFrom(s) THEN wanted ELSE << >>

EligibleForTafsir(route, action) ==
  \/ route \in {"explicit_quran_reference", "anchored_followup_tafsir"}
  \/ route = "arabic_quran_quote" /\ action # "verify_source"

(* The tafsir part of evaluate_ask_source_policy.  include is "on", "off"   *)
(* or None, intent tells that the query reads like a request for tafsir.    *)
TafsirIsWanted(include, intent) == include = "on" \/ (include = None /\ intent)

(* The first of the commentaries that fails a test decides the reason.      *)
TestedTafsirs(resolved, text) ==
  LET Usable(s) == Supports(s, "explain") /\ MayMix(text, s)
      first == CHOOSE s \in Range(resolved) :
                 ~ Usable(s) /\ \A t \in Range(resolved) :
                                ~ Usable(t) => Place(resolved, s) <= Place(resolved, t)
  IN  IF resolved = << >> THEN Refused("tafsir_source_not_enabled", << >>)
      ELSE IF \A s \in Range(resolved) : Usable(s) THEN Included("selected", resolved)
      ELSE IF Supports(first, "explain") THEN Refused("quran_tafsir_composition_blocked", resolved)
      ELSE Refused("requested_tafsir_capability_not_allowed", resolved)

TafsirPolicy(route, action, include, intent, requested, text) ==
  IF ~ EligibleForTafsir(route, action) THEN Refused("route_not_eligible_for_tafsir", << >>)
  ELSE IF include = "off" THEN Refused("suppressed_by_request", << >>)
  ELSE IF ~ TafsirIsWanted(include, intent) THEN Refused("not_requested", << >>)
  ELSE TestedTafsirs(ResolvedTafsirs(requested), text)

TopicalTafsirDecision(s) ==
  IF s = None THEN Refused("tafsir_source_not_enabled", << >>)
  ELSE IF ~ Supports(s, "topical") THEN Refused("requested_tafsir_capability_not_allowed", <<s>>)
  ELSE IF ~ PublicTopicalTafsir THEN Refused("topical_tafsir_temporarily_disabled", <<s>>)
  ELSE Included("topical_tafsir_selected", <<s>>)

TopicalTafsirPolicy(requested) == TopicalTafsirDecision(TafsirForExplain(requested))

-----------------------------------------------------------------------------
(* _evaluate_hadith_source_policy: a citation is explained or looked up.    *)
HadithPolicy(action, requested, mode) ==
  LET s == HadithCollection(requested)
      capability == IF action = "explain" THEN "explain" ELSE "lookup"
  IN  IF mode = "other" THEN Refused("unsupported_hadith_mode", << >>)
      ELSE IF s = None THEN Refused("hadith_collection_not_registered_or_disabled", << >>)
      ELSE IF ~ Supports(s, capability)
           THEN Refused("requested_hadith_capability_not_allowed", <<s>>)
      ELSE Included("explicit_hadith_selected", <<s>>)

TopicalHadithPolicy(requested, mode) ==
  LET s == HadithCollection(requested)
  IN  IF mode = "other" THEN Refused("unsupported_hadith_mode", << >>)
      ELSE IF mode = "explicit_lookup_only" THEN Refused("hadith_mode_blocks_topical_retrieval", << >>)
      ELSE IF s = None THEN Refused("hadith_collection_not_registered_or_disabled", << >>)
      ELSE IF ~ Supports(s, "topical") THEN Refused("requested_hadith_capability_not_allowed", <<s>>)
      ELSE IF ~ PublicTopicalHadith THEN Refused("topical_hadith_temporarily_disabled", <<s>>)
      ELSE Included("topical_hadith_selected", <<s>>)
=============================================================================
