------------------------------ MODULE MCAskRequest ------------------------------
(***************************************************************************)
(* AskRequest on two deployments: a table that holds the records of the    *)
(* program and the commentary that was ingested, and no rows at all.       *)
(***************************************************************************)
EXTENDS AskRequest

CONSTANTS n1, n2

MCNarration == {n1, n2}
MCHits == {<< >>, <<n1, n2>>}
MCCandidates == {<< >>, <<n2, n1>>}

Ingested == [enabled |-> TRUE, approved |-> TRUE, default |-> FALSE, composes |-> TRUE,
             rank |-> 1000, caps |-> Granted({})]

MCDeployed ==
  {[s \in Source |-> IF s = Maarif THEN Ingested ELSE Bootstrap(s)], [s \in Source |-> None]}

MCPublic == {{}, {"tafsir", "hadith"}}
MCGoverned == {Text, Tafheem, Bukhari}

(* An operator disables or revokes.                                         *)
MCDecision(r) == {[r EXCEPT !.enabled = FALSE], [r EXCEPT !.approved = FALSE]}

Plain(route) ==
  [route |-> route, action |-> "explain", include |-> None, intent |-> FALSE, tafsirs |-> << >>,
   mode |-> "auto", text |-> Text, resolves |-> TRUE, repeats |-> FALSE, rejected |-> FALSE,
   debug |-> FALSE,
   thread |-> route \in {"anchored_followup_tafsir", "anchored_followup_quran",
                       "anchored_followup_hadith"}]

Two == <<Tafheem, IbnKathir>>

Quran ==
  {[Plain(route) EXCEPT !.action = action, !.include = include, !.tafsirs = Two] :
     route \in {"explicit_quran_reference", "arabic_quran_quote"},
     action \in {"explain", "fetch_text"}, include \in {"on", None}}
  \cup {[Plain("arabic_quran_quote") EXCEPT !.action = "verify_source"],
        [Plain("arabic_quran_quote") EXCEPT !.action = "verify_then_explain", !.intent = TRUE],
        [Plain("arabic_quran_quote") EXCEPT !.include = "on"],
        [Plain("arabic_quran_quote") EXCEPT !.intent = TRUE],
        [Plain("explicit_quran_reference") EXCEPT !.include = "off"],
        [Plain("explicit_quran_reference") EXCEPT !.resolves = FALSE],
        [Plain("anchored_followup_tafsir") EXCEPT !.tafsirs = Two],
        [Plain("anchored_followup_quran") EXCEPT !.repeats = TRUE]}

Hadith ==
  {[Plain(route) EXCEPT !.mode = mode] : route \in TopicalRoute, mode \in HadithMode}
  \cup {[Plain(route) EXCEPT !.rejected = TRUE] :
           route \in TopicalRoute \cup {"anchored_followup_hadith", "unsupported_for_now"}}
  \cup {[Plain("topical_hadith_query") EXCEPT !.debug = TRUE],
        [Plain("topical_tafsir_query") EXCEPT !.thread = TRUE],
        [Plain("anchored_followup_hadith") EXCEPT !.action = "fetch_text"],
        [Plain("explicit_hadith_reference") EXCEPT !.mode = "other"],
        [Plain("explicit_hadith_reference") EXCEPT !.resolves = FALSE],
        Plain("explicit_hadith_reference")}

MCAsk == Quran \cup Hadith \cup {Plain(route) : route \in OtherRoute}
=============================================================================
