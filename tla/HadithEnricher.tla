----------------------------- MODULE HadithEnricher -----------------------------
(* What is derived from the text of a stored hadith when it is read: topic    *)
(* tags, the role of the text, how central the topic is to it, how well it    *)
(* answers and what suggests that the topic is only mentioned in passing.     *)
EXTENDS TopicalQuery

-----------------------------------------------------------------------------
\* the concepts of the hadith domain as topics; an alias is of one topic only
HadithTopics ==
  [i \in DOMAIN Concepts |->
     [slug |-> Concepts[i].slug, family |-> Concepts[i].family, aliases |-> Concepts[i].surfaces]]

(* Topic tags: the topics with an alias in the body or the titles, those with *)
(* most aliases first.                                                        *)
Titles(e) == e.book \o e.chapter
Instruction(e) == e.body \o e.chapter
DocumentText(e) == e.body \o e.chapter \o e.book

MatchedAliasesOf(topic, e) == AliasHits(topic.aliases, DocumentText(e))
TopicTags(e) ==
  LET tagged == SelectSeq([i \in DOMAIN HadithTopics |->
                             [topic |-> HadithTopics[i], id |-> i,
                              hits |-> Cardinality(MatchedAliasesOf(HadithTopics[i], e))]],
                          LAMBDA t : t.hits > 0)
      ranked == By(LAMBDA t : <<- t.hits, t.id>>, tagged)
  IN  [i \in DOMAIN ranked |-> ranked[i].topic]

-----------------------------------------------------------------------------
(* derive_directive_labels and derive_guidance_role.                         *)
DirectiveOf == [
  prohibition |-> {<<"do", "not">>},
  command |-> {<<"has", "ordered">>, <<"ordered", "you">>},
  virtue |-> {<<"best", "of", "you">>, <<"the", "best">>, <<"better", "than">>},
  warning |-> {<<"beware">>, <<"woe">>, <<"punishment">>},
  guidance |-> {<<"whoever">>},
  qa_exchange |-> {<<"ask", "whatever", "you", "want">>}]
DirectiveLabels(text) == {l \in DOMAIN DirectiveOf : MentionsAny(text, DirectiveOf[l])}

NarrativeMarkers ==
  {<<"while", "we", "were", "sitting">>, <<"then", "a", "man", "came">>,
   <<"the", "wives", "of", "the", "prophet">>, <<"thereupon">>,
   <<"so", "this", "verse", "was", "revealed">>}
GeneralMarkers == {<<"the", "best">>, <<"whoever">>, <<"none", "is", "given">>,
                   <<"do", "not", "get", "angry">>, <<"beware">>}
MoralMarkers == {<<"beware">>, <<"woe">>, <<"do", "not", "get", "angry">>,
                 <<"do", "not", "become", "angry">>}
QuestionMarkers == {<<"prayer">>, <<"zakat">>, <<"fasts">>, <<"ask", "whatever", "you", "want">>}

Questions(e, labels) == "qa_exchange" \in labels \/ Mentions(e.chapter, <<"questions">>)
GuidanceRole(e, labels) ==
  CASE Questions(e, labels) /\ MentionsAny(Instruction(e), QuestionMarkers) -> "narrative_incident"
    [] labels \cap {"warning", "prohibition"} # {} ->
         IF MentionsAny(Instruction(e), MoralMarkers) THEN "direct_moral_instruction" ELSE "warning"
    [] "virtue" \in labels -> "virtue_statement"
    [] "command" \in labels -> "legal_specific_case"
    [] OTHER -> "narrative_incident"

DirectRoles == {"direct_moral_instruction", "virtue_statement"}

-----------------------------------------------------------------------------
(* The scores.  primary is the first topic tag.                              *)
When(condition, value) == IF condition THEN value ELSE 0

NarrativeSpecificity(e, role) ==
  (IF role \in DirectRoles THEN 200000 ELSE 450000)
  + When(MentionsAny(Instruction(e), NarrativeMarkers), 200000)
  + When(Length(Instruction(e)) >= 80, 150000)
  + When(Mentions(Instruction(e), <<"so", "this", "verse", "was", "revealed">>), 100000)

Titled(primary, e) == MentionsAny(Titles(e), primary.aliases)
BodyHits(primary, e) ==
  MapThenSumSet(LAMBDA a : Occurrences(e.body, a), MatchedAliasesOf(primary, e))

CentralTopicScore(primary, e, role) ==
  Clamped(180000
    + When(Titled(primary, e), 350000)
    + (CASE BodyHits(primary, e) >= 2 -> 250000
         [] BodyHits(primary, e) = 1 -> 100000
         [] OTHER -> 0)
    + When(role \in DirectRoles, 180000)
    + When(MentionsAny(e.body, GeneralMarkers), 80000)
    + When(Length(e.body) <= 60 /\ BodyHits(primary, e) > 0, 50000)
    - When(role = "narrative_incident" /\ ~ Titled(primary, e), 180000))

InPassing(primary, e) ==
  \/ BodyHits(primary, e) <= 1 /\ ~ Titled(primary, e) /\ Length(e.body) >= 70
  \/ /\ primary.slug = "anger"
     /\ \/ /\ ~ Mentions(e.body, <<"do", "not", "get", "angry">>)
           /\ Mentions(e.body, <<"anger", "on", "his", "face">>)
        \/ /\ Mentions(e.chapter, <<"questions">>)
           /\ MentionsAny(e.body, {<<"prayer">>, <<"zakat">>, <<"fasts">>})

IncidentalFlags(primary, e, role) ==
  {f \in {"incidental_mention_risk", "narrative_specific_risk", "anger_phrase_not_central",
          "jealousy_context_specific", "travel_provision_context"} :
     CASE f = "incidental_mention_risk" -> InPassing(primary, e)
       [] f = "narrative_specific_risk" -> role = "narrative_incident" /\ ~ Titled(primary, e)
       [] f = "anger_phrase_not_central" ->
            /\ primary.slug = "anger"
            /\ ~ Mentions(e.body, <<"do", "not", "get", "angry">>)
            /\ BodyHits(primary, e) <= 2
       [] f = "jealousy_context_specific" ->
            primary.slug = "hasad" /\ Mentions(e.body, <<"wives", "of", "the", "prophet">>)
       [] OTHER -> primary.slug = "rizq" /\ {"provision", "journey"} \subseteq Range(e.body)}

AnswerabilityScore(central, specificity, role, flags) ==
  Clamped(central
    + When(role \in DirectRoles \cup {"warning"}, 100000)
    - When("incidental_mention_risk" \in flags, 180000)
    - When("narrative_specific_risk" \in flags, 120000)
    - Pct(12, specificity))

\* _incidental_penalty
IncidentalPenalty(flags) ==
  CASE "incidental_mention_risk" \in flags -> 500000
    [] "incidental_mention_risk" \notin flags /\ "narrative_specific_risk" \in flags -> 350000
    [] flags # {} /\ flags \cap {"incidental_mention_risk", "narrative_specific_risk"} = {} -> 200000
    [] OTHER -> 0

\* build_contextual_summary: tags and labels, then the titles and the text
ContextualSummary(e, tags, labels) ==
  [i \in DOMAIN tags |-> tags[i].slug] \o SetToSeq(labels) \o e.book \o e.chapter \o e.narrator \o e.body

-----------------------------------------------------------------------------
\* build_enriched_document; without a topic tag nothing is central
Enriched(e, tags, labels, role) ==
  LET central == IF tags = <<>> THEN 0 ELSE CentralTopicScore(tags[1], e, role)
      flags == IF tags = <<>> THEN {} ELSE IncidentalFlags(tags[1], e, role)
      specificity == NarrativeSpecificity(e, role)
  IN  [tags |-> {t.slug : t \in Range(tags)}, role |-> role, central |-> central,
       specificity |-> specificity, flags |-> flags,
       answerability |-> AnswerabilityScore(central, specificity, role, flags),
       family |-> IF tags = <<>> THEN Nothing ELSE tags[1].family,
       summary |-> ContextualSummary(e, tags, labels)]

EnrichedDocument(e) ==
  LET labels == DirectiveLabels(Instruction(e))
  IN  Enriched(e, TopicTags(e), labels, GuidanceRole(e, labels))
=============================================================================
