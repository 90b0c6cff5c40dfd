----------------------------- MODULE TopicalQuery -----------------------------
(* What is read out of a topical hadith query before anything is retrieved:   *)
(* the concepts it is linked to, the family of the query and its profile, the *)
(* topic family with its retrieval strategy, and the shape of the question.   *)
(* A concept is [slug, family, surfaces, biases]; its surfaces are texts and  *)
(* hold the slug and the label.                                               *)
EXTENDS TopicalText

CONSTANTS
  Concepts,          \* the sequence of hadith concepts, by id
  ConceptStopWords,  \* tokens no concept is linked by
  QueryFamilies,     \* the sequence of query families, by priority
  TopicAliases,      \* the aliases of every topic family
  ResolverStopWords  \* tokens no topic is resolved by

ASSUME ConceptsAssumption == IsList(Concepts)

Nothing == "none"

-----------------------------------------------------------------------------
(* link_query_to_concepts.  artifact_strict, which only the offline builder   *)
(* asks for, is left out.                                                     *)
Informative(query) == {t \in Expanded(Range(query)) : t \notin ConceptStopWords}

SurfaceScore(surface, query, tokens) ==
  LET shared == tokens \cap Range(surface)
      closest == ClosestWord(tokens, Range(surface))
  IN  Max({IF Mentions(query, surface) THEN 910000 ELSE 0,
           CASE shared # {} -> 500000 + Pct(34, Share(Cardinality(shared),
                                                    Cardinality(Range(surface))))
             [] shared = {} /\ closest >= 520000 -> 460000 + Pct(28, closest)
             [] OTHER -> 0})

\* whole texts are compared when they are single words
TopicSimilarity(query, surface) ==
  IF Len(query) = 1 /\ Len(surface) = 1 THEN Similarity(query[1], surface[1]) ELSE 0

WholeScore(c, query, tokens) ==
  LET shared == tokens \cap UNION {Range(s) : s \in c.surfaces}
      closest == Highest({TopicSimilarity(query, s) : s \in c.surfaces})
  IN  CASE shared # {} -> AtMost(820000, 440000 + 130000 * Cardinality(shared))
        [] shared = {} /\ closest >= 520000 -> 380000 + Pct(42, closest)
        [] OTHER -> 0

ConceptScore(c, query, tokens) ==
  LET best == Highest({SurfaceScore(s, query, tokens) : s \in c.surfaces})
  IN  IF best >= 840000 \/ tokens = {} THEN best
      ELSE Max({best, WholeScore(c, query, tokens)})

\* what of the query a concept was linked by
LinkTerms(c, query, tokens) ==
  {s \in c.surfaces : Mentions(query, s)}
  \cup {<<t>> : t \in {u \in tokens : \E s \in c.surfaces :
                         u \in Range(s) \/ ClosestWord({u}, Range(s)) >= 520000}}

\* at most four, the best first, of equals those with more terms, then by id
LinkedConcepts(query) ==
  LET scored == [i \in DOMAIN Concepts |->
                   [concept |-> Concepts[i], id |-> i,
                    score |-> ConceptScore(Concepts[i], query, Informative(query)),
                    terms |-> Cardinality(LinkTerms(Concepts[i], query, Informative(query)))]]
      ranked == By(LAMBDA m : <<- m.score, - m.terms, m.id>>,
                   KeptAt(scored, {i \in DOMAIN scored : scored[i].score >= 480000}))
  IN  [i \in 1 .. Min({4, Len(ranked)}) |-> ranked[i].concept]

-----------------------------------------------------------------------------
(* classify_query_family and infer_query_profile.  A family is [id, domain,   *)
(* profile, priority, cues, words, anti, least]; that a query resembles an    *)
(* example as a whole, and the overrides for families that are not shipped,   *)
(* are left out.                                                              *)
FamilyScore(f, query) ==
  LET cued == MentionsAny(query, f.cues)
      shared == Cardinality(f.words \cap Range(query))
      against == Cardinality({a \in f.anti : Mentions(query, a)})
  IN  IF shared < f.least /\ ~ cued THEN 0
      ELSE (IF cued THEN 820000 ELSE 0) + AtMost(120000, 40000 * shared)
           - AtMost(400000, 160000 * against)

\* the best by score and priority, the first of equal ones
QueryFamily(query) ==
  FoldLeft(LAMBDA best, f :
             LET score == FamilyScore(f, query)
             IN  IF score >= 450000 /\ AtMost(990000, score) + 1000 * f.priority > best.weight
                 THEN [profile |-> f.profile, weight |-> AtMost(990000, score) + 1000 * f.priority]
                 ELSE best,
           [profile |-> "general_topic", weight |-> 0], QueryFamilies)

WarningMarkers == {<<"warning">>, <<"punishment">>, <<"danger">>, <<"consequence">>, <<"avoid">>}
VirtueMarkers == {<<"virtue">>, <<"benefit">>, <<"merit">>, <<"best", "of">>, <<"reward", "of">>}

QueryProfile(query) ==
  CASE MentionsAny(query, WarningMarkers) -> "warning"
    [] ~ MentionsAny(query, WarningMarkers) /\ MentionsAny(query, VirtueMarkers) -> "virtue"
    [] OTHER -> QueryFamily(query).profile

-----------------------------------------------------------------------------
(* normalize_hadith_topical_query                                            *)
TopicFillers == {"please", "for", "me", "show", "tell", "give", "regarding", "about", "on"}
NormalizedText(raw) == KeptAt(raw, {i \in DOMAIN raw : raw[i] \notin TopicFillers})

Slugs(concepts) == [i \in DOMAIN concepts |-> concepts[i].slug]

NormalizedQuery(raw, original) ==
  LET linked == LinkedConcepts(raw)
  IN  [raw |-> raw, text |-> NormalizedText(raw), original |-> original,
       topics |-> Slugs(linked),
       family |-> IF linked = <<>> THEN Nothing ELSE linked[1].family,
       biases |-> IF linked = <<>> THEN {} ELSE linked[1].biases,
       profile |-> QueryProfile(raw)]

-----------------------------------------------------------------------------
(* classify_hadith_topic_family: the first family with an alias or a cue.     *)
EntityCues == {"dajjal", "hour", "fitan", "mahdi", "gog", "magog", "tribulations"}
RitualCues == {"prayer", "salah", "fasting", "sawm", "wudu", "ablution", "zakat", "hajj"}
NarrativeCues == {"story", "incident", "event", "battle", "happened", "visit"}
ThematicCues == [entity_eschatology |-> EntityCues, ritual_practice |-> RitualCues,
                 narrative_event |-> NarrativeCues]
ThematicOrder == <<"entity_eschatology", "ritual_practice", "narrative_event">>

FamilyAliases(id, query) == {a \in TopicAliases[id] : Mentions(query.text, a)}
CuesIn(id, query) == {<<w>> : w \in ThematicCues[id] \cap Range(Tokens(query.text))}
\* the aliases, or else the cues
MatchedAliases(id, query) ==
  IF FamilyAliases(id, query) # {} THEN FamilyAliases(id, query) ELSE CuesIn(id, query)

TopicFamily(query) ==
  LET matching == SelectSeq(ThematicOrder, LAMBDA id : MatchedAliases(id, query) # {})
  IN  IF matching = <<>>
      THEN [id |-> "moral_guidance", strategy |-> "guidance_units",
            aliases |-> FamilyAliases("moral_guidance", query)]
      ELSE [id |-> matching[1], strategy |-> "thematic_passages",
            aliases |-> MatchedAliases(matching[1], query)]

-----------------------------------------------------------------------------
(* detect_query_shape: the first shape with a pattern in the question as it   *)
(* was asked, which the planner may have stripped from the topic.             *)
ShapePatterns == <<
  [shape |-> "procedural_descriptive",
   patterns |-> {<<"how">>, <<"describe">>, <<"description">>, <<"method">>, <<"way">>,
                 <<"procedure">>, <<"show", "me">>, <<"what", "did", "he", "do">>,
                 <<"what", "did", "the", "prophet", "pray">>, <<"used", "to", "pray">>}],
  [shape |-> "prophetic_teaching",
   patterns |-> {<<"did", "the", "prophet", v>> : v \in {"say", "teach", "advise", "command"}}
                \cup {<<"does", "the", "prophet", "say">>, <<"according", "to", "the", "prophet">>}],
  [shape |-> "ruling_warning",
   patterns |-> {<<"punishment">>, <<"forbidden">>, <<"haram">>, <<"ruling">>, <<"rulings">>,
                 <<"warning">>, <<"sin">>, <<"penalty">>}],
  [shape |-> "virtue",
   patterns |-> {<<"virtue">>, <<"virtues">>, <<"merit">>, <<"reward">>, <<"blessing">>,
                 <<"benefit">>}] >>

Asked(query) == IF query.original # <<>> THEN query.original ELSE query.raw
QueryShape(query) ==
  LET found == SelectSeq(ShapePatterns, LAMBDA s : MentionsAny(Asked(query), s.patterns))
  IN  IF found = <<>> THEN "broad" ELSE found[1].shape
=============================================================================
