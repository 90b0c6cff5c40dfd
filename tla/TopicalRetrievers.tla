--------------------------- MODULE TopicalRetrievers ---------------------------
(* The two retrievals for collections other than Bukhari: guidance units,     *)
(* spans of a hadith that give guidance, and thematic passages, whole hadith  *)
(* on a figure, an event or a rite.  A unit is [id, ref, source, span,        *)
(* summary, role, family, central, secondary, directness, answerability,      *)
(* penalty, builder].                                                         *)
EXTENDS TopicalSelection

CONSTANTS Units   \* the guidance units of the artifact, by id

-----------------------------------------------------------------------------
(* Guidance units: _central_topic_score and _candidate_from_doc.             *)
ConceptSignal(query, u) ==
  CASE Range(query.topics) \cap u.central # {} -> Unit
    [] /\ Range(query.topics) \cap u.central = {}
       /\ Range(query.topics) \cap u.secondary # {} -> 580000
    [] OTHER -> 0
UnitCentrality(query, u, overlap) ==
  Clamped(Pct(46, ConceptSignal(query, u)) + Pct(22, Clamped(u.directness))
    + Pct(14, Clamped(u.answerability)) + Pct(12, Clamped(u.builder)) + Pct(6, Clamped(overlap))
    - When(u.role = "narrative_incident" /\ ConceptSignal(query, u) < Unit, 100000))

UnitCandidate(query, u, score, overlap, origin) ==
  LET matched == Range(query.topics) \cap (u.central \cup u.secondary)
  IN  [ref |-> u.ref, source |-> u.source, origin |-> origin, fusion |-> score, rerank |-> 0,
       central |-> UnitCentrality(query, u, overlap), answerability |-> Clamped(u.answerability),
       specificity |-> 0, incidental |-> Clamped(u.penalty), role |-> u.role, family |-> u.family,
       topics |-> matched, terms |-> matched, chapter |-> <<>>,
       summary |-> IF u.summary # <<>> THEN u.summary ELSE u.span, text |-> u.span,
       prophetic |-> FALSE, builder |-> u.builder, unit |-> u.id, passage |-> FALSE]

UnitOverlap(query, u) ==
  Share(Cardinality(AskedWords(query) \cap Range(u.span \o u.summary)),
        Max({1, Cardinality(AskedWords(query))}))

\* _retrieve_from_artifact: the score of a unit with its overlap and semantics
UnitScore(query, u, overlap, semantic) ==
  Pct(28, UnitCentrality(query, u, overlap)) + Pct(12, overlap) + Pct(18, semantic)
  + Pct(12, Fused(overlap, semantic, 28)) + Pct(16, Clamped(u.answerability))
  + Pct(14, Clamped(u.builder)) - Pct(18, Clamped(u.penalty))
  + When(query.profile = "prophetic_guidance" /\ u.role = "direct_moral_instruction", 120000)

UnitKept(query, u, overlap, semantic, score) ==
  /\ query.topics # <<>> /\ ConceptSignal(query, u) = 0 => overlap >= 340000
  /\ \/ u.role # "narrative_incident" \/ Range(query.topics) \cap u.central # {}
     \/ semantic >= 240000 \/ score >= 580000
  /\ score >= 240000

Topics(query) == {<<t>> : t \in Range(query.topics)}
UnitHit(query, u, overlap, semantic) ==
  [unit |-> u, overlap |-> overlap, semantic |-> semantic,
   score |-> UnitScore(query, u, overlap, semantic)]
ArtifactUnits(query, collection) ==
  SelectSeq([i \in DOMAIN Units |->
               UnitHit(query, Units[i], UnitOverlap(query, Units[i]),
                       SemanticScore(AskedText(query), Units[i].span \o Units[i].summary, Topics(query)))],
            LAMBDA h : /\ collection \in {"", h.unit.source}
                       /\ UnitKept(query, h.unit, h.overlap, h.semantic, h.score))
ArtifactCandidates(query, found) ==
  [i \in DOMAIN found |->
     UnitCandidate(query, found[i].unit, found[i].score, found[i].overlap,
                   IF found[i].semantic >= 220000 THEN "guidance_artifact_hybrid"
                   ELSE "guidance_artifact")]

\* build_hadith_guidance_bm25_query: what the index may return, with any score
IndexedUnits(query, collection) ==
  {u \in Range(Units) :
     /\ collection \in {"", u.source}
     /\ \/ Range(query.text) \cap Range(u.span \o u.summary) # {}
        \/ Range(query.topics) \cap (u.central \cup u.secondary) # {}
        \/ u.family # Nothing /\ u.family = query.family}
IndexUnitCandidates(query, found) ==
  [i \in DOMAIN found |->
     UnitCandidate(query, found[i].unit, found[i].score, 0, "guidance_opensearch")]

\* the better of two finds of a unit, then the best unit of every hadith
UnitRank(c) == <<- c.fusion, - c.central, - c.answerability, c.incidental>>
BestUnits(candidates) ==
  LET found == Range(candidates)
      units == FirstOf(LAMBDA c : c.unit,
                       SelectSeq(candidates, LAMBDA c :
                         \A d \in found : d.unit = c.unit => d.fusion <= c.fusion))
      best == SelectSeq(units, LAMBDA c :
                \A d \in Range(units) : d.ref = c.ref => ~ Precedes(UnitRank(d), UnitRank(c)))
  IN  Top(PoolLimit, By(LAMBDA c : Append(UnitRank(c), c.ref), FirstOf(LAMBDA c : c.ref, best)))

-----------------------------------------------------------------------------
(* Thematic passages.                                                        *)
GenericPassageTokens == {"prophet", "said", "say", "coming", "come", "about", "what"}
ContentTokens(query) ==
  SelectSeq(Tokens(AskedText(query)), LAMBDA t : t \notin GenericPassageTokens)
PassageText(e) == e.body \o e.narrator \o e.book \o e.chapter

\* what is read in a hit: aliases, words of the query, an alias in the titles
Reading(query, aliases, e) ==
  [aliases |-> AliasHits(aliases, PassageText(e)),
   overlap |-> SelectSeq(ContentTokens(query), LAMBDA t : t \in Range(Tokens(PassageText(e)))),
   titled |-> MentionsAny(Titles(e), aliases),
   semantic |-> SemanticScore(AskedText(query), PassageText(e) \o Titles(e), aliases)]

RiteTokens == {"prayer", "fasting", "wudu", "zakat", "sick", "illness"}
PassageScore(query, r, rank) ==
  Pct(28, When(r.aliases # {}, AtMost(Unit, 340000 + 240000 * Cardinality(r.aliases))))
  + Pct(16, AtMost(Unit, Share(Len(r.overlap), Max({1, Len(ContentTokens(query))}))))
  + Pct(16, rank) + Pct(18, r.semantic) + Pct(12, Fused(rank, r.semantic, 36))
  + When(r.titled, 80000)
  + When(query.retrieval = "ritual_practice" /\ Range(r.overlap) \cap RiteTokens # {}, 80000)

PassageKept(query, r, score) ==
  /\ query.retrieval \in {"entity_eschatology", "narrative_event"} =>
       r.aliases # {} \/ r.semantic >= 320000
  /\ r.aliases # {} \/ Len(r.overlap) >= 2 \/ r.semantic >= 280000
  /\ score >= 340000

\* the topics are those of the query, whatever the text says
PassageCandidate(query, e, r, score) ==
  [ref |-> e.ref, source |-> e.source, origin |-> "thematic_passage", fusion |-> score,
   rerank |-> score, central |-> AtLeast(When(r.aliases # {}, 450000), score),
   answerability |-> 520000 + When(r.aliases # {}, 220000) + When(r.titled, 80000),
   specificity |-> 220000, incidental |-> IF r.aliases # {} THEN 40000 ELSE 160000,
   role |-> "thematic_passage", family |-> query.retrieval,
   topics |-> Range(query.topics),
   terms |-> Range(r.overlap) \cup UNION {Range(a) : a \in r.aliases},
   chapter |-> e.chapter, summary |-> e.body, text |-> e.body, prophetic |-> FALSE,
   builder |-> 0, unit |-> Nothing, passage |-> TRUE]

\* hits of the lexical search, read one by one
Passage(query, e, r, score) ==
  [candidate |-> PassageCandidate(query, e, r, score), kept |-> PassageKept(query, r, score)]
ReadHit(query, h, r) == Passage(query, h.entry, r, PassageScore(query, r, Saturated(h.rank)))
ThematicPassages(query, aliases, hits) ==
  LET kept == SelectSeq([i \in DOMAIN hits |->
                           ReadHit(query, hits[i], Reading(query, aliases, hits[i].entry))],
                        LAMBDA p : p.kept)
  IN  Top(PoolLimit,
          FirstOf(LAMBDA c : c.ref,
                  By(LAMBDA c : <<- c.fusion, - c.answerability, c.ref>>,
                     [i \in DOMAIN kept |-> kept[i].candidate])))
=============================================================================
