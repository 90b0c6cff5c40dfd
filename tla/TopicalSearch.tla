----------------------------- MODULE TopicalSearch -----------------------------
(* One topical search of hadith, from the question to the selected evidence.  *)
(* Bukhari is searched in its index, with a filter on the topic first and     *)
(* without it when that finds little; any other collection in the stored      *)
(* text with guidance units, or in thematic passages.  The search engine may  *)
(* be off, may fail in any call and may rank what it finds in any order; an   *)
(* embedding of the query may be missing.                                     *)
EXTENDS TopicalRetrievers

CONSTANTS
  Requests,          \* searches: [raw, original, collection, prefetched]
  StrictSufficient,  \* finds under the topic filter that suffice
  BaselineLimit,     \* lexical hits that the caller has when it has any
  LexicalLimit,      \* lexical hits that the search loads itself
  EngineScores       \* relevance scores of the engine

ASSUME RequestsAssumption == \A r \in Requests : IsList(r.raw)

VARIABLES
  step,        \* what is done next
  engine,      \* "on" or "off": OpenSearch is configured
  request,
  query,       \* the normalized query, with its retrieval family and shape
  aliases,     \* the aliases its topic family was recognized by
  resolution,  \* the topic of the query, on the Bukhari path
  found,       \* what the index returned
  hits,        \* lexical hits
  pool,        \* the candidates
  warnings,
  result       \* [selected, abstain, reason]

searchVars ==
  <<step, engine, request, query, aliases, resolution, found, hits, pool, warnings, result>>

Unresolved == [primary |-> Nothing, confident |-> <<>>, secondary |-> <<>>, tokens |-> <<>>]
NoResult == [selected |-> <<>>, abstain |-> FALSE, reason |-> Nothing]

IsBukhari(collection) == collection = "hadith:bukhari"

Situated(q, family, shape) ==
  [raw |-> q.raw, text |-> q.text, topics |-> q.topics, family |-> q.family, biases |-> q.biases,
   profile |-> q.profile, retrieval |-> family, shape |-> shape]

SearchInit ==
  /\ step = "normalize" /\ engine \in {"on", "off"} /\ request \in Requests
  /\ query = Situated([raw |-> <<>>, text |-> <<>>, topics |-> <<>>, family |-> Nothing,
                       biases |-> {}, profile |-> "general_topic"], "moral_guidance", "broad")
  /\ aliases = {} /\ resolution = Unresolved /\ found = <<>> /\ hits = <<>> /\ pool = <<>>
  /\ warnings = {} /\ result = NoResult

-----------------------------------------------------------------------------
Route(strategy) ==
  CASE IsBukhari(request.collection) -> IF engine = "on" THEN "resolve" ELSE "lexical"
    [] ~ IsBukhari(request.collection) /\ strategy = "thematic_passages" -> "thematic"
    [] OTHER -> "lexical"

Normalize ==
  /\ step = "normalize"
  /\ \E q \in {NormalizedQuery(request.raw, request.original)} : \E f \in {TopicFamily(q)} :
       /\ query' = Situated(q, f.id, QueryShape(q))
       /\ aliases' = f.aliases
       /\ step' = Route(f.strategy)
  /\ UNCHANGED <<engine, request, resolution, found, hits, pool, warnings, result>>

-----------------------------------------------------------------------------
(* The Bukhari path.                                                         *)
Resolve ==
  /\ step = "resolve"
  /\ resolution' = ResolveTopic(query.raw)
  /\ query' = [query EXCEPT !.topics = MergedTopics(query.topics, resolution')]
  /\ step' = "strict"
  /\ UNCHANGED <<engine, request, aliases, found, hits, pool, warnings, result>>

\* what a lane returns: a ranking, or nothing after a failure
Lane(eligible) ==
  {[failed |-> TRUE, hits |-> <<>>]} \cup
  {[failed |-> FALSE, hits |-> r] : r \in Rankings(eligible, SizeFor(resolution, query.shape))}

\* _fetch_bukhari_hybrid: without an embedding the second lane is not tried
Fetched(enforce) ==
  {[bm25 |-> b, knn |-> k] :
     b \in Lane(BM25Eligible(resolution, query.family, enforce, query.shape)),
     k \in {[failed |-> FALSE, hits |-> <<>>]} \cup
           IF resolution.tokens = <<>> THEN {}
           ELSE Lane(KnnEligible(resolution, query.family, enforce))}

FetchStrict ==
  /\ step = "strict"
  /\ \E f \in Fetched(TRUE) :
       /\ found' = Combined(f.bm25.hits, f.knn.hits, TRUE)
       /\ warnings' = warnings \cup {w \in {"bukhari_bm25_unavailable", "bukhari_knn_unavailable"} :
                         IF w = "bukhari_bm25_unavailable" THEN f.bm25.failed ELSE f.knn.failed}
  /\ step' = IF resolution.primary # Nothing /\ Len(found') < StrictSufficient
             THEN "relaxed" ELSE "build"
  /\ UNCHANGED <<engine, request, query, aliases, resolution, hits, pool, result>>

\* what is new without the topic filter; failures are not reported here
Unseen(finds) ==
  KeptAt(finds, {i \in DOMAIN finds : \A r \in Range(found) : r.doc.ref # finds[i].doc.ref})
FetchRelaxed ==
  /\ step = "relaxed"
  /\ \E f \in Fetched(FALSE) : found' = found \o Unseen(Combined(f.bm25.hits, f.knn.hits, FALSE))
  /\ step' = "build"
  /\ UNCHANGED <<engine, request, query, aliases, resolution, hits, pool, warnings, result>>

BuildBukhari ==
  /\ step = "build"
  /\ pool' = BukhariPool(resolution, query.shape, found)
  /\ warnings' = warnings \cup IF found = <<>> THEN {"bukhari_hybrid_no_hits"} ELSE {}
  /\ step' = "rerank"
  /\ UNCHANGED <<engine, request, query, aliases, resolution, found, hits, result>>

-----------------------------------------------------------------------------
(* The other collections, and Bukhari when the engine is off.  Hits that the  *)
(* caller has are used, except for Bukhari.                                   *)
BaselineHits == LexicalHits(request.raw, request.collection, BaselineLimit)
Prefetched == request.prefetched /\ ~ IsBukhari(request.collection) /\ BaselineHits # <<>>
HitsFor(limit) ==
  IF Prefetched THEN BaselineHits ELSE LexicalHits(AskedText(query), request.collection, limit)

LoadLexical ==
  /\ step \in {"lexical", "thematic"}
  /\ hits' = HitsFor(LexicalLimit)
  /\ step' = IF step = "lexical" THEN "index" ELSE "passages"
  /\ UNCHANGED <<engine, request, query, aliases, resolution, found, pool, warnings, result>>

WithContext(candidates) ==
  [i \in DOMAIN candidates |->
     IF Prefetched THEN WithLexicalContext(query, hits, candidates[i]) ELSE candidates[i]]

\* the finds of the enriched index: any ranking, with any scores
ScoredFinds(finds) ==
  UNION {{[i \in DOMAIN r |-> [entry |-> r[i], score |-> s[i]]] : s \in [DOMAIN r -> EngineScores]} :
           r \in Rankings(finds, SearchSize)}

\* generate: the candidates of the lexical hits and of the enriched index
Generate(finds) ==
  pool' = WithContext(GeneratedPool(LexicalCandidates(query.topics, hits)
                                    \o IndexCandidates(query.topics, finds)))
AfterGenerate == IF IsBukhari(request.collection) THEN "rerank" ELSE "units"

GenerateWithoutIndex ==
  /\ step = "index"
  /\ Generate(<<>>)
  /\ warnings' = warnings \cup {IF engine = "off" THEN "hadith_topical_opensearch_not_configured"
                                ELSE "hadith_topical_opensearch_unavailable"}
  /\ step' = AfterGenerate
  /\ UNCHANGED <<engine, request, query, aliases, resolution, found, hits, result>>

GenerateWithIndex ==
  /\ step = "index" /\ engine = "on"
  /\ \E finds \in ScoredFinds(IndexedFor(query, request.collection)) : Generate(finds)
  /\ step' = AfterGenerate
  /\ UNCHANGED <<engine, request, query, aliases, resolution, found, hits, warnings, result>>

\* units of the artifact, and of the index unless it is off or fails
UnitFinds(units) ==
  UNION {{[i \in DOMAIN r |-> [unit |-> r[i], score |-> s[i]]] : s \in [DOMAIN r -> EngineScores]} :
           r \in Rankings(units, SearchSize)}
RetrieveUnits ==
  /\ step = "units"
  /\ \E finds \in {<<>>} \cup IF engine = "on" THEN UnitFinds(IndexedUnits(query, request.collection))
                              ELSE {} :
       pool' = BestUnits(ArtifactCandidates(query, ArtifactUnits(query, request.collection))
                         \o IndexUnitCandidates(query, finds)) \o pool
  /\ step' = "rerank"
  /\ UNCHANGED <<engine, request, query, aliases, resolution, found, hits, warnings, result>>

RetrievePassages ==
  /\ step = "passages"
  /\ pool' = ThematicPassages(query, aliases, hits)
  /\ warnings' = warnings \cup {"hadith_topic_family_thematic_passage_selected"}
                          \cup IF pool' = <<>> THEN {"no_family_aligned_thematic_passages"} ELSE {}
  /\ step' = "rerank"
  /\ UNCHANGED <<engine, request, query, aliases, resolution, found, hits, result>>

-----------------------------------------------------------------------------
Rerank ==
  /\ step = "rerank"
  /\ pool' = Ranked(query, Weights(query), Reranked(query, pool))
  /\ step' = "select"
  /\ UNCHANGED <<engine, request, query, aliases, resolution, found, hits, warnings, result>>

Abstained(reason) == [selected |-> <<>>, abstain |-> TRUE, reason |-> reason]

Select ==
  /\ step = "select"
  /\ \E chosen \in {Selected(query, pool)} :
       /\ result' = IF chosen = <<>> THEN Abstained("insufficient_ranked_evidence")
                    ELSE [NoResult EXCEPT !.selected = chosen]
       /\ warnings' = warnings \cup
            CASE chosen = <<>> -> {"no_ranked_candidate_passed_thresholds"}
              [] chosen # <<>> /\ Len(pool) > Len(chosen) -> {"additional_hadith_matches_available"}
              [] OTHER -> {}
  /\ step' = "gate"
  /\ UNCHANGED <<engine, request, query, aliases, resolution, found, hits, pool>>

Gate ==
  /\ step = "gate"
  /\ \E left \in {Gated(query, result.selected)} :
       /\ result' = CASE result.abstain -> result
                      [] ~ result.abstain /\ left # <<>> -> [result EXCEPT !.selected = left]
                      [] OTHER -> Abstained("topical_evidence_gate_failed")
       /\ warnings' = warnings \cup
            (IF ~ result.abstain /\ left = <<>> THEN {"all_candidates_failed_evidence_gate"} ELSE {})
            \cup (IF /\ \E i \in DOMAIN left : left[i].unit # Nothing
                     /\ ~ IsBukhari(request.collection) /\ ~ Thematic(query)
                  THEN {"guidance_unit_candidates_available"} ELSE {})
  /\ step' = "done"
  /\ UNCHANGED <<engine, request, query, aliases, resolution, found, hits, pool>>

SearchNext ==
  \/ Normalize \/ Resolve \/ FetchStrict \/ FetchRelaxed \/ BuildBukhari
  \/ LoadLexical \/ GenerateWithoutIndex \/ GenerateWithIndex \/ RetrieveUnits \/ RetrievePassages
  \/ Rerank \/ Select \/ Gate

SearchSpec == SearchInit /\ [][SearchNext]_searchVars

-----------------------------------------------------------------------------
(* Properties.                                                               *)
AskedTokens == Significant(AskedText(query))
\* what a candidate is about, read in what it was built from
RecordConcerns(d) ==
  \/ Range(query.topics) \cap d.primary # {}
  \/ AskedTokens \cap {Canonical(w) : w \in Range(d.matn) \cup VocabularyWords(d) \cup Range(d.label)} # {}
UnitConcerns(u) ==
  \/ Range(query.topics) \cap (u.central \cup u.secondary) # {}
  \/ AskedTokens \cap Range(Tokens(u.span \o u.summary)) # {}
EntryConcerns(e) ==
  \/ Range(query.topics) \cap EnrichedDocument(e).tags # {}
  \/ AskedTokens \cap Range(Tokens(SearchText(e))) # {}
Concerns(c) ==
  CASE c.origin = "bukhari" -> \E d \in Records : d.ref = c.ref /\ RecordConcerns(d)
    [] c.unit # Nothing -> \E u \in Range(Units) : u.id = c.unit /\ UnitConcerns(u)
    [] OTHER -> \E e \in Range(Entries) : e.ref = c.ref /\ EntryConcerns(e)

(* What is answered with is about what was asked: every selected hadith       *)
(* carries a topic of the query or a word of it.  Thresholds, the alignment   *)
(* with the topics and, for finds without the topic filter, the anchor gate   *)
(* see to it on every path (result_selector.py:286, candidate_generation.py:  *)
(* 1124), for finds of the index when a topic was resolved.                   *)
SelectedOnTopic ==
  \A i \in DOMAIN result.selected :
    result.selected[i].origin # "bukhari" \/ resolution.primary # Nothing
      => Concerns(result.selected[i])

\* whatever is selected is central enough for the gate
SelectionIsStrict == Thresholds(query)[2] >= 420000

(* A question whose topic is sure is answered when the pool holds a saying of *)
(* the Prophet under that topic that is central to it, whatever the engine    *)
(* ranked it, however the question was put, however few finds there are and   *)
(* whatever else there is: the scores of candidate_generation.py:560 clear    *)
(* every threshold of result_selector.py:269.  Where a selection is more      *)
(* lenient than the gate (events and rites), others can take every place of   *)
(* it and fail at the gate.                                                   *)
StrongTopicIsAnswered ==
  (/\ step = "done" /\ resolution.primary # Nothing /\ SelectionIsStrict
   /\ \E h \in Range(pool) : /\ resolution.primary \in h.c.topics
                             /\ h.c.prophetic /\ h.c.central >= 800000)
    => ~ result.abstain

(* "Apply the word-boundary anchor gate - records without any literal         *)
(* query-token match ... get central_topic_score=0.0, which fails the         *)
(* selector threshold downstream. This is the hard fix for narrator           *)
(* collisions ... and vector hallucinations" (candidate_generation.py:902):   *)
(* no record of the index is selected that neither is of the resolved topic   *)
(* nor holds a word of the query.                                             *)
VectorGuessesFail ==
  \A i \in DOMAIN result.selected : \A d \in Records :
    result.selected[i].origin = "bukhari" /\ d.ref = result.selected[i].ref
      => Hits(resolution, d) \/ HasAnchor(resolution.tokens, d)
=============================================================================
