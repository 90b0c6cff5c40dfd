--------------------------- MODULE TopicalCandidates ---------------------------
(* The index of Bukhari records with the search in it, and the candidates     *)
(* for the answer, built from what each retrieval found: records of that      *)
(* index, hits of the lexical search and documents of the enriched index.     *)
(*                                                                            *)
(* A record is [ref, stub, matn, vocabulary, label, kitab, prophetic, primary,*)
(* secondary, density, family].  The engine's relevance and the distance of   *)
(* embeddings are not computed: any order of the eligible records may be      *)
(* returned.  A candidate keeps of its metadata what is read later.           *)
EXTENDS TopicResolver, HadithEnricher, HadithLexicalSearch

CONSTANTS
  Records,      \* the indexed records
  SearchSize,   \* results asked of the index
  WideSize,     \* results asked when the question is how something was done
  PoolLimit,    \* candidates kept
  WidePool      \* candidates kept when the question is how something was done

ASSUME RecordsAssumption ==
  /\ IsFiniteSet(Records)
  /\ \A d \in Records : IsList(d.matn) /\ IsList(d.label) /\ d.density \in 0 .. Unit
ASSUME SearchSizeAssumption ==
  SearchSize \in Nat /\ WideSize \in Nat /\ PoolLimit \in Nat /\ WidePool \in Nat

-----------------------------------------------------------------------------
(* normalise_family: the families of records and what stands for them.       *)
FamilyOf == [
  akhlaq |-> {"akhlaq", "adab", "moral_guidance", "character", "virtue"},
  ritual |-> {"ritual", "ritual_practice", "ibadah", "salah", "sawm", "zakat", "hajj"},
  fiqh |-> {"fiqh", "halal_haram", "legal", "marriage_divorce", "zina", "hudood", "punishment",
            "hadd", "riba", "trade", "contract", "inheritance"},
  historical |-> {"historical", "seerah", "narrative_event"},
  eschatology |-> {"eschatology", "entity_eschatology", "fitan", "end_times", "judgement",
                   "resurrection", "akhirah"},
  aqeedah |-> {"aqeedah", "belief", "tawhid"},
  quran |-> {"quran", "tafsir"},
  foundational |-> {"foundational", "usul"}]
NormaliseFamily(family) ==
  IF \E f \in DOMAIN FamilyOf : family \in FamilyOf[f]
  THEN CHOOSE f \in DOMAIN FamilyOf : family \in FamilyOf[f]
  ELSE Nothing

-----------------------------------------------------------------------------
(* _build_filter_clauses.  A sure topic is the only filter when it is         *)
(* enforced; without it the family of the query filters, when it has one.     *)
EnforcesTopic(resolution, enforce) == enforce /\ resolution.primary # Nothing
HasFilter(resolution, family, enforce) ==
  EnforcesTopic(resolution, enforce) \/ NormaliseFamily(family) # Nothing
Admitted(d, resolution, family, enforce) ==
  /\ ~ d.stub
  /\ EnforcesTopic(resolution, enforce) => resolution.primary \in d.primary
  /\ (~ EnforcesTopic(resolution, enforce) /\ NormaliseFamily(family) # Nothing)
       => d.family = NormaliseFamily(family)

\* _build_should_clauses: the clauses that make a record match at all
AllTokensIn(resolution, words) == Range(resolution.tokens) \subseteq words
VocabularyWords(d) == UNION {Range(v) : v \in d.vocabulary}
BoostedTopics(resolution) ==
  Range(First(3, resolution.secondary))
    \cup {resolution.confident[i] : i \in 2 .. Min({3, Len(resolution.confident)})}
ShapeClause(d, shape) ==
  \/ shape = "procedural_descriptive" /\ ~ d.prophetic
  \/ shape = "prophetic_teaching" /\ d.prophetic
Matches(d, resolution, shape) ==
  \/ resolution.tokens = <<>>
  \/ \E words \in {VocabularyWords(d), Range(d.label), Range(d.matn)} : AllTokensIn(resolution, words)
  \/ BoostedTopics(resolution) \cap d.secondary # {}
  \/ ShapeClause(d, shape)

\* the clauses only rank the records that a filter has admitted
BM25Eligible(resolution, family, enforce, shape) ==
  {d \in Records : /\ Admitted(d, resolution, family, enforce)
                   /\ HasFilter(resolution, family, enforce) \/ Matches(d, resolution, shape)}
KnnEligible(resolution, family, enforce) ==
  {d \in Records : Admitted(d, resolution, family, enforce)}

\* any ranking of as many eligible records as were asked for
Rankings(eligible, size) ==
  {r \in [1 .. Min({size, Cardinality(eligible)}) -> eligible] :
     \A i, j \in DOMAIN r : r[i] = r[j] => i = j}

SizeFor(resolution, shape) ==
  IF resolution.primary # Nothing /\ shape = "procedural_descriptive"
  THEN Max({SearchSize, WideSize}) ELSE SearchSize

-----------------------------------------------------------------------------
(* _rrf_combine: reciprocal ranks added over both rankings, each of which has *)
(* a record once.                                                            *)
RankScore(d, hits) ==
  IF d \in Range(hits) THEN Share(1, 60 + CHOOSE i \in DOMAIN hits : hits[i] = d) ELSE 0
Combined(bm25, knn, strict) ==
  LET docs == Distinct(bm25 \o knn)
  IN  By(LAMBDA f : <<- f.score>>,
         [i \in DOMAIN docs |->
            [doc |-> docs[i], score |-> RankScore(docs[i], bm25) + RankScore(docs[i], knn),
             strict |-> strict]])

-----------------------------------------------------------------------------
(* _candidate_from_bukhari_v2_hit                                            *)
\* _has_word_boundary_anchor: a word of the query in the body, the vocabulary
\* or the chapter heading, never in the narrator
HasAnchor(tokens, d) ==
  tokens = <<>> \/ Range(tokens) \cap (Range(d.matn) \cup VocabularyWords(d) \cup Range(d.label)) # {}

(* Mutant: records found without the topic filter are trusted as well.       *)
MutAnchoredTrusting(resolution, f) == TRUE

\* a record found under the topic filter is trusted, any other needs an anchor
Anchored(resolution, f) == f.strict \/ HasAnchor(resolution.tokens, f.doc)

Hits(resolution, d) == resolution.primary # Nothing /\ resolution.primary \in d.primary

V2Answerability(hit, prophetic) ==
  IF hit THEN IF prophetic THEN 900000 ELSE 840000
  ELSE IF prophetic THEN 800000 ELSE 700000
V2Specificity(hit, prophetic) ==
  IF hit THEN IF prophetic THEN 50000 ELSE 150000
  ELSE IF prophetic THEN 100000 ELSE 300000
BuilderRank(resolution, d) ==
  CASE Hits(resolution, d) -> Unit
    [] ~ Hits(resolution, d) /\ Range(resolution.confident) \cap d.primary # {} -> 700000
    [] OTHER -> 300000

ProphetFamilies == {"akhlaq", "foundational", "aqeedah", "eschatology"}
BoostedScore(f) ==
  IF f.doc.prophetic /\ f.doc.family \in ProphetFamilies THEN Pct(130, f.score) ELSE f.score

CandidateOf(resolution, d, score, anchored) ==
  LET hit == anchored /\ Hits(resolution, d)
  IN  [ref |-> d.ref, source |-> "hadith:bukhari", origin |-> "bukhari",
       fusion |-> score, rerank |-> 0,
       central |-> IF anchored THEN d.density ELSE 0,
       answerability |-> IF anchored THEN V2Answerability(hit, d.prophetic) ELSE 250000,
       specificity |-> V2Specificity(hit, d.prophetic),
       incidental |-> IF anchored THEN 0 ELSE Unit,
       role |-> IF d.prophetic THEN "direct_moral_instruction" ELSE "narrative_incident",
       family |-> d.family, topics |-> d.primary, terms |-> VocabularyWords(d),
       chapter |-> d.label, summary |-> d.matn, text |-> d.matn, prophetic |-> d.prophetic,
       builder |-> IF anchored THEN BuilderRank(resolution, d) ELSE 0,
       unit |-> Nothing, passage |-> FALSE]

\* the order that the final sort leaves: records of the asked shape first
ShapePriority(resolution, shape, c) ==
  IF \/ resolution.primary = Nothing
     \/ shape \notin {"procedural_descriptive", "prophetic_teaching"}
     \/ c.prophetic = (shape = "prophetic_teaching")
  THEN 0 ELSE 1

PoolSize(resolution, shape) ==
  IF resolution.primary # Nothing /\ shape = "procedural_descriptive"
  THEN Max({PoolLimit, WidePool}) ELSE PoolLimit

\* found is a sequence of [doc, score, strict]
BukhariPool(resolution, shape, found) ==
  Top(PoolSize(resolution, shape),
      By(LAMBDA c : <<ShapePriority(resolution, shape, c), - c.fusion, - c.central,
                      - c.answerability, c.ref>>,
         [i \in DOMAIN found |->
            CandidateOf(resolution, found[i].doc, BoostedScore(found[i]),
                        Anchored(resolution, found[i]))]))

-----------------------------------------------------------------------------
(* candidate_from_lexical_hit and _candidate_from_opensearch_source.  The     *)
(* enriched index holds what build_enriched_document derives.                 *)
EnrichedCandidate(topics, e, doc, terms, score, origin) ==
  LET shared == Range(topics) \cap doc.tags
  IN  [ref |-> e.ref, source |-> e.source, origin |-> origin, fusion |-> score, rerank |-> 0,
       central |-> doc.central, answerability |-> doc.answerability,
       specificity |-> doc.specificity, incidental |-> IncidentalPenalty(doc.flags),
       role |-> doc.role, family |-> doc.family, topics |-> shared, terms |-> terms \cup shared,
       chapter |-> e.chapter, summary |-> doc.summary, text |-> e.body, prophetic |-> FALSE,
       builder |-> 0, unit |-> Nothing, passage |-> FALSE]

LexicalCandidates(topics, hits) ==
  [i \in DOMAIN hits |->
     EnrichedCandidate(topics, hits[i].entry, EnrichedDocument(hits[i].entry), hits[i].terms,
                       hits[i].rank, "lexical_db_fallback")]

\* build_hadith_topical_bm25_query: of the collection, not in passing, and
\* matched by a word, a topic, the family or a bias
IndexMatches(query, e, doc) ==
  \/ Range(query.text) \cap Range(SearchText(e)) # {}
  \/ Range(query.topics) \cap doc.tags # {}
  \/ doc.family # Nothing /\ doc.family = query.family
  \/ query.biases \cap DirectiveLabels(Instruction(e)) # {}
IndexedFor(query, collection) ==
  {e \in Range(Entries) :
     /\ collection \in {"", e.source}
     /\ "incidental_mention_risk" \notin EnrichedDocument(e).flags
     /\ IndexMatches(query, e, EnrichedDocument(e))}

\* found is a sequence of [entry, score]; the matched aliases stand for their tags
IndexCandidates(topics, found) ==
  [i \in DOMAIN found |->
     EnrichedCandidate(topics, found[i].entry, EnrichedDocument(found[i].entry),
                       EnrichedDocument(found[i].entry).tags, found[i].score, "opensearch_bm25")]

\* _dedupe_candidates: the better of two with a reference, the earlier of equals
BestOfEach(candidates) ==
  SelectSeq(candidates, LAMBDA c :
    \A d \in Range(candidates) : d.ref = c.ref => d.fusion <= c.fusion)
FirstOf(Key(_), candidates) ==
  FoldLeft(LAMBDA kept, c : IF \E k \in Range(kept) : Key(k) = Key(c) THEN kept
                            ELSE Append(kept, c),
           <<>>, candidates)

GeneratedPool(candidates) ==
  Top(PoolLimit,
      By(LAMBDA c : <<- c.fusion, - c.answerability, - c.central, c.incidental, c.specificity, c.ref>>,
         FirstOf(LAMBDA c : c.ref, BestOfEach(candidates))))

-----------------------------------------------------------------------------
\* _merge_candidate_with_lexical_context, for candidates that have all scores:
\* topics that were not matched are taken from the matched terms
WithLexicalContext(query, hits, c) ==
  LET ofRef == {h \in Range(hits) : h.entry.ref = c.ref}
      terms == IF c.terms # {} \/ ofRef = {} THEN c.terms
               ELSE (CHOOSE h \in ofRef : TRUE).terms
  IN  IF ofRef = {} THEN c
      ELSE [c EXCEPT !.terms = terms,
                     !.topics = IF c.topics # {} THEN c.topics ELSE Range(query.topics) \cap terms]
=============================================================================
