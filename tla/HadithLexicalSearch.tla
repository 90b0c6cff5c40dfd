------------------------- MODULE HadithLexicalSearch -------------------------
(* The lexical search over the stored hadith: full text search finds the      *)
(* rows, a score over their fields orders them.  An entry is [ref, source,    *)
(* enabled, display, book, chapter, narrator, body]; ref is also its number.  *)
EXTENDS TopicalText

CONSTANTS
  Entries,     \* the sequence of stored entries
  RankOf(_)    \* ts_rank_cd of an entry with so many query words in it

\* concept_phrases_for_tokens: phrases that stand for a concept
ConceptPhrases(tokens) ==
  UNION {CASE t = "anger" -> {<<"do", "not", "get", "angry">>}
           [] t = "rizq" -> {<<"sustenance">>, <<"livelihood">>, <<"provision">>}
           [] OTHER -> {} : t \in tokens}

FirstPosition(tokens, words) ==
  Min({i - 1 : i \in {j \in DOMAIN words : words[j] \in tokens}})

(* A field: its direct hits, its synonyms, near spellings, the whole query as *)
(* a phrase, and how often, how densely and how early the tokens stand in it. *)
FieldScore(query, field, percent, fuzzy) ==
  LET tokens == Range(Tokens(query))
      words == Tokens(field)
      direct == tokens \cap Range(words)
      synonyms == (Expanded(tokens) \ tokens) \cap Range(words)
      occurring == Len(SelectSeq(words, LAMBDA w : w \in tokens))
      near == {t \in tokens \ direct : ClosestWord({t}, Range(words)) >= 450000}
  IN  IF field = <<>> THEN 0
      ELSE Pct(percent,
             Share(6 * Cardinality(direct) + 4 * Cardinality(synonyms), Cardinality(tokens))
             + (IF fuzzy THEN FoldSet(LAMBDA t, n : n + ClosestWord({t}, Range(words)), 0, near)
                ELSE 0)
             + (IF Mentions(field, query) THEN 3 * Unit ELSE 0)
             + (IF occurring = 0 THEN 0
                ELSE 700000 * AtMost(3, occurring)
                     + AtMost(3 * Unit, Share(40 * occurring, Len(words)))
                     + AtLeast(0, 1500000 - 50000 * FirstPosition(tokens, words))))

Body(e) == e.narrator \o e.body
Occurring(query, e) ==
  Len(SelectSeq(Tokens(Body(e)), LAMBDA w : w \in Range(Tokens(query))))

PhraseHits(query, e) ==
  {p \in ConceptPhrases(Range(Tokens(query))) : Mentions(Body(e), p)}
PhraseScore(hits) ==
  FoldSet(LAMBDA p, n : n + IF Len(p) > 1 THEN 4500000 ELSE 1500000, 0, hits)

IncidentalAnger == {<<"anger", "on", "his", "face">>, <<"in", "an", "angry", "mood">>}
AngerScore(query, e, hits) ==
  IF "anger" \notin Range(Tokens(query)) THEN 0
  ELSE (IF Mentions(Body(e), <<"do", "not", "get", "angry">>) THEN 8 * Unit ELSE 0)
       - (IF MentionsAny(Body(e), IncidentalAnger) THEN 4 * Unit ELSE 0)
       - (IF /\ Occurring(query, e) <= 1
             /\ hits = {}
             /\ ~ Mentions(e.book \o e.chapter, <<"anger">>)
          THEN 2500000 ELSE 0)

RizqScore(query, e) ==
  IF "rizq" \notin Range(Tokens(query)) THEN 0
  ELSE 1200000 * Cardinality({w \in {"sustenance", "livelihood", "provision", "provided"} :
                                w \in Range(Body(e))})
       + (IF Mentions(Body(e), <<"good", "relations", "with", "kin">>) THEN 2500000 ELSE 0)

\* short bodies are preferred, long ones with few occurrences put back
BodyLengthScore(query, e) ==
  LET n == Length(Body(e))
      m == Occurring(query, e)
  IN  CASE m = 0 -> 0
        [] m > 0 /\ n <= 25 -> 2 * Unit
        [] m > 0 /\ n > 25 /\ n <= 50 -> Unit
        [] m = 1 /\ n > 80 -> - AtMost(4 * Unit, Share(n - 80, 25))
        [] m = 2 /\ n > 140 -> - AtMost(2500000, Share(n - 140, 40))
        [] OTHER -> 0

ScoreHadithRow(query, e) ==
  AtLeast(0,
    FieldScore(query, e.display, 40, TRUE) + FieldScore(query, e.book, 120, TRUE)
    + FieldScore(query, e.chapter, 220, TRUE) + FieldScore(query, Body(e), 120, FALSE)
    + PhraseScore(PhraseHits(query, e)) + AngerScore(query, e, PhraseHits(query, e))
    + RizqScore(query, e) + BodyLengthScore(query, e))

MatchedTerms(query, e) ==
  Expanded(Range(Tokens(query)))
    \cap Range(Tokens(e.display \o e.book \o e.chapter \o Body(e)))

-----------------------------------------------------------------------------
SearchText(e) == e.display \o e.book \o e.chapter \o Body(e)
QueryWordsIn(query, e) ==
  Cardinality(Expanded(Range(Tokens(query))) \cap Range(SearchText(e)))

\* any word of the query finds a row; when none does, every row is scored
FetchCandidates(query, collection) ==
  LET rows == SelectSeq(Entries, LAMBDA e : e.enabled /\ collection \in {"", e.source})
      matched == SelectSeq(rows, LAMBDA e : QueryWordsIn(query, e) > 0)
  IN  IF matched # <<>> THEN matched ELSE rows

Hit(query, e) ==
  [entry |-> e, score |-> ScoreHadithRow(query, e), rank |-> RankOf(QueryWordsIn(query, e)),
   terms |-> MatchedTerms(query, e)]

LexicalHits(query, collection, limit) ==
  LET hits == [i \in DOMAIN FetchCandidates(query, collection) |->
                 Hit(query, FetchCandidates(query, collection)[i])]
  IN  IF query = <<>> THEN <<>>
      ELSE Top(limit, By(LAMBDA h : <<- h.score, - h.rank, h.entry.ref>>,
                         SelectSeq(hits, LAMBDA h : h.score > 0)))
=============================================================================
