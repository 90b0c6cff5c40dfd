-------------------------- MODULE MatchCollections --------------------------
(* The texts that a verification lists beside its best match: the other       *)
(* places where the query stands exactly, and at most a few strong matches.   *)
(* What is listed is told apart by its citation.                              *)
EXTENDS SpanIndex, VerifierLanes

CONSTANTS
  Edits(_, _),      \* the letters by which two tokens differ
  StaticSizes,      \* the sizes of the stored windows, in ascending order
  NeighbourLimit,   \* how many neighbours of a window are stored
  MinSharedTokens   \* how many tokens a neighbour has in common
ASSUME WindowsAssumption == StaticSizes \in Seq(Nat) /\ NeighbourLimit \in Nat

WindowRows(corpus, s, size) ==
  [a \in 1 .. Max({0, Len(corpus[s]) - size + 1}) |-> Span(corpus, s, a, a + size - 1)]
PassageRows(corpus) ==
  FlattenSeq([s \in DOMAIN corpus |->
    FlattenSeq([i \in DOMAIN StaticSizes |-> WindowRows(corpus, s, StaticSizes[i])])])

-----------------------------------------------------------------------------
ExactAyahs(query, corpus) ==
  LET rows == ExactRows(query, AyahRows(corpus))
  IN  FirstOfEach([i \in DOMAIN rows |-> Candidate(query, rows[i])])

\* the stored windows, then the other runs of the span index; contiguous spans
\* are listed before stored windows, the better score first
ExactPassages(query, corpus) ==
  LET stored  == ExactRows(query, PassageRows(corpus))
      indexed == ExactSpans(query, corpus, 2, Cardinality(DOMAIN corpus) * 100, <<>>)
      key(c)  == <<UnitRank(PassageUnit(c.row, c.engine)),
                   IF c.engine = "static_exact_window" THEN 0 ELSE c.score,
                   - c.row.surah, - c.row.first, - c.row.last>>
      once    == FirstOfEach(Candidates(query, stored, "static_exact_window") \o indexed)
  IN  SortedBy(once, [i \in DOMAIN once |-> key(once[i])])

-----------------------------------------------------------------------------
Strong(query, c) ==
  MatchStatus(query, c) \in {Exact, Close} /\ c.score >= 1900 /\ c.coverage >= 50
Backfill(c) == c.score >= 1900 /\ c.coverage >= 65
CrossLane(c) == c.score >= 1500 /\ c.coverage >= 50

Without(text, i) == SubSeq(text, 1, i - 1) \o SubSeq(text, i + 1, Len(text))

\* texts that differ in one token, by two letters at most, or in one token more
NearlyIdentical(anchor, text) ==
  LET differ == {i \in DOMAIN anchor \cap DOMAIN text : anchor[i] # text[i]}
      longer(a, b) == Len(a) = Len(b) + 1
                      /\ \E i \in DOMAIN a : Without(a, i) = b /\ Letters(a[i]) + 1 <= 3
  IN  /\ Len(anchor) >= 4
      /\ \/ /\ Len(anchor) = Len(text)
            /\ Cardinality(differ) = 1
            /\ \A i \in differ : Edits(anchor[i], text[i]) <= 2
         \/ longer(anchor, text) \/ longer(text, anchor)

StrongAyahs(query, cands, exclude, best, bestIsAyah) ==
  LET new     == Fresh(cands, exclude)
      sibling == {i \in new : bestIsAyah /\ NearlyIdentical(best.row.text, cands[i].row.text)}
      first   == Pass(<<>>, cands, {i \in new : Strong(query, cands[i])}, FALSE)
  IN  IF Len(first) >= 3 THEN first
      ELSE Pass(Pass(first, cands, sibling, FALSE), cands,
                {i \in new : Backfill(cands[i])}, FALSE)

CrossLaneAyahs(cands, exclude, blocked) ==
  Pass(<<>>, cands, {i \in Fresh(cands, exclude) :
                       /\ CrossLane(cands[i])
                       /\ <<cands[i].row.surah, cands[i].row.first>> \notin blocked}, FALSE)

-----------------------------------------------------------------------------
\* a passage is listed beside others only if it shares no ayah with them
Listable(cands, exclude, anchors) ==
  {i \in Fresh(cands, exclude) :
     \A row \in anchors : row.kind = "passage" => ~ Overlap(cands[i].row, row)}
Firm(c) == PassageUnit(c.row, c.engine) \in {"static_window", "contiguous_span"}

StrongPassages(query, cands, exclude, anchors) ==
  LET new   == Listable(cands, exclude, anchors)
      first == Pass(<<>>, cands, {i \in new :
                 /\ Strong(query, cands[i])
                 /\ PassageUnit(cands[i].row, cands[i].engine) # "heuristic_expansion"}, TRUE)
  IN  IF Len(first) >= 3 THEN first
      ELSE Pass(first, cands, {i \in new : Backfill(cands[i]) /\ Firm(cands[i])}, TRUE)

\* how many tokens of the query a text lacks, counted with repetitions
Missing(tokens, text) ==
  LET count(t, seq) == Cardinality({i \in DOMAIN seq : seq[i] = t})
      less(t) == Max({0, count(t, tokens) - count(t, text)})
  IN  FoldSet(LAMBDA t, n : n + less(t), 0, ToSet(tokens))

RelaxedParallel(query, c) ==
  /\ Len(query.text) >= 6
  /\ Min({Missing(View(m, query.text), View(m, c.row.text)) : m \in Modes}) <= 4
  /\ c.coverage >= 50

Parallel(best, row) == row.surah # best.row.surah /\ WindowSize(row) = WindowSize(best.row)

\* The neighbours of a window that are stored beside the corpus: windows of its
\* size in other surahs, those with the most common tokens first.  The
\* preselection by rarest tokens is left out.
Common(row, other) == Cardinality(ToSet(row.text) \cap ToSet(other.text))
NeighbourKey(row, other) ==
  <<10 * Common(row, other) + Coverage(row.text, other.text)
      + (100 * Common(row, other)) \div Cardinality(ToSet(row.text) \cup ToSet(other.text)),
    Common(row, other)>>
NeighboursOf(best, corpus) ==
  LET rows == PassageRows(corpus)
      near == Kept(rows, {i \in DOMAIN rows : /\ Parallel(best, rows[i])
                                              /\ Common(best.row, rows[i]) >= MinSharedTokens})
  IN  Upto(NeighbourLimit, SortedBy(near, [i \in DOMAIN near |-> NeighbourKey(best.row, near[i])]))

ParallelFromIndex(query, corpus, best, exclude, anchors) ==
  LET rows  == IF WindowSize(best.row) \in ToSet(StaticSizes) THEN NeighboursOf(best, corpus) ELSE <<>>
      cands == [i \in DOMAIN rows |-> Candidate(query, rows[i])]
  IN  Pass(<<>>, cands, {i \in Listable(cands, exclude, anchors) :
             Parallel(best, cands[i].row) /\ RelaxedParallel(query, cands[i])}, TRUE)

SkipsScan(query, best) ==
  Len(query.text) >= 20 \/ Len(best.row.text) >= 25 \/ best.length_ratio <= 35

\* scored against the best match, or failing that against the query
ParallelFromBest(query, corpus, best, exclude, anchors) ==
  LET asQuery == [query EXCEPT !.text = best.row.text, !.pointed = TRUE]
      near(c) == c.score >= 1900 /\ c.coverage >= 40
      rows    == PassageRows(corpus)
      scored(r) == IF near(Candidate(asQuery, r)) THEN Candidate(asQuery, r)
                   ELSE Candidate(query, r)
      cands   == [i \in DOMAIN rows |-> scored(rows[i])]
  IN  IF best.engine \notin {"none", "static_exact_window", "static_window"} THEN <<>>
      ELSE Pass(<<>>, cands, {i \in Listable(cands, exclude, anchors) :
                  /\ Parallel(best, rows[i])
                  /\ near(Candidate(asQuery, rows[i])) \/ RelaxedParallel(query, cands[i])}, TRUE)

Parallels(query, corpus, best, exclude, anchors, indexed) ==
  IF indexed THEN ParallelFromIndex(query, corpus, best, exclude, anchors)
  ELSE IF SkipsScan(query, best) THEN <<>>
  ELSE ParallelFromBest(query, corpus, best, exclude, anchors)

-----------------------------------------------------------------------------
(* Mutant: the best match stays among the exact ones. *)
AllOf(items, best) == items

NotBest(items, best) ==
  Kept(items, Fresh(items, CitationOf(best)))

ListedAyahs(query, cands, best, raw) ==
  [exact  |-> NotBest(raw, best),
   strong |-> StrongAyahs(query, cands, Cited(raw) \cup CitationOf(best), best,
                          CitationOf(best) \cap Cited(raw) # {})]

\* the candidates beside an ayah that is unique in the corpus, if they were sought
AyatBeside(evaluation) ==
  IF evaluation.related # None THEN evaluation.related ELSE evaluation.ayahs

AyahCollections(query, evaluation) ==
  ListedAyahs(query, AyatBeside(evaluation), evaluation.fusion.preferred.best,
              ExactAyahs(query, evaluation.corpus))

\* strong passages; without any, parallels of the best match; without those,
\* ayat that are no part of what is listed
NearPassages(query, evaluation, strong, best, exclude, anchors, indexed) ==
  IF strong # <<>> \/ best = None THEN strong
  ELSE Parallels(query, evaluation.corpus, best, exclude, anchors, indexed)

PassageStrong(query, evaluation, best, exclude, anchors, indexed) ==
  FirstNonEmpty(
    NearPassages(query, evaluation, StrongPassages(query, evaluation.passages, exclude, anchors),
                 best, exclude, anchors, indexed),
    CrossLaneAyahs(AyatBeside(evaluation), exclude, UNION {Components(r) : r \in anchors}))

ListedPassages(query, evaluation, best, exact, indexed) ==
  [exact  |-> exact,
   strong |-> PassageStrong(query, evaluation, best, Cited(exact) \cup CitationOf(best),
                (IF best = None THEN {} ELSE {best.row}) \cup {exact[i].row : i \in DOMAIN exact},
                indexed)]

PassageCollections(query, evaluation, indexed) ==
  ListedPassages(query, evaluation, evaluation.fusion.preferred.best,
    NotBest(ExactPassages(query, evaluation.corpus), evaluation.fusion.preferred.best), indexed)
=============================================================================
