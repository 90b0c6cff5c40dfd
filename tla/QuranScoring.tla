---------------------------- MODULE QuranScoring ----------------------------
(* What the verifier compares: a text is the sequence of its tokens, light    *)
(* normalisation is the identity on it and aggressive normalisation folds     *)
(* each token (the letters that it unifies).  A row of the corpus is one ayah *)
(* or a run of ayat of one surah.  A candidate is a row with the measures of  *)
(* quran_scoring.py; scores are in hundredths, measures in percent.           *)
EXTENDS Integers, Sequences, FiniteSets, SequencesExt, FiniteSetsExt

CONSTANTS
  Aggressive(_),   \* a token as aggressive normalisation leaves it
  Letters(_),      \* the number of letters of a token
  Parts(_, _),     \* where the letters of a token stand in those of another
                   \* one: a set of "start", "middle", "end"
  ShortlistLimit,  \* how many rows a shortlist keeps
  EnoughRows       \* and with how many the q-grams are not needed
ASSUME ShortlistLimitAssumption == ShortlistLimit \in Nat

Modes == {"light", "aggressive"}
View(mode, text) ==
  IF mode = "light" THEN text ELSE [i \in DOMAIN text |-> Aggressive(text[i])]

Chars(text) ==
  IF text = <<>> THEN 0
  ELSE FoldSeq(LAMBDA t, n : n + Letters(t) + 1, -1, text)

Occurrences(needle, text) ==
  {i \in 1 .. Len(text) - Len(needle) + 1 :
     SubSeq(text, i, i + Len(needle) - 1) = needle}

\* Characters are found in characters: token for token, but what stands before
\* the first and after the last token may be more letters of the same word.
Cut(i, n) ==
  CASE n = 1 -> {"start", "middle", "end"} [] i = 1 -> {"end"} [] i = n -> {"start"} [] OTHER -> {}
PieceAt(p, needle, text) ==
  /\ p + Len(needle) - 1 <= Len(text)
  /\ \A i \in DOMAIN needle :
       \/ text[p + i - 1] = needle[i]
       \/ Parts(needle[i], text[p + i - 1]) \cap Cut(i, Len(needle)) # {}
Places(needle, text) == {p \in DOMAIN text : PieceAt(p, needle, text)}

PieceOf(needle, text) == needle # <<>> /\ Places(needle, text) # {}

Row(corpus, kind, s, first, last) ==
  [kind |-> kind, surah |-> s, first |-> first, last |-> last,
   text |-> FlattenSeq(SubSeq(corpus[s], first, last))]

AyahRows(corpus) ==
  FlattenSeq([s \in DOMAIN corpus |->
    [a \in DOMAIN corpus[s] |-> Row(corpus, "ayah", s, a, a)]])

WindowSize(row) == row.last - row.first + 1

\* rows are told apart by their citation, not by the text that they carry
Citation(row) == <<row.kind, row.surah, row.first, row.last>>

-----------------------------------------------------------------------------
Percent(b) == IF b THEN 100 ELSE 0

Coverage(query, text) ==
  IF query = <<>> THEN 0
  ELSE (100 * Cardinality(ToSet(query) \cap ToSet(text))) \div Cardinality(ToSet(query))

\* rapidfuzz's ratio and token_sort_ratio: twice what is shared over the sum
Alike(a, b) ==
  IF a = <<>> /\ b = <<>> THEN 100
  ELSE (200 * Cardinality(ToSet(a) \cap ToSet(b)))
         \div (Cardinality(ToSet(a)) + Cardinality(ToSet(b)))

\* rapidfuzz's token_set_ratio: complete when one set of tokens holds the other
SetAlike(a, b) ==
  IF (ToSet(a) \subseteq ToSet(b) \/ ToSet(b) \subseteq ToSet(a))
     /\ ToSet(a) \cap ToSet(b) # {}
  THEN 100 ELSE Alike(a, b)

\* rapidfuzz's partial_ratio: the shorter text against the windows of the longer
PartlyAlike(a, b) == IF PieceOf(a, b) \/ PieceOf(b, a) THEN 100 ELSE Alike(a, b)

LengthRatio(a, b) ==
  LET m == Max({Chars(a), 1})
      n == Max({Chars(b), 1})
  IN  (100 * Min({m, n})) \div Max({m, n})

TooShort(query, row) ==
  Chars(row.text) < Max({6, (35 * Chars(query.text)) \div 100}) /\ row.text # query.text

Measures(query, row) ==
  LET aggressive == View("aggressive", query.text)
      folded     == View("aggressive", row.text)
  IN  [row            |-> row,
       engine         |-> "none",
       exact_display  |-> query.pointed /\ query.text = row.text,
       exact_light    |-> query.text = row.text,
       exact_folded   |-> aggressive = folded,
       in_light       |-> PieceOf(query.text, row.text),
       in_folded      |-> PieceOf(aggressive, folded),
       coverage       |-> Max({Coverage(query.text, row.text), Coverage(aggressive, folded)}),
       set_score      |-> SetAlike(query.text, row.text),
       folded_score   |-> SetAlike(aggressive, folded),
       partial        |-> PartlyAlike(query.text, row.text),
       alike          |-> Alike(query.text, row.text),
       length_ratio   |-> LengthRatio(query.text, row.text),
       run            |-> 0,
       score          |-> 0]

Composite(m, penalty) ==
  Max({0,
       25 * Percent(m.exact_light) + 12 * Percent(m.exact_folded)
       + 8 * Percent(m.exact_display) + 18 * Percent(m.in_light)
       + 10 * Percent(m.in_folded) + 12 * m.coverage + 6 * m.set_score
       + 4 * m.folded_score + 4 * m.alike
       + (m.partial * m.length_ratio) \div 100
       - (IF penalty THEN 2500 ELSE 0)})

Scored(m, penalty) == [m EXCEPT !.score = Composite(m, penalty)]
Candidate(query, row) == Scored(Measures(query, row), TooShort(query, row))

\* the candidate of a span that was found token by token: full marks
FullMarks(query, row, engine) ==
  [Measures(query, row) EXCEPT
     !.engine = engine, !.in_light = TRUE, !.in_folded = TRUE, !.coverage = 100,
     !.set_score = 100, !.folded_score = 100, !.partial = 100, !.alike = 100,
     !.length_ratio = 100, !.score = 10000]

-----------------------------------------------------------------------------
\* what stands at these places of a sequence
Kept(seq, places) ==
  LET kept[n \in 0 .. Len(seq)] ==
        IF n = 0 THEN <<>>
        ELSE LET list == kept[n - 1]
             IN  IF n \in places THEN Append(list, seq[n]) ELSE list
  IN  kept[Len(seq)]

\* the numbers from 0 to n that are in a set
Ascending(S, n) == Kept([i \in 1 .. n + 1 |-> i - 1], {m + 1 : m \in S})

Distinct(seq) == Kept(seq, {i \in DOMAIN seq : \A j \in 1 .. i - 1 : seq[j] # seq[i]})

Upto(n, seq) == SubSeq(seq, 1, Min({n, Len(seq)}))

\* sequences of keys are compared from the left, as tuples are
Above(k, l) ==
  \E i \in DOMAIN k : k[i] > l[i] /\ \A j \in 1 .. i - 1 : k[j] = l[j]

\* a stable descending sort: an item goes behind those that it is not above
Inserted(list, item) ==
  LET n == Cardinality({i \in DOMAIN list : ~ Above(item.key, list[i].key)})
  IN  [i \in 1 .. Len(list) + 1 |->
         IF i <= n THEN list[i] ELSE IF i = n + 1 THEN item ELSE list[i - 1]]
SortedBy(cands, keys) ==
  LET sorted[n \in 0 .. Len(cands)] ==
        IF n = 0 THEN <<>> ELSE Inserted(sorted[n - 1], [cand |-> cands[n], key |-> keys[n]])
      list == sorted[Len(cands)]
  IN  [i \in DOMAIN list |-> list[i].cand]

RankKey(c) ==
  <<c.score, Percent(c.exact_light), Percent(c.exact_folded), Percent(c.in_light),
    Percent(c.in_folded), c.coverage, c.run>>
Ranked(cands, k) == Upto(k, SortedBy(cands, [i \in DOMAIN cands |-> RankKey(cands[i])]))

BestMatches(query, rows, k) ==
  Ranked([i \in DOMAIN rows |-> Candidate(query, rows[i])], k)

Cited(items) == {Citation(items[i].row) : i \in DOMAIN items}

\* the first candidate of every citation
FirstOfEach(cands) ==
  LET first[n \in 0 .. Len(cands)] ==
        IF n = 0 THEN <<>>
        ELSE LET list == first[n - 1]
                 c == cands[n]
             IN  IF Citation(c.row) \in Cited(list) THEN list ELSE Append(list, c)
  IN  first[Len(cands)]
-----------------------------------------------------------------------------
MinTokenOverlap(n) == IF n <= 2 THEN 1 ELSE IF n <= 4 THEN 2 ELSE IF n <= 8 THEN 3 ELSE 4
MinQgramOverlap(n) == IF n <= 0 THEN 1 ELSE IF n <= 6 THEN 2 ELSE IF n <= 14 THEN 3 ELSE 4

ExactRows(query, rows) ==
  Kept(rows, {i \in DOMAIN rows :
    \/ rows[i].text = query.text
    \/ View("aggressive", rows[i].text) = View("aggressive", query.text)})

\* what a row shares with the query: distinct tokens, in either normalisation
Shared(mode, query, row) ==
  ToSet(View(mode, query.text)) \cap ToSet(View(mode, row.text))
TokenOverlap(query, row) ==
  Cardinality(Shared("light", query, row)) + Cardinality(Shared("aggressive", query, row))
\* a token of n letters that a row has, on its own or in a longer one, brings
\* about n of the three-letter grams
GramsOf(query, row) ==
  {t \in ToSet(View("aggressive", query.text)) :
     \E u \in ToSet(View("aggressive", row.text)) : t = u \/ Parts(t, u) # {}}
QgramOverlap(query, row) == FoldSet(LAMBDA t, n : n + Letters(t), 0, GramsOf(query, row))

\* the inverse document frequency, as the share of rows without the token
Rarity(t, mode, rows) ==
  (10 * Len(rows)) \div Max({1, Cardinality({i \in DOMAIN rows : t \in ToSet(View(mode, rows[i].text))})})
Weight(query, row, rows, qgrams) ==
  FoldSet(LAMBDA t, n : n + 20 * Rarity(t, "light", rows), 0, Shared("light", query, row))
  + FoldSet(LAMBDA t, n : n + 13 * Rarity(t, "aggressive", rows), 0, Shared("aggressive", query, row))
  + FoldSet(LAMBDA t, n : n + 7 * Letters(t) * Rarity(t, "aggressive", rows), 0,
            IF qgrams THEN GramsOf(query, row) ELSE {})

ByTokens(query, rows) ==
  {i \in DOMAIN rows :
     TokenOverlap(query, rows[i]) >= MinTokenOverlap(Cardinality(ToSet(query.text)))}
\* the q-grams are compared for a long query, or when few rows share tokens
UsesQgrams(query, rows) ==
  Chars(View("aggressive", query.text)) >= 14 \/ Cardinality(ByTokens(query, rows)) < EnoughRows
Grams(query, row, qgrams) == IF qgrams THEN QgramOverlap(query, row) ELSE 0

Pool(query, rows, qgrams) ==
  Kept(rows, ByTokens(query, rows) \cup
    {i \in DOMAIN rows :
       Grams(query, rows[i], qgrams) >= MinQgramOverlap(Chars(View("aggressive", query.text)) - 2)})

Shortlisted(query, rows, pool, qgrams) ==
  LET chosen == IF pool # <<>> THEN pool
                ELSE Kept(rows, {i \in DOMAIN rows :
                       TokenOverlap(query, rows[i]) > 0 \/ Grams(query, rows[i], qgrams) > 0})
      key(r) == <<Weight(query, r, rows, qgrams), TokenOverlap(query, r), Grams(query, r, qgrams)>>
  IN  Upto(ShortlistLimit, SortedBy(chosen, [i \in DOMAIN chosen |-> key(chosen[i])]))

Shortlist(query, rows, shortcut) ==
  LET exact  == ExactRows(query, rows)
      qgrams == UsesQgrams(query, rows)
  IN  IF shortcut /\ exact # <<>> THEN Upto(ShortlistLimit, exact)
      ELSE Shortlisted(query, rows, Pool(query, rows, qgrams), qgrams)
=============================================================================
