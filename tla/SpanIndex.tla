------------------------------ MODULE SpanIndex ------------------------------
(* QuranSurahSpanIndex: finds runs of ayat of one surah for queries that are  *)
(* longer than the stored windows.  The index is a function of the corpus, so *)
(* the joined texts, the token streams and the n-gram maps are operators on   *)
(* it; the cache of dynamic rows holds what Row returns and is left out.      *)
EXTENDS QuranScoring

CONSTANTS
  AnchorSize,         \* tokens of an anchor
  GiantTokens,        \* from how many tokens a query is giant
  GiantChars,         \* and from how many letters the fast path is tried
  SubsequenceTokens,  \* the least query for a token subsequence
  MaxExactWindow,     \* the longest run whose exact text is indexed
  MaxAnchorPositions, \* how many positions of an anchor are tried
  MaxRareTokens       \* how many rare tokens vote on where a query is from

Known(corpus, scope) == Kept(scope, {i \in DOMAIN scope : scope[i] \in DOMAIN corpus})
Scoped(corpus, scope) ==
  IF scope = <<>> THEN [s \in DOMAIN corpus |-> s] ELSE Known(corpus, scope)

Stream(corpus, mode, s) == View(mode, FlattenSeq(corpus[s]))
\* the ayah of every token of the stream
TokenAyahs(corpus, s) ==
  FlattenSeq([a \in DOMAIN corpus[s] |-> [i \in DOMAIN corpus[s][a] |-> a]])

Span(corpus, s, first, last) == Row(corpus, "passage", s, first, last)
Windows(corpus, s, least, most) ==
  {w \in (DOMAIN corpus[s]) \X (DOMAIN corpus[s]) :
     w[2] - w[1] + 1 \in least .. most}

\* the members of a set that are pairs of numbers from 1 to n, in the ascending
\* order in which nested loops produce them
InOrder(n, S) ==
  LET pairs == [i \in 1 .. n * n |-> <<1 + ((i - 1) \div n), 1 + ((i - 1) % n)>>]
  IN  Kept(pairs, {i \in DOMAIN pairs : pairs[i] \in S})

FirstNonEmpty(first, second) == IF first # <<>> THEN first ELSE second

With(c, engine) == [c EXCEPT !.engine = engine]
SpansAt(corpus, s, order) ==
  [i \in DOMAIN order |-> Span(corpus, s, order[i][1], order[i][2])]
Candidates(query, rows, engine) ==
  [i \in DOMAIN rows |-> With(Candidate(query, rows[i]), engine)]
Over(corpus, scope, F(_, _)) ==
  FlattenSeq([i \in DOMAIN scope |-> F("light", scope[i]) \o F("aggressive", scope[i])])

-----------------------------------------------------------------------------
(* Exact texts of runs of ayat.                                              *)
ExactIn(query, corpus, mode, s, least) ==
  SpansAt(corpus, s,
    InOrder(Len(corpus[s]),
      {w \in Windows(corpus, s, Max({2, least}), MaxExactWindow) :
         View(mode, Span(corpus, s, w[1], w[2]).text) = View(mode, query.text)}))

ExactSpanRows(query, corpus, least, scope) ==
  LET found(mode) == FlattenSeq([i \in DOMAIN scope |->
                       ExactIn(query, corpus, mode, scope[i], least)])
      folded == found("aggressive")
  IN  found("light") \o Kept(folded, {i \in DOMAIN folded : folded[i].text # query.text})

ExactSpans(query, corpus, least, k, scope) ==
  Ranked(Candidates(query, ExactSpanRows(query, corpus, least, Scoped(corpus, scope)),
                    "surah_span_exact"), k)

-----------------------------------------------------------------------------
(* Giant queries, exactly: an anchor at each end and in the middle, then the *)
(* tokens themselves.                                                        *)
MiddleOffset(n) == Max({(n \div 2) - (AnchorSize \div 2), 0})
Anchor(tokens, offset) == SubSeq(tokens, offset + 1, offset + AnchorSize)

FirstPositions(anchor, stream) ==
  LET all == Occurrences(anchor, stream)
  IN  {p \in all : Cardinality({o \in all : o < p}) < MaxAnchorPositions}

(* Mutant: agreement at the two ends is taken for the whole. *)
StandsAtEnds(p, tokens, stream) ==
  /\ p + Len(tokens) - 1 <= Len(stream)
  /\ p + Len(tokens) - AnchorSize \in Occurrences(Anchor(tokens, Len(tokens) - AnchorSize), stream)

\* the query stands in the stream at p: the ends agree, the middle agrees,
\* and then every token does
StandsAt(p, tokens, stream) ==
  /\ p + Len(tokens) - 1 <= Len(stream)
  /\ p + Len(tokens) - AnchorSize \in Occurrences(Anchor(tokens, Len(tokens) - AnchorSize), stream)
  /\ p + MiddleOffset(Len(tokens)) \in Occurrences(Anchor(tokens, MiddleOffset(Len(tokens))), stream)
  /\ SubSeq(stream, p, p + Len(tokens) - 1) = tokens

Standing(tokens, stream) ==
  {p \in FirstPositions(Anchor(tokens, 0), stream) : StandsAt(p, tokens, stream)}

\* the ayat of the places of a text of n tokens, when they are enough
AyatAt(corpus, s, places, n, least) ==
  LET ayah == TokenAyahs(corpus, s)
  IN  InOrder(Len(corpus[s]), {w \in {<<ayah[p], ayah[p + n - 1]>> : p \in places} :
                                 w[2] - w[1] + 1 >= least})

GiantExactIn(query, corpus, tokens, mode, s, least) ==
  LET rows == SpansAt(corpus, s, AyatAt(corpus, s, Standing(tokens, Stream(corpus, mode, s)),
                                        Len(tokens), least))
  IN  [i \in DOMAIN rows |-> FullMarks(query, rows[i], "giant_exact_anchor")]

GiantExact(query, corpus, scope, least, k) ==
  LET found(mode) ==
        FlattenSeq([i \in DOMAIN scope |->
          GiantExactIn(query, corpus, View(mode, query.text), mode, scope[i], least)])
  IN  IF Len(query.text) < 2 * AnchorSize THEN <<>>
      ELSE Ranked(Upto(k, FirstOfEach(found("light") \o found("aggressive"))), k)

IsGiant(query) == Len(query.text) >= GiantTokens

\* likely surahs first; the others only when those have nothing
GiantExactPassages(query, corpus, likely, least, k) ==
  LET asked  == Known(corpus, likely)
      others == Ascending(DOMAIN corpus \ ToSet(asked), Len(corpus))
  IN  IF Len(query.text) < Max({GiantTokens, 2 * AnchorSize}) THEN <<>>
      ELSE FirstNonEmpty(GiantExact(query, corpus, Scoped(corpus, asked), least, k),
                         IF asked = <<>> THEN <<>>
                         ELSE GiantExact(query, corpus, others, least, k))

FastPathEnabled(query) == IsGiant(query) \/ Chars(query.text) >= GiantChars
LongSpanExactMatch(query, corpus, likely, least, k) ==
  IF FastPathEnabled(query) THEN GiantExactPassages(query, corpus, likely, least, k) ELSE <<>>

-----------------------------------------------------------------------------
(* Giant queries, in part: anchors sampled along the query.                  *)
SampleOffsets(n) ==
  LET near(p) == Max({p - (AnchorSize \div 2), 0})
  IN  IF n < AnchorSize THEN {}
      ELSE {0, near(n \div 4), near(n \div 2), near((3 * n) \div 4), n - AnchorSize}

\* distinct anchors only, the leftmost offset of each
SampleAnchors(tokens) ==
  LET offsets == {o \in SampleOffsets(Len(tokens)) : o + AnchorSize <= Len(tokens)}
  IN  Ascending({o \in offsets : \A x \in offsets :
                   Anchor(tokens, x) = Anchor(tokens, o) => o <= x}, Len(tokens))

\* the anchors that are met in order, each at its first place after the last
Chain(tokens, stream) ==
  LET meet(chain, o) ==
        LET later == {p \in Occurrences(Anchor(tokens, o), stream) :
                        chain = <<>> \/ p > Last(chain)}
        IN  IF later = {} THEN chain ELSE Append(chain, Min(later))
  IN  FoldLeft(meet, <<>>, SampleAnchors(tokens))

Votes(query, corpus, s) ==
  LET hits(mode, base, each) ==
        LET tokens == View(mode, query.text)
            places(o) == Cardinality(Occurrences(Anchor(tokens, o), Stream(corpus, mode, s)))
        IN  FoldSeq(LAMBDA o, n : IF places(o) = 0 THEN n
                                  ELSE n + base + each * Min({places(o), 4}),
                    0, SampleAnchors(tokens))
  IN  hits("light", 300, 25) + hits("aggressive", 200, 20)

\* without an anchor the rarest tokens vote, in both normalisations: those of
\* the fewest surahs, the longest of these
SurahsWith(t, corpus, mode) == Cardinality({x \in DOMAIN corpus : t \in ToSet(Stream(corpus, mode, x))})
RareTokens(query, corpus, mode) ==
  LET tokens == Distinct(View(mode, query.text))
      known  == Kept(tokens, {i \in DOMAIN tokens :
                  Letters(tokens[i]) >= 3 /\ SurahsWith(tokens[i], corpus, mode) > 0})
  IN  Upto(MaxRareTokens, SortedBy(known, [i \in DOMAIN known |->
             <<-SurahsWith(known[i], corpus, mode), Letters(known[i])>>]))
RareVotes(query, corpus, s) ==
  LET vote(mode, boost) ==
        FoldSet(LAMBDA t, n :
                  n + boost \div SurahsWith(t, corpus, mode)
                    + 5 * Min({4, Cardinality(Occurrences(<<t>>, Stream(corpus, mode, s)))}),
                0, ToSet(RareTokens(query, corpus, mode)) \cap ToSet(Stream(corpus, mode, s)))
  IN  vote("light", 200) + vote("aggressive", 150)

MostVoted(votes, k) ==
  LET voted == Ascending({s \in DOMAIN votes : votes[s] > 0}, Len(votes))
  IN  Upto(k, SortedBy(voted, [i \in DOMAIN voted |-> <<votes[voted[i]]>>]))

InferScope(query, corpus) ==
  LET byAnchor == MostVoted([s \in DOMAIN corpus |-> Votes(query, corpus, s)], 2)
  IN  IF byAnchor # <<>> THEN byAnchor
      ELSE MostVoted([s \in DOMAIN corpus |-> RareVotes(query, corpus, s)], 2)

\* a span and the same widened by one and by two ayat, inside the surah
Widened(query, corpus, s, span, least) ==
  LET wider == [e \in 1 .. 3 |-> <<Max({1, span[1] - e + 1}),
                                   Min({Len(corpus[s]), span[2] + e - 1})>>]
  IN  Candidates(query,
        SpansAt(corpus, s, Kept(wider, {e \in 1 .. 3 : wider[e][2] - wider[e][1] + 1 >= least})),
        "giant_partial_anchor")
\* around a place of n tokens
WidenedAt(query, corpus, s, place, n, least) ==
  LET core == AyatAt(corpus, s, {place}, n, 1)
  IN  IF core = <<>> THEN <<>> ELSE Widened(query, corpus, s, core[1], least)

ChainSpans(query, corpus, s, least, samples, chain) ==
  IF samples >= 2 /\ Len(chain) >= 2 /\ 10 * Len(chain) >= 6 * samples
  THEN WidenedAt(query, corpus, s, chain[1], Last(chain) + AnchorSize - chain[1], least)
  ELSE <<>>

AnchorSpans(query, corpus, mode, s, least, tokens) ==
  ChainSpans(query, corpus, s, least, Len(SampleAnchors(tokens)),
             Chain(tokens, Stream(corpus, mode, s)))

-----------------------------------------------------------------------------
(* The longest piece of the query around its rarest token.                   *)
RarestToken(tokens, stream) ==
  LET known == {i \in DOMAIN tokens : tokens[i] \in ToSet(stream)}
      uses(i) == Cardinality(Occurrences(<<tokens[i]>>, stream))
  IN  IF known = {} THEN 0
      ELSE Min({i \in known : \A j \in known : uses(i) <= uses(j)})

\* how far query and stream agree to the left and to the right of q and s
Agree(tokens, stream, q, s) ==
  LET left  == Max({n \in 0 .. Min({q, s}) - 1 :
                      SubSeq(tokens, q - n, q) = SubSeq(stream, s - n, s)})
      right == Max({n \in 0 .. Min({Len(tokens) - q, Len(stream) - s}) :
                      SubSeq(tokens, q, q + n) = SubSeq(stream, s, s + n)})
  IN  [at |-> s, from |-> s - left, length |-> left + right + 1]

\* the longest run, the first that was tried of those
Best(runs) ==
  CHOOSE r \in runs : \A o \in runs :
    o.length < r.length \/ (o.length = r.length /\ r.at <= o.at)
BestRuns(tokens, stream, q) ==
  IF q = 0 THEN {}
  ELSE {Best({Agree(tokens, stream, q, s) : s \in FirstPositions(<<tokens[q]>>, stream)})}

\* the best run, when it has this share of the query
LongRun(corpus, mode, s, tokens, percent) ==
  IF Len(tokens) < SubsequenceTokens THEN {}
  ELSE {r \in BestRuns(tokens, Stream(corpus, mode, s),
                       RarestToken(tokens, Stream(corpus, mode, s))) :
          100 * r.length >= percent * Len(tokens)}
ShareOf(r, query) == (100 * r.length) \div Len(query.text)

WithRun(cands, share) == [i \in DOMAIN cands |-> [cands[i] EXCEPT !.run = share]]

\* at most one run is found
OfRun(found, F(_)) == IF found = {} THEN <<>> ELSE F(CHOOSE r \in found : TRUE)

SubsequenceSpans(query, corpus, mode, s, least) ==
  OfRun(LongRun(corpus, mode, s, View(mode, query.text), 55), LAMBDA r :
    WithRun(WidenedAt(query, corpus, s, r.from, r.length, least), ShareOf(r, query)))

GiantPartial(query, corpus, scope, least, k) ==
  Ranked(
    Ranked(FirstOfEach(Over(corpus, scope, LAMBDA m, s :
             AnchorSpans(query, corpus, m, s, least, View(m, query.text)))), k)
    \o Ranked(FirstOfEach(Over(corpus, scope, LAMBDA m, s :
             SubsequenceSpans(query, corpus, m, s, least))), k), k)

GiantPartialPassages(query, corpus, likely, least, k) ==
  IF Len(query.text) < Max({GiantTokens, 2 * AnchorSize}) THEN <<>>
  ELSE LET asked == Known(corpus, likely)
       IN  GiantPartial(query, corpus,
             Upto(2, IF asked # <<>> THEN asked ELSE InferScope(query, corpus)), least, k)

-----------------------------------------------------------------------------
(* A query inside the joined text of a surah, across the borders of ayat.    *)
ContainedIn(query, corpus, tokens, mode, s, least) ==
  Candidates(query,
    SpansAt(corpus, s, AyatAt(corpus, s, Places(tokens, Stream(corpus, mode, s)),
                              Len(tokens), least)), "surah_span_exact")

ContainedSpans(query, corpus, least, k, scope) ==
  Ranked(FirstOfEach(Over(corpus, Scoped(corpus, scope), LAMBDA m, s :
           ContainedIn(query, corpus, View(m, query.text), m, s, least))), k)

-----------------------------------------------------------------------------
(* Spans that other lanes propose, and their neighbourhoods.                 *)
SeedOf(c) == <<c.row.surah, c.row.first, c.row.last>>
Seeds(ayahs, passages) ==
  LET both == [i \in DOMAIN Upto(5, passages) |-> SeedOf(passages[i])]
              \o [i \in DOMAIN Upto(5, ayahs) |-> SeedOf(ayahs[i])]
  IN  Upto(5, Distinct(both))

SurahsOf(seeds) == {seeds[i][1] : i \in DOMAIN seeds}
SeedSurahs(corpus, seeds) == Ascending(SurahsOf(seeds), Len(corpus))
SeedScope(corpus, likely, seeds) == Ascending(ToSet(likely) \cup SurahsOf(seeds), Len(corpus))

Neighbourhood(n, seed, least, most) ==
  LET budget == Max({4, Min({most, most - (seed[3] - seed[2] + 1) + 4})})
  IN  {w \in (Max({1, seed[2] - budget}) .. Min({n, seed[2] + 2}))
           \X (Max({1, seed[3] - 2}) .. Min({n, seed[3] + budget})) :
         w[2] - w[1] + 1 \in least .. most}

Around(corpus, seed, least, most) ==
  SpansAt(corpus, seed[1],
    InOrder(Len(corpus[seed[1]]),
            IF Len(corpus[seed[1]]) < least THEN {}
            ELSE Neighbourhood(Len(corpus[seed[1]]), seed, least, most)))

Expanded(query, corpus, seeds, least, most, k) ==
  Ranked(FirstOfEach(Candidates(query,
           FlattenSeq([i \in DOMAIN seeds |-> Around(corpus, seeds[i], least, most)]),
           "local_seed_expand")), k)

SubsequenceRow(query, corpus, s, r, least) ==
  WithRun(Candidates(query, SpansAt(corpus, s, AyatAt(corpus, s, {r.from}, r.length, least)),
                     "token_subsequence"), ShareOf(r, query))

TokenSubsequences(query, corpus, seeds, least, k) ==
  Ranked(FirstOfEach(Over(corpus, SeedSurahs(corpus, seeds), LAMBDA m, s :
           OfRun(LongRun(corpus, m, s, View(m, query.text), 78),
                 LAMBDA r : SubsequenceRow(query, corpus, s, r, least)))), k)

\* each search only when the ones before it found nothing
LongInScope(query, corpus, seeds, scope, least, most, k) ==
  FirstNonEmpty(ExactSpans(query, corpus, least, k, scope),
    FirstNonEmpty(ContainedSpans(query, corpus, least, k, scope),
      FirstNonEmpty(TokenSubsequences(query, corpus, seeds, least, k),
                    Expanded(query, corpus, seeds, least, most, k))))

LongPassages(query, corpus, ayahs, passages, likely, least, most, k) ==
  LET seeds == Seeds(ayahs, passages)
  IN  LongInScope(query, corpus, seeds, SeedScope(corpus, likely, seeds), least, most, k)

-----------------------------------------------------------------------------
Relabelled(cands) == [i \in DOMAIN cands |-> With(cands[i], "surah_span_partial")]

WorthKeeping(c) == c.score >= 3500 \/ c.coverage >= 65 \/ c.in_light

\* the spans that hold the query and their neighbourhoods, or else those of
\* the seeds
MediumPool(query, corpus, seeds, contained, least, most, k) ==
  LET pool == Kept(contained, {i \in DOMAIN contained : WindowSize(contained[i].row) >= least})
              \o Expanded(query, corpus, [i \in DOMAIN contained |-> SeedOf(contained[i])],
                          least, most, k)
  IN  IF pool # <<>> THEN pool ELSE Expanded(query, corpus, seeds, least, most, k)

MediumInScope(query, corpus, seeds, scope, least, most, k) ==
  LET pool == Relabelled(MediumPool(query, corpus, seeds,
                ContainedSpans(query, corpus, 1, Max({4 * k, 12}), scope), least, most,
                Max({4 * k, 12})))
  IN  IF scope = <<>> /\ seeds = <<>> THEN <<>>
      ELSE Ranked(FirstOfEach(Kept(pool, {i \in DOMAIN pool : WorthKeeping(pool[i])})), k)

MediumPartial(query, corpus, ayahs, passages, likely, least, most, k) ==
  LET seeds == Seeds(ayahs, passages)
  IN  MediumInScope(query, corpus, seeds, SeedScope(corpus, likely, seeds), least, most, k)
=============================================================================
