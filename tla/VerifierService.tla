--------------------------- MODULE VerifierService ---------------------------
(* verify_quran_text: a text is assessed, then evaluated against one corpus   *)
(* after the other until an evaluation is good enough, and the evaluation     *)
(* that is chosen is answered with its collections.  A request keeps nothing  *)
(* for the next one, so a behaviour is one request.                           *)
EXTENDS MatchCollections

CONSTANTS
  LongTokens,    \* from how many tokens a query is long
  Corpora,       \* pairs of corpora that may be loaded: simple and uthmani
  Asked(_)       \* the queries that are tried on a pair of corpora

IsList(s) == s \in Seq(ToSet(s))
IsSurah(ayat) == IsList(ayat) /\ \A a \in DOMAIN ayat : IsList(ayat[a])
IsCorpus(corpus) == IsList(corpus) /\ \A s \in DOMAIN corpus : IsSurah(corpus[s])
ASSUME CorporaAssumption ==
  \A corpora \in Corpora :
    /\ IsList(corpora) /\ Len(corpora) \in {1, 2}
    /\ \A i \in DOMAIN corpora : IsCorpus(corpora[i])
ASSUME AskedAssumption ==
  \A corpora \in Corpora : \A q \in Asked(corpora) : IsList(q.text)

VARIABLES
  loaded,        \* the two corpora; the uthmani one may be missing
  indexed,       \* whether the neighbours of the stored windows were loaded
  query,         \* what is verified
  pending,       \* the corpora still to be evaluated, the one in work first
  step,          \* the search that comes next
  found,         \* what the searches of this evaluation found
  evaluations,   \* what the evaluated corpora gave
  response       \* the answer, None until then
vars == <<loaded, indexed, query, pending, step, found, evaluations, response>>

-----------------------------------------------------------------------------
\* the row of the only ayah with this text; several make it ambiguous, and
\* aggressive normalisation is tried only when light normalisation finds none;
\* the groups of equal texts leave out an ayah without text
AyahsWithText(mode, q, corpus) ==
  LET rows == AyahRows(corpus)
  IN  Kept(rows, {i \in DOMAIN rows :
                    rows[i].text # <<>> /\ View(mode, rows[i].text) = View(mode, q.text)})
ExactAyah(q, corpus) ==
  IF AyahsWithText("light", q, corpus) # <<>> THEN AyahsWithText("light", q, corpus)
  ELSE AyahsWithText("aggressive", q, corpus)
OnlyAyah(q, corpus) == Len(ExactAyah(q, corpus)) = 1

HasExactSignal(q, corpora) == \E i \in DOMAIN corpora : ExactAyah(q, corpora[i]) # <<>>

IsLong(q) == Len(q.text) >= LongTokens
AyahTopK(q) == IF IsLong(q) THEN 8 ELSE 5

\* the service sorts by fewer measures than the index does
ServiceKey(c) == <<c.score, Percent(c.exact_light), Percent(c.in_light), c.coverage>>
Sorted(cands) ==
  Upto(5, FirstOfEach(SortedBy(cands, [i \in DOMAIN cands |-> ServiceKey(cands[i])])))

BestIsExact(q, cands, least) ==
  cands # <<>> /\ WindowSize(cands[1].row) >= least /\ IsExact(q, cands[1])

\* the surahs of the best ayat, by the sum of their scores
LikelySurahs(cands) ==
  LET sum(s) == FoldLeft(LAMBDA n, c : IF c.row.surah = s THEN n + c.score ELSE n,
                         0, Upto(12, cands))
      surahs == Distinct([i \in DOMAIN Upto(12, cands) |-> cands[i].row.surah])
  IN  Upto(3, SortedBy(surahs, [i \in DOMAIN surahs |-> <<sum(surahs[i])>>]))

RelatedAyahs(q, corpus) ==
  BestMatches(q, Shortlist(q, AyahRows(corpus), FALSE), AyahTopK(q))

-----------------------------------------------------------------------------
\* the engine is stamped on what the passage lane shows
Stamped(result, engine) ==
  IF result.best = None \/ engine = "static_window" THEN result
  ELSE [result EXCEPT !.best.engine = engine]

BesideAyah(q, ayahs, ayah, passage) ==
  IF BestIsExact(q, ayahs, 1) THEN PreferAyah(ayah, passage) ELSE passage

Evaluated(corpus, q, f) ==
  [corpus |-> corpus, ayahs |-> f.ayahs, passages |-> f.passages, related |-> f.related,
   fusion |-> Fusion(q, AyahResult(q, f.ayahs),
                Stamped(BesideAyah(q, f.ayahs, AyahResult(q, f.ayahs),
                                   PassageResult(q, f.passages)), f.engine))]

Shown(e) == e.fusion.preferred

StrongResponse(e) == Shown(e).status = Exact /\ Shown(e).confidence = "high" /\ Shown(e).best # None

StrongPassageWin(e) ==
  /\ e.fusion.lane = "passage" /\ StrongResponse(e)
  /\ Shown(e).best.coverage >= 95 /\ Shown(e).best.score >= 8000
  /\ Unit("passage", Shown(e).best) \in {"single_ayah", "contiguous_span"}

WidePassage(q, e) ==
  /\ ~ q.uthmani /\ e.fusion.lane = "passage" /\ Shown(e).best # None
  /\ Shown(e).best.coverage >= 80 /\ Shown(e).best.score >= 7000
  /\ WindowSize(Shown(e).best.row) >= 5

GoodEnough(q, e) == StrongResponse(e) \/ StrongPassageWin(e) \/ WidePassage(q, e)

Strength(e) ==
  <<StatusRank(Shown(e).status),
    CASE Shown(e).confidence = "high" -> 3 [] Shown(e).confidence = "medium" -> 2 [] OTHER -> 1,
    BestScore(Shown(e)), IF Shown(e).best = None THEN 0 ELSE Shown(e).best.coverage>>

ChosenOf(es) ==
  IF Len(es) = 1 \/ StrongResponse(es[1]) THEN 1
  ELSE IF StrongResponse(es[2]) \/ Above(Strength(es[2]), Strength(es[1])) THEN 2 ELSE 1

RuntimeOrder(q, corpora) == IF q.uthmani THEN Reverse(corpora) ELSE corpora

-----------------------------------------------------------------------------
Corpus == Head(pending)
Likely == LikelySurahs(found.ayahs)
NothingFound == [ayahs |-> <<>>, windows |-> <<>>, passages |-> <<>>,
                 engine |-> "skipped_after_exact_ayah", related |-> None]

Init ==
  /\ loaded \in Corpora
  /\ indexed \in BOOLEAN
  /\ query = None /\ pending = <<>> /\ step = "idle" /\ found = NothingFound
  /\ evaluations = <<>> /\ response = None

\* asking and vague texts are refused, unless they are an ayah
Receive(q) ==
  /\ query' = q
  /\ IF Assess(q) = "verify_like" \/ HasExactSignal(q, loaded)
     THEN pending' = RuntimeOrder(q, loaded) /\ step' = "ayah" /\ response' = None
     ELSE /\ response' = Refusal(IF Assess(q) = "ask_like" THEN "ask_engine" ELSE "none")
          /\ step' = "done" /\ UNCHANGED pending
  /\ UNCHANGED <<loaded, indexed, found, evaluations>>

\* a search finds what it finds and decides which one comes after it
Search(now, finds, next) ==
  /\ step = now
  /\ found' = finds
  /\ step' = next
  /\ UNCHANGED <<loaded, indexed, query, pending, evaluations, response>>

Passages(passages, engine) == [found EXCEPT !.passages = passages, !.engine = engine]

TakeOnlyAyah ==
  /\ step = "ayah" /\ OnlyAyah(query, Corpus)
  /\ \E cands \in {BestMatches(query, ExactAyah(query, Corpus), AyahTopK(query))} :
       Search("ayah", [found EXCEPT !.ayahs = cands],
              IF BestIsExact(query, cands, 1) THEN "related" ELSE "windows")

TryFastPath ==
  /\ step = "ayah" /\ ~ OnlyAyah(query, Corpus)
  /\ \E fast \in {LongSpanExactMatch(query, Corpus, <<>>, 2, 1)} :
       IF fast # <<>> THEN Search("ayah", Passages(fast, "giant_exact_anchor"), "fuse")
       ELSE Search("ayah", found, "ayahs")

ShortlistAyahs ==
  \E cands \in {IF step = "ayahs"
                THEN BestMatches(query, Shortlist(query, AyahRows(Corpus), TRUE), AyahTopK(query))
                ELSE <<>>} :
    Search("ayahs", [found EXCEPT !.ayahs = cands],
           IF BestIsExact(query, cands, 1) THEN "fuse"
           ELSE IF IsGiant(query) THEN "giant" ELSE "windows")

\* only for the strong matches beside an ayah that is unique in the corpus
FindRelatedAyahs ==
  /\ step = "related"
  /\ Search("related", [found EXCEPT !.related = RelatedAyahs(query, Corpus)], "fuse")

SearchGiantPartial ==
  /\ step = "giant"
  /\ Search("giant", Passages(GiantPartialPassages(query, Corpus, Likely, 2, 5),
                              "giant_partial_anchor"), "fuse")

ShortlistWindows ==
  /\ step = "windows"
  /\ \E stored \in {BestMatches(query, Shortlist(query, PassageRows(Corpus), TRUE), 5)} :
       Search("windows",
              [Passages(Sorted(stored), IF BestIsExact(query, stored, 2) THEN "static_exact_window"
                                        ELSE "static_window") EXCEPT !.windows = stored],
              IF IsLong(query) /\ ~ BestIsExact(query, stored, 2) THEN "spans" ELSE "fuse")

SearchExactSpans ==
  /\ step = "spans"
  /\ \E exact \in {ExactSpans(query, Corpus, 2, 5, Likely)} :
       IF exact # <<>> THEN Search("spans", Passages(exact, "surah_span_exact"), "fuse")
       ELSE Search("spans", found, "medium")

SearchMedium ==
  /\ step = "medium"
  /\ \E medium \in {MediumPartial(query, Corpus, found.ayahs, found.windows, Likely, 2, 8, 5)} :
       IF medium # <<>>
       THEN Search("medium", Passages(Sorted(found.windows \o medium), "surah_span_partial"), "fuse")
       ELSE Search("medium", found, "long")

\* without a span the best of the stored windows is kept
SearchLong ==
  /\ step = "long"
  /\ \E long \in {LongPassages(query, Corpus, found.ayahs, found.windows, <<>>, 2, 40, 5)} :
       Search("long",
              Passages(Sorted(long \o found.windows),
                       IF long = <<>> THEN "static_window" ELSE long[1].engine),
              IF long # <<>> /\ long[1].engine = "surah_span_exact" THEN "fuse" ELSE "likely")

\* once more, within the surahs of the best ayat too
SearchLikely ==
  /\ step = "likely"
  /\ IF Likely = <<>> \/ BestIsExact(query, found.passages, 2) THEN Search("likely", found, "fuse")
     ELSE \E extra \in {LongPassages(query, Corpus, found.ayahs, found.windows, Likely, 2, 40, 5)} :
            Search("likely", IF extra = <<>> THEN found
                             ELSE Passages(Sorted(found.passages \o extra), extra[1].engine), "fuse")

\* the lanes make their results and the fusion chooses; the next corpus is
\* evaluated only when this evaluation is not good enough
Fuse ==
  /\ step = "fuse"
  /\ \E e \in {Evaluated(Corpus, query, found)} :
       /\ evaluations' = Append(evaluations, e)
       /\ pending' = IF GoodEnough(query, e) THEN <<>> ELSE Tail(pending)
  /\ step' = IF pending' = <<>> THEN "collect" ELSE "ayah"
  /\ found' = NothingFound
  /\ UNCHANGED <<loaded, indexed, query, response>>

Chosen == evaluations[ChosenOf(evaluations)]
Respond(lists) ==
  /\ response' = Response(Chosen.fusion, lists.exact, lists.strong)
  /\ step' = "done"
  /\ UNCHANGED <<loaded, indexed, query, pending, found, evaluations>>

\* the lane that was preferred decides what is listed beside the best match
RespondWithAyah ==
  /\ step = "collect" /\ Chosen.fusion.lane = "ayah"
  /\ Respond(AyahCollections(query, Chosen))
RespondWithPassage ==
  /\ step = "collect" /\ Chosen.fusion.lane = "passage"
  /\ Respond(PassageCollections(query, Chosen, indexed))
RespondWithNothing ==
  /\ step = "collect" /\ Chosen.fusion.lane \notin {"ayah", "passage"}
  /\ Respond([exact |-> <<>>, strong |-> <<>>])

Next ==
  \/ step = "idle" /\ \E q \in Asked(loaded) : Receive(q)
  \/ TakeOnlyAyah \/ TryFastPath \/ ShortlistAyahs \/ FindRelatedAyahs
  \/ SearchGiantPartial \/ ShortlistWindows \/ SearchExactSpans
  \/ SearchMedium \/ SearchLong \/ SearchLikely
  \/ Fuse \/ RespondWithAyah \/ RespondWithPassage \/ RespondWithNothing
Spec == Init /\ [][Next]_vars

-----------------------------------------------------------------------------
Answered == response # None /\ evaluations # <<>>

(* A text that is said to stand in the Quran exactly does stand, character    *)
(* for character in one of the two normalisations, in the ayat that are cited *)
(* for it, whichever lane, engine and corpus the answer came from: only its   *)
(* first and its last word may be cut.  And unless the text is long, a word   *)
(* that is cut is itself a word of these ayat: below twenty words none may be *)
(* missing from them (a coverage of 95 percent).                              *)
Quotes(q, row) ==
  /\ \E m \in Modes : PieceOf(View(m, q.text), View(m, row.text))
  /\ Len(q.text) < 20 => \E m \in Modes : ToSet(View(m, q.text)) \subseteq ToSet(View(m, row.text))
ExactIsQuoted ==
  Answered /\ response.status = Exact => Quotes(query, response.best.row)

(* Only the shortlist of ayat loses a quote.  The text of an ayah, of a       *)
(* stored window, of a run of ayat that is giant, or of one that is long and  *)
(* in a surah of the best ayat that were shortlisted (the scope of the        *)
(* searches), is recognised as exact in the corpus that is verified first,    *)
(* unless it is refused as too vague: no other limit, score or early stop of  *)
(* the engines in between loses it.                                           *)
Stored(size) == size \in ToSet(StaticSizes) \cup {1}
Suggested(q, corpus, s) ==
  LET likely == LikelySurahs(BestMatches(q, Shortlist(q, AyahRows(corpus), TRUE), AyahTopK(q)))
  IN  likely = <<>> \/ s \in ToSet(likely)
QuotesAreRecognized ==
  Answered /\ Assess(query) = "verify_like" =>
    \A s \in DOMAIN loaded[1] : \A w \in Windows(loaded[1], s, 1, MaxExactWindow) :
      /\ Span(loaded[1], s, w[1], w[2]).text = query.text
      /\ \/ Stored(w[2] - w[1] + 1) \/ IsGiant(query)
         \/ IsLong(query) /\ Suggested(query, loaded[1], s)
      => response.status = Exact

(* No citation is shown twice: the best match, the exact matches, the strong  *)
(* matches and the related texts are different ones, and a passage listed as  *)
(* strong shares no ayah with the best match.                                 *)
Lists == response.exact \o response.strong \o response.related
NothingListedTwice ==
  Answered =>
    /\ Cardinality(Cited(Lists)) = Len(Lists)
    /\ Cited(Lists) \cap CitationOf(response.best) = {}
    /\ \A i \in DOMAIN response.strong :
         response.best # None /\ response.lane = "passage"
         => Components(response.strong[i].row) \cap Components(response.best.row) = {}
=============================================================================
