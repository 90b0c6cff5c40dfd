---------------------------- MODULE VerifierLanes ----------------------------
(* What the verifier says of its candidates: the ayah lane and the passage    *)
(* lane each make a result of their best candidate, and the fusion prefers    *)
(* one of the two.                                                            *)
EXTENDS QuranScoring

CONSTANTS
  Generic,   \* tokens that are in every text
  None       \* no best match

\* how many tokens of the text are in a set
Among(tokens, set) == Cardinality({i \in DOMAIN tokens : tokens[i] \in set})
OfLetters(tokens, n) == {t \in ToSet(tokens) : Letters(t) <= n}

GenericPair(tokens) ==
  /\ Len(tokens) = 2
  /\ \/ tokens[1] = tokens[2]
     \/ Among(tokens, Generic) = 2
     \/ Among(tokens, Generic) = 1 /\ Among(tokens, OfLetters(tokens, 3)) = 2

ShortRepeated(tokens) == Len(tokens) <= 3 /\ Cardinality(ToSet(tokens)) < Len(tokens)

LowSignal(tokens) ==
  \/ Among(tokens, OfLetters(tokens, 1)) >= Max({2, (Len(tokens) + 1) \div 2})
  \/ Len(tokens) >= 3 /\ Cardinality(ToSet(tokens)) = 1

TooVague(tokens) ==
  \/ Chars(tokens) < 6 \/ Len(tokens) < 2
  \/ GenericPair(tokens) \/ ShortRepeated(tokens) \/ LowSignal(tokens)

Assess(query) ==
  IF query.text = <<>> THEN "cannot_assess"
  ELSE IF query.asks THEN "ask_like"
  ELSE IF TooVague(query.text) THEN "cannot_assess" ELSE "verify_like"

-----------------------------------------------------------------------------
Exact == "Exact match found"
Close == "Close / partial match found"
Unfound == "No reliable match found in current corpus"
Unassessed == "Cannot assess"
StatusRank(status) ==
  CASE status = Unassessed -> 0 [] status = Unfound -> 1
    [] status = Close -> 2 [] OTHER -> 3

FullExact(c) == c.exact_display \/ c.exact_light

ExcerptExact(query, c) ==
  /\ Chars(query.text) >= 6 /\ Len(query.text) >= 4
  /\ c.in_light \/ c.in_folded
  /\ c.coverage >= 95 /\ c.partial >= 100

IsExact(query, c) ==
  \/ FullExact(c)
  \/ /\ Assess(query) = "verify_like"
     /\ \/ c.exact_folded /\ c.coverage >= 95 /\ c.length_ratio >= 98
        \/ ExcerptExact(query, c)

IsClose(query, c) ==
  LET n == Len(query.text)
  IN  \/ c.exact_folded
      \/ (c.in_light \/ c.in_folded) /\ c.coverage >= 60 /\ n >= 3
      \/ Max({c.set_score, c.folded_score}) >= 95 /\ c.coverage >= 70 /\ n >= 4
      \/ c.folded_score >= 85 /\ c.coverage >= 80 /\ n >= 4
      \/ c.score >= 6000 /\ c.coverage >= 50

MatchStatus(query, c) ==
  IF IsExact(query, c) THEN Exact
  ELSE IF Assess(query) # "verify_like" THEN Unassessed
  ELSE IF IsClose(query, c) THEN Close ELSE Unfound

ConfidenceOf(status) ==
  CASE status = Exact -> "high" [] status = Close -> "medium" [] OTHER -> "low"

-----------------------------------------------------------------------------
Result(mode, status, best, alternatives) ==
  [mode |-> mode, status |-> status, confidence |-> ConfidenceOf(status),
   best |-> best, alternatives |-> alternatives]

EmptyResult == Result("verifier", Unfound, None, <<>>)

ResultOfBest(query, cands) ==
  Result("verifier", MatchStatus(query, cands[1]), cands[1],
         SubSeq(cands, 2, Min({4, Len(cands)})))

\* input that cannot be assessed has a result only in the ayah lane, and only
\* when it is an ayah
LaneResult(query, cands, admitted) ==
  IF cands = <<>> THEN EmptyResult
  ELSE IF Assess(query) = "ask_like" THEN Result("ask_engine", Unassessed, None, <<>>)
  ELSE IF Assess(query) = "verify_like" \/ admitted THEN ResultOfBest(query, Upto(5, cands))
  ELSE Result("verifier", Unassessed, None, <<>>)

AyahResult(query, cands) ==
  LaneResult(query, cands, cands # <<>> /\ FullExact(cands[1]))
PassageResult(query, cands) == LaneResult(query, cands, FALSE)

Components(row) == {<<row.surah, a>> : a \in row.first .. row.last}

\* a passage around an ayah that is exact is only close
PreferAyah(ayah, passage) ==
  IF /\ ayah.best # None /\ passage.best # None
     /\ ayah.status = Exact /\ WindowSize(passage.best.row) > 1
     /\ Components(ayah.best.row) \subseteq Components(passage.best.row)
  THEN [passage EXCEPT !.status = Close, !.confidence = "medium"]
  ELSE passage

-----------------------------------------------------------------------------
PassageUnit(row, engine) ==
  IF row.first = row.last THEN "single_ayah"
  ELSE IF engine \in {"surah_span_exact", "surah_span_partial", "giant_exact_anchor"}
  THEN "contiguous_span"
  ELSE IF engine \in {"local_seed_expand", "token_subsequence", "giant_partial_anchor"}
  THEN "heuristic_expansion" ELSE "static_window"

Unit(lane, best) ==
  IF best = None THEN "unknown"
  ELSE IF lane = "ayah" THEN "single_ayah" ELSE PassageUnit(best.row, best.engine)

UnitRank(unit) ==
  CASE unit = "single_ayah" -> 4 [] unit = "contiguous_span" -> 3
    [] unit = "static_window" -> 2 [] unit = "heuristic_expansion" -> 1 [] OTHER -> 0

BestScore(result) == IF result.best = None THEN 0 ELSE result.best.score

\* the lane of the more canonical unit, when both lanes are exact or tie
PreferByUnit(ayah, passage) ==
  LET mine   == UnitRank(Unit("ayah", ayah.best))
      theirs == UnitRank(Unit("passage", passage.best))
      scores == {BestScore(ayah), BestScore(passage)}
  IN  IF /\ mine # theirs /\ ayah.status = passage.status
         /\ \/ ayah.status = Exact
            \/ Min(scores) >= 8000 /\ Max(scores) - Min(scores) <= 800
      THEN IF mine > theirs THEN "ayah" ELSE "passage"
      ELSE "either"

SpansMore(result) == result.best # None /\ WindowSize(result.best.row) > 1
Holds(result) == result.best # None /\ (result.best.in_light \/ result.best.in_folded)

\* both lanes have a match of the same standing and neither unit is preferred:
\* a passage wins a query long enough to span ayat when its score is close, but
\* not over an ayah that holds the query
ByScore(query, ayah, passage) ==
  LET lead == BestScore(passage) - BestScore(ayah)
  IN  IF /\ ~ (Holds(ayah) /\ lead <= 800) /\ SpansMore(passage)
         /\ \/ Len(query.text) >= 6 /\ lead >= -500
            \/ Len(query.text) >= 5 /\ lead >= 300
      THEN "passage" ELSE "ayah"

AmongEquals(query, ayah, passage) ==
  IF StatusRank(ayah.status) = 1 THEN "ayah"
  ELSE IF PreferByUnit(ayah, passage) # "either" THEN PreferByUnit(ayah, passage)
  ELSE ByScore(query, ayah, passage)

(* Mutant: the ayah wins whenever both lanes have a match. *)
AyahFirst(query, ayah, passage) ==
  IF ayah.mode = "ask_engine" THEN "ask_engine"
  ELSE IF StatusRank(ayah.status) > 0 THEN "ayah" ELSE "passage"

PreferredLane(query, ayah, passage) ==
  LET mine   == StatusRank(ayah.status)
      theirs == StatusRank(passage.status)
  IN  IF ayah.mode = "ask_engine" THEN "ask_engine"
      ELSE IF mine = 0 /\ theirs = 0 THEN "none"
      ELSE IF theirs > mine THEN "passage"
      ELSE IF mine > theirs THEN "ayah"
      ELSE AmongEquals(query, ayah, passage)

Fusion(query, ayah, passage) ==
  LET lane == PreferredLane(query, ayah, passage)
  IN  [lane      |-> lane,
       preferred |-> IF lane = "passage" THEN passage ELSE ayah,
       secondary |-> IF lane = "passage" THEN ayah ELSE passage]

-----------------------------------------------------------------------------
CitationOf(best) == IF best = None THEN {} ELSE {Citation(best.row)}

Overlap(r, o) == r.surah = o.surah /\ ~ (r.last < o.first \/ o.last < r.first)

\* Only what is not cited yet joins a list, and a passage only if it shares no
\* ayah with one that is listed.  Who may not join now may not join later.
Joins(list, c, apart) ==
  /\ Citation(c.row) \notin Cited(list)
  /\ apart => \A i \in DOMAIN list : ~ Overlap(c.row, list[i].row)
Joined(list, cands, fit, apart) ==
  LET next == {i \in fit : Joins(list, cands[i], apart)}
  IN  IF next = {} THEN list ELSE Append(list, cands[Min(next)])

\* One pass over the candidates that are fit.  It stops when an item that it
\* added makes three; a list that had three before it gets one more.
Pass(items, cands, fit, apart) ==
  LET more(list) == IF Len(list) >= 3 THEN list ELSE Joined(list, cands, fit, apart)
  IN  more(more(Joined(items, cands, fit, apart)))

Fresh(cands, exclude) == {i \in DOMAIN cands : Citation(cands[i].row) \notin exclude}

\* a related text needs a score, a better one beside an exact match
WorthRelating(preferred, c) ==
  c.score >= IF preferred.status = Exact /\ preferred.confidence = "high" THEN 4000 ELSE 1500

\* the other lane's best and the alternatives of this one, if nothing that is
\* already shown cites them
Related(fusion, shown) ==
  LET others == (IF fusion.secondary.best = None THEN <<>> ELSE <<fusion.secondary.best>>)
                \o fusion.preferred.alternatives
  IN  Pass(<<>>, others, {i \in Fresh(others, shown \cup CitationOf(fusion.preferred.best)) :
                            WorthRelating(fusion.preferred, others[i])}, FALSE)

Response(fusion, exact, strong) ==
  [lane       |-> fusion.lane,
   status     |-> fusion.preferred.status,
   confidence |-> fusion.preferred.confidence,
   best       |-> fusion.preferred.best,
   exact      |-> exact,
   strong     |-> strong,
   related    |-> Related(fusion, Cited(exact) \cup Cited(strong))]

Refusal(lane) ==
  [lane |-> lane, status |-> Unassessed, confidence |-> "low", best |-> None,
   exact |-> <<>>, strong |-> <<>>, related |-> <<>>]
=============================================================================
