---------------------------- MODULE TopicDecision ----------------------------
(***************************************************************************)
(* The decision about the topics of one hadith, as the two enrichment      *)
(* scripts of pipelines/hadith_topical/enrichment take it: what becomes of *)
(* the answer of the language model (enrich_hadiths.py) and what the rules *)
(* decide without it (enrich_rulebased.py).                                *)
(*                                                                         *)
(* A slug is the sequence of its dotted parts.  Matching of phrases is     *)
(* abstracted to how many phrases of a leaf the text contains.  Scores are *)
(* sums of hundredths, which the code adds up as binary floats; where the  *)
(* two compare differently, the comparison here is the one of the code.    *)
(***************************************************************************)
EXTENDS Integers, FiniteSets, Sequences, SequencesExt

CONSTANTS
  LeafOrder,     \* the slugs of the taxonomy in the order of its file
  Leaf,          \* Leaf[slug] = [family, baabs, kitabs]
  GeneralWord,   \* last parts that end with "_general"
  SoftBaab,      \* pairs of baab labels of which one contains the other
  RawDecisions,  \* answers of the model to decide about
  RuleRecords    \* records to decide about by rules

Taxonomy == ToSet(LeafOrder)

(* The file has leaves; the answers of the model that have the shape are    *)
(* lists of slugs, and what is counted in a text is a number per leaf.      *)
ASSUME TaxonomyAssumption == LeafOrder \in Seq(Seq(STRING)) /\ LeafOrder # <<>>
ASSUME AnswerAssumption ==
  \A raw \in RawDecisions : raw.shape =>
    raw.primary \in Seq(Seq(STRING)) /\ raw.secondary \in Seq(Seq(STRING))
ASSUME RecordAssumption ==
  \A rec \in RuleRecords :
    rec.phrases \in [Taxonomy -> Nat] /\ rec.titleWords \in [Taxonomy -> Nat]
NoSlug == <<>>
NoReason == "none"

LeastOf(S) == CHOOSE x \in S : \A y \in S : x <= y
Lesser(a, b) == IF a < b THEN a ELSE b
Truncated(s, n) == SubSeq(s, 1, Lesser(n, Len(s)))

(* The members of a finite set as a sequence.  The order is total on it and *)
(* given by its pairs: every member has its place by how many are before it.*)
Before(x, S, order) == {y \in S : <<y, x>> \in order}
InOrder(S, order) ==
  [i \in 1 .. Cardinality(S) |-> CHOOSE x \in S : Cardinality(Before(x, S, order)) = i - 1]

(***************************************************************************)
(* Correction of the slugs a model invents.  The layers are tried in       *)
(* order; the first that yields a slug wins.                               *)
(***************************************************************************)
Suffix(slug, i) == SubSeq(slug, i, Len(slug))

SuffixOwners(suffix) ==
  {t \in Taxonomy : \E i \in 2 .. Len(t) : Suffix(t, i) = suffix}

OnlyOne(S) == IF Cardinality(S) = 1 THEN S ELSE {}

UniqueSuffixMatch(raw) ==
  LET hits == {i \in 2 .. Len(raw) : Cardinality(SuffixOwners(Suffix(raw, i))) = 1}
  IN IF hits = {} THEN {} ELSE SuffixOwners(Suffix(raw, LeastOf(hits)))

AreaLeaves(raw) ==
  {t \in Taxonomy : Len(t) > 2 /\ SubSeq(t, 1, 2) = SubSeq(raw, 1, 2)}

AutocorrectSlug(raw) ==
  LET inArea == Len(raw) >= 2
      named(word) == IF inArea THEN {<<raw[1], raw[2], word>>} \cap Taxonomy ELSE {}
      area == IF inArea THEN AreaLeaves(raw) ELSE {}
      layers == << {raw} \cap Taxonomy,
                   UniqueSuffixMatch(raw),
                   named("general"),
                   OnlyOne(area),
                   OnlyOne({t \in area : Last(t) \in GeneralWord}),
                   named("other"),
                   named("others") >>
      hits == {i \in DOMAIN layers : layers[i] # {}}
  IN IF hits = {} THEN NoSlug ELSE CHOOSE t \in layers[LeastOf(hits)] : TRUE

CleanSlugs(list) == [i \in DOMAIN list |-> AutocorrectSlug(list[i])]

(* The first occurrences of what is not dropped.  A slug that could not be  *)
(* corrected is dropped from both lists.                                    *)
Deduped(list, dropped) ==
  LET firsts == {i \in DOMAIN list : list[i] \notin dropped /\ \A k \in 1 .. i - 1 : list[k] # list[i]}
      place == InOrder(firsts, {p \in firsts \X firsts : p[1] < p[2]})
  IN [n \in DOMAIN place |-> list[place[n]]]

(***************************************************************************)
(* ValidateDecision repairs the answer of the model and rejects it only    *)
(* for its shape.  raw.shape says that the keys are there with lists in    *)
(* them, raw.density that the density is a number between 0 and 1.         *)
(***************************************************************************)
Decision(primary, secondary, reason) ==
  [primary |-> primary, secondary |-> secondary, reason |-> reason]

\* Mutant: a slug may stay in both lists after the promotion.
PromoteByCopy(raw) ==
  LET p == Deduped(CleanSlugs(raw.primary), {NoSlug})
      s == Deduped(CleanSlugs(raw.secondary), {NoSlug})
      primary == IF p = <<>> /\ s # <<>> THEN <<Head(s)>> ELSE p
  IN [ok |-> raw.shape /\ raw.density,
      decision |-> Decision(Truncated(primary, 3), Truncated(s, 5),
                            IF primary # <<>> THEN NoReason ELSE "all_slugs_uncorrectable")]

ValidateDecision(raw) ==
  LET p == Deduped(CleanSlugs(raw.primary), {NoSlug})
      s == Deduped(CleanSlugs(raw.secondary), {NoSlug} \cup ToSet(p))
      promoted == p = <<>> /\ s # <<>>
      primary == IF promoted THEN <<Head(s)>> ELSE p
      secondary == IF promoted THEN Tail(s) ELSE s
      reason == IF primary # <<>> THEN NoReason
                ELSE IF raw.reason # NoReason THEN raw.reason
                ELSE "all_slugs_uncorrectable"
  IN [ok |-> raw.shape /\ raw.density,
      decision |-> Decision(Truncated(primary, 3), Truncated(secondary, 5), reason)]

(***************************************************************************)
(* enrich_one: two tries for a well-shaped answer, then an abstention; the *)
(* call itself may raise, after its own retries, in either try.            *)
(***************************************************************************)
EnrichOneResults(emptyMatn, answers) ==
  IF emptyMatn THEN {Decision(<<>>, <<>>, "empty_matn")}
  ELSE {ValidateDecision(a).decision : a \in {b \in answers : ValidateDecision(b).ok}}
       \cup (IF \E a \in answers : ~ ValidateDecision(a).ok
             THEN {Decision(<<>>, <<>>, "validation_failed")} ELSE {})

-----------------------------------------------------------------------------
(***************************************************************************)
(* The rules.  A record has its labels (family, kitab, baab), whether its  *)
(* cleaned text is empty, and per leaf the number of phrases and of title  *)
(* words found in the text.                                                *)
(***************************************************************************)
BaabOwners(baab) == {t \in Taxonomy : baab \in Leaf[t].baabs}
KitabOwners(kitab) == {t \in Taxonomy : kitab \in Leaf[t].kitabs}
PlaceOf(slug) == CHOOSE i \in DOMAIN LeafOrder : LeafOrder[i] = slug

ScoreCandidateLeaf(slug, rec) ==
  LET phrases == rec.phrases[slug]
      hasBaab == \E b \in Leaf[slug].baabs : {b, rec.baab} \in SoftBaab \/ b = rec.baab
  IN Lesser(100, 30
       + (IF phrases >= 1 THEN 35 ELSE 0)
       + (IF phrases >= 2 THEN 12 ELSE 0)
       + (IF phrases >= 3 THEN 8 ELSE 0)
       + (IF rec.kitab \in Leaf[slug].kitabs THEN 15 ELSE 0)
       + (IF hasBaab THEN 10 ELSE 0)
       + Lesser(8, 2 * rec.titleWords[slug]))

FamilyLeaves(family) ==
  LET members == {t \in Taxonomy : Leaf[t].family = family}
  IN IF members = {} THEN Taxonomy ELSE members

(* By falling score; among equals the order of the file, the sort is stable.*)
Ahead(a, b, rec) ==
  \/ ScoreCandidateLeaf(a, rec) > ScoreCandidateLeaf(b, rec)
  \/ ScoreCandidateLeaf(a, rec) = ScoreCandidateLeaf(b, rec) /\ PlaceOf(a) < PlaceOf(b)
RankOrder(S, rec) == {p \in S \X S : Ahead(p[1], p[2], rec)}

RankedLeaves(rec) ==
  LET leaves == FamilyLeaves(rec.family) IN InOrder(leaves, RankOrder(leaves, rec))

RuleAbstains(reason) == Decision(<<>>, <<>>, reason)

(* 55 hundredths are always 0.30 + 0.15 + 0.10 (kitab and baab, no phrase), *)
(* which as floats is 0.5499999999999999: less than _MIN_SCORE.             *)
MinScore == 55

ScoredDecision(rec) ==
  LET ranked == RankedLeaves(rec)
      score(i) == ScoreCandidateLeaf(ranked[i], rec)
      runner == IF Len(ranked) > 1 THEN score(2) ELSE 0
      near == {ranked[i] : i \in {j \in 2 .. Lesser(6, Len(ranked)) :
                                    score(j) >= 50 /\ score(1) - score(j) <= 20}}
  IN IF \/ score(1) <= MinScore
        \/ score(1) < 70 /\ score(1) - runner < 15
     THEN RuleAbstains("low_confidence_rulebased")
     ELSE Decision(<<ranked[1]>>, InOrder(near, RankOrder(near, rec)), NoReason)

RuleDecision(rec) ==
  IF rec.emptyMatn THEN RuleAbstains("empty_matn")
  ELSE IF BaabOwners(rec.baab) # {}
       THEN Decision(<<CHOOSE t \in BaabOwners(rec.baab) :
                         \A u \in BaabOwners(rec.baab) : PlaceOf(u) <= PlaceOf(t)>>,
                     <<>>, NoReason)
  ELSE IF Cardinality(KitabOwners(rec.kitab)) = 1
       THEN Decision(<<CHOOSE t \in KitabOwners(rec.kitab) : TRUE>>, <<>>, NoReason)
  ELSE ScoredDecision(rec)

(* Records whose decision would hang on the rounding of a difference of     *)
(* exactly 0, 15 or 20 hundredths between differently composed scores are   *)
(* outside the model.                                                       *)
HangsOnRounding(rec) ==
  \E a, b \in FamilyLeaves(rec.family) :
    /\ a # b
    /\ ScoreCandidateLeaf(a, rec) - ScoreCandidateLeaf(b, rec) \in {0, 15, 20}
    /\ <<rec.phrases[a], rec.titleWords[a]>> # <<rec.phrases[b], rec.titleWords[b]>>
Decided == {r \in RuleRecords : ~ HangsOnRounding(r)}

-----------------------------------------------------------------------------
(* What TopicalEnrichment states of the decisions that a run stores.        *)
WellFormed(d) ==
  LET all == d.primary \o d.secondary
  IN  /\ ToSet(all) \subseteq Taxonomy
      /\ IsInjective(all)
      /\ Len(d.primary) <= 3 /\ Len(d.secondary) <= 5
      /\ d.primary = <<>> <=> d.reason # NoReason
      /\ d.primary = <<>> => d.secondary = <<>>

AllWellFormed ==
  /\ \A raw \in RawDecisions : ValidateDecision(raw).ok =>
       WellFormed(ValidateDecision(raw).decision)
  /\ \A d \in EnrichOneResults(FALSE, RawDecisions) : WellFormed(d)
  /\ \A rec \in Decided : WellFormed(RuleDecision(rec))
=============================================================================
