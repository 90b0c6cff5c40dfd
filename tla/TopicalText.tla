----------------------------- MODULE TopicalText -----------------------------
(* What the topical search of hadith reads in texts.  A text is a sequence of *)
(* words; spelling is kept in what two words have in common: their canonical  *)
(* form, their synonyms and their trigram similarity.  A score is counted in  *)
(* millionths.                                                                *)
EXTENDS Integers, SequencesExt

CONSTANTS
  Canonical(_),      \* the canonical form of a word
  SynonymsOf(_),     \* the words that a canonical word is expanded by
  Similarity(_, _),  \* of two words, from 0 to Unit; Unit for the same word
  StopWords,         \* never a search token, unless there is no other
  GenericWords,      \* tokens that say nothing about the topic
  Scale              \* words of a real text that one word here stands for

Unit == 1000000
Share(n, d) == (n * Unit) \div d
Pct(percent, x) == percent * (x \div 100)
AtLeast(bound, x) == IF x < bound THEN bound ELSE x
AtMost(bound, x) == IF x > bound THEN bound ELSE x
Clamped(x) == AtLeast(0, AtMost(Unit, x))
Highest(S) == Max(S \cup {0})

\* a score without a bound, as one below Unit: v / (v + 4)
Saturated(v) ==
  IF v <= Unit THEN AtLeast(0, v)
  ELSE 1000 * ((1000 * (v \div 1000)) \div ((v \div 1000) + 4000))

\* a sequence, of whatever
IsList(s) == s \in Seq(Range(s))

Length(text) == Scale * Len(text)
Mentions(text, phrase) ==
  /\ phrase # <<>>
  /\ \E i \in 1 .. Len(text) - Len(phrase) + 1 : SubSeq(text, i, i + Len(phrase) - 1) = phrase
Occurrences(text, phrase) ==
  Cardinality({i \in 1 .. Len(text) - Len(phrase) + 1 :
                 SubSeq(text, i, i + Len(phrase) - 1) = phrase})
MentionsAny(text, phrases) == \E p \in phrases : Mentions(text, p)

\* the first n; a limit below one is taken for one
Top(n, seq) == SubSeq(seq, 1, Min({AtLeast(1, n), Len(seq)}))
\* sequences of integers in lexicographic order
Precedes(k, l) ==
  \E i \in DOMAIN k : k[i] < l[i] /\ \A j \in 1 .. i - 1 : k[j] = l[j]

\* a stable sort: an item goes behind those that it does not precede
Inserted(list, item) ==
  LET n == Cardinality({i \in DOMAIN list : ~ Precedes(item.key, list[i].key)})
  IN  [i \in 1 .. Len(list) + 1 |->
         IF i <= n THEN list[i] ELSE IF i = n + 1 THEN item ELSE list[i - 1]]
SortedBy(seq, keys) ==
  LET sorted[n \in 0 .. Len(seq)] ==
        IF n = 0 THEN <<>> ELSE Inserted(sorted[n - 1], [item |-> seq[n], key |-> keys[n]])
      list == sorted[Len(seq)]
  IN  [i \in DOMAIN list |-> list[i].item]
By(Key(_), seq) == SortedBy(seq, [i \in DOMAIN seq |-> Key(seq[i])])

\* what stands at these places of a sequence
KeptAt(seq, places) ==
  LET kept[n \in 0 .. Len(seq)] ==
        IF n = 0 THEN <<>>
        ELSE LET list == kept[n - 1]
             IN  IF n \in places THEN Append(list, seq[n]) ELSE list
  IN  kept[Len(seq)]
Distinct(seq) == KeptAt(seq, {i \in DOMAIN seq : \A j \in 1 .. i - 1 : seq[j] # seq[i]})

-----------------------------------------------------------------------------
(* Tokens.                                                                   *)
Tokens(text) ==
  LET kept == SelectSeq(text, LAMBDA w : w \notin StopWords)
      used == IF kept # <<>> THEN kept ELSE text
  IN  [i \in DOMAIN used |-> Canonical(used[i])]

Expanded(tokens) == UNION {{t} \cup SynonymsOf(t) : t \in tokens}
Significant(text) == Expanded(Range(Tokens(text))) \ GenericWords

-----------------------------------------------------------------------------
(* How well a document answers a query.  A token that the document misses     *)
(* weighs 1.7 times one it has, from the inverse document frequency over the  *)
(* one document.                                                              *)
TokenOverlap(tokens, words) ==
  Share(10 * Cardinality(tokens \cap words),
        10 * Cardinality(tokens \cap words) + 17 * Cardinality(tokens \ words))

AliasHits(aliases, text) == {a \in aliases : Mentions(text, a)}
ClosestWord(tokens, words) == Highest({Similarity(t, w) : t \in tokens, w \in words})
FuzzyBonus(closest) ==
  IF closest >= 420000 THEN AtMost(180000, Pct(22, closest)) ELSE 0

SemanticScore(query, document, aliases) ==
  LET tokens == Significant(query)
      words == Range(Tokens(document))
  IN  IF document = <<>> \/ tokens = {} THEN 0
      ELSE \* near spellings only add to an overlap that is not complete
           LET overlap == TokenOverlap(tokens, words \cup Range(document))
           IN  Clamped(Pct(68, overlap)
                 + AtMost(320000, 120000 * Cardinality(AliasHits(aliases, document)))
                 + IF overlap < 990000 THEN FuzzyBonus(ClosestWord(tokens, words)) ELSE 0)

Fused(lexical, semantic, semanticPercent) ==
  Pct(100 - semanticPercent, Saturated(lexical)) + Pct(semanticPercent, semantic)
=============================================================================
