----------------------------- MODULE TopicResolver -----------------------------
(* The topic of a query: which leaf of the taxonomy its words are about.      *)
(* A leaf is [slug, general, vocabulary, words, display]: the texts of its    *)
(* vocabulary, the words of its slug and the words of its display name.       *)
EXTENDS TopicalQuery

CONSTANTS
  Leaves,   \* the sequence of leaves, by slug
  LeadIns   \* phrases that a question starts with

ASSUME LeavesAssumption == IsList(Leaves)

-----------------------------------------------------------------------------
(* _strip_query: the words outside lead-ins, stop words dropped.             *)
InLeadIn(text, i) ==
  \E p \in LeadIns : \E first \in AtLeast(1, i - Len(p) + 1) .. AtMost(i, Len(text) - Len(p) + 1) :
    SubSeq(text, first, first + Len(p) - 1) = p
StrippedTokens(raw) ==
  FoldLeft(LAMBDA kept, i : IF InLeadIn(raw, i) \/ raw[i] \in ResolverStopWords
                            THEN kept ELSE Append(kept, raw[i]),
           <<>>, [i \in DOMAIN raw |-> i])

-----------------------------------------------------------------------------
(* _build_leaf_index.  A phrase weighs what its role weighs, times how few of *)
(* the registrations of all leaves are of the same phrase.                    *)
RoleWeight == [vocab |-> 3000000, slug |-> 3500000, display |-> 1500000, vocab_word |-> 1200000]

Registered(leaf) ==
  {[phrase |-> v, role |-> "vocab", of |-> v] : v \in leaf.vocabulary}
  \cup UNION {{[phrase |-> <<w>>, role |-> "vocab_word", of |-> v] : w \in Range(v) \ ResolverStopWords} :
                v \in {u \in leaf.vocabulary : Len(u) > 1}}
  \cup {[phrase |-> <<w>>, role |-> "slug", of |-> <<>>] : w \in leaf.words \ ResolverStopWords}
  \cup {[phrase |-> <<w>>, role |-> "display", of |-> <<>>] : w \in leaf.display \ ResolverStopWords}

Frequency(phrase) ==
  FoldLeft(LAMBDA n, leaf : n + Cardinality({r \in Registered(leaf) : r.phrase = phrase}),
           0, Leaves)

Weight(phrase, role) ==
  Max({RoleWeight[role], (RoleWeight[role] * Len(Leaves)) \div Frequency(phrase)})

\* the heaviest role of every phrase of a leaf
LeafPatterns ==
  [i \in DOMAIN Leaves |->
     {[phrase |-> r.phrase,
       weight |-> Max({Weight(s.phrase, s.role) :
                         s \in {t \in Registered(Leaves[i]) : t.phrase = r.phrase}})] :
        r \in Registered(Leaves[i])}]

-----------------------------------------------------------------------------
(* resolve_topic, over all leaves: the search asks for no family.            *)
SureScore == 3000000
MinMargin == 2000000
SecondaryFloor == 1500000

\* the stripped words and the words as they were asked
ScoringText(raw) == StrippedTokens(raw) \o raw
LeafScore(i, text) ==
  MapThenSumSet(LAMBDA p : p.weight, {p \in LeafPatterns[i] : Mentions(text, p.phrase)})

LeavesByScore(text) ==
  LET scored == [i \in DOMAIN Leaves |->
                   [id |-> i, slug |-> Leaves[i].slug, general |-> Leaves[i].general,
                    score |-> LeafScore(i, text)]]
  IN  By(LAMBDA h : <<- h.score, IF h.general THEN 0 ELSE 1, h.id>>,
         KeptAt(scored, {i \in DOMAIN scored : scored[i].score > 0}))

Margin(ranked) == ranked[1].score - IF Len(ranked) > 1 THEN ranked[2].score ELSE 0
Sure(ranked) ==
  /\ ranked # <<>>
  /\ ranked[1].score >= SureScore
  /\ Margin(ranked) >= IF ranked[1].general THEN 0 ELSE MinMargin

NearTie(ranked, h) == h.score >= SureScore /\ ranked[1].score - h.score <= MinMargin
First(n, ranked) == SubSeq(ranked, 1, Min({n, Len(ranked)}))

\* without a sure topic nothing is confident and the best are secondary
Resolved(ranked, tokens) ==
  LET best == First(4, ranked)
      confident ==
        IF Sure(ranked)
        THEN KeptAt(best, {i \in DOMAIN best : best[i] = ranked[1] \/ NearTie(ranked, best[i])})
        ELSE <<>>
      secondary ==
        KeptAt(best, {i \in DOMAIN best :
                        best[i] \notin Range(confident) /\ best[i].score >= SecondaryFloor})
  IN  [primary |-> IF confident = <<>> THEN Nothing ELSE confident[1].slug,
       confident |-> Slugs(confident), secondary |-> Slugs(secondary), tokens |-> tokens]

ResolveTopic(raw) == Resolved(LeavesByScore(ScoringText(raw)), StrippedTokens(raw))

(* Mutant: the resolved topics are used as a filter only.                     *)
MutMergedTopicsLinkedOnly(topics, resolution) == topics

\* the topics of the query: those it was linked to, then the resolved ones
MergedTopics(topics, resolution) ==
  Distinct(topics \o resolution.confident \o resolution.secondary)
=============================================================================
