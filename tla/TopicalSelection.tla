--------------------------- MODULE TopicalSelection ---------------------------
(* From candidates to the evidence of the answer: the heuristic rerank, the   *)
(* composite score with its thresholds, and the gate at the end.  A query     *)
(* carries here its retrieval family and its shape.                           *)
EXTENDS TopicalCandidates

CONSTANT MaxResults   \* hadith selected at most

ASSUME MaxResultsAssumption == MaxResults \in Nat \ {0}

Teaching == {"direct_moral_instruction", "virtue_statement", "warning"}
PreferredRoles == [prophetic_guidance |-> Teaching, guidance |-> Teaching,
                   warning |-> {"warning", "direct_moral_instruction"},
                   virtue |-> {"virtue_statement"}]

\* a table gives for every profile the bonus of a preferred role and what a
\* narrative loses
ProfileBonus(table, profile, role) ==
  CASE profile \notin DOMAIN PreferredRoles -> 0
    [] profile \in DOMAIN PreferredRoles /\ role = "narrative_incident" -> - table[profile][2]
    [] OTHER -> When(role \in PreferredRoles[profile], table[profile][1])

-----------------------------------------------------------------------------
(* _heuristic_rerank_score                                                   *)
RerankBonus == [prophetic_guidance |-> <<180000, 100000>>, warning |-> <<160000, 80000>>,
                virtue |-> <<160000, 80000>>, guidance |-> <<100000, 60000>>]

OverlapScore(a, b) ==
  IF a = {} \/ b = {} THEN 0
  ELSE Share(Cardinality(a \cap b), Min({Cardinality(a), Cardinality(b)}))

AskedText(query) == IF query.text # <<>> THEN query.text ELSE query.raw
AskedWords(query) == Range(AskedText(query))
Aligned(query, c) == c.topics \cap Range(query.topics) # {}
PropheticBoost(query, c) ==
  When(/\ c.source = "hadith:bukhari" /\ c.prophetic
       /\ {c.family, query.family} \cap {"akhlaq", "foundational", "aqeedah"} # {}, 100000)

RerankScore(query, c) ==
  Clamped(Pct(24, OverlapScore(AskedWords(query), Range(c.chapter)))
    + Pct(16, OverlapScore(AskedWords(query), Range(c.summary)))
    + Pct(10, OverlapScore(AskedWords(query), Range(c.text)))
    + Pct(16, c.central) + Pct(18, c.answerability)
    + (IF Aligned(query, c) THEN 180000 ELSE - When(query.topics # <<>>, 120000))
    + When(c.terms # {}, 120000)
    + ProfileBonus(RerankBonus, query.profile, c.role)
    + PropheticBoost(query, c)
    - Pct(12, c.incidental) - Pct(10, c.specificity))

Reranked(query, candidates) ==
  [i \in DOMAIN candidates |->
     [candidates[i] EXCEPT !.rerank = RerankScore(query, candidates[i])]]

-----------------------------------------------------------------------------
(* _candidate_score                                                          *)
SelectionBonus == [prophetic_guidance |-> <<120000, 80000>>, warning |-> <<100000, 60000>>,
                   virtue |-> <<100000, 60000>>, guidance |-> <<60000, 40000>>]
ShapeRoles == [
  procedural_descriptive |-> [narrative_incident |-> 140000, direct_moral_instruction |-> 40000,
                              warning |-> -40000, virtue_statement |-> -40000],
  prophetic_teaching |-> [narrative_incident |-> -40000, direct_moral_instruction |-> 140000,
                          warning |-> 60000, virtue_statement |-> 60000],
  ruling_warning |-> [narrative_incident |-> -20000, direct_moral_instruction |-> 80000,
                      warning |-> 140000],
  virtue |-> [narrative_incident |-> -20000, direct_moral_instruction |-> 60000,
              virtue_statement |-> 140000]]
ShapeBonus(query, role) ==
  IF query.shape \in DOMAIN ShapeRoles /\ role \in DOMAIN ShapeRoles[query.shape]
  THEN ShapeRoles[query.shape][role] ELSE 0

Thematic(query) == query.retrieval \in DOMAIN ThematicCues
PassageRoles == [entity_eschatology |-> {"thematic_passage"},
                 narrative_event |-> {"thematic_passage", "narrative_incident"},
                 ritual_practice |-> {"thematic_passage", "legal_specific_case", "narrative_incident"}]
\* _preferred_role_bonus: a question how something was done prefers no role
RoleBonus(query, role) ==
  CASE query.shape = "procedural_descriptive" -> 0
    [] query.shape # "procedural_descriptive" /\ query.retrieval = "entity_eschatology" ->
         (CASE role = "thematic_passage" -> 140000
            [] role = "narrative_incident" -> 60000
            [] OTHER -> -20000)
    [] query.shape # "procedural_descriptive" /\ query.retrieval \in {"narrative_event", "ritual_practice"} ->
         When(role \in PassageRoles[query.retrieval], 100000)
    [] OTHER -> ProfileBonus(SelectionBonus, query.profile, role)

\* weights of relevance, rerank, centrality, answerability, builder rank and of
\* what is taken off for passing mentions and narrative
Weights(query) == IF Thematic(query) THEN <<20, 18, 28, 20, 4, 6, 2>> ELSE <<16, 18, 26, 22, 8, 10, 4>>
CandidateScore(query, w, c) ==
  Pct(w[1], Saturated(c.fusion)) + Pct(w[2], Saturated(c.rerank)) + Pct(w[3], c.central)
  + Pct(w[4], c.answerability) + Pct(w[5], Clamped(c.builder))
  + When(Aligned(query, c), 80000) + RoleBonus(query, c.role) + ShapeBonus(query, c.role)
  - Pct(w[6], c.incidental) - Pct(w[7], c.specificity)

\* the least score, centrality and answerability
Thresholds(query) ==
  CASE query.retrieval = "entity_eschatology" -> <<460000, 420000, 500000>>
    [] query.retrieval = "narrative_event" -> <<440000, 380000, 460000>>
    [] query.retrieval = "ritual_practice" -> <<480000, 400000, 480000>>
    [] ~ Thematic(query) /\ query.topics = <<>> -> <<700000, 560000, 620000>>
    [] ~ Thematic(query) /\ query.topics # <<>> /\ query.profile = "prophetic_guidance" ->
         <<640000, 580000, 620000>>
    [] ~ Thematic(query) /\ query.topics # <<>> /\ query.profile \in {"warning", "virtue", "guidance"} ->
         <<610000, 550000, 580000>>
    [] OTHER -> <<580000, 420000, 480000>>

-----------------------------------------------------------------------------
(* select_topical_candidates                                                 *)
\* a candidate of another topic has to be outstanding
MissesTopic(query, c) ==
  /\ query.topics # <<>> /\ ~ Aligned(query, c)
  /\ c.central < 900000 \/ c.answerability < 860000 \/ (c.rerank < 700000 /\ c.builder < 750000)
TooNarrative(query, c) ==
  /\ c.role = "narrative_incident"
  /\ \/ /\ query.profile \in DOMAIN PreferredRoles
        /\ c.central < 800000 \/ c.answerability < 800000 \/ ~ Aligned(query, c)
     \/ query.topics = <<>>
Suited(query, c) ==
  IF Thematic(query)
  THEN query.retrieval = "entity_eschatology" => c.passage \/ Aligned(query, c)
  ELSE ~ MissesTopic(query, c) /\ ~ TooNarrative(query, c)

\* a ranked candidate is [c, score]
Passes(query, least, h) ==
  /\ Suited(query, h.c)
  /\ h.score >= least[1] /\ h.c.central >= least[2] /\ h.c.answerability >= least[3]

Ranked(query, weights, candidates) ==
  By(LAMBDA h : <<- h.score, - h.c.central, - h.c.answerability, - h.c.rerank, h.c.incidental,
                  h.c.specificity, h.c.ref, h.place>>,
     [i \in DOMAIN candidates |->
        [c |-> candidates[i], score |-> CandidateScore(query, weights, candidates[i]), place |-> i]])

\* the first of every hadith that passes, as many as may be selected
Selected(query, ranked) ==
  LET chosen[n \in 0 .. Len(ranked)] ==
        IF n = 0 THEN <<>>
        ELSE LET list == chosen[n - 1]
             IN  IF /\ Len(list) < MaxResults
                    /\ \A c \in Range(list) : c.ref # ranked[n].c.ref
                    /\ Passes(query, Thresholds(query), ranked[n])
                 THEN Append(list, ranked[n].c) ELSE list
  IN  chosen[Len(ranked)]

-----------------------------------------------------------------------------
\* passes_topical_evidence_gate
PassesGate(query, c) ==
  /\ c.central >= 420000 /\ c.answerability >= 480000 /\ c.incidental <= 450000
  /\ query.profile = "general_topic" => c.specificity <= 780000
Gated(query, chosen) == KeptAt(chosen, {i \in DOMAIN chosen : PassesGate(query, chosen[i])})
=============================================================================
