---------------------------- MODULE MCTopicalSearch ----------------------------
(* Instance of the topical search: five records of the Bukhari index, four    *)
(* stored hadith of two collections, two guidance units, and questions with   *)
(* a sure topic, with two near topics, with none, on a figure and on how      *)
(* something was done.  A word here stands for six of a real text.            *)
EXTENDS TopicalSearch

MCCanonical(w) == IF w = "angry" THEN "anger" ELSE w
MCSynonymsOf(w) == IF w = "anger" THEN {"wrath"} ELSE {}
MCSimilarity(v, w) ==
  CASE v = w -> Unit
    [] v # w /\ {v, w} \in {{"pray", "prayer"}, {"guest", "guests"}} -> 500000
    [] OTHER -> 0
MCRankOf(n) == Share(n, n + 1)

MCConcepts == <<
  [slug |-> "anger", family |-> "akhlaq", surfaces |-> {<<"anger">>, <<"control", "anger">>},
   biases |-> {"prohibition"}],
  [slug |-> "dajjal", family |-> "eschatology", surfaces |-> {<<"dajjal">>}, biases |-> {}],
  [slug |-> "patience", family |-> "akhlaq", surfaces |-> {<<"patience">>}, biases |-> {"virtue"}] >>
MCQueryFamilies == <<
  [profile |-> "prophetic_guidance", priority |-> 2, cues |-> {<<"prophet", "say">>},
   words |-> {"prophet", "anger"}, anti |-> {<<"story">>}, least |-> 2],
  [profile |-> "guidance", priority |-> 1, cues |-> {<<"advice">>}, words |-> {"advice"},
   anti |-> {}, least |-> 1] >>
MCTopicAliases == [entity_eschatology |-> {<<"dajjal">>}, ritual_practice |-> {<<"night", "prayer">>},
                   narrative_event |-> {<<"hijra">>}, moral_guidance |-> {<<"anger">>}]
MCLeaves == <<
  [slug |-> "akhlaq.anger", general |-> FALSE, vocabulary |-> {<<"anger">>, <<"get", "angry">>},
   words |-> {"anger"}, display |-> {"anger"}],
  [slug |-> "akhlaq.patience", general |-> FALSE, vocabulary |-> {<<"patience">>},
   words |-> {"patience"}, display |-> {"patience"}],
  [slug |-> "ritual.general", general |-> TRUE, vocabulary |-> {<<"prayer">>},
   words |-> {"ritual"}, display |-> {"prayer"}],
  [slug |-> "ritual.night", general |-> FALSE, vocabulary |-> {<<"night", "prayer">>},
   words |-> {"night"}, display |-> {"night"}] >>
MCLeadIns == {<<"what", "did", "the", "prophet", "say", "about">>, <<"tell", "me", "about">>}

Record(ref, matn, vocabulary, label, prophetic, primary, secondary, density, family) ==
  [ref |-> ref, stub |-> FALSE, matn |-> matn, vocabulary |-> vocabulary, label |-> label,
   prophetic |-> prophetic, primary |-> primary, secondary |-> secondary, density |-> density,
   family |-> family]
MCRecords == {
  Record(1, <<"do", "not", "get", "angry">>, {<<"anger">>}, <<"manners">>, TRUE,
         {"akhlaq.anger"}, {}, 850000, "akhlaq"),
  Record(2, <<"he", "kept", "calm">>, {<<"calm">>}, <<"anger">>, FALSE,
         {"akhlaq.anger"}, {"akhlaq.patience"}, 800000, "akhlaq"),
  Record(3, <<"he", "stood", "long">>, {<<"night", "prayer">>}, <<"tahajjud">>, FALSE,
         {"ritual.night", "ritual.general"}, {}, 900000, "ritual"),
  Record(4, <<"honour", "your", "guests">>, {<<"guests">>}, <<"manners">>, TRUE,
         {"akhlaq.guests"}, {}, 900000, "akhlaq"),
  [Record(5, <<"do", "not", "get", "angry">>, {<<"anger">>}, <<>>, TRUE,
          {"akhlaq.anger"}, {}, 900000, "akhlaq") EXCEPT !.stub = TRUE]}

Entry(ref, source, book, chapter, body) ==
  [ref |-> ref, source |-> source, enabled |-> TRUE, display |-> <<"hadith">>, book |-> book,
   chapter |-> chapter, narrator |-> <<"abu">>, body |-> body]
MCEntries == <<
  Entry(11, "hadith:muslim", <<"manners">>, <<"anger">>, <<"do", "not", "get", "angry">>),
  Entry(12, "hadith:muslim", <<"travel">>, <<"visit">>,
        <<"he", "came", "with", "anger", "on", "his", "face", "then", "a", "man", "came",
          "to", "his", "house", "late">>),
  Entry(13, "hadith:muslim", <<"hour">>, <<"dajjal">>, <<"the", "dajjal", "is", "blind">>),
  Entry(14, "hadith:bukhari", <<"manners">>, <<"anger">>, <<"whoever", "controls", "anger">>) >>

MCUnits == <<
  [id |-> "u1", ref |-> 11, source |-> "hadith:muslim", span |-> <<"do", "not", "get", "angry">>,
   summary |-> <<"control", "anger">>, role |-> "direct_moral_instruction", family |-> "akhlaq",
   central |-> {"anger"}, secondary |-> {}, directness |-> 900000, answerability |-> 900000,
   penalty |-> 0, builder |-> 900000],
  [id |-> "u2", ref |-> 12, source |-> "hadith:muslim", span |-> <<"he", "came", "with", "anger">>,
   summary |-> <<>>, role |-> "narrative_incident", family |-> "akhlaq",
   central |-> {}, secondary |-> {"anger"}, directness |-> 300000, answerability |-> 400000,
   penalty |-> 500000, builder |-> 300000] >>

\* what the planner strips from the question before the search
MCQuestions == {
  [raw |-> <<"anger">>, original |-> <<"what", "did", "the", "prophet", "say", "about", "anger">>],
  [raw |-> <<"prophet", "say", "anger">>, original |-> <<>>],
  [raw |-> <<"advice", "patience">>, original |-> <<>>],
  [raw |-> <<"night", "prayer">>, original |-> <<"how", "did", "he", "pray", "at", "night">>],
  [raw |-> <<"prophet", "say", "guests">>,
   original |-> <<"what", "did", "the", "prophet", "say", "about", "guests">>],
  [raw |-> <<"prayer">>, original |-> <<"virtue", "of", "prayer">>],
  [raw |-> <<"dajjal">>, original |-> <<>>]}
MCRequests ==
  {[raw |-> q.raw, original |-> q.original, collection |-> c, prefetched |-> p] :
     q \in MCQuestions, c \in {"hadith:bukhari", "hadith:muslim"}, p \in BOOLEAN}

\* scores of the engine below and above the bound of a similarity
MCScores == {500000, 8000000}
=============================================================================
