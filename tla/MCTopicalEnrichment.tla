------------------------- MODULE MCTopicalEnrichment -------------------------
(***************************************************************************)
(* Model-checking instance of TopicalEnrichment: a taxonomy with the cases *)
(* that the correction layers tell apart (a unique end, an area with one   *)
(* leaf, with a general leaf under either name, with a catch-all), and     *)
(* records that match leaves of one family in every combination.           *)
(***************************************************************************)
EXTENDS TopicalEnrichment

Hajj == <<"ritual", "hajj", "general">>
Ihram == <<"ritual", "hajj", "ihram">>
Fasting == <<"ritual", "sawm", "fasting_general">>
Suhur == <<"ritual", "sawm", "suhur">>
Drinks == <<"fiqh", "food", "drinks">>
Yunus == <<"historical", "prophets", "yunus">>
Other == <<"historical", "prophets", "other">>

MCLeafOrder == <<Hajj, Ihram, Fasting, Suhur, Drinks, Yunus, Other>>
LeafOf(family, baabs, kitabs) == [family |-> family, baabs |-> baabs, kitabs |-> kitabs]
MCLeaf == [t \in {Hajj, Ihram, Fasting, Suhur, Drinks, Yunus, Other} |->
  CASE t = Hajj -> LeafOf("ritual", {"tawaf"}, {"Hajj", "Umrah"})
    [] t = Ihram -> LeafOf("ritual", {"ihram"}, {"Hajj"})
    [] t = Fasting -> LeafOf("ritual", {"ihram"}, {"Fasting"})
    [] t = Suhur -> LeafOf("ritual", {"meal"}, {"Fasting", "Umrah"})
    [] t = Drinks -> LeafOf("fiqh", {}, {"Drinks"})
    [] OTHER -> LeafOf("historical", {}, {"Prophets"})]
MCGeneralWord == {"fasting_general"}
MCSoftBaab == {{"meal", "the meal before dawn"}}

RawSlugs == { Hajj, Ihram, Drinks, <<"fiqh", "hajj", "ihram">>, <<"fiqh", "general">>,
              <<"ritual", "hajj", "stoning">>, <<"ritual", "sawm", "vows">>,
              <<"fiqh", "food", "meat">>, <<"historical", "prophets", "musa">>,
              <<"other">>, <<"zakat">>, <<"fiqh", "zakat">> }
Lists == {<<>>} \cup {<<a>> : a \in RawSlugs} \cup {<<a, b>> : a, b \in RawSlugs}
Long == <<Hajj, Ihram, Fasting, Suhur, Drinks, Yunus, Hajj>>
Raw(p, s, r) == [shape |-> TRUE, density |-> TRUE, primary |-> p, secondary |-> s, reason |-> r]
MCRawDecisions ==
  {Raw(p, s, r) : p \in Lists, s \in {<<a>> : a \in RawSlugs} \cup {<<>>, Long},
                  r \in {NoReason, "off_topic"}}
  \cup {Raw(Long, Long, NoReason)}
  \cup {[Raw(<<Hajj>>, <<>>, NoReason) EXCEPT !.density = FALSE],
        [Raw(<<Hajj>>, <<>>, NoReason) EXCEPT !.shape = FALSE]}

Ritual == {Hajj, Ihram, Fasting, Suhur}
MCRuleRecords ==
  {[family |-> "ritual", kitab |-> k, baab |-> b, emptyMatn |-> e,
    phrases |-> [t \in {Hajj, Ihram, Fasting, Suhur, Drinks, Yunus, Other} |->
                   IF t \in Ritual THEN ph[t] ELSE 0],
    titleWords |-> [t \in {Hajj, Ihram, Fasting, Suhur, Drinks, Yunus, Other} |->
                      IF t = Ihram THEN w ELSE 0]] :
     k \in {"Hajj", "Umrah", "Drinks", "none"},
     b \in {"tawaf", "ihram", "the meal before dawn", "none"},
     e \in BOOLEAN, w \in {0, 2}, ph \in [Ritual -> 0 .. 2]}
=============================================================================
