-------------------------- MODULE MCVerifierService --------------------------
(* Three small corpora.  Tokens from 11 to 19 are the uthmani spelling of the *)
(* token below; 9 is a token that aggressive normalisation takes for 1; 7 is  *)
(* generic, 8 a single letter, and tokens from 21 are in no corpus.  A word 5 *)
(* is the beginning of a word 4, and a word 6 the end of a word 3.            *)
EXTENDS VerifierService

CONSTANT MaxQuery   \* the longest query that is tried, in tokens

MCStaticSizes == <<2>>
MCAggressive(t) == CASE t = 9 -> 1 [] t \in 11 .. 19 -> t - 10 [] OTHER -> t
MCLetters(t) == CASE t % 10 = 8 -> 1 [] t % 10 = 7 -> 2 [] t % 10 \in {5, 6} -> 4 [] OTHER -> 5
MCParts(t, u) == CASE t = 5 /\ u = 4 -> {"start"} [] t = 6 /\ u = 3 -> {"end"} [] OTHER -> {}
MCEdits(t, u) == IF t = u THEN 0 ELSE IF MCAggressive(t) = MCAggressive(u) THEN 1 ELSE 4

\* an ayah that stands in two surahs, one that is a piece of another, a refrain,
\* two that differ in the spelling of one token, and one of a single token
SimpleA == << << <<1, 2>>, <<3>>, <<4, 5, 6, 2>>, <<1, 2>>, <<4, 7>> >>,
              << <<9, 2, 3, 4>>, <<4, 5, 6, 2>>, <<1, 2, 3, 4>>, <<8>> >> >>
SimpleB == << << <<1, 2, 3>>, <<4, 5>>, <<1, 2, 3>>, <<4, 6>> >>,
              << <<1, 2, 3>>, <<4, 5>>, <<7, 1>>, <<3, 2, 4, 4, 5, 1>> >> >>
\* more surahs than are searched as likely, each with a piece of the first
SimpleC == << << <<1, 2>>, <<3>>, <<4, 5>>, <<6>> >>,
              << <<1, 2, 3, 6>>, <<2, 6>> >>, << <<3, 4, 5, 6>>, <<4, 6>> >>,
              << <<2, 3, 4, 6>>, <<3, 6>> >> >>
Uthmani(corpus, spelled) ==
  [s \in DOMAIN corpus |-> [a \in DOMAIN corpus[s] |->
    [i \in DOMAIN corpus[s][a] |->
      IF corpus[s][a][i] \in spelled THEN corpus[s][a][i] + 10 ELSE corpus[s][a][i]]]]

MCCorpora == {<<SimpleA, Uthmani(SimpleA, {2, 5})>>, <<SimpleB>>, <<SimpleC>>}

Pieces(corpora) ==
  UNION {LET text == FlattenSeq(corpora[i][s])
         IN  {SubSeq(text, a, Min({a + n - 1, Len(text)})) :
                a \in 1 .. Len(text), n \in 1 .. Min({MaxQuery, Len(text)})}
         : i \in DOMAIN corpora, s \in DOMAIN corpora[1]}
\* a piece of a surah, one with a wrong token in the middle, one that goes on
\* with tokens that are nowhere, and one that is cut in mid-word at an end
Clipped(t) ==
  {[t EXCEPT ![Len(t)] = c] : c \in IF Last(t) = 4 THEN {5} ELSE {}}
  \cup {[t EXCEPT ![1] = c] : c \in IF t[1] = 3 THEN {6} ELSE {}}
Texts(corpora) ==
  LET pieces == Pieces(corpora)
  IN  pieces \cup {[t EXCEPT ![(Len(t) + 1) \div 2] = 6] : t \in {p \in pieces : Len(p) > 3}}
      \cup UNION {Clipped(t) : t \in pieces}
      \cup {t \o <<21, 22, 23, 24>> : t \in {p \in pieces : Len(p) \in 1 .. 3}}
MCAsked(corpora) ==
  {[text |-> t, pointed |-> p, uthmani |-> u, asks |-> FALSE] :
      t \in Texts(corpora), p \in {TRUE}, u \in BOOLEAN}
  \cup {[text |-> t, pointed |-> FALSE, uthmani |-> FALSE, asks |-> TRUE] :
      t \in {FlattenSeq(SubSeq(corpora[1][1], 1, n)) : n \in {1, 2}}}
=============================================================================
