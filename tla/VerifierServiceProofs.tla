------------------------ MODULE VerifierServiceProofs ------------------------
(***************************************************************************)
(* For all corpora, queries, shortlists and windows, nothing is listed     *)
(* twice in an answer of the verifier (NothingListedTwice) and a text that *)
(* is called exact stands in the ayat that are cited (ExactIsQuoted).      *)
(*                                                                         *)
(* Lists first: what is kept, sorted, cut, joined or flattened is drawn    *)
(* from the lists it was made of, and the items of lists that are joined   *)
(* stand one list after the other (Lined).  Hence a text found token by    *)
(* token in a surah stands in the ayat of its first to its last token      *)
(* (SpanHolds).  Then the searches: whatever they find are rows of surahs  *)
(* of the corpus in work, of their own kind, and those with a mark from    *)
(* which a match is called exact hold the query (Matched).                 *)
(* Then the collections: a selection lists a citation once, and a passage  *)
(* that overlaps no anchor shares no ayah with it (Beside, ApartFrom).     *)
(* Last the inductive invariant VerifierInv and the steps of the service.  *)
(***************************************************************************)
EXTENDS VerifierService, FiniteSetTheorems, SequenceTheorems, WellFoundedInduction, TLAPS

-----------------------------------------------------------------------------
\* a set of naturals that is not empty has a least element
LEMMA Least ==
  ASSUME NEW T \in SUBSET Nat, T # {}
  PROVE  \E x \in T : \A y \in T : x <= y
<1> DEFINE R == {p \in Nat \X Nat : p[1] < p[2]}
<1>1. IsWellFoundedOn(R, Nat)
  <2>1. R = OpToRel(<, Nat)
    BY DEF OpToRel
  <2> QED BY <2>1, NatLessThanWellFounded
<1>2. \A y, x \in Nat : y < x => <<y, x>> \in R
  OBVIOUS
<1> HIDE DEF R
<1>3. PICK x \in T : \A y \in T : <<y, x>> \notin R
  BY <1>1, WFMin
<1>4. \A y \in T : ~ (y < x)
  BY <1>2, <1>3
<1> QED BY <1>4

\* a function of the steps stays in a family of sets when each step does
LEMMA Steps ==
  ASSUME NEW N \in Nat, NEW f, NEW T,
         f[0] \in T[0],
         \A n \in 1 .. N : f[n - 1] \in T[n - 1] => f[n] \in T[n]
  PROVE  \A n \in 0 .. N : f[n] \in T[n]
<1> DEFINE Bad == {n \in 0 .. N : f[n] \notin T[n]}
<1>1. SUFFICES ASSUME Bad # {} PROVE FALSE
  BY <1>1
<1>2. PICK n \in Bad : \A m \in Bad : n <= m
  BY <1>1, Least, Bad \in SUBSET Nat
<1>3. n \in 1 .. N
  BY <1>2
<1>4. n - 1 \in 0 .. N /\ n - 1 \notin Bad
  BY <1>2, <1>3
<1> QED BY <1>2, <1>3, <1>4

\* and there is a function of the steps
StepsStay(N, S, T, G, base) ==
  /\ N \in Nat /\ base \in T[0]
  /\ \A n \in 0 .. N : T[n] \subseteq S
  /\ \A n \in 1 .. N : \A s \in T[n - 1] : G[n][s] \in T[n]
HasSteps(N, S, T, G, base) ==
  \E f \in [0 .. N -> S] :
    /\ f[0] = base
    /\ \A n \in 1 .. N : f[n] = G[n][f[n - 1]]
    /\ \A n \in 0 .. N : f[n] \in T[n]
\* such a function exists, by induction on the number of steps
LEMMA Recursion ==
  ASSUME NEW N, NEW S, NEW T, NEW G, NEW base, StepsStay(N, S, T, G, base)
  PROVE  HasSteps(N, S, T, G, base)
<1>0. /\ N \in Nat /\ base \in T[0]
      /\ \A n \in 0 .. N : T[n] \subseteq S
      /\ \A n \in 1 .. N : \A s \in T[n - 1] : G[n][s] \in T[n]
  BY DEF StepsStay
<1> DEFINE P(k, f) == f = [n \in 0 .. k |-> IF n = 0 THEN base ELSE G[n][f[n - 1]]]
           Bad == {k \in 0 .. N : ~ \E f : P(k, f)}
<1>1. SUFFICES ASSUME Bad # {} PROVE FALSE
  <2>1. N \notin Bad => \E f : P(N, f)
    BY <1>0
  <2>2. ASSUME NEW f, P(N, f)
        PROVE  f[0] = base /\ \A n \in 1 .. N : f[n] = G[n][f[n - 1]]
    BY <1>0, <2>2
  <2>3. ASSUME NEW f, P(N, f)
        PROVE  \A n \in 0 .. N : f[n] \in T[n]
    <3>1. f[0] \in T[0] /\ \A n \in 1 .. N : f[n - 1] \in T[n - 1] => f[n] \in T[n]
      BY <1>0, <2>2, <2>3
    <3> QED BY <1>0, <3>1, Steps
  <2>4. ASSUME NEW f, P(N, f)
        PROVE  f \in [0 .. N -> S]
    <3>1. \A n \in 0 .. N : f[n] \in S
      BY <1>0, <2>3, <2>4
    <3> QED BY <1>0, <2>4, <3>1
  <2> HIDE DEF P
  <2> QED BY <1>1, <2>1, <2>2, <2>3, <2>4 DEF HasSteps
<1>2. PICK k \in Bad : \A m \in Bad : k <= m
  <2> HIDE DEF P
  <2> QED BY <1>1, Least, Bad \in SUBSET Nat
<1>3. CASE k = 0
  <2> DEFINE f == [n \in 0 .. 0 |-> base]
  <2>1. f = [n \in 0 .. 0 |-> IF n = 0 THEN base ELSE G[n][f[n - 1]]]
    OBVIOUS
  <2> QED BY <1>2, <1>3, <2>1
<1>4. CASE k # 0
  <2>1. k \in Nat /\ k - 1 \in 0 .. N /\ k - 1 \notin Bad
    BY <1>0, <1>2, <1>4
  <2>2. PICK f : P(k - 1, f)
    BY <2>1
  <2> DEFINE h == [n \in 0 .. k |-> IF n = k THEN G[k][f[k - 1]] ELSE f[n]]
  <2>3. \A n \in 0 .. k : h[n] = IF n = 0 THEN base ELSE G[n][h[n - 1]]
    <3> TAKE n \in 0 .. k
    <3>1. CASE n = k
      <4>1. h[n - 1] = f[k - 1]
        BY <2>1, <3>1
      <4> QED BY <2>1, <3>1, <4>1, <1>4
    <3>2. CASE n # k
      <4>1. n \in 0 .. k - 1
        BY <2>1, <3>2
      <4>2. h[n] = f[n] /\ (n # 0 => h[n - 1] = f[n - 1])
        BY <2>1, <3>2
      <4>3. f[n] = IF n = 0 THEN base ELSE G[n][f[n - 1]]
        BY <2>2, <4>1
      <4> QED BY <4>2, <4>3
    <3> QED BY <3>1, <3>2
  <2>4. P(k, h)
    BY <2>3
  <2> QED BY <1>2, <2>4
<1> QED BY <1>3, <1>4
-----------------------------------------------------------------------------
\* a list is a function on 1 .. its length and a sequence of its items
LEMMA ListFacts ==
  ASSUME NEW s, IsList(s)
  PROVE  /\ Len(s) \in Nat /\ DOMAIN s = 1 .. Len(s)
         /\ s = [i \in 1 .. Len(s) |-> s[i]]
         /\ s \in Seq(ToSet(s))
BY DEF IsList

\* a sequence is a list
LEMMA SeqIsList ==
  ASSUME NEW S, NEW s \in Seq(S)
  PROVE  IsList(s)
<1>1. s \in [1 .. Len(s) -> S] /\ Len(s) \in Nat
  OBVIOUS
<1>2. s \in [1 .. Len(s) -> ToSet(s)]
  BY <1>1 DEF ToSet
<1> QED BY <1>1, <1>2 DEF IsList

\* a function on 1 .. n is a list of length n
LEMMA FunctionIsList ==
  ASSUME NEW n \in Nat, NEW f, f = [i \in 1 .. n |-> f[i]]
  PROVE  IsList(f) /\ Len(f) = n /\ DOMAIN f = 1 .. n
<1>1. f \in [1 .. n -> ToSet(f)]
  BY DEF ToSet
<1>2. f \in Seq(ToSet(f))
  BY <1>1
<1> QED BY <1>1, <1>2 DEF IsList

\* s is made of different places of t
Picks(s, t, at) ==
  /\ IsList(s)
  /\ at \in [DOMAIN s -> DOMAIN t]
  /\ \A i \in DOMAIN s : s[i] = t[at[i]]
  /\ \A i, j \in DOMAIN s : at[i] = at[j] => i = j

\* keeping the items at given places picks items at those places, in order
LEMMA KeptPicks ==
  ASSUME NEW seq, IsList(seq), NEW places
  PROVE  \E at : Picks(Kept(seq, places), seq, at)
                 /\ \A i \in DOMAIN Kept(seq, places) : at[i] \in places
<1> DEFINE N == Len(seq)
           X == ToSet(seq)
           Fits(s, n) == \E at \in [1 .. Len(s) -> (1 .. n) \cap places] :
                           /\ \A i \in 1 .. Len(s) : s[i] = seq[at[i]]
                           /\ \A i, j \in 1 .. Len(s) : at[i] = at[j] => i = j
           T == [n \in 0 .. N |-> {s \in Seq(X) : Fits(s, n)}]
           next(n, s) == IF n \in places THEN Append(s, seq[n]) ELSE s
           G == [n \in 1 .. N |-> [s \in T[n - 1] |-> next(n, s)]]
<1>1. N \in Nat /\ DOMAIN seq = 1 .. N /\ \A n \in 1 .. N : seq[n] \in X
  BY ListFacts DEF ToSet
<1>2. <<>> \in T[0]
  <2>1. Fits(<<>>, 0)
    <3> DEFINE at == [i \in {} |-> 1]
    <3>1. at \in [1 .. Len(<<>>) -> (1 .. 0) \cap places]
      OBVIOUS
    <3> QED BY <3>1
  <2>2. 0 \in 0 .. N /\ <<>> \in Seq(X)
    BY <1>1
  <2> HIDE DEF Fits
  <2> QED BY <2>1, <2>2
<1>3. ASSUME NEW n \in 1 .. N, NEW s \in T[n - 1]
      PROVE  next(n, s) \in T[n]
  <2>1. n - 1 \in 0 .. N /\ n \in 0 .. N
    BY <1>1
  <2>2. s \in Seq(X) /\ Fits(s, n - 1)
    BY <2>1
  <2>3. PICK at \in [1 .. Len(s) -> (1 .. n - 1) \cap places] :
          /\ \A i \in 1 .. Len(s) : s[i] = seq[at[i]]
          /\ \A i, j \in 1 .. Len(s) : at[i] = at[j] => i = j
    BY <2>2
  <2>4. CASE n \notin places
    <3>1. at \in [1 .. Len(s) -> (1 .. n) \cap places]
      BY <1>1
    <3>2. Fits(s, n)
      BY <2>3, <3>1
    <3> QED BY <2>1, <2>2, <2>4, <3>2
  <2>5. CASE n \in places
    <3> DEFINE b == [i \in 1 .. Len(s) + 1 |-> IF i = Len(s) + 1 THEN n ELSE at[i]]
               r == Append(s, seq[n])
    <3>1. r \in Seq(X) /\ Len(r) = Len(s) + 1 /\ Len(s) \in Nat
          /\ \A i \in 1 .. Len(r) : r[i] = IF i = Len(s) + 1 THEN seq[n] ELSE s[i]
      BY <1>1, <2>2
    <3>2. \A i \in 1 .. Len(s) : at[i] \in 1 .. n - 1 /\ at[i] \in places
      BY <2>3
    <3>3. b \in [1 .. Len(r) -> (1 .. n) \cap places]
      BY <3>1, <3>2, <2>5
    <3>4. \A i \in 1 .. Len(r) : r[i] = seq[b[i]]
      BY <3>1, <2>3
    <3>5. ASSUME NEW i \in 1 .. Len(r), NEW j \in 1 .. Len(r), b[i] = b[j]
          PROVE  i = j
      <4>1. CASE i = Len(s) + 1 /\ j = Len(s) + 1
        BY <4>1
      <4>2. CASE i = Len(s) + 1 /\ j # Len(s) + 1
        <5>1. b[i] = n /\ b[j] = at[j] /\ j \in 1 .. Len(s)
          BY <3>1, <4>2
        <5> QED BY <5>1, <3>2, <3>5, <1>1
      <4>3. CASE i # Len(s) + 1 /\ j = Len(s) + 1
        <5>1. b[j] = n /\ b[i] = at[i] /\ i \in 1 .. Len(s)
          BY <3>1, <4>3
        <5> QED BY <5>1, <3>2, <3>5, <1>1
      <4>4. CASE i # Len(s) + 1 /\ j # Len(s) + 1
        <5>1. b[j] = at[j] /\ b[i] = at[i] /\ i \in 1 .. Len(s) /\ j \in 1 .. Len(s)
          BY <3>1, <4>4
        <5> QED BY <5>1, <3>5, <2>3
      <4> QED BY <4>1, <4>2, <4>3, <4>4
    <3>6. Fits(r, n)
      <4> HIDE DEF r, b
      <4> QED BY <3>3, <3>4, <3>5
    <3> QED BY <2>1, <2>5, <3>1, <3>6
  <2> QED BY <2>4, <2>5
<1>4. \A n \in 1 .. N : \A s \in T[n - 1] : G[n][s] = next(n, s)
  OBVIOUS
<1> DEFINE Is(f) == f = [n \in 0 .. N |-> IF n = 0 THEN <<>> ELSE next(n, f[n - 1])]
           kept == CHOOSE f : Is(f)
<1>5. Is(kept)
  <2>1. \A n \in 1 .. N : \A s \in T[n - 1] : G[n][s] \in T[n]
    <3> HIDE DEF T, G, next
    <3> QED BY <1>3, <1>4
  <2>2. PICK f \in [0 .. N -> Seq(X)] :
           /\ f[0] = <<>>
           /\ \A n \in 1 .. N : f[n] = G[n][f[n - 1]]
           /\ \A n \in 0 .. N : f[n] \in T[n]
    <3>1. \A n \in 0 .. N : T[n] \subseteq Seq(X)
      OBVIOUS
    <3> HIDE DEF T, G, N, X
    <3>2. StepsStay(N, Seq(X), T, G, <<>>)
      BY <1>1, <1>2, <2>1, <3>1 DEF StepsStay
    <3> QED BY <3>2, Recursion DEF HasSteps
  <2>3. Is(f)
    <3> HIDE DEF T, G, next
    <3>1. \A n \in 0 .. N : f[n] = IF n = 0 THEN <<>> ELSE next(n, f[n - 1])
      BY <1>1, <1>4, <2>2
    <3> QED BY <2>2, <3>1
  <2> QED BY <2>3
<1>6. kept[0] \in T[0]
  <2> HIDE DEF T, next, kept
  <2> QED BY <1>1, <1>2, <1>5
<1>7. \A n \in 1 .. N : kept[n - 1] \in T[n - 1] => kept[n] \in T[n]
  <2> HIDE DEF T, next, kept
  <2> QED BY <1>1, <1>3, <1>5
<1>8. \A n \in 0 .. N : kept[n] \in T[n]
  <2> HIDE DEF T, next, kept, N, Is
  <2> QED BY <1>1, <1>6, <1>7, Steps
<1>9. Kept(seq, places) = kept[N]
  BY DEF Kept
<1>10. PICK at \in [1 .. Len(kept[N]) -> (1 .. N) \cap places] :
          /\ \A i \in 1 .. Len(kept[N]) : kept[N][i] = seq[at[i]]
          /\ \A i, j \in 1 .. Len(kept[N]) : at[i] = at[j] => i = j
  <2> HIDE DEF kept
  <2>1. kept[N] \in T[N] /\ N \in 0 .. N
    <3> HIDE DEF T
    <3> QED BY <1>1, <1>8
  <2> QED BY <2>1
<1>11. IsList(kept[N]) /\ DOMAIN kept[N] = 1 .. Len(kept[N])
  <2> HIDE DEF kept
  <2>1. kept[N] \in T[N] /\ N \in 0 .. N
    <3> HIDE DEF T
    <3> QED BY <1>1, <1>8
  <2>2. kept[N] \in Seq(X)
    BY <2>1, <1>1
  <2> QED BY <2>2, SeqIsList
<1> QED
  <2> HIDE DEF kept
  <2>1. Picks(Kept(seq, places), seq, at)
    BY <1>1, <1>9, <1>10, <1>11 DEF Picks
  <2> QED BY <2>1, <1>9, <1>10, <1>11

-----------------------------------------------------------------------------
\* the minimum of naturals is one of them, and no greater than the others
LEMMA MinOf ==
  ASSUME NEW S \in SUBSET Nat, S # {}
  PROVE  Min(S) \in S /\ \A y \in S : Min(S) <= y
BY Least DEF Min

\* the smaller and the greater of two numbers
LEMMA TwoNumbers ==
  ASSUME NEW a \in Int, NEW b \in Int
  PROVE  /\ Min({a, b}) \in {a, b} /\ Min({a, b}) <= a /\ Min({a, b}) <= b
         /\ Max({a, b}) \in {a, b} /\ Max({a, b}) >= a /\ Max({a, b}) >= b
<1>1. \E x \in {a, b} : \A y \in {a, b} : x <= y
  <2>1. CASE a <= b
    BY <2>1
  <2>2. CASE ~ (a <= b)
    BY <2>2
  <2> QED BY <2>1, <2>2
<1>2. \E x \in {a, b} : \A y \in {a, b} : x >= y
  <2>1. CASE a <= b
    BY <2>1
  <2>2. CASE ~ (a <= b)
    BY <2>2
  <2> QED BY <2>1, <2>2
<1>3. Min({a, b}) \in {a, b} /\ \A y \in {a, b} : Min({a, b}) <= y
  BY <1>1 DEF Min
<1>4. Max({a, b}) \in {a, b} /\ \A y \in {a, b} : Max({a, b}) >= y
  BY <1>2 DEF Max
<1> QED BY <1>3, <1>4

\* every item of s is one of t
Drawn(s, t) == IsList(s) /\ \A i \in DOMAIN s : \E j \in DOMAIN t : s[i] = t[j]

\* what is picked from a list is drawn from it
LEMMA PicksDrawn ==
  ASSUME NEW s, NEW t, NEW at, Picks(s, t, at)
  PROVE  Drawn(s, t)
<1>1. \A i \in DOMAIN s : at[i] \in DOMAIN t /\ s[i] = t[at[i]]
  BY DEF Picks
<1> QED BY <1>1 DEF Picks, Drawn

\* drawing from what was drawn
LEMMA DrawnTrans ==
  ASSUME NEW s, NEW t, NEW u, Drawn(s, t), Drawn(t, u)
  PROVE  Drawn(s, u)
BY DEF Drawn

\* what is kept of a list is drawn from it
LEMMA KeptDrawn ==
  ASSUME NEW seq, IsList(seq), NEW places
  PROVE  Drawn(Kept(seq, places), seq)
BY KeptPicks, PicksDrawn

\* the empty list is drawn from every list
LEMMA Empty ==
  /\ IsList(<<>>) /\ DOMAIN <<>> = {} /\ Len(<<>>) = 0
  /\ \A t : Drawn(<<>>, t)
<1>1. <<>> \in Seq(ToSet(<<>>)) /\ DOMAIN <<>> = {} /\ Len(<<>>) = 0
  OBVIOUS
<1> QED BY <1>1 DEF IsList, Drawn

\* a list is empty when its length is zero
LEMMA EmptyList ==
  ASSUME NEW s, IsList(s)
  PROVE  (s = <<>>) <=> (Len(s) = 0)
BY ListFacts

\* a slice is drawn from the list, at consecutive places
LEMMA SubSeqDrawn ==
  ASSUME NEW s, IsList(s), NEW a \in 1 .. Len(s) + 1, NEW b \in 0 .. Len(s)
  PROVE  /\ Drawn(SubSeq(s, a, b), s)
         /\ Len(SubSeq(s, a, b)) = IF b < a THEN 0 ELSE b - a + 1
         /\ \A i \in DOMAIN SubSeq(s, a, b) : SubSeq(s, a, b)[i] = s[a + i - 1]
                                             /\ a + i - 1 \in DOMAIN s
<1>1. s \in Seq(ToSet(s)) /\ Len(s) \in Nat /\ DOMAIN s = 1 .. Len(s)
  BY ListFacts
<1>2. \A i \in a .. b : s[i] \in ToSet(s)
  BY <1>1 DEF ToSet
<1>3. /\ SubSeq(s, a, b) \in Seq(ToSet(s))
      /\ Len(SubSeq(s, a, b)) = IF b < a THEN 0 ELSE b - a + 1
      /\ \A i \in 1 .. b - a + 1 : SubSeq(s, a, b)[i] = s[a + i - 1]
  BY <1>1, <1>2, SubSeqProperties
<1>4. IsList(SubSeq(s, a, b)) /\ DOMAIN SubSeq(s, a, b) = 1 .. Len(SubSeq(s, a, b))
  <2>1. IsList(SubSeq(s, a, b))
    BY <1>3, SeqIsList
  <2> QED BY <2>1, ListFacts
<1>5. \A i \in DOMAIN SubSeq(s, a, b) : i \in 1 .. b - a + 1 /\ a + i - 1 \in DOMAIN s
  BY <1>1, <1>3, <1>4
<1> QED BY <1>3, <1>4, <1>5 DEF Drawn

\* the first items of a list are drawn from it, each at its own place
LEMMA UptoDrawn ==
  ASSUME NEW s, IsList(s), NEW n \in Nat
  PROVE  /\ Drawn(Upto(n, s), s)
         /\ \A i \in DOMAIN Upto(n, s) : i \in DOMAIN s /\ Upto(n, s)[i] = s[i]
<1>1. Len(s) \in Nat
  BY ListFacts
<1>2. Min({n, Len(s)}) \in 0 .. Len(s)
  <2> DEFINE m == Len(s)
  <2>1. n \in Int /\ m \in Int /\ m >= 0
    BY <1>1
  <2> HIDE DEF m
  <2>2. Min({n, m}) \in {n, m} /\ Min({n, m}) <= m
    BY <2>1, TwoNumbers
  <2>3. Min({n, m}) \in 0 .. m
    BY <2>1, <2>2
  <2> QED BY <2>3 DEF m
<1>3. 1 \in 1 .. Len(s) + 1
  BY <1>1
<1>4. \A i \in DOMAIN Upto(n, s) : 1 + i - 1 \in DOMAIN s /\ Upto(n, s)[i] = s[1 + i - 1]
  BY <1>2, <1>3, SubSeqDrawn DEF Upto
<1>5. Drawn(Upto(n, s), s)
  BY <1>2, <1>3, SubSeqDrawn DEF Upto
<1>6. \A i \in DOMAIN Upto(n, s) : i \in Int
  BY <1>5, ListFacts DEF Drawn
<1> QED BY <1>4, <1>5, <1>6

\* an item of a concatenation is one of either list
LEMMA ConcatList ==
  ASSUME NEW s, NEW t, IsList(s), IsList(t)
  PROVE  /\ IsList(s \o t) /\ Len(s \o t) = Len(s) + Len(t)
         /\ \A i \in DOMAIN (s \o t) :
              \/ i \in DOMAIN s /\ (s \o t)[i] = s[i]
              \/ i - Len(s) \in DOMAIN t /\ i \notin DOMAIN s /\ (s \o t)[i] = t[i - Len(s)]
<1> DEFINE X == ToSet(s) \cup ToSet(t)
<1>1. s \in Seq(X) /\ t \in Seq(X)
  <2>1. s \in Seq(ToSet(s)) /\ t \in Seq(ToSet(t))
    BY ListFacts
  <2> QED BY <2>1, SeqMonotonic
<1>2. s \o t \in Seq(X) /\ Len(s \o t) = Len(s) + Len(t)
  BY <1>1
<1>3. IsList(s \o t) /\ DOMAIN (s \o t) = 1 .. Len(s) + Len(t)
  BY <1>2, SeqIsList, ListFacts
<1>4. \A i \in 1 .. Len(s) + Len(t) :
         (s \o t)[i] = IF i <= Len(s) THEN s[i] ELSE t[i - Len(s)]
  BY <1>1
<1>5. Len(s) \in Nat /\ Len(t) \in Nat /\ DOMAIN s = 1 .. Len(s) /\ DOMAIN t = 1 .. Len(t)
  BY ListFacts
<1> QED BY <1>2, <1>3, <1>4, <1>5

\* appending adds the item at the end
LEMMA AppendList ==
  ASSUME NEW s, NEW x, IsList(s)
  PROVE  /\ IsList(Append(s, x)) /\ Len(Append(s, x)) = Len(s) + 1
         /\ \A i \in DOMAIN Append(s, x) : Append(s, x)[i] = IF i = Len(s) + 1 THEN x ELSE s[i]
         /\ DOMAIN Append(s, x) = DOMAIN s \cup {Len(s) + 1}
<1> DEFINE X == ToSet(s) \cup {x}
<1>1. s \in Seq(X)
  <2>1. s \in Seq(ToSet(s))
    BY ListFacts
  <2> QED BY <2>1, SeqMonotonic
<1>2. Append(s, x) \in Seq(X) /\ Len(Append(s, x)) = Len(s) + 1
  BY <1>1
<1>3. Len(s) \in Nat /\ DOMAIN s = 1 .. Len(s)
  BY ListFacts
<1>4. IsList(Append(s, x)) /\ DOMAIN Append(s, x) = 1 .. Len(s) + 1
  BY <1>2, SeqIsList, ListFacts
<1> QED BY <1>1, <1>2, <1>3, <1>4

-----------------------------------------------------------------------------
\* what the flattening of a list of lists is before each of its steps
Flattening(ss, X, flat) ==
  /\ \A i \in 1 .. Len(ss) :
       flat[i] \in Seq(X) /\ flat[i] = IF i = 1 THEN ss[i] ELSE flat[i - 1] \o ss[i]
  /\ FlattenSeq(ss) = flat[Len(ss)]

\* lists are flattened step by step
LEMMA FlattenSteps ==
  ASSUME NEW ss, IsList(ss), ss # <<>>, \A i \in DOMAIN ss : IsList(ss[i])
  PROVE  \E flat : Flattening(ss, UNION {ToSet(ss[i]) : i \in DOMAIN ss}, flat)
<1> DEFINE N == Len(ss)
           X == UNION {ToSet(ss[i]) : i \in DOMAIN ss}
<1>0. N \in Nat /\ N # 0 /\ DOMAIN ss = 1 .. N
  BY ListFacts, EmptyList
<1> DEFINE M == N - 1
           T == [n \in 0 .. M |-> Seq(X)]
           G == [n \in 1 .. M |-> [s \in Seq(X) |-> s \o ss[n + 1]]]
           Is(f) == f = [i \in 1 .. N |-> IF i = 1 THEN ss[i] ELSE f[i - 1] \o ss[i]]
           flat == CHOOSE f : Is(f)
<1>1. M \in Nat /\ N = M + 1 /\ DOMAIN ss = 1 .. N
  BY <1>0
<1>2. \A i \in 1 .. N : ss[i] \in Seq(X)
  <2> TAKE i \in 1 .. N
  <2>1. ss[i] \in Seq(ToSet(ss[i]))
    BY <1>0, ListFacts
  <2>2. ToSet(ss[i]) \subseteq X
    OBVIOUS
  <2> HIDE DEF X
  <2> QED BY <2>1, <2>2, SeqMonotonic
<1>3. \A n \in 1 .. M : \A s \in Seq(X) : s \o ss[n + 1] \in Seq(X)
  <2> HIDE DEF X, N, M
  <2> TAKE n \in 1 .. M
  <2> TAKE s \in Seq(X)
  <2>1. n + 1 \in 1 .. N
    BY <1>1
  <2>2. ss[n + 1] \in Seq(X)
    BY <2>1, <1>2
  <2> QED BY <2>2, ConcatProperties
<1>4. Is(flat)
  <2>1. StepsStay(M, Seq(X), T, G, ss[1])
    <3>1. ss[1] \in Seq(X)
      BY <1>1, <1>2
    <3>2. T[0] = Seq(X) /\ (\A n \in 0 .. M : T[n] = Seq(X))
          /\ \A n \in 1 .. M : T[n - 1] = Seq(X) /\ n \in 0 .. M
      BY <1>1
    <3>3. \A n \in 1 .. M : \A s \in Seq(X) : G[n][s] \in Seq(X)
      <4> HIDE DEF X, M
      <4> QED BY <1>3
    <3> HIDE DEF X, M, T, G
    <3> QED BY <1>1, <3>1, <3>2, <3>3 DEF StepsStay
  <2>2. PICK f \in [0 .. M -> Seq(X)] :
          f[0] = ss[1] /\ \A n \in 1 .. M : f[n] = G[n][f[n - 1]]
    <3> HIDE DEF X, M, T, G
    <3> QED BY <2>1, Recursion DEF HasSteps
  <2>3. \A n \in 1 .. M : f[n] = f[n - 1] \o ss[n + 1]
    <3> HIDE DEF X, M
    <3> TAKE n \in 1 .. M
    <3>1. n - 1 \in 0 .. M
      BY <1>1
    <3> QED BY <2>2, <3>1
  <2> DEFINE h == [i \in 1 .. N |-> f[i - 1]]
  <2>4. \A i \in 1 .. N : h[i] = IF i = 1 THEN ss[i] ELSE h[i - 1] \o ss[i]
    <3> TAKE i \in 1 .. N
    <3>1. CASE i = 1
      BY <2>2, <3>1
    <3>2. CASE i # 1
      <4>1. i - 1 \in 1 .. M /\ i - 1 \in 1 .. N /\ (i - 1) + 1 = i
        BY <3>2, <1>1
      <4>2. h[i - 1] = f[(i - 1) - 1] /\ h[i] = f[i - 1]
        BY <4>1
      <4> HIDE DEF h
      <4> QED BY <4>1, <4>2, <2>3, <3>2
    <3> QED BY <3>1, <3>2
  <2>5. Is(h)
    BY <2>4
  <2> QED BY <2>5
<1> DEFINE F == [n \in 0 .. M |-> flat[n + 1]]
<1>5. \A i \in 1 .. N : flat[i] = IF i = 1 THEN ss[i] ELSE flat[i - 1] \o ss[i]
  <2> HIDE DEF flat
  <2> QED BY <1>4
<1>6. F[0] \in T[0] /\ \A n \in 1 .. M : F[n - 1] \in T[n - 1] => F[n] \in T[n]
  <2> HIDE DEF flat, X, N, M
  <2>1. F[0] = ss[1] /\ ss[1] \in Seq(X) /\ T[0] = Seq(X)
    BY <1>1, <1>2, <1>5
  <2>2. ASSUME NEW n \in 1 .. M, F[n - 1] \in T[n - 1]
        PROVE  F[n] \in T[n]
    <3>1. n + 1 \in 1 .. N /\ n + 1 # 1 /\ (n + 1) - 1 = n /\ n - 1 \in 0 .. M /\ n \in 0 .. M
          /\ (n - 1) + 1 = n
      BY <1>1
    <3>2. F[n] = flat[n + 1] /\ F[n - 1] = flat[n] /\ T[n] = Seq(X) /\ T[n - 1] = Seq(X)
      BY <3>1
    <3>3. F[n] = F[n - 1] \o ss[n + 1]
      BY <3>1, <3>2, <1>5
    <3> QED BY <3>2, <3>3, <2>2, <1>3
  <2> QED BY <2>1, <2>2
<1>7. \A n \in 0 .. M : F[n] \in T[n]
  <2> HIDE DEF F, T, M
  <2> QED BY <1>1, <1>6, Steps
<1>8. FlattenSeq(ss) = flat[N]
  BY <1>0 DEF FlattenSeq
<1>9. \A i \in 1 .. N : flat[i] \in Seq(X)
  <2> HIDE DEF flat, X, N, M
  <2> TAKE i \in 1 .. N
  <2>1. i - 1 \in 0 .. M /\ F[i - 1] = flat[(i - 1) + 1] /\ (i - 1) + 1 = i /\ T[i - 1] = Seq(X)
    BY <1>1
  <2> HIDE DEF F, T
  <2> QED BY <1>7, <2>1
<1>10. Flattening(ss, X, flat)
  <2> HIDE DEF flat, X
  <2> QED BY <1>5, <1>8, <1>9 DEF Flattening
<1> HIDE DEF flat
<1> QED BY <1>10

\* the items of a flattened list are those of its lists
LEMMA FlattenList ==
  ASSUME NEW ss, IsList(ss), \A i \in DOMAIN ss : IsList(ss[i])
  PROVE  /\ IsList(FlattenSeq(ss))
         /\ \A i \in DOMAIN FlattenSeq(ss) :
              \E j \in DOMAIN ss : \E k \in DOMAIN ss[j] : FlattenSeq(ss)[i] = ss[j][k]
<1> DEFINE X == UNION {ToSet(ss[i]) : i \in DOMAIN ss}
<1>1. Len(ss) \in Nat /\ (ss = <<>> <=> Len(ss) = 0)
  BY ListFacts, EmptyList
<1>2. CASE ss = <<>>
  BY <1>1, <1>2, Empty DEF FlattenSeq
<1>3. CASE ss # <<>>
  <2>1. PICK flat : Flattening(ss, X, flat)
    BY <1>3, FlattenSteps
  <2> HIDE DEF X
  <2>2. Len(ss) \in 1 .. Len(ss)
    BY <1>1, <1>3
  <2>3. FlattenSeq(ss) \in Seq(X)
    BY <2>1, <2>2 DEF Flattening
  <2>4. IsList(FlattenSeq(ss)) /\ \A i \in DOMAIN FlattenSeq(ss) : FlattenSeq(ss)[i] \in X
    BY <2>3, SeqIsList
  <2>5. \A x \in X : \E j \in DOMAIN ss : \E k \in DOMAIN ss[j] : x = ss[j][k]
    BY DEF X, ToSet
  <2> QED BY <2>4, <2>5
<1> QED BY <1>2, <1>3

-----------------------------------------------------------------------------
\* no two items have the same citation
Unique(s) == \A i, j \in DOMAIN s : Citation(s[i].row) = Citation(s[j].row) => i = j

\* a citation that a list lacks may be appended
LEMMA AppendUnique ==
  ASSUME NEW s, IsList(s), Unique(s), NEW c, Citation(c.row) \notin Cited(s)
  PROVE  Unique(Append(s, c))
<1> DEFINE r == Append(s, c)
<1>1. /\ DOMAIN s = 1 .. Len(s) /\ Len(s) \in Nat
      /\ \A i \in DOMAIN r : r[i] = IF i = Len(s) + 1 THEN c ELSE s[i]
      /\ DOMAIN r = DOMAIN s \cup {Len(s) + 1}
  BY ListFacts, AppendList
<1>2. \A i \in DOMAIN s : Citation(s[i].row) # Citation(c.row)
  BY DEF Cited
<1>3. ASSUME NEW i \in DOMAIN r, NEW j \in DOMAIN r, Citation(r[i].row) = Citation(r[j].row)
      PROVE  i = j
  <2> HIDE DEF r
  <2>1. CASE i = Len(s) + 1 /\ j = Len(s) + 1
    BY <2>1
  <2>2. CASE i = Len(s) + 1 /\ j # Len(s) + 1
    <3>1. r[i] = c /\ r[j] = s[j] /\ j \in DOMAIN s
      BY <1>1, <2>2
    <3> QED BY <3>1, <1>2, <1>3
  <2>3. CASE i # Len(s) + 1 /\ j = Len(s) + 1
    <3>1. r[j] = c /\ r[i] = s[i] /\ i \in DOMAIN s
      BY <1>1, <2>3
    <3> QED BY <3>1, <1>2, <1>3
  <2>4. CASE i # Len(s) + 1 /\ j # Len(s) + 1
    <3>1. r[j] = s[j] /\ r[i] = s[i] /\ i \in DOMAIN s /\ j \in DOMAIN s
      BY <1>1, <2>4
    <3> QED BY <3>1, <1>3 DEF Unique
  <2> QED BY <2>1, <2>2, <2>3, <2>4
<1> QED BY <1>3 DEF Unique

\* the first of each citation: no citation stands twice
LEMMA FirstOfEachUnique ==
  ASSUME NEW cands, IsList(cands)
  PROVE  Drawn(FirstOfEach(cands), cands) /\ Unique(FirstOfEach(cands))
<1> DEFINE N == Len(cands)
           X == ToSet(cands)
           U == {s \in Seq(X) : Unique(s)}
           T == [n \in 0 .. N |-> U]
           next(n, s) == IF Citation(cands[n].row) \in Cited(s) THEN s ELSE Append(s, cands[n])
           G == [n \in 1 .. N |-> [s \in U |-> next(n, s)]]
           Is(f) == f = [n \in 0 .. N |-> IF n = 0 THEN <<>> ELSE next(n, f[n - 1])]
           first == CHOOSE f : Is(f)
<1>1. N \in Nat /\ DOMAIN cands = 1 .. N /\ \A n \in 1 .. N : cands[n] \in X
  BY ListFacts DEF ToSet
<1>2. <<>> \in U
  <2>1. Unique(<<>>)
    BY Empty DEF Unique
  <2> QED BY <2>1
<1>3. ASSUME NEW n \in 1 .. N, NEW s \in U
      PROVE  next(n, s) \in U
  <2>1. CASE Citation(cands[n].row) \in Cited(s)
    BY <2>1
  <2>2. CASE Citation(cands[n].row) \notin Cited(s)
    <3>1. s \in Seq(X) /\ Unique(s) /\ cands[n] \in X
      BY <1>1
    <3> HIDE DEF X, N
    <3>2. Append(s, cands[n]) \in Seq(X)
      BY <3>1
    <3>3. Unique(Append(s, cands[n]))
      BY <3>1, <2>2, SeqIsList, AppendUnique
    <3> QED BY <2>2, <3>2, <3>3
  <2> QED BY <2>1, <2>2
<1>4. \A n \in 1 .. N : \A s \in U : G[n][s] = next(n, s)
  OBVIOUS
<1>5. T[0] = U /\ (\A n \in 0 .. N : T[n] = U) /\ \A n \in 1 .. N : T[n - 1] = U
  <2> HIDE DEF N, U
  <2>1. 0 \in 0 .. N /\ \A n \in 1 .. N : n - 1 \in 0 .. N
    BY <1>1
  <2> QED BY <2>1
<1>6. Is(first)
  <2>1. StepsStay(N, U, T, G, <<>>)
    <3> HIDE DEF T, G, N, U, next
    <3> QED BY <1>1, <1>2, <1>3, <1>4, <1>5 DEF StepsStay
  <2>2. PICK f \in [0 .. N -> U] :
           f[0] = <<>> /\ \A n \in 1 .. N : f[n] = G[n][f[n - 1]]
    <3> HIDE DEF T, G, N, U, next
    <3> QED BY <2>1, Recursion DEF HasSteps
  <2>3. Is(f)
    <3> HIDE DEF T, G, U, next
    <3>1. \A n \in 0 .. N : f[n] = IF n = 0 THEN <<>> ELSE next(n, f[n - 1])
      BY <1>1, <1>4, <2>2
    <3> QED BY <2>2, <3>1
  <2> QED BY <2>3
<1>7. first[0] \in T[0]
  <2> HIDE DEF T, U, next, first
  <2> QED BY <1>1, <1>2, <1>5, <1>6
<1>8. \A n \in 1 .. N : first[n - 1] \in T[n - 1] => first[n] \in T[n]
  <2> TAKE n \in 1 .. N
  <2>1. n \in 0 .. N /\ n # 0
    BY <1>1
  <2>2. first[n] = next(n, first[n - 1])
    <3> HIDE DEF next, first, N
    <3> QED BY <1>6, <2>1
  <2> HIDE DEF T, U, next, first, N
  <2> QED BY <1>3, <1>5, <2>1, <2>2
<1>9. \A n \in 0 .. N : first[n] \in T[n]
  <2> HIDE DEF T, U, next, first, N, Is
  <2> QED BY <1>1, <1>7, <1>8, Steps
<1>10. FirstOfEach(cands) = first[N]
  BY DEF FirstOfEach
<1>11. first[N] \in U
  <2> HIDE DEF first, T, U
  <2> QED BY <1>1, <1>5, <1>9
<1>12. first[N] \in Seq(X) /\ Unique(first[N])
  <2> HIDE DEF first, X, N
  <2> QED BY <1>11
<1>13. \A x \in X : \E j \in DOMAIN cands : x = cands[j]
  BY DEF ToSet
<1> QED
  <2> HIDE DEF first, X, N
  <2>1. IsList(first[N]) /\ \A i \in DOMAIN first[N] : first[N][i] \in X
    BY <1>12, SeqIsList
  <2> QED BY <1>10, <1>12, <1>13, <2>1 DEF Drawn

-----------------------------------------------------------------------------
\* the items of a sorted list, each with its place and its key
Rank(cands, keys, m) == [cand |-> cands[m], key |-> keys[m]]
Ranks(list, cands, keys, n) ==
  \E at \in [1 .. Len(list) -> 1 .. n] :
    /\ \A i \in 1 .. Len(list) : list[i] = Rank(cands, keys, at[i])
    /\ \A i, j \in 1 .. Len(list) : at[i] = at[j] => i = j

\* an insertion keeps the items that are ranked already and adds one
LEMMA InsertedRanks ==
  ASSUME NEW cands, NEW keys, NEW n \in Nat, n >= 1, NEW X, NEW list \in Seq(X),
         Ranks(list, cands, keys, n - 1), Rank(cands, keys, n) \in X
  PROVE  LET r == Inserted(list, Rank(cands, keys, n))
         IN  r \in Seq(X) /\ Ranks(r, cands, keys, n)
<1> DEFINE item == Rank(cands, keys, n)
           L == Len(list)
           B == {i \in DOMAIN list : ~ Above(item.key, list[i].key)}
           p == Cardinality(B)
           r == Inserted(list, item)
<1>1. L \in Nat /\ DOMAIN list = 1 .. L /\ (\A i \in 1 .. L : list[i] \in X)
  OBVIOUS
<1>2. p \in 0 .. L
  <2>1. IsFiniteSet(1 .. L) /\ Cardinality(1 .. L) = L
    <3> HIDE DEF L
    <3>1. Cardinality(1 .. L) = IF 1 > L THEN 0 ELSE L - 1 + 1
      BY <1>1, FS_Interval
    <3> QED BY <1>1, <3>1, FS_Interval
  <2>2. B \subseteq 1 .. L
    BY <1>1
  <2>3. IsFiniteSet(B) /\ p <= L /\ p \in Nat
    BY <2>1, <2>2, FS_Subset, FS_CardinalityType
  <2> QED BY <1>1, <2>3
<1>3. r = [i \in 1 .. L + 1 |-> IF i <= p THEN list[i] ELSE IF i = p + 1 THEN item ELSE list[i - 1]]
  BY DEF Inserted
<1> HIDE DEF p, r, L
<1>4. r \in [1 .. L + 1 -> X]
  <2>1. ASSUME NEW i \in 1 .. L + 1
        PROVE  (IF i <= p THEN list[i] ELSE IF i = p + 1 THEN item ELSE list[i - 1]) \in X
    <3>1. CASE i <= p
      BY <1>1, <1>2, <3>1
    <3>2. CASE i = p + 1
      BY <1>1, <1>2, <3>2
    <3>3. CASE i > p + 1
      <4>1. i - 1 \in 1 .. L
        BY <1>1, <1>2, <3>3
      <4> QED BY <1>1, <1>2, <3>3, <4>1
    <3> QED BY <1>1, <1>2, <3>1, <3>2, <3>3
  <2> QED BY <1>3, <2>1
<1>5. r \in Seq(X) /\ Len(r) = L + 1
  BY <1>1, <1>4
<1>6. PICK at \in [1 .. L -> 1 .. n - 1] :
         /\ \A i \in 1 .. L : list[i] = Rank(cands, keys, at[i])
         /\ \A i, j \in 1 .. L : at[i] = at[j] => i = j
  BY DEF Ranks, L
<1> DEFINE from(i) == IF i <= p THEN i ELSE i - 1
           b == [i \in 1 .. L + 1 |-> IF i = p + 1 THEN n ELSE at[from(i)]]
<1>7. \A i \in 1 .. L + 1 : i # p + 1 => from(i) \in 1 .. L
  BY <1>1, <1>2
<1>8. \A i \in 1 .. L + 1 : i # p + 1 => at[from(i)] \in 1 .. n - 1
  BY <1>6, <1>7
<1>9. b \in [1 .. L + 1 -> 1 .. n]
  <2>1. \A i \in 1 .. L + 1 : (IF i = p + 1 THEN n ELSE at[from(i)]) \in 1 .. n
    <3> HIDE DEF from
    <3> QED BY <1>8
  <2> HIDE DEF from
  <2> QED BY <2>1
<1>10. \A i \in 1 .. L + 1 : r[i] = Rank(cands, keys, b[i])
  <2> TAKE i \in 1 .. L + 1
  <2>1. CASE i = p + 1
    <3>1. r[i] = item
      BY <1>1, <1>2, <1>3, <2>1
    <3> QED BY <2>1, <3>1
  <2>2. CASE i # p + 1
    <3>1. r[i] = list[from(i)]
      BY <1>1, <1>2, <1>3, <2>2
    <3>2. b[i] = at[from(i)]
      BY <2>2
    <3> HIDE DEF from, b
    <3> QED BY <2>2, <3>1, <3>2, <1>6, <1>7
  <2> QED BY <2>1, <2>2
<1>11. ASSUME NEW i \in 1 .. L + 1, NEW j \in 1 .. L + 1, b[i] = b[j]
       PROVE  i = j
  <2>1. CASE i = p + 1 /\ j = p + 1
    BY <2>1
  <2>2. CASE i = p + 1 /\ j # p + 1
    <3>1. b[i] = n /\ b[j] = at[from(j)]
      BY <2>2
    <3> HIDE DEF from, b
    <3> QED BY <1>8, <1>11, <2>2, <3>1
  <2>3. CASE i # p + 1 /\ j = p + 1
    <3>1. b[j] = n /\ b[i] = at[from(i)]
      BY <2>3
    <3> HIDE DEF from, b
    <3> QED BY <1>8, <1>11, <2>3, <3>1
  <2>4. CASE i # p + 1 /\ j # p + 1
    <3>1. b[j] = at[from(j)] /\ b[i] = at[from(i)]
      BY <2>4
    <3>2. from(i) = from(j)
      <4> HIDE DEF from, b
      <4> QED BY <1>6, <1>7, <1>11, <2>4, <3>1
    <3> QED BY <3>2, <2>4, <1>1, <1>2
  <2> QED BY <2>1, <2>2, <2>3, <2>4
<1>12. Ranks(r, cands, keys, n)
  <2> HIDE DEF b
  <2> QED BY <1>5, <1>9, <1>10, <1>11 DEF Ranks
<1> QED BY <1>5, <1>12 DEF r

\* sorting permutes: no item is lost or doubled
LEMMA SortedPicks ==
  ASSUME NEW cands, IsList(cands), NEW keys
  PROVE  \E at : Picks(SortedBy(cands, keys), cands, at)
<1> DEFINE N == Len(cands)
           X == {Rank(cands, keys, m) : m \in 1 .. N}
           T == [n \in 0 .. N |-> {s \in Seq(X) : Ranks(s, cands, keys, n)}]
           next(n, s) == Inserted(s, Rank(cands, keys, n))
           G == [n \in 1 .. N |-> [s \in T[n - 1] |-> next(n, s)]]
           Is(f) == f = [n \in 0 .. N |-> IF n = 0 THEN <<>> ELSE next(n, f[n - 1])]
           sorted == CHOOSE f : Is(f)
<1>1. N \in Nat /\ DOMAIN cands = 1 .. N /\ \A n \in 1 .. N : Rank(cands, keys, n) \in X
  BY ListFacts
<1>t. \A n \in 0 .. N : \A s : s \in T[n] <=> s \in Seq(X) /\ Ranks(s, cands, keys, n)
  OBVIOUS
<1>2. <<>> \in T[0]
  <2>1. Ranks(<<>>, cands, keys, 0)
    <3> DEFINE at == [i \in {} |-> 1]
    <3>1. at \in [1 .. Len(<<>>) -> 1 .. 0]
      OBVIOUS
    <3> QED BY <3>1 DEF Ranks
  <2>2. 0 \in 0 .. N /\ <<>> \in Seq(X)
    BY <1>1
  <2> QED BY <2>1, <2>2
<1>3. ASSUME NEW n \in 1 .. N, NEW s \in T[n - 1]
      PROVE  next(n, s) \in T[n]
  <2>1. n - 1 \in 0 .. N /\ n \in 0 .. N /\ n \in Nat /\ n >= 1
    BY <1>1
  <2> HIDE DEF T, X, N
  <2>2. s \in Seq(X) /\ Ranks(s, cands, keys, n - 1)
    BY <2>1, <1>t
  <2>3. next(n, s) \in Seq(X) /\ Ranks(next(n, s), cands, keys, n)
    BY <1>1, <2>1, <2>2, InsertedRanks
  <2> QED BY <2>1, <2>3, <1>t
<1>4. \A n \in 1 .. N : \A s \in T[n - 1] : G[n][s] = next(n, s)
  OBVIOUS
<1>5. Is(sorted)
  <2>1. StepsStay(N, Seq(X), T, G, <<>>)
    <3>1. \A n \in 0 .. N : T[n] \subseteq Seq(X)
      OBVIOUS
    <3> HIDE DEF T, G, N, X, next
    <3> QED BY <1>1, <1>2, <1>3, <1>4, <3>1 DEF StepsStay
  <2>2. PICK f \in [0 .. N -> Seq(X)] :
           /\ f[0] = <<>> /\ \A n \in 1 .. N : f[n] = G[n][f[n - 1]]
           /\ \A n \in 0 .. N : f[n] \in T[n]
    <3> HIDE DEF T, G, N, X, next
    <3> QED BY <2>1, Recursion DEF HasSteps
  <2>3. Is(f)
    <3> HIDE DEF T, G, X, next
    <3>1. \A n \in 0 .. N : f[n] = IF n = 0 THEN <<>> ELSE next(n, f[n - 1])
      BY <1>1, <1>4, <2>2
    <3> QED BY <2>2, <3>1
  <2> QED BY <2>3
<1>6. sorted[0] \in T[0]
  <2> HIDE DEF T, next, sorted
  <2> QED BY <1>1, <1>2, <1>5
<1>7. \A n \in 1 .. N : sorted[n - 1] \in T[n - 1] => sorted[n] \in T[n]
  <2> TAKE n \in 1 .. N
  <2>1. n \in 0 .. N /\ n # 0
    BY <1>1
  <2>2. sorted[n] = next(n, sorted[n - 1])
    <3> HIDE DEF next, sorted, N
    <3> QED BY <1>5, <2>1
  <2> HIDE DEF T, next, sorted, N
  <2> QED BY <1>3, <2>1, <2>2
<1>8. \A n \in 0 .. N : sorted[n] \in T[n]
  <2> HIDE DEF T, X, next, sorted, N, Is
  <2> QED BY <1>1, <1>6, <1>7, Steps
<1> DEFINE list == sorted[N]
           s == [i \in DOMAIN list |-> list[i].cand]
<1>9. SortedBy(cands, keys) = s
  BY DEF SortedBy, Rank
<1>10. list \in Seq(X) /\ Ranks(list, cands, keys, N)
  <2> HIDE DEF sorted, T, X, N
  <2>1. N \in 0 .. N
    BY <1>1
  <2> QED BY <2>1, <1>8, <1>t
<1>11. DOMAIN list = 1 .. Len(list) /\ Len(list) \in Nat
  <2> HIDE DEF list, X
  <2> QED BY <1>10
<1>12. PICK at \in [1 .. Len(list) -> 1 .. N] :
    /\ \A i \in 1 .. Len(list) : list[i] = Rank(cands, keys, at[i])
    /\ \A i, j \in 1 .. Len(list) : at[i] = at[j] => i = j
  <2> HIDE DEF list, N
  <2> QED BY <1>10 DEF Ranks
<1>13. IsList(s) /\ DOMAIN s = 1 .. Len(list)
  <2> HIDE DEF list
  <2> DEFINE m == Len(list)
  <2>1. s = [i \in 1 .. m |-> s[i]]
    BY <1>11
  <2> HIDE DEF s
  <2> QED BY <1>11, <2>1, FunctionIsList
<1>14. \A i \in DOMAIN s : s[i] = cands[at[i]]
  <2> HIDE DEF list
  <2> QED BY <1>11, <1>12 DEF Rank
<1>15. Picks(s, cands, at)
  <2> HIDE DEF s, list, N, X, T, G, sorted, next, Is
  <2>1. at \in [DOMAIN s -> DOMAIN cands]
    BY <1>1, <1>12, <1>13
  <2>2. \A i, j \in DOMAIN s : at[i] = at[j] => i = j
    BY <1>12, <1>13
  <2> QED BY <1>13, <1>14, <2>1, <2>2 DEF Picks
<1> QED
  <2> HIDE DEF s, list, N, X, T, G, sorted, next, Is
  <2> QED BY <1>9, <1>15

\* what is sorted is drawn from the list
LEMMA SortedDrawn ==
  ASSUME NEW cands, IsList(cands), NEW keys
  PROVE  Drawn(SortedBy(cands, keys), cands)
BY SortedPicks, PicksDrawn

-----------------------------------------------------------------------------
\* E[n] is the number of items in the first n lists
Ends(ss, E) ==
  E[0] = 0 /\ \A n \in 1 .. Len(ss) : E[n] \in Nat /\ E[n] = E[n - 1] + Len(ss[n])
\* the items of t are those of the lists, one list after the other
Lined(ss, E, t) ==
  /\ Ends(ss, E) /\ IsList(t) /\ Len(t) = E[Len(ss)]
  /\ \A n \in 1 .. Len(ss) : \A k \in 1 .. Len(ss[n]) : t[E[n - 1] + k] = ss[n][k]
AreLists(ss) == IsList(ss) /\ \A i \in DOMAIN ss : IsList(ss[i])

\* a list of the same length
LEMMA MapList ==
  ASSUME NEW s, IsList(s), NEW f, f = [i \in DOMAIN s |-> f[i]]
  PROVE  IsList(f) /\ DOMAIN f = DOMAIN s /\ Len(f) = Len(s)
<1>1. Len(s) \in Nat /\ DOMAIN s = 1 .. Len(s)
  BY ListFacts
<1>2. f = [i \in 1 .. Len(s) |-> f[i]]
  BY <1>1
<1> QED BY <1>1, <1>2, FunctionIsList

\* a concatenation has the items of both lists, at their places
LEMMA ConcatPlaces ==
  ASSUME NEW s, NEW t, IsList(s), IsList(t)
  PROVE  /\ Len(s \o t) = Len(s) + Len(t)
         /\ \A k \in 1 .. Len(s) : (s \o t)[k] = s[k]
         /\ \A k \in 1 .. Len(t) : (s \o t)[Len(s) + k] = t[k]
<1> DEFINE X == ToSet(s) \cup ToSet(t)
<1>1. s \in Seq(X) /\ t \in Seq(X)
  <2>1. s \in Seq(ToSet(s)) /\ t \in Seq(ToSet(t))
    BY ListFacts
  <2> QED BY <2>1, SeqMonotonic
<1> HIDE DEF X
<1> QED BY <1>1

\* lists end one after the other
LEMMA EndsGrow ==
  ASSUME NEW ss, Len(ss) \in Nat, \A n \in 1 .. Len(ss) : Len(ss[n]) \in Nat, NEW E, Ends(ss, E),
         NEW m \in 0 .. Len(ss), NEW n \in m .. Len(ss)
  PROVE  E[m] \in Nat /\ E[n] \in Nat /\ E[m] <= E[n]
<1> DEFINE N == Len(ss)
           M == N - m
           F == [j \in 0 .. M |-> E[m + j]]
           T == [j \in 0 .. M |-> {x \in Nat : E[m] <= x}]
<1>1. M \in Nat /\ N \in Nat /\ m \in 0 .. N
  OBVIOUS
<1>2. \A i \in 0 .. N : E[i] \in Nat
  BY <1>1 DEF Ends
<1>3. F[0] \in T[0]
  BY <1>1, <1>2
<1>4. ASSUME NEW j \in 1 .. M, F[j - 1] \in T[j - 1]
      PROVE  F[j] \in T[j]
  <2>1. m + j \in 1 .. N /\ (m + j) - 1 = m + (j - 1) /\ j - 1 \in 0 .. M /\ j \in 0 .. M
    BY <1>1
  <2>2. E[m + j] = E[m + (j - 1)] + Len(ss[m + j]) /\ Len(ss[m + j]) \in Nat
    BY <2>1 DEF Ends
  <2>3. E[m] <= E[m + (j - 1)] /\ E[m + (j - 1)] \in Nat
    BY <1>4, <2>1
  <2> QED BY <1>1, <1>2, <2>1, <2>2, <2>3
<1>5. \A j \in 0 .. M : F[j] \in T[j]
  <2> HIDE DEF F, T, M
  <2> QED BY <1>1, <1>3, <1>4, Steps
<1>6. n - m \in 0 .. M /\ m + (n - m) = n
  BY <1>1
<1>7. E[m + (n - m)] \in Nat /\ E[m] <= E[m + (n - m)]
  BY <1>5, <1>6
<1> QED BY <1>2, <1>6, <1>7

\* where the lists end in their flattening
LEMMA FlattenLined ==
  ASSUME NEW ss, AreLists(ss)
  PROVE  \E E : Lined(ss, E, FlattenSeq(ss))
<1> DEFINE N == Len(ss)
           X == UNION {ToSet(ss[i]) : i \in DOMAIN ss}
<1>1. N \in Nat /\ DOMAIN ss = 1 .. N /\ (ss = <<>> <=> N = 0)
  BY ListFacts, EmptyList DEF AreLists
<1>2. CASE N = 0
  <2> DEFINE E == [n \in {0} |-> 0]
  <2>1. FlattenSeq(ss) = <<>>
    BY <1>1, <1>2 DEF FlattenSeq
  <2>2. Lined(ss, E, FlattenSeq(ss))
    BY <1>2, <2>1, Empty DEF Lined, Ends
  <2> QED BY <2>2
<1>3. CASE N # 0
  <2>1. PICK flat : Flattening(ss, X, flat)
    BY <1>1, <1>3, FlattenSteps DEF AreLists
  <2> HIDE DEF X
  <2>2. \A i \in 1 .. N : /\ flat[i] \in Seq(X)
                          /\ flat[i] = IF i = 1 THEN ss[i] ELSE flat[i - 1] \o ss[i]
    BY <2>1 DEF Flattening
  <2> DEFINE E == [n \in 0 .. N |-> IF n = 0 THEN 0 ELSE Len(flat[n])]
             Keeps(x, m) == \A n \in 1 .. m : \A k \in 1 .. Len(ss[n]) : x[E[n - 1] + k] = ss[n][k]
  <2>3. \A i \in 1 .. N : IsList(flat[i]) /\ Len(flat[i]) \in Nat /\ Len(ss[i]) \in Nat /\ IsList(ss[i])
    BY <1>1, <2>2, SeqIsList, ListFacts DEF AreLists
  <2>4. E[0] = 0 /\ \A n \in 1 .. N : E[n] = Len(flat[n]) /\ E[n] \in Nat
    BY <1>1, <2>3
  <2>5. ASSUME NEW i \in 1 .. N, i # 1
        PROVE  /\ i - 1 \in 1 .. N
               /\ Len(flat[i]) = Len(flat[i - 1]) + Len(ss[i])
               /\ \A k \in 1 .. Len(flat[i - 1]) : flat[i][k] = flat[i - 1][k]
               /\ \A k \in 1 .. Len(ss[i]) : flat[i][Len(flat[i - 1]) + k] = ss[i][k]
    <3>1. flat[i] = flat[i - 1] \o ss[i] /\ i - 1 \in 1 .. N
      <4> HIDE DEF X
      <4>1. i - 1 \in 1 .. N
        BY <1>1, <2>5
      <4> QED BY <2>2, <2>5, <4>1
    <3>2. IsList(flat[i - 1]) /\ IsList(ss[i])
      BY <2>3, <3>1
    <3> DEFINE x == flat[i - 1]
               y == ss[i]
    <3>3. flat[i] = x \o y
      BY <3>1
    <3> HIDE DEF x, y
    <3>4. IsList(x) /\ IsList(y)
      BY <3>2 DEF x, y
    <3>5. /\ Len(x \o y) = Len(x) + Len(y)
          /\ \A k \in 1 .. Len(x) : (x \o y)[k] = x[k]
          /\ \A k \in 1 .. Len(y) : (x \o y)[Len(x) + k] = y[k]
      BY <3>4, ConcatPlaces
    <3>6. /\ Len(flat[i]) = Len(x) + Len(y)
          /\ \A k \in 1 .. Len(x) : flat[i][k] = x[k]
          /\ \A k \in 1 .. Len(y) : flat[i][Len(x) + k] = y[k]
      BY <3>3, <3>5
    <3> QED BY <3>1, <3>6 DEF x, y
  <2>6. Ends(ss, E)
    <3>1. ASSUME NEW n \in 1 .. N PROVE E[n] \in Nat /\ E[n] = E[n - 1] + Len(ss[n])
      <4>1. CASE n = 1
        BY <1>1, <2>2, <2>3, <2>4, <4>1
      <4>2. CASE n # 1
        <5> HIDE DEF E
        <5> QED BY <2>4, <2>5, <4>2
      <4> QED BY <4>1, <4>2
    <3> HIDE DEF E
    <3> QED BY <2>4, <3>1 DEF Ends
  <2>7. \A i \in 1 .. N : Keeps(flat[i], i)
    <3> DEFINE F == [n \in 0 .. N - 1 |-> flat[n + 1]]
               T == [n \in 0 .. N - 1 |-> {x \in Seq(X) : Keeps(x, n + 1)}]
               M == N - 1
    <3>1. M \in Nat /\ 1 \in 1 .. N /\ 0 \in 0 .. N - 1 /\ 0 \in 0 .. N
      BY <1>1, <1>3
    <3>2. F[0] \in T[0]
      <4>1. Keeps(flat[1], 1)
        BY <2>2, <2>3, <2>4, <3>1
      <4> HIDE DEF Keeps
      <4> QED BY <2>2, <3>1, <4>1
    <3>3. ASSUME NEW n \in 1 .. M, F[n - 1] \in T[n - 1]
          PROVE  F[n] \in T[n]
      <4>1. n \in 1 .. N /\ n + 1 \in 1 .. N /\ (n + 1) - 1 = n /\ (n - 1) + 1 = n /\ n + 1 # 1
            /\ n \in 0 .. N - 1 /\ n - 1 \in 0 .. N - 1
        BY <3>1
      <4>2. Keeps(flat[n], n)
        <5> HIDE DEF Keeps
        <5> QED BY <3>3, <4>1
      <4>3. \A m \in 1 .. n : E[m] \in Nat /\ E[m] <= Len(flat[n]) /\ E[m - 1] \in Nat
        <5> HIDE DEF E
        <5>1. \A m \in 1 .. n : m \in 0 .. N /\ n \in m .. N /\ m - 1 \in 0 .. N
          BY <4>1
        <5>2. \A m \in 1 .. n : E[m] \in Nat /\ E[n] \in Nat /\ E[m] <= E[n]
          BY <1>1, <2>3, <2>6, <5>1, EndsGrow
        <5>3. \A m \in 1 .. n : E[m - 1] \in Nat
          BY <2>4, <4>1
        <5> QED BY <2>4, <4>1, <5>2, <5>3
      <4>4. Keeps(flat[n + 1], n + 1)
        <5> SUFFICES ASSUME NEW m \in 1 .. n + 1, NEW k \in 1 .. Len(ss[m])
                     PROVE  flat[n + 1][E[m - 1] + k] = ss[m][k]
          OBVIOUS
        <5>1. CASE m = n + 1
          <6>1. E[m - 1] = Len(flat[n])
            BY <2>4, <4>1, <5>1
          <6>2. \A x \in 1 .. Len(ss[n + 1]) : flat[n + 1][Len(flat[n]) + x] = ss[n + 1][x]
            <7> HIDE DEF E
            <7>1. n + 1 \in 1 .. N /\ n + 1 # 1 /\ (n + 1) - 1 = n
              BY <4>1
            <7> DEFINE i == n + 1
            <7>2. i \in 1 .. N /\ i # 1 /\ i - 1 = n
              BY <7>1
            <7> HIDE DEF i
            <7>3. /\ \A k0 \in 1 .. Len(flat[i - 1]) : flat[i][k0] = flat[i - 1][k0]
                  /\ \A k0 \in 1 .. Len(ss[i]) : flat[i][Len(flat[i - 1]) + k0] = ss[i][k0]
              BY <2>5, <7>2
            <7> QED BY <7>2, <7>3 DEF i
          <6> HIDE DEF E
          <6> QED BY <5>1, <6>1, <6>2
        <5>2. CASE m # n + 1
          <6>1. m \in 1 .. n
            BY <4>1, <5>2
          <6>2. E[m - 1] + k \in 1 .. Len(flat[n])
            <7> HIDE DEF E
            <7>1. m \in 1 .. N /\ m \in 1 .. Len(ss)
              BY <4>1, <6>1
            <7>2. E[m] = E[m - 1] + Len(ss[m])
              BY <2>6, <7>1 DEF Ends
            <7>3. Len(ss[m]) \in Nat /\ E[m - 1] \in Nat /\ E[m] <= Len(flat[n]) /\ Len(flat[n]) \in Nat
              BY <2>3, <4>1, <4>3, <6>1, <7>1
            <7> DEFINE before == E[m - 1]
                       own == Len(ss[m])
                       all == Len(flat[n])
            <7>4. before \in Nat /\ own \in Nat /\ all \in Nat /\ before + own <= all /\ k \in 1 .. own
              BY <7>2, <7>3
            <7> HIDE DEF before, own, all
            <7>5. before + k \in 1 .. all
              BY <7>4
            <7> QED BY <7>5 DEF before, all
          <6>3. \A x \in 1 .. Len(flat[n]) : flat[n + 1][x] = flat[n][x]
            <7> HIDE DEF E
            <7>1. n + 1 \in 1 .. N /\ n + 1 # 1 /\ (n + 1) - 1 = n
              BY <4>1
            <7> DEFINE i == n + 1
            <7>2. i \in 1 .. N /\ i # 1 /\ i - 1 = n
              BY <7>1
            <7> HIDE DEF i
            <7>3. /\ \A k0 \in 1 .. Len(flat[i - 1]) : flat[i][k0] = flat[i - 1][k0]
                  /\ \A k0 \in 1 .. Len(ss[i]) : flat[i][Len(flat[i - 1]) + k0] = ss[i][k0]
              BY <2>5, <7>2
            <7> QED BY <7>2, <7>3 DEF i
          <6>4. flat[n + 1][E[m - 1] + k] = flat[n][E[m - 1] + k]
            <7> HIDE DEF E
            <7> QED BY <6>2, <6>3
          <6> QED BY <4>2, <6>1, <6>4
        <5> QED BY <5>1, <5>2
      <4> HIDE DEF Keeps
      <4> QED BY <2>2, <4>1, <4>4
    <3>4. \A n \in 0 .. M : F[n] \in T[n]
      <4> HIDE DEF F, T, M
      <4> QED BY <3>1, <3>2, <3>3, Steps
    <3> HIDE DEF Keeps
    <3> TAKE i \in 1 .. N
    <3>5. i - 1 \in 0 .. M /\ (i - 1) + 1 = i /\ i - 1 \in 0 .. N - 1
      BY <1>1
    <3> QED BY <3>4, <3>5
  <2>8. N \in 1 .. N /\ FlattenSeq(ss) = flat[N]
    BY <1>1, <1>3, <2>1 DEF Flattening
  <2>9. Lined(ss, E, flat[N])
    <3>1. Keeps(flat[N], N)
      <4> HIDE DEF Keeps
      <4> QED BY <2>7, <2>8
    <3>2. Len(flat[N]) = E[N] /\ IsList(flat[N])
      BY <2>3, <2>4, <2>8
    <3> HIDE DEF E
    <3> QED BY <2>6, <3>1, <3>2 DEF Lined
  <2> QED BY <2>8, <2>9
<1> QED BY <1>2, <1>3

\* the lengths of lists are naturals, and their ends too
LEMMA EndsNat ==
  ASSUME NEW ss, AreLists(ss), NEW E, Ends(ss, E)
  PROVE  /\ Len(ss) \in Nat /\ DOMAIN ss = 1 .. Len(ss)
         /\ \A n \in 1 .. Len(ss) : Len(ss[n]) \in Nat /\ DOMAIN ss[n] = 1 .. Len(ss[n]) /\ IsList(ss[n])
         /\ \A n \in 0 .. Len(ss) : E[n] \in Nat
BY ListFacts DEF AreLists, Ends

\* every place of the lined up lists lies in one of them
LEMMA InBlock ==
  ASSUME NEW ss, AreLists(ss), NEW E, Ends(ss, E), NEW x \in 1 .. E[Len(ss)]
  PROVE  \E n \in 1 .. Len(ss) : E[n - 1] < x /\ x <= E[n] /\ x - E[n - 1] \in 1 .. Len(ss[n])
<1> DEFINE N == Len(ss)
           B == {n \in 1 .. N : x <= E[n]}
<1>1. N \in Nat /\ E[0] = 0 /\ \A n \in 0 .. N : E[n] \in Nat
  BY EndsNat DEF Ends
<1>2. N # 0
  BY <1>1
<1>3. N \in B
  BY <1>1, <1>2
<1>4. PICK n \in B : \A m \in B : n <= m
  <2>1. B \in SUBSET Nat /\ B # {}
    BY <1>3
  <2> HIDE DEF B
  <2> QED BY <2>1, Least
<1>5. E[n - 1] < x
  <2>1. CASE n = 1
    BY <1>1, <2>1
  <2>2. CASE n # 1
    <3>1. n - 1 \in 1 .. N /\ n - 1 \notin B
      BY <1>1, <1>4, <2>2
    <3> QED BY <1>1, <3>1
  <2> QED BY <2>1, <2>2
<1>6. E[n] = E[n - 1] + Len(ss[n]) /\ Len(ss[n]) \in Nat /\ E[n - 1] \in Nat
  <2>1. n \in 1 .. N /\ n - 1 \in 0 .. N
    BY <1>1, <1>4
  <2> QED BY <1>1, <2>1, EndsNat DEF Ends
<1> QED BY <1>4, <1>5, <1>6

\* lists of the same lengths have the same ends
LEMMA SameEnds ==
  ASSUME NEW ss, NEW tt, AreLists(ss), AreLists(tt), NEW E, NEW F, Ends(ss, E), Ends(tt, F),
         NEW a \in 0 .. Len(ss), Len(tt) <= Len(ss) - a,
         \A n \in 1 .. Len(tt) : Len(tt[n]) = Len(ss[a + n])
  PROVE  \A n \in 0 .. Len(tt) : F[n] = E[a + n] - E[a]
<1> DEFINE M == Len(tt)
           f == [n \in 0 .. M |-> F[n]]
           T == [n \in 0 .. M |-> {E[a + n] - E[a]}]
<1>1. M \in Nat /\ Len(ss) \in Nat
  BY EndsNat
<1>2. \A n \in 0 .. M : F[n] \in Nat /\ E[a + n] \in Nat
  <2> TAKE n \in 0 .. M
  <2>1. a + n \in 0 .. Len(ss)
    BY <1>1
  <2> QED BY <2>1, EndsNat
<1>3. f[0] \in T[0]
  <2>1. 0 \in 0 .. M /\ E[a] \in Nat /\ F[0] = 0
    BY <1>1, EndsNat DEF Ends
  <2> QED BY <2>1
<1>4. ASSUME NEW n \in 1 .. M, f[n - 1] \in T[n - 1]
      PROVE  f[n] \in T[n]
  <2>1. n - 1 \in 0 .. M /\ n \in 0 .. M /\ a + n \in 1 .. Len(ss) /\ (a + n) - 1 = a + (n - 1)
    BY <1>1
  <2>2. F[n] = F[n - 1] + Len(tt[n]) /\ Len(tt[n]) \in Nat
    BY EndsNat DEF Ends
  <2>3. E[a + n] = E[a + (n - 1)] + Len(ss[a + n])
    BY <2>1 DEF Ends
  <2>4. F[n - 1] = E[a + (n - 1)] - E[a]
    BY <1>4, <2>1
  <2>5. E[a] \in Nat /\ E[a + (n - 1)] \in Nat
    BY <1>1, <1>2, <2>1, EndsNat
  <2>6. F[n] = E[a + n] - E[a]
    <3>1. Len(tt[n]) = Len(ss[a + n])
      OBVIOUS
    <3>2. F[n] = (E[a + (n - 1)] - E[a]) + Len(ss[a + n]) /\ Len(ss[a + n]) \in Nat
      BY <2>2, <2>4, <3>1
    <3> QED BY <2>3, <2>5, <3>2
  <2>7. f[n] = F[n] /\ T[n] = {E[a + n] - E[a]}
    BY <2>1
  <2> QED BY <2>6, <2>7
<1>5. \A n \in 0 .. M : f[n] \in T[n]
  <2> HIDE DEF f, T, M
  <2> QED BY <1>1, <1>3, <1>4, Steps
<1> QED BY <1>5

-----------------------------------------------------------------------------
\* the ayah of a token is the one that it lies in
LEMMA AyahOfPlace ==
  ASSUME NEW corpus, NEW s, AreLists(corpus[s]), NEW E, Ends(corpus[s], E),
         NEW x \in 1 .. E[Len(corpus[s])]
  PROVE  \E n \in 1 .. Len(corpus[s]) :
           TokenAyahs(corpus, s)[x] = n /\ E[n - 1] < x /\ x <= E[n]
<1> DEFINE ss == corpus[s]
           tt == [a \in DOMAIN ss |-> [i \in DOMAIN ss[a] |-> a]]
<1> HIDE DEF ss
<1>1. AreLists(ss) /\ Ends(ss, E)
  BY DEF ss
<1>2. AreLists(tt) /\ Len(tt) = Len(ss) /\ \A n \in 1 .. Len(ss) : Len(tt[n]) = Len(ss[n])
  <2>1. tt = [a \in DOMAIN ss |-> tt[a]] /\ \A a \in DOMAIN ss : tt[a] = [i \in DOMAIN ss[a] |-> tt[a][i]]
    OBVIOUS
  <2> HIDE DEF tt
  <2>2. IsList(tt) /\ DOMAIN tt = DOMAIN ss /\ Len(tt) = Len(ss)
    BY <1>1, <2>1, MapList DEF AreLists
  <2>3. \A a \in DOMAIN ss : IsList(tt[a]) /\ Len(tt[a]) = Len(ss[a])
    BY <1>1, <2>1, MapList DEF AreLists
  <2> QED BY <1>1, <2>2, <2>3, EndsNat DEF AreLists
<1>3. TokenAyahs(corpus, s) = FlattenSeq(tt)
  BY DEF TokenAyahs, ss
<1>4. \A n \in 1 .. Len(ss) : \A k \in 1 .. Len(ss[n]) : tt[n][k] = n
  BY <1>1, EndsNat
<1> HIDE DEF tt
<1>5. PICK F : Lined(tt, F, FlattenSeq(tt))
  BY <1>2, FlattenLined
<1>6. \A n \in 0 .. Len(ss) : F[n] = E[n]
  <2> DEFINE c == 0
  <2>1. Len(ss) \in Nat /\ c \in 0 .. Len(ss) /\ E[c] = 0 /\ c = 0 /\ Len(tt) <= Len(ss) - c
        /\ \A n \in 0 .. Len(ss) : E[n] \in Nat
    BY <1>1, <1>2, EndsNat DEF Ends
  <2> HIDE DEF c
  <2>2. \A n \in 1 .. Len(tt) : Len(tt[n]) = Len(ss[c + n])
    BY <1>2, <2>1
  <2>3. Ends(tt, F)
    BY <1>5 DEF Lined
  <2>4. \A n \in 0 .. Len(tt) : F[n] = E[c + n] - E[c]
    BY <1>1, <1>2, <2>1, <2>2, <2>3, SameEnds
  <2>5. ASSUME NEW n \in 0 .. Len(ss)
        PROVE  F[n] = E[n]
    <3>1. n \in 0 .. Len(tt) /\ c + n = n
      BY <1>2, <2>1
    <3>2. F[n] = E[n] - 0 /\ E[n] \in Nat
      BY <2>1, <2>4, <3>1
    <3> QED BY <3>2
  <2> QED BY <2>5
<1>7. PICK n \in 1 .. Len(ss) : E[n - 1] < x /\ x <= E[n] /\ x - E[n - 1] \in 1 .. Len(ss[n])
  BY <1>1, InBlock DEF ss
<1>8. n - 1 \in 0 .. Len(ss) /\ E[n - 1] \in Nat /\ x = E[n - 1] + (x - E[n - 1])
  BY <1>1, EndsNat
<1> DEFINE k == x - E[n - 1]
<1>9. n \in 1 .. Len(tt) /\ k \in 1 .. Len(tt[n]) /\ tt[n][k] = n /\ F[n - 1] + k = x
  BY <1>2, <1>4, <1>6, <1>7, <1>8
<1> HIDE DEF k
<1>10. FlattenSeq(tt)[x] = n
  BY <1>5, <1>9 DEF Lined
<1> QED BY <1>3, <1>7, <1>10 DEF ss

\* the text of a run of lists is a piece of the whole text
LEMMA SliceText ==
  ASSUME NEW ss, AreLists(ss), NEW E, Lined(ss, E, FlattenSeq(ss)),
         NEW a \in 1 .. Len(ss), NEW b \in a .. Len(ss)
  PROVE  LET u == FlattenSeq(SubSeq(ss, a, b))
         IN  /\ IsList(u) /\ Len(u) = E[b] - E[a - 1] /\ E[b] \in Nat /\ E[a - 1] \in Nat
             /\ E[b] <= E[Len(ss)]
             /\ \A x \in E[a - 1] + 1 .. E[b] : u[x - E[a - 1]] = FlattenSeq(ss)[x]
<1> DEFINE tt == SubSeq(ss, a, b)
           u  == FlattenSeq(tt)
           t  == FlattenSeq(ss)
<1>1. Len(ss) \in Nat /\ b \in 0 .. Len(ss) /\ a \in 1 .. Len(ss) + 1 /\ b - a + 1 \in Nat
  BY EndsNat DEF Lined
<1>2. /\ IsList(tt) /\ Len(tt) = b - a + 1 /\ DOMAIN tt = 1 .. b - a + 1
      /\ \A n \in 1 .. b - a + 1 : tt[n] = ss[a - 1 + n] /\ a - 1 + n \in 1 .. Len(ss)
  <2>1. Drawn(tt, ss) /\ Len(tt) = b - a + 1
        /\ \A i \in DOMAIN tt : tt[i] = ss[a + i - 1] /\ a + i - 1 \in DOMAIN ss
    BY <1>1, SubSeqDrawn DEF AreLists
  <2> HIDE DEF tt
  <2>2. IsList(tt) /\ DOMAIN tt = 1 .. b - a + 1
    BY <2>1, ListFacts DEF Drawn
  <2>3. ASSUME NEW n \in 1 .. b - a + 1
        PROVE  tt[n] = ss[a - 1 + n] /\ a - 1 + n \in 1 .. Len(ss)
    <3>1. a + n - 1 = a - 1 + n /\ a - 1 + n \in 1 .. Len(ss)
      BY <1>1
    <3> QED BY <2>1, <2>2, <3>1
  <2> QED BY <2>1, <2>2, <2>3
<1> HIDE DEF tt
<1>3. AreLists(tt)
  BY <1>2, EndsNat DEF AreLists, Lined
<1>4. PICK F : Lined(tt, F, u)
  BY <1>3, FlattenLined
<1>5. \A n \in 0 .. b - a + 1 : F[n] = E[a - 1 + n] - E[a - 1]
  <2> DEFINE c == a - 1
  <2>1. c \in 0 .. Len(ss) /\ Len(tt) <= Len(ss) - c
    BY <1>1, <1>2
  <2>2. \A n \in 1 .. Len(tt) : Len(tt[n]) = Len(ss[c + n])
    BY <1>2
  <2>3. Ends(tt, F) /\ Ends(ss, E)
    BY <1>4 DEF Lined
  <2> HIDE DEF c
  <2>4. \A n \in 0 .. Len(tt) : F[n] = E[c + n] - E[c]
    BY <1>3, <2>1, <2>2, <2>3, SameEnds
  <2> QED BY <1>2, <2>4 DEF c
<1>6. /\ E[b] \in Nat /\ E[a - 1] \in Nat /\ E[b] <= E[Len(ss)]
      /\ \A n \in 0 .. Len(ss) : E[n] \in Nat
  <2>1. b \in 0 .. Len(ss) /\ Len(ss) \in b .. Len(ss) /\ a - 1 \in 0 .. Len(ss)
    BY <1>1
  <2> QED BY <2>1, EndsGrow, EndsNat DEF Lined
<1>7. IsList(u) /\ Len(u) = E[b] - E[a - 1]
  <2>1. b - a + 1 \in 0 .. b - a + 1 /\ a - 1 + (b - a + 1) = b
    BY <1>1
  <2> QED BY <1>2, <1>4, <1>5, <2>1 DEF Lined
<1>8. ASSUME NEW x \in E[a - 1] + 1 .. E[b]
      PROVE  u[x - E[a - 1]] = t[x]
  <2>1. x - E[a - 1] \in 1 .. F[Len(tt)]
    <3>1. F[Len(tt)] = E[b] - E[a - 1]
      BY <1>4, <1>7 DEF Lined
    <3> DEFINE lo == E[a - 1]
               hi == E[b]
    <3>2. lo \in Nat /\ hi \in Nat /\ x \in lo + 1 .. hi
      BY <1>6
    <3> HIDE DEF lo, hi
    <3>3. x - lo \in 1 .. hi - lo
      BY <3>2
    <3> QED BY <3>1, <3>3 DEF lo, hi
  <2>2. PICK n \in 1 .. Len(tt) : /\ F[n - 1] < x - E[a - 1] /\ x - E[a - 1] <= F[n]
                                  /\ (x - E[a - 1]) - F[n - 1] \in 1 .. Len(tt[n])
    <3> DEFINE y == x - E[a - 1]
    <3> HIDE DEF y
    <3>1. y \in 1 .. F[Len(tt)]
      BY <2>1 DEF y
    <3>2. \E n \in 1 .. Len(tt) : F[n - 1] < y /\ y <= F[n] /\ y - F[n - 1] \in 1 .. Len(tt[n])
      BY <1>3, <1>4, <3>1, InBlock DEF Lined
    <3> QED BY <3>2 DEF y
  <2> DEFINE k == (x - E[a - 1]) - F[n - 1]
             m == a - 1 + n
  <2>3. /\ n \in 1 .. b - a + 1 /\ m \in 1 .. Len(ss) /\ m - 1 = a - 1 + (n - 1) /\ tt[n] = ss[m]
        /\ n - 1 \in 0 .. b - a + 1 /\ m - 1 \in 0 .. Len(ss)
    BY <1>1, <1>2
  <2>4. F[n - 1] = E[m - 1] - E[a - 1] /\ E[m - 1] \in Nat
    BY <1>5, <1>6, <2>3
  <2> HIDE DEF m
  <2>5. F[n - 1] + k = x - E[a - 1] /\ E[m - 1] + k = x /\ k \in 1 .. Len(tt[n])
    <3>1. x \in Nat /\ E[a - 1] \in Nat
      BY <1>6, <1>8
    <3>2. k = x - E[m - 1]
      BY <2>4, <3>1
    <3>3. E[m - 1] + k = x
      BY <2>4, <3>1, <3>2
    <3>4. F[n - 1] + k = x - E[a - 1]
      BY <2>4, <3>1, <3>2
    <3> QED BY <2>2, <3>3, <3>4
  <2> HIDE DEF k
  <2>6. u[F[n - 1] + k] = tt[n][k]
    BY <1>4, <2>5 DEF Lined
  <2>7. t[E[m - 1] + k] = ss[m][k]
    BY <2>3, <2>5 DEF Lined
  <2> QED BY <2>3, <2>5, <2>6, <2>7
<1> HIDE DEF u, t
<1>9. /\ IsList(u) /\ Len(u) = E[b] - E[a - 1] /\ E[b] \in Nat /\ E[a - 1] \in Nat
      /\ E[b] <= E[Len(ss)] /\ \A x \in E[a - 1] + 1 .. E[b] : u[x - E[a - 1]] = t[x]
  BY <1>6, <1>7, <1>8
<1> QED BY <1>9 DEF u, t, tt

-----------------------------------------------------------------------------
\* a text in one of the normalisations has a token for each of its tokens
LEMMA ViewFacts ==
  ASSUME NEW m, NEW t, IsList(t)
  PROVE  /\ IsList(View(m, t)) /\ Len(View(m, t)) = Len(t)
         /\ \A i \in 1 .. Len(t) : View(m, t)[i] = IF m = "light" THEN t[i] ELSE Aggressive(t[i])
<1>1. CASE m = "light"
  BY <1>1 DEF View
<1>2. CASE m # "light"
  <2> DEFINE v == [i \in DOMAIN t |-> Aggressive(t[i])]
  <2>1. v = [i \in DOMAIN t |-> v[i]] /\ \A i \in DOMAIN t : v[i] = Aggressive(t[i])
    OBVIOUS
  <2>2. View(m, t) = v
    BY <1>2 DEF View
  <2> HIDE DEF v
  <2>3. IsList(v) /\ Len(v) = Len(t)
    BY <2>1, MapList
  <2> QED BY <1>2, <2>1, <2>2, <2>3, ListFacts
<1> QED BY <1>1, <1>2

\* where the tokens of a text stand one after the other its characters do, and
\* every token of the text is there
Stands(needle, t) == PieceOf(needle, t) /\ ToSet(needle) \subseteq ToSet(t)
LEMMA OccursAt ==
  ASSUME NEW needle, NEW t, IsList(needle), IsList(t), needle # <<>>,
         NEW d \in Nat \ {0}, d + Len(needle) - 1 <= Len(t),
         \A i \in 1 .. Len(needle) : t[d + i - 1] = needle[i]
  PROVE  Stands(needle, t)
<1> DEFINE n == Len(needle)
<1>1. n \in Nat /\ n # 0 /\ DOMAIN needle = 1 .. n /\ Len(t) \in Nat /\ DOMAIN t = 1 .. Len(t)
  BY ListFacts, EmptyList
<1>2. \A i \in 1 .. n : d + i - 1 \in DOMAIN t
  BY <1>1
<1>3. d \in DOMAIN t
  BY <1>1
<1>4. PieceAt(d, needle, t)
  BY <1>1 DEF PieceAt
<1>5. PieceOf(needle, t)
  BY <1>3, <1>4 DEF PieceOf, Places
<1>6. ToSet(needle) \subseteq ToSet(t)
  BY <1>1, <1>2 DEF ToSet
<1> QED BY <1>5, <1>6 DEF Stands

\* what stands in a surah at a place stands in the ayat from that of its first
\* token to that of its last
LEMMA SpanHolds ==
  ASSUME NEW corpus, NEW s, AreLists(corpus[s]), NEW m, NEW needle, IsList(needle), needle # <<>>,
         NEW p \in Nat \ {0}, p + Len(needle) - 1 <= Len(Stream(corpus, m, s)),
         SubSeq(Stream(corpus, m, s), p, p + Len(needle) - 1) = needle,
         NEW kind
  PROVE  Stands(needle, View(m, Row(corpus, kind, s, TokenAyahs(corpus, s)[p],
                                    TokenAyahs(corpus, s)[p + Len(needle) - 1]).text))
<1> DEFINE ss == corpus[s]
           n  == Len(needle)
           z  == p + n - 1
           t  == FlattenSeq(ss)
           stream == View(m, t)
           ayah == TokenAyahs(corpus, s)
<1>1. n \in Nat /\ n # 0 /\ z \in Nat /\ z >= p /\ z >= 1 /\ stream = Stream(corpus, m, s)
  BY ListFacts, EmptyList DEF Stream
<1>2. PICK E : Lined(ss, E, t)
  BY FlattenLined
<1>3. AreLists(ss) /\ Ends(ss, E) /\ IsList(t) /\ Len(t) = E[Len(ss)] /\ Len(t) \in Nat
  BY <1>2, ListFacts DEF Lined
<1>4. IsList(stream) /\ Len(stream) = Len(t)
      /\ \A i \in 1 .. Len(t) : stream[i] = IF m = "light" THEN t[i] ELSE Aggressive(t[i])
  BY <1>3, ViewFacts
<1>5. p \in 1 .. Len(t) /\ z \in 1 .. Len(t)
  BY <1>1, <1>4
<1> HIDE DEF t, stream
<1>6. \A i \in 1 .. n : stream[p + i - 1] = needle[i]
  <2> DEFINE slice == SubSeq(stream, p, z)
  <2>1. p \in 1 .. Len(stream) + 1 /\ z \in 0 .. Len(stream)
    BY <1>1, <1>3, <1>4, <1>5
  <2>2. \A i \in DOMAIN slice : slice[i] = stream[p + i - 1]
    <3> HIDE DEF z
    <3> QED BY <1>4, <2>1, SubSeqDrawn
  <2>3. slice = needle
    BY <1>1
  <2> HIDE DEF slice
  <2>4. DOMAIN slice = 1 .. n
    BY <2>3, ListFacts
  <2> QED BY <2>2, <2>3, <2>4
<1> HIDE DEF z
<1>7. PICK a \in 1 .. Len(ss) : ayah[p] = a /\ E[a - 1] < p /\ p <= E[a]
  <2>1. p \in 1 .. E[Len(corpus[s])]
    BY <1>3, <1>5
  <2> HIDE DEF ayah
  <2> QED BY <1>3, <2>1, AyahOfPlace DEF ayah
<1>8. PICK b \in 1 .. Len(ss) : ayah[z] = b /\ E[b - 1] < z /\ z <= E[b]
  <2>1. z \in 1 .. E[Len(corpus[s])]
    BY <1>3, <1>5
  <2> HIDE DEF ayah
  <2> QED BY <1>3, <2>1, AyahOfPlace DEF ayah
<1>9. b \in a .. Len(ss)
  <2>1. Len(ss) \in Nat /\ \A i \in 0 .. Len(ss) : E[i] \in Nat
    BY <1>3, EndsNat
  <2>2. ASSUME b < a PROVE FALSE
    <3>1. b \in 0 .. Len(ss) /\ a - 1 \in b .. Len(ss)
      BY <2>1, <2>2
    <3>2. E[b] <= E[a - 1] /\ E[b] \in Nat /\ E[a - 1] \in Nat
      <4>1. \A i \in 1 .. Len(ss) : Len(ss[i]) \in Nat
        BY <1>3, EndsNat
      <4> DEFINE c == a - 1
      <4>2. c \in b .. Len(ss)
        BY <3>1
      <4> HIDE DEF c
      <4>3. E[b] <= E[c] /\ E[b] \in Nat /\ E[c] \in Nat
        BY <1>3, <2>1, <3>1, <4>1, <4>2, EndsGrow
      <4> QED BY <4>3 DEF c
    <3> QED BY <1>1, <1>7, <1>8, <3>2
  <2> QED BY <2>1, <2>2
<1> DEFINE u == FlattenSeq(SubSeq(ss, a, b))
           d == p - E[a - 1]
<1>10. /\ IsList(u) /\ Len(u) = E[b] - E[a - 1] /\ E[b] \in Nat /\ E[a - 1] \in Nat
       /\ E[b] <= E[Len(ss)]
       /\ \A x \in E[a - 1] + 1 .. E[b] : u[x - E[a - 1]] = t[x]
  <2>1. Lined(ss, E, FlattenSeq(ss))
    BY <1>2 DEF t
  <2> HIDE DEF ss
  <2> QED BY <1>3, <1>9, <2>1, SliceText DEF t
<1>11. Row(corpus, kind, s, ayah[p], ayah[z]).text = u
  BY <1>7, <1>8 DEF Row
<1> HIDE DEF u
<1> DEFINE v == View(m, u)
<1>12. IsList(v) /\ Len(v) = Len(u)
       /\ \A i \in 1 .. Len(u) : v[i] = IF m = "light" THEN u[i] ELSE Aggressive(u[i])
  BY <1>10, ViewFacts
<1> HIDE DEF v
<1> DEFINE lo == E[a - 1]
           hi == E[b]
<1>13. /\ lo \in Nat /\ hi \in Nat /\ lo < p /\ z <= hi /\ z = p + n - 1 /\ hi <= Len(t)
       /\ Len(v) = hi - lo /\ d = p - lo
  <2>1. lo < p /\ z <= hi
    BY <1>7, <1>8
  <2>2. lo \in Nat /\ hi \in Nat /\ hi <= Len(t) /\ Len(v) = hi - lo
    BY <1>3, <1>10, <1>12
  <2>3. z = p + n - 1
    BY DEF z
  <2> QED BY <2>1, <2>2, <2>3
<1> HIDE DEF lo, hi, d, n
<1>14. d \in Nat \ {0} /\ d + n - 1 <= Len(v)
  BY <1>1, <1>13
<1>15. ASSUME NEW i \in 1 .. n
       PROVE  v[d + i - 1] = needle[i]
  <2> DEFINE x == p + i - 1
  <2>1. x \in lo + 1 .. hi /\ x \in 1 .. Len(t) /\ x - lo = d + i - 1 /\ d + i - 1 \in 1 .. Len(v)
    BY <1>1, <1>3, <1>13
  <2>2. stream[x] = needle[i]
    BY <1>6
  <2> HIDE DEF x
  <2>3. u[x - lo] = t[x]
    BY <1>10, <2>1 DEF lo, hi
  <2> QED BY <1>4, <1>12, <2>1, <2>2, <2>3
<1>16. Stands(needle, v)
  <2> HIDE DEF d
  <2>1. IsList(v) /\ d \in Nat \ {0} /\ d + Len(needle) - 1 <= Len(v)
    BY <1>12, <1>14 DEF n
  <2>2. \A i \in 1 .. Len(needle) : v[d + i - 1] = needle[i]
    BY <1>15 DEF n
  <2> HIDE DEF v
  <2> QED BY <2>1, <2>2, OccursAt
<1> QED BY <1>11, <1>16 DEF v, z, n

-----------------------------------------------------------------------------
\* a row of a kind in a corpus, a list of them, and a list of their candidates
Sound(corpus, kind, row) ==
  /\ row.kind = kind /\ row.surah \in DOMAIN corpus
  /\ row.first \in Int /\ row.last \in Int
  /\ kind = "ayah" => row.first = row.last
AllSound(corpus, kind, rows) ==
  IsList(rows) /\ \A i \in DOMAIN rows : Sound(corpus, kind, rows[i])
SoundCandidate(corpus, kind, c) == "row" \in DOMAIN c /\ Sound(corpus, kind, c.row)
Placed(corpus, kind, cands) ==
  IsList(cands) /\ \A i \in DOMAIN cands : SoundCandidate(corpus, kind, cands[i])

\* a query that is evaluated has tokens
IsQuery(q) == IsList(q.text) /\ q.text # <<>>

\* the measures from which a match is called exact: whoever has one of them
\* quotes the query
Marks == {"exact_display", "exact_light", "exact_folded", "in_light", "in_folded", "coverage"}
Marked(c) ==
  \/ c.exact_display \/ c.exact_light \/ c.exact_folded
  \/ (c.in_light \/ c.in_folded) /\ c.coverage >= 95
MatchedCandidate(q, corpus, kind, c) ==
  /\ SoundCandidate(corpus, kind, c) /\ Marks \subseteq DOMAIN c
  /\ IsQuery(q) /\ Marked(c) => Quotes(q, c.row)
Matched(q, corpus, kind, cands) ==
  IsList(cands) /\ \A i \in DOMAIN cands : MatchedCandidate(q, corpus, kind, cands[i])

\* a row that is cut out of a surah of the corpus is sound
LEMMA RowSound ==
  ASSUME NEW corpus, NEW s \in DOMAIN corpus, NEW a \in Int, NEW b \in Int
  PROVE  /\ Sound(corpus, "ayah", Row(corpus, "ayah", s, a, a))
         /\ Sound(corpus, "passage", Row(corpus, "passage", s, a, b))
BY DEF Sound, Row

\* a candidate has the row that it was made of
LEMMA CandidateRow ==
  ASSUME NEW q, NEW row
  PROVE  "row" \in DOMAIN Candidate(q, row) /\ Candidate(q, row).row = row
<1> DEFINE m == Measures(q, row)
<1>1. "row" \in DOMAIN m /\ m.row = row
  BY DEF Measures
<1> HIDE DEF m
<1>2. Candidate(q, row) = [m EXCEPT !.score = Composite(m, TooShort(q, row))]
  BY DEF Candidate, Scored, m
<1> QED BY <1>1, <1>2

\* a coverage of 95 percent of less than twenty tokens is all of them
LEMMA CoverageHolds ==
  ASSUME NEW q, NEW t, IsList(q), q # <<>>, Len(q) < 20
  PROVE  /\ Coverage(q, t) \in Int
         /\ Coverage(q, t) >= 95 => ToSet(q) \subseteq ToSet(t)
<1> DEFINE n == Len(q)
           A == ToSet(q)
           B == A \cap ToSet(t)
           a == Cardinality(A)
           b == Cardinality(B)
<1>1. n \in Nat /\ n # 0 /\ DOMAIN q = 1 .. n
  BY ListFacts, EmptyList
<1>2. IsFiniteSet(1 .. n) /\ Cardinality(1 .. n) = n
  <2> HIDE DEF n
  <2>1. Cardinality(1 .. n) = IF 1 > n THEN 0 ELSE n - 1 + 1
    BY <1>1, FS_Interval
  <2> QED BY <1>1, <2>1, FS_Interval
<1>3. A = {q[i] : i \in 1 .. n}
  BY <1>1 DEF ToSet
<1>4. IsFiniteSet(A) /\ a <= n
  <2> DEFINE I == 1 .. n
             f == [i \in I |-> q[i]]
  <2>1. f \in Surjection(I, A)
    <3>1. f \in [I -> A] /\ \A x \in A : \E i \in I : f[i] = x
      BY <1>3
    <3> QED BY <3>1 DEF Surjection
  <2> HIDE DEF f, A
  <2>2. IsFiniteSet(I) /\ Cardinality(I) = n
    BY <1>2
  <2> HIDE DEF I, n
  <2> QED BY <2>1, <2>2, FS_Surjection
<1>5. a \in Nat /\ a # 0
  <2>1. q[1] \in A
    BY <1>1, <1>3
  <2> HIDE DEF A
  <2> QED BY <1>4, <2>1, FS_CardinalityType, FS_EmptySet
<1>6. b \in Nat /\ b <= a /\ (b = a => B = A)
  <2> HIDE DEF A
  <2>1. B \subseteq A
    OBVIOUS
  <2> HIDE DEF B
  <2> QED BY <1>4, <2>1, FS_Subset, FS_CardinalityType
<1>7. Coverage(q, t) = (100 * b) \div a
  BY DEF Coverage
<1>8. a < 20 /\ a >= 1
  BY <1>1, <1>4, <1>5
<1> HIDE DEF a, b
<1>9. (100 * b) \div a \in Int
  BY <1>5, <1>6, <1>8
<1>10. ASSUME (100 * b) \div a >= 95 PROVE b = a
  <2> DEFINE k == (100 * b) \div a
  <2>1. k \in Int /\ k * a <= 100 * b
    BY <1>5, <1>6, <1>8
  <2> HIDE DEF k
  <2>2. k >= 95
    BY <1>10 DEF k
  <2>3. 95 * a <= k * a
    BY <1>5, <2>1, <2>2
  <2>4. 95 * a <= 100 * b
    BY <1>5, <1>6, <2>1, <2>3
  <2> QED BY <1>5, <1>6, <1>8, <2>4
<1>11. B = A => A \subseteq ToSet(t)
  OBVIOUS
<1> HIDE DEF A, B
<1>12. Coverage(q, t) >= 95 => A \subseteq ToSet(t)
  BY <1>6, <1>7, <1>10, <1>11
<1> QED BY <1>7, <1>9, <1>12 DEF A

\* the measures of a row tell whether it holds the query
LEMMA MeasuresQuote ==
  ASSUME NEW q, NEW row
  PROVE  /\ Marks \subseteq DOMAIN Measures(q, row)
         /\ IsQuery(q) /\ Marked(Measures(q, row)) => Quotes(q, row)
<1> DEFINE m == Measures(q, row)
           light == View("light", q.text)
           folded == View("aggressive", q.text)
           text == View("light", row.text)
           other == View("aggressive", row.text)
<1>1. /\ Marks \subseteq DOMAIN m
      /\ m.exact_display = (q.pointed /\ q.text = row.text)
      /\ m.exact_light = (q.text = row.text)
      /\ m.exact_folded = (folded = other)
      /\ m.in_light = PieceOf(q.text, row.text)
      /\ m.in_folded = PieceOf(folded, other)
      /\ m.coverage = Max({Coverage(q.text, row.text), Coverage(folded, other)})
  BY DEF Measures, Marks
<1>2. light = q.text /\ text = row.text
  BY DEF View
<1> HIDE DEF m
<1>3. ASSUME IsQuery(q), NEW mode
      PROVE  /\ IsList(View(mode, q.text)) /\ View(mode, q.text) # <<>>
             /\ Len(View(mode, q.text)) = Len(q.text)
             /\ Stands(View(mode, q.text), View(mode, q.text))
  <2> DEFINE t == View(mode, q.text)
  <2>1. IsList(q.text) /\ Len(q.text) \in Nat /\ Len(q.text) # 0
    BY <1>3, ListFacts, EmptyList DEF IsQuery
  <2>2. IsList(t) /\ Len(t) = Len(q.text)
    BY <2>1, ViewFacts
  <2> HIDE DEF t
  <2>3. t # <<>> /\ 1 \in Nat \ {0} /\ 1 + Len(t) - 1 <= Len(t)
    BY <2>1, <2>2, EmptyList
  <2>4. \A i \in 1 .. Len(t) : t[1 + i - 1] = t[i]
    OBVIOUS
  <2>5. Stands(t, t)
    BY <2>2, <2>3, <2>4, OccursAt
  <2> QED BY <2>2, <2>3, <2>5 DEF t
<1>4. ASSUME IsQuery(q), Marked(m)
      PROVE  Quotes(q, row)
  <2>0. /\ IsList(light) /\ light # <<>> /\ Len(light) = Len(q.text) /\ Stands(light, light)
        /\ IsList(folded) /\ folded # <<>> /\ Len(folded) = Len(q.text) /\ Stands(folded, folded)
    BY <1>3, <1>4
  <2>1. \/ light = text \/ folded = other
        \/ (PieceOf(light, text) \/ PieceOf(folded, other)) /\ m.coverage >= 95
    BY <1>1, <1>2, <1>4 DEF Marked
  <2> HIDE DEF light, folded, text, other
  <2>2. light = text \/ folded = other => Stands(light, text) \/ Stands(folded, other)
    BY <2>0
  <2>3. PieceOf(light, text) \/ PieceOf(folded, other)
    BY <2>1, <2>2 DEF Stands
  <2>4. ASSUME Len(q.text) < 20
        PROVE  ToSet(light) \subseteq ToSet(text) \/ ToSet(folded) \subseteq ToSet(other)
    <3>1. /\ Coverage(light, text) \in Int
          /\ Coverage(light, text) >= 95 => ToSet(light) \subseteq ToSet(text)
      BY <2>0, <2>4, CoverageHolds
    <3>2. /\ Coverage(folded, other) \in Int
          /\ Coverage(folded, other) >= 95 => ToSet(folded) \subseteq ToSet(other)
      BY <2>0, <2>4, CoverageHolds
    <3>3. m.coverage \in {Coverage(light, text), Coverage(folded, other)}
      BY <1>1, <1>2, <3>1, <3>2, TwoNumbers
    <3>4. CASE m.coverage >= 95
      BY <3>1, <3>2, <3>3, <3>4
    <3> QED BY <2>1, <2>2, <3>4 DEF Stands
  <2> QED BY <2>3, <2>4 DEF Quotes, Modes, light, folded, text, other
<1> QED BY <1>1, <1>4 DEF m

\* a candidate of a sound row matches the query
LEMMA CandidateMatched ==
  ASSUME NEW q, NEW corpus, NEW kind, NEW row, Sound(corpus, kind, row)
  PROVE  MatchedCandidate(q, corpus, kind, Candidate(q, row))
<1> DEFINE m == Measures(q, row)
           c == [m EXCEPT !.score = Composite(m, TooShort(q, row))]
<1>1. "row" \in DOMAIN m /\ m.row = row
  BY DEF Measures
<1>2. Marks \subseteq DOMAIN m /\ (IsQuery(q) /\ Marked(m) => Quotes(q, row))
  BY MeasuresQuote
<1> HIDE DEF m
<1>3. Candidate(q, row) = c
  BY DEF Candidate, Scored, m
<1>4. DOMAIN c = DOMAIN m /\ c.row = row /\ Marked(c) = Marked(m)
  BY <1>1, <1>2 DEF Marked, Marks
<1> HIDE DEF c
<1> QED BY <1>1, <1>2, <1>3, <1>4 DEF MatchedCandidate, SoundCandidate

\* naming the engine of a candidate leaves its row and its marks
LEMMA WithMatched ==
  ASSUME NEW q, NEW corpus, NEW kind, NEW c, MatchedCandidate(q, corpus, kind, c), NEW engine
  PROVE  MatchedCandidate(q, corpus, kind, With(c, engine)) /\ With(c, engine).row = c.row
<1> DEFINE d == [c EXCEPT !.engine = engine]
<1>1. "row" \in DOMAIN c /\ Marks \subseteq DOMAIN c
  BY DEF MatchedCandidate, SoundCandidate
<1>2. DOMAIN d = DOMAIN c /\ d.row = c.row /\ Marked(d) = Marked(c)
  BY <1>1 DEF Marked, Marks
<1>3. With(c, engine) = d
  BY DEF With
<1> HIDE DEF d
<1> QED BY <1>2, <1>3 DEF MatchedCandidate, SoundCandidate

\* so does naming its run
LEMMA RunMatched ==
  ASSUME NEW q, NEW corpus, NEW kind, NEW c, MatchedCandidate(q, corpus, kind, c), NEW share
  PROVE  MatchedCandidate(q, corpus, kind, [c EXCEPT !.run = share])
<1> DEFINE e == [c EXCEPT !.run = share]
<1>1. "row" \in DOMAIN c /\ Marks \subseteq DOMAIN c
  BY DEF MatchedCandidate, SoundCandidate
<1>2. DOMAIN e = DOMAIN c /\ e.row = c.row /\ Marked(e) = Marked(c)
  BY <1>1 DEF Marked, Marks
<1> HIDE DEF e
<1> QED BY <1>2 DEF MatchedCandidate, SoundCandidate, e

\* full marks for a row that quotes the query
LEMMA FullMarksMatched ==
  ASSUME NEW q, NEW corpus, NEW kind, NEW row, Sound(corpus, kind, row),
         IsQuery(q) => Quotes(q, row), NEW engine
  PROVE  MatchedCandidate(q, corpus, kind, FullMarks(q, row, engine))
<1> DEFINE m == Measures(q, row)
<1>1. {"row"} \cup Marks \subseteq DOMAIN m /\ m.row = row
  BY DEF Measures, Marks
<1> HIDE DEF m
<1> DEFINE n == [m EXCEPT !.engine = engine, !.in_light = TRUE, !.in_folded = TRUE]
           o == [n EXCEPT !.coverage = 100, !.set_score = 100, !.folded_score = 100]
           p == [o EXCEPT !.partial = 100, !.alike = 100, !.length_ratio = 100, !.score = 10000]
<1>2. {"row"} \cup Marks \subseteq DOMAIN n /\ n.row = row
  BY <1>1
<1>3. {"row"} \cup Marks \subseteq DOMAIN o /\ o.row = row
  <2> HIDE DEF n
  <2> QED BY <1>2
<1>4. {"row"} \cup Marks \subseteq DOMAIN p /\ p.row = row
  <2> HIDE DEF o
  <2> QED BY <1>3
<1>5. FullMarks(q, row, engine) = p
  BY DEF FullMarks, m
<1> HIDE DEF p
<1> QED BY <1>4, <1>5 DEF MatchedCandidate, SoundCandidate

\* candidates that match are sound
LEMMA MatchedPlaced ==
  ASSUME NEW q, NEW corpus, NEW kind, NEW cands, Matched(q, corpus, kind, cands)
  PROVE  Placed(corpus, kind, cands)
BY DEF Matched, MatchedCandidate, Placed

-----------------------------------------------------------------------------
\* candidates that are drawn from sound ones are sound
LEMMA MatchedDrawn ==
  ASSUME NEW q, NEW corpus, NEW kind, NEW t, Matched(q, corpus, kind, t), NEW s, Drawn(s, t)
  PROVE  Matched(q, corpus, kind, s)
BY DEF Matched, Drawn

\* rows that are drawn from sound ones are sound
LEMMA SoundDrawn ==
  ASSUME NEW corpus, NEW kind, NEW t, AllSound(corpus, kind, t), NEW s, Drawn(s, t)
  PROVE  AllSound(corpus, kind, s)
BY DEF AllSound, Drawn

\* no candidates are sound ones
LEMMA MatchedEmpty ==
  \A q, corpus, kind : Matched(q, corpus, kind, <<>>) /\ AllSound(corpus, kind, <<>>)
BY Empty DEF Matched, AllSound

\* sound candidates after sound candidates
LEMMA MatchedConcat ==
  ASSUME NEW q, NEW corpus, NEW kind, NEW s, NEW t
  PROVE  /\ Matched(q, corpus, kind, s) /\ Matched(q, corpus, kind, t) => Matched(q, corpus, kind, s \o t)
         /\ AllSound(corpus, kind, s) /\ AllSound(corpus, kind, t) => AllSound(corpus, kind, s \o t)
<1>1. ASSUME IsList(s), IsList(t)
      PROVE  IsList(s \o t) /\ \A i \in DOMAIN (s \o t) :
                \/ i \in DOMAIN s /\ (s \o t)[i] = s[i]
                \/ i - Len(s) \in DOMAIN t /\ (s \o t)[i] = t[i - Len(s)]
  BY <1>1, ConcatList
<1> DEFINE r == s \o t
<1> HIDE DEF r
<1>2. IsList(s) /\ IsList(t) => IsList(r) /\ \A i \in DOMAIN r :
                (\E j \in DOMAIN s : r[i] = s[j]) \/ (\E j \in DOMAIN t : r[i] = t[j])
  BY <1>1 DEF r
<1>3. /\ Matched(q, corpus, kind, s) /\ Matched(q, corpus, kind, t) => Matched(q, corpus, kind, r)
      /\ AllSound(corpus, kind, s) /\ AllSound(corpus, kind, t) => AllSound(corpus, kind, r)
  BY <1>2 DEF Matched, AllSound
<1> QED BY <1>3 DEF r

\* lists of sound candidates, flattened
LEMMA MatchedFlatten ==
  ASSUME NEW q, NEW corpus, NEW kind, NEW ss, IsList(ss)
  PROVE  /\ (\A i \in DOMAIN ss : Matched(q, corpus, kind, ss[i])) => Matched(q, corpus, kind, FlattenSeq(ss))
         /\ (\A i \in DOMAIN ss : AllSound(corpus, kind, ss[i])) => AllSound(corpus, kind, FlattenSeq(ss))
<1>1. ASSUME \A i \in DOMAIN ss : Matched(q, corpus, kind, ss[i])
      PROVE  Matched(q, corpus, kind, FlattenSeq(ss))
  BY <1>1, FlattenList DEF Matched
<1>2. ASSUME \A i \in DOMAIN ss : AllSound(corpus, kind, ss[i])
      PROVE  AllSound(corpus, kind, FlattenSeq(ss))
  BY <1>2, FlattenList DEF AllSound
<1> QED BY <1>1, <1>2

\* ranking and cutting keeps candidates sound
LEMMA RankedMatched ==
  ASSUME NEW q, NEW corpus, NEW kind, NEW cands, Matched(q, corpus, kind, cands), NEW k \in Nat
  PROVE  Matched(q, corpus, kind, Ranked(cands, k))
<1> DEFINE keys == [i \in DOMAIN cands |-> RankKey(cands[i])]
<1>1. Drawn(SortedBy(cands, keys), cands)
  <2> HIDE DEF keys
  <2> QED BY SortedDrawn DEF Matched
<1>2. Drawn(Upto(k, SortedBy(cands, keys)), SortedBy(cands, keys))
  <2> HIDE DEF keys
  <2> QED BY <1>1, UptoDrawn DEF Drawn
<1>3. Ranked(cands, k) = Upto(k, SortedBy(cands, keys))
  BY DEF Ranked
<1> HIDE DEF keys
<1> QED BY <1>1, <1>2, <1>3, DrawnTrans, MatchedDrawn

\* candidates that are made of sound rows
LEMMA CandidatesMatched ==
  ASSUME NEW q, NEW corpus, NEW kind, NEW rows, AllSound(corpus, kind, rows), NEW engine
  PROVE  Matched(q, corpus, kind, Candidates(q, rows, engine))
<1> DEFINE cands == [i \in DOMAIN rows |-> With(Candidate(q, rows[i]), engine)]
<1>1. IsList(cands) /\ DOMAIN cands = DOMAIN rows
  <2>1. cands = [i \in DOMAIN rows |-> cands[i]]
    OBVIOUS
  <2> HIDE DEF cands
  <2> QED BY <2>1, MapList DEF AllSound
<1>2. \A i \in DOMAIN rows : MatchedCandidate(q, corpus, kind, cands[i])
  BY CandidateMatched, WithMatched DEF AllSound
<1> HIDE DEF cands
<1>3. Matched(q, corpus, kind, cands)
  BY <1>1, <1>2 DEF Matched
<1> QED BY <1>3 DEF Candidates, cands

\* the best matches of sound rows
LEMMA BestMatchesMatched ==
  ASSUME NEW q, NEW corpus, NEW kind, NEW rows, AllSound(corpus, kind, rows), NEW k \in Nat
  PROVE  Matched(q, corpus, kind, BestMatches(q, rows, k))
<1> DEFINE cands == [i \in DOMAIN rows |-> Candidate(q, rows[i])]
<1>1. IsList(cands) /\ DOMAIN cands = DOMAIN rows
  <2>1. cands = [i \in DOMAIN rows |-> cands[i]]
    OBVIOUS
  <2> HIDE DEF cands
  <2> QED BY <2>1, MapList DEF AllSound
<1>2. \A i \in DOMAIN rows : MatchedCandidate(q, corpus, kind, cands[i])
  BY CandidateMatched DEF AllSound
<1>3. BestMatches(q, rows, k) = Ranked(cands, k)
  BY DEF BestMatches
<1> HIDE DEF cands
<1>4. Matched(q, corpus, kind, cands)
  BY <1>1, <1>2 DEF Matched
<1> QED BY <1>3, <1>4, RankedMatched

\* the candidates that a search merges and ranks
LEMMA MergedMatched ==
  ASSUME NEW q, NEW corpus, NEW kind, NEW cands, Matched(q, corpus, kind, cands), NEW k \in Nat
  PROVE  /\ Matched(q, corpus, kind, FirstOfEach(cands))
         /\ Matched(q, corpus, kind, Ranked(FirstOfEach(cands), k))
<1>1. Matched(q, corpus, kind, FirstOfEach(cands))
  BY FirstOfEachUnique, MatchedDrawn DEF Matched
<1> QED BY <1>1, RankedMatched

-----------------------------------------------------------------------------
\* every row of the ayah corpus is sound
LEMMA AyahRowsSound ==
  ASSUME NEW corpus, IsCorpus(corpus)
  PROVE  AllSound(corpus, "ayah", AyahRows(corpus))
<1> DEFINE ss == [s \in DOMAIN corpus |-> [a \in DOMAIN corpus[s] |-> Row(corpus, "ayah", s, a, a)]]
<1>1. IsList(corpus) /\ \A s \in DOMAIN corpus : IsList(corpus[s])
  BY DEF IsCorpus, IsSurah
<1>2. IsList(ss) /\ DOMAIN ss = DOMAIN corpus
  <2>1. ss = [s \in DOMAIN corpus |-> ss[s]]
    OBVIOUS
  <2> HIDE DEF ss
  <2> QED BY <1>1, <2>1, MapList
<1>3. ASSUME NEW s \in DOMAIN corpus
      PROVE  AllSound(corpus, "ayah", ss[s])
  <2> DEFINE rows == ss[s]
  <2>1. rows = [a \in DOMAIN corpus[s] |-> rows[a]]
    BY <1>3
  <2>2. \A a \in DOMAIN corpus[s] : a \in Int
    BY <1>1, ListFacts
  <2>3. \A a \in DOMAIN corpus[s] : Sound(corpus, "ayah", rows[a])
    BY <2>2, RowSound
  <2> HIDE DEF rows
  <2> QED BY <1>1, <2>1, <2>3, MapList DEF AllSound, rows
<1> HIDE DEF ss
<1>4. AllSound(corpus, "ayah", FlattenSeq(ss))
  BY <1>2, <1>3, MatchedFlatten
<1> QED BY <1>4 DEF AyahRows, ss

\* and its text is a list of tokens
LEMMA AyahRowsText ==
  ASSUME NEW corpus, IsCorpus(corpus), NEW i \in DOMAIN AyahRows(corpus)
  PROVE  IsList(AyahRows(corpus)[i].text)
<1> DEFINE ss == [s \in DOMAIN corpus |-> [a \in DOMAIN corpus[s] |-> Row(corpus, "ayah", s, a, a)]]
<1>1. IsList(corpus) /\ \A s \in DOMAIN corpus : IsSurah(corpus[s]) /\ AreLists(corpus[s])
  BY DEF IsCorpus, IsSurah, AreLists
<1>2. IsList(ss) /\ DOMAIN ss = DOMAIN corpus
  <2>1. ss = [s \in DOMAIN corpus |-> ss[s]]
    OBVIOUS
  <2> HIDE DEF ss
  <2> QED BY <1>1, <2>1, MapList
<1>3. ASSUME NEW s \in DOMAIN corpus
      PROVE  /\ IsList(ss[s]) /\ DOMAIN ss[s] = DOMAIN corpus[s]
             /\ \A a \in DOMAIN corpus[s] : ss[s][a].text = FlattenSeq(SubSeq(corpus[s], a, a))
  <2> DEFINE rows == ss[s]
  <2>1. rows = [a \in DOMAIN corpus[s] |-> rows[a]]
        /\ \A a \in DOMAIN corpus[s] : rows[a] = Row(corpus, "ayah", s, a, a)
    BY <1>3
  <2> HIDE DEF rows
  <2>2. IsList(rows) /\ DOMAIN rows = DOMAIN corpus[s]
    BY <1>1, <2>1, MapList DEF AreLists
  <2>3. \A a \in DOMAIN corpus[s] : rows[a].text = FlattenSeq(SubSeq(corpus[s], a, a))
    BY <2>1 DEF Row
  <2> QED BY <2>2, <2>3 DEF rows
<1> HIDE DEF ss
<1>4. PICK s \in DOMAIN ss : \E a \in DOMAIN ss[s] : FlattenSeq(ss)[i] = ss[s][a]
  <2>1. i \in DOMAIN FlattenSeq(ss)
    BY DEF AyahRows, ss
  <2> QED BY <1>2, <1>3, <2>1, FlattenList
<1>a. PICK a \in DOMAIN ss[s] : FlattenSeq(ss)[i] = ss[s][a]
  BY <1>4
<1>5. AyahRows(corpus)[i] = ss[s][a] /\ s \in DOMAIN corpus /\ a \in DOMAIN corpus[s]
  BY <1>2, <1>3, <1>a DEF AyahRows, ss
<1> DEFINE ayat == corpus[s]
           u    == FlattenSeq(SubSeq(ayat, a, a))
<1>6. AreLists(ayat) /\ a \in DOMAIN ayat
  BY <1>1, <1>5
<1>7. AyahRows(corpus)[i].text = u
  BY <1>3, <1>5
<1> HIDE DEF ayat
<1>8. IsList(u)
  <2> DEFINE own == SubSeq(ayat, a, a)
  <2>1. a \in 1 .. Len(ayat) + 1 /\ a \in 0 .. Len(ayat)
    BY <1>6, ListFacts DEF AreLists
  <2>2. IsList(own) /\ \A n \in DOMAIN own : IsList(own[n])
    BY <1>6, <2>1, SubSeqDrawn DEF AreLists, Drawn
  <2> HIDE DEF own
  <2>3. IsList(FlattenSeq(own))
    BY <2>2, FlattenList
  <2> QED BY <2>3 DEF own
<1> QED BY <1>7, <1>8

-----------------------------------------------------------------------------
InScope(corpus, scope) == IsList(scope) /\ \A i \in DOMAIN scope : scope[i] \in DOMAIN corpus
Spans(order) ==
  IsList(order) /\ \A i \in DOMAIN order : order[i][1] \in Int /\ order[i][2] \in Int

\* the surahs of a scope that the corpus knows
LEMMA KnownInScope ==
  ASSUME NEW corpus, NEW scope, IsList(scope)
  PROVE  InScope(corpus, Known(corpus, scope))
<1> DEFINE places == {i \in DOMAIN scope : scope[i] \in DOMAIN corpus}
<1>1. PICK at : /\ Picks(Kept(scope, places), scope, at)
                /\ \A i \in DOMAIN Kept(scope, places) : at[i] \in places
  <2> HIDE DEF places
  <2> QED BY KeptPicks
<1>2. Known(corpus, scope) = Kept(scope, places)
  BY DEF Known
<1> QED BY <1>1, <1>2 DEF Picks, InScope

\* an empty scope is the whole corpus
LEMMA ScopedInScope ==
  ASSUME NEW corpus, IsList(corpus), NEW scope, IsList(scope)
  PROVE  InScope(corpus, Scoped(corpus, scope))
<1> DEFINE all == [s \in DOMAIN corpus |-> s]
<1>1. InScope(corpus, all)
  <2>1. all = [s \in DOMAIN corpus |-> all[s]] /\ \A s \in DOMAIN corpus : all[s] = s
    OBVIOUS
  <2> HIDE DEF all
  <2> QED BY <2>1, MapList DEF InScope
<1> QED BY <1>1, KnownInScope DEF Scoped

\* the members of a set in ascending order are members of it
LEMMA AscendingIn ==
  ASSUME NEW S \in SUBSET Int, NEW n \in Nat
  PROVE  IsList(Ascending(S, n)) /\ \A i \in DOMAIN Ascending(S, n) : Ascending(S, n)[i] \in S
<1> DEFINE numbers == [i \in 1 .. n + 1 |-> i - 1]
           places  == {m + 1 : m \in S}
<1>1. IsList(numbers) /\ DOMAIN numbers = 1 .. n + 1
  <2>1. numbers = [i \in 1 .. n + 1 |-> numbers[i]] /\ n + 1 \in Nat
    OBVIOUS
  <2> HIDE DEF numbers
  <2> QED BY <2>1, FunctionIsList
<1>2. \A i \in 1 .. n + 1 : i \in places => numbers[i] \in S
  OBVIOUS
<1>3. Ascending(S, n) = Kept(numbers, places)
  BY DEF Ascending
<1> HIDE DEF numbers, places
<1>4. PICK at : /\ Picks(Kept(numbers, places), numbers, at)
                /\ \A i \in DOMAIN Kept(numbers, places) : at[i] \in places
  BY <1>1, KeptPicks
<1> QED BY <1>1, <1>2, <1>3, <1>4 DEF Picks

\* spans in order are spans
LEMMA InOrderSpans ==
  ASSUME NEW n \in Nat, NEW S
  PROVE  Spans(InOrder(n, S))
<1> DEFINE pairs == [i \in 1 .. n * n |-> <<1 + ((i - 1) \div n), 1 + ((i - 1) % n)>>]
           places == {i \in DOMAIN pairs : pairs[i] \in S}
<1>1. n * n \in Nat
  OBVIOUS
<1>2. Spans(pairs)
  <2>1. \A i \in 1 .. n * n : pairs[i][1] \in Int /\ pairs[i][2] \in Int
    <3> TAKE i \in 1 .. n * n
    <3>1. n # 0
      OBVIOUS
    <3>2. i - 1 \in Int /\ n > 0
      BY <3>1
    <3>3. (i - 1) \div n \in Int /\ (i - 1) % n \in Int
      BY <3>2
    <3> QED BY <3>3
  <2>2. pairs = [i \in 1 .. n * n |-> pairs[i]]
    OBVIOUS
  <2> HIDE DEF pairs
  <2> QED BY <1>1, <2>1, <2>2, FunctionIsList DEF Spans
<1>3. InOrder(n, S) = Kept(pairs, places)
  BY DEF InOrder
<1> HIDE DEF pairs, places
<1> QED BY <1>2, <1>3, KeptDrawn DEF Spans, Drawn

\* spans in order are members of the set
LEMMA InOrderIn ==
  ASSUME NEW n \in Nat, NEW S
  PROVE  \A i \in DOMAIN InOrder(n, S) : InOrder(n, S)[i] \in S
<1> DEFINE pairs == [i \in 1 .. n * n |-> <<1 + ((i - 1) \div n), 1 + ((i - 1) % n)>>]
           places == {i \in DOMAIN pairs : pairs[i] \in S}
<1>1. n * n \in Nat
  OBVIOUS
<1>2. IsList(pairs)
  <2>1. pairs = [i \in 1 .. n * n |-> pairs[i]]
    OBVIOUS
  <2> HIDE DEF pairs
  <2> QED BY <1>1, <2>1, FunctionIsList
<1>3. InOrder(n, S) = Kept(pairs, places)
  BY DEF InOrder
<1>4. \A i \in places : pairs[i] \in S
  OBVIOUS
<1> HIDE DEF pairs, places
<1>5. PICK at : /\ Picks(Kept(pairs, places), pairs, at)
                /\ \A i \in DOMAIN Kept(pairs, places) : at[i] \in places
  BY <1>2, KeptPicks
<1> QED BY <1>3, <1>4, <1>5 DEF Picks

\* the rows of spans in one surah are sound
LEMMA SpansAtSound ==
  ASSUME NEW corpus, NEW s \in DOMAIN corpus, NEW order, Spans(order)
  PROVE  AllSound(corpus, "passage", SpansAt(corpus, s, order))
<1> DEFINE rows == [i \in DOMAIN order |-> Row(corpus, "passage", s, order[i][1], order[i][2])]
<1>1. IsList(rows) /\ DOMAIN rows = DOMAIN order
  <2>1. rows = [i \in DOMAIN order |-> rows[i]]
    OBVIOUS
  <2> HIDE DEF rows
  <2> QED BY <2>1, MapList DEF Spans
<1>2. \A i \in DOMAIN order : Sound(corpus, "passage", rows[i])
  BY RowSound DEF Spans
<1>3. SpansAt(corpus, s, order) = rows
  BY DEF SpansAt, Span
<1> HIDE DEF rows
<1> QED BY <1>1, <1>2, <1>3 DEF AllSound

\* a search over a scope, in both normalisations
LEMMA OverMatched ==
  ASSUME NEW q, NEW corpus, NEW kind, NEW scope, IsList(scope), NEW ss,
         ss = [i \in DOMAIN scope |-> ss[i]],
         \A i \in DOMAIN scope : Matched(q, corpus, kind, ss[i])
  PROVE  Matched(q, corpus, kind, FlattenSeq(ss))
<1>1. IsList(ss) /\ DOMAIN ss = DOMAIN scope
  BY MapList
<1> QED BY <1>1, MatchedFlatten

\* the spans of the places where a text was found
LEMMA AyatAtSpans ==
  ASSUME NEW corpus, IsCorpus(corpus), NEW s \in DOMAIN corpus, NEW places, NEW n, NEW least
  PROVE  Spans(AyatAt(corpus, s, places, n, least))
<1>1. Len(corpus[s]) \in Nat
  BY ListFacts DEF IsCorpus, IsSurah
<1> QED BY <1>1, InOrderSpans DEF AyatAt

\* the spans that contain the query
LEMMA ContainedMatched ==
  ASSUME NEW q, NEW corpus, IsCorpus(corpus), NEW scope, IsList(scope), NEW least, NEW k \in Nat
  PROVE  Matched(q, corpus, "passage", ContainedSpans(q, corpus, least, k, scope))
<1> DEFINE sc == Scoped(corpus, scope)
           in(m, s) == ContainedIn(q, corpus, View(m, q.text), m, s, least)
           ss == [i \in DOMAIN sc |-> in("light", sc[i]) \o in("aggressive", sc[i])]
<1>1. InScope(corpus, sc)
  BY ScopedInScope DEF IsCorpus, IsSurah
<1>2. ASSUME NEW m, NEW s \in DOMAIN corpus
      PROVE  Matched(q, corpus, "passage", in(m, s))
  BY AyatAtSpans, SpansAtSound, CandidatesMatched DEF ContainedIn
<1>3. ContainedSpans(q, corpus, least, k, scope) = Ranked(FirstOfEach(FlattenSeq(ss)), k)
  BY DEF ContainedSpans, Over
<1>4. \A i \in DOMAIN sc : Matched(q, corpus, "passage", ss[i])
  <2> HIDE DEF in, sc
  <2> QED BY <1>1, <1>2, MatchedConcat DEF InScope
<1>5. ss = [i \in DOMAIN sc |-> ss[i]]
  OBVIOUS
<1> HIDE DEF ss, sc
<1>6. Matched(q, corpus, "passage", FlattenSeq(ss))
  BY <1>1, <1>4, <1>5, OverMatched DEF InScope
<1> QED BY <1>3, <1>6, MergedMatched

-----------------------------------------------------------------------------
\* the rows that are found in the surahs of a scope, one normalisation at a time
LEMMA FoundSound ==
  ASSUME NEW corpus, NEW scope, IsList(scope), NEW ss,
         ss = [i \in DOMAIN scope |-> ss[i]],
         \A i \in DOMAIN scope : AllSound(corpus, "passage", ss[i])
  PROVE  AllSound(corpus, "passage", FlattenSeq(ss))
<1>1. IsList(ss) /\ DOMAIN ss = DOMAIN scope
  BY MapList
<1> QED BY <1>1, MatchedFlatten

\* a corpus and its surahs are lists
LEMMA CorpusLength ==
  ASSUME NEW corpus, IsCorpus(corpus)
  PROVE  /\ IsList(corpus) /\ Len(corpus) \in Nat /\ DOMAIN corpus = 1 .. Len(corpus)
         /\ \A s \in DOMAIN corpus : Len(corpus[s]) \in Nat
BY ListFacts DEF IsCorpus, IsSurah

\* the exact spans
LEMMA ExactSpansMatched ==
  ASSUME NEW q, NEW corpus, IsCorpus(corpus), NEW scope, IsList(scope), NEW least, NEW k \in Nat
  PROVE  Matched(q, corpus, "passage", ExactSpans(q, corpus, least, k, scope))
<1> DEFINE sc == Scoped(corpus, scope)
           ss(m) == [i \in DOMAIN sc |-> ExactIn(q, corpus, m, sc[i], least)]
           folded == FlattenSeq(ss("aggressive"))
           light  == FlattenSeq(ss("light"))
           other  == Kept(folded, {i \in DOMAIN folded : folded[i].text # q.text})
           rows   == light \o other
<1>1. InScope(corpus, sc)
  BY CorpusLength, ScopedInScope
<1>2. ASSUME NEW m, NEW s \in DOMAIN corpus
      PROVE  AllSound(corpus, "passage", ExactIn(q, corpus, m, s, least))
  BY CorpusLength, InOrderSpans, SpansAtSound DEF ExactIn
<1>3. ASSUME NEW m
      PROVE  AllSound(corpus, "passage", FlattenSeq(ss(m)))
  <2> DEFINE t == ss(m)
  <2>1. t = [i \in DOMAIN sc |-> t[i]] /\ \A i \in DOMAIN sc : t[i] = ExactIn(q, corpus, m, sc[i], least)
    OBVIOUS
  <2> HIDE DEF sc, t
  <2>2. \A i \in DOMAIN sc : AllSound(corpus, "passage", t[i])
    BY <1>1, <1>2, <2>1 DEF InScope
  <2>3. AllSound(corpus, "passage", FlattenSeq(t))
    BY <1>1, <2>1, <2>2, FoundSound DEF InScope
  <2> QED BY <2>3 DEF t
<1>4. ExactSpans(q, corpus, least, k, scope)
        = Ranked(Candidates(q, rows, "surah_span_exact"), k)
  BY DEF ExactSpans, ExactSpanRows
<1>5. AllSound(corpus, "passage", folded) /\ AllSound(corpus, "passage", light)
  <2> HIDE DEF ss
  <2> QED BY <1>3
<1>6. AllSound(corpus, "passage", other)
  <2> HIDE DEF folded
  <2> QED BY <1>5, KeptDrawn, SoundDrawn DEF AllSound
<1>7. AllSound(corpus, "passage", rows)
  <2> HIDE DEF light, other
  <2> QED BY <1>5, <1>6, MatchedConcat
<1> HIDE DEF rows
<1> QED BY <1>4, <1>7, CandidatesMatched, RankedMatched

-----------------------------------------------------------------------------
\* a run of ayat where the query stands token by token quotes it
LEMMA StandingQuotes ==
  ASSUME NEW q, NEW corpus, NEW s, AreLists(corpus[s]), NEW m \in Modes, NEW least, IsQuery(q)
  PROVE  LET needle == View(m, q.text)
             rows   == SpansAt(corpus, s, AyatAt(corpus, s, Standing(needle, Stream(corpus, m, s)),
                                                 Len(needle), least))
         IN  \A i \in DOMAIN rows : Quotes(q, rows[i])
<1> DEFINE needle == View(m, q.text)
           n      == Len(needle)
           stream == Stream(corpus, m, s)
           ayah   == TokenAyahs(corpus, s)
           places == Standing(needle, stream)
           order  == AyatAt(corpus, s, places, n, least)
           rows   == SpansAt(corpus, s, order)
<1>1. IsList(needle) /\ needle # <<>>
  <2>1. IsList(q.text) /\ Len(q.text) \in Nat /\ Len(q.text) # 0
    BY ListFacts, EmptyList DEF IsQuery
  <2> QED BY <2>1, ViewFacts, EmptyList
<1> HIDE DEF needle
<1>2. ASSUME NEW p \in places
      PROVE  p \in Nat \ {0} /\ p + n - 1 <= Len(stream) /\ SubSeq(stream, p, p + n - 1) = needle
  <2>1. p + n - 1 <= Len(stream) /\ SubSeq(stream, p, p + n - 1) = needle
    BY DEF Standing, StandsAt
  <2>2. p \in Occurrences(Anchor(needle, 0), stream)
    BY DEF Standing, FirstPositions
  <2>3. p \in Nat \ {0}
    BY <2>2 DEF Occurrences
  <2> QED BY <2>1, <2>3
<1>3. \A i \in DOMAIN order : \E p \in places : order[i] = <<ayah[p], ayah[p + n - 1]>>
  <2> DEFINE S == {w \in {<<ayah[p], ayah[p + n - 1]>> : p \in places} : w[2] - w[1] + 1 >= least}
  <2>1. order = InOrder(Len(corpus[s]), S)
    BY DEF AyatAt
  <2>2. \A w \in S : \E p \in places : w = <<ayah[p], ayah[p + n - 1]>>
    OBVIOUS
  <2> HIDE DEF S, order
  <2>3. Len(corpus[s]) \in Nat
    BY EndsNat, ListFacts DEF AreLists
  <2>4. \A i \in DOMAIN order : order[i] \in S
    BY <2>1, <2>3, InOrderIn
  <2> QED BY <2>2, <2>4
<1> HIDE DEF places, stream, ayah, order
<1>4. ASSUME NEW i \in DOMAIN order
      PROVE  Quotes(q, Span(corpus, s, order[i][1], order[i][2]))
  <2>1. PICK p \in places : order[i] = <<ayah[p], ayah[p + n - 1]>>
    BY <1>3
  <2> DEFINE row == Row(corpus, "passage", s, ayah[p], ayah[p + n - 1])
  <2>2. Span(corpus, s, order[i][1], order[i][2]) = row
    BY <2>1 DEF Span
  <2>3. Stands(needle, View(m, row.text))
    BY <1>1, <1>2, SpanHolds DEF stream, ayah
  <2> HIDE DEF row
  <2> QED BY <2>2, <2>3 DEF Stands, Quotes, needle
<1>5. DOMAIN rows = DOMAIN order
      /\ \A i \in DOMAIN order : rows[i] = Span(corpus, s, order[i][1], order[i][2])
  BY DEF SpansAt
<1> HIDE DEF rows
<1>6. \A i \in DOMAIN rows : Quotes(q, rows[i])
  BY <1>4, <1>5
<1> QED BY <1>6 DEF rows, order, places, stream, n, needle

\* the exact spans of a very long text
LEMMA GiantExactMatched ==
  ASSUME NEW q, NEW corpus, IsCorpus(corpus), NEW scope, InScope(corpus, scope), NEW least,
         NEW k \in Nat
  PROVE  Matched(q, corpus, "passage", GiantExact(q, corpus, scope, least, k))
<1> DEFINE in(m, s) == GiantExactIn(q, corpus, View(m, q.text), m, s, least)
           ss(m) == [i \in DOMAIN scope |-> in(m, scope[i])]
           finds(m) == FlattenSeq(ss(m))
           all == finds("light") \o finds("aggressive")
<1>0. AreLists(corpus)
      /\ \A s \in DOMAIN corpus : AreLists(corpus[s])
  BY DEF AreLists, IsCorpus, IsSurah
<1>1. ASSUME NEW m \in Modes, NEW s \in DOMAIN corpus
      PROVE  Matched(q, corpus, "passage", in(m, s))
  <2> DEFINE rows == SpansAt(corpus, s, AyatAt(corpus, s, Standing(View(m, q.text), Stream(corpus, m, s)),
                                               Len(View(m, q.text)), least))
             cands == [i \in DOMAIN rows |-> FullMarks(q, rows[i], "giant_exact_anchor")]
  <2>1. AllSound(corpus, "passage", rows)
    BY AyatAtSpans, SpansAtSound
  <2>2. cands = [i \in DOMAIN rows |-> cands[i]]
        /\ \A i \in DOMAIN rows : cands[i] = FullMarks(q, rows[i], "giant_exact_anchor")
    <3> HIDE DEF rows
    <3> QED OBVIOUS
  <2>3. in(m, s) = cands
    BY DEF GiantExactIn
  <2> HIDE DEF rows, cands, in
  <2>4. IsList(cands) /\ DOMAIN cands = DOMAIN rows
    BY <2>1, <2>2, MapList DEF AllSound
  <2>5. \A i \in DOMAIN rows : IsQuery(q) => Quotes(q, rows[i])
    BY <1>0, StandingQuotes DEF rows
  <2>6. \A i \in DOMAIN rows : MatchedCandidate(q, corpus, "passage", cands[i])
    BY <2>1, <2>2, <2>5, FullMarksMatched DEF AllSound
  <2> QED BY <2>3, <2>4, <2>6 DEF Matched
<1>2. ASSUME NEW m \in Modes
      PROVE  Matched(q, corpus, "passage", finds(m))
  <2> DEFINE t == ss(m)
  <2>1. t = [i \in DOMAIN scope |-> t[i]] /\ \A i \in DOMAIN scope : t[i] = in(m, scope[i])
    OBVIOUS
  <2> HIDE DEF t, in
  <2>2. \A i \in DOMAIN scope : Matched(q, corpus, "passage", t[i])
    BY <1>1, <2>1 DEF InScope
  <2>3. Matched(q, corpus, "passage", FlattenSeq(t))
    BY <2>1, <2>2, OverMatched DEF InScope
  <2> QED BY <2>3 DEF t
<1>3. Matched(q, corpus, "passage", all)
  <2>1. "light" \in Modes /\ "aggressive" \in Modes
    BY DEF Modes
  <2> HIDE DEF finds
  <2> QED BY <1>2, <2>1, MatchedConcat
<1>4. Matched(q, corpus, "passage", Upto(k, FirstOfEach(all)))
  <2> HIDE DEF all
  <2>1. Matched(q, corpus, "passage", FirstOfEach(all))
    BY <1>3, MergedMatched
  <2> QED BY <2>1, UptoDrawn, MatchedDrawn DEF Matched
<1>5. GiantExact(q, corpus, scope, least, k)
        = IF Len(q.text) < 2 * AnchorSize THEN <<>> ELSE Ranked(Upto(k, FirstOfEach(all)), k)
  BY DEF GiantExact
<1> HIDE DEF all
<1> QED BY <1>4, <1>5, MatchedEmpty, RankedMatched

\* the fast path
LEMMA FastPathMatched ==
  ASSUME NEW q, NEW corpus, IsCorpus(corpus), NEW likely, IsList(likely), NEW least, NEW k \in Nat
  PROVE  Matched(q, corpus, "passage", LongSpanExactMatch(q, corpus, likely, least, k))
<1> DEFINE asked  == Known(corpus, likely)
           others == Ascending(DOMAIN corpus \ ToSet(asked), Len(corpus))
<1>1. InScope(corpus, asked) /\ InScope(corpus, Scoped(corpus, asked))
  BY KnownInScope, ScopedInScope, CorpusLength DEF InScope
<1>2. InScope(corpus, others)
  <2>1. (DOMAIN corpus \ ToSet(asked)) \in SUBSET Int
    BY CorpusLength
  <2> HIDE DEF asked
  <2>2. IsList(others) /\ \A i \in DOMAIN others : others[i] \in DOMAIN corpus \ ToSet(asked)
    BY <2>1, CorpusLength, AscendingIn
  <2> QED BY <2>2 DEF InScope
<1>3. Matched(q, corpus, "passage", GiantExactPassages(q, corpus, likely, least, k))
  <2>1. Matched(q, corpus, "passage", GiantExact(q, corpus, Scoped(corpus, asked), least, k))
        /\ Matched(q, corpus, "passage", GiantExact(q, corpus, others, least, k))
    <3> HIDE DEF others, asked
    <3> QED BY <1>1, <1>2, GiantExactMatched
  <2> QED BY <2>1, MatchedEmpty DEF GiantExactPassages, FirstNonEmpty
<1> QED BY <1>3, MatchedEmpty DEF LongSpanExactMatch

-----------------------------------------------------------------------------
\* a span that is widened around a long run
LEMMA WidenedMatched ==
  ASSUME NEW q, NEW corpus, IsCorpus(corpus), NEW s \in DOMAIN corpus, NEW place, NEW n, NEW least
  PROVE  Matched(q, corpus, "passage", WidenedAt(q, corpus, s, place, n, least))
<1> DEFINE core == AyatAt(corpus, s, {place}, n, 1)
<1>1. Spans(core)
  BY AyatAtSpans
<1>2. CASE core = <<>>
  BY <1>2, MatchedEmpty DEF WidenedAt
<1>3. CASE core # <<>>
  <2> DEFINE span == core[1]
             wider == [e \in 1 .. 3 |-> <<Max({1, span[1] - e + 1}),
                                         Min({Len(corpus[s]), span[2] + e - 1})>>]
             order == Kept(wider, {e \in 1 .. 3 : wider[e][2] - wider[e][1] + 1 >= least})
  <2>1. span[1] \in Int /\ span[2] \in Int /\ Len(corpus[s]) \in Nat
    <3> HIDE DEF core
    <3>1. 1 \in DOMAIN core
      BY <1>1, <1>3, EmptyList, ListFacts DEF Spans
    <3> QED BY <1>1, <3>1, CorpusLength DEF Spans
  <2>2. Spans(wider)
    <3> HIDE DEF span
    <3>1. wider = [e \in 1 .. 3 |-> wider[e]]
      OBVIOUS
    <3>2. ASSUME NEW e \in 1 .. 3
          PROVE  wider[e][1] \in Int /\ wider[e][2] \in Int
      <4> DEFINE first == span[1] - e + 1
                 last  == span[2] + e - 1
                 size  == Len(corpus[s])
      <4>1. first \in Int /\ last \in Int /\ size \in Int
        BY <2>1
      <4>2. wider[e] = <<Max({1, first}), Min({size, last})>>
        OBVIOUS
      <4> HIDE DEF first, last, size, wider
      <4>3. Min({size, last}) \in {size, last}
        BY <4>1, TwoNumbers
      <4>4. Max({1, first}) \in {1, first}
        BY <4>1, TwoNumbers, 1 \in Int
      <4> QED BY <4>1, <4>2, <4>3, <4>4
    <3> HIDE DEF wider
    <3> QED BY <3>1, <3>2, FunctionIsList DEF Spans
  <2>3. Spans(order)
    <3> HIDE DEF wider
    <3> QED BY <2>2, KeptDrawn DEF Spans, Drawn
  <2>4. WidenedAt(q, corpus, s, place, n, least)
          = Candidates(q, SpansAt(corpus, s, order), "giant_partial_anchor")
    BY <1>3 DEF WidenedAt, Widened
  <2> HIDE DEF order
  <2> QED BY <2>3, <2>4, SpansAtSound, CandidatesMatched
<1> QED BY <1>2, <1>3

\* candidates with the share of their run
LEMMA WithRunMatched ==
  ASSUME NEW q, NEW corpus, NEW kind, NEW cands, Matched(q, corpus, kind, cands), NEW share
  PROVE  Matched(q, corpus, kind, WithRun(cands, share))
<1> DEFINE t == [i \in DOMAIN cands |-> [cands[i] EXCEPT !.run = share]]
<1>1. t = [i \in DOMAIN cands |-> t[i]]
      /\ \A i \in DOMAIN cands : t[i] = [cands[i] EXCEPT !.run = share]
  OBVIOUS
<1>2. WithRun(cands, share) = t
  BY DEF WithRun
<1> HIDE DEF t
<1>3. IsList(t) /\ DOMAIN t = DOMAIN cands
  BY <1>1, MapList DEF Matched
<1>4. \A i \in DOMAIN cands : MatchedCandidate(q, corpus, kind, t[i])
  <2> TAKE i \in DOMAIN cands
  <2> DEFINE c == cands[i]
  <2>1. MatchedCandidate(q, corpus, kind, c) /\ t[i] = [c EXCEPT !.run = share]
    BY <1>1 DEF Matched
  <2> HIDE DEF c
  <2> QED BY <2>1, RunMatched
<1> QED BY <1>2, <1>3, <1>4 DEF Matched

\* the partial matches of a very long text in a scope
LEMMA GiantPartialMatched ==
  ASSUME NEW q, NEW corpus, IsCorpus(corpus), NEW scope, InScope(corpus, scope), NEW least,
         NEW k \in Nat
  PROVE  Matched(q, corpus, "passage", GiantPartial(q, corpus, scope, least, k))
<1> DEFINE in(m, s) == AnchorSpans(q, corpus, m, s, least, View(m, q.text))
           on(m, s) == SubsequenceSpans(q, corpus, m, s, least)
           ss == [i \in DOMAIN scope |-> in("light", scope[i]) \o in("aggressive", scope[i])]
           tt == [i \in DOMAIN scope |-> on("light", scope[i]) \o on("aggressive", scope[i])]
<1>1. ASSUME NEW m, NEW s \in DOMAIN corpus
      PROVE  Matched(q, corpus, "passage", in(m, s))
  BY WidenedMatched, MatchedEmpty DEF AnchorSpans, ChainSpans
<1>2. ASSUME NEW m, NEW s \in DOMAIN corpus
      PROVE  Matched(q, corpus, "passage", on(m, s))
  <2> DEFINE runs == LongRun(corpus, m, s, View(m, q.text), 55)
             r == CHOOSE r \in runs : TRUE
             cands == WithRun(WidenedAt(q, corpus, s, r.from, r.length, least), ShareOf(r, q))
  <2>1. on(m, s) = IF runs = {} THEN <<>> ELSE cands
    BY DEF SubsequenceSpans, OfRun
  <2>2. Matched(q, corpus, "passage", cands)
    <3> HIDE DEF r
    <3> QED BY WidenedMatched, WithRunMatched
  <2> HIDE DEF on, cands
  <2> QED BY <2>1, <2>2, MatchedEmpty
<1>3. GiantPartial(q, corpus, scope, least, k)
        = Ranked(Ranked(FirstOfEach(FlattenSeq(ss)), k) \o Ranked(FirstOfEach(FlattenSeq(tt)), k), k)
  BY DEF GiantPartial, Over
<1>4. \A i \in DOMAIN scope : Matched(q, corpus, "passage", ss[i]) /\ Matched(q, corpus, "passage", tt[i])
  <2> HIDE DEF in, on
  <2> QED BY <1>1, <1>2, MatchedConcat DEF InScope
<1>5. ss = [i \in DOMAIN scope |-> ss[i]] /\ tt = [i \in DOMAIN scope |-> tt[i]]
  <2> HIDE DEF in, on
  <2> QED OBVIOUS
<1> HIDE DEF ss, tt
<1>6. Matched(q, corpus, "passage", FlattenSeq(ss)) /\ Matched(q, corpus, "passage", FlattenSeq(tt))
  BY <1>4, <1>5, OverMatched DEF InScope
<1>7. Matched(q, corpus, "passage", Ranked(FirstOfEach(FlattenSeq(ss)), k))
      /\ Matched(q, corpus, "passage", Ranked(FirstOfEach(FlattenSeq(tt)), k))
  BY <1>6, MergedMatched
<1> QED BY <1>3, <1>7, MatchedConcat, RankedMatched

\* the surahs with most votes are surahs of the corpus
LEMMA MostVotedIn ==
  ASSUME NEW corpus, IsCorpus(corpus), NEW votes, votes = [s \in DOMAIN corpus |-> votes[s]],
         NEW k \in Nat
  PROVE  InScope(corpus, MostVoted(votes, k))
<1> DEFINE S == {s \in DOMAIN votes : votes[s] > 0}
           voted == Ascending(S, Len(votes))
           keys == [i \in DOMAIN voted |-> <<votes[voted[i]]>>]
<1>1. Len(votes) \in Nat /\ S \in SUBSET Int /\ DOMAIN votes = DOMAIN corpus
  BY CorpusLength, MapList
<1>2. IsList(voted) /\ \A i \in DOMAIN voted : voted[i] \in DOMAIN corpus
  <2> DEFINE n == Len(votes)
  <2>1. \A s \in S : s \in DOMAIN corpus
    BY <1>1
  <2> HIDE DEF S, n
  <2> QED BY <1>1, <2>1, AscendingIn DEF n
<1>3. MostVoted(votes, k) = Upto(k, SortedBy(voted, keys))
  BY DEF MostVoted
<1> HIDE DEF voted, keys
<1>4. Drawn(SortedBy(voted, keys), voted)
  BY <1>2, SortedDrawn
<1>5. Drawn(Upto(k, SortedBy(voted, keys)), voted)
  BY <1>4, UptoDrawn, DrawnTrans DEF Drawn
<1> QED BY <1>2, <1>3, <1>5 DEF InScope, Drawn

\* the partial matches of a very long text
LEMMA GiantPartialPassagesMatched ==
  ASSUME NEW q, NEW corpus, IsCorpus(corpus), NEW likely, IsList(likely), NEW least, NEW k \in Nat
  PROVE  Matched(q, corpus, "passage", GiantPartialPassages(q, corpus, likely, least, k))
<1>1. InScope(corpus, Known(corpus, likely))
  BY KnownInScope
<1>2. InScope(corpus, InferScope(q, corpus))
  <2> DEFINE a == [s \in DOMAIN corpus |-> Votes(q, corpus, s)]
             b == [s \in DOMAIN corpus |-> RareVotes(q, corpus, s)]
  <2>1. a = [s \in DOMAIN corpus |-> a[s]] /\ b = [s \in DOMAIN corpus |-> b[s]]
    OBVIOUS
  <2>2. InferScope(q, corpus) = MostVoted(a, 2) \/ InferScope(q, corpus) = MostVoted(b, 2)
    BY DEF InferScope
  <2> HIDE DEF a, b
  <2> QED BY <2>1, <2>2, MostVotedIn
<1> DEFINE scope == IF Known(corpus, likely) # <<>> THEN Known(corpus, likely)
                    ELSE InferScope(q, corpus)
<1>3. InScope(corpus, Upto(2, scope))
  <2>1. InScope(corpus, scope)
    BY <1>1, <1>2
  <2> HIDE DEF scope
  <2>2. Drawn(Upto(2, scope), scope)
    BY <2>1, UptoDrawn DEF InScope
  <2> QED BY <2>1, <2>2 DEF InScope, Drawn
<1>4. Matched(q, corpus, "passage", GiantPartial(q, corpus, Upto(2, scope), least, k))
  <2> HIDE DEF scope
  <2> QED BY <1>3, GiantPartialMatched
<1> QED BY <1>4, MatchedEmpty DEF GiantPartialPassages

-----------------------------------------------------------------------------
\* the exact rows of sound rows
LEMMA ExactRowsSound ==
  ASSUME NEW q, NEW corpus, NEW kind, NEW rows, AllSound(corpus, kind, rows)
  PROVE  AllSound(corpus, kind, ExactRows(q, rows))
BY KeptDrawn, SoundDrawn DEF ExactRows, AllSound

\* a shortlist of sound rows
LEMMA ShortlistSound ==
  ASSUME NEW q, NEW corpus, NEW kind, NEW rows, AllSound(corpus, kind, rows), NEW shortcut
  PROVE  AllSound(corpus, kind, Shortlist(q, rows, shortcut))
<1> DEFINE qgrams == UsesQgrams(q, rows)
           pool == Pool(q, rows, qgrams)
           some == Kept(rows, {i \in DOMAIN rows :
                     TokenOverlap(q, rows[i]) > 0 \/ Grams(q, rows[i], qgrams) > 0})
           chosen == IF pool # <<>> THEN pool ELSE some
           key(r) == <<Weight(q, r, rows, qgrams), TokenOverlap(q, r), Grams(q, r, qgrams)>>
           keys == [i \in DOMAIN chosen |-> key(chosen[i])]
<1>1. AllSound(corpus, kind, ExactRows(q, rows)) /\ AllSound(corpus, kind, pool)
  BY ExactRowsSound, KeptDrawn, SoundDrawn DEF Pool, AllSound
<1>2. AllSound(corpus, kind, chosen)
  <2>1. AllSound(corpus, kind, some)
    BY KeptDrawn, SoundDrawn DEF AllSound
  <2> HIDE DEF pool, some
  <2> QED BY <1>1, <2>1
<1>3. Shortlisted(q, rows, pool, qgrams) = Upto(ShortlistLimit, SortedBy(chosen, keys))
  BY DEF Shortlisted
<1> HIDE DEF chosen, keys
<1>4. AllSound(corpus, kind, SortedBy(chosen, keys))
  BY <1>2, SortedDrawn, SoundDrawn DEF AllSound
<1>5. AllSound(corpus, kind, Upto(ShortlistLimit, SortedBy(chosen, keys)))
  BY <1>4, ShortlistLimitAssumption, UptoDrawn, SoundDrawn DEF AllSound
<1>6. AllSound(corpus, kind, Upto(ShortlistLimit, ExactRows(q, rows)))
  BY <1>1, ShortlistLimitAssumption, UptoDrawn, SoundDrawn DEF AllSound
<1> QED BY <1>3, <1>5, <1>6 DEF Shortlist, pool, qgrams

\* every row of the windows that the corpus stores is sound
LEMMA PassageRowsSound ==
  ASSUME NEW corpus, IsCorpus(corpus)
  PROVE  AllSound(corpus, "passage", PassageRows(corpus))
<1> DEFINE sizes == StaticSizes
           tt(s) == [i \in DOMAIN sizes |-> WindowRows(corpus, s, sizes[i])]
           ss == [s \in DOMAIN corpus |-> FlattenSeq(tt(s))]
<1>1. IsList(sizes) /\ \A i \in DOMAIN sizes : sizes[i] \in Nat
  <2>1. sizes \in Seq(Nat)
    BY WindowsAssumption
  <2> HIDE DEF sizes
  <2> QED BY <2>1, SeqIsList
<1>2. ASSUME NEW s \in DOMAIN corpus, NEW size \in Nat
      PROVE  AllSound(corpus, "passage", WindowRows(corpus, s, size))
  <2> DEFINE n == Max({0, Len(corpus[s]) - size + 1})
             rows == [a \in 1 .. n |-> Row(corpus, "passage", s, a, a + size - 1)]
  <2>1. n \in Nat
    <3> DEFINE m == Len(corpus[s]) - size + 1
    <3>1. m \in Int
      BY CorpusLength
    <3> HIDE DEF m
    <3>2. Max({0, m}) \in {0, m} /\ Max({0, m}) >= 0
      BY <3>1, TwoNumbers, 0 \in Int
    <3> QED BY <3>1, <3>2 DEF m
  <2> HIDE DEF n
  <2>2. \A a \in 1 .. n : Sound(corpus, "passage", rows[a])
    <3> TAKE a \in 1 .. n
    <3>1. a \in Int /\ a + size - 1 \in Int
      BY <2>1
    <3>2. Sound(corpus, "passage", Row(corpus, "passage", s, a, a + size - 1))
      BY <3>1, RowSound
    <3> QED BY <3>2
  <2>3. rows = [a \in 1 .. n |-> rows[a]]
    OBVIOUS
  <2>4. WindowRows(corpus, s, size) = rows
    BY DEF WindowRows, Span, n
  <2> HIDE DEF rows
  <2> QED BY <2>1, <2>2, <2>3, <2>4, FunctionIsList DEF AllSound
<1>3. ASSUME NEW s \in DOMAIN corpus
      PROVE  AllSound(corpus, "passage", FlattenSeq(tt(s)))
  <2> DEFINE t == tt(s)
  <2>1. t = [i \in DOMAIN sizes |-> t[i]]
        /\ \A i \in DOMAIN sizes : t[i] = WindowRows(corpus, s, sizes[i])
    <3> HIDE DEF sizes
    <3> QED OBVIOUS
  <2> HIDE DEF t, sizes
  <2>2. AllSound(corpus, "passage", FlattenSeq(t))
    BY <1>1, <1>2, <2>1, FoundSound
  <2> QED BY <2>2 DEF t
<1>4. ss = [s \in DOMAIN corpus |-> ss[s]] /\ \A s \in DOMAIN corpus : AllSound(corpus, "passage", ss[s])
  <2> HIDE DEF tt
  <2> QED BY <1>3
<1>5. PassageRows(corpus) = FlattenSeq(ss)
  BY DEF PassageRows
<1> HIDE DEF ss
<1> QED BY <1>4, <1>5, FoundSound, CorpusLength

-----------------------------------------------------------------------------
\* spans that other lanes propose, each in a surah of the corpus
AreSeeds(corpus, seeds) == IsList(seeds) /\ \A i \in DOMAIN seeds : seeds[i][1] \in DOMAIN corpus

\* the spans of sound candidates are seeds
LEMMA SeedsOfCandidates ==
  ASSUME NEW q, NEW corpus, NEW kind, NEW cands, Matched(q, corpus, kind, cands)
  PROVE  LET t == [i \in DOMAIN cands |-> SeedOf(cands[i])]
         IN  AreSeeds(corpus, t) /\ DOMAIN t = DOMAIN cands
<1> DEFINE t == [i \in DOMAIN cands |-> SeedOf(cands[i])]
<1>1. t = [i \in DOMAIN cands |-> t[i]]
      /\ \A i \in DOMAIN cands : t[i] = SeedOf(cands[i])
  OBVIOUS
<1>2. IsList(t) /\ DOMAIN t = DOMAIN cands /\ \A i \in DOMAIN cands : t[i] = SeedOf(cands[i])
  <2> HIDE DEF t
  <2> QED BY <1>1, MapList DEF Matched
<1>3. \A i \in DOMAIN cands : SeedOf(cands[i])[1] \in DOMAIN corpus
  BY DEF Matched, MatchedCandidate, SoundCandidate, Sound, SeedOf
<1>4. AreSeeds(corpus, t) /\ DOMAIN t = DOMAIN cands
  <2> HIDE DEF t
  <2> QED BY <1>2, <1>3 DEF AreSeeds
<1> QED BY <1>4

\* every item of r is one of s or of t
MadeOf(r, s, t) ==
  /\ IsList(r)
  /\ \A i \in DOMAIN r : (\E j \in DOMAIN s : r[i] = s[j]) \/ (\E j \in DOMAIN t : r[i] = t[j])
\* a concatenation is made of its two lists
LEMMA ConcatItems ==
  ASSUME NEW s, NEW t, IsList(s), IsList(t)
  PROVE  MadeOf(s \o t, s, t)
<1> DEFINE r == s \o t
<1>1. /\ IsList(r)
      /\ \A i \in DOMAIN r :
                \/ i \in DOMAIN s /\ r[i] = s[i]
                \/ i - Len(s) \in DOMAIN t /\ r[i] = t[i - Len(s)]
  BY ConcatList
<1> HIDE DEF r
<1>2. \A i \in DOMAIN r : \/ \E j \in DOMAIN s : r[i] = s[j]
                          \/ \E j \in DOMAIN t : r[i] = t[j]
  BY <1>1
<1> QED BY <1>1, <1>2 DEF r, MadeOf

\* the seeds of a search are the spans of sound candidates
LEMMA SeedsAreSeeds ==
  ASSUME NEW q, NEW corpus, NEW ayahs, NEW passages, NEW kind,
         Matched(q, corpus, kind, ayahs), Matched(q, corpus, "passage", passages)
  PROVE  AreSeeds(corpus, Seeds(ayahs, passages))
<1> DEFINE a == [i \in DOMAIN Upto(5, ayahs) |-> SeedOf(ayahs[i])]
           b == [i \in DOMAIN Upto(5, passages) |-> SeedOf(passages[i])]
           both == b \o a
<1>1. ASSUME NEW k, NEW cands, Matched(q, corpus, k, cands)
      PROVE  AreSeeds(corpus, [i \in DOMAIN Upto(5, cands) |-> SeedOf(cands[i])])
  <2> DEFINE top == Upto(5, cands)
             t == [i \in DOMAIN top |-> SeedOf(cands[i])]
  <2>1. Matched(q, corpus, k, top) /\ \A i \in DOMAIN top : i \in DOMAIN cands /\ top[i] = cands[i]
    BY <1>1, UptoDrawn, MatchedDrawn DEF Matched
  <2> HIDE DEF top
  <2>2. t = [i \in DOMAIN top |-> SeedOf(top[i])]
    BY <2>1
  <2>3. AreSeeds(corpus, t)
    BY <2>1, <2>2, SeedsOfCandidates
  <2> QED BY <2>3 DEF top
<1>2. AreSeeds(corpus, a) /\ AreSeeds(corpus, b)
  BY <1>1
<1>3. Seeds(ayahs, passages) = Upto(5, Distinct(both))
  BY DEF Seeds
<1> HIDE DEF a, b
<1>4. AreSeeds(corpus, both)
  <2>1. IsList(a) /\ IsList(b)
    BY <1>2 DEF AreSeeds
  <2>2. MadeOf(both, b, a)
    BY <2>1, ConcatItems
  <2> HIDE DEF both
  <2>3. \A i \in DOMAIN both : both[i][1] \in DOMAIN corpus
    BY <1>2, <2>2 DEF AreSeeds, MadeOf
  <2> QED BY <2>2, <2>3 DEF AreSeeds, MadeOf
<1> HIDE DEF both
<1>5. Drawn(Distinct(both), both)
  BY <1>4, KeptDrawn DEF Distinct, AreSeeds
<1>6. Drawn(Upto(5, Distinct(both)), both)
  BY <1>5, UptoDrawn, DrawnTrans DEF Drawn
<1> QED BY <1>3, <1>4, <1>6 DEF AreSeeds, Drawn

\* the surahs of the seeds, and the likely ones beside them
LEMMA SeedSurahsIn ==
  ASSUME NEW corpus, IsCorpus(corpus), NEW seeds, AreSeeds(corpus, seeds), NEW likely,
         ToSet(likely) \subseteq Int
  PROVE  InScope(corpus, SeedSurahs(corpus, seeds)) /\ IsList(SeedScope(corpus, likely, seeds))
<1>1. \A s \in SurahsOf(seeds) : s \in DOMAIN corpus
  BY DEF AreSeeds, SurahsOf
<1>2. Len(corpus) \in Nat /\ SurahsOf(seeds) \in SUBSET Int
      /\ (ToSet(likely) \cup SurahsOf(seeds)) \in SUBSET Int
  BY <1>1, CorpusLength
<1>3. InScope(corpus, SeedSurahs(corpus, seeds))
  BY <1>1, <1>2, AscendingIn DEF InScope, SeedSurahs
<1>4. IsList(SeedScope(corpus, likely, seeds))
  BY <1>2, AscendingIn DEF SeedScope
<1> QED BY <1>3, <1>4

\* the spans around the seeds
LEMMA ExpandedMatched ==
  ASSUME NEW q, NEW corpus, IsCorpus(corpus), NEW seeds, AreSeeds(corpus, seeds), NEW least,
         NEW most, NEW k \in Nat
  PROVE  Matched(q, corpus, "passage", Expanded(q, corpus, seeds, least, most, k))
<1> DEFINE ss == [i \in DOMAIN seeds |-> Around(corpus, seeds[i], least, most)]
<1>1. ss = [i \in DOMAIN seeds |-> ss[i]]
      /\ \A i \in DOMAIN seeds : ss[i] = Around(corpus, seeds[i], least, most)
  OBVIOUS
<1>2. \A i \in DOMAIN seeds : AllSound(corpus, "passage", Around(corpus, seeds[i], least, most))
  BY CorpusLength, InOrderSpans, SpansAtSound DEF AreSeeds, Around
<1>3. Expanded(q, corpus, seeds, least, most, k)
        = Ranked(FirstOfEach(Candidates(q, FlattenSeq(ss), "local_seed_expand")), k)
  BY DEF Expanded
<1> HIDE DEF ss
<1>4. AllSound(corpus, "passage", FlattenSeq(ss))
  BY <1>1, <1>2, FoundSound DEF AreSeeds
<1> QED BY <1>3, <1>4, CandidatesMatched, MergedMatched

\* the token subsequences in the surahs of the seeds
LEMMA TokenSubsequencesMatched ==
  ASSUME NEW q, NEW corpus, IsCorpus(corpus), NEW seeds, AreSeeds(corpus, seeds), NEW least,
         NEW k \in Nat
  PROVE  Matched(q, corpus, "passage", TokenSubsequences(q, corpus, seeds, least, k))
<1> DEFINE scope == SeedSurahs(corpus, seeds)
           on(m, s) == OfRun(LongRun(corpus, m, s, View(m, q.text), 78),
                             LAMBDA r : SubsequenceRow(q, corpus, s, r, least))
           ss == [i \in DOMAIN scope |-> on("light", scope[i]) \o on("aggressive", scope[i])]
<1>1. InScope(corpus, scope)
  <2>1. ToSet(<<>>) \subseteq Int
    BY DEF ToSet
  <2> QED BY <2>1, SeedSurahsIn
<1>2. ASSUME NEW m, NEW s \in DOMAIN corpus
      PROVE  Matched(q, corpus, "passage", on(m, s))
  <2> DEFINE runs == LongRun(corpus, m, s, View(m, q.text), 78)
             r == CHOOSE r \in runs : TRUE
  <2>1. on(m, s) = IF runs = {} THEN <<>> ELSE SubsequenceRow(q, corpus, s, r, least)
    BY DEF OfRun
  <2>2. Matched(q, corpus, "passage", SubsequenceRow(q, corpus, s, r, least))
    <3> HIDE DEF r
    <3> QED BY AyatAtSpans, SpansAtSound, CandidatesMatched, WithRunMatched DEF SubsequenceRow
  <2> HIDE DEF on, runs, r
  <2> QED BY <2>1, <2>2, MatchedEmpty
<1>3. TokenSubsequences(q, corpus, seeds, least, k) = Ranked(FirstOfEach(FlattenSeq(ss)), k)
  BY DEF TokenSubsequences, Over
<1>4. \A i \in DOMAIN scope : Matched(q, corpus, "passage", ss[i])
  <2> HIDE DEF on, scope
  <2> QED BY <1>1, <1>2, MatchedConcat DEF InScope
<1>5. ss = [i \in DOMAIN scope |-> ss[i]]
  <2> HIDE DEF on, scope
  <2> QED OBVIOUS
<1> HIDE DEF ss, scope
<1>6. Matched(q, corpus, "passage", FlattenSeq(ss))
  BY <1>1, <1>4, <1>5, OverMatched DEF InScope
<1> QED BY <1>3, <1>6, MergedMatched

\* the passages of a long text
LEMMA LongPassagesMatched ==
  ASSUME NEW q, NEW corpus, IsCorpus(corpus), NEW ayahs, NEW passages, NEW kind,
         Matched(q, corpus, kind, ayahs), Matched(q, corpus, "passage", passages),
         NEW likely, ToSet(likely) \subseteq Int, NEW least, NEW most, NEW k \in Nat
  PROVE  Matched(q, corpus, "passage", LongPassages(q, corpus, ayahs, passages, likely, least, most, k))
<1> DEFINE seeds == Seeds(ayahs, passages)
           scope == SeedScope(corpus, likely, seeds)
<1>1. AreSeeds(corpus, seeds) /\ IsList(scope)
  BY SeedsAreSeeds, SeedSurahsIn
<1>2. LongPassages(q, corpus, ayahs, passages, likely, least, most, k)
        = LongInScope(q, corpus, seeds, scope, least, most, k)
  BY DEF LongPassages
<1> HIDE DEF seeds, scope
<1> QED BY <1>1, <1>2, ExactSpansMatched, ContainedMatched, TokenSubsequencesMatched, ExpandedMatched
        DEF LongInScope, FirstNonEmpty

\* the partial passages of a text of medium length
LEMMA MediumPartialMatched ==
  ASSUME NEW q, NEW corpus, IsCorpus(corpus), NEW ayahs, NEW passages, NEW kind,
         Matched(q, corpus, kind, ayahs), Matched(q, corpus, "passage", passages),
         NEW likely, ToSet(likely) \subseteq Int, NEW least, NEW most, NEW k \in Nat
  PROVE  Matched(q, corpus, "passage", MediumPartial(q, corpus, ayahs, passages, likely, least, most, k))
<1> DEFINE seeds == Seeds(ayahs, passages)
           scope == SeedScope(corpus, likely, seeds)
           n == Max({4 * k, 12})
           contained == ContainedSpans(q, corpus, 1, n, scope)
           pool == MediumPool(q, corpus, seeds, contained, least, most, n)
           labelled == [i \in DOMAIN pool |-> With(pool[i], "surah_span_partial")]
           kept == Kept(labelled, {i \in DOMAIN labelled : WorthKeeping(labelled[i])})
<1>1. AreSeeds(corpus, seeds) /\ IsList(scope)
  BY SeedsAreSeeds, SeedSurahsIn
<1>2. n \in Nat
  <2>1. Max({4 * k, 12}) \in {4 * k, 12}
    BY TwoNumbers, 4 * k \in Int, 12 \in Int
  <2> QED BY <2>1
<1>3. Matched(q, corpus, "passage", contained)
  <2> HIDE DEF n, scope
  <2> QED BY <1>1, <1>2, ContainedMatched
<1>4. Matched(q, corpus, "passage", pool)
  <2> HIDE DEF n, contained, seeds
  <2>1. Matched(q, corpus, "passage", Kept(contained, {i \in DOMAIN contained : WindowSize(contained[i].row) >= least}))
    BY <1>3, KeptDrawn, MatchedDrawn DEF Matched
  <2>2. AreSeeds(corpus, [i \in DOMAIN contained |-> SeedOf(contained[i])])
    BY <1>3, SeedsOfCandidates
  <2>3. Matched(q, corpus, "passage", Expanded(q, corpus, [i \in DOMAIN contained |-> SeedOf(contained[i])],
                                           least, most, n))
        /\ Matched(q, corpus, "passage", Expanded(q, corpus, seeds, least, most, n))
    BY <1>1, <1>2, <2>2, ExpandedMatched
  <2> QED BY <2>1, <2>3, MatchedConcat DEF MediumPool
<1>5. Matched(q, corpus, "passage", labelled)
  <2> HIDE DEF pool
  <2>1. labelled = [i \in DOMAIN pool |-> labelled[i]]
        /\ \A i \in DOMAIN pool : labelled[i] = With(pool[i], "surah_span_partial")
    OBVIOUS
  <2> HIDE DEF labelled
  <2>2. IsList(labelled) /\ DOMAIN labelled = DOMAIN pool
    BY <1>4, <2>1, MapList DEF Matched
  <2>3. \A i \in DOMAIN pool : MatchedCandidate(q, corpus, "passage", labelled[i])
    <3> TAKE i \in DOMAIN pool
    <3> DEFINE c == pool[i]
    <3>1. MatchedCandidate(q, corpus, "passage", c) /\ labelled[i] = With(c, "surah_span_partial")
      BY <1>4, <2>1 DEF Matched
    <3> HIDE DEF c
    <3> QED BY <3>1, WithMatched
  <2> QED BY <2>2, <2>3 DEF Matched
<1>6. Matched(q, corpus, "passage", kept)
  <2> HIDE DEF labelled
  <2> QED BY <1>5, KeptDrawn, MatchedDrawn DEF Matched
<1>7. MediumPartial(q, corpus, ayahs, passages, likely, least, most, k)
        = IF scope = <<>> /\ seeds = <<>> THEN <<>> ELSE Ranked(FirstOfEach(kept), k)
  BY DEF MediumPartial, MediumInScope, Relabelled
<1> HIDE DEF kept, scope, seeds
<1> QED BY <1>6, <1>7, MatchedEmpty, MergedMatched

-----------------------------------------------------------------------------
\* items taken from the candidates at these places, no citation twice
Selected(r, cands, fit) ==
  IsList(r) /\ Unique(r) /\ \A i \in DOMAIN r : \E j \in fit : r[i] = cands[j]

\* adding a fit candidate whose citation is new keeps a selection
LEMMA JoinedSelected ==
  ASSUME NEW r, NEW cands, NEW all \in SUBSET Nat, NEW fit \in SUBSET all, NEW apart,
         Selected(r, cands, all)
  PROVE  Selected(Joined(r, cands, fit, apart), cands, all)
<1> DEFINE next == {i \in fit : Joins(r, cands[i], apart)}
<1>1. CASE next = {}
  BY <1>1 DEF Joined
<1>2. CASE next # {}
  <2> DEFINE m == Min(next)
  <2>1. m \in next
    BY <1>2, MinOf, next \in SUBSET Nat
  <2>2. m \in all /\ Citation(cands[m].row) \notin Cited(r)
    BY <2>1 DEF Joins
  <2>3. Joined(r, cands, fit, apart) = Append(r, cands[m])
    BY <1>2 DEF Joined
  <2> HIDE DEF m, next
  <2>4. Unique(Append(r, cands[m]))
    BY <2>2, AppendUnique DEF Selected
  <2>5. IsList(Append(r, cands[m]))
        /\ \A i \in DOMAIN Append(r, cands[m]) : \E j \in all : Append(r, cands[m])[i] = cands[j]
    <3> DEFINE t == Append(r, cands[m])
    <3>1. /\ IsList(t) /\ \A i \in DOMAIN t : t[i] = IF i = Len(r) + 1 THEN cands[m] ELSE r[i]
          /\ DOMAIN t = DOMAIN r \cup {Len(r) + 1}
      BY AppendList DEF Selected
    <3> HIDE DEF t
    <3>2. \A i \in DOMAIN t : \E j \in all : t[i] = cands[j]
      BY <2>2, <3>1 DEF Selected
    <3> QED BY <3>1, <3>2 DEF t
  <2> QED BY <2>3, <2>4, <2>5 DEF Selected
<1> QED BY <1>1, <1>2

\* and so does a pass over the candidates
LEMMA PassSelected ==
  ASSUME NEW r, NEW cands, NEW all \in SUBSET Nat, NEW fit \in SUBSET all, NEW apart,
         Selected(r, cands, all)
  PROVE  Selected(Pass(r, cands, fit, apart), cands, all)
<1> DEFINE more(list) == IF Len(list) >= 3 THEN list ELSE Joined(list, cands, fit, apart)
<1>1. ASSUME NEW list, Selected(list, cands, all)
      PROVE  Selected(more(list), cands, all)
  BY <1>1, JoinedSelected
<1>2. Pass(r, cands, fit, apart) = more(more(Joined(r, cands, fit, apart)))
  BY DEF Pass
<1> HIDE DEF more
<1> QED BY <1>1, <1>2, JoinedSelected

\* nothing selected is a selection
LEMMA NoneSelected ==
  \A cands, all : Selected(<<>>, cands, all)
BY Empty DEF Selected, Unique

\* the places of the candidates that are not excluded
LEMMA FreshPlaces ==
  ASSUME NEW cands, IsList(cands), NEW exclude
  PROVE  Fresh(cands, exclude) \in SUBSET Nat
BY ListFacts DEF Fresh

-----------------------------------------------------------------------------
\* a list without a citation twice cites as many as it has items
LEMMA CitedBound ==
  ASSUME NEW s, IsList(s), Unique(s)
  PROVE  Cardinality(Cited(s)) = Len(s)
<1> DEFINE n == Len(s)
           f == [i \in 1 .. n |-> Citation(s[i].row)]
<1>1. n \in Nat /\ DOMAIN s = 1 .. n
  BY ListFacts
<1>2. f \in Bijection(1 .. n, Cited(s))
  <2>1. \A i \in 1 .. n : f[i] = Citation(s[i].row)
    OBVIOUS
  <2>2. Cited(s) = {Citation(s[i].row) : i \in 1 .. n}
    BY <1>1 DEF Cited
  <2>3. f \in [1 .. n -> Cited(s)]
    BY <2>2
  <2>4. \A i, j \in 1 .. n : f[i] = f[j] => i = j
    BY <1>1, <2>1 DEF Unique
  <2>5. \A c \in Cited(s) : \E i \in 1 .. n : f[i] = c
    BY <2>1, <2>2
  <2> HIDE DEF f, n
  <2> QED BY <2>3, <2>4, <2>5 DEF Bijection, Injection, Surjection, IsInjective
<1>3. IsFiniteSet(1 .. n) /\ Cardinality(1 .. n) = n
  <2> HIDE DEF n
  <2>1. Cardinality(1 .. n) = IF 1 > n THEN 0 ELSE n - 1 + 1
    BY <1>1, FS_Interval
  <2> QED BY <1>1, <2>1, FS_Interval
<1> HIDE DEF f, n
<1>4. Cardinality(Cited(s)) = Cardinality(1 .. n)
  <2>1. ExistsBijection(1 .. n, Cited(s))
    BY <1>2 DEF ExistsBijection
  <2> QED BY <1>3, <2>1, FS_Bijection
<1> QED BY <1>3, <1>4 DEF n

\* two lists that share no citation, one after the other
LEMMA UniqueConcat ==
  ASSUME NEW s, NEW t, IsList(s), IsList(t), Unique(s), Unique(t), Cited(s) \cap Cited(t) = {}
  PROVE  IsList(s \o t) /\ Unique(s \o t) /\ Cited(s \o t) \subseteq Cited(s) \cup Cited(t)
<1> DEFINE r == s \o t
<1>1. /\ IsList(r)
      /\ \A i \in DOMAIN r :
              \/ i \in DOMAIN s /\ r[i] = s[i]
              \/ i - Len(s) \in DOMAIN t /\ i \notin DOMAIN s /\ r[i] = t[i - Len(s)]
  BY ConcatList
<1> HIDE DEF r
<1>2. DOMAIN r \subseteq Int /\ Len(s) \in Nat
  BY <1>1, ListFacts
<1>3. \A i \in DOMAIN s, j \in DOMAIN t : Citation(s[i].row) # Citation(t[j].row)
  BY DEF Cited
<1>4. ASSUME NEW i \in DOMAIN r, NEW j \in DOMAIN r, Citation(r[i].row) = Citation(r[j].row)
      PROVE  i = j
  <2>1. CASE i \in DOMAIN s /\ j \in DOMAIN s
    <3>1. r[i] = s[i] /\ r[j] = s[j]
      BY <1>1, <2>1
    <3> QED BY <3>1, <2>1, <1>4 DEF Unique
  <2>2. CASE i \in DOMAIN s /\ j \notin DOMAIN s
    <3>1. r[i] = s[i] /\ r[j] = t[j - Len(s)] /\ j - Len(s) \in DOMAIN t
      BY <1>1, <2>2
    <3> QED BY <3>1, <2>2, <1>3, <1>4
  <2>3. CASE i \notin DOMAIN s /\ j \in DOMAIN s
    <3>1. r[j] = s[j] /\ r[i] = t[i - Len(s)] /\ i - Len(s) \in DOMAIN t
      BY <1>1, <2>3
    <3> QED BY <3>1, <2>3, <1>3, <1>4
  <2>4. CASE i \notin DOMAIN s /\ j \notin DOMAIN s
    <3>1. r[j] = t[j - Len(s)] /\ r[i] = t[i - Len(s)] /\ i - Len(s) \in DOMAIN t
          /\ j - Len(s) \in DOMAIN t
      BY <1>1, <2>4
    <3>2. i - Len(s) = j - Len(s)
      BY <3>1, <1>4 DEF Unique
    <3> QED BY <3>2, <1>2
  <2> QED BY <2>1, <2>2, <2>3, <2>4
<1>5. Cited(r) \subseteq Cited(s) \cup Cited(t)
  BY <1>1 DEF Cited
<1> QED BY <1>1, <1>4, <1>5 DEF r, Unique

-----------------------------------------------------------------------------
\* a list that may stand beside what is excluded
Beside(r, exclude) ==
  IsList(r) /\ Unique(r) /\ \A i \in DOMAIN r : Citation(r[i].row) \notin exclude
\* and that shares no ayah with a row
ApartFrom(r, row) == \A i \in DOMAIN r : Components(r[i].row) \cap Components(row) = {}

\* a selection of fresh candidates may stand beside what is excluded
LEMMA SelectedBeside ==
  ASSUME NEW r, NEW cands, NEW exclude, Selected(r, cands, Fresh(cands, exclude))
  PROVE  Beside(r, exclude)
BY DEF Selected, Beside, Fresh

\* passages that do not overlap share no ayah
LEMMA OverlapComponents ==
  ASSUME NEW corpus, NEW r, NEW o, Sound(corpus, "passage", r), Sound(corpus, "passage", o),
         ~ Overlap(r, o)
  PROVE  Components(r) \cap Components(o) = {}
<1>1. SUFFICES ASSUME NEW x \in Components(r), x \in Components(o) PROVE FALSE
  OBVIOUS
<1>2. PICK a \in r.first .. r.last : x = <<r.surah, a>>
  BY DEF Components
<1>3. PICK b \in o.first .. o.last : x = <<o.surah, b>>
  BY <1>1 DEF Components
<1>4. r.surah = o.surah /\ a = b
  BY <1>2, <1>3
<1> QED BY <1>4 DEF Sound, Overlap

\* an ayah outside a set of ayat shares none with it
LEMMA AyahComponents ==
  ASSUME NEW corpus, NEW r, Sound(corpus, "ayah", r), NEW blocked,
         <<r.surah, r.first>> \notin blocked
  PROVE  Components(r) \cap blocked = {}
<1>1. \A x \in Components(r) : x = <<r.surah, r.first>>
  BY DEF Components, Sound
<1> QED BY <1>1

-----------------------------------------------------------------------------
\* the strong ayat stand beside what is excluded
LEMMA StrongAyahsBeside ==
  ASSUME NEW q, NEW cands, IsList(cands), NEW exclude, NEW best, NEW bestIsAyah
  PROVE  Beside(StrongAyahs(q, cands, exclude, best, bestIsAyah), exclude)
<1> DEFINE new     == Fresh(cands, exclude)
           sibling == {i \in new : bestIsAyah /\ NearlyIdentical(best.row.text, cands[i].row.text)}
           strong  == {i \in new : Strong(q, cands[i])}
           fill    == {i \in new : Backfill(cands[i])}
           first   == Pass(<<>>, cands, strong, FALSE)
           result  == IF Len(first) >= 3 THEN first
                      ELSE Pass(Pass(first, cands, sibling, FALSE), cands, fill, FALSE)
<1>1. new \in SUBSET Nat /\ sibling \in SUBSET new /\ strong \in SUBSET new /\ fill \in SUBSET new
  BY FreshPlaces
<1>2. StrongAyahs(q, cands, exclude, best, bestIsAyah) = result
  BY DEF StrongAyahs
<1> HIDE DEF new, sibling, strong, fill
<1>3. Selected(first, cands, new)
  BY <1>1, NoneSelected, PassSelected
<1>4. Selected(Pass(first, cands, sibling, FALSE), cands, new)
  <2> HIDE DEF first
  <2> QED BY <1>1, <1>3, PassSelected
<1>5. Selected(Pass(Pass(first, cands, sibling, FALSE), cands, fill, FALSE), cands, new)
  <2> HIDE DEF first
  <2> QED BY <1>1, <1>4, PassSelected
<1>6. Selected(result, cands, new)
  BY <1>3, <1>5
<1> HIDE DEF result
<1> QED BY <1>2, <1>6, SelectedBeside DEF new

\* what may be listed overlaps no passage of the anchors
LEMMA ListableApart ==
  ASSUME NEW corpus, NEW cands, Placed(corpus, "passage", cands), NEW exclude, NEW anchors,
         NEW row \in anchors, Sound(corpus, "passage", row),
         NEW r, Selected(r, cands, Listable(cands, exclude, anchors))
  PROVE  ApartFrom(r, row)
<1>1. ASSUME NEW i \in DOMAIN r
      PROVE  Components(r[i].row) \cap Components(row) = {}
  <2>1. PICK j \in Listable(cands, exclude, anchors) : r[i] = cands[j]
    BY DEF Selected
  <2>2. Sound(corpus, "passage", cands[j].row) /\ ~ Overlap(cands[j].row, row)
    BY <2>1 DEF Listable, Fresh, Placed, SoundCandidate, Sound
  <2> QED BY <2>1, <2>2, OverlapComponents
<1> QED BY <1>1 DEF ApartFrom

\* what may be listed is not excluded
LEMMA ListablePlaces ==
  ASSUME NEW cands, IsList(cands), NEW exclude, NEW anchors
  PROVE  /\ Listable(cands, exclude, anchors) \in SUBSET Nat
         /\ \A r : Selected(r, cands, Listable(cands, exclude, anchors)) => Beside(r, exclude)
<1>1. Listable(cands, exclude, anchors) \subseteq Fresh(cands, exclude)
  BY DEF Listable
<1>2. ASSUME NEW r, Selected(r, cands, Listable(cands, exclude, anchors))
      PROVE  Beside(r, exclude)
  BY <1>1, <1>2, SelectedBeside DEF Selected
<1> QED BY <1>1, <1>2, FreshPlaces

\* the strong passages are a selection of what may be listed
LEMMA StrongPassagesSelected ==
  ASSUME NEW q, NEW cands, IsList(cands), NEW exclude, NEW anchors
  PROVE  Selected(StrongPassages(q, cands, exclude, anchors), cands, Listable(cands, exclude, anchors))
<1> DEFINE new    == Listable(cands, exclude, anchors)
           strong == {i \in new : /\ Strong(q, cands[i])
                                  /\ PassageUnit(cands[i].row, cands[i].engine) # "heuristic_expansion"}
           fill   == {i \in new : Backfill(cands[i]) /\ Firm(cands[i])}
           first  == Pass(<<>>, cands, strong, TRUE)
           result == IF Len(first) >= 3 THEN first ELSE Pass(first, cands, fill, TRUE)
<1>1. new \in SUBSET Nat /\ strong \in SUBSET new /\ fill \in SUBSET new
  BY ListablePlaces
<1>2. StrongPassages(q, cands, exclude, anchors) = result
  BY DEF StrongPassages
<1> HIDE DEF new, strong, fill
<1>3. Selected(first, cands, new)
  BY <1>1, NoneSelected, PassSelected
<1>4. Selected(Pass(first, cands, fill, TRUE), cands, new)
  <2> HIDE DEF first
  <2> QED BY <1>1, <1>3, PassSelected
<1>5. Selected(result, cands, new)
  BY <1>3, <1>4
<1> HIDE DEF result
<1> QED BY <1>2, <1>5 DEF new

\* the passages next to the best one are sound
LEMMA NeighboursSound ==
  ASSUME NEW corpus, IsCorpus(corpus), NEW best
  PROVE  AllSound(corpus, "passage", NeighboursOf(best, corpus))
<1> DEFINE rows == PassageRows(corpus)
           near == Kept(rows, {i \in DOMAIN rows : /\ Parallel(best, rows[i])
                                                   /\ Common(best.row, rows[i]) >= MinSharedTokens})
           keys == [i \in DOMAIN near |-> NeighbourKey(best.row, near[i])]
<1>1. NeighboursOf(best, corpus) = Upto(NeighbourLimit, SortedBy(near, keys))
  BY DEF NeighboursOf
<1>2. AllSound(corpus, "passage", near)
  <2>1. AllSound(corpus, "passage", rows)
    BY PassageRowsSound
  <2> HIDE DEF rows
  <2> QED BY <2>1, KeptDrawn, SoundDrawn DEF AllSound
<1> HIDE DEF near, keys
<1>3. AllSound(corpus, "passage", SortedBy(near, keys))
  BY <1>2, SortedDrawn, SoundDrawn DEF AllSound
<1> QED BY <1>1, <1>3, WindowsAssumption, UptoDrawn, SoundDrawn DEF AllSound

\* a pass over candidates that were made of rows of passages
LEMMA PassBeside ==
  ASSUME NEW corpus, NEW cands, Placed(corpus, "passage", cands), NEW exclude, NEW anchors,
         NEW row \in anchors, Sound(corpus, "passage", row),
         NEW fit \in SUBSET Listable(cands, exclude, anchors)
  PROVE  LET r == Pass(<<>>, cands, fit, TRUE)
         IN  Beside(r, exclude) /\ ApartFrom(r, row)
<1>1. IsList(cands)
  BY DEF Placed
<1> DEFINE all == Listable(cands, exclude, anchors)
           r == Pass(<<>>, cands, fit, TRUE)
<1>2. all \in SUBSET Nat
  BY <1>1, ListablePlaces
<1>3. Selected(r, cands, all)
  <2> HIDE DEF all
  <2>1. fit \in SUBSET all
    BY DEF all
  <2> QED BY <1>2, <2>1, NoneSelected, PassSelected
<1> HIDE DEF r
<1>4. Beside(r, exclude)
  BY <1>1, <1>3, ListablePlaces
<1>5. ApartFrom(r, row)
  BY <1>3, ListableApart
<1> QED BY <1>4, <1>5 DEF r

\* candidates made of sound rows, one for each
LEMMA MadeCandidates ==
  ASSUME NEW corpus, NEW kind, NEW rows, AllSound(corpus, kind, rows), NEW cands,
         cands = [i \in DOMAIN rows |-> cands[i]],
         \A i \in DOMAIN rows : "row" \in DOMAIN cands[i] /\ cands[i].row = rows[i]
  PROVE  Placed(corpus, kind, cands)
<1>1. IsList(cands) /\ DOMAIN cands = DOMAIN rows
  BY MapList DEF AllSound
<1> QED BY <1>1 DEF Placed, AllSound, SoundCandidate

\* the empty list stands beside everything
LEMMA EmptyBeside ==
  \A exclude, row : Beside(<<>>, exclude) /\ ApartFrom(<<>>, row)
BY Empty DEF Beside, ApartFrom, Unique

\* the parallel passages stand beside what is excluded and apart from the best
LEMMA ParallelsBeside ==
  ASSUME NEW corpus, IsCorpus(corpus), NEW q, NEW best, Sound(corpus, "passage", best.row),
         NEW exclude, NEW anchors, best.row \in anchors, NEW known
  PROVE  LET r == Parallels(q, corpus, best, exclude, anchors, known)
         IN  Beside(r, exclude) /\ ApartFrom(r, best.row)
<1> DEFINE a == ParallelFromIndex(q, corpus, best, exclude, anchors)
           b == ParallelFromBest(q, corpus, best, exclude, anchors)
<1>1. Beside(a, exclude) /\ ApartFrom(a, best.row)
  <2> DEFINE rows  == IF WindowSize(best.row) \in ToSet(StaticSizes) THEN NeighboursOf(best, corpus)
                      ELSE <<>>
             cands == [i \in DOMAIN rows |-> Candidate(q, rows[i])]
             fit   == {i \in Listable(cands, exclude, anchors) :
                         Parallel(best, cands[i].row) /\ RelaxedParallel(q, cands[i])}
  <2>1. AllSound(corpus, "passage", rows)
    BY NeighboursSound, MatchedEmpty
  <2>2. a = Pass(<<>>, cands, fit, TRUE)
    BY DEF ParallelFromIndex
  <2>3. fit \in SUBSET Listable(cands, exclude, anchors)
    OBVIOUS
  <2> HIDE DEF rows, fit
  <2>4. Placed(corpus, "passage", cands)
    <3>1. cands = [i \in DOMAIN rows |-> cands[i]]
          /\ \A i \in DOMAIN rows : "row" \in DOMAIN cands[i] /\ cands[i].row = rows[i]
      BY CandidateRow
    <3> HIDE DEF cands
    <3> QED BY <2>1, <3>1, MadeCandidates
  <2> HIDE DEF cands, a
  <2> QED BY <2>2, <2>3, <2>4, PassBeside
<1>2. Beside(b, exclude) /\ ApartFrom(b, best.row)
  <2> DEFINE asQuery == [q EXCEPT !.text = best.row.text, !.pointed = TRUE]
             near(c) == c.score >= 1900 /\ c.coverage >= 40
             rows    == PassageRows(corpus)
             scored(r) == IF near(Candidate(asQuery, r)) THEN Candidate(asQuery, r)
                          ELSE Candidate(q, r)
             cands   == [i \in DOMAIN rows |-> scored(rows[i])]
             fit     == {i \in Listable(cands, exclude, anchors) :
                           /\ Parallel(best, rows[i])
                           /\ near(Candidate(asQuery, rows[i])) \/ RelaxedParallel(q, cands[i])}
  <2>1. AllSound(corpus, "passage", rows)
    <3>1. AllSound(corpus, "passage", PassageRows(corpus))
      BY PassageRowsSound
    <3> QED BY <3>1
  <2>2. b = <<>> \/ b = Pass(<<>>, cands, fit, TRUE)
    <3> DEFINE engines == {"none", "static_exact_window", "static_window"}
    <3>1. b = IF best.engine \notin engines THEN <<>> ELSE Pass(<<>>, cands, fit, TRUE)
      BY Zenon DEF ParallelFromBest
    <3> QED BY <3>1, Zenon
  <2>3. fit \in SUBSET Listable(cands, exclude, anchors)
    OBVIOUS
  <2>4. \A r : "row" \in DOMAIN scored(r) /\ scored(r).row = r
    <3> HIDE DEF asQuery, near
    <3> QED BY CandidateRow
  <2> HIDE DEF rows, fit
  <2>5. Placed(corpus, "passage", cands)
    <3> HIDE DEF scored
    <3>1. cands = [i \in DOMAIN rows |-> cands[i]]
          /\ \A i \in DOMAIN rows : "row" \in DOMAIN cands[i] /\ cands[i].row = rows[i]
      BY <2>4
    <3> HIDE DEF cands
    <3> QED BY <2>1, <3>1, MadeCandidates
  <2> HIDE DEF cands, b
  <2>6. CASE b = <<>>
    BY <2>6, EmptyBeside
  <2>7. CASE b = Pass(<<>>, cands, fit, TRUE)
    BY <2>3, <2>5, <2>7, PassBeside
  <2> QED BY <2>2, <2>6, <2>7
<1>3. Parallels(q, corpus, best, exclude, anchors, known) \in {a, b, <<>>}
  BY DEF Parallels
<1> HIDE DEF a, b
<1> QED BY <1>1, <1>2, <1>3, EmptyBeside

-----------------------------------------------------------------------------
\* no exact ayah is listed twice
LEMMA ExactAyahsUnique ==
  ASSUME NEW corpus, IsCorpus(corpus), NEW q
  PROVE  IsList(ExactAyahs(q, corpus)) /\ Unique(ExactAyahs(q, corpus))
<1> DEFINE rows  == ExactRows(q, AyahRows(corpus))
           cands == [i \in DOMAIN rows |-> Candidate(q, rows[i])]
<1>1. AllSound(corpus, "ayah", rows)
  BY AyahRowsSound, ExactRowsSound
<1>2. ExactAyahs(q, corpus) = FirstOfEach(cands)
  BY DEF ExactAyahs
<1> HIDE DEF rows
<1>3. cands = [i \in DOMAIN rows |-> cands[i]]
  OBVIOUS
<1> HIDE DEF cands
<1>4. IsList(cands)
  BY <1>1, <1>3, MapList DEF AllSound
<1> QED BY <1>2, <1>4, FirstOfEachUnique DEF Drawn

\* what is picked from a list without repetition has none
LEMMA PicksUnique ==
  ASSUME NEW s, NEW t, NEW at, Picks(s, t, at), Unique(t)
  PROVE  Unique(s)
<1>1. ASSUME NEW i \in DOMAIN s, NEW j \in DOMAIN s, Citation(s[i].row) = Citation(s[j].row)
      PROVE  i = j
  <2>1. s[i] = t[at[i]] /\ s[j] = t[at[j]] /\ at[i] \in DOMAIN t /\ at[j] \in DOMAIN t
    BY DEF Picks
  <2>2. at[i] = at[j]
    BY <1>1, <2>1 DEF Unique
  <2> QED BY <2>2 DEF Picks
<1> QED BY <1>1 DEF Unique

\* no exact passage is listed twice
LEMMA ExactPassagesUnique ==
  ASSUME NEW corpus, IsCorpus(corpus), NEW q
  PROVE  Placed(corpus, "passage", ExactPassages(q, corpus)) /\ Unique(ExactPassages(q, corpus))
<1> DEFINE stored  == ExactRows(q, PassageRows(corpus))
           spans == ExactSpans(q, corpus, 2, Cardinality(DOMAIN corpus) * 100, <<>>)
           key(c)  == <<UnitRank(PassageUnit(c.row, c.engine)),
                        IF c.engine = "static_exact_window" THEN 0 ELSE c.score,
                        - c.row.surah, - c.row.first, - c.row.last>>
           all     == Candidates(q, stored, "static_exact_window") \o spans
           once    == FirstOfEach(all)
           keys    == [i \in DOMAIN once |-> key(once[i])]
<1>1. AllSound(corpus, "passage", stored)
  BY PassageRowsSound, ExactRowsSound
<1>2. Matched(q, corpus, "passage", spans)
  <2>1. Cardinality(DOMAIN corpus) \in Nat
    BY CorpusLength, FS_Interval, FS_CardinalityType
  <2>2. Cardinality(DOMAIN corpus) * 100 \in Nat
    BY <2>1
  <2> DEFINE k == Cardinality(DOMAIN corpus) * 100
  <2> HIDE DEF k
  <2>3. Matched(q, corpus, "passage", ExactSpans(q, corpus, 2, k, <<>>))
    BY <2>2, Empty, ExactSpansMatched DEF k
  <2> QED BY <2>3 DEF k
<1>3. ExactPassages(q, corpus) = SortedBy(once, keys)
  BY DEF ExactPassages
<1>4. Matched(q, corpus, "passage", all)
  <2> HIDE DEF stored, spans
  <2> QED BY <1>1, <1>2, CandidatesMatched, MatchedConcat
<1> HIDE DEF all
<1>5. Matched(q, corpus, "passage", once) /\ Unique(once)
  BY <1>4, MergedMatched, FirstOfEachUnique DEF Matched
<1> HIDE DEF once, keys
<1>6. PICK at : Picks(SortedBy(once, keys), once, at)
  BY <1>5, SortedPicks DEF Matched
<1> QED BY <1>3, <1>5, <1>6, PicksUnique, PicksDrawn, MatchedDrawn, MatchedPlaced

\* a list without the best match stands beside it
LEMMA NotBestUnique ==
  ASSUME NEW items, IsList(items), Unique(items), NEW best
  PROVE  /\ Beside(NotBest(items, best), CitationOf(best))
         /\ Drawn(NotBest(items, best), items)
         /\ Cited(NotBest(items, best)) \subseteq Cited(items)
<1> DEFINE places == Fresh(items, CitationOf(best))
           r == Kept(items, places)
<1>1. PICK at : Picks(r, items, at) /\ \A i \in DOMAIN r : at[i] \in places
  <2> HIDE DEF places
  <2> QED BY KeptPicks
<1>2. NotBest(items, best) = r
  BY DEF NotBest
<1> HIDE DEF r
<1>3. Unique(r) /\ Drawn(r, items)
  BY <1>1, PicksUnique, PicksDrawn
<1>4. \A i \in DOMAIN r : Citation(r[i].row) \notin CitationOf(best)
  BY <1>1 DEF Picks, Fresh
<1>5. Cited(r) \subseteq Cited(items)
  BY <1>3 DEF Drawn, Cited
<1> QED BY <1>2, <1>3, <1>4, <1>5 DEF Beside, Drawn

-----------------------------------------------------------------------------
\* the exact matches and the strong ones are different texts, none the best
Shows(lists, best) ==
  /\ Beside(lists.exact, CitationOf(best))
  /\ Beside(lists.strong, CitationOf(best) \cup Cited(lists.exact))

\* the collections of an answer with an ayah
LEMMA AyahListsShown ==
  ASSUME NEW corpus, IsCorpus(corpus), NEW q, NEW e, e.corpus = corpus, IsList(AyatBeside(e))
  PROVE  Shows(AyahCollections(q, e), e.fusion.preferred.best)
<1> DEFINE best == e.fusion.preferred.best
           raw  == ExactAyahs(q, corpus)
           strong == StrongAyahs(q, AyatBeside(e), Cited(raw) \cup CitationOf(best), best,
                                 CitationOf(best) \cap Cited(raw) # {})
           exact == NotBest(raw, best)
<1>1. AyahCollections(q, e).exact = exact /\ AyahCollections(q, e).strong = strong
  BY DEF AyahCollections, ListedAyahs
<1>2. Beside(exact, CitationOf(best)) /\ Cited(exact) \subseteq Cited(raw)
  <2> HIDE DEF best
  <2> QED BY ExactAyahsUnique, NotBestUnique
<1>3. Beside(strong, Cited(raw) \cup CitationOf(best))
  <2> HIDE DEF best, raw
  <2> QED BY StrongAyahsBeside
<1>4. Beside(strong, CitationOf(best) \cup Cited(exact))
  <2> HIDE DEF best, raw, strong, exact
  <2> QED BY <1>2, <1>3 DEF Beside
<1> HIDE DEF best, strong, exact
<1> QED BY <1>1, <1>2, <1>4 DEF Shows, best

\* the ayat beside a passage are outside the passages that block them
LEMMA CrossLaneBeside ==
  ASSUME NEW corpus, NEW cands, Placed(corpus, "ayah", cands), NEW exclude, NEW blocked
  PROVE  LET r == CrossLaneAyahs(cands, exclude, blocked)
         IN  /\ Beside(r, exclude)
             /\ \A i \in DOMAIN r : Components(r[i].row) \cap blocked = {}
<1> DEFINE new == {i \in Fresh(cands, exclude) :
                       <<cands[i].row.surah, cands[i].row.first>> \notin blocked}
           fit == {i \in Fresh(cands, exclude) :
                       /\ CrossLane(cands[i])
                       /\ <<cands[i].row.surah, cands[i].row.first>> \notin blocked}
           r == Pass(<<>>, cands, fit, FALSE)
<1>1. CrossLaneAyahs(cands, exclude, blocked) = r
  BY DEF CrossLaneAyahs
<1>2. fit \in SUBSET new /\ new \in SUBSET Fresh(cands, exclude)
  OBVIOUS
<1>3. new \in SUBSET Nat
  BY <1>2, FreshPlaces DEF Placed
<1>4. \A i \in new : i \in DOMAIN cands /\ Components(cands[i].row) \cap blocked = {}
  BY AyahComponents DEF Placed, SoundCandidate, Fresh
<1> HIDE DEF fit, new
<1>5. Selected(r, cands, new)
  BY <1>2, <1>3, NoneSelected, PassSelected
<1> HIDE DEF r
<1>6. Beside(r, exclude)
  BY <1>2, <1>5, SelectedBeside DEF Selected
<1>7. \A i \in DOMAIN r : Components(r[i].row) \cap blocked = {}
  BY <1>4, <1>5 DEF Selected
<1> QED BY <1>1, <1>6, <1>7

\* the collections of an answer with a passage, strong ones apart from the best
LEMMA PassageListsShown ==
  ASSUME NEW corpus, IsCorpus(corpus), NEW q, NEW e, e.corpus = corpus,
         Placed(corpus, "passage", e.passages), Placed(corpus, "ayah", AyatBeside(e)), NEW known,
         e.fusion.preferred.best # None =>
           Sound(corpus, "passage", e.fusion.preferred.best.row)
  PROVE  LET lists == PassageCollections(q, e, known)
             best  == e.fusion.preferred.best
         IN  /\ Shows(lists, best)
             /\ best # None => ApartFrom(lists.strong, best.row)
<1> DEFINE best == e.fusion.preferred.best
           exact == NotBest(ExactPassages(q, corpus), best)
           exclude == Cited(exact) \cup CitationOf(best)
           anchors == (IF best = None THEN {} ELSE {best.row}) \cup {exact[i].row : i \in DOMAIN exact}
           blocked == UNION {Components(r) : r \in anchors}
           first == StrongPassages(q, e.passages, exclude, anchors)
           near == NearPassages(q, e, first, best, exclude, anchors, known)
           cross == CrossLaneAyahs(AyatBeside(e), exclude, blocked)
           strong == IF near # <<>> THEN near ELSE cross
           lists == PassageCollections(q, e, known)
<1>1. lists.exact = exact /\ lists.strong = strong
  BY DEF PassageCollections, ListedPassages, PassageStrong, FirstNonEmpty
<1>2. Beside(exact, CitationOf(best))
  <2> HIDE DEF best
  <2> QED BY ExactPassagesUnique, NotBestUnique DEF Placed
<1>3. best # None => best.row \in anchors /\ Sound(corpus, "passage", best.row)
  OBVIOUS
<1>4. best # None => Components(best.row) \subseteq blocked
  BY <1>3
<1> HIDE DEF exact, anchors, exclude
<1>5. Beside(first, exclude) /\ (best # None => ApartFrom(first, best.row))
  <2>1. Selected(first, e.passages, Listable(e.passages, exclude, anchors))
    BY StrongPassagesSelected DEF Placed
  <2>2. Beside(first, exclude)
    BY <2>1, ListablePlaces DEF Placed
  <2>3. ASSUME best # None PROVE ApartFrom(first, best.row)
    <3> HIDE DEF first, best
    <3> QED BY <1>3, <2>1, <2>3, ListableApart
  <2> QED BY <2>2, <2>3
<1> HIDE DEF best
<1>6. Beside(near, exclude) /\ (best # None => ApartFrom(near, best.row))
  <2> HIDE DEF first
  <2>1. CASE first # <<>> \/ best = None
    BY <1>5, <2>1 DEF NearPassages
  <2>2. CASE ~ (first # <<>> \/ best = None)
    <3> DEFINE p == Parallels(q, corpus, best, exclude, anchors, known)
    <3>1. near = p
      BY <2>2 DEF NearPassages
    <3>2. Beside(p, exclude) /\ ApartFrom(p, best.row)
      BY <1>3, <2>2, ParallelsBeside
    <3> HIDE DEF near, p
    <3> QED BY <3>1, <3>2
  <2> QED BY <2>1, <2>2
<1>7. Beside(cross, exclude) /\ (best # None => ApartFrom(cross, best.row))
  <2> HIDE DEF blocked
  <2>1. Beside(cross, exclude) /\ \A i \in DOMAIN cross : Components(cross[i].row) \cap blocked = {}
    BY CrossLaneBeside
  <2> HIDE DEF cross
  <2> QED BY <1>4, <2>1 DEF ApartFrom
<1> HIDE DEF near, cross
<1>8. Beside(strong, exclude) /\ (best # None => ApartFrom(strong, best.row))
  BY <1>6, <1>7
<1> HIDE DEF strong, lists
<1>9. Beside(strong, CitationOf(best) \cup Cited(exact))
  BY <1>8 DEF exclude
<1>10. Shows(lists, best) /\ (best # None => ApartFrom(lists.strong, best.row))
  BY <1>1, <1>2, <1>8, <1>9 DEF Shows
<1> QED BY <1>10 DEF lists, best

\* the related texts are none that are shown
LEMMA RelatedBeside ==
  ASSUME NEW fusion, IsList(fusion.preferred.alternatives), NEW shown
  PROVE  Beside(Related(fusion, shown), shown \cup CitationOf(fusion.preferred.best))
<1> DEFINE mine == IF fusion.secondary.best = None THEN <<>> ELSE <<fusion.secondary.best>>
           others == mine \o fusion.preferred.alternatives
           exclude == shown \cup CitationOf(fusion.preferred.best)
           new == Fresh(others, exclude)
           fit == {i \in new : WorthRelating(fusion.preferred, others[i])}
           r == Pass(<<>>, others, fit, FALSE)
<1>1. Related(fusion, shown) = r
  BY DEF Related
<1>2. IsList(mine)
  <2>1. ASSUME NEW x PROVE IsList(<<x>>)
    <3>1. <<x>> \in Seq({x})
      OBVIOUS
    <3> QED BY <3>1, SeqIsList
  <2> QED BY <2>1, Empty
<1>3. IsList(others)
  <2> HIDE DEF mine
  <2> QED BY <1>2, ConcatList
<1> HIDE DEF others
<1>4. new \in SUBSET Nat /\ fit \in SUBSET new
  BY <1>3, FreshPlaces
<1> HIDE DEF fit
<1>5. Selected(r, others, new)
  <2> HIDE DEF new
  <2> QED BY <1>4, NoneSelected, PassSelected
<1> HIDE DEF r
<1> QED BY <1>1, <1>5, SelectedBeside

-----------------------------------------------------------------------------
\* what the searches of one evaluation have found
FoundIn(q, f, corpus) ==
  /\ DOMAIN f = {"ayahs", "windows", "passages", "engine", "related"}
  /\ Matched(q, corpus, "ayah", f.ayahs)
  /\ Matched(q, corpus, "passage", f.windows)
  /\ Matched(q, corpus, "passage", f.passages)
  /\ f.related = None \/ Matched(q, corpus, "ayah", f.related)

\* an evaluation begins with nothing found
LEMMA NothingFoundIn ==
  \A q, corpus : FoundIn(q, NothingFound, corpus)
BY MatchedEmpty DEF FoundIn, NothingFound

\* the number of ayat that are kept is a natural
LEMMA TopK ==
  \A q : AyahTopK(q) \in Nat
BY DEF AyahTopK

\* an exact ayah is sound
LEMMA ExactAyahSound ==
  ASSUME NEW q, NEW corpus, IsCorpus(corpus)
  PROVE  AllSound(corpus, "ayah", ExactAyah(q, corpus))
<1>1. ASSUME NEW m
      PROVE  AllSound(corpus, "ayah", AyahsWithText(m, q, corpus))
  <2> DEFINE rows == AyahRows(corpus)
             places == {i \in DOMAIN rows :
                          rows[i].text # <<>> /\ View(m, rows[i].text) = View(m, q.text)}
  <2>1. AyahsWithText(m, q, corpus) = Kept(rows, places)
    BY DEF AyahsWithText
  <2>2. AllSound(corpus, "ayah", rows)
    BY AyahRowsSound
  <2> HIDE DEF rows, places
  <2> QED BY <2>1, <2>2, KeptDrawn, SoundDrawn DEF AllSound
<1> QED BY <1>1 DEF ExactAyah

\* sorting keeps candidates sound
LEMMA SortedMatched ==
  ASSUME NEW q, NEW corpus, NEW kind, NEW cands, Matched(q, corpus, kind, cands)
  PROVE  Matched(q, corpus, kind, Sorted(cands))
<1> DEFINE keys == [i \in DOMAIN cands |-> ServiceKey(cands[i])]
           sorted == SortedBy(cands, keys)
<1>1. Sorted(cands) = Upto(5, FirstOfEach(sorted))
  BY DEF Sorted
<1>2. Matched(q, corpus, kind, sorted)
  <2> HIDE DEF keys
  <2> QED BY SortedDrawn, MatchedDrawn DEF Matched
<1> HIDE DEF sorted
<1>3. Matched(q, corpus, kind, FirstOfEach(sorted))
  BY <1>2, MergedMatched
<1> QED BY <1>1, <1>3, UptoDrawn, MatchedDrawn DEF Matched

\* the likely surahs are numbers
LEMMA LikelyList ==
  ASSUME NEW q, NEW corpus, IsCorpus(corpus), NEW kind, NEW cands, Matched(q, corpus, kind, cands)
  PROVE  IsList(LikelySurahs(cands)) /\ ToSet(LikelySurahs(cands)) \subseteq Int
<1> DEFINE top == Upto(12, cands)
           all == [i \in DOMAIN top |-> cands[i].row.surah]
           surahs == Distinct(all)
           sum(s) == FoldLeft(LAMBDA n, c : IF c.row.surah = s THEN n + c.score ELSE n, 0, top)
           keys == [i \in DOMAIN surahs |-> <<sum(surahs[i])>>]
           likely == Upto(3, SortedBy(surahs, keys))
<1>1. LikelySurahs(cands) = likely
  BY DEF LikelySurahs
<1>2. IsList(all) /\ \A i \in DOMAIN all : all[i] \in Int
  <2>1. IsList(top) /\ \A i \in DOMAIN top : i \in DOMAIN cands
    BY UptoDrawn DEF Matched, Drawn
  <2> HIDE DEF top
  <2>2. all = [i \in DOMAIN top |-> all[i]] /\ \A i \in DOMAIN top : all[i] = cands[i].row.surah
    OBVIOUS
  <2> HIDE DEF all
  <2>3. IsList(all) /\ DOMAIN all = DOMAIN top
    BY <2>1, <2>2, MapList
  <2>4. \A i \in DOMAIN cands : cands[i].row.surah \in Int
    BY CorpusLength DEF Matched, MatchedCandidate, SoundCandidate, Sound
  <2> QED BY <2>1, <2>2, <2>3, <2>4
<1> HIDE DEF all
<1>3. Drawn(surahs, all)
  BY <1>2, KeptDrawn DEF Distinct
<1> HIDE DEF surahs, keys
<1>4. Drawn(SortedBy(surahs, keys), surahs)
  BY <1>3, SortedDrawn DEF Drawn
<1>5. Drawn(likely, SortedBy(surahs, keys))
  BY <1>4, UptoDrawn DEF Drawn
<1> HIDE DEF likely
<1>6. Drawn(likely, all)
  BY <1>3, <1>4, <1>5, DrawnTrans
<1>7. \A i \in DOMAIN likely : likely[i] \in Int
  BY <1>2, <1>6 DEF Drawn
<1> QED BY <1>1, <1>6, <1>7 DEF Drawn, ToSet

-----------------------------------------------------------------------------
\* the result of a lane
OfLane(q, corpus, kind, r) ==
  /\ DOMAIN r = {"mode", "status", "confidence", "best", "alternatives"}
  /\ IsList(r.alternatives)
  /\ r.best = None \/ MatchedCandidate(q, corpus, kind, r.best)
  /\ IsQuery(q) /\ r.status = Exact => Quotes(q, r.best.row)

\* the best match and the alternatives of a lane
LEMMA LaneResultOfLane ==
  ASSUME NEW q, NEW corpus, NEW kind, NEW cands, Matched(q, corpus, kind, cands), NEW admitted
  PROVE  OfLane(q, corpus, kind, LaneResult(q, cands, admitted))
<1>1. ASSUME NEW mode, NEW status \in {Unassessed, Unfound}
      PROVE  OfLane(q, corpus, kind, Result(mode, status, None, <<>>))
  BY Empty DEF OfLane, Result, Exact, Unassessed, Unfound
<1>2. CASE cands = <<>>
  BY <1>1, <1>2 DEF LaneResult, EmptyResult
<1>3. CASE cands # <<>>
  <2> DEFINE top == Upto(5, cands)
             alternatives == SubSeq(top, 2, Min({4, Len(top)}))
  <2>1. Matched(q, corpus, kind, top)
    BY UptoDrawn, MatchedDrawn DEF Matched
  <2>2. 1 \in DOMAIN top
    <3>1. Len(cands) \in Nat /\ Len(cands) # 0
      BY <1>3, ListFacts, EmptyList DEF Matched
    <3> DEFINE m == Len(cands)
    <3>2. m \in Int /\ m >= 1
      BY <3>1
    <3> HIDE DEF m
    <3>3. Min({5, m}) \in {5, m} /\ Min({5, m}) <= m
      BY <3>2, TwoNumbers, 5 \in Int
    <3>4. Min({5, m}) >= 1 /\ Min({5, m}) \in 0 .. m
      BY <3>2, <3>3
    <3>5. Len(top) = Min({5, m})
      BY <3>1, <3>4, SubSeqDrawn, 1 \in 1 .. Len(cands) + 1 DEF Upto, m, Matched
    <3>6. DOMAIN top = 1 .. Len(top) /\ Len(top) \in Nat
      BY <2>1, ListFacts DEF Matched
    <3> QED BY <3>4, <3>5, <3>6
  <2> HIDE DEF top
  <2>3. IsList(alternatives)
    <3> DEFINE m == Len(top)
    <3>1. m \in Int /\ m >= 1
      BY <2>1, <2>2, ListFacts DEF Matched
    <3> HIDE DEF m
    <3>2. Min({4, m}) \in {4, m} /\ Min({4, m}) <= m
      BY <3>1, TwoNumbers, 4 \in Int
    <3>3. Min({4, m}) \in 0 .. m /\ 2 \in 1 .. m + 1
      BY <3>1, <3>2
    <3>4. IsList(SubSeq(top, 2, Min({4, m})))
      BY <2>1, <3>3, SubSeqDrawn DEF Matched, Drawn, m
    <3> QED BY <3>4 DEF m
  <2>4. ResultOfBest(q, top) = Result("verifier", MatchStatus(q, top[1]), top[1], alternatives)
    BY DEF ResultOfBest
  <2> HIDE DEF alternatives
  <2>5. IsQuery(q) /\ MatchStatus(q, top[1]) = Exact => Quotes(q, top[1].row)
    <3>1. MatchStatus(q, top[1]) = Exact => IsExact(q, top[1])
      BY DEF MatchStatus, Exact, Close, Unfound, Unassessed
    <3>2. IsExact(q, top[1]) => Marked(top[1])
      BY DEF IsExact, FullExact, ExcerptExact, Marked
    <3> QED BY <2>1, <2>2, <3>1, <3>2 DEF Matched, MatchedCandidate
  <2>6. OfLane(q, corpus, kind, ResultOfBest(q, top))
    BY <2>1, <2>2, <2>3, <2>4, <2>5 DEF OfLane, Result, Matched
  <2> QED BY <1>1, <1>3, <2>6 DEF LaneResult, EmptyResult, top
<1> QED BY <1>2, <1>3

\* an evaluation, with what its collections are made of
EvaluatedIn(q, e) ==
  /\ IsCorpus(e.corpus)
  /\ Matched(q, e.corpus, "passage", e.passages) /\ Matched(q, e.corpus, "ayah", AyatBeside(e))
  /\ IsList(e.fusion.preferred.alternatives)
  /\ e.fusion.lane = "passage" /\ e.fusion.preferred.best # None =>
       Sound(e.corpus, "passage", e.fusion.preferred.best.row)
  /\ IsQuery(q) /\ e.fusion.preferred.status = Exact => Quotes(q, e.fusion.preferred.best.row)

\* naming the engine leaves the result of a lane
LEMMA StampedOfLane ==
  ASSUME NEW q, NEW corpus, NEW kind, NEW r, OfLane(q, corpus, kind, r), NEW engine
  PROVE  OfLane(q, corpus, kind, Stamped(r, engine))
<1>1. CASE r.best = None \/ engine = "static_window"
  BY <1>1 DEF Stamped
<1>2. CASE ~ (r.best = None \/ engine = "static_window")
  <2> DEFINE best == [r.best EXCEPT !.engine = engine]
             s == [r EXCEPT !.best = best]
  <2>1. MatchedCandidate(q, corpus, kind, r.best)
    BY <1>2 DEF OfLane
  <2>2. MatchedCandidate(q, corpus, kind, best)
    BY <2>1, WithMatched DEF With
  <2>5. best.row = r.best.row
    BY <2>1, WithMatched DEF With
  <2>3. Stamped(r, engine) = s
    BY <1>2 DEF Stamped
  <2> HIDE DEF best
  <2>4. DOMAIN s = DOMAIN r /\ s.alternatives = r.alternatives /\ s.best = best
        /\ s.status = r.status
    BY DEF OfLane
  <2> HIDE DEF s
  <2> QED BY <2>2, <2>3, <2>4, <2>5 DEF OfLane
<1> QED BY <1>1, <1>2

\* what an evaluation concludes is made of what its searches found
LEMMA EvaluatedFound ==
  ASSUME NEW q, NEW corpus, IsCorpus(corpus), NEW f, FoundIn(q, f, corpus)
  PROVE  EvaluatedIn(q, Evaluated(corpus, q, f))
<1> DEFINE ayah == AyahResult(q, f.ayahs)
           passage == PassageResult(q, f.passages)
           beside == BesideAyah(q, f.ayahs, ayah, passage)
           stamped == Stamped(beside, f.engine)
           e == Evaluated(corpus, q, f)
<1>1. OfLane(q, corpus, "ayah", ayah) /\ OfLane(q, corpus, "passage", passage)
  BY LaneResultOfLane DEF FoundIn, AyahResult, PassageResult
<1>2. /\ e.corpus = corpus /\ e.passages = f.passages /\ e.ayahs = f.ayahs /\ e.related = f.related
      /\ e.fusion = Fusion(q, ayah, stamped)
  BY DEF Evaluated
<1>3. OfLane(q, corpus, "passage", beside)
  <2> DEFINE close == [passage EXCEPT !.status = Close, !.confidence = "medium"]
  <2>1. beside \in {passage, close}
    BY DEF BesideAyah, PreferAyah
  <2> HIDE DEF passage, beside
  <2>2. DOMAIN close = DOMAIN passage /\ close.best = passage.best
        /\ close.alternatives = passage.alternatives /\ close.status = Close
    BY <1>1 DEF OfLane
  <2> HIDE DEF close
  <2> QED BY <1>1, <2>1, <2>2 DEF OfLane, Exact, Close
<1>4. OfLane(q, corpus, "passage", stamped)
  <2> HIDE DEF beside
  <2> QED BY <1>3, StampedOfLane
<1> HIDE DEF ayah, stamped, e
<1>5. /\ e.fusion.lane = "passage" => e.fusion.preferred = stamped
      /\ e.fusion.preferred \in {ayah, stamped}
  BY <1>2 DEF Fusion
<1>6. Matched(q, corpus, "ayah", AyatBeside(e))
  BY <1>2 DEF AyatBeside, FoundIn
<1> QED BY <1>1, <1>2, <1>4, <1>5, <1>6 DEF EvaluatedIn, FoundIn, OfLane, MatchedCandidate, SoundCandidate, e

-----------------------------------------------------------------------------
(* The inductive invariant.  While an evaluation is under way the first of    *)
(* the pending corpora is in work and what was found stands in it; whatever   *)
(* was evaluated carries candidates of its own corpus; and nothing is         *)
(* answered before the collections are made.                                  *)
Searching == step \notin {"idle", "collect", "done"}
Sources ==
  /\ loaded \in Corpora
  /\ IsList(pending) /\ \A i \in DOMAIN pending : IsCorpus(pending[i])
  /\ step = "idle" => found = NothingFound /\ evaluations = <<>>
  /\ Searching => pending # <<>> /\ FoundIn(query, found, Corpus)
  /\ Searching \/ step = "collect" => IsQuery(query)
Evaluations ==
  /\ IsList(evaluations) /\ \A i \in DOMAIN evaluations : EvaluatedIn(query, evaluations[i])
  /\ step = "collect" => evaluations # <<>>
Unanswered == step # "done" => response = None
VerifierInv == Sources /\ Evaluations /\ Unanswered /\ NothingListedTwice /\ ExactIsQuoted

\* the corpus in work is one
LEMMA HeadCorpus ==
  ASSUME Sources, pending # <<>>
  PROVE  IsCorpus(Corpus)
<1>1. 1 \in DOMAIN pending
  BY ListFacts, EmptyList DEF Sources
<1> QED BY <1>1 DEF Sources, Corpus

\* the rest of a list, each item one place further
LEMMA TailPending ==
  ASSUME NEW s, IsList(s), s # <<>>
  PROVE  IsList(Tail(s)) /\ \A i \in DOMAIN Tail(s) : i + 1 \in DOMAIN s /\ Tail(s)[i] = s[i + 1]
<1>1. s \in Seq(ToSet(s)) /\ Len(s) \in Nat /\ DOMAIN s = 1 .. Len(s) /\ Len(s) # 0
  BY ListFacts, EmptyList
<1>2. Tail(s) \in Seq(ToSet(s)) /\ Len(Tail(s)) = Len(s) - 1
      /\ \A i \in 1 .. Len(s) - 1 : Tail(s)[i] = s[i + 1]
  BY <1>1
<1>3. IsList(Tail(s)) /\ DOMAIN Tail(s) = 1 .. Len(s) - 1
  BY <1>2, SeqIsList, ListFacts
<1> QED BY <1>1, <1>2, <1>3

\* the service starts in the invariant
LEMMA InitVerifier == Init => VerifierInv
<1> SUFFICES ASSUME Init PROVE VerifierInv
  OBVIOUS
<1> QED BY Empty DEF Init, VerifierInv, Sources, Searching, Evaluations, Unanswered,
        NothingListedTwice, ExactIsQuoted, Answered

\* a search that keeps what is found in the corpus in work
LEMMA SearchStep ==
  ASSUME VerifierInv, NEW now, NEW finds, NEW next, Search(now, finds, next),
         now \in {"ayah", "ayahs", "related", "giant", "windows", "spans", "medium", "long", "likely"},
         next \in {"ayah", "ayahs", "related", "giant", "windows", "spans", "medium", "long",
                   "likely", "fuse"},
         FoundIn(query, finds, Corpus)
  PROVE  VerifierInv'
<1>1. /\ Searching /\ Searching' /\ found' = finds /\ step = now /\ step' = next
      /\ UNCHANGED <<loaded, indexed, query, pending, evaluations, response>>
  BY DEF Search, Searching
<1>2. Corpus' = Corpus
  BY <1>1 DEF Corpus
<1>3. Sources'
  <2>1. FoundIn(query, found, Corpus)'
    BY <1>1, <1>2
  <2>2. step' # "idle"
    BY <1>1
  <2> QED BY <1>1, <2>1, <2>2 DEF VerifierInv, Sources
<1>4. Evaluations'
  <2>1. step' # "collect"
    BY <1>1
  <2> QED BY <1>1, <2>1 DEF VerifierInv, Evaluations
<1>5. response = None
  BY <1>1 DEF VerifierInv, Unanswered
<1>6. Unanswered' /\ NothingListedTwice' /\ ExactIsQuoted'
  BY <1>1, <1>5 DEF Unanswered, NothingListedTwice, ExactIsQuoted, Answered
<1> QED BY <1>3, <1>4, <1>6 DEF VerifierInv

\* what is found is replaced by what stands in the same corpus
LEMMA Updates ==
  ASSUME NEW f, NEW corpus, FoundIn(query, f, corpus), NEW x, NEW engine
  PROVE  /\ Matched(query, corpus, "ayah", x) => FoundIn(query, [f EXCEPT !.ayahs = x], corpus)
         /\ Matched(query, corpus, "ayah", x) => FoundIn(query, [f EXCEPT !.related = x], corpus)
         /\ Matched(query, corpus, "passage", x) => FoundIn(query, [f EXCEPT !.passages = x, !.engine = engine], corpus)
         /\ Matched(query, corpus, "passage", x) => FoundIn(query, [f EXCEPT !.windows = x], corpus)
<1>1. DOMAIN f = {"ayahs", "windows", "passages", "engine", "related"}
  BY DEF FoundIn
<1> DEFINE a == [f EXCEPT !.ayahs = x]
           b == [f EXCEPT !.related = x]
           c == [f EXCEPT !.passages = x, !.engine = engine]
           d == [f EXCEPT !.windows = x]
<1>2. DOMAIN a = DOMAIN f /\ a.ayahs = x /\ a.windows = f.windows /\ a.passages = f.passages
      /\ a.related = f.related
  BY <1>1
<1>3. DOMAIN b = DOMAIN f /\ b.ayahs = f.ayahs /\ b.windows = f.windows /\ b.passages = f.passages
      /\ b.related = x
  BY <1>1
<1>4. DOMAIN c = DOMAIN f /\ c.ayahs = f.ayahs /\ c.windows = f.windows /\ c.passages = x
      /\ c.related = f.related
  BY <1>1
<1>5. DOMAIN d = DOMAIN f /\ d.ayahs = f.ayahs /\ d.windows = x /\ d.passages = f.passages
      /\ d.related = f.related
  BY <1>1
<1> HIDE DEF a, b, c, d
<1> QED BY <1>2, <1>3, <1>4, <1>5 DEF FoundIn, a, b, c, d

-----------------------------------------------------------------------------
\* what holds while a search is to come
LEMMA Working ==
  ASSUME VerifierInv, Searching
  PROVE  /\ IsCorpus(Corpus) /\ FoundIn(query, found, Corpus)
         /\ Matched(query, Corpus, "ayah", found.ayahs) /\ Matched(query, Corpus, "passage", found.windows)
         /\ Matched(query, Corpus, "passage", found.passages)
         /\ IsList(Likely) /\ ToSet(Likely) \subseteq Int
<1>1. IsCorpus(Corpus) /\ FoundIn(query, found, Corpus)
  BY HeadCorpus DEF VerifierInv, Sources
<1>2. Matched(query, Corpus, "ayah", found.ayahs)
  BY <1>1 DEF FoundIn
<1>3. IsList(Likely) /\ ToSet(Likely) \subseteq Int
  BY <1>1, <1>2, LikelyList DEF Likely
<1> QED BY <1>1, <1>3 DEF FoundIn

\* passages that are found with an engine
LEMMA PassagesFound ==
  ASSUME VerifierInv, Searching, NEW x, Matched(query, Corpus, "passage", x), NEW engine
  PROVE  FoundIn(query, Passages(x, engine), Corpus)
BY Working, Updates DEF Passages

\* the steps of an evaluation, each for the search that it makes
LEMMA TakeOnlyAyahStep ==
  ASSUME VerifierInv, TakeOnlyAyah
  PROVE  VerifierInv'
<1> DEFINE cands == BestMatches(query, ExactAyah(query, Corpus), AyahTopK(query))
           next  == IF BestIsExact(query, cands, 1) THEN "related" ELSE "windows"
           finds == [found EXCEPT !.ayahs = cands]
<1>1. step = "ayah" /\ Search("ayah", finds, next) /\ Searching
  BY DEF TakeOnlyAyah, Searching
<1>2. Matched(query, Corpus, "ayah", cands)
  BY <1>1, Working, ExactAyahSound, TopK, BestMatchesMatched
<1> HIDE DEF cands
<1>3. FoundIn(query, finds, Corpus)
  BY <1>1, <1>2, Working, Updates
<1> HIDE DEF finds
<1>4. next \in {"related", "windows"}
  OBVIOUS
<1> HIDE DEF next
<1> QED BY <1>1, <1>3, <1>4, SearchStep

\* the fast path, which answers alone or leaves the search to the others
LEMMA TryFastPathStep ==
  ASSUME VerifierInv, TryFastPath
  PROVE  VerifierInv'
<1> DEFINE fast == LongSpanExactMatch(query, Corpus, <<>>, 2, 1)
<1>1. step = "ayah" /\ Searching
      /\ (Search("ayah", Passages(fast, "giant_exact_anchor"), "fuse") \/ Search("ayah", found, "ayahs"))
  BY DEF TryFastPath, Searching
<1>2. Matched(query, Corpus, "passage", fast)
  BY <1>1, Working, Empty, FastPathMatched
<1> HIDE DEF fast
<1>3. FoundIn(query, Passages(fast, "giant_exact_anchor"), Corpus) /\ FoundIn(query, found, Corpus)
  BY <1>1, <1>2, Working, PassagesFound
<1> QED BY <1>1, <1>3, SearchStep

\* the ayat that are compared
LEMMA ShortlistAyahsStep ==
  ASSUME VerifierInv, ShortlistAyahs
  PROVE  VerifierInv'
<1> DEFINE cands == BestMatches(query, Shortlist(query, AyahRows(Corpus), TRUE), AyahTopK(query))
           next  == IF BestIsExact(query, cands, 1) THEN "fuse"
                    ELSE IF IsGiant(query) THEN "giant" ELSE "windows"
           finds == [found EXCEPT !.ayahs = cands]
<1>1. step = "ayahs" /\ Searching /\ Search("ayahs", finds, next)
  BY DEF ShortlistAyahs, Search, Searching
<1>2. Matched(query, Corpus, "ayah", cands)
  BY <1>1, Working, AyahRowsSound, ShortlistSound, TopK, BestMatchesMatched
<1> HIDE DEF cands
<1>3. FoundIn(query, finds, Corpus)
  BY <1>1, <1>2, Working, Updates
<1> HIDE DEF finds
<1>4. next \in {"fuse", "giant", "windows"}
  OBVIOUS
<1> HIDE DEF next
<1> QED BY <1>1, <1>3, <1>4, SearchStep

\* the ayat that are only related
LEMMA FindRelatedAyahsStep ==
  ASSUME VerifierInv, FindRelatedAyahs
  PROVE  VerifierInv'
<1> DEFINE cands == RelatedAyahs(query, Corpus)
           finds == [found EXCEPT !.related = cands]
<1>1. step = "related" /\ Searching /\ Search("related", finds, "fuse")
  BY DEF FindRelatedAyahs, Searching
<1>2. Matched(query, Corpus, "ayah", cands)
  BY <1>1, Working, AyahRowsSound, ShortlistSound, TopK, BestMatchesMatched DEF RelatedAyahs
<1> HIDE DEF cands
<1>3. FoundIn(query, finds, Corpus)
  BY <1>1, <1>2, Working, Updates
<1> HIDE DEF finds
<1> QED BY <1>1, <1>3, SearchStep

\* parts of a very long text
LEMMA SearchGiantPartialStep ==
  ASSUME VerifierInv, SearchGiantPartial
  PROVE  VerifierInv'
<1> DEFINE cands == GiantPartialPassages(query, Corpus, Likely, 2, 5)
<1>1. step = "giant" /\ Searching
      /\ Search("giant", Passages(cands, "giant_partial_anchor"), "fuse")
  BY DEF SearchGiantPartial, Searching
<1>2. Matched(query, Corpus, "passage", cands)
  BY <1>1, Working, GiantPartialPassagesMatched
<1> HIDE DEF cands
<1> QED BY <1>1, <1>2, PassagesFound, SearchStep

\* the stored windows that are compared
LEMMA ShortlistWindowsStep ==
  ASSUME VerifierInv, ShortlistWindows
  PROVE  VerifierInv'
<1> DEFINE stored == BestMatches(query, Shortlist(query, PassageRows(Corpus), TRUE), 5)
           engine == IF BestIsExact(query, stored, 2) THEN "static_exact_window" ELSE "static_window"
           finds  == [Passages(Sorted(stored), engine) EXCEPT !.windows = stored]
           next   == IF IsLong(query) /\ ~ BestIsExact(query, stored, 2) THEN "spans" ELSE "fuse"
<1>1. Search("windows", finds, next) /\ step = "windows" /\ Searching
  BY DEF ShortlistWindows, Search, Searching
<1>2. Matched(query, Corpus, "passage", stored)
  BY <1>1, Working, PassageRowsSound, ShortlistSound, BestMatchesMatched
<1> HIDE DEF stored
<1>3. FoundIn(query, finds, Corpus)
  <2>1. FoundIn(query, Passages(Sorted(stored), engine), Corpus)
    <3> HIDE DEF engine
    <3> QED BY <1>1, <1>2, SortedMatched, PassagesFound
  <2> HIDE DEF engine
  <2> QED BY <1>2, <2>1, Updates
<1> HIDE DEF finds
<1>4. next \in {"spans", "fuse"}
  OBVIOUS
<1> HIDE DEF next
<1> QED BY <1>1, <1>3, <1>4, SearchStep

\* spans that contain the text
LEMMA SearchExactSpansStep ==
  ASSUME VerifierInv, SearchExactSpans
  PROVE  VerifierInv'
<1> DEFINE exact == ExactSpans(query, Corpus, 2, 5, Likely)
<1>1. step = "spans" /\ Searching
      /\ (Search("spans", Passages(exact, "surah_span_exact"), "fuse") \/ Search("spans", found, "medium"))
  BY DEF SearchExactSpans, Searching
<1>2. Matched(query, Corpus, "passage", exact)
  BY <1>1, Working, ExactSpansMatched
<1> HIDE DEF exact
<1>3. FoundIn(query, Passages(exact, "surah_span_exact"), Corpus) /\ FoundIn(query, found, Corpus)
  BY <1>1, <1>2, Working, PassagesFound
<1> QED BY <1>1, <1>3, SearchStep

\* spans around the seeds of a medium text
LEMMA SearchMediumStep ==
  ASSUME VerifierInv, SearchMedium
  PROVE  VerifierInv'
<1> DEFINE medium == MediumPartial(query, Corpus, found.ayahs, found.windows, Likely, 2, 8, 5)
           all == Sorted(found.windows \o medium)
<1>1. step = "medium" /\ Searching
      /\ (Search("medium", Passages(all, "surah_span_partial"), "fuse") \/ Search("medium", found, "long"))
  BY DEF SearchMedium, Searching
<1>2. Matched(query, Corpus, "passage", medium)
  BY <1>1, Working, MediumPartialMatched
<1> HIDE DEF medium
<1>3. Matched(query, Corpus, "passage", all)
  BY <1>1, <1>2, Working, MatchedConcat, SortedMatched
<1> HIDE DEF all
<1>4. FoundIn(query, Passages(all, "surah_span_partial"), Corpus) /\ FoundIn(query, found, Corpus)
  BY <1>1, <1>3, Working, PassagesFound
<1> QED BY <1>1, <1>4, SearchStep

\* spans around the seeds of a long text
LEMMA SearchLongStep ==
  ASSUME VerifierInv, SearchLong
  PROVE  VerifierInv'
<1> DEFINE long == LongPassages(query, Corpus, found.ayahs, found.windows, <<>>, 2, 40, 5)
           all == Sorted(long \o found.windows)
           engine == IF long = <<>> THEN "static_window" ELSE long[1].engine
           next == IF long # <<>> /\ long[1].engine = "surah_span_exact" THEN "fuse" ELSE "likely"
<1>1. step = "long" /\ Searching /\ Search("long", Passages(all, engine), next)
  BY DEF SearchLong, Searching
<1>2. Matched(query, Corpus, "passage", long)
  <2>1. ToSet(<<>>) \subseteq Int
    BY DEF ToSet
  <2> QED BY <1>1, <2>1, Working, LongPassagesMatched
<1>3. next \in {"fuse", "likely"}
  OBVIOUS
<1> HIDE DEF long, next
<1>4. Matched(query, Corpus, "passage", all)
  BY <1>1, <1>2, Working, MatchedConcat, SortedMatched
<1> HIDE DEF all, engine
<1>5. FoundIn(query, Passages(all, engine), Corpus)
  BY <1>1, <1>4, PassagesFound
<1> QED BY <1>1, <1>3, <1>5, SearchStep

\* spans in the likely surahs
LEMMA SearchLikelyStep ==
  ASSUME VerifierInv, SearchLikely
  PROVE  VerifierInv'
<1> DEFINE extra == LongPassages(query, Corpus, found.ayahs, found.windows, Likely, 2, 40, 5)
           all == Sorted(found.passages \o extra)
           engine == extra[1].engine
<1>1. step = "likely" /\ Searching
      /\ (Search("likely", found, "fuse") \/ Search("likely", Passages(all, engine), "fuse"))
  BY DEF SearchLikely, Searching
<1>2. Matched(query, Corpus, "passage", extra)
  BY <1>1, Working, LongPassagesMatched
<1> HIDE DEF extra
<1>3. Matched(query, Corpus, "passage", all)
  BY <1>1, <1>2, Working, MatchedConcat, SortedMatched
<1> HIDE DEF all, engine
<1>4. FoundIn(query, Passages(all, engine), Corpus) /\ FoundIn(query, found, Corpus)
  BY <1>1, <1>3, Working, PassagesFound
<1> QED BY <1>1, <1>4, SearchStep

-----------------------------------------------------------------------------
\* a query is evaluated against every loaded corpus, in one order or the other
LEMMA RuntimeOrderFacts ==
  ASSUME NEW q, NEW corpora \in Corpora
  PROVE  /\ IsList(RuntimeOrder(q, corpora)) /\ RuntimeOrder(q, corpora) # <<>>
         /\ \A i \in DOMAIN RuntimeOrder(q, corpora) : IsCorpus(RuntimeOrder(q, corpora)[i])
<1>1. /\ IsList(corpora) /\ Len(corpora) \in {1, 2}
      /\ \A i \in DOMAIN corpora : IsCorpus(corpora[i])
  BY CorporaAssumption
<1>2. DOMAIN corpora = 1 .. Len(corpora) /\ Len(corpora) \in Nat
  BY <1>1, ListFacts
<1> DEFINE n == Len(corpora)
           r == [i \in 1 .. n |-> corpora[(n - i) + 1]]
<1>3. IsList(r) /\ Len(r) = n /\ DOMAIN r = 1 .. n
  <2>1. r = [i \in 1 .. n |-> r[i]]
    OBVIOUS
  <2> HIDE DEF r, n
  <2> QED BY <1>2, <2>1, FunctionIsList DEF n
<1>4. \A i \in 1 .. n : IsCorpus(r[i])
  <2> TAKE i \in 1 .. n
  <2>1. (n - i) + 1 \in 1 .. n
    BY <1>2
  <2> QED BY <1>1, <1>2, <2>1
<1>5. Reverse(corpora) = r
  BY DEF Reverse
<1> HIDE DEF r
<1>6. r # <<>> /\ corpora # <<>>
  BY <1>1, <1>3, EmptyList
<1> QED BY <1>1, <1>2, <1>3, <1>4, <1>5, <1>6 DEF RuntimeOrder

\* a text that is an ayah has tokens
LEMMA SignalIsQuery ==
  ASSUME NEW corpora \in Corpora, NEW q, IsList(q.text), HasExactSignal(q, corpora)
  PROVE  IsQuery(q)
<1>1. PICK n \in DOMAIN corpora : ExactAyah(q, corpora[n]) # <<>>
  BY DEF HasExactSignal
<1> DEFINE corpus == corpora[n]
           rows   == AyahRows(corpus)
           places(m) == {i \in DOMAIN rows :
                           rows[i].text # <<>> /\ View(m, rows[i].text) = View(m, q.text)}
<1>2. IsCorpus(corpus)
  BY <1>1, CorporaAssumption
<1>3. PICK m : Kept(rows, places(m)) # <<>>
  BY <1>1 DEF ExactAyah, AyahsWithText
<1> HIDE DEF corpus
<1>4. PICK i \in DOMAIN rows : rows[i].text # <<>> /\ View(m, rows[i].text) = View(m, q.text)
  <2> DEFINE kept == Kept(rows, places(m))
  <2>1. IsList(rows)
    BY <1>2, AyahRowsSound DEF AllSound
  <2> HIDE DEF rows
  <2>2. PICK at : Picks(kept, rows, at) /\ \A j \in DOMAIN kept : at[j] \in places(m)
    BY <2>1, KeptPicks
  <2>3. IsList(kept) /\ kept # <<>>
    BY <1>3, <2>1, KeptDrawn DEF Drawn
  <2> HIDE DEF kept
  <2>4. 1 \in DOMAIN kept
    BY <2>3, ListFacts, EmptyList
  <2> QED BY <2>2, <2>4
<1> DEFINE t == rows[i].text
<1>5. IsList(t) /\ t # <<>> /\ View(m, t) = View(m, q.text)
  BY <1>2, <1>4, AyahRowsText
<1> HIDE DEF t
<1>6. Len(t) = Len(q.text) /\ Len(t) # 0
  BY <1>5, ViewFacts, EmptyList
<1> QED BY <1>6, EmptyList DEF IsQuery

\* a query is taken, or refused at once
LEMMA ReceiveStep ==
  ASSUME VerifierInv, step = "idle", NEW q \in Asked(loaded), Receive(q)
  PROVE  VerifierInv'
<1>1. /\ loaded \in Corpora /\ found = NothingFound /\ evaluations = <<>>
      /\ UNCHANGED <<loaded, indexed, found, evaluations>>
      /\ IsList(pending) /\ \A i \in DOMAIN pending : IsCorpus(pending[i])
  BY DEF VerifierInv, Sources, Receive
<1>2. NothingListedTwice' /\ ExactIsQuoted'
  BY <1>1, Empty DEF NothingListedTwice, ExactIsQuoted, Answered
<1>3. CASE /\ pending' = RuntimeOrder(q, loaded) /\ step' = "ayah" /\ response' = None
           /\ Assess(q) = "verify_like" \/ HasExactSignal(q, loaded)
  <2>1. Sources'
    <3>1. IsList(pending') /\ pending' # <<>> /\ \A i \in DOMAIN pending' : IsCorpus(pending'[i])
      BY <1>1, <1>3, RuntimeOrderFacts
    <3>2. FoundIn(query, found, Corpus)'
      BY <1>1, NothingFoundIn
    <3>3. IsList(q.text)
      BY <1>1, AskedAssumption
    <3>4. Assess(q) = "verify_like" => q.text # <<>>
      BY DEF Assess
    <3>5. IsQuery(q)
      BY <1>1, <1>3, <3>3, <3>4, SignalIsQuery DEF IsQuery
    <3>6. IsQuery(query)'
      BY <3>5 DEF Receive
    <3> QED BY <1>1, <1>3, <3>1, <3>2, <3>6 DEF Sources
  <2>2. Unanswered'
    BY <1>3 DEF Unanswered
  <2>3. Evaluations'
    BY <1>1, <1>3, Empty DEF Evaluations
  <2> QED BY <1>2, <2>1, <2>2, <2>3 DEF VerifierInv
<1>4. CASE step' = "done" /\ UNCHANGED pending
  <2>1. Sources'
    BY <1>1, <1>4 DEF Sources, Searching
  <2>2. Unanswered'
    BY <1>4 DEF Unanswered
  <2>3. Evaluations'
    BY <1>1, <1>4, Empty DEF Evaluations
  <2> QED BY <1>2, <2>1, <2>2, <2>3 DEF VerifierInv
<1> QED BY <1>3, <1>4 DEF Receive

\* an evaluation is concluded, and the next corpus is taken
LEMMA FuseStep ==
  ASSUME VerifierInv, Fuse
  PROVE  VerifierInv'
<1> DEFINE e == Evaluated(Corpus, query, found)
<1>1. /\ step = "fuse" /\ Searching /\ pending # <<>>
      /\ evaluations' = Append(evaluations, e)
      /\ pending' = <<>> \/ pending' = Tail(pending)
      /\ step' = IF pending' = <<>> THEN "collect" ELSE "ayah"
      /\ found' = NothingFound /\ UNCHANGED <<loaded, indexed, query, response>>
      /\ query' = query
  BY DEF Fuse, Searching, VerifierInv, Sources
<1>2. EvaluatedIn(query, e)
  BY <1>1, Working, EvaluatedFound
<1> HIDE DEF e
<1>3. IsList(pending) /\ \A i \in DOMAIN pending : IsCorpus(pending[i])
  BY DEF VerifierInv, Sources
<1>4. IsList(pending') /\ \A i \in DOMAIN pending' : IsCorpus(pending'[i])
  BY <1>1, <1>3, TailPending, Empty
<1>5. Sources'
  <2>1. FoundIn(query, found, Corpus)'
    BY <1>1, NothingFoundIn
  <2>2. /\ step' # "idle" /\ (Searching' => pending' # <<>>) /\ loaded' \in Corpora
        /\ IsQuery(query')
    BY <1>1 DEF Searching, VerifierInv, Sources
  <2> QED BY <1>4, <2>1, <2>2 DEF Sources
<1>6. Evaluations'
  <2> DEFINE es == Append(evaluations, e)
  <2>1. IsList(evaluations) /\ \A i \in DOMAIN evaluations : EvaluatedIn(query, evaluations[i])
    BY DEF VerifierInv, Evaluations
  <2>2. /\ IsList(es) /\ Len(es) = Len(evaluations) + 1 /\ DOMAIN es = DOMAIN evaluations \cup {Len(evaluations) + 1}
        /\ \A i \in DOMAIN es : es[i] = IF i = Len(evaluations) + 1 THEN e ELSE evaluations[i]
    BY <2>1, AppendList
  <2>3. Len(evaluations) \in Nat
    BY <2>1, ListFacts
  <2> HIDE DEF es
  <2>4. \A i \in DOMAIN es : EvaluatedIn(query', es[i])
    BY <1>1, <1>2, <2>1, <2>2
  <2>5. es # <<>>
    BY <2>2, <2>3, EmptyList
  <2>6. evaluations' = es
    BY <1>1 DEF es
  <2> QED BY <2>2, <2>4, <2>5, <2>6 DEF Evaluations
<1>7. response = None /\ response' = None
  BY <1>1 DEF VerifierInv, Unanswered
<1>8. Unanswered' /\ NothingListedTwice' /\ ExactIsQuoted'
  BY <1>7 DEF Unanswered, NothingListedTwice, ExactIsQuoted, Answered
<1> QED BY <1>5, <1>6, <1>8 DEF VerifierInv

-----------------------------------------------------------------------------
\* the evaluation that is answered is one of those made
LEMMA ChosenEvaluation ==
  ASSUME VerifierInv, step = "collect"
  PROVE  EvaluatedIn(query, Chosen)
<1>1. IsList(evaluations) /\ evaluations # <<>> /\ \A i \in DOMAIN evaluations : EvaluatedIn(query, evaluations[i])
  BY DEF VerifierInv, Evaluations
<1>2. DOMAIN evaluations = 1 .. Len(evaluations) /\ Len(evaluations) \in Nat /\ Len(evaluations) # 0
  BY <1>1, ListFacts, EmptyList
<1>3. ChosenOf(evaluations) \in DOMAIN evaluations
  <2>1. Len(evaluations) = 1 => ChosenOf(evaluations) = 1
    BY DEF ChosenOf
  <2>2. ChosenOf(evaluations) \in {1, 2}
    BY DEF ChosenOf
  <2> QED BY <1>2, <2>1, <2>2
<1> QED BY <1>1, <1>3 DEF Chosen

\* what is answered lists nothing twice, and quotes what it calls exact
LEMMA RespondStep ==
  ASSUME VerifierInv, step = "collect", NEW lists, Respond(lists),
         Shows(lists, Chosen.fusion.preferred.best),
         Chosen.fusion.lane = "passage" /\ Chosen.fusion.preferred.best # None =>
           ApartFrom(lists.strong, Chosen.fusion.preferred.best.row)
  PROVE  VerifierInv'
<1> DEFINE fusion  == Chosen.fusion
           best    == fusion.preferred.best
           shown   == Cited(lists.exact) \cup Cited(lists.strong)
           related == Related(fusion, shown)
<1>1. /\ response' = Response(fusion, lists.exact, lists.strong) /\ step' = "done"
      /\ UNCHANGED <<loaded, indexed, query, pending, found, evaluations>>
  BY DEF Respond
<1>2. Sources' /\ Evaluations' /\ Unanswered'
  <2>1. Sources'
    BY <1>1 DEF VerifierInv, Sources, Searching
  <2>2. Evaluations'
    BY <1>1 DEF VerifierInv, Evaluations
  <2> QED BY <1>1, <2>1, <2>2 DEF Unanswered
<1>3. /\ response'.exact = lists.exact /\ response'.strong = lists.strong
      /\ response'.related = related /\ response'.best = best /\ response'.lane = fusion.lane
  BY <1>1 DEF Response
<1>4. Beside(related, shown \cup CitationOf(best))
  <2>1. IsList(fusion.preferred.alternatives)
    BY ChosenEvaluation DEF EvaluatedIn
  <2> HIDE DEF shown, fusion
  <2> QED BY <2>1, RelatedBeside
<1>5. Beside(lists.exact, CitationOf(best)) /\ Beside(lists.strong, CitationOf(best) \cup Cited(lists.exact))
  BY DEF Shows
<1>6. ASSUME NEW s, NEW t, NEW exclude, Beside(t, exclude), Cited(s) \subseteq exclude
      PROVE  Cited(s) \cap Cited(t) = {}
  BY <1>6 DEF Beside, Cited
<1>7. ASSUME NEW t, NEW exclude, Beside(t, exclude)
      PROVE  Cited(t) \cap exclude = {} /\ IsList(t) /\ Unique(t)
  BY <1>7 DEF Beside, Cited
<1> HIDE DEF related, best, fusion
<1> DEFINE both == lists.exact \o lists.strong
           all  == both \o related
<1>8. Cited(lists.exact) \cap Cited(lists.strong) = {}
  <2>1. Cited(lists.exact) \subseteq CitationOf(best) \cup Cited(lists.exact)
    OBVIOUS
  <2> QED BY <1>5, <1>6, <2>1
<1>9. IsList(both) /\ Unique(both) /\ Cited(both) \subseteq shown
  <2>1. IsList(lists.exact) /\ IsList(lists.strong) /\ Unique(lists.exact) /\ Unique(lists.strong)
    BY <1>5, <1>7
  <2> QED BY <1>8, <2>1, UniqueConcat
<1> HIDE DEF both
<1>10. Cited(both) \cap Cited(related) = {}
  <2>1. Cited(both) \subseteq shown \cup CitationOf(best)
    BY <1>9
  <2> HIDE DEF shown
  <2> QED BY <1>4, <1>6, <2>1
<1>11. IsList(all) /\ Unique(all) /\ Cited(all) \subseteq Cited(both) \cup Cited(related)
  <2>1. IsList(related) /\ Unique(related)
    BY <1>4, <1>7
  <2> QED BY <1>9, <1>10, <2>1, UniqueConcat
<1> HIDE DEF all
<1>12. Cardinality(Cited(all)) = Len(all)
  BY <1>11, CitedBound
<1>13. Cited(all) \cap CitationOf(best) = {}
  <2>1. Cited(lists.exact) \cap CitationOf(best) = {} /\ Cited(lists.strong) \cap CitationOf(best) = {}
        /\ Cited(related) \cap CitationOf(best) = {}
    BY <1>4, <1>5, <1>7
  <2> QED BY <1>9, <1>11, <2>1
<1>14. Lists' = all
  BY <1>3 DEF Lists, all, both
<1>15. response'.best # None /\ response'.lane = "passage" =>
         \A i \in DOMAIN response'.strong :
           Components(response'.strong[i].row) \cap Components(response'.best.row) = {}
  BY <1>3 DEF ApartFrom, fusion, best
<1>16. NothingListedTwice'
  BY <1>3, <1>12, <1>13, <1>14, <1>15 DEF NothingListedTwice
<1>17. ExactIsQuoted'
  <2>1. IsQuery(query) /\ (fusion.preferred.status = Exact => Quotes(query, best.row))
    <3>1. IsQuery(query)
      BY DEF VerifierInv, Sources
    <3> QED BY <3>1, ChosenEvaluation DEF EvaluatedIn, fusion, best
  <2>2. response'.status = fusion.preferred.status /\ response'.best = best /\ query' = query
    BY <1>1, <1>3 DEF Response, fusion
  <2> QED BY <2>1, <2>2 DEF ExactIsQuoted, Quotes
<1> QED BY <1>2, <1>16, <1>17 DEF VerifierInv

\* the answer with an ayah
LEMMA RespondWithAyahStep ==
  ASSUME VerifierInv, RespondWithAyah
  PROVE  VerifierInv'
<1>1. /\ step = "collect" /\ Chosen.fusion.lane = "ayah"
      /\ Respond(AyahCollections(query, Chosen))
  BY DEF RespondWithAyah
<1>2. EvaluatedIn(query, Chosen)
  BY <1>1, ChosenEvaluation
<1> DEFINE lists == AyahCollections(query, Chosen)
<1>3. Shows(lists, Chosen.fusion.preferred.best)
  <2>1. IsCorpus(Chosen.corpus) /\ IsList(AyatBeside(Chosen))
    BY <1>2 DEF EvaluatedIn, Matched
  <2> QED BY <2>1, AyahListsShown
<1> HIDE DEF lists
<1>4. Chosen.fusion.lane # "passage"
  BY <1>1
<1> QED BY <1>1, <1>3, <1>4, RespondStep DEF lists

\* the answer with a passage
LEMMA RespondWithPassageStep ==
  ASSUME VerifierInv, RespondWithPassage
  PROVE  VerifierInv'
<1> DEFINE lists == PassageCollections(query, Chosen, indexed)
           best  == Chosen.fusion.preferred.best
<1>1. step = "collect" /\ Chosen.fusion.lane = "passage" /\ Respond(lists)
  BY DEF RespondWithPassage
<1>2. EvaluatedIn(query, Chosen)
  BY <1>1, ChosenEvaluation
<1>3. /\ Shows(lists, best)
      /\ best # None => ApartFrom(lists.strong, best.row)
  <2>1. /\ IsCorpus(Chosen.corpus) /\ Matched(query, Chosen.corpus, "passage", Chosen.passages)
        /\ Matched(query, Chosen.corpus, "ayah", AyatBeside(Chosen))
        /\ best # None => Sound(Chosen.corpus, "passage", best.row)
    BY <1>1, <1>2 DEF EvaluatedIn
  <2>2. /\ Placed(Chosen.corpus, "passage", Chosen.passages)
        /\ Placed(Chosen.corpus, "ayah", AyatBeside(Chosen))
    BY <2>1, MatchedPlaced
  <2> QED BY <2>1, <2>2, PassageListsShown
<1> HIDE DEF lists
<1> QED BY <1>1, <1>3, RespondStep

\* the answer without a match
LEMMA RespondWithNothingStep ==
  ASSUME VerifierInv, RespondWithNothing
  PROVE  VerifierInv'
<1> DEFINE lists == [exact |-> <<>>, strong |-> <<>>]
<1>1. step = "collect" /\ Chosen.fusion.lane \notin {"ayah", "passage"} /\ Respond(lists)
  BY DEF RespondWithNothing
<1>2. Shows(lists, Chosen.fusion.preferred.best)
  BY EmptyBeside DEF Shows
<1> HIDE DEF lists
<1>3. Chosen.fusion.lane # "passage"
  BY <1>1
<1> QED BY <1>1, <1>2, <1>3, RespondStep

\* every step keeps the invariant
LEMMA NextVerifier == VerifierInv /\ [Next]_vars => VerifierInv'
<1> SUFFICES ASSUME VerifierInv, [Next]_vars PROVE VerifierInv'
  OBVIOUS
<1>1. CASE UNCHANGED vars
  <2>1. UNCHANGED <<loaded, indexed, query, pending, step, found, evaluations, response>>
    BY <1>1 DEF vars
  <2>2. Sources'
    BY <2>1 DEF VerifierInv, Sources, Searching, Corpus
  <2>3. Evaluations' /\ Unanswered'
    BY <2>1 DEF VerifierInv, Evaluations, Unanswered
  <2>4. NothingListedTwice' /\ ExactIsQuoted'
    BY <2>1 DEF VerifierInv, NothingListedTwice, ExactIsQuoted, Answered, Lists
  <2> QED BY <2>2, <2>3, <2>4 DEF VerifierInv
<1>2. CASE step = "idle" /\ \E q \in Asked(loaded) : Receive(q)
  BY <1>2, ReceiveStep
<1> QED BY <1>1, <1>2, TakeOnlyAyahStep, TryFastPathStep, ShortlistAyahsStep, FindRelatedAyahsStep,
        SearchGiantPartialStep, ShortlistWindowsStep, SearchExactSpansStep, SearchMediumStep,
        SearchLongStep, SearchLikelyStep, FuseStep, RespondWithAyahStep, RespondWithPassageStep,
        RespondWithNothingStep DEF Next

(* No citation is shown twice in an answer of the verifier: the best match,   *)
(* the exact matches, the strong matches and the related texts are different  *)
(* ones, and a passage listed as strong shares no ayah with the best match,   *)
(* whatever the corpora, the query and the sizes of the searches.             *)
THEOREM VerifierListsNothingTwice == Spec => []NothingListedTwice
<1>1. Init => VerifierInv
  BY InitVerifier
<1>2. VerifierInv /\ [Next]_vars => VerifierInv'
  BY NextVerifier
<1>3. VerifierInv => NothingListedTwice
  BY DEF VerifierInv
<1> QED BY <1>1, <1>2, <1>3, PTL DEF Spec

(* What an answer calls an exact match stands in the ayat that it cites:      *)
(* character for character in one of the two normalisations, with at most the *)
(* first and the last word cut, and below twenty words each of its words is   *)
(* a word of these ayat, whichever lane, engine and corpus the match came     *)
(* from, whatever the corpora, the query and the sizes of the searches.       *)
THEOREM ExactTextsAreQuoted == Spec => []ExactIsQuoted
<1>1. Init => VerifierInv
  BY InitVerifier
<1>2. VerifierInv /\ [Next]_vars => VerifierInv'
  BY NextVerifier
<1>3. VerifierInv => ExactIsQuoted
  BY DEF VerifierInv
<1> QED BY <1>1, <1>2, <1>3, PTL DEF Spec
=============================================================================
