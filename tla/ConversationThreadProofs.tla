---------------------- MODULE ConversationThreadProofs ----------------------
(***************************************************************************)
(* The properties of a conversation, proved for every Quran, every set of  *)
(* sources and hadith, and every set of requests.  The argument:           *)
(*   - verses of a span stay in it, and reading windows exist and leave    *)
(*     nothing out (OrdinalInSpan, ReadingForward);                        *)
(*   - a phrase matches an ordinal, a source or other patterns, never two  *)
(*     of these (PhraseShape);                                             *)
(*   - so the classifier's route and the resolver's capability have one of *)
(*     a few shapes (ClassifyShape, ResolveShape), and so does their merge *)
(*     (MergeShape);                                                       *)
(*   - the evidence is that of the merged route or nothing (EvidenceShape), *)
(*     and answering from it preserves the invariant (RespondStep).        *)
(***************************************************************************)
EXTENDS ConversationThread, TLAPS


LEMMA RefFields ==
  ASSUME NEW r \in Ref
  PROVE  /\ r.surah \in Surah
         /\ r.first \in Nat \ {0} /\ r.last \in Nat \ {0}
         /\ r.first <= r.last
         /\ r # NoRef
BY NoRefAssumption DEF Ref

LEMMA SpanIsRef ==
  ASSUME NEW s \in Surah, NEW a \in Nat \ {0}, NEW b \in Nat \ {0}, a <= b
  PROVE  [surah |-> s, first |-> a, last |-> b] \in Ref
BY DEF Ref

LEMMA VerseIsRef ==
  ASSUME NEW s \in Surah, NEW a \in Nat \ {0}
  PROVE  Verse(s, a) \in Ref
BY SpanIsRef DEF Verse

LEMMA ContainsItself ==
  ASSUME NEW r \in Ref
  PROVE  Contains(r, r)
BY RefFields DEF Contains

LEMMA ContainsTransitive ==
  ASSUME NEW p \in Ref, NEW r \in Ref, NEW v \in Ref, Contains(p, r), Contains(r, v)
  PROVE  Contains(p, v)
BY RefFields DEF Contains

-----------------------------------------------------------------------------
(* quran_followup.py: a numbered verse is one of the span or is refused.    *)
THEOREM OrdinalInSpan ==
  ASSUME NEW span \in Ref \cup {NoRef}, NEW o \in Ordinal, OrdinalRef(span, o) # NoRef
  PROVE  OrdinalRef(span, o) \in Ref /\ Contains(span, OrdinalRef(span, o))
<1>1. span \in Ref
  BY DEF OrdinalRef
<1>2. PICK a \in Nat : /\ span.first <= a /\ a <= span.last
                       /\ OrdinalRef(span, o) = Verse(span.surah, a)
  <2>1. CASE o = "last"
    BY <1>1, <2>1, RefFields DEF OrdinalRef
  <2>2. CASE o # "last"
    <3>1. OrdinalNumber(o) \in 1 .. 4
      BY DEF OrdinalNumber
    <3>2. OrdinalNumber(o) <= span.last - span.first + 1
      BY <2>2 DEF OrdinalRef, SpanLength
    <3>3. OrdinalRef(span, o) = Verse(span.surah, span.first + OrdinalNumber(o) - 1)
      BY <2>2 DEF OrdinalRef
    <3> HIDE DEF OrdinalNumber
    <3> DEFINE a == span.first + OrdinalNumber(o) - 1
    <3>4. a \in Nat /\ span.first <= a /\ a <= span.last
      BY <1>1, <3>1, <3>2, RefFields
    <3> QED
      BY <3>3, <3>4
  <2> QED
    BY <2>1, <2>2
<1>3. a \in Nat \ {0}
  BY <1>1, <1>2, RefFields
<1>4. Verse(span.surah, a) \in Ref
  BY <1>1, <1>3, RefFields, VerseIsRef
<1>5. Contains(span, Verse(span.surah, a))
  BY <1>1, <1>2, <1>4, RefFields DEF Contains, Verse
<1> QED
  BY <1>2, <1>4, <1>5

LEMMA AdjacentAreRefs ==
  ASSUME NEW r \in Ref
  PROVE  PreviousVerse(r) \in Ref /\ NextVerse(r) \in Ref
<1>1. Greater(1, r.first - 1) \in Nat \ {0} /\ r.last + 1 \in Nat \ {0}
  BY RefFields DEF Greater
<1> QED
  BY <1>1, RefFields, VerseIsRef DEF PreviousVerse, NextVerse

(* Each pair of AvailableOrdinals is an ordinal with the verse it names.    *)
LEMMA AvailableAreNamed ==
  ASSUME NEW span \in Ref \cup {NoRef}, NEW p \in AvailableOrdinals(span)
  PROVE  /\ p[1] \in Ordinal
         /\ p[2] = OrdinalRef(span, p[1])
         /\ p[2] # NoRef
<1>1. span \in Ref
  BY DEF AvailableOrdinals
<1>2. OrdinalRef(span, "last") = Verse(span.surah, span.last)
  BY <1>1, RefFields DEF OrdinalRef
<1>3. Verse(span.surah, span.last) # NoRef
  BY <1>1, RefFields, VerseIsRef
<1>4. CASE \E o \in Label : OrdinalRef(span, o) # NoRef /\ p = <<o, OrdinalRef(span, o)>>
  BY <1>4 DEF Ordinal
<1>5. CASE p = <<"last", OrdinalRef(span, "last")>>
  BY <1>2, <1>3, <1>5 DEF Ordinal
<1> QED
  BY <1>4, <1>5 DEF AvailableOrdinals

-----------------------------------------------------------------------------
LEMMA OpeningExists ==
  ASSUME NEW s \in Surah
  PROVE  Opening(s) \in Ref /\ Exists(Opening(s)) /\ Opening(s).first = 1
<1>1. AyahCount[s] \in Nat \ {0}
  BY QuranAssumption
<1>2. Smaller(5, AyahCount[s]) \in Nat \ {0} /\ Smaller(5, AyahCount[s]) <= AyahCount[s]
  BY <1>1 DEF Smaller
<1>3. Opening(s) = [surah |-> s, first |-> 1, last |-> Smaller(5, AyahCount[s])]
  BY DEF Opening
<1>4. Opening(s) \in Ref
  BY <1>2, <1>3, SpanIsRef
<1> QED
  BY <1>2, <1>3, <1>4 DEF Exists

(* classifier.py: reading on from ayahs that exist gives ayahs that exist,  *)
(* the very next ones, and stops with the last ayah of the last surah only. *)
THEOREM ReadingForward ==
  ASSUME NEW r \in Ref, Exists(r)
  PROVE  LET w == ForwardWindow(r)
         IN  \/ /\ w \in Ref /\ Exists(w)
                /\ \/ w.surah = r.surah /\ w.first = r.last + 1
                   \/ w.surah = r.surah + 1 /\ w.first = 1 /\ r.last = AyahCount[r.surah]
             \/ w = NoRef /\ r.surah = SurahCount /\ r.last = AyahCount[SurahCount]
<1>1. /\ r.surah \in Surah /\ AyahCount[r.surah] \in Nat \ {0} /\ SurahCount \in Nat \ {0}
      /\ r.last \in Nat \ {0} /\ r.last <= AyahCount[r.surah]
  BY RefFields, QuranAssumption DEF Exists
<1>2. CASE r.last < AyahCount[r.surah]
  <2> DEFINE w == [surah |-> r.surah, first |-> r.last + 1,
                   last |-> Smaller(r.last + 5, AyahCount[r.surah])]
  <2>1. ForwardWindow(r) = w
    BY <1>2 DEF ForwardWindow
  <2>2. /\ Smaller(r.last + 5, AyahCount[r.surah]) \in Nat \ {0}
        /\ r.last + 1 <= Smaller(r.last + 5, AyahCount[r.surah])
        /\ Smaller(r.last + 5, AyahCount[r.surah]) <= AyahCount[r.surah]
    BY <1>1, <1>2 DEF Smaller
  <2>3. w \in Ref
    BY <1>1, <2>2, SpanIsRef
  <2>4. Exists(w)
    BY <2>2 DEF Exists
  <2> QED
    BY <2>1, <2>3, <2>4
<1>3. CASE r.last = AyahCount[r.surah] /\ r.surah < SurahCount
  <2>1. r.surah + 1 \in Surah
    BY <1>1, <1>3 DEF Surah
  <2>2. ForwardWindow(r) = Opening(r.surah + 1)
    BY <1>1, <1>3 DEF ForwardWindow
  <2>3. Opening(r.surah + 1).surah = r.surah + 1
    BY DEF Opening
  <2> QED
    BY <1>3, <2>1, <2>2, <2>3, OpeningExists
<1>4. CASE r.last = AyahCount[r.surah] /\ ~ r.surah < SurahCount
  <2>1. r.surah = SurahCount
    BY <1>1, <1>4 DEF Surah
  <2> QED
    BY <1>1, <1>4, <2>1 DEF ForwardWindow
<1> QED
  BY <1>1, <1>2, <1>3, <1>4

LEMMA BackwardExists ==
  ASSUME NEW r \in Ref, Exists(r)
  PROVE  BackwardWindow(r) \in Ref /\ Exists(BackwardWindow(r))
<1>1. /\ r.surah \in Surah /\ AyahCount[r.surah] \in Nat \ {0}
      /\ r.first \in Nat \ {0} /\ r.first <= r.last
      /\ r.last \in Nat \ {0} /\ r.last <= AyahCount[r.surah]
  BY RefFields, QuranAssumption DEF Exists
<1>2. CASE r.first = 1
  BY <1>1, <1>2, OpeningExists DEF BackwardWindow
<1>3. CASE r.first # 1
  <2> DEFINE w == [surah |-> r.surah, first |-> Greater(1, r.first - 5), last |-> r.first - 1]
  <2>1. BackwardWindow(r) = w
    BY <1>3 DEF BackwardWindow
  <2>2. /\ Greater(1, r.first - 5) \in Nat \ {0} /\ r.first - 1 \in Nat \ {0}
        /\ Greater(1, r.first - 5) <= r.first - 1
        /\ r.first - 1 <= AyahCount[r.surah]
    BY <1>1, <1>3 DEF Greater
  <2>3. w \in Ref
    BY <1>1, <2>2, SpanIsRef
  <2>4. Exists(w)
    BY <2>2 DEF Exists
  <2> QED
    BY <2>1, <2>3, <2>4
<1> QED
  BY <1>2, <1>3

-----------------------------------------------------------------------------

(* What is true of the stored scope, of the empty one and, but for          *)
(* existence, of one that a request supplies.                               *)
SoundScope(s) ==
  /\ s \in Scope
  /\ s.ref # NoRef => Contains(s.span, s.ref)
  /\ s.continuation # NoReading =>
       s.continuation.from # NoRef /\ Exists(s.continuation.from)

ScopeExists(s) == \A r \in {s.ref, s.span, s.continuation.from} \ {NoRef} : Exists(r)

ThreadInv ==
  /\ SoundScope(thread)
  /\ ScopeExists(thread)
  /\ thread = EmptyScope \/ SupportsFollowups(thread)
  /\ shown \subseteq thread.comparative

TurnInv ==
  /\ turn.ordinal \in Ordinal \cup {NoOrdinal}
  /\ turn.rejected \in BOOLEAN /\ turn.raised \in BOOLEAN
  /\ turn.target \in Ref \cup Hadith \cup {NoRef}
  /\ turn.basis \in Ref \cup {NoRef}
  /\ turn.answer \in Ref \cup {NoRef}
  /\ turn.hadith \in Hadith \cup {NoHadith}
  /\ RejectedStaysInThread
  /\ OrdinalStaysInSpan
  /\ ReadingGoesOn

-----------------------------------------------------------------------------
LEMMA ScopeFields ==
  ASSUME NEW s \in Scope
  PROVE  /\ s.ref \in Ref \cup {NoRef} /\ s.span \in Ref \cup {NoRef}
         /\ s.displayed \subseteq Source /\ s.comparative \subseteq Source
         /\ s.hadith \in Hadith \cup {NoHadith}
         /\ s.continuation \in [from : Ref \cup {NoRef}, tafsir : BOOLEAN]
         /\ s.continuation.from \in Ref \cup {NoRef}
         /\ EffectiveSources(s) \subseteq Source
BY DEF Scope, EffectiveSources

LEMMA AnchorIsSound ==
  ASSUME NEW r \in Ref \cup {NoRef}
  PROVE  SoundScope(AnchorScope(r)) /\ AnchorScope(r).continuation = NoReading
<1>1. r # NoRef => Contains(r, r)
  BY ContainsItself
<1> QED
  BY <1>1 DEF SoundScope, AnchorScope, Scope, NoReading

LEMMA EmptyIsSound == SoundScope(EmptyScope) /\ ScopeExists(EmptyScope)
BY AnchorIsSound DEF EmptyScope, AnchorScope, ScopeExists, NoReading

LEMMA FocusIsRef ==
  ASSUME NEW s, SoundScope(s), HasQuranScope(s)
  PROVE  Focus(s) \in Ref /\ s.span \in Ref
<1>1. s.ref # NoRef => s.span # NoRef
  BY DEF SoundScope, Contains
<1> QED
  BY <1>1, ScopeFields DEF HasQuranScope, Focus, SoundScope

(* The patterns of the resolver besides ordinals and sources.               *)
ResolverPattern ==
  {"topic", "next verse", "previous verse", "simplify", "summarize", "lesson", "repeat"}

LEMMA PhraseShape ==
  ASSUME NEW q \in Phrase
  PROVE  /\ q.ordinal \in Ordinal \cup {NoOrdinal}
         /\ q.source \in Source \cup {NoSource}
         /\ q.ordinal # NoOrdinal => q.source = NoSource /\ q.matches = {}
         /\ "topic" \in q.matches => q.source = NoSource /\ q.matches = {"topic"}
<1>1. CASE \E o \in Ordinal : q = VerseNumber(o)
  BY <1>1 DEF VerseNumber, Saying
<1>2. CASE \E x \in Source : q = WhatDoesSay(x)
  BY <1>2 DEF WhatDoesSay, Saying
<1>3. CASE \E x \in Source : q = SummarizeHadithIn(x)
  <2>1. PICK x \in Source : q = SummarizeHadithIn(x)
    BY <1>3
  <2>2. /\ q.ordinal = NoOrdinal /\ q.source = x
        /\ q.matches = {"hadith follow-up", "generic", "summarize"}
    BY <2>1 DEF SummarizeHadithIn, SummarizeHadith, Saying
  <2> QED
    BY <2>2
<1>4. CASE q \in {NextVersePhrase, PreviousVersePhrase, BareNextVerse, BarePreviousVerse,
                  MoreSimply, ExactWording, SummarizeHadith, HadithLesson,
                  WhatDoesThisMean, Continue, GoBack, HadithAbout}
  <2>1. PICK m : q = Saying(m) /\ m \in {{"next verse"}, {"previous verse"},
          {"next verse", "continue"}, {"previous verse", "go back"}, {"simplify"},
          {"repeat"}, {"hadith follow-up", "generic", "summarize"},
          {"hadith follow-up", "generic", "lesson"}, {"generic"}, {"continue"},
          {"go back"}, {"topic"}}
    BY <1>4 DEF NextVersePhrase, PreviousVersePhrase, BareNextVerse, BarePreviousVerse,
                MoreSimply, ExactWording, SummarizeHadith, HadithLesson,
                WhatDoesThisMean, Continue, GoBack, HadithAbout
  <2>2. q.ordinal = NoOrdinal /\ q.source = NoSource /\ q.matches = m
    BY <2>1 DEF Saying
  <2>3. /\ "topic" \notin {"next verse", "continue"}
        /\ "topic" \notin {"previous verse", "go back"}
        /\ "topic" \notin {"hadith follow-up", "generic", "summarize"}
        /\ "topic" \notin {"hadith follow-up", "generic", "lesson"}
    OBVIOUS
  <2>4. \A w : "topic" \in {w} => {w} = {"topic"}
    OBVIOUS
  <2>5. "topic" \in m => m = {"topic"}
    BY <2>1, <2>3, <2>4, Zenon
  <2> QED
    BY <2>2, <2>5
<1> QED
  BY <1>1, <1>2, <1>3, <1>4 DEF Phrase

-----------------------------------------------------------------------------
QuranType == {"followup quran", "followup tafsir"}

LEMMA FixedRoutes ==
  /\ \A r \in {Restricted, Unsupported, Raises, Topical} :
       r.continues = "no" /\ r.type \notin QuranType /\ r.type # "followup hadith"
  /\ \A r \in {Restricted, Unsupported, Raises} : r.type # "topical"
  /\ Topical.type = "topical" /\ Restricted.type = "restricted"
  /\ Topical.action = "explain"
BY DEF Restricted, Unsupported, Raises, Topical, Route, QuranType

(* Reading on names the window next to the last ayahs shown.                *)
LEMMA ContinuationShape ==
  ASSUME NEW s, SoundScope(s), NEW d \in {"forward", "backward"}
  PROVE  LET c == ContinuationRoute(s, d)
         IN  /\ c.type \in QuranType /\ c.action = "explain" /\ c.continues = d
             /\ c.sources \subseteq Source
             /\ c.target = IF d = "forward" THEN ForwardWindow(s.continuation.from)
                           ELSE BackwardWindow(s.continuation.from)
<1> DEFINE to == IF d = "forward" THEN ForwardWindow(s.continuation.from)
                 ELSE BackwardWindow(s.continuation.from)
           sources == IF s.displayed # {} THEN s.displayed ELSE s.comparative
           c == ContinuationRoute(s, d)
<1>1. sources \subseteq Source
  BY ScopeFields DEF SoundScope
<1>2. CASE s.continuation.tafsir
  <2>1. c = [TafsirRoute(to, sources) EXCEPT !.continues = d]
    BY <1>2 DEF ContinuationRoute
  <2>2. /\ c.type = "followup tafsir" /\ c.action = "explain" /\ c.continues = d
        /\ c.sources = sources /\ c.target = to
    BY <2>1 DEF TafsirRoute, Route
  <2> QED
    BY <1>1, <2>2 DEF QuranType
<1>3. CASE ~ s.continuation.tafsir
  <2>1. c = [QuranRoute(to) EXCEPT !.continues = d]
    BY <1>3 DEF ContinuationRoute
  <2>2. /\ c.type = "followup quran" /\ c.action = "explain" /\ c.continues = d
        /\ c.sources = {} /\ c.target = to
    BY <2>1 DEF QuranRoute, Route
  <2> QED
    BY <2>2 DEF QuranType
<1> QED
  BY <1>2, <1>3

(* The route of the classifier for q in scope s has one of these shapes.    *)
ReadsOn(q, s, c, d) ==
  /\ c.type \in QuranType /\ c.action = "explain" /\ c.continues = d
  /\ c.sources \subseteq Source
  /\ c.target = IF d = "forward" THEN ForwardWindow(s.continuation.from)
                ELSE BackwardWindow(s.continuation.from)
  /\ s.continuation # NoReading /\ q.ordinal = NoOrdinal

AsksVerse(q, s, c) ==
  /\ c.type \in QuranType /\ c.continues = "no"
  /\ c.sources \subseteq Source
  /\ c.target \in Ref
  /\ q.ordinal # NoOrdinal => Contains(s.span, c.target)

LEMMA AnchorTargetShape ==
  ASSUME NEW q \in Phrase, NEW r \in Ref, AnchorTarget(q, r) # NoRef
  PROVE  /\ AnchorTarget(q, r) \in Ref
         /\ q.ordinal # NoOrdinal => Contains(r, AnchorTarget(q, r))
<1>1. CASE q.ordinal # NoOrdinal
  <2>1. q.ordinal \in Ordinal /\ AnchorTarget(q, r) = OrdinalRef(r, q.ordinal)
    BY <1>1, PhraseShape DEF AnchorTarget
  <2> QED
    BY <2>1, OrdinalInSpan
<1>2. CASE q.ordinal = NoOrdinal
  BY <1>2, AdjacentAreRefs DEF AnchorTarget
<1> QED
  BY <1>1, <1>2

LEMMA ClassifyShape ==
  ASSUME NEW q \in Phrase, NEW s, SoundScope(s)
  PROVE  LET c == Classify(q, s)
         IN  \/ \E d \in {"forward", "backward"} : ReadsOn(q, s, c, d)
             \/ /\ c.type = "followup hadith" /\ c.continues = "no"
                /\ c.hadith = s.hadith /\ s.hadith \in Hadith
             \/ AsksVerse(q, s, c)
             \/ c = Topical /\ "topic" \in q.matches
             \/ c = Restricted
<1> DEFINE reading == s.continuation # NoReading /\ SupportsFollowups(s)
           forward == reading /\ "continue" \in q.matches
           backward == reading /\ "go back" \in q.matches
           ofHadith == s.hadith # NoHadith /\ "hadith follow-up" \in q.matches
           ofSource == s.ref # NoRef /\ q.source # NoSource
           ofVerse == s.ref # NoRef /\ AnchorTarget(q, s.ref) # NoRef
           ofSpan == s.ref # NoRef /\ q.matches \cap {"simplify", "repeat", "generic"} # {}
           rest == IF ofVerse THEN QuranRoute(AnchorTarget(q, s.ref))
                   ELSE IF ofSpan
                   THEN IF HasTafsirScope(s) THEN TafsirRoute(s.ref, {}) ELSE QuranRoute(s.ref)
                   ELSE IF "topic" \in q.matches THEN Topical ELSE Restricted
<1>1. Classify(q, s) =
        IF forward THEN ContinuationRoute(s, "forward")
        ELSE IF backward THEN ContinuationRoute(s, "backward")
        ELSE IF ofHadith THEN HadithRoute("explain", s.hadith)
        ELSE IF ofSource THEN TafsirRoute(s.ref, {q.source})
        ELSE rest
  BY DEF Classify
<1>2. /\ s.ref \in Ref \cup {NoRef} /\ s.hadith \in Hadith \cup {NoHadith}
      /\ s.ref # NoRef => Contains(s.span, s.ref) /\ s.span \in Ref
  BY ScopeFields DEF SoundScope, Contains
<1>3. q.ordinal # NoOrdinal => q.matches = {} /\ q.source = NoSource
  BY PhraseShape
<1>10. ASSUME NEW v \in Ref, NEW xs \in SUBSET Source,
             q.ordinal # NoOrdinal => Contains(s.span, v)
      PROVE  AsksVerse(q, s, QuranRoute(v)) /\ AsksVerse(q, s, TafsirRoute(v, xs))
  <2>1. AsksVerse(q, s, QuranRoute(v))
    BY <1>10 DEF AsksVerse, QuranType, QuranRoute, Route
  <2>2. AsksVerse(q, s, TafsirRoute(v, xs))
    BY <1>10 DEF AsksVerse, QuranType, TafsirRoute, Route
  <2> QED
    BY <2>1, <2>2
<1>4. CASE forward
  <2>1. Classify(q, s) = ContinuationRoute(s, "forward")
    BY <1>1, <1>4
  <2>2. q.ordinal = NoOrdinal
    BY <1>3, <1>4
  <2> QED
    BY <1>4, <2>1, <2>2, ContinuationShape DEF ReadsOn
<1>5. CASE ~ forward /\ backward
  <2>1. Classify(q, s) = ContinuationRoute(s, "backward")
    BY <1>1, <1>5
  <2>2. q.ordinal = NoOrdinal
    BY <1>3, <1>5
  <2> QED
    BY <1>5, <2>1, <2>2, ContinuationShape DEF ReadsOn
<1>6. CASE ~ forward /\ ~ backward /\ ofHadith
  <2>1. Classify(q, s) = HadithRoute("explain", s.hadith)
    BY <1>1, <1>6
  <2>2. s.hadith \in Hadith
    BY <1>2, <1>6
  <2>3. /\ Classify(q, s).type = "followup hadith" /\ Classify(q, s).continues = "no"
        /\ Classify(q, s).hadith = s.hadith
    BY <2>1 DEF HadithRoute, Route
  <2> QED
    BY <1>6, <2>2, <2>3
<1>7. CASE ~ forward /\ ~ backward /\ ~ ofHadith /\ ofSource
  <2>1. Classify(q, s) = TafsirRoute(s.ref, {q.source})
    BY <1>1, <1>7
  <2>2. q.ordinal = NoOrdinal /\ {q.source} \subseteq Source
    BY <1>3, <1>7, PhraseShape
  <2>3. s.ref \in Ref
    BY <1>2, <1>7
  <2>4. AsksVerse(q, s, Classify(q, s))
    BY <1>10, <2>1, <2>2, <2>3
  <2> QED
    BY <2>4
<1>8. CASE ~ forward /\ ~ backward /\ ~ ofHadith /\ ~ ofSource
  <2>1. Classify(q, s) = rest
    BY <1>1, <1>8
  <2>2. CASE ofVerse
    <3>1. /\ AnchorTarget(q, s.ref) \in Ref
          /\ q.ordinal # NoOrdinal => Contains(s.ref, AnchorTarget(q, s.ref))
      BY <1>2, <2>2, AnchorTargetShape
    <3>2. q.ordinal # NoOrdinal => Contains(s.span, AnchorTarget(q, s.ref))
      BY <1>2, <2>2, <3>1, ContainsTransitive
    <3>3. Classify(q, s) = QuranRoute(AnchorTarget(q, s.ref))
      BY <2>1, <2>2
    <3>4. AsksVerse(q, s, Classify(q, s))
      BY <1>10, <3>1, <3>2, <3>3
    <3> QED
      BY <3>4
  <2>3. CASE ~ ofVerse /\ ofSpan
    <3>1. Classify(q, s) \in {TafsirRoute(s.ref, {}), QuranRoute(s.ref)}
      BY <2>1, <2>3
    <3>2. q.ordinal = NoOrdinal
      BY <1>3, <2>3
    <3>3. s.ref \in Ref
      BY <1>2, <2>3
    <3>4. AsksVerse(q, s, Classify(q, s))
      BY <1>10, <3>1, <3>2, <3>3
    <3> QED
      BY <3>4
  <2>4. CASE ~ ofVerse /\ ~ ofSpan
    BY <2>1, <2>4
  <2> QED
    BY <2>2, <2>3, <2>4
<1> QED
  BY <1>4, <1>5, <1>6, <1>7, <1>8

-----------------------------------------------------------------------------
(* What a capability of scope s, or a follow-up resolved to it, is like.    *)
Fits(s, c) ==
  \/ /\ c.action = "focus source" /\ HasQuranScope(s)
     /\ c.source \in Source /\ c.target \in Ref \cup {NoRef}
  \/ /\ c.action = "select verse" /\ HasQuranScope(s)
     /\ c.target \in Ref /\ Contains(s.span, c.target)
  \/ /\ c.action \in {"previous verse", "next verse", "simplify", "repeat"}
     /\ HasQuranScope(s) /\ c.target \in Ref
  \/ /\ c.action \in {"summarize", "lesson", "repeat"}
     /\ c.target = s.hadith /\ s.hadith \in Hadith

LEMMA CapabilityShape ==
  ASSUME NEW s, SoundScope(s), NEW c \in Capabilities(s)
  PROVE  Fits(s, c)
<1>1. CASE HasQuranScope(s) /\ c \in QuranCapabilities(s)
  <2>1. s.ref \in Ref \cup {NoRef} /\ EffectiveSources(s) \subseteq Source
    BY ScopeFields DEF SoundScope
  <2>2. CASE \E x \in EffectiveSources(s) :
               c = Capability("focus source", NoOrdinal, x, s.ref)
    <3>1. PICK x \in EffectiveSources(s) :
            c = Capability("focus source", NoOrdinal, x, s.ref)
      BY <2>2
    <3>2. c.action = "focus source" /\ c.source = x /\ c.target = s.ref
      BY <3>1 DEF Capability
    <3> QED
      BY <1>1, <2>1, <3>2 DEF Fits
  <2>3. CASE \E p \in AvailableOrdinals(s.span) :
               c = Capability("select verse", p[1], NoSource, p[2])
    <3>1. PICK p \in AvailableOrdinals(s.span) :
            c = Capability("select verse", p[1], NoSource, p[2])
      BY <2>3
    <3>2. s.span \in Ref \cup {NoRef}
      BY ScopeFields DEF SoundScope
    <3>3. p[2] \in Ref /\ Contains(s.span, p[2])
      BY <3>2, AvailableAreNamed, OrdinalInSpan
    <3> QED
      BY <1>1, <3>1, <3>3 DEF Capability, Fits
  <2>4. CASE c \in {Can("previous verse", PreviousVerse(Focus(s))),
                    Can("next verse", NextVerse(Focus(s))),
                    Can("simplify", Focus(s)), Can("repeat", Focus(s))}
    <3>1. /\ Focus(s) \in Ref
          /\ PreviousVerse(Focus(s)) \in Ref /\ NextVerse(Focus(s)) \in Ref
      BY <1>1, FocusIsRef, AdjacentAreRefs
    <3>2. PICK a \in {"previous verse", "next verse", "simplify", "repeat"}, v \in Ref :
            c = Can(a, v)
      BY <2>4, <3>1
    <3>3. c.action = a /\ c.target = v
      BY <3>2 DEF Can, Capability
    <3> QED
      BY <1>1, <3>2, <3>3 DEF Fits
  <2> QED
    BY <1>1, <2>2, <2>3, <2>4 DEF QuranCapabilities
<1>2. CASE s.hadith # NoHadith /\ c \in HadithCapabilities(s)
  <2>1. s.hadith \in Hadith
    BY <1>2, ScopeFields DEF SoundScope
  <2>2. c.action \in {"summarize", "lesson", "repeat"} /\ c.target = s.hadith
    BY <1>2 DEF HadithCapabilities, Can, Capability
  <2> QED
    BY <2>1, <2>2 DEF Fits
<1> QED
  BY <1>1, <1>2 DEF Capabilities

(* What the resolver says of q in scope s.  A topic is rejected as a        *)
(* boundary only.                                                           *)
Resolved(q, s, r) ==
  \/ r = Unmatched
  \/ r \in {Rejected, Boundary} /\ ("topic" \in q.matches => r = Boundary)
  \/ /\ r.status = "matched" /\ Fits(s, r)
     /\ q.ordinal # NoOrdinal => r.action = "select verse"

LEMMA MatchedFits ==
  ASSUME NEW s, NEW c, Fits(s, c)
  PROVE  /\ Matched(c).status = "matched" /\ Matched(c).action = c.action
         /\ Fits(s, Matched(c))
BY DEF Matched, Fits

LEMMA FirstCapabilityShape ==
  ASSUME NEW s, SoundScope(s), NEW action \in ResolverPattern
  PROVE  LET r == FirstCapability(s, action)
         IN  \/ r = Rejected /\ \A c \in Capabilities(s) : c.action # action
             \/ r.status = "matched" /\ Fits(s, r) /\ r.action = action
<1> DEFINE found == {c \in Capabilities(s) : c.action = action}
           ofHadith == {c \in found : c.target \in Hadith}
           first == CHOOSE c \in found : ofHadith = {} \/ c \in ofHadith
<1>1. CASE found = {}
  BY <1>1 DEF FirstCapability
<1>2. CASE found # {}
  <2>1. \E c \in found : ofHadith = {} \/ c \in ofHadith
    BY <1>2
  <2>2. first \in found
    BY <2>1
  <2>3. Fits(s, first) /\ first.action = action
    BY <2>2, CapabilityShape
  <2>4. FirstCapability(s, action) = Matched(first)
    BY <1>2 DEF FirstCapability
  <2> HIDE DEF first
  <2> QED
    BY <2>3, <2>4, MatchedFits
<1> QED
  BY <1>1, <1>2

LEMMA ResolveSourceShape ==
  ASSUME NEW s, SoundScope(s), NEW x \in Source
  PROVE  LET r == ResolveSource(x, s)
         IN  \/ r = Rejected
             \/ r.status = "matched" /\ Fits(s, r)
<1> DEFINE found == {c \in Capabilities(s) : c.action = "focus source" /\ c.source = x}
           first == CHOOSE c \in found : TRUE
           again == Capability("focus source", NoOrdinal, x, s.ref)
<1>1. CASE found # {}
  <2>1. first \in found
    BY <1>1
  <2>2. Fits(s, first)
    BY <2>1, CapabilityShape
  <2>3. ResolveSource(x, s) = Matched(first)
    BY <1>1 DEF ResolveSource
  <2> HIDE DEF first
  <2> QED
    BY <2>2, <2>3, MatchedFits
<1>2. CASE found = {} /\ HasQuranScope(s) /\ x \in EffectiveSources(s)
  <2>1. s.ref \in Ref \cup {NoRef}
    BY ScopeFields DEF SoundScope
  <2>2. again.action = "focus source" /\ again.source = x /\ again.target = s.ref
    BY DEF Capability
  <2>3. Fits(s, again)
    BY <1>2, <2>1, <2>2 DEF Fits
  <2>4. ResolveSource(x, s) = Matched(again)
    BY <1>2 DEF ResolveSource
  <2> HIDE DEF again
  <2> QED
    BY <2>3, <2>4, MatchedFits
<1>3. CASE found = {} /\ ~ (HasQuranScope(s) /\ x \in EffectiveSources(s))
  BY <1>3 DEF ResolveSource
<1> QED
  BY <1>1, <1>2, <1>3

LEMMA ResolveOrdinalShape ==
  ASSUME NEW s, SoundScope(s), NEW o \in Ordinal
  PROVE  LET r == ResolveOrdinal(o, s)
         IN  \/ r = Rejected
             \/ r.status = "matched" /\ Fits(s, r) /\ r.action = "select verse"
<1> DEFINE found == {c \in Capabilities(s) : c.action = "select verse" /\ c.param = o}
           first == CHOOSE c \in found : TRUE
<1>1. CASE found = {}
  BY <1>1 DEF ResolveOrdinal
<1>2. CASE found # {}
  <2>1. first \in found
    BY <1>2
  <2>2. Fits(s, first) /\ first.action = "select verse"
    BY <2>1, CapabilityShape
  <2>3. ResolveOrdinal(o, s) = Matched(first)
    BY <1>2 DEF ResolveOrdinal
  <2> HIDE DEF first
  <2> QED
    BY <2>2, <2>3, MatchedFits
<1> QED
  BY <1>1, <1>2

LEMMA ResolveHadithShape ==
  ASSUME NEW s, SoundScope(s), NEW action \in {"summarize", "lesson"}
  PROVE  LET r == ResolveHadith(action, s)
         IN  \/ r \in {Unmatched, Rejected}
             \/ r.status = "matched" /\ Fits(s, r)
BY FirstCapabilityShape DEF ResolveHadith, ResolverPattern

LEMMA ResolveShape ==
  ASSUME NEW q \in Phrase, NEW s, SoundScope(s)
  PROVE  Resolved(q, s, Resolve(q, s))
<1> DEFINE r == Resolve(q, s)
<1>1. CASE ~ SupportsFollowups(s)
  BY <1>1 DEF Resolve, Resolved
<1>2. CASE SupportsFollowups(s) /\ q.source # NoSource
  <2>1. r = ResolveSource(q.source, s) /\ q.source \in Source
    BY <1>2, PhraseShape DEF Resolve
  <2>2. q.ordinal = NoOrdinal /\ "topic" \notin q.matches
    BY <1>2, PhraseShape
  <2> QED
    BY <2>1, <2>2, ResolveSourceShape DEF Resolved
<1>3. CASE /\ SupportsFollowups(s) /\ q.source = NoSource
           /\ "topic" \in q.matches /\ HasQuranScope(s)
  BY <1>3 DEF Resolve, Resolved
<1>4. CASE /\ SupportsFollowups(s) /\ q.source = NoSource
           /\ q.ordinal # NoOrdinal
  <2>1. q.ordinal \in Ordinal /\ q.matches = {}
    BY <1>4, PhraseShape
  <2>2. r = ResolveOrdinal(q.ordinal, s)
    BY <1>4, <2>1 DEF Resolve
  <2> QED
    BY <2>1, <2>2, ResolveOrdinalShape DEF Resolved
<1>5. CASE /\ SupportsFollowups(s) /\ q.source = NoSource /\ q.ordinal = NoOrdinal
           /\ ~ ("topic" \in q.matches /\ HasQuranScope(s))
  <2>1. \/ \E a \in ResolverPattern : a # "topic" /\ r = FirstCapability(s, a)
        \/ \E a \in {"summarize", "lesson"} : r = ResolveHadith(a, s)
        \/ r = Unmatched
    BY <1>5 DEF Resolve, ResolverPattern
  <2>2. r \in {Unmatched, Rejected} \/ (r.status = "matched" /\ Fits(s, r))
    BY <2>1, FirstCapabilityShape, ResolveHadithShape
  <2>3. "topic" \in q.matches => r = Unmatched
    <3>1. "topic" \in q.matches => q.matches = {"topic"}
      BY PhraseShape
    <3> QED
      BY <1>5, <3>1 DEF Resolve
  <2> QED
    BY <1>5, <2>2, <2>3 DEF Resolved
<1> QED
  BY <1>1, <1>2, <1>3, <1>4, <1>5

-----------------------------------------------------------------------------
(* The planner's route for what the resolver matched.                       *)
AsksHadith(c) == c.type = "followup hadith" /\ c.continues = "no" /\ c.hadith \in Hadith

LEMMA MatchedShape ==
  ASSUME NEW q \in Phrase, NEW s, SoundScope(s), NEW r, Fits(s, r),
         q.ordinal # NoOrdinal => r.action = "select verse"
  PROVE  LET c == RouteForResolved(r, s)
         IN  AsksVerse(q, s, c) \/ AsksHadith(c) \/ c = Raises
<1> DEFINE target == IF r.target # NoRef THEN r.target ELSE Focus(s)
<1>1. HasQuranScope(s) => Focus(s) \in Ref
  BY FocusIsRef
<1>2. ASSUME NEW v \in Ref, q.ordinal # NoOrdinal => Contains(s.span, v)
      PROVE  /\ AsksVerse(q, s, QuranRoute(v))
             /\ AsksVerse(q, s, [QuranRoute(v) EXCEPT !.action = "fetch"])
             /\ AsksVerse(q, s, TafsirRoute(v, {}))
  <2>1. AsksVerse(q, s, QuranRoute(v))
    BY <1>2 DEF AsksVerse, QuranType, QuranRoute, Route
  <2>2. AsksVerse(q, s, [QuranRoute(v) EXCEPT !.action = "fetch"])
    BY <1>2 DEF AsksVerse, QuranType, QuranRoute, Route
  <2>3. AsksVerse(q, s, TafsirRoute(v, {}))
    BY <1>2 DEF AsksVerse, QuranType, TafsirRoute, Route
  <2> QED
    BY <2>1, <2>2, <2>3
<1>3. CASE r.action = "focus source" /\ HasQuranScope(s) /\ r.source \in Source
  <2>1. RouteForResolved(r, s) = TafsirRoute(Focus(s), {r.source})
    BY <1>3 DEF RouteForResolved, QuranActions
  <2>2. q.ordinal = NoOrdinal
    BY <1>3
  <2>3. AsksVerse(q, s, TafsirRoute(Focus(s), {r.source}))
    BY <1>1, <1>3, <2>2 DEF AsksVerse, QuranType, TafsirRoute, Route
  <2> QED
    BY <2>1, <2>3
<1>4. CASE r.action \in QuranActions /\ HasQuranScope(s)
  <2>1. RouteForResolved(r, s) =
          IF target \in Hadith THEN Raises
          ELSE IF r.action = "repeat"
          THEN [QuranRoute(target) EXCEPT !.action = "fetch"]
          ELSE IF r.action = "simplify" /\ HasTafsirScope(s)
          THEN TafsirRoute(target, {})
          ELSE QuranRoute(target)
    BY <1>4 DEF RouteForResolved, QuranActions
  <2>2. CASE target \in Hadith
    BY <2>1, <2>2
  <2>3. CASE target \notin Hadith
    <3>1. target \in Ref /\ (q.ordinal # NoOrdinal => Contains(s.span, target))
      <4>1. CASE r.target = NoRef
        BY <1>1, <1>4, <4>1, NoRefAssumption DEF Fits, QuranActions
      <4>2. CASE r.target # NoRef
        BY <1>4, <2>3, <4>2 DEF Fits, QuranActions
      <4> QED
        BY <4>1, <4>2
    <3>2. RouteForResolved(r, s) \in
            {[QuranRoute(target) EXCEPT !.action = "fetch"],
             TafsirRoute(target, {}), QuranRoute(target)}
      BY <2>1, <2>3
    <3> HIDE DEF target
    <3> QED
      BY <1>2, <3>1, <3>2
  <2> QED
    BY <2>2, <2>3
<1>5. CASE /\ r.action \in {"summarize", "lesson", "repeat"}
           /\ r.action \in QuranActions => ~ HasQuranScope(s)
  <2>1. r.target \in Hadith
    BY <1>5 DEF Fits, QuranActions
  <2>2. \/ RouteForResolved(r, s) = HadithRoute("explain", r.target)
        \/ RouteForResolved(r, s) = HadithRoute("fetch", r.target)
    BY <1>5 DEF RouteForResolved, QuranActions
  <2>3. /\ AsksHadith(HadithRoute("explain", r.target))
        /\ AsksHadith(HadithRoute("fetch", r.target))
    BY <2>1 DEF AsksHadith, HadithRoute, Route
  <2> QED
    BY <2>2, <2>3
<1> QED
  BY <1>3, <1>4, <1>5 DEF Fits, QuranActions

(* What the merged route asks for.                                          *)
Planned(q, s, r, route) ==
  /\ route.type \in QuranType =>
       /\ route.target \in Ref \cup {NoRef} /\ route.sources \subseteq Source
       /\ q.ordinal # NoOrdinal /\ route.target # NoRef => Contains(s.span, route.target)
  /\ route.type = "followup hadith" => route.hadith \in Hadith
  /\ r.status = "rejected" =>
       \/ route \in {Unsupported, Restricted}
       \/ AsksHadith(route) /\ route.hadith = s.hadith
  /\ q.ordinal # NoOrdinal => route.continues = "no"
  /\ route.continues = "forward" =>
       /\ route.type \in QuranType /\ s.continuation # NoReading
       /\ route.target = ForwardWindow(s.continuation.from)

LEMMA VerseIsPlanned ==
  ASSUME NEW q, NEW s, NEW r, r.status # "rejected", NEW c, AsksVerse(q, s, c)
  PROVE  Planned(q, s, r, c)
BY DEF Planned, AsksVerse, QuranType

LEMMA HadithIsPlanned ==
  ASSUME NEW q, NEW s, NEW r, NEW c, AsksHadith(c),
         r.status = "rejected" => c.hadith = s.hadith
  PROVE  Planned(q, s, r, c)
BY DEF Planned, AsksHadith, QuranType

LEMMA NothingIsPlanned ==
  ASSUME NEW q \in Phrase, NEW s, NEW r, NEW c \in {Restricted, Unsupported, Topical, Raises},
         r.status = "rejected" => c \in {Restricted, Unsupported}
  PROVE  Planned(q, s, r, c)
BY FixedRoutes DEF Planned

LEMMA ReadingIsPlanned ==
  ASSUME NEW q \in Phrase, NEW s, SoundScope(s), NEW r, r.status # "rejected", NEW c,
         NEW d \in {"forward", "backward"}, ReadsOn(q, s, c, d)
  PROVE  Planned(q, s, r, c)
<1>1. s.continuation.from \in Ref /\ Exists(s.continuation.from)
  BY ScopeFields DEF SoundScope, ReadsOn
<1>2. /\ ForwardWindow(s.continuation.from) \in Ref \cup {NoRef}
      /\ BackwardWindow(s.continuation.from) \in Ref
  BY <1>1, ReadingForward, BackwardExists
<1>3. c.target \in Ref \cup {NoRef}
  BY <1>2 DEF ReadsOn
<1> QED
  BY <1>3 DEF Planned, ReadsOn, QuranType

LEMMA MergeShape ==
  ASSUME NEW q \in Phrase, NEW s, SoundScope(s), NEW r, Resolved(q, s, r)
  PROVE  Planned(q, s, r, Merge(Classify(q, s), r, s))
<1> DEFINE c == Classify(q, s)
           desired == RouteForResolved(r, s)
<1> HIDE DEF c, desired
<1>1. CASE r.status = "matched"
  <2>1. Merge(c, r, s) \in {c, desired}
    BY <1>1 DEF Merge, desired
  <2>2. Planned(q, s, r, desired)
    <3>1. Fits(s, r) /\ (q.ordinal # NoOrdinal => r.action = "select verse")
      <4>1. /\ Unmatched.status # "matched"
            /\ Rejected.status # "matched" /\ Boundary.status # "matched"
        BY DEF Unmatched, Rejected, Boundary
      <4> QED
        BY <1>1, <4>1 DEF Resolved
    <3>2. AsksVerse(q, s, desired) \/ AsksHadith(desired) \/ desired = Raises
      BY <3>1, MatchedShape DEF desired
    <3>3. r.status # "rejected"
      BY <1>1
    <3> QED
      BY <3>2, <3>3, VerseIsPlanned, HadithIsPlanned, NothingIsPlanned
  <2>3. Planned(q, s, r, c)
    <3>1. r.status # "rejected"
      BY <1>1
    <3> QED
      BY <3>1, ClassifyShape, ReadingIsPlanned, VerseIsPlanned, HadithIsPlanned,
         NothingIsPlanned DEF c, AsksHadith
  <2> QED
    BY <2>1, <2>2, <2>3 DEF c
<1>2. CASE r = Unmatched
  <2>1. Merge(c, r, s) = c /\ r.status # "rejected"
    BY <1>2 DEF Merge, Unmatched
  <2> QED
    BY <2>1, ClassifyShape, ReadingIsPlanned, VerseIsPlanned, HadithIsPlanned,
       NothingIsPlanned DEF c, AsksHadith
<1>3. CASE r \in {Rejected, Boundary} /\ ("topic" \in q.matches => r = Boundary)
  <2>1. r.status = "rejected" /\ (r = Boundary => r.boundary)
    BY <1>3 DEF Rejected, Boundary, Unmatched
  <2>2. \/ c.type \in QuranType
        \/ AsksHadith(c) /\ c.hadith = s.hadith
        \/ c = Topical /\ r = Boundary
        \/ c = Restricted
    BY <1>3, ClassifyShape DEF c, ReadsOn, AsksVerse, AsksHadith
  <2>3. \/ Merge(c, r, s) \in {Unsupported, Restricted}
        \/ AsksHadith(Merge(c, r, s)) /\ Merge(c, r, s).hadith = s.hadith
    BY <2>1, <2>2 DEF Merge, QuranType
  <2> QED
    BY <2>3, NothingIsPlanned, HadithIsPlanned DEF c
<1> QED
  BY <1>1, <1>2, <1>3 DEF Resolved

-----------------------------------------------------------------------------
(* The evidence has the Quran text or the hadith of the route, or nothing,  *)
(* and where the route names text that exists, it has it.                   *)
Evidence == [ref : Ref \cup {NoRef}, displayed : SUBSET Source,
             hadith : Hadith \cup {NoHadith}]

Supports(route, e) ==
  /\ e \in Evidence
  /\ e.ref # NoRef => route.type \in QuranType /\ e.ref = route.target /\ Exists(e.ref)
  /\ e.hadith # NoHadith => \/ route.type = "followup hadith" /\ e.hadith = route.hadith
                            \/ route.type = "topical"
  /\ e.ref = NoRef /\ route.type \in QuranType =>
       route.target = NoRef \/ ~ Exists(route.target)

LEMMA EvidenceShape ==
  ASSUME NEW q, NEW s, NEW r, NEW route, Planned(q, s, r, route),
         NEW controls \in SUBSET Source, NEW e \in EvidenceFor(route, r, controls)
  PROVE  Supports(route, e)
<1>1. NoEvidence \in Evidence /\ NoEvidence.ref = NoRef /\ NoEvidence.hadith = NoHadith
  BY DEF NoEvidence, QuranText, Evidence
<1>2. CASE route.type \in QuranType
  <2>1. e \in QuranEvidence(route.target, RequestedSources(route, r, controls))
    BY <1>2 DEF EvidenceFor, QuranType
  <2>2. RequestedSources(route, r, controls) \subseteq Source
    BY <1>2 DEF RequestedSources, Planned
  <2>3. CASE route.target = NoRef \/ ~ Exists(route.target)
    <3>1. e = NoEvidence
      BY <2>1, <2>3 DEF QuranEvidence
    <3> QED
      BY <1>1, <2>3, <3>1 DEF Supports
  <2>4. CASE route.target # NoRef /\ Exists(route.target)
    <3>1. PICK d \in SUBSET Source : e = QuranText(route.target, d)
      BY <2>1, <2>2, <2>4 DEF QuranEvidence
    <3>2. route.target \in Ref
      BY <1>2, <2>4 DEF Planned
    <3>3. e \in Evidence /\ e.ref = route.target /\ e.hadith = NoHadith
      BY <3>1, <3>2 DEF QuranText, Evidence
    <3> QED
      BY <1>2, <2>4, <3>3 DEF Supports
  <2> QED
    BY <2>3, <2>4
<1>3. ASSUME NEW found \in SUBSET Hadith, e \in HadithEvidence(found)
      PROVE  /\ e \in Evidence /\ e.ref = NoRef
             /\ e.hadith # NoHadith => e.hadith \in found
  <2>1. e = NoEvidence \/ \E h \in found : e = [NoEvidence EXCEPT !.hadith = h]
    BY <1>3 DEF HadithEvidence
  <2>2. ASSUME NEW h \in found
        PROVE  /\ [NoEvidence EXCEPT !.hadith = h].ref = NoRef
               /\ [NoEvidence EXCEPT !.hadith = h].hadith = h
               /\ [NoEvidence EXCEPT !.hadith = h] \in Evidence
    BY DEF NoEvidence, QuranText, Evidence
  <2>3. CASE e = NoEvidence
    BY <1>1, <2>3
  <2>4. CASE \E h \in found : e = [NoEvidence EXCEPT !.hadith = h]
    BY <2>2, <2>4
  <2> QED
    BY <2>1, <2>3, <2>4
<1>4. CASE route.type = "followup hadith"
  <2>1. e \in HadithEvidence({route.hadith}) /\ {route.hadith} \subseteq Hadith
    BY <1>4 DEF EvidenceFor, Planned
  <2>2. e \in Evidence /\ e.ref = NoRef /\ (e.hadith # NoHadith => e.hadith = route.hadith)
    BY <1>3, <2>1
  <2> QED
    BY <1>4, <2>2 DEF Supports, QuranType
<1>5. CASE route.type = "topical"
  <2>1. e \in HadithEvidence(Hadith)
    BY <1>5 DEF EvidenceFor
  <2>2. e \in Evidence /\ e.ref = NoRef
    BY <1>3, <2>1
  <2> QED
    BY <1>5, <2>2 DEF Supports, QuranType
<1>6. CASE route.type \notin QuranType \cup {"followup hadith", "topical"}
  <2>1. e = NoEvidence
    BY <1>6 DEF EvidenceFor, QuranType
  <2> QED
    BY <1>1, <1>6, <2>1 DEF Supports
<1> QED
  BY <1>2, <1>4, <1>5, <1>6

-----------------------------------------------------------------------------
LEMMA DeriveSpanShape ==
  ASSUME NEW previous, SoundScope(previous), ScopeExists(previous),
         NEW ref \in Ref \cup {NoRef}, ref # NoRef => Exists(ref)
  PROVE  LET span == DeriveSpan(ref, previous)
         IN  /\ span \in Ref \cup {NoRef}
             /\ span # NoRef => Exists(span)
             /\ ref # NoRef => Contains(span, ref)
<1> DEFINE before == IF previous.span # NoRef THEN previous.span ELSE previous.ref
<1>1. /\ previous.ref \in Ref \cup {NoRef} /\ previous.span \in Ref \cup {NoRef}
      /\ previous.ref # NoRef => Exists(previous.ref)
      /\ previous.span # NoRef => Exists(previous.span)
  BY ScopeFields DEF SoundScope, ScopeExists
<1>2. CASE ref = NoRef
  BY <1>1, <1>2 DEF DeriveSpan
<1>3. CASE ref # NoRef /\ Contains(before, ref)
  <2>1. DeriveSpan(ref, previous) = before
    BY <1>3 DEF DeriveSpan
  <2> QED
    BY <1>1, <1>3, <2>1
<1>4. CASE ref # NoRef /\ ~ Contains(before, ref)
  <2>1. DeriveSpan(ref, previous) = ref
    BY <1>4 DEF DeriveSpan
  <2> QED
    BY <1>4, <2>1, ContainsItself
<1> QED
  BY <1>2, <1>3, <1>4

LEMMA DeriveScopeShape ==
  ASSUME NEW previous, SoundScope(previous), ScopeExists(previous),
         NEW e \in Evidence, e.ref # NoRef => Exists(e.ref)
  PROVE  LET d == DeriveScope(e, previous)
         IN  /\ SoundScope(d) /\ ScopeExists(d)
             /\ d.ref = e.ref /\ d.hadith = e.hadith
             /\ d.comparative = e.displayed \cup previous.comparative \cup previous.displayed
<1> DEFINE d == DeriveScope(e, previous)
           reading == IF e.ref # NoRef THEN [from |-> e.ref, tafsir |-> e.displayed # {}]
                      ELSE previous.continuation
<1>1. /\ e.ref \in Ref \cup {NoRef} /\ e.displayed \subseteq Source
      /\ e.hadith \in Hadith \cup {NoHadith}
  BY DEF Evidence
<1>2. /\ previous.displayed \subseteq Source /\ previous.comparative \subseteq Source
      /\ previous.continuation \in [from : Ref \cup {NoRef}, tafsir : BOOLEAN]
  BY ScopeFields DEF SoundScope
<1>3. /\ DeriveSpan(e.ref, previous) \in Ref \cup {NoRef}
      /\ DeriveSpan(e.ref, previous) # NoRef => Exists(DeriveSpan(e.ref, previous))
      /\ e.ref # NoRef => Contains(DeriveSpan(e.ref, previous), e.ref)
  BY <1>1, DeriveSpanShape
<1>4. /\ d.ref = e.ref /\ d.span = DeriveSpan(e.ref, previous)
      /\ d.displayed = e.displayed /\ d.hadith = e.hadith
      /\ d.comparative = e.displayed \cup previous.comparative \cup previous.displayed
      /\ d.continuation = reading
  BY DEF DeriveScope, Comparative
<1>5. /\ reading \in [from : Ref \cup {NoRef}, tafsir : BOOLEAN]
      /\ reading # NoReading => reading.from # NoRef /\ Exists(reading.from)
      /\ reading.from # NoRef => Exists(reading.from)
  <2>1. CASE e.ref # NoRef
    BY <1>1, <2>1
  <2>2. CASE e.ref = NoRef
    <3>1. reading = previous.continuation
      BY <2>2
    <3>2. previous.continuation.from # NoRef => Exists(previous.continuation.from)
      BY DEF ScopeExists
    <3> QED
      BY <1>2, <3>1, <3>2 DEF SoundScope
  <2> QED
    BY <2>1, <2>2
<1>6. d \in Scope
  <2>1. d = [ref |-> e.ref, span |-> DeriveSpan(e.ref, previous),
             displayed |-> e.displayed,
             comparative |-> e.displayed \cup previous.comparative \cup previous.displayed,
             hadith |-> e.hadith, continuation |-> reading]
    BY DEF DeriveScope, Comparative
  <2> HIDE DEF d, reading
  <2> QED
    BY <1>1, <1>2, <1>3, <1>5, <2>1 DEF Scope
<1> HIDE DEF d, reading
<1>7. SoundScope(d)
  BY <1>3, <1>4, <1>5, <1>6 DEF SoundScope
<1>8. ScopeExists(d)
  BY <1>1, <1>3, <1>4, <1>5 DEF ScopeExists
<1> QED
  BY <1>4, <1>7, <1>8 DEF d

-----------------------------------------------------------------------------
(* A turn answered from evidence that fits its route.                       *)
LEMMA RespondStep ==
  ASSUME ThreadInv,
         NEW q, q.ordinal \in Ordinal \cup {NoOrdinal},
         NEW s, SoundScope(s), s = thread \/ s.hadith = NoHadith,
         NEW previous \in {thread, EmptyScope},
         NEW r, r.target \in Ref \cup Hadith \cup {NoRef},
         NEW route, Planned(q, s, r, route),
         NEW controls \in SUBSET Source,
         Respond(q, s, previous, r, route, EvidenceFor(route, r, controls))
  PROVE  /\ ThreadInv' /\ TurnInv'
         /\ turn'.rejected \/ ~ HasEvidence(turn') => UNCHANGED <<thread, shown>>
<1> DEFINE Answer(e) ==
      [ordinal |-> q.ordinal, rejected |-> r.status = "rejected",
       target |-> IF e.ref # NoRef THEN r.target ELSE NoRef,
       raised |-> route = Raises,
       continues |-> route.continues, basis |-> Basis(q, s, route),
       answer |-> e.ref, hadith |-> e.hadith]
<1>1. PICK e \in EvidenceFor(route, r, controls) :
        /\ turn' = Answer(e)
        /\ thread' = IF FollowupReady(e, r) THEN DeriveScope(e, previous) ELSE thread
        /\ shown' = IF FollowupReady(e, r)
                    THEN e.displayed \cup (IF previous = thread THEN shown ELSE {})
                    ELSE shown
  BY DEF Respond
<1>2. Supports(route, e)
  BY EvidenceShape
<1>3. /\ e \in Evidence /\ e.ref \in Ref \cup {NoRef}
      /\ e.displayed \subseteq Source /\ e.hadith \in Hadith \cup {NoHadith}
      /\ e.ref # NoRef => Exists(e.ref)
  BY <1>2 DEF Supports, Evidence
<1>4. SoundScope(previous) /\ ScopeExists(previous)
  BY EmptyIsSound DEF ThreadInv
<1>5. ThreadInv'
  <2>1. CASE FollowupReady(e, r)
    <3>1. thread' = DeriveScope(e, previous)
      BY <1>1, <2>1
    <3>2. /\ SoundScope(thread') /\ ScopeExists(thread')
          /\ thread'.ref = e.ref /\ thread'.hadith = e.hadith
          /\ thread'.comparative =
               e.displayed \cup previous.comparative \cup previous.displayed
      BY <1>3, <1>4, <3>1, DeriveScopeShape
    <3>3. SupportsFollowups(thread')
      BY <2>1, <3>2 DEF FollowupReady, SupportsFollowups
    <3>4. shown' \subseteq thread'.comparative
      <4>1. shown \subseteq thread.comparative
        BY DEF ThreadInv
      <4> QED
        BY <1>1, <2>1, <3>2, <4>1
    <3> QED
      BY <3>2, <3>3, <3>4 DEF ThreadInv
  <2>2. CASE ~ FollowupReady(e, r)
    BY <1>1, <2>2 DEF ThreadInv
  <2> QED
    BY <2>1, <2>2
<1>6. /\ turn'.ordinal = q.ordinal /\ turn'.rejected = (r.status = "rejected")
      /\ turn'.target = (IF e.ref # NoRef THEN r.target ELSE NoRef)
      /\ turn'.raised = (route = Raises)
      /\ turn'.continues = route.continues /\ turn'.basis = Basis(q, s, route)
      /\ turn'.answer = e.ref /\ turn'.hadith = e.hadith
  BY <1>1
<1>7. Basis(q, s, route) \in Ref \cup {NoRef}
  BY ScopeFields DEF Basis, SoundScope
<1>8. RejectedStaysInThread'
  <2>1. ASSUME r.status = "rejected"
        PROVE  e.ref = NoRef /\ e.hadith \in {NoHadith, thread'.hadith}
    <3>1. thread' = thread
      BY <1>1, <2>1 DEF FollowupReady
    <3>2. CASE route \in {Unsupported, Restricted}
      <4>1. route.type \notin QuranType \cup {"followup hadith", "topical"}
        BY <3>2, FixedRoutes
      <4> QED
        BY <1>2, <4>1 DEF Supports
    <3>3. CASE AsksHadith(route) /\ route.hadith = s.hadith
      <4>1. route.type = "followup hadith" /\ s = thread
        BY <3>3, FollowupAssumption DEF AsksHadith
      <4>2. e.ref = NoRef /\ (e.hadith # NoHadith => e.hadith = thread.hadith)
        BY <1>2, <3>3, <4>1 DEF Supports, QuranType
      <4> QED
        BY <3>1, <4>2
    <3> QED
      BY <2>1, <3>2, <3>3 DEF Planned
  <2> QED
    BY <1>6, <2>1 DEF RejectedStaysInThread
<1>9. OrdinalStaysInSpan'
  <2>1. ASSUME q.ordinal # NoOrdinal, e.ref # NoRef
        PROVE  Contains(Basis(q, s, route), e.ref)
    BY <1>2, <2>1 DEF Supports, Planned, Basis
  <2> QED
    BY <1>6, <2>1 DEF OrdinalStaysInSpan
<1>10. ReadingGoesOn'
  <2> DEFINE from == s.continuation.from
             w == ForwardWindow(from)
  <2>1. SUFFICES ASSUME route.continues = "forward"
                 PROVE  IF e.ref # NoRef THEN Follows(e.ref, from)
                        ELSE from.surah = SurahCount /\ from.last = AyahCount[SurahCount]
    <3>1. route.continues = "forward" => Basis(q, s, route) = from
      BY DEF Planned, Basis
    <3> QED
      BY <1>6, <2>1, <3>1 DEF ReadingGoesOn, Follows
  <2>2. /\ route.type \in QuranType /\ route.target = w
        /\ from \in Ref /\ Exists(from)
    BY <2>1, ScopeFields DEF Planned, SoundScope
  <2>3. \/ /\ w \in Ref /\ Exists(w)
           /\ \/ w.surah = from.surah /\ w.first = from.last + 1
              \/ /\ w.surah = from.surah + 1 /\ w.first = 1
                 /\ from.last = AyahCount[from.surah]
        \/ w = NoRef /\ from.surah = SurahCount /\ from.last = AyahCount[SurahCount]
    BY <2>2, ReadingForward
  <2>4. w # NoRef <=> e.ref # NoRef
    BY <1>2, <2>2, <2>3, NoRefAssumption DEF Supports
  <2>5. e.ref # NoRef => e.ref = w
    BY <1>2, <2>2 DEF Supports
  <2> HIDE DEF w, from
  <2> QED
    BY <2>3, <2>4, <2>5, NoRefAssumption DEF Follows
<1>11. TurnInv'
  <2>1. /\ turn'.ordinal \in Ordinal \cup {NoOrdinal}
        /\ turn'.rejected \in BOOLEAN /\ turn'.raised \in BOOLEAN
        /\ turn'.target \in Ref \cup Hadith \cup {NoRef}
        /\ turn'.basis \in Ref \cup {NoRef}
        /\ turn'.answer \in Ref \cup {NoRef}
        /\ turn'.hadith \in Hadith \cup {NoHadith}
    BY <1>3, <1>6, <1>7
  <2> QED
    BY <1>8, <1>9, <1>10, <2>1 DEF TurnInv
<1>12. turn'.rejected \/ ~ HasEvidence(turn') => UNCHANGED <<thread, shown>>
  <2>1. ASSUME turn'.rejected \/ ~ HasEvidence(turn')
        PROVE  ~ FollowupReady(e, r)
    BY <1>6, <2>1 DEF HasEvidence, FollowupReady
  <2> QED
    BY <1>1, <2>1
<1> QED
  BY <1>5, <1>11, <1>12

LEMMA ResolvedTarget ==
  ASSUME NEW q \in Phrase, NEW s, SoundScope(s), NEW r, Resolved(q, s, r)
  PROVE  r.target \in Ref \cup Hadith \cup {NoRef}
<1>1. /\ Unmatched.target = NoRef /\ Rejected.target = NoRef
      /\ Boundary.target = NoRef
  BY DEF Unmatched, Rejected, Boundary
<1> QED
  BY <1>1 DEF Resolved, Fits

(* A request that names its reference or its hadith is a turn like these.   *)
LEMMA AskStep ==
  ASSUME ThreadInv, NEW s \in {thread, EmptyScope},
         NEW route, \/ \E v \in Ref : route = QuranRoute(v)
                    \/ \E h \in Hadith : route = HadithRoute("explain", h),
         Respond(Saying({}), s, s, Unmatched, route, EvidenceFor(route, Unmatched, {}))
  PROVE  /\ ThreadInv' /\ TurnInv'
         /\ turn'.rejected \/ ~ HasEvidence(turn') => UNCHANGED <<thread, shown>>
<1> DEFINE q == Saying({})
<1>1. q.ordinal = NoOrdinal
  BY DEF Saying
<1>2. Unmatched.status # "rejected" /\ Unmatched.target = NoRef
  BY DEF Unmatched
<1>3. SoundScope(s) /\ (s = thread \/ s.hadith = NoHadith)
  BY EmptyIsSound DEF ThreadInv, EmptyScope, AnchorScope
<1> HIDE DEF q
<1>4. Planned(q, s, Unmatched, route)
  <2>1. CASE \E v \in Ref : route = QuranRoute(v)
    <3>1. PICK v \in Ref : route = QuranRoute(v)
      BY <2>1
    <3>2. AsksVerse(q, s, route)
      BY <1>1, <3>1 DEF AsksVerse, QuranType, QuranRoute, Route
    <3> QED
      BY <1>2, <3>2, VerseIsPlanned
  <2>2. CASE \E h \in Hadith : route = HadithRoute("explain", h)
    <3>1. PICK h \in Hadith : route = HadithRoute("explain", h)
      BY <2>2
    <3>2. AsksHadith(route)
      BY <3>1 DEF AsksHadith, HadithRoute, Route
    <3> QED
      BY <1>2, <3>2, HadithIsPlanned
  <2> QED
    BY <2>1, <2>2
<1> QED
  BY <1>1, <1>2, <1>3, <1>4, RespondStep DEF q

(* A follow-up phrase, in the stored thread or with an anchor of its own.   *)
LEMMA FollowUpStep ==
  ASSUME ThreadInv, NEW q \in Phrase, NEW controls \in SUBSET Source,
         NEW s, SoundScope(s), s = thread \/ s.hadith = NoHadith,
         NEW previous \in {thread, EmptyScope},
         LET r == Resolve(q, s)
             route == Merge(Classify(q, s), r, s)
         IN  Respond(q, s, previous, r, route, EvidenceFor(route, r, controls))
  PROVE  /\ ThreadInv' /\ TurnInv'
         /\ turn'.rejected \/ ~ HasEvidence(turn') => UNCHANGED <<thread, shown>>
<1> DEFINE r == Resolve(q, s)
           route == Merge(Classify(q, s), r, s)
<1>1. Resolved(q, s, r)
  BY ResolveShape
<1>2. Planned(q, s, r, route)
  BY <1>1, MergeShape
<1>3. r.target \in Ref \cup Hadith \cup {NoRef}
  BY <1>1, ResolvedTarget
<1>4. q.ordinal \in Ordinal \cup {NoOrdinal}
  BY PhraseShape
<1>5. Respond(q, s, previous, r, route, EvidenceFor(route, r, controls))
  OBVIOUS
<1> HIDE DEF r, route
<1> QED
  BY <1>2, <1>3, <1>4, <1>5, RespondStep

LEMMA NextStep ==
  ASSUME ThreadInv, Next
  PROVE  /\ ThreadInv' /\ TurnInv'
         /\ turn'.rejected \/ ~ HasEvidence(turn') => UNCHANGED <<thread, shown>>
<1>1. ASSUME NEW v \in AskedRef, NEW hydrated \in BOOLEAN, AskQuran(v, hydrated)
      PROVE  /\ ThreadInv' /\ TurnInv'
             /\ turn'.rejected \/ ~ HasEvidence(turn') => UNCHANGED <<thread, shown>>
  <2> DEFINE s == IF hydrated THEN thread ELSE EmptyScope
             route == QuranRoute(v)
  <2>1. Respond(Saying({}), s, s, Unmatched, route, EvidenceFor(route, Unmatched, {}))
    BY <1>1 DEF AskQuran
  <2>2. s \in {thread, EmptyScope} /\ \E w \in Ref : route = QuranRoute(w)
    BY RequestAssumption
  <2> HIDE DEF s, route
  <2> QED
    BY <2>1, <2>2, AskStep
<1>2. ASSUME NEW h \in Hadith, NEW hydrated \in BOOLEAN, AskHadith(h, hydrated)
      PROVE  /\ ThreadInv' /\ TurnInv'
             /\ turn'.rejected \/ ~ HasEvidence(turn') => UNCHANGED <<thread, shown>>
  <2> DEFINE s == IF hydrated THEN thread ELSE EmptyScope
             route == HadithRoute("explain", h)
  <2>1. Respond(Saying({}), s, s, Unmatched, route, EvidenceFor(route, Unmatched, {}))
    BY <1>2 DEF AskHadith
  <2>2. s \in {thread, EmptyScope} /\ \E g \in Hadith : route = HadithRoute("explain", g)
    OBVIOUS
  <2> HIDE DEF s, route
  <2> QED
    BY <2>1, <2>2, AskStep
<1>3. ASSUME NEW q \in Phrase, NEW controls \in SourceControls, FollowUp(q, controls)
      PROVE  /\ ThreadInv' /\ TurnInv'
             /\ turn'.rejected \/ ~ HasEvidence(turn') => UNCHANGED <<thread, shown>>
  <2>1. controls \in SUBSET Source /\ SoundScope(thread)
    BY RequestAssumption DEF ThreadInv
  <2> QED
    BY <1>3, <2>1, FollowUpStep DEF FollowUp
<1>4. ASSUME NEW q \in Phrase, NEW controls \in SourceControls, NEW a \in SuppliedRef,
             FollowUpAnchor(q, a, controls)
      PROVE  /\ ThreadInv' /\ TurnInv'
             /\ turn'.rejected \/ ~ HasEvidence(turn') => UNCHANGED <<thread, shown>>
  <2>1. /\ controls \in SUBSET Source /\ SoundScope(AnchorScope(a))
        /\ AnchorScope(a).hadith = NoHadith
    BY RequestAssumption, AnchorIsSound DEF AnchorScope
  <2> QED
    BY <1>4, <2>1, FollowUpStep DEF FollowUpAnchor
<1> QED
  BY <1>1, <1>2, <1>3, <1>4 DEF Next

-----------------------------------------------------------------------------
LEMMA Initially == Init => ThreadInv /\ TurnInv
<1>1. thread = EmptyScope /\ shown = {} => ThreadInv
  BY EmptyIsSound DEF ThreadInv
<1>2. turn = NoTurn => TurnInv
  BY DEF TurnInv, NoTurn, RejectedStaysInThread, HasEvidence, OrdinalStaysInSpan,
         ReadingGoesOn
<1> QED
  BY <1>1, <1>2 DEF Init

LEMMA Invariant == Spec => [](ThreadInv /\ TurnInv)
<1>1. Init => ThreadInv /\ TurnInv
  BY Initially
<1>2. ThreadInv /\ TurnInv /\ [Next]_vars => (ThreadInv /\ TurnInv)'
  <2>1. CASE Next
    BY <2>1, NextStep
  <2>2. CASE UNCHANGED vars
    BY <2>2 DEF vars, ThreadInv, TurnInv, RejectedStaysInThread, HasEvidence,
                OrdinalStaysInSpan, ReadingGoesOn, Follows
  <2> QED
    BY <2>1, <2>2
<1> QED
  BY <1>1, <1>2, PTL DEF Spec

(* Every stored scope and every turn is of its type.                        *)
THEOREM TypeCorrect == Spec => []TypeOK
<1>1. ThreadInv /\ TurnInv => TypeOK
  <2>1. ThreadInv => thread \in Scope /\ shown \in SUBSET Source
    BY ScopeFields DEF ThreadInv, SoundScope
  <2>2. TurnInv => /\ turn.ordinal \in Ordinal \cup {NoOrdinal}
                   /\ {turn.rejected, turn.raised} \subseteq BOOLEAN
                   /\ turn.target \in Ref \cup Hadith \cup {NoRef}
                   /\ {turn.basis, turn.answer} \subseteq Ref \cup {NoRef}
                   /\ turn.hadith \in Hadith \cup {NoHadith}
    BY DEF TurnInv
  <2> QED
    BY <2>1, <2>2 DEF TypeOK
<1> QED
  BY <1>1, Invariant, PTL

(* The verse in focus is one of the active span, in conversations of any    *)
(* length about any Quran (state_hydrator.py).                              *)
THEOREM FocusInSpan == Spec => []SpanCoversFocus
<1>1. ThreadInv => SpanCoversFocus
  BY DEF ThreadInv, SoundScope, SpanCoversFocus
<1> QED
  BY <1>1, Invariant, PTL

(* No reference that cannot be fetched is ever stored, although "next       *)
(* verse" computes some that do not exist (quran_followup.py).              *)
THEOREM StoredExist == Spec => []StoredRefsExist
<1>1. ThreadInv => StoredRefsExist
  BY DEF ThreadInv, ScopeExists, StoredRefsExist
<1> QED
  BY <1>1, Invariant, PTL

(* What the thread has shown stays a source that the resolver accepts       *)
(* (followup_resolver.py): it is among the compared sources of the scope.   *)
THEOREM ShownFocusable == Spec => []ShownStayFocusable
<1>1. ThreadInv => ShownStayFocusable
  <2> SUFFICES ASSUME ThreadInv, HasQuranScope(thread), NEW x \in shown
               PROVE  Resolve(WhatDoesSay(x), thread).status = "matched"
    BY DEF ShownStayFocusable
  <2>1. x \in thread.comparative /\ thread.comparative \subseteq Source
    BY ScopeFields DEF ThreadInv, SoundScope
  <2>2. x \in EffectiveSources(thread) /\ x # NoSource
    BY <2>1, FollowupAssumption DEF EffectiveSources
  <2>3. SupportsFollowups(thread)
    <3>1. ~ HasQuranScope(EmptyScope)
      BY DEF HasQuranScope, EmptyScope, AnchorScope
    <3> QED
      BY <3>1 DEF ThreadInv
  <2>4. /\ WhatDoesSay(x).source = x /\ WhatDoesSay(x).ordinal = NoOrdinal
        /\ WhatDoesSay(x).matches = {}
    BY DEF WhatDoesSay, Saying
  <2>5. Resolve(WhatDoesSay(x), thread) = ResolveSource(x, thread)
    BY <2>2, <2>3, <2>4 DEF Resolve
  <2>6. \E c : ResolveSource(x, thread) = Matched(c)
    BY <2>2 DEF ResolveSource
  <2>7. \A c : Matched(c).status = "matched"
    BY DEF Matched
  <2> QED
    BY <2>5, <2>6, <2>7
<1> QED
  BY <1>1, Invariant, PTL

(* A follow-up that the resolver rejects is given no verse, and no hadith   *)
(* but that of the thread, whatever route the classifier found (planner.py).*)
THEOREM RejectedStays == Spec => []RejectedStaysInThread
<1>1. TurnInv => RejectedStaysInThread
  BY DEF TurnInv
<1> QED
  BY <1>1, Invariant, PTL

(* A numbered verse is never fetched from outside the span it counts in.    *)
THEOREM OrdinalInside == Spec => []OrdinalStaysInSpan
<1>1. TurnInv => OrdinalStaysInSpan
  BY DEF TurnInv
<1> QED
  BY <1>1, Invariant, PTL

(* Reading on leaves no ayah out and repeats none (classifier.py).          *)
THEOREM ReadingComplete == Spec => []ReadingGoesOn
<1>1. TurnInv => ReadingGoesOn
  BY DEF TurnInv
<1> QED
  BY <1>1, Invariant, PTL

(* Only a turn with evidence that is not rejected changes what the thread   *)
(* stores, as it is the dispatcher's condition for saving that decides.     *)
THEOREM EvidenceMoves == Spec => OnlyEvidenceMovesThread
<1>1. ThreadInv /\ [Next]_vars => [turn'.rejected \/ ~ HasEvidence(turn') => UNCHANGED <<thread, shown>>]_vars
  BY NextStep DEF vars
<1> QED
  BY <1>1, Invariant, PTL DEF Spec, OnlyEvidenceMovesThread
=============================================================================
