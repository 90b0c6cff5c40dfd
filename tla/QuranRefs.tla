----------------------------- MODULE QuranRefs -----------------------------
(***************************************************************************)
(* Arithmetic on Quran references: a surah with a first and a last ayah,   *)
(* as domains/conversation/quran_followup.py and the continuation windows  *)
(* of domains/ask/classifier.py compute with them.  The canonical string   *)
(* of a reference ("quran:2:255-257") stands for the record one for one.   *)
(***************************************************************************)
EXTENDS Integers

CONSTANTS
  SurahCount,       \* 114
  AyahCount,        \* the number of ayahs of each surah
  NoRef             \* Python's None

Surah == 1 .. SurahCount

ASSUME QuranAssumption ==
  /\ SurahCount \in Nat \ {0}
  /\ AyahCount \in [Surah -> Nat \ {0}]

(* What a parsed reference can be: the ayahs are in order, but nothing says *)
(* that the surah has so many.                                              *)
Ref == {r \in [surah : Surah, first : Nat \ {0}, last : Nat \ {0}] :
          r.first <= r.last}

ASSUME NoRefAssumption == NoRef \notin Ref

(* The ayahs of r can be fetched: the repositories raise when a row of the  *)
(* span is missing.                                                         *)
Exists(r) == r.last <= AyahCount[r.surah]

-----------------------------------------------------------------------------
Verse(s, a) == [surah |-> s, first |-> a, last |-> a]

SpanLength(r) == r.last - r.first + 1

Contains(container, value) ==
  /\ container # NoRef /\ value # NoRef
  /\ container.surah = value.surah
  /\ container.first <= value.first
  /\ container.last >= value.last

(* The ordinals a phrase can use, with their numbers; "2nd" stands for the  *)
(* four numeric spellings.                                                  *)
Label == {"first", "second", "third", "fourth"}
Ordinal == Label \cup {"2nd", "last"}
OrdinalNumber(o) ==
  CASE o = "first" -> 1
    [] o \in {"second", "2nd"} -> 2
    [] o = "third" -> 3
    [] OTHER -> 4

(* Mutant: the ordinal is not compared with the length of the span.         *)
OrdinalRefUnchecked(span, o) ==
  IF span # NoRef /\ o = "last" THEN Verse(span.surah, span.last)
  ELSE IF span # NoRef THEN Verse(span.surah, span.first + OrdinalNumber(o) - 1)
  ELSE NoRef

OrdinalRef(span, o) ==
  IF span # NoRef /\ o = "last" THEN Verse(span.surah, span.last)
  ELSE IF span # NoRef /\ OrdinalNumber(o) <= SpanLength(span)
  THEN Verse(span.surah, span.first + OrdinalNumber(o) - 1)
  ELSE NoRef

(* The verses of a span that a follow-up can ask for, as pairs of an        *)
(* ordinal and its verse.  The last verse has no pair of its own when one   *)
(* of the four labels names it already.                                     *)
AvailableOrdinals(span) ==
  IF span = NoRef \/ SpanLength(span) <= 1 THEN {}
  ELSE LET labelled == {<<o, OrdinalRef(span, o)>> :
                          o \in {l \in Label : OrdinalRef(span, l) # NoRef}}
           final == OrdinalRef(span, "last")
       IN  labelled \cup {<<"last", v>> : v \in {final} \ {p[2] : p \in labelled}}

Smaller(a, b) == IF a <= b THEN a ELSE b
Greater(a, b) == IF a >= b THEN a ELSE b

PreviousVerse(r) == Verse(r.surah, Greater(1, r.first - 1))
NextVerse(r) == Verse(r.surah, r.last + 1)

-----------------------------------------------------------------------------
(* Reading on: windows of at most five ayahs.                              *)
Opening(s) == [surah |-> s, first |-> 1, last |-> Smaller(5, AyahCount[s])]

(* The window after r: in the same surah, else the opening of the next one, *)
(* and none after the last ayah of the last surah.                          *)
ForwardWindow(r) ==
  IF r.last < AyahCount[r.surah]
  THEN [surah |-> r.surah, first |-> r.last + 1,
        last |-> Smaller(r.last + 5, AyahCount[r.surah])]
  ELSE IF r.surah < SurahCount THEN Opening(r.surah + 1)
  ELSE NoRef

(* The window before r, within its surah; before the first ayah there is    *)
(* only the opening itself.                                                 *)
BackwardWindow(r) ==
  IF r.first = 1 THEN Opening(r.surah)
  ELSE [surah |-> r.surah, first |-> Greater(1, r.first - 5), last |-> r.first - 1]
=============================================================================
