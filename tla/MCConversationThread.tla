------------------------ MODULE MCConversationThread ------------------------
(***************************************************************************)
(* Model-checking instance of ConversationThread: a Quran of two surahs,   *)
(* one shorter than a reading window and one longer.                       *)
(***************************************************************************)
EXTENDS ConversationThread, TLC

CONSTANTS x1, x2, h1

MCSource == {x1, x2}
MCHadith == {h1}
MCAyahCount == <<2, 6>>

Span(s, a, b) == [surah |-> s, first |-> a, last |-> b]

(* A whole surah, and a span in the other.                                  *)
MCAskedRef == {Span(1, 1, 2), Span(2, 2, 4)}

(* Two verses of a surah, and a third that it does not have.                *)
MCSuppliedRef == {Span(1, 1, 3)}

MCSourceControls == {{}, MCSource}

Symmetry == Permutations(MCSource)
=============================================================================
