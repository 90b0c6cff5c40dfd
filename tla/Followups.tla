----------------------------- MODULE Followups -----------------------------
(***************************************************************************)
(* How a follow-up phrase becomes a plan.  Two readers look at the phrase: *)
(*   Classify   domains/ask/classifier.py, against the anchors             *)
(*   Resolve    domains/conversation/followup_resolver.py, against the     *)
(*              capabilities derived from the session state                *)
(* and domains/ask/planner.py merges what they say into one route.         *)
(*                                                                         *)
(* A phrase is abstracted to the patterns it matches.  A scope is the      *)
(* hydrated SessionState: the references and tafsir sources of the thread. *)
(* The first Quran and hadith anchors are the references of the scope, as  *)
(* every response builds both from the same evidence.                      *)
(***************************************************************************)
EXTENDS QuranRefs

CONSTANTS
  Source,           \* the tafsir sources, all of them enabled and compared
  Hadith,           \* hadith references
  NoHadith, NoSource

ASSUME FollowupAssumption ==
  /\ NoHadith \notin Hadith
  /\ NoSource \notin Source

-----------------------------------------------------------------------------
(* continuation is the span that reading goes on from, and whether it was   *)
(* shown with tafsir; NoReading when no Quran text was shown so far.        *)
NoReading == [from |-> NoRef, tafsir |-> FALSE]

Scope == [ref : Ref \cup {NoRef}, span : Ref \cup {NoRef},
          displayed : SUBSET Source, comparative : SUBSET Source,
          hadith : Hadith \cup {NoHadith},
          continuation : [from : Ref \cup {NoRef}, tafsir : BOOLEAN]]

(* A scope with an anchor and nothing else, as one that a request supplies. *)
AnchorScope(r) == [ref |-> r, span |-> r, displayed |-> {}, comparative |-> {},
                   hadith |-> NoHadith, continuation |-> NoReading]

EmptyScope == AnchorScope(NoRef)

EffectiveSources(s) == IF s.comparative # {} THEN s.comparative ELSE s.displayed
CurrentSource(s) == IF \E x \in Source : s.displayed = {x}
                    THEN CHOOSE x \in Source : s.displayed = {x} ELSE NoSource
HasQuranScope(s) == s.ref # NoRef \/ s.span # NoRef
HasTafsirScope(s) == EffectiveSources(s) # {}
SupportsFollowups(s) == s.ref # NoRef \/ s.hadith # NoHadith
Focus(s) == IF s.ref # NoRef THEN s.ref ELSE s.span

-----------------------------------------------------------------------------
(* The phrases.  matches names the regular expressions, of either reader,   *)
(* that find something in the text besides an ordinal or a source.          *)
NoOrdinal == "none"
Saying(matches) == [ordinal |-> NoOrdinal, source |-> NoSource, matches |-> matches]

VerseNumber(o) == [Saying({}) EXCEPT !.ordinal = o]     \* What about the o verse?
WhatDoesSay(x) == [Saying({}) EXCEPT !.source = x]      \* What does x say?
NextVersePhrase == Saying({"next verse"})               \* What about the next verse?
PreviousVersePhrase == Saying({"previous verse"})
BareNextVerse == Saying({"next verse", "continue"})     \* Next verse
BarePreviousVerse == Saying({"previous verse", "go back"})
MoreSimply == Saying({"simplify"})                      \* Say it more simply
ExactWording == Saying({"repeat"})                      \* Show the exact wording again
SummarizeHadith == Saying({"hadith follow-up", "generic", "summarize"})
HadithLesson == Saying({"hadith follow-up", "generic", "lesson"})
SummarizeHadithIn(x) ==                                 \* Summarize this hadith in x
  [SummarizeHadith EXCEPT !.source = x]
WhatDoesThisMean == Saying({"generic"})
Continue == Saying({"continue"})
GoBack == Saying({"go back"})
HadithAbout == Saying({"topic"})                        \* Hadith about patience

Phrase ==
  {VerseNumber(o) : o \in Ordinal} \cup {WhatDoesSay(x) : x \in Source}
    \cup {SummarizeHadithIn(x) : x \in Source}
    \cup {NextVersePhrase, PreviousVersePhrase, BareNextVerse, BarePreviousVerse,
          MoreSimply, ExactWording, SummarizeHadith, HadithLesson,
          WhatDoesThisMean, Continue, GoBack, HadithAbout}

-----------------------------------------------------------------------------
(* The capabilities that a scope supports.  param is the ordinal of a       *)
(* verse selection.                                                         *)
Capability(action, param, source, target) ==
  [action |-> action, param |-> param, source |-> source, target |-> target]

Can(action, target) == Capability(action, NoOrdinal, NoSource, target)

QuranCapabilities(s) ==
  {Capability("focus source", NoOrdinal, x, s.ref) :
      x \in EffectiveSources(s) \ {CurrentSource(s)}}
  \cup {Capability("select verse", p[1], NoSource, p[2]) :
          p \in AvailableOrdinals(s.span)}
  \cup {Can("previous verse", PreviousVerse(Focus(s))),
        Can("next verse", NextVerse(Focus(s))),
        Can("simplify", Focus(s)), Can("repeat", Focus(s))}

HadithCapabilities(s) ==
  {Can("summarize", s.hadith), Can("lesson", s.hadith), Can("repeat", s.hadith)}

Capabilities(s) ==
  IF ~ SupportsFollowups(s) THEN {}
  ELSE (IF HasQuranScope(s) THEN QuranCapabilities(s) ELSE {})
         \cup (IF s.hadith # NoHadith THEN HadithCapabilities(s) ELSE {})

-----------------------------------------------------------------------------
(* resolve_followup.                                                        *)
Unmatched == [status |-> "unmatched", action |-> "none", source |-> NoSource,
              target |-> NoRef, boundary |-> FALSE]
Rejected == [Unmatched EXCEPT !.status = "rejected"]
Boundary == [Rejected EXCEPT !.boundary = TRUE]
Matched(c) == [status |-> "matched", action |-> c.action, source |-> c.source,
               target |-> c.target, boundary |-> FALSE]

(* The first capability of an action, by priority: a hadith comes before    *)
(* the Quran text when either could be repeated.                            *)
FirstCapability(s, action) ==
  LET found == {c \in Capabilities(s) : c.action = action}
      ofHadith == {c \in found : c.target \in Hadith}
  IN  IF found = {} THEN Rejected
      ELSE Matched(CHOOSE c \in found : ofHadith = {} \/ c \in ofHadith)

ResolveSource(x, s) ==
  LET found == {c \in Capabilities(s) : c.action = "focus source" /\ c.source = x}
  IN  IF found # {} THEN Matched(CHOOSE c \in found : TRUE)
      ELSE IF HasQuranScope(s) /\ x \in EffectiveSources(s)
      THEN Matched(Capability("focus source", NoOrdinal, x, s.ref))
      ELSE Rejected

ResolveOrdinal(o, s) ==
  LET found == {c \in Capabilities(s) : c.action = "select verse" /\ c.param = o}
  IN  IF found = {} THEN Rejected ELSE Matched(CHOOSE c \in found : TRUE)

(* What is asked of a hadith is rejected in a Quran thread, and is no       *)
(* follow-up where there is neither.                                        *)
ResolveHadith(action, s) ==
  IF s.hadith = NoHadith /\ ~ HasQuranScope(s) THEN Unmatched
  ELSE FirstCapability(s, action)

(* The patterns in the order in which they are tried: a source is looked    *)
(* for first, whatever is asked of it.                                      *)
Resolve(q, s) ==
  IF ~ SupportsFollowups(s) THEN Unmatched
  ELSE IF q.source # NoSource THEN ResolveSource(q.source, s)
  ELSE IF "topic" \in q.matches /\ HasQuranScope(s) THEN Boundary
  ELSE IF q.ordinal # NoOrdinal THEN ResolveOrdinal(q.ordinal, s)
  ELSE IF "next verse" \in q.matches THEN FirstCapability(s, "next verse")
  ELSE IF "previous verse" \in q.matches THEN FirstCapability(s, "previous verse")
  ELSE IF "simplify" \in q.matches THEN FirstCapability(s, "simplify")
  ELSE IF "summarize" \in q.matches THEN ResolveHadith("summarize", s)
  ELSE IF "lesson" \in q.matches THEN ResolveHadith("lesson", s)
  ELSE IF "repeat" \in q.matches THEN FirstCapability(s, "repeat")
  ELSE Unmatched

-----------------------------------------------------------------------------
(* Routes.  A route that names no Quran target lets the planner resolve the *)
(* text of the query itself, which these phrases never let it do.           *)
Route(type, action) ==
  [type |-> type, action |-> action, target |-> NoRef, hadith |-> NoHadith,
   sources |-> {}, continues |-> "no"]

QuranRoute(target) == [Route("followup quran", "explain") EXCEPT !.target = target]
TafsirRoute(target, sources) ==
  [Route("followup tafsir", "explain") EXCEPT !.target = target, !.sources = sources]
HadithRoute(action, h) == [Route("followup hadith", action) EXCEPT !.hadith = h]
Restricted == Route("restricted", "unknown")
Unsupported == Route("unsupported", "unknown")
Topical == Route("topical", "explain")
Raises == Route("raises", "unknown")     \* an exception leaves the planner

(* _build_continuation_route: at the end of the Quran there is no target.   *)
ContinuationRoute(s, direction) ==
  LET from == s.continuation.from
      to == IF direction = "forward" THEN ForwardWindow(from) ELSE BackwardWindow(from)
      sources == IF s.displayed # {} THEN s.displayed ELSE s.comparative
  IN  [(IF s.continuation.tafsir THEN TafsirRoute(to, sources) ELSE QuranRoute(to))
         EXCEPT !.continues = direction]

(* _resolve_followup_quran_target works on the anchor, not on the span of   *)
(* the scope.                                                               *)
AnchorTarget(q, anchor) ==
  CASE q.ordinal # NoOrdinal -> OrdinalRef(anchor, q.ordinal)
    [] "next verse" \in q.matches -> NextVerse(anchor)
    [] "previous verse" \in q.matches -> PreviousVerse(anchor)
    [] q.ordinal = NoOrdinal /\ "generic" \in q.matches -> anchor
    [] OTHER -> NoRef

Classify(q, s) ==
  LET reading == s.continuation # NoReading /\ SupportsFollowups(s)
      forward == reading /\ "continue" \in q.matches
      backward == reading /\ "go back" \in q.matches
      ofHadith == s.hadith # NoHadith /\ "hadith follow-up" \in q.matches
      ofSource == s.ref # NoRef /\ q.source # NoSource
      ofVerse == s.ref # NoRef /\ AnchorTarget(q, s.ref) # NoRef
      ofSpan == s.ref # NoRef /\ q.matches \cap {"simplify", "repeat", "generic"} # {}
  IN  IF forward THEN ContinuationRoute(s, "forward")
      ELSE IF backward THEN ContinuationRoute(s, "backward")
      ELSE IF ofHadith THEN HadithRoute("explain", s.hadith)
      ELSE IF ofSource THEN TafsirRoute(s.ref, {q.source})
      ELSE IF ofVerse THEN QuranRoute(AnchorTarget(q, s.ref))
      ELSE IF ofSpan
      THEN IF HasTafsirScope(s) THEN TafsirRoute(s.ref, {}) ELSE QuranRoute(s.ref)
      ELSE IF "topic" \in q.matches THEN Topical ELSE Restricted

-----------------------------------------------------------------------------
(* The planner's own route for a resolved follow-up.  In a thread with a    *)
(* Quran scope it reads the target of a repetition as a Quran reference:    *)
(* int() raises on the collection name of a hadith.                         *)
QuranActions == {"select verse", "next verse", "previous verse", "repeat", "simplify"}

RouteForResolved(r, s) ==
  LET target == IF r.target # NoRef THEN r.target ELSE Focus(s)
  IN  CASE r.action = "focus source" -> TafsirRoute(Focus(s), {r.source})
        [] r.action \in QuranActions /\ HasQuranScope(s) ->
             IF target \in Hadith THEN Raises
             ELSE IF r.action = "repeat"
             THEN [QuranRoute(target) EXCEPT !.action = "fetch"]
             ELSE IF r.action = "simplify" /\ HasTafsirScope(s)
             THEN TafsirRoute(target, {})
             ELSE QuranRoute(target)
        [] r.action \in {"summarize", "lesson"} -> HadithRoute("explain", r.target)
        [] r.action = "repeat" /\ ~ HasQuranScope(s) -> HadithRoute("fetch", r.target)

(* Mutant: the resolver never overrides the classifier's route.             *)
MergeKeepingRoute(route, r, s) == route

(* build_ask_plan: the resolver's route replaces the classifier's only when *)
(* their types or actions differ, and a rejection replaces some types: the  *)
(* route of a follow-up on a hadith is kept.                                *)
Merge(route, r, s) ==
  LET desired == RouteForResolved(r, s)
      replaced == route.type \in {"unsupported", "followup quran", "followup tafsir"}
  IN  IF r.status = "matched"
      THEN IF desired.type # route.type \/ desired.action # route.action
           THEN desired ELSE route
      ELSE IF r.status = "rejected" /\ (replaced \/ r.boundary)
      THEN Unsupported ELSE route
=============================================================================
