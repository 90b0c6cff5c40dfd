------------------------------ MODULE AskRequest ------------------------------
(***************************************************************************)
(* One request from its arrival to its response: explain_answer.py,        *)
(* execute_plan and the domain invocations of domains/answer_engine, while *)
(* the registry is governed, backfilled, ingested into and unreachable.    *)
(*                                                                         *)
(* A request reads the registry for its Quran sources, again while it is   *)
(* planned, again before the Quran is fetched and once more for every      *)
(* commentary, which is then read in a session of its own.                 *)
(***************************************************************************)
EXTENDS AskAnswer

CONSTANTS
  Ask,          \* the requests
  Deployed,     \* the tables that a service is started on
  Public,       \* the settings of the public topical answers to consider
  Governed,     \* the sources that are decided about meanwhile
  Decision(_),  \* what an operator may change a record to
  Narration,    \* the narrations there are
  Hits,         \* what the old search may find, best first
  Candidates,   \* what the new search may select
  BundleSize    \* hadith_multi_bundle_size

ASSUME RequestAssumption ==
  /\ BundleSize \in Nat \ {0}
  /\ None \notin Source \cup Reason \cup ContextEnd
  /\ Ask \subseteq Requests
  /\ Deployed \subseteq [Source -> Record \cup {None}]
  /\ \A r \in Record : Decision(r) \subseteq Record
  /\ Hits \subseteq Seq(Narration) /\ Candidates \subseteq Seq(Narration)
  /\ Governed \subseteq Source
  /\ Public \subseteq SUBSET {"tafsir", "hadith"}

VARIABLES
  ask,       \* the request, or None
  pc,        \* what it does next
  plan,
  evidence,
  pending,   \* the commentaries that are still to be fetched
  work,      \* the one whose sections are read
  response,  \* what it is answered
  eligible,  \* the sources that were eligible at some time of it
  reachable  \* the database could be reached at some time of it

request == <<ask, pc, plan, evidence, pending, work, response>>
vars == <<registry, public, request, eligible, reachable>>

Step == {"context", "plan", "quran", "span", "tafsir", "sections", "hadith", "respond"}

Eligible == {s \in Tafsirs : MayBeExplainedFrom(s)}
            \cup {s \in {Bukhari} : HadithCollection(s) # None}

Init ==
  /\ row \in Deployed
  /\ database \in {"up", "no table"}
  /\ changes = 0
  /\ public \in Public
  /\ ~ StartupFails(RepositoryMode)
  /\ ask = None /\ pc = "idle"
  /\ plan = None /\ evidence = NoEvidence /\ pending = << >> /\ work = None
  /\ response = None
  /\ eligible = {} /\ reachable = FALSE

-----------------------------------------------------------------------------
Note == eligible' = eligible \cup Eligible' /\ reachable' = (reachable \/ database' # "down")

Arrive(a) ==
  /\ pc = "idle"
  /\ ask' = a
  /\ pc' = IF a.route \in HadithRoute THEN "plan" ELSE "context"
  /\ plan' = None /\ evidence' = NoEvidence /\ pending' = << >> /\ work' = None
  /\ response' = None
  /\ eligible' = Eligible /\ reachable' = (database # "down")
  /\ UNCHANGED <<registry, public>>

At(step) == pc = step /\ UNCHANGED <<registry, public, eligible, reachable, ask>>

Answer(r) == response' = r /\ pc' = "answered"

(* An exception that nothing catches; the client gets a 500.                *)
Raises == Answer(None) /\ UNCHANGED <<plan, evidence, pending, work>>

(* What the program makes of a context that cannot be had.                  *)
WithoutContext(text) ==
  /\ QuranContext(RepositoryMode, text, Translation).ends # "ok"
  /\ Answer(ErrorResponse(QuranContext(RepositoryMode, text, Translation).ends))
  /\ UNCHANGED <<plan, evidence, pending, work>>

HasContext(text) == QuranContext(RepositoryMode, text, Translation).ends = "ok"

(* Every route but those of the hadith needs the Quran sources, even when   *)
(* nothing will be read from them.                                          *)
ResolveContext ==
  /\ At("context")
  /\ \/ WithoutContext(ask.text)
     \/ HasContext(ask.text) /\ pc' = "plan" /\ UNCHANGED <<plan, evidence, pending, work, response>>

(* An abstaining plan has nothing fetched but what debug output shows.      *)
Execute(p) ==
  /\ plan' = p
  /\ pending' = IF p.abstains \/ ~ p.tafsir.included THEN << >> ELSE p.tafsir.selected
  /\ evidence' = [NoEvidence EXCEPT !.errors = IF p.reason = None THEN << >> ELSE <<p.reason>>]
  /\ pc' = IF p.abstains THEN (IF p.shadowOnly THEN "hadith" ELSE "respond")
           ELSE IF p.quran # None THEN "quran" ELSE "tafsir"

(* The plan reads the registry itself; a failure is answered with an error  *)
(* or, for a hadith, not caught.                                            *)
PlanRequest ==
  /\ At("plan")
  /\ \/ /\ ask.route \in QuranRoute
        /\ WithoutContext(ask.text)
     \/ /\ ask.route \in QuranRoute => HasContext(ask.text)
        /\ RegistryFails /\ ReadsRegistry(ask)
        /\ IF ask.route \in HadithRoute THEN Raises
           ELSE Answer(ErrorResponse(Failed)) /\ UNCHANGED <<plan, evidence, pending, work>>
     \/ /\ ask.route \in QuranRoute => HasContext(ask.text)
        /\ ~ (RegistryFails /\ ReadsRegistry(ask))
        /\ Execute(PlanOf(ask))
        /\ UNCHANGED <<work, response>>

-----------------------------------------------------------------------------
Fails(error) == [evidence EXCEPT !.errors = Append(@, error)]
Warns == [evidence EXCEPT !.warned = TRUE]

(* invoke_quran_domain.  A reference is fetched as it is; a quotation is    *)
(* matched first, and its verse is hydrated in another step.                *)
FetchQuran ==
  /\ At("quran")
  /\ \/ WithoutContext(plan.quran)
     \/ /\ HasContext(plan.quran) /\ ~ plan.verify
        /\ evidence' \in {[evidence EXCEPT !.quran = TRUE], Fails("quran_span_fetch_failed")}
        /\ pc' = "tafsir"
        /\ UNCHANGED <<plan, pending, work, response>>
     \/ /\ HasContext(plan.quran) /\ plan.verify
        /\ \/ evidence' = Fails("verifier_workflow_unavailable") /\ pc' = "tafsir"
           \/ \E match \in {"none", "unusable"} :
                LET ev == [evidence EXCEPT !.verified = TRUE, !.match = match]
                IN  /\ evidence' = IF plan.mode = "verification_only" THEN [ev EXCEPT !.warned = TRUE]
                                   ELSE [ev EXCEPT !.errors = Append(@, "insufficient_evidence")]
                    /\ pc' = "tafsir"
           \/ /\ evidence' = [evidence EXCEPT !.verified = TRUE, !.match = "usable"]
              /\ pc' = IF ask.action \in {"explain", "fetch_text", "verify_then_explain"}
                       THEN "span" ELSE "tafsir"
        /\ UNCHANGED <<plan, pending, work, response>>

(* build_span_from_verifier_result: a verse that cannot be fetched leaves   *)
(* the match alone.                                                         *)
HydrateMatch ==
  /\ At("span")
  /\ \/ WithoutContext(plan.quran)
     \/ /\ HasContext(plan.quran)
        /\ evidence' \in {evidence, [evidence EXCEPT !.quran = TRUE]}
        /\ pc' = "tafsir"
        /\ UNCHANGED <<plan, pending, work, response>>

-----------------------------------------------------------------------------
(* invoke_tafsir_domain, for the sections on a verse: source by source, and *)
(* one that fails is warned of and left out.                                *)
SkipTafsir ==
  /\ At("tafsir")
  /\ pending = << >> \/ (plan.quran # None /\ ~ (plan.overlap /\ evidence.quran))
  /\ pc' = "hadith" /\ pending' = << >>
  /\ UNCHANGED <<plan, evidence, work, response>>

Wanted == pending # << >> /\ (plan.quran # None => plan.overlap /\ evidence.quran)

(* The registry is asked again whether the source may be used.              *)
MayBeRead(s) == ~ RegistryFails /\ MayBeExplainedFrom(s)

(* Mutant: a source that may not be used is tried again.                    *)
SameAgain == pending

(* What is left after a source that may not be used; a topical answer has   *)
(* no other.                                                                *)
AfterRefusal == IF plan.mode \in TopicalMode THEN << >> ELSE Tail(pending)

CheckTafsir ==
  /\ At("tafsir") /\ Wanted
  /\ IF MayBeRead(Head(pending))
     THEN /\ work' = Head(pending) /\ pc' = "sections"
          /\ UNCHANGED <<plan, evidence, pending, response>>
     ELSE /\ evidence' = Warns
          /\ pending' = AfterRefusal
          /\ pc' = "tafsir"
          /\ UNCHANGED <<plan, work, response>>

(* Read in a session of its own: a database that is gone, or without the    *)
(* tables, raises what nothing catches, and a source without a row is not   *)
(* found.                                                                   *)
ReadSections ==
  /\ At("sections")
  /\ IF database # "up" THEN Raises
     ELSE /\ \/ /\ row[work] # None
                /\ plan.mode \in TopicalMode => Answerable(row[work])
                /\ evidence' = [evidence EXCEPT !.tafsir = Append(@, work)]
             \/ evidence' = IF plan.mode \in TopicalMode /\ Len(pending) = 1 /\ evidence.tafsir = << >>
                            THEN [Fails("insufficient_evidence") EXCEPT !.warned = TRUE]
                            ELSE Warns
          /\ pending' = Tail(pending) /\ work' = None /\ pc' = "tafsir"
          /\ UNCHANGED <<plan, response>>

-----------------------------------------------------------------------------
(* invoke_hadith_domain.  A retrieval by topic has hits of the old search,  *)
(* best first, whether the best is good enough, and the candidates of the   *)
(* new one, with those that could be hydrated.                              *)
Topical == [hits : Hits, good : BOOLEAN, fails : BOOLEAN, abstains : BOOLEAN,
            candidates : Candidates, stored : SUBSET Narration, unsafe : BOOLEAN]

UpTo(l) == SubSeq(l, 1, IF Len(l) < BundleSize THEN Len(l) ELSE BundleSize)

(* The narrations that the new search contributes.                          *)
Built(t) ==
  IF plan.retrieval # "topical_v2_shadow" \/ t.fails \/ t.abstains THEN << >>
  ELSE LET l == UpTo(t.candidates) IN ElementsAt(l, {i \in DOMAIN l : l[i] \in t.stored})

(* The old search answers when the new one gives nothing and does not rule  *)
(* it out; that it found candidates overrides its own objection.            *)
FallsBack(t) ==
  /\ t.hits # << >> /\ t.good
  /\ plan.retrieval = "topical_v2_shadow" /\ ~ t.fails => ~ t.unsafe \/ t.candidates # << >>

TopicalEvidence(t) ==
  IF Built(t) # << >>
  THEN [evidence EXCEPT !.hadith = Built(t)[1], !.supporting = Tail(Built(t))]
  ELSE IF FallsBack(t)
  THEN [evidence EXCEPT !.hadith = t.hits[1], !.supporting = Tail(UpTo(t.hits)),
                        !.warned = @ \/ Len(t.hits) > 1]
  ELSE [Fails("insufficient_evidence") EXCEPT !.warned = TRUE]

Cited(narration, warned) == [evidence EXCEPT !.hadith = narration, !.warned = @ \/ warned]

CitationEvidence ==
  IF RegistryFails THEN {Fails("hadith_lookup_failed")}
  ELSE IF HadithCollection(Bukhari) = None
  THEN {[Fails("hadith_collection_not_enabled") EXCEPT !.warned = TRUE]}
  ELSE IF database # "up" THEN {Fails("hadith_lookup_failed")}
  ELSE {[Fails("hadith_citation_not_found") EXCEPT !.warned = TRUE]}
       \cup {Cited(n, w) : n \in Narration, w \in BOOLEAN}

(* Mutant: what is retrieved for debug output is evidence, too.             *)
RetrievesNothing == plan.retrieval = None

(* What is retrieved while topical hadith is disabled goes to the           *)
(* diagnostics of the response alone.                                       *)
AddsNothing == plan.retrieval = None \/ plan.shadowOnly

FetchHadith ==
  /\ At("hadith")
  /\ pc' = "respond"
  /\ CASE AddsNothing -> evidence' = evidence
       [] ~ AddsNothing /\ plan.retrieval = "citation" -> evidence' \in CitationEvidence
       [] ~ AddsNothing /\ plan.retrieval # "citation" ->
            IF database # "up" THEN evidence' = Fails("hadith_topical_lookup_failed")
            ELSE \E t \in Topical :
                   /\ row[Bukhari] = None \/ ~ row[Bukhari].enabled => t.hits = << >>
                   /\ evidence' = TopicalEvidence(t)
  /\ UNCHANGED <<plan, pending, work, response>>

Respond ==
  /\ At("respond")
  /\ Answer(Response(ask, plan, evidence))
  /\ UNCHANGED <<plan, evidence, pending, work>>

Request ==
  ResolveContext \/ PlanRequest \/ FetchQuran \/ HydrateMatch \/ SkipTafsir \/ CheckTafsir
  \/ ReadSections \/ FetchHadith \/ Respond

-----------------------------------------------------------------------------
(* What happens after the answer is left out, as nothing reads it.          *)
Meanwhile == pc # "answered" /\ UNCHANGED <<request, public>> /\ Note

Operate ==
  /\ \/ \E s \in Governed : row[s] # None /\ \E r \in Decision(row[s]) : Govern(s, r)
     \/ Backfill
     \/ \E s \in Governed \cap Tafsirs, composes \in BOOLEAN : IngestTafsir(s, TRUE, FALSE, composes)
     \/ Bukhari \in Governed /\ IngestHadith
  /\ Meanwhile

Outage == (\E d \in {"up", "down"} : DatabaseChanges(d)) /\ Meanwhile

Next == (\E a \in Ask : Arrive(a)) \/ Request \/ Operate \/ Outage
        \/ (pc = "answered" /\ UNCHANGED vars)

(* The handler runs on its own and never waits.                             *)
Spec == Init /\ [][Next]_vars /\ WF_vars(Request)

-----------------------------------------------------------------------------
TypeOK ==
  /\ RegistryTypeOK
  /\ public \subseteq {"tafsir", "hadith"}
  /\ ask \in Ask \cup {None}
  /\ pc \in Step \cup {"idle", "answered"}
  /\ plan # None => plan.mode \in Mode
  /\ Range(evidence.tafsir) \subseteq Tafsirs
  /\ Range(pending) \subseteq Tafsirs
  /\ work \in Tafsirs \cup {None}
  /\ response # None => response.terminal \in {"answered", "abstain", "clarify"}
  /\ eligible \subseteq Source
  /\ reachable \in BOOLEAN

Answered == response # None /\ response.terminal = "answered"

(* An answer rests on evidence of the kind that its mode speaks from, that  *)
(* evidence comes from sources that were eligible while the request ran,    *)
(* and a commentary is in it only when the policy selected it.              *)
AnsweredOnGovernedEvidence ==
  Answered =>
    /\ response.mode = plan.mode /\ HasEvidence(plan.mode, evidence)
    /\ response.bundles # << >>
    /\ Range(evidence.tafsir) \subseteq eligible \cap Range(plan.tafsir.selected)
    /\ evidence.hadith # None => Bukhari \in eligible /\ plan.hadith.included

(* What the response shows stays within its plan, however the plan ended:   *)
(* an abstaining plan, debug output included, shows nothing.                *)
NothingBeyondPlan ==
  response # None /\ plan # None /\ plan.abstains =>
    ~ response.ok /\ response.bundles = << >> /\ response.error = plan.reason

(* A response suggests a way on, or says that it is ready for one, only     *)
(* when it does not abstain and its turn is stored for the follow-up to go  *)
(* on from; one that abstains or asks back is neither handed to the         *)
(* language model nor for composition.  The capabilities and the controls   *)
(* for reading on that a refusal still lists are no suggestions.            *)
SuggestionsCanBeFollowed ==
  response # None =>
    /\ response.suggests \/ response.ready => response.terminal # "abstain" /\ response.anchored
    /\ response.terminal # "answered" => ~ response.llmReady /\ ~ response.composes

(* A response that is fine names an error only when it is a partial one,    *)
(* and one that is not fine always names the error.  The gate that sees to  *)
(* it does not look at a rejected follow-up whose route was kept.           *)
ErrorsAreHonest ==
  response # None /\ ~ ask.rejected =>
    /\ response.ok /\ response.error # None => response.partial
    /\ ~ response.ok => response.error # None

(* The records of the program may choose the Quran sources while the        *)
(* registry is down, but nothing is answered unless the database could be   *)
(* reached at some time of the request.                                     *)
FallbackNeverAnswers == Answered => reachable

(* Every request ends, in a response or in a 500.                           *)
EveryRequestEnds == (pc \in Step) ~> (pc = "answered")
=============================================================================
