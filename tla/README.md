# Dalil: a TLA+ model of the evidence-grounded answer service

Dalil answers questions about the Quran, tafsir (commentary) and hadith from
stored sources, and keeps a conversation going by *anchors*: references of the
last answer that a follow-up ("What about the second verse?") is resolved
against. This directory holds TLA+ modules translated from its source, the TLC
configurations that check them on small instances, and TLAPS proofs, for every
instance, of what the three stores promise, of the conversation and its
dispatcher, of the evidence behind an answer, and of the topical data pipeline.

- `PROJECT.json` lists components, runs, mutants, findings, hazards, theorems
  and, under `map`, the source lines each definition stands for.
- Every property and theorem carries its own statement in a comment.
- Paths below are relative to `src/`.

## 1. The system and its parts

| component | state it keeps | operations | talks to |
|---|---|---|---|
| Anchor store (`domains/conversation/anchor_store.py`), one of three backends | memory: two dictionaries under an `RLock`; sqlite: one table; redis: a session key and a turn key, with sqlite as fallback | save, lookup by session, lookup by turn, lazy or bulk expiry | called by the dispatcher; redis client and sqlite file below it |
| Session state (`state_hydrator.py`, `session_state.py`) | a snapshot per turn: reference, span, tafsir sources, hadith, reading position | derive from a response, hydrate from a record or from supplied anchors | stored with the anchors |
| Follow-ups (`followup_capabilities.py`, `followup_resolver.py`, `quran_followup.py`) | none | derive the capabilities of a state, resolve a phrase to one, arithmetic on references | planner, composition |
| Classifier and planner (`domains/ask/classifier.py`, `planner.py`) | none | route a query, build reading windows, merge the classifier's and the resolver's routes, plan | follow-ups, source policy |
| Dispatcher (`domains/ask/dispatcher.py`) | none of its own; locals of one request | hydrate, plan, answer, derive state, save | everything above |
| Source policy and registry (`domains/policies`, `domains/source_registry`) | registry rows in the database, bootstrap records in the code | resolve sources, govern, backfill, check at startup | planner, evidence, startup |
| Evidence (`answer_engine/domain_invocation.py`, `execution.py`, `evidence_pack.py`) | none | fetch spans, tafsir sections and hadith entries | registry, repositories (SQL), topical search |
| Response and composition (`response_builder.py`, `composition_builder.py`, `evidence_readiness.py`) | none | readiness gate, terminal state, capabilities offered, `followup_ready` | renderer |
| Renderer (`conversational_renderer.py`, hosted and deterministic) | none | word an answer that is already decided | OpenAI client |
| Query normalization (`domains/query_intelligence`) | none | clean the text, link concepts, take or refuse a hosted rewrite | OpenAI client |
| Startup (`quran/verifier/bootstrap.py`, `release_lock.py`) | the Quran runtime in module globals | load once at startup | verifier |
| Quran verifier (`domains/quran/verifier`) | none between requests; caches of what it computes | assess a text, look it up, search ayat and spans, fuse two lanes, list related matches | Quran runtime |
| Hadith topical search (`domains/hadith_topical`) | external index | normalize, resolve the topic, fetch, build candidates, rerank, select, gate | OpenSearch, lexical search, artifacts |
| Enrichment (`pipelines/hadith_topical/enrichment`) | one output file, replaced by rename | ask a language model, or decide by rules; checkpoint | a thread pool |
| Index pipeline (ingestion, `migrate_topical_to_db.py`, `backfill_embeddings.py`, the two builds, `cutover_alias.py`) | row metadata, index contents, alias | upsert, merge, rewrite, delete and fill, verify and swap | operators |
| Downloader, tafsir ingestion, HTTP applications, evaluation scripts | files with manifests, rows | download, validate, serialize, evaluate | operators, dispatcher |

What is hard here:

- **Concurrency.** The route handlers are synchronous, so the server runs them
  in worker threads. The memory store tests expiry outside its lock; a request
  reads its conversation at the start and writes it at the end with nothing
  locked in between, and reads the registry several times on its way.
- **Failure.** Redis may vanish between the two keys of a save or after
  executing a command whose answer is lost; each save and each lookup falls
  back on its own. The database may be gone at any registry read. Each lane of
  the search engine may fail alone. Operator scripts are killed half-way.
- **Expiry and restarts.** Records expire while they are being read, saved or
  gone on from; the memory backend is lost with the process, the others not.
- **Long sequences of turns.** Focus, span, compared sources and reading
  position come from different turns and two readers (classifier and resolver)
  interpret the same phrase against different parts of them.
- **Boundaries.** The last ayah of a surah, a surah shorter than a reading
  window, queries around the length at which the verifier changes its engines,
  scores around thresholds that depend on the kind of question.

The properties that make it correct: a turn id that a client holds finds its
record until it expires; a conversation never goes back to an older turn; the
state of a thread is consistent whatever was asked before; nothing that does
not exist is stored or shown; a rejected follow-up gets no evidence; an answer
rests on evidence from sources that governance allowed while it was made;
refusals offer nothing; what the verifier calls exact is in the verses it
cites, and only the shortlist misses a quotation; a topical answer is about the question;
the offline pipeline loses no decision, embedding or index.

## 2. Modules

```
AnchorLedger                         what any backend promises
  ^ implemented by
AnchorStoreMemory  AnchorStoreSqlite  AnchorStoreRedis
AskDispatch                          overlapping requests over an atomic store
QuranRefs -> Followups -> ConversationThread        one conversation
SourceRegistry -> SourcePolicy -> AskPlan -> AskAnswer -> AskRequest
                                     one request against a changing registry
QuranScoring -> SpanIndex ----\
            \-> VerifierLanes -> MatchCollections -> VerifierService
                                     one verification of a text
TopicalText -> TopicalQuery -> TopicResolver, HadithEnricher,
  HadithLexicalSearch -> TopicalCandidates
  -> TopicalSelection -> TopicalRetrievers -> TopicalSearch
                                     one topical search of hadith
TopicDecision -> TopicalEnrichment   the enrichment runs
TopicalPipeline                      rows, embeddings, indexes, alias
```

**AnchorLedger** is the abstract store: the live records and the latest of each
session; saving, time, and (unless `Durable`) forgetting are its only steps. It
has two parameters because callers can tell the backends apart by them: whether
superseded turns stay resolvable, and whether a restart loses the content. The
history variable `saved` holds what was saved since the store was last empty; a
turn is saved once, so a backend cannot pass off the return of a forgotten or
older record as a save.

**AnchorStoreMemory** has one action per locked region or unlocked test:
`BuildRecord` (`_build_record`, before the lock), `StoreRecord` (the two
assignments in the lock), `LookUpTurn`/`LookUpSession` (the locked read),
`TestExpiry` (outside the lock), `DeleteRecord` (`_delete_memory_record`, in
the lock again). `Tick` and `Restart` are the environment.

**AnchorStoreSqlite**: `EnsureSchema`, `BuildRecord`, `CommitRecord` (upsert,
purge and commit of one transaction) and `SaveFails` (locked database). Lookups
change nothing and are the operators `SessionRow` and `TurnRow`.

**AnchorStoreRedis**: `SetSessionKey` and `SetTurnKey` are separate calls;
`RaiseUnreachable` and `RaiseAfterEffect` are the two ways a call raises (not
executed; executed but unanswered); `RebuildForSqlite` and `CommitRow` are the
fallback, which makes a new record with a turn id of its own. Outages and
restarts may come between any two of these.

**AskDispatch**: a request arrives (`Arrive`), is hydrated (`HydrateSupplied`,
`HydrateParent`, or `MissParent` and then `HydrateSession`: two lookups with
other requests between them), and either gives up or answers and stores
(`Answer`). What a turn stores is reduced to its session and the tafsir sources
that accumulate over the thread.

**QuranRefs** is the arithmetic on references and reading windows. The lengths
of the surahs are a parameter. **Followups** is the pure part of a turn: scopes
(`ActiveScope`), capabilities, `Resolve`, `Classify` and `Merge`. A phrase is
the set of patterns that it matches, an ordinal, or a source; the 12 kinds of
phrase plus ordinals and sources are those of the two readers' regular
expressions, with the actual overlaps between them ("Next verse" matches
navigation and reading on; "Summarize this hadith" also the generic pattern).
**ConversationThread** runs whole turns: `AskQuran`, `AskHadith`, `FollowUp`,
`FollowUpAnchor` (the request brings an anchor). All go through `Respond`,
which is the dispatcher from evidence to saved state.

**SourceRegistry** has the rows of `source_works`, the bootstrap records and
what reaches the database; operators decide (`Decide`), scripts backfill and
ingest, the database goes and comes back. **SourcePolicy** decides per route
which sources a request may use, **AskPlan** is `build_ask_plan`, **AskAnswer**
the response for a plan and its evidence, and **AskRequest** the steps of one
request between which the registry moves: `ResolveContext`, the plan, the Quran
span, the governance test and the sections of each commentary, the hadith
lookup or searches, and the response.

**VerifierService** takes a text through `verify_quran_text`: assessment, the
exact look-up of one ayah, the fast path, shortlists, the span engines by
length of the query (`SearchGiantPartial`, `SearchExactSpans`, `SearchMedium`,
`SearchLong`, `SearchLikely`), fusion, and the second corpus when the first did
not do. **QuranScoring** has texts as sequences of tokens and the measures of a
candidate, **SpanIndex** the engines over runs of ayat, **VerifierLanes** the
two lanes and their fusion, **MatchCollections** the exact, strong and related
lists.

**TopicalSearch** takes a question through `HadithTopicalSearchService.search`:
`Normalize`; for Bukhari `Resolve`, `FetchStrict`, `FetchRelaxed`,
`BuildBukhari`; for other collections `LoadLexical`, `GenerateWithIndex` or
`GenerateWithoutIndex` and `RetrieveUnits`, or `RetrievePassages`; then
`Rerank`, `Select` and `Gate`. Scores are integers in millionths; every weight,
bonus, clamp and threshold is that of the code. The engine returns any ranking
of what matches, of any length up to the size asked for, and any lane may fail.
The modules below it follow the code's own: text and scoring helpers
(**TopicalText**), normalization, concepts, family and shape
(**TopicalQuery**), the taxonomy resolver (**TopicResolver**), the enriched
documents that the other collections are indexed by (**HadithEnricher**), the
lexical search (**HadithLexicalSearch**), filters and clauses of the Bukhari
index with rank fusion and records turned into candidates
(**TopicalCandidates**), reranker, selector and gate (**TopicalSelection**),
and guidance units and thematic passages (**TopicalRetrievers**).

**TopicDecision** is what becomes of a language model's answer about the topics
of a hadith (five layers of slug correction, validation) and what the rules
decide without one; **TopicalEnrichment** the runs that produce the file:
workers, answers in any order, checkpoints, kills, force, upgrade and
overwrite. **TopicalPipeline** takes the file to the queries: ingestion,
migration, backfill, both builds and cutover, each in its transactions and
calls, each killed anywhere.

Proof modules, each for the module it is named after and those below it:
`AnchorStoreMemoryProofs`, `AnchorStoreSqliteProofs`, `AnchorStoreRedisProofs`,
`AskDispatchProofs`, `ConversationThreadProofs`, `AskRequestProofs`,
`VerifierServiceProofs`, and `TopicalProofs` for TopicDecision,
TopicalEnrichment, TopicalPipeline and TopicalSearch.

### Abstractions

- The store of `AskDispatch` and `ConversationThread` is atomic and keeps what
  it saves; its own faults are in the store modules. `AskDispatch` still lets
  turns expire, in any order (a record's time is fixed before the save enters
  the store, so overlapping saves may store them the other way round), and lets
  a save drop the earlier turns of its session, as sqlite does.
- `ConversationThread` has no overlapping requests; `AskDispatch` has no text.
- Evidence in `ConversationThread` is nondeterministic within what the plan
  asks for: any subset of the requested sources may have a section on the
  verses, a hadith may be missing. How it is fetched is `AskRequest`.
- The reference of a scope stands for the first Quran anchor of the same turn:
  every response builds both from the same evidence.
- Supplied anchors are Quran references, which may not exist; supplied hadith
  and tafsir anchors, clarification turns and the position inside one long
  tafsir section (the cursor) are left out.
- `AskRequest` takes the registry reads of the plan as one step; the reads of
  the other phases are steps of their own. Its route is an input.
- In `AnchorStoreRedis` the time to live of a key is left out: redis removes a
  key no earlier than the record's own expiry, which every read tests. The
  client library and the server are external; what the code can observe of
  them (a call executes, raises, or executes and raises) is modelled.
- In the verifier light normalisation is the identity and aggressive
  normalisation folds tokens. A text that the code looks up as characters
  (`PieceOf`) stands there token for token, but for its first and last word,
  which may be cut; `Parts` says which word is a part of which. The q-grams
  that a row shares with a query are counted as the letters of the tokens that
  it has; scores that mix percentages are computed in hundredths.
- In the topical search a text is a sequence of words. Stemming and synonyms
  are one map (`Canonical`, `SynonymsOf`), similarity of different words is a
  constant (`Similarity`). The entries shown to the enriched index have one
  sentence; the label 'story' and the similarity to example queries, which
  only adds to confidence, are left out.
- A row's metadata in `TopicalPipeline` is the version of its topics and its
  embedding; batches have one row. Which records the enriched file has, a limit
  included, is chosen when a migration reads it. The fields `exposed` and
  `rebuilt` of runs are history: only properties read them.

## 3. What the runs check

Passing runs (`-workers 2`):

| run | shows |
|---|---|
| `memory_store` | the dictionaries agree, emitted turn ids resolve until they expire, a late delete takes no newer record, and the backend implements `AnchorLedger` |
| `sqlite_store` | the latest turn of a session is durable over restarts and failed saves, and the table implements the ledger without superseded turns (so no session goes back) |
| `redis_faults` | with outages anywhere, what a save returned is stored in the backend that took it, and a turn key never stands without its session having been written; until the first fault the two-key save implements the durable ledger; every save ends |
| `conversation_thread` | focus, span, sources, rejection and ordinals stay right over every sequence of turns |
| `ask_dispatch` | overlapping requests: threads stay in their session, keep their sources, and a follow-up that goes by its session goes on from no older turn than it must, or from none when the newest has expired |
| `ask_request` | on every route, with the registry governed, backfilled, ingested into and unreachable in between: answers rest on governed evidence, an abstaining plan shows nothing, what a response suggests can be followed, errors are honest, bootstrap records never answer alone, every request ends |
| `quran_verifier` | what is called exact stands in the cited verses, also when the query is cut in mid-word; the text of an ayah, a stored window or a long run is recognised unless the shortlist does not point at its surah; nothing is listed twice |
| `topical_search` | every selected hadith is about the question; a sure topic with strong evidence is answered whatever the engine ranks, where the selection is no more lenient than the gate |
| `topical_enrichment` | runs that have read the output lose no record of it and ask nothing twice, a crash loses no more than a checkpoint interval of collected answers, every stored decision is well formed, runs end with all answers written |
| `topical_pipeline` | a finished migration has brought every row with a record to its version, but for those written again from older data; embeddings fit the text they were made of and survive, the alias is on one existing index, and a cutover serves one with as many documents as it asks for, unless that was deleted in between |

Runs that TLC violates. Each states something a doc, comment or message of the
repository says, and the code does otherwise:

| run | disagreement |
|---|---|
| `thread_answered_target` | a resolved follow-up is answered at the classifier's verse when both routes have the same type and action |
| `topical_vector` | without a resolved topic the first fetch has no topic filter, but its finds skip the anchor gate that is documented to fail "vector hallucinations" |

Every property of a passing run has a mutant: a definition of the model changed
the way a plausible bug would change the code, under which TLC finds that
property violated. The mutated operators stand beside the originals, marked
`Mutant:` or named `Mut...`.

### Observations without a run

The models show more than the runs claim. In the conversation:

- The sqlite row of a session keeps the last turn id only, so earlier turn ids
  stop resolving before they expire; the memory and redis backends keep them.
- A turn saved by the redis fallback is not found once redis answers again, as
  an empty answer is no exception; after an outage a session lookup may find
  anchors older than those of an answered turn.
- A parent turn of another session redirects the answer there; the conversation
  that the request named never gets it.
- After Quran and hadith turns "Show the exact wording again" raises
  `ValueError` in the planner (`planner.py:120`).
- A response offers the verses of the span before the answer
  (`composition_builder.py:499`), and "the last verse" of a span of two to four
  verses is refused, because another ordinal already names that verse
  (`quran_followup.py:107`).

In a request:

- A refusal suggests no follow-up, but it still lists its capabilities
  (`composition_builder.py:569`), its anchors and, when a verse was fetched, the
  controls that offer to read on (`composition_builder.py:718`). An answer that
  is withheld for want of evidence leaves the conversation ready, so its turn is
  stored; only a rejected follow-up is not (`response_builder.py:743`).
- The planner replaces the route of a rejected follow-up only for some types
  (`planner.py:588`). "Summarize this hadith in Ibn Kathir" is rejected for its
  source, yet keeps the hadith route: the hadith is fetched and shown with
  `ok: true` while the terminal state is `abstain` and nothing is stored. The
  evidence gate skips rejected plans, so without evidence such a turn is
  `ok: true` with an error, or `ok: false` without one; `ErrorsAreHonest`
  leaves these turns out.
- A topical hadith answer without hadith still says that it
  was retrieved; a multi-source answer from tafsir alone carries the error
  `insufficient_evidence`; a quotation to be explained abstains when no tafsir
  is left although it was verified; verification alone counts as answered on a
  best match that is marked unusable.
- A fresh deployment without a row for Maarif-ul-Quran answers requests for the
  default commentaries with `source_not_enabled`, as the default list names a
  source that the bootstrap records do not have.
- The `followup_ready` of a conversation stays true on a readiness abstention;
  the packet of the composition corrects it. Selected hadiths of the new search
  are hydrated without testing whether the source is enabled.

In the verifier:

- Runs of more ayat than a stored window (two to five) and fewer than 15 tokens
  are neither stored nor searched for as spans; `QuotesAreRecognized` leaves
  them out (55:1-6 is such a run).
- Longer runs are searched for in the surahs of the best shortlisted ayat, and
  when these have nothing, of the seeds. A run of ayat that is not giant is
  lost when the shortlist does not point at its surah: with a shortlist of two
  rows the text of the first surah of the third corpus is.
- A query that is cut in mid-word is called exact when the cut words are words
  of the ayat as well (`3 2 4 5` in an ayah `3 2 4 4 5 1`, where 5 begins 4):
  the tests are of characters, and the coverage of sets of tokens.
- The strong list may exceed its limit by one in the second and third pass; the
  passage lane may be preferred with an empty result to an ayah that cannot be
  assessed; rows computed on the fly assume contiguous ayah numbers.

In the topical search:

- The scores of rank fusion are not normalized by `_RRF_MAX_DUAL_LIST`,
  although `candidate_generation.py:9` says so.
- `candidate_generation.py:574` says that narrative records clear the threshold
  of prophetic guidance; with a density of .8 their answerability is about .55,
  below .58.
- Errors of the relaxed fetch are not reported; near-ties become confident
  topics only beside a general leaf or at a margin of exactly the minimum;
  the matched topics of a thematic passage are seeded with all topics of the
  query; outside thematic families the anchor gate is implied by the alignment.
- Events and rites are selected by a centrality of .38 and .40
  (`result_selector.py:269`), while the gate asks for .42
  (`evidence_gate.py:10`). Selection stops at `max_results` and prefers, asked
  how something was done, narratives: a handful of them between the two bounds
  can take every place and then all fail at the gate, so that the search
  abstains although the pool held a central saying of the Prophet on the very
  topic. `StrongTopicIsAnswered` therefore speaks of the other selections only.
- The errors of hydration are swallowed; a database error in the lexical search
  leaves the request.

In the pipeline:

- A migration that overlaps a backfill can lose its topics, as the backfill
  writes back whole metadata read at its start (`backfill_embeddings.py:144`).
  `MigrationComplete` names exactly these rows and the ones ingested again
  (`exposed`); nothing in the scripts detects them. Its last message, that every
  row "now carries" the topical fields (`migrate_topical_to_db.py:255`), is also
  false of rows without a record in the file, which are skipped.
- A build that runs beside a cutover can delete the target after its documents
  were counted, and the alias then goes to an index that is being filled
  (`CutoverServesFilled` excepts that: `rebuilt`). The threshold of 100 documents
  says little about an index of thousands: one whose build was killed, or whose
  documents were rejected, is accepted.
- A build deletes and refills its index in place also when the alias points at
  it, so the alias vanishes and queries meet no index, while
  `build_bukhari_topical_v2_index.py:30` says that a build does not swap it.
- `--force` starts from no records, so with a limit, a crash or failures the
  output shrinks (`enrich_hadiths.py:631`). So does a run without it whose output
  cannot be read or parsed: `load_existing` logs that and returns nothing
  (`enrich_hadiths.py:472`), and the next checkpoint overwrites the file, although
  the script calls itself resume-safe (`enrich_hadiths.py:32`). The rule scores are binary floats:
  0.30 + 0.15 + 0.10 stays below the least score of 0.55.

### Bounds, and why they are enough

- **Stores**: two threads, two sessions, three or four turn ids, `TTL` 2 and
  a clock of up to 4. A late delete needs one thread that saves and one that
  looks up, a record that expires and a successor: three turns of one session
  in two threads; the second session shows that sessions do not mix. A redis
  save can use two turn ids, hence four. Two faults cover an outage within
  another save's fallback and an outage with a restart; coming up is free.
- **AskDispatch**: two workers, two sessions, three stored turns (a parent, the
  turn that supersedes it, and the one hydrated from either) and one source,
  as sources do not interact.
- **ConversationThread**: one surah of 2 ayahs and one of 6, so that a reading
  window is cut, exact and crosses into the next surah; a span of three verses
  within a surah, one that is a whole surah, and a supplied anchor that names a
  verse that does not exist; two sources for focus and comparison; one hadith.
  There is no bound on the number of turns.
- **AskRequest**: every route with the combinations of controls that its branch
  of the planner tells apart; two deployments (all rows, none); one change of
  the table and any number of outages per request. The change can fall
  between any two reads of the request, so that any two of them may disagree.
- **VerifierService**: three corpora, one with a second (uthmani) spelling, one
  with a refrain, one of four surahs, more than the three that are taken as
  likely; surahs of up to five ayat, stored windows of two. Queries are pieces
  of the corpora of up to 10 tokens, also with a wrong token in the middle,
  foreign ones appended, or an end that is cut in mid-word. A shortlist keeps
  two rows of up to ten, so that it loses some of the long quotes. The thresholds are scaled (a long query has 5 tokens,
  a giant one 8) so that each engine is reached on both sides.
- **TopicalSearch**: sizes, pools and limits of two to four instead of 5 to
  120, so that each of them cuts something; records with each kind of role,
  shape and density, on and off topic; questions on every family, with and
  without a resolved topic; two engine scores on either side of saturation.
- **TopicalEnrichment**: four records, two threads, a checkpoint every two
  answers: a checkpoint with answers outstanding, and one more after it. The
  decisions are checked for all answers over a taxonomy that has each case of
  the correction layers.
- **TopicalPipeline**: two rows, two versions, one replacing ingestion, one run
  of each script at a time, and four pairs of scripts beside each other
  (`TopicalPipeline.cfg`): the three that write rows, and builds beside cutovers.
  A half-done script, and a file without a record of some row, need two rows; a
  stale snapshot two versions. A cutover asks for one document of two, so that an
  index may be accepted and incomplete. Migration and backfill are beside each
  other only before the first build (`BesideBeforeBuilds`): they do not look at
  the indexes, and builds do not run beside them. The theorems have none of these
  bounds but that of one run of each script.
- Deadlock is not checked where a bound (turn ids, clock, versions) or the end
  of the one request stops the model, and an idle service is a legitimate
  final state.

### Fairness

- `redis_faults`: `WF(Save(t))` for each thread. The redis client is created
  with socket timeouts (`anchor_store_redis_socket_timeout_seconds`) and the
  sqlite connection with `timeout=5.0`, so each call of a save ends, by
  returning or by raising. Nothing is assumed of redis: it may stay down
  forever. A sqlite fallback that fails raises out of the save and ends it too.
- `ask_request`: `WF(Request)`. The handler is straight-line code in a worker
  thread and waits for nothing but database calls, which return or raise.
- `topical_enrichment`: `WF(Work)`. A thread that has a record gets an answer
  or a failure (calls have timeouts and a limited number of retries), and the
  main thread collects what is done. A killed run has ended.

## 4. What is proved

All for arbitrary constants, under the named assumptions beside each constant
(`NoRecord` is no record, `TTL` is positive, every surah has at least one
ayah, queries name verses that exist, and so on).

**AnchorStoreMemory** (`TypeCorrect`, `DictionariesAgree`,
`PriorTurnsResolvable`, `SessionsNeverGoBack`). The invariants are not
inductive: whether a delete may take a record depends on what threads hold in
their locals. `IInv` adds that a record about to be stored has a turn id that
no dictionary, client or other thread knows; that a record a lookup holds is
the only one its turn id can find; and that one about to be deleted has
expired, for good since time goes forward.

**MemoryImplementsLedger**. Under the mapping that forgets what has expired,
storing is the ledger's `Remember`, the clock its `Pass`, a restart its
`Forget`, and building, looking up and deleting are stuttering steps. The last
of these is the interesting one: deleting an expired record never changes what
the ledger sees.

**AnchorStoreSqlite** (`TypeCorrect`, `SessionsNeverGoBack`,
`LatestTurnsResolvable`, `SqliteImplementsLedger`). The row of a session is a
record that a save returned; a record about to be committed has a turn id
nobody knows yet; what is not in the table has expired or was replaced by a
save that overlapped or followed (`LatestStored`). Under the mapping that reads
the table as the lookups do, a commit is the ledger's `Remember` and the purge
of the first call a stuttering step.

**AskDispatch** (`TypeCorrect`, `ThreadsKeepTheirSession`,
`ThreadsKeepTheirSources`, `FollowupsHydrateNewest`). The strengthening says
that a hydrated request carries the session of the stored turn it goes on from,
although that turn may expire or be superseded before the answer. What a
session finds needs a second one, `SessionInv`: the latest turn of a session is
the one stored last, and what a request can know of was stored. Turns may expire
in any order, so an older turn may be live when the latest is not; the lookup
then finds nothing, and the theorem says so.

**ConversationThread**, all properties of its run and two more (`TypeCorrect`,
`FocusInSpan`, `StoredExist`, `ShownFocusable`, `RejectedStays`,
`OrdinalInside`, `ReadingComplete`, `EvidenceMoves`). The first part of the
module proves the arithmetic of references in `QuranRefs` (`OrdinalInSpan`,
`ReadingForward`, and lemmas): a numbered verse is inside its span; the window
after ayahs that exist exists, begins with the very next ayah, and is missing
only after the last ayah of the last surah. `ThreadInv` joins what the stored
scope must satisfy at once: the focus lies in the span, every reference exists,
the reading position is a reference that exists, the scope is empty or can be
followed up, and what was shown is among the compared sources. The proof
follows a turn: classifier and resolver return one of a few shapes
(`ClassifyShape`, `ResolveShape`); whichever the merge keeps is *planned*
(`MergeShape`); evidence is that of the plan or nothing (`EvidenceShape`); and
answering from it keeps `ThreadInv` (`RespondStep`). The one route that a
rejection leaves standing is that of the hadith of the scope, which is the
hadith of the stored thread or none.

**AnchorStoreRedis** (`TypeCorrect`, `ReturnedTurnsStored`, `TurnKeysFollow`,
`SessionsNeverGoBack`, `RedisImplementsLedger`), for any number of threads,
sessions and faults. `IInv` says of a thread in the middle of a save that its
record has a turn id that no client and no other thread knows (`HeldFresh`),
and that a save that goes on to its turn key has written its session key, or a
save that overlaps it has (`SessionKeyFirst`). Turn keys name issued turns
(`EmittedIssued`, `TurnKeysIssued`), the rows of the fallback are records that
a save returned (`RowsEmitted`, `SqliteEmitted`), and redis keeps the turn of
every save that did not fall back (`RedisKeeps`). Until the first fault nothing
falls back (`FaultlessUp`), and writing the session key is the ledger's
`Remember`: the turn key that follows, and every step that builds, looks up or
fails, stutters. After a fault the refinement is false, as the observations
above say; what remains is that no turn is lost by the backend that took it.

**AskRequest** (`OnGovernedEvidence`, `AbstainingShowsNothing`,
`SuggestionsFollowed`, `HonestErrors`, `AnsweringNeedsDatabase`), for any
sources, hadiths and registry rows and any number of registry changes and
outages during a request. The registry moves between the reads of a request, so
nothing about the present registry follows from evidence that was fetched. The
proof keeps what was eligible, and whether the database was reachable, at any
time of the request: the present is part of that history (`SeesRegistry`), and
what the plan was allowed stays in it (`Allowed`). With it goes how far the
request has come (`Carried`): the plan has one of the planner's shapes
(`SoundPlan`), the evidence so far is evidence of such a plan
(`SoundEvidence`), and its commentaries are selected and were eligible. The
response is a function of plan and evidence, and its shapes (`GateShape`,
`AnswerShape`, `AbstentionShape`, `ErrorShape`) give the properties.

**TopicalEnrichment** (`EnrichmentTypes`, `FewAnswersAtRisk`,
`AnswersAskedOnce`, `EnrichedRecordsKept`, `StoredDecisionsWellFormed`), for any
corpus, pool and checkpoint distance. What the file keeps depends on what the run has in memory, so
`RunInv` says of a run that has read the output that its memory is no worse than
the file, and of every run that
what it still asks is not answered in memory, that a record is at one place of
the pool only, and that no more collected answers are missing in the file than
were counted since the last checkpoint.

The decisions are well formed for any taxonomy that has a leaf, any lists of the
model and any counts of the rules (`EveryDecisionWellFormed`; the assumptions of
`TopicDecision` say no more). Lists without repetitions and rankings are both
written as the members of a finite set in a total order (`InOrder`), so one
lemma carries all of them and no induction over lists is needed: counting who is
before a member is an injection into the places, hence by cardinality onto them
(`InOrderLists`). From it follow that cleaned lists repeat nothing and hold
nothing dropped (`DedupedLists`, `CleanedLists`), that scores rank every leaf of
a family once (`RanksAreTotal`, `ScoresWellFormed`) and that a kitab or baab
label has a last owner in the file (`LastInFile`). The promotion of the first
secondary slug and both cuts keep the lists apart (`AnswersWellFormed`).

**TopicalPipeline** (`PipelineTypes`, `AliasNeverSplit`, `FilledIndexServed`,
`EmbeddingNeverAhead`, `EmbeddingsKept`, `MigrationReachesAll`), for any number
of rows and versions, whatever scripts are beside each other (one run of each at
a time):

- The alias is never split: while a cutover runs only a build can change the
  alias, and it only removes (`OneTarget`), so what the cutover read at its
  start is all that it has to remove.
- A cutover serves an index with the documents it asks for: what it counted only
  grows (`CountGrows`), until a build deletes the index (`VerifiedFilled`).
- No embedding is ahead of its row: a migration brings a version that neither
  a row nor a snapshot of a backfill is ahead of (`VersionsOrdered`).
- No script but ingestion takes an embedding away.
- What a migration has done with a hadith stays (`MergedSoFar`): the row has the
  version, and so has the snapshot of a backfill that is still to write it back;
  or the hadith is noted as missing, or as written again by somebody else.

**VerifierService** (`VerifierListsNothingTwice`, `ExactTextsAreQuoted`), for
any corpora of surahs of ayat of tokens, any queries, alphabet, thresholds,
shortlist limit and windows (`CorporaAssumption`, `AskedAssumption`,
`ShortlistLimitAssumption`, `WindowsAssumption`: lists are lists, sizes are
naturals). The proof never computes what an engine finds. It has four parts.

- *Lists.* What is kept, sorted, cut, merged, joined or flattened is drawn from
  the lists it was made of (`Drawn`), most of it one place at a time (`Picks`).
  The library's folds are defined by recursive functions; that such a function
  exists and stays in a family of sets is proved once from a least
  counterexample (`Steps`, `StepsStay`), which replaces the induction theorems
  that the provers cannot instantiate.
- *Texts.* The items of lists that are joined stand one list after the other
  (`Lined`, `FlattenLined`), so the token at a place of a surah's stream belongs
  to the ayah that the index names for it (`AyahOfPlace`), and a text that
  stands at a place of the stream stands in the row cut from the ayah of its
  first token to that of its last (`SliceText`, `SpanHolds`).
- *Searches.* Whatever an engine finds are rows of surahs of the corpus in work,
  of its own kind, and a candidate with any of the marks from which the lanes
  call a match exact quotes the query (`Matched`, `Quotes`): its characters
  stand in the row, and a coverage of 95 percent of fewer than twenty tokens is
  all of them (`CoverageHolds`). The marks are measured (`MeasuresQuote`) except by the fast path for very long texts, which sets them
  without measuring: that is where `SpanHolds` is needed.
- *Collections.* A selection lists a citation once, nothing that is excluded,
  and a passage that overlaps no anchor shares no ayah with it (`Beside`,
  `ApartFrom`).

`VerifierInv` says that the searches of the evaluation in work found what is
matched in its corpus for the query (`FoundIn`), that what an evaluated corpus
concluded is made of that (`EvaluatedIn`), that a query under evaluation has
tokens, and that there is no answer before the last step. Without the corpus in
work it is not inductive: candidates of the first corpus, in its spelling, would
be judged as rows of the second.

**TopicalSearch** (`StrongTopicsAreAnswered`, `SureTopicsAreKept`), for any records, taxonomy,
concepts, aliases, similarities, canonical forms and requests, any sizes of the
searches and the pool and any selection of at least one
(`RecordsAssumption`, `LeavesAssumption`, `ConceptsAssumption`,
`RequestsAssumption`, `SearchSizeAssumption`, `MaxResultsAssumption`: records
are finitely many and their density is a share, lists are lists, sizes are
naturals). Whatever the engine ranks, whichever lane fails:

- *Lists.* Sorting, keeping, cutting, fusing and removing repetitions preserve
  items (`SortedRange`, `KeptRange`, `TopRange`, `DistinctRange`,
  `CombinedFound`), each by the least step at which it would not (`Steps`,
  `Recursion`); the selection takes something whenever anything passes
  (`SelectedRange`).
- *Scores.* A central saying of the Prophet on the resolved topic is a find that
  was anchored and hits the topic (`StrongScores`). The rerank gives it at least
  .465 with every overlap of words at its worst (`StrongRerank`), the selection
  at least .64, or .48 in a thematic family, with every bonus at its worst, and
  these are the highest thresholds it can meet (`StrongPasses`,
  `ReachedThresholds`). Outside thematic families the bound leaves .0077 above
  the threshold of prophetic guidance.
- *Gate.* What passes a selection that is strict is central and answerable
  enough, and an index find that is central was anchored, so it is neither
  incidental nor too specific (`PassingGated`). The saying itself may be left
  out of a full selection; what took its place passes as well.

`StrongInv` carries this along the search: lists are read, a sure topic is among
the topics of the query and only on the path of the Bukhari index, the pool
holds finds of that topic and later their ranks, and at the gate the selection
holds one that passes.

`SureTopicsAreKept` is the part of `SelectedOnTopic` for which the vocabulary
does not matter: outside the thematic families whatever is selected for a sure
topic carries a topic of the query in the index. The selector lets a candidate
of another topic through when it is outstanding; the proof shows that no find of
the index is, as only those of the resolved topic reach an answerability of .86.

Only model-checked:

- Liveness (`SavesEnd`, `EveryRequestEnds`, `RunsEnd`) and fairness, which the
  prover does not reach.
- `QuotesAreRecognized`, the converse of `ExactIsQuoted`: that no score and no
  early stop loses a text depends on the values of the scores and
  thresholds, and for arbitrary constants it is false (a shortlist of no rows
  finds nothing).
- The rest of `SelectedOnTopic`, which needs more of the constants than their shape. For
  arbitrary words it is false: a topic can be resolved from a word whose
  canonical form is generic, or a concept be linked by a similarity that no
  record shows, and then nothing significant of the question is left that a
  selected hadith could share. The run has it for one vocabulary.
- The violated properties are, of course, not theorems.

## 5. Not modelled, and the plan

Worth proving next, in order of weight:

1. `SelectedOnTopic` of the topical search (what the gate lets through was
   scored on a topic of the query), under assumptions that link stop words,
   generic words, synonyms and similarity, yet to be read off the word lists.

Worth modelling next: the cursor inside long tafsir sections, supplied hadith
anchors and clarification turns in `Followups`; the guards under which a hosted
rewrite of a query is taken.

Outside the project:

- Recognition of a first text as one of the routes: regular expressions over
  words (`heuristics.py`, most of `classifier.py`), with no state.
- Wording: the renderers, the payloads, citations, catalogs of phrases.
- The downloader and the parsing of sources: they write files and rows once.
- HTTP serialization, evaluation scripts, schemas and migrations of the
  database, vendored data and tests.
- Code that nothing calls: `candidate_generation_previous.py`, the record
  builders of the first index version, `confidence_policy.py`, the optional
  reranker of a provider.
