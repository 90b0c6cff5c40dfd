-------------------------- MODULE TopicalEnrichment --------------------------
(***************************************************************************)
(* The runs that enrich the hadith collection with topics                  *)
(* (pipelines/hadith_topical/enrichment).  Both scripts work on one output *)
(* file, which is only ever replaced as a whole, by a rename.              *)
(*                                                                         *)
(* enrich_hadiths.py asks a language model about every pending record in a *)
(* pool of threads; the main thread collects the answers in the order in   *)
(* which they come and writes the file every CheckpointEvery of them.      *)
(* enrich_rulebased.py decides without a model, in a loop with one write   *)
(* at the end.  A run may be killed at any moment.  Operators run one at a *)
(* time: nothing in the code keeps two from overwriting each other.        *)
(*                                                                         *)
(* What a decision is, TopicDecision says; here a record is only known by  *)
(* who decided it.                                                         *)
(***************************************************************************)
EXTENDS TopicDecision

CONSTANTS
  Corpus,            \* the number of records that are no stubs, in file order
  Concurrency,       \* threads of the pool
  CheckpointEvery    \* collected answers between two writes

ASSUME CorpusAssumption == Corpus \in Nat
ASSUME PoolAssumption == Concurrency \in Nat \ {0} /\ CheckpointEvery \in Nat \ {0}

Id == 1 .. Corpus
Absent == "absent"
ByModel == "model"
ByRules == "rules"
Record == {Absent, ByModel, ByRules}

LlmMode == {"resume", "force", "upgrade"}
RuleMode == {"fill", "force", "overwrite"}

VARIABLES
  file,              \* the output file
  job,               \* the run in progress
  exit               \* how the last run ended

runVars == <<file, job, exit>>

NoJob == [kind |-> "none", mode |-> "none", read |-> TRUE, records |-> [i \in Id |-> Absent],
          todo |-> {}, asked |-> {}, done |-> {}, failed |-> {},
          collected |-> {}, since |-> 0]

(* read: the run has what the file held in memory.                          *)
(* asked are in a thread of the pool, done and failed are finished futures  *)
(* that the main thread has not collected yet.                              *)
Job == [kind : {"none", ByModel, ByRules},
        mode : LlmMode \cup RuleMode \cup {"none"},
        read : BOOLEAN,
        records : [Id -> Record],
        todo : SUBSET Id, asked : SUBSET Id, done : SUBSET Id, failed : SUBSET Id,
        collected : SUBSET Id, since : 0 .. CheckpointEvery]

RunTypeOK ==
  /\ file \in [Id -> Record]
  /\ job \in Job
  /\ exit \in {"none", "done", "killed"}
  /\ Cardinality(job.asked) <= Concurrency

EnrichmentInit ==
  /\ file = [i \in Id |-> Absent]
  /\ job = NoJob
  /\ exit = "none"

-----------------------------------------------------------------------------
(* Mutant: the run starts from an empty output, whatever its mode.          *)
ExistingForgotten(mode, readable) == [i \in Id |-> Absent]

(* A forced run does not look at the output.  The others start fresh, too,  *)
(* when it cannot be read or parsed, and only log that.                     *)
Existing(mode, readable) ==
  IF mode # "force" /\ readable THEN file ELSE [i \in Id |-> Absent]

(* Mutant: records that are in the output are asked for again.              *)
PendingOfAll(mode, existing) == Id

LlmPending(mode, existing) ==
  {i \in Id : existing[i] = Absent \/ (mode = "upgrade" /\ existing[i] = ByRules)}

(* The first n pending records; no limit is a limit of Corpus.              *)
Limited(S, n) == {i \in S : Cardinality({k \in S : k < i}) < n}

Starting(kind, mode, readable, pending) ==
  /\ job.kind = "none"
  /\ pending # {}
  /\ job' = [NoJob EXCEPT !.kind = kind, !.mode = mode,
                          !.read = (mode # "force" /\ readable),
                          !.records = Existing(mode, readable),
                          !.todo = pending]
  /\ exit' = "none"
  /\ UNCHANGED file

StartLlm(mode, readable, limit) ==
  Starting(ByModel, mode, readable, Limited(LlmPending(mode, Existing(mode, readable)), limit))

(* A thread of the pool takes the next record: futures start in order.      *)
Begin(i) ==
  /\ job.kind = ByModel
  /\ i \in job.todo /\ \A k \in job.todo : i <= k
  /\ Cardinality(job.asked) < Concurrency
  /\ job' = [job EXCEPT !.todo = @ \ {i}, !.asked = @ \cup {i}]
  /\ UNCHANGED <<file, exit>>

(* enrich_one returns a decision or an abstention, or it raises once the    *)
(* retries of call_with_retry are exhausted.                                *)
Finish(i, ok) ==
  /\ i \in job.asked
  /\ job' = [job EXCEPT !.asked = @ \ {i},
                        !.done = IF ok THEN @ \cup {i} ELSE @,
                        !.failed = IF ok THEN @ ELSE @ \cup {i}]
  /\ UNCHANGED <<file, exit>>

(* Mutant: a checkpoint comes one answer too late.                          *)
CheckpointLate(since) == since > CheckpointEvery
CheckpointDue(since) == since >= CheckpointEvery

(* The loop over as_completed, in the lock, which only this loop takes.     *)
Collect(i) ==
  /\ ~ CheckpointDue(job.since)
  /\ i \in job.done
  /\ job' = [job EXCEPT !.done = @ \ {i}, !.records[i] = ByModel,
                        !.collected = @ \cup {i}, !.since = @ + 1]
  /\ UNCHANGED <<file, exit>>

(* Mutant: the loop waits until every record has been enriched.             *)
FailuresRetried(i) ==
  /\ i \in job.failed
  /\ job' = [job EXCEPT !.failed = @ \ {i}, !.todo = @ \cup {i}]
  /\ UNCHANGED <<file, exit>>

CollectFailure(i) ==
  /\ ~ CheckpointDue(job.since)
  /\ i \in job.failed
  /\ job' = [job EXCEPT !.failed = @ \ {i}]
  /\ UNCHANGED <<file, exit>>

(* Once enough were collected the loop writes before it goes on; the rename *)
(* at the end of the write is what changes the file.                        *)
Checkpoint ==
  /\ job.kind = ByModel
  /\ CheckpointDue(job.since)
  /\ file' = job.records
  /\ job' = [job EXCEPT !.since = 0]
  /\ UNCHANGED exit

LastWrite == job.records

Complete ==
  /\ job.kind = ByModel
  /\ ~ CheckpointDue(job.since)
  /\ job.todo \cup job.asked \cup job.done \cup job.failed = {}
  /\ file' = LastWrite
  /\ job' = NoJob
  /\ exit' = "done"

-----------------------------------------------------------------------------
RulePending(mode, existing) ==
  IF mode = "overwrite" THEN Id ELSE {i \in Id : existing[i] = Absent}

StartRules(mode, readable, limit) ==
  Starting(ByRules, mode, readable, Limited(RulePending(mode, Existing(mode, readable)), limit))

(* The loop keeps what it decides in memory, so until its only write it can *)
(* be taken as one step.                                                    *)
CompleteRules ==
  /\ job.kind = ByRules
  /\ file' = [i \in Id |-> IF i \in job.todo THEN ByRules ELSE job.records[i]]
  /\ job' = NoJob
  /\ exit' = "done"

(* The process is killed; the file stays as the last rename left it.        *)
KillRun ==
  /\ job.kind # "none"
  /\ job' = NoJob
  /\ exit' = "killed"
  /\ UNCHANGED file

Work ==
  \/ \E i \in Id : \/ Begin(i) \/ Finish(i, TRUE) \/ Finish(i, FALSE)
                   \/ Collect(i) \/ CollectFailure(i)
  \/ Checkpoint
  \/ Complete
  \/ CompleteRules

EnrichmentNext ==
  \/ \E readable \in BOOLEAN, limit \in 1 .. Corpus :
       \/ \E mode \in LlmMode : StartLlm(mode, readable, limit)
       \/ \E mode \in RuleMode : StartRules(mode, readable, limit)
  \/ Work
  \/ KillRun

(* A request to the model has a timeout and a bounded number of retries, so *)
(* every thread of the pool gets done.                                      *)
EnrichmentSpec ==
  EnrichmentInit /\ [][EnrichmentNext]_runVars /\ WF_runVars(Work)

-----------------------------------------------------------------------------
(* A run that has read the output never loses a record of it, whatever it   *)
(* was told to do and however far it got: what earlier runs wrote is in     *)
(* every version of the file, and only a run told to overwrite lets rules   *)
(* replace a model.  And every run that ends has all its answers in the     *)
(* file, those since the last checkpoint included.                          *)
RecordsKept ==
  [][/\ job.read => \A i \in Id :
          /\ file[i] # Absent => file'[i] # Absent
          /\ file[i] = ByModel /\ file'[i] # ByModel => job.mode = "overwrite"
     /\ exit # "done" /\ exit' = "done" =>
          \A i \in job.collected : file'[i] = ByModel]_runVars

(* enrich_hadiths.py:34 says that a crash loses at most as many records of  *)
(* work as lie between two checkpoints.  Of the answers that were collected *)
(* that holds, however they and the failures between them come in, also in  *)
(* the middle of a write.                                                   *)
UnsavedBounded ==
  Cardinality({i \in job.collected : file[i] # ByModel}) <= CheckpointEvery

(* Resuming never pays the model twice: what a run that has read the output *)
(* still wants to ask is not answered in the file, not even by its own      *)
(* checkpoints.                                                             *)
NothingAskedTwice ==
  job.kind = ByModel /\ job.read =>
    \A i \in job.todo \cup job.asked \cup job.done : file[i] # ByModel

Stored == \E i \in Id : file[i] # Absent

(* Whatever the model answers and whatever the rules find, the decisions    *)
(* that are stored name leaves of the taxonomy only, none of them twice,    *)
(* and are either decisions or abstentions with a reason.                   *)
DecisionsWellFormed == Stored => AllWellFormed

(* Every run ends, whatever requests fail.                                  *)
RunsEnd == job.kind # "none" ~> job.kind = "none"
=============================================================================
