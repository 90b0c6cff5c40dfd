--------------------------- MODULE TopicalProofs ---------------------------
(***************************************************************************)
(* What the scripts of the topical data pipeline and the topical search    *)
(* keep.  First the runs that enrich the records, for any number of        *)
(* records, any size of the pool and any distance between two checkpoints. *)
(* Then ingestion, migration, backfill, builds and cutover, for any number *)
(* of hadiths, versions and ingestions, and for any pairs of scripts that  *)
(* run at the same time.  At the end the search: which questions are        *)
(* answered, and with what, for any index.                                  *)
(***************************************************************************)
EXTENDS TopicalEnrichment, TopicalPipeline, TopicalSearch, FiniteSetTheorems, SequenceTheorems,
        WellFoundedInduction, TLAPS

(* Only the script that asks the model has a pool, and collects from it.    *)
PoolAsksModel ==
  /\ job.asked \cup job.done \cup job.failed \cup job.collected # {} => job.kind = ByModel
  /\ job.kind = ByModel => job.mode \in LlmMode
  /\ job.kind = ByRules => job.mode \in RuleMode
  /\ job.kind # "none" /\ job.read => job.mode # "force"

(* A record is at one place of its way through the pool.                    *)
OnePlace ==
  job.todo \cap job.asked = {} /\ job.todo \cap job.done = {} /\ job.asked \cap job.done = {}

(* What was collected is in memory, and as much of it may be missing in the *)
(* file as was collected since the last checkpoint.                         *)
CollectedInMemory == \A i \in job.collected : job.records[i] = ByModel

Unsaved == {i \in job.collected : file[i] # ByModel}
UnsavedCounted == Cardinality(Unsaved) <= job.since

(* What a run that read the file has in memory is no worse than the file.   *)
MemoryKeepsFile ==
  job.kind # "none" /\ job.read =>
    \A i \in Id : /\ file[i] # Absent => job.records[i] # Absent
                  /\ file[i] = ByModel => job.records[i] = ByModel

(* What a run still asks, or fills in by rules, was not there.              *)
AsksUnanswered ==
  /\ job.kind = ByModel =>
       \A i \in job.todo \cup job.asked \cup job.done : job.records[i] # ByModel
  /\ job.kind = ByRules /\ job.mode # "overwrite" =>
       \A i \in job.todo : job.records[i] = Absent

RunInv ==
  /\ RunTypeOK
  /\ PoolAsksModel
  /\ OnePlace
  /\ CollectedInMemory
  /\ UnsavedCounted
  /\ MemoryKeepsFile
  /\ AsksUnanswered

-----------------------------------------------------------------------------
LEMMA IdFinite ==
  ASSUME NEW S \in SUBSET Id
  PROVE  IsFiniteSet(S) /\ Cardinality(S) \in Nat
<1>1. IsFiniteSet(Id)
  BY CorpusAssumption, FS_Interval DEF Id
<1> QED
  BY <1>1, FS_Subset, FS_CardinalityType

LEMMA JobFields ==
  ASSUME RunTypeOK
  PROVE  /\ job.kind \in {"none", ByModel, ByRules}
         /\ job.mode \in LlmMode \cup RuleMode \cup {"none"}
         /\ job.records \in [Id -> Record]
         /\ job.todo \in SUBSET Id /\ job.asked \in SUBSET Id /\ job.done \in SUBSET Id
         /\ job.failed \in SUBSET Id /\ job.collected \in SUBSET Id
         /\ job.read \in BOOLEAN
         /\ job.since \in Nat /\ job.since <= CheckpointEvery
BY PoolAssumption DEF RunTypeOK, Job

(* A run without work, with which a run starts and to which it comes back.  *)
LEMMA Idle ==
  /\ NoJob \in Job
  /\ NoJob.kind = "none" /\ NoJob.todo = {} /\ NoJob.asked = {} /\ NoJob.done = {}
  /\ NoJob.failed = {} /\ NoJob.collected = {} /\ NoJob.since = 0 /\ NoJob.read
<1>1. 0 \in 0 .. CheckpointEvery
  BY PoolAssumption
<1> QED
  BY <1>1 DEF NoJob, Job, Record

LEMMA NoJobSound ==
  ASSUME file' \in [Id -> Record], job' = NoJob, exit' \in {"none", "done", "killed"}
  PROVE  RunInv'
<1>1. 0 < CheckpointEvery /\ 0 <= Concurrency
  BY PoolAssumption
<1>2. job'.kind # ByModel /\ job'.kind # ByRules
  BY Idle DEF ByModel, ByRules
<1>3. Cardinality(job'.asked) = 0 /\ Cardinality(Unsaved') = 0
  <2>1. job'.asked = {} /\ Unsaved' = {}
    BY Idle DEF Unsaved
  <2> QED
    BY <2>1, FS_EmptySet
<1>4. RunTypeOK'
  BY <1>1, <1>3, Idle DEF RunTypeOK
<1> QED
  BY <1>2, <1>3, <1>4, Idle
     DEF RunInv, PoolAsksModel, OnePlace, CollectedInMemory, UnsavedCounted,
         MemoryKeepsFile, AsksUnanswered

LEMMA InitSound == EnrichmentInit => RunInv
<1> SUFFICES ASSUME EnrichmentInit PROVE RunInv
  OBVIOUS
<1>1. 0 < CheckpointEvery /\ 0 <= Concurrency
  BY PoolAssumption
<1>2. job.kind # ByModel /\ job.kind # ByRules /\ job.kind = "none"
  BY Idle DEF EnrichmentInit, ByModel, ByRules
<1>3. Cardinality(job.asked) = 0 /\ Cardinality(Unsaved) = 0
  <2>1. job.asked = {} /\ Unsaved = {}
    BY Idle DEF Unsaved, EnrichmentInit
  <2> QED
    BY <2>1, FS_EmptySet
<1>4. RunTypeOK
  BY <1>1, <1>3, Idle DEF RunTypeOK, EnrichmentInit, Record
<1> QED
  BY <1>2, <1>3, <1>4, Idle
     DEF RunInv, PoolAsksModel, OnePlace, CollectedInMemory, UnsavedCounted,
         MemoryKeepsFile, AsksUnanswered, EnrichmentInit

-----------------------------------------------------------------------------
(* A run starts with the file in memory, or with nothing, and only wants    *)
(* records that are not answered in memory.                                 *)
LEMMA ExistingKept ==
  ASSUME RunTypeOK, NEW mode, NEW readable
  PROVE  /\ Existing(mode, readable) \in [Id -> Record]
         /\ mode # "force" /\ readable => Existing(mode, readable) = file
BY DEF Existing, RunTypeOK, Record

LEMMA LimitedSubset ==
  ASSUME NEW S \in SUBSET Id, NEW n
  PROVE  Limited(S, n) \in SUBSET S
BY DEF Limited

LEMMA PendingUnanswered ==
  ASSUME NEW mode, NEW existing
  PROVE  /\ LlmPending(mode, existing) \in SUBSET Id
         /\ \A i \in LlmPending(mode, existing) : existing[i] # ByModel
         /\ RulePending(mode, existing) \in SUBSET Id
         /\ mode # "overwrite" => \A i \in RulePending(mode, existing) : existing[i] = Absent
BY DEF LlmPending, RulePending, Absent, ByModel, ByRules

LEMMA StartSound ==
  ASSUME RunTypeOK, NEW kind \in {ByModel, ByRules},
         NEW mode \in IF kind = ByModel THEN LlmMode ELSE RuleMode,
         NEW readable \in BOOLEAN,
         NEW pending \in SUBSET Id,
         kind = ByModel => \A i \in pending : Existing(mode, readable)[i] # ByModel,
         kind = ByRules /\ mode # "overwrite" =>
           \A i \in pending : Existing(mode, readable)[i] = Absent,
         Starting(kind, mode, readable, pending)
  PROVE  RunInv'
<1> DEFINE read == mode # "force" /\ readable
<1>0. /\ job' = [NoJob EXCEPT !.kind = kind, !.mode = mode, !.read = read,
                              !.records = Existing(mode, readable), !.todo = pending]
      /\ exit' = "none" /\ file' = file
  BY DEF Starting
<1>9. read \in BOOLEAN /\ (read => mode # "force" /\ Existing(mode, readable) = file)
  BY ExistingKept
<1> HIDE DEF read
<1>1. /\ job' \in Job
      /\ job'.kind = kind /\ job'.mode = mode /\ job'.read = read
      /\ job'.records = Existing(mode, readable)
      /\ job'.todo = pending /\ job'.asked = {} /\ job'.done = {} /\ job'.failed = {}
      /\ job'.collected = {} /\ job'.since = 0
  <2>1. mode \in LlmMode \cup RuleMode \cup {"none"}
    OBVIOUS
  <2>2. kind \in {"none", ByModel, ByRules}
    OBVIOUS
  <2> QED
    BY <1>0, <1>9, <2>1, <2>2, Idle, ExistingKept DEF Job
<1>2. Cardinality(job'.asked) = 0 /\ Cardinality(Unsaved') = 0
  <2>1. job'.asked = {} /\ Unsaved' = {}
    BY <1>1 DEF Unsaved
  <2> QED
    BY <2>1, FS_EmptySet
<1>3. 0 < CheckpointEvery /\ 0 <= Concurrency
  BY PoolAssumption
<1>4. RunTypeOK'
  BY <1>0, <1>1, <1>2, <1>3 DEF RunTypeOK
<1>5. ByModel # ByRules
  BY DEF ByModel, ByRules
<1>6. PoolAsksModel' /\ OnePlace' /\ CollectedInMemory' /\ UnsavedCounted'
  BY <1>1, <1>2, <1>5, <1>9 DEF PoolAsksModel, OnePlace, CollectedInMemory, UnsavedCounted
<1>7. MemoryKeepsFile'
  BY <1>0, <1>1, <1>9 DEF MemoryKeepsFile
<1>8. AsksUnanswered'
  BY <1>1, <1>5 DEF AsksUnanswered
<1> QED
  BY <1>4, <1>6, <1>7, <1>8 DEF RunInv

(* Taking a record, and what comes of asking, moves it through the pool and *)
(* touches neither the file nor what was collected.                         *)
LEMMA PoolMove ==
  ASSUME RunInv, file' = file, exit' = exit,
         NEW todo \in SUBSET Id, NEW asked \in SUBSET Id, NEW done \in SUBSET Id,
         NEW failed \in SUBSET Id,
         Cardinality(asked) <= Concurrency,
         todo \cup asked \cup done \subseteq job.todo \cup job.asked \cup job.done,
         todo \cap asked = {}, todo \cap done = {}, asked \cap done = {},
         job.kind = ByModel,
         job' = [job EXCEPT !.todo = todo, !.asked = asked, !.done = done, !.failed = failed]
  PROVE  RunInv'
<1>1. RunTypeOK
  BY DEF RunInv
<1>2. /\ job' \in Job
      /\ job'.kind = job.kind /\ job'.mode = job.mode /\ job'.records = job.records
      /\ job'.read = job.read
      /\ job'.todo = todo /\ job'.asked = asked /\ job'.done = done
      /\ job'.collected = job.collected /\ job'.since = job.since
  BY <1>1 DEF RunTypeOK, Job
<1>3. RunTypeOK'
  BY <1>1, <1>2 DEF RunTypeOK
<1>4. ByModel # ByRules
  BY DEF ByModel, ByRules
<1>5. Unsaved' = Unsaved
  BY <1>2 DEF Unsaved
<1>6. PoolAsksModel' /\ OnePlace' /\ CollectedInMemory' /\ UnsavedCounted'
  BY <1>2, <1>4, <1>5
     DEF RunInv, PoolAsksModel, OnePlace, CollectedInMemory, UnsavedCounted
<1>7. MemoryKeepsFile' /\ AsksUnanswered'
  BY <1>2, <1>4 DEF RunInv, MemoryKeepsFile, AsksUnanswered
<1> QED
  BY <1>3, <1>6, <1>7 DEF RunInv

LEMMA BeginSound ==
  ASSUME RunInv, NEW i \in Id, Begin(i)
  PROVE  RunInv'
<1>1. RunTypeOK /\ OnePlace
  BY DEF RunInv
<1> DEFINE todo == job.todo \ {i}
           asked == job.asked \cup {i}
<1>2. job.asked \in SUBSET Id /\ IsFiniteSet(job.asked) /\ Cardinality(job.asked) \in Nat
  BY <1>1, JobFields, IdFinite
<1>3. Cardinality(asked) <= Concurrency
  <2>1. Cardinality(asked) \in {Cardinality(job.asked), Cardinality(job.asked) + 1}
    BY <1>2, FS_AddElement
  <2>2. Cardinality(job.asked) < Concurrency
    BY DEF Begin
  <2> QED
    BY <1>2, <2>1, <2>2, PoolAssumption
<1>4. job' = [job EXCEPT !.todo = todo, !.asked = asked, !.done = job.done, !.failed = job.failed]
  BY <1>1 DEF Begin, RunTypeOK, Job
<1>5. /\ todo \in SUBSET Id /\ asked \in SUBSET Id
      /\ todo \cup asked \cup job.done \subseteq job.todo \cup job.asked \cup job.done
      /\ todo \cap asked = {} /\ todo \cap job.done = {} /\ asked \cap job.done = {}
  BY <1>1, JobFields DEF Begin, OnePlace
<1> HIDE DEF todo, asked
<1> QED
  BY <1>1, <1>3, <1>4, <1>5, JobFields, PoolMove DEF Begin

LEMMA FinishSound ==
  ASSUME RunInv, NEW i \in Id, NEW ok \in BOOLEAN, Finish(i, ok)
  PROVE  RunInv'
<1>1. RunTypeOK /\ OnePlace /\ PoolAsksModel
  BY DEF RunInv
<1> DEFINE asked == job.asked \ {i}
           done == IF ok THEN job.done \cup {i} ELSE job.done
           failed == IF ok THEN job.failed ELSE job.failed \cup {i}
<1>2. job.asked \in SUBSET Id /\ IsFiniteSet(job.asked) /\ Cardinality(job.asked) \in Nat
  BY <1>1, JobFields, IdFinite
<1>3. Cardinality(asked) <= Concurrency
  <2>1. Cardinality(asked) \in {Cardinality(job.asked), Cardinality(job.asked) - 1}
    BY <1>2, FS_RemoveElement
  <2>2. Cardinality(job.asked) <= Concurrency
    BY <1>1 DEF RunTypeOK
  <2> QED
    BY <1>2, <2>1, <2>2, PoolAssumption
<1>4. job' = [job EXCEPT !.todo = job.todo, !.asked = asked, !.done = done, !.failed = failed]
  BY <1>1 DEF Finish, RunTypeOK, Job
<1>5. /\ asked \in SUBSET Id /\ done \in SUBSET Id /\ failed \in SUBSET Id
      /\ job.todo \cup asked \cup done \subseteq job.todo \cup job.asked \cup job.done
      /\ job.todo \cap asked = {} /\ job.todo \cap done = {} /\ asked \cap done = {}
  BY <1>1, JobFields DEF Finish, OnePlace
<1>6. job.kind = ByModel
  BY <1>1 DEF PoolAsksModel, Finish
<1> HIDE DEF asked, done, failed
<1> QED
  BY <1>1, <1>3, <1>4, <1>5, <1>6, JobFields, PoolMove DEF Finish

LEMMA CollectFailureSound ==
  ASSUME RunInv, NEW i \in Id, CollectFailure(i)
  PROVE  RunInv'
<1>1. RunTypeOK /\ OnePlace /\ PoolAsksModel
  BY DEF RunInv
<1> DEFINE failed == job.failed \ {i}
<1>2. job' = [job EXCEPT !.todo = job.todo, !.asked = job.asked, !.done = job.done,
                         !.failed = failed]
  BY <1>1 DEF CollectFailure, RunTypeOK, Job
<1>3. job.kind = ByModel
  BY <1>1 DEF PoolAsksModel, CollectFailure
<1>4. failed \in SUBSET Id /\ Cardinality(job.asked) <= Concurrency
  BY <1>1, JobFields DEF RunTypeOK
<1> HIDE DEF failed
<1> QED
  BY <1>1, <1>2, <1>3, <1>4, JobFields, PoolMove DEF CollectFailure, OnePlace

(* A collected answer is in memory and counted.                             *)
LEMMA CollectEffect ==
  ASSUME RunInv, NEW i \in Id, Collect(i)
  PROVE  LET records == [job.records EXCEPT ![i] = ByModel]
         IN  /\ records \in [Id -> Record] /\ records[i] = ByModel
             /\ \A k \in Id : k # i => records[k] = job.records[k]
             /\ job' \in Job
             /\ job'.kind = job.kind /\ job'.mode = job.mode /\ job'.records = records
             /\ job'.read = job.read
             /\ job'.todo = job.todo /\ job'.asked = job.asked
             /\ job'.done = job.done \ {i} /\ job'.failed = job.failed
             /\ job'.collected = job.collected \cup {i}
             /\ job'.since = job.since + 1
<1> DEFINE records == [job.records EXCEPT ![i] = ByModel]
<1>1. RunTypeOK
  BY DEF RunInv
<1>2. records \in [Id -> Record] /\ records[i] = ByModel
      /\ \A k \in Id : k # i => records[k] = job.records[k]
  BY <1>1, JobFields DEF Record
<1>3. job.since + 1 \in 0 .. CheckpointEvery
  BY <1>1, JobFields, PoolAssumption DEF Collect, CheckpointDue
<1>4. job' = [job EXCEPT !.done = @ \ {i}, !.records = records,
                         !.collected = @ \cup {i}, !.since = job.since + 1]
  BY <1>1 DEF Collect, RunTypeOK, Job
<1> HIDE DEF records
<1> QED
  BY <1>1, <1>2, <1>3, <1>4 DEF RunTypeOK, Job, records

LEMMA CollectSound ==
  ASSUME RunInv, NEW i \in Id, Collect(i)
  PROVE  RunInv'
<1> DEFINE records == [job.records EXCEPT ![i] = ByModel]
<1>0. /\ RunTypeOK /\ PoolAsksModel /\ OnePlace /\ CollectedInMemory /\ UnsavedCounted
      /\ MemoryKeepsFile /\ AsksUnanswered
  BY DEF RunInv
<1>1. /\ records \in [Id -> Record] /\ records[i] = ByModel
      /\ \A k \in Id : k # i => records[k] = job.records[k]
      /\ job' \in Job
      /\ job'.kind = job.kind /\ job'.mode = job.mode /\ job'.records = records
      /\ job'.read = job.read
      /\ job'.todo = job.todo /\ job'.asked = job.asked
      /\ job'.done = job.done \ {i} /\ job'.failed = job.failed
      /\ job'.collected = job.collected \cup {i}
      /\ job'.since = job.since + 1 /\ file' = file /\ exit' = exit
  BY CollectEffect DEF Collect
<1> HIDE DEF records
<1>2. job.kind = ByModel /\ ByModel # ByRules /\ ByModel # Absent /\ i \in job.done
  BY <1>0 DEF PoolAsksModel, Collect, ByModel, ByRules, Absent
<1>4. RunTypeOK'
  BY <1>0, <1>1 DEF RunTypeOK
<1>5. PoolAsksModel' /\ OnePlace'
  BY <1>0, <1>1, <1>2 DEF PoolAsksModel, OnePlace
<1>6. CollectedInMemory'
  BY <1>0, <1>1, JobFields DEF CollectedInMemory
<1>7. UnsavedCounted'
  <2>1. Unsaved \in SUBSET Id /\ Unsaved' \subseteq Unsaved \cup {i}
    BY <1>0, <1>1, JobFields DEF Unsaved
  <2>2. /\ IsFiniteSet(Unsaved) /\ Cardinality(Unsaved) \in Nat
        /\ IsFiniteSet(Unsaved \cup {i})
        /\ Cardinality(Unsaved \cup {i}) \in {Cardinality(Unsaved), Cardinality(Unsaved) + 1}
    BY <2>1, IdFinite, FS_AddElement
  <2>3. Cardinality(Unsaved') <= Cardinality(Unsaved \cup {i})
    BY <2>1, <2>2, FS_Subset
  <2>4. Cardinality(Unsaved') \in Nat
    <3>1. Unsaved' \in SUBSET Id
      BY <2>1
    <3> QED
      BY <3>1, IdFinite
  <2>5. Cardinality(Unsaved') <= job.since + 1
    BY <1>0, <2>2, <2>3, <2>4, JobFields DEF UnsavedCounted
  <2> QED
    BY <1>1, <2>5 DEF UnsavedCounted
<1>8. MemoryKeepsFile'
  BY <1>0, <1>1, <1>2 DEF MemoryKeepsFile
<1>9. AsksUnanswered'
  <2>1. /\ i \notin job'.todo \cup job'.asked \cup job'.done
        /\ job'.todo \cup job'.asked \cup job'.done \in SUBSET Id
    BY <1>0, <1>1, <1>2, JobFields DEF OnePlace
  <2> QED
    BY <1>0, <1>1, <1>2, <2>1 DEF AsksUnanswered
<1> QED
  BY <1>4, <1>5, <1>6, <1>7, <1>8, <1>9 DEF RunInv

(* A checkpoint brings the file up to what is in memory.                    *)
LEMMA CheckpointSound ==
  ASSUME RunInv, Checkpoint
  PROVE  RunInv'
<1>0. /\ RunTypeOK /\ PoolAsksModel /\ OnePlace /\ CollectedInMemory /\ AsksUnanswered
  BY DEF RunInv
<1>1. /\ job' = [job EXCEPT !.since = 0] /\ file' = job.records /\ exit' = exit
  BY DEF Checkpoint
<1>2. /\ job' \in Job
      /\ job'.kind = job.kind /\ job'.mode = job.mode /\ job'.records = job.records
      /\ job'.read = job.read /\ job'.todo = job.todo /\ job'.asked = job.asked
      /\ job'.done = job.done /\ job'.failed = job.failed
      /\ job'.collected = job.collected /\ job'.since = 0
  <2>1. 0 \in 0 .. CheckpointEvery
    BY PoolAssumption
  <2> QED
    BY <1>0, <1>1, <2>1 DEF RunTypeOK, Job
<1>3. RunTypeOK'
  BY <1>0, <1>1, <1>2, JobFields DEF RunTypeOK
<1>4. PoolAsksModel' /\ OnePlace' /\ CollectedInMemory' /\ AsksUnanswered'
  BY <1>0, <1>2 DEF PoolAsksModel, OnePlace, CollectedInMemory, AsksUnanswered
<1>5. UnsavedCounted'
  <2>1. Unsaved' = {}
    BY <1>0, <1>1, <1>2 DEF Unsaved, CollectedInMemory
  <2> QED
    BY <1>2, <2>1, FS_EmptySet DEF UnsavedCounted
<1>6. MemoryKeepsFile'
  BY <1>1, <1>2 DEF MemoryKeepsFile
<1> QED
  BY <1>3, <1>4, <1>5, <1>6 DEF RunInv

LEMMA EndSound ==
  ASSUME RunInv, Complete \/ CompleteRules \/ KillRun
  PROVE  RunInv'
<1>1. RunTypeOK
  BY DEF RunInv
<1>2. CASE Complete
  BY <1>1, <1>2, JobFields, NoJobSound DEF Complete, LastWrite
<1>3. CASE CompleteRules
  <2>1. file' \in [Id -> Record]
    BY <1>1, <1>3, JobFields DEF CompleteRules, Record
  <2> QED
    BY <1>3, <2>1, NoJobSound DEF CompleteRules
<1>4. CASE KillRun
  <2>1. file' \in [Id -> Record]
    BY <1>1, <1>4 DEF KillRun, RunTypeOK
  <2> QED
    BY <1>4, <2>1, NoJobSound DEF KillRun
<1> QED
  BY <1>2, <1>3, <1>4

LEMMA StepSound == RunInv /\ [EnrichmentNext]_runVars => RunInv'
<1> SUFFICES ASSUME RunInv, [EnrichmentNext]_runVars PROVE RunInv'
  OBVIOUS
<1>0. RunTypeOK /\ ByModel # ByRules
  BY DEF RunInv, ByModel, ByRules
<1>1. ASSUME NEW mode \in LlmMode, NEW readable \in BOOLEAN, NEW limit \in 1 .. Corpus,
             StartLlm(mode, readable, limit)
      PROVE  RunInv'
  <2> DEFINE existing == Existing(mode, readable)
             pending == Limited(LlmPending(mode, existing), limit)
  <2>1. /\ pending \in SUBSET LlmPending(mode, existing)
        /\ LlmPending(mode, existing) \in SUBSET Id
        /\ \A i \in LlmPending(mode, existing) : existing[i] # ByModel
    BY LimitedSubset, PendingUnanswered
  <2>2. Starting(ByModel, mode, readable, pending)
    BY <1>1 DEF StartLlm
  <2>3. /\ pending \in SUBSET Id /\ \A i \in pending : existing[i] # ByModel
    BY <2>1
  <2> HIDE DEF pending
  <2> QED
    BY <1>0, <2>2, <2>3, StartSound
<1>2. ASSUME NEW mode \in RuleMode, NEW readable \in BOOLEAN, NEW limit \in 1 .. Corpus,
             StartRules(mode, readable, limit)
      PROVE  RunInv'
  <2> DEFINE existing == Existing(mode, readable)
             pending == Limited(RulePending(mode, existing), limit)
  <2>1. /\ pending \in SUBSET RulePending(mode, existing)
        /\ RulePending(mode, existing) \in SUBSET Id
        /\ mode # "overwrite" => \A i \in RulePending(mode, existing) : existing[i] = Absent
    BY LimitedSubset, PendingUnanswered
  <2>2. Starting(ByRules, mode, readable, pending)
    BY <1>2 DEF StartRules
  <2>3. /\ pending \in SUBSET Id
        /\ mode # "overwrite" => \A i \in pending : existing[i] = Absent
    BY <2>1
  <2> HIDE DEF pending
  <2> QED
    BY <1>0, <2>2, <2>3, StartSound
<1>3. CASE Work
  BY <1>3, BeginSound, FinishSound, CollectSound, CollectFailureSound, CheckpointSound, EndSound
     DEF Work
<1>4. CASE KillRun
  BY <1>4, EndSound
<1>5. CASE UNCHANGED runVars
  BY <1>5
     DEF runVars, RunInv, RunTypeOK, PoolAsksModel, OnePlace, CollectedInMemory, UnsavedCounted,
         Unsaved, MemoryKeepsFile, AsksUnanswered
<1> QED
  BY <1>1, <1>2, <1>3, <1>4, <1>5 DEF EnrichmentNext

LEMMA RunsSound == EnrichmentSpec => []RunInv
BY InitSound, StepSound, PTL DEF EnrichmentSpec

-----------------------------------------------------------------------------
(* The file and the run keep their types, and the pool its size.            *)
THEOREM EnrichmentTypes == EnrichmentSpec => []RunTypeOK
<1>1. RunInv => RunTypeOK
  BY DEF RunInv
<1> QED
  BY <1>1, RunsSound, PTL

(* Of the answers that a run has collected no more than CheckpointEvery are *)
(* not in the file, however answers and failures come in.                   *)
THEOREM FewAnswersAtRisk == EnrichmentSpec => []UnsavedBounded
<1>1. RunInv => UnsavedBounded
  <2> SUFFICES ASSUME RunInv PROVE Cardinality(Unsaved) <= CheckpointEvery
    BY DEF UnsavedBounded, Unsaved
  <2>1. RunTypeOK /\ UnsavedCounted
    BY DEF RunInv
  <2>2. Unsaved \in SUBSET Id
    BY <2>1, JobFields DEF Unsaved
  <2>3. Cardinality(Unsaved) \in Nat
    BY <2>2, IdFinite
  <2> QED
    BY <2>1, <2>3, JobFields, PoolAssumption DEF UnsavedCounted
<1> QED
  BY <1>1, RunsSound, PTL

(* No run that read the output asks the model about a record that the file  *)
(* has an answer of.                                                        *)
THEOREM AnswersAskedOnce == EnrichmentSpec => []NothingAskedTwice
<1>1. RunInv => NothingAskedTwice
  BY JobFields, Idle DEF RunInv, NothingAskedTwice, AsksUnanswered, MemoryKeepsFile, ByModel
<1> QED
  BY <1>1, RunsSound, PTL

(* No run that read the output loses a record that was there, none but an   *)
(* overwriting one replaces what the model said, and every run that ends    *)
(* has all its answers in the file.                                         *)
THEOREM EnrichedRecordsKept == EnrichmentSpec => RecordsKept
<1> DEFINE Kept ==
      job.read => \A i \in Id :
        /\ file[i] # Absent => file'[i] # Absent
        /\ file[i] = ByModel /\ file'[i] # ByModel => job.mode = "overwrite"
    Delivered == exit # "done" /\ exit' = "done" => \A i \in job.collected : file'[i] = ByModel
<1>1. RunInv /\ [EnrichmentNext]_runVars => [Kept /\ Delivered]_runVars
  <2> SUFFICES ASSUME RunInv, EnrichmentNext PROVE Kept /\ Delivered
    OBVIOUS
  <2>0. RunTypeOK /\ MemoryKeepsFile /\ AsksUnanswered /\ PoolAsksModel /\ CollectedInMemory
        /\ Absent # ByModel /\ Absent # ByRules /\ ByModel # "none" /\ ByRules # "none"
        /\ ByModel # ByRules
    BY DEF RunInv, Absent, ByModel, ByRules
  <2>1. CASE file' = file /\ (exit' = exit \/ exit' # "done")
    BY <2>1
  <2>2. CASE Checkpoint
    BY <2>0, <2>2 DEF Checkpoint, MemoryKeepsFile, CollectedInMemory
  <2>3. CASE Complete
    BY <2>0, <2>3 DEF Complete, LastWrite, MemoryKeepsFile, CollectedInMemory
  <2>4. CASE CompleteRules
    <3>1. job.kind = ByRules /\ (job.read => job.mode \in {"fill", "overwrite"})
      BY <2>0, <2>4 DEF CompleteRules, PoolAsksModel, RuleMode
    <3>2. \A i \in Id : file'[i] = IF i \in job.todo THEN ByRules ELSE job.records[i]
      BY <2>4 DEF CompleteRules
    <3>3. Kept
      BY <2>0, <3>1, <3>2 DEF MemoryKeepsFile, AsksUnanswered
    <3>4. job.collected = {}
      BY <2>0, <3>1 DEF PoolAsksModel
    <3> QED
      BY <3>3, <3>4
  <2> QED
    BY <2>1, <2>2, <2>3, <2>4
       DEF EnrichmentNext, StartLlm, StartRules, Starting, Work, Begin, Finish, Collect,
           CollectFailure, KillRun
<1> QED
  BY <1>1, RunsSound, PTL DEF EnrichmentSpec, RecordsKept

-----------------------------------------------------------------------------
(* The decisions themselves.                                                *)
(* A finite set in a total order has exactly one member at every place.     *)
LEMMA InOrderLists ==
  ASSUME NEW S, IsFiniteSet(S), NEW order,
         \A x \in S : <<x, x>> \notin order,
         \A x, y, z \in S : <<x, y>> \in order /\ <<y, z>> \in order => <<x, z>> \in order,
         \A x, y \in S : x # y => <<x, y>> \in order \/ <<y, x>> \in order
  PROVE  /\ Cardinality(S) \in Nat
         /\ InOrder(S, order) \in [1 .. Cardinality(S) -> S]
         /\ \A i \in 1 .. Cardinality(S) :
              Cardinality(Before(InOrder(S, order)[i], S, order)) = i - 1
         /\ \A i, j \in 1 .. Cardinality(S) : InOrder(S, order)[i] = InOrder(S, order)[j] => i = j
<1> DEFINE n == Cardinality(S)
           at == [x \in S |-> Cardinality(Before(x, S, order)) + 1]
<1>1. n \in Nat
  BY FS_CardinalityType
<1>2. ASSUME NEW x \in S
      PROVE  /\ IsFiniteSet(Before(x, S, order)) /\ Cardinality(Before(x, S, order)) \in Nat
             /\ Cardinality(Before(x, S, order)) < n
  <2>1. Before(x, S, order) \in SUBSET S /\ x \notin Before(x, S, order)
    BY DEF Before
  <2>2. IsFiniteSet(Before(x, S, order)) /\ Cardinality(Before(x, S, order)) <= n
    BY <2>1, FS_Subset
  <2>3. Cardinality(Before(x, S, order)) \in Nat
    BY <2>2, FS_CardinalityType
  <2>4. Cardinality(Before(x, S, order)) # n
    BY <2>1, FS_Subset
  <2> QED
    BY <1>1, <2>2, <2>3, <2>4
<1>3. ASSUME NEW x \in S, NEW y \in S, <<x, y>> \in order
      PROVE  Cardinality(Before(x, S, order)) < Cardinality(Before(y, S, order))
  <2>1. /\ Before(x, S, order) \cup {x} \in SUBSET Before(y, S, order)
        /\ x \notin Before(x, S, order)
    BY <1>3 DEF Before
  <2>2. Cardinality(Before(x, S, order) \cup {x}) = Cardinality(Before(x, S, order)) + 1
    BY <1>2, <2>1, FS_AddElement
  <2>3. Cardinality(Before(x, S, order) \cup {x}) <= Cardinality(Before(y, S, order))
    BY <1>2, <2>1, FS_Subset
  <2> QED
    BY <1>2, <2>2, <2>3
<1>4. at \in [S -> 1 .. n]
  BY <1>1, <1>2
<1>5. \A x, y \in S : at[x] = at[y] => x = y
  <2> SUFFICES ASSUME NEW x \in S, NEW y \in S, x # y PROVE at[x] # at[y]
    OBVIOUS
  <2>1. <<x, y>> \in order \/ <<y, x>> \in order
    OBVIOUS
  <2> QED
    BY <1>2, <1>3, <2>1
<1>6. at \in Injection(S, 1 .. n)
  BY <1>4, <1>5 DEF Injection, IsInjective
<1>7. IsFiniteSet(1 .. n) /\ Cardinality(1 .. n) = n
  BY <1>1, FS_Interval
<1>8. at \in Surjection(S, 1 .. n)
  BY <1>6, <1>7, FS_Injection
<1>9. ASSUME NEW i \in 1 .. n
      PROVE  \E x \in S : Cardinality(Before(x, S, order)) = i - 1
  <2>1. PICK x \in S : at[x] = i
    BY <1>8 DEF Surjection
  <2> QED
    BY <1>2, <2>1
<1>10. ASSUME NEW i \in 1 .. n
       PROVE  /\ InOrder(S, order)[i] \in S
              /\ Cardinality(Before(InOrder(S, order)[i], S, order)) = i - 1
  BY <1>9 DEF InOrder
<1>11. \A i, j \in 1 .. n : InOrder(S, order)[i] = InOrder(S, order)[j] => i = j
  <2> SUFFICES ASSUME NEW i \in 1 .. n, NEW j \in 1 .. n, InOrder(S, order)[i] = InOrder(S, order)[j]
               PROVE  i = j
    OBVIOUS
  <2>1. i - 1 = j - 1
    BY <1>10
  <2> QED
    BY <1>1, <2>1
<1>12. InOrder(S, order) \in [1 .. n -> S]
  BY <1>10 DEF InOrder
<1> QED
  BY <1>1, <1>10, <1>11, <1>12

(* What the list holds, it holds once; nothing dropped is in it.            *)
LEMMA DedupedLists ==
  ASSUME NEW T, NEW list \in Seq(T), NEW dropped
  PROVE  /\ Deduped(list, dropped) \in Seq(T)
         /\ \A i \in DOMAIN Deduped(list, dropped) :
              /\ Deduped(list, dropped)[i] \notin dropped
              /\ \E k \in DOMAIN list : Deduped(list, dropped)[i] = list[k]
         /\ \A i, j \in DOMAIN Deduped(list, dropped) :
              Deduped(list, dropped)[i] = Deduped(list, dropped)[j] => i = j
<1> DEFINE firsts == {i \in DOMAIN list : list[i] \notin dropped /\ \A k \in 1 .. i - 1 : list[k] # list[i]}
           order == {p \in firsts \X firsts : p[1] < p[2]}
           place == InOrder(firsts, order)
<1>1. DOMAIN list = 1 .. Len(list) /\ Len(list) \in Nat
  OBVIOUS
<1>2. IsFiniteSet(firsts) /\ firsts \in SUBSET Int
  <2>1. IsFiniteSet(1 .. Len(list))
    BY <1>1, FS_Interval
  <2> QED
    BY <1>1, <2>1, FS_Subset
<1>3. /\ \A x \in firsts : <<x, x>> \notin order
      /\ \A x, y, z \in firsts : <<x, y>> \in order /\ <<y, z>> \in order => <<x, z>> \in order
      /\ \A x, y \in firsts : x # y => <<x, y>> \in order \/ <<y, x>> \in order
  <2>1. \A x, y \in firsts : <<x, y>> \in order <=> x < y
    OBVIOUS
  <2>2. \A x \in firsts : x \in Int
    BY <1>2
  <2> HIDE DEF firsts, order
  <2> QED
    BY <2>1, <2>2
<1>4. /\ Cardinality(firsts) \in Nat
      /\ place \in [1 .. Cardinality(firsts) -> firsts]
      /\ \A i, j \in 1 .. Cardinality(firsts) : place[i] = place[j] => i = j
  <2> HIDE DEF firsts, order
  <2> QED
    BY <1>2, <1>3, InOrderLists
<1>5. Deduped(list, dropped) = [i \in 1 .. Cardinality(firsts) |-> list[place[i]]]
  BY <1>4 DEF Deduped
<1>6. \A x, y \in firsts : list[x] = list[y] => x = y
  BY <1>1, <1>2
<1>7. \A x \in firsts : list[x] \notin dropped /\ x \in DOMAIN list /\ list[x] \in T
  BY <1>1
<1> HIDE DEF firsts, place
<1>8. Deduped(list, dropped) \in Seq(T)
  BY <1>4, <1>5, <1>7
<1> QED
  BY <1>4, <1>5, <1>6, <1>7, <1>8

LEMMA LessersLess ==
  ASSUME NEW a \in Nat, NEW b \in Nat
  PROVE  Lesser(a, b) \in Nat /\ Lesser(a, b) <= a /\ Lesser(a, b) <= b
BY DEF Lesser

LEMMA TruncatedLists ==
  ASSUME NEW T, NEW s \in Seq(T), NEW n \in Nat
  PROVE  /\ Truncated(s, n) \in Seq(T) /\ Len(Truncated(s, n)) <= n
         /\ Len(Truncated(s, n)) = Lesser(n, Len(s))
         /\ \A i \in 1 .. Lesser(n, Len(s)) : Truncated(s, n)[i] = s[i]
<1> DEFINE m == Lesser(n, Len(s))
<1>1. m \in Nat /\ m <= n /\ m <= Len(s)
  <2>1. Len(s) \in Nat
    OBVIOUS
  <2> QED
    BY <2>1, LessersLess
<1>2. \A i \in 1 .. m : s[i] \in T
  BY <1>1
<1> HIDE DEF m
<1>3. /\ SubSeq(s, 1, m) \in Seq(T)
      /\ Len(SubSeq(s, 1, m)) = IF 1 <= m THEN m - 1 + 1 ELSE 0
      /\ \A i \in 1 .. m - 1 + 1 : SubSeq(s, 1, m)[i] = s[1 + i - 1]
  BY <1>1, <1>2, SubSeqProperties
<1>4. Truncated(s, n) = SubSeq(s, 1, m)
  BY DEF Truncated, m
<1>5. SubSeq(s, 1, m) \in Seq(T) /\ Len(SubSeq(s, 1, m)) = m
      /\ \A i \in 1 .. m : SubSeq(s, 1, m)[i] = s[i]
  BY <1>1, <1>3
<1> QED
  BY <1>1, <1>4, <1>5 DEF m

(* A slug is corrected to a leaf of the taxonomy or not at all.             *)
LEMMA LayersYieldLeaves ==
  ASSUME NEW layers, DOMAIN layers = 1 .. 7,
         \A i \in 1 .. 7 : layers[i] \in SUBSET Taxonomy,
         \E i \in 1 .. 7 : layers[i] # {}
  PROVE  (CHOOSE t \in layers[LeastOf({i \in DOMAIN layers : layers[i] # {}})] : TRUE) \in Taxonomy
<1> DEFINE filled == {i \in DOMAIN layers : layers[i] # {}}
<1>1. \E x \in filled : \A y \in filled : x <= y
  <2>1. \E i \in 1 .. 7 : i \in filled /\ \A k \in 1 .. 7 : k < i => k \notin filled
    <3>1. \A i \in 1 .. 7 : i \in {1, 2, 3, 4, 5, 6, 7}
      OBVIOUS
    <3>2. \A k \in 1 .. 7 : k \in filled \/ k \notin filled
      OBVIOUS
    <3>3. \E i \in 1 .. 7 : i \in filled
      OBVIOUS
    <3> HIDE DEF filled
    <3>4. 1 \in 1 .. 7 /\ 2 \in 1 .. 7 /\ 3 \in 1 .. 7 /\ 4 \in 1 .. 7 /\ 5 \in 1 .. 7 /\ 6 \in 1 .. 7 /\ 7 \in 1 .. 7
      OBVIOUS
    <3> QED
      BY <3>1, <3>2, <3>3, <3>4
  <2> QED
    BY <2>1
<1>2. LeastOf(filled) \in filled
  BY <1>1 DEF LeastOf
<1> QED
  BY <1>2

LEMMA CorrectedToLeaves ==
  ASSUME NEW raw PROVE AutocorrectSlug(raw) \in Taxonomy \cup {NoSlug}
<1> DEFINE inArea == Len(raw) >= 2
           named(word) == IF inArea THEN {<<raw[1], raw[2], word>>} \cap Taxonomy ELSE {}
           area == IF inArea THEN AreaLeaves(raw) ELSE {}
           layers == << {raw} \cap Taxonomy,
                   UniqueSuffixMatch(raw),
                   named("general"),
                   OnlyOne(area),
                   OnlyOne({t \in area : Last(t) \in GeneralWord}),
                   named("other"),
                   named("others") >>
           filled == {i \in DOMAIN layers : layers[i] # {}}
<1>1. AutocorrectSlug(raw) = IF filled = {} THEN NoSlug ELSE CHOOSE t \in layers[LeastOf(filled)] : TRUE
  BY DEF AutocorrectSlug
<1>2. UniqueSuffixMatch(raw) \in SUBSET Taxonomy
  BY DEF UniqueSuffixMatch, SuffixOwners
<1>3. area \in SUBSET Taxonomy
  BY DEF AreaLeaves
<1>4. OnlyOne(area) \in SUBSET Taxonomy /\ OnlyOne({t \in area : Last(t) \in GeneralWord}) \in SUBSET Taxonomy
  BY <1>3 DEF OnlyOne
<1>5. \A word : named(word) \in SUBSET Taxonomy
  OBVIOUS
<1>6. DOMAIN layers = 1 .. 7
  OBVIOUS
<1>7. \A i \in 1 .. 7 : layers[i] \in SUBSET Taxonomy
  <2>1. {raw} \cap Taxonomy \in SUBSET Taxonomy
    OBVIOUS
  <2> HIDE DEF named, area
  <2> QED
    BY <1>2, <1>4, <1>5, <2>1
<1> HIDE DEF layers
<1> QED
  BY <1>1, <1>6, <1>7, LayersYieldLeaves

(* Lists without repetitions that share nothing make a well-formed decision.*)
LEMMA ListsMakeDecision ==
  ASSUME NEW p \in Seq(Taxonomy), NEW s \in Seq(Taxonomy), NEW reason,
         \A i, j \in 1 .. Len(p) : p[i] = p[j] => i = j,
         \A i, j \in 1 .. Len(s) : s[i] = s[j] => i = j,
         \A i \in 1 .. Len(p), j \in 1 .. Len(s) : p[i] # s[j],
         Len(p) <= 3, Len(s) <= 5,
         p = <<>> <=> reason # NoReason, p = <<>> => s = <<>>
  PROVE  WellFormed(Decision(p, s, reason))
<1> DEFINE all == p \o s
<1>1. /\ all \in Seq(Taxonomy) /\ Len(all) = Len(p) + Len(s)
      /\ \A i \in 1 .. Len(p) : all[i] = p[i]
      /\ \A i \in Len(p) + 1 .. Len(p) + Len(s) : all[i] = s[i - Len(p)]
  OBVIOUS
<1>2. DOMAIN all = 1 .. Len(p) + Len(s) /\ Len(p) \in Nat /\ Len(s) \in Nat
  BY <1>1
<1> HIDE DEF all
<1>3. ToSet(all) \subseteq Taxonomy
  BY <1>1, <1>2 DEF ToSet
<1>4. IsInjective(all)
  <2> SUFFICES ASSUME NEW i \in 1 .. Len(p) + Len(s), NEW j \in 1 .. Len(p) + Len(s), all[i] = all[j]
               PROVE  i = j
    BY <1>2 DEF IsInjective
  <2>1. CASE i <= Len(p) /\ j <= Len(p)
    BY <1>1, <1>2, <2>1
  <2>2. CASE i <= Len(p) /\ j > Len(p)
    <3>1. i \in 1 .. Len(p) /\ j - Len(p) \in 1 .. Len(s) /\ j \in Len(p) + 1 .. Len(p) + Len(s)
      BY <1>2, <2>2
    <3> QED
      BY <1>1, <3>1
  <2>3. CASE i > Len(p) /\ j <= Len(p)
    <3>1. j \in 1 .. Len(p) /\ i - Len(p) \in 1 .. Len(s) /\ i \in Len(p) + 1 .. Len(p) + Len(s)
      BY <1>2, <2>3
    <3> QED
      BY <1>1, <3>1
  <2>4. CASE i > Len(p) /\ j > Len(p)
    <3>1. /\ i - Len(p) \in 1 .. Len(s) /\ i \in Len(p) + 1 .. Len(p) + Len(s)
          /\ j - Len(p) \in 1 .. Len(s) /\ j \in Len(p) + 1 .. Len(p) + Len(s)
      BY <1>2, <2>4
    <3>2. i - Len(p) = j - Len(p)
      BY <1>1, <3>1
    <3> QED
      BY <1>2, <3>2
  <2> QED
    BY <1>2, <2>1, <2>2, <2>3, <2>4
<1> QED
  BY <1>3, <1>4 DEF WellFormed, Decision, all

(* A list of the model, corrected and without what it repeats or drops.     *)
LEMMA CleanedLists ==
  ASSUME NEW list \in Seq(Seq(STRING)), NEW dropped, NoSlug \in dropped
  PROVE  LET clean == Deduped(CleanSlugs(list), dropped)
         IN  /\ clean \in Seq(Taxonomy)
             /\ \A i \in 1 .. Len(clean) : clean[i] \notin dropped
             /\ \A i, j \in 1 .. Len(clean) : clean[i] = clean[j] => i = j
<1> DEFINE corrected == CleanSlugs(list)
           clean == Deduped(corrected, dropped)
<1>1. corrected \in Seq(Taxonomy \cup {NoSlug})
  <2>1. DOMAIN list = 1 .. Len(list) /\ Len(list) \in Nat
    OBVIOUS
  <2>2. \A i \in 1 .. Len(list) : AutocorrectSlug(list[i]) \in Taxonomy \cup {NoSlug}
    BY CorrectedToLeaves
  <2>3. corrected = [i \in 1 .. Len(list) |-> AutocorrectSlug(list[i])]
    BY <2>1 DEF CleanSlugs
  <2> HIDE DEF corrected
  <2> QED
    BY <2>1, <2>2, <2>3
<1> HIDE DEF corrected
<1>2. /\ clean \in Seq(Taxonomy \cup {NoSlug})
      /\ \A i \in DOMAIN clean : clean[i] \notin dropped
      /\ \A i, j \in DOMAIN clean : clean[i] = clean[j] => i = j
  BY <1>1, DedupedLists
<1> HIDE DEF clean
<1>3. DOMAIN clean = 1 .. Len(clean) /\ Len(clean) \in Nat
  BY <1>2
<1>4. \A i \in 1 .. Len(clean) : clean[i] \in Taxonomy
  <2>1. \A i \in 1 .. Len(clean) : clean[i] \in Taxonomy \cup {NoSlug}
    BY <1>2
  <2>2. \A i \in 1 .. Len(clean) : clean[i] \notin dropped
    BY <1>2, <1>3
  <2> QED
    BY <2>1, <2>2
<1>5. clean \in Seq(Taxonomy)
  BY <1>2, <1>3, <1>4
<1> QED
  BY <1>2, <1>3, <1>5 DEF clean, corrected

(* Whatever the model answers, the repaired answer is well formed.          *)
LEMMA AnswersWellFormed ==
  ASSUME NEW raw \in RawDecisions, ValidateDecision(raw).ok
  PROVE  WellFormed(ValidateDecision(raw).decision)
<1> DEFINE p == Deduped(CleanSlugs(raw.primary), {NoSlug})
           s == Deduped(CleanSlugs(raw.secondary), {NoSlug} \cup ToSet(p))
           promoted == p = <<>> /\ s # <<>>
           primary == IF promoted THEN <<Head(s)>> ELSE p
           secondary == IF promoted THEN Tail(s) ELSE s
           reason == IF primary # <<>> THEN NoReason
                     ELSE IF raw.reason # NoReason THEN raw.reason
                     ELSE "all_slugs_uncorrectable"
<1>1. ValidateDecision(raw).decision = Decision(Truncated(primary, 3), Truncated(secondary, 5), reason)
  BY DEF ValidateDecision
<1> raw.primary \in Seq(Seq(STRING)) /\ raw.secondary \in Seq(Seq(STRING))
  BY AnswerAssumption DEF ValidateDecision
<1>2. /\ p \in Seq(Taxonomy)
      /\ \A i, j \in 1 .. Len(p) : p[i] = p[j] => i = j
  BY CleanedLists
<1>3. /\ s \in Seq(Taxonomy)
      /\ \A i \in 1 .. Len(s) : s[i] \notin ToSet(p)
      /\ \A i, j \in 1 .. Len(s) : s[i] = s[j] => i = j
  <2> DEFINE dropped == {NoSlug} \cup ToSet(p)
  <2>1. NoSlug \in dropped /\ \A x : x \notin dropped => x \notin ToSet(p)
    OBVIOUS
  <2> HIDE DEF dropped, p
  <2>2. LET clean == Deduped(CleanSlugs(raw.secondary), dropped)
        IN  /\ clean \in Seq(Taxonomy)
            /\ \A i \in 1 .. Len(clean) : clean[i] \notin dropped
            /\ \A i, j \in 1 .. Len(clean) : clean[i] = clean[j] => i = j
    BY <2>1, CleanedLists
  <2> QED
    BY <2>1, <2>2 DEF dropped
<1>4. \A i \in 1 .. Len(p), j \in 1 .. Len(s) : p[i] # s[j]
  <2> HIDE DEF s, p
  <2>1. \A i \in 1 .. Len(p) : p[i] \in ToSet(p)
    BY <1>2 DEF ToSet
  <2> QED
    BY <1>3, <2>1
<1> HIDE DEF p, s
<1>5. /\ primary \in Seq(Taxonomy) /\ secondary \in Seq(Taxonomy)
      /\ \A i, j \in 1 .. Len(primary) : primary[i] = primary[j] => i = j
      /\ \A i, j \in 1 .. Len(secondary) : secondary[i] = secondary[j] => i = j
      /\ \A i \in 1 .. Len(primary), j \in 1 .. Len(secondary) : primary[i] # secondary[j]
      /\ primary = <<>> => secondary = <<>>
  <2>1. CASE promoted
    <3>1. /\ s \in Seq(Taxonomy) /\ s # <<>> /\ Len(s) \in Nat /\ Len(s) > 0
          /\ primary = <<Head(s)>> /\ secondary = Tail(s)
      BY <1>3, <2>1
    <3>2. /\ Head(s) = s[1] /\ Tail(s) \in Seq(Taxonomy) /\ Len(Tail(s)) = Len(s) - 1
          /\ \A i \in 1 .. Len(Tail(s)) : Tail(s)[i] = s[i + 1]
      BY <3>1
    <3>3. /\ primary \in Seq(Taxonomy) /\ Len(primary) = 1 /\ primary[1] = s[1] /\ primary # <<>>
      <4>1. s[1] \in Taxonomy
        BY <3>1
      <4>2. primary = <<s[1]>>
        BY <3>1, <3>2
      <4> HIDE DEF primary
      <4> QED
        BY <4>1, <4>2
    <3>4. \A i \in 1 .. Len(Tail(s)) : i \in Int /\ i + 1 \in 1 .. Len(s) /\ i + 1 # 1
      <4>1. Len(Tail(s)) = Len(s) - 1 /\ Len(s) \in Nat
        BY <3>1, <3>2
      <4> HIDE DEF promoted, primary, secondary
      <4> QED
        BY <4>1
    <3> HIDE DEF primary, secondary
    <3>5. \A i, j \in 1 .. Len(secondary) : secondary[i] = secondary[j] => i = j
      <4> SUFFICES ASSUME NEW i \in 1 .. Len(Tail(s)), NEW j \in 1 .. Len(Tail(s)), Tail(s)[i] = Tail(s)[j]
                   PROVE  i = j
        BY <3>1
      <4>1. i + 1 = j + 1
        BY <1>3, <3>2, <3>4
      <4> QED
        BY <3>4, <4>1
    <3>6. \A i \in 1 .. Len(primary), j \in 1 .. Len(secondary) : primary[i] # secondary[j]
      <4>1. 1 \in 1 .. Len(s)
        BY <3>1
      <4>2. \A j \in 1 .. Len(Tail(s)) : s[1] # Tail(s)[j]
        BY <1>3, <3>2, <3>4, <4>1
      <4>3. \A i \in 1 .. Len(primary) : i = 1
        BY <3>3
      <4> QED
        BY <3>1, <3>3, <4>2, <4>3
    <3>7. \A i, j \in 1 .. Len(primary) : i = j
      BY <3>3
    <3> QED
      BY <3>1, <3>2, <3>3, <3>5, <3>6, <3>7
  <2>2. CASE ~ promoted
    BY <1>2, <1>3, <1>4, <2>2
  <2> QED
    BY <2>1, <2>2
<1>6. primary = <<>> <=> reason # NoReason
  BY DEF NoReason
<1> HIDE DEF primary, secondary, reason
<1> DEFINE a == Truncated(primary, 3)
           b == Truncated(secondary, 5)
<1>7. /\ a \in Seq(Taxonomy) /\ Len(a) <= 3 /\ Len(a) = Lesser(3, Len(primary))
      /\ \A i \in 1 .. Lesser(3, Len(primary)) : a[i] = primary[i]
  BY <1>5, TruncatedLists
<1>8. /\ b \in Seq(Taxonomy) /\ Len(b) <= 5 /\ Len(b) = Lesser(5, Len(secondary))
      /\ \A i \in 1 .. Lesser(5, Len(secondary)) : b[i] = secondary[i]
  BY <1>5, TruncatedLists
<1>9. /\ Len(a) <= Len(primary) /\ Len(b) <= Len(secondary)
      /\ Len(a) \in Nat /\ Len(b) \in Nat /\ Len(primary) \in Nat /\ Len(secondary) \in Nat
  <2>1. Len(primary) \in Nat /\ Len(secondary) \in Nat
    BY <1>5
  <2> QED
    BY <1>7, <1>8, <2>1, LessersLess
<1>10. /\ \A i \in 1 .. Len(a) : i \in 1 .. Len(primary) /\ a[i] = primary[i]
       /\ \A i \in 1 .. Len(b) : i \in 1 .. Len(secondary) /\ b[i] = secondary[i]
  BY <1>7, <1>8, <1>9
<1>11. a = <<>> <=> primary = <<>>
  BY <1>5, <1>7, <1>9 DEF Lesser
<1>12. secondary = <<>> => b = <<>>
  BY <1>8, <1>9
<1> HIDE DEF a, b
<1>13. /\ \A i, j \in 1 .. Len(a) : a[i] = a[j] => i = j
       /\ \A i, j \in 1 .. Len(b) : b[i] = b[j] => i = j
       /\ \A i \in 1 .. Len(a), j \in 1 .. Len(b) : a[i] # b[j]
  BY <1>5, <1>10
<1>14. /\ a = <<>> <=> reason # NoReason
       /\ a = <<>> => b = <<>>
  BY <1>5, <1>6, <1>11, <1>12
<1>15. WellFormed(Decision(a, b, reason))
  BY <1>7, <1>8, <1>13, <1>14, ListsMakeDecision
<1> QED
  BY <1>1, <1>15 DEF a, b

(* The taxonomy is finite, and a leaf is found at its place in the file.    *)
LEMMA LeavesHavePlaces ==
  /\ IsFiniteSet(Taxonomy) /\ Taxonomy # {}
  /\ \A t \in Taxonomy : PlaceOf(t) \in Int /\ LeafOrder[PlaceOf(t)] = t
<1>1. DOMAIN LeafOrder = 1 .. Len(LeafOrder) /\ Len(LeafOrder) \in Nat /\ Len(LeafOrder) # 0
  BY TaxonomyAssumption
<1>2. IsFiniteSet(1 .. Len(LeafOrder)) /\ LeafOrder \in [1 .. Len(LeafOrder) -> Taxonomy]
  BY <1>1, FS_Interval, TaxonomyAssumption DEF Taxonomy, ToSet
<1>3. LeafOrder \in Surjection(1 .. Len(LeafOrder), Taxonomy)
  BY <1>1, <1>2 DEF Surjection, Taxonomy, ToSet
<1>4. ASSUME NEW t \in Taxonomy
      PROVE  PlaceOf(t) \in Int /\ LeafOrder[PlaceOf(t)] = t
  <2>1. \E i \in DOMAIN LeafOrder : LeafOrder[i] = t
    BY DEF Taxonomy, ToSet
  <2>2. PlaceOf(t) \in DOMAIN LeafOrder /\ LeafOrder[PlaceOf(t)] = t
    BY <2>1 DEF PlaceOf
  <2> QED
    BY <1>1, <2>2
<1>5. LeafOrder[1] \in Taxonomy
  BY <1>1, <1>2
<1> QED
  BY <1>2, <1>3, <1>4, <1>5, FS_Surjection

LEMMA LastInFile ==
  ASSUME NEW S \in SUBSET Taxonomy, S # {}
  PROVE  (CHOOSE t \in S : \A u \in S : PlaceOf(u) <= PlaceOf(t)) \in Taxonomy
<1> DEFINE order == {p \in S \X S : PlaceOf(p[1]) < PlaceOf(p[2])}
           n == Cardinality(S)
           x == InOrder(S, order)[n]
<1>1. \A a, b \in S : <<a, b>> \in order <=> PlaceOf(a) < PlaceOf(b)
  OBVIOUS
<1>2. \A a \in S : PlaceOf(a) \in Int /\ LeafOrder[PlaceOf(a)] = a
  BY LeavesHavePlaces
<1>3. IsFiniteSet(S) /\ n \in Nat /\ n # 0
  BY LeavesHavePlaces, FS_Subset, FS_CardinalityType, FS_EmptySet
<1> HIDE DEF order
<1>4. /\ \A a \in S : <<a, a>> \notin order
      /\ \A a, b, c \in S : <<a, b>> \in order /\ <<b, c>> \in order => <<a, c>> \in order
      /\ \A a, b \in S : a # b => <<a, b>> \in order \/ <<b, a>> \in order
  <2>1. \A a, b \in S : a # b => PlaceOf(a) # PlaceOf(b)
    BY <1>2
  <2> QED
    BY <1>1, <1>2, <2>1
<1>5. x \in S /\ Cardinality(Before(x, S, order)) = n - 1
  <2>1. n \in 1 .. n
    BY <1>3
  <2> QED
    BY <1>3, <1>4, <2>1, InOrderLists
<1> HIDE DEF x
<1>6. Before(x, S, order) \cup {x} = S
  <2>1. Before(x, S, order) \in SUBSET S /\ x \notin Before(x, S, order)
    BY <1>4, <1>5 DEF Before
  <2>2. Cardinality(Before(x, S, order) \cup {x}) = n - 1 + 1
    BY <1>3, <1>5, <2>1, FS_AddElement, FS_Subset
  <2> QED
    BY <1>3, <1>5, <2>1, <2>2, FS_Subset
<1>7. \A u \in S : PlaceOf(u) <= PlaceOf(x)
  <2> SUFFICES ASSUME NEW u \in S PROVE PlaceOf(u) <= PlaceOf(x)
    OBVIOUS
  <2>1. u = x \/ <<u, x>> \in order
    BY <1>6 DEF Before
  <2> QED
    BY <1>1, <1>2, <1>5, <2>1
<1> QED
  BY <1>5, <1>7

LEMMA RanksAreTotal ==
  ASSUME NEW rec \in RuleRecords, NEW S \in SUBSET Taxonomy
  PROVE  /\ IsFiniteSet(S)
         /\ \A a \in S : <<a, a>> \notin RankOrder(S, rec)
         /\ \A a, b, c \in S : <<a, b>> \in RankOrder(S, rec) /\ <<b, c>> \in RankOrder(S, rec)
                               => <<a, c>> \in RankOrder(S, rec)
         /\ \A a, b \in S : a # b => <<a, b>> \in RankOrder(S, rec) \/ <<b, a>> \in RankOrder(S, rec)
<1>1. \A a, b \in S : <<a, b>> \in RankOrder(S, rec) <=> Ahead(a, b, rec)
  BY DEF RankOrder
<1>2. \A a \in S : PlaceOf(a) \in Int /\ LeafOrder[PlaceOf(a)] = a
  BY LeavesHavePlaces
<1>3. ASSUME NEW a \in S PROVE ScoreCandidateLeaf(a, rec) \in Nat
  <2>1. rec.phrases[a] \in Nat /\ rec.titleWords[a] \in Nat
    BY RecordAssumption
  <2> QED
    BY <2>1 DEF ScoreCandidateLeaf, Lesser
<1>4. \A a, b \in S : a # b => PlaceOf(a) # PlaceOf(b)
  BY <1>2
<1>5. IsFiniteSet(S)
  BY LeavesHavePlaces, FS_Subset
<1> QED
  BY <1>1, <1>2, <1>3, <1>4, <1>5 DEF Ahead

LEMMA OneTopicWellFormed ==
  ASSUME NEW t \in Taxonomy PROVE WellFormed(Decision(<<t>>, <<>>, NoReason))
<1> DEFINE p == <<t>>
           s == <<>>
<1>1. /\ p \in Seq(Taxonomy) /\ s \in Seq(Taxonomy)
      /\ Len(p) = 1 /\ Len(s) = 0 /\ p # <<>>
  OBVIOUS
<1> HIDE DEF p, s
<1>2. Len(p) <= 3 /\ Len(s) <= 5 /\ (\A i, j \in 1 .. Len(p) : i = j) /\ 1 .. Len(s) = {}
  BY <1>1
<1>3. WellFormed(Decision(p, s, NoReason))
  BY <1>1, <1>2, ListsMakeDecision
<1> QED
  BY <1>3 DEF p, s

LEMMA AbstentionWellFormed ==
  ASSUME NEW reason, reason # NoReason PROVE WellFormed(Decision(<<>>, <<>>, reason))
<1> DEFINE s == <<>>
<1>1. s \in Seq(Taxonomy) /\ Len(s) = 0 /\ s = <<>>
  OBVIOUS
<1> HIDE DEF s
<1>2. Len(s) <= 3 /\ Len(s) <= 5 /\ 1 .. Len(s) = {}
  BY <1>1
<1>3. WellFormed(Decision(s, s, reason))
  BY <1>1, <1>2, ListsMakeDecision
<1> QED
  BY <1>3 DEF s

(* The secondary topics are among the five that follow the best in rank.    *)
LEMMA ScoresWellFormed ==
  ASSUME NEW rec \in RuleRecords PROVE WellFormed(ScoredDecision(rec))
<1> DEFINE leaves == FamilyLeaves(rec.family)
           n == Cardinality(leaves)
           ranked == RankedLeaves(rec)
           last == Lesser(6, Len(ranked))
           score(i) == ScoreCandidateLeaf(ranked[i], rec)
           close == {j \in 2 .. last : score(j) >= 50 /\ score(1) - score(j) <= 20}
           near == {ranked[i] : i \in close}
           secondary == InOrder(near, RankOrder(near, rec))
<1>1. leaves \in SUBSET Taxonomy /\ leaves # {}
  BY LeavesHavePlaces DEF FamilyLeaves
<1>2. n \in Nat /\ n # 0
  BY <1>1, RanksAreTotal, FS_CardinalityType, FS_EmptySet
<1>3. /\ ranked \in [1 .. n -> leaves]
      /\ \A i, j \in 1 .. n : ranked[i] = ranked[j] => i = j
  BY <1>1, RanksAreTotal, InOrderLists DEF RankedLeaves
<1> HIDE DEF leaves, ranked, n
<1>4. Len(ranked) = n
  BY <1>2, <1>3
<1>5. last \in Nat /\ last <= 6 /\ last <= n
  BY <1>2, <1>4, LessersLess
<1>6. close \in SUBSET (2 .. last) /\ close \in SUBSET (1 .. n) /\ 1 \notin close
  <2>1. close \in SUBSET (2 .. last)
    OBVIOUS
  <2>2. 2 .. last \in SUBSET (1 .. n) /\ 1 \notin 2 .. last
    BY <1>2, <1>5
  <2> QED
    BY <2>1, <2>2
<1> HIDE DEF last, close
<1>7. near \in SUBSET Taxonomy /\ ranked[1] \in Taxonomy /\ ranked[1] \notin near
  BY <1>1, <1>2, <1>3, <1>6
<1>8. Cardinality(near) <= 5
  <2>1. IsFiniteSet(2 .. last) /\ Cardinality(2 .. last) <= 5
    <3>1. /\ IsFiniteSet(2 .. last)
          /\ Cardinality(2 .. last) = IF 2 > last THEN 0 ELSE last - 2 + 1
      BY <1>5, FS_Interval
    <3>2. (IF 2 > last THEN 0 ELSE last - 2 + 1) <= 5
      BY <1>5
    <3> QED
      BY <3>1, <3>2
  <2>2. IsFiniteSet(close) /\ Cardinality(close) <= Cardinality(2 .. last)
    BY <1>6, <2>1, FS_Subset
  <2>3. [i \in close |-> ranked[i]] \in Surjection(close, near)
    BY DEF Surjection
  <2>4. IsFiniteSet(near) /\ Cardinality(near) <= Cardinality(close)
    BY <2>2, <2>3, FS_Surjection
  <2>5. Cardinality(close) \in Nat /\ Cardinality(near) \in Nat /\ Cardinality(2 .. last) \in Nat
    BY <2>1, <2>2, <2>4, FS_CardinalityType
  <2> QED
    BY <2>1, <2>2, <2>4, <2>5
<1> HIDE DEF near
<1>9. /\ Cardinality(near) \in Nat /\ secondary \in [1 .. Cardinality(near) -> near]
      /\ \A i, j \in 1 .. Cardinality(near) : secondary[i] = secondary[j] => i = j
  BY <1>7, RanksAreTotal, InOrderLists
<1> HIDE DEF secondary
<1>10. secondary \in Seq(Taxonomy) /\ Len(secondary) = Cardinality(near)
  BY <1>7, <1>9
<1>11. WellFormed(Decision(<<ranked[1]>>, secondary, NoReason))
  <2> DEFINE p == <<ranked[1]>>
  <2>1. p \in Seq(Taxonomy) /\ Len(p) = 1 /\ p[1] = ranked[1] /\ p # <<>>
    BY <1>7
  <2>2. \A i \in 1 .. Len(p) : i = 1
    BY <2>1
  <2> HIDE DEF p
  <2>3. \A i \in 1 .. Len(p), j \in 1 .. Len(secondary) : p[i] # secondary[j]
    BY <1>7, <1>9, <1>10, <2>1, <2>2
  <2>4. \A i, j \in 1 .. Len(p) : i = j
    BY <2>2
  <2>5. WellFormed(Decision(p, secondary, NoReason))
    <3>1. \A i, j \in 1 .. Len(secondary) : secondary[i] = secondary[j] => i = j
      BY <1>9, <1>10
    <3>2. secondary \in Seq(Taxonomy) /\ Len(secondary) <= 5 /\ Len(p) <= 3
      BY <1>8, <1>10, <2>1
    <3> QED
      BY <2>1, <2>3, <2>4, <3>1, <3>2, ListsMakeDecision
  <2> QED
    BY <2>5 DEF p
<1>12. WellFormed(RuleAbstains("low_confidence_rulebased"))
  BY AbstentionWellFormed DEF RuleAbstains, NoReason
<1>13. \/ ScoredDecision(rec) = RuleAbstains("low_confidence_rulebased")
       \/ ScoredDecision(rec) = Decision(<<ranked[1]>>, secondary, NoReason)
  BY DEF ScoredDecision, ranked, secondary, near, close, last
<1> QED
  BY <1>11, <1>12, <1>13

LEMMA RulesWellFormed ==
  ASSUME NEW rec \in RuleRecords PROVE WellFormed(RuleDecision(rec))
<1>1. WellFormed(RuleAbstains("empty_matn"))
  BY AbstentionWellFormed DEF RuleAbstains, NoReason
<1>2. CASE rec.emptyMatn
  BY <1>1, <1>2 DEF RuleDecision
<1>3. CASE ~ rec.emptyMatn /\ BaabOwners(rec.baab) # {}
  <2>1. BaabOwners(rec.baab) \in SUBSET Taxonomy
    BY DEF BaabOwners
  <2> QED
    BY <1>3, <2>1, LastInFile, OneTopicWellFormed DEF RuleDecision
<1>4. CASE ~ rec.emptyMatn /\ BaabOwners(rec.baab) = {} /\ Cardinality(KitabOwners(rec.kitab)) = 1
  <2>1. KitabOwners(rec.kitab) \in SUBSET Taxonomy /\ KitabOwners(rec.kitab) # {}
    BY <1>4, FS_EmptySet DEF KitabOwners
  <2>2. (CHOOSE t \in KitabOwners(rec.kitab) : TRUE) \in Taxonomy
    BY <2>1
  <2> QED
    BY <1>4, <2>2, OneTopicWellFormed DEF RuleDecision
<1>5. CASE /\ ~ rec.emptyMatn /\ BaabOwners(rec.baab) = {}
           /\ Cardinality(KitabOwners(rec.kitab)) # 1
  BY <1>5, ScoresWellFormed DEF RuleDecision
<1> QED
  BY <1>2, <1>3, <1>4, <1>5

(* Whatever the model answers and whatever the rules find is well formed,   *)
(* also what a record gets after the answers were refused.                  *)
THEOREM EveryDecisionWellFormed == AllWellFormed
<1>1. \A d \in EnrichOneResults(FALSE, RawDecisions) : WellFormed(d)
  BY AnswersWellFormed, AbstentionWellFormed DEF EnrichOneResults, NoReason
<1> QED
  BY <1>1, AnswersWellFormed, RulesWellFormed DEF AllWellFormed, Decided

(* The decisions that are stored name leaves of the taxonomy only, none of  *)
(* them twice, and are either decisions or abstentions with a reason, for   *)
(* any taxonomy, any answer of the model and any counts of the rules        *)
(* (validate_decision, enrich_one and enrich_one_rulebased).                *)
THEOREM StoredDecisionsWellFormed == EnrichmentSpec => []DecisionsWellFormed
<1>1. DecisionsWellFormed
  BY EveryDecisionWellFormed DEF DecisionsWellFormed
<1> QED
  BY <1>1, PTL

-----------------------------------------------------------------------------
(* A build fills an index that it has created and that nothing else deletes.*)
BulkIntoIndex == AtBuild("bulk") => index[build.name] # None

TypeInv == TypeOK /\ BulkIntoIndex

-----------------------------------------------------------------------------
LEMMA RowFields ==
  ASSUME NEW r \in Row
  PROVE  /\ r.id \in Generation /\ r.topics \in Version /\ r.emb \in Embedding \cup {None}
         /\ \A v \in Version : [r EXCEPT !.topics = v] \in Row
         /\ \A e \in Embedding : [r EXCEPT !.emb = e] \in Row
BY DEF Row

LEMMA TypeInit == Init => TypeInv
<1> SUFFICES ASSUME Init PROVE TypeInv
  OBVIOUS
<1>1. 0 \in Version /\ 0 \in Generation
  BY SizeAssumption DEF Version, Generation
<1>2. row \in [Hadith -> Row \cup {None}]
  BY DEF Init, NoRows
<1>3. index \in [IndexName -> (SUBSET Hadith) \cup {None}] /\ alias \in SUBSET {V1, V2}
  BY DEF Init
<1>4. TypeOK
  BY <1>1, <1>2, <1>3 DEF Init, TypeOK
<1> QED
  BY <1>4 DEF Init, TypeInv, BulkIntoIndex, AtBuild

(* The tables keep their types.                                             *)
LEMMA TypeTables ==
  ASSUME TypeInv,
         \/ Publish
         \/ \E S \in (SUBSET Hadith) \ {{}}, replace \in BOOLEAN : Ingest(S, replace)
         \/ \E records \in (SUBSET Hadith) \ {{}} : StartMigrate(records)
         \/ MigrateBatch \/ FinishMigrate
  PROVE  TypeInv'
<1> USE SizeAssumption DEF TypeInv, TypeOK, BulkIntoIndex, AtBuild, tables, search, scripts
<1>1. CASE Publish
  BY <1>1 DEF Publish, Version
<1>2. ASSUME NEW S \in SUBSET Hadith, NEW replace \in BOOLEAN, Ingest(S, replace)
      PROVE  TypeInv'
  <2>1. generation' \in Generation
    BY <1>2 DEF Ingest, Generation
  <2>2. ASSUME NEW id \in Generation, NEW h PROVE Ingested(h, id) \in Row
    BY DEF Ingested, Row, Version
  <2>3. ASSUME NEW h \in Hadith PROVE row'[h] \in Row \cup {None}
    <3>1. CASE h \in S
      <4>1. (IF row[h] = None \/ replace THEN generation' ELSE row[h].id) \in Generation
        BY <2>1, RowFields
      <4> QED
        BY <1>2, <2>2, <3>1, <4>1 DEF Ingest
    <3>2. CASE h \notin S
      BY <1>2, <3>2 DEF Ingest
    <3> QED
      BY <3>1, <3>2
  <2>4. row' \in [Hadith -> Row \cup {None}]
    BY <1>2, <2>3 DEF Ingest
  <2>5. migrate' \in MigrateRun \cup {None}
    BY <1>2 DEF Ingest, Exposed, MigrateRun
  <2> QED
    BY <1>2, <2>1, <2>4, <2>5 DEF Ingest
<1>3. ASSUME NEW records \in SUBSET Hadith, StartMigrate(records) PROVE TypeInv'
  <2>1. migrate' \in MigrateRun
    BY <1>3 DEF StartMigrate, MigrateRun
  <2> QED
    BY <1>3, <2>1 DEF StartMigrate
<1>4. CASE MigrateBatch
  <2>1. migrate \in MigrateRun
    BY <1>4 DEF MigrateBatch
  <2>2. PICK h \in migrate.todo :
          /\ row' = IF h \in Present THEN [row EXCEPT ![h] = Merged(@, migrate.version)] ELSE row
          /\ migrate' = [migrate EXCEPT !.todo = @ \ {h},
                           !.missing = IF h \in Present THEN @ ELSE @ \cup {h},
                           !.exposed = @ \cup (ReadBefore \cap {h})]
    BY <1>4 DEF MigrateBatch
  <2>3. h \in Hadith /\ migrate.version \in Version
    BY <2>1 DEF MigrateRun
  <2>4. row' \in [Hadith -> Row \cup {None}]
    <3>1. CASE h \in Present
      <4>1. Merged(row[h], migrate.version) \in Row
        BY <2>3, <3>1, RowFields DEF Present, Merged
      <4> QED
        BY <2>2, <2>3, <3>1, <4>1
    <3>2. CASE h \notin Present
      BY <2>2, <3>2
    <3> QED
      BY <3>1, <3>2
  <2>5. migrate' \in MigrateRun
    <3>1. /\ migrate.missing \in SUBSET Hadith /\ migrate.missing \cup {h} \in SUBSET Hadith
          /\ migrate.exposed \cup (ReadBefore \cap {h}) \in SUBSET Hadith
          /\ migrate.todo \ {h} \in SUBSET Hadith
      BY <2>1, <2>3 DEF MigrateRun
    <3> QED
      BY <2>1, <2>2, <3>1 DEF MigrateRun
  <2> QED
    BY <1>4, <2>4, <2>5 DEF MigrateBatch
<1>5. CASE FinishMigrate
  BY <1>5 DEF FinishMigrate
<1> QED
  BY <1>1, <1>2, <1>3, <1>4, <1>5

(* So does what a backfill has read.                                        *)
LEMMA TypeBackfill ==
  ASSUME TypeInv,
         \/ \E clean, overwrite \in BOOLEAN : StartBackfill(clean, overwrite)
         \/ \E ok \in BOOLEAN : BackfillBatch(ok)
         \/ FinishBackfill
  PROVE  TypeInv'
<1> USE DEF TypeInv, TypeOK, BulkIntoIndex, AtBuild, tables, search, scripts
<1>1. ASSUME NEW clean \in BOOLEAN, NEW overwrite \in BOOLEAN, StartBackfill(clean, overwrite)
      PROVE  TypeInv'
  <2>1. backfill' \in BackfillRun
    BY <1>1 DEF StartBackfill, BackfillRun
  <2> QED
    BY <1>1, <2>1 DEF StartBackfill
<1>2. ASSUME NEW ok \in BOOLEAN, BackfillBatch(ok) PROVE TypeInv'
  <2> PICK h \in ToDo :
        LET snapshot == backfill.snapshot[h]
            e == [clean |-> backfill.clean, of |-> IF backfill.clean THEN snapshot.topics ELSE 0]
            same == row[h] # None /\ row[h].id = snapshot.id
        IN  /\ row' = IF ok /\ same
                      THEN [row EXCEPT ![h] = WrittenBack(@, snapshot, e)] ELSE row
            /\ backfill' = [backfill EXCEPT !.snapshot[h] = None]
    BY <1>2 DEF BackfillBatch
  <2> DEFINE snapshot == backfill.snapshot[h]
             e == [clean |-> backfill.clean, of |-> IF backfill.clean THEN snapshot.topics ELSE 0]
  <2>1. backfill \in BackfillRun
    BY <1>2 DEF BackfillBatch
  <2>2. h \in Hadith /\ snapshot \in Row
    BY <2>1 DEF ToDo, BackfillRun
  <2>3. e \in Embedding
    BY <2>1, <2>2, SizeAssumption, RowFields DEF Embedding, BackfillRun, Version
  <2>4. [snapshot EXCEPT !.emb = e] \in Row
    BY <2>2, <2>3, RowFields
  <2>5. row' \in [Hadith -> Row \cup {None}]
    BY <2>4 DEF WrittenBack
  <2>6. backfill' \in BackfillRun
    BY <2>1 DEF BackfillRun
  <2> QED
    BY <1>2, <2>5, <2>6 DEF BackfillBatch
<1>3. CASE FinishBackfill
  BY <1>3 DEF FinishBackfill
<1> QED
  BY <1>1, <1>2, <1>3

(* A build keeps the index it fills, and never fills one that is not there. *)
LEMMA TypeBuild ==
  ASSUME TypeInv,
         \/ \E name \in {V2, AliasName} : StartBuild(name)
         \/ Preflight \/ FetchRows
         \/ \E ok \in BOOLEAN : DeleteIndex(ok)
         \/ CreateIndex
         \/ \E rejected \in BOOLEAN : BulkBatch(rejected)
         \/ FinishBuild
  PROVE  TypeInv'
<1> USE DEF TypeInv, TypeOK, BulkIntoIndex, AtBuild, tables, search, UnchangedOutsideBuild
<1>0. build # None => build \in BuildRun /\ build.name \in IndexName /\ build.docs \in SUBSET Hadith
  BY DEF BuildRun, IndexName
<1>a. ASSUME NEW at \in {"preflight", "fetch", "delete", "create", "bulk"}, build # None
      PROVE  [build EXCEPT !.at = at] \in BuildRun
  BY <1>0, <1>a DEF BuildRun
<1>1. ASSUME NEW name \in {V2, AliasName}, StartBuild(name) PROVE TypeInv'
  <2>1. build' \in BuildRun /\ build'.at # "bulk"
    BY <1>1 DEF StartBuild, BuildRun
  <2> QED
    BY <1>1, <2>1 DEF StartBuild
<1>2. CASE Preflight
  <2>1. build' \in BuildRun \cup {None} /\ (build' # None => build'.at = "fetch")
    BY <1>2, <1>0, <1>a DEF Preflight, StepBuild, BuildRun
  <2> QED
    BY <1>2, <2>1 DEF Preflight
<1>3. CASE FetchRows
  <2>1. Present \in SUBSET Hadith
    BY DEF Present
  <2>2. build' \in BuildRun \cup {None} /\ (build' # None => build'.at = "delete")
    BY <1>3, <1>0, <2>1 DEF FetchRows, BuildRun
  <2> QED
    BY <1>3, <2>2 DEF FetchRows
<1>4. ASSUME NEW ok \in BOOLEAN, DeleteIndex(ok) PROVE TypeInv'
  <2>1. build' \in BuildRun /\ build'.at = "create"
    BY <1>4, <1>0, <1>a DEF DeleteIndex, StepBuild, BuildRun
  <2>2. index' \in [IndexName -> (SUBSET Hadith) \cup {None}] /\ alias' \in SUBSET {V1, V2}
    BY <1>4, <1>0 DEF DeleteIndex
  <2>3. cutover' \in CutoverRun \cup {None}
    BY <1>4 DEF DeleteIndex, TargetRebuilt, CutoverRun
  <2> QED
    BY <1>4, <2>1, <2>2, <2>3 DEF DeleteIndex
<1>5. CASE CreateIndex
  <2>1. CASE NameTaken(build.name)
    BY <1>5, <2>1 DEF CreateIndex
  <2>2. CASE ~ NameTaken(build.name)
    <3>1. build' \in BuildRun /\ build'.name = build.name
      BY <1>5, <1>0, <1>a, <2>2 DEF CreateIndex, StepBuild, BuildRun
    <3>2. {} # None
      BY NoneAssumption
    <3>3. index' \in [IndexName -> (SUBSET Hadith) \cup {None}] /\ index'[build.name] # None
      BY <1>5, <1>0, <2>2, <3>2 DEF CreateIndex
    <3> QED
      BY <1>5, <3>1, <3>3 DEF CreateIndex
  <2> QED
    BY <2>1, <2>2
<1>6. ASSUME NEW rejected \in BOOLEAN, BulkBatch(rejected) PROVE TypeInv'
  <2> PICK h \in build.docs :
        /\ index' = IF rejected THEN index ELSE [index EXCEPT ![build.name] = @ \cup {h}]
        /\ build' = [build EXCEPT !.docs = @ \ {h}]
    BY <1>6 DEF BulkBatch
  <2>1. /\ build \in BuildRun /\ build.name \in IndexName /\ h \in Hadith
        /\ index[build.name] \in SUBSET Hadith
    BY <1>6, <1>0 DEF BulkBatch
  <2>2. build' \in BuildRun /\ build'.name = build.name
    BY <2>1 DEF BuildRun
  <2>3. index[build.name] \cup {h} \in SUBSET Hadith /\ index[build.name] \cup {h} # None
    BY <2>1, NoneAssumption
  <2>4. /\ index' \in [IndexName -> (SUBSET Hadith) \cup {None}]
        /\ index'[build.name] # None
    BY <1>6, <2>1, <2>3 DEF BulkBatch
  <2> QED
    BY <1>6, <2>2, <2>4 DEF BulkBatch
<1>7. CASE FinishBuild
  BY <1>7 DEF FinishBuild
<1> QED
  BY <1>1, <1>2, <1>3, <1>4, <1>5, <1>6, <1>7

LEMMA TypeCutover ==
  ASSUME TypeInv,
         \/ \E target \in {V1, V2} : StartCutover(target)
         \/ VerifyTarget \/ SwapAlias
         \/ Kill
  PROVE  TypeInv'
<1> USE DEF TypeInv, TypeOK, BulkIntoIndex, AtBuild, tables, search
<1>1. ASSUME NEW target \in {V1, V2}, StartCutover(target) PROVE TypeInv'
  <2>1. CurrentTarget \in {V1, V2, "none"}
    BY DEF CurrentTarget
  <2>2. cutover' \in CutoverRun
    BY <1>1, <2>1 DEF StartCutover, CutoverRun
  <2> QED
    BY <1>1, <2>2 DEF StartCutover
<1>2. CASE VerifyTarget
  <2>1. cutover' \in CutoverRun \cup {None}
    BY <1>2 DEF VerifyTarget, CutoverRun
  <2> QED
    BY <1>2, <2>1 DEF VerifyTarget
<1>3. CASE SwapAlias
  <2>1. cutover.target \in {V1, V2}
    BY <1>3 DEF SwapAlias, CutoverRun
  <2>2. alias' \in SUBSET {V1, V2}
    BY <1>3, <2>1 DEF SwapAlias, AliasSwapped
  <2> QED
    BY <1>3, <2>2 DEF SwapAlias
<1>4. CASE Kill
  BY <1>4 DEF Kill
<1> QED
  BY <1>1, <1>2, <1>3, <1>4

LEMMA TypeStep == TypeInv /\ [Next]_vars => TypeInv'
<1> SUFFICES ASSUME TypeInv, [Next]_vars PROVE TypeInv'
  OBVIOUS
<1>1. CASE Next
  BY <1>1, TypeTables, TypeBackfill, TypeBuild, TypeCutover DEF Next
<1>2. CASE UNCHANGED vars
  BY <1>2 DEF vars, tables, search, scripts, TypeInv, TypeOK, BulkIntoIndex, AtBuild
<1> QED
  BY <1>1, <1>2

(* The tables, the indexes and the runs of the scripts keep their types,    *)
(* and no build writes documents into an index that is gone.                *)
THEOREM PipelineTypes == Spec => []TypeInv
BY TypeInit, TypeStep, PTL DEF Spec

-----------------------------------------------------------------------------
(* While a cutover runs, nobody else points the alias at an index, so what  *)
(* it read is all that it has to remove.                                    *)
OneTarget ==
  /\ \A m, n \in alias : m = n
  /\ \A n \in alias : index[n] # None
  /\ cutover # None => alias \subseteq {cutover.current}

(* Only a build that deletes an index, and a cutover, change the alias.     *)
LEMMA AliasSteps ==
  ASSUME TypeInv, Next
  PROVE  \/ UNCHANGED alias /\ \A n \in IndexName : index[n] # None => index'[n] # None
         \/ \E ok \in BOOLEAN : DeleteIndex(ok)
         \/ SwapAlias
<1>1. ASSUME UNCHANGED search
      PROVE  UNCHANGED alias /\ \A n \in IndexName : index[n] # None => index'[n] # None
  BY <1>1 DEF search
<1>3. CASE CreateIndex
  <2>1. {} # None
    BY NoneAssumption
  <2> QED
    BY <1>3, <2>1 DEF CreateIndex, TypeInv, TypeOK
<1>4. ASSUME NEW rejected \in BOOLEAN, BulkBatch(rejected)
      PROVE  UNCHANGED alias /\ \A n \in IndexName : index[n] # None => index'[n] # None
  <2>1. index[build.name] # None
    BY <1>4 DEF BulkBatch, TypeInv, BulkIntoIndex
  <2>2. build.docs \in SUBSET Hadith /\ build.name \in IndexName
    BY <1>4 DEF BulkBatch, AtBuild, TypeInv, TypeOK, BuildRun, IndexName
  <2>3. \A h \in build.docs : index[build.name] \cup {h} # None
    BY <2>1, <2>2, NoneAssumption DEF TypeInv, TypeOK
  <2> QED
    BY <1>4, <2>2, <2>3 DEF BulkBatch, TypeInv, TypeOK
<1> QED
  BY <1>1, <1>3, <1>4
     DEF Next, Publish, Ingest, StartMigrate, MigrateBatch, FinishMigrate, StartBackfill,
         BackfillBatch, FinishBackfill, StartBuild, Preflight, FetchRows, FinishBuild,
         StartCutover, VerifyTarget, Kill

(* A cutover only starts with what the alias points at then.                *)
LEMMA CutoverSteps ==
  ASSUME Next
  PROVE  \/ cutover' = None
         \/ UNCHANGED cutover
         \/ \E ok \in BOOLEAN : DeleteIndex(ok)
         \/ cutover'.current = CurrentTarget /\ UNCHANGED alias
         \/ /\ VerifyTarget /\ cutover # None
            /\ cutover' = [cutover EXCEPT !.verified = TRUE] /\ UNCHANGED alias
<1>1. ASSUME NEW target \in {V1, V2}, StartCutover(target)
      PROVE  cutover'.current = CurrentTarget /\ UNCHANGED alias
  BY <1>1 DEF StartCutover, search
<1>2. CASE VerifyTarget
  BY <1>2 DEF VerifyTarget, search
<1>3. CASE Kill
  BY <1>3 DEF Kill
<1> QED
  BY <1>1, <1>2, <1>3
     DEF Next, Publish, Ingest, StartMigrate, MigrateBatch, FinishMigrate, StartBackfill,
         BackfillBatch, FinishBackfill, StartBuild, Preflight, FetchRows,
         CreateIndex, BulkBatch, FinishBuild, SwapAlias, scripts, UnchangedOutsideBuild

LEMMA OneTargetStep == TypeInv /\ OneTarget /\ [Next]_vars => OneTarget'
<1> SUFFICES ASSUME TypeInv, OneTarget, [Next]_vars PROVE OneTarget'
  OBVIOUS
<1>0. alias \subseteq IndexName /\ alias \subseteq {V1, V2}
  BY DEF TypeInv, TypeOK, IndexName
<1>1. CASE Next
  <2>1. ASSUME NEW ok \in BOOLEAN, DeleteIndex(ok) PROVE OneTarget'
    <3>1. cutover' # None => cutover # None /\ cutover'.current = cutover.current
      BY <2>1 DEF DeleteIndex, TargetRebuilt, TypeInv, TypeOK, CutoverRun
    <3> QED
      BY <1>0, <2>1, <3>1 DEF DeleteIndex, OneTarget, TypeInv, TypeOK, search
  <2>2. CASE UNCHANGED alias /\ \A n \in IndexName : index[n] # None => index'[n] # None
    <3>1. alias \subseteq {CurrentTarget}
      BY DEF OneTarget, CurrentTarget
    <3>2. ASSUME VerifyTarget, cutover # None, cutover' = [cutover EXCEPT !.verified = TRUE]
          PROVE  cutover'.current = cutover.current
      BY <3>2 DEF TypeInv, TypeOK, CutoverRun
    <3> QED
      BY <1>0, <1>1, <2>1, <2>2, <3>1, <3>2, CutoverSteps DEF OneTarget
  <2>3. CASE SwapAlias
    BY <1>0, <2>3 DEF SwapAlias, SwapAccepted, AliasSwapped, OneTarget
  <2> QED
    BY <1>1, <2>1, <2>2, <2>3, AliasSteps
<1>2. CASE UNCHANGED vars
  BY <1>2 DEF vars, search, scripts, OneTarget
<1> QED
  BY <1>1, <1>2

(* The alias points at one index at most and at one that exists, whatever   *)
(* builds and cutovers run at the same time and wherever they are killed.   *)
THEOREM AliasNeverSplit == Spec => []AliasOnOneIndex
<1>1. Init => OneTarget
  BY NoneAssumption DEF Init, OneTarget, IndexName
<1>2. TypeInv /\ OneTarget => AliasOnOneIndex
  <2> SUFFICES ASSUME TypeInv, OneTarget PROVE Cardinality(alias) <= 1
    BY DEF AliasOnOneIndex, OneTarget
  <2>1. CASE alias = {}
    BY <2>1, FS_EmptySet
  <2>2. ASSUME NEW n \in alias PROVE Cardinality(alias) <= 1
    <3>1. alias = {n}
      BY DEF OneTarget
    <3> QED
      BY <3>1, FS_Singleton
  <2> QED
    BY <2>1, <2>2
<1> QED
  BY <1>1, <1>2, PipelineTypes, OneTargetStep, PTL DEF Spec

-----------------------------------------------------------------------------
(* What a cutover has counted is there, and becomes more, until the index   *)
(* is deleted.                                                              *)
VerifiedFilled ==
  cutover # None /\ cutover.verified => Count(cutover.target) >= MinDocs \/ cutover.rebuilt

LEMMA CountNat ==
  ASSUME NEW docs \in (SUBSET Hadith) \cup {None}
  PROVE  /\ (IF docs = None THEN 0 ELSE Cardinality(docs)) \in Nat
         /\ docs # None => IsFiniteSet(docs)
<1>1. IsFiniteSet(Hadith)
  BY SizeAssumption, FS_Interval DEF Hadith
<1> QED
  BY <1>1, FS_Subset, FS_CardinalityType

LEMMA CountGrows ==
  ASSUME TypeInv, Next, ~ \E ok \in BOOLEAN : DeleteIndex(ok), NEW n \in IndexName
  PROVE  Count(n) \in Nat /\ Count(n)' \in Nat /\ Count(n)' >= Count(n)
<1>0. /\ index[n] \in (SUBSET Hadith) \cup {None} /\ index'[n] \in (SUBSET Hadith) \cup {None}
      /\ TypeInv'
  BY TypeStep DEF TypeInv, TypeOK
<1>2. Count(n) \in Nat /\ Count(n)' \in Nat
  BY <1>0, CountNat DEF Count
<1>1. ASSUME UNCHANGED index PROVE Count(n)' >= Count(n)
  BY <1>2, <1>1 DEF Count
<1>3. CASE CreateIndex
  <2>1. index'[n] = index[n] \/ Count(n) = 0
    BY <1>3 DEF CreateIndex, NameTaken, Count, TypeInv, TypeOK
  <2> QED
    BY <1>2, <2>1 DEF Count
<1>4. ASSUME NEW rejected \in BOOLEAN, BulkBatch(rejected) PROVE Count(n)' >= Count(n)
  <2>1. CASE index'[n] = index[n]
    BY <1>2, <2>1 DEF Count
  <2>2. CASE index'[n] # index[n]
    <3>1. PICK h \in build.docs : index' = [index EXCEPT ![build.name] = @ \cup {h}]
      BY <1>4, <2>2 DEF BulkBatch
    <3>2. n = build.name /\ index'[n] = index[n] \cup {h} /\ index[n] # None
      BY <1>4, <2>2, <3>1 DEF BulkBatch, TypeInv, TypeOK, BulkIntoIndex
    <3>3. h \in Hadith /\ index[n] \cup {h} \in SUBSET Hadith
      BY <1>0, <1>4, <3>2 DEF BulkBatch, AtBuild, BuildRun, TypeInv, TypeOK
    <3>4. index'[n] # None
      BY <3>2, <3>3, NoneAssumption
    <3>5. IsFiniteSet(index[n])
      BY <1>0, <3>2, CountNat
    <3>6. Cardinality(index[n] \cup {h}) \in {Cardinality(index[n]), Cardinality(index[n]) + 1}
      BY <3>5, FS_AddElement
    <3>7. Count(n) = Cardinality(index[n]) /\ Count(n)' = Cardinality(index[n] \cup {h})
      BY <3>2, <3>4 DEF Count
    <3> QED
      BY <1>2, <3>6, <3>7
  <2> QED
    BY <2>1, <2>2
<1> QED
  BY <1>1, <1>2, <1>3, <1>4
     DEF Next, Publish, Ingest, StartMigrate, MigrateBatch, FinishMigrate, StartBackfill,
         BackfillBatch, FinishBackfill, StartBuild, Preflight, FetchRows, FinishBuild,
         StartCutover, VerifyTarget, SwapAlias, Kill, search

LEMMA VerifiedStep == TypeInv /\ VerifiedFilled /\ [Next]_vars => VerifiedFilled'
<1> SUFFICES ASSUME TypeInv, VerifiedFilled, [Next]_vars PROVE VerifiedFilled'
  OBVIOUS
<1> USE DEF VerifiedFilled
<1>0. cutover # None => cutover \in CutoverRun /\ cutover.target \in IndexName
  BY DEF TypeInv, TypeOK, CutoverRun, IndexName
<1>1. ASSUME NEW ok \in BOOLEAN, DeleteIndex(ok) PROVE VerifiedFilled'
  <2>1. CASE cutover = None
    BY <1>1, <2>1 DEF DeleteIndex, TargetRebuilt
  <2>2. CASE cutover # None /\ cutover.verified /\ cutover.target # build.name
    <3>1. cutover' = cutover /\ Count(cutover.target)' = Count(cutover.target)
      BY <1>0, <1>1, <2>2 DEF DeleteIndex, TargetRebuilt, search, Count, TypeInv, TypeOK
    <3> QED
      BY <2>2, <3>1
  <2>3. CASE cutover # None /\ cutover.verified /\ cutover.target = build.name
    <3>1. CASE UNCHANGED <<search, cutover>>
      BY <2>3, <3>1 DEF search, Count
    <3>2. CASE cutover' = [cutover EXCEPT !.rebuilt = TRUE]
      BY <1>0, <2>3, <3>2 DEF CutoverRun
    <3> QED
      BY <1>1, <2>3, <3>1, <3>2 DEF DeleteIndex, TargetRebuilt
  <2>4. CASE cutover # None /\ ~ cutover.verified
    BY <1>1, <2>4 DEF DeleteIndex, TargetRebuilt
  <2> QED
    BY <2>1, <2>2, <2>3, <2>4
<1>2. ASSUME Next, ~ \E ok \in BOOLEAN : DeleteIndex(ok) PROVE VerifiedFilled'
  <2>0. ASSUME NEW n \in IndexName, Count(n) >= MinDocs PROVE Count(n)' >= MinDocs
    <3>1. Count(n) \in Nat /\ Count(n)' \in Nat /\ Count(n)' >= Count(n)
      BY <1>2, CountGrows
    <3> QED
      BY <2>0, <3>1, SizeAssumption
  <2>1. CASE cutover' = None \/ UNCHANGED cutover
    BY <1>0, <2>0, <2>1
  <2>2. ASSUME NEW target \in {V1, V2}, StartCutover(target) PROVE VerifiedFilled'
    BY <2>2 DEF StartCutover
  <2>3. CASE VerifyTarget
    <3>1. CASE TargetVerified(cutover.target)
      <4>1. cutover # None /\ cutover' = [cutover EXCEPT !.verified = TRUE]
        BY <2>3, <3>1 DEF VerifyTarget
      <4>2. cutover'.target = cutover.target
        BY <1>0, <4>1 DEF CutoverRun
      <4> QED
        BY <1>0, <2>0, <3>1, <4>1, <4>2 DEF TargetVerified
    <3>2. CASE ~ TargetVerified(cutover.target)
      BY <2>3, <3>2 DEF VerifyTarget
    <3> QED
      BY <3>1, <3>2
  <2> QED
    BY <1>2, <2>1, <2>2, <2>3
       DEF Next, Publish, Ingest, StartMigrate, MigrateBatch, FinishMigrate, StartBackfill,
           BackfillBatch, FinishBackfill, StartBuild, Preflight, FetchRows, CreateIndex,
           BulkBatch, FinishBuild, SwapAlias, Kill, scripts, UnchangedOutsideBuild
<1>3. CASE UNCHANGED vars
  BY <1>3 DEF vars, search, scripts, Count
<1> QED
  BY <1>1, <1>2, <1>3

(* Whatever is built while a cutover runs, it brings only an index into     *)
(* service that has the documents it asks for, unless a build has deleted   *)
(* that index after it was counted.                                         *)
THEOREM FilledIndexServed == Spec => CutoverServesFilled
<1>1. Init => VerifiedFilled
  BY DEF Init, VerifiedFilled
<1>2. TypeInv /\ VerifiedFilled /\ [Next]_vars =>
        [\A n \in alias' \ alias : Count(n) >= MinDocs \/ cutover.rebuilt]_vars
  <2> SUFFICES ASSUME TypeInv, VerifiedFilled, Next, NEW n \in alias' \ alias
               PROVE  Count(n) >= MinDocs \/ cutover.rebuilt
    OBVIOUS
  <2>1. SwapAlias
    BY AliasSteps DEF DeleteIndex, search
  <2> QED
    BY <2>1 DEF SwapAlias, AliasSwapped, VerifiedFilled
<1> QED
  BY <1>1, <1>2, PipelineTypes, VerifiedStep, PTL DEF Spec, CutoverServesFilled

-----------------------------------------------------------------------------
(* Topical keys only come from versions that are published, and a migration *)
(* brings a version that no row, and nothing that a backfill still has to   *)
(* write back, is ahead of.                                                 *)
TopicsAtMost(v) ==
  /\ \A h \in Present : row[h].topics <= v
  /\ backfill # None => \A h \in ToDo : backfill.snapshot[h].topics <= v

VersionsOrdered ==
  /\ EmbeddingNotAhead
  /\ TopicsAtMost(version)
  /\ migrate # None => TopicsAtMost(migrate.version) /\ migrate.version <= version

LEMMA IngestOrdered ==
  ASSUME TypeInv, VersionsOrdered,
         NEW S \in (SUBSET Hadith) \ {{}}, NEW replace \in BOOLEAN, Ingest(S, replace)
  PROVE  VersionsOrdered'
<1>1. ASSUME NEW h \in Present'
      PROVE  \/ row'[h].topics = 0 /\ row'[h].emb = None
             \/ h \in Present /\ row'[h] = row[h]
  BY <1>1 DEF Ingest, Ingested, Present
<1>2. /\ ToDo' = ToDo /\ UNCHANGED <<version, backfill>>
      /\ migrate' # None => migrate # None /\ migrate'.version = migrate.version
  BY DEF Ingest, ToDo, Exposed, TypeInv, TypeOK, MigrateRun
<1>3. ASSUME NEW v \in Nat, TopicsAtMost(v) PROVE TopicsAtMost(v)'
  BY <1>1, <1>2, <1>3 DEF TopicsAtMost
<1>4. EmbeddingNotAhead'
  BY <1>1 DEF EmbeddingNotAhead, VersionsOrdered
<1>5. version \in Nat /\ (migrate # None => migrate.version \in Nat)
  BY DEF TypeInv, TypeOK, Version, MigrateRun
<1> QED
  BY <1>2, <1>3, <1>4, <1>5 DEF VersionsOrdered, TopicsAtMost

(* What a batch of a migration does.                                        *)
LEMMA MigrateEffect ==
  ASSUME TypeInv, MigrateBatch
  PROVE  \E h \in migrate.todo :
           /\ migrate \in MigrateRun /\ h \in Hadith
           /\ Present' = Present /\ ToDo' = ToDo /\ UNCHANGED <<version, backfill>>
           /\ \A k \in Hadith : k # h \/ k \notin Present => row'[k] = row[k]
           /\ h \in Present => row'[h] = [row[h] EXCEPT !.topics = migrate.version]
           /\ migrate'.version = migrate.version /\ migrate'.records = migrate.records
           /\ migrate'.todo = migrate.todo \ {h}
           /\ migrate'.missing = IF h \in Present THEN migrate.missing
                                 ELSE migrate.missing \cup {h}
           /\ migrate'.exposed = migrate.exposed \cup (ReadBefore \cap {h})
<1>1. migrate \in MigrateRun
  BY DEF MigrateBatch, TypeInv, TypeOK
<1>2. PICK h \in migrate.todo :
        /\ row' = IF h \in Present THEN [row EXCEPT ![h] = Merged(@, migrate.version)] ELSE row
        /\ migrate' = [migrate EXCEPT !.todo = @ \ {h},
                         !.missing = IF h \in Present THEN @ ELSE @ \cup {h},
                         !.exposed = @ \cup (ReadBefore \cap {h})]
  BY DEF MigrateBatch
<1>3. h \in Hadith /\ migrate.version \in Version
  BY <1>1, <1>2 DEF MigrateRun
<1>4. /\ \A k \in Hadith : k # h \/ k \notin Present => row'[k] = row[k]
      /\ h \in Present => row'[h] = [row[h] EXCEPT !.topics = migrate.version]
  BY <1>2, <1>3 DEF Merged, TypeInv, TypeOK
<1>5. Present' = Present
  <2>1. h \in Present => row'[h] # None
    BY <1>3, <1>4, RowFields, NoneAssumption DEF TypeInv, TypeOK, Present
  <2> QED
    BY <1>3, <1>4, <2>1 DEF Present
<1>6. ToDo' = ToDo /\ UNCHANGED <<version, backfill>>
  BY DEF MigrateBatch, ToDo
<1>7. /\ migrate'.version = migrate.version /\ migrate'.records = migrate.records
      /\ migrate'.todo = migrate.todo \ {h}
      /\ migrate'.missing = IF h \in Present THEN migrate.missing
                            ELSE migrate.missing \cup {h}
      /\ migrate'.exposed = migrate.exposed \cup (ReadBefore \cap {h})
  BY <1>1, <1>2 DEF MigrateRun
<1> QED
  BY <1>1, <1>3, <1>4, <1>5, <1>6, <1>7

LEMMA MigrateOrdered ==
  ASSUME TypeInv, VersionsOrdered, MigrateBatch
  PROVE  VersionsOrdered'
<1> DEFINE v == migrate.version
<1> PICK h \in migrate.todo :
      /\ migrate \in MigrateRun /\ h \in Hadith
      /\ Present' = Present /\ ToDo' = ToDo /\ UNCHANGED <<version, backfill>>
      /\ \A k \in Hadith : k # h \/ k \notin Present => row'[k] = row[k]
      /\ h \in Present => row'[h] = [row[h] EXCEPT !.topics = migrate.version]
      /\ migrate'.version = migrate.version
  BY MigrateEffect
<1>1. /\ v \in Nat /\ v \in Version
      /\ version \in Nat /\ v <= version /\ TopicsAtMost(v)
  BY DEF MigrateBatch, TypeInv, TypeOK, MigrateRun, Version, VersionsOrdered
<1>2. Present' = Present /\ ToDo' = ToDo /\ UNCHANGED <<version, backfill>> /\ migrate'.version = v
  OBVIOUS
<1>3. ASSUME NEW k \in Present
      PROVE  /\ row'[k].emb = row[k].emb
             /\ row'[k].topics \in {row[k].topics, v}
             /\ row[k].topics <= row'[k].topics
  <2>1. row[k] \in Row /\ row[k].topics \in Nat /\ row[k].topics <= v
    BY <1>1 DEF Present, TypeInv, TypeOK, Row, Version, TopicsAtMost
  <2>2. CASE k = h
    <3>1. row'[k] = [row[k] EXCEPT !.topics = v]
      BY <1>3, <2>2
    <3> QED
      BY <1>1, <2>1, <3>1 DEF Row
  <2>3. CASE k # h
    BY <2>1, <2>3 DEF Present
  <2> QED
    BY <2>2, <2>3
<1>4. EmbeddingNotAhead'
  <2> SUFFICES ASSUME NEW k \in Present, row[k].emb # None, row[k].emb.clean
               PROVE  row[k].emb.of <= row'[k].topics
    BY <1>2, <1>3 DEF EmbeddingNotAhead
  <2>1. row[k].emb.of <= row[k].topics
    BY DEF VersionsOrdered, EmbeddingNotAhead
  <2>2. /\ row[k].emb.of \in Nat /\ row[k].topics \in Nat
    BY DEF Present, TypeInv, TypeOK, Row, Embedding, Version
  <2> QED
    BY <1>1, <1>3, <2>1, <2>2
<1>5. \A k \in Present : row[k].topics \in Nat
  BY DEF Present, TypeInv, TypeOK, Row, Version
<1>6. TopicsAtMost(v)' /\ TopicsAtMost(version)'
  BY <1>1, <1>2, <1>3, <1>5 DEF TopicsAtMost, VersionsOrdered
<1> QED
  BY <1>1, <1>2, <1>4, <1>6 DEF VersionsOrdered, TopicsAtMost

(* A batch of a backfill leaves a row as it is or writes a row back that it *)
(* has read, with an embedding of the text it has read.                     *)
LEMMA BackfillEffect ==
  ASSUME TypeInv, NEW ok \in BOOLEAN, BackfillBatch(ok)
  PROVE  \E h \in ToDo, e \in Embedding :
           /\ backfill.snapshot[h] \in Row
           /\ e.clean => e.of = backfill.snapshot[h].topics
           /\ \/ row' = row
              \/ /\ row[h] # None
                 /\ row' = [row EXCEPT ![h] = [backfill.snapshot[h] EXCEPT !.emb = e]]
           /\ backfill' = [backfill EXCEPT !.snapshot[h] = None]
<1> PICK h \in ToDo :
      LET snapshot == backfill.snapshot[h]
          e == [clean |-> backfill.clean, of |-> IF backfill.clean THEN snapshot.topics ELSE 0]
          same == row[h] # None /\ row[h].id = snapshot.id
      IN  /\ row' = IF ok /\ same
                    THEN [row EXCEPT ![h] = WrittenBack(@, snapshot, e)] ELSE row
          /\ backfill' = [backfill EXCEPT !.snapshot[h] = None]
  BY DEF BackfillBatch
<1> DEFINE e == [clean |-> backfill.clean,
                 of |-> IF backfill.clean THEN backfill.snapshot[h].topics ELSE 0]
<1>1. backfill \in BackfillRun
  BY DEF BackfillBatch, TypeInv, TypeOK
<1>2. backfill.snapshot[h] \in Row
  BY <1>1 DEF ToDo, BackfillRun
<1>3. e \in Embedding
  BY <1>1, <1>2, SizeAssumption, RowFields DEF Embedding, BackfillRun, Version
<1> QED
  BY <1>2, <1>3 DEF WrittenBack

LEMMA BackfillOrdered ==
  ASSUME TypeInv, VersionsOrdered, NEW ok \in BOOLEAN, BackfillBatch(ok)
  PROVE  VersionsOrdered'
<1> PICK h \in ToDo, e \in Embedding :
      /\ backfill.snapshot[h] \in Row
      /\ e.clean => e.of = backfill.snapshot[h].topics
      /\ \/ row' = row
         \/ /\ row[h] # None
            /\ row' = [row EXCEPT ![h] = [backfill.snapshot[h] EXCEPT !.emb = e]]
      /\ backfill' = [backfill EXCEPT !.snapshot[h] = None]
  BY BackfillEffect
<1> DEFINE s == backfill.snapshot[h]
<1>1. backfill \in BackfillRun /\ h \in Hadith /\ UNCHANGED <<version, migrate>> /\ backfill # None
  BY DEF BackfillBatch, TypeInv, TypeOK, ToDo
<1>2. ASSUME NEW k \in Present'
      PROVE  \/ k \in Present /\ row'[k] = row[k]
             \/ row'[k].topics = s.topics /\ row'[k].emb = e
  BY <1>1, <1>2 DEF Present, TypeInv, TypeOK, Row
<1>3. ASSUME NEW k \in ToDo' PROVE k \in ToDo /\ backfill'.snapshot[k] = backfill.snapshot[k]
  BY <1>1, <1>3 DEF ToDo, BackfillRun
<1>4. ASSUME NEW v \in Nat, TopicsAtMost(v) PROVE TopicsAtMost(v)'
  BY <1>1, <1>2, <1>3, <1>4 DEF TopicsAtMost
<1>5. EmbeddingNotAhead'
  <2>1. s.topics \in Nat
    BY DEF Row, Version
  <2> QED
    BY <1>2, <2>1 DEF EmbeddingNotAhead, VersionsOrdered
<1>6. version \in Nat /\ (migrate # None => migrate.version \in Nat)
  BY DEF TypeInv, TypeOK, Version, MigrateRun
<1> QED
  BY <1>1, <1>4, <1>5, <1>6 DEF VersionsOrdered, TopicsAtMost

LEMMA VersionsStep == TypeInv /\ VersionsOrdered /\ [Next]_vars => VersionsOrdered'
<1> SUFFICES ASSUME TypeInv, VersionsOrdered, [Next]_vars PROVE VersionsOrdered'
  OBVIOUS
<1>0. /\ version \in Nat /\ (migrate # None => migrate.version \in Nat)
      /\ \A h \in Present : row[h].topics \in Nat
      /\ backfill # None => \A h \in ToDo : backfill.snapshot[h].topics \in Nat
  BY DEF TypeInv, TypeOK, Version, MigrateRun, BackfillRun, Present, ToDo, Row
<1>1. ASSUME UNCHANGED <<version, row, backfill, migrate>> PROVE VersionsOrdered'
  BY <1>1 DEF VersionsOrdered, TopicsAtMost, EmbeddingNotAhead, Present, ToDo
<1>2. CASE Publish
  <2>1. Present' = Present /\ ToDo' = ToDo /\ UNCHANGED <<row, backfill, migrate>>
    BY <1>2 DEF Publish, tables, scripts, Present, ToDo
  <2>2. version' = version + 1
    BY <1>2 DEF Publish
  <2> QED
    BY <1>0, <2>1, <2>2 DEF VersionsOrdered, TopicsAtMost, EmbeddingNotAhead
<1>3. ASSUME NEW S \in (SUBSET Hadith) \ {{}}, NEW replace \in BOOLEAN, Ingest(S, replace)
      PROVE  VersionsOrdered'
  BY <1>3, IngestOrdered
<1>4. ASSUME NEW records \in (SUBSET Hadith) \ {{}}, StartMigrate(records) PROVE VersionsOrdered'
  <2>1. Present' = Present /\ ToDo' = ToDo /\ UNCHANGED <<version, row, backfill>>
    BY <1>4 DEF StartMigrate, tables, Present, ToDo
  <2>2. migrate'.version = version
    BY <1>4 DEF StartMigrate
  <2> QED
    BY <1>0, <2>1, <2>2 DEF VersionsOrdered, TopicsAtMost, EmbeddingNotAhead
<1>5. CASE MigrateBatch
  BY <1>5, MigrateOrdered
<1>6. ASSUME UNCHANGED <<version, row, backfill>>, migrate' = None PROVE VersionsOrdered'
  BY <1>6 DEF VersionsOrdered, TopicsAtMost, EmbeddingNotAhead, Present, ToDo
<1>7. ASSUME UNCHANGED <<version, row, migrate>>, backfill' = None PROVE VersionsOrdered'
  BY <1>7 DEF VersionsOrdered, TopicsAtMost, EmbeddingNotAhead, Present, ToDo
<1>8. ASSUME NEW clean \in BOOLEAN, NEW overwrite \in BOOLEAN, StartBackfill(clean, overwrite)
      PROVE  VersionsOrdered'
  <2>1. Present' = Present /\ UNCHANGED <<version, row, migrate>>
    BY <1>8 DEF StartBackfill, tables, Present
  <2>2. \A h \in ToDo' : h \in Present /\ backfill'.snapshot[h] = row[h]
    BY <1>8 DEF StartBackfill, ToDo, ToEmbed
  <2> QED
    BY <2>1, <2>2 DEF VersionsOrdered, TopicsAtMost, EmbeddingNotAhead
<1>9. ASSUME NEW ok \in BOOLEAN, BackfillBatch(ok) PROVE VersionsOrdered'
  BY <1>9, BackfillOrdered
<1>10. CASE Kill
  BY <1>1, <1>6, <1>7, <1>10 DEF Kill, tables
<1>11. CASE Next
  BY <1>1, <1>2, <1>3, <1>4, <1>5, <1>6, <1>7, <1>8, <1>9, <1>10, <1>11
     DEF Next, FinishMigrate, FinishBackfill, StartBuild, Preflight, FetchRows, DeleteIndex,
         CreateIndex, BulkBatch, FinishBuild, StartCutover, VerifyTarget, SwapAlias,
         tables, UnchangedOutsideBuild
<1>12. CASE UNCHANGED vars
  BY <1>1, <1>12 DEF vars, tables, scripts
<1> QED
  BY <1>11, <1>12

(* However ingestion, migration and backfill run into each other, no        *)
(* embedding is of a newer text than the one its row has.                   *)
THEOREM EmbeddingNeverAhead == Spec => []EmbeddingNotAhead
<1>1. Init => VersionsOrdered
  <2> SUFFICES ASSUME Init PROVE VersionsOrdered
    OBVIOUS
  <2>1. Present = {}
    BY DEF Init, NoRows, Present
  <2> QED
    BY <2>1 DEF Init, VersionsOrdered, TopicsAtMost, EmbeddingNotAhead
<1>2. VersionsOrdered => EmbeddingNotAhead
  BY DEF VersionsOrdered
<1> QED
  BY <1>1, <1>2, PipelineTypes, VersionsStep, PTL DEF Spec

-----------------------------------------------------------------------------
(* No script but ingestion takes an embedding away, whatever runs with it.  *)
THEOREM EmbeddingsKept == Spec => EmbeddingsSurvive
<1> DEFINE Kept ==
      \A h \in Present : row[h].emb # None /\ row'[h] # None /\ row'[h].emb = None
        => row'[h] = Ingested(h, row'[h].id)
<1>1. TypeInv /\ [Next]_vars => [Kept]_vars
  <2> SUFFICES ASSUME TypeInv, Next,
                      NEW h \in Present, row[h].emb # None, row'[h] # None, row'[h].emb = None
               PROVE  row'[h] = Ingested(h, row'[h].id)
    OBVIOUS
  <2>0. h \in Hadith /\ row[h] \in Row
    BY DEF Present, TypeInv, TypeOK
  <2>1. row' # row
    OBVIOUS
  <2>2. ASSUME NEW S \in (SUBSET Hadith) \ {{}}, NEW replace \in BOOLEAN, Ingest(S, replace)
        PROVE  row'[h] = Ingested(h, row'[h].id)
    BY <2>0, <2>2 DEF Ingest, Ingested
  <2>3. ~ MigrateBatch
    <3> SUFFICES ASSUME MigrateBatch PROVE row'[h].emb = row[h].emb
      OBVIOUS
    <3>1. row'[h] = row[h] \/ row'[h] = [row[h] EXCEPT !.topics = migrate.version]
      BY <2>0, MigrateEffect
    <3> QED
      BY <2>0, <3>1 DEF Row
  <2>4. ASSUME NEW ok \in BOOLEAN, BackfillBatch(ok) PROVE FALSE
    <3> PICK k \in ToDo, e \in Embedding :
          /\ backfill.snapshot[k] \in Row
          /\ \/ row' = row
             \/ row' = [row EXCEPT ![k] = [backfill.snapshot[k] EXCEPT !.emb = e]]
      BY <2>4, BackfillEffect
    <3>1. [backfill.snapshot[k] EXCEPT !.emb = e].emb = e /\ e # None
      BY NoneAssumption DEF Row
    <3> QED
      BY <2>0, <3>1 DEF TypeInv, TypeOK
  <2> QED
    BY <2>1, <2>2, <2>3, <2>4
       DEF Next, Publish, StartMigrate, FinishMigrate, StartBackfill, FinishBackfill,
           StartBuild, Preflight, FetchRows, DeleteIndex, CreateIndex, BulkBatch,
           FinishBuild, StartCutover, VerifyTarget, SwapAlias, Kill, tables,
           UnchangedOutsideBuild
<1> QED
  BY <1>1, PipelineTypes, PTL DEF Spec, EmbeddingsSurvive

-----------------------------------------------------------------------------
(* What a migration has done with a hadith: there is no row, or somebody    *)
(* else wrote or may still write it, or it has the version, and so has what *)
(* a backfill will write back.                                              *)
Reached(h) ==
  \/ h \in migrate.missing \/ h \in migrate.exposed
  \/ /\ row[h] # None /\ row[h].topics = migrate.version
     /\ h \in ReadBefore => backfill.snapshot[h].topics = migrate.version

MergedSoFar ==
  migrate # None => \A h \in migrate.records \ migrate.todo : Reached(h)

LEMMA MergedBatch ==
  ASSUME TypeInv, MergedSoFar, MigrateBatch
  PROVE  MergedSoFar'
<1>1. migrate # None /\ row \in [Hadith -> Row \cup {None}]
  BY DEF MigrateBatch, TypeInv, TypeOK
<1>2. PICK h \in migrate.todo :
        /\ migrate \in MigrateRun /\ h \in Hadith
        /\ Present' = Present /\ ToDo' = ToDo /\ UNCHANGED <<version, backfill>>
        /\ \A k \in Hadith : k # h \/ k \notin Present => row'[k] = row[k]
        /\ h \in Present => row'[h] = [row[h] EXCEPT !.topics = migrate.version]
        /\ migrate'.version = migrate.version /\ migrate'.records = migrate.records
        /\ migrate'.todo = migrate.todo \ {h}
        /\ migrate'.missing = IF h \in Present THEN migrate.missing
                              ELSE migrate.missing \cup {h}
        /\ migrate'.exposed = migrate.exposed \cup (ReadBefore \cap {h})
  BY MigrateEffect
<1>3. ReadBefore' = ReadBefore
  BY <1>2 DEF ReadBefore
<1>4. ASSUME NEW k \in migrate.records \ migrate.todo PROVE Reached(k)'
  <2>1. k \in Hadith /\ k # h
    BY <1>2, <1>4 DEF MigrateRun
  <2>2. row'[k] = row[k] /\ Reached(k)
    BY <1>1, <1>2, <1>4, <2>1 DEF MergedSoFar
  <2> QED
    BY <1>2, <1>3, <2>2 DEF Reached
<1>5. Reached(h)'
  <2>1. CASE h \notin Present
    BY <1>2, <2>1 DEF Reached
  <2>2. CASE h \in Present
    <3>1. row[h] \in Row /\ row'[h] # None
      BY <1>1, <1>2, <2>2 DEF Present
    <3>2. row'[h].topics = migrate.version
      BY <1>2, <2>2, <3>1 DEF Row
    <3> QED
      BY <1>2, <1>3, <3>1, <3>2 DEF Reached
  <2> QED
    BY <2>1, <2>2
<1> QED
  BY <1>2, <1>4, <1>5 DEF MergedSoFar

LEMMA MergedIngest ==
  ASSUME TypeInv, MergedSoFar,
         NEW S \in (SUBSET Hadith) \ {{}}, NEW replace \in BOOLEAN, Ingest(S, replace)
  PROVE  MergedSoFar'
<1> SUFFICES ASSUME migrate' # None, NEW h \in migrate'.records \ migrate'.todo
             PROVE  Reached(h)'
  BY DEF MergedSoFar
<1> DEFINE rewritten == IF replace THEN Hadith ELSE S
<1>1. /\ migrate # None /\ migrate \in MigrateRun
      /\ migrate' = [migrate EXCEPT !.exposed =
                       @ \cup (rewritten \cap (migrate.records \ migrate.todo))]
  BY DEF Ingest, Exposed, TypeInv, TypeOK
<1>2. /\ migrate'.records = migrate.records /\ migrate'.todo = migrate.todo
      /\ migrate'.missing = migrate.missing /\ migrate'.version = migrate.version
      /\ migrate'.exposed = migrate.exposed \cup (rewritten \cap (migrate.records \ migrate.todo))
  BY <1>1 DEF MigrateRun
<1>3. h \in Hadith /\ Reached(h)
  BY <1>1, <1>2 DEF MigrateRun, MergedSoFar
<1>4. CASE h \in rewritten
  BY <1>2, <1>4 DEF Reached
<1>5. CASE h \notin rewritten
  <2>1. row'[h] = row[h] /\ UNCHANGED backfill
    BY <1>3, <1>5 DEF Ingest
  <2> QED
    BY <1>2, <1>3, <2>1 DEF Reached, ReadBefore, ToDo
<1> QED
  BY <1>4, <1>5

LEMMA MergedBackfill ==
  ASSUME TypeInv, MergedSoFar,
         \/ \E clean, overwrite \in BOOLEAN : StartBackfill(clean, overwrite)
         \/ \E ok \in BOOLEAN : BackfillBatch(ok)
         \/ UNCHANGED <<row, migrate>> /\ backfill' = None
  PROVE  MergedSoFar'
<1> SUFFICES ASSUME migrate' # None, NEW h \in migrate'.records \ migrate'.todo
             PROVE  Reached(h)'
  BY DEF MergedSoFar
<1>0. /\ UNCHANGED migrate /\ Reached(h) /\ h \in Hadith /\ row \in [Hadith -> Row \cup {None}]
  BY DEF StartBackfill, BackfillBatch, MergedSoFar, TypeInv, TypeOK, MigrateRun
<1>1. ASSUME NEW clean \in BOOLEAN, NEW overwrite \in BOOLEAN, StartBackfill(clean, overwrite)
      PROVE  Reached(h)'
  <2>1. UNCHANGED row /\ (h \in ReadBefore' => backfill'.snapshot[h] = row[h])
    BY <1>0, <1>1 DEF StartBackfill, tables, ReadBefore, ToDo
  <2> QED
    BY <1>0, <2>1 DEF Reached
<1>2. ASSUME NEW ok \in BOOLEAN, BackfillBatch(ok) PROVE Reached(h)'
  <2>0. PICK k \in ToDo, e \in Embedding :
          /\ backfill.snapshot[k] \in Row
          /\ \/ row' = row
             \/ /\ row[k] # None
                /\ row' = [row EXCEPT ![k] = [backfill.snapshot[k] EXCEPT !.emb = e]]
          /\ backfill' = [backfill EXCEPT !.snapshot[k] = None]
    BY <1>2, BackfillEffect
  <2>1. /\ backfill # None /\ k \in ReadBefore /\ backfill \in BackfillRun /\ k \in Hadith
    BY <1>2, <2>0 DEF BackfillBatch, ReadBefore, ToDo, TypeInv, TypeOK
  <2>2. /\ h \in ReadBefore' => h \in ReadBefore
        /\ h \in ReadBefore' => backfill'.snapshot[h] = backfill.snapshot[h]
    BY <1>0, <2>0, <2>1 DEF ReadBefore, ToDo, BackfillRun
  <2>3. CASE row'[h] = row[h]
    BY <1>0, <2>2, <2>3 DEF Reached
  <2>4. CASE row'[h] # row[h]
    <3>1. h = k /\ row'[h] = [backfill.snapshot[h] EXCEPT !.emb = e]
      BY <1>0, <2>0, <2>4
    <3>2. row'[h] # None /\ row'[h].topics = backfill.snapshot[h].topics
      BY <2>0, <3>1, RowFields, NoneAssumption DEF Row
    <3> QED
      BY <1>0, <2>1, <2>2, <3>1, <3>2 DEF Reached
  <2> QED
    BY <2>3, <2>4
<1>3. CASE UNCHANGED <<row, migrate>> /\ backfill' = None
  BY <1>0, <1>3 DEF Reached, ReadBefore
<1> QED
  BY <1>1, <1>2, <1>3

LEMMA MergedStep == TypeInv /\ MergedSoFar /\ [Next]_vars => MergedSoFar'
<1> SUFFICES ASSUME TypeInv, MergedSoFar, [Next]_vars PROVE MergedSoFar'
  OBVIOUS
<1>1. ASSUME UNCHANGED <<row, migrate, backfill>> PROVE MergedSoFar'
  BY <1>1 DEF MergedSoFar, Reached, ReadBefore, ToDo
<1>2. ASSUME migrate' = None PROVE MergedSoFar'
  BY <1>2 DEF MergedSoFar
<1>3. ASSUME NEW records \in (SUBSET Hadith) \ {{}}, StartMigrate(records) PROVE MergedSoFar'
  <2>1. migrate'.todo = migrate'.records
    BY <1>3 DEF StartMigrate
  <2> QED
    BY <2>1 DEF MergedSoFar
<1>4. CASE Kill
  BY <1>1, <1>2, <1>4, MergedBackfill DEF Kill, tables
<1>5. CASE Next
  BY <1>1, <1>2, <1>3, <1>4, <1>5, MergedBatch, MergedIngest, MergedBackfill
     DEF Next, Publish, FinishMigrate, FinishBackfill, StartBuild, Preflight, FetchRows,
         DeleteIndex, CreateIndex, BulkBatch, FinishBuild, StartCutover, VerifyTarget,
         SwapAlias, tables, scripts, UnchangedOutsideBuild
<1>6. CASE UNCHANGED vars
  BY <1>1, <1>6 DEF vars, tables, scripts
<1> QED
  BY <1>5, <1>6

(* Whatever runs beside it, a migration that ends has brought every row     *)
(* that has a record to its version, but for those that were ingested again *)
(* after it and those that a backfill had read before it.                   *)
THEOREM MigrationReachesAll == Spec => MigrationComplete
<1>1. Init => MergedSoFar
  BY DEF Init, MergedSoFar
<1>2. TypeInv /\ MergedSoFar /\ [Next]_vars =>
        [migrate # None /\ migrate.todo = {} /\ migrate' = None
           => \A h \in migrate.records \ (migrate.missing \cup migrate.exposed) :
                row[h] # None /\ row[h].topics = migrate.version]_vars
  BY DEF MergedSoFar, Reached
<1> QED
  BY <1>1, <1>2, PipelineTypes, MergedStep, PTL DEF Spec, MigrationComplete

-----------------------------------------------------------------------------
(* The topical search.  What is computed by recursion over a list (sorting,   *)
(* keeping, selecting) is shown to have the items it should by choosing the   *)
(* first step at which it would not.                                          *)

\* a set of naturals that is not empty has a least element
LEMMA Least ==
  ASSUME NEW T \in SUBSET Nat, T # {}
  PROVE  \E x \in T : \A y \in T : x <= y
<1> DEFINE R == {p \in Nat \X Nat : p[1] < p[2]}
<1>1. IsWellFoundedOn(R, Nat)
  <2>1. R = OpToRel(<, Nat)
    BY DEF OpToRel
  <2> QED BY <2>1, NatLessThanWellFounded
<1>2. \A y, x \in Nat : y < x => <<y, x>> \in R
  OBVIOUS
<1> HIDE DEF R
<1>3. PICK x \in T : \A y \in T : <<y, x>> \notin R
  BY <1>1, WFMin
<1>4. \A y \in T : ~ (y < x)
  BY <1>2, <1>3
<1> QED BY <1>4

\* a function of the steps stays in a family of sets when each step does
LEMMA Steps ==
  ASSUME NEW N \in Nat, NEW f, NEW T,
         f[0] \in T[0],
         \A n \in 1 .. N : f[n - 1] \in T[n - 1] => f[n] \in T[n]
  PROVE  \A n \in 0 .. N : f[n] \in T[n]
<1> DEFINE Bad == {n \in 0 .. N : f[n] \notin T[n]}
<1>1. SUFFICES ASSUME Bad # {} PROVE FALSE
  BY <1>1
<1>2. PICK n \in Bad : \A m \in Bad : n <= m
  BY <1>1, Least, Bad \in SUBSET Nat
<1>3. n \in 1 .. N
  BY <1>2
<1>4. n - 1 \in 0 .. N /\ n - 1 \notin Bad
  BY <1>2, <1>3
<1> QED BY <1>2, <1>3, <1>4

\* and there is a function of the steps
StepsStay(N, S, T, G, base) ==
  /\ N \in Nat /\ base \in T[0]
  /\ \A n \in 0 .. N : T[n] \subseteq S
  /\ \A n \in 1 .. N : \A s \in T[n - 1] : G[n][s] \in T[n]
HasSteps(N, S, T, G, base) ==
  \E f \in [0 .. N -> S] :
    /\ f[0] = base
    /\ \A n \in 1 .. N : f[n] = G[n][f[n - 1]]
    /\ \A n \in 0 .. N : f[n] \in T[n]
\* such a function exists, by induction on the number of steps
LEMMA Recursion ==
  ASSUME NEW N, NEW S, NEW T, NEW G, NEW base, StepsStay(N, S, T, G, base)
  PROVE  HasSteps(N, S, T, G, base)
<1>0. /\ N \in Nat /\ base \in T[0]
      /\ \A n \in 0 .. N : T[n] \subseteq S
      /\ \A n \in 1 .. N : \A s \in T[n - 1] : G[n][s] \in T[n]
  BY DEF StepsStay
<1> DEFINE P(k, f) == f = [n \in 0 .. k |-> IF n = 0 THEN base ELSE G[n][f[n - 1]]]
           Bad == {k \in 0 .. N : ~ \E f : P(k, f)}
<1>1. SUFFICES ASSUME Bad # {} PROVE FALSE
  <2>1. N \notin Bad => \E f : P(N, f)
    BY <1>0
  <2>2. ASSUME NEW f, P(N, f)
        PROVE  f[0] = base /\ \A n \in 1 .. N : f[n] = G[n][f[n - 1]]
    BY <1>0, <2>2
  <2>3. ASSUME NEW f, P(N, f)
        PROVE  \A n \in 0 .. N : f[n] \in T[n]
    <3>1. f[0] \in T[0] /\ \A n \in 1 .. N : f[n - 1] \in T[n - 1] => f[n] \in T[n]
      BY <1>0, <2>2, <2>3
    <3> QED BY <1>0, <3>1, Steps
  <2>4. ASSUME NEW f, P(N, f)
        PROVE  f \in [0 .. N -> S]
    <3>1. \A n \in 0 .. N : f[n] \in S
      BY <1>0, <2>3, <2>4
    <3> QED BY <1>0, <2>4, <3>1
  <2> HIDE DEF P
  <2> QED BY <1>1, <2>1, <2>2, <2>3, <2>4 DEF HasSteps
<1>2. PICK k \in Bad : \A m \in Bad : k <= m
  <2> HIDE DEF P
  <2> QED BY <1>1, Least, Bad \in SUBSET Nat
<1>3. CASE k = 0
  <2> DEFINE f == [n \in 0 .. 0 |-> base]
  <2>1. f = [n \in 0 .. 0 |-> IF n = 0 THEN base ELSE G[n][f[n - 1]]]
    OBVIOUS
  <2> QED BY <1>2, <1>3, <2>1
<1>4. CASE k # 0
  <2>1. k \in Nat /\ k - 1 \in 0 .. N /\ k - 1 \notin Bad
    BY <1>0, <1>2, <1>4
  <2>2. PICK f : P(k - 1, f)
    BY <2>1
  <2> DEFINE h == [n \in 0 .. k |-> IF n = k THEN G[k][f[k - 1]] ELSE f[n]]
  <2>3. \A n \in 0 .. k : h[n] = IF n = 0 THEN base ELSE G[n][h[n - 1]]
    <3> TAKE n \in 0 .. k
    <3>1. CASE n = k
      <4>1. h[n - 1] = f[k - 1]
        BY <2>1, <3>1
      <4> QED BY <2>1, <3>1, <4>1, <1>4
    <3>2. CASE n # k
      <4>1. n \in 0 .. k - 1
        BY <2>1, <3>2
      <4>2. h[n] = f[n] /\ (n # 0 => h[n - 1] = f[n - 1])
        BY <2>1, <3>2
      <4>3. f[n] = IF n = 0 THEN base ELSE G[n][f[n - 1]]
        BY <2>2, <4>1
      <4> QED BY <4>2, <4>3
    <3> QED BY <3>1, <3>2
  <2>4. P(k, h)
    BY <2>3
  <2> QED BY <1>2, <2>4
<1> QED BY <1>3, <1>4
-----------------------------------------------------------------------------

\* a list is a function on 1 .. its length, and its items are its range
LEMMA ListFacts ==
  ASSUME NEW s, IsList(s)
  PROVE  /\ Len(s) \in Nat /\ DOMAIN s = 1 .. Len(s)
         /\ s = [i \in 1 .. Len(s) |-> s[i]]
         /\ s \in Seq(Range(s))
         /\ \A i \in 1 .. Len(s) : s[i] \in Range(s)
         /\ \A x \in Range(s) : \E i \in 1 .. Len(s) : x = s[i]
BY DEF IsList, Range

\* a sequence is a list, of items it is a sequence of
LEMMA SeqIsList ==
  ASSUME NEW S, NEW s \in Seq(S)
  PROVE  IsList(s) /\ Range(s) \subseteq S
<1>1. s \in [1 .. Len(s) -> S] /\ Len(s) \in Nat
  OBVIOUS
<1>2. s \in [1 .. Len(s) -> Range(s)] /\ Range(s) \subseteq S
  BY <1>1 DEF Range
<1> QED BY <1>1, <1>2 DEF IsList

\* a function on 1 .. n is a list
LEMMA FunctionIsList ==
  ASSUME NEW n \in Nat, NEW f, f = [i \in 1 .. n |-> f[i]]
  PROVE  IsList(f) /\ Len(f) = n /\ DOMAIN f = 1 .. n
<1>1. f \in [1 .. n -> Range(f)]
  BY DEF Range
<1>2. f \in Seq(Range(f))
  BY <1>1
<1> QED BY <1>1, <1>2 DEF IsList

\* a list with an item for every item of another
LEMMA MapIsList ==
  ASSUME NEW s, IsList(s), NEW f, f = [i \in DOMAIN s |-> f[i]]
  PROVE  IsList(f) /\ DOMAIN f = DOMAIN s /\ Len(f) = Len(s)
<1>1. Len(s) \in Nat /\ DOMAIN s = 1 .. Len(s)
  BY ListFacts
<1>2. f = [i \in 1 .. Len(s) |-> f[i]]
  BY <1>1
<1> QED BY <1>1, <1>2, FunctionIsList

\* no items
LEMMA EmptyList == IsList(<<>>) /\ Range(<<>>) = {}
<1>1. <<>> \in Seq(Range(<<>>)) /\ DOMAIN <<>> = {}
  OBVIOUS
<1> QED BY <1>1 DEF IsList, Range

\* what is appended is in the range
LEMMA AppendRange ==
  ASSUME NEW X, NEW s \in Seq(X), NEW x \in X
  PROVE  Append(s, x) \in Seq(X) /\ Range(Append(s, x)) = Range(s) \cup {x}
<1>1. /\ Append(s, x) \in Seq(X) /\ Len(Append(s, x)) = Len(s) + 1 /\ Len(s) \in Nat
      /\ \A i \in 1 .. Len(s) : Append(s, x)[i] = s[i]
      /\ Append(s, x)[Len(s) + 1] = x
  OBVIOUS
<1>2. DOMAIN s = 1 .. Len(s) /\ DOMAIN Append(s, x) = 1 .. Len(s) + 1
  BY <1>1
<1> DEFINE r == Append(s, x)
           L == Len(s)
<1> HIDE DEF r, L
<1>3. Range(r) \subseteq Range(s) \cup {x}
  <2> SUFFICES ASSUME NEW y \in Range(r) PROVE y \in Range(s) \cup {x}
    OBVIOUS
  <2>1. PICK i \in 1 .. L + 1 : y = r[i]
    BY <1>2 DEF Range, r, L
  <2>2. CASE i = L + 1
    BY <1>1, <2>1, <2>2 DEF r, L
  <2>3. CASE i # L + 1
    <3>1. i \in 1 .. L
      BY <1>1, <2>3 DEF L
    <3> QED BY <1>1, <1>2, <2>1, <3>1 DEF r, L, Range
  <2> QED BY <2>2, <2>3
<1>4. Range(s) \cup {x} \subseteq Range(r)
  <2> SUFFICES ASSUME NEW y \in Range(s) \cup {x} PROVE y \in Range(r)
    OBVIOUS
  <2>1. CASE y = x
    <3>1. L + 1 \in DOMAIN r
      BY <1>1, <1>2 DEF r, L
    <3> QED BY <1>1, <2>1, <3>1 DEF r, L, Range
  <2>2. CASE y \in Range(s)
    <3>1. PICK i \in 1 .. L : y = s[i]
      BY <1>2, <2>2 DEF Range, L
    <3>2. i \in DOMAIN r
      BY <1>1, <1>2, <3>1 DEF r, L
    <3> QED BY <1>1, <3>1, <3>2 DEF r, L, Range
  <2> QED BY <2>1, <2>2
<1> QED BY <1>1, <1>3, <1>4 DEF r

\* a concatenation has the items of both
LEMMA ConcatRange ==
  ASSUME NEW s, NEW t, IsList(s), IsList(t)
  PROVE  IsList(s \o t) /\ Range(s \o t) = Range(s) \cup Range(t)
<1> DEFINE X == Range(s) \cup Range(t)
           u == s \o t
           L == Len(s)
           M == Len(t)
<1>1. s \in Seq(X) /\ t \in Seq(X)
  <2>1. s \in Seq(Range(s)) /\ t \in Seq(Range(t))
    BY ListFacts
  <2> QED BY <2>1, SeqMonotonic
<1>2. u \in Seq(X) /\ Len(u) = L + M
  BY <1>1
<1>3. IsList(u) /\ DOMAIN u = 1 .. L + M
  BY <1>2, SeqIsList, ListFacts
<1>4. \A i \in 1 .. L + M : u[i] = IF i <= L THEN s[i] ELSE t[i - L]
  BY <1>1
<1>5. L \in Nat /\ M \in Nat /\ DOMAIN s = 1 .. L /\ DOMAIN t = 1 .. M
  BY ListFacts
<1> HIDE DEF u, L, M
<1>6. Range(u) \subseteq X
  <2>1. \A i \in 1 .. L + M : u[i] \in X
    BY <1>2, <1>3
  <2> QED BY <1>3, <2>1 DEF Range
<1>7. Range(s) \subseteq Range(u)
  <2>1. \A i \in 1 .. L : i \in 1 .. L + M /\ u[i] = s[i]
    BY <1>4, <1>5
  <2> QED BY <1>3, <1>5, <2>1 DEF Range
<1>8. Range(t) \subseteq Range(u)
  <2>1. \A i \in 1 .. M : i + L \in 1 .. L + M /\ u[i + L] = t[i]
    BY <1>4, <1>5
  <2> QED BY <1>3, <1>5, <2>1 DEF Range
<1> QED BY <1>3, <1>6, <1>7, <1>8 DEF u

\* the smaller and the greater of two numbers
LEMMA TwoNumbers ==
  ASSUME NEW a \in Int, NEW b \in Int
  PROVE  /\ Min({a, b}) \in {a, b} /\ Min({a, b}) <= a /\ Min({a, b}) <= b
         /\ Max({a, b}) \in {a, b} /\ Max({a, b}) >= a /\ Max({a, b}) >= b
<1>1. \E x \in {a, b} : \A y \in {a, b} : x <= y
  <2>1. CASE a <= b
    BY <2>1
  <2>2. CASE ~ (a <= b)
    BY <2>2
  <2> QED BY <2>1, <2>2
<1>2. \E x \in {a, b} : \A y \in {a, b} : x >= y
  <2>1. CASE a <= b
    BY <2>1
  <2>2. CASE ~ (a <= b)
    BY <2>2
  <2> QED BY <2>1, <2>2
<1>3. Min({a, b}) \in {a, b} /\ \A y \in {a, b} : Min({a, b}) <= y
  BY <1>1 DEF Min
<1>4. Max({a, b}) \in {a, b} /\ \A y \in {a, b} : Max({a, b}) >= y
  BY <1>2 DEF Max
<1> QED BY <1>3, <1>4

\* a slice has items of the list
LEMMA SliceRange ==
  ASSUME NEW s, IsList(s), NEW b \in 0 .. Len(s)
  PROVE  /\ IsList(SubSeq(s, 1, b)) /\ Len(SubSeq(s, 1, b)) = b
         /\ Range(SubSeq(s, 1, b)) \subseteq Range(s)
<1>1. s \in Seq(Range(s)) /\ Len(s) \in Nat /\ \A i \in 1 .. Len(s) : s[i] \in Range(s)
  BY ListFacts
<1>2. \A i \in 1 .. b : s[i] \in Range(s)
  BY <1>1
<1>3. /\ SubSeq(s, 1, b) \in Seq(Range(s))
      /\ Len(SubSeq(s, 1, b)) = IF b < 1 THEN 0 ELSE b - 1 + 1
  BY <1>1, <1>2, SubSeqProperties
<1>4. IsList(SubSeq(s, 1, b)) /\ Len(SubSeq(s, 1, b)) = b
  <2>1. IsList(SubSeq(s, 1, b))
    BY <1>3, SeqIsList
  <2>2. (IF b < 1 THEN 0 ELSE b - 1 + 1) = b
    BY <1>1
  <2> QED BY <1>3, <2>1, <2>2
<1>5. Range(SubSeq(s, 1, b)) \subseteq Range(s)
  BY <1>3, SeqIsList
<1> QED BY <1>4, <1>5

\* the first of a list
LEMMA TopRange ==
  ASSUME NEW s, IsList(s), NEW n \in Int
  PROVE  /\ IsList(Top(n, s)) /\ Range(Top(n, s)) \subseteq Range(s)
         /\ n >= 0 => IsList(First(n, s)) /\ Range(First(n, s)) \subseteq Range(s)
<1> DEFINE L == Len(s)
           m == AtLeast(1, n)
<1>1. L \in Nat
  BY ListFacts
<1>2. m \in Int /\ m >= 1
  BY DEF AtLeast
<1> HIDE DEF L, m
<1>3. Min({m, L}) \in 0 .. L
  <2>1. Min({m, L}) \in {m, L} /\ Min({m, L}) <= L
    BY <1>1, <1>2, TwoNumbers
  <2> QED BY <1>1, <1>2, <2>1
<1>4. n >= 0 => Min({n, L}) \in 0 .. L
  <2>1. Min({n, L}) \in {n, L} /\ Min({n, L}) <= L
    BY <1>1, TwoNumbers
  <2> QED BY <1>1, <2>1
<1> QED BY <1>3, <1>4, SliceRange DEF Top, First, L, m

-----------------------------------------------------------------------------
\* what is kept of a list is what stood at the places
LEMMA KeptRange ==
  ASSUME NEW seq, IsList(seq), NEW places
  PROVE  /\ IsList(KeptAt(seq, places))
         /\ Range(KeptAt(seq, places)) = {seq[i] : i \in DOMAIN seq \cap places}
<1> DEFINE N == Len(seq)
           X == Range(seq)
           at(n) == {seq[i] : i \in 1 .. n \cap places}
           T == [n \in 0 .. N |-> {s \in Seq(X) : Range(s) = at(n)}]
           next(n, s) == IF n \in places THEN Append(s, seq[n]) ELSE s
           G == [n \in 1 .. N |-> [s \in T[n - 1] |-> next(n, s)]]
           Is(f) == f = [n \in 0 .. N |-> IF n = 0 THEN <<>> ELSE next(n, f[n - 1])]
           kept == CHOOSE f : Is(f)
<1>1. N \in Nat /\ DOMAIN seq = 1 .. N /\ \A n \in 1 .. N : seq[n] \in X
  BY ListFacts
<1>t. \A n \in 0 .. N : \A s : s \in T[n] <=> s \in Seq(X) /\ Range(s) = at(n)
  OBVIOUS
<1>2. <<>> \in T[0]
  <2>1. 0 \in 0 .. N /\ <<>> \in Seq(X) /\ Range(<<>>) = {} /\ at(0) = {}
    BY <1>1, EmptyList
  <2> HIDE DEF T, X, N, at
  <2> QED BY <2>1, <1>t
<1>3. ASSUME NEW n \in 1 .. N, NEW s \in T[n - 1]
      PROVE  next(n, s) \in T[n]
  <2>1. n - 1 \in 0 .. N /\ n \in 0 .. N
    BY <1>1
  <2>2. s \in Seq(X) /\ Range(s) = at(n - 1)
    <3> HIDE DEF T, X, N, at
    <3> QED BY <2>1, <1>t
  <2>3. at(n) = at(n - 1) \cup (IF n \in places THEN {seq[n]} ELSE {})
    <3>1. 1 .. n = 1 .. (n - 1) \cup {n}
      BY <1>1
    <3> QED BY <3>1
  <2>4. next(n, s) \in Seq(X) /\ Range(next(n, s)) = at(n)
    <3> HIDE DEF at
    <3>1. CASE n \in places
      <4>1. Append(s, seq[n]) \in Seq(X) /\ Range(Append(s, seq[n])) = Range(s) \cup {seq[n]}
        <5> HIDE DEF X, N
        <5> QED BY <1>1, <2>2, AppendRange
      <4> QED BY <2>2, <2>3, <3>1, <4>1
    <3>2. CASE n \notin places
      BY <2>2, <2>3, <3>2
    <3> QED BY <3>1, <3>2
  <2> HIDE DEF T, X, N, at, next
  <2> QED BY <2>1, <2>4, <1>t
<1>4. \A n \in 1 .. N : \A s \in T[n - 1] : G[n][s] = next(n, s)
  OBVIOUS
<1>5. Is(kept)
  <2>1. StepsStay(N, Seq(X), T, G, <<>>)
    <3>1. \A n \in 0 .. N : T[n] \subseteq Seq(X)
      OBVIOUS
    <3> HIDE DEF T, G, N, X, next
    <3> QED BY <1>1, <1>2, <1>3, <1>4, <3>1 DEF StepsStay
  <2>2. PICK f \in [0 .. N -> Seq(X)] :
           /\ f[0] = <<>> /\ \A n \in 1 .. N : f[n] = G[n][f[n - 1]]
           /\ \A n \in 0 .. N : f[n] \in T[n]
    <3> HIDE DEF T, G, N, X, next
    <3> QED BY <2>1, Recursion DEF HasSteps
  <2>3. Is(f)
    <3> HIDE DEF T, G, X, next
    <3>1. \A n \in 0 .. N : f[n] = IF n = 0 THEN <<>> ELSE next(n, f[n - 1])
      BY <1>1, <1>4, <2>2
    <3> QED BY <2>2, <3>1
  <2> QED BY <2>3
<1>6. kept[0] \in T[0]
  <2> HIDE DEF T, next, kept
  <2> QED BY <1>1, <1>2, <1>5
<1>7. \A n \in 1 .. N : kept[n - 1] \in T[n - 1] => kept[n] \in T[n]
  <2> HIDE DEF T, next, kept
  <2> QED BY <1>1, <1>3, <1>5
<1>8. \A n \in 0 .. N : kept[n] \in T[n]
  <2> HIDE DEF T, next, kept, N, Is
  <2> QED BY <1>1, <1>6, <1>7, Steps
<1>9. KeptAt(seq, places) = kept[N]
  BY DEF KeptAt
<1>10. kept[N] \in Seq(X) /\ Range(kept[N]) = at(N)
  <2> HIDE DEF kept, T, X, N, at
  <2>1. N \in 0 .. N
    BY <1>1
  <2> QED BY <2>1, <1>8, <1>t
<1> QED
  <2> HIDE DEF kept, X, Is
  <2>1. at(N) = {seq[i] : i \in DOMAIN seq \cap places}
    BY <1>1
  <2> HIDE DEF N, at
  <2> QED BY <1>9, <1>10, <2>1, SeqIsList

\* what is kept is nothing only when none of its items was to be kept
LEMMA KeptSome ==
  ASSUME NEW seq, IsList(seq), NEW places, DOMAIN seq \cap places # {}
  PROVE  KeptAt(seq, places) # <<>>
<1>1. PICK i \in DOMAIN seq \cap places : TRUE
  OBVIOUS
<1>2. seq[i] \in Range(KeptAt(seq, places))
  BY KeptRange
<1> QED BY <1>2, EmptyList

\* the first of every kind stands for all
LEMMA DistinctRange ==
  ASSUME NEW seq, IsList(seq)
  PROVE  IsList(Distinct(seq)) /\ Range(Distinct(seq)) = Range(seq)
<1> DEFINE firsts == {i \in DOMAIN seq : \A j \in 1 .. i - 1 : seq[j] # seq[i]}
<1>1. DOMAIN seq = 1 .. Len(seq) /\ Len(seq) \in Nat
  BY ListFacts
<1>2. IsList(Distinct(seq)) /\ Range(Distinct(seq)) = {seq[i] : i \in DOMAIN seq \cap firsts}
  BY KeptRange DEF Distinct
<1>3. ASSUME NEW k \in DOMAIN seq
      PROVE  \E i \in DOMAIN seq \cap firsts : seq[i] = seq[k]
  <2> DEFINE same == {i \in DOMAIN seq : seq[i] = seq[k]}
  <2>1. same \in SUBSET Nat /\ same # {}
    BY <1>1
  <2>2. PICK i \in same : \A j \in same : i <= j
    <3> HIDE DEF same
    <3> QED BY <2>1, Least
  <2>3. i \in firsts
    <3> SUFFICES ASSUME NEW j \in 1 .. i - 1, seq[j] = seq[i] PROVE FALSE
      OBVIOUS
    <3>1. j \in DOMAIN seq /\ j < i
      BY <1>1
    <3> QED BY <1>1, <2>2, <3>1
  <2> QED BY <2>3
<1> QED
  <2> HIDE DEF firsts
  <2> QED BY <1>2, <1>3 DEF Range

-----------------------------------------------------------------------------
\* an insertion adds the item
LEMMA InsertedRange ==
  ASSUME NEW X, NEW list \in Seq(X), NEW item \in X
  PROVE  /\ Inserted(list, item) \in Seq(X)
         /\ Range(Inserted(list, item)) = Range(list) \cup {item}
<1> DEFINE L == Len(list)
           B == {i \in DOMAIN list : ~ Precedes(item.key, list[i].key)}
           p == Cardinality(B)
           r == Inserted(list, item)
<1>1. L \in Nat /\ DOMAIN list = 1 .. L /\ (\A i \in 1 .. L : list[i] \in X)
  OBVIOUS
<1>2. p \in 0 .. L
  <2>1. IsFiniteSet(1 .. L) /\ Cardinality(1 .. L) = L
    <3> HIDE DEF L
    <3>1. Cardinality(1 .. L) = IF 1 > L THEN 0 ELSE L - 1 + 1
      BY <1>1, FS_Interval
    <3> QED BY <1>1, <3>1, FS_Interval
  <2>2. B \subseteq 1 .. L
    BY <1>1
  <2>3. IsFiniteSet(B) /\ p <= L /\ p \in Nat
    BY <2>1, <2>2, FS_Subset, FS_CardinalityType
  <2> QED BY <1>1, <2>3
<1>3. r = [i \in 1 .. L + 1 |-> IF i <= p THEN list[i] ELSE IF i = p + 1 THEN item ELSE list[i - 1]]
  BY DEF Inserted
<1> HIDE DEF p, r, L
<1>4. \A i \in 1 .. L + 1 : r[i] = item \/ \E j \in 1 .. L : r[i] = list[j]
  <2> TAKE i \in 1 .. L + 1
  <2>1. CASE i <= p
    <3>1. r[i] = list[i] /\ i \in 1 .. L
      BY <1>1, <1>2, <1>3, <2>1
    <3> QED BY <3>1
  <2>2. CASE i = p + 1
    BY <1>1, <1>2, <1>3, <2>2
  <2>3. CASE i > p + 1
    <3>1. r[i] = list[i - 1] /\ i - 1 \in 1 .. L
      BY <1>1, <1>2, <1>3, <2>3
    <3> QED BY <3>1
  <2> QED BY <1>1, <1>2, <2>1, <2>2, <2>3
<1>5. r \in Seq(X) /\ DOMAIN r = 1 .. L + 1
  <2>1. \A i \in 1 .. L + 1 : r[i] \in X
    BY <1>1, <1>4
  <2>2. r \in [1 .. L + 1 -> X]
    BY <1>3, <2>1
  <2> QED BY <1>1, <2>2
<1>6. \A j \in 1 .. L : \E i \in 1 .. L + 1 : r[i] = list[j]
  <2> TAKE j \in 1 .. L
  <2>1. CASE j <= p
    <3>1. j \in 1 .. L + 1 /\ r[j] = list[j]
      BY <1>1, <1>2, <1>3, <2>1
    <3> QED BY <3>1
  <2>2. CASE j > p
    <3>1. j + 1 \in 1 .. L + 1 /\ r[j + 1] = list[j]
      BY <1>1, <1>2, <1>3, <2>2
    <3> QED BY <3>1
  <2> QED BY <1>1, <1>2, <2>1, <2>2
<1>7. p + 1 \in 1 .. L + 1 /\ r[p + 1] = item
  BY <1>1, <1>2, <1>3
<1>8. Range(r) = Range(list) \cup {item}
  <2>1. Range(r) = {r[i] : i \in 1 .. L + 1} /\ Range(list) = {list[j] : j \in 1 .. L}
    BY <1>1, <1>5 DEF Range
  <2>2. {r[i] : i \in 1 .. L + 1} \subseteq {list[j] : j \in 1 .. L} \cup {item}
    BY <1>4
  <2>3. {list[j] : j \in 1 .. L} \cup {item} \subseteq {r[i] : i \in 1 .. L + 1}
    BY <1>6, <1>7
  <2> QED BY <2>1, <2>2, <2>3
<1> QED BY <1>5, <1>8 DEF r

\* sorting keeps the items
LEMMA SortedRange ==
  ASSUME NEW seq, IsList(seq), NEW keys
  PROVE  IsList(SortedBy(seq, keys)) /\ Range(SortedBy(seq, keys)) = Range(seq)
<1> DEFINE N == Len(seq)
           pair(m) == [item |-> seq[m], key |-> keys[m]]
           X == {pair(m) : m \in 1 .. N}
           upto(n) == {pair(m) : m \in 1 .. n}
           T == [n \in 0 .. N |-> {s \in Seq(X) : Range(s) = upto(n)}]
           next(n, s) == Inserted(s, pair(n))
           G == [n \in 1 .. N |-> [s \in T[n - 1] |-> next(n, s)]]
           Is(f) == f = [n \in 0 .. N |-> IF n = 0 THEN <<>> ELSE next(n, f[n - 1])]
           sorted == CHOOSE f : Is(f)
<1>1. N \in Nat /\ DOMAIN seq = 1 .. N /\ \A n \in 1 .. N : pair(n) \in X
  BY ListFacts
<1>t. \A n \in 0 .. N : \A s : s \in T[n] <=> s \in Seq(X) /\ Range(s) = upto(n)
  OBVIOUS
<1>2. <<>> \in T[0]
  <2>1. 0 \in 0 .. N /\ <<>> \in Seq(X) /\ Range(<<>>) = {} /\ upto(0) = {}
    BY <1>1, EmptyList
  <2> HIDE DEF T, X, N, upto
  <2> QED BY <2>1, <1>t
<1>3. ASSUME NEW n \in 1 .. N, NEW s \in T[n - 1]
      PROVE  next(n, s) \in T[n]
  <2>1. n - 1 \in 0 .. N /\ n \in 0 .. N
    BY <1>1
  <2>2. s \in Seq(X) /\ Range(s) = upto(n - 1)
    <3> HIDE DEF T, X, N, upto
    <3> QED BY <2>1, <1>t
  <2>3. upto(n) = upto(n - 1) \cup {pair(n)}
    <3>1. 1 .. n = 1 .. (n - 1) \cup {n}
      BY <1>1
    <3> HIDE DEF pair
    <3> QED BY <3>1
  <2>4. next(n, s) \in Seq(X) /\ Range(next(n, s)) = upto(n)
    <3> HIDE DEF upto, X, pair, N
    <3> QED BY <1>1, <2>2, <2>3, InsertedRange
  <2> HIDE DEF T, X, N, upto, next
  <2> QED BY <2>1, <2>4, <1>t
<1>4. \A n \in 1 .. N : \A s \in T[n - 1] : G[n][s] = next(n, s)
  OBVIOUS
<1>5. Is(sorted)
  <2>1. StepsStay(N, Seq(X), T, G, <<>>)
    <3>1. \A n \in 0 .. N : T[n] \subseteq Seq(X)
      OBVIOUS
    <3> HIDE DEF T, G, N, X, next
    <3> QED BY <1>1, <1>2, <1>3, <1>4, <3>1 DEF StepsStay
  <2>2. PICK f \in [0 .. N -> Seq(X)] :
           /\ f[0] = <<>> /\ \A n \in 1 .. N : f[n] = G[n][f[n - 1]]
           /\ \A n \in 0 .. N : f[n] \in T[n]
    <3> HIDE DEF T, G, N, X, next
    <3> QED BY <2>1, Recursion DEF HasSteps
  <2>3. Is(f)
    <3> HIDE DEF T, G, X, next
    <3>1. \A n \in 0 .. N : f[n] = IF n = 0 THEN <<>> ELSE next(n, f[n - 1])
      BY <1>1, <1>4, <2>2
    <3> QED BY <2>2, <3>1
  <2> QED BY <2>3
<1>6. sorted[0] \in T[0]
  <2> HIDE DEF T, next, sorted
  <2> QED BY <1>1, <1>2, <1>5
<1>7. \A n \in 1 .. N : sorted[n - 1] \in T[n - 1] => sorted[n] \in T[n]
  <2> HIDE DEF T, next, sorted
  <2> QED BY <1>1, <1>3, <1>5
<1>8. \A n \in 0 .. N : sorted[n] \in T[n]
  <2> HIDE DEF T, next, sorted, N, Is
  <2> QED BY <1>1, <1>6, <1>7, Steps
<1> DEFINE list == sorted[N]
           s == [i \in DOMAIN list |-> list[i].item]
<1>9. SortedBy(seq, keys) = s
  BY DEF SortedBy
<1>10. list \in Seq(X) /\ Range(list) = upto(N)
  <2> HIDE DEF sorted, T, X, N, upto
  <2>1. N \in 0 .. N
    BY <1>1
  <2> QED BY <2>1, <1>8, <1>t
<1>11. IsList(list)
  <2> HIDE DEF list, X
  <2> QED BY <1>10, SeqIsList
<1>12. IsList(s) /\ DOMAIN s = DOMAIN list
  <2> HIDE DEF list
  <2> QED BY <1>11, MapIsList
<1>13. Range(s) = {x.item : x \in Range(list)}
  <2> HIDE DEF list
  <2> QED BY DEF Range
<1>14. {x.item : x \in upto(N)} = Range(seq)
  <2>1. {x.item : x \in upto(N)} = {seq[m] : m \in 1 .. N}
    <3> HIDE DEF N
    <3>1. \A m \in 1 .. N : pair(m).item = seq[m]
      OBVIOUS
    <3> HIDE DEF pair
    <3> QED BY <3>1
  <2> QED BY <1>1, <2>1 DEF Range
<1> QED
  <2> HIDE DEF s, list, N, upto
  <2> QED BY <1>9, <1>10, <1>12, <1>13, <1>14

-----------------------------------------------------------------------------
\* a list has finitely many items
LEMMA RangeFinite ==
  ASSUME NEW s, IsList(s)
  PROVE  IsFiniteSet(Range(s))
<1>1. Len(s) \in Nat /\ DOMAIN s = 1 .. Len(s)
  BY ListFacts
<1>2. IsFiniteSet(1 .. Len(s))
  BY <1>1, FS_Interval
<1>3. s \in Surjection(1 .. Len(s), Range(s))
  BY <1>1, ListFacts DEF Surjection, Range
<1> QED BY <1>2, <1>3, FS_Surjection

\* quotients of naturals
LEMMA Quotient ==
  ASSUME NEW n \in Nat, NEW d \in Nat \ {0}
  PROVE  n \div d \in Nat
OBVIOUS

LEMMA ShareNat ==
  ASSUME NEW n \in Nat, NEW d \in Nat \ {0}
  PROVE  Share(n, d) \in Nat
<1>1. n * Unit \in Nat
  BY DEF Unit
<1> QED BY <1>1, Quotient DEF Share

LEMMA PctNat ==
  ASSUME NEW p \in Nat, NEW x \in Nat
  PROVE  Pct(p, x) \in Nat
<1>1. x \div 100 \in Nat
  BY Quotient
<1> DEFINE y == x \div 100
<1> HIDE DEF y
<1>2. p * y \in Nat
  BY <1>1 DEF y
<1> QED BY <1>2 DEF Pct, y

\* a relevance without a bound becomes a natural number as well
LEMMA SaturatedNat ==
  ASSUME NEW v \in Nat
  PROVE  Saturated(v) \in Nat /\ (v <= Unit => Saturated(v) = v)
<1>1. CASE v <= Unit
  BY <1>1 DEF Saturated, AtLeast
<1>2. CASE ~ (v <= Unit)
  <2> DEFINE k == v \div 1000
             m == (1000 * k) \div (k + 4000)
  <2>1. k \in Nat
    BY Quotient
  <2>2. m \in Nat
    <3> HIDE DEF k
    <3>1. 1000 * k \in Nat /\ k + 4000 \in Nat \ {0}
      BY <2>1
    <3> QED BY <3>1, Quotient
  <2>3. Saturated(v) = 1000 * m
    BY <1>2 DEF Saturated
  <2> HIDE DEF m
  <2> QED BY <1>2, <2>2, <2>3
<1> QED BY <1>1, <1>2

\* the share of the words that two texts have in common
LEMMA OverlapNat ==
  ASSUME NEW a, NEW b, IsFiniteSet(a), IsFiniteSet(b)
  PROVE  OverlapScore(a, b) \in Nat
<1>1. CASE a = {} \/ b = {}
  BY <1>1 DEF OverlapScore
<1>2. CASE a # {} /\ b # {}
  <2>1. Cardinality(a) \in Nat \ {0} /\ Cardinality(b) \in Nat \ {0}
    BY <1>2, FS_CardinalityType, FS_EmptySet
  <2>2. IsFiniteSet(a \cap b)
    BY FS_Subset
  <2>3. Cardinality(a \cap b) \in Nat
    BY <2>2, FS_CardinalityType
  <2> DEFINE m == Cardinality(a)
             n == Cardinality(b)
             k == Cardinality(a \cap b)
  <2> HIDE DEF m, n, k
  <2>4. Min({m, n}) \in Nat \ {0}
    <3>1. m \in Int /\ n \in Int
      BY <2>1 DEF m, n
    <3>2. Min({m, n}) \in {m, n}
      BY <3>1, TwoNumbers
    <3> QED BY <2>1, <3>2 DEF m, n
  <2>5. Share(k, Min({m, n})) \in Nat
    BY <2>3, <2>4, ShareNat DEF k
  <2> QED BY <1>2, <2>5 DEF OverlapScore, m, n, k
<1> QED BY <1>1, <1>2

-----------------------------------------------------------------------------
\* what the index yields: a record with some score, anchored or not
IsFind(topic, c) ==
  \E d \in Records, score \in Nat, anchored \in BOOLEAN : c = CandidateOf(topic, d, score, anchored)
\* what the rerank makes of it, and the place it takes
IsRanked(topic, q, h) ==
  \E c : /\ IsFind(topic, c)
         /\ h.c = [c EXCEPT !.rerank = RerankScore(q, c)]
         /\ h.score = CandidateScore(q, Weights(q), h.c)

\* a query with a sure topic
IsAbout(topic, q) ==
  /\ IsList(q.raw) /\ IsList(q.text) /\ IsList(q.topics)
  /\ topic.primary # Nothing /\ topic.primary \in Range(q.topics)
IsStrong(topic, c) == topic.primary \in c.topics /\ c.prophetic /\ c.central >= 800000

\* the scores of a strong find
LEMMA StrongScores ==
  ASSUME NEW topic, NEW c, IsFind(topic, c), IsStrong(topic, c), topic.primary # Nothing
  PROVE  /\ c.central \in 800000 .. Unit /\ c.answerability = 900000
         /\ c.specificity = 50000 /\ c.incidental = 0 /\ c.builder = Unit
         /\ c.role = "direct_moral_instruction" /\ c.fusion \in Nat
         /\ IsList(c.chapter) /\ IsList(c.summary) /\ IsList(c.text)
<1>1. PICK d \in Records, score \in Nat, anchored \in BOOLEAN :
         c = CandidateOf(topic, d, score, anchored)
  BY DEF IsFind
<1>2. IsList(d.matn) /\ IsList(d.label) /\ d.density \in 0 .. Unit
  BY RecordsAssumption
<1>3. /\ c.central = IF anchored THEN d.density ELSE 0
      /\ c.topics = d.primary /\ c.prophetic = d.prophetic
  BY <1>1, SMT DEF CandidateOf
<1>4. anchored /\ c.central \in 800000 .. Unit /\ Hits(topic, d)
  <2>1. topic.primary \in d.primary /\ 800000 <= c.central
    BY <1>3 DEF IsStrong
  <2>2. anchored
    <3>1. CASE ~ anchored
      <4>1. c.central = 0
        BY <1>3, <3>1
      <4> QED BY <2>1, <4>1
    <3> QED BY <3>1
  <2>3. c.central = d.density
    BY <1>3, <2>2
  <2>4. Unit \in Int
    BY DEF Unit
  <2>5. c.central \in 800000 .. Unit
    BY <1>2, <2>1, <2>3, <2>4
  <2> QED BY <2>1, <2>2, <2>5 DEF Hits
<1> DEFINE hit == anchored /\ Hits(topic, d)
<1>5. hit /\ d.prophetic
  BY <1>3, <1>4 DEF IsStrong
<1>6. /\ c.incidental = IF anchored THEN 0 ELSE Unit
      /\ c.builder = IF anchored THEN BuilderRank(topic, d) ELSE 0
      /\ c.role = IF d.prophetic THEN "direct_moral_instruction" ELSE "narrative_incident"
      /\ c.fusion = score /\ c.chapter = d.label /\ c.summary = d.matn /\ c.text = d.matn
  BY <1>1, SMT DEF CandidateOf
<1>7. c.answerability = 900000 /\ c.specificity = 50000
  BY <1>1, <1>4, <1>5, SMTT(30) DEF CandidateOf, V2Answerability, V2Specificity
<1>8. c.builder = Unit
  BY <1>4, <1>6 DEF BuilderRank
<1>9. c.incidental = 0 /\ c.role = "direct_moral_instruction"
  BY <1>4, <1>5, <1>6
<1> QED BY <1>2, <1>4, <1>6, <1>7, <1>8, <1>9

\* the rerank keeps everything else
LEMMA RerankKeeps ==
  ASSUME NEW topic, NEW c, IsFind(topic, c), NEW x, NEW y, y = [c EXCEPT !.rerank = x]
  PROVE  /\ y.rerank = x /\ y.topics = c.topics /\ y.prophetic = c.prophetic
         /\ y.central = c.central /\ y.answerability = c.answerability
         /\ y.specificity = c.specificity /\ y.incidental = c.incidental
         /\ y.builder = c.builder /\ y.role = c.role /\ y.fusion = c.fusion
         /\ y.passage = c.passage
<1>1. PICK d \in Records, score \in Nat, anchored \in BOOLEAN :
         c = CandidateOf(topic, d, score, anchored)
  BY DEF IsFind
<1> QED BY <1>1, SMT DEF CandidateOf

\* no preference for a role is against a direct instruction
LEMMA InstructionBonus ==
  ASSUME NEW profile
  PROVE  /\ ProfileBonus(RerankBonus, profile, "direct_moral_instruction") \in Nat
         /\ ProfileBonus(SelectionBonus, profile, "direct_moral_instruction") \in Nat
<1>1. DOMAIN PreferredRoles = {"prophetic_guidance", "guidance", "warning", "virtue"}
  BY DEF PreferredRoles
<1>2. CASE profile \notin DOMAIN PreferredRoles
  BY <1>2 DEF ProfileBonus
<1>3. CASE profile = "prophetic_guidance"
  BY <1>1, <1>3 DEF ProfileBonus, RerankBonus, SelectionBonus, PreferredRoles, Teaching, When
<1>4. CASE profile = "guidance"
  BY <1>1, <1>4 DEF ProfileBonus, RerankBonus, SelectionBonus, PreferredRoles, Teaching, When
<1>5. CASE profile = "warning"
  BY <1>1, <1>5 DEF ProfileBonus, RerankBonus, SelectionBonus, PreferredRoles, Teaching, When
<1>6. CASE profile = "virtue"
  BY <1>1, <1>6 DEF ProfileBonus, RerankBonus, SelectionBonus, PreferredRoles, Teaching, When
<1> QED BY <1>1, <1>2, <1>3, <1>4, <1>5, <1>6

\* nor is any shape of a question
LEMMA InstructionShape ==
  ASSUME NEW q
  PROVE  ShapeBonus(q, "direct_moral_instruction") \in Nat
<1>1. DOMAIN ShapeRoles = {"procedural_descriptive", "prophetic_teaching", "ruling_warning", "virtue"}
  BY DEF ShapeRoles
<1>2. CASE q.shape \notin DOMAIN ShapeRoles
  BY <1>2 DEF ShapeBonus
<1>3. CASE q.shape = "procedural_descriptive"
  BY <1>1, <1>3 DEF ShapeBonus, ShapeRoles
<1>4. CASE q.shape = "prophetic_teaching"
  BY <1>1, <1>4 DEF ShapeBonus, ShapeRoles
<1>5. CASE q.shape = "ruling_warning"
  BY <1>1, <1>5 DEF ShapeBonus, ShapeRoles
<1>6. CASE q.shape = "virtue"
  BY <1>1, <1>6 DEF ShapeBonus, ShapeRoles
<1> QED BY <1>1, <1>2, <1>3, <1>4, <1>5, <1>6

\* a clamped score
LEMMA ClampedScore ==
  ASSUME NEW x \in Int
  PROVE  Clamped(x) \in 0 .. Unit /\ (x >= 465000 => Clamped(x) >= 465000)
<1>1. Unit \in Nat /\ Unit >= 465000
  BY DEF Unit
<1>2. CASE x > Unit
  BY <1>1, <1>2, SMT DEF Clamped, AtLeast, AtMost
<1>3. CASE ~ (x > Unit)
  BY <1>1, <1>3, SMT DEF Clamped, AtLeast, AtMost
<1> QED BY <1>2, <1>3

\* the share of a score
LEMMA PctAtLeast ==
  ASSUME NEW p \in Nat, NEW x \in Nat, NEW k \in Nat, x >= 100 * k
  PROVE  Pct(p, x) \in Nat /\ Pct(p, x) >= p * k
<1>1. x \div 100 \in Nat /\ x \div 100 >= k
  OBVIOUS
<1> DEFINE y == x \div 100
<1> HIDE DEF y
<1>2. p * y \in Nat /\ p * y >= p * k
  <2>1. y \in Nat /\ y >= k /\ p \in Nat /\ k \in Nat
    BY <1>1 DEF y
  <2> QED BY <2>1
<1> QED BY <1>2 DEF Pct, y

\* a strong find of the topic is ranked high whatever its words
LEMMA StrongRerank ==
  ASSUME NEW topic, NEW q, NEW c, IsAbout(topic, q), IsFind(topic, c), IsStrong(topic, c)
  PROVE  RerankScore(q, c) \in 465000 .. Unit
<1> DEFINE chapter == Pct(24, OverlapScore(AskedWords(q), Range(c.chapter)))
           summary == Pct(16, OverlapScore(AskedWords(q), Range(c.summary)))
           text == Pct(10, OverlapScore(AskedWords(q), Range(c.text)))
           role == ProfileBonus(RerankBonus, q.profile, c.role)
           boost == PropheticBoost(q, c)
           terms == When(c.terms # {}, 120000)
           sum == chapter + summary + text + Pct(16, c.central) + Pct(18, c.answerability)
                  + 180000 + terms + role + boost - Pct(12, c.incidental) - Pct(10, c.specificity)
<1>1. /\ c.central \in 800000 .. Unit /\ c.answerability = 900000
      /\ c.specificity = 50000 /\ c.incidental = 0
      /\ c.role = "direct_moral_instruction"
      /\ IsList(c.chapter) /\ IsList(c.summary) /\ IsList(c.text)
  BY StrongScores DEF IsAbout
<1>2. chapter \in Nat /\ summary \in Nat /\ text \in Nat
  <2>1. IsFiniteSet(AskedWords(q))
    BY RangeFinite DEF IsAbout, AskedWords, AskedText
  <2>2. /\ OverlapScore(AskedWords(q), Range(c.chapter)) \in Nat
        /\ OverlapScore(AskedWords(q), Range(c.summary)) \in Nat
        /\ OverlapScore(AskedWords(q), Range(c.text)) \in Nat
    BY <1>1, <2>1, RangeFinite, OverlapNat
  <2> QED BY <2>2, PctNat
<1>3. role \in Nat
  BY <1>1, InstructionBonus
<1>4. terms \in Nat /\ boost \in Nat
  BY DEF When, PropheticBoost
<1>5. Pct(16, c.central) \in Nat /\ Pct(16, c.central) >= 128000
  <2>1. c.central \in Nat /\ c.central >= 100 * 8000
    <3>1. Unit \in Nat
      BY DEF Unit
    <3> QED BY <1>1, <3>1, SMT
  <2>2. Pct(16, c.central) \in Nat /\ Pct(16, c.central) >= 16 * 8000
    BY <2>1, PctAtLeast
  <2> QED BY <2>2
<1>6. Pct(18, c.answerability) = 162000 /\ Pct(12, c.incidental) = 0 /\ Pct(10, c.specificity) = 5000
  BY <1>1 DEF Pct
<1>7. Aligned(q, c)
  BY DEF Aligned, IsAbout, IsStrong
<1>8. RerankScore(q, c) = Clamped(sum)
  BY <1>7 DEF RerankScore
<1>9. sum \in Int /\ sum >= 465000
  <2> HIDE DEF chapter, summary, text, role, boost, terms
  <2> QED BY <1>2, <1>3, <1>4, <1>5, <1>6
<1> HIDE DEF sum
<1>10. Unit \in Nat
  BY DEF Unit
<1>11. Clamped(sum) \in 0 .. Unit /\ Clamped(sum) >= 465000
  BY <1>9, ClampedScore, SMT
<1> QED BY <1>8, <1>10, <1>11, SMT

-----------------------------------------------------------------------------
\* what the gate requires of a selection that is strict
LEMMA StrictThresholds ==
  ASSUME NEW q, Thresholds(q)[2] >= 420000
  PROVE  Thresholds(q)[3] >= 480000
<1>1. CASE q.retrieval \in {"entity_eschatology", "narrative_event", "ritual_practice"}
  BY <1>1 DEF Thresholds
<1>2. CASE q.retrieval \notin {"entity_eschatology", "narrative_event", "ritual_practice"}
  <2>1. Thresholds(q) \in {<<700000, 560000, 620000>>, <<640000, 580000, 620000>>,
                           <<610000, 550000, 580000>>, <<580000, 420000, 480000>>}
    BY <1>2 DEF Thresholds
  <2> QED BY <2>1
<1> QED BY <1>1, <1>2

\* the thresholds of a query with topics, below what a strong find scores
LEMMA ReachedThresholds ==
  ASSUME NEW q, q.topics # <<>>
  PROVE  /\ Thresholds(q)[1] <= IF Thematic(q) THEN 480000 ELSE 640000
         /\ Thresholds(q)[2] <= 580000 /\ Thresholds(q)[3] <= 620000
         /\ Thresholds(q)[1] \in Int /\ Thresholds(q)[2] \in Int /\ Thresholds(q)[3] \in Int
<1>1. Thematic(q) <=> q.retrieval \in {"entity_eschatology", "narrative_event", "ritual_practice"}
  BY DEF Thematic, ThematicCues
<1>2. CASE Thematic(q)
  BY <1>1, <1>2 DEF Thresholds
<1>3. CASE ~ Thematic(q)
  <2>1. Thresholds(q) \in {<<640000, 580000, 620000>>,
                           <<610000, 550000, 580000>>, <<580000, 420000, 480000>>}
    BY <1>1, <1>3 DEF Thresholds
  <2> QED BY <1>3, <2>1
<1> QED BY <1>2, <1>3

\* the preference for a role costs a direct instruction little, and nothing
\* outside the thematic families
LEMMA InstructionRole ==
  ASSUME NEW q
  PROVE  /\ RoleBonus(q, "direct_moral_instruction") \in Int
         /\ RoleBonus(q, "direct_moral_instruction") >= IF Thematic(q) THEN -20000 ELSE 0
<1>1. Thematic(q) <=> q.retrieval \in {"entity_eschatology", "narrative_event", "ritual_practice"}
  BY DEF Thematic, ThematicCues
<1>2. CASE q.shape = "procedural_descriptive"
  BY <1>2 DEF RoleBonus
<1>3. CASE q.shape # "procedural_descriptive" /\ q.retrieval = "entity_eschatology"
  BY <1>1, <1>3 DEF RoleBonus
<1>4. CASE q.shape # "procedural_descriptive" /\ q.retrieval \in {"narrative_event", "ritual_practice"}
  <2>1. RoleBonus(q, "direct_moral_instruction")
          = When("direct_moral_instruction" \in PassageRoles[q.retrieval], 100000)
    BY <1>4 DEF RoleBonus
  <2> QED BY <1>1, <1>4, <2>1 DEF When
<1>5. CASE q.shape # "procedural_descriptive" /\ ~ Thematic(q)
  <2>1. RoleBonus(q, "direct_moral_instruction")
          = ProfileBonus(SelectionBonus, q.profile, "direct_moral_instruction")
    BY <1>1, <1>5 DEF RoleBonus
  <2> QED BY <1>5, <2>1, InstructionBonus
<1> QED BY <1>1, <1>2, <1>3, <1>4, <1>5

\* and a strong find passes every threshold, whatever the query asks for
LEMMA StrongPasses ==
  ASSUME NEW topic, NEW q, NEW h, IsAbout(topic, q), IsRanked(topic, q, h),
         IsStrong(topic, h.c)
  PROVE  Passes(q, Thresholds(q), h)
<1>1. PICK c : /\ IsFind(topic, c)
               /\ h.c = [c EXCEPT !.rerank = RerankScore(q, c)]
               /\ h.score = CandidateScore(q, Weights(q), h.c)
  BY DEF IsRanked
<1> DEFINE y == h.c
           w == Weights(q)
<1>2. /\ y.rerank = RerankScore(q, c) /\ y.topics = c.topics /\ y.prophetic = c.prophetic
      /\ y.central = c.central /\ y.answerability = c.answerability
      /\ y.specificity = c.specificity /\ y.incidental = c.incidental
      /\ y.builder = c.builder /\ y.role = c.role /\ y.fusion = c.fusion
  BY <1>1, RerankKeeps
<1>3. IsStrong(topic, c)
  BY <1>2 DEF IsStrong
<1>4. /\ y.central \in 800000 .. Unit /\ y.answerability = 900000 /\ y.specificity = 50000
      /\ y.incidental = 0 /\ y.builder = Unit /\ y.role = "direct_moral_instruction"
      /\ y.fusion \in Nat
  BY <1>1, <1>2, <1>3, StrongScores DEF IsAbout
<1>5. y.rerank \in 465000 .. Unit
  BY <1>1, <1>2, <1>3, StrongRerank
<1>6. Aligned(q, y)
  BY DEF Aligned, IsAbout, IsStrong
<1> DEFINE role == RoleBonus(q, y.role)
           shape == ShapeBonus(q, y.role)
<1>7. role \in Int /\ role >= IF Thematic(q) THEN -20000 ELSE 0
  BY <1>4, InstructionRole
<1>8. shape \in Nat
  BY <1>4, InstructionShape
<1>9. /\ Saturated(y.fusion) \in Nat /\ Saturated(y.rerank) \in Nat /\ Saturated(y.rerank) >= 465000
      /\ Clamped(y.builder) = Unit /\ y.central \in Nat /\ y.central >= 800000
  <2>1. Unit \in Nat /\ Unit >= 0
    BY DEF Unit
  <2>2. y.rerank \in Nat /\ y.rerank <= Unit /\ y.rerank >= 465000
    BY <1>5, <2>1, SMT
  <2>3. Clamped(y.builder) = Unit
    BY <1>4, <2>1, SMT DEF Clamped, AtLeast, AtMost
  <2>4. y.central \in Nat /\ y.central >= 800000
    BY <1>4, <2>1, SMT
  <2>5. Saturated(y.fusion) \in Nat /\ Saturated(y.rerank) = y.rerank
    BY <1>4, <2>2, SaturatedNat
  <2> QED BY <2>2, <2>3, <2>4, <2>5, SMT
<1>10. Pct(4, 50000) = 2000 /\ Pct(2, 50000) = 1000 /\ Pct(20, 900000) = 180000
       /\ Pct(22, 900000) = 198000 /\ Pct(4, Unit) = 40000 /\ Pct(8, Unit) = 80000
       /\ Pct(6, 0) = 0 /\ Pct(10, 0) = 0
  BY SMT DEF Pct, Unit
<1>11. /\ Pct(18, Saturated(y.rerank)) \in Nat /\ Pct(18, Saturated(y.rerank)) >= 83700
       /\ Pct(26, y.central) \in Nat /\ Pct(26, y.central) >= 208000
       /\ Pct(28, y.central) \in Nat /\ Pct(28, y.central) >= 224000
  <2>1. Saturated(y.rerank) >= 100 * 4650 /\ y.central >= 100 * 8000
    BY <1>9, SMT
  <2>2. /\ Pct(18, Saturated(y.rerank)) \in Nat /\ Pct(18, Saturated(y.rerank)) >= 18 * 4650
        /\ Pct(26, y.central) \in Nat /\ Pct(26, y.central) >= 26 * 8000
        /\ Pct(28, y.central) \in Nat /\ Pct(28, y.central) >= 28 * 8000
    <3> DEFINE r == Saturated(y.rerank)
               z == y.central
    <3> HIDE DEF r, z
    <3>1. r \in Nat /\ r >= 100 * 4650 /\ z \in Nat /\ z >= 100 * 8000
      BY <1>9, <2>1, SMT DEF r, z
    <3>2. Pct(18, r) \in Nat /\ Pct(18, r) >= 18 * 4650
      <4>1. 18 \in Nat /\ 4650 \in Nat /\ r \in Nat /\ r >= 100 * 4650
        BY <3>1, SMT
      <4> QED BY <4>1, PctAtLeast, SMTT(30)
    <3>3. Pct(26, z) \in Nat /\ Pct(26, z) >= 26 * 8000
      BY <3>1, PctAtLeast, SMTT(30)
    <3>4. Pct(28, z) \in Nat /\ Pct(28, z) >= 28 * 8000
      BY <3>1, PctAtLeast, SMTT(30)
    <3> QED BY <3>2, <3>3, <3>4, SMT DEF r, z
  <2> QED BY <2>2, SMT
<1>12. Pct(16, Saturated(y.fusion)) \in Nat /\ Pct(20, Saturated(y.fusion)) \in Nat
  <2> DEFINE u == Saturated(y.fusion)
  <2> HIDE DEF u
  <2>1. u \in Nat
    BY <1>9, SMT DEF u
  <2> QED BY <2>1, PctNat DEF u
<1>13. h.score = Pct(w[1], Saturated(y.fusion)) + Pct(w[2], Saturated(y.rerank))
                 + Pct(w[3], y.central) + Pct(w[4], 900000) + Pct(w[5], Unit)
                 + 80000 + role + shape - Pct(w[6], 0) - Pct(w[7], 50000)
  <2>1. When(Aligned(q, y), 80000) = 80000
    BY <1>6, SMT DEF When
  <2> HIDE DEF y, w
  <2>2. h.score = CandidateScore(q, w, y)
    BY <1>1 DEF w, y
  <2> QED BY <1>4, <1>9, <2>1, <2>2, SMT DEF CandidateScore
<1>14. h.score \in Int /\ h.score >= IF Thematic(q) THEN 480000 ELSE 640000
  <2>1. CASE Thematic(q)
    <3>1. w = <<20, 18, 28, 20, 4, 6, 2>>
      BY <2>1 DEF Weights
    <3>2. h.score = Pct(20, Saturated(y.fusion)) + Pct(18, Saturated(y.rerank))
                    + Pct(28, y.central) + 180000 + 40000 + 80000 + role + shape - 0 - 1000
      <4> HIDE DEF y, w, role, shape
      <4>1. w[1] = 20 /\ w[2] = 18 /\ w[3] = 28 /\ w[4] = 20 /\ w[5] = 4 /\ w[6] = 6 /\ w[7] = 2
        BY <3>1, SMT
      <4> QED BY <1>10, <1>13, <4>1, SMT
    <3> HIDE DEF y, w, role, shape
    <3> QED BY <1>7, <1>8, <1>11, <1>12, <2>1, <3>2, SMT
  <2>2. CASE ~ Thematic(q)
    <3>1. w = <<16, 18, 26, 22, 8, 10, 4>>
      BY <2>2 DEF Weights
    <3>2. h.score = Pct(16, Saturated(y.fusion)) + Pct(18, Saturated(y.rerank))
                    + Pct(26, y.central) + 198000 + 80000 + 80000 + role + shape - 0 - 2000
      <4> HIDE DEF y, w, role, shape
      <4>1. w[1] = 16 /\ w[2] = 18 /\ w[3] = 26 /\ w[4] = 22 /\ w[5] = 8 /\ w[6] = 10 /\ w[7] = 4
        BY <3>1, SMT
      <4> QED BY <1>10, <1>13, <4>1, SMT
    <3> HIDE DEF y, w, role, shape
    <3> QED BY <1>7, <1>8, <1>11, <1>12, <2>2, <3>2, SMT
  <2> QED BY <2>1, <2>2
<1>15. Suited(q, y)
  <2>1. ~ MissesTopic(q, y) /\ ~ TooNarrative(q, y)
    BY <1>4, <1>6, SMT DEF MissesTopic, TooNarrative
  <2> QED BY <1>6, <2>1 DEF Suited
<1>16. q.topics # <<>>
  BY EmptyList DEF IsAbout
<1>17. h.score >= Thresholds(q)[1] /\ y.central >= Thresholds(q)[2] /\ y.answerability >= Thresholds(q)[3]
  <2> DEFINE t1 == Thresholds(q)[1]
             t2 == Thresholds(q)[2]
             t3 == Thresholds(q)[3]
  <2>1. /\ t1 <= IF Thematic(q) THEN 480000 ELSE 640000
        /\ t2 <= 580000 /\ t3 <= 620000 /\ t1 \in Int /\ t2 \in Int /\ t3 \in Int
    BY <1>16, ReachedThresholds
  <2> HIDE DEF t1, t2, t3, y
  <2>2. h.score >= t1 /\ y.central >= t2 /\ y.answerability >= t3
    BY <1>4, <1>9, <1>14, <2>1, SMT
  <2> QED BY <2>2 DEF t1, t2, t3
<1> QED BY <1>15, <1>17 DEF Passes

\* whatever a strict selection lets through, the gate lets through
LEMMA PassingGated ==
  ASSUME NEW topic, NEW q, NEW h, IsRanked(topic, q, h), Thresholds(q)[2] >= 420000,
         Thresholds(q)[2] \in Int, Thresholds(q)[3] \in Int, Passes(q, Thresholds(q), h)
  PROVE  PassesGate(q, h.c)
<1>1. PICK c : IsFind(topic, c) /\ h.c = [c EXCEPT !.rerank = RerankScore(q, c)]
  BY DEF IsRanked
<1>2. PICK d \in Records, score \in Nat, anchored \in BOOLEAN :
         c = CandidateOf(topic, d, score, anchored)
  BY <1>1 DEF IsFind
<1> DEFINE y == h.c
<1>3. /\ y.central = c.central /\ y.answerability = c.answerability
      /\ y.specificity = c.specificity /\ y.incidental = c.incidental
  BY <1>1, RerankKeeps
<1>4. d.density \in 0 .. Unit
  BY RecordsAssumption
<1>5. /\ c.central = IF anchored THEN d.density ELSE 0
      /\ c.incidental = IF anchored THEN 0 ELSE Unit
  BY <1>2, SMT DEF CandidateOf
<1>6. \A hit, prophetic : V2Specificity(hit, prophetic) \in {50000, 100000, 150000, 300000}
  BY SMT DEF V2Specificity
<1>7. c.specificity \in {50000, 100000, 150000, 300000}
  <2>1. c.specificity = V2Specificity(anchored /\ Hits(topic, d), d.prophetic)
    BY <1>2 DEF CandidateOf
  <2> QED BY <1>6, <2>1
<1>8. /\ y.central >= Thresholds(q)[2] /\ y.answerability >= Thresholds(q)[3]
      /\ Thresholds(q)[3] >= 480000
  BY StrictThresholds DEF Passes
<1>9. y.incidental = 0
  BY <1>3, <1>5, <1>8, SMT
<1>10. c.answerability \in Int
  <2>1. \A hit, prophetic : V2Answerability(hit, prophetic) \in Int
    BY SMT DEF V2Answerability
  <2>2. c.answerability = IF anchored THEN V2Answerability(anchored /\ Hits(topic, d), d.prophetic)
                          ELSE 250000
    BY <1>2 DEF CandidateOf
  <2> QED BY <2>1, <2>2, SMT
<1>11. c.central \in Int
  <2>1. Unit \in Int
    BY DEF Unit
  <2> QED BY <1>4, <1>5, <2>1, SMT
<1>12. y.specificity <= 780000
  BY <1>3, <1>7, SMT
<1>13. y.central >= 420000 /\ y.answerability >= 480000
  <2> DEFINE t2 == Thresholds(q)[2]
             t3 == Thresholds(q)[3]
             z == y.central
             a == y.answerability
  <2>1. t2 \in Int /\ t3 \in Int /\ z \in Int /\ a \in Int
    BY <1>3, <1>10, <1>11
  <2> HIDE DEF t2, t3, z, a
  <2>2. z >= t2 /\ a >= t3 /\ t3 >= 480000 /\ t2 >= 420000
    BY <1>8, SMT DEF t2, t3, z, a
  <2>3. z >= 420000 /\ a >= 480000
    BY <2>1, <2>2, SMT
  <2> QED BY <2>3, SMT DEF z, a
<1> QED BY <1>9, <1>12, <1>13, SMT DEF PassesGate

-----------------------------------------------------------------------------
\* a ranking has an entry for every candidate
LEMMA RankedRange ==
  ASSUME NEW q, NEW w, NEW candidates, IsList(candidates)
  PROVE  /\ IsList(Ranked(q, w, candidates))
         /\ \A h \in Range(Ranked(q, w, candidates)) : \E i \in DOMAIN candidates :
              h.c = candidates[i] /\ h.score = CandidateScore(q, w, candidates[i])
         /\ \A i \in DOMAIN candidates : \E h \in Range(Ranked(q, w, candidates)) :
              h.c = candidates[i]
<1> DEFINE entry(i) == [c |-> candidates[i], score |-> CandidateScore(q, w, candidates[i]), place |-> i]
           s == [i \in DOMAIN candidates |-> entry(i)]
           key(h) == <<- h.score, - h.c.central, - h.c.answerability, - h.c.rerank, h.c.incidental,
                       h.c.specificity, h.c.ref, h.place>>
           keys == [i \in DOMAIN s |-> key(s[i])]
<1>1. Ranked(q, w, candidates) = SortedBy(s, keys)
  BY DEF Ranked, By
<1>2. IsList(s) /\ DOMAIN s = DOMAIN candidates
  <2> HIDE DEF entry
  <2> QED BY MapIsList
<1>3. \A i \in DOMAIN candidates :
        s[i].c = candidates[i] /\ s[i].score = CandidateScore(q, w, candidates[i])
  OBVIOUS
<1> HIDE DEF s, keys
<1>4. IsList(SortedBy(s, keys)) /\ Range(SortedBy(s, keys)) = Range(s)
  BY <1>2, SortedRange
<1> QED BY <1>1, <1>2, <1>3, <1>4 DEF Range

\* what is selected has passed, and when anything passes something is selected
LEMMA SelectedRange ==
  ASSUME NEW q, NEW ranked, IsList(ranked)
  PROVE  /\ IsList(Selected(q, ranked))
         /\ \A c \in Range(Selected(q, ranked)) : \E h \in Range(ranked) :
              c = h.c /\ Passes(q, Thresholds(q), h)
         /\ (\E h \in Range(ranked) : Passes(q, Thresholds(q), h)) => Selected(q, ranked) # <<>>
<1> DEFINE N == Len(ranked)
           P(n) == Passes(q, Thresholds(q), ranked[n])
           X == {ranked[n].c : n \in 1 .. N}
           stands(n, s) == /\ \A c \in Range(s) : \E i \in 1 .. n : c = ranked[i].c /\ P(i)
                           /\ (\E i \in 1 .. n : P(i)) => s # <<>>
           T == [n \in 0 .. N |-> {s \in Seq(X) : stands(n, s)}]
           next(n, s) == IF /\ Len(s) < MaxResults
                            /\ \A c \in Range(s) : c.ref # ranked[n].c.ref
                            /\ Passes(q, Thresholds(q), ranked[n])
                         THEN Append(s, ranked[n].c) ELSE s
           G == [n \in 1 .. N |-> [s \in T[n - 1] |-> next(n, s)]]
           Is(f) == f = [n \in 0 .. N |-> IF n = 0 THEN <<>> ELSE next(n, f[n - 1])]
           chosen == CHOOSE f : Is(f)
<1>1. N \in Nat /\ DOMAIN ranked = 1 .. N /\ \A n \in 1 .. N : ranked[n].c \in X
  BY ListFacts
<1>t. \A n \in 0 .. N : \A s : s \in T[n] <=> s \in Seq(X) /\ stands(n, s)
  OBVIOUS
<1>2. <<>> \in T[0]
  <2>1. 0 \in 0 .. N /\ <<>> \in Seq(X) /\ stands(0, <<>>)
    <3>1. Range(<<>>) = {} /\ 1 .. 0 = {}
      BY EmptyList
    <3> HIDE DEF P, X, N
    <3> QED BY <1>1, <3>1
  <2> HIDE DEF T, X, N, stands
  <2> QED BY <2>1, <1>t
<1>3. ASSUME NEW n \in 1 .. N, NEW s \in T[n - 1]
      PROVE  next(n, s) \in T[n]
  <2>1. n - 1 \in 0 .. N /\ n \in 0 .. N /\ n \in 1 .. n
    BY <1>1
  <2>2. s \in Seq(X) /\ stands(n - 1, s)
    <3> HIDE DEF T, X, N, stands
    <3> QED BY <2>1, <1>t
  <2>3. next(n, s) \in Seq(X) /\ stands(n, next(n, s))
    <3>1. CASE next(n, s) = s /\ (P(n) => s # <<>>)
      <4>1. \A i \in 1 .. n - 1 : i \in 1 .. n
        BY <1>1
      <4>2. \A i \in 1 .. n : i = n \/ i \in 1 .. n - 1
        BY <1>1
      <4> HIDE DEF P, X, N, next, T
      <4> QED BY <2>1, <2>2, <3>1, <4>1, <4>2
    <3>2. CASE next(n, s) = Append(s, ranked[n].c) /\ P(n)
      <4> DEFINE r == Append(s, ranked[n].c)
      <4>1. r \in Seq(X) /\ Range(r) = Range(s) \cup {ranked[n].c}
        <5> HIDE DEF X, N, P, T, next
        <5> QED BY <1>1, <2>2, AppendRange
      <4>2. r # <<>>
        BY <4>1, EmptyList
      <4>3. \A i \in 1 .. n - 1 : i \in 1 .. n
        BY <1>1
      <4> HIDE DEF r, P, X, N, T
      <4>4. stands(n, r)
        BY <2>1, <2>2, <3>2, <4>1, <4>2, <4>3
      <4> HIDE DEF next, stands
      <4> QED BY <3>2, <4>1, <4>4 DEF r
    <3>3. \/ next(n, s) = s /\ (P(n) => s # <<>>)
          \/ next(n, s) = Append(s, ranked[n].c) /\ P(n)
      <4>1. Len(<<>>) = 0 /\ 0 < MaxResults /\ Range(<<>>) = {}
        BY MaxResultsAssumption, EmptyList
      <4>2. CASE s = <<>>
        <5>1. Len(s) < MaxResults /\ \A c \in Range(s) : c.ref # ranked[n].c.ref
          BY <4>1, <4>2
        <5>2. next(n, s) = IF P(n) THEN Append(s, ranked[n].c) ELSE s
          BY <5>1
        <5> HIDE DEF next, P, X, N, T, stands
        <5> QED BY <5>2
      <4>3. CASE s # <<>>
        <5>1. next(n, s) = s \/ (next(n, s) = Append(s, ranked[n].c) /\ P(n))
          <6> HIDE DEF X, N, T, stands
          <6> QED OBVIOUS
        <5> HIDE DEF next, P, X, N, T, stands
        <5> QED BY <4>3, <5>1
      <4> QED BY <4>2, <4>3
    <3> HIDE DEF next, stands, P, X, N, T
    <3> QED BY <3>1, <3>2, <3>3
  <2> HIDE DEF T, X, N, stands, next, P
  <2> QED BY <2>1, <2>3, <1>t
<1>4. \A n \in 1 .. N : \A s \in T[n - 1] : G[n][s] = next(n, s)
  OBVIOUS
<1>5. Is(chosen)
  <2>1. StepsStay(N, Seq(X), T, G, <<>>)
    <3>1. \A n \in 0 .. N : T[n] \subseteq Seq(X)
      OBVIOUS
    <3> HIDE DEF T, G, N, X, next
    <3> QED BY <1>1, <1>2, <1>3, <1>4, <3>1 DEF StepsStay
  <2>2. PICK f \in [0 .. N -> Seq(X)] :
           /\ f[0] = <<>> /\ \A n \in 1 .. N : f[n] = G[n][f[n - 1]]
           /\ \A n \in 0 .. N : f[n] \in T[n]
    <3> HIDE DEF T, G, N, X, next
    <3> QED BY <2>1, Recursion DEF HasSteps
  <2>3. Is(f)
    <3> HIDE DEF T, G, X, next
    <3>1. \A n \in 0 .. N : f[n] = IF n = 0 THEN <<>> ELSE next(n, f[n - 1])
      BY <1>1, <1>4, <2>2
    <3> QED BY <2>2, <3>1
  <2> HIDE DEF next
  <2> QED BY <2>3
<1>6. chosen[0] \in T[0]
  <2> HIDE DEF T, next, chosen
  <2> QED BY <1>1, <1>2, <1>5
<1>7. \A n \in 1 .. N : chosen[n - 1] \in T[n - 1] => chosen[n] \in T[n]
  <2> HIDE DEF T, next, chosen
  <2> QED BY <1>1, <1>3, <1>5
<1>8. \A n \in 0 .. N : chosen[n] \in T[n]
  <2> HIDE DEF T, next, chosen, N, Is
  <2> QED BY <1>1, <1>6, <1>7, Steps
<1>9. Selected(q, ranked) = chosen[N]
  BY DEF Selected
<1>10. chosen[N] \in Seq(X) /\ stands(N, chosen[N])
  <2> HIDE DEF chosen, T, X, N, stands
  <2>1. N \in 0 .. N
    BY <1>1
  <2> QED BY <2>1, <1>8, <1>t
<1>11. IsList(chosen[N])
  <2> HIDE DEF chosen, X, N
  <2> QED BY <1>10, SeqIsList
<1>12. Range(ranked) = {ranked[i] : i \in 1 .. N}
  <2> HIDE DEF N
  <2> QED BY <1>1 DEF Range
<1> QED
  <2> HIDE DEF chosen, X, N, Is
  <2> QED BY <1>9, <1>10, <1>11, <1>12

\* the gate keeps what it lets through
LEMMA GatedRange ==
  ASSUME NEW q, NEW chosen, IsList(chosen)
  PROVE  (\E c \in Range(chosen) : PassesGate(q, c)) => Gated(q, chosen) # <<>>
<1> SUFFICES ASSUME NEW c \in Range(chosen), PassesGate(q, c)
             PROVE  Gated(q, chosen) # <<>>
  OBVIOUS
<1>1. PICK i \in DOMAIN chosen : c = chosen[i]
  BY DEF Range
<1> DEFINE places == {j \in DOMAIN chosen : PassesGate(q, chosen[j])}
<1>2. DOMAIN chosen \cap places # {}
  BY <1>1
<1> HIDE DEF places
<1>3. KeptAt(chosen, places) # <<>>
  BY <1>2, KeptSome
<1> QED BY <1>3 DEF Gated, places

-----------------------------------------------------------------------------
\* what a fetch of the index has: records, with the score of their ranks
IsFound(list) ==
  /\ IsList(list)
  /\ \A f \in Range(list) : f.doc \in Records /\ f.score \in Nat /\ f.strict \in BOOLEAN

\* a ranking is a list of records
LEMMA RankingRange ==
  ASSUME NEW eligible \in SUBSET Records, NEW size \in Nat, NEW r \in Rankings(eligible, size)
  PROVE  IsList(r) /\ Range(r) \subseteq Records
<1>1. IsFiniteSet(eligible)
  BY RecordsAssumption, FS_Subset
<1> DEFINE m == Cardinality(eligible)
           n == Min({size, m})
<1>2. n \in Nat
  <2>1. m \in Nat
    BY <1>1, FS_CardinalityType
  <2> HIDE DEF m
  <2>2. n \in {size, m}
    BY <2>1, TwoNumbers
  <2> QED BY <2>1, <2>2
<1>3. r \in [1 .. n -> eligible]
  BY DEF Rankings
<1> HIDE DEF n
<1>4. r \in Seq(eligible)
  BY <1>2, <1>3
<1>5. IsList(r) /\ Range(r) \subseteq eligible
  BY <1>4, SeqIsList
<1> QED BY <1>5

\* as many results as the search asks for
LEMMA SizeNat ==
  ASSUME NEW topic, NEW shape
  PROVE  SizeFor(topic, shape) \in Nat /\ PoolSize(topic, shape) \in Nat
<1>1. SearchSize \in Nat /\ WideSize \in Nat /\ PoolLimit \in Nat /\ WidePool \in Nat
  BY SearchSizeAssumption
<1>i. SearchSize \in Int /\ WideSize \in Int /\ PoolLimit \in Int /\ WidePool \in Int
  BY <1>1
<1>2. Max({SearchSize, WideSize}) \in {SearchSize, WideSize}
  BY <1>i, TwoNumbers
<1>3. Max({PoolLimit, WidePool}) \in {PoolLimit, WidePool}
  BY <1>i, TwoNumbers
<1>4. Max({SearchSize, WideSize}) \in Nat /\ Max({PoolLimit, WidePool}) \in Nat
  BY <1>1, <1>2, <1>3
<1>5. SizeFor(topic, shape) \in {SearchSize, Max({SearchSize, WideSize})}
  BY DEF SizeFor
<1>6. PoolSize(topic, shape) \in {PoolLimit, Max({PoolLimit, WidePool})}
  BY DEF PoolSize
<1> QED BY <1>1, <1>4, <1>5, <1>6

\* the share of a rank
LEMMA RankScoreNat ==
  ASSUME NEW d, NEW list, IsList(list)
  PROVE  RankScore(d, list) \in Nat
<1>1. CASE d \in Range(list)
  <2> DEFINE k == CHOOSE i \in DOMAIN list : list[i] = d
  <2>1. k \in DOMAIN list
    BY <1>1 DEF Range
  <2>2. 60 + k \in Nat \ {0}
    <3>1. DOMAIN list = 1 .. Len(list) /\ Len(list) \in Nat
      BY ListFacts
    <3> HIDE DEF k
    <3> QED BY <2>1, <3>1
  <2>3. RankScore(d, list) = Share(1, 60 + k)
    BY <1>1 DEF RankScore
  <2> HIDE DEF k
  <2> QED BY <2>2, <2>3, ShareNat
<1>2. CASE d \notin Range(list)
  BY <1>2 DEF RankScore
<1> QED BY <1>1, <1>2

\* two rankings make one list of finds
LEMMA CombinedFound ==
  ASSUME NEW bm25, NEW knn, NEW strict \in BOOLEAN, IsList(bm25), IsList(knn),
         Range(bm25) \subseteq Records, Range(knn) \subseteq Records
  PROVE  IsFound(Combined(bm25, knn, strict))
<1> DEFINE docs == Distinct(bm25 \o knn)
           find(i) == [doc |-> docs[i], score |-> RankScore(docs[i], bm25) + RankScore(docs[i], knn),
                       strict |-> strict]
           s == [i \in DOMAIN docs |-> find(i)]
           keys == [i \in DOMAIN s |-> <<- s[i].score>>]
<1>1. IsList(docs) /\ Range(docs) \subseteq Records
  <2>1. IsList(bm25 \o knn) /\ Range(bm25 \o knn) \subseteq Records
    BY ConcatRange
  <2> QED BY <2>1, DistinctRange
<1>2. Combined(bm25, knn, strict) = SortedBy(s, keys)
  BY DEF Combined, By
<1> HIDE DEF docs, keys
<1>3. IsList(s) /\ DOMAIN s = DOMAIN docs
  <2> HIDE DEF find
  <2> QED BY <1>1, MapIsList
<1>4. \A i \in DOMAIN docs : s[i].doc \in Records /\ s[i].score \in Nat /\ s[i].strict \in BOOLEAN
  <2> TAKE i \in DOMAIN docs
  <2>1. docs[i] \in Records
    BY <1>1 DEF Range
  <2>2. RankScore(docs[i], bm25) \in Nat /\ RankScore(docs[i], knn) \in Nat
    BY RankScoreNat
  <2>3. RankScore(docs[i], bm25) + RankScore(docs[i], knn) \in Nat
    BY <2>2
  <2> QED BY <2>1, <2>3
<1> HIDE DEF s
<1>5. IsList(SortedBy(s, keys)) /\ Range(SortedBy(s, keys)) = Range(s)
  BY <1>3, SortedRange
<1> QED BY <1>2, <1>3, <1>4, <1>5 DEF IsFound, Range

\* finds that are added to finds
LEMMA FoundWith ==
  ASSUME NEW list, NEW more, NEW places, IsFound(list), IsFound(more)
  PROVE  IsFound(list \o KeptAt(more, places))
<1>1. IsList(KeptAt(more, places)) /\ Range(KeptAt(more, places)) \subseteq Range(more)
  BY KeptRange DEF IsFound, Range
<1>2. /\ IsList(list \o KeptAt(more, places))
      /\ Range(list \o KeptAt(more, places)) \subseteq Range(list) \cup Range(more)
  BY <1>1, ConcatRange DEF IsFound
<1> QED BY <1>2 DEF IsFound

\* the candidates of finds
LEMMA PoolOfFinds ==
  ASSUME NEW topic, NEW shape, NEW list, IsFound(list)
  PROVE  /\ IsList(BukhariPool(topic, shape, list))
         /\ \A c \in Range(BukhariPool(topic, shape, list)) : IsFind(topic, c)
<1> DEFINE candidate(i) == CandidateOf(topic, list[i].doc, BoostedScore(list[i]), Anchored(topic, list[i]))
           s == [i \in DOMAIN list |-> candidate(i)]
           key(c) == <<ShapePriority(topic, shape, c), - c.fusion, - c.central, - c.answerability, c.ref>>
           keys == [i \in DOMAIN s |-> key(s[i])]
           sorted == SortedBy(s, keys)
<1>1. BukhariPool(topic, shape, list) = Top(PoolSize(topic, shape), sorted)
  BY DEF BukhariPool, By
<1>2. IsList(s) /\ DOMAIN s = DOMAIN list
  <2> HIDE DEF candidate
  <2> QED BY MapIsList DEF IsFound
<1>3. \A i \in DOMAIN list : IsFind(topic, s[i])
  <2> TAKE i \in DOMAIN list
  <2>1. list[i].doc \in Records /\ list[i].score \in Nat /\ list[i].strict \in BOOLEAN
    BY DEF IsFound, Range
  <2>2. BoostedScore(list[i]) \in Nat
    <3>1. Pct(130, list[i].score) \in Nat
      BY <2>1, PctNat
    <3> QED BY <2>1, <3>1 DEF BoostedScore
  <2>3. Anchored(topic, list[i]) \in BOOLEAN
    BY <2>1 DEF Anchored, HasAnchor
  <2>4. s[i] = CandidateOf(topic, list[i].doc, BoostedScore(list[i]), Anchored(topic, list[i]))
    OBVIOUS
  <2> HIDE DEF s, candidate
  <2> QED BY <2>1, <2>2, <2>3, <2>4, SMT DEF IsFind
<1> HIDE DEF s, keys
<1>4. IsList(sorted) /\ Range(sorted) = Range(s)
  BY <1>2, SortedRange
<1> HIDE DEF sorted
<1>5. /\ IsList(Top(PoolSize(topic, shape), sorted))
      /\ Range(Top(PoolSize(topic, shape), sorted)) \subseteq Range(sorted)
  BY <1>4, SizeNat, TopRange
<1>6. \A c \in Range(s) : IsFind(topic, c)
  BY <1>2, <1>3 DEF Range
<1> QED BY <1>1, <1>4, <1>5, <1>6

-----------------------------------------------------------------------------
\* the slugs of a list of concepts or leaves
LEMMA SlugsOf ==
  ASSUME NEW s, IsList(s)
  PROVE  IsList(Slugs(s)) /\ DOMAIN Slugs(s) = DOMAIN s /\ \A i \in DOMAIN s : Slugs(s)[i] = s[i].slug
<1> DEFINE f == [i \in DOMAIN s |-> s[i].slug]
<1>1. IsList(f) /\ DOMAIN f = DOMAIN s
  BY MapIsList
<1> QED BY <1>1 DEF Slugs

\* a query reads lists of words, and is linked to a list of topics
LEMMA NormalizedLists ==
  ASSUME NEW raw, NEW original, IsList(raw)
  PROVE  /\ NormalizedQuery(raw, original).raw = raw
         /\ IsList(NormalizedQuery(raw, original).text)
         /\ IsList(NormalizedQuery(raw, original).topics)
<1>1. IsList(NormalizedText(raw))
  BY KeptRange DEF NormalizedText
<1> DEFINE scored == [i \in DOMAIN Concepts |->
                   [concept |-> Concepts[i], id |-> i,
                    score |-> ConceptScore(Concepts[i], raw, Informative(raw)),
                    terms |-> Cardinality(LinkTerms(Concepts[i], raw, Informative(raw)))]]
           kept == KeptAt(scored, {i \in DOMAIN scored : scored[i].score >= 480000})
           keys == [j \in DOMAIN kept |-> <<- kept[j].score, - kept[j].terms, kept[j].id>>]
           ranked == SortedBy(kept, keys)
           n == Min({4, Len(ranked)})
           linked == [i \in 1 .. n |-> ranked[i].concept]
<1>2. LinkedConcepts(raw) = linked
  BY SMT DEF LinkedConcepts, By
<1>3. IsList(linked)
  <2>1. IsList(scored)
    BY ConceptsAssumption, MapIsList
  <2> HIDE DEF scored
  <2>2. IsList(kept)
    BY <2>1, KeptRange
  <2> HIDE DEF kept, keys
  <2>3. IsList(ranked)
    BY <2>2, SortedRange
  <2> HIDE DEF ranked
  <2>4. n \in Nat
    <3>1. Len(ranked) \in Nat
      BY <2>3, ListFacts
    <3> DEFINE L == Len(ranked)
    <3>2. L \in Int /\ 4 \in Int
      BY <3>1
    <3> HIDE DEF L
    <3>3. Min({4, L}) \in {4, L}
      BY <3>2, TwoNumbers
    <3>4. n \in {4, Len(ranked)}
      BY <3>3 DEF L
    <3> QED BY <3>1, <3>4
  <2> HIDE DEF n
  <2> QED BY <2>4, FunctionIsList
<1> HIDE DEF linked
<1>4. IsList(Slugs(linked))
  BY <1>3, SlugsOf
<1>5. /\ NormalizedQuery(raw, original).raw = raw
      /\ NormalizedQuery(raw, original).text = NormalizedText(raw)
      /\ NormalizedQuery(raw, original).topics = Slugs(LinkedConcepts(raw))
  BY DEF NormalizedQuery
<1> QED BY <1>1, <1>2, <1>4, <1>5

\* the leaves by their scores
LEMMA RankedLeafList ==
  ASSUME NEW text
  PROVE  IsList(LeavesByScore(text))
<1> DEFINE scored == [i \in DOMAIN Leaves |->
                   [id |-> i, slug |-> Leaves[i].slug, general |-> Leaves[i].general,
                    score |-> LeafScore(i, text)]]
           kept == KeptAt(scored, {i \in DOMAIN scored : scored[i].score > 0})
           keys == [j \in DOMAIN kept |->
                      <<- kept[j].score, IF kept[j].general THEN 0 ELSE 1, kept[j].id>>]
<1>1. LeavesByScore(text) = SortedBy(kept, keys)
  BY SMT DEF LeavesByScore, By
<1>2. IsList(scored)
  BY LeavesAssumption, MapIsList
<1> HIDE DEF scored
<1>3. IsList(kept)
  BY <1>2, KeptRange
<1> HIDE DEF kept, keys
<1> QED BY <1>1, <1>3, SortedRange

\* a sure topic is the first of the confident ones
LEMMA ResolvedLists ==
  ASSUME NEW ranked, NEW tokens, IsList(ranked)
  PROVE  LET topic == Resolved(ranked, tokens)
         IN  /\ IsList(topic.confident) /\ IsList(topic.secondary)
             /\ topic.primary # Nothing => topic.primary \in Range(topic.confident)
<1> DEFINE best == First(4, ranked)
           sure == {i \in DOMAIN best : best[i] = ranked[1] \/ NearTie(ranked, best[i])}
           confident == IF Sure(ranked) THEN KeptAt(best, sure) ELSE <<>>
           others == {i \in DOMAIN best :
                        best[i] \notin Range(confident) /\ best[i].score >= SecondaryFloor}
           secondary == KeptAt(best, others)
<1>1. Resolved(ranked, tokens)
        = [primary |-> IF confident = <<>> THEN Nothing ELSE confident[1].slug,
           confident |-> Slugs(confident), secondary |-> Slugs(secondary), tokens |-> tokens]
  BY DEF Resolved
<1>2. IsList(best)
  BY TopRange
<1> HIDE DEF best, sure
<1>3. IsList(confident)
  BY <1>2, KeptRange, EmptyList
<1> HIDE DEF confident, others
<1>4. IsList(secondary)
  BY <1>2, KeptRange
<1> HIDE DEF secondary
<1>5. IsList(Slugs(confident)) /\ IsList(Slugs(secondary))
  BY <1>3, <1>4, SlugsOf
<1>6. confident # <<>> => confident[1].slug \in Range(Slugs(confident))
  <2> SUFFICES ASSUME confident # <<>> PROVE confident[1].slug \in Range(Slugs(confident))
    OBVIOUS
  <2>1. DOMAIN confident = 1 .. Len(confident) /\ Len(confident) \in Nat
        /\ confident \in Seq(Range(confident))
    BY <1>3, ListFacts
  <2>2. Len(confident) # 0
    BY <2>1
  <2>3. 1 \in DOMAIN confident
    BY <2>1, <2>2
  <2>4. 1 \in DOMAIN Slugs(confident) /\ Slugs(confident)[1] = confident[1].slug
    BY <1>3, <2>3, SlugsOf
  <2> QED BY <2>4 DEF Range
<1> QED BY <1>1, <1>5, <1>6

\* the topics of a query with a sure topic hold that topic
LEMMA MergedRange ==
  ASSUME NEW topics, NEW raw, IsList(topics)
  PROVE  /\ IsList(MergedTopics(topics, ResolveTopic(raw)))
         /\ ResolveTopic(raw).primary # Nothing
              => ResolveTopic(raw).primary \in Range(MergedTopics(topics, ResolveTopic(raw)))
<1> DEFINE topic == ResolveTopic(raw)
<1>1. /\ IsList(topic.confident) /\ IsList(topic.secondary)
      /\ topic.primary # Nothing => topic.primary \in Range(topic.confident)
  BY RankedLeafList, ResolvedLists DEF ResolveTopic
<1> HIDE DEF topic
<1> DEFINE s == topics \o topic.confident
           t == s \o topic.secondary
<1>2. IsList(s) /\ Range(s) = Range(topics) \cup Range(topic.confident)
  BY <1>1, ConcatRange
<1> HIDE DEF s
<1>3. IsList(t) /\ Range(t) = Range(s) \cup Range(topic.secondary)
  BY <1>1, <1>2, ConcatRange
<1> HIDE DEF t
<1>4. IsList(Distinct(t)) /\ Range(Distinct(t)) = Range(t)
  BY <1>3, DistinctRange
<1>5. MergedTopics(topics, topic) = Distinct(t)
  BY DEF MergedTopics, s, t
<1> QED BY <1>1, <1>2, <1>3, <1>4, <1>5 DEF topic

-----------------------------------------------------------------------------
(* The invariant: what is read and found are lists, and once a topic is sure  *)
(* the search stays on its path, the pool holds finds of the index, ranked    *)
(* from the selection on, and a selection that is strict holds one that the   *)
(* gate lets through when the pool holds a strong one.                        *)
SureSteps == {"strict", "relaxed", "build", "rerank", "select", "gate", "done"}
ListsRead ==
  /\ request \in Requests /\ query = Situated(query, query.retrieval, query.shape)
  /\ IsList(query.raw) /\ IsList(query.text) /\ IsList(query.topics) /\ IsFound(found)
SureTopic ==
  resolution.primary # Nothing => step \in SureSteps /\ IsAbout(resolution, query)
PoolFound ==
  (resolution.primary # Nothing /\ step = "rerank") =>
    IsList(pool) /\ \A c \in Range(pool) : IsFind(resolution, c)
PoolRanked ==
  (resolution.primary # Nothing /\ step \in {"select", "gate", "done"}) =>
    IsList(pool) /\ \A h \in Range(pool) : IsRanked(resolution, query, h)
HoldsStrong ==
  /\ resolution.primary # Nothing /\ SelectionIsStrict
  /\ \E h \in Range(pool) : IsStrong(resolution, h.c)
StrongSelected ==
  (step = "gate" /\ HoldsStrong) =>
    /\ result = [selected |-> result.selected, abstain |-> FALSE, reason |-> Nothing]
    /\ IsList(result.selected) /\ \E c \in Range(result.selected) : PassesGate(query, c)
StrongAnswered ==
  (step = "done" /\ HoldsStrong) => ~ result.abstain
StrongInv ==
  ListsRead /\ SureTopic /\ PoolFound /\ PoolRanked /\ StrongSelected /\ StrongAnswered

\* at the start nothing is read and no topic is sure
LEMMA StrongInvInit == SearchInit => StrongInv
<1> SUFFICES ASSUME SearchInit PROVE StrongInv
  OBVIOUS
<1>1. /\ step = "normalize" /\ request \in Requests /\ found = <<>> /\ resolution.primary = Nothing
      /\ query.raw = <<>> /\ query.text = <<>> /\ query.topics = <<>>
  BY SMT DEF SearchInit, Situated, Unresolved
<1>3. query = Situated(query, query.retrieval, query.shape)
  BY SMT DEF SearchInit, Situated
<1>2. IsFound(found)
  BY <1>1, EmptyList DEF IsFound
<1> QED BY <1>1, <1>2, <1>3, EmptyList
        DEF StrongInv, ListsRead, SureTopic, PoolFound, PoolRanked, HoldsStrong, StrongSelected,
            StrongAnswered

\* while no topic is sure there is nothing more to keep
LEMMA StrongInvBefore ==
  ASSUME ListsRead', resolution'.primary = Nothing
  PROVE  StrongInv'
BY DEF StrongInv, SureTopic, PoolFound, PoolRanked, HoldsStrong, StrongSelected, StrongAnswered

\* off the path of a sure topic no topic is sure
LEMMA NoTopic ==
  ASSUME StrongInv, step \notin SureSteps
  PROVE  resolution.primary = Nothing
BY DEF StrongInv, SureTopic

\* the query is read
LEMMA StrongInvNormalize == StrongInv /\ Normalize => StrongInv'
<1> SUFFICES ASSUME StrongInv, Normalize PROVE StrongInv'
  OBVIOUS
<1> DEFINE q == NormalizedQuery(request.raw, request.original)
           f == TopicFamily(q)
<1>1. query' = Situated(q, f.id, QueryShape(q))
  BY DEF Normalize
<1>2. step = "normalize" /\ UNCHANGED <<request, found, resolution>>
  BY DEF Normalize
<1>3. resolution'.primary = Nothing
  BY <1>2, NoTopic DEF SureSteps
<1>4. IsList(request.raw) /\ request \in Requests
  BY RequestsAssumption DEF StrongInv, ListsRead
<1>5. q.raw = request.raw /\ IsList(q.text) /\ IsList(q.topics)
  BY <1>4, NormalizedLists
<1> HIDE DEF q, f
<1>6. query'.raw = q.raw /\ query'.text = q.text /\ query'.topics = q.topics
  BY <1>1, SMT DEF Situated
<1>q. query' = Situated(query', query'.retrieval, query'.shape)
  BY <1>1, SMT DEF Situated
<1>7. ListsRead'
  BY <1>2, <1>4, <1>5, <1>6, <1>q DEF StrongInv, ListsRead
<1> QED BY <1>3, <1>7, StrongInvBefore

\* the topic is resolved, and the query is about it when it is sure
LEMMA StrongInvResolve == StrongInv /\ Resolve => StrongInv'
<1> SUFFICES ASSUME StrongInv, Resolve PROVE StrongInv'
  OBVIOUS
<1>1. /\ resolution' = ResolveTopic(query.raw) /\ step' = "strict"
      /\ query' = [query EXCEPT !.topics = MergedTopics(query.topics, resolution')]
      /\ UNCHANGED <<request, found>>
  BY DEF Resolve
<1>2. /\ request \in Requests /\ IsList(query.raw) /\ IsList(query.text) /\ IsList(query.topics)
      /\ IsFound(found)
  BY DEF StrongInv, ListsRead
<1>3. /\ IsList(MergedTopics(query.topics, resolution'))
      /\ resolution'.primary # Nothing
           => resolution'.primary \in Range(MergedTopics(query.topics, resolution'))
  BY <1>1, <1>2, MergedRange
<1> DEFINE merged == MergedTopics(query.topics, resolution')
<1> HIDE DEF merged
<1>4. /\ query'.raw = query.raw /\ query'.text = query.text /\ query'.topics = merged
      /\ query' = Situated(query', query'.retrieval, query'.shape)
  <2>1. query' = [query EXCEPT !.topics = merged]
    BY <1>1 DEF merged
  <2>2. query = [raw |-> query.raw, text |-> query.text, topics |-> query.topics,
                 family |-> query.family, biases |-> query.biases, profile |-> query.profile,
                 retrieval |-> query.retrieval, shape |-> query.shape]
    BY DEF StrongInv, ListsRead, Situated
  <2>3. query' = [raw |-> query.raw, text |-> query.text, topics |-> merged,
                 family |-> query.family, biases |-> query.biases, profile |-> query.profile,
                 retrieval |-> query.retrieval, shape |-> query.shape]
    BY <2>1, <2>2, SMT
  <2> QED BY <2>3, SMT DEF Situated
<1>5. ListsRead'
  BY <1>1, <1>2, <1>3, <1>4 DEF ListsRead, merged
<1>6. SureTopic'
  BY <1>1, <1>2, <1>3, <1>4 DEF SureTopic, IsAbout, SureSteps, merged
<1> QED BY <1>1, <1>5, <1>6 DEF StrongInv, PoolFound, PoolRanked, StrongSelected, StrongAnswered

\* every lane returns records of the index
LEMMA FetchedRecords ==
  ASSUME NEW enforce \in BOOLEAN, NEW f \in Fetched(enforce), NEW strict \in BOOLEAN
  PROVE  IsFound(Combined(f.bm25.hits, f.knn.hits, strict))
<1> DEFINE E == BM25Eligible(resolution, query.family, enforce, query.shape)
           K == KnnEligible(resolution, query.family, enforce)
           size == SizeFor(resolution, query.shape)
<1>1. E \in SUBSET Records /\ K \in SUBSET Records
  BY DEF BM25Eligible, KnnEligible
<1>2. size \in Nat
  BY SizeNat
<1>3. f.bm25 \in Lane(E)
  BY DEF Fetched
<1>4. f.knn \in Lane(K) \/ f.knn = [failed |-> FALSE, hits |-> <<>>]
  <2> DEFINE none == [failed |-> FALSE, hits |-> <<>>]
             lanes == {none} \cup (IF resolution.tokens = <<>> THEN {} ELSE Lane(K))
  <2>1. PICK b \in Lane(E), k \in lanes : f = [bm25 |-> b, knn |-> k]
    <3> HIDE DEF none
    <3> QED BY DEF Fetched, none
  <2>2. f.knn = k
    BY <2>1
  <2> HIDE DEF none
  <2>3. k \in Lane(K) \/ k = none
    OBVIOUS
  <2> QED BY <2>2, <2>3 DEF none
<1> HIDE DEF E, K
<1>5. ASSUME NEW X \in SUBSET Records, NEW lane \in Lane(X)
      PROVE  IsList(lane.hits) /\ Range(lane.hits) \subseteq Records
  <2>1. lane.hits = <<>> \/ lane.hits \in Rankings(X, size)
    BY DEF Lane
  <2> HIDE DEF size
  <2> QED BY <1>2, <2>1, EmptyList, RankingRange
<1>6. IsList(f.bm25.hits) /\ Range(f.bm25.hits) \subseteq Records
  BY <1>1, <1>3, <1>5
<1>7. IsList(f.knn.hits) /\ Range(f.knn.hits) \subseteq Records
  <2>1. CASE f.knn \in Lane(K)
    BY <1>1, <1>5, <2>1
  <2>2. CASE f.knn = [failed |-> FALSE, hits |-> <<>>]
    <3>1. f.knn.hits = <<>>
      BY <2>2
    <3> QED BY <3>1, EmptyList
  <2> QED BY <1>4, <2>1, <2>2
<1> QED BY <1>6, <1>7, CombinedFound

\* a fetch only adds finds
LEMMA StrongInvFetched ==
  ASSUME StrongInv, step \in {"strict", "relaxed"}, step' \in {"relaxed", "build"}, IsFound(found'),
         UNCHANGED <<request, query, resolution>>
  PROVE  StrongInv'
<1>1. ListsRead'
  BY DEF StrongInv, ListsRead
<1>2. SureTopic'
  BY DEF StrongInv, SureTopic, IsAbout, SureSteps
<1> QED BY <1>1, <1>2 DEF StrongInv, PoolFound, PoolRanked, StrongSelected, StrongAnswered

\* the fetch under the topic filter
LEMMA StrongInvFetchStrict == StrongInv /\ FetchStrict => StrongInv'
<1> SUFFICES ASSUME StrongInv, FetchStrict PROVE StrongInv'
  OBVIOUS
<1>1. /\ step = "strict" /\ step' \in {"relaxed", "build"}
      /\ UNCHANGED <<request, query, resolution>>
  BY DEF FetchStrict
<1>2. PICK f \in Fetched(TRUE) : found' = Combined(f.bm25.hits, f.knn.hits, TRUE)
  BY DEF FetchStrict
<1>3. IsFound(found')
  BY <1>2, FetchedRecords
<1> QED BY <1>1, <1>3, StrongInvFetched

\* the fetch without it
LEMMA StrongInvFetchRelaxed == StrongInv /\ FetchRelaxed => StrongInv'
<1> SUFFICES ASSUME StrongInv, FetchRelaxed PROVE StrongInv'
  OBVIOUS
<1>1. /\ step = "relaxed" /\ step' = "build" /\ UNCHANGED <<request, query, resolution>>
  BY DEF FetchRelaxed
<1>2. PICK f \in Fetched(FALSE) : found' = found \o Unseen(Combined(f.bm25.hits, f.knn.hits, FALSE))
  BY DEF FetchRelaxed
<1> DEFINE relaxed == Combined(f.bm25.hits, f.knn.hits, FALSE)
<1>3. IsFound(relaxed) /\ IsFound(found)
  BY FetchedRecords DEF StrongInv, ListsRead
<1> HIDE DEF relaxed
<1>4. IsFound(found \o Unseen(relaxed))
  BY <1>3, FoundWith DEF Unseen
<1>5. IsFound(found')
  BY <1>2, <1>4 DEF relaxed
<1> QED BY <1>1, <1>5, StrongInvFetched

\* the pool holds the finds
LEMMA StrongInvBuild == StrongInv /\ BuildBukhari => StrongInv'
<1> SUFFICES ASSUME StrongInv, BuildBukhari PROVE StrongInv'
  OBVIOUS
<1>1. /\ step = "build" /\ step' = "rerank" /\ UNCHANGED <<request, query, resolution, found>>
      /\ pool' = BukhariPool(resolution, query.shape, found)
  BY DEF BuildBukhari
<1>2. IsList(pool') /\ \A c \in Range(pool') : IsFind(resolution, c)
  BY <1>1, PoolOfFinds DEF StrongInv, ListsRead
<1>3. ListsRead' /\ SureTopic'
  BY <1>1 DEF StrongInv, ListsRead, SureTopic, IsAbout, SureSteps
<1>4. PoolFound'
  BY <1>1, <1>2 DEF PoolFound, IsFind
<1> QED BY <1>1, <1>3, <1>4 DEF StrongInv, PoolRanked, StrongSelected, StrongAnswered

\* the other paths are not those of a sure topic
LEMMA StrongInvElsewhere ==
  StrongInv /\ (\/ LoadLexical \/ GenerateWithoutIndex \/ GenerateWithIndex \/ RetrieveUnits
               \/ RetrievePassages)
    => StrongInv'
<1> SUFFICES ASSUME StrongInv,
                    \/ LoadLexical \/ GenerateWithoutIndex \/ GenerateWithIndex \/ RetrieveUnits
                    \/ RetrievePassages
             PROVE  StrongInv'
  OBVIOUS
<1>1. /\ step \in {"lexical", "thematic", "index", "units", "passages"}
      /\ UNCHANGED <<request, query, resolution, found>>
  <2>1. CASE LoadLexical
    BY <2>1 DEF LoadLexical
  <2>2. CASE GenerateWithoutIndex
    BY <2>2 DEF GenerateWithoutIndex
  <2>3. CASE GenerateWithIndex
    BY <2>3 DEF GenerateWithIndex
  <2>4. CASE RetrieveUnits
    BY <2>4 DEF RetrieveUnits
  <2>5. CASE RetrievePassages
    BY <2>5 DEF RetrievePassages
  <2> QED BY <2>1, <2>2, <2>3, <2>4, <2>5
<1>2. resolution'.primary = Nothing
  BY <1>1, NoTopic DEF SureSteps
<1>3. ListsRead'
  BY <1>1 DEF StrongInv, ListsRead
<1> QED BY <1>2, <1>3, StrongInvBefore

\* the pool is ranked
LEMMA StrongInvRerank == StrongInv /\ Rerank => StrongInv'
<1> SUFFICES ASSUME StrongInv, Rerank PROVE StrongInv'
  OBVIOUS
<1>1. /\ step = "rerank" /\ step' = "select" /\ UNCHANGED <<request, query, resolution, found>>
      /\ pool' = Ranked(query, Weights(query), Reranked(query, pool))
  BY DEF Rerank
<1>2. ListsRead' /\ SureTopic'
  BY <1>1 DEF StrongInv, ListsRead, SureTopic, IsAbout, SureSteps
<1>3. ASSUME resolution.primary # Nothing
      PROVE  IsList(pool') /\ \A h \in Range(pool') : IsRanked(resolution, query, h)
  <2>1. IsList(pool) /\ \A i \in DOMAIN pool : IsFind(resolution, pool[i])
    BY <1>1, <1>3 DEF StrongInv, PoolFound, Range
  <2> DEFINE again == Reranked(query, pool)
  <2>2. /\ IsList(again) /\ DOMAIN again = DOMAIN pool
        /\ \A i \in DOMAIN pool : again[i] = [pool[i] EXCEPT !.rerank = RerankScore(query, pool[i])]
    <3> DEFINE s == [i \in DOMAIN pool |-> [pool[i] EXCEPT !.rerank = RerankScore(query, pool[i])]]
    <3>1. again = s
      BY DEF Reranked
    <3>2. \A i \in DOMAIN pool : s[i] = [pool[i] EXCEPT !.rerank = RerankScore(query, pool[i])]
      OBVIOUS
    <3>3. s = [i \in DOMAIN pool |-> s[i]]
      OBVIOUS
    <3> HIDE DEF s, again
    <3>4. IsList(s) /\ DOMAIN s = DOMAIN pool
      BY <2>1, <3>3, MapIsList
    <3> QED BY <3>1, <3>2, <3>4
  <2> HIDE DEF again
  <2>3. IsList(pool')
    BY <1>1, <2>2, RankedRange DEF again
  <2>4. ASSUME NEW h \in Range(pool')
        PROVE  IsRanked(resolution, query, h)
    <3>1. PICK i \in DOMAIN again : /\ h.c = again[i]
                                    /\ h.score = CandidateScore(query, Weights(query), again[i])
      BY <1>1, <2>2, RankedRange DEF again
    <3>2. /\ IsFind(resolution, pool[i])
          /\ h.c = [pool[i] EXCEPT !.rerank = RerankScore(query, pool[i])]
          /\ h.score = CandidateScore(query, Weights(query), h.c)
      BY <2>1, <2>2, <3>1
    <3> QED BY <3>2 DEF IsRanked
  <2> QED BY <2>3, <2>4
<1>4. PoolRanked'
  BY <1>1, <1>3 DEF PoolRanked
<1> QED BY <1>1, <1>2, <1>4 DEF StrongInv, PoolFound, StrongSelected, StrongAnswered

\* what a strict selection holds is central enough for the gate
LEMMA StrictSelection ==
  ASSUME NEW q, q.topics # <<>>, Thresholds(q)[2] >= 420000, NEW topic, NEW h,
         IsRanked(topic, q, h), Passes(q, Thresholds(q), h)
  PROVE  PassesGate(q, h.c)
<1>1. Thresholds(q)[2] \in Int /\ Thresholds(q)[3] \in Int
  BY ReachedThresholds
<1> QED BY <1>1, PassingGated, SMT

\* a strong candidate has something selected, and all of it passes the gate
LEMMA StrongInvSelect == StrongInv /\ Select => StrongInv'
<1> SUFFICES ASSUME StrongInv, Select PROVE StrongInv'
  OBVIOUS
<1> DEFINE chosen == Selected(query, pool)
<1>1. /\ step = "select" /\ step' = "gate" /\ UNCHANGED <<request, query, resolution, found, pool>>
      /\ result' = IF chosen = <<>> THEN Abstained("insufficient_ranked_evidence")
                   ELSE [NoResult EXCEPT !.selected = chosen]
  BY DEF Select
<1>2. ListsRead' /\ SureTopic'
  BY <1>1 DEF StrongInv, ListsRead, SureTopic, IsAbout, SureSteps
<1>3. PoolRanked'
  BY <1>1 DEF StrongInv, PoolRanked
<1>4. ASSUME HoldsStrong
      PROVE  /\ result' = [selected |-> chosen, abstain |-> FALSE, reason |-> Nothing]
             /\ IsList(chosen) /\ \E c \in Range(chosen) : PassesGate(query, c)
  <2>1. /\ resolution.primary # Nothing /\ Thresholds(query)[2] >= 420000
        /\ IsAbout(resolution, query) /\ query.topics # <<>>
        /\ IsList(pool) /\ \A h \in Range(pool) : IsRanked(resolution, query, h)
    <3>1. resolution.primary # Nothing /\ Thresholds(query)[2] >= 420000
      BY <1>4, SMT DEF HoldsStrong, SelectionIsStrict
    <3>2. IsAbout(resolution, query)
      BY <1>1, <1>4 DEF HoldsStrong, StrongInv, SureTopic
    <3>3. query.topics # <<>>
      BY <3>2, EmptyList DEF IsAbout
    <3>4. IsList(pool) /\ \A h \in Range(pool) : IsRanked(resolution, query, h)
      BY <1>1, <1>4 DEF HoldsStrong, StrongInv, PoolRanked
    <3> QED BY <3>1, <3>2, <3>3, <3>4, SMT
  <2>2. PICK h \in Range(pool) : IsStrong(resolution, h.c)
    BY <1>4 DEF HoldsStrong
  <2>3. Passes(query, Thresholds(query), h)
    BY <2>1, <2>2, StrongPasses, SMT
  <2>4. /\ IsList(chosen) /\ chosen # <<>>
        /\ \A c \in Range(chosen) : \E k \in Range(pool) : c = k.c /\ Passes(query, Thresholds(query), k)
    BY <2>1, <2>3, SelectedRange, SMT
  <2> HIDE DEF chosen
  <2>5. \A c \in Range(chosen) : PassesGate(query, c)
    BY <2>1, <2>4, StrictSelection, SMT
  <2>6. Range(chosen) # {}
    <3>1. chosen \in Seq(Range(chosen)) /\ DOMAIN chosen = 1 .. Len(chosen) /\ Len(chosen) \in Nat
      BY <2>4, ListFacts
    <3>2. 1 \in DOMAIN chosen
      BY <2>4, <3>1
    <3> QED BY <3>2 DEF Range
  <2>7. result' = [selected |-> chosen, abstain |-> FALSE, reason |-> Nothing]
    <3>1. chosen # <<>>
      BY <2>4
    <3>2. result' = [NoResult EXCEPT !.selected = chosen]
      BY <1>1, <3>1
    <3>3. NoResult = [f \in {"selected", "abstain", "reason"} |-> NoResult[f]]
      BY DEF NoResult
    <3>4. NoResult.abstain = FALSE /\ NoResult.reason = Nothing
      BY DEF NoResult
    <3>5. /\ result' = [f \in {"selected", "abstain", "reason"} |-> result'[f]]
          /\ result'.selected = chosen /\ result'.abstain = FALSE /\ result'.reason = Nothing
      BY <3>2, <3>3, <3>4
    <3> QED BY <3>5
  <2> QED BY <2>4, <2>5, <2>6, <2>7
<1> HIDE DEF chosen
<1>5. StrongSelected'
  <2>1. HoldsStrong' => HoldsStrong
    BY <1>1 DEF HoldsStrong, SelectionIsStrict
  <2> SUFFICES ASSUME HoldsStrong'
               PROVE  /\ result' = [selected |-> result'.selected, abstain |-> FALSE, reason |-> Nothing]
                      /\ IsList(result'.selected)
                      /\ \E c \in Range(result'.selected) : PassesGate(query', c)
    BY DEF StrongSelected
  <2>2. /\ result' = [selected |-> chosen, abstain |-> FALSE, reason |-> Nothing]
        /\ IsList(chosen) /\ \E c \in Range(chosen) : PassesGate(query, c)
    BY <1>4, <2>1
  <2>3. result'.selected = chosen
    BY <2>2
  <2> QED BY <1>1, <2>2, <2>3
<1> QED BY <1>1, <1>2, <1>3, <1>5 DEF StrongInv, PoolFound, StrongAnswered

\* the gate leaves something of such a selection
LEMMA StrongInvGate == StrongInv /\ Gate => StrongInv'
<1> SUFFICES ASSUME StrongInv, Gate PROVE StrongInv'
  OBVIOUS
<1> DEFINE left == Gated(query, result.selected)
<1>1. /\ step = "gate" /\ step' = "done" /\ UNCHANGED <<request, query, resolution, found, pool>>
      /\ result' = CASE result.abstain -> result
                      [] ~ result.abstain /\ left # <<>> -> [result EXCEPT !.selected = left]
                      [] OTHER -> Abstained("topical_evidence_gate_failed")
  BY DEF Gate
<1>2. ListsRead' /\ SureTopic'
  BY <1>1 DEF StrongInv, ListsRead, SureTopic, IsAbout, SureSteps
<1>3. PoolRanked'
  BY <1>1 DEF StrongInv, PoolRanked
<1>4. ASSUME HoldsStrong
      PROVE  ~ result'.abstain
  <2>1. /\ result = [selected |-> result.selected, abstain |-> FALSE, reason |-> Nothing]
        /\ IsList(result.selected) /\ \E c \in Range(result.selected) : PassesGate(query, c)
    BY <1>1, <1>4 DEF StrongInv, StrongSelected
  <2>2. left # <<>>
    BY <2>1, GatedRange
  <2> HIDE DEF left
  <2>3. ~ result.abstain
    BY <2>1
  <2>4. result' = [result EXCEPT !.selected = left]
    BY <1>1, <2>2, <2>3
  <2> DEFINE held == result.selected
  <2>5. result = [selected |-> held, abstain |-> FALSE, reason |-> Nothing]
    BY <2>1
  <2> HIDE DEF held
  <2>6. result'.abstain = FALSE
    BY <2>4, <2>5
  <2> QED BY <2>6
<1> HIDE DEF left
<1>5. StrongAnswered'
  <2>1. HoldsStrong' => HoldsStrong
    BY <1>1 DEF HoldsStrong, SelectionIsStrict
  <2> QED BY <1>4, <2>1 DEF StrongAnswered
<1> QED BY <1>1, <1>2, <1>3, <1>5 DEF StrongInv, PoolFound, StrongSelected

\* a step that changes nothing
LEMMA StrongInvStutters == StrongInv /\ UNCHANGED searchVars => StrongInv'
<1> SUFFICES ASSUME StrongInv, UNCHANGED searchVars PROVE StrongInv'
  OBVIOUS
<1>1. UNCHANGED <<step, request, query, resolution, found, pool, result>>
  BY DEF searchVars
<1>2. ListsRead' /\ SureTopic' /\ PoolFound' /\ PoolRanked'
  BY <1>1 DEF StrongInv, ListsRead, SureTopic, PoolFound, PoolRanked
<1>3. HoldsStrong' => HoldsStrong
  BY <1>1 DEF HoldsStrong, SelectionIsStrict
<1>4. StrongSelected' /\ StrongAnswered'
  BY <1>1, <1>3 DEF StrongInv, StrongSelected, StrongAnswered
<1> QED BY <1>2, <1>4 DEF StrongInv

\* every step keeps the invariant
LEMMA StrongInvStep == StrongInv /\ [SearchNext]_searchVars => StrongInv'
BY StrongInvNormalize, StrongInvResolve, StrongInvFetchStrict, StrongInvFetchRelaxed,
   StrongInvBuild, StrongInvElsewhere, StrongInvRerank, StrongInvSelect, StrongInvGate,
   StrongInvStutters DEF SearchNext

(* A question whose topic is sure is answered when the pool holds a saying of *)
(* the Prophet under that topic that is central to it, for any index, any     *)
(* ranking by the engine, any similarity of words and any wording: the scores *)
(* of candidate_generation.py:560 clear every threshold of                    *)
(* result_selector.py:269, and a selection that is no more lenient than the   *)
(* gate of evidence_gate.py loses none of what it holds.                      *)
THEOREM StrongTopicsAreAnswered == SearchSpec => []StrongTopicIsAnswered
<1>1. SearchInit => StrongInv
  BY StrongInvInit
<1>2. StrongInv /\ [SearchNext]_searchVars => StrongInv'
  BY StrongInvStep
<1>3. StrongInv => StrongTopicIsAnswered
  BY SMT DEF StrongInv, StrongAnswered, HoldsStrong, IsStrong, StrongTopicIsAnswered
<1> QED BY <1>1, <1>2, <1>3, PTL DEF SearchSpec

-----------------------------------------------------------------------------
(* What is selected from the index is of a topic of the query, outside the    *)
(* thematic families.  A candidate of another topic would have to be           *)
(* outstanding (result_selector.py:322), and among the finds of the index only *)
(* those of the resolved topic are answerable enough for that.                 *)
OnTopic(q, c) == \E d \in Records : d.ref = c.ref /\ Range(q.topics) \cap d.primary # {}

\* what passes is aligned
LEMMA PassingAligned ==
  ASSUME NEW topic, NEW q, NEW h, IsAbout(topic, q), ~ Thematic(q), IsRanked(topic, q, h),
         Passes(q, Thresholds(q), h)
  PROVE  OnTopic(q, h.c)
<1>1. PICK c : IsFind(topic, c) /\ h.c = [c EXCEPT !.rerank = RerankScore(q, c)]
  BY DEF IsRanked
<1>2. PICK d \in Records, score \in Nat, anchored \in BOOLEAN :
         c = CandidateOf(topic, d, score, anchored)
  BY <1>1 DEF IsFind
<1> DEFINE y == h.c
           x == RerankScore(q, c)
<1> HIDE DEF x
<1>3. /\ y.ref = d.ref /\ y.topics = d.primary
      /\ y.answerability = IF anchored THEN V2Answerability(anchored /\ Hits(topic, d), d.prophetic)
                           ELSE 250000
  <2>1. y = [c EXCEPT !.rerank = x]
    BY <1>1 DEF x
  <2>2. c.ref = d.ref /\ c.topics = d.primary /\ y.ref = c.ref /\ y.topics = c.topics
    <3> HIDE DEF y
    <3> QED BY <1>2, <2>1, SMT DEF CandidateOf
  <2>3. c.answerability = IF anchored THEN V2Answerability(anchored /\ Hits(topic, d), d.prophetic)
                          ELSE 250000
    BY <1>2 DEF CandidateOf
  <2>4. y.answerability = c.answerability
    BY <1>1, RerankKeeps
  <2> QED BY <2>2, <2>3, <2>4
<1>4. ~ MissesTopic(q, y) /\ q.topics # <<>>
  <2>1. q.topics # <<>>
    BY EmptyList DEF IsAbout
  <2> QED BY <2>1 DEF Passes, Suited
<1>5. Aligned(q, y)
  <2> SUFFICES ASSUME ~ Aligned(q, y) PROVE FALSE
    OBVIOUS
  <2>1. ~ Hits(topic, d)
    BY <1>3 DEF Hits, Aligned, IsAbout
  <2>2. y.answerability \in {800000, 700000, 250000}
    BY <1>3, <2>1, SMT DEF V2Answerability
  <2>3. ~ (y.answerability < 860000)
    BY <1>4, SMT DEF MissesTopic
  <2> HIDE DEF y
  <2> QED BY <2>2, <2>3, SMT
<1> QED BY <1>3, <1>5 DEF OnTopic, Aligned

\* the record of a result
IsResult(r) == r = [selected |-> r.selected, abstain |-> r.abstain, reason |-> r.reason]
SelectedAligned ==
  /\ IsResult(result)
  /\ step \notin {"gate", "done"} => result.selected = <<>>
  /\ (resolution.primary # Nothing /\ ~ Thematic(query))
       => IsList(result.selected) /\ \A c \in Range(result.selected) : OnTopic(query, c)
AlignedInv == StrongInv /\ SelectedAligned

\* until the selection nothing is selected
LEMMA AlignedBefore ==
  ASSUME AlignedInv, step \notin {"gate", "done"}, UNCHANGED result
  PROVE  SelectedAligned'
<1>1. result.selected = <<>> /\ IsResult(result)
  BY DEF AlignedInv, SelectedAligned
<1>2. result'.selected = <<>> /\ IsResult(result') /\ IsList(result'.selected)
  BY <1>1, EmptyList
<1>3. Range(result'.selected) = {}
  BY <1>2, EmptyList
<1> QED BY <1>2, <1>3 DEF SelectedAligned

\* nothing is selected on abstaining
LEMMA AbstainedResult ==
  ASSUME NEW reason
  PROVE  /\ IsResult(Abstained(reason)) /\ Abstained(reason).selected = <<>>
         /\ IsList(Abstained(reason).selected) /\ Range(Abstained(reason).selected) = {}
BY EmptyList DEF Abstained, IsResult

\* a result with another selection
LEMMA ResultWith ==
  ASSUME NEW r, NEW s, IsResult(r)
  PROVE  IsResult([r EXCEPT !.selected = s]) /\ [r EXCEPT !.selected = s].selected = s
<1> DEFINE a == r.selected
           b == r.abstain
           e == r.reason
           t == [r EXCEPT !.selected = s]
<1>1. r = [selected |-> a, abstain |-> b, reason |-> e]
  BY DEF IsResult
<1> HIDE DEF a, b, e
<1>2. t = [selected |-> s, abstain |-> b, reason |-> e]
  <2>1. r = [f \in {"selected", "abstain", "reason"} |-> r[f]] /\ r.abstain = b /\ r.reason = e
    BY <1>1
  <2>2. /\ t = [f \in {"selected", "abstain", "reason"} |-> t[f]]
        /\ t.selected = s /\ t.abstain = b /\ t.reason = e
    BY <2>1
  <2> HIDE DEF t
  <2> QED BY <2>2
<1> HIDE DEF t
<1>3. IsResult(t) /\ t.selected = s
  BY <1>2 DEF IsResult
<1> QED BY <1>3 DEF t

\* what is selected has passed
LEMMA AlignedSelect == AlignedInv /\ Select => SelectedAligned'
<1> SUFFICES ASSUME AlignedInv, Select PROVE SelectedAligned'
  OBVIOUS
<1> DEFINE chosen == Selected(query, pool)
<1>1. /\ step = "select" /\ step' = "gate" /\ UNCHANGED <<query, resolution>>
      /\ result' = IF chosen = <<>> THEN Abstained("insufficient_ranked_evidence")
                   ELSE [NoResult EXCEPT !.selected = chosen]
  BY DEF Select
<1>2. ASSUME resolution.primary # Nothing, ~ Thematic(query)
      PROVE  IsList(chosen) /\ \A c \in Range(chosen) : OnTopic(query, c)
  <2>1. /\ IsAbout(resolution, query) /\ IsList(pool)
        /\ \A h \in Range(pool) : IsRanked(resolution, query, h)
    BY <1>1, <1>2 DEF AlignedInv, StrongInv, SureTopic, PoolRanked
  <2>2. /\ IsList(chosen)
        /\ \A c \in Range(chosen) : \E h \in Range(pool) : c = h.c /\ Passes(query, Thresholds(query), h)
    BY <2>1, SelectedRange
  <2> HIDE DEF chosen
  <2> QED BY <1>2, <2>1, <2>2, PassingAligned
<1>3. CASE chosen = <<>>
  <2>1. result' = Abstained("insufficient_ranked_evidence")
    BY <1>1, <1>3
  <2> QED BY <1>1, <2>1, AbstainedResult DEF SelectedAligned
<1>4. CASE chosen # <<>>
  <2>1. IsResult(NoResult)
    BY DEF NoResult, IsResult
  <2>2. result' = [NoResult EXCEPT !.selected = chosen]
    BY <1>1, <1>4
  <2> HIDE DEF chosen
  <2>3. IsResult(result') /\ result'.selected = chosen
    BY <2>1, <2>2, ResultWith
  <2> QED BY <1>1, <1>2, <2>3 DEF SelectedAligned
<1> QED BY <1>3, <1>4

\* the gate only leaves out
LEMMA AlignedGate == AlignedInv /\ Gate => SelectedAligned'
<1> SUFFICES ASSUME AlignedInv, Gate PROVE SelectedAligned'
  OBVIOUS
<1> DEFINE left == Gated(query, result.selected)
<1>1. /\ step' = "done" /\ UNCHANGED <<query, resolution>>
      /\ result' = CASE result.abstain -> result
                      [] ~ result.abstain /\ left # <<>> -> [result EXCEPT !.selected = left]
                      [] OTHER -> Abstained("topical_evidence_gate_failed")
  BY DEF Gate
<1>2. ASSUME resolution.primary # Nothing, ~ Thematic(query)
      PROVE  IsList(left) /\ \A c \in Range(left) : OnTopic(query, c)
  <2> DEFINE chosen == result.selected
             places == {i \in DOMAIN chosen : PassesGate(query, chosen[i])}
  <2>1. IsList(chosen) /\ \A c \in Range(chosen) : OnTopic(query, c)
    BY <1>2 DEF AlignedInv, SelectedAligned
  <2>2. left = KeptAt(chosen, places)
    BY DEF Gated
  <2> HIDE DEF left, chosen, places
  <2>3. IsList(left) /\ Range(left) \subseteq Range(chosen)
    BY <2>1, <2>2, KeptRange DEF Range
  <2> QED BY <2>1, <2>3
<1>3. IsResult(result)
  BY DEF AlignedInv, SelectedAligned
<1>4. CASE result' = result
  BY <1>1, <1>4 DEF AlignedInv, SelectedAligned
<1>5. CASE result' = [result EXCEPT !.selected = left]
  <2> HIDE DEF left
  <2>1. IsResult(result') /\ result'.selected = left
    BY <1>3, <1>5, ResultWith
  <2> QED BY <1>1, <1>2, <2>1 DEF SelectedAligned
<1>6. CASE result' = Abstained("topical_evidence_gate_failed")
  BY <1>1, <1>6, AbstainedResult DEF SelectedAligned
<1> HIDE DEF left
<1> QED BY <1>1, <1>4, <1>5, <1>6

\* every step keeps what is selected on topic
LEMMA AlignedStep == AlignedInv /\ [SearchNext]_searchVars => SelectedAligned'
<1> SUFFICES ASSUME AlignedInv, [SearchNext]_searchVars PROVE SelectedAligned'
  OBVIOUS
<1>1. CASE \/ Normalize \/ Resolve \/ FetchStrict \/ FetchRelaxed \/ BuildBukhari
           \/ LoadLexical \/ GenerateWithoutIndex \/ GenerateWithIndex \/ RetrieveUnits
           \/ RetrievePassages \/ Rerank
  <2>1. step \notin {"gate", "done"} /\ UNCHANGED result
    <3>1. CASE Normalize \/ Resolve \/ FetchStrict
      BY <3>1 DEF Normalize, Resolve, FetchStrict
    <3>2. CASE FetchRelaxed \/ BuildBukhari \/ LoadLexical
      BY <3>2 DEF FetchRelaxed, BuildBukhari, LoadLexical
    <3>3. CASE GenerateWithoutIndex \/ GenerateWithIndex
      BY <3>3 DEF GenerateWithoutIndex, GenerateWithIndex
    <3>4. CASE RetrieveUnits \/ RetrievePassages
      BY <3>4 DEF RetrieveUnits, RetrievePassages
    <3>5. CASE Rerank
      BY <3>5 DEF Rerank
    <3> QED BY <1>1, <3>1, <3>2, <3>3, <3>4, <3>5
  <2> QED BY <2>1, AlignedBefore
<1>2. CASE Select
  BY <1>2, AlignedSelect
<1>3. CASE Gate
  BY <1>3, AlignedGate
<1>4. CASE UNCHANGED searchVars
  BY <1>4 DEF searchVars, AlignedInv, SelectedAligned
<1> QED BY <1>1, <1>2, <1>3, <1>4 DEF SearchNext

(* When the topic of a question is sure and its family is none of the thematic *)
(* ones, every hadith that is selected carries a topic of the query in the     *)
(* index: the alignment that result_selector.py:321 asks for, with the         *)
(* exception at :322 that no find of the index can meet under another topic.   *)
SelectedOfTopic ==
  (resolution.primary # Nothing /\ ~ Thematic(query))
    => \A c \in Range(result.selected) : OnTopic(query, c)

THEOREM SureTopicsAreKept == SearchSpec => []SelectedOfTopic
<1>1. SearchInit => AlignedInv
  <2> SUFFICES ASSUME SearchInit PROVE AlignedInv
    OBVIOUS
  <2>1. result = NoResult /\ resolution.primary = Nothing
    BY DEF SearchInit, Unresolved
  <2>2. IsResult(result) /\ result.selected = <<>>
    BY <2>1 DEF NoResult, IsResult
  <2> QED BY <2>1, <2>2, StrongInvInit DEF AlignedInv, SelectedAligned
<1>2. AlignedInv /\ [SearchNext]_searchVars => AlignedInv'
  BY StrongInvStep, AlignedStep DEF AlignedInv
<1>3. AlignedInv => SelectedOfTopic
  BY DEF AlignedInv, SelectedAligned, SelectedOfTopic
<1> QED BY <1>1, <1>2, <1>3, PTL DEF SearchSpec
=============================================================================
