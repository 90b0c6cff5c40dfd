--------------------------- MODULE TopicalPipeline ---------------------------
(***************************************************************************)
(* How topics get from the enriched file to the queries                    *)
(* (pipelines/hadith_topical, domains/hadith/ingestion).  Operators run    *)
(* scripts:                                                                *)
(*   ingest    writes the rows of the collection, metadata included        *)
(*   migrate   merges the topical keys of the enriched file into the rows  *)
(*   backfill  embeds the texts of the rows, raw or clean                  *)
(*   build     deletes the v2 index and fills it again from the rows       *)
(*   build v1  the same for the index that has the name of the alias       *)
(*   cutover   points the alias, which the service queries, at an index    *)
(* Each script takes several database transactions or search-engine calls, *)
(* and may be killed between any two of them.  Of one script there is one  *)
(* run at a time; which scripts may run at the same time, Overlap says.    *)
(*                                                                         *)
(* The metadata of a row is what the scripts make of it: the version of    *)
(* the enrichment that its topical keys come from, and its embedding.      *)
(***************************************************************************)
EXTENDS Naturals, FiniteSets

CONSTANTS
  Rows,          \* the collection has the hadiths 1 .. Rows
  MaxVersion,    \* bound on the versions of the enriched file
  MaxGeneration, \* bound on ingestions that replace
  None,          \* no row, no index, no document, no run
  MinDocs,       \* the document count a cutover asks for
  Overlap        \* pairs of scripts that may run at the same time

ASSUME SizeAssumption ==
  Rows \in Nat /\ MaxVersion \in Nat /\ MaxGeneration \in Nat /\ MinDocs \in Nat \ {0}

Hadith == 1 .. Rows
Version == 0 .. MaxVersion     \* 0 is no enrichment
Generation == 0 .. MaxGeneration

(* clean tells which text was embedded; of is the version of that text, and *)
(* 0 for the raw text, which no script but ingestion writes.                *)
Embedding == [clean : BOOLEAN, of : Version]
Row == [id : Generation, topics : Version, emb : Embedding \cup {None}]

V1 == "v1"
V2 == "v2"
AliasName == "name of the alias"
IndexName == {V1, V2, AliasName}

VARIABLES
  version,       \* the enriched file
  generation,    \* ids of rows inserted now
  row,           \* hadith_entries
  index,         \* index[n]: None, or the hadiths that have a document in it
  alias,         \* the indexes that the alias points at
  migrate, backfill, build, cutover   \* the runs of the scripts

tables == <<generation, row>>
search == <<index, alias>>
scripts == <<migrate, backfill, build, cutover>>
vars == <<version, tables, search, scripts>>

NoRows == [h \in Hadith |-> None]

(* missing had a record and no row.  exposed is history: the rows that were *)
(* written again after the migration, or may be by what was read before it. *)
MigrateRun == [version : Version, records : SUBSET Hadith, todo : SUBSET Hadith,
               missing : SUBSET Hadith, exposed : SUBSET Hadith]
BackfillRun == [clean : BOOLEAN, snapshot : [Hadith -> Row \cup {None}]]
BuildRun == [name : {V2, AliasName}, at : {"preflight", "fetch", "delete", "create", "bulk"},
             docs : SUBSET Hadith]
(* rebuilt is history: the target was deleted since it was verified.        *)
CutoverRun == [target : {V1, V2}, current : {V1, V2, "none"}, verified : BOOLEAN,
               rebuilt : BOOLEAN]

ASSUME NoneAssumption ==
  /\ None \notin Row /\ None \notin Embedding
  /\ \A S \in SUBSET Hadith : None # S

TypeOK ==
  /\ version \in Version
  /\ generation \in Generation
  /\ row \in [Hadith -> Row \cup {None}]
  /\ index \in [IndexName -> (SUBSET Hadith) \cup {None}]
  /\ alias \in SUBSET {V1, V2}
  /\ migrate \in MigrateRun \cup {None}
  /\ backfill \in BackfillRun \cup {None}
  /\ build \in BuildRun \cup {None}
  /\ cutover \in CutoverRun \cup {None}

(* Either nothing is there yet, or the service runs on a complete v1 index  *)
(* from before the topical enrichment.                                      *)
Init ==
  /\ version = 0 /\ generation = 0
  /\ row = NoRows
  /\ \/ index = [n \in IndexName |-> None] /\ alias = {}
     \/ /\ index = [n \in IndexName |-> IF n = V1 THEN Hadith ELSE None]
        /\ alias \in {{}, {V1}}
  /\ migrate = None /\ backfill = None /\ build = None /\ cutover = None

-----------------------------------------------------------------------------
Running ==
  (IF migrate # None THEN {"migrate"} ELSE {})
  \cup (IF backfill # None THEN {"backfill"} ELSE {})
  \cup (IF build # None THEN {"build"} ELSE {})
  \cup (IF cutover # None THEN {"cutover"} ELSE {})

MayStart(script) == \A other \in Running : {script, other} \in Overlap /\ script # other

Present == {h \in Hadith : row[h] # None}
IsLeast(x, S) == x \in S /\ \A y \in S : x <= y

(* The enrichment publishes a new version of its file.                      *)
Publish ==
  /\ version < MaxVersion
  /\ version' = version + 1
  /\ UNCHANGED <<tables, search, scripts>>

(* Ingestion is one transaction.  It writes the metadata of the source as a *)
(* whole, so what other scripts have added is gone; with                    *)
(* replace_existing_work_data the rows are new ones.                        *)
Ingested(h, id) == [id |-> id, topics |-> 0, emb |-> None]

(* The rows that a running migration has merged, of those in S.             *)
Exposed(S) ==
  IF migrate = None THEN None
  ELSE [migrate EXCEPT !.exposed = @ \cup (S \cap (migrate.records \ migrate.todo))]

Ingest(S, replace) ==
  /\ MayStart("ingest")
  /\ replace => generation < MaxGeneration
  /\ generation' = IF replace THEN generation + 1 ELSE generation
  /\ row' = [h \in Hadith |->
               IF h \in S
               THEN Ingested(h, IF row[h] = None \/ replace THEN generation' ELSE row[h].id)
               ELSE IF replace THEN None ELSE row[h]]
  /\ migrate' = Exposed(IF replace THEN Hadith ELSE S)
  /\ UNCHANGED <<version, search, backfill, build, cutover>>

-----------------------------------------------------------------------------
(* The file is read once.  It need not have a record of every hadith, as    *)
(* enrichment runs have limits, fail for some and are killed, and the       *)
(* migration has a limit of its own; rows without a record are skipped.     *)
StartMigrate(records) ==
  /\ MayStart("migrate")
  /\ version > 0
  /\ Present # {}
  /\ migrate' = [version |-> version, records |-> records, todo |-> records,
                 missing |-> {}, exposed |-> {}]
  /\ UNCHANGED <<version, tables, search, backfill, build, cutover>>

(* Mutant: the update assigns the topical keys instead of merging them.     *)
MetadataAssigned(r, v) == [r EXCEPT !.topics = v, !.emb = None]

(* Mutant: rows that have topics already are left alone.                    *)
MergedOnce(r, v) == IF r.topics = 0 THEN [r EXCEPT !.topics = v] ELSE r

Merged(r, v) == [r EXCEPT !.topics = v]

(* The rows that a backfill has read and not written back yet.              *)
ToDo == {h \in Hadith : backfill.snapshot[h] # None}
ReadBefore == IF backfill = None THEN {} ELSE ToDo

(* A batch of one record and its commit; a record without a row is noted.   *)
MigrateBatch ==
  /\ migrate # None
  /\ \E h \in migrate.todo :
       /\ IsLeast(h, migrate.todo)
       /\ row' = IF h \in Present THEN [row EXCEPT ![h] = Merged(@, migrate.version)] ELSE row
       /\ migrate' = [migrate EXCEPT !.todo = @ \ {h},
                        !.missing = IF h \in Present THEN @ ELSE @ \cup {h},
                        !.exposed = @ \cup (ReadBefore \cap {h})]
  /\ UNCHANGED <<version, generation, search, backfill, build, cutover>>

FinishMigrate ==
  /\ migrate # None
  /\ migrate.todo = {}
  /\ migrate' = None
  /\ UNCHANGED <<version, tables, search, backfill, build, cutover>>

-----------------------------------------------------------------------------
ToEmbed(clean, overwrite) ==
  {h \in Present : /\ clean => row[h].topics > 0
                   /\ overwrite \/ row[h].emb = None}

(* The rows are read once, with their metadata; snapshot holds those that   *)
(* are still to be embedded.                                                *)
StartBackfill(clean, overwrite) ==
  /\ MayStart("backfill")
  /\ ToEmbed(clean, overwrite) # {}
  /\ backfill' = [clean |-> clean,
                  snapshot |-> [h \in Hadith |-> IF h \in ToEmbed(clean, overwrite)
                                                 THEN row[h] ELSE None]]
  /\ UNCHANGED <<version, tables, search, migrate, build, cutover>>

(* Mutant: only the keys of the embedding are written.                      *)
EmbeddingMerged(now, snapshot, e) == [now EXCEPT !.emb = e]

(* What was read at the start is written back with the embedding added.     *)
WrittenBack(now, snapshot, e) == [snapshot EXCEPT !.emb = e]

BackfillBatch(ok) ==
  /\ backfill # None
  /\ \E h \in ToDo :
       LET snapshot == backfill.snapshot[h]
           e == [clean |-> backfill.clean, of |-> IF backfill.clean THEN snapshot.topics ELSE 0]
           found == row[h] # None /\ row[h].id = snapshot.id
       IN  /\ IsLeast(h, ToDo)
           /\ row' = IF ok /\ found
                     THEN [row EXCEPT ![h] = WrittenBack(@, snapshot, e)] ELSE row
           /\ backfill' = [backfill EXCEPT !.snapshot[h] = None]
  /\ UNCHANGED <<version, generation, search, migrate, build, cutover>>

FinishBackfill ==
  /\ backfill # None
  /\ ToDo = {}
  /\ backfill' = None
  /\ UNCHANGED <<version, tables, search, migrate, build, cutover>>

-----------------------------------------------------------------------------
StartBuild(name) ==
  /\ MayStart("build")
  /\ build' = [name |-> name, at |-> IF name = V2 THEN "preflight" ELSE "fetch",
               docs |-> {}]
  /\ UNCHANGED <<version, tables, search, migrate, backfill, cutover>>

StepBuild(at) == build' = [build EXCEPT !.at = at]
AtBuild(at) == build # None /\ build.at = at
UnchangedOutsideBuild == UNCHANGED <<version, tables, migrate, backfill, cutover>>

(* Without rows, or for v2 without topics, the build is given up.           *)
Preflight ==
  /\ AtBuild("preflight")
  /\ IF \E h \in Present : row[h].topics > 0 THEN StepBuild("fetch") ELSE build' = None
  /\ UNCHANGED search
  /\ UnchangedOutsideBuild

FetchRows ==
  /\ AtBuild("fetch")
  /\ IF build.name = AliasName /\ Present = {} THEN build' = None
     ELSE build' = [build EXCEPT !.at = "delete", !.docs = Present]
  /\ UNCHANGED search
  /\ UnchangedOutsideBuild

TargetRebuilt(name) ==
  IF cutover # None /\ cutover.verified /\ cutover.target = name
  THEN [cutover EXCEPT !.rebuilt = TRUE] ELSE cutover

(* An index that is deleted leaves the alias.  The name of the alias, while *)
(* it is an alias, cannot be deleted as an index.  That the old index could *)
(* not be deleted is only warned of.                                        *)
DeleteIndex(ok) ==
  /\ AtBuild("delete")
  /\ StepBuild("create")
  /\ IF ok /\ index[build.name] # None
     THEN /\ index' = [index EXCEPT ![build.name] = None]
          /\ alias' = alias \ {build.name}
          /\ cutover' = TargetRebuilt(build.name)
     ELSE UNCHANGED <<search, cutover>>
  /\ UNCHANGED <<version, tables, migrate, backfill>>

(* Creating an index raises when the name is taken.                         *)
NameTaken(name) == index[name] # None \/ (name = AliasName /\ alias # {})

CreateIndex ==
  /\ AtBuild("create")
  /\ IF NameTaken(build.name)
     THEN build' = None /\ UNCHANGED index
     ELSE StepBuild("bulk") /\ index' = [index EXCEPT ![build.name] = {}]
  /\ UNCHANGED alias
  /\ UnchangedOutsideBuild

(* One document; the search engine may reject it, which is only logged.     *)
BulkBatch(rejected) ==
  /\ AtBuild("bulk")
  /\ \E h \in build.docs :
       /\ IsLeast(h, build.docs)
       /\ index' = IF rejected THEN index ELSE [index EXCEPT ![build.name] = @ \cup {h}]
       /\ build' = [build EXCEPT !.docs = @ \ {h}]
  /\ UNCHANGED alias
  /\ UnchangedOutsideBuild

(* The verification queries at the end decide about the exit code only.     *)
FinishBuild ==
  /\ AtBuild("bulk")
  /\ build.docs = {}
  /\ build' = None
  /\ UNCHANGED search
  /\ UnchangedOutsideBuild

-----------------------------------------------------------------------------
Count(name) ==
  IF index[name] = None THEN 0 ELSE Cardinality(index[name])

CurrentTarget == IF alias = {} THEN "none" ELSE CHOOSE n \in alias : TRUE

StartCutover(target) ==
  /\ MayStart("cutover")
  /\ CurrentTarget # target
  /\ cutover' = [target |-> target, current |-> CurrentTarget, verified |-> FALSE,
                 rebuilt |-> FALSE]
  /\ UNCHANGED <<version, tables, search, migrate, backfill, build>>

(* Mutant: an index that exists is good enough.                             *)
TargetExists(name) == index[name] # None
TargetVerified(name) == Count(name) >= MinDocs

VerifyTarget ==
  /\ cutover # None
  /\ ~ cutover.verified
  /\ cutover' = IF TargetVerified(cutover.target)
                THEN [cutover EXCEPT !.verified = TRUE] ELSE None
  /\ UNCHANGED <<version, tables, search, migrate, backfill, build>>

(* Mutant: the alias is added to the target and not removed elsewhere.      *)
AliasAdded == alias \cup {cutover.target}

(* Both actions of the request take effect or none: an index that does not  *)
(* exist fails all of it.  An alias that its index has lost meanwhile does  *)
(* not stop the other action.                                               *)
AliasSwapped == (alias \ {cutover.current}) \cup {cutover.target}

SwapAccepted ==
  /\ index[cutover.target] # None
  /\ cutover.current # "none" => index[cutover.current] # None
  /\ index[AliasName] = None

SwapAlias ==
  /\ cutover # None
  /\ cutover.verified
  /\ alias' = IF SwapAccepted THEN AliasSwapped ELSE alias
  /\ cutover' = None
  /\ UNCHANGED <<version, tables, index, migrate, backfill, build>>

-----------------------------------------------------------------------------
(* A script is killed, or a call of it raises.                              *)
Kill ==
  /\ \/ migrate # None /\ migrate' = None /\ UNCHANGED <<backfill, build, cutover>>
     \/ backfill # None /\ backfill' = None /\ UNCHANGED <<migrate, build, cutover>>
     \/ build # None /\ build' = None /\ UNCHANGED <<migrate, backfill, cutover>>
     \/ cutover # None /\ cutover' = None /\ UNCHANGED <<migrate, backfill, build>>
  /\ UNCHANGED <<version, tables, search>>

Next ==
  \/ Publish
  \/ \E S \in (SUBSET Hadith) \ {{}}, replace \in BOOLEAN : Ingest(S, replace)
  \/ \E records \in (SUBSET Hadith) \ {{}} : StartMigrate(records)
  \/ MigrateBatch \/ FinishMigrate
  \/ \E clean, overwrite \in BOOLEAN : StartBackfill(clean, overwrite)
  \/ \E ok \in BOOLEAN : BackfillBatch(ok)
  \/ FinishBackfill
  \/ \E name \in {V2, AliasName} : StartBuild(name)
  \/ Preflight \/ FetchRows
  \/ \E ok \in BOOLEAN : DeleteIndex(ok)
  \/ CreateIndex
  \/ \E rejected \in BOOLEAN : BulkBatch(rejected)
  \/ FinishBuild
  \/ \E target \in {V1, V2} : StartCutover(target)
  \/ VerifyTarget \/ SwapAlias
  \/ Kill

Spec == Init /\ [][Next]_vars

(* A bound of the run: migration and backfill are beside each other only    *)
(* before the first build.  They do not look at the indexes.                *)
BesideBeforeBuilds ==
  migrate # None /\ backfill # None => index[V2] = None /\ index[AliasName] = None

-----------------------------------------------------------------------------
(* An embedding of clean text is never of another text than the one stored  *)
(* with it was or is to become: it is not newer than the topical keys of    *)
(* its row, whatever was ingested, migrated and written back in between.    *)
EmbeddingNotAhead ==
  \A h \in Present : row[h].emb # None /\ row[h].emb.clean => row[h].emb.of <= row[h].topics

(* A migration that ends has brought every row that has a record to the     *)
(* version that it read, whatever ran beside it, but for the rows that were *)
(* ingested again after it and those that a backfill had read before it and *)
(* writes back later.  The message at migrate_topical_to_db.py:255, that    *)
(* every row now carries the topical fields, says more: it is false of rows *)
(* without a record, too.                                                   *)
MigrationComplete ==
  [][migrate # None /\ migrate.todo = {} /\ migrate' = None
       => \A h \in migrate.records \ (migrate.missing \cup migrate.exposed) :
            row[h] # None /\ row[h].topics = migrate.version]_vars

(* migrate_topical_to_db.py:17 says that an embedding that is there is      *)
(* preserved; so it is by all scripts but ingestion.                        *)
EmbeddingsSurvive ==
  [][\A h \in Present : row[h].emb # None /\ row'[h] # None /\ row'[h].emb = None
       => row'[h] = Ingested(h, row'[h].id)]_vars

(* The alias points at one index at most, and at one that exists: a query   *)
(* never mixes documents of two indexes.                                    *)
AliasOnOneIndex ==
  /\ Cardinality(alias) <= 1
  /\ \A n \in alias : index[n] # None

(* A cutover brings no index into service that has fewer documents than it  *)
(* asks for, whatever is built meanwhile, unless a build has deleted the    *)
(* index after the cutover counted.                                         *)
CutoverServesFilled ==
  [][\A n \in alias' \ alias : Count(n) >= MinDocs \/ cutover.rebuilt]_vars

=============================================================================
