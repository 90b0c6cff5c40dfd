--------------------------- MODULE SourceRegistry ---------------------------
(***************************************************************************)
(* The registry of sources (domains/source_registry, and the selection of  *)
(* Quran sources in domains/quran/repositories/context.py).                *)
(*                                                                         *)
(* What may be answered from is decided by rows of the table source_works, *)
(* which operators change and which scripts overwrite, and, for a source   *)
(* without a row, by records compiled into the program.  Every read opens  *)
(* a session of its own, so two reads of one request may see different     *)
(* rows, and any of them may find the database gone.                       *)
(*                                                                         *)
(* Names, labels, notes and providers of a source are left out; languages  *)
(* too, as the only translation is an English one.                         *)
(***************************************************************************)
EXTENDS Naturals, FiniteSets

CONSTANTS
  None,        \* no row, no record, no source
  MaxChanges,  \* bound on the changes to the table
  StrictStart  \* DALIL_STRICT_SOURCE_GOVERNANCE

ASSUME RegistryAssumption == MaxChanges \in Nat /\ StrictStart \in BOOLEAN

Text == "quran:tanzil-simple"
Translation == "quran:towards-understanding-en"
IbnKathir == "tafsir:ibn-kathir-en"
Maarif == "tafsir:maarif-al-quran-en"
Tafheem == "tafsir:tafheem-al-quran-en"
Bukhari == "hadith:sahih-al-bukhari-en"

Tafsirs == {IbnKathir, Maarif, Tafheem}
Source == {Text, Translation, Bukhari} \cup Tafsirs

Domain(s) == IF s \in Tafsirs THEN "tafsir" ELSE IF s = Bukhari THEN "hadith" ELSE "quran"

Capability == {"lookup", "explain", "topical", "compose", "quote", "followup"}

(* caps holds the capabilities that the record itself decides about.        *)
Record == [enabled : BOOLEAN, approved : BOOLEAN, default : BOOLEAN, composes : BOOLEAN,
           rank : {10, 20, 1000}, caps : UNION {[C -> BOOLEAN] : C \in SUBSET Capability}]

VARIABLES
  row,        \* source_works
  database,   \* what a session on it meets
  changes     \* how often the table was written so far

registry == <<row, database, changes>>

RegistryTypeOK ==
  /\ \A s \in Source : row[s] = None \/ row[s] \in Record
  /\ database \in {"up", "no url", "no table", "down"}
  /\ changes \in 0 .. MaxChanges

-----------------------------------------------------------------------------
(* The records compiled into the program; there is none of Maarif.          *)
Granted(C) == [c \in C |-> TRUE]

Bootstrap(s) ==
  LET Is(approved, default, composes, rank, C) ==
        [enabled |-> TRUE, approved |-> approved, default |-> default,
         composes |-> composes, rank |-> rank, caps |-> Granted(C)]
  IN  CASE s = Text -> Is(TRUE, FALSE, FALSE, 10, {"lookup", "explain", "quote", "followup"})
        [] s = Translation -> Is(TRUE, FALSE, FALSE, 20, {"lookup", "explain", "followup"})
        [] s = IbnKathir -> Is(TRUE, TRUE, TRUE, 10, Capability \ {"quote"})
        [] s = Tafheem -> Is(TRUE, FALSE, TRUE, 20, Capability \ {"quote"})
        [] s = Bukhari -> Is(FALSE, FALSE, FALSE, 1000,
                             {"lookup", "explain", "topical", "followup"})
        [] OTHER -> None

(* _safe_rows: without a URL or a table there are no rows, and that is no   *)
(* error; any other failure of the database is one.                         *)
Failed == "SourceRegistryDatabaseError"
RegistryFails == database = "down"
Rows == IF database = "up" THEN row ELSE [s \in Source |-> None]

(* A row hides the record of the program as a whole.                        *)
Known(s) == IF Rows[s] # None THEN Rows[s] ELSE Bootstrap(s)

KnownIn(domain) == {s \in Source : Domain(s) = domain /\ Known(s) # None}

Answerable(r) == r # None /\ r.enabled /\ r.approved

MayBeExplainedFrom(s) == s \in Tafsirs /\ Answerable(Known(s)) /\ Known(s).composes

ByName == [s \in Source |-> IF s = IbnKathir THEN 1 ELSE IF s = Maarif THEN 2 ELSE 3]

FirstRanked(S) ==
  CHOOSE s \in S :
    \A t \in S : \/ Known(s).rank < Known(t).rank
                 \/ Known(s).rank = Known(t).rank /\ ByName[s] <= ByName[t]

(* The default source for explanations: a marked one before any other.      *)
DefaultTafsir ==
  LET eligible == {s \in KnownIn("tafsir") : MayBeExplainedFrom(s)}
      marked == {s \in eligible : Known(s).default}
  IN  IF eligible = {} THEN None
      ELSE FirstRanked(IF marked # {} THEN marked ELSE eligible)

TafsirForExplain(requested) ==
  IF requested = None THEN DefaultTafsir
  ELSE IF MayBeExplainedFrom(requested) THEN requested ELSE None

(* A collection that is enabled need not be approved.                       *)
HadithCollection(requested) ==
  LET s == IF requested = None THEN Bukhari ELSE requested
  IN  IF Domain(s) = "hadith" /\ Known(s) # None /\ Known(s).enabled THEN s ELSE None

-----------------------------------------------------------------------------
(* capabilities.py: what the kind of a source can be used for, corrected by *)
(* what the record says.                                                    *)
KindCapabilities(s) ==
  CASE s = Text -> {"lookup", "explain", "quote", "followup"}
    [] s = Translation -> {"lookup", "explain", "followup"}
    [] s = Bukhari -> {"lookup", "explain", "topical", "followup"}
    [] OTHER -> {"lookup", "explain", "topical", "followup"}
                \cup (IF Known(s).composes /\ Known(s).approved THEN {"compose"} ELSE {})

Capabilities(s) ==
  LET own == Known(s).caps
  IN  {c \in Capability : IF c \in DOMAIN own THEN own[c] ELSE c \in KindCapabilities(s)}

Supports(s, capability) == Known(s) # None /\ capability \in Capabilities(s)

(* can_mix_sources of the Quran text and a commentary.                      *)
MayMix(text, s) == Answerable(Known(text)) /\ Answerable(Known(s)) /\ Known(s).composes

-----------------------------------------------------------------------------
(* resolve_quran_repository_context: a text and a translation, or what it   *)
(* raises.  When the registry fails the records of the program decide,      *)
(* unless the database is required.                                         *)
AllFromBootstrap(mode) == RegistryFails /\ mode # "db_only"

QuranSource(s, requested, fromBootstrap) ==
  LET r == IF fromBootstrap THEN Bootstrap(requested) ELSE Known(requested)
  IN  IF requested = s /\ Answerable(r) THEN s ELSE None

ContextEnd == {"ok", "RuntimeError", Failed, "no text", "no translation"}

QuranContext(mode, text, translation) ==
  LET fallback == AllFromBootstrap(mode)
      chosen(s, requested) == QuranSource(s, requested, fallback)
      ends(how) == [ends |-> how, strategy |-> IF fallback THEN "bootstrap_fallback" ELSE "registry"]
  IN  CASE mode = "db_only" /\ database = "no url" -> ends("RuntimeError")
        [] RegistryFails /\ ~ fallback -> ends(Failed)
        [] ~ (mode = "db_only" /\ database = "no url") /\ ~ (RegistryFails /\ ~ fallback) ->
             IF chosen(Text, text) = None THEN ends("no text")
             ELSE IF chosen(Translation, translation) = None THEN ends("no translation")
             ELSE ends("ok")

-----------------------------------------------------------------------------
(* invariants.py: the errors of the start-up check; its warnings stop        *)
(* nothing.                                                                 *)
RecordErrors(s) ==
  LET r == Known(s)
      ok == r.enabled /\ r.approved
  IN  (IF r.default /\ ~ ok THEN {"default_requires_enabled_approved"} ELSE {})
      \cup (IF r.composes /\ s \notin Tafsirs THEN {"quran_composition_only_for_tafsir"} ELSE {})
      \cup (IF r.composes /\ ~ ok THEN {"composition_requires_enabled_approved"} ELSE {})

Defaults(domain) == {s \in KnownIn(domain) : Known(s).default /\ Answerable(Known(s))}

GovernanceErrors ==
  UNION {RecordErrors(s) : s \in {x \in Source : Known(x) # None}}
  \cup (IF \E domain \in {"quran", "tafsir", "hadith"} : Cardinality(Defaults(domain)) > 1
        THEN {"multiple_defaults_for_domain"} ELSE {})

(* _run_startup_source_governance_checks: whether the service starts; it    *)
(* runs before anything is served, and again only when it is restarted.     *)
StartupFails(mode) ==
  \/ RegistryFails
  \/ StrictStart /\ (GovernanceErrors # {} \/ QuranContext(mode, Text, Translation).ends # "ok")

-----------------------------------------------------------------------------
Write(new) ==
  /\ changes < MaxChanges
  /\ database = "up"
  /\ changes' = changes + 1
  /\ row' = new
  /\ UNCHANGED database

(* An operator edits a row.                                                 *)
Govern(s, r) ==
  /\ row[s] # None
  /\ r # row[s]
  /\ Write([row EXCEPT ![s] = r])

(* Every bootstrap record is written over the row of its source, whatever   *)
(* has been decided about it since; it is one transaction.                  *)
Backfill == Write([s \in Source |-> IF Bootstrap(s) # None THEN Bootstrap(s) ELSE row[s]])

(* The ingestion of a commentary writes the flags of its command line and   *)
(* no capabilities of its own.                                              *)
IngestTafsir(s, enable, default, composes) ==
  /\ s \in Tafsirs
  /\ Write([row EXCEPT ![s] =
       [enabled |-> enable, approved |-> enable, default |-> default, composes |-> composes,
        rank |-> 1000, caps |-> Granted({})]])

(* The ingestion of the collection never approves it.                       *)
IngestHadith ==
  Write([row EXCEPT ![Bukhari] =
    [enabled |-> TRUE, approved |-> FALSE, default |-> FALSE, composes |-> FALSE,
     rank |-> 1000, caps |-> Granted({})]])

DatabaseChanges(d) ==
  /\ database # d
  /\ {database, d} = {"up", "down"}
  /\ database' = d
  /\ UNCHANGED <<row, changes>>
=============================================================================
