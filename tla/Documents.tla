----------------------------- MODULE Documents -----------------------------
(***************************************************************************)
(* Sources and the documents extracted from them: the upload of a PDF, the *)
(* extract_mineru asset with its IO manager, and the choice of a canonical *)
(* variant over the API.                                                   *)
(*                                                                         *)
(* The three share a bucket per kind of object and the tables `source` and *)
(* `document_variant` of Postgres (READ COMMITTED).  One action is one     *)
(* statement, one object operation or one call of Dagster.                 *)
(***************************************************************************)
EXTENDS Integers, FiniteSets, DagsterGateway

CONSTANTS
    Sources,        \* source ids, from a sequence: each is one upload request
    Uploaded,       \* the sources whose upload is over when the behaviour begins
    Extracts,       \* runs of extract_mineru; each id is used once
    Picks,          \* set_canonical requests; each id is used once
    Hashes,         \* values of CONFIG_HASH, one for each release of the extractor
    Casts,          \* sets of actors that take part together (a bound for TLC)
    Null

ASSUME UploadedIsKnown == Uploaded \subseteq Sources

ASSUME NullIsNoActor == Null \notin Sources \cup Extracts \cup Picks \cup Hashes

VARIABLES
    cast,           \* the actors that take part in this behaviour
    upload,         \* state of each upload request
    pdf,            \* sources whose original.pdf is stored
    row,            \* sources with a committed row
    registered,     \* sources that are partitions of Dagster
    reported,       \* sources with a materialization of the asset `source`
    extract,        \* state of each extract run
    object,         \* object[s][part]: the run that wrote it last, or Null
    variants,       \* committed rows of document_variant
    canonical,      \* canonical[s]: the committed ids with is_canonical
    lastId,         \* the last id given to a row of document_variant
    pick            \* state of each set_canonical request

sourceVars == <<upload, pdf, row, registered, reported>>
variantVars == <<variants, canonical>>
vars == <<cast, sourceVars, extract, object, variantVars, lastId, pick>>
-----------------------------------------------------------------------------
(* The upload of a source.                                                 *)

\* Content type, digest and name are computed; flush gives the row its id.
UploadStart(s) ==
    /\ s \in cast
    /\ upload[s] = "new"
    /\ upload' = [upload EXCEPT ![s] = "put"]
    /\ UNCHANGED <<cast, pdf, row, registered, reported, extract, object, variantVars,
                   lastId, pick>>

\* Mutation: the row is committed before the object is stored.
UploadCommitFirst(s) ==
    /\ upload[s] = "put"
    /\ \E o \in CallOutcomes :
          /\ row' = IF Executed(o) THEN row \cup {s} ELSE row
          /\ pdf' = IF Raises(o) THEN pdf ELSE pdf \cup {s}
          /\ upload' = [upload EXCEPT ![s] = IF Raises(o) THEN "failed" ELSE "commit"]
    /\ UNCHANGED <<cast, registered, reported, extract, object, variantVars, lastId, pick>>

\* The object is stored while the row is still uncommitted.
UploadPut(s) ==
    /\ upload[s] = "put"
    /\ \E o \in CallOutcomes :
          /\ pdf' = IF Executed(o) THEN pdf \cup {s} ELSE pdf
          /\ upload' = [upload EXCEPT ![s] = IF Raises(o) THEN "failed" ELSE "commit"]
    /\ UNCHANGED <<cast, row, registered, reported, extract, object, variantVars, lastId,
                   pick>>

UploadCommit(s) ==
    /\ upload[s] = "commit"
    /\ \E o \in CallOutcomes :
          /\ row' = IF Executed(o) THEN row \cup {s} ELSE row
          /\ upload' = [upload EXCEPT ![s] = IF Raises(o) THEN "failed" ELSE "partition"]
    /\ UNCHANGED <<cast, pdf, registered, reported, extract, object, variantVars, lastId,
                   pick>>

\* Best effort: the handler goes on whatever the outcome is.
UploadRegister(s) ==
    /\ upload[s] = "partition"
    /\ \E o \in CallOutcomes : registered' = AddSourcePartition(registered, s, o)
    /\ upload' = [upload EXCEPT ![s] = "report"]
    /\ UNCHANGED <<cast, pdf, row, reported, extract, object, variantVars, lastId, pick>>

\* Best effort as well; 201 follows.
UploadReport(s) ==
    /\ upload[s] = "report"
    /\ \E o \in CallOutcomes : reported' = ReportSourceMaterialization(reported, s, o)
    /\ upload' = [upload EXCEPT ![s] = "done"]
    /\ UNCHANGED <<cast, pdf, row, registered, extract, object, variantVars, lastId, pick>>

\* The API process ends, or a call raises: nothing is undone but the transaction.
UploadCrash(s) ==
    /\ upload[s] \in {"put", "commit", "partition", "report"}
    /\ upload' = [upload EXCEPT ![s] = "failed"]
    /\ UNCHANGED <<cast, pdf, row, registered, reported, extract, object, variantVars,
                   lastId, pick>>
-----------------------------------------------------------------------------
(* Rows of document_variant and the transactions that change them.         *)

Parts == {"doc", "manifest"}

NewExtract == [pc |-> "new", source |-> Null, hash |-> Null, wrote |-> {},
               flag |-> FALSE, id |-> 0]

NewPick == [pc |-> "new", source |-> Null, target |-> 0, seen |-> {}, cleared |-> {}]

VariantsOf(s) == {v \in variants : v.source = s}

IsLatest(v, s) == v \in VariantsOf(s) /\ \A w \in VariantsOf(s) : w.id <= v.id

\* A run that has inserted a row and not committed it.
Inserted(e, s) ==
    /\ extract[e].pc = "commit"
    /\ extract[e].source = s
    /\ extract[e].id # 0

\* A request that has changed rows of the source and not committed them.
Changed(p, s) ==
    /\ pick[p].source = s
    /\ \/ pick[p].pc = "set" /\ pick[p].cleared # {}
       \/ pick[p].pc = "commit"

\* The row of this source, extractor and hash is there already.
Known(e) == \E v \in VariantsOf(extract[e].source) : v.hash = extract[e].hash

\* An INSERT waits for a transaction that holds the same key; a new row with
\* is_canonical also waits for one that changes the canonical row.
InsertWaits(e) ==
    LET s == extract[e].source
        others == {f \in Extracts \ {e} : Inserted(f, s)}
    IN  \/ \E f \in others : extract[f].hash = extract[e].hash
        \/ /\ ~Known(e) /\ extract[e].flag
           /\ (\E f \in others : extract[f].flag) \/ (\E p \in Picks : Changed(p, s))

\* CLEAR waits for the rows of its snapshot that another transaction changed.
ClearWaits(p) ==
    \E q \in Picks \ {p} :
        /\ Changed(q, pick[p].source)
        /\ \/ pick[q].cleared \cap pick[p].seen # {}
           \/ pick[q].pc = "commit" /\ pick[q].target \in pick[p].seen

\* SET waits for the row and for the index entry of the canonical row.
SetWaits(p) ==
    LET s == pick[p].source IN
    \/ \E q \in Picks \ {p} : Changed(q, s)
    \/ \E e \in Extracts : Inserted(e, s) /\ extract[e].flag
-----------------------------------------------------------------------------
(* The asset extract_mineru and DoclingDocIOManager.                       *)

\* A backfill starts the run; it reads the PDF and the digest of the source.
ExtractStart(e, s, h) ==
    /\ e \in cast
    /\ extract[e].pc = "new"
    /\ s \in registered
    /\ extract' = [extract EXCEPT ![e] =
          [NewExtract EXCEPT !.pc = IF s \in pdf /\ s \in row THEN "doc" ELSE "failed",
                             !.source = s, !.hash = h]]
    /\ UNCHANGED <<cast, sourceVars, object, variantVars, lastId, pick>>

\* doc.docling.json first, manifest.json last, under keys that all runs of the
\* source share.  A key is remembered once its put has returned.
ExtractPut(e, part, next) ==
    /\ extract[e].pc = part
    /\ \E o \in CallOutcomes :
          /\ object' = IF Executed(o)
                       THEN [object EXCEPT ![extract[e].source][part] = e] ELSE object
          /\ extract' = IF Raises(o)
                        THEN [extract EXCEPT ![e].pc = "cleanup"]
                        ELSE [extract EXCEPT ![e].pc = next,
                                             ![e].wrote = @ \cup {part}]
    /\ UNCHANGED <<cast, sourceVars, variantVars, lastId, pick>>

\* Mutation: the cleanup empties the prefix.
ExtractCleanupPrefix(e) ==
    /\ extract[e].pc = "cleanup"
    /\ \E gone \in SUBSET Parts :
          object' = [object EXCEPT ![extract[e].source] =
                       [part \in Parts |-> IF part \in gone THEN Null ELSE @[part]]]
    /\ extract' = [extract EXCEPT ![e].pc = "failed"]
    /\ UNCHANGED <<cast, sourceVars, variantVars, lastId, pick>>

\* After a put that raised, the remembered keys are deleted, each best effort.
ExtractCleanup(e) ==
    /\ extract[e].pc = "cleanup"
    /\ \E gone \in SUBSET extract[e].wrote :
          object' = [object EXCEPT ![extract[e].source] =
                       [part \in Parts |-> IF part \in gone THEN Null ELSE @[part]]]
    /\ extract' = [extract EXCEPT ![e].pc = "failed"]
    /\ UNCHANGED <<cast, sourceVars, variantVars, lastId, pick>>

ExtractCount(e) ==
    /\ extract[e].pc = "count"
    /\ extract' = [extract EXCEPT ![e].pc = "insert",
                                  ![e].flag = canonical[extract[e].source] = {}]
    /\ UNCHANGED <<cast, sourceVars, object, variantVars, lastId, pick>>

\* Mutation: the INSERT does not meet the partial index on is_canonical.
ExtractInsertNoIndex(e) ==
    /\ extract[e].pc = "insert"
    /\ ~Known(e)
    /\ extract' = [extract EXCEPT ![e].pc = "commit", ![e].id = lastId + 1]
    /\ lastId' = lastId + 1
    /\ UNCHANGED <<cast, sourceVars, object, variantVars, pick>>

\* ON CONFLICT DO NOTHING for the same (source, extractor, hash); a second
\* canonical row violates idx_doc_canonical, and the objects stay.
ExtractInsert(e) ==
    LET violates == extract[e].flag /\ canonical[extract[e].source] # {} IN
    /\ extract[e].pc = "insert"
    /\ ~InsertWaits(e)
    /\ \/ /\ Known(e)
          /\ extract' = [extract EXCEPT ![e].pc = "commit"]
          /\ UNCHANGED lastId
       \/ /\ ~Known(e) /\ violates
          /\ extract' = [extract EXCEPT ![e].pc = "failed"]
          /\ UNCHANGED lastId
       \/ /\ ~Known(e) /\ ~violates
          /\ extract' = [extract EXCEPT ![e].pc = "commit", ![e].id = lastId + 1]
          /\ lastId' = lastId + 1
    /\ UNCHANGED <<cast, sourceVars, object, variantVars, pick>>

\* The row that a run commits.
RowOf(e) == [id |-> extract[e].id, source |-> extract[e].source, hash |-> extract[e].hash,
             run |-> e]

ExtractCommit(e) ==
    LET s == extract[e].source IN
    /\ extract[e].pc = "commit"
    /\ \E o \in CallOutcomes :
          /\ extract' = [extract EXCEPT ![e].pc = IF Raises(o) THEN "failed" ELSE "record"]
          /\ IF Executed(o) /\ extract[e].id # 0
             THEN /\ variants' = variants \cup {RowOf(e)}
                  /\ canonical' = IF extract[e].flag
                                  THEN [canonical EXCEPT ![s] = @ \cup {extract[e].id}]
                                  ELSE canonical
             ELSE UNCHANGED variantVars
    /\ UNCHANGED <<cast, sourceVars, object, lastId, pick>>

\* Dagster stores the materialization of the partition.
ExtractRecord(e) ==
    /\ extract[e].pc = "record"
    /\ extract' = [extract EXCEPT ![e].pc = "done"]
    /\ UNCHANGED <<cast, sourceVars, object, variantVars, lastId, pick>>

\* The run's process ends, or a statement raises: no cleanup.
ExtractCrash(e) ==
    /\ extract[e].pc \notin {"new", "done", "failed"}
    /\ extract' = [extract EXCEPT ![e].pc = "failed"]
    /\ UNCHANGED <<cast, sourceVars, object, variantVars, lastId, pick>>
-----------------------------------------------------------------------------
(* POST /api/sources/{id}/documents/{extractor_name}/set-canonical         *)

\* Mutation: no 404 when there is no variant.
PickSelectNothing(p, s) ==
    /\ p \in cast
    /\ pick[p].pc = "new"
    /\ s \in row
    /\ pick' = [pick EXCEPT ![p].pc = "snapshot", ![p].source = s, ![p].target = Null]
    /\ UNCHANGED <<cast, sourceVars, extract, object, variantVars, lastId>>

\* The latest variant of the extractor is the target; 404 without one.
PickSelect(p, s) ==
    /\ p \in cast
    /\ pick[p].pc = "new"
    /\ s \in row
    /\ \/ /\ VariantsOf(s) = {}
          /\ pick' = [pick EXCEPT ![p].pc = "failed"]
       \/ \E v \in VariantsOf(s) :
             /\ IsLatest(v, s)
             /\ pick' = [pick EXCEPT ![p].pc = "snapshot", ![p].source = s,
                                     ![p].target = v.id]
    /\ UNCHANGED <<cast, sourceVars, extract, object, variantVars, lastId>>

\* The snapshot of the CLEAR statement.
PickSnapshot(p) ==
    /\ pick[p].pc = "snapshot"
    /\ pick' = [pick EXCEPT ![p].pc = "clear", ![p].seen = canonical[pick[p].source]]
    /\ UNCHANGED <<cast, sourceVars, extract, object, variantVars, lastId>>

\* Once it has the locks, rows that are no longer canonical are passed over.
PickClear(p) ==
    /\ pick[p].pc = "clear"
    /\ ~ClearWaits(p)
    /\ pick' = [pick EXCEPT ![p].pc = "set",
                            ![p].cleared = pick[p].seen \cap canonical[pick[p].source]]
    /\ UNCHANGED <<cast, sourceVars, extract, object, variantVars, lastId>>

\* Mutation: the SET does not meet the partial index.
PickSetNoIndex(p) ==
    /\ pick[p].pc = "set"
    /\ ~SetWaits(p)
    /\ pick' = [pick EXCEPT ![p].pc = "commit"]
    /\ UNCHANGED <<cast, sourceVars, extract, object, variantVars, lastId>>

\* Mutation: a conflict is tried again in the same transaction.
PickSetRetry(p) ==
    /\ pick[p].pc = "set"
    /\ ~SetWaits(p)
    /\ canonical[pick[p].source] \ pick[p].cleared \subseteq {pick[p].target}
    /\ pick' = [pick EXCEPT ![p].pc = "commit"]
    /\ UNCHANGED <<cast, sourceVars, extract, object, variantVars, lastId>>

\* Another canonical row than the cleared ones violates the index: 500.
PickSet(p) ==
    LET others == canonical[pick[p].source] \ pick[p].cleared IN
    /\ pick[p].pc = "set"
    /\ ~SetWaits(p)
    /\ pick' = [pick EXCEPT ![p].pc =
                  IF others \subseteq {pick[p].target} THEN "commit" ELSE "failed"]
    /\ UNCHANGED <<cast, sourceVars, extract, object, variantVars, lastId>>

\* Mutation: the target loses the flag when it was canonical already.
PickCommitDropsTarget(p) ==
    LET s == pick[p].source IN
    /\ pick[p].pc = "commit"
    /\ canonical' = [canonical EXCEPT ![s] = (@ \cup {pick[p].target}) \ pick[p].cleared]
    /\ pick' = [pick EXCEPT ![p].pc = "done"]
    /\ UNCHANGED <<cast, sourceVars, extract, object, variants, lastId>>

PickCommit(p) ==
    LET s == pick[p].source IN
    /\ pick[p].pc = "commit"
    /\ \E o \in CallOutcomes :
          /\ canonical' = IF Executed(o)
                          THEN [canonical EXCEPT ![s] =
                                  (@ \ pick[p].cleared) \cup {pick[p].target}]
                          ELSE canonical
          /\ pick' = [pick EXCEPT ![p].pc = IF Raises(o) THEN "failed" ELSE "done"]
    /\ UNCHANGED <<cast, sourceVars, extract, object, variants, lastId>>

\* The API process ends, or a statement raises: the transaction is rolled back.
PickCrash(p) ==
    /\ pick[p].pc \notin {"new", "done", "failed"}
    /\ pick' = [pick EXCEPT ![p].pc = "failed"]
    /\ UNCHANGED <<cast, sourceVars, extract, object, variantVars, lastId>>
-----------------------------------------------------------------------------
Init ==
    /\ cast \in Casts
    /\ upload = [s \in Sources |-> IF s \in Uploaded THEN "done" ELSE "new"]
    /\ pdf = Uploaded /\ row = Uploaded /\ registered = Uploaded /\ reported = Uploaded
    /\ extract = [e \in Extracts |-> NewExtract]
    /\ object = [s \in Sources |-> [part \in Parts |-> Null]]
    /\ variants = {}
    /\ canonical = [s \in Sources |-> {}]
    /\ lastId = 0
    /\ pick = [p \in Picks |-> NewPick]

UploadNext(s) ==
    \/ UploadStart(s) \/ UploadPut(s) \/ UploadCommit(s)
    \/ UploadRegister(s) \/ UploadReport(s) \/ UploadCrash(s)

\* The statements of a run's transaction.
InsertStep(e) == ExtractCount(e) \/ ExtractInsert(e) \/ ExtractCommit(e)

\* Everything a run does before Dagster stores its materialization.
ExtractNext(e) ==
    \/ \E s \in Sources, h \in Hashes : ExtractStart(e, s, h)
    \/ ExtractPut(e, "doc", "manifest")
    \/ ExtractPut(e, "manifest", "count")
    \/ ExtractCleanup(e)
    \/ InsertStep(e)
    \/ ExtractCrash(e)

\* The statements of a request's transaction.
PickStep(p) == PickSnapshot(p) \/ PickClear(p) \/ PickSet(p) \/ PickCommit(p)

PickNext(p) == (\E s \in Sources : PickSelect(p, s)) \/ PickStep(p) \/ PickCrash(p)

Next ==
    \/ \E s \in Sources : UploadNext(s)
    \/ \E e \in Extracts : ExtractNext(e) \/ ExtractRecord(e)
    \/ \E p \in Picks : PickNext(p)

Spec == Init /\ [][Next]_vars

\* A transaction that is not waiting goes on with its next statement.
Fairness ==
    /\ \A e \in Extracts : WF_vars(InsertStep(e))
    /\ \A p \in Picks : WF_vars(PickStep(p))
-----------------------------------------------------------------------------
UploadPcs == {"new", "put", "commit", "partition", "report", "done", "failed"}
ExtractPcs == {"new", "doc", "manifest", "cleanup", "count", "insert", "commit", "record",
               "done", "failed"}
PickPcs == {"new", "snapshot", "clear", "set", "commit", "done", "failed"}

VariantRow == [id : Nat, source : Sources, hash : Hashes, run : Extracts]

\* The type of each variable.
TypeOK ==
    /\ cast \in Casts
    /\ upload \in [Sources -> UploadPcs]
    /\ pdf \subseteq Sources /\ row \subseteq Sources
    /\ registered \subseteq Sources /\ reported \subseteq Sources
    /\ extract \in [Extracts -> [pc : ExtractPcs, source : Sources \cup {Null},
                                 hash : Hashes \cup {Null}, wrote : SUBSET Parts,
                                 flag : BOOLEAN, id : Nat]]
    /\ object \in [Sources -> [Parts -> Extracts \cup {Null}]]
    /\ variants \subseteq VariantRow
    /\ canonical \in [Sources -> SUBSET Nat]
    /\ lastId \in Nat
    /\ pick \in [Picks -> [pc : PickPcs, source : Sources \cup {Null}, target : Nat,
                           seen : SUBSET Nat, cleared : SUBSET Nat]]

\* Whatever call of an upload fails or is lost: what Dagster may run, the
\* database knows, and what the database knows is stored; a 201 says both.
SourceIsComplete ==
    /\ registered \cup reported \subseteq row
    /\ row \subseteq pdf
    /\ \A s \in Sources : upload[s] = "done" => s \in row

\* A source with variants has exactly one canonical variant, however runs and
\* set_canonical requests interleave and fail.
OneCanonical ==
    \A s \in Sources :
        /\ VariantsOf(s) # {} => \E v \in VariantsOf(s) : canonical[s] = {v.id}
        /\ VariantsOf(s) = {} => canonical[s] = {}

\* A variant's object is missing only where a run of the same source that wrote
\* this object itself failed, and took it away (a later or concurrent run does
\* this to the object of an earlier one).
LostOnlyToCleanup ==
    \A v \in variants, part \in Parts :
        object[v.source][part] = Null =>
            \E e \in Extracts : /\ extract[e].pc = "failed"
                                /\ extract[e].source = v.source
                                /\ part \in extract[e].wrote

\* The variants as their readers see them; the run that made a variant names it.
Choice == INSTANCE CanonicalChoice WITH
             Variants <- Extracts,
             None <- Null,
             known <- [s \in Sources |-> {v.run : v \in VariantsOf(s)}],
             chosen <- [s \in Sources |->
                          IF canonical[s] = {} THEN Null
                          ELSE (CHOOSE v \in variants : v.id \in canonical[s]).run]

\* Runs and requests, statement by statement, add and choose variants in one step.
ImplementsCanonicalChoice == Choice!Spec

\* No cycle of lock waits: every transaction on document_variant comes to an end.
TransactionsEnd ==
    /\ \A e \in Extracts : extract[e].pc = "insert" ~> extract[e].pc # "insert"
    /\ \A p \in Picks : pick[p].pc = "snapshot" ~> pick[p].pc \in {"done", "failed"}
=============================================================================
