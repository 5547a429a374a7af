-------------------------- MODULE Documents_proofs --------------------------
(***************************************************************************)
(* Theorems about Documents: the order of an upload, the objects of a      *)
(* variant, and the canonical variant under concurrent transactions.       *)
(*                                                                         *)
(* Given the types, each of these is inductive on its own: UploadInv is    *)
(* about uploads, WrittenInv about objects, and TransInv about the         *)
(* transactions on document_variant and the locks they hold.  IdInv rests  *)
(* on TransInv, and with it the refinement of CanonicalChoice is shown.    *)
(***************************************************************************)
EXTENDS Documents, TLAPS
-----------------------------------------------------------------------------
(* The invariants.                                                         *)

UploadInv ==
    /\ \A s \in Sources : upload[s] = "commit" => s \in pdf
    /\ \A s \in Sources : upload[s] \in {"partition", "report", "done"} => s \in row
    /\ registered \cup reported \subseteq row
    /\ row \subseteq pdf

\* A failed run has written the object and may have taken it away.
Lost(s, part) ==
    \E e \in Extracts : extract[e].pc = "failed" /\ extract[e].source = s
                          /\ part \in extract[e].wrote

RunsHaveWritten ==
    \A e \in Extracts :
        /\ extract[e].pc = "manifest" => "doc" \in extract[e].wrote
        /\ extract[e].pc \in {"count", "insert", "commit", "record", "done"} =>
              extract[e].wrote = Parts

VariantsAreWritten ==
    \A v \in variants :
        /\ extract[v.run].pc \in {"record", "done", "failed"}
        /\ extract[v.run].source = v.source
        /\ extract[v.run].wrote = Parts

WroteOrLost ==
    \A e \in Extracts : \A part \in extract[e].wrote :
        object[extract[e].source][part] = Null => Lost(extract[e].source, part)

WrittenInv == RunsHaveWritten /\ VariantsAreWritten /\ WroteOrLost

\* Ids are given once.
IdsAreUsed ==
    /\ \A v \in variants : v.id \in 1..lastId
    /\ \A e \in Extracts : extract[e].id \in 0..lastId

IdsAreDistinct ==
    /\ \A v, w \in variants : v.id = w.id => v = w
    /\ \A e \in Extracts, v \in variants :
          extract[e].pc = "commit" /\ extract[e].id # 0 => v.id # extract[e].id
    /\ \A e, f \in Extracts :
          /\ e # f
          /\ extract[e].pc = "commit" /\ extract[e].id # 0
          /\ extract[f].pc = "commit" /\ extract[f].id # 0
          => extract[e].id # extract[f].id

IdInv == IdsAreUsed /\ IdsAreDistinct

\* Only an INSERT gives a run an id.
IdsComeWithRows ==
    \A e \in Extracts : extract[e].id # 0 => extract[e].pc \in {"commit", "record", "done", "failed"}

\* A run that counted a canonical row has a source with variants.
CountIsNoLead ==
    \A e \in Extracts :
        extract[e].pc \in {"insert", "commit"} /\ ~extract[e].flag =>
            VariantsOf(extract[e].source) # {}

\* The first variant of a source is inserted by one transaction alone.
FirstIsAlone ==
    \A e \in Extracts, s \in Sources :
        Inserted(e, s) /\ extract[e].flag =>
            /\ canonical[s] = {}
            /\ \A f \in Extracts : Inserted(f, s) /\ extract[f].flag => f = e

PicksHaveTargets ==
    \A p \in Picks :
        pick[p].pc \in {"snapshot", "clear", "set", "commit"} =>
            /\ pick[p].source \in Sources
            /\ \E v \in VariantsOf(pick[p].source) : v.id = pick[p].target

\* The row locks: one transaction at a time has changed rows of a source.
OneChanges ==
    \A s \in Sources, p, q \in Picks : Changed(p, s) /\ Changed(q, s) => p = q

\* What a request has changed is still there to be committed.
ChangesAreCurrent ==
    \A p \in Picks :
        LET s == pick[p].source IN
        /\ pick[p].pc = "set" => pick[p].cleared \subseteq canonical[s]
        /\ pick[p].pc = "commit" => canonical[s] \ pick[p].cleared \subseteq {pick[p].target}

TransInv ==
    /\ OneCanonical /\ IdsComeWithRows /\ CountIsNoLead /\ FirstIsAlone
    /\ PicksHaveTargets /\ OneChanges /\ ChangesAreCurrent
-----------------------------------------------------------------------------
(* Type correctness.                                                       *)

ExtractRun == [pc : ExtractPcs, source : Sources \cup {Null}, hash : Hashes \cup {Null},
               wrote : SUBSET Parts, flag : BOOLEAN, id : Nat]

PickRequest == [pc : PickPcs, source : Sources \cup {Null}, target : Nat,
                seen : SUBSET Nat, cleared : SUBSET Nat]

SourcesTyped ==
    /\ cast \in Casts
    /\ upload \in [Sources -> UploadPcs]
    /\ pdf \subseteq Sources /\ row \subseteq Sources
    /\ registered \subseteq Sources /\ reported \subseteq Sources

ExtractsTyped == extract \in [Extracts -> ExtractRun]

ObjectsTyped == object \in [Sources -> [Parts -> Extracts \cup {Null}]]

VariantsTyped ==
    /\ variants \subseteq VariantRow
    /\ canonical \in [Sources -> SUBSET Nat]
    /\ lastId \in Nat

PicksTyped == pick \in [Picks -> PickRequest]

\* A run that has started has a source and a hash.
RunTyped ==
    \A e \in Extracts : extract[e].pc # "new" =>
        extract[e].source \in Sources /\ extract[e].hash \in Hashes

TypeInv == TypeOK /\ RunTyped

LEMMA TypeParts ==
    TypeOK <=> SourcesTyped /\ ExtractsTyped /\ ObjectsTyped /\ VariantsTyped /\ PicksTyped
BY Zenon DEF TypeOK, SourcesTyped, ExtractsTyped, ObjectsTyped, VariantsTyped, PicksTyped,
             ExtractRun, PickRequest

LEMMA TypePartsNext ==
    TypeOK' <=> SourcesTyped' /\ ExtractsTyped' /\ ObjectsTyped' /\ VariantsTyped' /\ PicksTyped'
BY Zenon DEF TypeOK, SourcesTyped, ExtractsTyped, ObjectsTyped, VariantsTyped, PicksTyped,
             ExtractRun, PickRequest

LEMMA InitTypeOK == Init => TypeInv
BY UploadedIsKnown
DEF Init, TypeInv, TypeOK, RunTyped, UploadPcs, ExtractPcs, PickPcs, NewExtract, NewPick,
    VariantRow

LEMMA UploadTypeOK ==
    ASSUME TypeOK, NEW s \in Sources, UploadNext(s)
    PROVE  TypeOK'
<1>1. SourcesTyped'
  BY TypeParts
  DEF SourcesTyped, UploadNext, UploadStart, UploadPut, UploadCommit, UploadRegister,
      UploadReport, UploadCrash, UploadPcs, AddSourcePartition, ReportSourceMaterialization
<1>2. UNCHANGED <<extract, object, variants, canonical, lastId, pick>>
  BY DEF UploadNext, UploadStart, UploadPut, UploadCommit, UploadRegister, UploadReport,
         UploadCrash, variantVars
<1>. QED
  BY <1>1, <1>2, TypeParts, TypePartsNext
  DEF ExtractsTyped, ObjectsTyped, VariantsTyped, PicksTyped

LEMMA ExtractStep ==
    ASSUME ExtractsTyped, NEW e \in Extracts, NEW x \in ExtractRun,
           extract' = [extract EXCEPT ![e] = x]
    PROVE  ExtractsTyped'
BY DEF ExtractsTyped

LEMMA PickRequestStep ==
    ASSUME PicksTyped, NEW p \in Picks, NEW x \in PickRequest,
           pick' = [pick EXCEPT ![p] = x]
    PROVE  PicksTyped'
BY DEF PicksTyped

LEMMA ExtractTypeOK ==
    ASSUME TypeInv, NEW e \in Extracts, ExtractNext(e) \/ ExtractRecord(e)
    PROVE  TypeOK'
<1>0. SourcesTyped /\ ExtractsTyped /\ ObjectsTyped /\ VariantsTyped /\ PicksTyped
  BY TypeParts DEF TypeInv
<1>a. extract[e] \in ExtractRun
  BY <1>0 DEF ExtractsTyped
<1>b. SourcesTyped' /\ PicksTyped'
  BY <1>0 DEF SourcesTyped, PicksTyped, ExtractNext, ExtractRecord, InsertStep, ExtractStart,
              ExtractPut, ExtractCleanup, ExtractCount, ExtractInsert, ExtractCommit,
              ExtractCrash, sourceVars
<1>1. ASSUME NEW s \in Sources, NEW h \in Hashes, ExtractStart(e, s, h)
      PROVE  ExtractsTyped' /\ ObjectsTyped' /\ VariantsTyped'
  <2>1. ExtractsTyped'
    BY <1>0, <1>1 DEF ExtractStart, ExtractsTyped, NewExtract, ExtractRun, ExtractPcs
  <2>. QED  BY <1>0, <1>1, <2>1 DEF ExtractStart, ObjectsTyped, VariantsTyped, variantVars
<1>2. ASSUME NEW part \in Parts, NEW next \in ExtractPcs, ExtractPut(e, part, next)
      PROVE  ExtractsTyped' /\ ObjectsTyped' /\ VariantsTyped'
  <2>1. ExtractsTyped'
    <3>. DEFINE x == [extract[e] EXCEPT !.pc = "cleanup"]
                y == [extract[e] EXCEPT !.pc = next, !.wrote = @ \cup {part}]
    <3>1. x \in ExtractRun /\ y \in ExtractRun
      BY <1>a DEF ExtractRun, ExtractPcs
    <3>2. extract' = [extract EXCEPT ![e] = x] \/ extract' = [extract EXCEPT ![e] = y]
      BY <1>0, <1>2 DEF ExtractPut, ExtractsTyped, ExtractRun
    <3>. HIDE DEF x, y
    <3>. QED  BY <1>0, <3>1, <3>2, ExtractStep
  <2>2. ObjectsTyped'
    <3>1. object' = object \/ object' = [object EXCEPT ![extract[e].source][part] = e]
      BY <1>2 DEF ExtractPut
    <3>. QED  BY <1>0, <3>1 DEF ObjectsTyped
  <2>. QED  BY <1>0, <1>2, <2>1, <2>2 DEF ExtractPut, VariantsTyped, variantVars
<1>3. ASSUME ExtractCleanup(e)
      PROVE  ExtractsTyped' /\ ObjectsTyped' /\ VariantsTyped'
  <2>1. ExtractsTyped'
    BY <1>0, <1>a, <1>3 DEF ExtractCleanup, ExtractsTyped, ExtractRun, ExtractPcs
  <2>2. ObjectsTyped'
    <3>1. PICK gone \in SUBSET extract[e].wrote :
             object' = [object EXCEPT ![extract[e].source] =
                          [part \in Parts |-> IF part \in gone THEN Null ELSE @[part]]]
      BY <1>3 DEF ExtractCleanup
    <3>2. \A s \in Sources, part \in Parts :
             object'[s][part] = object[s][part] \/ object'[s][part] = Null
      BY <1>0, <3>1 DEF ObjectsTyped
    <3>3. \A s \in Sources :
             object'[s] = object[s]
             \/ object'[s] = [part \in Parts |-> IF part \in gone THEN Null ELSE object[s][part]]
      BY <1>0, <3>1 DEF ObjectsTyped
    <3>. QED  BY <1>0, <3>1, <3>2, <3>3 DEF ObjectsTyped
  <2>. QED  BY <1>0, <1>3, <2>1, <2>2 DEF ExtractCleanup, VariantsTyped, variantVars
<1>4. ASSUME ExtractCount(e) \/ ExtractRecord(e) \/ ExtractCrash(e)
      PROVE  ExtractsTyped' /\ ObjectsTyped' /\ VariantsTyped'
  <2>1. ExtractsTyped'
    BY <1>0, <1>a, <1>4
    DEF ExtractCount, ExtractRecord, ExtractCrash, ExtractsTyped, ExtractRun, ExtractPcs
  <2>. QED
    BY <1>0, <1>4, <2>1
    DEF ExtractCount, ExtractRecord, ExtractCrash, ObjectsTyped, VariantsTyped, variantVars
<1>5. ASSUME ExtractInsert(e)
      PROVE  ExtractsTyped' /\ ObjectsTyped' /\ VariantsTyped'
  <2>1. ExtractsTyped' /\ lastId' \in Nat
    BY <1>0, <1>a, <1>5
    DEF ExtractInsert, ExtractsTyped, ExtractRun, ExtractPcs, VariantsTyped
  <2>. QED  BY <1>0, <1>5, <2>1 DEF ExtractInsert, ObjectsTyped, VariantsTyped, variantVars
<1>6. ASSUME ExtractCommit(e)
      PROVE  ExtractsTyped' /\ ObjectsTyped' /\ VariantsTyped'
  <2>1. ExtractsTyped'
    BY <1>0, <1>a, <1>6 DEF ExtractCommit, ExtractsTyped, ExtractRun, ExtractPcs
  <2>2. VariantsTyped'
    <3>1. CASE UNCHANGED variantVars
      BY <1>0, <1>6, <3>1 DEF ExtractCommit, VariantsTyped, variantVars
    <3>2. CASE ~UNCHANGED variantVars
      <4>1. /\ variants' = variants \cup {RowOf(e)}
            /\ \/ canonical' = canonical
               \/ canonical' = [canonical EXCEPT ![extract[e].source] = @ \cup {extract[e].id}]
            /\ lastId' = lastId
        BY <1>6, <3>2 DEF ExtractCommit
      <4>2. RowOf(e) \in VariantRow
        BY <1>6, <1>a DEF ExtractCommit, RowOf, VariantRow, ExtractRun, RunTyped, TypeInv
      <4>. QED  BY <1>0, <1>a, <4>1, <4>2 DEF VariantsTyped, ExtractRun
    <3>. QED  BY <3>1, <3>2
  <2>. QED  BY <1>0, <1>6, <2>1, <2>2 DEF ExtractCommit, ObjectsTyped
<1>. QED
  BY <1>b, <1>1, <1>2, <1>3, <1>4, <1>5, <1>6, TypePartsNext
  DEF ExtractNext, InsertStep, Parts, ExtractPcs

LEMMA PickTypeOK ==
    ASSUME TypeOK, NEW p \in Picks, PickNext(p)
    PROVE  TypeOK'
<1>0. SourcesTyped /\ ExtractsTyped /\ ObjectsTyped /\ VariantsTyped /\ PicksTyped
  BY TypeParts
<1>a. pick[p] \in PickRequest
  BY <1>0 DEF PicksTyped
<1>b. SourcesTyped' /\ ExtractsTyped' /\ ObjectsTyped'
  BY <1>0 DEF SourcesTyped, ExtractsTyped, ObjectsTyped, PickNext, PickStep, PickSelect,
              PickSnapshot, PickClear, PickSet, PickCommit, PickCrash, sourceVars
<1>1. ASSUME NEW s \in Sources, PickSelect(p, s)
      PROVE  PicksTyped' /\ VariantsTyped'
  <2>1. \A v \in variants : v.id \in Nat
    BY <1>0 DEF VariantsTyped, VariantRow
  <2>2. PicksTyped'
    BY <1>0, <1>a, <1>1, <2>1
    DEF PickSelect, IsLatest, VariantsOf, PicksTyped, PickRequest, PickPcs
  <2>. QED  BY <1>0, <1>1, <2>2 DEF PickSelect, VariantsTyped, variantVars
<1>2. ASSUME PickSnapshot(p) \/ PickClear(p) \/ PickSet(p) \/ PickCrash(p)
      PROVE  PicksTyped' /\ VariantsTyped'
  <2>1. PicksTyped'
    BY <1>0, <1>a, <1>2
    DEF PickSnapshot, PickClear, PickSet, PickCrash, PicksTyped, PickRequest, PickPcs,
        VariantsTyped
  <2>. QED
    BY <1>0, <1>2, <2>1
    DEF PickSnapshot, PickClear, PickSet, PickCrash, VariantsTyped, variantVars
<1>3. ASSUME PickCommit(p)
      PROVE  PicksTyped' /\ VariantsTyped'
  <2>1. PicksTyped'
    BY <1>0, <1>a, <1>3 DEF PickCommit, PicksTyped, PickRequest, PickPcs
  <2>2. VariantsTyped'
    <3>1. \/ canonical' = canonical
          \/ canonical' = [canonical EXCEPT ![pick[p].source] =
                              (@ \ pick[p].cleared) \cup {pick[p].target}]
      BY <1>3 DEF PickCommit
    <3>2. pick[p].target \in Nat
      BY <1>a DEF PickRequest
    <3>3. variants' = variants /\ lastId' = lastId
      BY <1>3 DEF PickCommit
    <3>4. canonical' \in [Sources -> SUBSET Nat]
      BY <1>0, <3>1, <3>2 DEF VariantsTyped
    <3>. QED  BY <1>0, <3>3, <3>4 DEF VariantsTyped
  <2>. QED  BY <2>1, <2>2
<1>. QED
  BY <1>b, <1>1, <1>2, <1>3, TypePartsNext DEF PickNext, PickStep

LEMMA RunTypedNext ==
    ASSUME TypeInv, Next
    PROVE  RunTyped'
<1>1. ExtractsTyped
  BY TypeParts DEF TypeInv
<1>2. ASSUME NEW e \in Extracts, ExtractNext(e) \/ ExtractRecord(e)
      PROVE  RunTyped'
  <2>1. \/ extract[e].pc # "new" /\ extract'[e].source = extract[e].source
                                /\ extract'[e].hash = extract[e].hash
        \/ extract'[e].source \in Sources /\ extract'[e].hash \in Hashes
    <3>1. ASSUME NEW s \in Sources, NEW h \in Hashes, ExtractStart(e, s, h)
          PROVE  extract'[e].source \in Sources /\ extract'[e].hash \in Hashes
      BY <1>1, <3>1 DEF ExtractStart, ExtractsTyped, NewExtract
    <3>2. ASSUME NEW part \in Parts, NEW next, ExtractPut(e, part, next)
          PROVE  /\ extract[e].pc # "new"
                 /\ extract'[e].source = extract[e].source
                 /\ extract'[e].hash = extract[e].hash
      BY <1>1, <3>2 DEF ExtractPut, ExtractsTyped, ExtractRun, Parts
    <3>3. ASSUME ExtractCleanup(e) \/ InsertStep(e) \/ ExtractCrash(e) \/ ExtractRecord(e)
          PROVE  /\ extract[e].pc # "new"
                 /\ extract'[e].source = extract[e].source
                 /\ extract'[e].hash = extract[e].hash
      BY <1>1, <3>3
      DEF ExtractCleanup, InsertStep, ExtractCount, ExtractInsert, ExtractCommit,
          ExtractCrash, ExtractRecord, ExtractsTyped, ExtractRun
    <3>. QED  BY <1>2, <3>1, <3>2, <3>3 DEF ExtractNext, Parts
  <2>2. \A f \in Extracts \ {e} : extract'[f] = extract[f]
    BY <1>1, <1>2
    DEF ExtractNext, ExtractStart, ExtractPut, ExtractCleanup, InsertStep, ExtractCount,
        ExtractInsert, ExtractCommit, ExtractCrash, ExtractRecord, ExtractsTyped
  <2>. QED  BY <2>1, <2>2 DEF RunTyped, TypeInv
<1>3. ASSUME NEW s \in Sources, UploadNext(s)
      PROVE  RunTyped'
  BY <1>3
  DEF TypeInv, RunTyped, UploadNext, UploadStart, UploadPut, UploadCommit, UploadRegister,
      UploadReport, UploadCrash
<1>4. ASSUME NEW p \in Picks, PickNext(p)
      PROVE  RunTyped'
  BY <1>4
  DEF TypeInv, RunTyped, PickNext, PickStep, PickSelect, PickSnapshot, PickClear, PickSet,
      PickCommit, PickCrash
<1>. QED  BY <1>2, <1>3, <1>4 DEF Next

LEMMA NextTypeOK == TypeInv /\ [Next]_vars => TypeInv'
<1>. SUFFICES ASSUME TypeInv, [Next]_vars
              PROVE  TypeInv'
  OBVIOUS
<1>1. CASE UNCHANGED vars
  BY <1>1 DEF TypeInv, TypeOK, RunTyped, vars, sourceVars, variantVars
<1>2. CASE Next
  <2>1. TypeOK'
    BY <1>2, UploadTypeOK, ExtractTypeOK, PickTypeOK DEF Next, TypeInv
  <2>. QED  BY <1>2, <2>1, RunTypedNext DEF TypeInv
<1>. QED  BY <1>1, <1>2

LEMMA TypeInvariant == Spec => []TypeInv
BY InitTypeOK, NextTypeOK, PTL DEF Spec

\* Every variable keeps its type, whatever fails and in whatever order.
THEOREM TypeCorrect == Spec => []TypeOK
<1>1. TypeInv => TypeOK
  BY DEF TypeInv
<1>. QED  BY <1>1, TypeInvariant, PTL
-----------------------------------------------------------------------------
(* The order of an upload.                                                 *)

LEMMA InitUploadInv == Init => UploadInv
BY DEF Init, UploadInv

LEMMA UploadStepInv ==
    ASSUME TypeInv, UploadInv, NEW s \in Sources, UploadNext(s)
    PROVE  UploadInv'
<1>1. SourcesTyped
  BY TypeParts DEF TypeInv
<1>2. ASSUME UploadStart(s) \/ UploadCrash(s)
      PROVE  UploadInv'
  BY <1>1, <1>2 DEF UploadStart, UploadCrash, UploadInv, SourcesTyped, UploadPcs
<1>3. ASSUME UploadPut(s)
      PROVE  UploadInv'
  BY <1>1, <1>3 DEF UploadPut, UploadInv, SourcesTyped, CallOutcomes, Executed, Raises
<1>4. ASSUME UploadCommit(s)
      PROVE  UploadInv'
  BY <1>1, <1>4 DEF UploadCommit, UploadInv, SourcesTyped, CallOutcomes, Executed, Raises
<1>5. ASSUME UploadRegister(s)
      PROVE  UploadInv'
  BY <1>1, <1>5 DEF UploadRegister, AddSourcePartition, UploadInv, SourcesTyped
<1>6. ASSUME UploadReport(s)
      PROVE  UploadInv'
  BY <1>1, <1>6 DEF UploadReport, ReportSourceMaterialization, UploadInv, SourcesTyped
<1>. QED  BY <1>2, <1>3, <1>4, <1>5, <1>6 DEF UploadNext

LEMMA NextUploadInv == TypeInv /\ UploadInv /\ [Next]_vars => UploadInv'
<1>. SUFFICES ASSUME TypeInv, UploadInv, [Next]_vars
              PROVE  UploadInv'
  OBVIOUS
<1>1. ASSUME UNCHANGED sourceVars
      PROVE  UploadInv'
  BY <1>1 DEF UploadInv, sourceVars
<1>2. ASSUME NEW e \in Extracts, ExtractNext(e) \/ ExtractRecord(e)
      PROVE  UNCHANGED sourceVars
  BY <1>2
  DEF ExtractNext, ExtractRecord, InsertStep, ExtractStart, ExtractPut, ExtractCleanup,
      ExtractCount, ExtractInsert, ExtractCommit, ExtractCrash
<1>3. ASSUME NEW p \in Picks, PickNext(p)
      PROVE  UNCHANGED sourceVars
  BY <1>3
  DEF PickNext, PickStep, PickSelect, PickSnapshot, PickClear, PickSet, PickCommit, PickCrash
<1>. QED  BY <1>1, <1>2, <1>3, UploadStepInv DEF Next, vars

\* The upload handler (sources.py): whatever call fails or is lost, a source that
\* Dagster may run has a row, a row has its PDF, and a 201 says that both are there.
THEOREM Complete == Spec => []SourceIsComplete
<1>1. UploadInv => SourceIsComplete
  BY DEF UploadInv, SourceIsComplete
<1>. QED  BY <1>1, InitUploadInv, NextUploadInv, TypeInvariant, PTL DEF Spec
-----------------------------------------------------------------------------
(* The objects of a variant.                                               *)

LEMMA InitWrittenInv == Init => WrittenInv
BY DEF Init, WrittenInv, RunsHaveWritten, VariantsAreWritten, WroteOrLost, NewExtract

\* What the steps of one run have in common.
LEMMA ExtractFrame ==
    ASSUME TypeInv, NEW e \in Extracts, ExtractNext(e) \/ ExtractRecord(e)
    PROVE  /\ \A f \in Extracts \ {e} : extract'[f] = extract[f]
           /\ extract[e].pc \notin {"done", "failed"}
           /\ extract[e].pc # "new" => extract'[e].source = extract[e].source
<1>1. ExtractsTyped
  BY TypeParts DEF TypeInv
<1>a. extract[e] \in ExtractRun
  BY <1>1 DEF ExtractsTyped
<1>2. \A f \in Extracts \ {e} : extract'[f] = extract[f]
  BY <1>1
  DEF ExtractNext, ExtractStart, ExtractPut, ExtractCleanup, InsertStep, ExtractCount,
      ExtractInsert, ExtractCommit, ExtractCrash, ExtractRecord, ExtractsTyped
<1>3. ASSUME NEW s \in Sources, NEW h \in Hashes, ExtractStart(e, s, h)
      PROVE  extract[e].pc = "new"
  BY <1>3 DEF ExtractStart
<1>4. ASSUME NEW part \in Parts, NEW next, ExtractPut(e, part, next)
      PROVE  extract[e].pc \notin {"done", "failed"} /\ extract'[e].source = extract[e].source
  BY <1>1, <1>a, <1>4 DEF ExtractPut, ExtractsTyped, ExtractRun, Parts
<1>5. ASSUME ExtractCleanup(e) \/ InsertStep(e) \/ ExtractCrash(e) \/ ExtractRecord(e)
      PROVE  extract[e].pc \notin {"done", "failed"} /\ extract'[e].source = extract[e].source
  BY <1>1, <1>a, <1>5
  DEF ExtractCleanup, InsertStep, ExtractCount, ExtractInsert, ExtractCommit, ExtractCrash,
      ExtractRecord, ExtractsTyped, ExtractRun
<1>6. extract[e].pc \notin {"done", "failed"}
      /\ (extract[e].pc # "new" => extract'[e].source = extract[e].source)
  BY <1>3, <1>4, <1>5 DEF ExtractNext, Parts
<1>. QED  BY <1>2, <1>6

LEMMA LostStays ==
    ASSUME TypeInv, NEW e \in Extracts, ExtractNext(e) \/ ExtractRecord(e),
           NEW s, NEW part, Lost(s, part)
    PROVE  Lost(s, part)'
<1>1. PICK f \in Extracts : extract[f].pc = "failed" /\ extract[f].source = s
                             /\ part \in extract[f].wrote
  BY DEF Lost
<1>2. extract'[f] = extract[f]
  BY <1>1, ExtractFrame
<1>. QED  BY <1>1, <1>2 DEF Lost

LEMMA ExtractRunsWritten ==
    ASSUME TypeInv, RunsHaveWritten, NEW e \in Extracts, ExtractNext(e) \/ ExtractRecord(e)
    PROVE  RunsHaveWritten'
<1>1. ExtractsTyped
  BY TypeParts DEF TypeInv
<1>a. extract[e] \in ExtractRun
  BY <1>1 DEF ExtractsTyped
<1>2. /\ extract'[e].pc = "manifest" => "doc" \in extract'[e].wrote
      /\ extract'[e].pc \in {"count", "insert", "commit", "record", "done"} =>
            extract'[e].wrote = Parts
  <2>1. ASSUME NEW s \in Sources, NEW h \in Hashes, ExtractStart(e, s, h)
        PROVE  <1>2!1 /\ <1>2!2
    BY <1>1, <2>1 DEF ExtractStart, ExtractsTyped, NewExtract
  <2>2. ASSUME ExtractPut(e, "doc", "manifest") \/ ExtractPut(e, "manifest", "count")
        PROVE  <1>2!1 /\ <1>2!2
    BY <1>1, <1>a, <2>2 DEF ExtractPut, ExtractsTyped, ExtractRun, Parts, RunsHaveWritten
  <2>3. ASSUME ExtractCleanup(e) \/ ExtractCrash(e)
        PROVE  <1>2!1 /\ <1>2!2
    BY <1>1, <2>3 DEF ExtractCleanup, ExtractCrash, ExtractsTyped, ExtractRun
  <2>4. ASSUME InsertStep(e) \/ ExtractRecord(e)
        PROVE  <1>2!1 /\ <1>2!2
    BY <1>1, <2>4
    DEF InsertStep, ExtractCount, ExtractInsert, ExtractCommit, ExtractRecord, ExtractsTyped,
        ExtractRun, RunsHaveWritten
  <2>. QED  BY <2>1, <2>2, <2>3, <2>4 DEF ExtractNext
<1>. QED  BY <1>2, ExtractFrame DEF RunsHaveWritten

LEMMA ExtractVariantsWritten ==
    ASSUME TypeInv, RunsHaveWritten, VariantsAreWritten, NEW e \in Extracts,
           ExtractNext(e) \/ ExtractRecord(e)
    PROVE  VariantsAreWritten'
<1>1. ExtractsTyped /\ VariantsTyped
  BY TypeParts DEF TypeInv
<1>2. \A v \in variants : v.run \in Extracts
  BY <1>1 DEF VariantsTyped, VariantRow
<1>3. ASSUME NEW v \in variants
      PROVE  /\ extract'[v.run].pc \in {"record", "done", "failed"}
             /\ extract'[v.run].source = v.source
             /\ extract'[v.run].wrote = Parts
  <2>1. CASE v.run # e
    BY <1>2, <2>1, ExtractFrame DEF VariantsAreWritten
  <2>2. CASE v.run = e
    <3>1. extract[e].pc = "record"
      BY <2>2, ExtractFrame DEF VariantsAreWritten
    <3>2. ExtractRecord(e) \/ ExtractCrash(e)
      BY <3>1 DEF ExtractNext, ExtractStart, ExtractPut, ExtractCleanup, InsertStep,
                  ExtractCount, ExtractInsert, ExtractCommit
    <3>. QED
      BY <1>1, <2>2, <3>2
      DEF VariantsAreWritten, ExtractRecord, ExtractCrash, ExtractsTyped, ExtractRun
  <2>. QED  BY <2>1, <2>2
<1>4. ASSUME NEW v \in variants', v \notin variants
      PROVE  /\ extract'[v.run].pc \in {"record", "done", "failed"}
             /\ extract'[v.run].source = v.source
             /\ extract'[v.run].wrote = Parts
  <2>1. ExtractCommit(e) /\ v = RowOf(e)
    BY <1>4
    DEF ExtractNext, ExtractStart, ExtractPut, ExtractCleanup, InsertStep, ExtractCount,
        ExtractInsert, ExtractCommit, ExtractCrash, ExtractRecord, variantVars
  <2>2. extract[e].wrote = Parts
    BY <2>1 DEF ExtractCommit, RunsHaveWritten
  <2>. QED  BY <1>1, <2>1, <2>2 DEF ExtractCommit, RowOf, ExtractsTyped, ExtractRun
<1>. QED  BY <1>3, <1>4 DEF VariantsAreWritten

LEMMA ExtractWroteOrLost ==
    ASSUME TypeInv, WroteOrLost, NEW e \in Extracts, ExtractNext(e) \/ ExtractRecord(e)
    PROVE  WroteOrLost'
<1>1. ExtractsTyped /\ ObjectsTyped /\ RunTyped
  BY TypeParts DEF TypeInv
<1>a. extract[e] \in ExtractRun
  BY <1>1 DEF ExtractsTyped
<1>2. SUFFICES ASSUME NEW f \in Extracts, NEW part \in extract'[f].wrote,
                      object'[extract'[f].source][part] = Null
               PROVE  Lost(extract[f].source, part)'
  BY DEF WroteOrLost
<1>3. ASSUME object' = object,
             \/ extract'[e].wrote = {}
             \/ extract[e].pc # "new" /\ extract'[e].wrote = extract[e].wrote
      PROVE  Lost(extract[f].source, part)'
  BY <1>2, <1>3, ExtractFrame, LostStays DEF WroteOrLost
<1>4. ASSUME NEW s \in Sources, NEW h \in Hashes, ExtractStart(e, s, h)
      PROVE  Lost(extract[f].source, part)'
  <2>1. object' = object /\ extract'[e].wrote = {}
    BY <1>1, <1>4 DEF ExtractStart, ExtractsTyped, NewExtract
  <2>. QED  BY <1>3, <2>1
<1>5. ASSUME NEW put \in Parts, NEW next, ExtractPut(e, put, next)
      PROVE  Lost(extract[f].source, part)'
  <2>1. /\ extract[e].pc # "new"
        /\ extract[e].source \in Sources
        /\ extract'[e].source = extract[e].source
    BY <1>1, <1>5, <1>a DEF ExtractPut, Parts, RunTyped, ExtractsTyped, ExtractRun
  <2>2. CASE /\ object' = object
             /\ extract'[e].wrote = extract[e].wrote
    BY <1>3, <2>1, <2>2
  <2>3. CASE /\ object' = [object EXCEPT ![extract[e].source][put] = e]
             /\ extract'[e].wrote \subseteq extract[e].wrote \cup {put}
    <3>1. object'[extract[e].source][put] = e /\ e # Null
      BY <1>1, <2>1, <2>3, NullIsNoActor DEF ObjectsTyped
    <3>2. /\ extract'[f].source = extract[f].source
          /\ part \in extract[f].wrote
      BY <1>2, <2>1, <2>3, <3>1, ExtractFrame
    <3>3. object[extract[f].source][part] = Null
      BY <1>1, <1>2, <2>1, <2>3, <3>1, <3>2, NullIsNoActor DEF ObjectsTyped
    <3>. QED  BY <3>2, <3>3, LostStays DEF WroteOrLost
  <2>. QED
    BY <1>1, <1>5, <1>a, <2>1, <2>2, <2>3
    DEF ExtractPut, ExtractsTyped, ExtractRun, CallOutcomes, Executed, Raises
<1>6. ASSUME ExtractCleanup(e)
      PROVE  Lost(extract[f].source, part)'
  <2>1. /\ extract[e].pc # "new"
        /\ extract'[e].pc = "failed"
        /\ extract'[e].source = extract[e].source
        /\ extract'[e].wrote = extract[e].wrote
    BY <1>1, <1>6 DEF ExtractCleanup, ExtractsTyped, ExtractRun
  <2>2. extract'[f].source = extract[f].source /\ part \in extract[f].wrote
    BY <1>2, <2>1, ExtractFrame
  <2>3. CASE object[extract[f].source][part] = Null
    BY <2>2, <2>3, LostStays DEF WroteOrLost
  <2>4. CASE object[extract[f].source][part] # Null
    <3>1. extract[f].source = extract[e].source /\ part \in extract[e].wrote
      <4>1. PICK gone \in SUBSET extract[e].wrote :
               object' = [object EXCEPT ![extract[e].source] =
                            [q \in Parts |-> IF q \in gone THEN Null ELSE @[q]]]
        BY <1>6 DEF ExtractCleanup
      <4>2. part \in Parts /\ extract[f].source \in Sources \cup {Null}
        BY <1>1, <2>2 DEF ExtractsTyped, ExtractRun
      <4>3. extract[e].source \in Sources
        BY <1>1, <2>1 DEF RunTyped
      <4>. QED  BY <1>1, <1>2, <2>2, <2>4, <4>1, <4>2, <4>3 DEF ObjectsTyped
    <3>. QED  BY <2>1, <2>2, <3>1 DEF Lost
  <2>. QED  BY <2>3, <2>4
<1>7. ASSUME InsertStep(e) \/ ExtractCrash(e) \/ ExtractRecord(e)
      PROVE  Lost(extract[f].source, part)'
  <2>1. /\ object' = object
        /\ extract[e].pc # "new"
        /\ extract'[e].wrote = extract[e].wrote
    BY <1>1, <1>7
    DEF InsertStep, ExtractCount, ExtractInsert, ExtractCommit, ExtractCrash, ExtractRecord,
        ExtractsTyped, ExtractRun
  <2>. QED  BY <1>3, <2>1
<1>. QED  BY <1>4, <1>5, <1>6, <1>7 DEF ExtractNext, Parts

LEMMA NextWrittenInv == TypeInv /\ WrittenInv /\ [Next]_vars => WrittenInv'
<1>. SUFFICES ASSUME TypeInv, WrittenInv, [Next]_vars
              PROVE  WrittenInv'
  OBVIOUS
<1>1. ASSUME UNCHANGED <<extract, object, variants>>
      PROVE  WrittenInv'
  BY <1>1 DEF WrittenInv, RunsHaveWritten, VariantsAreWritten, WroteOrLost, Lost
<1>2. ASSUME NEW s \in Sources, UploadNext(s)
      PROVE  WrittenInv'
  BY <1>1, <1>2
  DEF UploadNext, UploadStart, UploadPut, UploadCommit, UploadRegister, UploadReport,
      UploadCrash, variantVars
<1>3. ASSUME NEW p \in Picks, PickNext(p)
      PROVE  WrittenInv'
  BY <1>1, <1>3
  DEF PickNext, PickStep, PickSelect, PickSnapshot, PickClear, PickSet, PickCommit,
      PickCrash, variantVars
<1>4. ASSUME NEW e \in Extracts, ExtractNext(e) \/ ExtractRecord(e)
      PROVE  WrittenInv'
  BY <1>4, ExtractRunsWritten, ExtractVariantsWritten, ExtractWroteOrLost DEF WrittenInv
<1>. QED  BY <1>1, <1>2, <1>3, <1>4 DEF Next, vars, variantVars

\* DoclingDocIOManager: the objects of a source are shared by its runs, so a variant can
\* lose one, but only to the cleanup of a failed run that had written it too.
THEOREM OnlyCleanupLoses == Spec => []LostOnlyToCleanup
<1>1. TypeInv /\ WrittenInv => LostOnlyToCleanup
  <2>. SUFFICES ASSUME TypeInv, WrittenInv, NEW v \in variants, NEW part \in Parts,
                       object[v.source][part] = Null
                PROVE  Lost(v.source, part)
    BY DEF LostOnlyToCleanup, Lost
  <2>1. v.run \in Extracts
    BY TypeParts DEF TypeInv, VariantsTyped, VariantRow
  <2>2. extract[v.run].source = v.source /\ part \in extract[v.run].wrote
    BY DEF WrittenInv, VariantsAreWritten
  <2>. QED  BY <2>1, <2>2 DEF WrittenInv, WroteOrLost
<1>. QED  BY <1>1, InitWrittenInv, NextWrittenInv, TypeInvariant, PTL DEF Spec
-----------------------------------------------------------------------------
(* The canonical variant.                                                  *)

LEMMA InitTransInv == Init => TransInv
BY DEF Init, TransInv, OneCanonical, IdsComeWithRows, CountIsNoLead, FirstIsAlone,
       PicksHaveTargets, OneChanges, ChangesAreCurrent, VariantsOf, Inserted, Changed,
       NewExtract, NewPick

\* No variant, no canonical id: each of them shows the other.
LEMMA CanonicalOrNone ==
    ASSUME OneCanonical, NEW s \in Sources
    PROVE  VariantsOf(s) = {} <=> canonical[s] = {}
BY DEF OneCanonical

\* A step of a run that leaves it without a row to commit.
LEMMA ExtractQuiet ==
    ASSUME TransInv, NEW e \in Extracts, UNCHANGED <<variantVars, pick>>,
           \A f \in Extracts \ {e} : extract'[f] = extract[f],
           extract'[e].id # 0 => extract'[e].pc \in {"record", "done", "failed"},
           extract'[e].pc \in {"insert", "commit"} /\ ~extract'[e].flag =>
              VariantsOf(extract'[e].source) # {}
    PROVE  TransInv'
<1>1. \A f \in Extracts, s \in Sources : Inserted(f, s)' => Inserted(f, s) /\ f # e
  BY DEF Inserted
<1>2. OneCanonical' /\ PicksHaveTargets' /\ OneChanges' /\ ChangesAreCurrent'
  BY DEF TransInv, OneCanonical, PicksHaveTargets, OneChanges, ChangesAreCurrent, VariantsOf,
         Changed, variantVars
<1>3. FirstIsAlone'
  BY <1>1 DEF TransInv, FirstIsAlone, variantVars
<1>4. IdsComeWithRows' /\ CountIsNoLead'
  BY DEF TransInv, IdsComeWithRows, CountIsNoLead, VariantsOf, variantVars
<1>. QED  BY <1>2, <1>3, <1>4 DEF TransInv

LEMMA InsertTrans ==
    ASSUME TypeInv, TransInv, NEW e \in Extracts, ExtractInsert(e)
    PROVE  TransInv'
<1>1. ExtractsTyped /\ RunTyped /\ VariantsTyped
  BY TypeParts DEF TypeInv
<1>a. extract[e] \in ExtractRun /\ extract[e].source \in Sources
  BY <1>1 DEF ExtractsTyped, RunTyped, ExtractInsert
<1>2. /\ extract[e].pc = "insert" /\ extract[e].id = 0 /\ ~InsertWaits(e)
      /\ UNCHANGED <<variantVars, pick>>
      /\ \A f \in Extracts \ {e} : extract'[f] = extract[f]
  BY <1>1, <1>a DEF ExtractInsert, ExtractsTyped, TransInv, IdsComeWithRows, ExtractRun
<1>3. CASE extract'[e].id = 0 /\ extract'[e].source = extract[e].source
           /\ extract'[e].flag = extract[e].flag
  BY <1>2, <1>3, ExtractQuiet DEF TransInv, CountIsNoLead
<1>4. CASE /\ ~Known(e) /\ (extract[e].flag => canonical[extract[e].source] = {})
           /\ extract' = [extract EXCEPT ![e].pc = "commit", ![e].id = lastId + 1]
  <2>1. /\ extract'[e].pc = "commit" /\ extract'[e].source = extract[e].source
        /\ extract'[e].flag = extract[e].flag
    BY <1>1, <1>4 DEF ExtractsTyped, ExtractRun
  <2>2. OneCanonical' /\ PicksHaveTargets' /\ OneChanges' /\ ChangesAreCurrent'
    BY <1>2 DEF TransInv, OneCanonical, PicksHaveTargets, OneChanges, ChangesAreCurrent,
                VariantsOf, Changed, variantVars
  <2>3. IdsComeWithRows' /\ CountIsNoLead'
    BY <1>2, <2>1 DEF TransInv, IdsComeWithRows, CountIsNoLead, VariantsOf, variantVars
  <2>4. \A f \in Extracts \ {e}, s \in Sources : Inserted(f, s)' <=> Inserted(f, s)
    BY <1>2 DEF Inserted
  <2>5. \A s \in Sources : Inserted(e, s)' => s = extract[e].source
    BY <2>1 DEF Inserted
  <2>6. \A f \in Extracts \ {e} :
           extract[e].flag => ~(Inserted(f, extract[e].source) /\ extract[f].flag)
    BY <1>2, <1>4 DEF InsertWaits
  <2>7. ASSUME NEW f \in Extracts, NEW s \in Sources, Inserted(f, s)', extract'[f].flag
        PROVE  /\ canonical'[s] = {}
               /\ \A g \in Extracts : Inserted(g, s)' /\ extract'[g].flag => g = f
    <3>1. CASE f = e
      BY <1>2, <1>4, <2>1, <2>4, <2>5, <2>6, <2>7, <3>1 DEF variantVars
    <3>2. CASE f # e
      <4>1. Inserted(f, s) /\ extract[f].flag
        BY <1>2, <2>4, <2>7, <3>2
      <4>2. /\ canonical[s] = {}
            /\ \A g \in Extracts : Inserted(g, s) /\ extract[g].flag => g = f
        BY <4>1 DEF TransInv, FirstIsAlone
      <4>. QED  BY <1>2, <2>1, <2>4, <2>5, <2>6, <3>2, <4>1, <4>2 DEF variantVars
    <3>. QED  BY <3>1, <3>2
  <2>8. FirstIsAlone'
    BY <2>7 DEF FirstIsAlone
  <2>. QED  BY <2>2, <2>3, <2>8 DEF TransInv
<1>5. \/ extract' = [extract EXCEPT ![e].pc = "commit"]
      \/ extract' = [extract EXCEPT ![e].pc = "failed"]
      \/ /\ ~Known(e) /\ (extract[e].flag => canonical[extract[e].source] = {})
         /\ extract' = [extract EXCEPT ![e].pc = "commit", ![e].id = lastId + 1]
  BY DEF ExtractInsert
<1>. QED  BY <1>1, <1>2, <1>3, <1>4, <1>5 DEF ExtractsTyped, ExtractRun

LEMMA CommitTrans ==
    ASSUME TypeInv, TransInv, NEW e \in Extracts, ExtractCommit(e)
    PROVE  TransInv'
<1>1. ExtractsTyped /\ RunTyped /\ VariantsTyped
  BY TypeParts DEF TypeInv
<1>a. extract[e] \in ExtractRun /\ extract[e].source \in Sources
  BY <1>1 DEF ExtractsTyped, RunTyped, ExtractCommit
<1>2. /\ extract[e].pc = "commit"
      /\ extract'[e].pc \in {"record", "failed"}
      /\ pick' = pick
      /\ \A f \in Extracts \ {e} : extract'[f] = extract[f]
  BY <1>1, <1>a DEF ExtractCommit, ExtractsTyped, ExtractRun
<1>3. CASE UNCHANGED variantVars
  BY <1>2, <1>3, ExtractQuiet
<1>4. CASE /\ extract[e].id # 0 /\ variants' = variants \cup {RowOf(e)}
           /\ canonical' = IF extract[e].flag
                           THEN [canonical EXCEPT ![extract[e].source] =
                                   @ \cup {extract[e].id}]
                           ELSE canonical
  <2>0. PICK s \in Sources : s = extract[e].source
    BY <1>a
  <2>1. /\ VariantsOf(s)' = VariantsOf(s) \cup {RowOf(e)}
        /\ \A u \in Sources \ {s} :
              VariantsOf(u)' = VariantsOf(u) /\ canonical'[u] = canonical[u]
    BY <1>1, <1>4, <2>0 DEF VariantsOf, RowOf, VariantsTyped
  <2>2. Inserted(e, s)
    BY <1>2, <1>4, <2>0 DEF Inserted
  <2>3. CASE ~extract[e].flag
    <3>1. VariantsOf(s) # {} /\ canonical' = canonical
      BY <1>2, <1>4, <2>0, <2>3 DEF TransInv, CountIsNoLead
    <3>2. OneCanonical'
      BY <1>a, <2>1, <3>1 DEF TransInv, OneCanonical
    <3>3. IdsComeWithRows'
      BY <1>2 DEF TransInv, IdsComeWithRows
    <3>4. CountIsNoLead'
      BY <1>1, <1>2, <2>1 DEF TransInv, CountIsNoLead, RunTyped
    <3>5. FirstIsAlone'
      BY <1>2, <3>1 DEF TransInv, FirstIsAlone, Inserted
    <3>6. PicksHaveTargets'
      BY <1>2, <2>1 DEF TransInv, PicksHaveTargets
    <3>7. OneChanges' /\ ChangesAreCurrent'
      BY <1>2, <3>1 DEF TransInv, OneChanges, Changed, ChangesAreCurrent
    <3>. QED  BY <3>2, <3>3, <3>4, <3>5, <3>6, <3>7 DEF TransInv
  <2>4. CASE extract[e].flag
    <3>1. /\ canonical[s] = {} /\ VariantsOf(s) = {}
          /\ \A f \in Extracts : Inserted(f, s) /\ extract[f].flag => f = e
      BY <1>a, <2>2, <2>4, CanonicalOrNone DEF TransInv, FirstIsAlone
    <3>2. VariantsOf(s)' = {RowOf(e)} /\ canonical'[s] = {extract[e].id}
      BY <1>1, <1>a, <1>4, <2>0, <2>1, <2>4, <3>1 DEF VariantsTyped
    <3>3. \A p \in Picks :
             pick[p].pc \in {"snapshot", "clear", "set", "commit"} => pick[p].source # s
      BY <3>1 DEF TransInv, PicksHaveTargets
    <3>4. OneCanonical'
      <4>1. SUFFICES ASSUME NEW u \in Sources
                     PROVE  /\ VariantsOf(u)' # {} =>
                                  \E v \in VariantsOf(u)' : canonical'[u] = {v.id}
                            /\ VariantsOf(u)' = {} => canonical'[u] = {}
        BY DEF OneCanonical
      <4>2. CASE u = s
        <5>1. RowOf(e).id = extract[e].id
          BY DEF RowOf
        <5>2. VariantsOf(u)' = {RowOf(e)} /\ canonical'[u] = {extract[e].id}
          BY <3>2, <4>2 DEF VariantsOf
        <5>. QED  BY <5>1, <5>2
      <4>3. CASE u # s
        BY <2>1, <4>3 DEF TransInv, OneCanonical
      <4>. QED  BY <4>2, <4>3
    <3>5. IdsComeWithRows'
      BY <1>2 DEF TransInv, IdsComeWithRows
    <3>6. CountIsNoLead'
      BY <1>1, <1>2, <2>1, <3>2 DEF TransInv, CountIsNoLead, RunTyped
    <3>7. FirstIsAlone'
      BY <1>2, <2>1, <3>1 DEF TransInv, FirstIsAlone, Inserted
    <3>8. PicksHaveTargets'
      BY <1>2, <2>1, <3>3 DEF TransInv, PicksHaveTargets
    <3>9. OneChanges'
      BY <1>2 DEF TransInv, OneChanges, Changed
    <3>10. ChangesAreCurrent'
      BY <1>2, <2>1, <3>3 DEF TransInv, PicksHaveTargets, ChangesAreCurrent
    <3>. QED  BY <3>4, <3>5, <3>6, <3>7, <3>8, <3>9, <3>10 DEF TransInv
  <2>. QED  BY <2>3, <2>4
<1>. QED  BY <1>3, <1>4 DEF ExtractCommit

LEMMA ExtractTrans ==
    ASSUME TypeInv, TransInv, NEW e \in Extracts, ExtractNext(e) \/ ExtractRecord(e)
    PROVE  TransInv'
<1>1. ExtractsTyped /\ RunTyped
  BY TypeParts DEF TypeInv
<1>a. extract[e] \in ExtractRun
  BY <1>1 DEF ExtractsTyped
<1>2. \A f \in Extracts \ {e} : extract'[f] = extract[f]
  BY ExtractFrame
<1>3. ASSUME NEW s \in Sources, NEW h \in Hashes, ExtractStart(e, s, h)
      PROVE  TransInv'
  <2>1. /\ UNCHANGED <<variantVars, pick>>
        /\ extract'[e].id = 0 /\ extract'[e].pc \notin {"insert", "commit"}
    BY <1>1, <1>3 DEF ExtractStart, ExtractsTyped, NewExtract
  <2>. QED  BY <1>2, <2>1, ExtractQuiet
<1>4. ASSUME ExtractPut(e, "doc", "manifest") \/ ExtractPut(e, "manifest", "count")
      PROVE  TransInv'
  <2>1. /\ UNCHANGED <<variantVars, pick>>
        /\ extract'[e].id = 0 /\ extract'[e].pc \notin {"insert", "commit"}
    BY <1>1, <1>a, <1>4
    DEF ExtractPut, ExtractsTyped, ExtractRun, TransInv, IdsComeWithRows
  <2>. QED  BY <1>2, <2>1, ExtractQuiet
<1>5. ASSUME ExtractCleanup(e) \/ ExtractCrash(e) \/ ExtractRecord(e)
      PROVE  TransInv'
  <2>1. UNCHANGED <<variantVars, pick>> /\ extract'[e].pc \in {"done", "failed"}
    <3>1. \/ extract' = [extract EXCEPT ![e].pc = "failed"]
          \/ extract' = [extract EXCEPT ![e].pc = "done"]
      BY <1>5 DEF ExtractCleanup, ExtractCrash, ExtractRecord
    <3>2. UNCHANGED <<variantVars, pick>>
      BY <1>5 DEF ExtractCleanup, ExtractCrash, ExtractRecord
    <3>. QED  BY <1>1, <1>a, <3>1, <3>2 DEF ExtractsTyped, ExtractRun
  <2>. QED  BY <1>2, <2>1, ExtractQuiet
<1>6. ASSUME ExtractCount(e)
      PROVE  TransInv'
  <2>1. /\ UNCHANGED <<variantVars, pick>>
        /\ extract'[e].id = 0 /\ extract'[e].pc = "insert"
        /\ extract'[e].flag = (canonical[extract[e].source] = {})
        /\ extract'[e].source = extract[e].source
    BY <1>1, <1>a, <1>6
    DEF ExtractCount, ExtractsTyped, ExtractRun, TransInv, IdsComeWithRows
  <2>2. extract[e].source \in Sources
    BY <1>1, <1>6 DEF ExtractCount, RunTyped
  <2>3. ~extract'[e].flag => VariantsOf(extract'[e].source) # {}
    BY <2>1, <2>2, CanonicalOrNone DEF TransInv
  <2>. QED  BY <1>2, <2>1, <2>3, ExtractQuiet
<1>. QED
  BY <1>3, <1>4, <1>5, <1>6, InsertTrans, CommitTrans DEF ExtractNext, InsertStep

LEMMA PickFrame ==
    ASSUME TypeInv, NEW p \in Picks, PickNext(p)
    PROVE  /\ UNCHANGED <<extract, variants, lastId>>
           /\ \A q \in Picks \ {p} : pick'[q] = pick[q]
<1>1. PicksTyped
  BY TypeParts DEF TypeInv
<1>2. UNCHANGED <<extract, variants, lastId>>
  BY DEF PickNext, PickStep, PickSelect, PickSnapshot, PickClear, PickSet, PickCommit,
         PickCrash, variantVars
<1>3. \A q \in Picks \ {p} : pick'[q] = pick[q]
  BY <1>1 DEF PickNext, PickStep, PickSelect, PickSnapshot, PickClear, PickSet, PickCommit,
              PickCrash, PicksTyped
<1>. QED  BY <1>2, <1>3

\* What a step of a request has to show, when it commits nothing.
LEMMA PickQuiet ==
    ASSUME TransInv, NEW p \in Picks, UNCHANGED <<extract, variantVars>>,
           \A q \in Picks \ {p} : pick'[q] = pick[q],
           pick'[p].pc \in {"snapshot", "clear", "set", "commit"} =>
              /\ pick'[p].source \in Sources
              /\ \E v \in VariantsOf(pick'[p].source) : v.id = pick'[p].target,
           \A s \in Sources, q \in Picks \ {p} : Changed(p, s)' => ~Changed(q, s),
           pick'[p].pc = "set" => pick'[p].cleared \subseteq canonical[pick'[p].source],
           pick'[p].pc = "commit" =>
              canonical[pick'[p].source] \ pick'[p].cleared \subseteq {pick'[p].target}
    PROVE  TransInv'
<1>1. OneCanonical' /\ IdsComeWithRows' /\ CountIsNoLead' /\ FirstIsAlone'
  BY DEF TransInv, OneCanonical, IdsComeWithRows, CountIsNoLead, FirstIsAlone, VariantsOf,
         Inserted, variantVars
<1>2. PicksHaveTargets'
  BY DEF TransInv, PicksHaveTargets, VariantsOf, variantVars
<1>3. \A q \in Picks \ {p}, s \in Sources : Changed(q, s)' <=> Changed(q, s)
  BY DEF Changed
<1>4. OneChanges'
  BY <1>3 DEF TransInv, OneChanges
<1>5. ChangesAreCurrent'
  BY DEF TransInv, ChangesAreCurrent, variantVars
<1>. QED  BY <1>1, <1>2, <1>4, <1>5 DEF TransInv

LEMMA ClearTrans ==
    ASSUME TypeInv, TransInv, NEW p \in Picks, PickClear(p)
    PROVE  TransInv'
<1>1. PicksTyped
  BY TypeParts DEF TypeInv
<1>a. pick[p] \in PickRequest
  BY <1>1 DEF PicksTyped
<1>2. PICK s \in Sources : s = pick[p].source
  BY DEF PickClear, TransInv, PicksHaveTargets
<1>3. /\ UNCHANGED <<extract, variantVars>>
      /\ \A q \in Picks \ {p} : pick'[q] = pick[q]
      /\ pick[p].pc = "clear" /\ ~ClearWaits(p)
      /\ pick'[p].pc = "set" /\ pick'[p].source = s /\ pick'[p].target = pick[p].target
      /\ pick'[p].cleared = pick[p].seen \cap canonical[s]
  BY <1>1, <1>a, <1>2 DEF PickClear, PicksTyped, PickRequest
<1>4. \E v \in VariantsOf(s) : v.id = pick[p].target
  BY <1>2, <1>3 DEF TransInv, PicksHaveTargets
<1>5. PICK v \in VariantsOf(s) : canonical[s] = {v.id}
  BY <1>4 DEF TransInv, OneCanonical
<1>6. ASSUME NEW q \in Picks \ {p}, Changed(q, s), pick'[p].cleared # {}
      PROVE  FALSE
  <2>1. v.id \in pick[p].seen
    BY <1>3, <1>5, <1>6
  <2>2. /\ pick[q].cleared \cap pick[p].seen = {}
        /\ ~(pick[q].pc = "commit" /\ pick[q].target \in pick[p].seen)
    BY <1>2, <1>3, <1>6 DEF ClearWaits
  <2>3. CASE pick[q].pc = "set" /\ pick[q].cleared # {}
    <3>1. pick[q].cleared \subseteq {v.id}
      BY <1>5, <1>6, <2>3 DEF TransInv, ChangesAreCurrent, Changed
    <3>. QED  BY <2>1, <2>2, <2>3, <3>1
  <2>4. CASE pick[q].pc = "commit"
    <3>1. {v.id} \ pick[q].cleared \subseteq {pick[q].target}
      BY <1>5, <1>6, <2>4 DEF TransInv, ChangesAreCurrent, Changed
    <3>. QED  BY <2>1, <2>2, <2>4, <3>1
  <2>. QED  BY <1>6, <2>3, <2>4 DEF Changed
<1>7. \A u \in Sources, q \in Picks \ {p} : Changed(p, u)' => ~Changed(q, u)
  BY <1>3, <1>6 DEF Changed
<1>. QED  BY <1>3, <1>4, <1>7, PickQuiet

LEMMA PickCommitTrans ==
    ASSUME TypeInv, TransInv, NEW p \in Picks, PickCommit(p)
    PROVE  TransInv'
<1>1. PicksTyped /\ VariantsTyped
  BY TypeParts DEF TypeInv
<1>a. pick[p] \in PickRequest
  BY <1>1 DEF PicksTyped
<1>2. PICK s \in Sources : s = pick[p].source
  BY DEF PickCommit, TransInv, PicksHaveTargets
<1>3. /\ UNCHANGED <<extract, variants>>
      /\ \A q \in Picks \ {p} : pick'[q] = pick[q]
      /\ pick[p].pc = "commit" /\ pick'[p].pc \in {"done", "failed"}
  BY <1>1, <1>a DEF PickCommit, PicksTyped, PickRequest
<1>4. PICK v \in VariantsOf(s) : v.id = pick[p].target
  BY <1>2, <1>3 DEF TransInv, PicksHaveTargets
<1>5. Changed(p, s) /\ (\A u \in Sources : ~Changed(p, u)')
  BY <1>2, <1>3 DEF Changed
<1>6. CASE canonical' = canonical
  BY <1>3, <1>5, <1>6, PickQuiet DEF variantVars
<1>7. CASE canonical' = [canonical EXCEPT ![s] = (@ \ pick[p].cleared) \cup {pick[p].target}]
  <2>1. canonical'[s] = {v.id}
    <3>1. canonical[s] \ pick[p].cleared \subseteq {pick[p].target}
      BY <1>2, <1>3 DEF TransInv, ChangesAreCurrent
    <3>. QED  BY <1>1, <1>4, <1>7, <3>1 DEF VariantsTyped
  <2>2. \A u \in Sources \ {s} : canonical'[u] = canonical[u]
    BY <1>1, <1>7 DEF VariantsTyped
  <2>3. OneCanonical'
    BY <1>3, <1>4, <2>1, <2>2 DEF TransInv, OneCanonical, VariantsOf
  <2>4. IdsComeWithRows' /\ CountIsNoLead'
    BY <1>3 DEF TransInv, IdsComeWithRows, CountIsNoLead, VariantsOf
  <2>5. FirstIsAlone'
    <3>1. ASSUME NEW e \in Extracts, Inserted(e, s), extract[e].flag
          PROVE  FALSE
      BY <1>4, <3>1, CanonicalOrNone DEF TransInv, FirstIsAlone
    <3>. QED  BY <1>3, <2>2, <3>1 DEF TransInv, FirstIsAlone, Inserted
  <2>6. PicksHaveTargets'
    BY <1>3 DEF TransInv, PicksHaveTargets, VariantsOf
  <2>7. OneChanges'
    BY <1>3, <1>5 DEF TransInv, OneChanges, Changed
  <2>8. ChangesAreCurrent'
    <3>1. ASSUME NEW q \in Picks \ {p}, pick[q].source = s, pick[q].pc \in {"set", "commit"}
          PROVE  pick[q].pc = "set" /\ pick[q].cleared = {}
      BY <1>5, <3>1 DEF TransInv, OneChanges, Changed
    <3>2. ASSUME NEW q \in Picks \ {p}, pick[q].pc \in {"set", "commit"}, pick[q].source # s
          PROVE  canonical'[pick[q].source] = canonical[pick[q].source]
      BY <2>2, <3>2 DEF TransInv, PicksHaveTargets
    <3>. QED  BY <1>3, <3>1, <3>2 DEF TransInv, ChangesAreCurrent
  <2>. QED  BY <2>3, <2>4, <2>5, <2>6, <2>7, <2>8 DEF TransInv
<1>. QED  BY <1>2, <1>6, <1>7 DEF PickCommit

LEMMA PickTrans ==
    ASSUME TypeInv, TransInv, NEW p \in Picks, PickNext(p)
    PROVE  TransInv'
<1>1. PicksTyped
  BY TypeParts DEF TypeInv
<1>a. pick[p] \in PickRequest
  BY <1>1 DEF PicksTyped
<1>2. \A q \in Picks \ {p} : pick'[q] = pick[q]
  BY PickFrame
<1>3. ASSUME NEW s \in Sources, PickSelect(p, s)
      PROVE  TransInv'
  <2>1. /\ UNCHANGED <<extract, variantVars>>
        /\ \/ pick'[p].pc = "failed"
           \/ /\ pick'[p].pc = "snapshot" /\ pick'[p].source = s
              /\ \E v \in VariantsOf(s) : v.id = pick'[p].target
    BY <1>1, <1>a, <1>3 DEF PickSelect, PicksTyped, PickRequest
  <2>2. \A u \in Sources : ~Changed(p, u)'
    BY <2>1 DEF Changed
  <2>. QED  BY <1>2, <2>1, <2>2, PickQuiet
<1>4. ASSUME PickSnapshot(p)
      PROVE  TransInv'
  <2>1. /\ UNCHANGED <<extract, variantVars>> /\ pick[p].pc = "snapshot"
        /\ pick'[p].pc = "clear" /\ pick'[p].source = pick[p].source
        /\ pick'[p].target = pick[p].target
    BY <1>1, <1>a, <1>4 DEF PickSnapshot, PicksTyped, PickRequest
  <2>2. \A u \in Sources : ~Changed(p, u)'
    BY <2>1 DEF Changed
  <2>3. /\ pick[p].source \in Sources
        /\ \E v \in VariantsOf(pick[p].source) : v.id = pick[p].target
    BY <2>1 DEF TransInv, PicksHaveTargets
  <2>. QED  BY <1>2, <2>1, <2>2, <2>3, PickQuiet
<1>5. ASSUME PickSet(p)
      PROVE  TransInv'
  <2>1. /\ UNCHANGED <<extract, variantVars>> /\ pick[p].pc = "set" /\ ~SetWaits(p)
        /\ \/ pick'[p].pc = "failed"
           \/ /\ pick'[p].pc = "commit"
              /\ canonical[pick[p].source] \ pick[p].cleared \subseteq {pick[p].target}
        /\ pick'[p].source = pick[p].source /\ pick'[p].target = pick[p].target
        /\ pick'[p].cleared = pick[p].cleared
    BY <1>1, <1>a, <1>5 DEF PickSet, PicksTyped, PickRequest
  <2>2. \A u \in Sources, q \in Picks \ {p} : Changed(p, u)' => ~Changed(q, u)
    BY <2>1 DEF Changed, SetWaits
  <2>3. /\ pick[p].source \in Sources
        /\ \E v \in VariantsOf(pick[p].source) : v.id = pick[p].target
    BY <2>1 DEF TransInv, PicksHaveTargets
  <2>. QED  BY <1>2, <2>1, <2>2, <2>3, PickQuiet
<1>6. ASSUME PickCrash(p)
      PROVE  TransInv'
  <2>1. UNCHANGED <<extract, variantVars>> /\ pick'[p].pc = "failed"
    BY <1>1, <1>a, <1>6 DEF PickCrash, PicksTyped, PickRequest
  <2>2. \A u \in Sources : ~Changed(p, u)'
    BY <2>1 DEF Changed
  <2>. QED  BY <1>2, <2>1, <2>2, PickQuiet
<1>. QED
  BY <1>3, <1>4, <1>5, <1>6, ClearTrans, PickCommitTrans DEF PickNext, PickStep

LEMMA NextTransInv == TypeInv /\ TransInv /\ [Next]_vars => TransInv'
<1>. SUFFICES ASSUME TypeInv, TransInv, [Next]_vars
              PROVE  TransInv'
  OBVIOUS
<1>1. ASSUME UNCHANGED <<extract, variantVars, pick>>
      PROVE  TransInv'
  <2>1. OneCanonical' /\ IdsComeWithRows' /\ CountIsNoLead' /\ FirstIsAlone'
    BY <1>1 DEF TransInv, OneCanonical, IdsComeWithRows, CountIsNoLead, FirstIsAlone,
                VariantsOf, Inserted, variantVars
  <2>2. PicksHaveTargets'
    BY <1>1 DEF TransInv, PicksHaveTargets, VariantsOf, variantVars
  <2>3. OneChanges' /\ ChangesAreCurrent'
    BY <1>1 DEF TransInv, OneChanges, ChangesAreCurrent, Changed, variantVars
  <2>. QED  BY <2>1, <2>2, <2>3 DEF TransInv
<1>2. ASSUME NEW s \in Sources, UploadNext(s)
      PROVE  TransInv'
  <2>1. UNCHANGED <<extract, variantVars, pick>>
    BY <1>2
    DEF UploadNext, UploadStart, UploadPut, UploadCommit, UploadRegister, UploadReport,
        UploadCrash
  <2>. QED  BY <1>1, <2>1
<1>. QED  BY <1>1, <1>2, ExtractTrans, PickTrans DEF Next, vars

\* document_variant under READ COMMITTED: a source with variants has exactly one
\* canonical variant, however the transactions of runs and of set_canonical requests
\* interleave, wait for each other and fail.
THEOREM Canonical == Spec => []OneCanonical
<1>1. TransInv => OneCanonical
  BY DEF TransInv
<1>. QED  BY <1>1, InitTransInv, NextTransInv, TypeInvariant, PTL DEF Spec

\* A transaction on the source that only has to send its next statement.
HolderGoesOn(s) ==
    \/ \E e \in Extracts : Inserted(e, s)
    \/ \E p \in Picks : Changed(p, s) /\ (pick[p].pc = "commit" \/ ~SetWaits(p))

\* Whoever waits for a lock, waits for somebody who goes on.
WaitsHaveAnEnd ==
    /\ \A e \in Extracts :
          extract[e].pc = "insert" /\ InsertWaits(e) => HolderGoesOn(extract[e].source)
    /\ \A p \in Picks :
          \/ pick[p].pc = "clear" /\ ClearWaits(p)
          \/ pick[p].pc = "set" /\ SetWaits(p)
          => HolderGoesOn(pick[p].source)

LEMMA ChangedGoesOn ==
    ASSUME TransInv, NEW q \in Picks, NEW s, Changed(q, s)
    PROVE  HolderGoesOn(s)
<1>1. pick[q].source = s /\ pick[q].pc \in {"set", "commit"}
  BY DEF Changed
<1>2. s \in Sources
  BY <1>1 DEF TransInv, PicksHaveTargets
<1>3. CASE pick[q].pc = "set" /\ SetWaits(q)
  <2>1. ~\E o \in Picks \ {q} : Changed(o, s)
    BY <1>2 DEF TransInv, OneChanges
  <2>2. \E e \in Extracts : Inserted(e, s)
    BY <1>1, <1>3, <2>1 DEF SetWaits
  <2>. QED  BY <2>2 DEF HolderGoesOn
<1>. QED  BY <1>1, <1>3 DEF HolderGoesOn

LEMMA LocksEnd == TransInv => WaitsHaveAnEnd
<1>. SUFFICES ASSUME TransInv
              PROVE  WaitsHaveAnEnd
  OBVIOUS
<1>1. ASSUME NEW e \in Extracts, InsertWaits(e)
      PROVE  HolderGoesOn(extract[e].source)
  <2>1. \/ \E f \in Extracts : Inserted(f, extract[e].source)
        \/ \E p \in Picks : Changed(p, extract[e].source)
    BY <1>1 DEF InsertWaits
  <2>. QED  BY <2>1, ChangedGoesOn DEF HolderGoesOn
<1>2. ASSUME NEW p \in Picks, ClearWaits(p) \/ SetWaits(p)
      PROVE  HolderGoesOn(pick[p].source)
  <2>1. \/ \E f \in Extracts : Inserted(f, pick[p].source)
        \/ \E q \in Picks : Changed(q, pick[p].source)
    BY <1>2 DEF ClearWaits, SetWaits
  <2>. QED  BY <2>1, ChangedGoesOn DEF HolderGoesOn
<1>. QED  BY <1>1, <1>2 DEF WaitsHaveAnEnd

\* The safety half of TransactionsEnd, for any number of runs and requests: lock waits
\* form no cycle.  A transaction on document_variant that waits has before it one on the
\* same source that waits for nobody (insert_document_variant, set_canonical).
THEOREM NoWaitCycle == Spec => []WaitsHaveAnEnd
BY LocksEnd, InitTransInv, NextTransInv, TypeInvariant, PTL DEF Spec
-----------------------------------------------------------------------------
(* Ids, and the variants as their readers see them.                        *)

LEMMA InitIdInv == Init => IdInv
BY DEF Init, IdInv, IdsAreUsed, IdsAreDistinct, NewExtract

\* A step of a run that neither inserts nor commits a row.
LEMMA IdQuiet ==
    ASSUME IdInv, NEW e \in Extracts, UNCHANGED <<variants, lastId>>,
           \A f \in Extracts \ {e} : extract'[f] = extract[f],
           extract'[e].id \in {0, extract[e].id},
           extract'[e].pc = "commit" /\ extract'[e].id # 0 => extract[e].pc = "commit",
           lastId \in Nat
    PROVE  IdInv'
<1>1. IdsAreUsed'
  BY DEF IdInv, IdsAreUsed
<1>2. IdsAreDistinct'
  BY DEF IdInv, IdsAreDistinct
<1>. QED  BY <1>1, <1>2 DEF IdInv

LEMMA InsertIds ==
    ASSUME TypeInv, TransInv, IdInv, NEW e \in Extracts, ExtractInsert(e)
    PROVE  IdInv'
<1>1. ExtractsTyped /\ VariantsTyped
  BY TypeParts DEF TypeInv
<1>a. extract[e] \in ExtractRun
  BY <1>1 DEF ExtractsTyped
<1>2. /\ extract[e].id = 0 /\ variants' = variants /\ lastId \in Nat
      /\ \A f \in Extracts \ {e} : extract'[f] = extract[f]
  BY <1>1, <1>a
  DEF ExtractInsert, ExtractsTyped, TransInv, IdsComeWithRows, variantVars, VariantsTyped
<1>3. CASE lastId' = lastId /\ extract'[e].id = 0
  BY <1>2, <1>3, IdQuiet
<1>4. CASE lastId' = lastId + 1 /\ extract'[e].id = lastId + 1
  <2>1. IdsAreUsed'
    BY <1>2, <1>4 DEF IdInv, IdsAreUsed
  <2>2. \A v \in variants : v.id # lastId + 1
    BY <1>2 DEF IdInv, IdsAreUsed
  <2>3. \A f \in Extracts : extract[f].id # lastId + 1
    BY <1>2 DEF IdInv, IdsAreUsed
  <2>4. IdsAreDistinct'
    BY <1>2, <1>4, <2>2, <2>3 DEF IdInv, IdsAreDistinct
  <2>. QED  BY <2>1, <2>4 DEF IdInv
<1>. QED  BY <1>1, <1>a, <1>2, <1>3, <1>4 DEF ExtractInsert, ExtractsTyped, ExtractRun

LEMMA CommitIds ==
    ASSUME TypeInv, IdInv, NEW e \in Extracts, ExtractCommit(e)
    PROVE  IdInv'
<1>1. ExtractsTyped /\ VariantsTyped
  BY TypeParts DEF TypeInv
<1>a. extract[e] \in ExtractRun
  BY <1>1 DEF ExtractsTyped
<1>2. /\ extract[e].pc = "commit" /\ lastId' = lastId /\ lastId \in Nat
      /\ \A f \in Extracts \ {e} : extract'[f] = extract[f]
      /\ extract'[e].pc # "commit" /\ extract'[e].id = extract[e].id
  BY <1>1, <1>a DEF ExtractCommit, ExtractsTyped, ExtractRun, VariantsTyped
<1>3. CASE variants' = variants
  BY <1>2, <1>3, IdQuiet
<1>4. CASE extract[e].id # 0 /\ variants' = variants \cup {RowOf(e)}
  <2>1. RowOf(e).id = extract[e].id /\ extract[e].id \in 1..lastId
    BY <1>2, <1>4 DEF RowOf, IdInv, IdsAreUsed
  <2>2. IdsAreUsed'
    BY <1>2, <1>4, <2>1 DEF IdInv, IdsAreUsed
  <2>3. \A v, w \in variants' : v.id = w.id => v = w
    BY <1>2, <1>4, <2>1 DEF IdInv, IdsAreDistinct
  <2>4. \A f \in Extracts, v \in variants' :
           extract'[f].pc = "commit" /\ extract'[f].id # 0 => v.id # extract'[f].id
    BY <1>2, <1>4, <2>1 DEF IdInv, IdsAreDistinct
  <2>5. IdsAreDistinct'
    BY <1>2, <2>3, <2>4 DEF IdInv, IdsAreDistinct
  <2>. QED  BY <2>2, <2>5 DEF IdInv
<1>. QED  BY <1>3, <1>4 DEF ExtractCommit, variantVars

LEMMA ExtractIds ==
    ASSUME TypeInv, TransInv, IdInv, NEW e \in Extracts, ExtractNext(e) \/ ExtractRecord(e)
    PROVE  IdInv'
<1>1. ExtractsTyped /\ VariantsTyped
  BY TypeParts DEF TypeInv
<1>a. extract[e] \in ExtractRun
  BY <1>1 DEF ExtractsTyped
<1>2. lastId \in Nat /\ \A f \in Extracts \ {e} : extract'[f] = extract[f]
  BY <1>1, ExtractFrame DEF VariantsTyped
<1>3. ASSUME NEW s \in Sources, NEW h \in Hashes, ExtractStart(e, s, h)
      PROVE  IdInv'
  <2>1. UNCHANGED <<variants, lastId>> /\ extract'[e].id = 0
    BY <1>1, <1>3 DEF ExtractStart, ExtractsTyped, NewExtract, variantVars
  <2>. QED  BY <1>2, <2>1, IdQuiet
<1>4. ASSUME ExtractPut(e, "doc", "manifest") \/ ExtractPut(e, "manifest", "count")
      PROVE  IdInv'
  <2>1. /\ UNCHANGED <<variants, lastId>>
        /\ extract'[e].id = extract[e].id /\ extract'[e].pc # "commit"
    BY <1>1, <1>a, <1>4 DEF ExtractPut, ExtractsTyped, ExtractRun, variantVars
  <2>. QED  BY <1>2, <2>1, IdQuiet
<1>5. ASSUME ExtractCleanup(e) \/ ExtractCrash(e) \/ ExtractRecord(e) \/ ExtractCount(e)
      PROVE  IdInv'
  <2>1. UNCHANGED <<variants, lastId>>
    BY <1>5 DEF ExtractCleanup, ExtractCrash, ExtractRecord, ExtractCount, variantVars
  <2>2. extract'[e].id = extract[e].id /\ extract'[e].pc # "commit"
    BY <1>1, <1>a, <1>5
    DEF ExtractCleanup, ExtractCrash, ExtractRecord, ExtractCount, ExtractsTyped, ExtractRun
  <2>. QED  BY <1>2, <2>1, <2>2, IdQuiet
<1>. QED  BY <1>3, <1>4, <1>5, InsertIds, CommitIds DEF ExtractNext, InsertStep

LEMMA NextIdInv == TypeInv /\ TransInv /\ IdInv /\ [Next]_vars => IdInv'
<1>. SUFFICES ASSUME TypeInv, TransInv, IdInv, [Next]_vars
              PROVE  IdInv'
  OBVIOUS
<1>1. ASSUME UNCHANGED <<extract, variants, lastId>>
      PROVE  IdInv'
  BY <1>1 DEF IdInv, IdsAreUsed, IdsAreDistinct
<1>2. ASSUME NEW s \in Sources, UploadNext(s)
      PROVE  UNCHANGED <<extract, variants, lastId>>
  BY <1>2
  DEF UploadNext, UploadStart, UploadPut, UploadCommit, UploadRegister, UploadReport,
      UploadCrash, variantVars
<1>. QED  BY <1>1, <1>2, ExtractIds, PickFrame DEF Next, vars, variantVars

KnownRuns == [s \in Sources |-> {v.run : v \in VariantsOf(s)}]

ChosenRun(s) ==
    IF canonical[s] = {} THEN Null ELSE (CHOOSE v \in variants : v.id \in canonical[s]).run

\* The canonical id names one row, so CHOOSE has no choice.
LEMMA ChosenIs ==
    ASSUME IdInv, NEW s, NEW v \in variants, canonical[s] = {v.id}
    PROVE  ChosenRun(s) = v.run
<1>1. (CHOOSE w \in variants : w.id \in canonical[s]) = v
  <2>1. \A w \in variants : w.id \in canonical[s] <=> w = v
    BY DEF IdInv, IdsAreDistinct
  <2>. QED  BY <2>1
<1>. QED  BY <1>1 DEF ChosenRun

LEMMA ChosenIsNext ==
    ASSUME IdInv', NEW s, NEW v \in variants', canonical'[s] = {v.id}
    PROVE  ChosenRun(s)' = v.run
<1>1. (CHOOSE w \in variants' : w.id \in canonical'[s]) = v
  <2>1. \A w \in variants' : w.id \in canonical'[s] <=> w = v
    BY DEF IdInv, IdsAreDistinct
  <2>. QED  BY <2>1
<1>. QED  BY <1>1 DEF ChosenRun

\* A source whose canonical id stays keeps its choice: variants are only added.
LEMMA ChoiceStays ==
    ASSUME TransInv, IdInv, IdInv', NEW s \in Sources, canonical'[s] = canonical[s],
           variants \subseteq variants'
    PROVE  ChosenRun(s)' = ChosenRun(s)
<1>1. CASE canonical[s] = {}
  BY <1>1 DEF ChosenRun
<1>2. CASE canonical[s] # {}
  <2>1. PICK v \in VariantsOf(s) : canonical[s] = {v.id}
    BY <1>2, CanonicalOrNone DEF TransInv, OneCanonical
  <2>2. v \in variants /\ v \in variants'
    BY DEF VariantsOf
  <2>. QED  BY <2>1, <2>2, ChosenIs, ChosenIsNext
<1>. QED  BY <1>1, <1>2

LEMMA AddsVariant ==
    ASSUME TypeInv, WrittenInv, TransInv, IdInv, IdInv', NEW e \in Extracts,
           ExtractCommit(e)
    PROVE  [Choice!Next]_<<KnownRuns, [s \in Sources |-> ChosenRun(s)]>>
<1>1. ExtractsTyped /\ RunTyped /\ VariantsTyped
  BY TypeParts DEF TypeInv
<1>2. PICK s \in Sources : s = extract[e].source
  BY <1>1 DEF RunTyped, ExtractCommit
<1>3. CASE UNCHANGED variantVars
  BY <1>3 DEF KnownRuns, ChosenRun, VariantsOf, variantVars
<1>4. CASE /\ extract[e].id # 0 /\ variants' = variants \cup {RowOf(e)}
           /\ canonical' = IF extract[e].flag
                           THEN [canonical EXCEPT ![s] = @ \cup {extract[e].id}]
                           ELSE canonical
  <2>1. extract[e].pc = "commit" /\ Inserted(e, s)
    BY <1>2, <1>4 DEF ExtractCommit, Inserted
  <2>2. RowOf(e).run = e /\ RowOf(e).source = s /\ RowOf(e).id = extract[e].id
    BY <1>2 DEF RowOf
  <2>3. VariantsOf(s)' = VariantsOf(s) \cup {RowOf(e)}
    BY <1>4, <2>2 DEF VariantsOf
  <2>4. \A u \in Sources \ {s} : VariantsOf(u)' = VariantsOf(u)
    BY <1>4, <2>2 DEF VariantsOf
  <2>5. e \notin KnownRuns[s]
    BY <2>1 DEF KnownRuns, VariantsOf, WrittenInv, VariantsAreWritten
  <2>6. KnownRuns' = [KnownRuns EXCEPT ![s] = @ \cup {e}]
    <3>1. \A u \in Sources : {v.run : v \in VariantsOf(u)'} =
             IF u = s THEN {v.run : v \in VariantsOf(u)} \cup {e}
                      ELSE {v.run : v \in VariantsOf(u)}
      <4>1. {v.run : v \in VariantsOf(s)'} = {v.run : v \in VariantsOf(s)} \cup {e}
        BY <2>2, <2>3
      <4>. QED  BY <2>4, <4>1
    <3>. QED  BY <3>1 DEF KnownRuns
  <2>7. KnownRuns[s] = {} <=> VariantsOf(s) = {}
    BY DEF KnownRuns
  <2>8. CASE extract[e].flag
    <3>1. canonical[s] = {} /\ VariantsOf(s) = {}
      BY <2>1, <2>8, CanonicalOrNone DEF TransInv, FirstIsAlone
    <3>2. canonical'[s] = {extract[e].id}
      BY <1>1, <1>4, <2>8, <3>1 DEF VariantsTyped
    <3>3. ChosenRun(s)' = e
      BY <1>4, <2>2, <3>2, ChosenIsNext
    <3>4. \A u \in Sources \ {s} : canonical'[u] = canonical[u]
      BY <1>1, <1>4, <2>8 DEF VariantsTyped
    <3>5. \A u \in Sources \ {s} : ChosenRun(u)' = ChosenRun(u)
      BY <1>4, <3>4, ChoiceStays
    <3>6. [u \in Sources |-> ChosenRun(u)]' =
             [[u \in Sources |-> ChosenRun(u)] EXCEPT ![s] = e]
      BY <3>3, <3>5
    <3>7. Choice!Add(s, e)
      BY <2>5, <2>6, <2>7, <3>1, <3>6 DEF Choice!Add, KnownRuns, ChosenRun
    <3>. QED  BY <3>7 DEF Choice!Next
  <2>9. CASE ~extract[e].flag
    <3>1. VariantsOf(s) # {} /\ canonical' = canonical
      BY <1>2, <1>4, <2>1, <2>9 DEF TransInv, CountIsNoLead
    <3>2. \A u \in Sources : ChosenRun(u)' = ChosenRun(u)
      BY <1>4, <3>1, ChoiceStays
    <3>3. [u \in Sources |-> ChosenRun(u)]' = [u \in Sources |-> ChosenRun(u)]
      BY <3>2
    <3>4. [u \in Sources |-> ChosenRun(u)]' =
             [[u \in Sources |-> ChosenRun(u)] EXCEPT ![s] = @]
      BY <3>3
    <3>5. KnownRuns[s] # {}
      BY <2>7, <3>1
    <3>6. [u \in Sources |-> ChosenRun(u)]' =
             [[u \in Sources |-> ChosenRun(u)] EXCEPT ![s] =
                IF KnownRuns[s] = {} THEN e ELSE @]
      BY <3>4, <3>5
    <3>7. Choice!Add(s, e)
      BY <2>5, <2>6, <3>6 DEF Choice!Add, KnownRuns, ChosenRun
    <3>. QED  BY <3>7 DEF Choice!Next
  <2>. QED  BY <2>8, <2>9
<1>. QED  BY <1>2, <1>3, <1>4 DEF ExtractCommit

LEMMA ChoosesVariant ==
    ASSUME TypeInv, TransInv, IdInv, IdInv', NEW p \in Picks, PickCommit(p)
    PROVE  [Choice!Next]_<<KnownRuns, [s \in Sources |-> ChosenRun(s)]>>
<1>1. VariantsTyped
  BY TypeParts DEF TypeInv
<1>2. PICK s \in Sources : s = pick[p].source
  BY DEF PickCommit, TransInv, PicksHaveTargets
<1>3. variants' = variants /\ pick[p].pc = "commit"
  BY DEF PickCommit
<1>4. PICK v \in VariantsOf(s) : v.id = pick[p].target
  BY <1>2, <1>3 DEF TransInv, PicksHaveTargets
<1>5. v \in variants /\ v \in variants' /\ v.run \in Extracts
  BY <1>1, <1>3 DEF VariantsOf, VariantsTyped, VariantRow
<1>6. UNCHANGED KnownRuns
  BY <1>3 DEF KnownRuns, VariantsOf
<1>7. CASE canonical' = canonical
  BY <1>3, <1>6, <1>7 DEF ChosenRun
<1>8. CASE canonical' = [canonical EXCEPT ![s] = (@ \ pick[p].cleared) \cup {pick[p].target}]
  <2>1. canonical'[s] = {v.id}
    <3>1. canonical[s] \ pick[p].cleared \subseteq {pick[p].target}
      BY <1>2, <1>3 DEF TransInv, ChangesAreCurrent
    <3>. QED  BY <1>1, <1>4, <1>8, <3>1 DEF VariantsTyped
  <2>2. \A u \in Sources \ {s} : canonical'[u] = canonical[u]
    BY <1>1, <1>8 DEF VariantsTyped
  <2>3. ChosenRun(s)' = v.run
    BY <1>5, <2>1, ChosenIsNext
  <2>4. \A u \in Sources \ {s} : ChosenRun(u)' = ChosenRun(u)
    BY <1>3, <2>2, ChoiceStays
  <2>5. [u \in Sources |-> ChosenRun(u)]' =
           [[u \in Sources |-> ChosenRun(u)] EXCEPT ![s] = v.run]
    BY <2>3, <2>4
  <2>6. v.run \in KnownRuns[s]
    BY DEF KnownRuns
  <2>7. Choice!Choose(s, v.run)
    BY <1>6, <2>5, <2>6 DEF Choice!Choose, KnownRuns, ChosenRun
  <2>. QED  BY <1>5, <2>7 DEF Choice!Next
<1>. QED  BY <1>2, <1>7, <1>8 DEF PickCommit

LEMMA StepImplements ==
    ASSUME TypeInv, WrittenInv, TransInv, IdInv, IdInv', [Next]_vars
    PROVE  [Choice!Next]_<<KnownRuns, [s \in Sources |-> ChosenRun(s)]>>
<1>1. ASSUME UNCHANGED variantVars
      PROVE  UNCHANGED <<KnownRuns, [s \in Sources |-> ChosenRun(s)]>>
  BY <1>1 DEF KnownRuns, ChosenRun, VariantsOf, variantVars
<1>2. ASSUME NEW s \in Sources, UploadNext(s)
      PROVE  UNCHANGED variantVars
  BY <1>2
  DEF UploadNext, UploadStart, UploadPut, UploadCommit, UploadRegister, UploadReport,
      UploadCrash
<1>3. ASSUME NEW e \in Extracts, ExtractNext(e) \/ ExtractRecord(e), ~ExtractCommit(e)
      PROVE  UNCHANGED variantVars
  BY <1>3
  DEF ExtractNext, ExtractRecord, InsertStep, ExtractStart, ExtractPut, ExtractCleanup,
      ExtractCount, ExtractInsert, ExtractCrash
<1>4. ASSUME NEW p \in Picks, PickNext(p), ~PickCommit(p)
      PROVE  UNCHANGED variantVars
  BY <1>4
  DEF PickNext, PickStep, PickSelect, PickSnapshot, PickClear, PickSet, PickCrash
<1>5. CASE UNCHANGED vars
  BY <1>1, <1>5 DEF vars
<1>6. CASE Next
  BY <1>1, <1>2, <1>3, <1>4, <1>6, AddsVariant, ChoosesVariant DEF Next
<1>. QED  BY <1>5, <1>6

\* extract_mineru and set_canonical, statement by statement, failures included: to a
\* reader of document_variant every step adds a variant, chooses one, or shows nothing.
THEOREM Implements == Spec => ImplementsCanonicalChoice
<1>1. Init => Choice!Init
  BY DEF Init, Choice!Init, VariantsOf
<1>2. TypeInv /\ WrittenInv /\ TransInv /\ IdInv /\ IdInv' /\ [Next]_vars =>
         [Choice!Next]_<<[s \in Sources |-> {v.run : v \in VariantsOf(s)}],
                         [s \in Sources |->
                            IF canonical[s] = {} THEN Null
                            ELSE (CHOOSE v \in variants : v.id \in canonical[s]).run]>>
  BY StepImplements DEF KnownRuns, ChosenRun
<1>. QED
  BY <1>1, <1>2, InitWrittenInv, NextWrittenInv, InitTransInv, NextTransInv, InitIdInv,
     NextIdInv, TypeInvariant, PTL
  DEF Spec, ImplementsCanonicalChoice, Choice!Spec, Choice!vars
-----------------------------------------------------------------------------
(* What a reader concludes from the choice alone.                          *)

\* A variant is not taken away, and one that joins others does not become canonical.
ChoiceKept(s) ==
    /\ KnownRuns[s] \subseteq KnownRuns'[s]
    /\ KnownRuns[s] # {} /\ KnownRuns'[s] # KnownRuns[s] => ChosenRun(s)' = ChosenRun(s)
    /\ KnownRuns[s] # {} => ChosenRun(s)' \in KnownRuns[s] \cup {ChosenRun(s)}

LEMMA ChoiceStepKeeps ==
    ASSUME [Choice!Next]_<<KnownRuns, [u \in Sources |-> ChosenRun(u)]>>, NEW s \in Sources
    PROVE  ChoiceKept(s)
<1>. DEFINE chosen == [u \in Sources |-> ChosenRun(u)]
<1>1. /\ chosen[s] = ChosenRun(s) /\ chosen'[s] = ChosenRun(s)'
      /\ DOMAIN KnownRuns = Sources /\ DOMAIN chosen = Sources
  BY DEF KnownRuns
<1>2. CASE UNCHANGED <<KnownRuns, chosen>>
  BY <1>1, <1>2 DEF ChoiceKept
<1>3. ASSUME NEW u \in Sources, NEW v, Choice!Add(u, v)
      PROVE  ChoiceKept(s)
  <2>1. /\ KnownRuns' = [KnownRuns EXCEPT ![u] = @ \cup {v}]
        /\ chosen' = [chosen EXCEPT ![u] = IF KnownRuns[u] = {} THEN v ELSE @]
    BY <1>3 DEF Choice!Add, KnownRuns, ChosenRun
  <2>. HIDE DEF chosen
  <2>2. CASE s = u
    BY <1>1, <2>1, <2>2 DEF ChoiceKept
  <2>3. CASE s # u
    BY <1>1, <2>1, <2>3 DEF ChoiceKept
  <2>. QED  BY <2>2, <2>3
<1>4. ASSUME NEW u \in Sources, NEW v, Choice!Choose(u, v)
      PROVE  ChoiceKept(s)
  <2>1. /\ v \in KnownRuns[u] /\ KnownRuns' = KnownRuns
        /\ chosen' = [chosen EXCEPT ![u] = v]
    BY <1>4 DEF Choice!Choose, KnownRuns, ChosenRun
  <2>. HIDE DEF chosen
  <2>. QED  BY <1>1, <2>1 DEF ChoiceKept
<1>. QED  BY <1>2, <1>3, <1>4 DEF Choice!Next

\* Whatever runs of extract_mineru and set_canonical requests do: a source keeps its
\* variants, a later extraction never changes which one is canonical, and a request
\* only ever chooses a variant that was there before.
THEOREM LaterRunsKeepChoice ==
    Spec => [][\A s \in Sources : ChoiceKept(s)]_vars
<1>1. TypeInv /\ WrittenInv /\ TransInv /\ IdInv /\ IdInv' /\ [Next]_vars =>
         \A s \in Sources : ChoiceKept(s)
  BY StepImplements, ChoiceStepKeeps
<1>. QED
  BY <1>1, InitWrittenInv, NextWrittenInv, InitTransInv, NextTransInv, InitIdInv,
     NextIdInv, TypeInvariant, PTL
  DEF Spec
=============================================================================
