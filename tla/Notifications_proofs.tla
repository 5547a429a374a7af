------------------------- MODULE Notifications_proofs -------------------------
(***************************************************************************)
(* Theorems about Notifications, for any number of runs, users and         *)
(* connections, any size of the queue and any number of crashes.  The      *)
(* steps of Notifications are steps of Documents or leave it alone, so     *)
(* that the theorems of Documents_proofs hold of the whole corpus.         *)
(***************************************************************************)
EXTENDS Notifications, Documents_proofs, SequenceTheorems
-----------------------------------------------------------------------------
(* The invariants.                                                         *)

Entries == [asset : Assets, run : AllRuns, source : Sources]

Events == [entry : Nat, after : Nat, source : Sources,
           type : {"chunks.added", "asset.materialized"}]

Posts == [entry : 1..Len(log), after : 0..crashes]

\* The event is of the same post, or two events are of one post.
Same(event, post) == event.entry = post.entry /\ event.after = post.after

ConnState == [pc : {"new", "open", "closed"}, user : Users \cup {Null}]

NotesTyped ==
    /\ owner \in [AllRuns -> Users \cup {Null}]
    /\ log \in Seq(Entries)
    /\ cursor \in [Assets -> Nat]
    /\ tick \in [Assets -> [entry : Nat, posted : BOOLEAN]]
    /\ inflight \subseteq Posts
    /\ conn \in [Conns -> ConnState]
    /\ subs \in [Users -> [Conns -> Nat]]
    /\ queue \in [Conns -> Seq(Events)]
    /\ sending \in [Conns -> SUBSET Events]
    /\ delivered \in [Conns -> Seq(Events)]
    /\ crashes \in Nat

\* A connection that is open has a user, and one that is new has nothing.
ConnsKnown ==
    \A c \in Conns :
        /\ conn[c].pc = "open" => conn[c].user \in Users
        /\ conn[c].pc = "new" => queue[c] = << >> /\ sending[c] = {} /\ delivered[c] = << >>

\* A run that is about to be recorded has a variant of its source to show for it.
RunsHaveVariants ==
    \A e \in Extracts :
        \/ extract[e].pc = "record"
        \/ extract[e].pc = "commit" /\ extract[e].id = 0
        => VariantsOf(extract[e].source) # {}

LogIsTrue ==
    \A i \in 1..Len(log) : log[i].asset = "extract_mineru" => VariantsOf(log[i].source) # {}

\* The event is that of a post, and the connection's user triggered the run.
Meant(event, c) ==
    /\ \E post \in Posts : event = EventOf(post)
    /\ owner[log[event.entry].run] = conn[c].user
    /\ conn[c].user # Null

ToldAsMeant == \A c \in Conns : \A event \in Told(c) : Meant(event, c)

\* The entry under evaluation is one of the asset, and after the cursor.
TicksAhead ==
    \A a \in Assets :
        /\ tick[a].entry # 0 => /\ tick[a].entry \in 1..Len(log)
                                /\ log[tick[a].entry].asset = a
                                /\ tick[a].entry > cursor[a]
        /\ tick[a].posted => tick[a].entry # 0

\* The sensor has posted the entry.
Posted(i) ==
    LET a == log[i].asset IN i <= cursor[a] \/ (tick[a].entry = i /\ tick[a].posted)

\* An entry that was posted since the last end is not posted again before the next.
Sent(post) == post.after = crashes => Posted(post.entry)

\* The events of two sequences are of different posts.
Apart(s, t) == \A i \in 1..Len(s), j \in 1..Len(t) : ~Same(s[i], t[j])

Distinct(s) == \A i, j \in 1..Len(s) : Same(s[i], s[j]) => i = j

NotIn(event, s) == \A i \in 1..Len(s) : ~Same(s[i], event)

\* An event has one place: in the queue, with the sender or at the client.
OnePlace(c) ==
    /\ Distinct(queue[c]) /\ Distinct(delivered[c]) /\ Apart(queue[c], delivered[c])
    /\ \A event \in sending[c] :
          /\ sending[c] = {event}
          /\ NotIn(event, queue[c]) /\ NotIn(event, delivered[c])

\* What is on its way or told of was posted, and is either with the webhook or told of.
OnceInv ==
    /\ \A post \in inflight : Sent(post)
    /\ \A c \in Conns : \A event \in Told(c) :
          Sent(event) /\ \A post \in inflight : ~Same(event, post)
    /\ \A c \in Conns : OnePlace(c)

NotesInv ==
    /\ NotesTyped /\ ConnsKnown /\ SubscribedWhileOpen
    /\ RunsHaveVariants /\ LogIsTrue /\ ToldAsMeant /\ TicksAhead /\ OnceInv
-----------------------------------------------------------------------------
(* Documents.                                                              *)

LEMMA StepOfDocuments ==
    ASSUME [CorpusNext]_allVars
    PROVE  [Next]_vars
<1>1. CASE UNCHANGED allVars
  BY <1>1 DEF allVars, docVars
<1>2. CASE DocumentStep
  BY <1>2 DEF DocumentStep, Next
<1>3. ASSUME NEW e \in Extracts, Record(e) PROVE Next
  BY <1>3 DEF Record, Next
<1>4. ASSUME NEW r, RecordChunks(r) \/ RowInsert(r) PROVE UNCHANGED vars
  BY <1>4 DEF RecordChunks, RowInsert, docVars
<1>5. ASSUME NEW a, SensorNext(a) PROVE UNCHANGED vars
  BY <1>5 DEF SensorNext, SensorTick, SensorPost, SensorAdvance, SensorCrash, docVars
<1>6. ASSUME NEW post, HookPublish(post) PROVE UNCHANGED vars
  BY <1>6 DEF HookPublish, docVars
<1>7. ASSUME NEW c, NotesNext(c) PROVE UNCHANGED vars
  BY <1>7 DEF NotesNext, NotesConnect, NotesDisconnect, NotesGet, NotesSend, docVars
<1>8. CASE ApiRestart
  BY <1>8 DEF ApiRestart, docVars
<1>. QED  BY <1>1, <1>2, <1>3, <1>4, <1>5, <1>6, <1>7, <1>8 DEF CorpusNext

\* Notifications observes the corpus and never disturbs it.
THEOREM CorpusIsDocuments == CorpusSpec => Spec
<1>1. CorpusInit => Init
  BY DEF CorpusInit
<1>. QED  BY <1>1, StepOfDocuments, PTL DEF CorpusSpec, Spec

\* Rows of document_variant stay, and a run that is about to be recorded has seen
\* or committed one.
LEMMA VariantsStay ==
    ASSUME TypeInv, [Next]_vars
    PROVE  variants \subseteq variants'
<1>1. CASE UNCHANGED vars
  BY <1>1 DEF vars, variantVars
<1>2. ASSUME NEW s \in Sources, UploadNext(s) PROVE variants' = variants
  BY <1>2 DEF UploadNext, UploadStart, UploadPut, UploadCommit, UploadRegister, UploadReport,
              UploadCrash, variantVars
<1>3. ASSUME NEW e \in Extracts, ExtractNext(e) \/ ExtractRecord(e)
      PROVE  variants \subseteq variants'
  BY <1>3 DEF ExtractNext, ExtractRecord, InsertStep, ExtractStart, ExtractPut, ExtractCleanup,
              ExtractCount, ExtractInsert, ExtractCommit, ExtractCrash, variantVars
<1>4. ASSUME NEW p \in Picks, PickNext(p) PROVE variants' = variants
  BY <1>4 DEF PickNext, PickStep, PickSelect, PickSnapshot, PickClear, PickSet, PickCommit,
              PickCrash, variantVars
<1>. QED  BY <1>1, <1>2, <1>3, <1>4 DEF Next

LEMMA RunsGetVariants ==
    ASSUME TypeInv, RunsHaveVariants, [Next]_vars
    PROVE  RunsHaveVariants'
<1>1. variants \subseteq variants' /\ ExtractsTyped /\ VariantsTyped
  BY VariantsStay, TypeParts DEF TypeInv
<1>2. SUFFICES ASSUME NEW e \in Extracts,
                      \/ extract'[e].pc = "record"
                      \/ extract'[e].pc = "commit" /\ extract'[e].id = 0
               PROVE  \E v \in variants' : v.source = extract'[e].source
  BY DEF RunsHaveVariants, VariantsOf
<1>3. extract[e] \in ExtractRun
  BY <1>1 DEF ExtractsTyped
<1>4. ASSUME \/ extract[e].pc = "record"
             \/ extract[e].pc = "commit" /\ extract[e].id = 0
      PROVE  \E v \in variants' : v.source = extract[e].source
  BY <1>1, <1>4 DEF RunsHaveVariants, VariantsOf
<1>5. CASE extract'[e] = extract[e]
  BY <1>2, <1>4, <1>5
<1>6. ASSUME NEW s \in Sources, NEW h \in Hashes, ExtractStart(e, s, h) PROVE FALSE
  BY <1>1, <1>2, <1>6 DEF ExtractStart, ExtractsTyped, NewExtract
<1>7. ASSUME NEW part \in Parts, NEW next \in {"manifest", "count"}, ExtractPut(e, part, next)
      PROVE  FALSE
  BY <1>1, <1>2, <1>3, <1>7 DEF ExtractPut, ExtractsTyped, ExtractRun
<1>8. ASSUME ExtractCleanup(e) \/ ExtractCount(e) \/ ExtractCrash(e) \/ ExtractRecord(e)
      PROVE  FALSE
  BY <1>1, <1>2, <1>3, <1>8
     DEF ExtractCleanup, ExtractCount, ExtractCrash, ExtractRecord, ExtractsTyped, ExtractRun
<1>9. CASE ExtractInsert(e)
  <2>1. CASE Known(e) /\ extract' = [extract EXCEPT ![e].pc = "commit"]
    <3>1. extract'[e].source = extract[e].source
      BY <1>1, <1>3, <2>1 DEF ExtractsTyped, ExtractRun
    <3>2. \E v \in variants : v.source = extract[e].source
      BY <2>1 DEF Known, VariantsOf
    <3>. QED  BY <1>1, <3>1, <3>2
  <2>2. CASE extract' = [extract EXCEPT ![e].pc = "failed"]
    BY <1>1, <1>2, <1>3, <2>2 DEF ExtractsTyped, ExtractRun
  <2>3. CASE extract' = [extract EXCEPT ![e].pc = "commit", ![e].id = lastId + 1]
    <3>1. extract'[e].pc = "commit" /\ extract'[e].id = lastId + 1 /\ lastId \in Nat
      BY <1>1, <1>3, <2>3 DEF ExtractsTyped, ExtractRun, VariantsTyped
    <3>. QED  BY <1>2, <3>1
  <2>. QED  BY <1>9, <2>1, <2>2, <2>3 DEF ExtractInsert
<1>10. CASE ExtractCommit(e)
  <2>1. extract'[e].pc = "record" /\ extract'[e].source = extract[e].source
    BY <1>1, <1>2, <1>3, <1>10 DEF ExtractCommit, ExtractsTyped, ExtractRun
  <2>2. CASE extract[e].id = 0
    BY <1>4, <1>10, <2>1, <2>2 DEF ExtractCommit
  <2>3. CASE extract[e].id # 0
    <3>1. PICK o \in CallOutcomes :
             /\ extract' = [extract EXCEPT ![e].pc = IF Raises(o) THEN "failed" ELSE "record"]
             /\ Executed(o) => variants' = variants \cup {RowOf(e)}
      BY <1>10, <2>3 DEF ExtractCommit
    <3>2. ~Raises(o)
      BY <1>1, <1>3, <2>1, <3>1 DEF ExtractsTyped, ExtractRun
    <3>3. RowOf(e) \in variants'
      BY <3>1, <3>2 DEF Executed, Raises
    <3>4. RowOf(e).source = extract[e].source
      BY DEF RowOf
    <3>. QED  BY <2>1, <3>3, <3>4
  <2>. QED  BY <2>2, <2>3
<1>11. ASSUME NEW f \in Extracts, ExtractNext(f) \/ ExtractRecord(f), f # e
       PROVE  extract'[e] = extract[e]
  BY <1>1, <1>11
  DEF ExtractNext, ExtractStart, ExtractPut, ExtractCleanup, InsertStep, ExtractCount,
      ExtractInsert, ExtractCommit, ExtractCrash, ExtractRecord, ExtractsTyped
<1>12. ASSUME NEW s \in Sources, UploadNext(s) PROVE extract' = extract
  BY <1>12 DEF UploadNext, UploadStart, UploadPut, UploadCommit, UploadRegister, UploadReport,
               UploadCrash
<1>13. ASSUME NEW p \in Picks, PickNext(p) PROVE extract' = extract
  BY <1>13 DEF PickNext, PickStep, PickSelect, PickSnapshot, PickClear, PickSet, PickCommit,
               PickCrash
<1>14. CASE ExtractNext(e) \/ ExtractRecord(e)
  BY <1>6, <1>7, <1>8, <1>9, <1>10, <1>14 DEF ExtractNext, InsertStep, Parts
<1>. QED  BY <1>5, <1>11, <1>12, <1>13, <1>14 DEF Next, vars
-----------------------------------------------------------------------------
(* The log, the rows of runs, and the sensors.                             *)

LogGrows == Len(log') >= Len(log) /\ \A i \in 1..Len(log) : log'[i] = log[i]

OwnersStay == \A r \in AllRuns : owner[r] # Null => owner'[r] = owner[r]

\* The steps by the variables that they leave alone.
LEMMA Frames ==
    ASSUME [CorpusNext]_allVars
    PROVE  /\ \/ log' = log
              \/ \E e \in Extracts : Record(e)
              \/ \E r \in ChunkRuns : RecordChunks(r)
           /\ owner' = owner \/ \E r \in AllRuns : RowInsert(r)
           /\ UNCHANGED <<cursor, tick>> \/ \E a \in Assets : SensorNext(a)
           /\ \/ UNCHANGED inflight
              \/ \E a \in Assets : SensorPost(a)
              \/ \E post \in inflight : HookPublish(post)
              \/ ApiRestart
           /\ \/ UNCHANGED apiVars
              \/ \E post \in inflight : HookPublish(post)
              \/ \E c \in Conns : NotesNext(c)
              \/ ApiRestart
           /\ crashes' = crashes \/ (\E a \in Assets : SensorCrash(a)) \/ ApiRestart
<1>1. CASE UNCHANGED noteVars
  BY <1>1 DEF noteVars, sensorVars
<1>2. ASSUME NEW e \in Extracts, Record(e)
      PROVE  UNCHANGED <<owner, sensorVars, inflight, apiVars, crashes>>
  BY <1>2 DEF Record
<1>3. ASSUME NEW r \in ChunkRuns, RecordChunks(r)
      PROVE  UNCHANGED <<owner, sensorVars, inflight, apiVars, crashes>>
  BY <1>3 DEF RecordChunks
<1>4. ASSUME NEW r \in AllRuns, RowInsert(r)
      PROVE  UNCHANGED <<log, sensorVars, inflight, apiVars, crashes>>
  BY <1>4 DEF RowInsert
<1>5. ASSUME NEW a \in Assets, SensorNext(a)
      PROVE  /\ UNCHANGED <<owner, log, apiVars>>
             /\ UNCHANGED inflight \/ SensorPost(a)
             /\ UNCHANGED crashes \/ SensorCrash(a)
  BY <1>5 DEF SensorNext, SensorTick, SensorPost, SensorAdvance, SensorCrash
<1>6. ASSUME NEW post \in inflight, HookPublish(post)
      PROVE  UNCHANGED <<owner, log, sensorVars, crashes>>
  BY <1>6 DEF HookPublish
<1>7. ASSUME NEW c \in Conns, NotesNext(c)
      PROVE  UNCHANGED <<owner, log, sensorVars, inflight, crashes>>
  BY <1>7 DEF NotesNext, NotesConnect, NotesDisconnect, NotesGet, NotesSend
<1>8. ASSUME ApiRestart PROVE UNCHANGED <<owner, log, sensorVars>>
  BY <1>8 DEF ApiRestart
<1>. QED
  BY <1>1, <1>2, <1>3, <1>4, <1>5, <1>6, <1>7, <1>8 DEF CorpusNext, allVars, noteVars, sensorVars

LEMMA LogSteps ==
    ASSUME TypeInv, NotesTyped, RunsHaveVariants, LogIsTrue, [CorpusNext]_allVars
    PROVE  log' \in Seq(Entries) /\ LogGrows /\ LogIsTrue'
<1>1. log \in Seq(Entries) /\ Len(log) \in Nat
  BY DEF NotesTyped
<1>2. variants \subseteq variants'
  BY StepOfDocuments, VariantsStay
<1>3. CASE log' = log
  <2>1. LogIsTrue'
    BY <1>2, <1>3 DEF LogIsTrue, VariantsOf
  <2>. QED  BY <1>1, <1>3, <2>1 DEF LogGrows
<1>4. ASSUME NEW en \in Entries, log' = Append(log, en),
             en.asset = "extract_mineru" => VariantsOf(en.source) # {}
      PROVE  log' \in Seq(Entries) /\ LogGrows /\ LogIsTrue'
  <2>1. /\ log' \in Seq(Entries) /\ Len(log') = Len(log) + 1 /\ log'[Len(log) + 1] = en
        /\ \A i \in 1..Len(log) : log'[i] = log[i]
    BY <1>1, <1>4
  <2>2. ASSUME NEW i \in 1..Len(log'), log'[i].asset = "extract_mineru"
        PROVE  \E v \in variants' : v.source = log'[i].source
    <3>1. CASE i \in 1..Len(log)
      BY <1>2, <2>1, <2>2, <3>1 DEF LogIsTrue, VariantsOf
    <3>2. CASE i \notin 1..Len(log)
      <4>1. i = Len(log) + 1
        BY <1>1, <2>1, <3>2
      <4>. QED  BY <1>2, <1>4, <2>1, <2>2, <4>1 DEF VariantsOf
    <3>. QED  BY <3>1, <3>2
  <2>3. LogIsTrue'
    BY <2>2 DEF LogIsTrue, VariantsOf
  <2>. QED  BY <1>1, <2>1, <2>3 DEF LogGrows
<1>5. ASSUME NEW e \in Extracts, Record(e)
      PROVE  log' \in Seq(Entries) /\ LogGrows /\ LogIsTrue'
  <2>. DEFINE en == Entry("extract_mineru", e, extract[e].source)
  <2>1. extract[e].pc = "record" /\ log' = Append(log, en)
    BY <1>5 DEF Record, ExtractRecord
  <2>2. extract[e].source \in Sources /\ VariantsOf(extract[e].source) # {}
    BY <2>1 DEF TypeInv, RunTyped, RunsHaveVariants
  <2>3. en \in Entries /\ en.source = extract[e].source
    BY <2>2 DEF Entry, Entries, Assets, AllRuns
  <2>. HIDE DEF en
  <2>. QED  BY <1>4, <2>1, <2>2, <2>3
<1>6. ASSUME NEW r \in ChunkRuns, RecordChunks(r)
      PROVE  log' \in Seq(Entries) /\ LogGrows /\ LogIsTrue'
  <2>1. PICK s \in registered : log' = Append(log, Entry("chunks", r, s))
    BY <1>6 DEF RecordChunks
  <2>2. s \in Sources
    BY TypeParts DEF TypeInv, SourcesTyped
  <2>. DEFINE en == Entry("chunks", r, s)
  <2>3. en \in Entries /\ en.asset = "chunks"
    BY <2>2 DEF Entry, Entries, Assets, AllRuns
  <2>. HIDE DEF en
  <2>. QED  BY <1>4, <2>1, <2>3 DEF en
<1>. QED  BY <1>3, <1>5, <1>6, Frames

LEMMA OwnerSteps ==
    ASSUME NotesTyped, [CorpusNext]_allVars
    PROVE  owner' \in [AllRuns -> Users \cup {Null}] /\ OwnersStay
<1>1. owner \in [AllRuns -> Users \cup {Null}]
  BY DEF NotesTyped
<1>2. ASSUME NEW r \in AllRuns, RowInsert(r)
      PROVE  owner' \in [AllRuns -> Users \cup {Null}] /\ OwnersStay
  BY <1>1, <1>2 DEF RowInsert, OwnersStay
<1>. QED  BY <1>1, <1>2, Frames DEF OwnersStay

\* An entry that is under evaluation comes after the cursor, so that the cursor
\* only moves forward.
LEMMA SensorSteps ==
    ASSUME NotesTyped, TicksAhead, LogGrows, log' \in Seq(Entries), [CorpusNext]_allVars
    PROVE  /\ cursor' \in [Assets -> Nat]
           /\ tick' \in [Assets -> [entry : Nat, posted : BOOLEAN]]
           /\ TicksAhead'
<1>. DEFINE Goal == /\ cursor' \in [Assets -> Nat]
                    /\ tick' \in [Assets -> [entry : Nat, posted : BOOLEAN]]
                    /\ TicksAhead'
<1>1. /\ cursor \in [Assets -> Nat] /\ tick \in [Assets -> [entry : Nat, posted : BOOLEAN]]
      /\ Len(log) \in Nat /\ Len(log') \in Nat
  BY DEF NotesTyped
<1>2. CASE UNCHANGED <<cursor, tick>>
  <2>1. TicksAhead'
    BY <1>1, <1>2 DEF TicksAhead, LogGrows
  <2>. QED  BY <1>1, <1>2, <2>1
<1>3. ASSUME NEW a \in Assets, NEW k \in Nat, NEW t \in [entry : Nat, posted : BOOLEAN],
             log' = log, cursor' = [cursor EXCEPT ![a] = k], tick' = [tick EXCEPT ![a] = t],
             t.entry # 0 => /\ t.entry \in 1..Len(log) /\ log[t.entry].asset = a
                            /\ t.entry > k,
             t.posted => t.entry # 0
      PROVE  Goal
  <2>1. cursor' \in [Assets -> Nat] /\ tick' \in [Assets -> [entry : Nat, posted : BOOLEAN]]
    BY <1>1, <1>3
  <2>2. /\ cursor'[a] = k /\ tick'[a] = t
        /\ \A b \in Assets : b # a => cursor'[b] = cursor[b] /\ tick'[b] = tick[b]
    BY <1>1, <1>3
  <2>3. ASSUME NEW b \in Assets
        PROVE  /\ tick'[b].entry # 0 => /\ tick'[b].entry \in 1..Len(log)
                                        /\ log[tick'[b].entry].asset = b
                                        /\ tick'[b].entry > cursor'[b]
               /\ tick'[b].posted => tick'[b].entry # 0
    <3>1. CASE b = a
      BY <1>3, <2>2, <3>1
    <3>2. CASE b # a
      BY <2>2, <3>2 DEF TicksAhead
    <3>. QED  BY <3>1, <3>2
  <2>4. TicksAhead'
    BY <1>3, <2>3 DEF TicksAhead
  <2>. QED  BY <2>1, <2>4
<1>4. ASSUME NEW a \in Assets, SensorNext(a)
      PROVE  Goal
  <2>1. /\ log' = log /\ tick[a] \in [entry : Nat, posted : BOOLEAN] /\ cursor[a] \in Nat
        /\ cursor = [cursor EXCEPT ![a] = cursor[a]]
    BY <1>1, <1>4 DEF SensorNext, SensorTick, SensorPost, SensorAdvance, SensorCrash
  <2>2. CASE SensorTick(a)
    <3>1. PICK i \in Unseen(a) : tick' = [tick EXCEPT ![a].entry = i]
      BY <2>2 DEF SensorTick
    <3>2. i \in 1..Len(log) /\ log[i].asset = a /\ i > cursor[a] /\ i \in Nat
      BY <1>1 DEF Unseen, NotesTyped
    <3>3. cursor' = cursor /\ tick[a] = Idle
      BY <2>2 DEF SensorTick, sensorVars
    <3>. DEFINE t == [tick[a] EXCEPT !.entry = i]
    <3>4. tick' = [tick EXCEPT ![a] = t]
      BY <3>1, Zenon
    <3>5. t \in [entry : Nat, posted : BOOLEAN] /\ t.entry = i /\ t.posted = FALSE
      <4>1. tick[a].posted = FALSE /\ i \in Nat
        BY <3>2, <3>3 DEF Idle
      <4>. HIDE DEF Goal
      <4>. QED  BY ONLY <2>1, <4>1 DEF t
    <3>. HIDE DEF t, Goal
    <3>. QED  BY <1>3, <2>1, <3>2, <3>3, <3>4, <3>5
  <2>3. CASE SensorPost(a)
    <3>1. cursor' = cursor /\ tick[a].entry # 0 /\ tick' = [tick EXCEPT ![a].posted = TRUE]
      BY <2>3 DEF SensorPost
    <3>. DEFINE t == [tick[a] EXCEPT !.posted = TRUE]
    <3>2. tick' = [tick EXCEPT ![a] = t]
      BY <3>1, Zenon
    <3>3. t \in [entry : Nat, posted : BOOLEAN] /\ t.entry = tick[a].entry
      BY <2>1
    <3>4. /\ t.entry \in 1..Len(log) /\ log[t.entry].asset = a
          /\ t.entry > cursor[a] /\ t.entry # 0
      BY <3>1, <3>3 DEF TicksAhead
    <3>5. cursor' = [cursor EXCEPT ![a] = cursor[a]]
      BY <2>1, <3>1
    <3>. HIDE DEF t, Goal
    <3>. QED  BY <1>3, <2>1, <3>1, <3>2, <3>3, <3>4, <3>5, Zenon
  <2>4. CASE SensorAdvance(a) \/ SensorCrash(a)
    <3>. DEFINE k == cursor'[a]
    <3>1. k \in Nat /\ cursor' = [cursor EXCEPT ![a] = k]
      BY <1>1, <2>1, <2>4 DEF SensorAdvance, SensorCrash
    <3>. DEFINE t == Idle
    <3>2. tick' = [tick EXCEPT ![a] = t]
      BY <2>4 DEF SensorAdvance, SensorCrash
    <3>3. t \in [entry : Nat, posted : BOOLEAN] /\ t.entry = 0 /\ ~t.posted
      BY DEF Idle
    <3>. HIDE DEF k, t, Goal
    <3>. QED  BY <1>3, <2>1, <3>1, <3>2, <3>3, Zenon
  <2>. QED  BY <1>4, <2>2, <2>3, <2>4 DEF SensorNext
<1>. QED  BY <1>2, <1>4, Frames
-----------------------------------------------------------------------------
(* Queues.                                                                 *)

EndOf(s, u, m) == Len(s) = Len(u) - m /\ \A i \in 1..Len(s) : s[i] = u[m + i]

\* Dropping the oldest events leaves the end of a queue.
LEMMA DroppedQueue ==
    ASSUME NEW S, NEW u \in Seq(S), NEW size \in Nat \ {0},
           NEW s, s = DropOldest(u, size)
    PROVE  s \in Seq(S) /\ \E m \in Nat : EndOf(s, u, m)
<1>1. CASE Len(u) <= size
  <2>1. s = u
    BY <1>1 DEF DropOldest
  <2>2. EndOf(s, u, 0)
    BY <2>1 DEF EndOf
  <2>. QED  BY <2>1, <2>2
<1>2. CASE ~(Len(u) <= size)
  <2>. DEFINE m == Len(u) - size + 1
  <2>1. m \in Int /\ Len(u) \in Int /\ m <= Len(u) /\ Len(u) - m + 1 = size /\ 1 <= m
    BY <1>2
  <2>2. \A i \in m..Len(u) : u[i] \in S
    BY <2>1
  <2>3. s = SubSeq(u, m, Len(u))
    BY <1>2, Zenon DEF DropOldest
  <2>. HIDE DEF m
  <2>4. s \in Seq(S) /\ Len(s) = size /\ \A i \in 1..size : s[i] = u[m + i - 1]
    BY ONLY <2>1, <2>2, <2>3, SubSeqProperties, size \in Nat \ {0}
  <2>5. EndOf(s, u, m - 1) /\ m - 1 \in Nat
    BY <2>1, <2>4 DEF EndOf
  <2>. QED  BY <2>4, <2>5, Zenon
<1>. QED  BY <1>1, <1>2

OldOrNew(s, q, n, e) ==
    \A i \in 1..Len(s) : (\E j \in 1..Len(q) : s[i] = q[j]) \/ (n = 1 /\ s[i] = e)

\* What publish() makes of a queue that is in the list at most once: its events
\* were there before or are the new one, and no entry comes twice.
LEMMA PublishedOnce ==
    ASSUME NEW q \in Seq(Events), NEW e \in Events, NEW size \in Nat \ {0},
           NEW n, n \in {0, 1}, NEW s, s = DropOldest(q \o Copies(e, n), size)
    PROVE  /\ s \in Seq(Events)
           /\ OldOrNew(s, q, n, e)
           /\ Distinct(q) /\ (n = 1 => NotIn(e, q)) => Distinct(s)
<1>. DEFINE t == Copies(e, n)
            u == q \o t
<1>1. t \in Seq(Events) /\ Len(t) = n /\ \A i \in 1..n : t[i] = e
  BY DEF Copies
<1>2. s = DropOldest(u, size)
  OBVIOUS
<1>. HIDE DEF t
<1>3. u \in Seq(Events) /\ Len(u) = Len(q) + n
  BY <1>1
<1>4. \A i \in 1..Len(u) : u[i] = IF i <= Len(q) THEN q[i] ELSE t[i - Len(q)]
  BY <1>1
<1>. HIDE DEF u
<1>5. \A i \in 1..Len(u) : u[i] = IF i <= Len(q) THEN q[i] ELSE e
  BY <1>1, <1>3, <1>4
<1>6. s \in Seq(Events)
  BY <1>2, <1>3, DroppedQueue
<1>7. PICK m \in Nat : EndOf(s, u, m)
  BY <1>2, <1>3, DroppedQueue
<1>8. /\ Len(s) \in Nat /\ Len(q) \in Nat
      /\ Len(s) = Len(q) + n - m
      /\ \A i \in 1..Len(s) : m + i \in 1..Len(u)
  BY <1>3, <1>6, <1>7 DEF EndOf
<1>9. \A i \in 1..Len(s) : s[i] = IF m + i <= Len(q) THEN q[m + i] ELSE e
  BY <1>5, <1>7, <1>8 DEF EndOf
<1>10. \A i \in 1..Len(s) :
          \/ m + i \in 1..Len(q) /\ s[i] = q[m + i]
          \/ n = 1 /\ m + i = Len(q) + 1 /\ s[i] = e
  BY <1>8, <1>9
<1>11. OldOrNew(s, q, n, e)
  BY <1>10 DEF OldOrNew
<1>12. ASSUME Distinct(q), n = 1 => NotIn(e, q) PROVE Distinct(s)
  <2>. SUFFICES ASSUME NEW i \in 1..Len(s), NEW j \in 1..Len(s), Same(s[i], s[j])
                PROVE  i = j
    BY DEF Distinct
  <2>. HIDE DEF EndOf
  <2>1. CASE m + i \in 1..Len(q) /\ m + j \in 1..Len(q)
    <3>1. s[i] = q[m + i] /\ s[j] = q[m + j]
      BY <1>8, <1>10, <2>1
    <3>2. m + i = m + j
      BY <1>12, <2>1, <3>1 DEF Distinct
    <3>. QED  BY <3>2
  <2>2. CASE m + i \in 1..Len(q) /\ m + j \notin 1..Len(q)
    BY <1>10, <1>12, <2>2 DEF NotIn, Same
  <2>3. CASE m + i \notin 1..Len(q) /\ m + j \in 1..Len(q)
    BY <1>10, <1>12, <2>3 DEF NotIn, Same
  <2>4. CASE m + i \notin 1..Len(q) /\ m + j \notin 1..Len(q)
    BY <1>8, <1>10, <2>4
  <2>. QED  BY <2>1, <2>2, <2>3, <2>4
<1>. QED  BY <1>6, <1>11, <1>12

-----------------------------------------------------------------------------
(* The broker.                                                             *)

\* The connection is one of the user who triggered the run.
Receives(post, c) ==
    /\ conn[c].pc = "open"
    /\ conn[c].user = owner[log[post.entry].run]
    /\ conn[c].user # Null

LEMMA EventIsTyped ==
    ASSUME NotesTyped, NEW post \in Posts
    PROVE  /\ EventOf(post) \in Events /\ Same(EventOf(post), post)
           /\ post.entry \in 1..Len(log) /\ post.after \in 0..crashes
           /\ log[post.entry] \in Entries /\ log[post.entry].run \in AllRuns
<1>1. post.entry \in 1..Len(log) /\ post.entry \in Nat /\ post.after \in 0..crashes /\ post.after \in Nat
  BY DEF NotesTyped, Posts
<1>2. log[post.entry] \in Entries
  BY <1>1 DEF NotesTyped
<1>. QED  BY <1>1, <1>2 DEF EventOf, Events, Entries, Same

LEMMA HookStep ==
    ASSUME NotesTyped, ConnsKnown, SubscribedWhileOpen,
           NEW post \in inflight, HookPublish(post), NEW c \in Conns
    PROVE  /\ queue'[c] \in Seq(Events)
           /\ \A j \in 1..Len(queue'[c]) :
                 \/ \E k \in 1..Len(queue[c]) : queue'[c][j] = queue[c][k]
                 \/ Receives(post, c) /\ queue'[c][j] = EventOf(post)
           /\ Distinct(queue[c]) /\ (Receives(post, c) => NotIn(EventOf(post), queue[c]))
                 => Distinct(queue'[c])
<1>1. post \in Posts
  BY DEF NotesTyped
<1>. DEFINE u == owner[log[post.entry].run]
            q == queue[c]
            n == subs[u][c]
            e == EventOf(post)
            s == queue'[c]
<1>2. e \in Events /\ u \in Users \cup {Null} /\ q \in Seq(Events) /\ QueueSize \in Nat \ {0}
  BY <1>1, EventIsTyped, SizeIsPositive DEF NotesTyped
<1>3. CASE u = Null
  <2>1. s = q
    BY <1>3 DEF HookPublish
  <2>. QED  BY ONLY <1>2, <2>1
<1>4. CASE u # Null
  <2>1. u \in Users
    BY <1>2, <1>4
  <2>2. s = DropOldest(q \o Copies(e, n), QueueSize)
    BY <1>4 DEF HookPublish, Publish, NotesTyped
  <2>3. n \in {0, 1} /\ (n = 1 => Receives(post, c)) /\ (Receives(post, c) => n = 1)
    BY <1>4, <2>1 DEF SubscribedWhileOpen, Receives
  <2>4. /\ s \in Seq(Events) /\ OldOrNew(s, q, n, e)
        /\ Distinct(q) /\ (n = 1 => NotIn(e, q)) => Distinct(s)
    <3>. HIDE DEF s, q, e, u, n
    <3>. QED  BY ONLY <1>2, <2>2, <2>3, PublishedOnce
  <2>. QED  BY ONLY <2>3, <2>4 DEF OldOrNew
<1>. QED  BY <1>3, <1>4

ApiTyped ==
    /\ conn \in [Conns -> ConnState]
    /\ subs \in [Users -> [Conns -> Nat]]
    /\ queue \in [Conns -> Seq(Events)]
    /\ sending \in [Conns -> SUBSET Events]
    /\ delivered \in [Conns -> Seq(Events)]

BrokerInv == ApiTyped /\ ConnsKnown /\ SubscribedWhileOpen

LEMMA HookBroker ==
    ASSUME NotesTyped, ConnsKnown, SubscribedWhileOpen, NEW post \in inflight, HookPublish(post)
    PROVE  BrokerInv'
<1>1. \A c \in Conns :
         /\ queue'[c] \in Seq(Events)
         /\ \A j \in 1..Len(queue'[c]) :
               \/ \E k \in 1..Len(queue[c]) : queue'[c][j] = queue[c][k]
               \/ Receives(post, c)
  BY HookStep
<1>2. UNCHANGED <<conn, subs, sending, delivered>>
  BY DEF HookPublish, senderVars
<1>3. queue' = [c \in Conns |-> queue'[c]]
  BY DEF HookPublish, Publish, NotesTyped
<1>4. ASSUME NEW c \in Conns, conn[c].pc = "new"
      PROVE  queue'[c] = << >>
  <2>1. Len(queue[c]) = 0 /\ ~Receives(post, c)
    BY <1>4 DEF ConnsKnown, Receives
  <2>2. Len(queue'[c]) = 0
    BY <1>1, <2>1
  <2>. QED  BY <1>1, <2>2
<1>5. ApiTyped'
  BY <1>1, <1>2, <1>3 DEF ApiTyped, NotesTyped
<1>6. ConnsKnown' /\ SubscribedWhileOpen'
  BY <1>2, <1>4 DEF ConnsKnown, SubscribedWhileOpen
<1>. QED  BY <1>5, <1>6 DEF BrokerInv

LEMMA ConnectBroker ==
    ASSUME NotesTyped, ConnsKnown, SubscribedWhileOpen, NEW c \in Conns, NotesConnect(c)
    PROVE  BrokerInv'
<1>1. PICK u \in Users :
         /\ conn' = [conn EXCEPT ![c] = [pc |-> "open", user |-> u]]
         /\ subs' = Subscribe(subs, u, c)
  BY DEF NotesConnect
<1>2. conn[c].pc = "new" /\ UNCHANGED <<queue, sending, delivered>>
  BY DEF NotesConnect, senderVars
<1>3. conn \in [Conns -> ConnState] /\ subs \in [Users -> [Conns -> Nat]]
  BY DEF NotesTyped
<1>4. /\ conn'[c].pc = "open" /\ conn'[c].user = u
      /\ \A d \in Conns : d # c => conn'[d] = conn[d]
      /\ conn' \in [Conns -> ConnState]
  BY <1>1, <1>3 DEF ConnState
<1>5. /\ subs' \in [Users -> [Conns -> Nat]]
      /\ \A v \in Users, d \in Conns :
            subs'[v][d] = IF v = u /\ d = c THEN subs[v][d] + 1 ELSE subs[v][d]
  BY <1>1, <1>3 DEF Subscribe
<1>6. ApiTyped'
  BY <1>2, <1>4, <1>5 DEF ApiTyped, NotesTyped
<1>7. ConnsKnown'
  BY <1>2, <1>4 DEF ConnsKnown
<1>8. SubscribedWhileOpen'
  <2>. SUFFICES ASSUME NEW d \in Conns, NEW v \in Users
                PROVE  subs'[v][d] = IF conn'[d].pc = "open" /\ conn'[d].user = v THEN 1 ELSE 0
    BY DEF SubscribedWhileOpen
  <2>1. CASE d = c
    <3>1. subs[v][d] = 0
      BY <1>2, <2>1 DEF SubscribedWhileOpen
    <3>. QED  BY <1>4, <1>5, <2>1, <3>1
  <2>2. CASE d # c
    BY <1>4, <1>5, <2>2 DEF SubscribedWhileOpen
  <2>. QED  BY <2>1, <2>2
<1>. QED  BY <1>6, <1>7, <1>8 DEF BrokerInv

LEMMA DisconnectBroker ==
    ASSUME NotesTyped, ConnsKnown, SubscribedWhileOpen, NEW c \in Conns, NotesDisconnect(c)
    PROVE  BrokerInv'
<1>. DEFINE u == conn[c].user
<1>1. /\ conn' = [conn EXCEPT ![c].pc = "closed"]
      /\ subs' = Unsubscribe(subs, u, c)
      /\ queue' = [queue EXCEPT ![c] = << >>]
      /\ sending' = [sending EXCEPT ![c] = {}]
      /\ delivered' = delivered /\ conn[c].pc = "open"
  BY DEF NotesDisconnect
<1>2. u \in Users
  BY <1>1 DEF ConnsKnown
<1>3. ApiTyped
  BY DEF NotesTyped, ApiTyped
<1>4. /\ conn'[c].pc = "closed" /\ conn'[c].user = u
      /\ \A d \in Conns : d # c => conn'[d] = conn[d]
      /\ conn' \in [Conns -> ConnState]
  BY <1>1, <1>3 DEF ConnState, ApiTyped
<1>5. /\ subs' \in [Users -> [Conns -> Nat]]
      /\ \A v \in Users, d \in Conns :
            subs'[v][d] = IF v = u /\ d = c THEN (IF subs[v][d] > 0 THEN subs[v][d] - 1 ELSE 0)
                          ELSE subs[v][d]
  <2>. HIDE DEF u
  <2>1. subs \in [Users -> [Conns -> Nat]]
    BY <1>3 DEF ApiTyped
  <2>. QED  BY <1>1, <1>2, <2>1 DEF Unsubscribe
<1>6. /\ queue' \in [Conns -> Seq(Events)] /\ sending' \in [Conns -> SUBSET Events]
      /\ \A d \in Conns : d # c => queue'[d] = queue[d] /\ sending'[d] = sending[d]
  BY <1>1, <1>3 DEF ApiTyped
<1>7. ApiTyped'
  BY <1>1, <1>3, <1>4, <1>5, <1>6 DEF ApiTyped
<1>8. ConnsKnown'
  BY <1>1, <1>4, <1>6 DEF ConnsKnown
<1>9. SubscribedWhileOpen'
  <2>. SUFFICES ASSUME NEW d \in Conns, NEW v \in Users
                PROVE  subs'[v][d] = IF conn'[d].pc = "open" /\ conn'[d].user = v THEN 1 ELSE 0
    BY DEF SubscribedWhileOpen
  <2>1. subs[v][d] = IF conn[d].pc = "open" /\ conn[d].user = v THEN 1 ELSE 0
    BY DEF SubscribedWhileOpen
  <2>2. CASE d = c
    BY <1>1, <1>4, <1>5, <2>1, <2>2
  <2>3. CASE d # c
    BY <1>4, <1>5, <2>1, <2>3
  <2>. QED  BY <2>2, <2>3
<1>. QED  BY <1>7, <1>8, <1>9 DEF BrokerInv

LEMMA SenderBroker ==
    ASSUME NotesTyped, ConnsKnown, SubscribedWhileOpen,
           NEW c \in Conns, NotesGet(c) \/ NotesSend(c)
    PROVE  BrokerInv'
<1>1. UNCHANGED <<conn, subs>> /\ ApiTyped
  BY DEF NotesGet, NotesSend, brokerVars, ApiTyped, NotesTyped
<1>2. conn[c].pc # "new"
  BY DEF NotesGet, NotesSend, ConnsKnown, NotesTyped
<1>3. /\ queue' \in [Conns -> Seq(Events)] /\ sending' \in [Conns -> SUBSET Events]
      /\ delivered' \in [Conns -> Seq(Events)]
      /\ \A d \in Conns : d # c => /\ queue'[d] = queue[d] /\ sending'[d] = sending[d]
                                   /\ delivered'[d] = delivered[d]
  <2>1. CASE NotesGet(c)
    <3>1. Head(queue[c]) \in Events /\ Tail(queue[c]) \in Seq(Events)
      BY <1>1, <2>1, HeadTailProperties DEF NotesGet, ApiTyped
    <3>. QED  BY <1>1, <2>1, <3>1 DEF NotesGet, ApiTyped
  <2>2. CASE NotesSend(c)
    <3>1. PICK event \in sending[c] :
             delivered' = [delivered EXCEPT ![c] = Append(delivered[c], event)]
      BY <2>2 DEF NotesSend
    <3>2. Append(delivered[c], event) \in Seq(Events)
      BY <1>1 DEF ApiTyped
    <3>. QED  BY <1>1, <2>2, <3>1, <3>2 DEF NotesSend, brokerVars, ApiTyped
  <2>. QED  BY <2>1, <2>2
<1>4. ApiTyped'
  BY <1>1, <1>3 DEF ApiTyped
<1>5. ConnsKnown' /\ SubscribedWhileOpen'
  BY <1>1, <1>2, <1>3 DEF ConnsKnown, SubscribedWhileOpen
<1>. QED  BY <1>4, <1>5 DEF BrokerInv

LEMMA RestartBroker ==
    ASSUME NotesTyped, ConnsKnown, SubscribedWhileOpen, ApiRestart
    PROVE  BrokerInv'
<1>1. ApiTyped
  BY DEF ApiTyped, NotesTyped
<1>2. \A c \in Conns : /\ conn'[c] \in ConnState /\ conn'[c].pc # "open"
                       /\ conn'[c].pc = "new" => conn[c].pc = "new"
  BY <1>1 DEF ApiRestart, ApiTyped, ConnState
<1>3. ApiTyped'
  BY <1>1, <1>2 DEF ApiRestart, ApiTyped, NoSubscribers
<1>4. ConnsKnown'
  BY <1>2 DEF ApiRestart, ConnsKnown
<1>5. SubscribedWhileOpen'
  BY <1>2 DEF ApiRestart, SubscribedWhileOpen, NoSubscribers
<1>. QED  BY <1>3, <1>4, <1>5 DEF BrokerInv

LEMMA BrokerSteps ==
    ASSUME NotesTyped, ConnsKnown, SubscribedWhileOpen, [CorpusNext]_allVars
    PROVE  BrokerInv'
<1>1. CASE UNCHANGED apiVars
  BY <1>1 DEF apiVars, brokerVars, senderVars, BrokerInv, ApiTyped, NotesTyped, ConnsKnown,
              SubscribedWhileOpen
<1>. QED
  BY <1>1, Frames, HookBroker, ConnectBroker, DisconnectBroker, SenderBroker, RestartBroker
  DEF NotesNext

\* Requests carry entries of the log.
LEMMA InflightSteps ==
    ASSUME NotesTyped, TicksAhead, LogGrows, log' \in Seq(Entries), [CorpusNext]_allVars
    PROVE  /\ inflight' \subseteq Posts'
           /\ crashes' \in Nat /\ crashes' \in {crashes, crashes + 1}
<1>1. /\ inflight \subseteq Posts /\ 1..Len(log) \subseteq 1..Len(log')
      /\ crashes \in Nat /\ MaxCrashes \in Nat
  BY SizeIsPositive DEF NotesTyped, LogGrows
<1>2. ASSUME NEW a, SensorCrash(a) \/ ApiRestart PROVE crashes' = crashes + 1
  BY <1>2 DEF SensorCrash, ApiRestart
<1>3. crashes' \in Nat /\ crashes' \in {crashes, crashes + 1}
  BY <1>1, <1>2, Frames
<1>4. Posts \subseteq Posts'
  BY <1>1, <1>3 DEF Posts
<1>5. ASSUME NEW a \in Assets, SensorPost(a) PROVE inflight' \subseteq Posts
  <2>1. tick[a].entry \in 1..Len(log) /\ crashes \in 0..crashes
    BY <1>1, <1>5 DEF SensorPost, TicksAhead
  <2>2. Payload(a) \in Posts
    BY <2>1 DEF Payload, Posts
  <2>. QED  BY <1>1, <1>5, <2>2 DEF SensorPost
<1>6. ASSUME NEW post, HookPublish(post) PROVE inflight' \subseteq Posts
  BY <1>1, <1>6 DEF HookPublish
<1>7. ApiRestart => inflight' = {}
  BY DEF ApiRestart
<1>. QED  BY <1>1, <1>3, <1>4, <1>5, <1>6, <1>7, Frames
-----------------------------------------------------------------------------
(* What connections are told.                                              *)

LEMMA ToldParts ==
    ASSUME NEW c, NEW event
    PROVE  /\ event \in Told(c) <=> \/ event \in sending[c]
                                    \/ \E i \in DOMAIN queue[c] : event = queue[c][i]
                                    \/ \E i \in DOMAIN delivered[c] : event = delivered[c][i]
           /\ event \in Told(c)' <=> \/ event \in sending'[c]
                                     \/ \E i \in DOMAIN queue'[c] : event = queue'[c][i]
                                     \/ \E i \in DOMAIN delivered'[c] : event = delivered'[c][i]
BY DEF Told

\* A connection is told of something by a request for a run of its user only.
LEMMA ToldSteps ==
    ASSUME NotesTyped, ConnsKnown, SubscribedWhileOpen, [CorpusNext]_allVars,
           NEW c \in Conns, NEW event \in Told(c)'
    PROVE  /\ conn'[c].user = conn[c].user
           /\ \/ event \in Told(c)
              \/ \E post \in inflight :
                    HookPublish(post) /\ Receives(post, c) /\ event = EventOf(post)
<1>1. CASE UNCHANGED apiVars
  BY <1>1, ToldParts DEF apiVars, brokerVars, senderVars
<1>2. ASSUME NEW post \in inflight, HookPublish(post)
      PROVE  /\ conn'[c].user = conn[c].user
             /\ event \in Told(c) \/ (Receives(post, c) /\ event = EventOf(post))
  <2>1. UNCHANGED <<conn, sending, delivered>>
    BY <1>2 DEF HookPublish, senderVars
  <2>2. queue'[c] \in Seq(Events) /\ queue[c] \in Seq(Events)
    BY <1>2, HookStep DEF NotesTyped
  <2>3. \A j \in 1..Len(queue'[c]) :
           \/ \E k \in 1..Len(queue[c]) : queue'[c][j] = queue[c][k]
           \/ Receives(post, c) /\ queue'[c][j] = EventOf(post)
    BY <1>2, HookStep
  <2>4. DOMAIN queue'[c] = 1..Len(queue'[c]) /\ DOMAIN queue[c] = 1..Len(queue[c])
    BY <2>2
  <2>5. ASSUME NEW j \in DOMAIN queue'[c], event = queue'[c][j]
        PROVE  event \in Told(c) \/ (Receives(post, c) /\ event = EventOf(post))
    <3>1. CASE \E k \in 1..Len(queue[c]) : queue'[c][j] = queue[c][k]
      BY <2>4, <2>5, <3>1, ToldParts
    <3>. QED  BY <2>3, <2>4, <2>5, <3>1
  <2>6. event \in sending[c] \/ (\E j \in DOMAIN delivered[c] : event = delivered[c][j])
           => event \in Told(c)
    BY ToldParts
  <2>. QED  BY <2>1, <2>5, <2>6, ToldParts
<1>3. ASSUME NEW d \in Conns, NotesConnect(d)
      PROVE  conn'[c].user = conn[c].user /\ event \in Told(c)
  <2>1. UNCHANGED <<queue, sending, delivered>> /\ conn[d].pc = "new"
    BY <1>3 DEF NotesConnect, senderVars
  <2>2. event \in Told(c)
    BY <2>1, ToldParts
  <2>3. c # d
    <3>1. conn[c].pc = "new" => queue[c] = << >> /\ sending[c] = {} /\ delivered[c] = << >>
      BY DEF ConnsKnown
    <3>2. \A i : i \notin DOMAIN << >>
      OBVIOUS
    <3>. QED  BY <2>1, <2>2, <3>1, <3>2, ToldParts
  <2>4. \E x : conn' = [conn EXCEPT ![d] = x]
    BY <1>3 DEF NotesConnect
  <2>. QED  BY <2>2, <2>3, <2>4 DEF NotesTyped
<1>4. ASSUME NEW d \in Conns, NotesDisconnect(d)
      PROVE  conn'[c].user = conn[c].user /\ event \in Told(c)
  <2>1. conn'[c].user = conn[c].user
    BY <1>4 DEF NotesDisconnect, NotesTyped, ConnState
  <2>2. /\ queue'[c] = << >> \/ queue'[c] = queue[c]
        /\ sending'[c] = {} \/ sending'[c] = sending[c]
        /\ delivered' = delivered
    BY <1>4 DEF NotesDisconnect, NotesTyped
  <2>3. \A i : i \notin DOMAIN << >>
    OBVIOUS
  <2>4. event \in Told(c)
    BY <2>2, <2>3, ToldParts
  <2>. QED  BY <2>1, <2>4
<1>5. ASSUME NEW d \in Conns, NotesGet(d)
      PROVE  conn' = conn /\ event \in Told(c)
  <2>1. conn' = conn /\ delivered' = delivered /\ queue[c] \in Seq(Events)
    BY <1>5 DEF NotesGet, NotesTyped
  <2>2. CASE c = d
    <3>1. /\ queue[c] # << >> /\ sending'[c] = {Head(queue[c])} /\ queue'[c] = Tail(queue[c])
      BY <1>5, <2>2 DEF NotesGet, NotesTyped
    <3>2. /\ 1 \in DOMAIN queue[c] /\ Head(queue[c]) = queue[c][1]
          /\ \A i \in DOMAIN Tail(queue[c]) :
                i + 1 \in DOMAIN queue[c] /\ Tail(queue[c])[i] = queue[c][i + 1]
      BY <2>1, <3>1, HeadTailProperties
    <3>3. event \in sending'[c] => event = queue[c][1]
      BY <3>1, <3>2
    <3>4. ASSUME NEW i \in DOMAIN queue'[c], event = queue'[c][i]
          PROVE  \E j \in DOMAIN queue[c] : event = queue[c][j]
      BY <3>1, <3>2, <3>4
    <3>. QED  BY <2>1, <3>2, <3>3, <3>4, ToldParts
  <2>3. CASE c # d
    <3>1. queue'[c] = queue[c] /\ sending'[c] = sending[c]
      BY <1>5, <2>3 DEF NotesGet, NotesTyped
    <3>. QED  BY <2>1, <3>1, ToldParts
  <2>. QED  BY <2>2, <2>3
<1>6. ASSUME NEW d \in Conns, NotesSend(d)
      PROVE  conn' = conn /\ event \in Told(c)
  <2>1. PICK e \in sending[d] : delivered' = [delivered EXCEPT ![d] = Append(delivered[d], e)]
    BY <1>6 DEF NotesSend
  <2>2. /\ conn' = conn /\ queue' = queue /\ delivered[c] \in Seq(Events)
        /\ sending'[c] = {} \/ sending'[c] = sending[c]
    BY <1>6 DEF NotesSend, NotesTyped, brokerVars
  <2>3. CASE c = d
    <3>1. delivered'[c] = Append(delivered[c], e)
      BY <2>1, <2>3 DEF NotesTyped
    <3>2. \A i \in DOMAIN delivered'[c] :
             \/ i \in DOMAIN delivered[c] /\ delivered'[c][i] = delivered[c][i]
             \/ delivered'[c][i] = e
      BY <2>2, <3>1
    <3>. QED  BY <2>1, <2>2, <2>3, <3>2, ToldParts
  <2>4. CASE c # d
    <3>1. delivered'[c] = delivered[c]
      BY <2>1, <2>4 DEF NotesTyped
    <3>. QED  BY <2>2, <3>1, ToldParts
  <2>. QED  BY <2>2, <2>3, <2>4
<1>7. CASE ApiRestart
  <2>1. /\ conn'[c].user = conn[c].user /\ queue'[c] = << >> /\ sending'[c] = {}
        /\ delivered' = delivered
    BY <1>7 DEF ApiRestart, NotesTyped, ConnState
  <2>2. \A i : i \notin DOMAIN << >>
    OBVIOUS
  <2>3. event \in Told(c)
    BY <2>1, <2>2, ToldParts
  <2>. QED  BY <2>1, <2>3
<1>. QED  BY <1>1, <1>2, <1>3, <1>4, <1>5, <1>6, <1>7, Frames DEF NotesNext, apiVars

LEMMA ToldKeeps ==
    ASSUME NotesTyped, ConnsKnown, SubscribedWhileOpen, ToldAsMeant, TicksAhead,
           LogGrows, log' \in Seq(Entries), OwnersStay, [CorpusNext]_allVars
    PROVE  ToldAsMeant'
<1>. SUFFICES ASSUME NEW c \in Conns, NEW event \in Told(c)'
              PROVE  Meant(event, c)'
  BY DEF ToldAsMeant
<1>1. conn'[c].user = conn[c].user
  BY ToldSteps
<1>2. Meant(event, c)
  <2>1. CASE event \in Told(c)
    BY <2>1 DEF ToldAsMeant
  <2>2. ASSUME NEW post \in inflight, Receives(post, c), event = EventOf(post)
        PROVE  Meant(event, c)
    <3>1. post \in Posts
      BY DEF NotesTyped
    <3>2. event.entry = post.entry
      BY <2>2, <3>1, EventIsTyped DEF Same
    <3>. QED  BY <2>2, <3>1, <3>2 DEF Meant, Receives
  <2>. QED  BY <2>1, <2>2, ToldSteps
<1>3. PICK post \in Posts : event = EventOf(post)
  BY <1>2 DEF Meant
<1>4. /\ event.entry = post.entry /\ log'[post.entry] = log[post.entry]
      /\ log[post.entry].run \in AllRuns
  BY <1>3, EventIsTyped DEF LogGrows, Same
<1>5. EventOf(post)' = EventOf(post)
  BY <1>4 DEF EventOf
<1>6. post \in Posts'
  BY InflightSteps DEF LogGrows, Posts, NotesTyped
<1>7. owner'[log[event.entry].run] = conn[c].user
  BY <1>2, <1>4 DEF Meant, OwnersStay
<1>8. /\ \E p \in Posts' : event = EventOf(p)'
      /\ owner'[log'[event.entry].run] = conn'[c].user /\ conn'[c].user # Null
  BY <1>1, <1>2, <1>3, <1>4, <1>5, <1>6, <1>7 DEF Meant
<1>. QED  BY <1>8 DEF Meant

\* As long as nobody ends, the cursor never leaves a posted entry behind it.
LEMMA PostedStays ==
    ASSUME NotesTyped, TicksAhead, LogGrows, crashes' = crashes, [CorpusNext]_allVars,
           NEW i \in 1..Len(log), Posted(i)
    PROVE  Posted(i)'
<1>. DEFINE a == log[i].asset
<1>1. log'[i] = log[i] /\ a \in Assets /\ i \in Nat
  <2>1. log[i] \in Entries
    BY DEF NotesTyped
  <2>. QED  BY <2>1 DEF LogGrows, Entries
<1>2. /\ cursor \in [Assets -> Nat] /\ tick \in [Assets -> [entry : Nat, posted : BOOLEAN]]
      /\ crashes \in Nat
  BY DEF NotesTyped
<1>3. i <= cursor[a] \/ (tick[a].entry = i /\ tick[a].posted)
  BY DEF Posted
<1>. HIDE DEF a
<1>4. SUFFICES i <= cursor'[a] \/ (tick'[a].entry = i /\ tick'[a].posted)
  BY <1>1 DEF Posted, a
<1>5. CASE UNCHANGED <<cursor, tick>>
  BY <1>3, <1>5
<1>6. ASSUME NEW b \in Assets, SensorNext(b)
      PROVE  i <= cursor'[a] \/ (tick'[a].entry = i /\ tick'[a].posted)
  <2>1. ~SensorCrash(b)
    BY <1>2 DEF SensorCrash
  <2>2. CASE b # a
    BY <1>1, <1>2, <1>3, <1>6, <2>1, <2>2 DEF SensorNext, SensorTick, SensorPost, SensorAdvance
  <2>3. CASE b = a /\ SensorTick(b)
    BY <1>3, <2>3 DEF SensorTick, Idle
  <2>4. CASE b = a /\ SensorPost(b)
    BY <1>1, <1>2, <1>3, <2>4 DEF SensorPost
  <2>5. CASE b = a /\ SensorAdvance(b)
    <3>1. cursor'[a] = tick[a].entry /\ tick[a].posted
      BY <1>1, <1>2, <2>5 DEF SensorAdvance
    <3>2. tick[a].entry > cursor[a] /\ tick[a].entry \in Nat /\ cursor[a] \in Nat
      BY <1>1, <1>2, <3>1 DEF TicksAhead
    <3>. QED  BY <1>1, <1>3, <3>1, <3>2
  <2>. QED  BY <1>6, <2>1, <2>2, <2>3, <2>4, <2>5 DEF SensorNext
<1>. QED  BY <1>5, <1>6, Frames

LEMMA SentStays ==
    ASSUME NotesTyped, TicksAhead, LogGrows, log' \in Seq(Entries), [CorpusNext]_allVars,
           NEW post, post.entry \in 1..Len(log), post.after \in 0..crashes, Sent(post)
    PROVE  Sent(post)'
<1>1. crashes' \in {crashes, crashes + 1} /\ crashes \in Nat
  BY InflightSteps DEF NotesTyped
<1>2. CASE crashes' = crashes
  BY <1>2, PostedStays DEF Sent
<1>3. CASE crashes' = crashes + 1
  BY <1>1, <1>3 DEF Sent
<1>. QED  BY <1>1, <1>2, <1>3

\* A request that begins is the first for its entry since the last end.
LEMMA FirstRequest ==
    ASSUME NotesTyped, TicksAhead, [CorpusNext]_allVars,
           NEW post \in inflight', post \notin inflight
    PROVE  /\ post.after = crashes /\ crashes' = crashes
           /\ ~Posted(post.entry) /\ Posted(post.entry)' /\ post.entry \in 1..Len(log)
<1>1. PICK a \in Assets : SensorPost(a)
  BY Frames DEF HookPublish, ApiRestart
<1>. DEFINE i == post.entry
<1>2. /\ post = Payload(a) /\ crashes' = crashes /\ tick[a].entry # 0 /\ ~tick[a].posted
      /\ log' = log /\ cursor' = cursor /\ tick' = [tick EXCEPT ![a].posted = TRUE]
  BY <1>1 DEF SensorPost
<1>3. i = tick[a].entry /\ post.after = crashes
  BY <1>2 DEF Payload
<1>4. i \in 1..Len(log) /\ log[i].asset = a /\ i > cursor[a] /\ cursor[a] \in Nat /\ i \in Nat
  BY <1>2, <1>3 DEF TicksAhead, NotesTyped
<1>5. ~Posted(i)
  BY <1>2, <1>3, <1>4 DEF Posted
<1>6. tick'[a].entry = i /\ tick'[a].posted
  BY <1>2, <1>3 DEF NotesTyped
<1>. QED  BY <1>2, <1>3, <1>4, <1>5, <1>6 DEF Posted

\* An event moves from the queue over the sender to the client.
LEMMA PlaceSteps ==
    ASSUME NotesTyped, ConnsKnown, SubscribedWhileOpen, [CorpusNext]_allVars,
           NEW c \in Conns, OnePlace(c),
           \A event \in Told(c), post \in inflight : ~Same(event, post)
    PROVE  OnePlace(c)'
<1>0. queue[c] \in Seq(Events) /\ delivered[c] \in Seq(Events)
  BY DEF NotesTyped
<1>1. CASE queue'[c] = queue[c] /\ sending'[c] = sending[c] /\ delivered'[c] = delivered[c]
  BY <1>1 DEF OnePlace
<1>2. ASSUME NEW post \in inflight, HookPublish(post) PROVE OnePlace(c)'
  <2>. DEFINE new == EventOf(post)
  <2>1. UNCHANGED <<sending, delivered>> /\ post \in Posts
    BY <1>2 DEF HookPublish, senderVars, NotesTyped
  <2>2. Same(new, post)
    BY <2>1, EventIsTyped
  <2>3. DOMAIN queue[c] = 1..Len(queue[c]) /\ DOMAIN delivered[c] = 1..Len(delivered[c])
    BY <1>0
  <2>4. /\ NotIn(new, queue[c]) /\ NotIn(new, delivered[c])
        /\ \A event \in sending[c] : ~Same(new, event)
    <3>1. \A k \in 1..Len(queue[c]) : ~Same(queue[c][k], post)
      BY <2>3, ToldParts
    <3>2. \A k \in 1..Len(delivered[c]) : ~Same(delivered[c][k], post)
      BY <2>3, ToldParts
    <3>3. \A event \in sending[c] : ~Same(event, post)
      BY ToldParts
    <3>. HIDE DEF new
    <3>. QED  BY <2>2, <3>1, <3>2, <3>3 DEF NotIn, Same
  <2>5. /\ Distinct(queue'[c])
        /\ \A j \in 1..Len(queue'[c]) : \/ \E k \in 1..Len(queue[c]) : queue'[c][j] = queue[c][k]
                                        \/ queue'[c][j] = new
    BY <1>2, <2>4, HookStep DEF OnePlace
  <2>. HIDE DEF new
  <2>6. Apart(queue'[c], delivered[c])
    BY <2>4, <2>5 DEF Apart, NotIn, OnePlace, Same
  <2>7. \A event \in sending[c] : NotIn(event, queue'[c])
    BY <2>4, <2>5 DEF NotIn, OnePlace
  <2>. QED  BY <2>1, <2>5, <2>6, <2>7 DEF OnePlace
<1>3. ASSUME NEW d \in Conns, NotesConnect(d)
      PROVE  UNCHANGED <<queue, sending, delivered>>
  BY <1>3 DEF NotesConnect, senderVars
<1>4. ASSUME NEW d \in Conns, NotesDisconnect(d) PROVE OnePlace(c)'
  <2>1. CASE d # c
    BY <1>1, <1>4, <2>1 DEF NotesDisconnect, NotesTyped
  <2>2. CASE d = c
    <3>1. queue'[c] = << >> /\ sending'[c] = {} /\ delivered' = delivered
      BY <1>4, <2>2 DEF NotesDisconnect, NotesTyped
    <3>. QED  BY <3>1 DEF OnePlace, Distinct, Apart
  <2>. QED  BY <2>1, <2>2
<1>5. ASSUME NEW d \in Conns, NotesGet(d) PROVE OnePlace(c)'
  <2>1. CASE d # c
    BY <1>1, <1>5, <2>1 DEF NotesGet, NotesTyped
  <2>2. CASE d = c
    <3>1. /\ sending'[c] = {Head(queue[c])} /\ queue'[c] = Tail(queue[c])
          /\ delivered' = delivered /\ queue[c] # << >>
      BY <1>5, <2>2 DEF NotesGet, NotesTyped
    <3>2. /\ Head(queue[c]) = queue[c][1] /\ 1 \in 1..Len(queue[c])
          /\ \A j \in 1..Len(Tail(queue[c])) :
                /\ j + 1 \in 1..Len(queue[c]) /\ j + 1 # 1 /\ j \in Nat
                /\ Tail(queue[c])[j] = queue[c][j + 1]
      BY <1>0, <3>1, HeadTailProperties
    <3>. DEFINE q == queue[c]
                t == Tail(queue[c])
    <3>3. Distinct(t)
      <4>. SUFFICES ASSUME NEW i \in 1..Len(t), NEW j \in 1..Len(t), Same(t[i], t[j])
                    PROVE  i = j
        BY DEF Distinct
      <4>1. i + 1 = j + 1
        BY <3>2 DEF OnePlace, Distinct
      <4>. QED  BY <3>2, <4>1
    <3>4. Apart(t, delivered[c])
      BY <3>2 DEF OnePlace, Apart
    <3>5. NotIn(Head(q), t) /\ NotIn(Head(q), delivered[c])
      <4>1. NotIn(Head(q), t)
        BY <3>2 DEF NotIn, OnePlace, Distinct
      <4>2. NotIn(Head(q), delivered[c])
        BY <3>2 DEF NotIn, OnePlace, Apart, Same
      <4>. QED  BY <4>1, <4>2
    <3>. QED  BY <3>1, <3>3, <3>4, <3>5 DEF OnePlace
  <2>. QED  BY <2>1, <2>2
<1>6. ASSUME NEW d \in Conns, NotesSend(d) PROVE OnePlace(c)'
  <2>1. PICK e \in sending[d] : delivered' = [delivered EXCEPT ![d] = Append(delivered[d], e)]
    BY <1>6 DEF NotesSend
  <2>2. sending' = [sending EXCEPT ![d] = {}] /\ queue' = queue
    BY <1>6 DEF NotesSend, brokerVars
  <2>3. CASE d # c
    BY <1>1, <2>1, <2>2, <2>3 DEF NotesTyped
  <2>4. CASE d = c
    <3>. DEFINE s == delivered[c]
                t == Append(s, e)
    <3>1. delivered'[c] = t /\ sending'[c] = {} /\ e \in sending[c]
      BY <2>1, <2>2, <2>4 DEF NotesTyped
    <3>2. /\ Len(t) = Len(s) + 1 /\ Len(s) \in Nat
          /\ \A j \in 1..Len(t) : \/ j \in 1..Len(s) /\ t[j] = s[j]
                                  \/ j = Len(s) + 1 /\ t[j] = e
      BY <1>0
    <3>3. NotIn(e, queue[c]) /\ NotIn(e, s) /\ Distinct(s) /\ Apart(queue[c], s)
      BY <3>1 DEF OnePlace
    <3>. HIDE DEF s, t
    <3>4. Distinct(t)
      BY <3>2, <3>3 DEF Distinct, NotIn, Same
    <3>5. Apart(queue[c], t)
      BY <3>2, <3>3 DEF Apart, NotIn
    <3>. QED  BY <2>2, <3>1, <3>4, <3>5 DEF OnePlace
  <2>. QED  BY <2>3, <2>4
<1>7. CASE ApiRestart
  <2>1. queue'[c] = << >> /\ sending'[c] = {} /\ delivered' = delivered
    BY <1>7 DEF ApiRestart
  <2>. QED  BY <2>1 DEF OnePlace, Distinct, Apart
<1>8. CASE UNCHANGED apiVars
  BY <1>1, <1>8 DEF apiVars, brokerVars, senderVars
<1>. QED  BY <1>1, <1>2, <1>3, <1>4, <1>5, <1>6, <1>7, <1>8, Frames DEF NotesNext

LEMMA OnceKeeps ==
    ASSUME NotesTyped, ConnsKnown, SubscribedWhileOpen, ToldAsMeant, TicksAhead, OnceInv,
           LogGrows, log' \in Seq(Entries), [CorpusNext]_allVars
    PROVE  OnceInv'
<1>1. inflight \subseteq Posts
  BY DEF NotesTyped
<1>2. ASSUME NEW post \in inflight' PROVE Sent(post)'
  <2>1. CASE post \in inflight
    BY <1>1, <2>1, EventIsTyped, SentStays DEF OnceInv
  <2>2. CASE post \notin inflight
    BY <2>2, FirstRequest DEF Sent
  <2>. QED  BY <2>1, <2>2
<1>3. ASSUME NEW c \in Conns, NEW event \in Told(c)'
      PROVE  Sent(event)' /\ \A post \in inflight' : ~Same(event, post)
  <2>1. CASE event \in Told(c)
    <3>1. /\ Sent(event) /\ event.entry \in 1..Len(log) /\ event.after \in 0..crashes
          /\ \A post \in inflight : ~Same(event, post)
      <4>1. PICK post \in Posts : event = EventOf(post)
        BY <2>1 DEF ToldAsMeant, Meant
      <4>2. event.entry \in 1..Len(log) /\ event.after \in 0..crashes
        BY <4>1, EventIsTyped DEF Same
      <4>. QED  BY <2>1, <4>2 DEF OnceInv
    <3>2. Sent(event)'
      BY <3>1, SentStays
    <3>3. ASSUME NEW post \in inflight', Same(event, post) PROVE FALSE
      <4>1. post \notin inflight
        BY <3>1, <3>3
      <4>2. post.after = crashes /\ ~Posted(post.entry)
        BY <4>1, FirstRequest
      <4>. QED  BY <3>1, <3>3, <4>2 DEF Same, Sent
    <3>. QED  BY <3>2, <3>3
  <2>2. ASSUME NEW sent \in inflight, HookPublish(sent), event = EventOf(sent)
        PROVE  Sent(event)' /\ \A post \in inflight' : ~Same(event, post)
    <3>1. /\ Same(event, sent) /\ sent \in Posts
          /\ event.entry \in 1..Len(log) /\ event.after \in 0..crashes
      BY <1>1, <2>2, EventIsTyped DEF Same
    <3>2. Sent(event)
      BY <3>1 DEF OnceInv, Sent, Same
    <3>3. Sent(event)'
      BY <3>1, <3>2, SentStays
    <3>4. ASSUME NEW post \in inflight', Same(event, post) PROVE FALSE
      <4>1. post # sent /\ post \in Posts
        BY <1>1, <2>2 DEF HookPublish
      <4>2. /\ post = [entry |-> post.entry, after |-> post.after]
            /\ sent = [entry |-> sent.entry, after |-> sent.after]
        BY <3>1, <4>1 DEF Posts
      <4>. QED  BY <3>1, <3>4, <4>1, <4>2 DEF Same
    <3>. QED  BY <3>3, <3>4
  <2>. QED  BY <2>1, <2>2, ToldSteps
<1>4. ASSUME NEW c \in Conns PROVE OnePlace(c)'
  BY PlaceSteps DEF OnceInv
<1>. QED  BY <1>2, <1>3, <1>4 DEF OnceInv
-----------------------------------------------------------------------------
(* The theorems.                                                           *)

LEMMA CorpusStarts == CorpusInit => NotesInv
<1>. SUFFICES ASSUME CorpusInit PROVE NotesInv
  OBVIOUS
<1>1. NotesTyped
  <2>1. /\ owner \in [AllRuns -> Users \cup {Null}] /\ log \in Seq(Entries)
        /\ cursor \in [Assets -> Nat] /\ inflight \subseteq Posts /\ crashes \in Nat
    BY DEF CorpusInit
  <2>2. tick \in [Assets -> [entry : Nat, posted : BOOLEAN]]
    BY DEF CorpusInit, Idle
  <2>3. conn \in [Conns -> ConnState]
    BY DEF CorpusInit, ConnState
  <2>4. subs \in [Users -> [Conns -> Nat]]
    BY DEF CorpusInit, NoSubscribers
  <2>5. /\ queue \in [Conns -> Seq(Events)] /\ sending \in [Conns -> SUBSET Events]
        /\ delivered \in [Conns -> Seq(Events)]
    BY DEF CorpusInit
  <2>. QED  BY <2>1, <2>2, <2>3, <2>4, <2>5 DEF NotesTyped
<1>2. ConnsKnown /\ SubscribedWhileOpen
  BY DEF CorpusInit, ConnsKnown, SubscribedWhileOpen, NoSubscribers
<1>3. RunsHaveVariants
  BY DEF CorpusInit, Init, RunsHaveVariants, NewExtract
<1>4. LogIsTrue
  BY DEF CorpusInit, LogIsTrue
<1>5. \A c \in Conns : Told(c) = {} /\ OnePlace(c)
  BY DEF CorpusInit, Told, OnePlace, Distinct, Apart
<1>6. TicksAhead
  BY DEF CorpusInit, TicksAhead, Idle
<1>7. ToldAsMeant /\ OnceInv
  BY <1>5 DEF CorpusInit, ToldAsMeant, OnceInv
<1>. QED  BY <1>1, <1>2, <1>3, <1>4, <1>6, <1>7 DEF NotesInv

LEMMA CorpusKeeps ==
    ASSUME TypeInv, NotesInv, [CorpusNext]_allVars
    PROVE  NotesInv'
<1>1. /\ NotesTyped /\ ConnsKnown /\ SubscribedWhileOpen
      /\ RunsHaveVariants /\ LogIsTrue /\ ToldAsMeant /\ TicksAhead /\ OnceInv
  BY DEF NotesInv
<1>2. log' \in Seq(Entries) /\ LogGrows /\ LogIsTrue'
  BY <1>1, LogSteps
<1>3. owner' \in [AllRuns -> Users \cup {Null}] /\ OwnersStay
  BY <1>1, OwnerSteps
<1>4. /\ cursor' \in [Assets -> Nat] /\ tick' \in [Assets -> [entry : Nat, posted : BOOLEAN]]
      /\ TicksAhead'
  BY <1>1, <1>2, SensorSteps
<1>5. inflight' \subseteq Posts' /\ crashes' \in Nat
  BY <1>1, <1>2, InflightSteps
<1>6. ApiTyped' /\ ConnsKnown' /\ SubscribedWhileOpen'
  BY <1>1, BrokerSteps DEF BrokerInv
<1>7. NotesTyped'
  BY <1>2, <1>3, <1>4, <1>5, <1>6 DEF NotesTyped, ApiTyped
<1>8. RunsHaveVariants'
  BY <1>1, StepOfDocuments, RunsGetVariants
<1>9. ToldAsMeant'
  BY <1>1, <1>2, <1>3, ToldKeeps
<1>10. OnceInv'
  BY <1>1, <1>2, OnceKeeps
<1>. QED  BY <1>2, <1>4, <1>6, <1>7, <1>8, <1>9, <1>10 DEF NotesInv

LEMMA CorpusInvariant == CorpusSpec => [](TypeInv /\ NotesInv)
<1>1. CorpusInit => TypeInv /\ NotesInv
  BY CorpusStarts, InitTypeOK DEF CorpusInit
<1>2. TypeInv /\ NotesInv /\ [CorpusNext]_allVars => (TypeInv /\ NotesInv)'
  BY CorpusKeeps, StepOfDocuments, NextTypeOK
<1>. QED  BY <1>1, <1>2, PTL DEF CorpusSpec

\* A connection is told only of runs that its user triggered, of the source of
\* the run and, for extract_mineru, when a variant of the source is committed.
THEOREM ToldTruly == CorpusSpec => []ToldIsTrue
<1>1. NotesInv => ToldIsTrue
  <2>. SUFFICES ASSUME NotesInv, NEW c \in Conns, NEW event \in Told(c)
                PROVE  /\ owner[log[event.entry].run] = conn[c].user
                       /\ event.source = log[event.entry].source
                       /\ event.type = "asset.materialized" => VariantsOf(event.source) # {}
    BY DEF ToldIsTrue
  <2>1. Meant(event, c)
    BY DEF NotesInv, ToldAsMeant
  <2>. DEFINE i == event.entry
  <2>2. PICK post \in Posts : event = EventOf(post)
    BY <2>1 DEF Meant
  <2>3. i = post.entry /\ i \in 1..Len(log) /\ log[i].asset \in Assets
    BY <2>2, EventIsTyped DEF NotesInv, Entries, Same
  <2>4. /\ event.source = log[i].source /\ owner[log[i].run] = conn[c].user
        /\ event.type = "asset.materialized" => log[i].asset = "extract_mineru"
    BY <2>1, <2>2, <2>3 DEF EventOf, Assets, Meant
  <2>5. log[i].asset = "extract_mineru" => VariantsOf(log[i].source) # {}
    BY <2>3 DEF NotesInv, LogIsTrue
  <2>. HIDE DEF i
  <2>. QED  BY <2>4, <2>5 DEF i
<1>. QED  BY <1>1, CorpusInvariant, PTL

\* Whatever posts and answers are lost, a client receives the event of a
\* materialization twice only if the daemon or the API ended between its posts.
THEOREM TellsOnce == CorpusSpec => []ToldOnce
<1>1. NotesInv => ToldOnce
  <2>. SUFFICES ASSUME NotesInv, NEW c \in Conns,
                       NEW i \in DOMAIN delivered[c], NEW j \in DOMAIN delivered[c],
                       Same(delivered[c][i], delivered[c][j])
                PROVE  i = j
    BY DEF ToldOnce, Same
  <2>1. Distinct(delivered[c])
    BY DEF NotesInv, OnceInv, OnePlace
  <2>2. DOMAIN delivered[c] = 1..Len(delivered[c])
    BY DEF NotesInv, NotesTyped
  <2>. QED  BY <2>1, <2>2 DEF Distinct
<1>. QED  BY <1>1, CorpusInvariant, PTL

\* The broker's list of a user has one entry for each of the user's open
\* connections and none for any other: neither a leak nor a lost subscription.
THEOREM Subscribed == CorpusSpec => []SubscribedWhileOpen
BY CorpusInvariant, PTL DEF NotesInv

\* What is proved of Documents holds with the sensors, the webhook and the broker
\* beside it.
THEOREM DocumentsInCorpus ==
    CorpusSpec => /\ [](SourceIsComplete /\ LostOnlyToCleanup /\ OneCanonical)
                  /\ ImplementsCanonicalChoice
BY CorpusIsDocuments, Complete, OnlyCleanupLoses, Canonical, Implements, PTL
=============================================================================
