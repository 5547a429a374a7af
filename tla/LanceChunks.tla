----------------------------- MODULE LanceChunks -----------------------------
(***************************************************************************)
(* The Lance table `chunks` and the runs that write it: the asset chunks   *)
(* replaces the rows of a source, the tagger assets attr_quality,          *)
(* attr_lang and attr_minhash add columns to them, all over                *)
(* LanceChunksIOManager.  One action is one Lance commit, one read, or one *)
(* call of the LLM gateway.                                                *)
(*                                                                         *)
(* A text is named by its document and its window; a row also carries the  *)
(* run that added it, which the code keeps as created_at.                  *)
(***************************************************************************)
EXTENDS LlmGateway, ChunkWindows

CONSTANTS
    LanceSources,   \* sources that are chunked
    Collected,      \* those that belong to a collection
    Docs,           \* contents of doc.docling.json
    Tokens,         \* Tokens[d]: the tokens of the text of d
    Chunkers,       \* runs of the asset chunks; each id is used once
    Taggers,        \* runs of the tagger assets; each id is used once
    KindOf,         \* KindOf[t]: the tagger that run t is of
    LanceCasts,     \* sets of actors that take part together (a bound for TLC)
    Null

Kinds == {"quality", "lang", "minhash"}

ASSUME LanceConstants ==
    /\ Collected \subseteq LanceSources
    /\ Tokens \in [Docs -> Nat]
    /\ KindOf \in [Taggers -> Kinds]
    /\ Null \notin Docs \cup LanceSources \cup Chunkers \cup Taggers

VARIABLES
    team,           \* the actors that take part in this behaviour
    rows,           \* the table: chunk_id is the pair of source and seq
    chunk,          \* state of each run of chunks
    tag             \* state of each run of a tagger

lanceVars == <<team, rows, chunk, tag, gatewayVars>>
-----------------------------------------------------------------------------
NewChunk == [pc |-> "new", source |-> Null, doc |-> Null, met |-> {}]

NewTag == [pc |-> "new", source |-> Null, read |-> {}, todo |-> {}, result |-> {}]

RowsOf(s) == {r \in rows : r.source = s}

\* A run between its start and its end.
Running(k) == chunk[k].pc \in {"delete", "add"}

\* The rows of a run: no tag has a value yet.
NewRow(k, w) ==
    [source |-> chunk[k].source, doc |-> chunk[k].doc, run |-> k, seq |-> w.seq,
     from |-> w.from, to |-> w.to, tags |-> [q \in Kinds |-> Null]]

NewRows(k) == {NewRow(k, w) : w \in Windows(Tokens[chunk[k].doc])}

\* collection_id of a source is an integer: of None the run fails.
HasCollection(s) == s \in Collected

\* The collection is looked up and the document is read: the document can be
\* missing, and a source without a collection cannot be chunked at all.
\* Runs that are under way at the same time have met (history).
ChunkRead(k, s) ==
    /\ k \in team
    /\ chunk[k].pc = "new"
    /\ \/ chunk' = [chunk EXCEPT ![k].pc = "failed"]
       \/ /\ HasCollection(s)
          /\ \E d \in Docs \cap team :
                chunk' = [j \in Chunkers |->
                   IF j = k
                   THEN [pc |-> "delete", source |-> s, doc |-> d,
                         met |-> {i \in Chunkers \ {k} : Running(i)}]
                   ELSE [chunk[j] EXCEPT !.met = IF Running(j) THEN @ \cup {k} ELSE @]]
    /\ UNCHANGED <<team, rows, tag, gatewayVars>>

\* Mutation: nothing is deleted.
ChunkDeleteNothing(k) ==
    /\ chunk[k].pc = "delete"
    /\ chunk' = [chunk EXCEPT ![k].pc = "add"]
    /\ UNCHANGED <<team, rows, tag, gatewayVars>>

\* delete(source_id = s AND producer_asset = 'chunks') is a commit of its own.
ChunkDelete(k) ==
    /\ chunk[k].pc = "delete"
    /\ rows' = rows \ RowsOf(chunk[k].source)
    /\ chunk' = [chunk EXCEPT ![k].pc = "add"]
    /\ UNCHANGED <<team, tag, gatewayVars>>

\* add(): a second commit; all rows or none.
ChunkAdd(k) ==
    /\ chunk[k].pc = "add"
    /\ rows' = rows \cup NewRows(k)
    /\ chunk' = [chunk EXCEPT ![k].pc = "done"]
    /\ UNCHANGED <<team, tag, gatewayVars>>

\* A commit raises, its answer is lost, or the process ends: what was committed
\* stays.
ChunkFail(k) ==
    /\ Running(k)
    /\ chunk' = [chunk EXCEPT ![k].pc = IF chunk[k].pc = "add" THEN "emptied" ELSE "failed"]
    /\ UNCHANGED <<team, rows, tag, gatewayVars>>
-----------------------------------------------------------------------------
(* The taggers.                                                            *)

\* What a tagger reads of a row.
ReadOf(r) == [seq |-> r.seq, doc |-> r.doc, run |-> r.run]

\* chunk_id twice among the rows that were read.
Doubled(read) == \E a, b \in read : a # b /\ a.seq = b.seq

\* Without rows there is nothing to write.  The index of attr_minhash refuses a
\* chunk_id that it has already.
TagRead(t, s) ==
    LET read == {ReadOf(r) : r \in RowsOf(s)} IN
    /\ t \in team
    /\ tag[t].pc = "new"
    /\ \/ /\ read = {}
          /\ tag' = [tag EXCEPT ![t].pc = "done"]
       \/ /\ read # {} /\ KindOf[t] = "minhash" /\ Doubled(read)
          /\ tag' = [tag EXCEPT ![t].pc = "failed"]
       \/ /\ read # {} /\ ~(KindOf[t] = "minhash" /\ Doubled(read))
          /\ tag' = [tag EXCEPT ![t] = [pc |-> "score", source |-> s, read |-> read,
                                        todo |-> read, result |-> {}]]
    /\ UNCHANGED <<team, rows, chunk, gatewayVars>>

\* Scores count halves: the content as a float, and max(0.0, min(1.0, x)) of it.
\* min(1.0, nan) is 1.0 in Python.
Float == [c \in {"half", "above", "nan"} |-> CASE c = "half" -> 1 [] OTHER -> 3]

\* Mutation: only negative scores are clamped.
ClampBelow(x) == IF x < 0 THEN 0 ELSE x

Clamp(x) == IF x > 2 THEN 2 ELSE IF x < 0 THEN 0 ELSE x

\* Mutation: a failure gets the score of an average text.
ScoredNeutral(answer) ==
    IF answer \in DOMAIN Float THEN [score |-> Clamp(Float[answer]), error |-> FALSE]
    ELSE [score |-> 1, error |-> TRUE]

\* What is stored for an answer: every failure is a score of 0.0 by "error".
Scored(answer) ==
    IF answer \in DOMAIN Float THEN [score |-> Clamp(Float[answer]), error |-> FALSE]
    ELSE [score |-> 0, error |-> TRUE]

\* A value of a column: the text it was computed from, the run, and the score.
Value(t, a, scored) ==
    [by |-> t, doc |-> a.doc, seq |-> a.seq, score |-> scored.score, error |-> scored.error]

\* Mutation: the scores go to the rows in another order.
QualityCallShifted(t, a) ==
    /\ tag[t].pc = "score" /\ KindOf[t] = "quality"
    /\ a \in tag[t].todo
    /\ \E answer \in Answers, b \in tag[t].read :
          /\ Post(answer)
          /\ tag' = [tag EXCEPT ![t].todo = @ \ {a},
                                ![t].result = @ \cup {<<a.seq, Value(t, b, Scored(answer))>>}]
    /\ UNCHANGED <<team, rows, chunk>>

\* One call for each row, one after the other; a failure does not end the batch.
QualityCall(t, a) ==
    /\ tag[t].pc = "score" /\ KindOf[t] = "quality"
    /\ a \in tag[t].todo
    /\ \E answer \in Answers :
          /\ Post(answer)
          /\ tag' = [tag EXCEPT ![t].todo = @ \ {a},
                                ![t].result = @ \cup {<<a.seq, Value(t, a, Scored(answer))>>}]
    /\ UNCHANGED <<team, rows, chunk>>

\* The other taggers compute all values in the process; none of them fails.
TagCompute(t) ==
    /\ tag[t].pc = "score" /\ KindOf[t] # "quality" /\ tag[t].todo # {}
    /\ tag' = [tag EXCEPT ![t].todo = {},
                          ![t].result = {<<a.seq, Value(t, a, [score |-> 0, error |-> FALSE])>> :
                                            a \in tag[t].read}]
    /\ UNCHANGED <<team, rows, chunk, gatewayVars>>

\* A row with one of the columns replaced.
Retag(r, q, value) == [r EXCEPT !.tags = [@ EXCEPT ![q] = value]]

\* The values that a result holds for a row.
ValuesFor(t, r) ==
    {pair[2] : pair \in {p \in tag[t].result : r.source = tag[t].source /\ p[1] = r.seq}}

\* Mutation: rows that are gone come back.
TagMergeUpsert(t) ==
    /\ tag[t].pc = "score" /\ tag[t].todo = {}
    /\ ~Doubled(tag[t].read)
    /\ LET gone == {a \in tag[t].read : \A r \in RowsOf(tag[t].source) : r.seq # a.seq} IN
       rows' = {IF ValuesFor(t, r) = {} THEN r
                ELSE Retag(r, KindOf[t], CHOOSE v \in ValuesFor(t, r) : TRUE) : r \in rows}
          \cup {Retag([source |-> tag[t].source, doc |-> a.doc, run |-> a.run, seq |-> a.seq,
                       from |-> 1, to |-> 1, tags |-> [q \in Kinds |-> Null]], KindOf[t],
                      CHOOSE v \in {p[2] : p \in {x \in tag[t].result : x[1] = a.seq}} : TRUE) :
                  a \in gone}
    /\ tag' = [tag EXCEPT ![t].pc = "done"]
    /\ UNCHANGED <<team, chunk, gatewayVars>>

\* merge_insert on chunk_id, when matched update all: the rows that are there now
\* get the column, the others and the other columns stay.
TagMerge(t) ==
    /\ tag[t].pc = "score" /\ tag[t].todo = {}
    /\ ~Doubled(tag[t].read)
    /\ rows' = {IF ValuesFor(t, r) = {} THEN r
                ELSE Retag(r, KindOf[t], CHOOSE v \in ValuesFor(t, r) : TRUE) : r \in rows}
    /\ tag' = [tag EXCEPT ![t].pc = "done"]
    /\ UNCHANGED <<team, chunk, gatewayVars>>

\* The commit raises (it does if two values are for one row), or the process ends.
TagFail(t) ==
    /\ tag[t].pc = "score"
    /\ tag' = [tag EXCEPT ![t].pc = "failed"]
    /\ UNCHANGED <<team, rows, chunk, gatewayVars>>
-----------------------------------------------------------------------------
LanceInit ==
    /\ team \in LanceCasts
    /\ rows = {}
    /\ chunk = [k \in Chunkers |-> NewChunk]
    /\ tag = [t \in Taggers |-> NewTag]
    /\ GatewayInit

ChunkNext(k) ==
    \/ \E s \in LanceSources : ChunkRead(k, s)
    \/ ChunkDelete(k) \/ ChunkAdd(k) \/ ChunkFail(k)

TagNext(t) ==
    \/ \E s \in LanceSources : TagRead(t, s)
    \/ \E a \in tag[t].todo : QualityCall(t, a)
    \/ TagCompute(t) \/ TagMerge(t) \/ TagFail(t)

\* Time passes, in behaviours that are about it.
TickNext == "clock" \in team /\ Tick /\ UNCHANGED <<team, rows, chunk, tag>>

\* The API process ends and starts again.
RestartNext == "clock" \in team /\ GatewayRestart /\ UNCHANGED <<team, rows, chunk, tag>>

\* The steps that leave the API process alone.
LanceStep ==
    \/ \E k \in Chunkers : ChunkNext(k)
    \/ \E t \in Taggers : TagNext(t)
    \/ TickNext

LanceNext == LanceStep \/ RestartNext

LanceSpec == LanceInit /\ [][LanceNext]_lanceVars
-----------------------------------------------------------------------------
ChunkPcs == {"new", "delete", "add", "done", "emptied", "failed"}
TagPcs == {"new", "score", "done", "failed"}

Reading == [seq : Nat, doc : Docs, run : Chunkers]
TagValue == [by : Taggers, doc : Docs, seq : Nat, score : 0..2, error : BOOLEAN]
Row == [source : LanceSources, doc : Docs, run : Chunkers, seq : Nat, from : Nat, to : Nat,
        tags : [Kinds -> TagValue \cup {Null}]]

\* The type of each variable; the type of a row is the schema of the table.
LanceTypeOK ==
    /\ team \in LanceCasts
    /\ rows \subseteq Row
    /\ chunk \in [Chunkers -> [pc : ChunkPcs, source : LanceSources \cup {Null},
                               doc : Docs \cup {Null}, met : SUBSET Chunkers]]
    /\ tag \in [Taggers -> [pc : TagPcs, source : LanceSources \cup {Null},
                            read : SUBSET Reading, todo : SUBSET Reading,
                            result : SUBSET (Nat \X TagValue)]]
    /\ mock \in BOOLEAN /\ now \in Nat /\ window \in Seq(Nat) /\ admitted \in Seq(Nat)

\* The windows that the table holds of a run.
Held(k) == {[seq |-> r.seq, from |-> r.from, to |-> r.to] : r \in {x \in rows : x.run = k}}

\* Chunk ids are unique unless two runs for the source were under way at the
\* same time: no other order of commits, failures and taggers leaves two
\* generations of chunks.  And a source that was chunked has chunks, but for a
\* run that is between its two commits or that failed there.
OneGeneration ==
    /\ \A r1, r2 \in rows :
          r1.source = r2.source /\ r1.run # r2.run => r1.run \in chunk[r2.run].met
    /\ \A k \in Chunkers :
          chunk[k].pc = "done" /\ RowsOf(chunk[k].source) = {} =>
              \E j \in Chunkers : chunk[j].source = chunk[k].source
                                    /\ chunk[j].pc \in {"add", "emptied"}

\* Whatever is in the table of a run is the whole text, each token once: no
\* reader ever sees half of a generation.
GenerationsAreWhole ==
    \A k \in Chunkers :
        Held(k) # {} => Tiles(Held(k), Length(Tokens[chunk[k].doc]))

\* A row has the tag of another text only if it was added after the tagger had
\* read the table; a row that the tagger saw gets the value of its own text.
TagsFollowTheRead ==
    \A r \in rows, q \in Kinds :
        r.tags[q] # Null =>
            LET v == r.tags[q] IN
            /\ KindOf[v.by] = q
            /\ v.seq = r.seq
            /\ v.doc = r.doc \/ r.run \notin {a.run : a \in tag[v.by].read}

\* The table without the column of one tagger.
Without(q) == {[r EXCEPT !.tags = [@ EXCEPT ![q] = Null]] : r \in rows}

\* A tagger neither adds nor removes a row, nor changes another tagger's column,
\* even if the rows it has read are gone when it merges.
TaggersKeepRows ==
    [][\A t \in Taggers : tag'[t] # tag[t] => Without(KindOf[t])' = Without(KindOf[t])]_lanceVars
=============================================================================
