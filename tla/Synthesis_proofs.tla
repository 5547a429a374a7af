--------------------------- MODULE Synthesis_proofs ---------------------------
(***************************************************************************)
(* Theorems about Synthesis, for any number of rows, runs, previews and    *)
(* recipes.  The table and the gateway keep the invariants that            *)
(* LanceChunks_proofs and LlmGateway_proofs state.                         *)
(***************************************************************************)
EXTENDS Synthesis, LanceChunks_proofs

\* Every failure is stored with the score 0.0, in a result as in the table.
ErrorsScoreZero ==
    /\ \A t \in Taggers : \A p \in tag[t].result : p[2].error => p[2].score = 0
    /\ \A r \in rows, q \in Kinds :
          r.tags[q] # Null => (r.tags[q].error => r.tags[q].score = 0)

MakeState ==
    [pc : {"new", "call", "done", "failed"}, recipe : [where : BOOLEAN, fallback : BOOLEAN],
     read : SUBSET Row, todo : SUBSET Row, samples : SUBSET Row, skipped : SUBSET Row,
     train : SUBSET Row, val : SUBSET Row]

PreviewState ==
    [pc : {"new", "call", "done", "failed"}, recipe : [where : BOOLEAN, fallback : BOOLEAN],
     read : SUBSET Row, todo : SUBSET Row, samples : SUBSET Row]

\* No row of read has an error that the recipe filters out.
Filtered(read, recipe) == \A r \in read : recipe.where => ~r.tags["quality"].error

\* What a run of dataset has read is a sample, left out, or still to do; and it
\* leaves out a row only if the recipe allows it.
MakeOK(m) ==
    /\ Filtered(m.read, m.recipe)
    /\ m.samples \cup m.skipped \cup m.todo = m.read
    /\ m.samples \cap m.skipped = {} /\ m.samples \cap m.todo = {} /\ m.skipped \cap m.todo = {}
    /\ m.skipped # {} => m.recipe.fallback
    /\ m.pc = "done" => m.todo = {} /\ m.train \cup m.val = m.samples
    /\ \A r \in m.train : ~IsVal(r)
    /\ \A r \in m.val : IsVal(r)

\* As long as no call of a preview has failed, each row has a sample or a task.
PreviewOK(p) ==
    /\ Filtered(p.read, p.recipe)
    /\ p.samples \subseteq p.read /\ p.todo \subseteq p.read
    /\ p.pc \in {"call", "done"} => p.samples \cup p.todo = p.read
    /\ p.pc = "done" => p.todo = {}

MakesInv ==
    /\ make \in [Makers -> MakeState] /\ preview \in [Previews -> PreviewState]
    /\ \A g \in Makers : MakeOK(make[g])
    /\ \A v \in Previews : PreviewOK(preview[v])

SynthInv == LanceInv /\ ErrorsScoreZero /\ MakesInv
-----------------------------------------------------------------------------
(* Errors in the table.                                                    *)

LEMMA ScoredZero ==
    ASSUME NEW answer \in Answers, Scored(answer).error
    PROVE  Scored(answer).score = 0
BY DEF Scored

\* The result of a tagger changes by values whose errors have the score 0.0.
LEMMA ResultsScoreZero ==
    ASSUME TablesInv, ErrorsScoreZero, NEW t \in Taggers, TagNext(t)
    PROVE  \A u \in Taggers : \A p \in tag'[u].result : p[2].error => p[2].score = 0
<1>1. tag \in [Taggers -> TagState] /\ tag[t] \in TagState
  BY DEF TablesInv, TablesTyped
<1>2. ASSUME \A u \in Taggers \ {t} : tag'[u] = tag[u],
             \A p \in tag'[t].result : p \in tag[t].result \/ (p[2].error => p[2].score = 0)
      PROVE  \A u \in Taggers : \A p \in tag'[u].result : p[2].error => p[2].score = 0
  BY <1>2 DEF ErrorsScoreZero
<1>3. \A u \in Taggers \ {t} : tag'[u] = tag[u]
  BY <1>1 DEF TagNext, TagRead, QualityCall, TagCompute, TagMerge, TagFail
<1>4. \A p \in tag'[t].result : p \in tag[t].result \/ (p[2].error => p[2].score = 0)
  <2>1. ASSUME NEW s \in LanceSources, TagRead(t, s)
        PROVE  tag'[t].result \subseteq tag[t].result
    <3>. DEFINE read == {ReadOf(r) : r \in RowsOf(s)}
    <3>1. \/ tag' = [tag EXCEPT ![t].pc = "done"]
          \/ tag' = [tag EXCEPT ![t].pc = "failed"]
          \/ tag' = [tag EXCEPT ![t] = [pc |-> "score", source |-> s, read |-> read,
                                        todo |-> read, result |-> {}]]
      BY <2>1 DEF TagRead
    <3>. HIDE DEF read
    <3>. QED  BY <1>1, <3>1 DEF TagState
  <2>2. ASSUME NEW a \in tag[t].todo, QualityCall(t, a)
        PROVE  \A p \in tag'[t].result : p \in tag[t].result \/ (p[2].error => p[2].score = 0)
    <3>1. PICK answer \in Answers :
              tag' = [tag EXCEPT ![t].todo = @ \ {a},
                                 ![t].result = @ \cup {<<a.seq, Value(t, a, Scored(answer))>>}]
      BY <2>2 DEF QualityCall
    <3>. DEFINE pair == <<a.seq, Value(t, a, Scored(answer))>>
    <3>2. pair[2].error => pair[2].score = 0
      BY ScoredZero DEF Value
    <3>3. tag' = [tag EXCEPT ![t].todo = @ \ {a}, ![t].result = @ \cup {pair}]
      BY <3>1
    <3>. HIDE DEF pair
    <3>4. tag'[t].result = tag[t].result \cup {pair}
      BY <1>1, <3>3 DEF TagState
    <3>. QED  BY <3>2, <3>4
  <2>3. ASSUME TagCompute(t)
        PROVE  \A p \in tag'[t].result : p[2].error => p[2].score = 0
    <3>. DEFINE z == [score |-> 0, error |-> FALSE]
                result == {<<a.seq, Value(t, a, z)>> : a \in tag[t].read}
    <3>1. tag' = [tag EXCEPT ![t].todo = {}, ![t].result = result]
      BY <2>3 DEF TagCompute
    <3>2. \A p \in result : ~p[2].error
      BY DEF Value
    <3>. HIDE DEF result
    <3>3. tag'[t].result = result
      BY <1>1, <3>1 DEF TagState
    <3>. QED  BY <3>2, <3>3
  <2>4. ASSUME TagMerge(t) \/ TagFail(t)
        PROVE  tag'[t].result = tag[t].result
    BY <1>1, <2>4 DEF TagMerge, TagFail, TagState
  <2>. QED  BY <2>1, <2>2, <2>3, <2>4 DEF TagNext
<1>. QED  BY <1>2, <1>3, <1>4

LEMMA ErrorsStayZero ==
    ASSUME TablesInv, ErrorsScoreZero, TableStep
    PROVE  ErrorsScoreZero'
<1>1. ASSUME NEW r \in rows, NEW q \in Kinds
      PROVE  r.tags[q] # Null => (r.tags[q].error => r.tags[q].score = 0)
  BY DEF ErrorsScoreZero
<1>2. CASE UNCHANGED <<team, rows, chunk, tag>>
  BY <1>2 DEF ErrorsScoreZero
<1>3. ASSUME NEW k \in Chunkers, ChunkNext(k)
      PROVE  ErrorsScoreZero'
  <2>1. tag' = tag
    BY <1>3 DEF ChunkNext, ChunkRead, ChunkDelete, ChunkAdd, ChunkFail
  <2>2. \A x \in rows' : x \in rows \/ \A q \in Kinds : x.tags[q] = Null
    <3>1. CASE ChunkAdd(k)
      <4>1. chunk[k].pc = "add" /\ rows' = rows \cup NewRows(k)
        BY <3>1 DEF ChunkAdd
      <4>. QED  BY <4>1, NewRowFields DEF TablesInv
    <3>. QED  BY <1>3, <3>1 DEF ChunkNext, ChunkRead, ChunkDelete, ChunkFail
  <2>. QED  BY <2>1, <2>2 DEF ErrorsScoreZero
<1>4. ASSUME NEW t \in Taggers, TagNext(t)
      PROVE  ErrorsScoreZero'
  <2>1. \A u \in Taggers : \A p \in tag'[u].result : p[2].error => p[2].score = 0
    BY <1>4, ResultsScoreZero
  <2>2. ASSUME NEW x \in rows', NEW q \in Kinds, x.tags[q] # Null
        PROVE  x.tags[q].error => x.tags[q].score = 0
    <3>1. CASE rows' = rows
      BY <1>1, <2>2, <3>1
    <3>2. CASE TagMerge(t)
      <4>1. PICK r \in rows : x.tags[q] = r.tags[q] \/ x.tags[q] \in ValuesFor(t, r)
        BY <3>2, MergedRows DEF TablesInv
      <4>2. ASSUME x.tags[q] \in ValuesFor(t, r)
            PROVE  \E p \in tag[t].result : x.tags[q] = p[2]
        BY <4>2 DEF ValuesFor
      <4>. QED  BY <1>1, <2>2, <4>1, <4>2 DEF ErrorsScoreZero
    <3>. QED  BY <1>4, <3>1, <3>2 DEF TagNext, TagRead, QualityCall, TagCompute, TagFail
  <2>. QED  BY <2>1, <2>2 DEF ErrorsScoreZero
<1>. QED  BY <1>2, <1>3, <1>4 DEF TableStep

\* A failed scoring never passes the filter of a recipe.
LEMMA PassedRows ==
    ASSUME TablesInv, ErrorsScoreZero, NEW recipe, NEW r \in rows, Passes(r, recipe), recipe.where
    PROVE  ~r.tags["quality"].error
<1>1. r.tags["quality"] # Null /\ r.tags["quality"].score > 0
  BY DEF Passes
<1>2. "quality" \in Kinds
  BY DEF Kinds
<1>. QED  BY <1>1, <1>2 DEF ErrorsScoreZero
-----------------------------------------------------------------------------
(* Datasets and previews.                                                  *)

LEMMA OneMake ==
    ASSUME MakesInv, NEW g \in Makers, NEW m \in MakeState, MakeOK(m),
           make' = [make EXCEPT ![g] = m], preview' = preview
    PROVE  MakesInv'
<1>1. \A h \in Makers : make'[h] = IF h = g THEN m ELSE make[h]
  BY DEF MakesInv
<1>2. make' \in [Makers -> MakeState]
  BY DEF MakesInv
<1>3. \A h \in Makers : MakeOK(make'[h])
  <2>1. TAKE h \in Makers
  <2>2. CASE h = g
    BY <1>1, <2>2
  <2>3. CASE h # g
    BY <1>1, <2>3 DEF MakesInv
  <2>. QED  BY <2>2, <2>3
<1>4. \A v \in Previews : PreviewOK(preview'[v])
  BY DEF MakesInv
<1>. QED  BY <1>2, <1>3, <1>4 DEF MakesInv, MakeOK, PreviewOK, Filtered, IsVal

LEMMA OnePreview ==
    ASSUME MakesInv, NEW v \in Previews, NEW p \in PreviewState, PreviewOK(p),
           preview' = [preview EXCEPT ![v] = p], make' = make
    PROVE  MakesInv'
<1>1. preview' \in [Previews -> PreviewState]
  BY DEF MakesInv
<1>2. \A u \in Previews : PreviewOK(preview'[u])
  <2>1. TAKE u \in Previews
  <2>2. preview'[u] = IF u = v THEN p ELSE preview[u]
    BY DEF MakesInv
  <2>. QED  BY <2>2 DEF MakesInv
<1>3. \A h \in Makers : MakeOK(make'[h])
  BY DEF MakesInv
<1>. QED  BY <1>1, <1>2, <1>3 DEF MakesInv, MakeOK, PreviewOK, Filtered, IsVal
LEMMA RecipesTyped ==
    ASSUME NEW recipe \in Recipes
    PROVE  recipe \in [where : BOOLEAN, fallback : BOOLEAN]
BY SynthesisConstants

LEMMA PassingRows ==
    ASSUME TablesInv, ErrorsScoreZero, NEW recipe \in Recipes,
           NEW read \in SUBSET {r \in rows : Passes(r, recipe)}
    PROVE  read \subseteq Row /\ Filtered(read, recipe)
<1>1. \A r \in read : r \in rows /\ Passes(r, recipe)
  OBVIOUS
<1>2. rows \subseteq Row
  BY DEF TablesInv, TablesTyped
<1>. QED  BY <1>1, <1>2, PassedRows DEF Filtered

LEMMA MakeReadKeeps ==
    ASSUME SynthInv, NEW g \in Makers, MakeRead(g)
    PROVE  MakesInv'
<1>1. MakesInv /\ TablesInv /\ ErrorsScoreZero
  BY DEF SynthInv, LanceInv
<1>2. PICK recipe \in Recipes :
          make' = [make EXCEPT ![g] = [NewMake EXCEPT !.pc = "call", !.recipe = recipe,
                       !.read = {r \in rows : Passes(r, recipe)},
                       !.todo = {r \in rows : Passes(r, recipe)}]]
  BY DEF MakeRead
<1>. DEFINE read == {r \in rows : Passes(r, recipe)}
            m == [NewMake EXCEPT !.pc = "call", !.recipe = recipe, !.read = read, !.todo = read]
<1>3. read \subseteq Row /\ Filtered(read, recipe)
  BY <1>1, PassingRows
<1>4. make' = [make EXCEPT ![g] = m] /\ preview' = preview
  BY <1>2 DEF MakeRead
<1>. HIDE DEF read
<1>5. /\ m.pc = "call" /\ m.recipe = recipe /\ m.read = read /\ m.todo = read
      /\ m.samples = {} /\ m.skipped = {} /\ m.train = {} /\ m.val = {}
      /\ m \in MakeState
  BY <1>3, RecipesTyped DEF NewMake, MakeState
<1>. HIDE DEF m
<1>6. MakeOK(m)
  BY <1>3, <1>5 DEF MakeOK
<1>. QED  BY <1>1, <1>4, <1>5, <1>6, OneMake

LEMMA MakeCallKeeps ==
    ASSUME SynthInv, NEW g \in Makers, NEW r \in make[g].todo, MakeCall(g, r)
    PROVE  MakesInv'
<1>1. MakesInv /\ make[g] \in MakeState /\ MakeOK(make[g]) /\ preview' = preview
  BY DEF SynthInv, MakesInv, MakeCall
<1>2. make[g].pc = "call" /\ r \in Row
  BY <1>1 DEF MakeCall, MakeState
<1>. DEFINE m1 == [make[g] EXCEPT !.todo = @ \ {r}, !.samples = @ \cup {r}]
            m2 == [make[g] EXCEPT !.todo = @ \ {r}, !.skipped = @ \cup {r}]
            m3 == [make[g] EXCEPT !.pc = "failed"]
<1>3. \/ make' = [make EXCEPT ![g] = m1]
      \/ make[g].recipe.fallback /\ make' = [make EXCEPT ![g] = m2]
      \/ make' = [make EXCEPT ![g] = m3]
  BY DEF MakeCall
<1>4. /\ m1 \in MakeState /\ m1.pc = "call" /\ m1.recipe = make[g].recipe
      /\ m1.read = make[g].read /\ m1.todo = make[g].todo \ {r}
      /\ m1.samples = make[g].samples \cup {r} /\ m1.skipped = make[g].skipped
      /\ m1.train = make[g].train /\ m1.val = make[g].val
  BY <1>1, <1>2 DEF MakeState
<1>5. /\ m2 \in MakeState /\ m2.pc = "call" /\ m2.recipe = make[g].recipe
      /\ m2.read = make[g].read /\ m2.todo = make[g].todo \ {r}
      /\ m2.samples = make[g].samples /\ m2.skipped = make[g].skipped \cup {r}
      /\ m2.train = make[g].train /\ m2.val = make[g].val
  BY <1>1, <1>2 DEF MakeState
<1>6. /\ m3 \in MakeState /\ m3.pc = "failed" /\ m3.recipe = make[g].recipe
      /\ m3.read = make[g].read /\ m3.todo = make[g].todo
      /\ m3.samples = make[g].samples /\ m3.skipped = make[g].skipped
      /\ m3.train = make[g].train /\ m3.val = make[g].val
  BY <1>1 DEF MakeState
<1>. HIDE DEF m1, m2, m3
<1>7. MakeOK(m1)
  BY <1>1, <1>4 DEF MakeOK
<1>8. make[g].recipe.fallback => MakeOK(m2)
  BY <1>1, <1>5 DEF MakeOK
<1>9. MakeOK(m3)
  BY <1>1, <1>6 DEF MakeOK
<1>. QED  BY <1>1, <1>3, <1>4, <1>5, <1>6, <1>7, <1>8, <1>9, OneMake

\* deterministic_split puts each sample into one part, by its chunk_id alone.
LEMMA MakeSplitKeeps ==
    ASSUME SynthInv, NEW g \in Makers, MakeSplit(g)
    PROVE  MakesInv'
<1>1. MakesInv /\ make[g] \in MakeState /\ MakeOK(make[g])
  BY DEF SynthInv, MakesInv
<1>. DEFINE val == {r \in make[g].samples : IsVal(r)}
            train == {r \in make[g].samples : ~IsVal(r)}
            m == [make[g] EXCEPT !.pc = "done", !.val = val, !.train = train]
<1>2. preview' = preview /\ make[g].todo = {} /\ make' = [make EXCEPT ![g] = m]
  BY DEF MakeSplit
<1>3. /\ val \subseteq Row /\ train \subseteq Row /\ train \cup val = make[g].samples
      /\ \A r \in train : ~IsVal(r)
      /\ \A r \in val : IsVal(r)
  BY <1>1 DEF MakeState
<1>. HIDE DEF val, train
<1>4. /\ m \in MakeState /\ m.pc = "done" /\ m.recipe = make[g].recipe
      /\ m.read = make[g].read /\ m.todo = make[g].todo
      /\ m.samples = make[g].samples /\ m.skipped = make[g].skipped
      /\ m.train = train /\ m.val = val
  BY <1>1, <1>3 DEF MakeState
<1>. HIDE DEF m
<1>5. MakeOK(m)
  BY <1>1, <1>2, <1>3, <1>4 DEF MakeOK
<1>. QED  BY <1>1, <1>2, <1>4, <1>5, OneMake

LEMMA PreviewReadKeeps ==
    ASSUME SynthInv, NEW v \in Previews, PreviewRead(v)
    PROVE  MakesInv'
<1>1. /\ MakesInv /\ TablesInv /\ ErrorsScoreZero /\ make' = make
      /\ preview[v] \in PreviewState /\ PreviewOK(preview[v])
  BY DEF SynthInv, LanceInv, MakesInv, PreviewRead
<1>2. ASSUME preview' = [preview EXCEPT ![v].pc = "failed"]
      PROVE  MakesInv'
  <2>. DEFINE p == [preview[v] EXCEPT !.pc = "failed"]
  <2>1. /\ p \in PreviewState /\ p.pc = "failed" /\ p.recipe = preview[v].recipe
        /\ p.read = preview[v].read /\ p.todo = preview[v].todo /\ p.samples = preview[v].samples
        /\ preview' = [preview EXCEPT ![v] = p]
    BY <1>1, <1>2 DEF PreviewState
  <2>. HIDE DEF p
  <2>2. PreviewOK(p)
    BY <1>1, <2>1 DEF PreviewOK
  <2>. QED  BY <1>1, <2>1, <2>2, OnePreview
<1>3. ASSUME NEW recipe \in Recipes, NEW read \in SUBSET {r \in rows : Passes(r, recipe)},
             preview' = [preview EXCEPT ![v] =
                 [pc |-> "call", recipe |-> recipe, read |-> read, todo |-> read, samples |-> {}]]
      PROVE  MakesInv'
  <2>. DEFINE p == [pc |-> "call", recipe |-> recipe, read |-> read, todo |-> read, samples |-> {}]
  <2>1. read \subseteq Row /\ Filtered(read, recipe)
    BY <1>1, PassingRows
  <2>2. /\ p \in PreviewState /\ p.pc = "call" /\ p.recipe = recipe
        /\ p.read = read /\ p.todo = read /\ p.samples = {}
        /\ preview' = [preview EXCEPT ![v] = p]
    BY <1>3, <2>1, RecipesTyped DEF PreviewState
  <2>. HIDE DEF p
  <2>3. PreviewOK(p)
    BY <2>1, <2>2 DEF PreviewOK
  <2>. QED  BY <1>1, <2>2, <2>3, OnePreview
<1>. QED  BY <1>2, <1>3 DEF PreviewRead

LEMMA PreviewCallKeeps ==
    ASSUME SynthInv, NEW v \in Previews, NEW r \in preview[v].todo, PreviewCall(v, r)
    PROVE  MakesInv'
<1>1. MakesInv /\ make' = make /\ preview[v] \in PreviewState /\ PreviewOK(preview[v]) /\ r \in Row
  BY DEF SynthInv, MakesInv, PreviewCall, PreviewState
<1>. DEFINE p1 == [preview[v] EXCEPT !.todo = @ \ {r}, !.samples = @ \cup {r}]
            p2 == [preview[v] EXCEPT !.todo = @ \ {r}, !.pc = "failed"]
<1>2. preview' = [preview EXCEPT ![v] = p1] \/ preview' = [preview EXCEPT ![v] = p2]
  <2>1. PICK sampled \in BOOLEAN :
            preview' = [preview EXCEPT ![v].todo = @ \ {r},
                                       ![v].samples = IF sampled THEN @ \cup {r} ELSE @,
                                       ![v].pc = IF sampled THEN @ ELSE "failed"]
    BY DEF PreviewCall
  <2>2. CASE sampled
    BY <1>1, <2>1, <2>2 DEF MakesInv, PreviewState
  <2>3. CASE ~sampled
    BY <1>1, <2>1, <2>3 DEF MakesInv, PreviewState
  <2>. QED  BY <2>2, <2>3
<1>3. /\ p1 \in PreviewState /\ p1.pc = preview[v].pc /\ p1.recipe = preview[v].recipe
      /\ p1.read = preview[v].read /\ p1.todo = preview[v].todo \ {r}
      /\ p1.samples = preview[v].samples \cup {r}
  BY <1>1 DEF PreviewState
<1>4. /\ p2 \in PreviewState /\ p2.pc = "failed" /\ p2.recipe = preview[v].recipe
      /\ p2.read = preview[v].read /\ p2.todo = preview[v].todo \ {r}
      /\ p2.samples = preview[v].samples
  BY <1>1 DEF PreviewState
<1>. HIDE DEF p1, p2
<1>5. PreviewOK(p1)
  BY <1>1, <1>3 DEF PreviewOK
<1>6. PreviewOK(p2)
  BY <1>1, <1>4 DEF PreviewOK
<1>. QED  BY <1>1, <1>2, <1>3, <1>4, <1>5, <1>6, OnePreview

LEMMA PreviewAnswerKeeps ==
    ASSUME SynthInv, NEW v \in Previews, PreviewAnswer(v)
    PROVE  MakesInv'
<1>1. MakesInv /\ make' = make /\ preview[v] \in PreviewState /\ PreviewOK(preview[v])
  BY DEF SynthInv, MakesInv, PreviewAnswer
<1>. DEFINE p == [preview[v] EXCEPT !.pc = "done"]
<1>2. /\ p \in PreviewState /\ p.pc = "done" /\ p.recipe = preview[v].recipe
      /\ p.read = preview[v].read /\ p.todo = preview[v].todo /\ p.samples = preview[v].samples
      /\ preview' = [preview EXCEPT ![v] = p]
      /\ preview[v].pc = "call" /\ preview[v].todo = {}
  BY <1>1 DEF PreviewState, PreviewAnswer
<1>. HIDE DEF p
<1>3. PreviewOK(p)
  BY <1>1, <1>2 DEF PreviewOK
<1>. QED  BY <1>1, <1>2, <1>3, OnePreview

LEMMA PreviewsEndKeeps ==
    ASSUME SynthInv, PreviewsEnd
    PROVE  MakesInv'
<1>1. MakesInv /\ make' = make
  BY DEF SynthInv, PreviewsEnd
<1>2. ASSUME NEW v \in Previews
      PROVE  preview'[v] \in PreviewState /\ PreviewOK(preview'[v])
  <2>1. preview[v] \in PreviewState /\ PreviewOK(preview[v])
    BY <1>1 DEF MakesInv
  <2>2. CASE preview[v].pc = "new"
    BY <2>1, <2>2 DEF PreviewsEnd
  <2>3. CASE preview[v].pc # "new"
    <3>. DEFINE pc == IF preview[v].pc = "call" THEN "failed" ELSE preview[v].pc
                p == [preview[v] EXCEPT !.todo = {}, !.pc = pc]
    <3>1. preview'[v] = p
      BY <2>3 DEF PreviewsEnd
    <3>2. pc \in {"failed", "done"} /\ (pc = "done" => preview[v].pc = "done")
      BY <2>1, <2>3 DEF PreviewState
    <3>. HIDE DEF pc
    <3>3. /\ p \in PreviewState /\ p.pc = pc /\ p.recipe = preview[v].recipe
          /\ p.read = preview[v].read /\ p.todo = {} /\ p.samples = preview[v].samples
      BY <2>1, <3>2 DEF PreviewState
    <3>. HIDE DEF p
    <3>4. PreviewOK(p)
      BY <2>1, <3>2, <3>3 DEF PreviewOK
    <3>. QED  BY <3>1, <3>3, <3>4
  <2>. QED  BY <2>2, <2>3
<1>3. preview' \in [Previews -> PreviewState]
  BY <1>2 DEF PreviewsEnd
<1>4. \A g \in Makers : MakeOK(make'[g])
  BY <1>1 DEF MakesInv
<1>5. \A v \in Previews : PreviewOK(preview'[v])
  BY <1>2
<1>. QED  BY <1>1, <1>3, <1>4, <1>5 DEF MakesInv, MakeOK, PreviewOK, Filtered, IsVal

LEMMA QuietMakes ==
    ASSUME MakesInv, UNCHANGED <<make, preview>>
    PROVE  MakesInv'
BY DEF MakesInv, MakeOK, PreviewOK, Filtered, IsVal
-----------------------------------------------------------------------------
(* The invariant.                                                          *)

\* The table is left alone, and a call is made that the limiter counts.
LEMMA OthersCall ==
    ASSUME LanceInv, NEW answer, Post(answer), UNCHANGED <<team, rows, chunk, tag>>
    PROVE  LanceInv' /\ TableStep
<1>1. TableStep
  BY DEF TableStep
<1>. QED  BY <1>1, TableStepKeeps, PostKeeps DEF LanceInv

LEMMA LanceUnchanged ==
    ASSUME LanceInv, UNCHANGED lanceVars
    PROVE  LanceInv' /\ TableStep
BY LanceQuiet DEF lanceVars, TableStep

\* What the steps of Synthesis are to the table and the gateway.
LEMMA SynthStepLance ==
    ASSUME LanceInv, SynthNext \/ UNCHANGED synthVars
    PROVE  LanceInv' /\ TableStep
<1>1. CASE LanceStep
  BY <1>1, LanceStepKeeps
<1>2. CASE PreviewsEnd
  BY <1>2, RestartKeeps DEF PreviewsEnd
<1>3. ASSUME NEW g \in Makers, MakeNext(g) PROVE LanceInv' /\ TableStep
  <2>1. CASE MakeRead(g) \/ MakeSplit(g)
    BY <2>1, LanceUnchanged DEF MakeRead, MakeSplit
  <2>2. ASSUME NEW r \in make[g].todo, MakeCall(g, r) PROVE LanceInv' /\ TableStep
    BY <2>2, OthersCall DEF MakeCall
  <2>. QED  BY <1>3, <2>1, <2>2 DEF MakeNext
<1>4. ASSUME NEW v \in Previews, PreviewNext(v) PROVE LanceInv' /\ TableStep
  <2>1. CASE PreviewRead(v) \/ PreviewAnswer(v)
    BY <2>1, LanceUnchanged DEF PreviewRead, PreviewAnswer
  <2>2. ASSUME NEW r \in preview[v].todo, PreviewCall(v, r) PROVE LanceInv' /\ TableStep
    BY <2>2, OthersCall DEF PreviewCall, Post
  <2>. QED  BY <1>4, <2>1, <2>2 DEF PreviewNext
<1>5. CASE UNCHANGED synthVars
  BY <1>5, LanceUnchanged DEF synthVars
<1>. QED  BY <1>1, <1>2, <1>3, <1>4, <1>5 DEF SynthNext

LEMMA SynthStepMakes ==
    ASSUME SynthInv, SynthNext \/ UNCHANGED synthVars
    PROVE  MakesInv'
<1>1. MakesInv
  BY DEF SynthInv
<1>2. CASE UNCHANGED <<make, preview>>
  BY <1>1, <1>2, QuietMakes
<1>3. ASSUME NEW g \in Makers, MakeNext(g) PROVE MakesInv'
  BY <1>3, MakeReadKeeps, MakeCallKeeps, MakeSplitKeeps DEF MakeNext
<1>4. ASSUME NEW v \in Previews, PreviewNext(v) PROVE MakesInv'
  BY <1>4, PreviewReadKeeps, PreviewCallKeeps, PreviewAnswerKeeps DEF PreviewNext
<1>. QED  BY <1>2, <1>3, <1>4, PreviewsEndKeeps DEF SynthNext, synthVars

LEMMA SynthStart ==
    ASSUME SynthInit
    PROVE  SynthInv
<1>1. LanceInv
  BY LanceStart DEF SynthInit
<1>2. /\ rows = {} /\ tag = [t \in Taggers |-> NewTag] /\ NewTag.result = {}
      /\ make = [g \in Makers |-> NewMake] /\ preview = [v \in Previews |-> NewPreview]
  BY DEF SynthInit, LanceInit, NewTag
<1>3. ErrorsScoreZero
  BY <1>2 DEF ErrorsScoreZero
<1>4. NewMake \in MakeState /\ MakeOK(NewMake)
  BY DEF NewMake, NoRecipe, MakeState, MakeOK, Filtered
<1>5. NewPreview \in PreviewState /\ PreviewOK(NewPreview)
  BY DEF NewPreview, NoRecipe, PreviewState, PreviewOK, Filtered
<1>6. MakesInv
  BY <1>2, <1>4, <1>5 DEF MakesInv
<1>. QED  BY <1>1, <1>3, <1>6 DEF SynthInv

LEMMA SynthInvariant == SynthSpec => []SynthInv
<1>1. SynthInit => SynthInv
  BY SynthStart
<1>2. SynthInv /\ [SynthNext]_synthVars => SynthInv'
  BY SynthStepLance, SynthStepMakes, ErrorsStayZero DEF SynthInv, LanceInv
<1>. QED  BY <1>1, <1>2, PTL DEF SynthSpec
-----------------------------------------------------------------------------
LEMMA ErrorsOut ==
    ASSUME SynthInv
    PROVE  ErrorsAreFilteredOut
<1>1. \A g \in Makers : make[g].samples \subseteq make[g].read /\ Filtered(make[g].read, make[g].recipe)
  BY DEF SynthInv, MakesInv, MakeOK
<1>2. \A v \in Previews :
         preview[v].samples \subseteq preview[v].read /\ Filtered(preview[v].read, preview[v].recipe)
  BY DEF SynthInv, MakesInv, PreviewOK
<1>. QED  BY <1>1, <1>2 DEF ErrorsAreFilteredOut, Filtered

LEMMA SamplesAccounted ==
    ASSUME SynthInv
    PROVE  SamplesAreAccountedFor
<1>1. \A g \in Makers : MakeOK(make[g])
  BY DEF SynthInv, MakesInv
<1>2. ASSUME NEW g \in Makers, make[g].pc = "done"
      PROVE  /\ make[g].train \cup make[g].val = make[g].read \ make[g].skipped
             /\ make[g].skipped # {} => make[g].recipe.fallback
  BY <1>1, <1>2 DEF MakeOK
<1>3. ASSUME NEW v \in Previews, preview[v].pc = "done"
      PROVE  preview[v].samples = preview[v].read
  BY <1>3 DEF SynthInv, MakesInv, PreviewOK
<1>4. ASSUME NEW g \in Makers, NEW h \in Makers, NEW a \in make[g].train, NEW b \in make[h].val
      PROVE  ChunkId(a) # ChunkId(b)
  <2>1. ~IsVal(a) /\ IsVal(b)
    BY <1>1 DEF MakeOK
  <2>. QED  BY <2>1 DEF IsVal, ChunkId
<1>. QED  BY <1>2, <1>3, <1>4 DEF SamplesAreAccountedFor

\* No sample of a recipe that filters by quality comes from a chunk whose scoring
\* failed: score_chunks_via_gateway stores 0.0 for every failure.
THEOREM NoErrors == SynthSpec => []ErrorsAreFilteredOut
<1>1. SynthInv => ErrorsAreFilteredOut
  BY ErrorsOut
<1>. QED  BY <1>1, SynthInvariant, PTL

\* Each chunk that was read is a sample or left out by a recipe that allows it,
\* and no chunk_id is on both sides of the split, whichever runs wrote it.
THEOREM Accounted == SynthSpec => []SamplesAreAccountedFor
<1>1. SynthInv => SamplesAreAccountedFor
  BY SamplesAccounted
<1>. QED  BY <1>1, SynthInvariant, PTL

\* The datasets and previews that read the table and share the gateway leave
\* what LanceChunks_proofs shows of both as it is.
THEOREM TableAmongReaders ==
    SynthSpec => [](/\ LanceTypeOK /\ OneGeneration /\ GenerationsAreWhole
                    /\ TagsFollowTheRead /\ RateLimit)
<1>1. SynthInv => /\ LanceTypeOK /\ OneGeneration /\ GenerationsAreWhole
                  /\ TagsFollowTheRead /\ RateLimit
  BY LanceTypes, WholeHeld
     DEF SynthInv, LanceInv, TablesInv, Generations, TagsKnown, GatewayInv
<1>. QED  BY <1>1, SynthInvariant, PTL

\* Whoever reads the table meanwhile, a tagger changes its own column only.
THEOREM ColumnsAmongReaders == SynthSpec => TaggersKeepRows
<1>1. SynthInv /\ [SynthNext]_synthVars =>
         [\A t \in Taggers : tag'[t] # tag[t] =>
             Without(KindOf[t])' = Without(KindOf[t])]_lanceVars
  BY SynthStepLance, TaggersKeepRowsStep DEF SynthInv, LanceInv
<1>. QED  BY <1>1, SynthInvariant, PTL DEF SynthSpec, TaggersKeepRows
=============================================================================
