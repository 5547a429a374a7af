------------------------------ MODULE Synthesis ------------------------------
(***************************************************************************)
(* What the chunks are made into: the body of the asset `dataset`, which   *)
(* asks the LLM gateway for one sample per chunk and splits the samples,   *)
(* and the preview of a recipe, which asks for a few samples at once.      *)
(*                                                                         *)
(* Both read the table of LanceChunks and share its gateway with           *)
(* attr_quality.  Rows, recipe snapshot and writing of a dataset are those *)
(* of DatasetMaterialize.                                                  *)
(***************************************************************************)
EXTENDS LanceChunks

CONSTANTS
    Makers,         \* runs of the asset dataset; each id is used once
    Previews,       \* preview requests; each id is used once
    Samples,        \* n_samples of a preview (3 to 5 in the code)
    Recipes,        \* [where, fallback]: see Passes, and fallback_on_failure
    Bucket(_, _),   \* md5 of the chunk_id of a source and a seq, modulo 100
    Ratio           \* validation ratio of a recipe, in hundredths: int(ratio * 100)

ASSUME SynthesisConstants ==
    /\ Samples \in Nat \ {0} /\ Ratio \in 0..100
    /\ Recipes \subseteq [where : BOOLEAN, fallback : BOOLEAN]

VARIABLES
    make,           \* state of each run of dataset
    preview         \* state of each preview request

synthVars == <<lanceVars, make, preview>>
-----------------------------------------------------------------------------
\* The filter of a recipe: none, or attr_quality_score > 0.4.
Passes(r, recipe) ==
    recipe.where => r.tags["quality"] # Null /\ r.tags["quality"].score > 0

NoRecipe == [where |-> FALSE, fallback |-> TRUE]

NewMake == [pc |-> "new", recipe |-> NoRecipe, read |-> {}, todo |-> {}, samples |-> {},
            skipped |-> {}, train |-> {}, val |-> {}]

NewPreview == [pc |-> "new", recipe |-> NoRecipe, read |-> {}, todo |-> {}, samples |-> {}]

\* The rows that pass the filter now; none is an empty dataset.
MakeRead(g) ==
    /\ g \in team
    /\ make[g].pc = "new"
    /\ \E recipe \in Recipes :
          LET read == {r \in rows : Passes(r, recipe)} IN
          make' = [make EXCEPT ![g] = [NewMake EXCEPT !.pc = "call", !.recipe = recipe,
                                                      !.read = read, !.todo = read]]
    /\ UNCHANGED <<lanceVars, preview>>

\* Mutation: a failed call is left out in every case.
MakeCallSkips(g, r) ==
    /\ make[g].pc = "call"
    /\ r \in make[g].todo
    /\ \E answer \in Answers :
          /\ Post(answer)
          /\ make' = IF answer = "pair"
                     THEN [make EXCEPT ![g].todo = @ \ {r}, ![g].samples = @ \cup {r}]
                     ELSE [make EXCEPT ![g].todo = @ \ {r}]
    /\ UNCHANGED <<team, rows, chunk, tag, preview>>

\* One call per row; anything but an object with both keys is a failure, which
\* leaves the row out or ends the run.
MakeCall(g, r) ==
    /\ make[g].pc = "call"
    /\ r \in make[g].todo
    /\ \E answer \in Answers :
          /\ Post(answer)
          /\ make' =
               IF answer = "pair"
               THEN [make EXCEPT ![g].todo = @ \ {r}, ![g].samples = @ \cup {r}]
               ELSE IF make[g].recipe.fallback
               THEN [make EXCEPT ![g].todo = @ \ {r}, ![g].skipped = @ \cup {r}]
               ELSE [make EXCEPT ![g].pc = "failed"]
    /\ UNCHANGED <<team, rows, chunk, tag, preview>>

IsVal(r) == Bucket(r.source, r.seq) < Ratio

\* Mutation: the split goes by position.
MakeSplitByPosition(g) ==
    /\ make[g].pc = "call" /\ make[g].todo = {}
    /\ \E val \in SUBSET make[g].samples :
          make' = [make EXCEPT ![g].pc = "done", ![g].val = val,
                               ![g].train = make[g].samples \ val]
    /\ UNCHANGED <<lanceVars, preview>>

\* deterministic_split: by the hash of the chunk_id alone.
MakeSplit(g) ==
    /\ make[g].pc = "call" /\ make[g].todo = {}
    /\ make' = [make EXCEPT ![g].pc = "done",
                            ![g].val = {r \in make[g].samples : IsVal(r)},
                            ![g].train = {r \in make[g].samples : ~IsVal(r)}]
    /\ UNCHANGED <<lanceVars, preview>>
-----------------------------------------------------------------------------
(* POST /api/recipes/{id}/preview                                          *)

\* Some n_samples of the rows that pass (limit without an order); 400 if none.
PreviewRead(v) ==
    /\ v \in team
    /\ preview[v].pc = "new"
    /\ \E recipe \in Recipes :
          LET passing == {r \in rows : Passes(r, recipe)} IN
          \/ /\ passing = {}
             /\ preview' = [preview EXCEPT ![v].pc = "failed"]
          \/ \E read \in SUBSET passing \ {{}} :
                /\ \/ Cardinality(read) = Samples
                   \/ read = passing /\ Cardinality(read) < Samples
                /\ preview' = [preview EXCEPT ![v] =
                      [pc |-> "call", recipe |-> recipe, read |-> read, todo |-> read,
                       samples |-> {}]]
    /\ UNCHANGED <<lanceVars, make>>

\* The tasks of asyncio.gather run in any order.  The first failure ends the
\* request; the other tasks go on, and their calls count all the same.
PreviewCall(v, r) ==
    /\ r \in preview[v].todo
    /\ \E answer \in Answers :
          LET sampled == answer = "pair" \/ (answer \in Contents /\ preview[v].recipe.fallback)
          IN  /\ Complete(answer)
              /\ preview' = [preview EXCEPT
                    ![v].todo = @ \ {r},
                    ![v].samples = IF sampled THEN @ \cup {r} ELSE @,
                    ![v].pc = IF sampled THEN @ ELSE "failed"]
    /\ UNCHANGED <<team, rows, chunk, tag, make>>

\* All tasks have returned a sample.
PreviewAnswer(v) ==
    /\ preview[v].pc = "call" /\ preview[v].todo = {}
    /\ preview' = [preview EXCEPT ![v].pc = "done"]
    /\ UNCHANGED <<lanceVars, make>>

\* The API process ends, and the previews and their tasks with it.
PreviewsEnd ==
    /\ RestartNext
    /\ preview' = [v \in Previews |-> IF preview[v].pc = "new" THEN preview[v]
                                     ELSE [preview[v] EXCEPT !.todo = {}, !.pc =
                                             IF @ = "call" THEN "failed" ELSE @]]
    /\ UNCHANGED make
-----------------------------------------------------------------------------
SynthInit ==
    /\ LanceInit
    /\ make = [g \in Makers |-> NewMake]
    /\ preview = [v \in Previews |-> NewPreview]

MakeNext(g) ==
    MakeRead(g) \/ (\E r \in make[g].todo : MakeCall(g, r)) \/ MakeSplit(g)

PreviewNext(v) ==
    PreviewRead(v) \/ (\E r \in preview[v].todo : PreviewCall(v, r)) \/ PreviewAnswer(v)

SynthNext ==
    \/ LanceStep /\ UNCHANGED <<make, preview>>
    \/ PreviewsEnd
    \/ \E g \in Makers : MakeNext(g)
    \/ \E v \in Previews : PreviewNext(v)

SynthSpec == SynthInit /\ [][SynthNext]_synthVars
-----------------------------------------------------------------------------
\* A dataset of a recipe that filters by quality holds no sample of a chunk whose
\* scoring failed, and a preview shows none: an error never passes for a score.
ErrorsAreFilteredOut ==
    /\ \A g \in Makers : \A r \in make[g].samples :
          make[g].recipe.where => ~r.tags["quality"].error
    /\ \A v \in Previews : \A r \in preview[v].samples :
          preview[v].recipe.where => ~r.tags["quality"].error

ChunkId(r) == <<r.source, r.seq>>

\* Every chunk that a dataset run has read is a sample, or was left out because
\* the recipe says so; a preview that is answered has a sample of each chunk.
\* No chunk_id is in both splits, in one dataset or in two of the same ratio,
\* even where the table has the chunk_id twice.
SamplesAreAccountedFor ==
    /\ \A g \in Makers : make[g].pc = "done" =>
          /\ make[g].train \cup make[g].val = make[g].read \ make[g].skipped
          /\ make[g].skipped # {} => make[g].recipe.fallback
    /\ \A v \in Previews : preview[v].pc = "done" => preview[v].samples = preview[v].read
    /\ \A g, h \in Makers : \A a \in make[g].train, b \in make[h].val : ChunkId(a) # ChunkId(b)
=============================================================================
