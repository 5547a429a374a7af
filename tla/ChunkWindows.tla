---------------------------- MODULE ChunkWindows ----------------------------
(***************************************************************************)
(* How fixed_size_chunk cuts a text of n tokens into windows of at most    *)
(* Budget tokens.  Tokens are counted from 1, windows from 0 (seq).        *)
(***************************************************************************)
EXTENDS Integers

CONSTANTS
    Budget,         \* TOKEN_BUDGET (512 in the code)
    FallbackTokens  \* tokens of the name that stands for a text without tokens

ASSUME BudgetIsPositive == Budget \in Nat \ {0} /\ FallbackTokens \in Nat \ {0}
-----------------------------------------------------------------------------
\* A text that encodes to nothing is replaced by the name of its source.
Length(n) == IF n = 0 THEN FallbackTokens ELSE n

\* range(0, n, Budget): the starts are counted instead of added up.
Seqs(n) == {k \in 0..(n - 1) : k * Budget < n}

\* Mutation: the stride is one token short of the budget.
WindowShortStride(k, n) ==
    [seq |-> k, from |-> k * (Budget - 1) + 1,
     to |-> IF (k + 1) * (Budget - 1) < n THEN k * (Budget - 1) + Budget ELSE n]

\* token_ids[start : start + Budget]: the slice ends with the text.
Window(k, n) ==
    [seq |-> k, from |-> k * Budget + 1,
     to |-> IF (k + 1) * Budget < n THEN (k + 1) * Budget ELSE n]

Windows(n) == {Window(k, Length(n)) : k \in Seqs(Length(n))}
-----------------------------------------------------------------------------
\* Every token is in exactly one window, and no window is empty or too long.
Tiles(ws, n) ==
    /\ \A w \in ws : w.from \in 1..w.to /\ w.to \in 1..n /\ w.to - w.from < Budget
    /\ \A i \in 1..n : \E w \in ws : i \in w.from..w.to
    /\ \A v, w \in ws : (\E i \in 1..n : i \in v.from..v.to /\ i \in w.from..w.to) => v = w
=============================================================================
