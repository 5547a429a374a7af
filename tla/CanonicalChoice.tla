-------------------------- MODULE CanonicalChoice --------------------------
(***************************************************************************)
(* What document_variant promises to its readers: the variants of a source *)
(* are only ever added, and one of them is the canonical one from the      *)
(* first on.  Which one is chosen changes in a single step.                *)
(***************************************************************************)
CONSTANTS
    Sources,
    Variants,
    None

VARIABLES
    known,          \* the variants of each source
    chosen          \* the canonical one, None before the first

vars == <<known, chosen>>
-----------------------------------------------------------------------------
Init ==
    /\ known = [s \in Sources |-> {}]
    /\ chosen = [s \in Sources |-> None]

\* The first variant of a source is chosen, a later one is not.
Add(s, v) ==
    /\ v \notin known[s]
    /\ known' = [known EXCEPT ![s] = @ \cup {v}]
    /\ chosen' = [chosen EXCEPT ![s] = IF known[s] = {} THEN v ELSE @]

Choose(s, v) ==
    /\ v \in known[s]
    /\ chosen' = [chosen EXCEPT ![s] = v]
    /\ UNCHANGED known

Next == \E s \in Sources, v \in Variants : Add(s, v) \/ Choose(s, v)

Spec == Init /\ [][Next]_vars
=============================================================================
