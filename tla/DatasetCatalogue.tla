--------------------------- MODULE DatasetCatalogue ---------------------------
(***************************************************************************)
(* What clients of GET /api/datasets may rely on: the table of dataset     *)
(* versions as if POST /api/datasets/{id}/materialize numbered, inserted   *)
(* and published a version in atomic steps.  DatasetMaterialize implements *)
(* it with concurrent requests, runs and crashes.                          *)
(***************************************************************************)
EXTENDS Integers, FiniteSets

CONSTANTS Recipes, Definitions, DatasetIds, BackfillIds, Null

VARIABLE row        \* one record per dataset id

Absent == [status |-> "absent", recipe |-> Null, version |-> 0, snapshot |-> Null,
           run |-> Null]

VersionsOf(r) == {i \in DatasetIds : row[i].status # "absent" /\ row[i].recipe = r}

\* A new version: the number after the last one, and a snapshot that stays.
Create(i, r, d) ==
    /\ row[i].status = "absent"
    /\ row' = [row EXCEPT ![i] =
                  [status |-> "pending", recipe |-> r,
                   version |-> Cardinality(VersionsOf(r)) + 1,
                   snapshot |-> d, run |-> Null]]

\* The client is told the backfill; no two versions share one.
Accept(i, b) ==
    /\ row[i].status \in {"pending", "done"}
    /\ row[i].run = Null
    /\ \A j \in DatasetIds : row[j].run # b
    /\ row' = [row EXCEPT ![i].run = b]

Publish(i) ==
    /\ row[i].status = "pending"
    /\ row' = [row EXCEPT ![i].status = "done"]

\* Only a version no client was told a backfill for can become a tombstone.
Withdraw(i) ==
    /\ row[i].status \in {"pending", "done"}
    /\ row[i].run = Null
    /\ row' = [row EXCEPT ![i].status = "failed"]

Init == row = [i \in DatasetIds |-> Absent]

Next == \E i \in DatasetIds :
    \/ \E r \in Recipes, d \in Definitions : Create(i, r, d)
    \/ \E b \in BackfillIds : Accept(i, b)
    \/ Publish(i)
    \/ Withdraw(i)

Spec == Init /\ [][Next]_row
=============================================================================
