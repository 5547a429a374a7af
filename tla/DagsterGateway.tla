--------------------------- MODULE DagsterGateway ---------------------------
(***************************************************************************)
(* The client side of Dagster's GraphQL API (class DagsterGateway): what   *)
(* one call can do to Dagster's own state and what it tells its caller.    *)
(*                                                                         *)
(* Every method posts one mutation over HTTP with a 10 second timeout and  *)
(* turns a network error, a bad status, a malformed body and an error      *)
(* typename alike into DagsterGatewayError.  The caller therefore cannot   *)
(* tell a mutation that was never executed from one whose answer was lost. *)
(***************************************************************************)
LOCAL INSTANCE Integers

\* "ok": executed and answered.  "refused": not executed, the method raises.
\* "lost": executed, but the answer timed out or was unreadable: it raises too.
CallOutcomes == {"ok", "refused", "lost"}

Raises(o) == o # "ok"

Executed(o) == o # "refused"

\* addDynamicPartition on "dataset_versions".  A duplicate key is a no-op that
\* counts as success.
AddDatasetPartition(registered, key, o) ==
    IF Executed(o) THEN registered \cup {key} ELSE registered

\* Dagster answers PartitionKeysNotFoundError for a key it does not know.
LaunchOutcomes(registered, key) ==
    IF key \in registered THEN CallOutcomes ELSE {"refused"}

\* launchPartitionBackfill of the asset "dataset" for one partition key: b is
\* the backfill id that Dagster allocates when it executes the mutation.
LaunchDatasetBackfill(backfills, b, key, o) ==
    IF Executed(o) THEN [backfills EXCEPT ![b] = key] ELSE backfills

\* addDynamicPartition on "sources": the same mutation and the same rules.
AddSourcePartition(registered, key, o) ==
    IF Executed(o) THEN registered \cup {key} ELSE registered

\* reportRunlessAssetEvents on the asset "source", for one partition key.
ReportSourceMaterialization(reported, key, o) ==
    IF Executed(o) THEN reported \cup {key} ELSE reported

SourceLaunchOutcomes(registered, keys) ==
    IF keys \subseteq registered THEN CallOutcomes ELSE {"refused"}

\* launchPartitionBackfill of one of the source assets (extract_mineru, chunks,
\* attr_quality, attr_lang, attr_minhash) over a set of partition keys.
LaunchSourceBackfill(backfills, b, keys, o) ==
    IF Executed(o) THEN [backfills EXCEPT ![b] = keys] ELSE backfills
=============================================================================
