------------------------- MODULE CatalogBatches -------------------------
(***************************************************************************)
(* The vocabulary of staged catalog batches: the life of one row of        *)
(* catalog_download_batches, which statuses hold a lease, which ones count *)
(* as work in the pipe, and where the reaper returns an abandoned batch.   *)
(***************************************************************************)
EXTENDS Naturals, FiniteSets

AllStatuses == {"pending", "downloading", "downloaded", "validated", "ingesting",
                "ingested", "fetch_failed", "validation_failed", "ingest_failed"}

TerminalStatuses == {"ingested", "fetch_failed", "validation_failed", "ingest_failed"}

InFlightStatuses == AllStatuses \ TerminalStatuses

LeasedStatuses == {"downloading", "ingesting"}

\* Mutants: the files on disk only; the rows yet to be downloaded as well.
QueueDepthFilesOnly == {"downloaded", "validated"}
QueueDepthWithPending == {"pending", "downloading", "downloaded", "validated", "ingesting"}

QueueDepthStatuses == {"downloading", "downloaded", "validated", "ingesting"}

(* What claim_ingestable_batch may take. *)
IngestableStatuses == {"validated", "ingest_failed"}

\* Mutants: one recovery for both leases; no recovery for a download.
RecoveryToValidated(s) == "validated"
RecoveryOfIngestOnly(s) == IF s = "ingesting" THEN "validated" ELSE "none"

(* Where a stale lease returns to; only leased statuses are ever recovered. *)
RecoveryStatus(s) == IF s = "ingesting" THEN "validated" ELSE "pending"

(* claimed_at of a batch, seen through the 30-minute reaper window. *)
Leases == {"none", "fresh", "stale"}

IsLeaseStale(s, lease) == s \in LeasedStatuses /\ lease = "stale"
=============================================================================
