-------------------------- MODULE BatchPipeline --------------------------
(***************************************************************************)
(* The staged catalog refresh.  Download runs fetch one vendor CSV for a   *)
(* batch of registry sets and stage it in object storage; ingest runs      *)
(* write a staged file to the catalog and stamp its sets as refreshed.     *)
(* The two kinds of run share one table, catalog_download_batches, which   *)
(* they read and PATCH through separate REST calls: every call is a step   *)
(* here, and whatever a run read in an earlier step may be stale when a    *)
(* later step uses it.                                                     *)
(*                                                                         *)
(* A run that raises (a timed-out call, a failed upload, a killed process) *)
(* leaves the row as it is: Crash.  Time is seen through the leases: a     *)
(* claim is fresh until LeaseExpires, which may hit a run that is still    *)
(* alive unless HonestLeases.                                              *)
(***************************************************************************)
EXTENDS CatalogBatches

CONSTANTS
  DownloadRuns,         \* concurrent runs of download_catalog_batch
  IngestRuns,           \* concurrent runs of ingest_catalog_batch
  Registry,             \* registry_id of the sets in the rotation, a set of numbers
  UidOf,                \* the vendor's console_uid of each registry row
  BatchSize,            \* --batch-size
  MaxQueueDepth,        \* --max-queue-depth
  MaxDownloadAttempts,  \* --max-attempts of the downloader
  MaxIngestAttempts,    \* --max-attempts of the ingester
  HonestLeases,         \* TRUE: no run outlives the 30 minutes of its lease
  MaxBatches,           \* bound: rows ever inserted
  MaxCrashes,           \* bound: runs that die
  MaxExpiries           \* bound: leases that go stale

Batches == 1..MaxBatches

ASSUME BatchPipelineAssumption ==
  /\ Registry \subseteq Nat \ {0}
  /\ IsFiniteSet(Registry)
  /\ BatchSize \in Nat \ {0}
  /\ MaxQueueDepth \in Nat \ {0}
  /\ MaxDownloadAttempts \in Nat
  /\ MaxIngestAttempts \in Nat
  /\ HonestLeases \in BOOLEAN
  /\ MaxBatches \in Nat
  /\ MaxCrashes \in Nat
  /\ MaxExpiries \in Nat

VARIABLES
  \* the table
  created,           \* number of rows inserted; created_at order is batch number order
  status,            \* status of each row
  lease,             \* claimed_at of each row
  booked,            \* registry_ids of each row
  downloadAttempts,
  ingestAttempts,
  cooled,            \* rows created longer ago than the validation cooldown
  \* the bucket, the registry and the catalog
  stored,            \* batches whose object is in the bucket
  clock,             \* time, seen only through the registry's stamps
  refreshedAt,       \* tier3_refreshed_at of each set, 0 for NULL
  written,           \* batches some run wrote to the catalog in full
  \* the processes
  dl,                \* download runs
  ing,               \* ingest runs
  crashes,
  expiries

tableVars == <<created, status, lease, booked, downloadAttempts, ingestAttempts, cooled>>
dataVars == <<stored, clock, refreshedAt, written>>
faultVars == <<crashes, expiries>>
vars == <<tableVars, dataVars, dl, ing, faultVars>>

Rows == 1..created

IdleDownload == [pc |-> "idle", batch |-> 0, attempts |-> 0, sets |-> {}, reap |-> {}]
IdleIngest == [pc |-> "idle", batch |-> 0, seen |-> {}, reap |-> {}]

DownloadPcs == {"idle", "reap", "resume", "claim", "refused", "insert",
                "lease", "slot", "fetch", "validate", "publish"}
IngestPcs == {"idle", "reap", "claim", "write", "stamp", "finish"}

(* A run holds its batch from the moment it took the lease. *)
DownloadHolds(r, b) ==
  dl[r].batch = b /\ dl[r].pc \in {"slot", "fetch", "validate", "publish"}
IngestHolds(r, b) ==
  ing[r].batch = b /\ ing[r].pc \in {"write", "stamp", "finish"}
Held(b) ==
  \/ \E r \in DownloadRuns : DownloadHolds(r, b)
  \/ \E r \in IngestRuns : IngestHolds(r, b)

(* created_at.asc: the first row of a listing, if it has any. *)
Oldest(S) == {b \in S : \A c \in S : b <= c}

\* Mutant: the queue predicate without its timestamp order.
BeforeById(s, t) == s < t

(* claim_due_sets: tier3_refreshed_at NULLS FIRST, then registry_id. *)
Before(s, t) ==
  \/ refreshedAt[s] < refreshedAt[t]
  \/ refreshedAt[s] = refreshedAt[t] /\ s < t
DueClaim(C) ==
  /\ C \subseteq Registry
  /\ \A s \in C, t \in Registry \ C : Before(s, t)
  /\ \/ Cardinality(C) = BatchSize
     \/ C = Registry /\ Cardinality(C) <= BatchSize
(* dedupe_by_console_uid: of rows that share a uid the least refreshed stays. *)
DedupeByUid(C) ==
  {s \in C : \A t \in C \ {s} : UidOf[t] = UidOf[s] => Before(s, t)}
Uids(sets) == {UidOf[s] : s \in sets}

\* Mutant: a refusal leaves no trace the next run can see.
NeverRefused(sets) == FALSE

(* The uid combinations validation refused within the cooldown. *)
RecentlyRefused(sets) ==
  \E b \in Rows \ cooled : status[b] = "validation_failed" /\ Uids(booked[b]) = Uids(sets)

Init ==
  /\ created = 0
  /\ status = [b \in Batches |-> "pending"]
  /\ lease = [b \in Batches |-> "none"]
  /\ booked = [b \in Batches |-> {}]
  /\ downloadAttempts = [b \in Batches |-> 0]
  /\ ingestAttempts = [b \in Batches |-> 0]
  /\ cooled = {}
  /\ stored = {}
  /\ clock = 0
  /\ refreshedAt = [s \in Registry |-> 0]
  /\ written = {}
  /\ dl = [r \in DownloadRuns |-> IdleDownload]
  /\ ing = [r \in IngestRuns |-> IdleIngest]
  /\ crashes = 0
  /\ expiries = 0

(* BatchStore.update: a PATCH by batch_id alone, whatever the row's status. *)
Update(b, newStatus, newLease) ==
  /\ status' = [status EXCEPT ![b] = newStatus]
  /\ lease' = [lease EXCEPT ![b] = newLease]

-----------------------------------------------------------------------------
(* Download runs.                                                          *)

(* reap_stale_leases lists the downloading rows ... *)
DownloadStart(r) ==
  /\ dl[r].pc = "idle"
  /\ dl' = [dl EXCEPT ![r] = [IdleDownload EXCEPT
              !.pc = "reap",
              !.reap = {b \in Rows : status[b] = "downloading" /\ IsLeaseStale(status[b], lease[b])}]]
  /\ UNCHANGED <<tableVars, dataVars, ing, faultVars>>

(* ... and returns those it found stale to pending, one PATCH each. *)
DownloadReap(r) ==
  /\ dl[r].pc = "reap"
  /\ \E b \in Oldest(dl[r].reap) :
     /\ Update(b, RecoveryStatus("downloading"), "none")
     /\ dl' = [dl EXCEPT ![r].reap = @ \ {b}]
  /\ UNCHANGED <<created, booked, downloadAttempts, ingestAttempts, cooled,
                 dataVars, ing, faultVars>>

InPipe == {b \in Rows : status[b] \in QueueDepthStatuses}

(* Backpressure: skip the run when the pipe is full. *)
DownloadCheckDepth(r) ==
  /\ dl[r].pc = "reap" /\ dl[r].reap = {}
  /\ dl' = [dl EXCEPT ![r] = IF Cardinality(InPipe) >= MaxQueueDepth
                             THEN IdleDownload ELSE [@ EXCEPT !.pc = "resume"]]
  /\ UNCHANGED <<tableVars, dataVars, ing, faultVars>>

PendingRows == {b \in Rows : status[b] = "pending"}

(* Resume the oldest pending row, or stop if its attempts are exhausted. *)
DownloadResume(r) ==
  /\ dl[r].pc = "resume"
  /\ \E b \in Oldest(PendingRows) :
     dl' = [dl EXCEPT ![r] =
              IF downloadAttempts[b] >= MaxDownloadAttempts THEN IdleDownload
              ELSE [@ EXCEPT !.pc = "lease", !.batch = b, !.attempts = downloadAttempts[b]]]
  /\ UNCHANGED <<tableVars, dataVars, ing, faultVars>>

DownloadNoPending(r) ==
  /\ dl[r].pc = "resume" /\ PendingRows = {}
  /\ dl' = [dl EXCEPT ![r].pc = "claim"]
  /\ UNCHANGED <<tableVars, dataVars, ing, faultVars>>

DownloadClaimDueSets(r) ==
  /\ dl[r].pc = "claim"
  /\ \E C \in SUBSET Registry :
       /\ DueClaim(C)
       /\ dl' = [dl EXCEPT ![r] = IF C = {} THEN IdleDownload
                                  ELSE [@ EXCEPT !.pc = "refused", !.sets = DedupeByUid(C)]]
  /\ UNCHANGED <<tableVars, dataVars, ing, faultVars>>

(* Stop rather than request a combination refused within the cooldown. *)
DownloadCheckRefused(r) ==
  /\ dl[r].pc = "refused"
  /\ dl' = [dl EXCEPT ![r] = IF RecentlyRefused(@.sets) THEN IdleDownload
                             ELSE [@ EXCEPT !.pc = "insert"]]
  /\ UNCHANGED <<tableVars, dataVars, ing, faultVars>>

DownloadInsert(r) ==
  /\ dl[r].pc = "insert" /\ created < MaxBatches
  /\ created' = created + 1
  /\ booked' = [booked EXCEPT ![created + 1] = dl[r].sets]
  /\ dl' = [dl EXCEPT ![r] = [IdleDownload EXCEPT !.pc = "lease", !.batch = created + 1]]
  /\ UNCHANGED <<status, lease, downloadAttempts, ingestAttempts, cooled,
                 dataVars, ing, faultVars>>

(* The bound on rows: a run that would insert one more ends instead. *)
DownloadBound(r) ==
  /\ dl[r].pc = "insert" /\ created = MaxBatches
  /\ dl' = [dl EXCEPT ![r] = IdleDownload]
  /\ UNCHANGED <<tableVars, dataVars, ing, faultVars>>

(* The lease is taken before the wait for a vendor slot. *)
DownloadLease(r) ==
  /\ dl[r].pc = "lease"
  /\ Update(dl[r].batch, "downloading", "fresh")
  /\ dl' = [dl EXCEPT ![r].pc = "slot"]
  /\ UNCHANGED <<created, booked, downloadAttempts, ingestAttempts, cooled,
                 dataVars, ing, faultVars>>

(* No CSV slot within the wait: hand the row back, charging no attempt. *)
DownloadNoSlot(r) ==
  /\ dl[r].pc = "slot"
  /\ Update(dl[r].batch, "pending", "none")
  /\ dl' = [dl EXCEPT ![r] = IdleDownload]
  /\ UNCHANGED <<created, booked, downloadAttempts, ingestAttempts, cooled,
                 dataVars, ing, faultVars>>

(* Slot granted: charge an attempt, counted from the row as it was read. *)
DownloadCharge(r) ==
  /\ dl[r].pc = "slot"
  /\ downloadAttempts' = [downloadAttempts EXCEPT ![dl[r].batch] = dl[r].attempts + 1]
  /\ dl' = [dl EXCEPT ![r].pc = "fetch"]
  /\ UNCHANGED <<created, status, lease, booked, ingestAttempts, cooled,
                 dataVars, ing, faultVars>>

DownloadFetchFailed(r) ==
  /\ dl[r].pc = "fetch"
  /\ Update(dl[r].batch, "fetch_failed", "none")
  /\ dl' = [dl EXCEPT ![r] = IdleDownload]
  /\ UNCHANGED <<created, booked, downloadAttempts, ingestAttempts, cooled,
                 dataVars, ing, faultVars>>

DownloadFetched(r) ==
  /\ dl[r].pc = "fetch"
  /\ status' = [status EXCEPT ![dl[r].batch] = "downloaded"]
  /\ dl' = [dl EXCEPT ![r].pc = "validate"]
  /\ UNCHANGED <<created, lease, booked, downloadAttempts, ingestAttempts, cooled,
                 dataVars, ing, faultVars>>

(* The vendor answered with another catalog: refuse the file, store nothing. *)
DownloadRefuseFile(r) ==
  /\ dl[r].pc = "validate"
  /\ Update(dl[r].batch, "validation_failed", "none")
  /\ dl' = [dl EXCEPT ![r] = IdleDownload]
  /\ UNCHANGED <<created, booked, downloadAttempts, ingestAttempts, cooled,
                 dataVars, ing, faultVars>>

DownloadUpload(r) ==
  /\ dl[r].pc = "validate"
  /\ stored' = stored \cup {dl[r].batch}
  /\ dl' = [dl EXCEPT ![r].pc = "publish"]
  /\ UNCHANGED <<tableVars, clock, refreshedAt, written, ing, faultVars>>

DownloadPublish(r) ==
  /\ dl[r].pc = "publish"
  /\ Update(dl[r].batch, "validated", "none")
  /\ dl' = [dl EXCEPT ![r] = IdleDownload]
  /\ UNCHANGED <<created, booked, downloadAttempts, ingestAttempts, cooled,
                 dataVars, ing, faultVars>>

DownloadStep(r) ==
  \/ DownloadStart(r) \/ DownloadReap(r) \/ DownloadCheckDepth(r)
  \/ DownloadResume(r) \/ DownloadNoPending(r) \/ DownloadClaimDueSets(r)
  \/ DownloadCheckRefused(r) \/ DownloadInsert(r) \/ DownloadBound(r) \/ DownloadLease(r)
  \/ DownloadNoSlot(r) \/ DownloadCharge(r)
  \/ DownloadFetchFailed(r) \/ DownloadFetched(r)
  \/ DownloadRefuseFile(r) \/ DownloadUpload(r) \/ DownloadPublish(r)

-----------------------------------------------------------------------------
(* Ingest runs.                                                            *)

IngestStart(r) ==
  /\ ing[r].pc = "idle"
  /\ ing' = [ing EXCEPT ![r] = [IdleIngest EXCEPT
               !.pc = "reap",
               !.reap = {b \in Rows : status[b] = "ingesting" /\ IsLeaseStale(status[b], lease[b])}]]
  /\ UNCHANGED <<tableVars, dataVars, dl, faultVars>>

IngestReap(r) ==
  /\ ing[r].pc = "reap"
  /\ \E b \in Oldest(ing[r].reap) :
     /\ Update(b, RecoveryStatus("ingesting"), "none")
     /\ ing' = [ing EXCEPT ![r].reap = @ \ {b}]
  /\ UNCHANGED <<created, booked, downloadAttempts, ingestAttempts, cooled,
                 dataVars, dl, faultVars>>

Candidate(b) == [batch |-> b, status |-> status[b], attempts |-> ingestAttempts[b]]

(* claim_ingestable_batch reads its candidates; exhausted rows are skipped. *)
IngestList(r) ==
  /\ ing[r].pc = "reap" /\ ing[r].reap = {}
  /\ ing' = [ing EXCEPT ![r].pc = "claim",
                        ![r].seen = {Candidate(b) : b \in
                            {c \in Rows : /\ status[c] \in IngestableStatuses
                                          /\ ingestAttempts[c] < MaxIngestAttempts}}]
  /\ UNCHANGED <<tableVars, dataVars, dl, faultVars>>

NextCandidate(r) == {c \in ing[r].seen : \A d \in ing[r].seen : c.batch <= d.batch}

\* Mutant: read, then write unconditionally.
IngestClaimBlind(r) ==
  /\ ing[r].pc = "claim"
  /\ \E c \in NextCandidate(r) :
     /\ Update(c.batch, "ingesting", "fresh")
     /\ ingestAttempts' = [ingestAttempts EXCEPT ![c.batch] = c.attempts + 1]
     /\ ing' = [ing EXCEPT ![r] = [IdleIngest EXCEPT !.pc = "write", !.batch = c.batch]]
  /\ UNCHANGED <<created, booked, downloadAttempts, cooled, dataVars, dl, faultVars>>

(* The claim is a PATCH filtered on the status the candidate was read with. *)
IngestClaim(r) ==
  /\ ing[r].pc = "claim"
  /\ \E c \in NextCandidate(r) :
     IF status[c.batch] = c.status
     THEN /\ Update(c.batch, "ingesting", "fresh")
          /\ ingestAttempts' = [ingestAttempts EXCEPT ![c.batch] = c.attempts + 1]
          /\ ing' = [ing EXCEPT ![r] = [IdleIngest EXCEPT !.pc = "write", !.batch = c.batch]]
     ELSE /\ ing' = [ing EXCEPT ![r].seen = @ \ {c}]
          /\ UNCHANGED <<status, lease, ingestAttempts>>
  /\ UNCHANGED <<created, booked, downloadAttempts, cooled, dataVars, dl, faultVars>>

IngestNothing(r) ==
  /\ ing[r].pc = "claim" /\ ing[r].seen = {}
  /\ ing' = [ing EXCEPT ![r] = IdleIngest]
  /\ UNCHANGED <<tableVars, dataVars, dl, faultVars>>

(* Every chunk of the stored file reached the catalog. *)
IngestWrite(r) ==
  /\ ing[r].pc = "write" /\ ing[r].batch \in stored
  /\ written' = written \cup {ing[r].batch}
  /\ ing' = [ing EXCEPT ![r].pc = "stamp"]
  /\ UNCHANGED <<tableVars, stored, clock, refreshedAt, dl, faultVars>>

\* Mutant: a failed chunk does not keep the run from the stamp.
IngestWriteFailedStamps(r) ==
  /\ ing[r].pc = "write" /\ ing[r].batch \in stored
  /\ ing' = [ing EXCEPT ![r].pc = "stamp"]
  /\ UNCHANGED <<tableVars, dataVars, dl, faultVars>>

(* A chunk failed after its retries: the file stays, the sets stay unstamped. *)
IngestWriteFailed(r) ==
  /\ ing[r].pc = "write" /\ ing[r].batch \in stored
  /\ Update(ing[r].batch, "ingest_failed", "none")
  /\ ing' = [ing EXCEPT ![r] = IdleIngest]
  /\ UNCHANGED <<created, booked, downloadAttempts, ingestAttempts, cooled,
                 dataVars, dl, faultVars>>

(* One timestamp for exactly the sets of the batch. *)
IngestStamp(r) ==
  /\ ing[r].pc = "stamp"
  /\ clock' = clock + 1
  /\ refreshedAt' = [s \in Registry |->
                       IF s \in booked[ing[r].batch] THEN clock + 1 ELSE refreshedAt[s]]
  /\ ing' = [ing EXCEPT ![r].pc = "finish"]
  /\ UNCHANGED <<tableVars, stored, written, dl, faultVars>>

IngestFinish(r) ==
  /\ ing[r].pc = "finish"
  /\ Update(ing[r].batch, "ingested", "none")
  /\ ing' = [ing EXCEPT ![r] = IdleIngest]
  /\ UNCHANGED <<created, booked, downloadAttempts, ingestAttempts, cooled,
                 dataVars, dl, faultVars>>

IngestStep(r) ==
  \/ IngestStart(r) \/ IngestReap(r) \/ IngestList(r) \/ IngestClaim(r)
  \/ IngestNothing(r) \/ IngestWrite(r) \/ IngestWriteFailed(r)
  \/ IngestStamp(r) \/ IngestFinish(r)

-----------------------------------------------------------------------------
(* Faults and the passage of time.                                         *)

Crash ==
  /\ crashes < MaxCrashes
  /\ crashes' = crashes + 1
  /\ \/ \E r \in DownloadRuns : /\ dl[r].pc # "idle"
                                /\ dl' = [dl EXCEPT ![r] = IdleDownload]
                                /\ UNCHANGED ing
     \/ \E r \in IngestRuns : /\ ing[r].pc # "idle"
                              /\ ing' = [ing EXCEPT ![r] = IdleIngest]
                              /\ UNCHANGED dl
  /\ UNCHANGED <<tableVars, dataVars, expiries>>

(* Thirty minutes passed since claimed_at. *)
LeaseExpires(b) ==
  /\ expiries < MaxExpiries
  /\ status[b] \in LeasedStatuses /\ lease[b] = "fresh"
  /\ HonestLeases => ~Held(b)
  /\ lease' = [lease EXCEPT ![b] = "stale"]
  /\ expiries' = expiries + 1
  /\ UNCHANGED <<created, status, booked, downloadAttempts, ingestAttempts, cooled,
                 dataVars, dl, ing, crashes>>

(* Six hours passed since the row was created. *)
CooldownElapses(b) ==
  /\ b \in Rows \ cooled /\ status[b] = "validation_failed"
  /\ cooled' = cooled \cup {b}
  /\ UNCHANGED <<created, status, lease, booked, downloadAttempts, ingestAttempts,
                 dataVars, dl, ing, faultVars>>

Next ==
  \/ \E r \in DownloadRuns : DownloadStep(r)
  \/ \E r \in IngestRuns : IngestStep(r)
  \/ Crash
  \/ \E b \in Rows : LeaseExpires(b) \/ CooldownElapses(b)

Spec == Init /\ [][Next]_vars

(* The cron starts both jobs again and again and a run that lives takes its *)
(* next step; an idle essential job lets a bulk download through sooner or  *)
(* later (SF on the charge, which needs the slot); time passes.             *)
Fairness ==
  /\ \A r \in DownloadRuns : WF_vars(DownloadStep(r)) /\ SF_vars(DownloadCharge(r))
  /\ \A r \in IngestRuns : WF_vars(IngestStep(r))
  /\ \A b \in Batches : WF_vars(LeaseExpires(b))

FairSpec == Spec /\ Fairness

-----------------------------------------------------------------------------
(* Properties.                                                             *)

DownloadRecord == [pc : DownloadPcs, batch : 0..MaxBatches, attempts : Nat,
                   sets : SUBSET Registry, reap : SUBSET Batches]
CandidateRecord == [batch : Batches, status : IngestableStatuses, attempts : Nat]
IngestRecord == [pc : IngestPcs, batch : 0..MaxBatches,
                 seen : SUBSET CandidateRecord, reap : SUBSET Batches]

TableTypeOK ==
  /\ created \in 0..MaxBatches
  /\ status \in [Batches -> AllStatuses]
  /\ lease \in [Batches -> Leases]
  /\ booked \in [Batches -> SUBSET Registry]
  /\ downloadAttempts \in [Batches -> Nat]
  /\ ingestAttempts \in [Batches -> Nat]
  /\ cooled \in SUBSET Batches

DataTypeOK ==
  /\ stored \in SUBSET Batches
  /\ clock \in Nat
  /\ refreshedAt \in [Registry -> Nat]
  /\ written \in SUBSET Batches

(* A run past the choice of a batch works on a row that exists.            *)
DownloadTypeOK ==
  /\ dl \in [DownloadRuns -> DownloadRecord]
  /\ \A r \in DownloadRuns :
       /\ dl[r].pc \in {"lease", "slot", "fetch", "validate", "publish"} => dl[r].batch \in Rows
       /\ dl[r].reap \subseteq Rows

IngestTypeOK ==
  /\ ing \in [IngestRuns -> IngestRecord]
  /\ \A r \in IngestRuns :
       /\ ing[r].pc \in {"write", "stamp", "finish"} => ing[r].batch \in Rows
       /\ ing[r].reap \subseteq Rows
       /\ \A c \in ing[r].seen : c.batch \in Rows

(* Types of the table, the stores and the runs' local state.               *)
TypeOK ==
  /\ TableTypeOK
  /\ DataTypeOK
  /\ DownloadTypeOK
  /\ IngestTypeOK
  /\ crashes \in 0..MaxCrashes
  /\ expiries \in 0..MaxExpiries

(* A row an ingester may be handed, or was handed, always has its object in *)
(* the bucket: whatever reapers and overtaken runs write over the status,   *)
(* they never publish a file that was not uploaded                          *)
(* (catalog_batches.recovery_status: "the file is still in storage").       *)
IngestableIsStored ==
  \A b \in Batches :
    status[b] \in {"validated", "ingesting", "ingested", "ingest_failed"} => b \in stored

(* A set counts as refreshed only if some batch that booked it reached the  *)
(* catalog in full, and an ingested batch did and stamped all its sets      *)
(* (migration 20260908: stamped "ONLY after a clean ingest").               *)
RefreshIsEarned ==
  /\ \A s \in Registry : refreshedAt[s] # 0 => \E b \in written : s \in booked[b]
  /\ \A b \in Rows : status[b] = "ingested" =>
       b \in written /\ \A s \in booked[b] : refreshedAt[s] # 0

(* No two ingest runs work on one batch at a time.                          *)
IngestExclusive ==
  \A r, q \in IngestRuns : r # q =>
    ~ \E b \in Rows : IngestHolds(r, b) /\ IngestHolds(q, b)

(* The compare-and-swap of claim_ingestable_batch alone keeps two ingesters *)
(* off one batch, as long as no lease has gone stale.                       *)
IngestExclusiveWhileLeasesHold == expiries = 0 => IngestExclusive

(* The sets of a batch that is still going somewhere.                       *)
Overlap(b, c) == booked[b] \cap booked[c] # {}
InFlight(b) == status[b] \in InFlightStatuses

(* With one download run at a time and a queue depth of one, a set is       *)
(* booked twice in flight only when the older batch came back for a retry   *)
(* after a failed ingest.                                                   *)
DoubleBookingNeedsRetry ==
  \A b, c \in Rows : b < c /\ InFlight(b) /\ InFlight(c) /\ Overlap(b, c) =>
    ingestAttempts[b] >= 2

(* A combination of uids that validation refused is not fetched and refused *)
(* again within the cooldown, which would burn a vendor slot per tick.      *)
RefusedOnce ==
  \A b, c \in Rows \ cooled :
    /\ b # c
    /\ status[b] = "validation_failed" /\ status[c] = "validation_failed"
    => Uids(booked[b]) # Uids(booked[c])

(* No set is claimed twice for nothing: not while it is under way, and not  *)
(* right after a refusal.                                                   *)
ClaimedOnce == DoubleBookingNeedsRetry /\ RefusedOnce

(* A set that some batch was retried for may be stamped out of turn; a set  *)
(* waits through a step that stamps no registry row of its vendor set.      *)
Overtaken(s) == \E b \in Rows : s \in booked[b] /\ ingestAttempts[b] >= 2
Waits(t) == \A u \in Registry : UidOf[u] = UidOf[t] => refreshedAt'[u] = refreshedAt[u]
TakesTurn ==
  \A s, t \in Registry :
    /\ refreshedAt'[s] # refreshedAt[s]
    /\ refreshedAt[t] < refreshedAt[s] /\ Waits(t)
    => Overtaken(s)

(* The rotation takes turns: a set is refreshed again while another vendor  *)
(* set is still waiting from before only through a batch that was retried.  *)
(* A second registry row of one vendor set is no other set: the dedupe of   *)
(* the claim drops it, and it waits while its twin is refreshed.            *)
RotationInTurn == [][TakesTurn]_vars

(* A row left as downloaded by a run that is gone.                          *)
Abandoned(b) == b \in Rows /\ status[b] = "downloaded" /\ ~Held(b)

(* Why a row may stay in flight for good: its attempts are spent, or it was *)
(* left as downloaded, which no reaper looks at.                            *)
Exhausted(b) ==
  \/ status[b] = "pending" /\ downloadAttempts[b] >= MaxDownloadAttempts
  \/ status[b] = "validated" /\ ingestAttempts[b] >= MaxIngestAttempts
AnyStopped == \E b \in Rows : Exhausted(b) \/ Abandoned(b)

(* Every batch ends in a terminal status unless some batch stopped for good *)
(* in flight, holding up the queue: crashes alone do not lose a batch.      *)
EveryBatchSettles == \A b \in Batches :
  b \in Rows ~> status[b] \in TerminalStatuses \/ AnyStopped
=============================================================================
