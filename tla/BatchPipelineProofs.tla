----------------------- MODULE BatchPipelineProofs -----------------------
(***************************************************************************)
(* What holds of BatchPipeline for every number of runs, sets and rows.    *)
(***************************************************************************)
EXTENDS BatchPipeline, FiniteSetTheorems, WellFoundedInduction, TLAPS

(* The idle records are records, with no row in hand.                       *)
LEMMA IdleTypes ==
  /\ IdleDownload \in DownloadRecord /\ IdleIngest \in IngestRecord
  /\ IdleDownload.pc = "idle" /\ IdleDownload.reap = {}
  /\ IdleIngest.pc = "idle" /\ IdleIngest.reap = {} /\ IdleIngest.seen = {}
BY BatchPipelineAssumption
   DEF IdleDownload, IdleIngest, DownloadRecord, IngestRecord, DownloadPcs, IngestPcs

(* The rows inserted so far are among the batches the bound allows.         *)
LEMMA RowsAreBatches ==
  ASSUME TableTypeOK PROVE Rows \subseteq Batches /\ Rows \subseteq 0..MaxBatches
BY BatchPipelineAssumption DEF TableTypeOK, Rows, Batches

(* The literals the code writes are statuses and leases of the table.       *)
LEMMA StatusesAndLeases ==
  /\ {"pending", "downloading", "downloaded", "validated", "ingesting", "ingested",
      "fetch_failed", "validation_failed", "ingest_failed"} \subseteq AllStatuses
  /\ {"none", "fresh", "stale"} \subseteq Leases
BY DEF AllStatuses, Leases

(* A PATCH of one row keeps the table well typed.                           *)
LEMMA RowUpdate ==
  ASSUME TableTypeOK, NEW b \in Rows, NEW s \in AllStatuses, NEW l \in Leases,
         Update(b, s, l), UNCHANGED <<created, booked, cooled>>,
         downloadAttempts' \in [Batches -> Nat], ingestAttempts' \in [Batches -> Nat]
  PROVE  TableTypeOK'
BY BatchPipelineAssumption DEF TableTypeOK, Update, Rows, Batches

(* What a run may carry: a row that exists, and rows that exist to reap.    *)
WithRow == {"lease", "slot", "fetch", "validate", "publish"}
DownloadOn(rec, rows) ==
  /\ rec \in DownloadRecord
  /\ rec.pc \in WithRow => rec.batch \in rows
  /\ rec.reap \subseteq rows

(* A step that rewrites one download run well keeps all of them well typed, *)
(* also when it inserts a row.                                              *)
LEMMA DownloadRunStep ==
  ASSUME DownloadTypeOK, TableTypeOK, NEW r \in DownloadRuns, NEW rec,
         DownloadOn(rec, Rows'), dl' = [dl EXCEPT ![r] = rec],
         created' \in {created, created + 1}
  PROVE  DownloadTypeOK'
BY BatchPipelineAssumption DEF DownloadTypeOK, TableTypeOK, Rows, WithRow, DownloadOn

(* A download step that writes neither the table nor the stores keeps the   *)
(* types.                                                                   *)
LEMMA DownloadLocal ==
  ASSUME TypeOK, NEW r \in DownloadRuns, NEW rec, DownloadOn(rec, Rows),
         dl' = [dl EXCEPT ![r] = rec], UNCHANGED <<tableVars, dataVars>>
  PROVE  TableTypeOK' /\ DataTypeOK' /\ DownloadTypeOK'
BY DownloadRunStep DEF TypeOK, tableVars, dataVars, TableTypeOK, DataTypeOK, Rows

(* So does one that PATCHes the status and the lease of one row.            *)
LEMMA DownloadPatch ==
  ASSUME TypeOK, NEW r \in DownloadRuns, NEW rec, DownloadOn(rec, Rows),
         dl' = [dl EXCEPT ![r] = rec],
         NEW b \in Rows, NEW s \in AllStatuses, NEW l \in Leases, Update(b, s, l),
         UNCHANGED <<created, booked, downloadAttempts, ingestAttempts, cooled, dataVars>>
  PROVE  TableTypeOK' /\ DataTypeOK' /\ DownloadTypeOK'
BY DownloadRunStep, RowUpdate DEF TypeOK, dataVars, TableTypeOK, DataTypeOK, Rows

(* Every step of a download run keeps the types: one case per action.       *)
LEMMA DownloadTypes ==
  ASSUME TypeOK, NEW r \in DownloadRuns, DownloadStep(r)
  PROVE  TableTypeOK' /\ DataTypeOK' /\ DownloadTypeOK'
<1>0. /\ dl[r] \in DownloadRecord /\ dl \in [DownloadRuns -> DownloadRecord]
      /\ DownloadOn(dl[r], Rows)
  BY DEF TypeOK, DownloadTypeOK, DownloadOn, WithRow
<1>a. created \in Nat /\ created \in 0..MaxBatches
  BY BatchPipelineAssumption DEF TypeOK, TableTypeOK
<1>b. DownloadOn(IdleDownload, Rows)
  BY IdleTypes DEF DownloadOn, WithRow
<1>1. CASE DownloadStart(r)
  <2> DEFINE stale == {b \in Rows : status[b] = "downloading" /\ IsLeaseStale(status[b], lease[b])}
             rec == [IdleDownload EXCEPT !.pc = "reap", !.reap = stale]
  <2>1. stale \in SUBSET Batches /\ stale \subseteq Rows
    BY RowsAreBatches DEF TypeOK
  <2>2. DownloadOn(rec, Rows)
    <3> HIDE DEF stale
    <3> QED BY <2>1, IdleTypes DEF DownloadRecord, DownloadPcs, DownloadOn, WithRow
  <2>3. QED
    <3> HIDE DEF rec
    <3> QED BY <1>1, <2>2, DownloadLocal DEF DownloadStart, rec
<1>2. CASE DownloadReap(r)
  <2>1. PICK b \in Oldest(dl[r].reap) :
          /\ Update(b, RecoveryStatus("downloading"), "none")
          /\ dl' = [dl EXCEPT ![r].reap = @ \ {b}]
    BY <1>2 DEF DownloadReap
  <2>2. b \in Rows
    BY <1>0 DEF DownloadOn, Oldest
  <2> DEFINE rec == [dl[r] EXCEPT !.reap = @ \ {b}]
  <2>3. DownloadOn(rec, Rows) /\ dl' = [dl EXCEPT ![r] = rec]
    BY <1>0, <2>1 DEF DownloadRecord, DownloadOn
  <2> HIDE DEF rec
  <2>4. QED
    BY <1>2, <2>1, <2>2, <2>3, DownloadPatch, StatusesAndLeases DEF DownloadReap, RecoveryStatus
<1>3. CASE DownloadCheckDepth(r)
  <2> DEFINE rec == IF Cardinality(InPipe) >= MaxQueueDepth
                    THEN IdleDownload ELSE [dl[r] EXCEPT !.pc = "resume"]
  <2>1. DownloadOn(rec, Rows)
    BY <1>0, <1>b DEF DownloadRecord, DownloadPcs, DownloadOn, WithRow
  <2>2. dl' = [dl EXCEPT ![r] = rec] /\ UNCHANGED <<tableVars, dataVars>>
    BY <1>3 DEF DownloadCheckDepth
  <2> HIDE DEF rec
  <2>3. QED
    BY <2>1, <2>2, DownloadLocal
<1>4. CASE DownloadResume(r)
  <2>1. PICK b \in Oldest(PendingRows) :
          dl' = [dl EXCEPT ![r] =
             IF downloadAttempts[b] >= MaxDownloadAttempts THEN IdleDownload
             ELSE [@ EXCEPT !.pc = "lease", !.batch = b, !.attempts = downloadAttempts[b]]]
    BY <1>4 DEF DownloadResume
  <2>2. b \in Rows /\ b \in 0..MaxBatches /\ downloadAttempts[b] \in Nat
    BY RowsAreBatches DEF Oldest, PendingRows, TypeOK, TableTypeOK
  <2> DEFINE rec == IF downloadAttempts[b] >= MaxDownloadAttempts THEN IdleDownload
                    ELSE [dl[r] EXCEPT !.pc = "lease", !.batch = b, !.attempts = downloadAttempts[b]]
  <2>3. DownloadOn(rec, Rows)
    BY <1>0, <1>b, <2>2 DEF DownloadRecord, DownloadPcs, DownloadOn
  <2>4. dl' = [dl EXCEPT ![r] = rec] /\ UNCHANGED <<tableVars, dataVars>>
    BY <1>4, <2>1 DEF DownloadResume
  <2> HIDE DEF rec
  <2>5. QED
    BY <2>3, <2>4, DownloadLocal
<1>5. CASE DownloadNoPending(r)
  <2> DEFINE rec == [dl[r] EXCEPT !.pc = "claim"]
  <2>1. DownloadOn(rec, Rows)
    BY <1>0 DEF DownloadRecord, DownloadPcs, DownloadOn, WithRow
  <2>2. QED
    BY <1>5, <2>1, DownloadLocal DEF DownloadNoPending
<1>6. CASE DownloadClaimDueSets(r)
  <2>1. PICK C \in SUBSET Registry :
          dl' = [dl EXCEPT ![r] = IF C = {} THEN IdleDownload
                                  ELSE [@ EXCEPT !.pc = "refused", !.sets = DedupeByUid(C)]]
    BY <1>6 DEF DownloadClaimDueSets
  <2> DEFINE rec == IF C = {} THEN IdleDownload
                    ELSE [dl[r] EXCEPT !.pc = "refused", !.sets = DedupeByUid(C)]
  <2>2. DedupeByUid(C) \in SUBSET Registry
    BY DEF DedupeByUid
  <2>3. DownloadOn(rec, Rows)
    BY <1>0, <1>b, <2>2 DEF DownloadRecord, DownloadPcs, DownloadOn, WithRow
  <2>4. dl' = [dl EXCEPT ![r] = rec] /\ UNCHANGED <<tableVars, dataVars>>
    BY <1>6, <2>1 DEF DownloadClaimDueSets
  <2> HIDE DEF rec
  <2>5. QED
    BY <2>3, <2>4, DownloadLocal
<1>7. CASE DownloadCheckRefused(r)
  <2> DEFINE rec == IF RecentlyRefused(dl[r].sets) THEN IdleDownload
                    ELSE [dl[r] EXCEPT !.pc = "insert"]
  <2>1. DownloadOn(rec, Rows)
    BY <1>0, <1>b DEF DownloadRecord, DownloadPcs, DownloadOn, WithRow
  <2>2. dl' = [dl EXCEPT ![r] = rec] /\ UNCHANGED <<tableVars, dataVars>>
    BY <1>7 DEF DownloadCheckRefused
  <2> HIDE DEF rec
  <2>3. QED
    BY <2>1, <2>2, DownloadLocal
<1>8. CASE DownloadInsert(r)
  <2> DEFINE rec == [IdleDownload EXCEPT !.pc = "lease", !.batch = created + 1]
  <2>1. created' = created + 1 /\ created' \in 0..MaxBatches /\ created + 1 \in Rows'
    BY <1>8, <1>a, BatchPipelineAssumption DEF DownloadInsert, Rows
  <2>2. DownloadOn(rec, Rows')
    BY <2>1, IdleTypes DEF DownloadRecord, DownloadPcs, DownloadOn
  <2>3. DownloadTypeOK'
    <3> HIDE DEF rec
    <3> QED BY <1>8, <2>1, <2>2, DownloadRunStep DEF DownloadInsert, TypeOK, rec
  <2>4. dl[r].sets \in SUBSET Registry
    BY <1>0 DEF DownloadRecord
  <2>5. TableTypeOK' /\ DataTypeOK'
    BY <1>8, <2>1, <2>4 DEF DownloadInsert, TypeOK, TableTypeOK, DataTypeOK, dataVars
  <2>6. QED
    BY <2>3, <2>5
<1>9. CASE DownloadBound(r)
  BY <1>9, <1>b, DownloadLocal DEF DownloadBound
<1>10. CASE DownloadLease(r)
  <2> DEFINE rec == [dl[r] EXCEPT !.pc = "slot"]
  <2>1. DownloadOn(rec, Rows) /\ dl[r].batch \in Rows
    BY <1>0, <1>10 DEF DownloadLease, DownloadRecord, DownloadPcs, DownloadOn, WithRow
  <2>2. dl' = [dl EXCEPT ![r] = rec]
    BY <1>10 DEF DownloadLease
  <2> HIDE DEF rec
  <2>3. QED
    BY <1>10, <2>1, <2>2, DownloadPatch, StatusesAndLeases DEF DownloadLease
<1>11. CASE DownloadNoSlot(r)
  BY <1>0, <1>11, <1>b, DownloadPatch, StatusesAndLeases DEF DownloadNoSlot, DownloadOn, WithRow
<1>12. CASE DownloadCharge(r)
  <2> DEFINE rec == [dl[r] EXCEPT !.pc = "fetch"]
  <2>1. DownloadOn(rec, Rows) /\ dl[r].attempts + 1 \in Nat
    BY <1>0, <1>12 DEF DownloadCharge, DownloadRecord, DownloadPcs, DownloadOn, WithRow
  <2>2. TableTypeOK' /\ DataTypeOK' /\ UNCHANGED created
    BY <1>12, <2>1 DEF DownloadCharge, TypeOK, TableTypeOK, DataTypeOK, dataVars
  <2>3. dl' = [dl EXCEPT ![r] = rec]
    BY <1>12 DEF DownloadCharge
  <2> HIDE DEF rec
  <2>4. QED
    BY <2>1, <2>2, <2>3, DownloadRunStep DEF TypeOK, Rows
<1>13. CASE DownloadFetchFailed(r)
  BY <1>0, <1>13, <1>b, DownloadPatch, StatusesAndLeases DEF DownloadFetchFailed, DownloadOn, WithRow
<1>14. CASE DownloadFetched(r)
  <2> DEFINE rec == [dl[r] EXCEPT !.pc = "validate"]
  <2>1. DownloadOn(rec, Rows)
    BY <1>0, <1>14 DEF DownloadFetched, DownloadRecord, DownloadPcs, DownloadOn, WithRow
  <2>2. TableTypeOK' /\ DataTypeOK' /\ UNCHANGED created
    BY <1>14, StatusesAndLeases DEF DownloadFetched, TypeOK, TableTypeOK, DataTypeOK, dataVars
  <2>3. dl' = [dl EXCEPT ![r] = rec]
    BY <1>14 DEF DownloadFetched
  <2> HIDE DEF rec
  <2>4. QED
    BY <2>1, <2>2, <2>3, DownloadRunStep DEF TypeOK, Rows
<1>15. CASE DownloadRefuseFile(r)
  BY <1>0, <1>15, <1>b, DownloadPatch, StatusesAndLeases DEF DownloadRefuseFile, DownloadOn, WithRow
<1>16. CASE DownloadUpload(r)
  <2> DEFINE rec == [dl[r] EXCEPT !.pc = "publish"]
  <2>1. DownloadOn(rec, Rows) /\ dl[r].batch \in Batches
    BY <1>0, <1>16, RowsAreBatches
       DEF DownloadUpload, DownloadRecord, DownloadPcs, DownloadOn, WithRow, TypeOK
  <2>2. TableTypeOK' /\ DataTypeOK' /\ UNCHANGED created
    BY <1>16, <2>1 DEF DownloadUpload, TypeOK, TableTypeOK, DataTypeOK, tableVars
  <2>3. dl' = [dl EXCEPT ![r] = rec]
    BY <1>16 DEF DownloadUpload
  <2> HIDE DEF rec
  <2>4. QED
    BY <2>1, <2>2, <2>3, DownloadRunStep DEF TypeOK, Rows
<1>17. CASE DownloadPublish(r)
  BY <1>0, <1>17, <1>b, DownloadPatch, StatusesAndLeases DEF DownloadPublish, DownloadOn, WithRow
<1>18. QED
  BY <1>1, <1>2, <1>3, <1>4, <1>5, <1>6, <1>7, <1>8, <1>9, <1>10, <1>11, <1>12,
     <1>13, <1>14, <1>15, <1>16, <1>17 DEF DownloadStep

(* The same for an ingest run: what it may carry, and the rows it has       *)
(* listed.                                                                  *)
IngestWithRow == {"write", "stamp", "finish"}
IngestOn(rec, rows) ==
  /\ rec \in IngestRecord
  /\ rec.pc \in IngestWithRow => rec.batch \in rows
  /\ rec.reap \subseteq rows
  /\ \A c \in rec.seen : c.batch \in rows

(* A step that rewrites one ingest run well keeps all of them well typed.   *)
LEMMA IngestRunStep ==
  ASSUME IngestTypeOK, NEW r \in IngestRuns, NEW rec,
         IngestOn(rec, Rows), ing' = [ing EXCEPT ![r] = rec], UNCHANGED created
  PROVE  IngestTypeOK'
BY DEF IngestTypeOK, Rows, IngestWithRow, IngestOn

(* An ingest step that writes neither the table nor the stores keeps the    *)
(* types.                                                                   *)
LEMMA IngestLocal ==
  ASSUME TypeOK, NEW r \in IngestRuns, NEW rec, IngestOn(rec, Rows),
         ing' = [ing EXCEPT ![r] = rec], UNCHANGED <<tableVars, dataVars>>
  PROVE  TableTypeOK' /\ DataTypeOK' /\ IngestTypeOK'
BY IngestRunStep DEF TypeOK, tableVars, dataVars, TableTypeOK, DataTypeOK

(* So does one that PATCHes one row, the ingester's claim included.         *)
LEMMA IngestPatch ==
  ASSUME TypeOK, NEW r \in IngestRuns, NEW rec, IngestOn(rec, Rows),
         ing' = [ing EXCEPT ![r] = rec],
         NEW b \in Rows, NEW s \in AllStatuses, NEW l \in Leases, Update(b, s, l),
         ingestAttempts' \in [Batches -> Nat],
         UNCHANGED <<created, booked, downloadAttempts, cooled, dataVars>>
  PROVE  TableTypeOK' /\ DataTypeOK' /\ IngestTypeOK'
BY IngestRunStep, RowUpdate DEF TypeOK, dataVars, TableTypeOK, DataTypeOK

(* A claim either takes its candidate, whose status is the one it was read  *)
(* with, or passes it over.                                                 *)
LEMMA ClaimCases ==
  ASSUME TypeOK, NEW r \in IngestRuns, IngestClaim(r)
  PROVE  \E c \in ing[r].seen :
           /\ c \in CandidateRecord /\ c.batch \in Rows
           /\ \/ /\ status[c.batch] = c.status /\ c.status \in IngestableStatuses
                 /\ Update(c.batch, "ingesting", "fresh")
                 /\ ingestAttempts' = [ingestAttempts EXCEPT ![c.batch] = c.attempts + 1]
                 /\ ing' = [ing EXCEPT ![r] = [IdleIngest EXCEPT !.pc = "write", !.batch = c.batch]]
              \/ /\ ing' = [ing EXCEPT ![r].seen = @ \ {c}]
                 /\ UNCHANGED <<status, lease, ingestAttempts>>
<1>1. PICK c \in NextCandidate(r) :
        IF status[c.batch] = c.status
        THEN /\ Update(c.batch, "ingesting", "fresh")
             /\ ingestAttempts' = [ingestAttempts EXCEPT ![c.batch] = c.attempts + 1]
             /\ ing' = [ing EXCEPT ![r] = [IdleIngest EXCEPT !.pc = "write", !.batch = c.batch]]
        ELSE /\ ing' = [ing EXCEPT ![r].seen = @ \ {c}]
             /\ UNCHANGED <<status, lease, ingestAttempts>>
  BY DEF IngestClaim
<1>2. c \in ing[r].seen /\ c \in CandidateRecord /\ c.batch \in Rows
  BY DEF NextCandidate, TypeOK, IngestTypeOK, IngestRecord
<1>3. c.status \in IngestableStatuses
  BY <1>2 DEF CandidateRecord
<1>4. QED
  BY <1>1, <1>2, <1>3

(* Every step of an ingest run keeps the types: one case per action.        *)
LEMMA IngestTypes ==
  ASSUME TypeOK, NEW r \in IngestRuns, IngestStep(r)
  PROVE  TableTypeOK' /\ DataTypeOK' /\ IngestTypeOK'
<1>0. /\ ing[r] \in IngestRecord /\ ing \in [IngestRuns -> IngestRecord]
      /\ IngestOn(ing[r], Rows)
  BY DEF TypeOK, IngestTypeOK, IngestOn, IngestWithRow
<1>b. IngestOn(IdleIngest, Rows)
  BY IdleTypes DEF IngestOn, IngestWithRow
<1>c. ingestAttempts \in [Batches -> Nat]
  BY DEF TypeOK, TableTypeOK
<1>1. CASE IngestStart(r)
  <2> DEFINE stale == {b \in Rows : status[b] = "ingesting" /\ IsLeaseStale(status[b], lease[b])}
             rec == [IdleIngest EXCEPT !.pc = "reap", !.reap = stale]
  <2>1. stale \in SUBSET Batches /\ stale \subseteq Rows
    BY RowsAreBatches DEF TypeOK
  <2>2. IngestOn(rec, Rows)
    <3> HIDE DEF stale
    <3> QED BY <2>1, IdleTypes DEF IngestRecord, IngestPcs, IngestOn, IngestWithRow
  <2>3. QED
    <3> HIDE DEF rec
    <3> QED BY <1>1, <2>2, IngestLocal DEF IngestStart, rec
<1>2. CASE IngestReap(r)
  <2>1. PICK b \in Oldest(ing[r].reap) :
          /\ Update(b, RecoveryStatus("ingesting"), "none")
          /\ ing' = [ing EXCEPT ![r].reap = @ \ {b}]
    BY <1>2 DEF IngestReap
  <2>2. b \in Rows
    BY <1>0 DEF IngestOn, Oldest
  <2> DEFINE rec == [ing[r] EXCEPT !.reap = @ \ {b}]
  <2>3. IngestOn(rec, Rows) /\ ing' = [ing EXCEPT ![r] = rec]
    BY <1>0, <2>1 DEF IngestRecord, IngestOn
  <2> HIDE DEF rec
  <2>4. QED
    BY <1>2, <1>c, <2>1, <2>2, <2>3, IngestPatch, StatusesAndLeases
       DEF IngestReap, RecoveryStatus
<1>3. CASE IngestList(r)
  <2> DEFINE found == {Candidate(b) : b \in {c \in Rows : /\ status[c] \in IngestableStatuses
                                                          /\ ingestAttempts[c] < MaxIngestAttempts}}
             rec == [ing[r] EXCEPT !.pc = "claim", !.seen = found]
  <2>1. found \in SUBSET CandidateRecord /\ \A c \in found : c.batch \in Rows
    BY <1>c, RowsAreBatches DEF Candidate, CandidateRecord, TypeOK
  <2>2. IngestOn(rec, Rows)
    <3> HIDE DEF found
    <3> QED BY <1>0, <2>1 DEF IngestRecord, IngestPcs, IngestOn, IngestWithRow
  <2>3. ing' = [ing EXCEPT ![r] = rec]
    BY <1>0, <1>3 DEF IngestList, IngestRecord
  <2>4. QED
    <3> HIDE DEF rec
    <3> QED BY <1>3, <2>2, <2>3, IngestLocal DEF IngestList
<1>4. CASE IngestClaim(r)
  <2>1. PICK c \in ing[r].seen :
          /\ c \in CandidateRecord /\ c.batch \in Rows
          /\ \/ /\ Update(c.batch, "ingesting", "fresh")
                /\ ingestAttempts' = [ingestAttempts EXCEPT ![c.batch] = c.attempts + 1]
                /\ ing' = [ing EXCEPT ![r] = [IdleIngest EXCEPT !.pc = "write", !.batch = c.batch]]
             \/ /\ ing' = [ing EXCEPT ![r].seen = @ \ {c}]
                /\ UNCHANGED <<status, lease, ingestAttempts>>
    BY <1>4, ClaimCases
  <2>2. c.batch \in Batches /\ c.batch \in 0..MaxBatches /\ c.attempts + 1 \in Nat
    BY <2>1, RowsAreBatches DEF CandidateRecord, TypeOK
  <2>3. CASE ing' = [ing EXCEPT ![r].seen = @ \ {c}] /\ UNCHANGED <<status, lease, ingestAttempts>>
    <3> DEFINE rec == [ing[r] EXCEPT !.seen = @ \ {c}]
    <3>1. IngestOn(rec, Rows) /\ ing' = [ing EXCEPT ![r] = rec]
      BY <1>0, <2>3 DEF IngestRecord, IngestOn
    <3> HIDE DEF rec
    <3>2. QED
      BY <1>4, <2>3, <3>1, IngestLocal DEF IngestClaim, tableVars
  <2>4. CASE /\ Update(c.batch, "ingesting", "fresh")
             /\ ingestAttempts' = [ingestAttempts EXCEPT ![c.batch] = c.attempts + 1]
             /\ ing' = [ing EXCEPT ![r] = [IdleIngest EXCEPT !.pc = "write", !.batch = c.batch]]
    <3> DEFINE rec == [IdleIngest EXCEPT !.pc = "write", !.batch = c.batch]
    <3>1. IngestOn(rec, Rows)
      BY <2>1, <2>2, IdleTypes DEF IngestRecord, IngestPcs, IngestOn
    <3>2. ingestAttempts' \in [Batches -> Nat]
      BY <1>c, <2>2, <2>4
    <3>3. ing' = [ing EXCEPT ![r] = rec] /\ Update(c.batch, "ingesting", "fresh")
      BY <2>4
    <3> HIDE DEF rec
    <3>4. QED
      BY <1>4, <2>1, <3>1, <3>2, <3>3, IngestPatch, StatusesAndLeases DEF IngestClaim
  <2>5. QED
    BY <2>1, <2>3, <2>4
<1>5. CASE IngestNothing(r)
  BY <1>5, <1>b, IngestLocal DEF IngestNothing
<1>6. CASE IngestWrite(r)
  <2> DEFINE rec == [ing[r] EXCEPT !.pc = "stamp"]
  <2>1. IngestOn(rec, Rows)
    BY <1>0, <1>6 DEF IngestWrite, IngestRecord, IngestPcs, IngestOn, IngestWithRow
  <2>2. TableTypeOK' /\ DataTypeOK' /\ UNCHANGED created
    BY <1>6 DEF IngestWrite, TypeOK, TableTypeOK, DataTypeOK, tableVars
  <2>3. ing' = [ing EXCEPT ![r] = rec]
    BY <1>6 DEF IngestWrite
  <2> HIDE DEF rec
  <2>4. QED
    BY <2>1, <2>2, <2>3, IngestRunStep DEF TypeOK
<1>7. CASE IngestWriteFailed(r)
  BY <1>0, <1>7, <1>b, <1>c, IngestPatch, StatusesAndLeases
     DEF IngestWriteFailed, IngestOn, IngestWithRow
<1>8. CASE IngestStamp(r)
  <2> DEFINE rec == [ing[r] EXCEPT !.pc = "finish"]
  <2>1. IngestOn(rec, Rows)
    BY <1>0, <1>8 DEF IngestStamp, IngestRecord, IngestPcs, IngestOn, IngestWithRow
  <2>2. TableTypeOK' /\ DataTypeOK' /\ UNCHANGED created
    BY <1>8 DEF IngestStamp, TypeOK, TableTypeOK, DataTypeOK, tableVars
  <2>3. ing' = [ing EXCEPT ![r] = rec]
    BY <1>8 DEF IngestStamp
  <2> HIDE DEF rec
  <2>4. QED
    BY <2>1, <2>2, <2>3, IngestRunStep DEF TypeOK
<1>9. CASE IngestFinish(r)
  BY <1>0, <1>9, <1>b, <1>c, IngestPatch, StatusesAndLeases
     DEF IngestFinish, IngestOn, IngestWithRow
<1>10. QED
  BY <1>1, <1>2, <1>3, <1>4, <1>5, <1>6, <1>7, <1>8, <1>9 DEF IngestStep

(* Rows are only ever added, so what one kind of run carries survives the   *)
(* steps of the other.                                                      *)
LEMMA CreatedGrows ==
  ASSUME TypeOK, Next PROVE created' \in {created, created + 1} /\ Rows \subseteq Rows'
<1>1. created' \in {created, created + 1}
  BY DEF Next, DownloadStep, IngestStep, Crash, LeaseExpires, CooldownElapses,
         DownloadStart, DownloadReap, DownloadCheckDepth, DownloadResume, DownloadNoPending,
         DownloadClaimDueSets, DownloadCheckRefused, DownloadInsert, DownloadBound,
         DownloadLease, DownloadNoSlot, DownloadCharge, DownloadFetchFailed, DownloadFetched,
         DownloadRefuseFile, DownloadUpload, DownloadPublish,
         IngestStart, IngestReap, IngestList, IngestClaim, IngestNothing, IngestWrite,
         IngestWriteFailed, IngestStamp, IngestFinish, tableVars
<1>2. QED
  BY <1>1, BatchPipelineAssumption DEF TypeOK, TableTypeOK, Rows

(* Types are inductive on their own.                                        *)
LEMMA NextTypeOK == TypeOK /\ [Next]_vars => TypeOK'
<1> SUFFICES ASSUME TypeOK, [Next]_vars PROVE TypeOK'
  OBVIOUS
<1>1. ASSUME NEW r \in DownloadRuns, DownloadStep(r) PROVE TypeOK'
  <2>1. UNCHANGED <<ing, crashes, expiries>>
    BY <1>1 DEF DownloadStep, DownloadStart, DownloadReap, DownloadCheckDepth, DownloadResume,
         DownloadNoPending, DownloadClaimDueSets, DownloadCheckRefused, DownloadInsert,
         DownloadBound, DownloadLease, DownloadNoSlot, DownloadCharge, DownloadFetchFailed,
         DownloadFetched, DownloadRefuseFile, DownloadUpload, DownloadPublish, faultVars
  <2>2. IngestTypeOK'
    BY <1>1, <2>1, CreatedGrows DEF TypeOK, IngestTypeOK, Next
  <2>3. QED
    BY <1>1, <2>1, <2>2, DownloadTypes DEF TypeOK
<1>2. ASSUME NEW r \in IngestRuns, IngestStep(r) PROVE TypeOK'
  <2>1. UNCHANGED <<dl, crashes, expiries>>
    BY <1>2 DEF IngestStep, IngestStart, IngestReap, IngestList, IngestClaim, IngestNothing,
         IngestWrite, IngestWriteFailed, IngestStamp, IngestFinish, faultVars
  <2>2. DownloadTypeOK'
    BY <1>2, <2>1, CreatedGrows DEF TypeOK, DownloadTypeOK, Next
  <2>3. QED
    BY <1>2, <2>1, <2>2, IngestTypes DEF TypeOK
<1>3. CASE Crash
  <2>1. TableTypeOK' /\ DataTypeOK' /\ UNCHANGED created
    BY <1>3 DEF Crash, TypeOK, TableTypeOK, DataTypeOK, tableVars, dataVars
  <2>2. DownloadTypeOK'
    BY <1>3, <2>1, IdleTypes DEF Crash, TypeOK, DownloadTypeOK, Rows
  <2>3. IngestTypeOK'
    BY <1>3, <2>1, IdleTypes DEF Crash, TypeOK, IngestTypeOK, Rows
  <2>4. crashes' \in 0..MaxCrashes /\ expiries' \in 0..MaxExpiries
    BY <1>3, BatchPipelineAssumption DEF Crash, TypeOK
  <2>5. QED
    BY <2>1, <2>2, <2>3, <2>4 DEF TypeOK
<1>4. ASSUME NEW b \in Rows, LeaseExpires(b) PROVE TypeOK'
  <2>1. TableTypeOK' /\ DataTypeOK' /\ UNCHANGED created
    BY <1>4, StatusesAndLeases DEF LeaseExpires, TypeOK, TableTypeOK, DataTypeOK, dataVars
  <2>2. DownloadTypeOK' /\ IngestTypeOK'
    BY <1>4 DEF LeaseExpires, TypeOK, DownloadTypeOK, IngestTypeOK, Rows
  <2>3. crashes' \in 0..MaxCrashes /\ expiries' \in 0..MaxExpiries
    BY <1>4, BatchPipelineAssumption DEF LeaseExpires, TypeOK
  <2>4. QED
    BY <2>1, <2>2, <2>3 DEF TypeOK
<1>5. ASSUME NEW b \in Rows, CooldownElapses(b) PROVE TypeOK'
  <2>1. TableTypeOK' /\ DataTypeOK' /\ UNCHANGED created
    BY <1>5, RowsAreBatches DEF CooldownElapses, TypeOK, TableTypeOK, DataTypeOK, dataVars
  <2>2. DownloadTypeOK' /\ IngestTypeOK'
    BY <1>5 DEF CooldownElapses, TypeOK, DownloadTypeOK, IngestTypeOK, Rows
  <2>3. QED
    BY <1>5, <2>1, <2>2 DEF TypeOK, CooldownElapses, faultVars
<1>6. CASE UNCHANGED vars
  BY <1>6 DEF vars, tableVars, dataVars, faultVars, TypeOK, TableTypeOK, DataTypeOK,
              DownloadTypeOK, IngestTypeOK, Rows
<1>7. QED
  BY <1>1, <1>2, <1>3, <1>4, <1>5, <1>6 DEF Next

(* The table, the stores and the runs keep their types, and no run ever     *)
(* carries a row that was not inserted (a PATCH by batch_id would miss).    *)
THEOREM TypeCorrect == Spec => []TypeOK
<1>1. Init => TypeOK
  BY BatchPipelineAssumption, IdleTypes, StatusesAndLeases
     DEF Init, TypeOK, TableTypeOK, DataTypeOK, DownloadTypeOK, IngestTypeOK, Rows
<1>2. QED
  BY <1>1, NextTypeOK, PTL DEF Spec

-----------------------------------------------------------------------------
(* What makes IngestableIsStored inductive: the ingest runs in flight, the  *)
(* leases their reapers are about to return, and the download about to      *)
(* publish all have their object in the bucket.                             *)
StoredInv ==
  /\ IngestableIsStored
  /\ \A r \in IngestRuns :
       /\ ing[r].pc \in IngestWithRow => ing[r].batch \in stored
       /\ ing[r].reap \subseteq stored
  /\ \A r \in DownloadRuns : dl[r].pc = "publish" => dl[r].batch \in stored

(* StoredInv is inductive: the only step towards validated, from publish,   *)
(* comes after the upload; a reaper of ingests returns only rows that were  *)
(* ingesting once.                                                          *)
LEMMA NextStored == TypeOK /\ StoredInv /\ [Next]_vars => StoredInv'
<1> SUFFICES ASSUME TypeOK, StoredInv, [Next]_vars PROVE StoredInv'
  OBVIOUS
<1> USE DEF StoredInv, IngestableIsStored, IngestWithRow
<1>0. /\ dl \in [DownloadRuns -> DownloadRecord] /\ ing \in [IngestRuns -> IngestRecord]
      /\ status \in [Batches -> AllStatuses] /\ Rows \subseteq Batches
  BY RowsAreBatches DEF TypeOK, TableTypeOK, DownloadTypeOK, IngestTypeOK
<1>1. ASSUME NEW r \in DownloadRuns, DownloadStep(r) PROVE StoredInv'
  <2>1. CASE DownloadStart(r)
    BY <1>0, <2>1 DEF DownloadStart, tableVars, dataVars, IdleDownload
  <2>2. CASE DownloadReap(r)
    BY <1>0, <2>2 DEF DownloadReap, Update, dataVars, RecoveryStatus
  <2>3. CASE DownloadCheckDepth(r)
    BY <1>0, <2>3 DEF DownloadCheckDepth, tableVars, dataVars, IdleDownload
  <2>4. CASE DownloadResume(r)
    BY <1>0, <2>4 DEF DownloadResume, tableVars, dataVars, IdleDownload
  <2>5. CASE DownloadNoPending(r)
    BY <1>0, <2>5 DEF DownloadNoPending, tableVars, dataVars
  <2>6. CASE DownloadClaimDueSets(r)
    BY <1>0, <2>6 DEF DownloadClaimDueSets, tableVars, dataVars, IdleDownload
  <2>7. CASE DownloadCheckRefused(r)
    BY <1>0, <2>7 DEF DownloadCheckRefused, tableVars, dataVars, IdleDownload
  <2>8. CASE DownloadInsert(r)
    BY <1>0, <2>8 DEF DownloadInsert, tableVars, dataVars, IdleDownload
  <2>9. CASE DownloadBound(r)
    BY <1>0, <2>9 DEF DownloadBound, tableVars, dataVars, IdleDownload
  <2>10. CASE DownloadLease(r)
    BY <1>0, <2>10 DEF DownloadLease, Update, dataVars
  <2>11. CASE DownloadNoSlot(r)
    BY <1>0, <2>11 DEF DownloadNoSlot, Update, dataVars, IdleDownload
  <2>12. CASE DownloadCharge(r)
    BY <1>0, <2>12 DEF DownloadCharge, tableVars, dataVars
  <2>13. CASE DownloadFetchFailed(r)
    BY <1>0, <2>13 DEF DownloadFetchFailed, Update, dataVars, IdleDownload
  <2>14. CASE DownloadFetched(r)
    BY <1>0, <2>14 DEF DownloadFetched, tableVars, dataVars
  <2>15. CASE DownloadRefuseFile(r)
    BY <1>0, <2>15 DEF DownloadRefuseFile, Update, dataVars, IdleDownload
  <2>16. CASE DownloadUpload(r)
    BY <1>0, <2>16 DEF DownloadUpload, tableVars, dataVars
  <2>17. CASE DownloadPublish(r)
    BY <1>0, <2>17 DEF DownloadPublish, Update, dataVars, IdleDownload
  <2>18. QED
    BY <1>1, <2>1, <2>2, <2>3, <2>4, <2>5, <2>6, <2>7, <2>8, <2>9, <2>10, <2>11, <2>12,
       <2>13, <2>14, <2>15, <2>16, <2>17 DEF DownloadStep
<1>2. ASSUME NEW r \in IngestRuns, IngestStep(r) PROVE StoredInv'
  <2>1. CASE IngestStart(r)
    BY <1>0, <2>1 DEF IngestStart, tableVars, dataVars, IdleIngest
  <2>2. CASE IngestReap(r)
    BY <1>0, <2>2 DEF IngestReap, Update, dataVars, RecoveryStatus, Oldest
  <2>3. CASE IngestList(r)
    BY <1>0, <2>3 DEF IngestList, tableVars, dataVars, IdleIngest
  <2>4. CASE IngestClaim(r)
    <3>1. UNCHANGED <<dl, stored>>
      BY <2>4 DEF IngestClaim, dataVars
    <3>2. PICK c \in ing[r].seen :
            \/ /\ c.batch \in Rows /\ status[c.batch] \in IngestableStatuses
               /\ status' = [status EXCEPT ![c.batch] = "ingesting"]
               /\ ing' = [ing EXCEPT ![r] = [IdleIngest EXCEPT !.pc = "write", !.batch = c.batch]]
            \/ /\ ing' = [ing EXCEPT ![r].seen = @ \ {c}]
               /\ UNCHANGED status
      BY <2>4, ClaimCases DEF Update
    <3>3. CASE ing' = [ing EXCEPT ![r].seen = @ \ {c}] /\ UNCHANGED status
      BY <1>0, <3>1, <3>3 DEF IngestRecord
    <3>4. CASE /\ c.batch \in Rows /\ status[c.batch] \in IngestableStatuses
               /\ status' = [status EXCEPT ![c.batch] = "ingesting"]
               /\ ing' = [ing EXCEPT ![r] = [IdleIngest EXCEPT !.pc = "write", !.batch = c.batch]]
      <4> DEFINE rec == [IdleIngest EXCEPT !.pc = "write", !.batch = c.batch]
      <4>1. rec.batch = c.batch /\ rec.reap = {} /\ c.batch \in stored
        BY <1>0, <3>4, IdleTypes DEF IngestableStatuses, IdleIngest
      <4>2. ing' = [ing EXCEPT ![r] = rec]
        BY <3>4
      <4> HIDE DEF rec
      <4>3. QED
        BY <1>0, <3>1, <3>4, <4>1, <4>2
    <3>5. QED
      BY <3>2, <3>3, <3>4
  <2>5. CASE IngestNothing(r)
    BY <1>0, <2>5 DEF IngestNothing, tableVars, dataVars, IdleIngest
  <2>6. CASE IngestWrite(r)
    BY <1>0, <2>6 DEF IngestWrite, tableVars, dataVars, IdleIngest
  <2>7. CASE IngestWriteFailed(r)
    BY <1>0, <2>7 DEF IngestWriteFailed, tableVars, dataVars, IdleIngest, Update
  <2>8. CASE IngestStamp(r)
    BY <1>0, <2>8 DEF IngestStamp, tableVars, dataVars, IdleIngest
  <2>9. CASE IngestFinish(r)
    BY <1>0, <2>9 DEF IngestFinish, tableVars, dataVars, IdleIngest, Update
  <2>10. QED
    BY <1>2, <2>1, <2>2, <2>3, <2>4, <2>5, <2>6, <2>7, <2>8, <2>9 DEF IngestStep
<1>3. CASE Crash
  BY <1>0, <1>3, IdleTypes DEF Crash, tableVars, dataVars
<1>4. ASSUME NEW b \in Rows, LeaseExpires(b) \/ CooldownElapses(b) PROVE StoredInv'
  BY <1>4 DEF LeaseExpires, CooldownElapses, dataVars
<1>5. CASE UNCHANGED vars
  BY <1>5 DEF vars, tableVars, dataVars
<1>6. QED
  BY <1>1, <1>2, <1>3, <1>4, <1>5 DEF Next

(* A row handed to an ingester always has its object in the bucket, for any *)
(* number of overlapping runs, crashes and overrun leases.                  *)
THEOREM StoredBeforeIngest == Spec => []IngestableIsStored
<1>1. Init => StoredInv
  BY IdleTypes DEF Init, StoredInv, IngestableIsStored, IdleDownload, IdleIngest, IngestWithRow
<1>2. StoredInv => IngestableIsStored
  BY DEF StoredInv
<1>3. QED
  BY <1>1, <1>2, NextStored, TypeCorrect, PTL DEF Spec

-----------------------------------------------------------------------------
(* Where a download run may take a status, and what it leaves alone.        *)
DownloadTargets == {"pending", "downloading", "downloaded", "validated",
                    "fetch_failed", "validation_failed"}

(* Download runs leave stamps, the catalog and the ingest runs alone, and   *)
(* book sets only for the row they insert.                                  *)
LEMMA DownloadFrame ==
  ASSUME TypeOK, NEW r \in DownloadRuns, DownloadStep(r)
  PROVE  /\ UNCHANGED <<ing, clock, refreshedAt, written>>
         /\ \A b \in Batches : status'[b] = status[b] \/ (b \in Rows /\ status'[b] \in DownloadTargets)
         /\ \A b \in Rows : booked'[b] = booked[b]
<1>0. /\ dl[r].pc \in WithRow => dl[r].batch \in Rows
      /\ dl[r].reap \subseteq Rows
      /\ status \in [Batches -> AllStatuses] /\ booked \in [Batches -> SUBSET Registry]
      /\ created \in Nat /\ Rows \subseteq Batches
  BY RowsAreBatches, BatchPipelineAssumption DEF TypeOK, TableTypeOK, DownloadTypeOK, WithRow
<1> USE DEF WithRow, DownloadTargets
<1>1. CASE DownloadStart(r)
  BY <1>0, <1>1 DEF DownloadStart, tableVars, dataVars
<1>2. CASE DownloadReap(r)
  BY <1>0, <1>2 DEF DownloadReap, tableVars, dataVars, Update, RecoveryStatus, Oldest
<1>3. CASE DownloadCheckDepth(r)
  BY <1>0, <1>3 DEF DownloadCheckDepth, tableVars, dataVars
<1>4. CASE DownloadResume(r)
  BY <1>0, <1>4 DEF DownloadResume, tableVars, dataVars
<1>5. CASE DownloadNoPending(r)
  BY <1>0, <1>5 DEF DownloadNoPending, tableVars, dataVars
<1>6. CASE DownloadClaimDueSets(r)
  BY <1>0, <1>6 DEF DownloadClaimDueSets, tableVars, dataVars
<1>7. CASE DownloadCheckRefused(r)
  BY <1>0, <1>7 DEF DownloadCheckRefused, tableVars, dataVars
<1>8. CASE DownloadInsert(r)
  BY <1>0, <1>8 DEF DownloadInsert, tableVars, dataVars, Rows
<1>9. CASE DownloadBound(r)
  BY <1>0, <1>9 DEF DownloadBound, tableVars, dataVars
<1>10. CASE DownloadLease(r)
  BY <1>0, <1>10 DEF DownloadLease, tableVars, dataVars, Update
<1>11. CASE DownloadNoSlot(r)
  BY <1>0, <1>11 DEF DownloadNoSlot, tableVars, dataVars, Update
<1>12. CASE DownloadCharge(r)
  BY <1>0, <1>12 DEF DownloadCharge, tableVars, dataVars
<1>13. CASE DownloadFetchFailed(r)
  BY <1>0, <1>13 DEF DownloadFetchFailed, tableVars, dataVars, Update
<1>14. CASE DownloadFetched(r)
  BY <1>0, <1>14 DEF DownloadFetched, tableVars, dataVars
<1>15. CASE DownloadRefuseFile(r)
  BY <1>0, <1>15 DEF DownloadRefuseFile, tableVars, dataVars, Update
<1>16. CASE DownloadUpload(r)
  BY <1>0, <1>16 DEF DownloadUpload, tableVars, dataVars
<1>17. CASE DownloadPublish(r)
  BY <1>0, <1>17 DEF DownloadPublish, tableVars, dataVars, Update
<1>18. QED
  BY <1>1, <1>2, <1>3, <1>4, <1>5, <1>6, <1>7, <1>8, <1>9, <1>10, <1>11, <1>12,
     <1>13, <1>14, <1>15, <1>16, <1>17 DEF DownloadStep

(* What makes RefreshIsEarned inductive: a run past its write has written   *)
(* its batch, and one past its stamp has stamped it; rows not inserted yet  *)
(* have their initial status.                                               *)
EarnedInv ==
  /\ RefreshIsEarned
  /\ written \subseteq Rows
  /\ \A b \in Batches \ Rows : status[b] = "pending"
  /\ \A r \in IngestRuns :
       /\ ing[r].pc \in {"stamp", "finish"} => ing[r].batch \in written
       /\ ing[r].pc = "finish" => \A s \in booked[ing[r].batch] : refreshedAt[s] # 0

(* EarnedInv is inductive: a run reaches the stamp only through a complete  *)
(* write, and finish only through the stamp.                                *)
LEMMA NextEarned == TypeOK /\ EarnedInv /\ [Next]_vars => EarnedInv'
<1> SUFFICES ASSUME TypeOK, EarnedInv, [Next]_vars PROVE EarnedInv'
  OBVIOUS
<1> USE DEF EarnedInv, RefreshIsEarned
<1>0. /\ ing \in [IngestRuns -> IngestRecord]
      /\ \A r \in IngestRuns : ing[r].pc \in {"write", "stamp", "finish"} => ing[r].batch \in Rows
      /\ status \in [Batches -> AllStatuses] /\ Rows \subseteq Batches
      /\ booked \in [Batches -> SUBSET Registry]
      /\ clock \in Nat /\ refreshedAt \in [Registry -> Nat]
  BY RowsAreBatches DEF TypeOK, TableTypeOK, DataTypeOK, IngestTypeOK
<1>1. ASSUME NEW r \in DownloadRuns, DownloadStep(r) PROVE EarnedInv'
  <2>1. /\ Rows \subseteq Rows' /\ Rows' \subseteq Batches
    <3>1. Rows \subseteq Rows' /\ TableTypeOK'
      BY <1>1, CreatedGrows, DownloadTypes DEF Next
    <3>2. QED
      BY <3>1, BatchPipelineAssumption DEF TableTypeOK, Rows, Batches
  <2>2. /\ UNCHANGED <<ing, refreshedAt, written>>
        /\ \A b \in Batches : status'[b] # status[b] => b \in Rows /\ status'[b] # "ingested"
        /\ \A b \in Rows : booked'[b] = booked[b]
    BY <1>1, DownloadFrame DEF DownloadTargets
  <2>3. written \subseteq Rows' /\ \A b \in Batches \ Rows' : status'[b] = "pending"
    BY <2>1, <2>2
  <2>4. \A s \in Registry : refreshedAt'[s] # 0 => \E b \in written' : s \in booked'[b]
    BY <2>2
  <2>5. \A b \in Rows' : status'[b] = "ingested" => b \in Rows /\ status[b] = "ingested"
    BY <2>1, <2>2
  <2>6. \A b \in Rows' : status'[b] = "ingested" =>
          b \in written' /\ \A s \in booked'[b] : refreshedAt'[s] # 0
    BY <2>2, <2>5
  <2>7. QED
    BY <1>0, <2>2, <2>3, <2>4, <2>6
<1>2. ASSUME NEW r \in IngestRuns, IngestStep(r) PROVE EarnedInv'
  <2>1. CASE IngestStart(r)
    BY <1>0, <2>1 DEF IngestStart, tableVars, dataVars, IdleIngest, Rows
  <2>2. CASE IngestReap(r)
    BY <1>0, <2>2 DEF IngestReap, Update, dataVars, RecoveryStatus, Oldest, TypeOK, IngestTypeOK, Rows
  <2>3. CASE IngestList(r)
    BY <1>0, <2>3 DEF IngestList, tableVars, dataVars, Rows
  <2>4. CASE IngestClaim(r)
    <3>1. UNCHANGED <<created, booked, refreshedAt, written>>
      BY <2>4 DEF IngestClaim, dataVars
    <3>2. PICK c \in ing[r].seen :
            \/ /\ c.batch \in Rows
               /\ status' = [status EXCEPT ![c.batch] = "ingesting"]
               /\ ing' = [ing EXCEPT ![r] = [IdleIngest EXCEPT !.pc = "write", !.batch = c.batch]]
            \/ /\ ing' = [ing EXCEPT ![r].seen = @ \ {c}]
               /\ UNCHANGED status
      BY <2>4, ClaimCases DEF Update
    <3>3. CASE ing' = [ing EXCEPT ![r].seen = @ \ {c}] /\ UNCHANGED status
      BY <1>0, <3>1, <3>3 DEF IngestRecord, Rows
    <3>4. CASE /\ c.batch \in Rows
               /\ status' = [status EXCEPT ![c.batch] = "ingesting"]
               /\ ing' = [ing EXCEPT ![r] = [IdleIngest EXCEPT !.pc = "write", !.batch = c.batch]]
      <4> DEFINE rec == [IdleIngest EXCEPT !.pc = "write", !.batch = c.batch]
      <4>1. rec.pc = "write"
        BY DEF IdleIngest
      <4>2. ing' = [ing EXCEPT ![r] = rec]
        BY <3>4
      <4> HIDE DEF rec
      <4>3. QED
        BY <1>0, <3>1, <3>4, <4>1, <4>2 DEF Rows
    <3>5. QED
      BY <3>2, <3>3, <3>4
  <2>5. CASE IngestNothing(r)
    BY <1>0, <2>5 DEF IngestNothing, tableVars, dataVars, IdleIngest, Rows
  <2>6. CASE IngestWrite(r)
    BY <1>0, <2>6 DEF IngestWrite, tableVars, Rows
  <2>7. CASE IngestWriteFailed(r)
    BY <1>0, <2>7 DEF IngestWriteFailed, Update, dataVars, IdleIngest, Rows
  <2>8. CASE IngestStamp(r)
    <3>1. /\ UNCHANGED <<created, status, booked, written>>
          /\ clock + 1 \in Nat /\ clock + 1 # 0
          /\ ing[r].batch \in written /\ booked[ing[r].batch] \subseteq Registry
      BY <1>0, <2>8 DEF IngestStamp, tableVars
    <3>2. \A s \in Registry :
            IF s \in booked[ing[r].batch] THEN refreshedAt'[s] # 0
                                          ELSE refreshedAt'[s] = refreshedAt[s]
      BY <2>8, <3>1 DEF IngestStamp
    <3>3. ing' = [ing EXCEPT ![r].pc = "finish"]
      BY <2>8 DEF IngestStamp
    <3>4. RefreshIsEarned'
      BY <1>0, <3>1, <3>2 DEF Rows
    <3>5. QED
      BY <1>0, <3>1, <3>2, <3>3, <3>4 DEF Rows, IngestRecord
  <2>9. CASE IngestFinish(r)
    BY <1>0, <2>9 DEF IngestFinish, Update, dataVars, IdleIngest, Rows
  <2>10. QED
    BY <1>2, <2>1, <2>2, <2>3, <2>4, <2>5, <2>6, <2>7, <2>8, <2>9 DEF IngestStep
<1>3. CASE Crash
  BY <1>0, <1>3 DEF Crash, tableVars, dataVars, IdleIngest, Rows
<1>4. ASSUME NEW b \in Rows, LeaseExpires(b) \/ CooldownElapses(b) PROVE EarnedInv'
  BY <1>4 DEF LeaseExpires, CooldownElapses, dataVars, Rows
<1>5. CASE UNCHANGED vars
  BY <1>5 DEF vars, tableVars, dataVars, Rows
<1>6. QED
  BY <1>1, <1>2, <1>3, <1>4, <1>5 DEF Next

(* No set counts as refreshed on data that never reached the catalog, with  *)
(* any number of runs, crashes, overrun leases and duplicated batches.      *)
THEOREM RefreshEarned == Spec => []RefreshIsEarned
<1>1. Init => EarnedInv
  BY DEF Init, EarnedInv, RefreshIsEarned, IdleIngest, Rows
<1>2. EarnedInv => RefreshIsEarned
  BY DEF EarnedInv
<1>3. QED
  BY <1>1, <1>2, NextEarned, TypeCorrect, PTL DEF Spec

-----------------------------------------------------------------------------
(* Mutual exclusion of ingesters. With one download run at a time and no    *)
(* lease gone stale, the status of a row tells which run works on it: this  *)
(* is what the compare-and-swap of the claim rests on.                      *)
OneDownloader == \A r, q \in DownloadRuns : r = q

StatusTellsHolder ==
  /\ \A b \in Batches : lease[b] # "stale"
  /\ \A b \in Batches \ Rows : status[b] = "pending"
  /\ \A r \in DownloadRuns :
       /\ dl[r].reap = {}
       /\ dl[r].pc = "lease" => status[dl[r].batch] = "pending"
       /\ dl[r].pc \in {"slot", "fetch"} => status[dl[r].batch] = "downloading"
       /\ dl[r].pc \in {"validate", "publish"} => status[dl[r].batch] = "downloaded"
  /\ \A r \in IngestRuns :
       /\ ing[r].reap = {}
       /\ ing[r].pc \in IngestWithRow => status[ing[r].batch] = "ingesting"
  /\ \A r, q \in IngestRuns :
       r # q /\ ing[r].pc \in IngestWithRow /\ ing[q].pc \in IngestWithRow =>
         ing[r].batch # ing[q].batch

(* What is inductive is that this holds as long as no lease has gone stale. *)
ExclusiveInv == expiries = 0 => StatusTellsHolder

(* ExclusiveInv is inductive: with no stale lease nothing is ever reaped,   *)
(* so a row leaves ingesting only by the hand of the run that claimed it.   *)
LEMMA NextExclusive ==
  ASSUME OneDownloader PROVE TypeOK /\ ExclusiveInv /\ [Next]_vars => ExclusiveInv'
<1> SUFFICES ASSUME TypeOK, ExclusiveInv, [Next]_vars, expiries' = 0 PROVE StatusTellsHolder'
  BY DEF ExclusiveInv
<1> USE DEF StatusTellsHolder, IngestWithRow
<1>0. /\ dl \in [DownloadRuns -> DownloadRecord] /\ ing \in [IngestRuns -> IngestRecord]
      /\ \A r \in IngestRuns : ing[r].pc \in {"write", "stamp", "finish"} => ing[r].batch \in Rows
      /\ \A r \in DownloadRuns : dl[r].pc \in WithRow => dl[r].batch \in Rows
      /\ status \in [Batches -> AllStatuses] /\ lease \in [Batches -> Leases]
      /\ Rows \subseteq Batches /\ expiries \in Nat /\ created \in Nat
  BY RowsAreBatches, BatchPipelineAssumption
     DEF TypeOK, TableTypeOK, DownloadTypeOK, IngestTypeOK, WithRow
<1>1. ASSUME NEW r \in DownloadRuns, DownloadStep(r) PROVE StatusTellsHolder'
  <2>0. /\ expiries = 0 /\ StatusTellsHolder /\ UNCHANGED ing
        /\ \A q \in DownloadRuns : q = r
    <3>1. UNCHANGED <<ing, expiries>>
      BY <1>1 DEF DownloadStep, DownloadStart, DownloadReap, DownloadCheckDepth, DownloadResume,
         DownloadNoPending, DownloadClaimDueSets, DownloadCheckRefused, DownloadInsert,
         DownloadBound, DownloadLease, DownloadNoSlot, DownloadCharge, DownloadFetchFailed,
         DownloadFetched, DownloadRefuseFile, DownloadUpload, DownloadPublish, faultVars
    <3>2. QED
      BY <3>1 DEF ExclusiveInv, OneDownloader
  <2>1. CASE DownloadStart(r)
    BY <1>0, <2>0, <2>1 DEF DownloadStart, tableVars, Rows, WithRow, IdleDownload, IsLeaseStale
  <2>2. CASE DownloadReap(r)
    BY <1>0, <2>0, <2>2 DEF DownloadReap, tableVars, Rows, WithRow, Update, Oldest
  <2>3. CASE DownloadCheckDepth(r)
    BY <1>0, <2>0, <2>3 DEF DownloadCheckDepth, tableVars, Rows, WithRow, IdleDownload
  <2>4. CASE DownloadResume(r)
    BY <1>0, <2>0, <2>4 DEF DownloadResume, tableVars, Rows, WithRow, IdleDownload, Oldest, PendingRows
  <2>5. CASE DownloadNoPending(r)
    BY <1>0, <2>0, <2>5 DEF DownloadNoPending, tableVars, Rows, WithRow
  <2>6. CASE DownloadClaimDueSets(r)
    BY <1>0, <2>0, <2>6 DEF DownloadClaimDueSets, tableVars, Rows, WithRow, IdleDownload
  <2>7. CASE DownloadCheckRefused(r)
    BY <1>0, <2>0, <2>7 DEF DownloadCheckRefused, tableVars, Rows, WithRow, IdleDownload
  <2>8. CASE DownloadInsert(r)
    <3> DEFINE rec == [IdleDownload EXCEPT !.pc = "lease", !.batch = created + 1]
    <3>1. rec.pc = "lease" /\ rec.batch = created + 1 /\ rec.reap = {}
      BY DEF IdleDownload
    <3>2. /\ dl' = [dl EXCEPT ![r] = rec] /\ UNCHANGED <<status, lease, ing>>
          /\ created' = created + 1
      BY <2>8 DEF DownloadInsert
    <3> HIDE DEF rec
    <3>3. status[created + 1] = "pending"
      <4>1. created + 1 \in Batches \ Rows
        BY <1>0, <2>8, BatchPipelineAssumption DEF DownloadInsert, Batches, Rows
      <4>2. QED
        BY <2>0, <4>1
    <3>4. /\ \A b \in Batches : lease'[b] # "stale"
          /\ \A b \in Batches \ Rows' : status'[b] = "pending"
      BY <1>0, <2>0, <3>2 DEF Rows
    <3>5. \A q \in DownloadRuns : dl'[q] = rec
      BY <1>0, <2>0, <3>2
    <3>6. QED
      BY <2>0, <3>1, <3>2, <3>3, <3>4, <3>5
  <2>9. CASE DownloadBound(r)
    BY <1>0, <2>0, <2>9 DEF DownloadBound, tableVars, Rows, WithRow, IdleDownload
  <2>10. CASE DownloadLease(r)
    BY <1>0, <2>0, <2>10 DEF DownloadLease, tableVars, Rows, WithRow, Update
  <2>11. CASE DownloadNoSlot(r)
    BY <1>0, <2>0, <2>11 DEF DownloadNoSlot, tableVars, Rows, WithRow, Update, IdleDownload
  <2>12. CASE DownloadCharge(r)
    BY <1>0, <2>0, <2>12 DEF DownloadCharge, tableVars, Rows, WithRow
  <2>13. CASE DownloadFetchFailed(r)
    BY <1>0, <2>0, <2>13 DEF DownloadFetchFailed, tableVars, Rows, WithRow, Update, IdleDownload
  <2>14. CASE DownloadFetched(r)
    BY <1>0, <2>0, <2>14 DEF DownloadFetched, tableVars, Rows, WithRow
  <2>15. CASE DownloadRefuseFile(r)
    BY <1>0, <2>0, <2>15 DEF DownloadRefuseFile, tableVars, Rows, WithRow, Update, IdleDownload
  <2>16. CASE DownloadUpload(r)
    BY <1>0, <2>0, <2>16 DEF DownloadUpload, tableVars, Rows, WithRow
  <2>17. CASE DownloadPublish(r)
    BY <1>0, <2>0, <2>17 DEF DownloadPublish, tableVars, Rows, WithRow, Update, IdleDownload
  <2>18. QED
    BY <1>1, <2>1, <2>2, <2>3, <2>4, <2>5, <2>6, <2>7, <2>8, <2>9, <2>10, <2>11, <2>12,
       <2>13, <2>14, <2>15, <2>16, <2>17 DEF DownloadStep
<1>2. ASSUME NEW r \in IngestRuns, IngestStep(r) PROVE StatusTellsHolder'
  <2>0. expiries = 0 /\ StatusTellsHolder /\ UNCHANGED <<dl, created>>
    <3>1. UNCHANGED <<dl, created, expiries>>
      BY <1>2 DEF IngestStep, IngestStart, IngestReap, IngestList, IngestClaim, IngestNothing,
         IngestWrite, IngestWriteFailed, IngestStamp, IngestFinish, tableVars, faultVars
    <3>2. QED
      BY <3>1 DEF ExclusiveInv
  <2>1. CASE IngestStart(r)
    BY <1>0, <2>0, <2>1 DEF IngestStart, tableVars, IdleIngest, Rows, IsLeaseStale
  <2>2. CASE IngestReap(r)
    BY <1>0, <2>0, <2>2 DEF IngestReap, Oldest
  <2>3. CASE IngestList(r)
    BY <1>0, <2>0, <2>3 DEF IngestList, tableVars, Rows
  <2>4. CASE IngestClaim(r)
    <3>1. PICK c \in ing[r].seen :
            \/ /\ c.batch \in Rows /\ status[c.batch] \in IngestableStatuses
               /\ status' = [status EXCEPT ![c.batch] = "ingesting"]
               /\ lease' = [lease EXCEPT ![c.batch] = "fresh"]
               /\ ing' = [ing EXCEPT ![r] = [IdleIngest EXCEPT !.pc = "write", !.batch = c.batch]]
            \/ /\ ing' = [ing EXCEPT ![r].seen = @ \ {c}]
               /\ UNCHANGED <<status, lease>>
      BY <2>4, ClaimCases DEF Update
    <3>2. CASE ing' = [ing EXCEPT ![r].seen = @ \ {c}] /\ UNCHANGED <<status, lease>>
      BY <1>0, <2>0, <3>2 DEF IngestRecord, Rows
    <3>3. CASE /\ c.batch \in Rows /\ status[c.batch] \in IngestableStatuses
               /\ status' = [status EXCEPT ![c.batch] = "ingesting"]
               /\ lease' = [lease EXCEPT ![c.batch] = "fresh"]
               /\ ing' = [ing EXCEPT ![r] = [IdleIngest EXCEPT !.pc = "write", !.batch = c.batch]]
      <4> DEFINE rec == [IdleIngest EXCEPT !.pc = "write", !.batch = c.batch]
      <4>1. rec.pc = "write" /\ rec.batch = c.batch /\ rec.reap = {}
        BY DEF IdleIngest
      <4>2. /\ ing' = [ing EXCEPT ![r] = rec]
            /\ status' = [status EXCEPT ![c.batch] = "ingesting"] /\ c.batch \in Batches
        BY <1>0, <3>3
      <4> HIDE DEF rec
      <4>3. \A q \in IngestRuns : ing[q].pc \in IngestWithRow => ing[q].batch # c.batch
        BY <2>0, <3>3 DEF IngestableStatuses
      <4>4. \A q \in DownloadRuns : dl[q].pc \in WithRow => dl[q].batch # c.batch
        BY <2>0, <3>3 DEF IngestableStatuses, WithRow
      <4>5. \A q \in DownloadRuns :
              /\ dl'[q].reap = {}
              /\ dl'[q].pc = "lease" => status'[dl'[q].batch] = "pending"
              /\ dl'[q].pc \in {"slot", "fetch"} => status'[dl'[q].batch] = "downloading"
              /\ dl'[q].pc \in {"validate", "publish"} => status'[dl'[q].batch] = "downloaded"
        BY <1>0, <2>0, <3>3, <4>4 DEF WithRow
      <4>6. /\ \A b \in Batches : lease'[b] # "stale"
            /\ \A b \in Batches \ Rows' : status'[b] = "pending"
        BY <1>0, <2>0, <3>3 DEF Rows
      <4>7. \A q \in IngestRuns :
              /\ ing'[q].reap = {}
              /\ ing'[q].pc \in IngestWithRow => status'[ing'[q].batch] = "ingesting"
        <5> SUFFICES ASSUME NEW q \in IngestRuns
                     PROVE  /\ ing'[q].reap = {}
                            /\ ing'[q].pc \in IngestWithRow => status'[ing'[q].batch] = "ingesting"
          OBVIOUS
        <5>1. CASE q = r
          BY <1>0, <4>1, <4>2, <5>1
        <5>2. CASE q # r
          <6>1. ing'[q] = ing[q] /\ (ing[q].pc \in IngestWithRow => ing[q].batch \in Batches)
            BY <1>0, <4>2, <5>2
          <6>2. QED
            BY <1>0, <2>0, <4>2, <4>3, <6>1
        <5>3. QED
          BY <5>1, <5>2
      <4>8. \A q, p \in IngestRuns :
              q # p /\ ing'[q].pc \in IngestWithRow /\ ing'[p].pc \in IngestWithRow =>
                ing'[q].batch # ing'[p].batch
        BY <1>0, <2>0, <4>1, <4>2, <4>3
      <4>9. QED
        BY <4>5, <4>6, <4>7, <4>8
    <3>4. QED
      BY <3>1, <3>2, <3>3
  <2>5. CASE IngestNothing(r)
    BY <1>0, <2>0, <2>5 DEF IngestNothing, tableVars, IdleIngest, Rows
  <2>6. CASE IngestWrite(r)
    BY <1>0, <2>0, <2>6 DEF IngestWrite, tableVars, Rows
  <2>7. CASE IngestWriteFailed(r)
    BY <1>0, <2>0, <2>7 DEF IngestWriteFailed, Update, IdleIngest, Rows, WithRow
  <2>8. CASE IngestStamp(r)
    BY <1>0, <2>0, <2>8 DEF IngestStamp, tableVars, Rows
  <2>9. CASE IngestFinish(r)
    BY <1>0, <2>0, <2>9 DEF IngestFinish, Update, IdleIngest, Rows, WithRow
  <2>10. QED
    BY <1>2, <2>1, <2>2, <2>3, <2>4, <2>5, <2>6, <2>7, <2>8, <2>9 DEF IngestStep
<1>3. CASE Crash
  BY <1>0, <1>3 DEF Crash, ExclusiveInv, tableVars, IdleDownload, IdleIngest, Rows
<1>4. ASSUME NEW b \in Rows, LeaseExpires(b) PROVE FALSE
  BY <1>0, <1>4 DEF LeaseExpires
<1>5. ASSUME NEW b \in Rows, CooldownElapses(b) PROVE StatusTellsHolder'
  BY <1>5 DEF CooldownElapses, ExclusiveInv, faultVars, Rows
<1>6. CASE UNCHANGED vars
  BY <1>6 DEF vars, tableVars, faultVars, ExclusiveInv, Rows
<1>7. QED
  BY <1>1, <1>2, <1>3, <1>4, <1>5, <1>6 DEF Next

(* Of any number of overlapping ingest runs no two work on one batch, until *)
(* a lease goes stale: claim_ingestable_batch's compare-and-swap suffices   *)
(* for that, given a single download run.                                   *)
THEOREM IngestMutualExclusion ==
  ASSUME OneDownloader PROVE Spec => []IngestExclusiveWhileLeasesHold
<1>1. Init => ExclusiveInv
  BY IdleTypes DEF Init, ExclusiveInv, StatusTellsHolder, IdleDownload, IdleIngest, IngestWithRow
<1>2. ExclusiveInv => IngestExclusiveWhileLeasesHold
  BY DEF ExclusiveInv, StatusTellsHolder, IngestExclusiveWhileLeasesHold, IngestExclusive,
         IngestHolds, IngestWithRow
<1>3. TypeOK /\ ExclusiveInv /\ [Next]_vars => ExclusiveInv'
  BY NextExclusive
<1>4. QED
  BY <1>1, <1>2, <1>3, TypeCorrect, PTL DEF Spec

-----------------------------------------------------------------------------
(* The production schedule: the cron starts one run of each kind at a time, *)
(* and a queue depth of one.                                                *)
OneIngester == \A r, q \in IngestRuns : r = q
OnCron == OneDownloader /\ OneIngester /\ MaxQueueDepth = 1

(* On that schedule a run finds its row as it left it, whatever the leases: *)
(* nobody else is there to reap it.                                         *)
DownloadFindsRow(r) ==
  /\ dl[r].pc # "reap" => dl[r].reap = {}
  /\ \A b \in dl[r].reap : status[b] = "downloading"
  /\ dl[r].pc = "lease" => status[dl[r].batch] = "pending"
  /\ dl[r].pc \in {"slot", "fetch"} => status[dl[r].batch] = "downloading"
  /\ dl[r].pc \in {"validate", "publish"} => status[dl[r].batch] = "downloaded"
IngestFindsRow(r) ==
  /\ ing[r].pc # "reap" => ing[r].reap = {}
  /\ \A b \in ing[r].reap : status[b] = "ingesting"
  /\ \A c \in ing[r].seen : c.attempts = ingestAttempts[c.batch]
  /\ ing[r].pc \in IngestWithRow => status[ing[r].batch] = "ingesting"
RunsMatchRows ==
  /\ \A b \in Batches \ Rows : status[b] = "pending" /\ ingestAttempts[b] = 0
  /\ \A r \in DownloadRuns : DownloadFindsRow(r)
  /\ \A r \in IngestRuns : IngestFindsRow(r)

(* The moves of a row's status a download run makes, and an ingest run's.   *)
DownloadMoves ==
  {<<"pending", "downloading">>, <<"downloading", "pending">>, <<"downloading", "fetch_failed">>,
   <<"downloading", "downloaded">>, <<"downloaded", "validation_failed">>,
   <<"downloaded", "validated">>}
IngestMoves ==
  {<<"validated", "ingesting">>, <<"ingest_failed", "ingesting">>, <<"ingesting", "validated">>,
   <<"ingesting", "ingest_failed">>, <<"ingesting", "ingested">>}
MovesRow(b, moves) ==
  \E s \in AllStatuses :
    /\ <<status[b], s>> \in moves
    /\ status' = [status EXCEPT ![b] = s]
    /\ ingestAttempts' = IF s = "ingesting"
                         THEN [ingestAttempts EXCEPT ![b] = @ + 1] ELSE ingestAttempts

(* How far a download run is from booking a batch.                          *)
TowardsBooking == {"resume", "claim", "refused", "insert"}

(* What a download step does to the table and to the choice of a batch.     *)
ChoosesBatch(r) ==
  /\ UNCHANGED <<created, status, booked, ingestAttempts>>
  /\ dl'[r].pc = "resume" => Cardinality(InPipe) < MaxQueueDepth
  /\ dl'[r].pc = "claim" => dl[r].pc = "resume" /\ PendingRows = {}
  /\ dl'[r].pc = "refused" =>
       dl[r].pc = "claim" /\ \E C \in SUBSET Registry : DueClaim(C) /\ dl'[r].sets = DedupeByUid(C)
  /\ dl'[r].pc = "insert" =>
       /\ dl[r].pc = "refused" /\ dl'[r].sets = dl[r].sets
       /\ ~RecentlyRefused(dl[r].sets)
BooksBatch(r) ==
  /\ dl[r].pc = "insert" /\ dl'[r].pc \notin TowardsBooking
  /\ created' = created + 1 /\ created + 1 \in Batches \ Rows
  /\ booked' = [booked EXCEPT ![created + 1] = dl[r].sets]
  /\ UNCHANGED <<status, ingestAttempts>>
MovesBatch(r) ==
  /\ dl'[r].pc \notin TowardsBooking
  /\ UNCHANGED <<created, booked>>
  /\ \E b \in Rows : MovesRow(b, DownloadMoves)

(* Every download step is one of these three.                               *)
LEMMA DownloadEffects ==
  ASSUME TypeOK, RunsMatchRows, NEW r \in DownloadRuns, DownloadStep(r)
  PROVE  /\ UNCHANGED <<ing, clock, refreshedAt, cooled>>
         /\ ChoosesBatch(r) \/ BooksBatch(r) \/ MovesBatch(r)
<1>0. /\ dl \in [DownloadRuns -> DownloadRecord] /\ dl[r] \in DownloadRecord
      /\ dl[r].pc \in WithRow => dl[r].batch \in Rows
      /\ DownloadFindsRow(r) /\ dl[r].reap \subseteq Rows
      /\ status \in [Batches -> AllStatuses] /\ Rows \subseteq Batches
  BY RowsAreBatches DEF TypeOK, TableTypeOK, DownloadTypeOK, WithRow, RunsMatchRows
<1>a. IdleDownload.pc = "idle" /\ "idle" \notin TowardsBooking
  BY IdleTypes DEF TowardsBooking
<1>1. CASE DownloadStart(r)
  BY <1>0, <1>1 DEF DownloadStart, ChoosesBatch, tableVars, dataVars, IdleDownload
<1>2. CASE DownloadReap(r)
  <2>1. PICK b \in Oldest(dl[r].reap) :
          /\ Update(b, RecoveryStatus("downloading"), "none")
          /\ dl' = [dl EXCEPT ![r].reap = @ \ {b}]
    BY <1>2 DEF DownloadReap
  <2>2. b \in Rows /\ status[b] = "downloading"
    BY <1>0, <2>1 DEF Oldest, DownloadFindsRow
  <2>3. MovesRow(b, DownloadMoves)
    BY <1>2, <2>1, <2>2, StatusesAndLeases
       DEF DownloadReap, MovesRow, DownloadMoves, Update, RecoveryStatus
  <2>4. dl'[r].pc = "reap"
    BY <1>0, <1>2, <2>1 DEF DownloadReap, DownloadRecord
  <2>5. QED
    BY <1>2, <2>2, <2>3, <2>4 DEF DownloadReap, MovesBatch, TowardsBooking, dataVars
<1>3. CASE DownloadCheckDepth(r)
  <2>1. CASE Cardinality(InPipe) >= MaxQueueDepth
    BY <1>0, <1>a, <1>3, <2>1
       DEF DownloadCheckDepth, ChoosesBatch, TowardsBooking, tableVars, dataVars
  <2>2. CASE ~ (Cardinality(InPipe) >= MaxQueueDepth)
    <3>1. dl'[r].pc = "resume" /\ Cardinality(InPipe) < MaxQueueDepth
      <4>1. IsFiniteSet(InPipe)
        BY FS_Interval, FS_Subset, BatchPipelineAssumption DEF InPipe, Rows, TypeOK, TableTypeOK
      <4>2. Cardinality(InPipe) \in Nat
        BY <4>1, FS_CardinalityType
      <4>3. QED
        BY <1>0, <1>3, <2>2, <4>2, BatchPipelineAssumption DEF DownloadCheckDepth, DownloadRecord
    <3>2. QED
      BY <1>3, <3>1 DEF DownloadCheckDepth, ChoosesBatch, tableVars, dataVars
  <2>3. QED
    BY <2>1, <2>2
<1>4. CASE DownloadResume(r)
  <2>1. dl'[r].pc \in {"idle", "lease"}
    BY <1>0, <1>a, <1>4 DEF DownloadResume, DownloadRecord
  <2>2. QED
    BY <1>4, <2>1 DEF DownloadResume, ChoosesBatch, tableVars, dataVars
<1>5. CASE DownloadNoPending(r)
  BY <1>0, <1>5 DEF DownloadNoPending, ChoosesBatch, tableVars, dataVars, DownloadRecord
<1>6. CASE DownloadClaimDueSets(r)
  <2>1. PICK C \in SUBSET Registry :
          /\ DueClaim(C)
          /\ dl' = [dl EXCEPT ![r] = IF C = {} THEN IdleDownload
                                     ELSE [@ EXCEPT !.pc = "refused", !.sets = DedupeByUid(C)]]
    BY <1>6 DEF DownloadClaimDueSets
  <2>2. dl'[r].pc = "idle" \/ (dl'[r].pc = "refused" /\ dl'[r].sets = DedupeByUid(C))
    BY <1>0, <1>a, <2>1 DEF DownloadRecord
  <2>3. UNCHANGED <<tableVars, dataVars, ing>> /\ dl[r].pc = "claim"
    BY <1>6 DEF DownloadClaimDueSets
  <2>4. QED
    BY <2>1, <2>2, <2>3 DEF ChoosesBatch, tableVars, dataVars
<1>7. CASE DownloadCheckRefused(r)
  <2>1. \/ dl'[r].pc = "idle"
        \/ dl'[r].pc = "insert" /\ dl'[r].sets = dl[r].sets /\ ~RecentlyRefused(dl[r].sets)
    BY <1>0, <1>a, <1>7 DEF DownloadCheckRefused, DownloadRecord
  <2>2. UNCHANGED <<tableVars, dataVars, ing>> /\ dl[r].pc = "refused"
    BY <1>7 DEF DownloadCheckRefused
  <2>3. QED
    BY <2>1, <2>2 DEF ChoosesBatch, tableVars, dataVars
<1>8. CASE DownloadInsert(r)
  <2>1. created + 1 \in Batches \ Rows
    BY <1>8, BatchPipelineAssumption DEF DownloadInsert, Batches, Rows, TypeOK, TableTypeOK
  <2>2. dl'[r].pc = "lease"
    BY <1>0, <1>8 DEF DownloadInsert, IdleDownload
  <2>3. QED
    BY <1>8, <2>1, <2>2 DEF DownloadInsert, BooksBatch, TowardsBooking, dataVars
<1>9. CASE DownloadBound(r)
  BY <1>0, <1>a, <1>9 DEF DownloadBound, ChoosesBatch, TowardsBooking, tableVars, dataVars
<1>10. CASE DownloadLease(r)
  <2>1. dl'[r].pc = "slot" /\ dl[r].batch \in Rows /\ status[dl[r].batch] = "pending"
    BY <1>0, <1>10 DEF DownloadLease, DownloadRecord, WithRow, DownloadFindsRow
  <2>2. MovesRow(dl[r].batch, DownloadMoves)
    BY <1>10, <2>1, StatusesAndLeases DEF DownloadLease, MovesRow, DownloadMoves, Update
  <2>3. QED
    BY <1>10, <2>1, <2>2 DEF DownloadLease, MovesBatch, TowardsBooking, dataVars
<1>11. CASE DownloadNoSlot(r)
  <2>1. dl'[r].pc = "idle" /\ dl[r].batch \in Rows /\ status[dl[r].batch] = "downloading"
    BY <1>0, <1>a, <1>11 DEF DownloadNoSlot, WithRow, DownloadFindsRow
  <2>2. MovesRow(dl[r].batch, DownloadMoves)
    BY <1>11, <2>1, StatusesAndLeases DEF DownloadNoSlot, MovesRow, DownloadMoves, Update
  <2>3. QED
    BY <1>11, <2>1, <2>2 DEF DownloadNoSlot, MovesBatch, TowardsBooking, dataVars
<1>12. CASE DownloadCharge(r)
  <2>1. dl'[r].pc = "fetch"
    BY <1>0, <1>12 DEF DownloadCharge, DownloadRecord
  <2>2. QED
    BY <1>12, <2>1 DEF DownloadCharge, ChoosesBatch, dataVars
<1>13. CASE DownloadFetchFailed(r)
  <2>1. dl'[r].pc = "idle" /\ dl[r].batch \in Rows /\ status[dl[r].batch] = "downloading"
    BY <1>0, <1>a, <1>13 DEF DownloadFetchFailed, WithRow, DownloadFindsRow
  <2>2. MovesRow(dl[r].batch, DownloadMoves)
    BY <1>13, <2>1, StatusesAndLeases DEF DownloadFetchFailed, MovesRow, DownloadMoves, Update
  <2>3. QED
    BY <1>13, <2>1, <2>2 DEF DownloadFetchFailed, MovesBatch, TowardsBooking, dataVars
<1>14. CASE DownloadFetched(r)
  <2>1. dl'[r].pc = "validate" /\ dl[r].batch \in Rows /\ status[dl[r].batch] = "downloading"
    BY <1>0, <1>14 DEF DownloadFetched, DownloadRecord, WithRow, DownloadFindsRow
  <2>2. MovesRow(dl[r].batch, DownloadMoves)
    BY <1>14, <2>1, StatusesAndLeases DEF DownloadFetched, MovesRow, DownloadMoves
  <2>3. QED
    BY <1>14, <2>1, <2>2 DEF DownloadFetched, MovesBatch, TowardsBooking, dataVars
<1>15. CASE DownloadRefuseFile(r)
  <2>1. dl'[r].pc = "idle" /\ dl[r].batch \in Rows /\ status[dl[r].batch] = "downloaded"
    BY <1>0, <1>a, <1>15 DEF DownloadRefuseFile, WithRow, DownloadFindsRow
  <2>2. MovesRow(dl[r].batch, DownloadMoves)
    BY <1>15, <2>1, StatusesAndLeases DEF DownloadRefuseFile, MovesRow, DownloadMoves, Update
  <2>3. QED
    BY <1>15, <2>1, <2>2 DEF DownloadRefuseFile, MovesBatch, TowardsBooking, dataVars
<1>16. CASE DownloadUpload(r)
  <2>1. dl'[r].pc = "publish"
    BY <1>0, <1>16 DEF DownloadUpload, DownloadRecord
  <2>2. QED
    BY <1>16, <2>1 DEF DownloadUpload, ChoosesBatch, tableVars
<1>17. CASE DownloadPublish(r)
  <2>1. dl'[r].pc = "idle" /\ dl[r].batch \in Rows /\ status[dl[r].batch] = "downloaded"
    BY <1>0, <1>a, <1>17 DEF DownloadPublish, WithRow, DownloadFindsRow
  <2>2. MovesRow(dl[r].batch, DownloadMoves)
    BY <1>17, <2>1, StatusesAndLeases DEF DownloadPublish, MovesRow, DownloadMoves, Update
  <2>3. QED
    BY <1>17, <2>1, <2>2 DEF DownloadPublish, MovesBatch, TowardsBooking, dataVars
<1>18. QED
  BY <1>1, <1>2, <1>3, <1>4, <1>5, <1>6, <1>7, <1>8, <1>9, <1>10, <1>11, <1>12,
     <1>13, <1>14, <1>15, <1>16, <1>17 DEF DownloadStep

(* What an ingest step does to the table, the registry and its own batch.   *)
KeepsBatch(r) ==
  /\ UNCHANGED <<status, ingestAttempts, refreshedAt, clock>>
  /\ ing'[r].pc \in {"write", "stamp"} => ing[r].pc = "write" /\ ing'[r].batch = ing[r].batch
ClaimsBatch(r) ==
  /\ UNCHANGED <<refreshedAt, clock>>
  /\ \E b \in Rows :
       /\ status[b] \in IngestableStatuses
       /\ status' = [status EXCEPT ![b] = "ingesting"]
       /\ ingestAttempts' = [ingestAttempts EXCEPT ![b] = @ + 1]
       /\ ing'[r].pc = "write" /\ ing'[r].batch = b
StampsBatch(r) ==
  /\ ing[r].pc = "stamp" /\ ing'[r].pc = "finish"
  /\ UNCHANGED <<status, ingestAttempts>>
  /\ clock' = clock + 1
  /\ refreshedAt' = [s \in Registry |->
                       IF s \in booked[ing[r].batch] THEN clock + 1 ELSE refreshedAt[s]]
LeavesBatch(r) ==
  /\ UNCHANGED <<refreshedAt, clock>>
  /\ ing'[r].pc \notin {"write", "stamp"}
  /\ \E b \in Rows : status[b] = "ingesting" /\ MovesRow(b, IngestMoves)

(* Every ingest step is one of these four.                                  *)
LEMMA IngestEffects ==
  ASSUME TypeOK, RunsMatchRows, NEW r \in IngestRuns, IngestStep(r)
  PROVE  /\ UNCHANGED <<dl, created, booked, cooled>>
         /\ KeepsBatch(r) \/ ClaimsBatch(r) \/ StampsBatch(r) \/ LeavesBatch(r)
<1>0. /\ ing \in [IngestRuns -> IngestRecord] /\ ing[r] \in IngestRecord
      /\ ing[r].pc \in IngestWithRow => ing[r].batch \in Rows
      /\ IngestFindsRow(r) /\ ing[r].reap \subseteq Rows
      /\ status \in [Batches -> AllStatuses] /\ Rows \subseteq Batches
      /\ ingestAttempts \in [Batches -> Nat]
  BY RowsAreBatches DEF TypeOK, TableTypeOK, IngestTypeOK, IngestWithRow, RunsMatchRows
<1>a. IdleIngest.pc = "idle"
  BY IdleTypes
<1>1. CASE IngestStart(r)
  BY <1>0, <1>1 DEF IngestStart, KeepsBatch, tableVars, dataVars, IdleIngest
<1>2. CASE IngestReap(r)
  <2>1. PICK b \in Oldest(ing[r].reap) :
          /\ Update(b, RecoveryStatus("ingesting"), "none")
          /\ ing' = [ing EXCEPT ![r].reap = @ \ {b}]
    BY <1>2 DEF IngestReap
  <2>2. b \in Rows /\ status[b] = "ingesting"
    BY <1>0, <2>1 DEF Oldest, IngestFindsRow
  <2>3. MovesRow(b, IngestMoves)
    BY <1>2, <2>1, <2>2, StatusesAndLeases
       DEF IngestReap, MovesRow, IngestMoves, Update, RecoveryStatus
  <2>4. ing'[r].pc = "reap"
    BY <1>0, <1>2, <2>1 DEF IngestReap, IngestRecord
  <2>5. QED
    BY <1>2, <2>2, <2>3, <2>4 DEF IngestReap, LeavesBatch, dataVars
<1>3. CASE IngestList(r)
  <2>1. ing'[r].pc = "claim"
    BY <1>0, <1>3 DEF IngestList, IngestRecord
  <2>2. QED
    BY <1>3, <2>1 DEF IngestList, KeepsBatch, tableVars, dataVars
<1>4. CASE IngestClaim(r)
  <2>1. PICK c \in ing[r].seen :
          /\ c \in CandidateRecord /\ c.batch \in Rows
          /\ \/ /\ status[c.batch] = c.status /\ c.status \in IngestableStatuses
                /\ Update(c.batch, "ingesting", "fresh")
                /\ ingestAttempts' = [ingestAttempts EXCEPT ![c.batch] = c.attempts + 1]
                /\ ing' = [ing EXCEPT ![r] = [IdleIngest EXCEPT !.pc = "write", !.batch = c.batch]]
             \/ /\ ing' = [ing EXCEPT ![r].seen = @ \ {c}]
                /\ UNCHANGED <<status, lease, ingestAttempts>>
    BY <1>4, ClaimCases
  <2>2. UNCHANGED <<dl, created, booked, cooled, refreshedAt, clock>> /\ ing[r].pc = "claim"
    BY <1>4 DEF IngestClaim, dataVars
  <2>3. CASE ing' = [ing EXCEPT ![r].seen = @ \ {c}] /\ UNCHANGED <<status, lease, ingestAttempts>>
    <3>1. ing'[r].pc = "claim"
      BY <1>0, <2>2, <2>3 DEF IngestRecord
    <3>2. QED
      BY <2>2, <2>3, <3>1 DEF KeepsBatch
  <2>4. CASE /\ status[c.batch] = c.status /\ c.status \in IngestableStatuses
             /\ Update(c.batch, "ingesting", "fresh")
             /\ ingestAttempts' = [ingestAttempts EXCEPT ![c.batch] = c.attempts + 1]
             /\ ing' = [ing EXCEPT ![r] = [IdleIngest EXCEPT !.pc = "write", !.batch = c.batch]]
    <3>1. c.attempts = ingestAttempts[c.batch]
      BY <1>0 DEF IngestFindsRow
    <3>2. ing'[r].pc = "write" /\ ing'[r].batch = c.batch
      BY <1>0, <2>4 DEF IdleIngest
    <3>3. QED
      BY <2>1, <2>2, <2>4, <3>1, <3>2 DEF ClaimsBatch, Update
  <2>5. QED
    BY <2>1, <2>3, <2>4
<1>5. CASE IngestNothing(r)
  BY <1>0, <1>a, <1>5 DEF IngestNothing, KeepsBatch, tableVars, dataVars
<1>6. CASE IngestWrite(r)
  <2>1. ing[r].pc = "write" /\ ing'[r].batch = ing[r].batch
    BY <1>0, <1>6 DEF IngestWrite, IngestRecord
  <2>2. QED
    BY <1>6, <2>1 DEF IngestWrite, KeepsBatch, tableVars
<1>7. CASE IngestWriteFailed(r)
  <2>1. ing'[r].pc = "idle" /\ ing[r].batch \in Rows /\ status[ing[r].batch] = "ingesting"
    BY <1>0, <1>a, <1>7 DEF IngestWriteFailed, IngestWithRow, IngestFindsRow
  <2>2. MovesRow(ing[r].batch, IngestMoves)
    BY <1>7, <2>1, StatusesAndLeases DEF IngestWriteFailed, MovesRow, IngestMoves, Update
  <2>3. QED
    BY <1>7, <2>1, <2>2 DEF IngestWriteFailed, LeavesBatch, dataVars
<1>8. CASE IngestStamp(r)
  <2>1. ing'[r].pc = "finish"
    BY <1>0, <1>8 DEF IngestStamp, IngestRecord
  <2>2. QED
    BY <1>8, <2>1 DEF IngestStamp, StampsBatch, tableVars
<1>9. CASE IngestFinish(r)
  <2>1. ing'[r].pc = "idle" /\ ing[r].batch \in Rows /\ status[ing[r].batch] = "ingesting"
    BY <1>0, <1>a, <1>9 DEF IngestFinish, IngestWithRow, IngestFindsRow
  <2>2. MovesRow(ing[r].batch, IngestMoves)
    BY <1>9, <2>1, StatusesAndLeases DEF IngestFinish, MovesRow, IngestMoves, Update
  <2>3. QED
    BY <1>9, <2>1, <2>2 DEF IngestFinish, LeavesBatch, dataVars
<1>10. QED
  BY <1>1, <1>2, <1>3, <1>4, <1>5, <1>6, <1>7, <1>8, <1>9 DEF IngestStep

(* The rows not inserted yet stay untouched by steps on rows that exist.    *)
LEMMA DownloadKeepsOthers ==
  ASSUME TypeOK, RunsMatchRows, NEW r \in DownloadRuns, DownloadStep(r)
  PROVE  /\ \A b \in Batches \ Rows' : status'[b] = "pending" /\ ingestAttempts'[b] = 0
         /\ \A q \in IngestRuns : IngestFindsRow(q)'
<1>0. /\ status \in [Batches -> AllStatuses] /\ Rows \subseteq Batches /\ Rows \subseteq Rows'
      /\ ingestAttempts \in [Batches -> Nat] /\ UNCHANGED ing
      /\ \A q \in IngestRuns : /\ ing[q].pc \in IngestWithRow => ing[q].batch \in Rows
                               /\ ing[q].reap \subseteq Rows
      /\ \A b \in Batches \ Rows : status[b] = "pending" /\ ingestAttempts[b] = 0
      /\ \A q \in IngestRuns : IngestFindsRow(q)
  BY RowsAreBatches, CreatedGrows, DownloadEffects
     DEF TypeOK, TableTypeOK, IngestTypeOK, IngestWithRow, RunsMatchRows, Next
<1>1. /\ UNCHANGED ingestAttempts
      /\ \A b \in Batches : status[b] = "ingesting" => status'[b] = "ingesting"
      /\ \A b \in Batches \ Rows : UNCHANGED status[b]
  <2>1. CASE ChoosesBatch(r)
    BY <2>1 DEF ChoosesBatch
  <2>2. CASE BooksBatch(r)
    BY <2>2 DEF BooksBatch
  <2>3. CASE MovesBatch(r)
    BY <1>0, <2>3 DEF MovesBatch, MovesRow, DownloadMoves
  <2>4. QED
    BY <2>1, <2>2, <2>3, DownloadEffects
<1>2. \A q \in IngestRuns : IngestFindsRow(q)'
  BY <1>0, <1>1 DEF IngestFindsRow
<1>3. QED
  BY <1>0, <1>1, <1>2

LEMMA IngestKeepsOthers ==
  ASSUME TypeOK, RunsMatchRows, NEW r \in IngestRuns, IngestStep(r)
  PROVE  /\ \A b \in Batches \ Rows' : status'[b] = "pending" /\ ingestAttempts'[b] = 0
         /\ \A q \in DownloadRuns : DownloadFindsRow(q)'
<1>0. /\ status \in [Batches -> AllStatuses] /\ Rows \subseteq Batches
      /\ ingestAttempts \in [Batches -> Nat] /\ UNCHANGED <<dl, created>>
      /\ \A q \in DownloadRuns : /\ dl[q].pc \in WithRow => dl[q].batch \in Rows
                                 /\ dl[q].reap \subseteq Rows
      /\ \A b \in Batches \ Rows : status[b] = "pending" /\ ingestAttempts[b] = 0
      /\ \A q \in DownloadRuns : DownloadFindsRow(q)
  BY RowsAreBatches, IngestEffects
     DEF TypeOK, TableTypeOK, DownloadTypeOK, WithRow, RunsMatchRows
<1>1. /\ \A b \in Batches : status[b] \in {"pending", "downloading", "downloaded"} =>
                              status'[b] = status[b]
      /\ \A b \in Batches \ Rows : status'[b] = status[b] /\ ingestAttempts'[b] = ingestAttempts[b]
  <2>1. CASE KeepsBatch(r)
    BY <2>1 DEF KeepsBatch
  <2>2. CASE ClaimsBatch(r)
    BY <1>0, <2>2 DEF ClaimsBatch, IngestableStatuses
  <2>3. CASE StampsBatch(r)
    BY <2>3 DEF StampsBatch
  <2>4. CASE LeavesBatch(r)
    BY <1>0, <2>4 DEF LeavesBatch, MovesRow, IngestMoves
  <2>5. QED
    BY <2>1, <2>2, <2>3, <2>4, IngestEffects
<1>2. \A q \in DownloadRuns : DownloadFindsRow(q)'
  BY <1>0, <1>1 DEF DownloadFindsRow, WithRow
<1>3. QED
  BY <1>0, <1>1, <1>2 DEF Rows

(* A download run that lives finds its row as it left it: one case per      *)
(* action.                                                                  *)
LEMMA DownloadKeepsOwn ==
  ASSUME TypeOK, RunsMatchRows, NEW r \in DownloadRuns, DownloadStep(r)
  PROVE  DownloadFindsRow(r)'
<1>0. /\ dl \in [DownloadRuns -> DownloadRecord] /\ dl[r] \in DownloadRecord
      /\ dl[r].pc \in WithRow => dl[r].batch \in Rows
      /\ DownloadFindsRow(r) /\ dl[r].reap \subseteq Rows
      /\ status \in [Batches -> AllStatuses] /\ Rows \subseteq Batches
      /\ \A b \in Batches \ Rows : status[b] = "pending"
  BY RowsAreBatches DEF TypeOK, TableTypeOK, DownloadTypeOK, WithRow, RunsMatchRows
<1>a. /\ IdleDownload.pc = "idle" /\ IdleDownload.reap = {}
      /\ IdleDownload \in DownloadRecord
  BY IdleTypes
<1>b. ASSUME dl' = [dl EXCEPT ![r] = IdleDownload] PROVE DownloadFindsRow(r)'
  BY <1>0, <1>a, <1>b DEF DownloadFindsRow
<1>1. CASE DownloadStart(r)
  <2> DEFINE stale == {b \in Rows : status[b] = "downloading" /\ IsLeaseStale(status[b], lease[b])}
  <2>1. dl'[r].pc = "reap" /\ dl'[r].reap = stale /\ UNCHANGED status
    BY <1>0, <1>1 DEF DownloadStart, IdleDownload, tableVars
  <2>2. QED
    BY <2>1 DEF DownloadFindsRow
<1>2. CASE DownloadReap(r)
  <2>1. PICK b \in Oldest(dl[r].reap) :
          /\ Update(b, RecoveryStatus("downloading"), "none")
          /\ dl' = [dl EXCEPT ![r].reap = @ \ {b}]
    BY <1>2 DEF DownloadReap
  <2>2. dl'[r].pc = "reap" /\ dl'[r].reap = dl[r].reap \ {b}
    BY <1>0, <1>2, <2>1 DEF DownloadReap, DownloadRecord
  <2>3. QED
    BY <1>0, <2>1, <2>2 DEF DownloadFindsRow, Update
<1>3. CASE DownloadCheckDepth(r)
  <2>1. CASE dl' = [dl EXCEPT ![r] = IdleDownload]
    BY <1>b, <2>1
  <2>2. CASE dl' = [dl EXCEPT ![r] = [dl[r] EXCEPT !.pc = "resume"]]
    <3>1. dl'[r].pc = "resume" /\ dl'[r].reap = {}
      BY <1>0, <1>3, <2>2 DEF DownloadCheckDepth, DownloadRecord
    <3>2. QED
      BY <3>1 DEF DownloadFindsRow
  <2>3. QED
    BY <1>3, <2>1, <2>2 DEF DownloadCheckDepth
<1>4. CASE DownloadResume(r)
  <2>1. PICK b \in Oldest(PendingRows) :
          dl' = [dl EXCEPT ![r] =
             IF downloadAttempts[b] >= MaxDownloadAttempts THEN IdleDownload
             ELSE [@ EXCEPT !.pc = "lease", !.batch = b, !.attempts = downloadAttempts[b]]]
    BY <1>4 DEF DownloadResume
  <2>2. status[b] = "pending" /\ dl[r].reap = {} /\ UNCHANGED status
    BY <1>0, <1>4, <2>1 DEF DownloadResume, Oldest, PendingRows, DownloadFindsRow, tableVars
  <2>3. CASE dl' = [dl EXCEPT ![r] = IdleDownload]
    BY <1>b, <2>3
  <2>4. CASE dl' = [dl EXCEPT ![r] = [@ EXCEPT !.pc = "lease", !.batch = b,
                                                 !.attempts = downloadAttempts[b]]]
    <3>1. dl'[r].pc = "lease" /\ dl'[r].batch = b /\ dl'[r].reap = {}
      BY <1>0, <2>2, <2>4 DEF DownloadRecord
    <3>2. QED
      BY <2>2, <3>1 DEF DownloadFindsRow
  <2>5. QED
    BY <2>1, <2>3, <2>4
<1>5. CASE DownloadNoPending(r)
  <2>1. dl'[r].pc = "claim" /\ dl'[r].reap = {}
    BY <1>0, <1>5 DEF DownloadNoPending, DownloadRecord, DownloadFindsRow
  <2>2. QED
    BY <2>1 DEF DownloadFindsRow
<1>6. CASE DownloadClaimDueSets(r)
  <2>1. PICK C \in SUBSET Registry :
          dl' = [dl EXCEPT ![r] = IF C = {} THEN IdleDownload
                                  ELSE [@ EXCEPT !.pc = "refused", !.sets = DedupeByUid(C)]]
    BY <1>6 DEF DownloadClaimDueSets
  <2>2. CASE dl' = [dl EXCEPT ![r] = IdleDownload]
    BY <1>b, <2>2
  <2>3. CASE dl' = [dl EXCEPT ![r] = [@ EXCEPT !.pc = "refused", !.sets = DedupeByUid(C)]]
    <3>1. dl'[r].pc = "refused" /\ dl'[r].reap = {}
      BY <1>0, <1>6, <2>3 DEF DownloadClaimDueSets, DownloadRecord, DownloadFindsRow
    <3>2. QED
      BY <3>1 DEF DownloadFindsRow
  <2>4. QED
    BY <2>1, <2>2, <2>3
<1>7. CASE DownloadCheckRefused(r)
  <2>1. CASE dl' = [dl EXCEPT ![r] = IdleDownload]
    BY <1>b, <2>1
  <2>2. CASE dl' = [dl EXCEPT ![r] = [@ EXCEPT !.pc = "insert"]]
    <3>1. dl'[r].pc = "insert" /\ dl'[r].reap = {}
      BY <1>0, <1>7, <2>2 DEF DownloadCheckRefused, DownloadRecord, DownloadFindsRow
    <3>2. QED
      BY <3>1 DEF DownloadFindsRow
  <2>3. QED
    BY <1>7, <2>1, <2>2 DEF DownloadCheckRefused
<1>8. CASE DownloadInsert(r)
  <2>1. created + 1 \in Batches \ Rows
    BY <1>8, BatchPipelineAssumption DEF DownloadInsert, Batches, Rows, TypeOK, TableTypeOK
  <2>2. /\ dl'[r].pc = "lease" /\ dl'[r].batch = created + 1 /\ dl'[r].reap = {}
        /\ UNCHANGED status
    BY <1>0, <1>8 DEF DownloadInsert, IdleDownload
  <2>3. QED
    BY <1>0, <2>1, <2>2 DEF DownloadFindsRow
<1>9. CASE DownloadBound(r)
  BY <1>b, <1>9 DEF DownloadBound
<1>10. CASE DownloadLease(r)
  <2>1. /\ dl'[r].pc = "slot" /\ dl'[r].batch = dl[r].batch /\ dl'[r].reap = {}
        /\ dl[r].batch \in Batches
    BY <1>0, <1>10 DEF DownloadLease, DownloadRecord, DownloadFindsRow, WithRow
  <2>2. QED
    BY <1>0, <1>10, <2>1 DEF DownloadLease, Update, DownloadFindsRow
<1>11. CASE DownloadNoSlot(r)
  BY <1>b, <1>11 DEF DownloadNoSlot
<1>12. CASE DownloadCharge(r)
  <2>1. dl'[r].pc = "fetch" /\ dl'[r].batch = dl[r].batch /\ dl'[r].reap = {}
    BY <1>0, <1>12 DEF DownloadCharge, DownloadRecord, DownloadFindsRow
  <2>2. QED
    BY <1>0, <1>12, <2>1 DEF DownloadCharge, DownloadFindsRow
<1>13. CASE DownloadFetchFailed(r)
  BY <1>b, <1>13 DEF DownloadFetchFailed
<1>14. CASE DownloadFetched(r)
  <2>1. /\ dl'[r].pc = "validate" /\ dl'[r].batch = dl[r].batch /\ dl'[r].reap = {}
        /\ dl[r].batch \in Batches
    BY <1>0, <1>14 DEF DownloadFetched, DownloadRecord, DownloadFindsRow, WithRow
  <2>2. QED
    BY <1>0, <1>14, <2>1 DEF DownloadFetched, DownloadFindsRow
<1>15. CASE DownloadRefuseFile(r)
  BY <1>b, <1>15 DEF DownloadRefuseFile
<1>16. CASE DownloadUpload(r)
  <2>1. dl'[r].pc = "publish" /\ dl'[r].batch = dl[r].batch /\ dl'[r].reap = {}
    BY <1>0, <1>16 DEF DownloadUpload, DownloadRecord, DownloadFindsRow
  <2>2. QED
    BY <1>0, <1>16, <2>1 DEF DownloadUpload, DownloadFindsRow, tableVars
<1>17. CASE DownloadPublish(r)
  BY <1>b, <1>17 DEF DownloadPublish
<1>18. QED
  BY <1>1, <1>2, <1>3, <1>4, <1>5, <1>6, <1>7, <1>8, <1>9, <1>10, <1>11, <1>12,
     <1>13, <1>14, <1>15, <1>16, <1>17 DEF DownloadStep

(* So does an ingest run.                                                   *)
LEMMA IngestKeepsOwn ==
  ASSUME TypeOK, RunsMatchRows, NEW r \in IngestRuns, IngestStep(r)
  PROVE  IngestFindsRow(r)'
<1>0. /\ ing \in [IngestRuns -> IngestRecord] /\ ing[r] \in IngestRecord
      /\ ing[r].pc \in IngestWithRow => ing[r].batch \in Rows
      /\ IngestFindsRow(r) /\ ing[r].reap \subseteq Rows
      /\ status \in [Batches -> AllStatuses] /\ Rows \subseteq Batches
      /\ ingestAttempts \in [Batches -> Nat]
  BY RowsAreBatches DEF TypeOK, TableTypeOK, IngestTypeOK, IngestWithRow, RunsMatchRows
<1>a. IdleIngest.pc = "idle" /\ IdleIngest.reap = {} /\ IdleIngest.seen = {}
  BY IdleTypes
<1>b. ASSUME ing' = [ing EXCEPT ![r] = IdleIngest] PROVE IngestFindsRow(r)'
  BY <1>0, <1>a, <1>b DEF IngestFindsRow, IngestWithRow
<1>1. CASE IngestStart(r)
  <2> DEFINE stale == {b \in Rows : status[b] = "ingesting" /\ IsLeaseStale(status[b], lease[b])}
  <2>1. ing'[r].pc = "reap" /\ ing'[r].reap = stale /\ ing'[r].seen = {} /\ UNCHANGED status
    BY <1>0, <1>1 DEF IngestStart, IdleIngest, tableVars
  <2>2. QED
    BY <2>1 DEF IngestFindsRow, IngestWithRow
<1>2. CASE IngestReap(r)
  <2>1. PICK b \in Oldest(ing[r].reap) :
          /\ Update(b, RecoveryStatus("ingesting"), "none")
          /\ ing' = [ing EXCEPT ![r].reap = @ \ {b}]
    BY <1>2 DEF IngestReap
  <2>2. /\ ing'[r].pc = "reap" /\ ing'[r].reap = ing[r].reap \ {b} /\ ing'[r].seen = ing[r].seen
        /\ UNCHANGED ingestAttempts
    BY <1>0, <1>2, <2>1 DEF IngestReap, IngestRecord
  <2>3. QED
    BY <1>0, <2>1, <2>2 DEF IngestFindsRow, IngestWithRow, Update
<1>3. CASE IngestList(r)
  <2> DEFINE found == {Candidate(b) : b \in {c \in Rows : /\ status[c] \in IngestableStatuses
                                                          /\ ingestAttempts[c] < MaxIngestAttempts}}
  <2>1. /\ ing'[r].pc = "claim" /\ ing'[r].reap = {} /\ ing'[r].seen = found
        /\ UNCHANGED ingestAttempts
    BY <1>0, <1>3 DEF IngestList, IngestRecord, tableVars
  <2>2. \A c \in found : c.attempts = ingestAttempts[c.batch]
    BY DEF Candidate
  <2> HIDE DEF found
  <2>3. QED
    BY <2>1, <2>2 DEF IngestFindsRow, IngestWithRow
<1>4. CASE IngestClaim(r)
  <2>1. PICK c \in ing[r].seen :
          /\ c \in CandidateRecord /\ c.batch \in Rows
          /\ \/ /\ Update(c.batch, "ingesting", "fresh")
                /\ ing' = [ing EXCEPT ![r] = [IdleIngest EXCEPT !.pc = "write", !.batch = c.batch]]
             \/ /\ ing' = [ing EXCEPT ![r].seen = @ \ {c}]
                /\ UNCHANGED <<status, lease, ingestAttempts>>
    BY <1>4, ClaimCases
  <2>2. CASE ing' = [ing EXCEPT ![r].seen = @ \ {c}] /\ UNCHANGED <<status, lease, ingestAttempts>>
    <3>1. ing'[r].pc = "claim" /\ ing'[r].seen = ing[r].seen \ {c} /\ ing'[r].reap = {}
      BY <1>0, <1>4, <2>2 DEF IngestClaim, IngestRecord, IngestFindsRow
    <3>2. QED
      BY <1>0, <2>2, <3>1 DEF IngestFindsRow, IngestWithRow
  <2>3. CASE /\ Update(c.batch, "ingesting", "fresh")
             /\ ing' = [ing EXCEPT ![r] = [IdleIngest EXCEPT !.pc = "write", !.batch = c.batch]]
    <3>1. ing'[r].pc = "write" /\ ing'[r].seen = {} /\ ing'[r].reap = {} /\ ing'[r].batch = c.batch
      BY <1>0, <2>3 DEF IdleIngest
    <3>2. QED
      BY <1>0, <2>1, <2>3, <3>1 DEF IngestFindsRow, IngestWithRow, Update
  <2>4. QED
    BY <2>1, <2>2, <2>3
<1>5. CASE IngestNothing(r)
  BY <1>b, <1>5 DEF IngestNothing
<1>6. CASE IngestWrite(r)
  <2>1. /\ ing'[r].pc = "stamp" /\ ing'[r].batch = ing[r].batch
        /\ ing'[r].seen = ing[r].seen /\ ing'[r].reap = {}
    BY <1>0, <1>6 DEF IngestWrite, IngestRecord, IngestFindsRow
  <2>2. QED
    BY <1>0, <1>6, <2>1 DEF IngestWrite, IngestFindsRow, IngestWithRow, tableVars
<1>7. CASE IngestWriteFailed(r)
  BY <1>b, <1>7 DEF IngestWriteFailed
<1>8. CASE IngestStamp(r)
  <2>1. /\ ing'[r].pc = "finish" /\ ing'[r].batch = ing[r].batch
        /\ ing'[r].seen = ing[r].seen /\ ing'[r].reap = {}
    BY <1>0, <1>8 DEF IngestStamp, IngestRecord, IngestFindsRow
  <2>2. QED
    BY <1>0, <1>8, <2>1 DEF IngestStamp, IngestFindsRow, IngestWithRow, tableVars
<1>9. CASE IngestFinish(r)
  BY <1>b, <1>9 DEF IngestFinish
<1>10. QED
  BY <1>1, <1>2, <1>3, <1>4, <1>5, <1>6, <1>7, <1>8, <1>9 DEF IngestStep

(* RunsMatchRows is inductive on the production schedule.                   *)
LEMMA NextRunsMatch ==
  ASSUME OnCron PROVE TypeOK /\ RunsMatchRows /\ [Next]_vars => RunsMatchRows'
<1> SUFFICES ASSUME TypeOK, RunsMatchRows, [Next]_vars PROVE RunsMatchRows'
  OBVIOUS
<1>0. (\A r, q \in DownloadRuns : r = q) /\ (\A r, q \in IngestRuns : r = q)
  BY DEF OnCron, OneDownloader, OneIngester
<1>1. ASSUME NEW r \in DownloadRuns, DownloadStep(r) PROVE RunsMatchRows'
  BY <1>0, <1>1, DownloadKeepsOthers, DownloadKeepsOwn DEF RunsMatchRows
<1>2. ASSUME NEW r \in IngestRuns, IngestStep(r) PROVE RunsMatchRows'
  BY <1>0, <1>2, IngestKeepsOthers, IngestKeepsOwn DEF RunsMatchRows
<1>3. CASE Crash
  <2>0. /\ UNCHANGED <<created, status, ingestAttempts>>
        /\ dl \in [DownloadRuns -> DownloadRecord] /\ ing \in [IngestRuns -> IngestRecord]
    BY <1>3 DEF Crash, tableVars, TypeOK, DownloadTypeOK, IngestTypeOK
  <2>1. \A r \in DownloadRuns : dl'[r] \in {dl[r], IdleDownload}
    BY <1>3, <2>0 DEF Crash
  <2>2. \A r \in IngestRuns : ing'[r] \in {ing[r], IdleIngest}
    BY <1>3, <2>0 DEF Crash
  <2>3. \A r \in DownloadRuns : DownloadFindsRow(r)'
    BY <2>0, <2>1, IdleTypes DEF RunsMatchRows, DownloadFindsRow
  <2>4. \A r \in IngestRuns : IngestFindsRow(r)'
    BY <2>0, <2>2, IdleTypes DEF RunsMatchRows, IngestFindsRow, IngestWithRow
  <2>5. QED
    BY <2>0, <2>3, <2>4 DEF RunsMatchRows, Rows
<1>4. ASSUME NEW b \in Rows, LeaseExpires(b) \/ CooldownElapses(b) PROVE RunsMatchRows'
  BY <1>4 DEF LeaseExpires, CooldownElapses, RunsMatchRows, DownloadFindsRow, IngestFindsRow, Rows
<1>5. CASE UNCHANGED vars
  BY <1>5 DEF vars, tableVars, RunsMatchRows, DownloadFindsRow, IngestFindsRow, Rows
<1>6. QED
  BY <1>1, <1>2, <1>3, <1>4, <1>5 DEF Next

(* What any step does to the rows.                                          *)
BooksOrMoves ==
  \/ UNCHANGED <<created, status, booked, ingestAttempts>>
  \/ \E r \in DownloadRuns : BooksBatch(r)
  \/ /\ UNCHANGED <<created, booked>>
     /\ \E b \in Rows : MovesRow(b, DownloadMoves \cup IngestMoves)

LEMMA RowEffects ==
  ASSUME TypeOK, RunsMatchRows, [Next]_vars PROVE BooksOrMoves
<1>1. ASSUME NEW r \in DownloadRuns, DownloadStep(r) PROVE BooksOrMoves
  <2>1. CASE ChoosesBatch(r)
    BY <2>1 DEF ChoosesBatch, BooksOrMoves
  <2>2. CASE BooksBatch(r)
    BY <2>2 DEF BooksOrMoves
  <2>3. CASE MovesBatch(r)
    BY <2>3 DEF MovesBatch, MovesRow, BooksOrMoves
  <2>4. QED
    BY <1>1, <2>1, <2>2, <2>3, DownloadEffects
<1>2. ASSUME NEW r \in IngestRuns, IngestStep(r) PROVE BooksOrMoves
  <2>0. UNCHANGED <<created, booked>>
    BY <1>2, IngestEffects
  <2>1. CASE KeepsBatch(r)
    BY <2>0, <2>1 DEF KeepsBatch, BooksOrMoves
  <2>2. CASE ClaimsBatch(r)
    <3>1. PICK b \in Rows :
            /\ status[b] \in IngestableStatuses
            /\ status' = [status EXCEPT ![b] = "ingesting"]
            /\ ingestAttempts' = [ingestAttempts EXCEPT ![b] = @ + 1]
      BY <2>2 DEF ClaimsBatch
    <3>2. MovesRow(b, DownloadMoves \cup IngestMoves)
      BY <3>1, StatusesAndLeases DEF MovesRow, IngestMoves, IngestableStatuses
    <3>3. QED
      BY <2>0, <3>2 DEF BooksOrMoves
  <2>3. CASE StampsBatch(r)
    BY <2>0, <2>3 DEF StampsBatch, BooksOrMoves
  <2>4. CASE LeavesBatch(r)
    BY <2>0, <2>4 DEF LeavesBatch, MovesRow, BooksOrMoves
  <2>5. QED
    BY <1>2, <2>1, <2>2, <2>3, <2>4, IngestEffects
<1>3. CASE Crash
  BY <1>3 DEF Crash, tableVars, BooksOrMoves
<1>4. ASSUME NEW b \in Rows, LeaseExpires(b) \/ CooldownElapses(b) PROVE BooksOrMoves
  BY <1>4 DEF LeaseExpires, CooldownElapses, BooksOrMoves
<1>5. CASE UNCHANGED vars
  BY <1>5 DEF vars, tableVars, BooksOrMoves
<1>6. QED
  BY <1>1, <1>2, <1>3, <1>4, <1>5 DEF Next

(* A row's status tells whether an ingester ever claimed it.                *)
Unvalidated == {"pending", "downloading", "downloaded"}
AttemptsMatchStatus ==
  \A b \in Batches :
    /\ status[b] \in Unvalidated => ingestAttempts[b] = 0
    /\ status[b] \in {"ingesting", "ingested", "ingest_failed"} => ingestAttempts[b] >= 1

LEMMA NextAttemptsMatch ==
  ASSUME TypeOK, RunsMatchRows, AttemptsMatchStatus, [Next]_vars PROVE AttemptsMatchStatus'
<1>0. /\ status \in [Batches -> AllStatuses] /\ ingestAttempts \in [Batches -> Nat]
      /\ Rows \subseteq Batches
  BY RowsAreBatches DEF TypeOK, TableTypeOK
<1>1. CASE UNCHANGED <<created, status, booked, ingestAttempts>>
  BY <1>1 DEF AttemptsMatchStatus
<1>2. CASE \E r \in DownloadRuns : BooksBatch(r)
  BY <1>2 DEF AttemptsMatchStatus, BooksBatch
<1>3. CASE \E b \in Rows : MovesRow(b, DownloadMoves \cup IngestMoves)
  BY <1>0, <1>3 DEF AttemptsMatchStatus, MovesRow, DownloadMoves, IngestMoves, Unvalidated
<1>4. QED
  BY <1>1, <1>2, <1>3, RowEffects DEF BooksOrMoves

(* Of the rows in flight only the newest may not have been retried, and a   *)
(* run on its way to book another batch finds none that was not.            *)
OnlyNewestUntried == \A b \in Rows : InFlight(b) /\ ingestAttempts[b] < 2 => b = created
BooksAlone(r) ==
  /\ dl[r].pc = "resume" =>
       \A b \in Rows : InFlight(b) => status[b] = "pending" \/ ingestAttempts[b] >= 2
  /\ dl[r].pc \in {"claim", "refused", "insert"} =>
       \A b \in Rows : InFlight(b) => ingestAttempts[b] >= 2
BookedInTurn == OnlyNewestUntried /\ \A r \in DownloadRuns : BooksAlone(r)

LEMMA NextNewest ==
  ASSUME TypeOK, RunsMatchRows, AttemptsMatchStatus, BookedInTurn, [Next]_vars
  PROVE  OnlyNewestUntried'
<1>0. /\ status \in [Batches -> AllStatuses] /\ ingestAttempts \in [Batches -> Nat]
      /\ Rows \subseteq Batches /\ created \in Nat
  BY RowsAreBatches, BatchPipelineAssumption DEF TypeOK, TableTypeOK
<1>1. CASE UNCHANGED <<created, status, booked, ingestAttempts>>
  BY <1>1 DEF BookedInTurn, OnlyNewestUntried, InFlight, Rows
<1>2. ASSUME NEW r \in DownloadRuns, BooksBatch(r) PROVE OnlyNewestUntried'
  <2>1. \A b \in Rows : InFlight(b) => ingestAttempts[b] >= 2
    BY <1>2 DEF BookedInTurn, BooksAlone, BooksBatch
  <2>2. \A b \in Rows' : b \in Rows \/ b = created'
    BY <1>0, <1>2 DEF BooksBatch, Rows
  <2>3. QED
    BY <1>0, <1>2, <2>1, <2>2 DEF BooksBatch, OnlyNewestUntried, InFlight
<1>3. ASSUME NEW b \in Rows, MovesRow(b, DownloadMoves \cup IngestMoves), UNCHANGED created
      PROVE  OnlyNewestUntried'
  <2>1. ~ InFlight(b) => ~ InFlight(b)' \/ ingestAttempts'[b] >= 2
    BY <1>0, <1>3 DEF AttemptsMatchStatus, MovesRow, DownloadMoves, IngestMoves,
                      InFlight, InFlightStatuses, TerminalStatuses
  <2>2. ingestAttempts'[b] \in Nat /\ ingestAttempts'[b] >= ingestAttempts[b]
    BY <1>0, <1>3 DEF MovesRow
  <2>3. \A c \in Rows : c # b => status'[c] = status[c] /\ ingestAttempts'[c] = ingestAttempts[c]
    BY <1>0, <1>3 DEF MovesRow
  <2>4. QED
    BY <1>0, <1>3, <2>1, <2>2, <2>3 DEF BookedInTurn, OnlyNewestUntried, InFlight, Rows
<1>4. QED
  BY <1>1, <1>2, <1>3, RowEffects DEF BooksOrMoves

LEMMA NextBooksAlone ==
  ASSUME OnCron, TypeOK, RunsMatchRows, AttemptsMatchStatus, BookedInTurn, [Next]_vars,
         NEW r \in DownloadRuns
  PROVE  BooksAlone(r)'
<1>0. /\ status \in [Batches -> AllStatuses] /\ ingestAttempts \in [Batches -> Nat]
      /\ Rows \subseteq Batches /\ created \in Nat /\ Rows = 1..created
      /\ dl \in [DownloadRuns -> DownloadRecord] /\ BooksAlone(r)
  BY RowsAreBatches, BatchPipelineAssumption
     DEF TypeOK, TableTypeOK, DownloadTypeOK, BookedInTurn, Rows
<1>1. CASE DownloadStep(r)
  <2>1. CASE ChoosesBatch(r)
    <3>1. ASSUME dl'[r].pc = "resume" PROVE \A b \in Rows : InFlight(b) => status[b] = "pending"
      <4>1. IsFiniteSet(InPipe)
        BY <1>0, FS_Interval, FS_Subset DEF InPipe
      <4>2. Cardinality(InPipe) \in Nat /\ Cardinality(InPipe) < 1
        BY <2>1, <3>1, <4>1, FS_CardinalityType DEF ChoosesBatch, OnCron
      <4>3. InPipe = {}
        BY <4>1, <4>2, FS_EmptySet
      <4>4. QED
        BY <1>0, <4>3 DEF InPipe, QueueDepthStatuses, InFlight, InFlightStatuses,
                          TerminalStatuses, AllStatuses
    <3>2. dl'[r].pc = "claim" => \A b \in Rows : InFlight(b) => ingestAttempts[b] >= 2
      BY <1>0, <2>1 DEF ChoosesBatch, BooksAlone, PendingRows
    <3>3. dl'[r].pc \in {"refused", "insert"} =>
            \A b \in Rows : InFlight(b) => ingestAttempts[b] >= 2
      BY <1>0, <2>1 DEF ChoosesBatch, BooksAlone
    <3>4. UNCHANGED <<created, status, ingestAttempts>>
      BY <2>1 DEF ChoosesBatch
    <3>5. QED
      BY <3>1, <3>2, <3>3, <3>4 DEF BooksAlone, InFlight, Rows
  <2>2. CASE BooksBatch(r)
    BY <2>2 DEF BooksBatch, BooksAlone, TowardsBooking
  <2>3. CASE MovesBatch(r)
    BY <2>3 DEF MovesBatch, BooksAlone, TowardsBooking
  <2>4. QED
    BY <1>1, <2>1, <2>2, <2>3, DownloadEffects
<1>2. ASSUME NEW q \in IngestRuns, IngestStep(q) PROVE BooksAlone(r)'
  <2>0. UNCHANGED <<dl, created>>
    BY <1>2, IngestEffects
  <2>1. CASE UNCHANGED <<status, ingestAttempts>>
    BY <1>0, <2>0, <2>1 DEF BooksAlone, InFlight, Rows
  <2>2. ASSUME NEW b \in Rows, MovesRow(b, IngestMoves) PROVE BooksAlone(r)'
    <3>1. ~ InFlight(b) => ~ InFlight(b)' \/ ingestAttempts'[b] >= 2
      BY <1>0, <2>2 DEF AttemptsMatchStatus, MovesRow, IngestMoves,
                        InFlight, InFlightStatuses, TerminalStatuses
    <3>2. ingestAttempts'[b] \in Nat /\ ingestAttempts'[b] >= ingestAttempts[b]
          /\ status[b] # "pending"
      BY <1>0, <2>2 DEF MovesRow, IngestMoves
    <3>3. \A c \in Rows : c # b => status'[c] = status[c] /\ ingestAttempts'[c] = ingestAttempts[c]
      BY <1>0, <2>2 DEF MovesRow
    <3>4. Rows' = Rows
      BY <2>0 DEF Rows
    <3>5. QED
      BY <1>0, <2>0, <3>1, <3>2, <3>3, <3>4 DEF BooksAlone, InFlight
  <2>3. CASE ClaimsBatch(q)
    <3>1. PICK b \in Rows :
            /\ status[b] \in IngestableStatuses
            /\ status' = [status EXCEPT ![b] = "ingesting"]
            /\ ingestAttempts' = [ingestAttempts EXCEPT ![b] = @ + 1]
      BY <2>3 DEF ClaimsBatch
    <3>2. MovesRow(b, IngestMoves)
      BY <3>1, StatusesAndLeases DEF MovesRow, IngestMoves, IngestableStatuses
    <3>3. QED
      BY <2>2, <3>2
  <2>4. QED
    BY <1>2, <2>1, <2>2, <2>3, IngestEffects DEF KeepsBatch, StampsBatch, LeavesBatch
<1>3. CASE Crash
  <2>1. UNCHANGED <<created, status, ingestAttempts>> /\ dl'[r] \in {dl[r], IdleDownload}
    BY <1>0, <1>3 DEF Crash, tableVars
  <2>2. QED
    BY <1>0, <2>1, IdleTypes DEF BooksAlone, InFlight, Rows
<1>4. ASSUME NEW b \in Rows, LeaseExpires(b) \/ CooldownElapses(b) PROVE BooksAlone(r)'
  BY <1>0, <1>4 DEF LeaseExpires, CooldownElapses, BooksAlone, InFlight, Rows
<1>5. CASE UNCHANGED vars
  BY <1>0, <1>5 DEF vars, tableVars, BooksAlone, InFlight, Rows
<1>6. QED
  BY <1>1, <1>2, <1>3, <1>4, <1>5 DEF Next, OnCron, OneDownloader

(* The combination of a row that validation has not seen yet was not        *)
(* refused within the cooldown, nor was one about to be booked.             *)
AwaitsValidation ==
  \A b \in Rows, c \in Rows \ cooled :
    status[b] \in Unvalidated /\ status[c] = "validation_failed" => Uids(booked[b]) # Uids(booked[c])
FreshCombinations ==
  /\ RefusedOnce
  /\ AwaitsValidation
  /\ \A r \in DownloadRuns : dl[r].pc = "insert" => ~RecentlyRefused(dl[r].sets)

(* At most one row waits for validation.                                    *)
LEMMA OneUnvalidated ==
  ASSUME TypeOK, AttemptsMatchStatus, BookedInTurn,
         NEW b \in Rows, NEW c \in Rows, status[b] \in Unvalidated, status[c] \in Unvalidated
  PROVE  b = c
<1>1. \A d \in Rows : status[d] \in Unvalidated => InFlight(d) /\ ingestAttempts[d] = 0
  BY RowsAreBatches DEF AttemptsMatchStatus, Unvalidated, InFlight, InFlightStatuses,
     TerminalStatuses, AllStatuses, TypeOK
<1>2. QED
  BY <1>1 DEF BookedInTurn, OnlyNewestUntried

LEMMA NextFresh ==
  ASSUME TypeOK, RunsMatchRows, AttemptsMatchStatus, BookedInTurn, FreshCombinations, [Next]_vars
  PROVE  RefusedOnce' /\ AwaitsValidation'
<1>0. /\ status \in [Batches -> AllStatuses] /\ booked \in [Batches -> SUBSET Registry]
      /\ Rows \subseteq Batches /\ created \in Nat
  BY RowsAreBatches, BatchPipelineAssumption DEF TypeOK, TableTypeOK
<1>a. cooled \subseteq cooled'
  <2>1. ASSUME NEW r \in DownloadRuns, DownloadStep(r) PROVE UNCHANGED cooled
    BY <2>1, DownloadEffects
  <2>2. ASSUME NEW r \in IngestRuns, IngestStep(r) PROVE UNCHANGED cooled
    BY <2>2, IngestEffects
  <2>3. QED
    BY <2>1, <2>2 DEF Next, Crash, LeaseExpires, CooldownElapses, vars, tableVars
<1>1. CASE UNCHANGED <<created, status, booked, ingestAttempts>>
  BY <1>a, <1>1 DEF FreshCombinations, RefusedOnce, AwaitsValidation, Rows, Uids
<1>2. ASSUME NEW r \in DownloadRuns, BooksBatch(r) PROVE RefusedOnce' /\ AwaitsValidation'
  <2>1. /\ \A b \in Rows' : b \in Rows \/ b = created + 1
        /\ \A b \in Rows : booked'[b] = booked[b]
        /\ booked'[created + 1] = dl[r].sets
        /\ created + 1 \in Batches \ Rows /\ status[created + 1] = "pending" /\ UNCHANGED status
    BY <1>0, <1>2 DEF BooksBatch, Rows, RunsMatchRows
  <2>2. \A b \in Rows \ cooled : status[b] = "validation_failed" =>
          Uids(booked[b]) # Uids(dl[r].sets)
    BY <1>2 DEF BooksBatch, FreshCombinations, RecentlyRefused
  <2>3. RefusedOnce'
    BY <1>a, <2>1 DEF FreshCombinations, RefusedOnce, Uids
  <2>4. AwaitsValidation'
    <3> SUFFICES ASSUME NEW b \in Rows', NEW c \in Rows' \ cooled',
                        status'[b] \in Unvalidated, status'[c] = "validation_failed"
                 PROVE  Uids(booked'[b]) # Uids(booked'[c])
      BY DEF AwaitsValidation, Uids
    <3>1. c \in Rows \ cooled /\ status[c] = "validation_failed" /\ booked'[c] = booked[c]
      BY <1>a, <2>1
    <3>2. CASE b = created + 1
      BY <2>1, <2>2, <3>1, <3>2
    <3>3. CASE b \in Rows
      BY <2>1, <3>1, <3>3 DEF FreshCombinations, AwaitsValidation
    <3>4. QED
      BY <2>1, <3>2, <3>3
  <2>5. QED
    BY <2>3, <2>4
<1>3. ASSUME NEW b \in Rows, MovesRow(b, DownloadMoves \cup IngestMoves),
             UNCHANGED <<created, booked>>
      PROVE  RefusedOnce' /\ AwaitsValidation'
  <2>1. /\ \A c \in Rows : c # b => status'[c] = status[c]
        /\ status'[b] \in Unvalidated => status[b] \in Unvalidated
        /\ status'[b] = "validation_failed" => status[b] = "downloaded"
        /\ Rows' = Rows
    BY <1>0, <1>3 DEF MovesRow, DownloadMoves, IngestMoves, Unvalidated, Rows
  <2>2. \A c \in Rows : status[b] = "downloaded" /\ status[c] \in Unvalidated => c = b
    BY OneUnvalidated DEF Unvalidated
  <2>3. status[b] = "downloaded" => \A c \in Rows \ cooled :
          status[c] = "validation_failed" => Uids(booked[b]) # Uids(booked[c])
    BY DEF FreshCombinations, AwaitsValidation, Unvalidated
  <2>4. RefusedOnce'
    <3> SUFFICES ASSUME NEW c \in Rows \ cooled, NEW d \in Rows \ cooled, c # d,
                        status'[c] = "validation_failed", status'[d] = "validation_failed"
                 PROVE  Uids(booked[c]) # Uids(booked[d])
      BY <1>3, <1>a, <2>1 DEF RefusedOnce, Uids
    <3>1. CASE c = b
      BY <2>1, <2>3, <3>1
    <3>2. CASE d = b
      BY <2>1, <2>3, <3>2
    <3>3. CASE c # b /\ d # b
      BY <2>1, <3>3 DEF FreshCombinations, RefusedOnce
    <3>4. QED
      BY <3>1, <3>2, <3>3
  <2>5. AwaitsValidation'
    <3> SUFFICES ASSUME NEW c \in Rows, NEW d \in Rows \ cooled,
                        status'[c] \in Unvalidated, status'[d] = "validation_failed"
                 PROVE  Uids(booked[c]) # Uids(booked[d])
      BY <1>3, <1>a, <2>1 DEF AwaitsValidation, Uids
    <3>1. CASE d = b
      BY <2>1, <2>2, <3>1 DEF Unvalidated
    <3>2. CASE d # b
      BY <2>1, <3>2 DEF FreshCombinations, AwaitsValidation
    <3>3. QED
      BY <3>1, <3>2
  <2>6. QED
    BY <2>4, <2>5
<1>4. QED
  BY <1>1, <1>2, <1>3, RowEffects DEF BooksOrMoves

LEMMA NextInsertFresh ==
  ASSUME OnCron, TypeOK, RunsMatchRows, FreshCombinations, [Next]_vars, NEW r \in DownloadRuns
  PROVE  dl'[r].pc = "insert" => ~RecentlyRefused(dl[r].sets)'
<1> SUFFICES ASSUME dl'[r].pc = "insert" PROVE ~RecentlyRefused(dl[r].sets)'
  OBVIOUS
<1>0. /\ status \in [Batches -> AllStatuses] /\ Rows \subseteq Batches
      /\ dl \in [DownloadRuns -> DownloadRecord]
      /\ dl[r].pc = "insert" => ~RecentlyRefused(dl[r].sets)
  BY RowsAreBatches DEF TypeOK, TableTypeOK, DownloadTypeOK, FreshCombinations
<1>1. CASE DownloadStep(r)
  <2>1. ChoosesBatch(r) /\ UNCHANGED cooled
    BY <1>1, DownloadEffects DEF BooksBatch, MovesBatch, TowardsBooking
  <2>2. QED
    BY <2>1 DEF ChoosesBatch, RecentlyRefused, Rows, Uids
<1>2. ASSUME NEW q \in IngestRuns, IngestStep(q) PROVE ~RecentlyRefused(dl[r].sets)'
  <2>0. UNCHANGED <<dl, created, booked, cooled>>
    BY <1>2, IngestEffects
  <2>1. \A b \in Rows : status'[b] = "validation_failed" => status[b] = "validation_failed"
    <3>1. CASE KeepsBatch(q) \/ StampsBatch(q)
      BY <3>1 DEF KeepsBatch, StampsBatch
    <3>2. CASE ClaimsBatch(q)
      BY <1>0, <3>2 DEF ClaimsBatch
    <3>3. CASE LeavesBatch(q)
      BY <1>0, <3>3 DEF LeavesBatch, MovesRow, IngestMoves
    <3>4. QED
      BY <1>2, <3>1, <3>2, <3>3, IngestEffects
  <2>2. QED
    BY <1>0, <2>0, <2>1 DEF RecentlyRefused, Rows, Uids
<1>3. CASE Crash
  <2>1. UNCHANGED <<created, status, booked, cooled>> /\ dl'[r] \in {dl[r], IdleDownload}
    BY <1>0, <1>3 DEF Crash, tableVars
  <2>2. QED
    BY <1>0, <2>1, IdleTypes DEF RecentlyRefused, Rows, Uids
<1>4. ASSUME NEW b \in Rows, LeaseExpires(b) \/ CooldownElapses(b)
      PROVE  ~RecentlyRefused(dl[r].sets)'
  BY <1>0, <1>4 DEF LeaseExpires, CooldownElapses, RecentlyRefused, Rows, Uids
<1>5. CASE UNCHANGED vars
  BY <1>0, <1>5 DEF vars, tableVars, RecentlyRefused, Rows, Uids
<1>6. QED
  BY <1>1, <1>2, <1>3, <1>4, <1>5 DEF Next, OnCron, OneDownloader

(* The invariant of the production schedule.                                *)
CronInv == RunsMatchRows /\ AttemptsMatchStatus /\ BookedInTurn /\ FreshCombinations

LEMMA InitCron == Init => CronInv
<1> SUFFICES ASSUME Init PROVE CronInv
  OBVIOUS
<1>1. Rows = {}
  BY DEF Init, Rows
<1>2. RunsMatchRows
  BY IdleTypes DEF Init, RunsMatchRows, DownloadFindsRow, IngestFindsRow, IngestWithRow
<1>3. AttemptsMatchStatus
  BY DEF Init, AttemptsMatchStatus
<1>4. BookedInTurn
  BY <1>1 DEF BookedInTurn, OnlyNewestUntried, BooksAlone
<1>5. FreshCombinations
  BY <1>1, IdleTypes DEF Init, FreshCombinations, RefusedOnce, AwaitsValidation
<1>6. QED
  BY <1>2, <1>3, <1>4, <1>5 DEF CronInv

LEMMA NextCron ==
  ASSUME OnCron PROVE TypeOK /\ CronInv /\ [Next]_vars => CronInv'
<1> SUFFICES ASSUME TypeOK, CronInv, [Next]_vars PROVE CronInv'
  OBVIOUS
<1>0. RunsMatchRows /\ AttemptsMatchStatus /\ BookedInTurn /\ FreshCombinations
  BY DEF CronInv
<1>1. RunsMatchRows'
  BY <1>0, NextRunsMatch
<1>2. AttemptsMatchStatus'
  BY <1>0, NextAttemptsMatch
<1>3. BookedInTurn'
  <2>1. OnlyNewestUntried'
    BY <1>0, NextNewest
  <2>2. \A r \in DownloadRuns : BooksAlone(r)'
    BY <1>0, NextBooksAlone
  <2>3. QED
    BY <2>1, <2>2 DEF BookedInTurn
<1>4. FreshCombinations'
  <2>1. RefusedOnce' /\ AwaitsValidation'
    BY <1>0, NextFresh
  <2>2. \A r \in DownloadRuns : dl'[r].pc = "insert" => ~RecentlyRefused(dl[r].sets)'
    BY <1>0, NextInsertFresh
  <2>3. QED
    BY <2>1, <2>2 DEF FreshCombinations
<1>5. QED
  BY <1>1, <1>2, <1>3, <1>4 DEF CronInv

(* No set is claimed twice for nothing, for any registry, batch size and    *)
(* number of rows, crashes and expired leases, if the cron runs one job of  *)
(* each kind and the queue depth is one.                                    *)
THEOREM SetsClaimedOnce == ASSUME OnCron PROVE Spec => []ClaimedOnce
<1>1. TypeOK /\ CronInv => ClaimedOnce
  <2> SUFFICES ASSUME TypeOK, CronInv PROVE ClaimedOnce
    OBVIOUS
  <2>1. RefusedOnce
    BY DEF CronInv, FreshCombinations
  <2>2. DoubleBookingNeedsRetry
    <3> SUFFICES ASSUME NEW b \in Rows, NEW c \in Rows, b < c, InFlight(b)
                 PROVE  ingestAttempts[b] >= 2
      BY DEF DoubleBookingNeedsRetry
    <3>1. b \in Nat /\ c \in Nat /\ c <= created /\ created \in Nat /\ ingestAttempts[b] \in Nat
      BY RowsAreBatches, BatchPipelineAssumption DEF TypeOK, TableTypeOK, Rows
    <3>2. ~ (ingestAttempts[b] < 2)
      BY <3>1 DEF CronInv, BookedInTurn, OnlyNewestUntried
    <3>3. QED
      BY <3>1, <3>2
  <2>3. QED
    BY <2>1, <2>2 DEF ClaimedOnce
<1>2. TypeOK /\ CronInv /\ [Next]_vars => CronInv'
  BY NextCron
<1>3. QED
  BY <1>1, <1>2, InitCron, TypeCorrect, PTL DEF Spec

-----------------------------------------------------------------------------
(* The rotation. Every nonempty set of numbers has a least element.         *)
LEMMA LessThanRelation ==
  \E R : IsWellFoundedOn(R, Nat) /\ \A n, m \in Nat : n < m => <<n, m>> \in R
<1>1. IsWellFoundedOn(OpToRel(<, Nat), Nat)
  BY NatLessThanWellFounded
<1>2. \A n, m \in Nat : n < m => <<n, m>> \in OpToRel(<, Nat)
  BY DEF OpToRel
<1>3. QED
  BY <1>1, <1>2, Zenon

LEMMA LeastNumber ==
  ASSUME NEW S, S \subseteq Nat, S # {}
  PROVE  \E m \in S : \A n \in S : m <= n
<1>1. PICK R : IsWellFoundedOn(R, Nat) /\ \A n, m \in Nat : n < m => <<n, m>> \in R
  BY LessThanRelation
<1>2. IsWellFoundedOn(R, Nat) /\ S \subseteq Nat /\ S # {}
  BY <1>1
<1>3. \E m \in S : \A n \in S : ~ (<<n, m>> \in R)
  BY <1>2, WFMin, Zenon
<1>4. PICK m \in S : \A n \in S : ~ (<<n, m>> \in R)
  BY <1>3
<1>5. \A n \in S : ~ (n < m)
  BY <1>1, <1>4
<1>6. QED
  BY <1>5

(* Of any registry rows one comes first in the order of the claim.          *)
LEMMA FirstInOrder ==
  ASSUME TypeOK, NEW S, S \subseteq Registry, S # {}
  PROVE  \E m \in S : \A n \in S \ {m} : Before(m, n)
<1>0. refreshedAt \in [Registry -> Nat] /\ Registry \subseteq Nat
  BY BatchPipelineAssumption DEF TypeOK, DataTypeOK
<1> DEFINE stamps == {refreshedAt[s] : s \in S}
<1>1. stamps \subseteq Nat /\ stamps # {}
  BY <1>0
<1>2. PICK v \in stamps : \A w \in stamps : v <= w
  BY <1>1, LeastNumber
<1> DEFINE first == {s \in S : refreshedAt[s] = v}
<1>3. first \subseteq Nat /\ first # {}
  BY <1>0, <1>2
<1>4. PICK m \in first : \A n \in first : m <= n
  BY <1>3, LeastNumber
<1>5. ASSUME NEW n \in S \ {m} PROVE Before(m, n)
  <2>1. v <= refreshedAt[n] /\ refreshedAt[m] = v /\ m \in Nat /\ n \in Nat
        /\ v \in Nat /\ refreshedAt[n] \in Nat
    BY <1>0, <1>1, <1>2, <1>4
  <2>2. refreshedAt[n] = v => m <= n
    BY <1>4
  <2>3. QED
    BY <2>1, <2>2 DEF Before
<1>6. QED
  BY <1>4, <1>5

(* Some sets are in turn if whatever waits for longer than one of them is   *)
(* among them, itself or by a row of its vendor set, unless the one that    *)
(* came first was retried.                                                  *)
InTurn(S) ==
  \A s \in S, t \in Registry :
    refreshedAt[t] < refreshedAt[s] => (\E u \in S : UidOf[u] = UidOf[t]) \/ Overtaken(s)

(* What claim_due_sets takes is in turn, after the dedupe too: of a vendor  *)
(* set the row that waits for longest stays.                                *)
LEMMA ClaimInTurn ==
  ASSUME TypeOK, NEW C \in SUBSET Registry, DueClaim(C)
  PROVE  InTurn(DedupeByUid(C))
<1> SUFFICES ASSUME NEW s \in DedupeByUid(C), NEW t \in Registry, refreshedAt[t] < refreshedAt[s]
             PROVE  \E u \in DedupeByUid(C) : UidOf[u] = UidOf[t]
  BY DEF InTurn
<1>0. refreshedAt[s] \in Nat /\ refreshedAt[t] \in Nat /\ s \in C
  BY DEF TypeOK, DataTypeOK, DedupeByUid
<1>1. t \in C
  BY <1>0 DEF DueClaim, Before
<1> DEFINE twins == {x \in C : UidOf[x] = UidOf[t]}
<1>2. twins \subseteq Registry /\ twins # {}
  BY <1>1
<1>3. PICK u \in twins : \A x \in twins \ {u} : Before(u, x)
  BY <1>2, FirstInOrder
<1>4. u \in DedupeByUid(C)
  BY <1>3 DEF DedupeByUid
<1>5. QED
  BY <1>3, <1>4

(* Booked sets are in turn until their batch is stamped or is retried.      *)
StampsInTurn ==
  /\ \A s \in Registry : refreshedAt[s] <= clock
  /\ \A r \in DownloadRuns : dl[r].pc \in {"refused", "insert"} => InTurn(dl[r].sets)
  /\ \A b \in Rows : InFlight(b) /\ ingestAttempts[b] = 0 => InTurn(booked[b])
  /\ \A r \in IngestRuns :
       ing[r].pc \in {"write", "stamp"} /\ ingestAttempts[ing[r].batch] < 2 =>
         InTurn(booked[ing[r].batch])

(* Who was retried stays retried.                                           *)
LEMMA OvertakenStays ==
  ASSUME TypeOK, RunsMatchRows, [Next]_vars, NEW s \in Registry, Overtaken(s)
  PROVE  Overtaken(s)'
<1>0. /\ ingestAttempts \in [Batches -> Nat] /\ Rows \subseteq Batches /\ created \in Nat
      /\ booked \in [Batches -> SUBSET Registry]
  BY RowsAreBatches, BatchPipelineAssumption DEF TypeOK, TableTypeOK
<1>1. PICK b \in Rows : s \in booked[b] /\ ingestAttempts[b] >= 2
  BY DEF Overtaken
<1>2. CASE UNCHANGED <<created, status, booked, ingestAttempts>>
  BY <1>1, <1>2 DEF Overtaken, Rows
<1>3. ASSUME NEW r \in DownloadRuns, BooksBatch(r) PROVE Overtaken(s)'
  <2>1. b \in Rows' /\ booked'[b] = booked[b] /\ UNCHANGED ingestAttempts
    BY <1>0, <1>1, <1>3 DEF BooksBatch, Rows
  <2>2. QED
    BY <1>1, <2>1 DEF Overtaken
<1>4. ASSUME NEW c \in Rows, MovesRow(c, DownloadMoves \cup IngestMoves),
             UNCHANGED <<created, booked>>
      PROVE  Overtaken(s)'
  <2>1. ingestAttempts'[b] >= 2
    BY <1>0, <1>1, <1>4 DEF MovesRow
  <2>2. QED
    BY <1>1, <1>4, <2>1 DEF Overtaken, Rows
<1>5. QED
  BY <1>2, <1>3, <1>4, RowEffects DEF BooksOrMoves

(* Sets stay in turn while nothing is stamped, and when a retried batch is. *)
LEMMA InTurnStays ==
  ASSUME TypeOK, RunsMatchRows, [Next]_vars, UNCHANGED refreshedAt,
         NEW S \in SUBSET Registry, InTurn(S)
  PROVE  InTurn(S)'
BY OvertakenStays DEF InTurn

LEMMA InTurnStamped ==
  ASSUME TypeOK, RunsMatchRows, StampsInTurn, NEW r \in IngestRuns, IngestStep(r),
         StampsBatch(r), ing[r].batch \in Rows, ingestAttempts[ing[r].batch] >= 2,
         NEW S \in SUBSET Registry, InTurn(S)
  PROVE  InTurn(S)'
<1> SUFFICES ASSUME NEW s \in S, NEW t \in Registry, refreshedAt'[t] < refreshedAt'[s]
             PROVE  (\E u \in S : UidOf[u] = UidOf[t]) \/ Overtaken(s)'
  BY DEF InTurn
<1>0. /\ \A x \in Registry : refreshedAt[x] \in Nat /\ refreshedAt[x] <= clock
      /\ clock \in Nat /\ s \in Registry
  BY DEF TypeOK, DataTypeOK, StampsInTurn
<1>1. Overtaken(s) => Overtaken(s)'
  BY <1>0, OvertakenStays DEF Next
<1>2. CASE s \in booked[ing[r].batch]
  BY <1>1, <1>2 DEF Overtaken
<1>3. CASE s \notin booked[ing[r].batch]
  <2>1. refreshedAt'[s] = refreshedAt[s]
    BY <1>0, <1>3 DEF StampsBatch
  <2>2. t \notin booked[ing[r].batch]
    BY <1>0, <2>1 DEF StampsBatch
  <2>3. refreshedAt'[t] = refreshedAt[t]
    BY <2>2 DEF StampsBatch
  <2>4. QED
    BY <1>1, <2>1, <2>3 DEF InTurn
<1>4. QED
  BY <1>2, <1>3

(* A step that stamps nothing keeps the booked sets in turn, whoever takes  *)
(* it: each clause of StampsInTurn on its own.                              *)
LEMMA ChoiceInTurn ==
  ASSUME OnCron, TypeOK, CronInv, StampsInTurn, [Next]_vars, UNCHANGED refreshedAt,
         NEW r \in DownloadRuns, dl'[r].pc \in {"refused", "insert"}
  PROVE  InTurn(dl[r].sets)'
<1>0. RunsMatchRows /\ dl \in [DownloadRuns -> DownloadRecord]
  BY DEF CronInv, TypeOK, DownloadTypeOK
<1>1. ASSUME NEW S \in SUBSET Registry, S = dl'[r].sets, InTurn(S) PROVE InTurn(dl[r].sets)'
  <2>1. InTurn(S)'
    BY <1>0, <1>1, InTurnStays
  <2>2. QED
    BY <1>1, <2>1 DEF InTurn
<1>2. CASE DownloadStep(r)
  <2>1. ChoosesBatch(r)
    BY <1>0, <1>2, DownloadEffects DEF BooksBatch, MovesBatch, TowardsBooking
  <2>2. CASE dl'[r].pc = "refused"
    <3>1. PICK C \in SUBSET Registry : DueClaim(C) /\ dl'[r].sets = DedupeByUid(C)
      BY <2>1, <2>2 DEF ChoosesBatch
    <3> DEFINE S == DedupeByUid(C)
    <3>2. S \in SUBSET Registry /\ InTurn(S)
      BY <3>1, ClaimInTurn DEF DedupeByUid
    <3>3. PICK D \in SUBSET Registry : D = S
      BY <3>2
    <3>4. InTurn(D) /\ D = dl'[r].sets
      BY <3>1, <3>2, <3>3
    <3>5. QED
      BY <1>1, <3>4
  <2>3. CASE dl'[r].pc = "insert"
    <3>1. dl[r].pc = "refused" /\ dl'[r].sets = dl[r].sets
      BY <2>1, <2>3 DEF ChoosesBatch
    <3>2. PICK D \in SUBSET Registry : D = dl[r].sets
      BY <1>0 DEF DownloadRecord
    <3>3. InTurn(D) /\ D = dl'[r].sets
      BY <3>1, <3>2 DEF StampsInTurn
    <3>4. QED
      BY <1>1, <3>3
  <2>4. QED
    BY <2>2, <2>3
<1>3. CASE dl'[r] = dl[r]
  <2>1. PICK D \in SUBSET Registry : D = dl[r].sets
    BY <1>0 DEF DownloadRecord
  <2>2. InTurn(D) /\ D = dl'[r].sets
    BY <1>3, <2>1 DEF StampsInTurn
  <2>3. QED
    BY <1>1, <2>2
<1>4. ASSUME NEW q \in IngestRuns, IngestStep(q) PROVE dl'[r] = dl[r]
  BY <1>0, <1>4, IngestEffects
<1>5. CASE Crash
  <2>1. dl'[r] \in {dl[r], IdleDownload}
    BY <1>0, <1>5 DEF Crash
  <2>2. dl'[r] = dl[r]
    BY <2>1, IdleTypes
  <2>3. QED
    BY <1>3, <2>2
<1>6. ASSUME NEW b \in Rows, LeaseExpires(b) \/ CooldownElapses(b) PROVE dl'[r] = dl[r]
  BY <1>6 DEF LeaseExpires, CooldownElapses
<1>7. CASE UNCHANGED vars
  BY <1>3, <1>7 DEF vars
<1>8. QED
  BY <1>2, <1>3, <1>4, <1>5, <1>6, <1>7 DEF Next, OnCron, OneDownloader

LEMMA BookedInTurnStays ==
  ASSUME TypeOK, CronInv, StampsInTurn, [Next]_vars, UNCHANGED refreshedAt,
         NEW b \in Rows', InFlight(b)', ingestAttempts'[b] = 0
  PROVE  InTurn(booked[b])'
<1>0. /\ RunsMatchRows /\ AttemptsMatchStatus /\ dl \in [DownloadRuns -> DownloadRecord]
      /\ status \in [Batches -> AllStatuses] /\ ingestAttempts \in [Batches -> Nat]
      /\ booked \in [Batches -> SUBSET Registry] /\ Rows \subseteq Batches /\ created \in Nat
  BY RowsAreBatches, BatchPipelineAssumption
     DEF CronInv, TypeOK, TableTypeOK, DownloadTypeOK
<1>1. ASSUME NEW S \in SUBSET Registry, S = booked'[b], InTurn(S) PROVE InTurn(booked[b])'
  <2>1. InTurn(S)'
    BY <1>0, <1>1, InTurnStays
  <2>2. QED
    BY <1>1, <2>1 DEF InTurn
<1>2. CASE b \in Rows /\ booked'[b] = booked[b] /\ InFlight(b) /\ ingestAttempts[b] = 0
  <2>1. PICK D \in SUBSET Registry : D = booked[b]
    BY <1>0, <1>2
  <2>2. InTurn(D) /\ D = booked'[b]
    BY <1>2, <2>1 DEF StampsInTurn
  <2>3. QED
    BY <1>1, <2>2
<1>3. CASE UNCHANGED <<created, status, booked, ingestAttempts>>
  BY <1>2, <1>3 DEF InFlight, Rows
<1>4. ASSUME NEW r \in DownloadRuns, BooksBatch(r) PROVE InTurn(booked[b])'
  <2>1. CASE b \in Rows
    <3>1. booked'[b] = booked[b] /\ InFlight(b) /\ ingestAttempts[b] = 0
      BY <1>0, <1>4, <2>1 DEF BooksBatch, InFlight
    <3>2. QED
      BY <1>2, <2>1, <3>1
  <2>2. CASE b \notin Rows
    <3>1. booked'[b] = dl[r].sets
      BY <1>0, <1>4, <2>2 DEF BooksBatch, Rows
    <3>2. PICK D \in SUBSET Registry : D = dl[r].sets
      BY <1>0 DEF DownloadRecord
    <3>3. InTurn(D) /\ D = booked'[b]
      BY <1>4, <3>1, <3>2 DEF StampsInTurn, BooksBatch
    <3>4. QED
      BY <1>1, <3>3
  <2>3. QED
    BY <2>1, <2>2
<1>5. ASSUME NEW c \in Rows, MovesRow(c, DownloadMoves \cup IngestMoves),
             UNCHANGED <<created, booked>>
      PROVE  InTurn(booked[b])'
  <2>1. b \in Rows /\ booked'[b] = booked[b]
    BY <1>5 DEF Rows
  <2>2. ingestAttempts[b] = 0
    BY <1>0, <1>5, <2>1 DEF MovesRow
  <2>3. InFlight(b)
    BY <1>0, <1>5, <2>1, <2>2 DEF MovesRow, DownloadMoves, IngestMoves, AttemptsMatchStatus,
       InFlight, InFlightStatuses, TerminalStatuses
  <2>4. QED
    BY <1>2, <2>1, <2>2, <2>3
<1>6. QED
  BY <1>0, <1>3, <1>4, <1>5, RowEffects DEF BooksOrMoves

LEMMA HeldInTurnStays ==
  ASSUME OnCron, TypeOK, CronInv, StampsInTurn, [Next]_vars, UNCHANGED refreshedAt,
         NEW r \in IngestRuns, ing'[r].pc \in {"write", "stamp"},
         ingestAttempts'[ing'[r].batch] < 2
  PROVE  InTurn(booked[ing[r].batch])'
<1>0. /\ RunsMatchRows /\ AttemptsMatchStatus /\ ing \in [IngestRuns -> IngestRecord]
      /\ ing[r].pc \in IngestWithRow => ing[r].batch \in Rows
      /\ status \in [Batches -> AllStatuses] /\ ingestAttempts \in [Batches -> Nat]
      /\ booked \in [Batches -> SUBSET Registry] /\ Rows \subseteq Batches /\ created \in Nat
  BY RowsAreBatches, BatchPipelineAssumption
     DEF CronInv, TypeOK, TableTypeOK, IngestTypeOK, IngestWithRow
<1>1. ASSUME NEW b \in Rows, InTurn(booked[b]), ing'[r].batch = b, booked'[b] = booked[b]
      PROVE  InTurn(booked[ing[r].batch])'
  <2>1. PICK D \in SUBSET Registry : D = booked[b]
    BY <1>0
  <2>2. InTurn(D) /\ D = booked'[ing'[r].batch]
    BY <1>1, <2>1
  <2>3. InTurn(D)'
    BY <1>0, <2>2, InTurnStays
  <2>4. QED
    BY <2>2, <2>3 DEF InTurn
<1>2. CASE /\ ing[r].pc \in {"write", "stamp"} /\ ing'[r].batch = ing[r].batch
           /\ ingestAttempts'[ing[r].batch] = ingestAttempts[ing[r].batch]
           /\ booked'[ing[r].batch] = booked[ing[r].batch]
  <2>1. ing[r].batch \in Rows /\ InTurn(booked[ing[r].batch])
    BY <1>0, <1>2 DEF StampsInTurn, IngestWithRow
  <2>2. PICK b \in Rows : b = ing[r].batch
    BY <2>1
  <2>3. QED
    BY <1>1, <1>2, <2>1, <2>2
<1>3. CASE IngestStep(r)
  <2>0. UNCHANGED <<created, booked>>
    BY <1>0, <1>3, IngestEffects
  <2>1. CASE KeepsBatch(r)
    BY <1>2, <2>0, <2>1 DEF KeepsBatch
  <2>2. CASE ClaimsBatch(r)
    <3>1. PICK b \in Rows :
            /\ status[b] \in IngestableStatuses
            /\ ingestAttempts' = [ingestAttempts EXCEPT ![b] = @ + 1]
            /\ ing'[r].batch = b
      BY <2>2 DEF ClaimsBatch
    <3>2. ingestAttempts[b] = 0
      BY <1>0, <3>1
    <3>3. InFlight(b)
      BY <1>0, <3>1, <3>2 DEF AttemptsMatchStatus, IngestableStatuses, InFlight,
         InFlightStatuses, AllStatuses, TerminalStatuses
    <3>4. InTurn(booked[b])
      BY <3>2, <3>3 DEF StampsInTurn
    <3>5. QED
      BY <1>1, <2>0, <3>1, <3>4
  <2>3. QED
    BY <1>0, <1>3, <2>1, <2>2, IngestEffects DEF StampsBatch, LeavesBatch
<1>4. ASSUME NEW q \in DownloadRuns, DownloadStep(q)
      PROVE  InTurn(booked[ing[r].batch])'
  <2>1. ing'[r] = ing[r] /\ ing[r].batch \in Rows
    BY <1>0, <1>4, DownloadEffects DEF IngestWithRow
  <2>2. ingestAttempts' = ingestAttempts /\ booked'[ing[r].batch] = booked[ing[r].batch]
    <3>1. CASE ChoosesBatch(q)
      BY <3>1 DEF ChoosesBatch
    <3>2. CASE BooksBatch(q)
      BY <1>0, <2>1, <3>2 DEF BooksBatch
    <3>3. CASE MovesBatch(q)
      BY <3>3 DEF MovesBatch, MovesRow, DownloadMoves
    <3>4. QED
      BY <1>0, <1>4, <3>1, <3>2, <3>3, DownloadEffects
  <2>3. QED
    BY <1>2, <2>1, <2>2
<1>5. CASE Crash
  <2>1. ing'[r] \in {ing[r], IdleIngest} /\ UNCHANGED <<booked, ingestAttempts>>
    BY <1>0, <1>5 DEF Crash, tableVars
  <2>2. ing'[r] = ing[r]
    BY <2>1, IdleTypes
  <2>3. QED
    BY <1>2, <2>1, <2>2
<1>6. ASSUME NEW b \in Rows, LeaseExpires(b) \/ CooldownElapses(b)
      PROVE  InTurn(booked[ing[r].batch])'
  BY <1>2, <1>6 DEF LeaseExpires, CooldownElapses
<1>7. CASE UNCHANGED vars
  BY <1>2, <1>7 DEF vars, tableVars
<1>8. QED
  BY <1>3, <1>4, <1>5, <1>6, <1>7 DEF Next, OnCron, OneIngester

(* When an untried batch is stamped it is the newest one and the only one   *)
(* in flight that was not retried, so no other booked sets fall behind.     *)
LEMMA StampInTurn ==
  ASSUME OnCron, TypeOK, CronInv, StampsInTurn, NEW r \in IngestRuns, IngestStep(r),
         StampsBatch(r)
  PROVE  StampsInTurn'
<1>0. /\ RunsMatchRows /\ AttemptsMatchStatus /\ BookedInTurn /\ [Next]_vars
      /\ ing \in [IngestRuns -> IngestRecord] /\ dl \in [DownloadRuns -> DownloadRecord]
      /\ ing[r].batch \in Rows /\ status[ing[r].batch] = "ingesting"
      /\ ingestAttempts \in [Batches -> Nat] /\ Rows \subseteq Batches
      /\ booked \in [Batches -> SUBSET Registry]
      /\ clock \in Nat /\ refreshedAt \in [Registry -> Nat]
  BY RowsAreBatches DEF CronInv, TypeOK, TableTypeOK, DataTypeOK, IngestTypeOK, DownloadTypeOK,
     StampsBatch, RunsMatchRows, IngestFindsRow, IngestWithRow, Next
<1>1. InFlight(ing[r].batch) /\ ingestAttempts[ing[r].batch] >= 1
  BY <1>0 DEF InFlight, InFlightStatuses, AllStatuses, TerminalStatuses, AttemptsMatchStatus
<1>2. UNCHANGED <<dl, created, status, booked, ingestAttempts>>
  BY <1>0, IngestEffects DEF StampsBatch
<1>3. \A s \in Registry : refreshedAt'[s] <= clock'
  BY <1>0 DEF StampsBatch, StampsInTurn
<1>4. \A q \in IngestRuns : ing'[q].pc = "finish"
  BY DEF OnCron, OneIngester, StampsBatch
<1>5. ASSUME NEW q \in DownloadRuns, dl[q].pc \in {"refused", "insert"}
      PROVE  InTurn(dl[q].sets)'
  <2>1. ingestAttempts[ing[r].batch] >= 2
    BY <1>0, <1>1, <1>5 DEF BookedInTurn, BooksAlone
  <2>2. PICK D \in SUBSET Registry : D = dl[q].sets
    BY <1>0 DEF DownloadRecord
  <2>3. InTurn(D)
    BY <1>5, <2>2 DEF StampsInTurn
  <2>4. InTurn(D)'
    BY <1>0, <2>1, <2>3, InTurnStamped
  <2>5. QED
    BY <1>2, <2>2, <2>4 DEF InTurn
<1>6. ASSUME NEW b \in Rows, InFlight(b), ingestAttempts[b] = 0 PROVE InTurn(booked[b])'
  <2>1. ingestAttempts[ing[r].batch] >= 2
    BY <1>0, <1>1, <1>6 DEF BookedInTurn, OnlyNewestUntried
  <2>2. PICK D \in SUBSET Registry : D = booked[b]
    BY <1>0
  <2>3. InTurn(D)
    BY <1>6, <2>2 DEF StampsInTurn
  <2>4. InTurn(D)'
    BY <1>0, <2>1, <2>3, InTurnStamped
  <2>5. QED
    BY <1>2, <2>2, <2>4 DEF InTurn
<1>7. \A q \in DownloadRuns : dl'[q].pc \in {"refused", "insert"} => InTurn(dl[q].sets)'
  BY <1>2, <1>5
<1>8. \A b \in Rows' : InFlight(b)' /\ ingestAttempts'[b] = 0 => InTurn(booked[b])'
  BY <1>2, <1>6 DEF Rows, InFlight
<1>9. QED
  BY <1>3, <1>4, <1>7, <1>8 DEF StampsInTurn

LEMMA NextInTurn ==
  ASSUME OnCron PROVE TypeOK /\ CronInv /\ StampsInTurn /\ [Next]_vars => StampsInTurn'
<1> SUFFICES ASSUME TypeOK, CronInv, StampsInTurn, [Next]_vars PROVE StampsInTurn'
  OBVIOUS
<1>1. CASE UNCHANGED <<refreshedAt, clock>>
  <2>1. \A r \in DownloadRuns : dl'[r].pc \in {"refused", "insert"} => InTurn(dl[r].sets)'
    BY <1>1, ChoiceInTurn
  <2>2. \A b \in Rows' : InFlight(b)' /\ ingestAttempts'[b] = 0 => InTurn(booked[b])'
    BY <1>1, BookedInTurnStays
  <2>3. \A r \in IngestRuns :
          ing'[r].pc \in {"write", "stamp"} /\ ingestAttempts'[ing'[r].batch] < 2 =>
            InTurn(booked[ing[r].batch])'
    BY <1>1, HeldInTurnStays
  <2>4. \A s \in Registry : refreshedAt'[s] <= clock'
    BY <1>1 DEF StampsInTurn
  <2>5. QED
    BY <2>1, <2>2, <2>3, <2>4 DEF StampsInTurn
<1>2. ASSUME NEW r \in DownloadRuns, DownloadStep(r) PROVE UNCHANGED <<refreshedAt, clock>>
  BY <1>2, DownloadEffects DEF CronInv
<1>3. ASSUME NEW r \in IngestRuns, IngestStep(r) PROVE StampsInTurn'
  BY <1>1, <1>3, StampInTurn, IngestEffects DEF CronInv, KeepsBatch, ClaimsBatch, LeavesBatch
<1>4. CASE Crash
  BY <1>1, <1>4 DEF Crash, dataVars
<1>5. ASSUME NEW b \in Rows, LeaseExpires(b) \/ CooldownElapses(b) PROVE StampsInTurn'
  BY <1>1, <1>5 DEF LeaseExpires, CooldownElapses, dataVars
<1>6. CASE UNCHANGED vars
  BY <1>1, <1>6 DEF vars, dataVars
<1>7. QED
  BY <1>1, <1>2, <1>3, <1>4, <1>5, <1>6 DEF Next

(* Every step takes its turn.                                               *)
LEMMA StepTakesTurn ==
  ASSUME OnCron PROVE TypeOK /\ CronInv /\ StampsInTurn /\ [Next]_vars => TakesTurn
<1> SUFFICES ASSUME TypeOK, CronInv, StampsInTurn, [Next]_vars PROVE TakesTurn
  OBVIOUS
<1>1. CASE UNCHANGED refreshedAt
  BY <1>1 DEF TakesTurn
<1>2. ASSUME NEW r \in IngestRuns, IngestStep(r), StampsBatch(r) PROVE TakesTurn
  <2> SUFFICES ASSUME NEW s \in Registry, NEW t \in Registry,
                      refreshedAt'[s] # refreshedAt[s], refreshedAt[t] < refreshedAt[s],
                      Waits(t), ~Overtaken(s)
               PROVE  FALSE
    BY DEF TakesTurn
  <2>0. /\ ing[r].batch \in Rows /\ ing[r].batch \in Batches
        /\ ingestAttempts \in [Batches -> Nat] /\ clock \in Nat
        /\ refreshedAt \in [Registry -> Nat] /\ booked \in [Batches -> SUBSET Registry]
        /\ \A u \in Registry : refreshedAt[u] <= clock
    BY <1>2, RowsAreBatches DEF TypeOK, TableTypeOK, DataTypeOK, IngestTypeOK, StampsBatch,
       StampsInTurn
  <2>1. s \in booked[ing[r].batch]
    BY <1>2 DEF StampsBatch
  <2>2. ingestAttempts[ing[r].batch] < 2
    BY <2>0, <2>1 DEF Overtaken
  <2>3. InTurn(booked[ing[r].batch])
    BY <1>2, <2>2 DEF StampsInTurn, StampsBatch
  <2>4. PICK u \in booked[ing[r].batch] : UidOf[u] = UidOf[t]
    BY <2>1, <2>3 DEF InTurn
  <2>5. u \in Registry /\ refreshedAt'[u] = clock + 1
    BY <1>2, <2>0, <2>4 DEF StampsBatch
  <2>6. refreshedAt'[u] = refreshedAt[u]
    BY <2>4, <2>5 DEF Waits
  <2>7. QED
    BY <2>0, <2>5, <2>6
<1>3. ASSUME NEW r \in DownloadRuns, DownloadStep(r) PROVE UNCHANGED refreshedAt
  BY <1>3, DownloadEffects DEF CronInv
<1>4. ASSUME NEW r \in IngestRuns, IngestStep(r) PROVE TakesTurn
  BY <1>1, <1>2, <1>4, IngestEffects DEF CronInv, KeepsBatch, ClaimsBatch, LeavesBatch
<1>5. CASE Crash
  BY <1>1, <1>5 DEF Crash, dataVars
<1>6. ASSUME NEW b \in Rows, LeaseExpires(b) \/ CooldownElapses(b) PROVE TakesTurn
  BY <1>1, <1>6 DEF LeaseExpires, CooldownElapses, dataVars
<1>7. CASE UNCHANGED vars
  BY <1>1, <1>7 DEF vars, dataVars
<1>8. QED
  BY <1>1, <1>3, <1>4, <1>5, <1>6, <1>7 DEF Next

(* The rotation takes turns on the production schedule, for any registry,   *)
(* any sharing of vendor uids and any batch size: a set is refreshed again  *)
(* while another vendor set waits for longer only if its batch was retried. *)
THEOREM RotationTakesTurns == ASSUME OnCron PROVE Spec => RotationInTurn
<1>1. Init => StampsInTurn
  <2> SUFFICES ASSUME Init PROVE StampsInTurn
    OBVIOUS
  <2>1. /\ Rows = {} /\ \A r \in DownloadRuns : dl[r].pc = "idle"
        /\ \A r \in IngestRuns : ing[r].pc = "idle"
        /\ \A s \in Registry : refreshedAt[s] = 0 /\ clock = 0
    BY IdleTypes DEF Init, Rows
  <2>2. QED
    BY <2>1 DEF StampsInTurn
<1>2. TypeOK /\ CronInv /\ StampsInTurn /\ [Next]_vars => StampsInTurn'
  BY NextInTurn
<1>3. TypeOK /\ CronInv /\ [Next]_vars => CronInv'
  BY NextCron
<1>4. TypeOK /\ CronInv /\ StampsInTurn /\ [Next]_vars => TakesTurn
  BY StepTakesTurn
<1>5. QED
  BY <1>1, <1>2, <1>3, <1>4, InitCron, TypeCorrect, PTL DEF Spec, RotationInTurn
=============================================================================
