----------------------- MODULE CatalogWriterProofs -----------------------
(***************************************************************************)
(* Proofs about CatalogWriter: types, for any number of runs; and for runs *)
(* that do not overlap, that a file lands in full and that prices and      *)
(* their history agree. For any products, files, sub-batches, attempts,    *)
(* failed requests, lost answers and crashes.                              *)
(***************************************************************************)
EXTENDS CatalogWriter, TLAPS

-----------------------------------------------------------------------------
(* Constants, and the record of a run.                                      *)

LEMMA SubBatchParts ==
  /\ Len(SubBatches) \in Nat \ {0}
  /\ DOMAIN SubBatches = 1..Len(SubBatches)
  /\ \A i \in DOMAIN SubBatches : SubBatches[i] \subseteq Ids
  /\ \A id \in Ids : \E i \in DOMAIN SubBatches : id \in SubBatches[i]
<1>1. SubBatches \in Seq(SUBSET Ids) /\ SubBatches # <<>>
  BY CatalogWriterAssumption DEF CatalogWriterAssumption
<1>2. \A id \in Ids : \E i \in DOMAIN SubBatches : id \in SubBatches[i]
  BY CatalogWriterAssumption DEF CatalogWriterAssumption
<1> QED
  BY <1>1, <1>2

Fields == {"pc", "file", "stamp", "attempt", "batch", "failed", "asked", "close", "insert",
           "upsert", "observe", "stale"}
Record(j) == j = [x \in Fields |-> j[x]]

Typed(j) ==
  /\ j.pc \in Pcs /\ j.file \in Files \cup {NoFile} /\ j.stamp \in 0..MaxStarts
  /\ j.attempt \in 0..Attempts /\ j.batch \in 0..Len(SubBatches) /\ j.failed \in BOOLEAN
  /\ j.asked \subseteq Gates /\ j.close \subseteq Ids /\ j.insert \subseteq Ids
  /\ j.upsert \subseteq Ids /\ j.observe \subseteq Ids /\ j.stale \subseteq Ids

LEMMA RecordFields ==
  ASSUME NEW j \in RunRecord
  PROVE  Record(j) /\ Typed(j)
<1>1. Record(j)
  BY DEF Record, Fields, RunRecord
<1>2. Typed(j)
  BY DEF Typed, RunRecord
<1> QED
  BY <1>1, <1>2

LEMMA FieldsRecord ==
  ASSUME NEW j, Record(j), Typed(j)
  PROVE  j \in RunRecord
BY DEF Record, Fields, Typed, RunRecord

(* A record that a run may have.                                            *)
Ready(j) == j.file \in Files /\ j.batch \in DOMAIN SubBatches
Good(j) == j \in RunRecord /\ (j.pc # "idle" => Ready(j))

LEMMA IdleGood == Good(Idle) /\ Idle.pc = "idle"
<1>1. Record(Idle) /\ Typed(Idle) /\ Idle.pc = "idle"
  BY CatalogWriterAssumption, SubBatchParts
     DEF Record, Fields, Typed, Idle, Pcs, Gates, NoFile, CatalogWriterAssumption
<1> QED
  BY <1>1, FieldsRecord DEF Good

-----------------------------------------------------------------------------
(* Where a run goes next.                                                   *)

(* At the head of a sub-batch nothing is asked or decided yet.              *)
Fresh(k) ==
  k.asked = {} /\ k.close = {} /\ k.insert = {} /\ k.upsert = {} /\ k.observe = {}

LEMMA AtBatchIs ==
  ASSUME NEW j, Record(j), NEW pc, NEW batch, NEW failed
  PROVE  LET k == AtBatch(j, pc, batch, failed)
         IN /\ Record(k) /\ Fresh(k)
            /\ k.pc = pc /\ k.batch = batch /\ k.failed = failed
            /\ k.file = j.file /\ k.stamp = j.stamp /\ k.attempt = j.attempt /\ k.stale = j.stale
BY DEF AtBatch, Record, Fields, Fresh

LEMMA AtBatchGood ==
  ASSUME NEW j, Good(j), j.file \in Files, NEW pc \in Pcs, NEW batch \in DOMAIN SubBatches,
         NEW failed \in BOOLEAN
  PROVE  Good(AtBatch(j, pc, batch, failed))
<1> DEFINE k == AtBatch(j, pc, batch, failed)
<1>1. Record(j) /\ Typed(j)
  BY RecordFields DEF Good
<1>2. /\ Record(k) /\ Fresh(k)
      /\ k.pc = pc /\ k.batch = batch /\ k.failed = failed
      /\ k.file = j.file /\ k.stamp = j.stamp /\ k.attempt = j.attempt /\ k.stale = j.stale
  BY <1>1, AtBatchIs
<1> HIDE DEF k
<1>3. Typed(k)
  BY <1>1, <1>2, SubBatchParts DEF Typed, Fresh
<1>4. k \in RunRecord
  BY <1>2, <1>3, FieldsRecord
<1> QED
  BY <1>2, <1>4 DEF Good, Ready, k

LEMMA NextAttemptIs ==
  ASSUME NEW j, Good(j), Ready(j)
  PROVE  LET k == NextAttempt(j)
         IN /\ Good(k)
            /\ \/ k = Idle
               \/ /\ Fresh(k) /\ k.pc = "lookup" /\ k.batch = 1
                  /\ k.file = j.file /\ k.stamp = j.stamp
<1>1. CASE ~(j.attempt < Attempts)
  BY <1>1, IdleGood DEF NextAttempt
<1>2. CASE j.attempt < Attempts
  <2> DEFINE h == AtBatch(j, "lookup", 1, FALSE)
             k == [h EXCEPT !.attempt = @ + 1, !.stale = {}]
  <2>1. 1 \in DOMAIN SubBatches
    BY SubBatchParts
  <2>2. Good(h)
    BY <2>1, AtBatchGood DEF Ready, Pcs
  <2>3. Record(j) /\ Typed(j)
    BY RecordFields DEF Good
  <2>4. /\ Fresh(h) /\ h.pc = "lookup" /\ h.batch = 1
        /\ h.file = j.file /\ h.stamp = j.stamp /\ h.attempt = j.attempt
    BY <2>3 DEF AtBatch, Record, Fields, Fresh
  <2>5. NextAttempt(j) = k
    BY <1>2 DEF NextAttempt
  <2> HIDE DEF h
  <2>6. Record(h) /\ Typed(h)
    BY <2>2, RecordFields DEF Good
  <2>7. /\ Record(k) /\ Fresh(k) /\ k.pc = "lookup" /\ k.batch = 1 /\ k.failed = h.failed
        /\ k.file = j.file /\ k.stamp = j.stamp /\ k.attempt = j.attempt + 1 /\ k.stale = {}
    BY <2>4, <2>6 DEF Record, Fields, Fresh
  <2> HIDE DEF k
  <2>8. Typed(k)
    <3>2. 1 \in 0..Len(SubBatches)
      BY SubBatchParts
    <3>1. j.attempt + 1 \in 0..Attempts
      BY <1>2, <2>3, CatalogWriterAssumption DEF Typed, CatalogWriterAssumption
    <3> QED
      BY <2>3, <2>6, <2>7, <3>1, <3>2 DEF Typed, Fresh, Pcs
  <2>9. Good(k)
    BY <2>1, <2>7, <2>8, FieldsRecord DEF Good, Ready
  <2> QED
    BY <2>5, <2>7, <2>9
<1> QED
  BY <1>1, <1>2

(* The next sub-batch, another attempt, or the next pass.                   *)
LEMMA AfterHistoryIs ==
  ASSUME NEW j, Good(j), Ready(j), NEW failed \in BOOLEAN
  PROVE  LET k == AfterHistory(j, failed)
         IN /\ Good(k)
            /\ \/ k = Idle
               \/ /\ Fresh(k) /\ k.file = j.file /\ k.stamp = j.stamp
                  /\ \/ /\ k.pc = "lookup" /\ k.batch = j.batch + 1 /\ k.failed = failed
                        /\ k.stale = j.stale
                     \/ k.pc = "lookup" /\ k.batch = 1
                     \/ /\ k.pc = "catalog" /\ k.batch = 1 /\ ~k.failed /\ ~failed
                        /\ k.stale = j.stale /\ j.batch = Len(SubBatches)
<1>1. Record(j) /\ Typed(j)
  BY RecordFields DEF Good
<1>2. 1 \in DOMAIN SubBatches
  BY SubBatchParts
<1>3. CASE More(j)
  <2>1. j.batch + 1 \in DOMAIN SubBatches
    BY <1>1, <1>3, SubBatchParts DEF More, Typed
  <2>2. AfterHistory(j, failed) = AtBatch(j, "lookup", j.batch + 1, failed)
    BY <1>3 DEF AfterHistory
  <2>3. Good(AtBatch(j, "lookup", j.batch + 1, failed))
    BY <2>1, AtBatchGood DEF Ready, Pcs
  <2> QED
    BY <1>1, <2>2, <2>3, AtBatchIs
<1>4. CASE ~More(j) /\ failed
  BY <1>4, NextAttemptIs DEF AfterHistory
<1>5. CASE ~More(j) /\ ~failed
  <2>1. j.batch = Len(SubBatches)
    BY <1>5, SubBatchParts DEF More, Ready
  <2>2. AfterHistory(j, failed) = AtBatch(j, "catalog", 1, FALSE)
    BY <1>5 DEF AfterHistory
  <2>3. Good(AtBatch(j, "catalog", 1, FALSE))
    BY <1>2, AtBatchGood DEF Ready, Pcs
  <2>4. LET k == AtBatch(j, "catalog", 1, FALSE)
        IN /\ Fresh(k) /\ k.pc = "catalog" /\ k.batch = 1 /\ ~k.failed
           /\ k.file = j.file /\ k.stamp = j.stamp /\ k.stale = j.stale
    BY <1>1 DEF AtBatch, Record, Fields, Fresh
  <2> QED
    BY <1>5, <2>1, <2>2, <2>3, <2>4
<1> QED
  BY <1>3, <1>4, <1>5

LEMMA AfterCatalogIs ==
  ASSUME NEW j, Good(j), Ready(j), NEW failed \in BOOLEAN
  PROVE  LET k == AfterCatalog(j, failed)
         IN /\ Good(k)
            /\ \/ k = Idle
               \/ /\ k.file = j.file /\ k.stamp = j.stamp
                  /\ \/ /\ Fresh(k) /\ k.pc = "catalog" /\ k.batch = j.batch + 1
                        /\ k.failed = failed /\ k.stale = j.stale
                     \/ Fresh(k) /\ k.pc = "lookup" /\ k.batch = 1
                     \/ k.pc = "landed" /\ ~failed /\ j.batch = Len(SubBatches)
<1>1. Record(j) /\ Typed(j)
  BY RecordFields DEF Good
<1>2. CASE More(j)
  <2>1. j.batch + 1 \in DOMAIN SubBatches
    BY <1>1, <1>2, SubBatchParts DEF More, Typed
  <2>2. AfterCatalog(j, failed) = AtBatch(j, "catalog", j.batch + 1, failed)
    BY <1>2 DEF AfterCatalog
  <2>3. Good(AtBatch(j, "catalog", j.batch + 1, failed))
    BY <2>1, AtBatchGood DEF Ready, Pcs
  <2> QED
    BY <1>1, <2>2, <2>3, AtBatchIs
<1>3. CASE ~More(j) /\ failed
  BY <1>3, NextAttemptIs DEF AfterCatalog
<1>4. CASE ~More(j) /\ ~failed
  <2> DEFINE k == [j EXCEPT !.pc = "landed"]
  <2>1. j.batch = Len(SubBatches)
    BY <1>4, SubBatchParts DEF More, Ready
  <2>2. AfterCatalog(j, failed) = k
    BY <1>4 DEF AfterCatalog
  <2>3. k \in RunRecord /\ k.pc = "landed" /\ k.batch = j.batch
        /\ k.file = j.file /\ k.stamp = j.stamp
    BY DEF Good, RunRecord, Pcs
  <2> QED
    BY <1>4, <2>1, <2>2, <2>3 DEF Good, Ready
<1> QED
  BY <1>2, <1>3, <1>4

-----------------------------------------------------------------------------
(* Types.                                                                   *)

RunsOK == run = [w \in Writers |-> run[w]] /\ \A w \in Writers : Good(run[w])
TablesOK ==
  /\ current \in [Ids -> Metas \cup {None}]
  /\ validFrom \in [Ids -> 0..MaxStarts]
  /\ catalog \in [Ids -> Metas \cup {None}]
  /\ price \in [Ids -> Prices \cup {None}]
  /\ priceKeys \in [Ids -> Keys \cup {None}]
  /\ snapshots \subseteq [id : Ids, at : 0..MaxStarts, price : Prices]
CountsOK ==
  /\ content \in [Files -> [Ids -> Row]]
  /\ landed \subseteq Files
  /\ clock \in 0..MaxStarts
  /\ torn \subseteq Ids
  /\ faults \in 0..MaxFaults
  /\ crashes \in 0..MaxCrashes

LEMMA TypeParts == TypeOK <=> RunsOK /\ TablesOK /\ CountsOK
<1>1. run \in [Writers -> RunRecord] /\ (\A w \in Writers : run[w].pc # "idle" =>
        run[w].file \in Files /\ run[w].batch \in DOMAIN SubBatches) <=> RunsOK
  BY DEF RunsOK, Good, Ready
<1> QED
  BY <1>1 DEF TypeOK, TablesOK, CountsOK

LEMMA TypePartsNext == TypeOK' <=> RunsOK' /\ TablesOK' /\ CountsOK'
BY TypeParts, PTL

LEMMA RunMoved ==
  ASSUME RunsOK, NEW w \in Writers, NEW j, Good(j), Move(w, j)
  PROVE  /\ RunsOK'
         /\ run'[w] = j /\ \A v \in Writers : v # w => run'[v] = run[v]
<1>1. run' = [v \in Writers |-> IF v = w THEN j ELSE run[v]]
  BY DEF Move, RunsOK
<1> QED
  BY <1>1 DEF RunsOK

(* A run at work, with the parts of its record.                             *)
LEMMA AtWork ==
  ASSUME RunsOK, NEW w \in Writers, run[w].pc # "idle"
  PROVE  Good(run[w]) /\ Ready(run[w]) /\ Record(run[w]) /\ Typed(run[w])
BY RecordFields DEF RunsOK, Good

LEMMA IncomingRows ==
  ASSUME RunsOK, CountsOK, NEW w \in Writers, run[w].pc # "idle"
  PROVE  /\ Incoming(w) \in [Ids -> Row]
         /\ \A id \in Ids : /\ Incoming(w)[id].price \in Prices
                             /\ Incoming(w)[id].meta \in Metas
                             /\ KeyOf[Incoming(w)[id].meta] \in Keys
         /\ Batch(w) \subseteq Ids
<1>1. Ready(run[w])
  BY AtWork
<1>2. Incoming(w) \in [Ids -> Row] /\ Batch(w) \subseteq Ids
  BY <1>1, SubBatchParts DEF CountsOK, Incoming, Batch, Ready
<1>3. \A id \in Ids : Incoming(w)[id].price \in Prices /\ Incoming(w)[id].meta \in Metas
  BY <1>2 DEF Row
<1> QED
  BY <1>2, <1>3 DEF Keys

LEMMA StartTyped ==
  ASSUME TypeOK, NEW w \in Writers, NEW f \in Files, Start(w, f)
  PROVE  LET j == [AtBatch(Idle, "lookup", 1, FALSE)
                     EXCEPT !.file = f, !.stamp = clock + 1, !.attempt = 1]
         IN /\ Good(j) /\ Fresh(j) /\ j.pc = "lookup" /\ j.batch = 1 /\ j.file = f
            /\ j.stamp = clock + 1
<1> DEFINE j == [AtBatch(Idle, "lookup", 1, FALSE)
                   EXCEPT !.file = f, !.stamp = clock + 1, !.attempt = 1]
<1>1. /\ Record(j) /\ Fresh(j) /\ j.pc = "lookup" /\ j.batch = 1 /\ ~j.failed
      /\ j.file = f /\ j.stamp = clock + 1 /\ j.attempt = 1 /\ j.stale = {}
      /\ j.failed \in BOOLEAN
  BY DEF AtBatch, Idle, Record, Fields, Fresh
<1>2. clock + 1 \in 0..MaxStarts /\ 1 \in 0..Attempts
  BY CatalogWriterAssumption DEF Start, TypeOK, CatalogWriterAssumption
<1>3. 1 \in DOMAIN SubBatches /\ 1 \in 0..Len(SubBatches)
  BY SubBatchParts
<1> HIDE DEF j
<1>4. Typed(j)
  BY <1>1, <1>2, <1>3 DEF Typed, Fresh, Pcs
<1>5. Good(j)
  BY <1>1, <1>3, <1>4, FieldsRecord DEF Good, Ready
<1> QED
  BY <1>1, <1>5 DEF j

(* A run goes on within its sub-batch.                                      *)
LEMMA PcGood ==
  ASSUME NEW j, Good(j), j.pc # "idle", NEW pc \in Pcs
  PROVE  LET k == [j EXCEPT !.pc = pc]
         IN /\ Good(k) /\ k.pc = pc /\ k.file = j.file /\ k.stamp = j.stamp
            /\ k.batch = j.batch /\ k.failed = j.failed /\ k.asked = j.asked
            /\ k.close = j.close /\ k.insert = j.insert /\ k.upsert = j.upsert
            /\ k.observe = j.observe /\ k.stale = j.stale
<1> DEFINE k == [j EXCEPT !.pc = pc]
<1>1. Record(j) /\ Typed(j)
  BY RecordFields DEF Good
<1>2. /\ Record(k) /\ k.pc = pc /\ k.file = j.file /\ k.stamp = j.stamp
      /\ k.batch = j.batch /\ k.failed = j.failed /\ k.asked = j.asked
      /\ k.close = j.close /\ k.insert = j.insert /\ k.upsert = j.upsert
      /\ k.observe = j.observe /\ k.stale = j.stale /\ k.attempt = j.attempt
  BY <1>1 DEF Record, Fields
<1> HIDE DEF k
<1>3. Typed(k)
  BY <1>1, <1>2 DEF Typed
<1>4. Good(k)
  BY <1>2, <1>3, FieldsRecord DEF Good, Ready
<1> QED
  BY <1>2, <1>4 DEF k

(* A gate has answered, and the run has decided what it needs.              *)
LEMMA AnsweredIs ==
  ASSUME NEW j, Good(j), j.pc = "lookup", NEW gate \in Gates
  PROVE  LET k == Answered(j, gate)
         IN /\ Good(k) /\ k.asked = j.asked \cup {gate}
            /\ k.pc = IF j.asked \cup {gate} = Gates THEN "price" ELSE "lookup"
            /\ k.file = j.file /\ k.stamp = j.stamp /\ k.batch = j.batch /\ k.failed = j.failed
            /\ k.close = j.close /\ k.insert = j.insert /\ k.upsert = j.upsert
            /\ k.observe = j.observe /\ k.stale = j.stale
<1> DEFINE pc == IF j.asked \cup {gate} = Gates THEN "price" ELSE "lookup"
           asked == j.asked \cup {gate}
           k == [j EXCEPT !.asked = asked, !.pc = pc]
<1>1. Record(j) /\ Typed(j)
  BY RecordFields DEF Good
<1>2. pc \in Pcs \ {"idle"} /\ asked \subseteq Gates
  BY <1>1 DEF Pcs, Typed
<1>3. Answered(j, gate) = k
  BY DEF Answered
<1> HIDE DEF pc, asked
<1>4. /\ Record(k) /\ k.pc = pc /\ k.file = j.file /\ k.stamp = j.stamp
      /\ k.batch = j.batch /\ k.failed = j.failed /\ k.asked = asked
      /\ k.close = j.close /\ k.insert = j.insert /\ k.upsert = j.upsert
      /\ k.observe = j.observe /\ k.stale = j.stale /\ k.attempt = j.attempt
  BY <1>1 DEF Record, Fields
<1> HIDE DEF k
<1>5. Typed(k)
  BY <1>1, <1>2, <1>4 DEF Typed
<1>6. Good(k)
  BY <1>2, <1>4, <1>5, FieldsRecord DEF Good, Ready
<1> QED
  BY <1>3, <1>4, <1>6 DEF pc, asked

(* The statements keep the types of the tables.                             *)
LEMMA PutsTyped ==
  ASSUME TypeOK, NEW w \in Writers, run[w].pc # "idle",
         \/ PutPrices(w) \/ PutSnapshots(w) \/ PutClosed(w) \/ PutVersions(w)
         \/ \E ids \in SUBSET Ids : PutCatalog(w, ids)
         \/ UNCHANGED tables
  PROVE  TablesOK'
<1>1. RunsOK /\ TablesOK /\ CountsOK
  BY TypeParts
<1>2. Good(run[w]) /\ Ready(run[w]) /\ Record(run[w]) /\ Typed(run[w])
  BY <1>1, AtWork
<1>3. \A id \in Ids : /\ Incoming(w)[id].price \in Prices /\ Incoming(w)[id].meta \in Metas
                      /\ KeyOf[Incoming(w)[id].meta] \in Keys
  BY <1>1, IncomingRows
<1>4. CASE PutPrices(w)
  BY <1>1, <1>3, <1>4 DEF PutPrices, TablesOK, historyVars
<1>5. CASE PutSnapshots(w)
  <2>1. snapshots' \subseteq [id : Ids, at : 0..MaxStarts, price : Prices]
    BY <1>1, <1>2, <1>3, <1>5 DEF PutSnapshots, TablesOK, Typed
  <2> QED
    BY <1>1, <1>5, <2>1 DEF PutSnapshots, TablesOK, historyVars, priceVars
<1>6. CASE PutClosed(w)
  BY <1>1, <1>6 DEF PutClosed, TablesOK, priceVars
<1>7. CASE PutVersions(w)
  BY <1>1, <1>2, <1>3, <1>7 DEF PutVersions, TablesOK, priceVars, Typed
<1>8. CASE \E ids \in SUBSET Ids : PutCatalog(w, ids)
  BY <1>1, <1>3, <1>8 DEF PutCatalog, TablesOK, historyVars, priceVars
<1>9. CASE UNCHANGED tables
  BY <1>1, <1>9 DEF TablesOK, tables, historyVars, priceVars
<1> QED
  BY <1>4, <1>5, <1>6, <1>7, <1>8, <1>9

-----------------------------------------------------------------------------
(* What a step leaves of the records, action by action.                     *)

LEMMA VersionsLooked ==
  ASSUME TypeOK, NEW w \in Writers, LookupVersions(w)
  PROVE  /\ RunsOK' /\ (\A v \in Writers : v # w => run'[v] = run[v])
         /\ UNCHANGED tables /\ Steady
         /\ run[w].pc = "lookup" /\ run'[w].asked = run[w].asked \cup {"versions"}
         /\ run'[w].pc = IF run[w].asked \cup {"versions"} = Gates THEN "price" ELSE "lookup"
         /\ run'[w].insert = Renamed(w) /\ run'[w].close = Closable(w)
         /\ run'[w].file = run[w].file /\ run'[w].stamp = run[w].stamp
         /\ run'[w].batch = run[w].batch /\ run'[w].failed = run[w].failed
         /\ run'[w].upsert = run[w].upsert /\ run'[w].observe = run[w].observe /\ run'[w].stale = run[w].stale
<1> DEFINE h == Answered(run[w], "versions")
           a == Renamed(w)
           b == Closable(w)
           j == [h EXCEPT !.insert = a, !.close = b]
<1>1. RunsOK /\ CountsOK /\ run[w].pc = "lookup" /\ Good(run[w])
  BY TypeParts DEF RunsOK, LookupVersions, Asks
<1>2. a \in SUBSET Ids /\ b \in SUBSET Ids
  BY <1>1, IncomingRows DEF Renamed, Closable
<1>3. Move(w, j) /\ UNCHANGED tables /\ Steady
  BY DEF LookupVersions, Asks, Steady
<1>4. /\ Good(h) /\ h.asked = run[w].asked \cup {"versions"}
      /\ h.pc = IF run[w].asked \cup {"versions"} = Gates THEN "price" ELSE "lookup"
      /\ h.file = run[w].file /\ h.stamp = run[w].stamp
      /\ h.batch = run[w].batch /\ h.failed = run[w].failed
      /\ h.close = run[w].close /\ h.insert = run[w].insert /\ h.upsert = run[w].upsert
      /\ h.observe = run[w].observe /\ h.stale = run[w].stale
  BY <1>1, AnsweredIs DEF Gates
<1> HIDE DEF h, a, b
<1>5. Record(h) /\ Typed(h)
  BY <1>4, RecordFields DEF Good
<1>6. /\ Record(j) /\ j.attempt = h.attempt /\ j.insert = a /\ j.close = b
      /\ j.pc = h.pc /\ j.file = h.file /\ j.stamp = h.stamp /\ j.batch = h.batch
      /\ j.failed = h.failed /\ j.asked = h.asked
      /\ j.upsert = h.upsert /\ j.observe = h.observe /\ j.stale = h.stale
  BY <1>5 DEF Record, Fields
<1> HIDE DEF j
<1>7. Good(j)
  BY <1>2, <1>4, <1>5, <1>6, FieldsRecord DEF Good, Ready, Typed
<1>8. RunsOK' /\ run'[w] = j /\ \A v \in Writers : v # w => run'[v] = run[v]
  BY <1>1, <1>3, <1>7, RunMoved
<1> QED
  BY <1>1, <1>3, <1>4, <1>6, <1>8 DEF a, b

LEMMA PricesLooked ==
  ASSUME TypeOK, NEW w \in Writers, LookupPrices(w)
  PROVE  /\ RunsOK' /\ (\A v \in Writers : v # w => run'[v] = run[v])
         /\ UNCHANGED tables /\ Steady
         /\ run[w].pc = "lookup" /\ run'[w].asked = run[w].asked \cup {"prices"}
         /\ run'[w].pc = IF run[w].asked \cup {"prices"} = Gates THEN "price" ELSE "lookup"
         /\ run'[w].observe = Moved(w) /\ run'[w].upsert = Moved(w) \cup Rekeyed(w)
         /\ run'[w].file = run[w].file /\ run'[w].stamp = run[w].stamp
         /\ run'[w].batch = run[w].batch /\ run'[w].failed = run[w].failed
         /\ run'[w].insert = run[w].insert /\ run'[w].close = run[w].close /\ run'[w].stale = run[w].stale
<1> DEFINE h == Answered(run[w], "prices")
           b == Moved(w) \cup Rekeyed(w)
           a == Moved(w)
           j == [h EXCEPT !.observe = a, !.upsert = b]
<1>1. RunsOK /\ CountsOK /\ run[w].pc = "lookup" /\ Good(run[w])
  BY TypeParts DEF RunsOK, LookupPrices, Asks
<1>2. a \in SUBSET Ids /\ b \in SUBSET Ids
  BY <1>1, IncomingRows DEF Moved, Rekeyed
<1>3. Move(w, j) /\ UNCHANGED tables /\ Steady
  BY DEF LookupPrices, Asks, Steady
<1>4. /\ Good(h) /\ h.asked = run[w].asked \cup {"prices"}
      /\ h.pc = IF run[w].asked \cup {"prices"} = Gates THEN "price" ELSE "lookup"
      /\ h.file = run[w].file /\ h.stamp = run[w].stamp
      /\ h.batch = run[w].batch /\ h.failed = run[w].failed
      /\ h.close = run[w].close /\ h.insert = run[w].insert /\ h.upsert = run[w].upsert
      /\ h.observe = run[w].observe /\ h.stale = run[w].stale
  BY <1>1, AnsweredIs DEF Gates
<1> HIDE DEF h, b, a
<1>5. Record(h) /\ Typed(h)
  BY <1>4, RecordFields DEF Good
<1>6. /\ Record(j) /\ j.attempt = h.attempt /\ j.observe = a /\ j.upsert = b
      /\ j.pc = h.pc /\ j.file = h.file /\ j.stamp = h.stamp /\ j.batch = h.batch
      /\ j.failed = h.failed /\ j.asked = h.asked
      /\ j.insert = h.insert /\ j.close = h.close /\ j.stale = h.stale
  BY <1>5 DEF Record, Fields
<1> HIDE DEF j
<1>7. Good(j)
  BY <1>2, <1>4, <1>5, <1>6, FieldsRecord DEF Good, Ready, Typed
<1>8. RunsOK' /\ run'[w] = j /\ \A v \in Writers : v # w => run'[v] = run[v]
  BY <1>1, <1>3, <1>7, RunMoved
<1> QED
  BY <1>1, <1>3, <1>4, <1>6, <1>8 DEF a, b

LEMMA MetadataLooked ==
  ASSUME TypeOK, NEW w \in Writers, LookupMetadata(w)
  PROVE  /\ RunsOK' /\ (\A v \in Writers : v # w => run'[v] = run[v])
         /\ UNCHANGED tables /\ Steady
         /\ run[w].pc = "lookup" /\ run'[w].asked = run[w].asked \cup {"metadata"}
         /\ run'[w].pc = IF run[w].asked \cup {"metadata"} = Gates THEN "price" ELSE "lookup"
         /\ run'[w].stale = (run[w].stale \ Batch(w)) \cup Outdated(w)
         /\ run'[w].file = run[w].file /\ run'[w].stamp = run[w].stamp
         /\ run'[w].batch = run[w].batch /\ run'[w].failed = run[w].failed
         /\ run'[w].insert = run[w].insert /\ run'[w].close = run[w].close
         /\ run'[w].upsert = run[w].upsert /\ run'[w].observe = run[w].observe
<1> DEFINE h == Answered(run[w], "metadata")
           a == (run[w].stale \ Batch(w)) \cup Outdated(w)
           j == [h EXCEPT !.stale = a]
<1>1. RunsOK /\ CountsOK /\ run[w].pc = "lookup" /\ Good(run[w])
  BY TypeParts DEF RunsOK, LookupMetadata, Asks
<1>2. a \in SUBSET Ids
  BY <1>1, IncomingRows, AtWork DEF Outdated, Typed
<1>3. Move(w, j) /\ UNCHANGED tables /\ Steady
  <2>1. h.stale = run[w].stale
    BY <1>1, AnsweredIs DEF Gates
  <2>2. Move(w, [h EXCEPT !.stale = (h.stale \ Batch(w)) \cup Outdated(w)])
    BY DEF LookupMetadata
  <2> QED
    BY <2>1, <2>2 DEF LookupMetadata, Asks, Steady
<1>4. /\ Good(h) /\ h.asked = run[w].asked \cup {"metadata"}
      /\ h.pc = IF run[w].asked \cup {"metadata"} = Gates THEN "price" ELSE "lookup"
      /\ h.file = run[w].file /\ h.stamp = run[w].stamp
      /\ h.batch = run[w].batch /\ h.failed = run[w].failed
      /\ h.close = run[w].close /\ h.insert = run[w].insert /\ h.upsert = run[w].upsert
      /\ h.observe = run[w].observe /\ h.stale = run[w].stale
  BY <1>1, AnsweredIs DEF Gates
<1> HIDE DEF h, a
<1>5. Record(h) /\ Typed(h)
  BY <1>4, RecordFields DEF Good
<1>6. /\ Record(j) /\ j.attempt = h.attempt /\ j.stale = a
      /\ j.pc = h.pc /\ j.file = h.file /\ j.stamp = h.stamp /\ j.batch = h.batch
      /\ j.failed = h.failed /\ j.asked = h.asked
      /\ j.insert = h.insert /\ j.close = h.close
         /\ j.upsert = h.upsert /\ j.observe = h.observe
  BY <1>5 DEF Record, Fields
<1> HIDE DEF j
<1>7. Good(j)
  BY <1>2, <1>4, <1>5, <1>6, FieldsRecord DEF Good, Ready, Typed
<1>8. RunsOK' /\ run'[w] = j /\ \A v \in Writers : v # w => run'[v] = run[v]
  BY <1>1, <1>3, <1>7, RunMoved
<1> QED
  BY <1>1, <1>3, <1>4, <1>6, <1>8 DEF a

LEMMA PcMoved ==
  ASSUME RunsOK, NEW w \in Writers, run[w].pc # "idle", NEW pc \in Pcs, MoveTo(w, pc)
  PROVE  /\ RunsOK' /\ (\A v \in Writers : v # w => run'[v] = run[v])
         /\ run'[w].pc = pc
         /\ run'[w].file = run[w].file /\ run'[w].stamp = run[w].stamp
         /\ run'[w].batch = run[w].batch /\ run'[w].failed = run[w].failed
         /\ run'[w].insert = run[w].insert /\ run'[w].close = run[w].close
         /\ run'[w].upsert = run[w].upsert /\ run'[w].observe = run[w].observe
         /\ run'[w].stale = run[w].stale
<1> DEFINE j == [run[w] EXCEPT !.pc = pc]
<1>1. Good(run[w]) /\ Move(w, j)
  BY AtWork DEF MoveTo
<1>2. /\ Good(j) /\ j.pc = pc /\ j.file = run[w].file /\ j.stamp = run[w].stamp
      /\ j.batch = run[w].batch /\ j.failed = run[w].failed
      /\ j.close = run[w].close /\ j.insert = run[w].insert /\ j.upsert = run[w].upsert
      /\ j.observe = run[w].observe /\ j.stale = run[w].stale
  BY <1>1, PcGood
<1> HIDE DEF j
<1>3. RunsOK' /\ run'[w] = j /\ \A v \in Writers : v # w => run'[v] = run[v]
  BY <1>1, <1>2, RunMoved
<1> QED
  BY <1>2, <1>3

(* Where the run is after a sub-batch of the history pass.                  *)
PastHistory(w, failed) ==
  \/ run'[w].pc = "idle"
  \/ /\ Fresh(run'[w]) /\ run'[w].file = run[w].file /\ run'[w].stamp = run[w].stamp
     /\ \/ /\ run'[w].pc = "lookup" /\ run'[w].batch = run[w].batch + 1
           /\ run'[w].failed = failed /\ run'[w].stale = run[w].stale
        \/ run'[w].pc = "lookup" /\ run'[w].batch = 1
        \/ /\ run'[w].pc = "catalog" /\ run'[w].batch = 1 /\ ~failed
           /\ run'[w].stale = run[w].stale /\ run[w].batch = Len(SubBatches)

LEMMA HistoryMoved ==
  ASSUME RunsOK, NEW w \in Writers, run[w].pc # "idle", NEW failed \in BOOLEAN,
         Move(w, AfterHistory(run[w], failed))
  PROVE  /\ RunsOK' /\ (\A v \in Writers : v # w => run'[v] = run[v])
         /\ PastHistory(w, failed)
<1> DEFINE j == AfterHistory(run[w], failed)
<1>1. Good(run[w]) /\ Ready(run[w])
  BY AtWork
<1>2. /\ Good(j)
      /\ \/ j = Idle
         \/ /\ Fresh(j) /\ j.file = run[w].file /\ j.stamp = run[w].stamp
            /\ \/ /\ j.pc = "lookup" /\ j.batch = run[w].batch + 1 /\ j.failed = failed
                  /\ j.stale = run[w].stale
               \/ j.pc = "lookup" /\ j.batch = 1
               \/ /\ j.pc = "catalog" /\ j.batch = 1 /\ ~j.failed /\ ~failed
                  /\ j.stale = run[w].stale /\ run[w].batch = Len(SubBatches)
  BY <1>1, AfterHistoryIs
<1> HIDE DEF j
<1>3. RunsOK' /\ run'[w] = j /\ \A v \in Writers : v # w => run'[v] = run[v]
  BY <1>2, RunMoved DEF j
<1> QED
  BY <1>2, <1>3, IdleGood DEF PastHistory

(* And after one of the catalog pass.                                       *)
PastCatalog(w, failed) ==
  \/ run'[w].pc = "idle"
  \/ /\ run'[w].file = run[w].file /\ run'[w].stamp = run[w].stamp
     /\ \/ /\ Fresh(run'[w]) /\ run'[w].pc = "catalog" /\ run'[w].batch = run[w].batch + 1
           /\ run'[w].failed = failed /\ run'[w].stale = run[w].stale
        \/ Fresh(run'[w]) /\ run'[w].pc = "lookup" /\ run'[w].batch = 1
        \/ run'[w].pc = "landed" /\ ~failed /\ run[w].batch = Len(SubBatches)

LEMMA CatalogMoved ==
  ASSUME RunsOK, NEW w \in Writers, run[w].pc # "idle", NEW failed \in BOOLEAN,
         Move(w, AfterCatalog(run[w], failed))
  PROVE  /\ RunsOK' /\ (\A v \in Writers : v # w => run'[v] = run[v])
         /\ PastCatalog(w, failed)
<1> DEFINE j == AfterCatalog(run[w], failed)
<1>1. Good(run[w]) /\ Ready(run[w])
  BY AtWork
<1>2. /\ Good(j)
      /\ \/ j = Idle
         \/ /\ j.file = run[w].file /\ j.stamp = run[w].stamp
            /\ \/ /\ Fresh(j) /\ j.pc = "catalog" /\ j.batch = run[w].batch + 1
                  /\ j.failed = failed /\ j.stale = run[w].stale
               \/ Fresh(j) /\ j.pc = "lookup" /\ j.batch = 1
               \/ j.pc = "landed" /\ ~failed /\ run[w].batch = Len(SubBatches)
  BY <1>1, AfterCatalogIs
<1> HIDE DEF j
<1>3. RunsOK' /\ run'[w] = j /\ \A v \in Writers : v # w => run'[v] = run[v]
  BY <1>2, RunMoved DEF j
<1> QED
  BY <1>2, <1>3, IdleGood DEF PastCatalog

(* A run that ends or dies.                                                 *)
LEMMA IdleMoved ==
  ASSUME RunsOK, NEW w \in Writers, Move(w, Idle)
  PROVE  RunsOK' /\ run'[w].pc = "idle" /\ \A v \in Writers : v # w => run'[v] = run[v]
BY RunMoved, IdleGood

LEMMA Started ==
  ASSUME TypeOK, NEW w \in Writers, NEW f \in Files, Start(w, f)
  PROVE  /\ RunsOK' /\ (\A v \in Writers : v # w => run'[v] = run[v])
         /\ run[w].pc = "idle" /\ clock' = clock + 1 /\ clock + 1 <= MaxStarts
         /\ UNCHANGED <<content, tables, landed, torn, faults, crashes>>
         /\ Fresh(run'[w]) /\ run'[w].pc = "lookup" /\ run'[w].batch = 1
         /\ run'[w].file = f /\ run'[w].stamp = clock + 1
<1> DEFINE j == [AtBatch(Idle, "lookup", 1, FALSE)
                   EXCEPT !.file = f, !.stamp = clock + 1, !.attempt = 1]
<1>1. /\ Good(j) /\ Fresh(j) /\ j.pc = "lookup" /\ j.batch = 1 /\ j.file = f
      /\ j.stamp = clock + 1
  BY StartTyped
<1>2. Move(w, j) /\ run[w].pc = "idle" /\ clock' = clock + 1 /\ clock < MaxStarts
      /\ UNCHANGED <<content, tables, landed, torn, faults, crashes>>
  BY DEF Start
<1> HIDE DEF j
<1>3. RunsOK' /\ run'[w] = j /\ \A v \in Writers : v # w => run'[v] = run[v]
  BY <1>1, <1>2, RunMoved, TypeParts
<1>4. clock + 1 <= MaxStarts
  BY <1>2, TypeParts, CatalogWriterAssumption DEF CountsOK, CatalogWriterAssumption
<1> QED
  BY <1>1, <1>2, <1>3, <1>4

-----------------------------------------------------------------------------
(* Type correctness.                                                        *)

LEMMA InitTyped == Init => TypeOK
<1> SUFFICES ASSUME Init PROVE RunsOK /\ TablesOK /\ CountsOK
  BY TypeParts
<1>1. RunsOK
  BY IdleGood DEF Init, RunsOK
<1>2. TablesOK /\ CountsOK
  BY CatalogWriterAssumption DEF Init, TablesOK, CountsOK, CatalogWriterAssumption
<1> QED
  BY <1>1, <1>2

(* A failed sub-batch, and a failed request with what it did or did not do. *)
LEMMA FailedMoved ==
  ASSUME RunsOK, NEW w \in Writers, run[w].pc # "idle",
         Move(w, AfterHistory(run[w], TRUE))
  PROVE  /\ RunsOK' /\ (\A v \in Writers : v # w => run'[v] = run[v])
         /\ PastHistory(w, TRUE)
<1> DEFINE failed == TRUE
<1>1. failed \in BOOLEAN /\ Move(w, AfterHistory(run[w], failed))
  OBVIOUS
<1> HIDE DEF failed
<1>2. RunsOK' /\ (\A v \in Writers : v # w => run'[v] = run[v]) /\ PastHistory(w, failed)
  BY <1>1, HistoryMoved
<1> QED
  BY <1>2 DEF failed

LEMMA HistoryFails ==
  ASSUME TypeOK, NEW w \in Writers, HistoryRequestFails(w)
  PROVE  /\ RunsOK' /\ (\A v \in Writers : v # w => run'[v] = run[v])
         /\ PastHistory(w, TRUE) /\ run[w].pc \in {"lookup", "price", "snapshot", "close", "insert"}
         /\ faults < MaxFaults /\ faults' = faults + 1
         /\ UNCHANGED <<content, landed, clock, crashes>>
         /\ torn' \in {torn, torn \cup run[w].observe, torn \ run[w].observe}
         /\ PutPrices(w) \/ PutSnapshots(w) \/ PutClosed(w) \/ PutVersions(w) \/ UNCHANGED tables
<1>1. RunsOK
  BY TypeParts
<1>2. run[w].pc \in {"lookup", "price", "snapshot", "close", "insert"}
  BY DEF HistoryRequestFails
<1>3. Move(w, AfterHistory(run[w], TRUE))
  BY DEF HistoryRequestFails
<1> QED
  BY <1>1, <1>2, <1>3, FailedMoved DEF HistoryRequestFails

LEMMA CatalogFails ==
  ASSUME TypeOK, NEW w \in Writers, CatalogRequestFails(w)
  PROVE  /\ RunsOK' /\ (\A v \in Writers : v # w => run'[v] = run[v])
         /\ PastCatalog(w, TRUE) /\ run[w].pc = "catalog"
         /\ \E ids \in SUBSET Ids : PutCatalog(w, ids)
<1> DEFINE failed == TRUE
<1>1. failed \in BOOLEAN /\ Move(w, AfterCatalog(run[w], failed)) /\ run[w].pc = "catalog"
  BY DEF CatalogRequestFails
<1> HIDE DEF failed
<1>2. RunsOK
  BY TypeParts
<1>3. RunsOK' /\ (\A v \in Writers : v # w => run'[v] = run[v]) /\ PastCatalog(w, failed)
  BY <1>1, <1>2, CatalogMoved
<1>4. ToUpsert(w) \subseteq Ids
  BY <1>1, <1>2, AtWork DEF ToUpsert, Typed
<1> QED
  BY <1>1, <1>3, <1>4 DEF failed, CatalogRequestFails

LEMMA WorksTyped ==
  ASSUME TypeOK, NEW w \in Writers, Works(w)
  PROVE  TypeOK'
<1>1. RunsOK /\ TablesOK /\ CountsOK
  BY TypeParts
<1>2. CASE LookupVersions(w)
  <2>1. RunsOK' /\ UNCHANGED tables /\ Steady
    BY <1>2, VersionsLooked
  <2> QED
    BY <1>1, <2>1, TypePartsNext
       DEF Steady, CountsOK, TablesOK, tables, historyVars, priceVars
<1>3. CASE LookupPrices(w)
  <2>1. RunsOK' /\ UNCHANGED tables /\ Steady
    BY <1>3, PricesLooked
  <2> QED
    BY <1>1, <2>1, TypePartsNext
       DEF Steady, CountsOK, TablesOK, tables, historyVars, priceVars
<1>4. CASE LookupMetadata(w)
  <2>1. RunsOK' /\ UNCHANGED tables /\ Steady
    BY <1>4, MetadataLooked
  <2> QED
    BY <1>1, <2>1, TypePartsNext
       DEF Steady, CountsOK, TablesOK, tables, historyVars, priceVars
<1>5. CASE UpsertPrices(w)
  <2>1. RunsOK'
    BY <1>1, <1>5, PcMoved DEF UpsertPrices, Pcs
  <2>2. TablesOK'
    BY <1>5, PutsTyped DEF UpsertPrices
  <2> QED
    BY <1>1, <1>5, <2>1, <2>2, TypePartsNext DEF UpsertPrices, Steady, CountsOK
<1>6. CASE InsertSnapshots(w)
  <2>1. RunsOK'
    BY <1>1, <1>6, PcMoved DEF InsertSnapshots, Pcs
  <2>2. TablesOK'
    BY <1>6, PutsTyped DEF InsertSnapshots
  <2> QED
    BY <1>1, <1>6, <2>1, <2>2, TypePartsNext DEF InsertSnapshots, CountsOK
<1>7. CASE CloseVersions(w)
  <2>1. RunsOK'
    BY <1>1, <1>7, PcMoved DEF CloseVersions, Pcs
  <2>2. TablesOK'
    BY <1>7, PutsTyped DEF CloseVersions
  <2> QED
    BY <1>1, <1>7, <2>1, <2>2, TypePartsNext DEF CloseVersions, Steady, CountsOK
<1>8. CASE InsertVersions(w)
  <2>1. RunsOK'
    BY <1>1, <1>8, AtWork, HistoryMoved DEF InsertVersions, Typed
  <2>2. TablesOK'
    BY <1>8, PutsTyped DEF InsertVersions
  <2> QED
    BY <1>1, <1>8, <2>1, <2>2, TypePartsNext DEF InsertVersions, Steady, CountsOK
<1>9. CASE Rejected(w)
  <2>1. RunsOK' /\ UNCHANGED tables /\ Steady
    BY <1>1, <1>9, FailedMoved DEF Rejected
  <2> QED
    BY <1>1, <2>1, TypePartsNext
       DEF Steady, CountsOK, TablesOK, tables, historyVars, priceVars
<1>10. CASE UpsertCatalog(w)
  <2>1. run[w].pc = "catalog" /\ RunsOK'
    BY <1>1, <1>10, AtWork, CatalogMoved DEF UpsertCatalog, Typed
  <2>2. ToUpsert(w) \subseteq Ids
    BY <1>1, <2>1, AtWork DEF ToUpsert, Typed
  <2>3. TablesOK'
    BY <1>10, <2>1, <2>2, PutsTyped DEF UpsertCatalog
  <2> QED
    BY <1>1, <1>10, <2>1, <2>3, TypePartsNext DEF UpsertCatalog, Steady, CountsOK
<1>11. CASE Land(w)
  <2>1. RunsOK' /\ UNCHANGED tables
    BY <1>1, <1>11, IdleMoved DEF Land
  <2>2. run[w].file \in Files
    BY <1>1, <1>11, AtWork DEF Land, Ready
  <2> QED
    BY <1>1, <1>11, <2>1, <2>2, TypePartsNext
       DEF Land, CountsOK, TablesOK, tables, historyVars, priceVars
<1> QED
  BY <1>2, <1>3, <1>4, <1>5, <1>6, <1>7, <1>8, <1>9, <1>10, <1>11 DEF Works

LEMMA TypeStep ==
  ASSUME TypeOK, [Next]_vars
  PROVE  TypeOK'
<1>1. RunsOK /\ TablesOK /\ CountsOK
  BY TypeParts
<1>2. {MaxStarts, MaxFaults, MaxCrashes} \subseteq Nat
  BY CatalogWriterAssumption DEF CatalogWriterAssumption
<1>3. CASE \E w \in Writers : Works(w)
  BY <1>3, WorksTyped
<1>4. ASSUME NEW w \in Writers, HistoryRequestFails(w) PROVE TypeOK'
  <2>1. TablesOK'
    BY <1>4, HistoryFails, PutsTyped
  <2>2. run[w].observe \subseteq Ids
    BY <1>1, <1>4, HistoryFails, AtWork DEF Typed
  <2>3. CountsOK'
    <3>1. /\ faults < MaxFaults /\ faults' = faults + 1
          /\ UNCHANGED <<content, landed, clock, crashes>>
          /\ torn' \in {torn, torn \cup run[w].observe, torn \ run[w].observe}
      BY <1>4, HistoryFails
    <3>2. faults' \in 0..MaxFaults
      BY <1>1, <1>2, <3>1 DEF CountsOK
    <3> QED
      BY <1>1, <2>2, <3>1, <3>2 DEF CountsOK
  <2>4. RunsOK'
    BY <1>4, HistoryFails
  <2> QED
    BY <2>1, <2>3, <2>4, TypePartsNext
<1>5. ASSUME NEW w \in Writers, CatalogRequestFails(w) PROVE TypeOK'
  <2>1. TablesOK'
    BY <1>5, CatalogFails, PutsTyped
  <2>2. CountsOK'
    BY <1>1, <1>2, <1>5 DEF CatalogRequestFails, CountsOK
  <2>3. RunsOK'
    BY <1>5, CatalogFails
  <2> QED
    BY <2>1, <2>2, <2>3, TypePartsNext
<1>6. ASSUME NEW w \in Writers, Crash(w) PROVE TypeOK'
  <2>1. RunsOK' /\ UNCHANGED tables
    BY <1>1, <1>6, IdleMoved DEF Crash
  <2>2. run[w].observe \subseteq Ids
    BY <1>1, <1>6, AtWork DEF Typed, Crash
  <2>3. CountsOK'
    BY <1>1, <1>2, <1>6, <2>2 DEF Crash, CountsOK
  <2> QED
    BY <1>1, <2>1, <2>3, TypePartsNext DEF TablesOK, tables, historyVars, priceVars
<1>7. ASSUME NEW w \in Writers, NEW f \in Files, Start(w, f) PROVE TypeOK'
  <2>1. RunsOK' /\ UNCHANGED <<content, tables, landed, torn, faults, crashes>>
        /\ clock' = clock + 1 /\ clock + 1 <= MaxStarts
    BY <1>7, Started
  <2>2. CountsOK'
    BY <1>1, <1>2, <2>1 DEF CountsOK
  <2> QED
    BY <1>1, <2>1, <2>2, TypePartsNext DEF TablesOK, tables, historyVars, priceVars
<1>8. CASE UNCHANGED vars
  <2>1. RunsOK' /\ TablesOK' /\ CountsOK'
    BY <1>1, <1>8 DEF vars, RunsOK, TablesOK, CountsOK, tables, historyVars, priceVars
  <2> QED
    BY <2>1, TypePartsNext
<1> QED
  BY <1>3, <1>4, <1>5, <1>6, <1>7, <1>8 DEF Next

(* However many runs overlap.                                               *)
THEOREM TypeCorrect == Spec => []TypeOK
<1>1. TypeOK /\ [Next]_vars => TypeOK'
  BY TypeStep
<1> QED
  BY InitTyped, <1>1, PTL DEF Spec

-----------------------------------------------------------------------------
(* What a run that is alone may rely on. The invariant is about runs that   *)
(* do not overlap: with an overlap the gates go stale under the run.        *)

(* At most one run is under way.                                            *)
OneAtATime == \A v, w \in Writers : run[v].pc # "idle" /\ run[w].pc # "idle" => v = w

(* What the tables have been told of a product; the catalog at least has it *)
(* on the list of the rows it is due.                                       *)
PriceTold(w, id) ==
  price[id] = Incoming(w)[id].price /\ priceKeys[id] = KeyOf[Incoming(w)[id].meta]
VersionTold(w, id) == current[id] = Incoming(w)[id].meta
CatalogTold(w, id) == catalog[id] = Incoming(w)[id].meta
CatalogDue(w, id) == CatalogTold(w, id) \/ id \in run[w].stale

At(w, pcs) == run[w].pc \in pcs
Knows(w, gate) == At(w, {"lookup"}) /\ gate \in run[w].asked

(* A gate's decision stays right until it is acted on.                      *)
PriceGate(w) ==
  Knows(w, "prices") \/ At(w, {"price"}) =>
    run[w].observe = Moved(w) /\ run[w].upsert = Moved(w) \cup Rekeyed(w)
VersionGate(w) ==
  Knows(w, "versions") \/ At(w, {"price", "snapshot", "close"}) =>
    run[w].insert = Renamed(w) /\ run[w].close = Closable(w)
MetadataGate(w) ==
  Knows(w, "metadata") \/ At(w, {"price", "snapshot", "close", "insert"}) =>
    \A id \in Batch(w) : CatalogDue(w, id)

(* Each request has done its part for the whole sub-batch.                  *)
PricesPut(w) ==
  At(w, {"snapshot", "close", "insert"}) => \A id \in Batch(w) : PriceTold(w, id)
Observing(w) == At(w, {"snapshot"}) => run[w].observe \subseteq Batch(w)
Closed(w) ==
  At(w, {"insert"}) =>
    /\ run[w].insert \subseteq Batch(w)
    /\ \A id \in Batch(w) \ run[w].insert : VersionTold(w, id)

(* As long as no sub-batch failed, the ones behind the run are done.        *)
HistoryPassed(w) ==
  At(w, {"lookup", "price", "snapshot", "close", "insert"}) /\ ~run[w].failed =>
    \A i \in 1..run[w].batch - 1 : \A id \in SubBatches[i] :
      PriceTold(w, id) /\ VersionTold(w, id) /\ CatalogDue(w, id)
CatalogPassed(w) ==
  At(w, {"catalog"}) /\ ~run[w].failed =>
    /\ \A id \in Ids : PriceTold(w, id) /\ VersionTold(w, id) /\ CatalogDue(w, id)
    /\ \A i \in 1..run[w].batch - 1 : \A id \in SubBatches[i] : CatalogTold(w, id)
AllTold(w) ==
  At(w, {"landed"}) =>
    \A id \in Ids : PriceTold(w, id) /\ VersionTold(w, id) /\ CatalogTold(w, id)

Sound(w) ==
  /\ PriceGate(w) /\ VersionGate(w) /\ MetadataGate(w)
  /\ PricesPut(w) /\ Observing(w) /\ Closed(w)
  /\ HistoryPassed(w) /\ CatalogPassed(w) /\ AllTold(w)

LEMMA IdleSound ==
  ASSUME NEW w \in Writers, run'[w].pc = "idle"
  PROVE  Sound(w)'
BY DEF Sound, PriceGate, VersionGate, MetadataGate, PricesPut, Observing, Closed,
       HistoryPassed, CatalogPassed, AllTold, Knows, At

(* At the head of the first sub-batch there is nothing to be wrong about.   *)
LEMMA HeadSound ==
  ASSUME NEW w \in Writers, Fresh(run'[w]), run'[w].pc = "lookup", run'[w].batch = 1
  PROVE  Sound(w)'
<1>1. 1..run'[w].batch - 1 = {}
  OBVIOUS
<1> QED
  BY <1>1 DEF Sound, PriceGate, VersionGate, MetadataGate, PricesPut, Observing, Closed,
       HistoryPassed, CatalogPassed, AllTold, Knows, At, Fresh

LEMMA VersionsSound ==
  ASSUME TypeOK, NEW w \in Writers, Sound(w), LookupVersions(w)
  PROVE  Sound(w)'
<1>1. /\ UNCHANGED tables /\ Steady
      /\ run[w].pc = "lookup" /\ run'[w].asked = run[w].asked \cup {"versions"}
      /\ run'[w].pc = IF run[w].asked \cup {"versions"} = Gates THEN "price" ELSE "lookup"
      /\ run'[w].insert = Renamed(w) /\ run'[w].close = Closable(w)
      /\ run'[w].file = run[w].file
      /\ run'[w].batch = run[w].batch /\ run'[w].failed = run[w].failed
      /\ run'[w].upsert = run[w].upsert /\ run'[w].observe = run[w].observe
      /\ run'[w].stale = run[w].stale
  BY VersionsLooked
<1>2. Incoming(w)' = Incoming(w) /\ Batch(w)' = Batch(w)
  BY <1>1 DEF Incoming, Batch, Steady
<1>3. PriceGate(w)' /\ VersionGate(w)' /\ MetadataGate(w)'
  BY <1>1, <1>2 DEF Sound, PriceGate, VersionGate, MetadataGate, Knows, At, Gates, tables,
     historyVars, priceVars, Moved, Rekeyed, Renamed, Closable, CatalogDue, CatalogTold
<1>4. PricesPut(w)' /\ Observing(w)' /\ Closed(w)' /\ CatalogPassed(w)' /\ AllTold(w)'
  BY <1>1 DEF PricesPut, Observing, Closed, CatalogPassed, AllTold, At
<1>5. HistoryPassed(w)'
  BY <1>1, <1>2 DEF Sound, HistoryPassed, At, PriceTold, VersionTold, CatalogDue, CatalogTold,
     tables, historyVars, priceVars
<1> QED
  BY <1>3, <1>4, <1>5 DEF Sound

LEMMA PricesSound ==
  ASSUME TypeOK, NEW w \in Writers, Sound(w), LookupPrices(w)
  PROVE  Sound(w)'
<1>1. /\ UNCHANGED tables /\ Steady
      /\ run[w].pc = "lookup" /\ run'[w].asked = run[w].asked \cup {"prices"}
      /\ run'[w].pc = IF run[w].asked \cup {"prices"} = Gates THEN "price" ELSE "lookup"
      /\ run'[w].observe = Moved(w) /\ run'[w].upsert = Moved(w) \cup Rekeyed(w)
      /\ run'[w].file = run[w].file
      /\ run'[w].batch = run[w].batch /\ run'[w].failed = run[w].failed
      /\ run'[w].insert = run[w].insert /\ run'[w].close = run[w].close
      /\ run'[w].stale = run[w].stale
  BY PricesLooked
<1>2. Incoming(w)' = Incoming(w) /\ Batch(w)' = Batch(w)
  BY <1>1 DEF Incoming, Batch, Steady
<1>3. PriceGate(w)' /\ VersionGate(w)' /\ MetadataGate(w)'
  BY <1>1, <1>2 DEF Sound, PriceGate, VersionGate, MetadataGate, Knows, At, Gates, tables,
     historyVars, priceVars, Moved, Rekeyed, Renamed, Closable, CatalogDue, CatalogTold
<1>4. PricesPut(w)' /\ Observing(w)' /\ Closed(w)' /\ CatalogPassed(w)' /\ AllTold(w)'
  BY <1>1 DEF PricesPut, Observing, Closed, CatalogPassed, AllTold, At
<1>5. HistoryPassed(w)'
  BY <1>1, <1>2 DEF Sound, HistoryPassed, At, PriceTold, VersionTold, CatalogDue, CatalogTold,
     tables, historyVars, priceVars
<1> QED
  BY <1>3, <1>4, <1>5 DEF Sound

(* The remembered list keeps what earlier sub-batches put on it: the        *)
(* products of this one are others or are looked up afresh.                 *)
LEMMA MetadataSound ==
  ASSUME TypeOK, NEW w \in Writers, Sound(w), LookupMetadata(w)
  PROVE  Sound(w)'
<1>1. /\ UNCHANGED tables /\ Steady
      /\ run[w].pc = "lookup" /\ run'[w].asked = run[w].asked \cup {"metadata"}
      /\ run'[w].pc = IF run[w].asked \cup {"metadata"} = Gates THEN "price" ELSE "lookup"
      /\ run'[w].stale = (run[w].stale \ Batch(w)) \cup Outdated(w)
      /\ run'[w].file = run[w].file
      /\ run'[w].batch = run[w].batch /\ run'[w].failed = run[w].failed
      /\ run'[w].insert = run[w].insert /\ run'[w].close = run[w].close
      /\ run'[w].upsert = run[w].upsert /\ run'[w].observe = run[w].observe
  BY MetadataLooked
<1>2. Incoming(w)' = Incoming(w) /\ Batch(w)' = Batch(w)
  BY <1>1 DEF Incoming, Batch, Steady
<1>3. \A id : CatalogDue(w, id) => CatalogDue(w, id)'
  BY <1>1, <1>2 DEF CatalogDue, CatalogTold, Outdated, tables
<1>4. \A id \in Batch(w) : CatalogDue(w, id)'
  BY <1>1, <1>2 DEF CatalogDue, CatalogTold, Outdated, tables
<1>5. PriceGate(w)' /\ VersionGate(w)' /\ MetadataGate(w)'
  BY <1>1, <1>2, <1>4 DEF Sound, PriceGate, VersionGate, MetadataGate, Knows, At, Gates, tables,
     historyVars, priceVars, Moved, Rekeyed, Renamed, Closable
<1>6. PricesPut(w)' /\ Observing(w)' /\ Closed(w)' /\ CatalogPassed(w)' /\ AllTold(w)'
  BY <1>1 DEF PricesPut, Observing, Closed, CatalogPassed, AllTold, At
<1>7. HistoryPassed(w)'
  BY <1>1, <1>2, <1>3 DEF Sound, HistoryPassed, At, PriceTold, VersionTold,
     tables, historyVars, priceVars
<1> QED
  BY <1>5, <1>6, <1>7 DEF Sound

(* What the price gate let through is put, the rest is there already.       *)
LEMMA UpsertSound ==
  ASSUME TypeOK, NEW w \in Writers, Sound(w), UpsertPrices(w)
  PROVE  Sound(w)'
<1>1. /\ run[w].pc = "price" /\ run'[w].pc = "snapshot" /\ PutPrices(w) /\ Steady
      /\ run'[w].file = run[w].file
      /\ run'[w].batch = run[w].batch /\ run'[w].failed = run[w].failed
      /\ run'[w].insert = run[w].insert /\ run'[w].close = run[w].close
      /\ run'[w].observe = run[w].observe /\ run'[w].stale = run[w].stale
  BY TypeParts, PcMoved DEF UpsertPrices, Pcs
<1>2. Incoming(w)' = Incoming(w) /\ Batch(w)' = Batch(w)
  BY <1>1 DEF Incoming, Batch, Steady
<1>3. run[w].observe = Moved(w) /\ run[w].upsert = Moved(w) \cup Rekeyed(w)
  BY <1>1 DEF Sound, PriceGate, At
<1>4. \A id \in Ids : id \in run[w].upsert \/ PriceTold(w, id) => PriceTold(w, id)'
  BY <1>1, <1>2, TypeParts DEF PriceTold, PutPrices, TablesOK
<1>5. Batch(w) \subseteq Ids /\ \A i \in 1..run[w].batch - 1 : SubBatches[i] \subseteq Ids
  BY <1>1, TypeParts, AtWork, SubBatchParts DEF Batch, Ready
<1>6. \A id \in Batch(w) : PriceTold(w, id)'
  BY <1>3, <1>4, <1>5 DEF PriceTold, Moved, Rekeyed
<1>7. VersionGate(w)' /\ MetadataGate(w)'
  BY <1>1, <1>2 DEF Sound, VersionGate, MetadataGate, Knows, At, PutPrices,
     historyVars, Renamed, Closable, CatalogDue, CatalogTold
<1>8. PricesPut(w)' /\ Observing(w)'
  BY <1>1, <1>2, <1>3, <1>6 DEF PricesPut, Observing, At, Moved
<1>9. PriceGate(w)' /\ Closed(w)' /\ CatalogPassed(w)' /\ AllTold(w)'
  BY <1>1 DEF PriceGate, Knows, Closed, CatalogPassed, AllTold, At
<1>10. HistoryPassed(w)'
  BY <1>1, <1>2, <1>4, <1>5 DEF Sound, HistoryPassed, At, VersionTold, CatalogDue, CatalogTold,
     PutPrices, historyVars
<1> QED
  BY <1>7, <1>8, <1>9, <1>10 DEF Sound

LEMMA SnapshotsSound ==
  ASSUME TypeOK, NEW w \in Writers, Sound(w), InsertSnapshots(w)
  PROVE  Sound(w)'
<1>1. /\ run[w].pc = "snapshot" /\ run'[w].pc = "close" /\ content' = content
      /\ UNCHANGED <<historyVars, catalog, priceVars>>
      /\ run'[w].file = run[w].file
      /\ run'[w].batch = run[w].batch /\ run'[w].failed = run[w].failed
      /\ run'[w].insert = run[w].insert /\ run'[w].close = run[w].close
      /\ run'[w].stale = run[w].stale
  BY TypeParts, PcMoved DEF InsertSnapshots, PutSnapshots, Pcs
<1>2. Incoming(w)' = Incoming(w) /\ Batch(w)' = Batch(w)
  BY <1>1 DEF Incoming, Batch
<1>3. VersionGate(w)' /\ MetadataGate(w)' /\ PricesPut(w)'
  BY <1>1, <1>2 DEF Sound, VersionGate, MetadataGate, PricesPut, Knows, At,
     historyVars, priceVars, Renamed, Closable, CatalogDue, CatalogTold, PriceTold
<1>4. PriceGate(w)' /\ Observing(w)' /\ Closed(w)' /\ CatalogPassed(w)' /\ AllTold(w)'
  BY <1>1 DEF PriceGate, Knows, Observing, Closed, CatalogPassed, AllTold, At
<1>5. HistoryPassed(w)'
  BY <1>1, <1>2 DEF Sound, HistoryPassed, At, PriceTold, VersionTold, CatalogDue, CatalogTold,
     historyVars, priceVars
<1> QED
  BY <1>3, <1>4, <1>5 DEF Sound

(* Only versions that the file contradicts are closed.                      *)
LEMMA CloseSound ==
  ASSUME TypeOK, NEW w \in Writers, Sound(w), CloseVersions(w)
  PROVE  Sound(w)'
<1>1. /\ run[w].pc = "close" /\ run'[w].pc = "insert" /\ PutClosed(w) /\ Steady
      /\ run'[w].file = run[w].file
      /\ run'[w].batch = run[w].batch /\ run'[w].failed = run[w].failed
      /\ run'[w].insert = run[w].insert /\ run'[w].stale = run[w].stale
  BY TypeParts, PcMoved DEF CloseVersions, Pcs
<1>2. Incoming(w)' = Incoming(w) /\ Batch(w)' = Batch(w)
  BY <1>1 DEF Incoming, Batch, Steady
<1>3. run[w].insert = Renamed(w) /\ run[w].close = Closable(w)
  BY <1>1 DEF Sound, VersionGate, At
<1>4. \A id \in Ids : VersionTold(w, id) => VersionTold(w, id)'
  BY <1>1, <1>2, <1>3, TypeParts DEF VersionTold, PutClosed, TablesOK, Closable, Renamed
<1>5. Batch(w) \subseteq Ids /\ \A i \in 1..run[w].batch - 1 : SubBatches[i] \subseteq Ids
  BY <1>1, TypeParts, AtWork, SubBatchParts DEF Batch, Ready
<1>6. Closed(w)'
  BY <1>1, <1>2, <1>3, <1>4, <1>5 DEF Closed, At, Renamed, VersionTold
<1>7. MetadataGate(w)' /\ PricesPut(w)'
  BY <1>1, <1>2 DEF Sound, MetadataGate, PricesPut, Knows, At, PutClosed,
     priceVars, CatalogDue, CatalogTold, PriceTold
<1>8. PriceGate(w)' /\ VersionGate(w)' /\ Observing(w)' /\ CatalogPassed(w)' /\ AllTold(w)'
  BY <1>1 DEF PriceGate, VersionGate, Knows, Observing, CatalogPassed, AllTold, At
<1>9. HistoryPassed(w)'
  BY <1>1, <1>2, <1>4, <1>5 DEF Sound, HistoryPassed, At, PriceTold, CatalogDue, CatalogTold,
     PutClosed, priceVars
<1> QED
  BY <1>6, <1>7, <1>8, <1>9 DEF Sound

(* The step leaves a product as the history pass must leave it.             *)
LeavesDone(w, id) ==
  /\ price'[id] = Incoming(w)[id].price /\ priceKeys'[id] = KeyOf[Incoming(w)[id].meta]
  /\ current'[id] = Incoming(w)[id].meta
  /\ catalog'[id] = Incoming(w)[id].meta \/ id \in run[w].stale

LEMMA HistorySound ==
  ASSUME TypeOK, NEW w \in Writers, run[w].pc # "idle", NEW failed \in BOOLEAN,
         PastHistory(w, failed), content' = content,
         ~failed => \A i \in 1..run[w].batch : \A id \in SubBatches[i] : LeavesDone(w, id)
  PROVE  Sound(w)'
<1>1. CASE run'[w].pc = "idle"
  BY <1>1, IdleSound
<1>2. CASE Fresh(run'[w]) /\ run'[w].pc = "lookup" /\ run'[w].batch = 1
  BY <1>2, HeadSound
<1>3. ASSUME Fresh(run'[w]), run'[w].file = run[w].file, run'[w].pc = "lookup",
             run'[w].batch = run[w].batch + 1, run'[w].failed = failed,
             run'[w].stale = run[w].stale
      PROVE  Sound(w)'
  <2>1. run[w].batch \in Nat
    BY TypeParts, AtWork, SubBatchParts DEF Ready
  <2>2. 1..run'[w].batch - 1 = 1..run[w].batch
    BY <1>3, <2>1
  <2>3. Incoming(w)' = Incoming(w)
    BY <1>3 DEF Incoming
  <2>4. HistoryPassed(w)'
    BY <1>3, <2>2, <2>3
       DEF HistoryPassed, LeavesDone, PriceTold, VersionTold, CatalogDue, CatalogTold
  <2> QED
    BY <1>3, <2>4 DEF Sound, PriceGate, VersionGate, MetadataGate, PricesPut, Observing, Closed,
       CatalogPassed, AllTold, Knows, At, Fresh
<1>4. ASSUME Fresh(run'[w]), run'[w].file = run[w].file, run'[w].pc = "catalog",
             run'[w].batch = 1, ~failed, run'[w].stale = run[w].stale,
             run[w].batch = Len(SubBatches)
      PROVE  Sound(w)'
  <2>1. Incoming(w)' = Incoming(w)
    BY <1>4 DEF Incoming
  <2>2. \A id \in Ids : LeavesDone(w, id)
    BY <1>4, SubBatchParts
  <2>3. 1..run'[w].batch - 1 = {}
    BY <1>4
  <2>4. CatalogPassed(w)'
    BY <1>4, <2>1, <2>2, <2>3
       DEF CatalogPassed, LeavesDone, PriceTold, VersionTold, CatalogDue, CatalogTold
  <2> QED
    BY <1>4, <2>4 DEF Sound, PriceGate, VersionGate, MetadataGate, PricesPut, Observing, Closed,
       HistoryPassed, AllTold, Knows, At
<1> QED
  BY <1>1, <1>2, <1>3, <1>4 DEF PastHistory

(* The last request of a sub-batch completes it.                            *)
LEMMA InsertSound ==
  ASSUME TypeOK, NEW w \in Writers, Sound(w), InsertVersions(w)
  PROVE  Sound(w)'
<1>1. run[w].pc = "insert" /\ PutVersions(w) /\ content' = content
  BY DEF InsertVersions, Steady
<1>2. RunsOK /\ Good(run[w]) /\ Ready(run[w]) /\ run[w].failed \in BOOLEAN
  BY <1>1, TypeParts, AtWork DEF Typed
<1>3. PastHistory(w, run[w].failed)
  BY <1>1, <1>2, HistoryMoved DEF InsertVersions
<1>4. /\ \A id \in Batch(w) : PriceTold(w, id) /\ CatalogDue(w, id)
      /\ \A id \in Batch(w) \ run[w].insert : VersionTold(w, id)
      /\ run[w].insert \subseteq Batch(w)
  BY <1>1 DEF Sound, MetadataGate, PricesPut, Closed, At
<1>5. Batch(w) \subseteq Ids /\ \A i \in 1..run[w].batch - 1 : SubBatches[i] \subseteq Ids
  BY <1>2, SubBatchParts DEF Batch, Ready
<1>6. \A id \in Ids : /\ PriceTold(w, id) /\ CatalogDue(w, id)
                      /\ id \in run[w].insert \/ VersionTold(w, id)
                      => LeavesDone(w, id)
  BY <1>1, TypeParts DEF PriceTold, CatalogDue, CatalogTold, VersionTold, LeavesDone, PutVersions,
     priceVars, TablesOK
<1>7. \A id \in Batch(w) : LeavesDone(w, id)
  BY <1>4, <1>5, <1>6
<1>8. ASSUME ~run[w].failed, NEW i \in 1..run[w].batch, NEW id \in SubBatches[i]
      PROVE  LeavesDone(w, id)
  <2>1. CASE i = run[w].batch
    BY <1>7, <2>1, <1>8 DEF Batch
  <2>2. CASE i # run[w].batch
    <3>1. i \in 1..run[w].batch - 1
      BY <1>2, <1>8, <2>2, SubBatchParts DEF Ready
    <3>2. PriceTold(w, id) /\ VersionTold(w, id) /\ CatalogDue(w, id)
      BY <1>1, <1>8, <3>1 DEF Sound, HistoryPassed, At
    <3> QED
      BY <1>5, <1>6, <1>8, <3>1, <3>2
  <2> QED
    BY <2>1, <2>2
<1> QED
  BY <1>1, <1>2, <1>3, <1>8, HistorySound

(* A failed sub-batch is known to have failed, and the attempt with it.     *)
LEMMA FailedSound ==
  ASSUME TypeOK, NEW w \in Writers, run[w].pc # "idle", PastHistory(w, TRUE),
         content' = content
  PROVE  Sound(w)'
<1> DEFINE failed == TRUE
<1>1. failed \in BOOLEAN /\ PastHistory(w, failed)
      /\ (~failed => \A i \in 1..run[w].batch : \A id \in SubBatches[i] : LeavesDone(w, id))
  OBVIOUS
<1> HIDE DEF failed
<1> QED
  BY <1>1, HistorySound

(* What the step leaves in the catalog, in its pass.                        *)
LEMMA CatalogSound ==
  ASSUME TypeOK, NEW w \in Writers, run[w].pc # "idle", NEW failed \in BOOLEAN,
         PastCatalog(w, failed), content' = content,
         ~failed =>
           /\ \A id \in Ids : LeavesDone(w, id)
           /\ \A i \in 1..run[w].batch : \A id \in SubBatches[i] :
                catalog'[id] = Incoming(w)[id].meta
  PROVE  Sound(w)'
<1>1. CASE run'[w].pc = "idle"
  BY <1>1, IdleSound
<1>2. CASE Fresh(run'[w]) /\ run'[w].pc = "lookup" /\ run'[w].batch = 1
  BY <1>2, HeadSound
<1>3. ASSUME run'[w].file = run[w].file, run'[w].pc = "catalog",
             run'[w].batch = run[w].batch + 1, run'[w].failed = failed,
             run'[w].stale = run[w].stale
      PROVE  Sound(w)'
  <2>1. run[w].batch \in Nat
    BY TypeParts, AtWork, SubBatchParts DEF Ready
  <2>2. 1..run'[w].batch - 1 = 1..run[w].batch
    BY <1>3, <2>1
  <2>3. Incoming(w)' = Incoming(w)
    BY <1>3 DEF Incoming
  <2>4. CatalogPassed(w)'
    BY <1>3, <2>2, <2>3
       DEF CatalogPassed, LeavesDone, PriceTold, VersionTold, CatalogDue, CatalogTold
  <2> QED
    BY <1>3, <2>4 DEF Sound, PriceGate, VersionGate, MetadataGate, PricesPut, Observing, Closed,
       HistoryPassed, AllTold, Knows, At
<1>4. ASSUME run'[w].file = run[w].file, run'[w].pc = "landed", ~failed,
             run[w].batch = Len(SubBatches)
      PROVE  Sound(w)'
  <2>1. Incoming(w)' = Incoming(w)
    BY <1>4 DEF Incoming
  <2>2. \A id \in Ids : LeavesDone(w, id) /\ catalog'[id] = Incoming(w)[id].meta
    BY <1>4, SubBatchParts
  <2>3. AllTold(w)'
    BY <1>4, <2>1, <2>2 DEF AllTold, LeavesDone, PriceTold, VersionTold, CatalogTold
  <2> QED
    BY <1>4, <2>3 DEF Sound, PriceGate, VersionGate, MetadataGate, PricesPut, Observing, Closed,
       HistoryPassed, CatalogPassed, Knows, At
<1> QED
  BY <1>1, <1>2, <1>3, <1>4 DEF PastCatalog

(* The rows on the list are put, the others are there already.              *)
LEMMA UpsertCatalogSound ==
  ASSUME TypeOK, NEW w \in Writers, Sound(w), UpsertCatalog(w)
  PROVE  Sound(w)'
<1>1. run[w].pc = "catalog" /\ PutCatalog(w, ToUpsert(w)) /\ content' = content
  BY DEF UpsertCatalog, Steady
<1>2. RunsOK /\ Good(run[w]) /\ Ready(run[w]) /\ run[w].failed \in BOOLEAN
  BY <1>1, TypeParts, AtWork DEF Typed
<1>3. PastCatalog(w, run[w].failed)
  BY <1>1, <1>2, CatalogMoved DEF UpsertCatalog
<1>4. ASSUME ~run[w].failed
      PROVE  \A id \in Ids : PriceTold(w, id) /\ VersionTold(w, id) /\ CatalogDue(w, id)
  BY <1>1, <1>4 DEF Sound, CatalogPassed, At
<1>5. \A id \in Ids : id \in ToUpsert(w) \/ CatalogTold(w, id) =>
        catalog'[id] = Incoming(w)[id].meta
  BY <1>1 DEF PutCatalog, CatalogTold
<1>6. ASSUME ~run[w].failed, NEW id \in Ids PROVE LeavesDone(w, id)
  <2>1. PriceTold(w, id) /\ VersionTold(w, id) /\ CatalogDue(w, id)
    BY <1>4, <1>6
  <2> QED
    BY <1>1, <1>5, <2>1 DEF PriceTold, CatalogDue, VersionTold, LeavesDone, PutCatalog,
       priceVars, historyVars
<1>7. ASSUME ~run[w].failed, NEW i \in 1..run[w].batch, NEW id \in SubBatches[i]
      PROVE  catalog'[id] = Incoming(w)[id].meta
  <2>1. id \in Ids
    BY <1>2, <1>7, SubBatchParts DEF Ready
  <2>2. CASE i = run[w].batch
    BY <1>4, <1>5, <1>7, <2>1, <2>2 DEF Batch, ToUpsert, CatalogDue
  <2>3. CASE i # run[w].batch
    <3>1. i \in 1..run[w].batch - 1
      BY <1>2, <1>7, <2>3, SubBatchParts DEF Ready
    <3>2. CatalogTold(w, id)
      BY <1>1, <1>7, <3>1 DEF Sound, CatalogPassed, At
    <3> QED
      BY <1>5, <2>1, <3>2
  <2> QED
    BY <2>2, <2>3
<1> QED
  BY <1>1, <1>2, <1>3, <1>6, <1>7, CatalogSound

LEMMA FailedCatalogSound ==
  ASSUME TypeOK, NEW w \in Writers, CatalogRequestFails(w)
  PROVE  Sound(w)'
<1> DEFINE failed == TRUE
<1>1. failed \in BOOLEAN /\ PastCatalog(w, failed) /\ run[w].pc = "catalog" /\ content' = content
      /\ (~failed =>
           /\ \A id \in Ids : LeavesDone(w, id)
           /\ \A i \in 1..run[w].batch : \A id \in SubBatches[i] :
                catalog'[id] = Incoming(w)[id].meta)
  BY CatalogFails DEF CatalogRequestFails
<1> HIDE DEF failed
<1> QED
  BY <1>1, CatalogSound

-----------------------------------------------------------------------------
(* Runs that do not overlap.                                                *)

RunsSound == \A w \in Writers : Sound(w)

LEMMA WorksAlone ==
  ASSUME TypeOK, OneAtATime, NEW w \in Writers,
         Works(w) \/ HistoryRequestFails(w) \/ CatalogRequestFails(w) \/ Crash(w)
  PROVE  /\ run[w].pc # "idle"
         /\ \A v \in Writers : v # w => run[v].pc = "idle" /\ run'[v] = run[v]
<1>1. RunsOK
  BY TypeParts
<1>2. run[w].pc # "idle"
  BY DEF Works, LookupVersions, LookupPrices, LookupMetadata, Asks, UpsertPrices,
     InsertSnapshots, CloseVersions, InsertVersions, Rejected, UpsertCatalog, Land,
     HistoryRequestFails, CatalogRequestFails, Crash
<1>3. \A v \in Writers : v # w => run'[v] = run[v]
  BY <1>1 DEF Works, LookupVersions, LookupPrices, LookupMetadata, UpsertPrices,
     InsertSnapshots, CloseVersions, InsertVersions, Rejected, UpsertCatalog, Land,
     HistoryRequestFails, CatalogRequestFails, Crash, Move, MoveTo, RunsOK
<1> QED
  BY <1>2, <1>3 DEF OneAtATime

LEMMA StartsAlone ==
  ASSUME TypeOK, OneAtATime', NEW w \in Writers, NEW f \in Files, Start(w, f)
  PROVE  \A v \in Writers : v # w => run[v].pc = "idle" /\ run'[v] = run[v]
BY Started DEF OneAtATime

LEMMA SoundStep ==
  ASSUME TypeOK, OneAtATime, OneAtATime', RunsSound, [Next]_vars
  PROVE  RunsSound'
<1>1. ASSUME NEW w \in Writers,
             Works(w) \/ HistoryRequestFails(w) \/ CatalogRequestFails(w) \/ Crash(w)
      PROVE  RunsSound'
  <2>1. run[w].pc # "idle" /\ \A v \in Writers : v # w => run'[v].pc = "idle"
    BY <1>1, WorksAlone
  <2>2. Sound(w)
    BY DEF RunsSound
  <2>3. ASSUME Rejected(w) PROVE Sound(w)'
    BY <2>1, <2>3, TypeParts, FailedMoved, FailedSound DEF Rejected, Steady
  <2>4. ASSUME HistoryRequestFails(w) PROVE Sound(w)'
    BY <2>1, <2>4, HistoryFails, FailedSound
  <2>5. ASSUME Land(w) \/ Crash(w) PROVE Sound(w)'
    BY <2>5, TypeParts, IdleMoved, IdleSound DEF Land, Crash
  <2>6. Sound(w)'
    BY <1>1, <2>2, <2>3, <2>4, <2>5, VersionsSound, PricesSound, MetadataSound, UpsertSound,
       SnapshotsSound, CloseSound, InsertSound, UpsertCatalogSound, FailedCatalogSound DEF Works
  <2> QED
    BY <2>1, <2>6, IdleSound DEF RunsSound
<1>2. ASSUME NEW w \in Writers, NEW f \in Files, Start(w, f) PROVE RunsSound'
  <2>1. Sound(w)'
    BY <1>2, Started, HeadSound
  <2> QED
    BY <1>2, <2>1, StartsAlone, IdleSound DEF RunsSound
<1>3. CASE UNCHANGED vars
  BY <1>3 DEF vars, tables, historyVars, priceVars, RunsSound, Sound, PriceGate, VersionGate,
     MetadataGate, PricesPut, Observing, Closed, HistoryPassed, CatalogPassed, AllTold, Knows, At,
     PriceTold, VersionTold, CatalogDue, CatalogTold, Moved, Rekeyed, Renamed, Closable,
     Incoming, Batch
<1> QED
  BY <1>1, <1>2, <1>3 DEF Next

(* The snapshots of a run carry its stamp and the prices of its file, and   *)
(* no snapshot is younger.                                                  *)
Dated(w) ==
  run[w].pc # "idle" =>
    /\ run[w].stamp = clock
    /\ \A s \in snapshots : s.at = clock => s.price = Incoming(w)[s.id].price
SnapshotsDated ==
  /\ \A s \in snapshots : s.at <= clock
  /\ \A w \in Writers : Dated(w)
SnapshotInv == SnapshotsDated /\ AgreesUnlessTorn

(* A step that writes neither prices nor snapshots.                         *)
LEMMA SnapshotsKept ==
  ASSUME SnapshotInv, NEW w \in Writers,
         UNCHANGED <<snapshots, price, clock, content>>,
         \A v \in Writers : v # w => run[v].pc = "idle" /\ run'[v] = run[v],
         run'[w].pc = "idle" \/ (run'[w].file = run[w].file /\ run'[w].stamp = run[w].stamp),
         run[w].pc # "idle",
         torn \cup Unsettled(w) \subseteq torn' \cup Unsettled(w)'
  PROVE  SnapshotInv'
<1>1. SnapshotsDated'
  BY DEF SnapshotInv, SnapshotsDated, Dated, Incoming
<1>2. ASSUME NEW id \in Ids \ torn', \A v \in Writers : id \notin Unsettled(v)'
      PROVE  Agrees(id)'
  <2>1. id \notin torn /\ id \notin Unsettled(w)
    BY <1>2
  <2>2. \A v \in Writers : id \notin Unsettled(v)
    BY <2>1 DEF Unsettled
  <2>3. Agrees(id)
    BY <2>1, <2>2 DEF SnapshotInv, AgreesUnlessTorn
  <2> QED
    BY <2>3 DEF Agrees, Newest
<1> QED
  BY <1>1, <1>2 DEF SnapshotInv, AgreesUnlessTorn

(* Prices put: the ones that moved are not settled, the others are the      *)
(* same.                                                                    *)
LEMMA PricesPutDated ==
  ASSUME TypeOK, SnapshotInv, NEW w \in Writers, Sound(w), run[w].pc = "price",
         PutPrices(w), UNCHANGED <<clock, content>>,
         \A v \in Writers : v # w => run[v].pc = "idle" /\ run'[v] = run[v],
         run'[w].pc = "idle" \/ (run'[w].file = run[w].file /\ run'[w].stamp = run[w].stamp),
         torn \subseteq torn', run[w].observe \subseteq torn' \cup Unsettled(w)'
  PROVE  SnapshotInv'
<1>1. SnapshotsDated'
  BY DEF SnapshotInv, SnapshotsDated, Dated, Incoming, PutPrices
<1>2. ASSUME NEW id \in Ids \ torn', \A v \in Writers : id \notin Unsettled(v)'
      PROVE  Agrees(id)'
  <2>1. id \notin torn /\ id \notin run[w].observe
    BY <1>2
  <2>2. \A v \in Writers : id \notin Unsettled(v)
    BY DEF Unsettled
  <2>3. Agrees(id)
    BY <2>1, <2>2 DEF SnapshotInv, AgreesUnlessTorn
  <2>4. run[w].observe = Moved(w) /\ run[w].upsert = Moved(w) \cup Rekeyed(w)
    BY DEF Sound, PriceGate, At
  <2>5. id \in run[w].upsert => Incoming(w)[id].price = price[id]
    BY <2>1, <2>4 DEF Moved, Rekeyed
  <2>6. price'[id] = price[id]
    BY <2>5 DEF PutPrices
  <2> QED
    BY <2>3, <2>6 DEF Agrees, Newest, PutPrices
<1> QED
  BY <1>1, <1>2 DEF SnapshotInv, AgreesUnlessTorn

(* Snapshots put: the price of each is now its newest snapshot, whether     *)
(* this request recorded it or an earlier attempt of the run did.           *)
LEMMA SnapshotsPutDated ==
  ASSUME TypeOK, SnapshotInv, NEW w \in Writers, Sound(w), run[w].pc = "snapshot",
         PutSnapshots(w), UNCHANGED <<clock, content>>, torn' = torn \ run[w].observe,
         \A v \in Writers : v # w => run[v].pc = "idle" /\ run'[v] = run[v],
         run'[w].pc = "idle" \/ (run'[w].file = run[w].file /\ run'[w].stamp = run[w].stamp)
  PROVE  SnapshotInv'
<1>1. run[w].stamp = clock /\ price' = price /\ clock \in Nat
      /\ \A s \in snapshots : s.at \in Nat
  BY TypeParts, CatalogWriterAssumption
     DEF SnapshotInv, SnapshotsDated, Dated, PutSnapshots, priceVars, CountsOK, TablesOK, CatalogWriterAssumption
<1>2. \A s \in snapshots' \ snapshots :
        s.at = clock /\ s.id \in run[w].observe /\ s.price = Incoming(w)[s.id].price
  BY <1>1 DEF PutSnapshots
<1>3. snapshots \subseteq snapshots'
  BY DEF PutSnapshots
<1>4. SnapshotsDated'
  <2>1. \A s \in snapshots' : s.at <= clock'
    BY <1>1, <1>2 DEF SnapshotInv, SnapshotsDated
  <2>2. \A s \in snapshots' : s.at = clock => s.price = Incoming(w)[s.id].price
    BY <1>2 DEF SnapshotInv, SnapshotsDated, Dated
  <2>3. Dated(w)'
    BY <1>1, <2>2 DEF Dated, Incoming
  <2>4. \A v \in Writers : v # w => Dated(v)'
    BY DEF Dated
  <2> QED
    BY <2>1, <2>3, <2>4 DEF SnapshotsDated
<1>5. ASSUME NEW id \in Ids \ torn', id \in run[w].observe PROVE Agrees(id)'
  <2>1. price[id] = Incoming(w)[id].price
    BY <1>5 DEF Sound, Observing, PricesPut, PriceTold, At
  <2>2. \E s \in snapshots' : s.id = id /\ s.at = clock /\ s.price = price[id]
    <3>1. CASE Observed(id, run[w].stamp)
      BY <1>1, <1>3, <2>1, <3>1 DEF Observed, SnapshotInv, SnapshotsDated, Dated
    <3>2. CASE ~Observed(id, run[w].stamp)
      <4> DEFINE s == [id |-> id, at |-> run[w].stamp, price |-> Incoming(w)[id].price]
      <4>1. s \in snapshots'
        BY <1>5, <3>2 DEF PutSnapshots
      <4> QED
        BY <1>1, <2>1, <4>1
    <3> QED
      BY <3>1, <3>2
  <2>3. \A t \in snapshots' : t.at <= clock
    BY <1>4 DEF SnapshotsDated
  <2> QED
    BY <1>1, <2>2, <2>3 DEF Agrees, Newest
<1>6. ASSUME NEW id \in Ids \ torn', id \notin run[w].observe PROVE Agrees(id)'
  <2>1. id \notin torn
    BY <1>6
  <2>2. \A v \in Writers : id \notin Unsettled(v)
    BY <1>6 DEF Unsettled
  <2>3. Agrees(id)
    BY <2>1, <2>2 DEF SnapshotInv, AgreesUnlessTorn
  <2> QED
    BY <1>1, <1>2, <1>3, <1>6, <2>3 DEF Agrees, Newest
<1> QED
  BY <1>4, <1>5, <1>6 DEF SnapshotInv, AgreesUnlessTorn

(* A run that goes on does so with its file and its stamp.                  *)
LEMMA StampKept ==
  ASSUME NEW w \in Writers, \E failed \in BOOLEAN : PastHistory(w, failed) \/ PastCatalog(w, failed)
  PROVE  /\ run'[w].pc = "idle" \/ (run'[w].file = run[w].file /\ run'[w].stamp = run[w].stamp)
         /\ run'[w].pc # "snapshot"
<1> PICK failed \in BOOLEAN : PastHistory(w, failed) \/ PastCatalog(w, failed)
  OBVIOUS
<1> QED
  BY DEF PastHistory, PastCatalog

(* A failed request of the history pass: what is cut off is torn.           *)
LEMMA FailsDated ==
  ASSUME TypeOK, OneAtATime, RunsSound, SnapshotInv, NEW w \in Writers, HistoryRequestFails(w)
  PROVE  SnapshotInv'
<1>1. /\ run[w].pc # "idle"
      /\ \A v \in Writers : v # w => run[v].pc = "idle" /\ run'[v] = run[v]
  BY WorksAlone
<1>2. PastHistory(w, TRUE) /\ UNCHANGED <<content, landed, clock, crashes>>
  BY HistoryFails
<1>3. /\ run'[w].pc = "idle" \/ (run'[w].file = run[w].file /\ run'[w].stamp = run[w].stamp)
      /\ Unsettled(w)' = {}
  BY <1>2, StampKept DEF Unsettled
<1>4. CASE run[w].pc = "price" /\ PutPrices(w) /\ torn' = torn \cup run[w].observe
  BY <1>1, <1>2, <1>3, <1>4, PricesPutDated DEF RunsSound
<1>5. CASE run[w].pc = "snapshot" /\ PutSnapshots(w) /\ torn' = torn \ run[w].observe
  BY <1>1, <1>2, <1>3, <1>5, SnapshotsPutDated DEF RunsSound
<1>6. CASE /\ UNCHANGED <<snapshots, price>>
           /\ torn \cup Unsettled(w) \subseteq torn'
  BY <1>1, <1>2, <1>3, <1>6, SnapshotsKept
<1> QED
  BY <1>4, <1>5, <1>6 DEF HistoryRequestFails, Unsettled, tables, historyVars, priceVars,
     PutClosed, PutVersions

LEMMA SnapshotStep ==
  ASSUME TypeOK, OneAtATime, OneAtATime', RunsSound, SnapshotInv, [Next]_vars
  PROVE  SnapshotInv'
<1>1. ASSUME NEW w \in Writers,
             Works(w) \/ HistoryRequestFails(w) \/ CatalogRequestFails(w) \/ Crash(w)
      PROVE  SnapshotInv'
  <2>1. /\ run[w].pc # "idle" /\ RunsOK /\ Sound(w)
        /\ \A v \in Writers : v # w => run[v].pc = "idle" /\ run'[v] = run[v]
    BY <1>1, WorksAlone, TypeParts DEF RunsSound
  <2>2. CASE LookupVersions(w) \/ LookupPrices(w) \/ LookupMetadata(w)
    <3>1. /\ UNCHANGED <<snapshots, price, clock, content, torn>> /\ run[w].pc = "lookup"
          /\ run'[w].file = run[w].file /\ run'[w].stamp = run[w].stamp
      BY <2>2, VersionsLooked, PricesLooked, MetadataLooked DEF tables, priceVars, Steady
    <3>2. Unsettled(w) = {}
      BY <3>1 DEF Unsettled
    <3> QED
      BY <2>1, <3>1, <3>2, SnapshotsKept
  <2>3. CASE UpsertPrices(w)
    <3>1. /\ run[w].pc = "price" /\ run'[w].pc = "snapshot" /\ run'[w].observe = run[w].observe
          /\ run'[w].file = run[w].file /\ run'[w].stamp = run[w].stamp
          /\ PutPrices(w) /\ Steady
      BY <2>1, <2>3, PcMoved DEF UpsertPrices, Pcs
    <3>2. Unsettled(w)' = run[w].observe
      BY <3>1 DEF Unsettled
    <3> QED
      BY <2>1, <3>1, <3>2, PricesPutDated DEF Steady
  <2>4. CASE InsertSnapshots(w)
    <3>1. /\ run[w].pc = "snapshot" /\ PutSnapshots(w) /\ UNCHANGED <<clock, content>>
          /\ torn' = torn \ run[w].observe
          /\ run'[w].file = run[w].file /\ run'[w].stamp = run[w].stamp
      BY <2>1, <2>4, PcMoved DEF InsertSnapshots, Pcs
    <3> QED
      BY <2>1, <3>1, SnapshotsPutDated
  <2>5. CASE CloseVersions(w)
    <3>1. /\ run[w].pc = "close" /\ UNCHANGED <<snapshots, price, clock, content, torn>>
          /\ run'[w].file = run[w].file /\ run'[w].stamp = run[w].stamp
      BY <2>1, <2>5, PcMoved DEF CloseVersions, Pcs, PutClosed, Steady, priceVars
    <3>2. Unsettled(w) = {}
      BY <3>1 DEF Unsettled
    <3> QED
      BY <2>1, <3>1, <3>2, SnapshotsKept
  <2>6. CASE InsertVersions(w) \/ Rejected(w)
    <3>1. /\ run[w].pc \in {"close", "insert"}
          /\ UNCHANGED <<snapshots, price, clock, content, torn>>
      BY <2>6 DEF InsertVersions, Rejected, PutVersions, Steady, tables, priceVars
    <3>2. run'[w].pc = "idle" \/ (run'[w].file = run[w].file /\ run'[w].stamp = run[w].stamp)
      <4>1. run[w].failed \in BOOLEAN
        BY <2>1, AtWork DEF Typed
      <4>2. CASE InsertVersions(w)
        <5>1. PastHistory(w, run[w].failed)
          BY <2>1, <4>1, <4>2, HistoryMoved DEF InsertVersions
        <5> QED
          BY <4>1, <5>1, StampKept
      <4>3. CASE Rejected(w)
        <5>1. PastHistory(w, TRUE)
          BY <2>1, <4>3, FailedMoved DEF Rejected
        <5> QED
          BY <5>1, StampKept
      <4> QED
        BY <2>6, <4>2, <4>3
    <3>3. Unsettled(w) = {}
      BY <3>1 DEF Unsettled
    <3> QED
      BY <2>1, <3>1, <3>2, <3>3, SnapshotsKept
  <2>7. CASE UpsertCatalog(w) \/ CatalogRequestFails(w)
    <3>1. /\ run[w].pc = "catalog" /\ UNCHANGED <<snapshots, price, clock, content, torn>>
      BY <2>7 DEF UpsertCatalog, CatalogRequestFails, PutCatalog, Steady, priceVars
    <3>2. run'[w].pc = "idle" \/ (run'[w].file = run[w].file /\ run'[w].stamp = run[w].stamp)
      <4>1. run[w].failed \in BOOLEAN
        BY <2>1, AtWork DEF Typed
      <4>2. CASE UpsertCatalog(w)
        <5>1. PastCatalog(w, run[w].failed)
          BY <2>1, <4>1, <4>2, CatalogMoved DEF UpsertCatalog
        <5> QED
          BY <4>1, <5>1, StampKept
      <4>3. CASE CatalogRequestFails(w)
        <5>1. PastCatalog(w, TRUE)
          BY <4>3, CatalogFails
        <5> QED
          BY <5>1, StampKept
      <4> QED
        BY <2>7, <4>2, <4>3
    <3>3. Unsettled(w) = {}
      BY <3>1 DEF Unsettled
    <3> QED
      BY <2>1, <3>1, <3>2, <3>3, SnapshotsKept
  <2>8. CASE Land(w) \/ Crash(w)
    <3>1. /\ UNCHANGED <<snapshots, price, clock, content>> /\ run'[w].pc = "idle"
          /\ torn \cup Unsettled(w) \subseteq torn'
      BY <2>1, <2>8, IdleMoved DEF Land, Crash, tables, priceVars, Unsettled
    <3>2. torn \cup Unsettled(w) \subseteq torn' \cup Unsettled(w)'
      BY <3>1
    <3> QED
      BY <2>1, <3>1, <3>2, SnapshotsKept
  <2>9. CASE HistoryRequestFails(w)
    BY <2>9, FailsDated
  <2> QED
    BY <1>1, <2>2, <2>3, <2>4, <2>5, <2>6, <2>7, <2>8, <2>9 DEF Works
<1>2. ASSUME NEW w \in Writers, NEW f \in Files, Start(w, f) PROVE SnapshotInv'
  <2>1. /\ UNCHANGED <<snapshots, price, content, torn>> /\ clock' = clock + 1
        /\ run[w].pc = "idle" /\ run'[w].pc = "lookup" /\ run'[w].stamp = clock + 1
    BY <1>2, Started DEF tables, priceVars
  <2>2. \A v \in Writers : v # w => run[v].pc = "idle" /\ run'[v] = run[v]
    BY <1>2, StartsAlone
  <2>3. clock \in Nat /\ \A s \in snapshots : s.at \in Nat /\ s.at <= clock
    BY TypeParts, CatalogWriterAssumption
       DEF SnapshotInv, SnapshotsDated, CountsOK, TablesOK, CatalogWriterAssumption
  <2>4. SnapshotsDated'
    <3>1. \A s \in snapshots' : s.at <= clock' /\ s.at # clock'
      BY <2>1, <2>3
    <3> QED
      BY <2>1, <2>2, <3>1 DEF SnapshotsDated, Dated
  <2>5. ASSUME NEW id \in Ids \ torn' PROVE Agrees(id)'
    <3>1. \A v \in Writers : id \notin Unsettled(v)
      BY <2>1, <2>2 DEF Unsettled
    <3>2. Agrees(id)
      BY <2>1, <2>5, <3>1 DEF SnapshotInv, AgreesUnlessTorn
    <3> QED
      BY <2>1, <3>2 DEF Agrees, Newest
  <2> QED
    BY <2>4, <2>5 DEF SnapshotInv, AgreesUnlessTorn
<1>3. CASE UNCHANGED vars
  BY <1>3 DEF vars, tables, historyVars, priceVars, SnapshotInv, SnapshotsDated, Dated, Incoming,
     AgreesUnlessTorn, Agrees, Newest, Unsettled
<1> QED
  BY <1>1, <1>2, <1>3 DEF Next

AloneInv == TypeOK /\ RunsSound /\ SnapshotInv

LEMMA AloneInit == Init => AloneInv
<1> SUFFICES ASSUME Init PROVE RunsSound /\ SnapshotInv
  BY InitTyped DEF AloneInv
<1>1. \A w \in Writers : run[w].pc = "idle"
  BY DEF Init, Idle
<1>2. RunsSound
  BY <1>1 DEF RunsSound, Sound, PriceGate, VersionGate, MetadataGate, PricesPut, Observing,
     Closed, HistoryPassed, CatalogPassed, AllTold, Knows, At
<1>3. SnapshotInv
  BY <1>1 DEF Init, SnapshotInv, SnapshotsDated, Dated, AgreesUnlessTorn, Agrees
<1> QED
  BY <1>2, <1>3

LEMMA AloneStep == AloneInv /\ OneAtATime /\ OneAtATime' /\ [Next]_vars => AloneInv'
BY TypeStep, SoundStep, SnapshotStep DEF AloneInv

(* Runs that do not overlap lose no price from the history, however their   *)
(* requests fail, unless they are cut off between price and snapshot.       *)
THEOREM PricesRecorded == Spec /\ []OneAtATime => []AgreesUnlessTorn
<1>1. AloneInv => AgreesUnlessTorn
  BY DEF AloneInv, SnapshotInv
<1> QED
  BY AloneInit, AloneStep, <1>1, PTL DEF Spec

LEMMA LandingStep ==
  ASSUME TypeOK, RunsSound, [Next]_vars
  PROVE  LandsUpToDate
<1>1. ASSUME NEW w \in Writers, Land(w) PROVE LandsUpToDate
  <2>1. landed' = landed \cup {run[w].file}
        /\ \A id \in Ids : PriceTold(w, id) /\ VersionTold(w, id) /\ CatalogTold(w, id)
    BY <1>1 DEF Land, RunsSound, Sound, AllTold, At
  <2>2. \A id \in Ids : Holds(run[w].file, id)
    BY <2>1 DEF Holds, PriceTold, VersionTold, CatalogTold, Incoming
  <2> QED
    BY <2>1, <2>2 DEF LandsUpToDate
<1>2. CASE landed' = landed
  BY <1>2 DEF LandsUpToDate
<1>3. landed' = landed \/ \E w \in Writers : Land(w)
  BY DEF Next, Works, vars, LookupVersions, LookupPrices, LookupMetadata, Asks, UpsertPrices,
     InsertSnapshots, CloseVersions, InsertVersions, Rejected, UpsertCatalog, Steady,
     HistoryRequestFails, CatalogRequestFails, Crash, Start
<1> QED
  BY <1>1, <1>2, <1>3

(* Among runs that do not overlap, one that reports success has brought     *)
(* every table up to date with its file.                                    *)
THEOREM FilesLandInFull == Spec /\ []OneAtATime => LandsInFull
<1>1. AloneInv /\ [Next]_vars => LandsUpToDate
  BY LandingStep DEF AloneInv
<1> QED
  BY AloneInit, AloneStep, <1>1, PTL DEF Spec, LandsInFull
=============================================================================
