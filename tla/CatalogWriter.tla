-------------------------- MODULE CatalogWriter --------------------------
(***************************************************************************)
(* SupabaseCatalogClient: how the rows of one vendor file reach the price, *)
(* history and catalog tables. PostgREST offers no transaction over        *)
(* several requests, so a file is cut into sub-batches and each is written *)
(* by a series of requests, any of which may fail or lose its answer.      *)
(* Three gates, each asking the table it guards, decide which requests a   *)
(* sub-batch needs; a failed sub-batch does not stop the next one, but the *)
(* attempt fails, and is repeated by the same run or by a later one.       *)
(*                                                                         *)
(* A price stands for the six price columns and the currency, a metadata   *)
(* value for the columns of CATALOG_METADATA_SIGNATURE_COLUMNS, from which *)
(* the two browse keys of a row derive.                                    *)
(***************************************************************************)
EXTENDS Naturals, Sequences, FiniteSets

CONSTANTS
  Writers,      \* runs that write the same products
  Ids,          \* products (pricecharting_id)
  Prices,
  Metas,
  None,         \* no row
  KeyOf,        \* the browse keys of a row with that metadata
  SubBatches,   \* how batch_size cuts a file: a sequence of sets of products
  Files,        \* vendor files
  Contents,     \* what the files may say of the products
  Attempts,     \* write_attempts
  MaxStarts,    \* bound: runs started on a file
  MaxFaults,    \* bound: requests that fail or lose their answer
  MaxCrashes    \* bound: runs that die

Row == [price : Prices, meta : Metas]

ASSUME CatalogWriterAssumption ==
  /\ Contents \subseteq [Files -> [Ids -> Row]]
  /\ None \notin Prices \cup Metas
  /\ DOMAIN KeyOf = Metas
  /\ None \notin {KeyOf[m] : m \in Metas}
  /\ SubBatches \in Seq(SUBSET Ids) /\ SubBatches # <<>>
  /\ \A id \in Ids : \E i \in DOMAIN SubBatches :
       id \in SubBatches[i] /\ \A j \in DOMAIN SubBatches \ {i} : id \notin SubBatches[j]
  /\ Attempts \in Nat \ {0}
  /\ {MaxStarts, MaxFaults, MaxCrashes} \subseteq Nat

VARIABLES
  content,     \* what each file says of each product
  current,     \* pricecharting_catalog_history: metadata of the is_current row
  validFrom,   \* and its valid_from
  catalog,     \* pricecharting_catalog
  price,       \* pricecharting_current_price: the price
  priceKeys,   \* and the browse keys
  snapshots,   \* pricecharting_price_history
  landed,      \* files whose run reported success
  clock,       \* runs started; the stamp of a run is the time it started
  run,         \* the runs
  torn,        \* products whose snapshot was cut off from its price (history)
  faults,
  crashes

historyVars == <<current, validFrom>>
priceVars == <<price, priceKeys>>
tables == <<historyVars, catalog, priceVars, snapshots>>
vars == <<content, tables, landed, clock, run, torn, faults, crashes>>

Keys == {KeyOf[m] : m \in Metas}
Gates == {"versions", "prices", "metadata"}
NoFile == 0

Idle == [pc |-> "idle", file |-> NoFile, stamp |-> 0, attempt |-> 0, batch |-> 0,
         failed |-> FALSE, asked |-> {}, close |-> {}, insert |-> {}, upsert |-> {},
         observe |-> {}, stale |-> {}]

Init ==
  /\ content \in Contents
  /\ current = [id \in Ids |-> None]
  /\ validFrom = [id \in Ids |-> 0]
  /\ catalog = [id \in Ids |-> None]
  /\ price = [id \in Ids |-> None]
  /\ priceKeys = [id \in Ids |-> None]
  /\ snapshots = {}
  /\ landed = {}
  /\ clock = 0
  /\ run = [w \in Writers |-> Idle]
  /\ torn = {}
  /\ faults = 0
  /\ crashes = 0

Batch(w) == SubBatches[run[w].batch]
Incoming(w) == content[run[w].file]

-----------------------------------------------------------------------------
(* Where a run goes next.                                                   *)

(* The head of the sub-batch loop, nothing asked or decided yet.            *)
AtBatch(r, pc, batch, failed) ==
  [r EXCEPT !.pc = pc, !.batch = batch, !.failed = failed, !.asked = {},
            !.close = {}, !.insert = {}, !.upsert = {}, !.observe = {}]

(* write_catalog_rows_with_retry: the attempt failed.                       *)
NextAttempt(r) ==
  IF r.attempt < Attempts
  THEN [AtBatch(r, "lookup", 1, FALSE) EXCEPT !.attempt = @ + 1, !.stale = {}]
  ELSE Idle

\* Mutant: the loop runs one sub-batch too far.
MoreOffByOne(r) == r.batch <= Len(SubBatches)

More(r) == r.batch < Len(SubBatches)

(* The history pass goes through every sub-batch, failed ones or not; the   *)
(* catalog pass starts only if none failed.                                 *)
AfterHistory(r, failed) ==
  IF More(r) THEN AtBatch(r, "lookup", r.batch + 1, failed)
  ELSE IF failed THEN NextAttempt(r)
  ELSE AtBatch(r, "catalog", 1, FALSE)

AfterCatalog(r, failed) ==
  IF More(r) THEN AtBatch(r, "catalog", r.batch + 1, failed)
  ELSE IF failed THEN NextAttempt(r)
  ELSE [r EXCEPT !.pc = "landed"]

Move(w, r) == run' = [run EXCEPT ![w] = r]
MoveTo(w, pc) == Move(w, [run[w] EXCEPT !.pc = pc])

\* Mutant: the stamp is the time the file was downloaded.
StartDownloadStamp(w, f) ==
  /\ run[w].pc = "idle" /\ clock < MaxStarts
  /\ f \notin landed /\ \A v \in Writers : run[v].file # f
  /\ clock' = clock + 1
  /\ Move(w, [AtBatch(Idle, "lookup", 1, FALSE)
                EXCEPT !.file = f, !.stamp = f, !.attempt = 1])
  /\ UNCHANGED <<content, tables, landed, torn, faults, crashes>>

(* A run takes a file that has not landed and that no other run has, and    *)
(* stamps its rows with the time it does so.                                *)
Start(w, f) ==
  /\ run[w].pc = "idle" /\ clock < MaxStarts
  /\ f \notin landed /\ \A v \in Writers : run[v].file # f
  /\ clock' = clock + 1
  /\ Move(w, [AtBatch(Idle, "lookup", 1, FALSE)
                EXCEPT !.file = f, !.stamp = clock + 1, !.attempt = 1])
  /\ UNCHANGED <<content, tables, landed, torn, faults, crashes>>

-----------------------------------------------------------------------------
(* The three lookups of a sub-batch, in flight together, and what the run   *)
(* decides from each.                                                       *)

Answered(r, gate) ==
  [r EXCEPT !.asked = @ \cup {gate},
            !.pc = IF r.asked \cup {gate} = Gates THEN "price" ELSE "lookup"]

Asks(w, gate) ==
  /\ run[w].pc = "lookup" /\ gate \notin run[w].asked
  /\ UNCHANGED <<content, tables, landed, clock, torn, faults, crashes>>

(* metadata_differs: a version is written for a new or renamed product.     *)
Renamed(w) == {id \in Batch(w) : Incoming(w)[id].meta # current[id]}

(* Only a product that has a current version has one to close.              *)
Closable(w) == {id \in Renamed(w) : current[id] # None}

LookupVersions(w) ==
  /\ Asks(w, "versions")
  /\ Move(w, [Answered(run[w], "versions") EXCEPT !.insert = Renamed(w), !.close = Closable(w)])

\* Mutant: a product's first price is not a move.
MovedKnown(w) == {id \in Batch(w) : price[id] \notin {None, Incoming(w)[id].price}}

(* prices_differ.                                                           *)
Moved(w) == {id \in Batch(w) : Incoming(w)[id].price # price[id]}

(* browse_keys_differ.                                                      *)
Rekeyed(w) == {id \in Batch(w) : KeyOf[Incoming(w)[id].meta] # priceKeys[id]}

LookupPrices(w) ==
  /\ Asks(w, "prices")
  /\ Move(w, [Answered(run[w], "prices") EXCEPT !.observe = Moved(w),
                                                !.upsert = Moved(w) \cup Rekeyed(w)])

\* Mutant: the gate of the catalog reads the history row.
OutdatedByVersion(w) == Renamed(w)

(* catalog_metadata_hash, remembered for the catalog pass.                  *)
Outdated(w) == {id \in Batch(w) : Incoming(w)[id].meta # catalog[id]}

LookupMetadata(w) ==
  /\ Asks(w, "metadata")
  /\ Move(w, [Answered(run[w], "metadata")
                EXCEPT !.stale = (@ \ Batch(w)) \cup Outdated(w)])

-----------------------------------------------------------------------------
(* The requests of a sub-batch, each one statement. A list that is empty    *)
(* sends no request.                                                        *)

(* _upsert_current_price_rows.                                              *)
PutPrices(w) ==
  /\ price' = [id \in Ids |-> IF id \in run[w].upsert THEN Incoming(w)[id].price ELSE price[id]]
  /\ priceKeys' = [id \in Ids |-> IF id \in run[w].upsert
                                  THEN KeyOf[Incoming(w)[id].meta] ELSE priceKeys[id]]
  /\ UNCHANGED <<historyVars, catalog, snapshots>>

(* _insert_price_observation_rows: an observation of that product at that   *)
(* time is ignored if there is one.                                         *)
Observed(id, at) == \E s \in snapshots : s.id = id /\ s.at = at

PutSnapshots(w) ==
  /\ snapshots' = snapshots \cup
       {[id |-> id, at |-> run[w].stamp, price |-> Incoming(w)[id].price] :
          id \in {i \in run[w].observe : ~Observed(i, run[w].stamp)}}
  /\ UNCHANGED <<historyVars, catalog, priceVars>>

(* _close_current_history_rows, of whatever rows are current by now.        *)
PutClosed(w) ==
  /\ current' = [id \in Ids |-> IF id \in run[w].close THEN None ELSE current[id]]
  /\ UNCHANGED <<validFrom, catalog, priceVars, snapshots>>

(* valid_window_check: a row cannot end before it began.                    *)
EndsBeforeItBegan(w) ==
  \E id \in run[w].close : current[id] # None /\ run[w].stamp < validFrom[id]

(* _insert_history_rows.                                                    *)
PutVersions(w) ==
  /\ current' = [id \in Ids |-> IF id \in run[w].insert THEN Incoming(w)[id].meta ELSE current[id]]
  /\ validFrom' = [id \in Ids |-> IF id \in run[w].insert THEN run[w].stamp ELSE validFrom[id]]
  /\ UNCHANGED <<catalog, priceVars, snapshots>>

(* current_unique_idx: a product has one current row.                       *)
HasCurrent(w) == \E id \in run[w].insert : current[id] # None

(* _upsert of the catalog, statement by statement: after timeouts the rows  *)
(* are halved and repeated, so that only some of them may be in.            *)
ToUpsert(w) == run[w].stale \cap Batch(w)
PutCatalog(w, ids) ==
  /\ catalog' = [id \in Ids |-> IF id \in ids THEN Incoming(w)[id].meta ELSE catalog[id]]
  /\ UNCHANGED <<historyVars, priceVars, snapshots>>

Steady == UNCHANGED <<content, landed, clock, torn, faults, crashes>>

UpsertPrices(w) ==
  /\ run[w].pc = "price"
  /\ PutPrices(w)
  /\ MoveTo(w, "snapshot")
  /\ Steady

InsertSnapshots(w) ==
  /\ run[w].pc = "snapshot"
  /\ PutSnapshots(w)
  /\ torn' = torn \ run[w].observe
  /\ MoveTo(w, "close")
  /\ UNCHANGED <<content, landed, clock, faults, crashes>>

CloseVersions(w) ==
  /\ run[w].pc = "close" /\ ~EndsBeforeItBegan(w)
  /\ PutClosed(w)
  /\ MoveTo(w, "insert")
  /\ Steady

InsertVersions(w) ==
  /\ run[w].pc = "insert" /\ ~HasCurrent(w)
  /\ PutVersions(w)
  /\ Move(w, AfterHistory(run[w], run[w].failed))
  /\ Steady

(* The database refuses the statement, whatever is tried.                   *)
Rejected(w) ==
  /\ \/ run[w].pc = "close" /\ EndsBeforeItBegan(w)
     \/ run[w].pc = "insert" /\ HasCurrent(w)
  /\ Move(w, AfterHistory(run[w], TRUE))
  /\ UNCHANGED tables /\ Steady

UpsertCatalog(w) ==
  /\ run[w].pc = "catalog"
  /\ PutCatalog(w, ToUpsert(w))
  /\ Move(w, AfterCatalog(run[w], run[w].failed))
  /\ Steady

(* A request fails, before or after the database did what it asks.          *)
HistoryRequestFails(w) ==
  /\ faults < MaxFaults /\ faults' = faults + 1
  /\ \/ run[w].pc = "lookup" /\ UNCHANGED <<tables, torn>>
     \/ /\ run[w].pc = "price" /\ run[w].upsert # {}
        /\ \/ PutPrices(w) /\ torn' = torn \cup run[w].observe
           \/ UNCHANGED <<tables, torn>>
     \/ /\ run[w].pc = "snapshot" /\ run[w].observe # {}
        /\ \/ PutSnapshots(w) /\ torn' = torn \ run[w].observe
           \/ torn' = torn \cup run[w].observe /\ UNCHANGED tables
     \/ /\ run[w].pc = "close" /\ run[w].close # {} /\ ~EndsBeforeItBegan(w)
        /\ PutClosed(w) \/ UNCHANGED tables
        /\ UNCHANGED torn
     \/ /\ run[w].pc = "insert" /\ run[w].insert # {} /\ ~HasCurrent(w)
        /\ PutVersions(w) \/ UNCHANGED tables
        /\ UNCHANGED torn
  /\ Move(w, AfterHistory(run[w], TRUE))
  /\ UNCHANGED <<content, landed, clock, crashes>>

CatalogRequestFails(w) ==
  /\ run[w].pc = "catalog" /\ ToUpsert(w) # {}
  /\ faults < MaxFaults /\ faults' = faults + 1
  /\ \E ids \in SUBSET ToUpsert(w) : PutCatalog(w, ids)
  /\ Move(w, AfterCatalog(run[w], TRUE))
  /\ UNCHANGED <<content, landed, clock, torn, crashes>>

(* write_catalog_rows returned True for the file.                           *)
Land(w) ==
  /\ run[w].pc = "landed"
  /\ landed' = landed \cup {run[w].file}
  /\ Move(w, Idle)
  /\ UNCHANGED <<content, tables, clock, torn, faults, crashes>>

Crash(w) ==
  /\ run[w].pc # "idle" /\ crashes < MaxCrashes
  /\ crashes' = crashes + 1
  /\ torn' = IF run[w].pc = "snapshot" THEN torn \cup run[w].observe ELSE torn
  /\ Move(w, Idle)
  /\ UNCHANGED <<content, tables, landed, clock, faults>>

Works(w) ==
  \/ LookupVersions(w) \/ LookupPrices(w) \/ LookupMetadata(w)
  \/ UpsertPrices(w) \/ InsertSnapshots(w) \/ CloseVersions(w) \/ InsertVersions(w)
  \/ Rejected(w) \/ UpsertCatalog(w) \/ Land(w)

Next ==
  \E w \in Writers :
    \/ Works(w) \/ HistoryRequestFails(w) \/ CatalogRequestFails(w) \/ Crash(w)
    \/ \E f \in Files : Start(w, f)

Spec == Init /\ [][Next]_vars

(* A run that lives goes on, and a file that has not landed is taken up     *)
(* again by the next run of its job.                                        *)
Fairness ==
  /\ \A w \in Writers : WF_vars(Works(w))
  /\ \A f \in Files : WF_vars(\E w \in Writers : Start(w, f))

FairSpec == Spec /\ Fairness

-----------------------------------------------------------------------------
(* Properties.                                                             *)

Pcs == {"idle", "lookup", "price", "snapshot", "close", "insert", "catalog", "landed"}

RunRecord ==
  [pc : Pcs, file : Files \cup {NoFile}, stamp : 0..MaxStarts, attempt : 0..Attempts,
   batch : 0..Len(SubBatches), failed : BOOLEAN, asked : SUBSET Gates,
   close : SUBSET Ids, insert : SUBSET Ids, upsert : SUBSET Ids, observe : SUBSET Ids,
   stale : SUBSET Ids]

(* Types; a run that works has a file and a sub-batch.                      *)
TypeOK ==
  /\ content \in [Files -> [Ids -> Row]]
  /\ current \in [Ids -> Metas \cup {None}]
  /\ validFrom \in [Ids -> 0..MaxStarts]
  /\ catalog \in [Ids -> Metas \cup {None}]
  /\ price \in [Ids -> Prices \cup {None}]
  /\ priceKeys \in [Ids -> Keys \cup {None}]
  /\ snapshots \subseteq [id : Ids, at : 0..MaxStarts, price : Prices]
  /\ landed \subseteq Files
  /\ clock \in 0..MaxStarts
  /\ run \in [Writers -> RunRecord]
  /\ \A w \in Writers : run[w].pc # "idle" =>
       run[w].file \in Files /\ run[w].batch \in DOMAIN SubBatches
  /\ torn \subseteq Ids
  /\ faults \in 0..MaxFaults
  /\ crashes \in 0..MaxCrashes

(* Every table says of a product what the file says.                        *)
Holds(f, id) ==
  /\ current[id] = content[f][id].meta
  /\ catalog[id] = content[f][id].meta
  /\ price[id] = content[f][id].price
  /\ priceKeys[id] = KeyOf[content[f][id].meta]

LandsUpToDate == \A f \in landed' \ landed : \A id \in Ids : Holds(f, id)

(* A run that is alone and reports success has brought all tables up to     *)
(* date with its file, however its requests and those of earlier runs       *)
(* failed: no gate takes one table's state for another's ("a permanently    *)
(* missed write", import_pricecharting_catalog.py:1268-1269).               *)
LandsInFull == [][LandsUpToDate]_vars

(* The newest snapshot of a product.                                        *)
Newest(id, s) ==
  s \in snapshots /\ s.id = id /\ \A t \in snapshots : t.id = id => t.at <= s.at
Agrees(id) == price[id] # None => \E s \in snapshots : Newest(id, s) /\ s.price = price[id]

Unsettled(w) == IF run[w].pc = "snapshot" THEN run[w].observe ELSE {}

(* "A current row and its newest snapshot agree" (migration 20260909) as    *)
(* long as no run was cut off between the two requests that make them: no   *)
(* other failure, in any order, loses a price from the history.             *)
AgreesUnlessTorn ==
  \A id \in Ids \ torn : (\A w \in Writers : id \notin Unsettled(w)) => Agrees(id)

(* "Clean retry redoes both sides" (test_import_pricecharting_catalog.py,   *)
(* test_J): once a file landed, the price it brought is in the history.     *)
SnapshotsAgree == (\A w \in Writers : run[w].pc = "idle") =>
  \A f \in landed : \A id \in Ids :
    price[id] = content[f][id].price => Agrees(id)

(* No failure leaves a file that can never land: closing and inserting      *)
(* versions, cut anywhere, is taken up where it stopped.                    *)
EveryFileLands == \A f \in Files : <>(f \in landed)
=============================================================================
