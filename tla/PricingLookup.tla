--------------------------- MODULE PricingLookup ---------------------------
(***************************************************************************)
(* How an item is priced that the catalog does not know: the shared cache  *)
(* pricing_cache_entries (shared_cache_repository.py, cache_policy.py) in  *)
(* front of the providers (provider_factory.py, aggregation_service.py),   *)
(* each with a cache in memory and throttles that refuse instead of        *)
(* waiting (cache.py), KicksDB with a copy of its local catalog besides    *)
(* (kicksdb_catalog_matcher.py). Scans (api_analyze.py) and repricings     *)
(* (reprice_service.py) run in threads; a daily job promotes entries into  *)
(* the catalog (promote_scan_derived_catalog.py).                          *)
(*                                                                         *)
(* The module follows one normalized identity, hence one cache key. Of a   *)
(* price it only keeps how old it is: since the provider gave it or, when  *)
(* it comes from the local catalog, since that table was read. What a row  *)
(* says may itself be of any age: the daily backfill writes only the rows  *)
(* that KicksDB lists otherwise. A tick is the shortest of the times       *)
(* to live; the intervals of the throttles are far shorter. Requests time  *)
(* out, so none lasts for more than a tick. The providers quote one        *)
(* currency, and the recognition is sure enough for a lookup.              *)
(***************************************************************************)
EXTENDS Integers, Sequences, FiniteSets

CONSTANTS
  Lookups,       \* threads that may look up the identity at a time
  Chain,         \* providers configured for it, as preferred
  Requests,      \* requests a lookup may need of each
  Catalogued,    \* those asked of the local catalog first
  MemTtl,        \* pricing_cache_ttl_seconds
  CatalogTtl,    \* DEFAULT_CACHE_TTL_SECONDS of the copy of the catalog
  FailTtl,       \* ttl_seconds of lookup_failed,
  MarketTtl,     \* of a price, or that there is none,
  LongTtl,       \* of provider_not_configured
  MaxFaults      \* bound: failures, and requests of other identities

Providers == {Chain[n] : n \in DOMAIN Chain}

ASSUME PricingLookupAssumption ==
  /\ Chain \in Seq(Providers) /\ Chain # <<>>
  /\ Requests \in [Providers -> Nat \ {0}]
  /\ Catalogued \subseteq Providers
  /\ {MemTtl, CatalogTtl, FailTtl, MarketTtl, LongTtl} \subseteq Nat \ {0}
  /\ MaxFaults \in Nat

VARIABLES
  mode,       \* PRICING_PROVIDER: "aggregate" (or "auto"), or one provider's name
  entry,      \* the row of the cache, unless expired
  memory,     \* the cache of each provider
  shelf,      \* the copy of the local catalog: its age, and a price for the identity
  open,       \* providers whose throttles have the interval behind them
  look,       \* the lookups
  promoted,   \* the identity has its row in the catalog
  faults

vars == <<mode, entry, memory, shelf, open, look, promoted, faults>>

NoAge == -1
NoEntry == [status |-> "none", left |-> 0, age |-> NoAge, extra |-> 0]
NoPrice == [left |-> 0, age |-> NoAge, extra |-> 0]
NoShelf == [age |-> NoAge, knows |-> FALSE]
Idle == [pc |-> "idle", at |-> 1, asked |-> 0, oldest |-> NoAge, extra |-> 0,
         error |-> "none", lag |-> 0, blind |-> FALSE, raced |-> FALSE]

Init ==
  /\ mode \in {"aggregate", "named"}
  /\ entry = NoEntry
  /\ memory = [p \in Providers |-> NoPrice]
  /\ shelf = NoShelf
  /\ open = Providers
  /\ look = [l \in Lookups |-> Idle]
  /\ promoted = FALSE
  /\ faults = 0

Work == UNCHANGED faults
Fault == faults < MaxFaults /\ faults' = faults + 1

Move(l, r) == look' = [look EXCEPT ![l] = r]
At(l, pc) == look[l].pc = pc

-----------------------------------------------------------------------------
(* The world.                                                               *)

(* min_interval_ms after a request.                                         *)
IntervalPasses(p) ==
  /\ p \notin open
  /\ open' = open \cup {p}
  /\ UNCHANGED <<mode, entry, memory, shelf, look, promoted>>
  /\ Work

(* A lookup of another identity, or one of another worker.                  *)
OthersAsk(p) ==
  /\ p \in open
  /\ open' = open \ {p}
  /\ UNCHANGED <<mode, entry, memory, shelf, look, promoted>>
  /\ Fault

Older(age) == IF age = NoAge THEN NoAge ELSE age + 1
Aged(price) ==
  IF price.left > 1
  THEN [left |-> price.left - 1, age |-> price.age + 1, extra |-> price.extra]
  ELSE NoPrice

(* candidates: a copy just as old as its time to live still serves.         *)
Shelved == IF shelf.age \in 0..(CatalogTtl - 1) THEN [shelf EXCEPT !.age = @ + 1] ELSE NoShelf

\* Mutant: only prices expire.
FailureLasts ==
  IF entry.left > 1 THEN [entry EXCEPT !.left = @ - 1, !.age = Older(@)]
  ELSE IF entry.age = NoAge THEN entry ELSE NoEntry

Later == IF entry.left > 1 THEN [entry EXCEPT !.left = @ - 1, !.age = Older(@)] ELSE NoEntry

(* Nothing that is under way outlasts a tick.                               *)
Tick ==
  /\ \A l \in Lookups : look[l].lag = 0
  /\ entry' = Later
  /\ memory' = [p \in Providers |-> Aged(memory[p])]
  /\ shelf' = Shelved
  /\ open' = Providers
  /\ look' = [l \in Lookups |->
       IF At(l, "idle") THEN look[l]
       ELSE [look[l] EXCEPT !.oldest = Older(@), !.lag = 1]]
  /\ UNCHANGED <<mode, promoted>>
  /\ Work

-----------------------------------------------------------------------------
(* A lookup reads the shared cache.                                         *)

First == IF mode = "aggregate" THEN 1 ELSE Len(Chain)

(* By a scan or by a repricing.                                             *)
Asks(l) ==
  /\ At(l, "idle")
  /\ Move(l, [Idle EXCEPT !.pc = "get", !.at = First])
  /\ UNCHANGED <<mode, entry, memory, shelf, open, promoted>>
  /\ Work

\* Mutant: a price is only used for as long as a failure is.
ServedBriefly(l) == entry.status # "none" /\ entry.left > MarketTtl - FailTtl

(* SharedPricingCacheRepository.get: an entry that has not expired.         *)
Served(l) == entry.status # "none"

(* It answers. hit_count goes up, which is left out.                        *)
CacheHit(l) ==
  /\ At(l, "get") /\ Served(l)
  /\ Move(l, Idle)
  /\ UNCHANGED <<mode, entry, memory, shelf, open, promoted>>
  /\ Work

CacheMiss(l) ==
  /\ At(l, "get") /\ ~Served(l)
  /\ Move(l, [look[l] EXCEPT !.pc = "try"])
  /\ UNCHANGED <<mode, entry, memory, shelf, open, promoted>>
  /\ Work

(* A cache that cannot be read is no reason not to look further.            *)
CacheUnread(l) ==
  /\ At(l, "get")
  /\ Move(l, [look[l] EXCEPT !.pc = "try", !.blind = TRUE])
  /\ UNCHANGED <<mode, entry, memory, shelf, open, promoted>>
  /\ Fault

-----------------------------------------------------------------------------
(* The providers, one after the other.                                      *)

Provider(l) == Chain[look[l].at]
Remembered(l) == memory[Provider(l)].left > 0

(* PricingAggregationService.price goes on, whatever the last one said; one *)
(* that was asked by its name is the last.                                  *)
Passed(r) ==
  [r EXCEPT !.at = IF @ = Len(Chain) THEN @ ELSE @ + 1,
            !.pc = IF r.at = Len(Chain) THEN "set" ELSE "try",
            !.asked = 0]

(* Of several prices, the oldest gives the age of what is made of them.     *)
(* extra: what the copy of the catalog may add to that, if one is of it.    *)
WithPrice(r, age, extra) ==
  [r EXCEPT !.extra = IF extra > @ THEN extra ELSE @,
            !.oldest = IF age > @ THEN age ELSE @,
            !.error = "none", !.blind = FALSE, !.raced = FALSE]
Gets(l, age, extra) == Move(l, Passed(WithPrice(look[l], age, extra)))

(* The aggregation turns every error into EmptyMarketDataError, unless it   *)
(* has a price; a provider that was asked by its name raises its own.       *)
Raised(error) == IF mode = "aggregate" THEN "empty" ELSE error
Fails(l, error) ==
  Move(l, Passed([look[l] EXCEPT !.error = IF look[l].oldest = NoAge THEN Raised(error) ELSE @]))

\* Mutant: a hit in memory renews what it finds.
RememberOnHit(p) == memory' = [memory EXCEPT ![p].left = MemTtl]

(* InMemoryPricingCache.get.                                                *)
Recalled(p) == UNCHANGED memory

MemoryHit(l) ==
  /\ At(l, "try") /\ Remembered(l)
  /\ Gets(l, memory[Provider(l)].age, memory[Provider(l)].extra)
  /\ Recalled(Provider(l))
  /\ UNCHANGED <<mode, entry, shelf, open, promoted>>
  /\ Work

Remember(p, age, extra) ==
  memory' = [memory EXCEPT ![p] = [left |-> MemTtl, age |-> age, extra |-> extra]]

-----------------------------------------------------------------------------
(* The local catalog, of which the process holds a copy.                    *)

AsksCatalog(l) == At(l, "try") /\ ~Remembered(l) /\ Provider(l) \in Catalogued

(* _load_rows: the copy has a price for the identity or none; it is empty   *)
(* when the load failed, and is held for as long.                           *)
LoadRows ==
  /\ shelf = NoShelf
  /\ \E knows \in BOOLEAN : shelf' = [age |-> 0, knows |-> knows]
  /\ UNCHANGED <<mode, entry, memory, open, look, promoted>>

CatalogLoads(l) == AsksCatalog(l) /\ LoadRows /\ Work

(* For a lookup of another identity.                                        *)
OthersLoad == Catalogued # {} /\ LoadRows /\ Fault

(* KicksDBPricingProvider._catalog_price; its price is remembered like one  *)
(* of now.                                                                  *)
CatalogKnows(l) ==
  /\ AsksCatalog(l) /\ shelf.knows
  /\ Gets(l, shelf.age, CatalogTtl)
  /\ Remember(Provider(l), shelf.age, CatalogTtl)
  /\ UNCHANGED <<mode, entry, shelf, open, promoted>>
  /\ Work

CatalogLacks(l) ==
  /\ AsksCatalog(l) /\ shelf # NoShelf /\ ~shelf.knows
  /\ Move(l, [look[l] EXCEPT !.pc = "ask"])
  /\ UNCHANGED <<mode, entry, memory, shelf, open, promoted>>
  /\ Work

-----------------------------------------------------------------------------
(* A request to a provider.                                                 *)

MayAsk(l) ==
  \/ At(l, "ask")
  \/ At(l, "try") /\ ~Remembered(l) /\ Provider(l) \notin Catalogued

(* acquire, of the throttle of the process and then of that of the          *)
(* database; their intervals are the same.                                  *)
Sends(l) ==
  /\ MayAsk(l) /\ Provider(l) \in open
  /\ open' = open \ {Provider(l)}
  /\ Move(l, [look[l] EXCEPT !.pc = "sent", !.asked = @ + 1])
  /\ UNCHANGED <<mode, entry, memory, shelf, promoted>>
  /\ Work

(* One of them refuses and does not wait: PricingProviderRateLimitError; as *)
(* it does when the database cannot be asked, after the process has marked  *)
(* its own.                                                                 *)
Throttled(l) ==
  /\ MayAsk(l) /\ Provider(l) \notin open
  /\ Fails(l, "busy")
  /\ UNCHANGED <<mode, entry, memory, shelf, open, promoted>>
  /\ Work

GateUnasked(l) ==
  /\ MayAsk(l) /\ Provider(l) \in open
  /\ open' = open \ {Provider(l)}
  /\ Fails(l, "busy")
  /\ UNCHANGED <<mode, entry, memory, shelf, promoted>>
  /\ Fault

(* A price, or EmptyMarketDataError.                                        *)
Answered(l) ==
  /\ At(l, "sent")
  /\ Gets(l, 0, 0)
  /\ Remember(Provider(l), 0, 0)
  /\ UNCHANGED <<mode, entry, shelf, open, promoted>>
  /\ Work

Empty(l) ==
  /\ At(l, "sent")
  /\ Fails(l, "empty")
  /\ UNCHANGED <<mode, entry, memory, shelf, open, promoted>>
  /\ Work

(* KicksDB: no match by the SKU, or one without prices, and another request *)
(* through the throttle.                                                    *)
AsksOn(l) ==
  /\ At(l, "sent") /\ look[l].asked < Requests[Provider(l)]
  /\ Move(l, [look[l] EXCEPT !.pc = "ask"])
  /\ UNCHANGED <<mode, entry, memory, shelf, open, promoted>>
  /\ Work

(* A timeout or a 429; no connection, a 5xx or a refused key; anything else.*)
Refused(l, error) ==
  /\ At(l, "sent") /\ error \in {"busy", "unavailable", "other"}
  /\ Fails(l, error)
  /\ UNCHANGED <<mode, entry, memory, shelf, open, promoted>>
  /\ Fault

-----------------------------------------------------------------------------
(* What came of it goes to the shared cache.                                *)

(* _price_recognition: what is served says what became of it.               *)
StatusOf(r) ==
  IF r.oldest # NoAge THEN "market_estimated"
  ELSE IF r.error = "empty" THEN "no_market_match"
  ELSE IF r.error = "unavailable" THEN "provider_not_configured"
  ELSE "lookup_failed"

(* RateLimitError and TimeoutError pass through a repricing.                *)
MayRaise(r) == r.error = "busy"

(* pricing_cache_policy.                                                    *)
Ttl(status) ==
  CASE status = "provider_not_configured" -> LongTtl
    [] status = "lookup_failed" -> FailTtl
    [] OTHER -> MarketTtl

\* Mutant: the entry says that its price is of now.
EntryAsNew(r) ==
  [status |-> StatusOf(r), left |-> Ttl(StatusOf(r)), age |-> 0, extra |-> r.extra]

EntryOf(r) ==
  [status |-> StatusOf(r), left |-> Ttl(StatusOf(r)), age |-> r.oldest, extra |-> r.extra]

Ends(l) == Move(l, Idle)

(* The upsert of the row.                                                   *)
Write(l) ==
  /\ entry' = EntryOf(look[l])
  /\ look' = [m \in Lookups |->
       IF m = l THEN Idle
       ELSE [look[m] EXCEPT !.raced = @ \/
               (look[l].oldest # NoAge /\ look[m].oldest = NoAge /\ ~At(m, "idle") /\ ~At(m, "get"))]]

CacheSet(l) ==
  /\ At(l, "set")
  /\ Write(l)
  /\ UNCHANGED <<mode, memory, shelf, open, promoted>>
  /\ Work

(* SharedPricingCacheError, whether or not the row was written.             *)
CacheUnwritten(l) ==
  /\ At(l, "set")
  /\ \/ Write(l)
     \/ Ends(l) /\ UNCHANGED entry
  /\ UNCHANGED <<mode, memory, shelf, open, promoted>>
  /\ Fault

(* A repricing leaves it to its caller to try again.                        *)
Raises(l) ==
  /\ At(l, "set") /\ MayRaise(look[l])
  /\ Ends(l)
  /\ UNCHANGED <<mode, entry, memory, shelf, open, promoted>>
  /\ Work

-----------------------------------------------------------------------------
(* promote_scan_derived_rows.                                               *)

(* fetch_candidates: with a price, not expired, and served often enough,    *)
(* which it may be from the first.                                          *)
Candidate == entry.status = "market_estimated"

(* What is promoted already is left alone, however it is priced since. A    *)
(* write that fails is left for tomorrow.                                   *)
Promote ==
  /\ Candidate /\ ~promoted
  /\ promoted' = TRUE
  /\ UNCHANGED <<mode, entry, memory, shelf, open, look>>
  /\ Work

-----------------------------------------------------------------------------
Step(l) ==
  \/ CacheHit(l) \/ CacheMiss(l) \/ MemoryHit(l)
  \/ CatalogLoads(l) \/ CatalogKnows(l) \/ CatalogLacks(l)
  \/ Sends(l) \/ Throttled(l) \/ Answered(l) \/ Empty(l) \/ AsksOn(l)
  \/ CacheSet(l) \/ Raises(l)

Next ==
  \/ Tick \/ Promote \/ OthersLoad
  \/ \E p \in Providers : IntervalPasses(p) \/ OthersAsk(p)
  \/ \E l \in Lookups :
       \/ Asks(l) \/ Step(l) \/ CacheUnread(l) \/ CacheUnwritten(l) \/ GateUnasked(l)
       \/ \E error \in {"busy", "unavailable", "other"} : Refused(l, error)

Spec == Init /\ [][Next]_vars

(* Scans and sweeps come again, a request ends, time passes, a lookup is    *)
(* not for ever refused when others are not, and who asks providers again   *)
(* and again is quoted a price at last.                                     *)
Fairness ==
  /\ WF_vars(Tick)
  /\ \A p \in Providers : WF_vars(IntervalPasses(p))
  /\ \A l \in Lookups :
       /\ WF_vars(Asks(l))
       /\ WF_vars(Step(l))
       /\ SF_vars(Sends(l))
       /\ SF_vars(Answered(l))

FairSpec == Spec /\ Fairness
-----------------------------------------------------------------------------
(* Properties.                                                             *)

Extras == {0, CatalogTtl}
Ages == -1..(MemTtl + CatalogTtl + MarketTtl)
Statuses == {"market_estimated", "no_market_match", "lookup_failed", "provider_not_configured"}

(* Types; and an entry says "market_estimated" just when it has a price.    *)
TypeOK ==
  /\ mode \in {"aggregate", "named"}
  /\ entry \in [status : Statuses \cup {"none"}, left : Nat, age : Ages, extra : Extras]
  /\ (entry.status = "market_estimated") <=> (entry.age # NoAge)
  /\ memory \in [Providers -> [left : 0..MemTtl, age : Ages, extra : Extras]]
  /\ shelf \in [age : -1..CatalogTtl, knows : BOOLEAN]
  /\ open \subseteq Providers
  /\ look \in [Lookups ->
       [pc : {"idle", "get", "try", "ask", "sent", "set"},
        at : DOMAIN Chain, asked : Nat, oldest : Ages, extra : Extras,
        error : {"none", "empty", "busy", "unavailable", "other"},
        lag : {0, 1}, blind : BOOLEAN, raced : BOOLEAN]]
  /\ promoted \in BOOLEAN
  /\ faults \in 0..MaxFaults

(* Caches in a row: a price is served, or promoted, no later after the      *)
(* provider gave it than the times to live of the provider's memory and of  *)
(* the shared cache together; one of the local catalog no later than those  *)
(* two and that of its copy after the table was read.                       *)
PricesFresh ==
  entry.status = "market_estimated" => entry.age + entry.left <= MemTtl + entry.extra + MarketTtl

(* A price that has not expired is overwritten by a failure only by a       *)
(* lookup that began before the price was written, or could not read it:    *)
(* the last to finish wins.                                                 *)
Overwritten ==
  entry.status = "market_estimated" /\ entry'.status \in Statuses \ {"market_estimated"}
Excused == \E l \in Lookups : At(l, "set") /\ (look[l].raced \/ look[l].blind)
Stands == Overwritten => Excused
PriceStands == [][Stands]_vars

(* The item has a price again and again, however many lookups were          *)
(* throttled before and cached that there is none.                          *)
PricedInTheEnd == []<>(entry.status = "market_estimated")
=============================================================================
